------------------------------- MODULE MacTap -------------------------------
(***************************************************************************)
(* The macOS event tap (app/src/platform/macos: mod.rs, health.rs,         *)
(* dispatch.rs, emit.rs, permission.rs).  Everything runs on one run loop: *)
(* the tap callback, the health timer, the activation observer and the     *)
(* window that records a hotkey.  What a key means to the session is       *)
(* decided in Typing; here it is one of a few decisions.                   *)
(***************************************************************************)
EXTENDS Naturals, FiniteSets

CONSTANTS
  Apps, Own, NoApp,       (* bundle identifiers, GlowKey's own; not known yet *)
  Hotkeys,                (* what the mode toggle can be set to               *)
  BeforeWarning,          (* HEALTH_FAILURES_BEFORE_WARNING                   *)
  BeforeGivingUp,         (* HEALTH_FAILURES_BEFORE_GIVING_UP                 *)
  RunawayLimit,           (* RUNAWAY_LIMIT, emits in RUNAWAY_WINDOW           *)
  Worlds                  (* the sets of Troubles to reckon with              *)

(* What may go wrong around the program: a disabled tap that gets no event, *)
(* an activation nobody announces, edits faster than the breaker allows.    *)
Troubles == {"silent", "unannounced", "runaway"}

ASSUME MacTapAssumption ==
  /\ Own \in Apps /\ NoApp \notin Apps
  /\ BeforeWarning \in Nat /\ BeforeGivingUp \in Nat /\ RunawayLimit \in Nat
  /\ 0 < BeforeWarning /\ BeforeWarning < BeforeGivingUp
  /\ Worlds \subseteq SUBSET Troubles

VARIABLES
  world,      (* which troubles this one has, for good                        *)
  phase,      (* "gate" while waiting for the permission, "running", "ended"  *)
  trusted,    (* AXIsProcessTrusted                                           *)
  port,       (* the event tap: see Ports                                     *)
  notice,     (* a tap-disabled event waits in the port                       *)
  failures,   (* consecutive failed health checks                             *)
  dead,       (* TAP_DEAD                                                     *)
  warned,     (* the menu bar shows the warning glyph                         *)
  recent,     (* a key came less than HEALTH_SKIP_AFTER_KEYSTROKE ago         *)
  word,       (* the session remembers the text before the caret              *)
  behind,     (* and the document has changed without it                      *)
  front,      (* the application in front                                     *)
  told,       (* its activation is announced and not handled                  *)
  app,        (* last_bundle_id, which the session's current_app follows      *)
  recording,  (* recording_hotkey                                             *)
  hotkey,     (* prefs.toggle_hotkey                                          *)
  stored,     (* and what the settings file has                               *)
  emits,      (* recent_emits                                                 *)
  latched,    (* DISABLED                                                     *)
  last        (* the last key: what was decided, and what the document got    *)

health == <<failures, dead, warned>>
text == <<word, behind>>
place == <<front, told, app>>
recorder == <<recording, hotkey, stored>>
breaker == <<emits, latched, last>>
vars == <<world, phase, trusted, port, notice, health, recent, text, place, recorder,
          breaker>>

(* No tap; a working one; one the system disabled; one whose grant has      *)
(* gone, which no enabling brings back.                                     *)
Ports == {"none", "on", "off", "void"}

(* What the policy may decide: let the key through, swallow it, swallow it  *)
(* for an edit, and that with the key replayed after the edit.              *)
Decisions == {"passthrough", "consume", "emit", "emit_then_replay"}
Edits == {"emit", "emit_then_replay"}

Running == phase = "running"

-----------------------------------------------------------------------------
(* TapState.                                                                *)

(* TapState::flush: the word goes, and so does an armed recorder.           *)
Flush ==
  /\ word' = FALSE /\ behind' = FALSE
  /\ recording' = FALSE
  /\ UNCHANGED <<hotkey, stored>>

(* A key or a click that the tap never saw.                                 *)
Unseen ==
  /\ behind' = (word \/ behind)
  /\ UNCHANGED <<word, recorder>>

(* Session::set_frontmost_app forgets the position.                         *)
SessionMovesTo(a) == app' = a /\ word' = FALSE /\ behind' = FALSE

(* Slip: the recorder is left to whatever comes next.                       *)
MoveKeepingTheRecorder(a) == SessionMovesTo(a) /\ UNCHANGED recorder

(* TapState::set_frontmost_app.                                             *)
SetFrontmostApp(a) ==
  /\ SessionMovesTo(a)
  /\ recording' = (recording /\ a = Own)
  /\ UNCHANGED <<hotkey, stored>>

-----------------------------------------------------------------------------
(* Start-up: the permission gate, then the tap.                             *)

Init ==
  /\ world \in Worlds
  /\ phase = "gate" /\ trusted \in BOOLEAN
  /\ port = "none" /\ notice = FALSE
  /\ failures = 0 /\ dead = FALSE /\ warned = FALSE
  /\ recent = FALSE /\ word = FALSE /\ behind = FALSE
  /\ front \in Apps /\ told = FALSE /\ app = NoApp
  /\ recording = FALSE /\ hotkey \in Hotkeys /\ stored = hotkey
  /\ emits = 0 /\ latched = FALSE /\ last = <<"passthrough", "itself">>

(* create_tap: the old tap is retired first, and the new one may not come.  *)
CreateTap(created) ==
  /\ port' = IF created THEN "on" ELSE "none"
  /\ notice' = FALSE

(* run: wait_for_accessibility, create_tap, install_health_timer.           *)
Start(created) ==
  /\ phase = "gate" /\ trusted
  /\ CreateTap(created)
  /\ phase' = IF created THEN "running" ELSE "ended"
  /\ UNCHANGED <<world, trusted, health, recent, text, place, recorder, breaker>>

QuitAtTheGate ==
  /\ phase = "gate" /\ ~trusted
  /\ phase' = "ended"
  /\ UNCHANGED <<world, trusted, port, notice, health, recent, text, place, recorder,
                 breaker>>

-----------------------------------------------------------------------------
(* The tap callback.                                                        *)

(* What CGEventTapEnable does to the port.                                  *)
EnablePort == port' = IF port = "off" THEN "on" ELSE port

TapDisabledEvent ==
  /\ Running /\ notice
  /\ EnablePort
  /\ notice' = FALSE
  /\ Flush
  /\ UNCHANGED <<world, phase, trusted, health, recent, place, breaker>>

MouseDown ==
  /\ Running
  /\ IF port = "on" THEN ~notice /\ Flush ELSE Unseen
  /\ UNCHANGED <<world, phase, trusted, port, notice, health, recent, place, breaker>>

(* circuit_ok and emit_edit: whether the edit is posted.                    *)
CircuitOk == ~latched /\ emits < RunawayLimit

EmitEdit ==
  /\ "runaway" \in world \/ emits < RunawayLimit
  /\ emits' = IF CircuitOk THEN emits + 1 ELSE emits
  /\ latched' = ~CircuitOk

(* A recording that ended, with or without a hotkey, is saved.              *)
SaveIfRecorded == stored' = IF recording' THEN stored ELSE hotkey'

(* capture_hotkey, one key while the recorder is armed.                     *)
CaptureHotkey(d) ==
  \/ /\ d = "passthrough"
     /\ UNCHANGED recorder
  \/ /\ d = "consume"     (* Escape, a reserved combination, or the hotkey    *)
     /\ \/ recording' = FALSE /\ hotkey' = hotkey
        \/ recording' = TRUE /\ hotkey' = hotkey
        \/ recording' = FALSE /\ hotkey' \in Hotkeys
     /\ SaveIfRecorded

(* The document got a key or an edit: the session is as wrong as before, or *)
(* wrong now if the edit it counts on was dropped.                          *)
Answered(d, got) ==
  /\ last' = <<d, got>>
  /\ word' \in BOOLEAN
  /\ behind' = (word' /\ app # NoApp /\ (behind \/ (d \in Edits /\ got = "nothing")))

(* The policy has the key: its edit is posted if the breaker allows it.     *)
PolicyKey(d) ==
  /\ IF d \in Edits
     THEN EmitEdit /\ Answered(d, IF CircuitOk THEN "edit" ELSE "nothing")
     ELSE /\ Answered(d, IF d = "passthrough" THEN "itself" ELSE "nothing")
          /\ UNCHANGED <<emits, latched>>
  /\ UNCHANGED recorder

(* The recorder has the key: the session never hears of it.                 *)
RecorderKey(d) ==
  /\ CaptureHotkey(d)
  /\ last' = <<d, IF d = "passthrough" THEN "itself" ELSE "nothing">>
  /\ word' = (word /\ app # NoApp)
  /\ behind' = (word' /\ (behind \/ d = "passthrough"))
  /\ UNCHANGED <<emits, latched>>

(* handle_key_down.  The application in front is asked for on the first key *)
(* only, before the recorder or the policy sees it.                         *)
KeyDown(d) ==
  /\ Running /\ port = "on" /\ ~notice
  /\ recent' = TRUE
  /\ app' = IF app = NoApp THEN front ELSE app
  /\ IF recording THEN RecorderKey(d) ELSE PolicyKey(d)
  /\ UNCHANGED <<world, phase, trusted, port, notice, health, front, told>>

-----------------------------------------------------------------------------
(* The health timer, every HEALTH_CHECK_SECONDS.                            *)

(* Slip: the gap is logged and the session keeps its word.                  *)
LogTheGap == UNCHANGED <<text, recorder>>

FlushAfterGap == Flush

(* Slip: the idle check trusts the notifications.                           *)
TrustTheNotifications == UNCHANGED <<app, text>>

(* refresh_frontmost_if_idle: not TapState::set_frontmost_app, so an armed  *)
(* recorder stays armed.                                                    *)
RefreshFrontmostIfIdle ==
  IF app = front THEN UNCHANGED <<app, text>> ELSE SessionMovesTo(front)

CheckHealthy ==
  /\ port = "on"
  /\ failures' = 0 /\ dead' = FALSE /\ warned' = FALSE
  /\ IF dead
     THEN FlushAfterGap /\ app' = front
     ELSE RefreshFrontmostIfIdle /\ UNCHANGED recorder
  /\ UNCHANGED <<port, notice>>

OneMoreFailure ==
  failures' = IF failures < BeforeGivingUp THEN failures + 1 ELSE failures

(* Slip: the timer goes on enabling for as long as it takes.                *)
NeverGiveUp == FALSE

GiveUp == failures' >= BeforeGivingUp

(* Disabled while trusted: enable the same port, and give up after a while. *)
CheckReenables ==
  /\ port # "on" /\ trusted /\ ~dead
  /\ OneMoreFailure
  /\ EnablePort
  /\ IF GiveUp
     THEN dead' = TRUE /\ warned' = TRUE /\ FlushAfterGap
     ELSE UNCHANGED <<dead, warned, text, recorder>>
  /\ UNCHANGED <<notice, app>>

(* Slip: a returning grant enables the port that was made under the old one.*)
ReenableInsteadOfRebuilding(created) ==
  /\ port # "on" /\ trusted /\ dead
  /\ EnablePort
  /\ OneMoreFailure
  /\ UNCHANGED <<notice, dead, warned, app, text, recorder>>

(* The permission is back: a new tap, because the old port is of no use.    *)
CheckRebuilds(created) ==
  /\ port # "on" /\ trusted /\ dead
  /\ CreateTap(created)
  /\ IF created
     THEN /\ failures' = 0 /\ dead' = FALSE /\ warned' = FALSE
          /\ FlushAfterGap
     ELSE /\ OneMoreFailure
          /\ UNCHANGED <<dead, warned, text, recorder>>
  /\ UNCHANGED app

CheckRevoked ==
  /\ port # "on" /\ ~trusted
  /\ OneMoreFailure
  /\ dead' = (dead \/ failures' >= BeforeWarning)
  /\ warned' = dead'
  /\ UNCHANGED <<port, notice, app, text, recorder>>

(* check_tap_health: not while somebody types.                              *)
CheckTapHealth(created) ==
  /\ Running /\ ~recent
  /\ CheckHealthy \/ CheckReenables \/ CheckRebuilds(created) \/ CheckRevoked
  /\ UNCHANGED <<world, phase, trusted, recent, front, told, breaker>>

-----------------------------------------------------------------------------
(* The menu bar and the Settings window.                                    *)

(* appDidActivate asks which application is in front now.                   *)
AppDidActivate ==
  /\ Running /\ told
  /\ told' = FALSE
  /\ SetFrontmostApp(front)
  /\ UNCHANGED <<world, phase, trusted, port, notice, health, recent, front, breaker>>

(* "Custom...", chosen with a click or with the arrow keys: both flush on   *)
(* their way, if the tap sees them.                                         *)
BeginHotkeyRecording ==
  /\ Running /\ front = Own /\ ~told
  /\ word => behind
  /\ recording' = TRUE
  /\ UNCHANGED <<world, phase, trusted, port, notice, health, recent, text, place,
                 hotkey, stored, breaker>>

(* set_toggle_hotkey_and_save: one of the presets.                          *)
SetToggleHotkey(h) ==
  /\ Running /\ front = Own
  /\ hotkey' = h /\ stored' = h
  /\ UNCHANGED <<world, phase, trusted, port, notice, health, recent, text, place,
                 recording, breaker>>

(* reset: the breaker, and the session without the recorder.                *)
ResetInput ==
  /\ Running
  /\ emits' = 0 /\ latched' = FALSE
  /\ word' = FALSE /\ behind' = FALSE
  /\ UNCHANGED <<world, phase, trusted, port, notice, health, recent, place, recorder,
                 last>>

-----------------------------------------------------------------------------
(* The system and the user.                                                 *)

Revoke ==
  /\ trusted
  /\ trusted' = FALSE
  /\ port' = IF port = "none" THEN "none" ELSE "void"
  /\ notice' = FALSE
  /\ UNCHANGED <<world, phase, health, recent, text, place, recorder, breaker>>

Grant ==
  /\ ~trusted
  /\ trusted' = TRUE
  /\ UNCHANGED <<world, phase, port, notice, health, recent, text, place, recorder,
                 breaker>>

(* kCGEventTapDisabledByTimeout or ByUserInput.                             *)
DisableTap ==
  /\ Running /\ port = "on"
  /\ port' = "off"
  /\ notice' \in IF "silent" \in world THEN BOOLEAN ELSE {TRUE}
  /\ UNCHANGED <<world, phase, trusted, health, recent, text, place, recorder, breaker>>

(* A key while there is no tap to see it.                                   *)
NativeKey ==
  /\ Running /\ port # "on"
  /\ Unseen
  /\ UNCHANGED <<world, phase, trusted, port, notice, health, recent, place, breaker>>

SwitchApp(a) ==
  /\ Running /\ a # front
  /\ front' = a
  /\ told' \in IF "unannounced" \in world THEN BOOLEAN ELSE {TRUE}
  /\ UNCHANGED <<world, phase, trusted, port, notice, health, recent, text, app,
                 recorder, breaker>>

(* Three seconds without a key.                                             *)
Pause ==
  /\ recent
  /\ recent' = FALSE
  /\ UNCHANGED <<world, phase, trusted, port, notice, health, text, place, recorder,
                 breaker>>

(* Emits leave the window of the breaker.                                   *)
EmitsAge ==
  /\ emits > 0 /\ ~latched
  /\ emits' = emits - 1
  /\ UNCHANGED <<world, phase, trusted, port, notice, health, recent, text, place,
                 recorder, latched, last>>

Environment ==
  \/ Revoke \/ Grant \/ DisableTap \/ NativeKey \/ Pause \/ EmitsAge
  \/ \E a \in Apps : SwitchApp(a)

Next ==
  \/ \E created \in BOOLEAN : Start(created) \/ CheckTapHealth(created)
  \/ QuitAtTheGate \/ TapDisabledEvent \/ MouseDown \/ AppDidActivate
  \/ BeginHotkeyRecording \/ ResetInput
  \/ \E d \in Decisions : KeyDown(d)
  \/ \E h \in Hotkeys : SetToggleHotkey(h)
  \/ Environment

Spec == Init /\ [][Next]_vars

(* The timer fires as long as the process runs, time passes, and a tap that *)
(* may be created is created in the end.                                    *)
Fairness ==
  /\ WF_vars(\E created \in BOOLEAN : CheckTapHealth(created))
  /\ WF_vars(Pause)
  /\ SF_vars(CheckTapHealth(TRUE))

FairSpec == Spec /\ Fairness

-----------------------------------------------------------------------------
(* The state of the shell is what the fields of TapState and TapContext may *)
(* hold (mod.rs).                                                           *)
TypeOK ==
  /\ world \in Worlds /\ phase \in {"gate", "running", "ended"}
  /\ port \in Ports
  /\ failures \in 0 .. BeforeGivingUp
  /\ {trusted, notice, dead, warned, recent, word, behind, told, recording,
      latched} \subseteq BOOLEAN
  /\ front \in Apps /\ app \in Apps \cup {NoApp}
  /\ hotkey \in Hotkeys /\ stored \in Hotkeys
  /\ emits \in 0 .. RunawayLimit
  /\ last \in Decisions \X {"itself", "edit", "nothing"}

(* No key reaches a session whose word the document has left behind: the    *)
(* way back from a gap in the tap's grip on the keys flushes first          *)
(* (health.rs, flush_after_gap; mod.rs, tap_dispatch).  Not so when the     *)
(* system says nothing of the gap, which the health timer then closes       *)
(* without a flush, or when the breaker drops an edit.                      *)
NoWordSurvivesAGap ==
  world \cap {"silent", "runaway"} = {} /\ port = "on" /\ ~notice => ~behind

(* A hotkey the Settings window shows is the one a restart finds            *)
(* (dispatch.rs, handle_key_down saves a finished recording).               *)
RecordedHotkeyIsStored == stored = hotkey

(* An armed recorder waits for a key of GlowKey's own window only: it does  *)
(* not outlive the moment the program learns of another application in      *)
(* front (mod.rs, set_frontmost_app and cancel_hotkey_recording), unless it *)
(* learns it from the idle check, which leaves the recorder armed.          *)
RecorderStaysAtHome ==
  "unannounced" \notin world /\ recording /\ app = front /\ ~told => app = Own

(* A tap that stopped working works again or the glyph says so, however     *)
(* the permission and the port came and went (health.rs, check_tap_health). *)
DeadTapIsReported ==
  (Running /\ port # "on") ~> (port = "on" \/ warned)

(* A tap whose permission stays granted comes back without a relaunch       *)
(* (health.rs, check_tap_health).                                           *)
GrantedTapComesBack == <>[](Running /\ trusted) => []<>(port = "on")

(* An application that came to the front without being announced is noticed *)
(* once the typing stops (health.rs and mod.rs, refresh_frontmost_if_idle). *)
MissedSwitchIsNoticed ==
  <>[](Running /\ port = "on") => []<>(recent \/ app = front)
=============================================================================
