------------------------------ MODULE WinShell ------------------------------
(***************************************************************************)
(* The Windows shell: the main thread, where the keyboard hook, the tray   *)
(* menu and the foreground notification share one session and one message  *)
(* loop (hook.rs, shell.rs, tray.rs, indicator.rs), and the UI thread,     *)
(* which keeps the settings window (ui_thread.rs).                         *)
(*                                                                         *)
(* The two threads meet in a channel of commands, in one slot for a        *)
(* result, and in a posted message that wakes the loop.  A hook callback   *)
(* runs inside GetMessage and hands the loop nothing: what it asks for     *)
(* waits in a flag until some message is dispatched.  The tray menu runs a *)
(* loop of its own, in which hook callbacks go on and posted thread        *)
(* messages are lost.                                                      *)
(***************************************************************************)
EXTENDS WinSettings, FiniteSets

CONSTANTS
  Files,        (* settings the program may start from                        *)
  Tables,       (* macro tables that may be pasted and imported               *)
  Subjects,     (* what a session of use may be about                         *)
  Places,       (* applications in front, and whether input reaches them      *)
  FirstApps,    (* where it may find itself, NoApp if that cannot be told     *)
  MaxInputs,    (* bound on hotkeys, menu choices, application switches and   *)
                (* clicks in the settings window                              *)
  MaxOpens,     (* bound on requests for it                                   *)
  MaxRows       (* bound on the macro list                                    *)

Topics == {"apps", "words", "macros", "fields", "mode"}
ASSUME WinShellAssumption ==
  /\ Files \subseteq Settings /\ Tables \subseteq Seq(Macros)
  /\ Subjects \subseteq SUBSET Topics
  /\ Places \subseteq [app : Apps, reach : {"ok", "blocked"}]
  /\ FirstApps \subseteq Apps \cup {NoApp}
  /\ "poisoned" \notin Apps \cup {NoApp}

VARIABLES
  subject,
  session,      (* the Session of HookState                                   *)
  language,     (* and its prefs, as far as anyone reads them                 *)
  lastApp,      (* last_app: what the hook last told the session              *)
  stored,       (* the settings file                                          *)
  pending,      (* pending_save and pending_refresh                           *)
  woken,        (* a posted WM_GLOWKEY_SAVE is in the queue                   *)
  loop,         (* "waiting" in GetMessage, in the "menu", "draining", "ended"*)
  quitting,     (* PostQuitMessage has been called                            *)
  cache,        (* foreground.rs: the application in front and our reach      *)
  tray,         (* the icon: state, application and theme it was drawn for    *)
  theme,        (* whether the taskbar is light                               *)
  themeDue,     (* WM_SETTINGCHANGE is on its way                             *)
  slot,         (* PENDING_SETTINGS                                           *)
  commands,     (* the UI thread's channel                                    *)
  window,       (* its settings window                                        *)
  storing,      (* it has filled the slot and not yet woken the loop          *)
  used          (* the bounded inputs spent so far                            *)

flags == <<pending, woken>>
places == <<cache, lastApp>>
icon == <<tray, theme, themeDue>>
ui == <<commands, window, storing>>
vars == <<subject, session, language, stored, flags, loop, quitting, places, icon,
          slot, ui, used>>

Empty == [is |-> "empty"]
Decided == window.open /\ window.result # Undecided
About(t) == t \in subject
Pumping == loop \in {"waiting", "menu"}

Live == SettingsFrom(session, language)

-----------------------------------------------------------------------------
(* What the tray shows.                                                     *)

(* is_active: fails closed while no application is known.                   *)
Active(s) == s.mode = "vietnamese" /\ s.app # NoApp /\ ~IsExcluded(s.list, s.app)

(* indicator::state, with a hook that was installed.                        *)
Indicator(s, c) ==
  IF c.reach = "blocked" THEN "broken"
  ELSE IF s.mode = "english" THEN "english"
  ELSE IF ~Active(s) THEN "excluded" ELSE "vietnamese"

(* Slip: only the state is compared with what is shown.                     *)
RefreshedByState(t, state, a) ==
  IF ~t.there \/ t.shown = state THEN t
  ELSE [t EXCEPT !.shown = state, !.app = a, !.light = theme]

(* tray::refresh draws when what it names changed.                          *)
Refreshed(t, state, a) ==
  IF ~t.there \/ (t.shown = state /\ t.app = a) THEN t
  ELSE [t EXCEPT !.shown = state, !.app = a, !.light = theme]

(* refresh_indicator on a snapshot of session s and cache c.                *)
RefreshIndicator(t, s, c) == Refreshed(t, Indicator(s, c), c.app)

(* Slip: the icon is asked for as it is already shown.                      *)
RepaintAgain(t) == Refreshed(t, t.shown, t.app)

(* repaint names an application nothing is called first, so that refresh    *)
(* draws.                                                                   *)
Repainted(t) ==
  IF t.there THEN Refreshed([t EXCEPT !.app = "poisoned"], t.shown, t.app) ELSE t

-----------------------------------------------------------------------------
(* run: the file, the session, the application in front if its program file *)
(* can be read, the icon drawn as English and refreshed, and the settings   *)
(* window asked for, as open_settings_at_launch has it.                     *)
Init ==
  /\ subject \in Subjects
  /\ stored \in Files
  /\ cache \in [app : FirstApps, reach : {"ok"}]
  /\ cache.app = NoApp => About("apps")
  /\ session = [SessionFrom(stored) EXCEPT !.app = cache.app]
  /\ language = stored.language /\ lastApp = NoApp
  /\ pending = [save |-> FALSE, refresh |-> FALSE] /\ woken = FALSE
  /\ loop = "waiting" /\ quitting = FALSE
  /\ theme = TRUE /\ themeDue = FALSE
  /\ tray = RefreshIndicator([there |-> TRUE, shown |-> "english", app |-> NoApp,
                              light |-> theme], session, cache)
  /\ slot = Empty /\ window = NoWindow /\ storing = FALSE
  /\ commands = <<Live>>
  /\ used = [inputs |-> 0, opens |-> 0]

Input == used.inputs < MaxInputs /\ used' = [used EXCEPT !.inputs = @ + 1]

-----------------------------------------------------------------------------
(* The hook callback, on the main thread inside GetMessage.                 *)

(* handle_key: whoever missed the notification learns from the cache.       *)
Backstop(s) ==
  IF cache.app # NoApp /\ lastApp # cache.app THEN [s EXCEPT !.app = cache.app] ELSE s

(* Slip: the flag is set and nobody is told.                                *)
AskSilently(save, refresh) ==
  /\ pending' = [save |-> pending.save \/ save, refresh |-> pending.refresh \/ refresh]
  /\ UNCHANGED woken

(* request_save, request_indicator and wake.                                *)
Ask(save, refresh) ==
  /\ pending' = [save |-> pending.save \/ save, refresh |-> pending.refresh \/ refresh]
  /\ woken' = (woken \/ save \/ refresh)

InHook ==
  /\ Pumping /\ Input
  /\ lastApp' = IF cache.app # NoApp THEN cache.app ELSE lastApp
  /\ UNCHANGED <<subject, language, stored, loop, quitting, cache, icon, slot, ui>>

ToggleModeKey ==
  /\ About("mode") /\ InHook
  /\ session' = [Backstop(session) EXCEPT
                   !.mode = IF @ = "vietnamese" THEN "english" ELSE "vietnamese"]
  /\ Ask(FALSE, TRUE)

(* toggle_app_exclusion also records the application.                       *)
WithToggled(s, a) == [s EXCEPT !.list = Toggled(@, a), !.app = a]

ToggleAppKey ==
  /\ About("apps") /\ InHook
  /\ LET s == Backstop(session)
         here == lastApp'
     IN  IF here = NoApp THEN session' = s /\ UNCHANGED flags
         ELSE /\ session' = WithToggled(s, here)
              /\ Ask(ToggleOutcome(s.list, here) # "EnabledSessionOnly", TRUE)

Taught(words, k, verdict) ==
  [x \in DOMAIN words \cup {k} |-> IF x = k THEN verdict ELSE words[x]]

(* The correction hotkey on a word that can be corrected.                   *)
CorrectKey(k, verdict) ==
  /\ About("words") /\ InHook
  /\ LET s == Backstop(session)
     IN  /\ Active(s)
         /\ session' = [s EXCEPT !.words = Taught(@, k, verdict)]
  /\ Ask(TRUE, FALSE)

-----------------------------------------------------------------------------
(* Messages.  Each leaves the loop with its flags to look at.               *)

Dispatched == loop' = IF loop = "menu" THEN "menu" ELSE "draining"

TakeWake ==
  /\ loop = "waiting" /\ woken
  /\ woken' = FALSE /\ loop' = "draining"
  /\ UNCHANGED <<subject, session, language, stored, pending, quitting, places, icon, slot,
                 ui, used>>

(* The menu's own loop takes a thread message and can deliver it to nobody. *)
WakeIsLost ==
  /\ loop = "menu" /\ woken
  /\ woken' = FALSE
  /\ UNCHANGED <<subject, session, language, stored, pending, loop, quitting, places, icon,
                 slot, ui, used>>

(* foreground_changed.                                                      *)
ForegroundChanged(c) ==
  /\ session' = [session EXCEPT !.app = c.app]
  /\ tray' = RefreshIndicator(tray, session', c)

(* The debounced timer: update, with another application or another reach.  *)
Foreground(c) ==
  /\ About("apps") /\ Pumping /\ Input
  /\ c # cache
  /\ cache' = c
  /\ ForegroundChanged(c)
  /\ Dispatched
  /\ UNCHANGED <<subject, language, stored, flags, quitting, lastApp, theme, themeDue,
                 slot, ui>>

ThemeChanges ==
  /\ About("mode") /\ loop # "ended" /\ Input
  /\ theme' = ~theme /\ themeDue' = TRUE
  /\ UNCHANGED <<subject, session, language, stored, flags, loop, quitting, places, tray,
                 slot, ui>>

(* WM_SETTINGCHANGE.                                                        *)
SettingChange ==
  /\ Pumping /\ themeDue
  /\ themeDue' = FALSE
  /\ tray' = Repainted(tray)
  /\ Dispatched
  /\ UNCHANGED <<subject, session, language, stored, flags, quitting, places, theme, slot,
                 ui, used>>

(* show_menu: the snapshot it draws decides nothing later.                  *)
ShowMenu ==
  /\ loop = "waiting" /\ tray.there
  /\ loop' = "menu"
  /\ UNCHANGED <<subject, session, language, stored, flags, quitting, places, icon, slot,
                 ui, used>>

DismissMenu ==
  /\ loop = "menu"
  /\ loop' = "draining"
  /\ UNCHANGED <<subject, session, language, stored, flags, quitting, places, icon, slot,
                 ui, used>>

(* A choice in the menu: handle_command, on the session of the moment.      *)
Choose == loop = "menu" /\ loop' = "draining"

ToggleMode ==
  /\ About("mode") /\ Choose /\ Input
  /\ session' = [session EXCEPT !.mode = IF @ = "vietnamese" THEN "english"
                                         ELSE "vietnamese"]
  /\ Ask(TRUE, FALSE)
  /\ tray' = RefreshIndicator(tray, session', cache)
  /\ UNCHANGED <<subject, language, stored, quitting, places, theme, themeDue, slot, ui>>

(* Slip: the choice in the menu is not saved.                               *)
NothingToSave(outcome) == FALSE

WorthSaving(outcome) == outcome # "EnabledSessionOnly"

ToggleCurrentApp ==
  /\ About("apps") /\ Choose /\ Input
  /\ cache.app # NoApp
  /\ session' = WithToggled(session, cache.app)
  /\ Ask(WorthSaving(ToggleOutcome(session.list, cache.app)), FALSE)
  /\ tray' = RefreshIndicator(tray, session', cache)
  /\ UNCHANGED <<subject, language, stored, quitting, places, theme, themeDue, slot, ui>>

ToggleAutoFix ==
  /\ About("fields") /\ Choose /\ Input
  /\ session' = [session EXCEPT !.autoFix = ~@]
  /\ Ask(TRUE, FALSE)
  /\ UNCHANGED <<subject, language, stored, quitting, places, icon, slot, ui>>

OpenSettings ==
  /\ Choose /\ used.opens < MaxOpens
  /\ used' = [used EXCEPT !.opens = @ + 1]
  /\ commands' = Append(commands, Live)
  /\ UNCHANGED <<subject, session, language, stored, flags, quitting, places, icon, slot,
                 window, storing>>

Quit ==
  /\ Choose
  /\ quitting' = TRUE
  /\ tray' = [tray EXCEPT !.there = FALSE]
  /\ UNCHANGED <<subject, session, language, stored, flags, places, theme, themeDue, slot,
                 ui, used>>

-----------------------------------------------------------------------------
(* The loop's own work.                                                     *)

(* apply_settings: the window's edits over what the session is by now.      *)
Applying == slot.is = "result" /\ slot.updated.is = "edited"
AppliedSettings == Merged(slot.baseline, slot.updated.settings, Live)

(* Slip: the new session does not know where it is.                         *)
RebuiltNowhere == SessionFrom(AppliedSettings)

(* replace_settings, and the application put back.                          *)
Rebuilt ==
  [SessionFrom(AppliedSettings) EXCEPT !.app = cache.app]

(* Slip: saved as asked, and the slot not looked at.                        *)
SaveOnly ==
  /\ pending' = [save |-> FALSE, refresh |-> FALSE]
  /\ stored' = IF pending.save THEN Live ELSE stored
  /\ UNCHANGED <<session, language, tray, slot>>

(* What the loop does after every message: save, refresh, take the result.  *)
Drained ==
  /\ pending' = [save |-> FALSE, refresh |-> FALSE]
  /\ slot' = Empty
  /\ IF Applying
     THEN /\ stored' = AppliedSettings
          /\ session' = Rebuilt
          /\ language' = AppliedSettings.language
          /\ tray' = RefreshIndicator(tray, session', cache)
     ELSE /\ stored' = IF pending.save THEN Live ELSE stored
          /\ tray' = IF pending.refresh THEN RefreshIndicator(tray, session, cache)
                     ELSE tray
          /\ UNCHANGED <<session, language>>

Drain ==
  /\ loop = "draining" /\ loop' = "waiting"
  /\ Drained
  /\ UNCHANGED <<subject, woken, quitting, places, theme, themeDue, ui, used>>

(* GetMessage returns WM_QUIT once nothing posted is left; the program ends *)
(* after one last look at the flags.                                        *)
LastDrain == Drained

End ==
  /\ loop = "waiting" /\ quitting /\ ~woken
  /\ loop' = "ended"
  /\ LastDrain
  /\ UNCHANGED <<subject, woken, quitting, places, theme, themeDue, ui, used>>

-----------------------------------------------------------------------------
(* The UI thread: UiHost::frame.                                            *)

Alive == loop # "ended"

(* deliver_settings_result, up to the slot ...                              *)
StoreResult ==
  /\ Alive /\ ~storing /\ Decided
  /\ slot' = [is |-> "result", baseline |-> Baseline(window), updated |-> window.result]
  /\ storing' = TRUE
  /\ UNCHANGED <<subject, session, language, stored, flags, loop, quitting, places, icon,
                 commands, window, used>>

(* Slip: the result is copied instead of taken and the window kept.         *)
KeepTheWindow == UNCHANGED window

ReleaseTheWindow == window' = NoWindow

(* ... and then the wake; the window is released.                           *)
WakeTheLoop ==
  /\ Alive /\ storing
  /\ woken' = TRUE
  /\ ReleaseTheWindow /\ storing' = FALSE
  /\ UNCHANGED <<subject, session, language, stored, pending, loop, quitting, places, icon,
                 slot, commands, used>>

(* Slip: the commands are read before the closed window is let go.          *)
AnyTime == ~storing

AfterDelivery == ~storing /\ ~Decided

(* drain: a window that is open is brought forward, a new one gets the      *)
(* snapshot.                                                                *)
TakeCommand ==
  /\ Alive /\ AfterDelivery
  /\ commands # <<>>
  /\ commands' = Tail(commands)
  /\ window' = IF window.open THEN window ELSE NewWindow(Head(commands))
  /\ UNCHANGED <<subject, session, language, stored, flags, loop, quitting, places, icon,
                 slot, storing, used>>

(* The user at the window: clicks, and the two ways of closing.             *)
AtWindow(next) ==
  /\ Alive /\ window.open /\ ~storing
  /\ window' = next
  /\ next # window
  /\ UNCHANGED <<subject, session, language, stored, flags, loop, quitting, places, icon,
                 slot, commands, storing>>

Edit(next) ==
  /\ Input
  /\ AtWindow(next)

CloseWindow == UNCHANGED used /\ AtWindow(Finalized(window))

EditSwitches ==
  /\ About("fields") /\ window.open
  /\ \/ Edit(SwitchAutoFix(window))
     \/ Edit(SwitchStrict(window))
     \/ \E l \in Languages : Edit(ChooseLanguage(window, l))

Manage(l) ==
  /\ About(l) /\ window.open /\ UNCHANGED used
  /\ AtWindow(ManageList(window, l)) \/ AtWindow(CloseList(window, l))

In(l) == About(l) /\ window.open /\ l \in window.lists

EditExclusions ==
  /\ In("apps")
  /\ \/ \E a \in Apps : Edit(AddExclusion(window, a))
     \/ \E a \in window.list.ids : Edit(RemoveExclusion(window, a))

EditMacros ==
  /\ In("macros")
  /\ \/ \E m \in Macros : Edit(SaveMacro(window, m))
     \/ \E i \in DOMAIN window.draft.macros :
          Edit(EditMacro(window, i)) \/ Edit(RemoveMacro(window, i))
     \/ Edit(CancelMacro(window))
     \/ \E table \in Tables : Edit(ImportMacros(window, table))
  /\ Len(window'.draft.macros) <= MaxRows

EditWords ==
  /\ In("words")
  /\ \/ \E row \in WordRows : Edit(SaveWord(window, row))
     \/ \E i \in DOMAIN window.draft.words :
          Edit(EditWord(window, i)) \/ Edit(RemoveWord(window, i))
     \/ Edit(CancelWord(window))

-----------------------------------------------------------------------------
Ended == loop = "ended" /\ UNCHANGED vars

Next ==
  \/ ToggleModeKey \/ ToggleAppKey
  \/ \E k \in Words, v \in Verdicts : CorrectKey(k, v)
  \/ TakeWake \/ WakeIsLost
  \/ \E c \in Places : Foreground(c)
  \/ ThemeChanges \/ SettingChange
  \/ ShowMenu \/ DismissMenu
  \/ ToggleMode \/ ToggleCurrentApp \/ ToggleAutoFix \/ OpenSettings \/ Quit
  \/ Drain \/ End
  \/ StoreResult \/ WakeTheLoop \/ TakeCommand
  \/ CloseWindow \/ EditSwitches
  \/ \E l \in ListWindows : Manage(l)
  \/ EditExclusions \/ EditMacros \/ EditWords
  \/ Ended

Spec == Init /\ [][Next]_vars

(* Both threads run their loops.                                            *)
FairSpec ==
  /\ Spec
  /\ WF_vars(TakeWake) /\ WF_vars(Drain) /\ WF_vars(StoreResult) /\ WF_vars(WakeTheLoop)
  /\ WF_vars(TakeCommand)

-----------------------------------------------------------------------------
(* Whatever waits for the message loop, a save, a refresh of the icon or a  *)
(* result of the settings window, a message is on its way that will make it *)
(* look: from the hook, which returns none of its own, from the UI thread,  *)
(* and across the menu's loop, which loses them.  And the program does not  *)
(* end before it has looked once more.                                      *)
SomethingWakesTheLoop ==
  pending.save \/ pending.refresh \/ slot # Empty
    => /\ loop # "ended"
       /\ woken \/ storing \/ loop \in {"menu", "draining"}

(* When no save is asked for, starting from the file gives what the program *)
(* has: whichever of hook, menu and window changed it, and in which order.  *)
FileMeansTheSession == ~pending.save => Meaning(stored) = Meaning(Live)

(* What the user did not touch in the window is as the hook and the tray    *)
(* have made it meanwhile: a word just taught, an application just excluded.*)
UntouchedFieldsSurvive ==
  [][slot # Empty /\ slot' = Empty /\ Applying =>
       \A f \in Fields \ slot.updated.touched :
         SettingsFrom(session', language')[f] = Live[f]]_vars

(* The session is told of the application in front, and is still after it   *)
(* was rebuilt from a window's result: an unknown one turns Vietnamese off. *)
SessionKnowsTheApp == session.app = cache.app

(* The icon and its tooltip tell mode, application and reach as they are,   *)
(* unless a refresh is pending, and the icon is drawn for its taskbar.      *)
TrayTellsTheState ==
  tray.there =>
    /\ pending.refresh \/ (tray.shown = Indicator(session, cache) /\ tray.app = cache.app)
    /\ themeDue \/ tray.light = theme

(* Whoever asks for the settings gets a window that stays: not one that has *)
(* been closed already and is only waiting to be collected.                 *)
OpenRequestIsHonoured ==
  [][commands # <<>> /\ commands' = Tail(commands) =>
       window'.open /\ window'.result = Undecided]_vars

(* A closed window is collected, and its result is applied once no menu is  *)
(* open.                                                                    *)
CloseIsApplied ==
  /\ Decided ~> (~Decided \/ loop = "ended")
  /\ slot # Empty ~> (slot = Empty \/ loop = "menu")

(* What shell.rs:421 expects of a change made by hotkey: a window's result  *)
(* leaves the typing mode alone.                                            *)
ModeSurvivesTheWindow == [][loop = "draining" => session'.mode = session.mode]_vars
=============================================================================
