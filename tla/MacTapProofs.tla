--------------------------- MODULE MacTapProofs ----------------------------
(***************************************************************************)
(* For any applications, hotkeys, thresholds and worlds, MacTap keeps its  *)
(* types, stores every recorded hotkey, leaves no recorder armed behind    *)
(* another application, and lets no key reach a word that a gap has left   *)
(* behind.  Whatever comes and goes during an outage, the health checks    *)
(* count it, and their count has an end; that they come stays with TLC.    *)
(***************************************************************************)
EXTENDS MacTap, TLAPS

Calm == world \cap {"silent", "runaway"} = {}

(* The types, one variable at a time.                                       *)
Values ==
  /\ world \in Worlds /\ phase \in {"gate", "running", "ended"}
  /\ port \in Ports
  /\ failures \in 0 .. BeforeGivingUp
  /\ front \in Apps /\ app \in Apps \cup {NoApp}
  /\ hotkey \in Hotkeys /\ stored \in Hotkeys
  /\ emits \in 0 .. RunawayLimit
  /\ last \in Decisions \X {"itself", "edit", "nothing"}

Flags ==
  /\ trusted \in BOOLEAN /\ notice \in BOOLEAN /\ dead \in BOOLEAN
  /\ warned \in BOOLEAN /\ recent \in BOOLEAN /\ word \in BOOLEAN
  /\ behind \in BOOLEAN /\ told \in BOOLEAN /\ recording \in BOOLEAN
  /\ latched \in BOOLEAN

(* The recorder was armed in GlowKey's window, and any other since is       *)
(* announced.                                                               *)
RecorderInv == "unannounced" \notin world /\ recording /\ ~told => front = Own

(* A disabled tap has a notice waiting unless the permission has gone; what *)
(* flushes on the way to the recorder leaves it no word but one behind.     *)
GapInv ==
  /\ Calm => (port = "off" => notice)
  /\ Calm => (port = "on" /\ ~notice => ~behind)
  /\ recording /\ word => behind
  /\ "runaway" \notin world => ~latched
  /\ phase = "gate" => ~word /\ ~behind

Inv == Values /\ Flags /\ RecordedHotkeyIsStored /\ RecorderInv /\ GapInv

-----------------------------------------------------------------------------
(* What a disjunct of Next preserves, one lemma each.                       *)
LEMMA TypesAreTypeOK == Values /\ Flags <=> TypeOK
  BY DEF Values, Flags, TypeOK

LEMMA InitInv == Init => Inv
<1> SUFFICES ASSUME Init PROVE Inv
  OBVIOUS
<1>1. Values
  BY MacTapAssumption DEF Init, Values, Ports, Decisions
<1>2. Flags
  BY DEF Init, Flags
<1>3. RecordedHotkeyIsStored /\ RecorderInv /\ GapInv
  BY DEF Init, RecordedHotkeyIsStored, RecorderInv, GapInv
<1> QED
  BY <1>1, <1>2, <1>3 DEF Inv

(* The gate.                                                                *)
LEMMA StartUpStep ==
  ASSUME Inv, NEW created \in BOOLEAN, Start(created) \/ QuitAtTheGate
  PROVE  Inv'
<1>1. Values'
  <2>1. port' \in Ports /\ phase' \in {"gate", "running", "ended"}
    BY DEF Inv, Values, Ports, Start, QuitAtTheGate, CreateTap
  <2>2. UNCHANGED <<world, failures, front, app, hotkey, stored, emits, last>>
    BY DEF Start, QuitAtTheGate, health, place, recorder, breaker
  <2>3. Values
    BY DEF Inv
  <2> QED BY <2>1, <2>2, <2>3 DEF Values
<1>2. Flags'
  <2>1. notice' \in BOOLEAN
    BY DEF Inv, Flags, Start, QuitAtTheGate, CreateTap
  <2>2. UNCHANGED <<trusted, dead, warned, recent, word, behind, told, recording, latched>>
    BY DEF Start, QuitAtTheGate, health, text, place, recorder, breaker
  <2> QED BY <2>1, <2>2 DEF Inv, Flags
<1>3. RecordedHotkeyIsStored' /\ RecorderInv'
  BY DEF Inv, Flags, RecordedHotkeyIsStored, RecorderInv, Start,
     QuitAtTheGate, CreateTap, health, text, place, recorder, breaker
<1>4. GapInv'
  BY DEF Inv, Values, Flags, Ports, GapInv, Calm, Start, QuitAtTheGate,
     CreateTap, health, text, place, recorder, breaker
<1> QED
  BY <1>1, <1>2, <1>3, <1>4 DEF Inv

(* The port is enabled again as its notice arrives.                         *)
LEMMA DisabledStep ==
  ASSUME Inv, TapDisabledEvent
  PROVE  Inv'
<1>1. Values'
  BY DEF Inv, Values, Flags, Ports, TapDisabledEvent, EnablePort, Flush,
     health, place, breaker
<1>2. Flags'
  BY DEF Inv, Flags, TapDisabledEvent, EnablePort, Flush, health, place,
     breaker
<1>3. RecordedHotkeyIsStored' /\ RecorderInv'
  BY DEF Inv, Flags, RecordedHotkeyIsStored, RecorderInv, TapDisabledEvent,
     EnablePort, Flush, health, place, breaker
<1>4. GapInv'
  BY DEF Inv, Values, Flags, Ports, GapInv, Calm, TapDisabledEvent,
     EnablePort, Flush, health, place, breaker, Running
<1> QED
  BY <1>1, <1>2, <1>3, <1>4 DEF Inv

(* A click, seen or not.                                                    *)
LEMMA MouseStep ==
  ASSUME Inv, MouseDown
  PROVE  Inv'
<1>1. Values'
  BY DEF Inv, Values, Flags, Ports, MouseDown, Flush, Unseen, health, place,
     recorder, breaker
<1>2. Flags'
  BY DEF Inv, Flags, MouseDown, Flush, Unseen, health, place, recorder,
     breaker
<1>3. RecordedHotkeyIsStored' /\ RecorderInv'
  BY DEF Inv, Flags, RecordedHotkeyIsStored, RecorderInv, MouseDown, Flush,
     Unseen, health, place, recorder, breaker
<1>4. GapInv'
  BY DEF Inv, Values, Flags, Ports, GapInv, Calm, MouseDown, Flush, Unseen,
     health, place, recorder, breaker, Running
<1> QED
  BY <1>1, <1>2, <1>3, <1>4 DEF Inv

(* An announced activation.                                                 *)
LEMMA ActivateStep ==
  ASSUME Inv, AppDidActivate
  PROVE  Inv'
<1>1. Values'
  BY DEF Inv, Values, Flags, Ports, AppDidActivate, SetFrontmostApp,
     SessionMovesTo, health, breaker
<1>2. Flags'
  BY DEF Inv, Flags, AppDidActivate, SetFrontmostApp, SessionMovesTo, health,
     breaker
<1>3. RecordedHotkeyIsStored' /\ RecorderInv'
  BY DEF Inv, Flags, RecordedHotkeyIsStored, RecorderInv, AppDidActivate,
     SetFrontmostApp, SessionMovesTo, health, breaker
<1>4. GapInv'
  BY DEF Inv, Values, Flags, Ports, GapInv, Calm, AppDidActivate,
     SetFrontmostApp, SessionMovesTo, health, breaker, Running
<1> QED
  BY <1>1, <1>2, <1>3, <1>4 DEF Inv

(* The Settings window and the menu.                                        *)
LEMMA WindowStep ==
  ASSUME Inv, BeginHotkeyRecording
  PROVE  Inv'
<1>1. Values'
  BY DEF Inv, Values, Flags, Ports, BeginHotkeyRecording, health, text, place,
     breaker
<1>2. Flags'
  BY DEF Inv, Flags, BeginHotkeyRecording, health, text, place, breaker
<1>3. RecordedHotkeyIsStored' /\ RecorderInv'
  BY DEF Inv, Flags, RecordedHotkeyIsStored, RecorderInv,
     BeginHotkeyRecording, health, text, place, breaker
<1>4. GapInv'
  BY DEF Inv, Values, Flags, Ports, GapInv, Calm, BeginHotkeyRecording,
     health, text, place, breaker, Running
<1> QED
  BY <1>1, <1>2, <1>3, <1>4 DEF Inv

(* A preset.                                                                *)
LEMMA PresetStep ==
  ASSUME Inv, NEW h \in Hotkeys, SetToggleHotkey(h)
  PROVE  Inv'
<1>1. Values'
  BY DEF Inv, Values, Flags, Ports, SetToggleHotkey, health, text, place,
     breaker
<1>2. Flags'
  BY DEF Inv, Flags, SetToggleHotkey, health, text, place, breaker
<1>3. RecordedHotkeyIsStored' /\ RecorderInv'
  BY DEF Inv, Flags, RecordedHotkeyIsStored, RecorderInv, SetToggleHotkey,
     health, text, place, breaker
<1>4. GapInv'
  BY DEF Inv, Values, Flags, Ports, GapInv, Calm, SetToggleHotkey, health,
     text, place, breaker, Running
<1> QED
  BY <1>1, <1>2, <1>3, <1>4 DEF Inv

(* The menu's reset.                                                        *)
LEMMA ResetStep ==
  ASSUME Inv, ResetInput
  PROVE  Inv'
<1>1. Values'
  BY MacTapAssumption DEF Inv, Values, Flags, Ports, ResetInput, health,
     place, recorder
<1>2. Flags'
  BY DEF Inv, Flags, ResetInput, health, place, recorder
<1>3. RecordedHotkeyIsStored' /\ RecorderInv'
  BY DEF Inv, Flags, RecordedHotkeyIsStored, RecorderInv, ResetInput, health,
     place, recorder
<1>4. GapInv'
  BY DEF Inv, Values, Flags, Ports, GapInv, Calm, ResetInput, health, place,
     recorder, Running
<1> QED
  BY <1>1, <1>2, <1>3, <1>4 DEF Inv

(* The permission comes and goes.                                           *)
LEMMA PermissionStep ==
  ASSUME Inv, Revoke
  PROVE  Inv'
<1>1. Values'
  BY DEF Inv, Values, Flags, Ports, Revoke, health, text, place, recorder,
     breaker
<1>2. Flags'
  BY DEF Inv, Flags, Revoke, health, text, place, recorder, breaker
<1>3. RecordedHotkeyIsStored' /\ RecorderInv'
  BY DEF Inv, Flags, RecordedHotkeyIsStored, RecorderInv, Revoke, health,
     text, place, recorder, breaker
<1>4. GapInv'
  BY DEF Inv, Values, Flags, Ports, GapInv, Calm, Revoke, health, text, place,
     recorder, breaker
<1> QED
  BY <1>1, <1>2, <1>3, <1>4 DEF Inv

(* And back.                                                                *)
LEMMA GrantStep ==
  ASSUME Inv, Grant
  PROVE  Inv'
<1>1. Values'
  BY DEF Inv, Values, Flags, Ports, Grant, health, text, place, recorder,
     breaker
<1>2. Flags'
  BY DEF Inv, Flags, Grant, health, text, place, recorder, breaker
<1>3. RecordedHotkeyIsStored' /\ RecorderInv'
  BY DEF Inv, Flags, RecordedHotkeyIsStored, RecorderInv, Grant, health, text,
     place, recorder, breaker
<1>4. GapInv'
  BY DEF Inv, Values, Flags, Ports, GapInv, Calm, Grant, health, text, place,
     recorder, breaker
<1> QED
  BY <1>1, <1>2, <1>3, <1>4 DEF Inv

(* The system takes the tap, or a key past it.                              *)
LEMMA SystemStep ==
  ASSUME Inv, DisableTap
  PROVE  Inv'
<1>1. Values'
  BY DEF Inv, Values, Flags, Ports, DisableTap, health, text, place, recorder,
     breaker
<1>2. Flags'
  BY DEF Inv, Flags, DisableTap, health, text, place, recorder, breaker
<1>3. RecordedHotkeyIsStored' /\ RecorderInv'
  BY DEF Inv, Flags, RecordedHotkeyIsStored, RecorderInv, DisableTap, health,
     text, place, recorder, breaker
<1>4. GapInv'
  BY DEF Inv, Values, Flags, Ports, GapInv, Calm, DisableTap, health, text,
     place, recorder, breaker, Running
<1> QED
  BY <1>1, <1>2, <1>3, <1>4 DEF Inv

(* A key no tap sees.                                                       *)
LEMMA NativeStep ==
  ASSUME Inv, NativeKey
  PROVE  Inv'
<1>1. Values'
  BY DEF Inv, Values, Flags, Ports, NativeKey, Unseen, health, place,
     recorder, breaker
<1>2. Flags'
  BY DEF Inv, Flags, NativeKey, Unseen, health, place, recorder, breaker
<1>3. RecordedHotkeyIsStored' /\ RecorderInv'
  BY DEF Inv, Flags, RecordedHotkeyIsStored, RecorderInv, NativeKey, Unseen,
     health, place, recorder, breaker
<1>4. GapInv'
  BY DEF Inv, Values, Flags, Ports, GapInv, Calm, NativeKey, Unseen, health,
     place, recorder, breaker, Running
<1> QED
  BY <1>1, <1>2, <1>3, <1>4 DEF Inv

(* Another application.                                                     *)
LEMMA SwitchStep ==
  ASSUME Inv, NEW a \in Apps, SwitchApp(a)
  PROVE  Inv'
<1>1. Values'
  BY DEF Inv, Values, Flags, Ports, SwitchApp, health, text, recorder, breaker
<1>2. Flags'
  BY DEF Inv, Flags, SwitchApp, health, text, recorder, breaker
<1>3. RecordedHotkeyIsStored' /\ RecorderInv'
  BY DEF Inv, Flags, RecordedHotkeyIsStored, RecorderInv, SwitchApp, health,
     text, recorder, breaker
<1>4. GapInv'
  BY DEF Inv, Values, Flags, Ports, GapInv, Calm, SwitchApp, health, text,
     recorder, breaker, Running
<1> QED
  BY <1>1, <1>2, <1>3, <1>4 DEF Inv

(* Time passes.                                                             *)
LEMMA TimeStep ==
  ASSUME Inv, Pause
  PROVE  Inv'
<1>1. Values'
  BY DEF Inv, Values, Flags, Ports, Pause, health, text, place, recorder,
     breaker
<1>2. Flags'
  BY DEF Inv, Flags, Pause, health, text, place, recorder, breaker
<1>3. RecordedHotkeyIsStored' /\ RecorderInv'
  BY DEF Inv, Flags, RecordedHotkeyIsStored, RecorderInv, Pause, health, text,
     place, recorder, breaker
<1>4. GapInv'
  BY DEF Inv, Values, Flags, Ports, GapInv, Calm, Pause, health, text, place,
     recorder, breaker
<1> QED
  BY <1>1, <1>2, <1>3, <1>4 DEF Inv

(* Edits age.                                                               *)
LEMMA AgeStep ==
  ASSUME Inv, EmitsAge
  PROVE  Inv'
<1>1. Values'
  BY MacTapAssumption DEF Inv, Values, Flags, Ports, EmitsAge, health, text,
     place, recorder
<1>2. Flags'
  BY DEF Inv, Flags, EmitsAge, health, text, place, recorder
<1>3. RecordedHotkeyIsStored' /\ RecorderInv'
  BY DEF Inv, Flags, RecordedHotkeyIsStored, RecorderInv, EmitsAge, health,
     text, place, recorder
<1>4. GapInv'
  BY DEF Inv, Values, Flags, Ports, GapInv, Calm, EmitsAge, health, text,
     place, recorder
<1> QED
  BY <1>1, <1>2, <1>3, <1>4 DEF Inv

(* A health check that finds the tap working.                               *)
LEMMA HealthyStep ==
  ASSUME Inv, NEW created \in BOOLEAN, CheckTapHealth(created), CheckHealthy
  PROVE  Inv'
<1>1. Values'
  BY MacTapAssumption DEF Inv, Values, Flags, Ports, CheckTapHealth,
     CheckHealthy, FlushAfterGap, Flush, RefreshFrontmostIfIdle,
     SessionMovesTo, text, recorder, breaker
<1>2. Flags'
  BY DEF Inv, Flags, CheckTapHealth, CheckHealthy, FlushAfterGap, Flush,
     RefreshFrontmostIfIdle, SessionMovesTo, text, recorder, breaker
<1>3. RecordedHotkeyIsStored' /\ RecorderInv'
  BY DEF Inv, Flags, RecordedHotkeyIsStored, RecorderInv, CheckTapHealth,
     CheckHealthy, FlushAfterGap, Flush, RefreshFrontmostIfIdle,
     SessionMovesTo, text, recorder, breaker
<1>4. GapInv'
  BY DEF Inv, Values, Flags, Ports, GapInv, Calm, CheckTapHealth,
     CheckHealthy, FlushAfterGap, Flush, RefreshFrontmostIfIdle,
     SessionMovesTo, text, recorder, breaker, Running
<1> QED
  BY <1>1, <1>2, <1>3, <1>4 DEF Inv

(* One that enables it.                                                     *)
LEMMA ReenableStep ==
  ASSUME Inv, NEW created \in BOOLEAN, CheckTapHealth(created), CheckReenables
  PROVE  Inv'
<1>1. Values'
  BY MacTapAssumption DEF Inv, Values, Flags, Ports, CheckTapHealth,
     CheckReenables, FlushAfterGap, Flush, EnablePort, OneMoreFailure, GiveUp,
     text, recorder, breaker
<1>2. Flags'
  BY DEF Inv, Flags, CheckTapHealth, CheckReenables, FlushAfterGap, Flush,
     EnablePort, OneMoreFailure, GiveUp, text, recorder, breaker
<1>3. RecordedHotkeyIsStored' /\ RecorderInv'
  BY DEF Inv, Flags, RecordedHotkeyIsStored, RecorderInv, CheckTapHealth,
     CheckReenables, FlushAfterGap, Flush, EnablePort, OneMoreFailure, GiveUp,
     text, recorder, breaker
<1>4. GapInv'
  BY DEF Inv, Values, Flags, Ports, GapInv, Calm, CheckTapHealth,
     CheckReenables, FlushAfterGap, Flush, EnablePort, OneMoreFailure, GiveUp,
     text, recorder, breaker, Running
<1> QED
  BY <1>1, <1>2, <1>3, <1>4 DEF Inv

(* One that builds another.                                                 *)
LEMMA RebuildStep ==
  ASSUME Inv, NEW created \in BOOLEAN, CheckTapHealth(created), CheckRebuilds(created)
  PROVE  Inv'
<1>1. Values'
  <2>1. CASE created
    BY <2>1, MacTapAssumption DEF Inv, Values, Flags, Ports, CheckTapHealth,
       CheckRebuilds, FlushAfterGap, Flush, CreateTap, OneMoreFailure, text,
       recorder, breaker
  <2>2. CASE ~created
    BY <2>2, MacTapAssumption DEF Inv, Values, Flags, Ports, CheckTapHealth,
       CheckRebuilds, FlushAfterGap, Flush, CreateTap, OneMoreFailure, text,
       recorder, breaker
  <2> QED
    BY <2>1, <2>2
<1>2. Flags'
  BY DEF Inv, Flags, CheckTapHealth, CheckRebuilds, FlushAfterGap, Flush,
     CreateTap, OneMoreFailure, text, recorder, breaker
<1>3. RecordedHotkeyIsStored' /\ RecorderInv'
  BY DEF Inv, Flags, RecordedHotkeyIsStored, RecorderInv, CheckTapHealth,
     CheckRebuilds, FlushAfterGap, Flush, CreateTap, OneMoreFailure, text,
     recorder, breaker
<1>4. GapInv'
  BY DEF Inv, Values, Flags, Ports, GapInv, Calm, CheckTapHealth,
     CheckRebuilds, FlushAfterGap, Flush, CreateTap, OneMoreFailure, text,
     recorder, breaker, Running
<1> QED
  BY <1>1, <1>2, <1>3, <1>4 DEF Inv

(* One without the permission.                                              *)
LEMMA RevokedStep ==
  ASSUME Inv, NEW created \in BOOLEAN, CheckTapHealth(created), CheckRevoked
  PROVE  Inv'
<1>1. Values'
  BY MacTapAssumption DEF Inv, Values, Flags, Ports, CheckTapHealth,
     CheckRevoked, OneMoreFailure, text, recorder, breaker
<1>2. Flags'
  BY DEF Inv, Flags, CheckTapHealth, CheckRevoked, OneMoreFailure, text,
     recorder, breaker
<1>3. RecordedHotkeyIsStored' /\ RecorderInv'
  BY DEF Inv, Flags, RecordedHotkeyIsStored, RecorderInv, CheckTapHealth,
     CheckRevoked, OneMoreFailure, text, recorder, breaker
<1>4. GapInv'
  BY DEF Inv, Values, Flags, Ports, GapInv, Calm, CheckTapHealth,
     CheckRevoked, OneMoreFailure, text, recorder, breaker, Running
<1> QED
  BY <1>1, <1>2, <1>3, <1>4 DEF Inv

(* Nothing.                                                                 *)
LEMMA StutterStep ==
  ASSUME Inv, UNCHANGED vars
  PROVE  Inv'
<1>1. Values'
  BY DEF Inv, Values, Flags, Ports, vars, health, text, place, recorder,
     breaker
<1>2. Flags'
  BY DEF Inv, Flags, vars, health, text, place, recorder, breaker
<1>3. RecordedHotkeyIsStored' /\ RecorderInv'
  BY DEF Inv, Flags, RecordedHotkeyIsStored, RecorderInv, vars, health, text,
     place, recorder, breaker
<1>4. GapInv'
  BY DEF Inv, Values, Flags, Ports, GapInv, Calm, vars, health, text, place,
     recorder, breaker
<1> QED
  BY <1>1, <1>2, <1>3, <1>4 DEF Inv

(* A key of the recorder.                                                   *)
LEMMA RecorderKeyStep ==
  ASSUME Inv, NEW d \in Decisions, KeyDown(d), recording
  PROVE  Inv'
<1>1. /\ RecorderKey(d) /\ port = "on" /\ ~notice
      /\ UNCHANGED <<world, phase, trusted, port, notice, failures, dead, warned, front, told,
                     emits, latched>>
      /\ recent' = TRUE /\ app' = IF app = NoApp THEN front ELSE app
  BY DEF KeyDown, RecorderKey, health
<1>2. /\ recording' \in BOOLEAN /\ hotkey' \in Hotkeys
      /\ stored' \in Hotkeys /\ RecordedHotkeyIsStored'
  BY <1>1 DEF Inv, Values, Flags, RecordedHotkeyIsStored, RecorderKey, CaptureHotkey,
     SaveIfRecorded, recorder
<1>3. /\ last' \in Decisions \X {"itself", "edit", "nothing"}
      /\ word' \in BOOLEAN /\ behind' \in BOOLEAN
  BY <1>1 DEF Inv, Flags, RecorderKey
<1>4. Values'
  BY <1>1, <1>2, <1>3 DEF Inv, Values
<1>5. Flags'
  BY <1>1, <1>2, <1>3 DEF Inv, Flags
<1>6. RecorderInv'
  BY <1>1 DEF Inv, RecorderInv
<1>7. GapInv'
  <2>1. word => behind
    BY DEF Inv, Flags, GapInv
  <2>2. (Calm => ~word') /\ (word' => behind')
    BY <1>1, <2>1 DEF Inv, Flags, GapInv, RecorderKey
  <2>3. Calm => ~behind'
    BY <1>1, <2>2 DEF RecorderKey
  <2>4. phase = "running"
    BY DEF KeyDown, Running
  <2> QED
    BY <1>1, <2>2, <2>3, <2>4 DEF Inv, GapInv, Calm
<1> QED
  BY <1>2, <1>4, <1>5, <1>6, <1>7 DEF Inv

(* A key of the policy: its edit is posted unless the breaker has latched.  *)
LEMMA PolicyKeyStep ==
  ASSUME Inv, NEW d \in Decisions, KeyDown(d), ~recording
  PROVE  Inv'
<1>1. /\ PolicyKey(d) /\ port = "on" /\ ~notice
      /\ UNCHANGED <<world, phase, trusted, port, notice, failures, dead, warned, front, told,
                     recording, hotkey, stored>>
      /\ recent' = TRUE /\ app' = IF app = NoApp THEN front ELSE app
  BY DEF KeyDown, PolicyKey, health, recorder
<1>2. PICK got \in {"itself", "edit", "nothing"} :
        /\ Answered(d, got)
        /\ d \in Edits /\ got = "nothing" => ~CircuitOk
  BY <1>1 DEF PolicyKey
<1>3. /\ last' = <<d, got>> /\ word' \in BOOLEAN /\ behind' \in BOOLEAN
      /\ behind' => behind \/ (d \in Edits /\ got = "nothing")
  BY <1>2 DEF Answered, Inv, Flags
<1>4. /\ emits' \in 0 .. RunawayLimit /\ latched' \in BOOLEAN
      /\ "runaway" \notin world => ~latched' /\ (d \in Edits => CircuitOk)
  <2>1. CASE d \in Edits
    <3>1. EmitEdit /\ emits \in 0 .. RunawayLimit /\ RunawayLimit \in Nat
      BY <1>1, <2>1, MacTapAssumption DEF PolicyKey, Inv, Values
    <3>2. "runaway" \notin world => CircuitOk
      BY <3>1 DEF Inv, GapInv, EmitEdit, CircuitOk
    <3>3. latched' = ~CircuitOk /\ CircuitOk \in BOOLEAN
      BY <3>1 DEF EmitEdit, CircuitOk
    <3>4. emits' \in 0 .. RunawayLimit
      BY <3>1 DEF EmitEdit, CircuitOk
    <3> QED
      BY <3>2, <3>3, <3>4
  <2>2. CASE d \notin Edits
    BY <1>1, <2>2 DEF PolicyKey, Inv, Values, Flags, GapInv
  <2> QED
    BY <2>1, <2>2
<1>5. Values'
  BY <1>1, <1>3, <1>4 DEF Inv, Values
<1>6. Flags'
  BY <1>1, <1>3, <1>4 DEF Inv, Flags
<1>7. RecordedHotkeyIsStored' /\ RecorderInv'
  BY <1>1 DEF Inv, RecordedHotkeyIsStored, RecorderInv
<1>8. GapInv'
  <2>1. Calm => ~behind'
    BY <1>1, <1>2, <1>3, <1>4 DEF Inv, GapInv, Calm
  <2>2. Running
    BY DEF KeyDown
  <2> QED
    BY <1>1, <1>4, <2>1, <2>2 DEF Inv, GapInv, Calm, Running
<1> QED
  BY <1>5, <1>6, <1>7, <1>8 DEF Inv

-----------------------------------------------------------------------------
(* The invariant holds throughout.                                          *)
THEOREM Invariant == Spec => []Inv
<1>1. Inv /\ [Next]_vars => Inv'
  <2> SUFFICES ASSUME Inv, [Next]_vars PROVE Inv'
    OBVIOUS
  <2>1. CASE \E created \in BOOLEAN : Start(created) \/ CheckTapHealth(created)
    <3>1. PICK created \in BOOLEAN : Start(created) \/ CheckTapHealth(created)
      BY <2>1
    <3>2. CASE CheckTapHealth(created)
      BY <3>2, HealthyStep, ReenableStep, RebuildStep, RevokedStep DEF CheckTapHealth
    <3> QED
      BY <3>1, <3>2, StartUpStep
  <2>2. CASE QuitAtTheGate
    BY <2>2, StartUpStep
  <2>3. CASE \E d \in Decisions : KeyDown(d)
    BY <2>3, RecorderKeyStep, PolicyKeyStep DEF Inv, Flags
  <2>4. CASE TapDisabledEvent \/ MouseDown \/ AppDidActivate
    BY <2>4, DisabledStep, MouseStep, ActivateStep
  <2>5. CASE BeginHotkeyRecording \/ ResetInput \/ \E h \in Hotkeys : SetToggleHotkey(h)
    BY <2>5, WindowStep, ResetStep, PresetStep
  <2>6. CASE Environment
    BY <2>6, PermissionStep, GrantStep, SystemStep, NativeStep, TimeStep, AgeStep, SwitchStep
       DEF Environment
  <2>7. CASE UNCHANGED vars
    BY <2>7, StutterStep
  <2> QED
    BY <2>1, <2>2, <2>3, <2>4, <2>5, <2>6, <2>7 DEF Next
<1> QED
  BY InitInv, <1>1, PTL DEF Spec

(* The state of the tap is what the fields of mod.rs may hold.              *)
THEOREM TypeCorrect == Spec => []TypeOK
<1>1. Inv => TypeOK
  BY TypesAreTypeOK DEF Inv
<1> QED
  BY Invariant, <1>1, PTL

(* No key reaches a word a gap has left behind (health.rs and mod.rs),      *)
(* while disabled taps are announced and the breaker does not latch.        *)
THEOREM GapsAreFlushed == Spec => []NoWordSurvivesAGap
<1>1. Inv => NoWordSurvivesAGap
  BY DEF Inv, GapInv, Calm, NoWordSurvivesAGap
<1> QED
  BY Invariant, <1>1, PTL

(* A recorded hotkey is in the settings file (dispatch.rs).                 *)
THEOREM HotkeyIsStored == Spec => []RecordedHotkeyIsStored
<1>1. Inv => RecordedHotkeyIsStored
  BY DEF Inv
<1> QED
  BY Invariant, <1>1, PTL

(* No recorder is armed for another application's keys (mod.rs).            *)
THEOREM RecorderIsAtHome == Spec => []RecorderStaysAtHome
<1>1. Inv => RecorderStaysAtHome
  BY DEF Inv, Flags, RecorderInv, RecorderStaysAtHome
<1> QED
  BY Invariant, <1>1, PTL
-----------------------------------------------------------------------------
(* What makes an outage end: the health checks count it, and the count has  *)
(* an end (health.rs, check_tap_health).                                    *)
Outage == Running /\ port # "on"

AnyCheck == \E created \in BOOLEAN : CheckTapHealth(created)

(* The glyph and TAP_DEAD go together, and whoever has counted to the end   *)
(* has shown the glyph.                                                     *)
CountInv == (dead <=> warned) /\ (failures = BeforeGivingUp => warned)

(* While an outage lasts nothing takes back the count or the warning, and   *)
(* every check adds to the count unless the warning is there (health.rs,    *)
(* check_tap_health): after BeforeGivingUp checks it is, by CountInv.       *)
OutagesAreCounted ==
  [][Outage /\ Outage'
       => /\ failures' >= failures /\ (warned => warned')
          /\ AnyCheck => failures' > failures \/ warned']_vars

(* While the permission is there every check that may create a tap has a    *)
(* tap that works, or is one step nearer to building one (health.rs,        *)
(* check_tap_health): the grants and revocations before it do not matter.   *)
GrantedChecksGetNearer ==
  [][Outage /\ trusted /\ CheckTapHealth(TRUE) => port' = "on" \/ failures' > failures]_vars

LEMMA CheckedHealthy ==
  ASSUME NEW created \in BOOLEAN, CheckTapHealth(created), port = "on"
  PROVE  failures' = 0 /\ dead' = FALSE /\ warned' = FALSE
  BY DEF CheckTapHealth, CheckHealthy, CheckReenables, CheckRebuilds, CheckRevoked

(* One failed check: it counts, or it has built a tap, or it cannot count   *)
(* further and the glyph is there.                                          *)
LEMMA CheckedOutage ==
  ASSUME TypeOK, CountInv, NEW created \in BOOLEAN, CheckTapHealth(created), port # "on"
  PROVE  \/ port' = "on" /\ failures' = 0 /\ dead' = FALSE /\ warned' = FALSE
         \/ /\ failures' \in Nat /\ failures' >= failures
            /\ failures' > failures \/ failures = BeforeGivingUp
            /\ failures' <= BeforeGivingUp
            /\ (dead' <=> warned') /\ (warned => warned')
            /\ failures' = BeforeGivingUp => warned'
<1> USE MacTapAssumption
<1>1. failures \in Nat /\ failures <= BeforeGivingUp /\ dead \in BOOLEAN /\ warned \in BOOLEAN
  BY DEF TypeOK
<1>2. CASE CheckReenables
  BY <1>1, <1>2 DEF CheckReenables, OneMoreFailure, GiveUp, CountInv
<1>3. CASE CheckRebuilds(created)
  <2>1. CASE created
    BY <1>3, <2>1 DEF CheckRebuilds, CreateTap
  <2>2. CASE ~created
    BY <1>1, <1>3, <2>2 DEF CheckRebuilds, OneMoreFailure, CountInv
  <2> QED BY <2>1, <2>2
<1>4. CASE CheckRevoked
  <2>1. failures' \in Nat /\ failures' >= failures /\ failures' <= BeforeGivingUp
        /\ (failures' > failures \/ failures = BeforeGivingUp)
    BY <1>1, <1>4 DEF CheckRevoked, OneMoreFailure
  <2>2. dead' = (dead \/ failures' >= BeforeWarning) /\ warned' = dead'
    BY <1>4 DEF CheckRevoked
  <2>3. /\ dead' \in BOOLEAN /\ warned' \in BOOLEAN /\ (dead' <=> warned')
        /\ failures' >= BeforeWarning => dead'
    BY <1>1, <2>2
  <2>4. failures' = BeforeGivingUp => warned'
    BY <2>1, <2>3
  <2>5. warned => warned'
    BY <1>1, <2>2, <2>3 DEF CountInv
  <2> QED BY <2>1, <2>3, <2>4, <2>5
<1> QED BY <1>2, <1>3, <1>4 DEF CheckTapHealth, CheckHealthy

(* Nothing but the health timer touches the count and the glyph.            *)
LEMMA OnlyChecksCount ==
  ASSUME [Next]_vars, ~AnyCheck
  PROVE  UNCHANGED health
<1>1. CASE \E created \in BOOLEAN : Start(created) \/ CheckTapHealth(created)
  BY <1>1 DEF AnyCheck, Start
<1>2. CASE QuitAtTheGate
  BY <1>2 DEF QuitAtTheGate
<1>3. CASE \E d \in Decisions : KeyDown(d)
  BY <1>3 DEF KeyDown
<1>4. CASE TapDisabledEvent \/ MouseDown \/ AppDidActivate
  BY <1>4 DEF TapDisabledEvent, MouseDown, AppDidActivate
<1>5. CASE BeginHotkeyRecording \/ ResetInput \/ \E h \in Hotkeys : SetToggleHotkey(h)
  BY <1>5 DEF BeginHotkeyRecording, ResetInput, SetToggleHotkey
<1>6. CASE Environment
  BY <1>6 DEF Environment, Revoke, Grant, DisableTap, NativeKey, Pause, EmitsAge, SwitchApp
<1>7. CASE UNCHANGED vars
  BY <1>7 DEF vars
<1> QED BY <1>1, <1>2, <1>3, <1>4, <1>5, <1>6, <1>7 DEF Next

LEMMA CountStep == TypeOK /\ CountInv /\ [Next]_vars => CountInv'
<1> SUFFICES ASSUME TypeOK, CountInv, [Next]_vars PROVE CountInv'
  OBVIOUS
<1>1. CASE AnyCheck
  <2>1. PICK created \in BOOLEAN : CheckTapHealth(created)
    BY <1>1 DEF AnyCheck
  <2>2. CASE port = "on"
    <3>1. failures' = 0 /\ dead' = FALSE /\ warned' = FALSE
      BY <2>1, <2>2, CheckedHealthy
    <3> QED BY <3>1, MacTapAssumption DEF CountInv
  <2>3. CASE port # "on"
    <3>1. CASE port' = "on" /\ failures' = 0 /\ dead' = FALSE /\ warned' = FALSE
      BY <3>1, MacTapAssumption DEF CountInv
    <3>2. CASE (dead' <=> warned') /\ (failures' = BeforeGivingUp => warned')
      BY <3>2 DEF CountInv
    <3> QED BY <2>1, <2>3, <3>1, <3>2, CheckedOutage
  <2> QED BY <2>2, <2>3
<1>2. CASE ~AnyCheck
  BY <1>2, OnlyChecksCount DEF health, CountInv
<1> QED BY <1>1, <1>2

LEMMA Counting == Spec => []CountInv
<1>1. Init => CountInv
  BY MacTapAssumption DEF Init, CountInv
<1> QED BY <1>1, TypeCorrect, CountStep, PTL DEF Spec

(* However the permission, the port and the environment come and go, an     *)
(* outage is on the glyph after at most BeforeGivingUp checks (health.rs,   *)
(* check_tap_health).                                                       *)
THEOREM OutagesEndInAWarning == Spec => []CountInv /\ OutagesAreCounted
<1>1. TypeOK /\ CountInv /\ [Next]_vars
        => [Outage /\ Outage'
              => /\ failures' >= failures /\ (warned => warned')
                 /\ AnyCheck => failures' > failures \/ warned']_vars
  <2> SUFFICES ASSUME TypeOK, CountInv, [Next]_vars, Outage, Outage'
               PROVE  /\ failures' >= failures /\ (warned => warned')
                      /\ AnyCheck => failures' > failures \/ warned'
    OBVIOUS
  <2>1. failures \in Nat /\ failures <= BeforeGivingUp
    BY MacTapAssumption DEF TypeOK
  <2>2. CASE AnyCheck
    <3>1. PICK created \in BOOLEAN : CheckTapHealth(created)
      BY <2>2 DEF AnyCheck
    <3> QED BY <2>1, <3>1, CheckedOutage DEF Outage, CountInv
  <2>3. CASE ~AnyCheck
    BY <2>1, <2>3, OnlyChecksCount DEF health
  <2> QED BY <2>2, <2>3
<1> QED BY <1>1, TypeCorrect, Counting, PTL DEF Spec, OutagesAreCounted

(* A tap whose permission is back is built anew, or the checks are one      *)
(* nearer to giving up the old port, which is what has it built: at most    *)
(* BeforeGivingUp of them are in between (health.rs, check_tap_health).     *)
THEOREM GrantEndsTheOutage == Spec => GrantedChecksGetNearer
<1>1. TypeOK /\ CountInv /\ [Next]_vars
        => [Outage /\ trusted /\ CheckTapHealth(TRUE)
              => port' = "on" \/ failures' > failures]_vars
  <2> SUFFICES ASSUME TypeOK, CountInv, Outage, trusted, CheckTapHealth(TRUE)
               PROVE  port' = "on" \/ failures' > failures
    OBVIOUS
  <2>1. CASE dead
    BY <2>1 DEF CheckTapHealth, CheckHealthy, CheckReenables, CheckRebuilds, CheckRevoked,
       CreateTap, Outage
  <2>2. CASE ~dead
    <3>1. failures # BeforeGivingUp
      BY <2>2 DEF CountInv
    <3> QED BY <2>2, <3>1, CheckedOutage DEF Outage
  <2> QED BY <2>1, <2>2
<1> QED BY <1>1, TypeCorrect, Counting, PTL DEF Spec, GrantedChecksGetNearer
=============================================================================
