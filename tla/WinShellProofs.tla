--------------------------- MODULE WinShellProofs ---------------------------
(***************************************************************************)
(* For any settings, tables, subjects and applications, and any number of  *)
(* inputs, the Windows shell never leaves work waiting for a message that  *)
(* does not come, its session is in the application that is in front, its  *)
(* icon tells the state, the settings window opens for whoever asks, the   *)
(* file reads back as the session, and what was not touched in the window  *)
(* outlives it.  What must eventually happen stays with TLC.               *)
(***************************************************************************)
EXTENDS WinShell, SequenceFacts

Caches == [app : Apps \cup {NoApp}, reach : {"ok", "blocked"}]
States == {"broken", "english", "excluded", "vietnamese"}
Icons == [there : BOOLEAN, shown : States, app : Apps \cup {NoApp}, light : BOOLEAN]

(* What a session is asked for here.                                        *)
IsASession(s) == {"app", "list", "mode"} \subseteq DOMAIN s

ShapeInv ==
  /\ cache \in Caches /\ tray \in Icons /\ theme \in BOOLEAN
  /\ pending \in [save : BOOLEAN, refresh : BOOLEAN]
  /\ IsASession(session)

(* As long as no application is known, the hook has reported none.          *)
FrontInv == cache.app = NoApp => lastApp = NoApp

Inv ==
  /\ ShapeInv /\ FrontInv
  /\ SomethingWakesTheLoop /\ SessionKnowsTheApp /\ TrayTellsTheState

-----------------------------------------------------------------------------
(* What the operations on sessions and icons return.                        *)

LEMMA Backstopped ==
  ASSUME Inv
  PROVE  LET s == Backstop(session)
         IN  /\ IsASession(s) /\ s.app = cache.app
             /\ s.list = session.list /\ s.mode = session.mode
  BY DEF Inv, ShapeInv, IsASession, SessionKnowsTheApp, Backstop

LEMMA TheIndicator ==
  ASSUME NEW s, NEW c PROVE Indicator(s, c) \in States
  BY DEF Indicator, States

(* Only mode, application and list decide the indicator.                    *)
LEMMA SameIndicator ==
  ASSUME NEW s, NEW t, NEW c, s.app = t.app, s.list = t.list, s.mode = t.mode
  PROVE  Indicator(s, c) = Indicator(t, c)
  BY DEF Indicator, Active

(* A refreshed icon tells what it was refreshed to, and is drawn for the    *)
(* taskbar if it was before.                                                *)
LEMMA RefreshTells ==
  ASSUME NEW t \in Icons, NEW s, NEW c \in Caches, theme \in BOOLEAN
  PROVE  LET r == RefreshIndicator(t, s, c)
         IN  /\ r \in Icons
             /\ r.there => t.there /\ r.shown = Indicator(s, c) /\ r.app = c.app
             /\ r.there /\ t.light = theme => r.light = theme
  BY TheIndicator DEF RefreshIndicator, Refreshed, Icons, Caches

(* A repainted icon is the same one, drawn for the taskbar.                 *)
LEMMA RepaintTells ==
  ASSUME NEW t \in Icons, theme \in BOOLEAN
  PROVE  /\ Repainted(t) \in Icons
         /\ Repainted(t).there = t.there
         /\ t.there => /\ Repainted(t).shown = t.shown /\ Repainted(t).app = t.app
                       /\ Repainted(t).light = theme
  BY WinShellAssumption DEF Repainted, Refreshed, Icons

-----------------------------------------------------------------------------
LEMMA ShellInit == Init => Inv
<1> SUFFICES ASSUME Init PROVE Inv
  OBVIOUS
<1> DEFINE fresh == [there |-> TRUE, shown |-> "english", app |-> NoApp, light |-> theme]
<1>1. cache \in Caches /\ theme = TRUE /\ fresh \in Icons
  BY WinShellAssumption DEF Init, Caches, Icons, States
<1>2. tray = RefreshIndicator(fresh, session, cache)
  BY DEF Init
<1>3. IsASession(session) /\ session.app = cache.app
  BY DEF Init, SessionFrom, IsASession
<1> HIDE DEF fresh
<1>6. /\ tray \in Icons
      /\ tray.there => tray.shown = Indicator(session, cache) /\ tray.app = cache.app
      /\ tray.there /\ fresh.light = theme => tray.light = theme
  BY <1>1, <1>2, RefreshTells
<1>7. fresh.light = theme
  BY DEF fresh
<1>4. ShapeInv /\ TrayTellsTheState
  BY <1>1, <1>3, <1>6, <1>7 DEF Init, ShapeInv, TrayTellsTheState
<1>5. FrontInv /\ SomethingWakesTheLoop
  BY DEF Init, FrontInv, SomethingWakesTheLoop, Empty
<1> QED BY <1>3, <1>4, <1>5 DEF Inv, SessionKnowsTheApp

-----------------------------------------------------------------------------
(* Steps that leave session, icon and flags alone, and those that do not.   *)

(* What is asked of the loop is noted, and the loop is woken for it.        *)
Noted ==
  /\ pending' \in [save : BOOLEAN, refresh : BOOLEAN]
  /\ pending.refresh => pending'.refresh
  /\ pending.save \/ woken \/ ~pending'.save \/ woken'
  /\ pending.refresh \/ woken \/ ~pending'.refresh \/ woken'
  /\ woken => woken'

LEMMA AskingIsNoted ==
  ASSUME ShapeInv, NEW save \in BOOLEAN, NEW refresh \in BOOLEAN, Ask(save, refresh)
  PROVE  Noted /\ (refresh => pending'.refresh)
  BY DEF Ask, ShapeInv, Noted

LEMMA HookSteps ==
  ASSUME Inv, \/ ToggleModeKey \/ ToggleAppKey
              \/ \E k \in Words, v \in Verdicts : CorrectKey(k, v)
  PROVE  Inv'
<1> USE DEF Inv
<1> DEFINE s == Backstop(session)
           Told == /\ IsASession(session') /\ session'.app = cache.app
                   /\ \/ pending'.refresh
                      \/ session'.list = session.list /\ session'.mode = session.mode
<1>1. /\ Pumping /\ UNCHANGED <<cache, tray, theme, themeDue, loop, slot, storing>>
      /\ lastApp' = IF cache.app # NoApp THEN cache.app ELSE lastApp
  BY DEF ToggleModeKey, ToggleAppKey, CorrectKey, InHook, icon, ui
<1>2. FrontInv'
  BY <1>1 DEF FrontInv
<1>3. lastApp' = cache.app \/ lastApp' = NoApp
  BY <1>1 DEF FrontInv
<1>4. IsASession(s) /\ s.app = cache.app /\ s.list = session.list /\ s.mode = session.mode
  BY Backstopped
<1> HIDE DEF s
<1>5. Noted /\ Told
  <2>1. CASE ToggleModeKey
    <3>1. Ask(FALSE, TRUE) /\ IsASession(session') /\ session'.app = cache.app
      BY <2>1, <1>4 DEF ToggleModeKey, IsASession, s
    <3> QED BY <3>1, AskingIsNoted
  <2>2. CASE ToggleAppKey
    <3>1. CASE lastApp' = NoApp
      <4>1. session' = s /\ UNCHANGED flags
        BY <2>2, <3>1 DEF ToggleAppKey, s
      <4> QED BY <4>1, <1>4 DEF Noted, flags, ShapeInv
    <3>2. CASE lastApp' # NoApp
      <4>1. /\ session' = WithToggled(s, cache.app)
            /\ Ask(ToggleOutcome(s.list, cache.app) # "EnabledSessionOnly", TRUE)
        BY <2>2, <3>2, <1>3 DEF ToggleAppKey, s
      <4>2. IsASession(session') /\ session'.app = cache.app
        BY <4>1, <1>4 DEF WithToggled, IsASession
      <4> QED BY <4>1, <4>2, AskingIsNoted
    <3> QED BY <3>1, <3>2
  <2>3. CASE \E k \in Words, v \in Verdicts : CorrectKey(k, v)
    <3>1. PICK k \in Words, v \in Verdicts : CorrectKey(k, v)
      BY <2>3
    <3>2. session' = [s EXCEPT !.words = Taught(@, k, v)] /\ Ask(TRUE, FALSE)
      BY <3>1 DEF CorrectKey, s
    <3>3. Told
      BY <3>2, <1>4 DEF IsASession
    <3> QED BY <3>2, <3>3, AskingIsNoted
  <2> QED BY <2>1, <2>2, <2>3
<1>6. ShapeInv'
  BY <1>1, <1>5 DEF ShapeInv, Noted
<1>7. SomethingWakesTheLoop'
  BY <1>1, <1>5 DEF SomethingWakesTheLoop, Pumping, Noted
<1>8. SessionKnowsTheApp'
  BY <1>1, <1>5 DEF SessionKnowsTheApp
<1>9. TrayTellsTheState'
  <2>1. pending'.refresh \/ Indicator(session, cache)' = Indicator(session, cache)
    BY <1>1, <1>5, SameIndicator DEF SessionKnowsTheApp, Indicator, Active
  <2> QED BY <1>1, <1>5, <2>1 DEF TrayTellsTheState, Noted
<1> QED BY <1>2, <1>6, <1>7, <1>8, <1>9

(* Steps that leave session, icon, places and what is pending as they are.  *)
Quiet == UNCHANGED <<session, pending, places, icon>>

LEMMA QuietSteps ==
  ASSUME Inv, Quiet,
         \/ SomethingWakesTheLoop'
         \/ UNCHANGED <<woken, loop, slot, storing>>
  PROVE  Inv'
<1> USE DEF Inv, Quiet, places, icon
<1>1. ShapeInv' /\ FrontInv' /\ SessionKnowsTheApp'
  BY DEF ShapeInv, IsASession, FrontInv, SessionKnowsTheApp
<1>2. TrayTellsTheState'
  <2>1. Indicator(session, cache)' = Indicator(session, cache)
    BY DEF Indicator, Active
  <2> QED BY <2>1 DEF TrayTellsTheState
<1>3. SomethingWakesTheLoop'
  BY DEF SomethingWakesTheLoop
<1> QED BY <1>1, <1>2, <1>3

UiSteps ==
  \/ CloseWindow \/ EditSwitches
  \/ \E l \in ListWindows : Manage(l)
  \/ EditExclusions \/ EditMacros \/ EditWords

(* A click in the settings window touches nothing but the window.           *)
LEMMA ClicksStayInTheWindow ==
  ASSUME UiSteps
  PROVE  /\ UNCHANGED <<session, pending, places, icon>>
         /\ UNCHANGED <<woken, loop, slot, storing, commands>>
<1>1. ASSUME NEW next, AtWindow(next)
      PROVE  /\ UNCHANGED <<session, pending, places, icon>>
             /\ UNCHANGED <<woken, loop, slot, storing, commands>>
  BY <1>1 DEF AtWindow, flags
<1>2. ASSUME NEW next, Edit(next)
      PROVE  AtWindow(next)
  BY <1>2 DEF Edit
<1>3. CASE CloseWindow
  BY <1>1, <1>3 DEF CloseWindow
<1>4. CASE EditSwitches
  BY <1>1, <1>2, <1>4 DEF EditSwitches
<1>5. CASE \E l \in ListWindows : Manage(l)
  BY <1>1, <1>5 DEF Manage
<1>6. CASE EditExclusions
  BY <1>1, <1>2, <1>6 DEF EditExclusions
<1>7. CASE EditMacros
  BY <1>1, <1>2, <1>7 DEF EditMacros
<1>8. CASE EditWords
  BY <1>1, <1>2, <1>8 DEF EditWords
<1> QED BY <1>3, <1>4, <1>5, <1>6, <1>7, <1>8 DEF UiSteps

QuietNext ==
  \/ TakeWake \/ WakeIsLost \/ ShowMenu \/ DismissMenu \/ OpenSettings
  \/ StoreResult \/ WakeTheLoop \/ TakeCommand \/ UiSteps \/ Ended

LEMMA QuietNextKeeps ==
  ASSUME Inv, QuietNext PROVE Inv'
<1> USE DEF Inv, SomethingWakesTheLoop, ShapeInv
<1>1. CASE TakeWake
  BY <1>1, QuietSteps DEF TakeWake, Quiet, ui
<1>2. CASE WakeIsLost
  BY <1>2, QuietSteps DEF WakeIsLost, Quiet, ui
<1>3. CASE ShowMenu
  BY <1>3, QuietSteps DEF ShowMenu, Quiet, flags, ui
<1>4. CASE DismissMenu
  BY <1>4, QuietSteps DEF DismissMenu, Quiet, flags, ui
<1>5. CASE OpenSettings
  BY <1>5, QuietSteps DEF OpenSettings, Choose, Quiet, flags
<1>6. CASE StoreResult
  BY <1>6, QuietSteps DEF StoreResult, Alive, Quiet, flags
<1>7. CASE WakeTheLoop
  BY <1>7, QuietSteps DEF WakeTheLoop, Alive, Quiet
<1>8. CASE TakeCommand
  BY <1>8, QuietSteps DEF TakeCommand, Quiet, flags
<1>9. CASE UiSteps
  BY <1>9, ClicksStayInTheWindow, QuietSteps DEF Quiet
<1>10. CASE Ended
  BY <1>10, QuietSteps DEF Ended, vars, Quiet, flags, ui
<1> QED BY <1>1, <1>2, <1>3, <1>4, <1>5, <1>6, <1>7, <1>8, <1>9, <1>10 DEF QuietNext

-----------------------------------------------------------------------------
(* The messages and the choices in the menu that change the session or the  *)
(* icon.                                                                    *)

(* A step that refreshes the icon for the session it leaves tells the state.*)
LEMMA RefreshKeeps ==
  ASSUME Inv, cache' \in Caches, UNCHANGED <<theme, themeDue>>,
         tray' = RefreshIndicator(tray, session', cache')
  PROVE  tray' \in Icons /\ TrayTellsTheState'
<1>1. /\ tray' \in Icons
      /\ tray'.there => /\ tray.there
                        /\ tray'.shown = Indicator(session', cache')
                        /\ tray'.app = cache'.app
      /\ tray'.there /\ tray.light = theme => tray'.light = theme
  BY RefreshTells DEF Inv, ShapeInv
<1> QED BY <1>1 DEF Inv, TrayTellsTheState

LEMMA ForegroundKeeps ==
  ASSUME Inv, NEW c \in Places, Foreground(c) PROVE Inv'
<1> USE DEF Inv
<1>1. /\ Pumping /\ cache' = c /\ c \in Caches /\ c.app \in Apps
      /\ session' = [session EXCEPT !.app = c.app]
      /\ tray' = RefreshIndicator(tray, session', cache')
      /\ UNCHANGED <<pending, woken, theme, themeDue, lastApp, slot, storing>>
      /\ loop' = IF loop = "menu" THEN "menu" ELSE "draining"
  BY WinShellAssumption
     DEF Foreground, ForegroundChanged, Dispatched, flags, ui, Caches
<1>2. tray' \in Icons /\ TrayTellsTheState'
  BY <1>1, RefreshKeeps
<1>3. ShapeInv' /\ SessionKnowsTheApp'
  BY <1>1, <1>2 DEF ShapeInv, IsASession, SessionKnowsTheApp
<1>4. FrontInv'
  BY <1>1, AppsAssumption DEF FrontInv
<1>5. SomethingWakesTheLoop'
  BY <1>1 DEF SomethingWakesTheLoop
<1> QED BY <1>2, <1>3, <1>4, <1>5

LEMMA ThemeKeeps ==
  ASSUME Inv, ThemeChanges \/ SettingChange PROVE Inv'
<1> USE DEF Inv
<1>1. /\ UNCHANGED <<session, pending, woken, cache, lastApp, slot, storing>>
      /\ loop' \in {loop, "draining"} /\ (loop = "ended" => loop' = loop)
      /\ loop = "menu" => loop' = "menu"
  BY DEF ThemeChanges, SettingChange, Pumping, Dispatched, flags, places, ui
<1>2. FrontInv' /\ SomethingWakesTheLoop' /\ SessionKnowsTheApp'
  BY <1>1 DEF FrontInv, SomethingWakesTheLoop, SessionKnowsTheApp
<1>3. Indicator(session, cache)' = Indicator(session, cache)
  BY <1>1 DEF Indicator, Active
<1>4. CASE ThemeChanges
  <2>1. theme' = ~theme /\ themeDue' = TRUE /\ UNCHANGED tray
    BY <1>4 DEF ThemeChanges
  <2>2. ShapeInv'
    BY <1>1, <2>1 DEF ShapeInv
  <2>3. TrayTellsTheState'
    BY <1>1, <1>3, <2>1 DEF TrayTellsTheState
  <2> QED BY <1>2, <2>2, <2>3
<1>5. CASE SettingChange
  <2>1. UNCHANGED theme /\ tray' = Repainted(tray)
    BY <1>5 DEF SettingChange
  <2>2. /\ tray' \in Icons /\ tray'.there = tray.there
        /\ tray.there => /\ tray'.shown = tray.shown /\ tray'.app = tray.app
                         /\ tray'.light = theme
    BY <2>1, RepaintTells DEF ShapeInv
  <2>3. ShapeInv'
    BY <1>1, <2>1, <2>2 DEF ShapeInv
  <2>4. TrayTellsTheState'
    BY <1>1, <1>3, <2>1, <2>2 DEF TrayTellsTheState
  <2> QED BY <1>2, <2>3, <2>4
<1> QED BY <1>4, <1>5

LEMMA ToggleKeeps ==
  ASSUME Inv, ToggleMode \/ ToggleCurrentApp PROVE Inv'
<1> USE DEF Inv
<1>1. /\ loop' = "draining" /\ Noted
      /\ UNCHANGED <<cache, lastApp, theme, themeDue, slot, storing>>
      /\ tray' = RefreshIndicator(tray, session', cache')
      /\ IsASession(session') /\ session'.app = cache.app
  <2>1. CASE ToggleMode
    <3>1. /\ loop' = "draining" /\ Ask(TRUE, FALSE)
          /\ session' = [session EXCEPT !.mode = IF @ = "vietnamese" THEN "english"
                                                 ELSE "vietnamese"]
          /\ tray' = RefreshIndicator(tray, session', cache)
          /\ UNCHANGED <<cache, lastApp, theme, themeDue, slot, storing>>
      BY <2>1 DEF ToggleMode, Choose, places, ui
    <3> QED BY <3>1, AskingIsNoted DEF ShapeInv, IsASession, SessionKnowsTheApp
  <2>2. CASE ToggleCurrentApp
    <3> DEFINE save == WorthSaving(ToggleOutcome(session.list, cache.app))
    <3>1. /\ loop' = "draining" /\ Ask(save, FALSE) /\ save \in BOOLEAN
          /\ session' = WithToggled(session, cache.app)
          /\ tray' = RefreshIndicator(tray, session', cache)
          /\ UNCHANGED <<cache, lastApp, theme, themeDue, slot, storing>>
      BY <2>2 DEF ToggleCurrentApp, Choose, places, ui, WorthSaving
    <3> HIDE DEF save
    <3>2. Noted
      BY <3>1, AskingIsNoted
    <3> QED BY <3>1, <3>2 DEF ShapeInv, IsASession, WithToggled
  <2> QED BY <2>1, <2>2
<1>2. tray' \in Icons /\ TrayTellsTheState'
  BY <1>1, RefreshKeeps DEF ShapeInv
<1>3. ShapeInv' /\ FrontInv' /\ SessionKnowsTheApp'
  BY <1>1, <1>2 DEF ShapeInv, FrontInv, SessionKnowsTheApp, Noted
<1>4. SomethingWakesTheLoop'
  BY <1>1 DEF SomethingWakesTheLoop
<1> QED BY <1>2, <1>3, <1>4

LEMMA SwitchKeeps ==
  ASSUME Inv, ToggleAutoFix PROVE Inv'
<1> USE DEF Inv
<1>1. /\ loop' = "draining" /\ Ask(TRUE, FALSE)
      /\ session' = [session EXCEPT !.autoFix = ~@]
      /\ UNCHANGED <<cache, lastApp, tray, theme, themeDue, slot, storing>>
  BY DEF ToggleAutoFix, Choose, places, icon, ui
<1>2. Noted /\ pending'.refresh = pending.refresh
  BY <1>1, AskingIsNoted DEF Ask, ShapeInv
<1>3. /\ IsASession(session') /\ session'.app = session.app
      /\ session'.list = session.list /\ session'.mode = session.mode
  BY <1>1 DEF ShapeInv, IsASession
<1>4. Indicator(session, cache)' = Indicator(session, cache)
  BY <1>1, <1>3, SameIndicator DEF Indicator, Active
<1>5. ShapeInv' /\ FrontInv' /\ SessionKnowsTheApp'
  BY <1>1, <1>2, <1>3 DEF ShapeInv, FrontInv, SessionKnowsTheApp, Noted
<1>6. TrayTellsTheState'
  BY <1>1, <1>2, <1>4 DEF TrayTellsTheState
<1>7. SomethingWakesTheLoop'
  BY <1>1 DEF SomethingWakesTheLoop
<1> QED BY <1>5, <1>6, <1>7

LEMMA QuitKeeps ==
  ASSUME Inv, Quit PROVE Inv'
<1> USE DEF Inv
<1>1. /\ loop' = "draining" /\ tray' = [tray EXCEPT !.there = FALSE]
      /\ UNCHANGED <<session, pending, woken, cache, lastApp, theme, slot, storing>>
  BY DEF Quit, Choose, flags, places, ui
<1>2. tray' \in Icons /\ ~tray'.there
  BY <1>1 DEF ShapeInv, Icons
<1>3. ShapeInv' /\ FrontInv' /\ SessionKnowsTheApp'
  BY <1>1, <1>2 DEF ShapeInv, FrontInv, SessionKnowsTheApp
<1> QED BY <1>1, <1>2, <1>3 DEF TrayTellsTheState, SomethingWakesTheLoop

(* The loop's own work: nothing waits after it, and the rebuilt session is  *)
(* put back where it was.                                                   *)
LEMMA DrainKeeps ==
  ASSUME Inv, Drain \/ End PROVE Inv'
<1> USE DEF Inv
<1>1. /\ Drained
      /\ UNCHANGED <<woken, cache, lastApp, theme, themeDue, storing>>
  BY DEF Drain, End, LastDrain, places, ui
<1>2. /\ pending' = [save |-> FALSE, refresh |-> FALSE] /\ slot' = Empty
      /\ FrontInv' /\ SomethingWakesTheLoop'
  BY <1>1 DEF Drained, FrontInv, SomethingWakesTheLoop
<1>3. CASE Applying
  <2>1. session' = Rebuilt /\ tray' = RefreshIndicator(tray, session', cache')
    BY <1>1, <1>3 DEF Drained
  <2>2. IsASession(session') /\ session'.app = cache.app
    BY <2>1 DEF Rebuilt, SessionFrom, IsASession
  <2>3. tray' \in Icons /\ TrayTellsTheState'
    BY <1>1, <2>1, RefreshKeeps DEF ShapeInv
  <2> QED BY <1>1, <1>2, <2>2, <2>3 DEF ShapeInv, SessionKnowsTheApp
<1>4. CASE ~Applying
  <2>1. /\ UNCHANGED session
        /\ tray' = IF pending.refresh THEN RefreshIndicator(tray, session', cache')
                   ELSE tray
    BY <1>1, <1>4 DEF Drained
  <2>2. tray' \in Icons /\ TrayTellsTheState'
    <3>1. CASE pending.refresh
      BY <1>1, <2>1, <3>1, RefreshKeeps DEF ShapeInv
    <3>2. CASE ~pending.refresh
      <4>1. Indicator(session, cache)' = Indicator(session, cache)
        BY <1>1, <2>1 DEF Indicator, Active
      <4> QED BY <1>1, <2>1, <3>2, <4>1 DEF ShapeInv, TrayTellsTheState
    <3> QED BY <3>1, <3>2
  <2> QED BY <1>1, <1>2, <2>1, <2>2 DEF ShapeInv, SessionKnowsTheApp
<1> QED BY <1>3, <1>4

LEMMA ShellKeeps == Inv /\ [Next]_vars => Inv'
<1> SUFFICES ASSUME Inv, [Next]_vars PROVE Inv'
  OBVIOUS
<1>1. CASE ToggleModeKey \/ ToggleAppKey \/ \E k \in Words, v \in Verdicts : CorrectKey(k, v)
  BY <1>1, HookSteps
<1>2. CASE \E c \in Places : Foreground(c)
  BY <1>2, ForegroundKeeps
<1>3. CASE ThemeChanges \/ SettingChange
  BY <1>3, ThemeKeeps
<1>4. CASE ToggleMode \/ ToggleCurrentApp
  BY <1>4, ToggleKeeps
<1>5. CASE ToggleAutoFix
  BY <1>5, SwitchKeeps
<1>6. CASE Quit
  BY <1>6, QuitKeeps
<1>7. CASE Drain \/ End
  BY <1>7, DrainKeeps
<1>8. CASE QuietNext
  BY <1>8, QuietNextKeeps
<1>9. CASE UNCHANGED vars
  BY <1>9, QuietSteps DEF vars, Quiet, flags, ui
<1> QED BY <1>1, <1>2, <1>3, <1>4, <1>5, <1>6, <1>7, <1>8, <1>9
        DEF Next, QuietNext, UiSteps

(* Inv along every behaviour of the shell.                                  *)
LEMMA ShellInvariant == Spec => []Inv
  BY ShellInit, ShellKeeps, PTL DEF Spec

-----------------------------------------------------------------------------
(* Nothing waits in silence: a flag set in a hook callback, or a result of  *)
(* the settings window, always has a message on its way to the loop that    *)
(* takes it (hook.rs wake, shell.rs message loop, tray.rs show_menu).       *)
THEOREM NothingWaitsInSilence == Spec => []SomethingWakesTheLoop
<1>1. Inv => SomethingWakesTheLoop
  BY DEF Inv
<1> QED BY <1>1, ShellInvariant, PTL

(* The session is always in the application the foreground cache names,     *)
(* rebuilt sessions included (shell.rs apply_settings).                     *)
THEOREM TheSessionIsInFront == Spec => []SessionKnowsTheApp
<1>1. Inv => SessionKnowsTheApp
  BY DEF Inv
<1> QED BY <1>1, ShellInvariant, PTL

(* The icon and its tooltip never lie, but for a refresh or a change of     *)
(* theme that is on its way (indicator.rs, tray.rs refresh and repaint).    *)
THEOREM TheTrayTellsTheTruth == Spec => []TrayTellsTheState
<1>1. Inv => TrayTellsTheState
  BY DEF Inv
<1> QED BY <1>1, ShellInvariant, PTL

-----------------------------------------------------------------------------
(* Requests for the settings window.                                        *)

Queued == \E S : commands \in Seq(S)

LEMMA QueueInit == Init => Queued
<1> SUFFICES ASSUME Init PROVE Queued
  OBVIOUS
<1>1. commands \in Seq({Live})
  BY DEF Init
<1> QED BY <1>1 DEF Queued

(* Whatever the step, the channel stays, grows by a request or loses its    *)
(* first; the last only where the window is looked after.                   *)
LEMMA QueueSteps ==
  ASSUME [Next]_vars
  PROVE  \/ UNCHANGED commands
         \/ \E snapshot : commands' = Append(commands, snapshot)
         \/ TakeCommand
<1>1. CASE ToggleModeKey \/ ToggleAppKey \/ \E k \in Words, v \in Verdicts : CorrectKey(k, v)
  BY <1>1 DEF ToggleModeKey, ToggleAppKey, CorrectKey, InHook, ui
<1>2. CASE \E c \in Places : Foreground(c)
  BY <1>2 DEF Foreground, ui
<1>3. CASE ThemeChanges \/ SettingChange
  BY <1>3 DEF ThemeChanges, SettingChange, ui
<1>4. CASE ToggleMode \/ ToggleCurrentApp \/ ToggleAutoFix \/ Quit
  BY <1>4 DEF ToggleMode, ToggleCurrentApp, ToggleAutoFix, Quit, ui
<1>5. CASE Drain \/ End
  BY <1>5 DEF Drain, End, ui
<1>6. CASE TakeWake \/ WakeIsLost \/ ShowMenu \/ DismissMenu
  BY <1>6 DEF TakeWake, WakeIsLost, ShowMenu, DismissMenu, ui
<1>7. CASE StoreResult \/ WakeTheLoop \/ Ended
  BY <1>7 DEF StoreResult, WakeTheLoop, Ended, vars, ui
<1>8. CASE UiSteps
  BY <1>8, ClicksStayInTheWindow
<1>9. CASE OpenSettings
  BY <1>9 DEF OpenSettings
<1>10. CASE UNCHANGED vars
  BY <1>10 DEF vars, ui
<1> QED BY <1>1, <1>2, <1>3, <1>4, <1>5, <1>6, <1>7, <1>8, <1>9, <1>10
        DEF Next, UiSteps

LEMMA QueueKeeps == Queued /\ [Next]_vars => Queued'
<1> SUFFICES ASSUME Queued, [Next]_vars PROVE Queued'
  OBVIOUS
<1>1. PICK S : commands \in Seq(S)
  BY DEF Queued
<1>2. CASE UNCHANGED commands
  BY <1>1, <1>2 DEF Queued
<1>3. CASE \E snapshot : commands' = Append(commands, snapshot)
  <2>1. PICK snapshot : commands' = Append(commands, snapshot)
    BY <1>3
  <2>2. commands \in Seq(S \cup {snapshot})
    BY <1>1
  <2>3. commands' \in Seq(S \cup {snapshot})
    BY <2>1, <2>2
  <2> QED BY <2>3 DEF Queued
<1>4. CASE TakeCommand
  <2>1. commands' \in Seq(S)
    BY <1>1, <1>4 DEF TakeCommand
  <2> QED BY <2>1 DEF Queued
<1> QED BY <1>2, <1>3, <1>4, QueueSteps

(* Whoever asks for the settings window gets one that is open and undecided *)
(* (ui_thread.rs: a closed window is delivered before the next command).    *)
THEOREM TheWindowOpens == Spec => OpenRequestIsHonoured
<1>1. ASSUME Queued, [Next]_vars, commands # <<>>, commands' = Tail(commands)
      PROVE  window'.open /\ window'.result = Undecided
  <2>1. PICK S : commands \in Seq(S)
    BY <1>1 DEF Queued
  <2>2. Len(commands') = Len(commands) - 1 /\ Len(commands) \in Nat
    BY <1>1, <2>1
  <2>3. commands' # commands
    BY <2>2
  <2>4. ASSUME NEW snapshot PROVE commands' # Append(commands, snapshot)
    <3>1. commands \in Seq(S \cup {snapshot})
      BY <2>1
    <3>2. Len(Append(commands, snapshot)) = Len(commands) + 1
      BY <3>1
    <3> QED BY <2>2, <3>2
  <2>5. TakeCommand
    BY <1>1, <2>3, <2>4, QueueSteps
  <2> QED BY <2>5 DEF TakeCommand, AfterDelivery, Decided, NewWindow
<1>2. Queued /\ [Next]_vars =>
        [commands # <<>> /\ commands' = Tail(commands) =>
           window'.open /\ window'.result = Undecided]_vars
  BY <1>1
<1> QED BY <1>2, QueueInit, QueueKeeps, PTL DEF Spec, OpenRequestIsHonoured

-----------------------------------------------------------------------------
(* Decisions about words, written as rows and read back.                    *)

(* The fold of word_override_list, on every initial segment of the words.   *)
LEMMA WordListFolds ==
  ASSUME NEW map, NEW A, \A k \in Words : k \in DOMAIN map => map[k] \in A
  PROVE  \E f : /\ f[0] = <<>>
                /\ \A k \in 1..Len(WordOrder) :
                     f[k] = IF WordOrder[k] \in DOMAIN map
                            THEN Append(f[k - 1], [keys |-> WordOrder[k],
                                                   prefer |-> map[WordOrder[k]]])
                            ELSE f[k - 1]
                /\ WordList(map) = f[Len(WordOrder)]
<1> DEFINE Row(k) == [keys |-> k, prefer |-> map[k]]
           Step(rows, k) == IF k \in DOMAIN map THEN Append(rows, Row(k)) ELSE rows
           Fold(h) == h = [s \in SUBSET DOMAIN WordOrder |->
                             IF s = {} THEN <<>>
                             ELSE IF WordOrder[Seqs!Max(s)] \in DOMAIN map
                                  THEN Append(h[s \ {Seqs!Max(s)}],
                                              [keys |-> WordOrder[Seqs!Max(s)],
                                               prefer |-> map[WordOrder[Seqs!Max(s)]]])
                                  ELSE h[s \ {Seqs!Max(s)}]]
           iter == CHOOSE h : Fold(h)
           n == Len(WordOrder)
           Rows == [keys : Words, prefer : A]
           G == [x \in Seq(Rows) \X (1..n) |-> Step(x[1], WordOrder[x[2]])]
<1>1. WordList(map) = iter[DOMAIN WordOrder]
  BY DEF WordList, Seqs!FoldLeft, Seqs!MapThenFoldSet
<1>2. n \in Nat /\ DOMAIN WordOrder = 1..n /\ \A i \in 1..n : WordOrder[i] \in Words
  BY WinSettingsAssumption DEF Words
<1>3. G \in [Seq(Rows) \X (1..n) -> Seq(Rows)]
  <2>1. \A i \in 1..n : WordOrder[i] \in DOMAIN map => Row(WordOrder[i]) \in Rows
    BY <1>2
  <2> HIDE DEF Rows, Row
  <2> QED BY <2>1
<1>4. PICK h \in [SUBSET (1..n) -> Seq(Rows)] : FoldsFromLeft(h, n, <<>>, G)
  <2>1. <<>> \in Seq(Rows) /\ n \in Nat
    BY <1>2
  <2> HIDE DEF G, n, Rows
  <2> QED BY <1>3, <2>1, LeftFoldExists, Zenon
<1>5. \A s \in (SUBSET (1..n)) \ {{}} : Seqs!Max(s) = LastIn(s) /\ Seqs!Max(s) \in 1..n
  BY <1>2, LastPosition DEF Seqs!Max, LastIn
<1>6. ASSUME NEW s \in SUBSET (1..n), s # {}
      PROVE  h[s] = Step(h[s \ {Seqs!Max(s)}], WordOrder[Seqs!Max(s)])
  <2>1. h[s \ {Seqs!Max(s)}] \in Seq(Rows) /\ Seqs!Max(s) \in 1..n
    BY <1>4, <1>5, <1>6
  <2> HIDE DEF Step, Rows
  <2> QED BY <1>4, <1>5, <1>6, <2>1 DEF FoldsFromLeft
<1>7. Fold(h)
  BY <1>2, <1>4, <1>5, <1>6 DEF FoldsFromLeft
<1>8. Fold(iter)
  <2> HIDE DEF Fold
  <2> QED BY <1>7
<1> HIDE DEF iter
<1> DEFINE f == [k \in 0..n |-> iter[1..k]]
<1>9. f[0] = <<>>
  BY <1>2, <1>8, InitialSegments
<1>10. ASSUME NEW k \in 1..n
       PROVE  f[k] = Step(f[k - 1], WordOrder[k])
  <2>1. /\ 1..k \in SUBSET (1..n) /\ 1..k # {} /\ Seqs!Max(1..k) = k
        /\ (1..k) \ {k} = 1..(k - 1)
    BY <1>2, <1>5, InitialSegments
  <2>2. iter[1..k] = Step(iter[(1..k) \ {Seqs!Max(1..k)}], WordOrder[Seqs!Max(1..k)])
    BY <1>2, <1>5, <1>8, <2>1
  <2>3. f[k] = iter[1..k] /\ f[k - 1] = iter[1..(k - 1)]
    BY <1>2
  <2> HIDE DEF f
  <2> QED BY <2>1, <2>2, <2>3
<1>11. WordList(map) = f[n]
  BY <1>1, <1>2
<1> HIDE DEF f
<1> QED BY <1>9, <1>10, <1>11

(* A decision for some of the words.                                        *)
WordMaps == UNION {[W -> Verdicts] : W \in SUBSET Words}

(* Rows about the words of `map` among the first n, as map decides them.    *)
RowsOf(map, n, rows) ==
  /\ rows \in Seq(WordRows)
  /\ \A i \in DOMAIN rows : rows[i].keys \in DOMAIN map /\ rows[i].prefer = map[rows[i].keys]
  /\ \A k \in 1..n : WordOrder[k] \in DOMAIN map =>
       \E i \in DOMAIN rows : rows[i].keys = WordOrder[k]

LEMMA RowsOfOneMore ==
  ASSUME NEW map \in WordMaps, NEW n \in 1..Len(WordOrder), NEW rows, RowsOf(map, n - 1, rows)
  PROVE  RowsOf(map, n,
                IF WordOrder[n] \in DOMAIN map
                THEN Append(rows, [keys |-> WordOrder[n], prefer |-> map[WordOrder[n]]])
                ELSE rows)
<1> DEFINE k == WordOrder[n]
           row == [keys |-> k, prefer |-> map[k]]
           more == Append(rows, row)
<1>1. n \in Nat /\ Len(WordOrder) \in Nat /\ \A j \in 1..n : j \in 1..(n - 1) \/ j = n
  BY WinSettingsAssumption
<1>2. CASE k \in DOMAIN map
  <2>1. k \in Words /\ map[k] \in Verdicts
    BY <1>2 DEF WordMaps
  <2>2. row \in WordRows /\ rows \in Seq(WordRows)
    BY <2>1 DEF WordRows, RowsOf
  <2>3. row.keys = k /\ row.prefer = map[k]
    OBVIOUS
  <2> HIDE DEF row, k
  <2>4. /\ more \in Seq(WordRows) /\ DOMAIN more = 1..(Len(rows) + 1)
        /\ Len(rows) \in Nat /\ DOMAIN rows = 1..Len(rows)
        /\ more[Len(rows) + 1] = row
        /\ \A i \in DOMAIN rows : more[i] = rows[i] /\ i \in DOMAIN more
    BY <2>2
  <2> HIDE DEF more
  <2>5. \A i \in DOMAIN more : more[i].keys \in DOMAIN map /\ more[i].prefer = map[more[i].keys]
    <3>1. ASSUME NEW i \in DOMAIN more
          PROVE  more[i].keys \in DOMAIN map /\ more[i].prefer = map[more[i].keys]
      <4>1. CASE i = Len(rows) + 1
        BY <1>2, <2>3, <2>4, <4>1
      <4>2. CASE i \in DOMAIN rows
        BY <2>4, <4>2 DEF RowsOf
      <4> QED BY <2>4, <4>1, <4>2
    <3> QED BY <3>1
  <2>6. ASSUME NEW j \in 1..n, WordOrder[j] \in DOMAIN map
        PROVE  \E i \in DOMAIN more : more[i].keys = WordOrder[j]
    <3>1. CASE j = n
      <4>1. Len(rows) + 1 \in DOMAIN more /\ more[Len(rows) + 1].keys = WordOrder[j]
        BY <2>3, <2>4, <3>1 DEF k
      <4> QED BY <4>1
    <3>2. CASE j \in 1..(n - 1)
      <4>1. PICK i \in DOMAIN rows : rows[i].keys = WordOrder[j]
        BY <2>6, <3>2 DEF RowsOf
      <4> QED BY <2>4, <4>1
    <3> QED BY <1>1, <3>1, <3>2
  <2>7. RowsOf(map, n, more)
    BY <2>4, <2>5, <2>6 DEF RowsOf
  <2> QED BY <1>2, <2>7 DEF more, row, k
<1>3. CASE k \notin DOMAIN map
  <2>1. \A j \in 1..n : WordOrder[j] \in DOMAIN map => j \in 1..(n - 1)
    BY <1>1, <1>3
  <2>2. RowsOf(map, n, rows)
    BY <2>1 DEF RowsOf
  <2> QED BY <1>3, <2>2
<1> QED BY <1>2, <1>3

LEMMA WordListRows ==
  ASSUME NEW map \in WordMaps
  PROVE  RowsOf(map, Len(WordOrder), WordList(map))
<1> DEFINE n == Len(WordOrder)
<1>1. \A k \in Words : k \in DOMAIN map => map[k] \in Verdicts
  BY DEF WordMaps
<1>2. PICK f : /\ f[0] = <<>>
               /\ \A k \in 1..n :
                    f[k] = IF WordOrder[k] \in DOMAIN map
                           THEN Append(f[k - 1], [keys |-> WordOrder[k],
                                                  prefer |-> map[WordOrder[k]]])
                           ELSE f[k - 1]
               /\ WordList(map) = f[n]
  BY <1>1, WordListFolds
<1> DEFINE T == {k \in 0..n : RowsOf(map, k, f[k])}
<1>3. n \in Nat
  BY WinSettingsAssumption
<1>4. 0 \in T
  <2>1. f[0] = <<>> /\ <<>> \in Seq(WordRows) /\ DOMAIN f[0] = {} /\ 1..0 = {}
    BY <1>2
  <2>2. RowsOf(map, 0, f[0])
    BY <2>1 DEF RowsOf
  <2> QED BY <1>3, <2>2
<1>5. ASSUME NEW k \in 1..n, k - 1 \in T PROVE k \in T
  <2>1. RowsOf(map, k - 1, f[k - 1])
    BY <1>5
  <2>2. RowsOf(map, k, f[k])
    BY <1>2, <2>1, RowsOfOneMore
  <2> QED BY <1>3, <2>2
<1>6. \A k \in 0..n : k \in T
  <2> HIDE DEF T, n
  <2> QED BY <1>3, <1>4, <1>5, AllUpTo
<1> QED BY <1>2, <1>3, <1>6

(* Filing rows in a map.                                                    *)
LEMMA FiledRows ==
  ASSUME NEW rows \in Seq(WordRows)
  PROVE  /\ WordMap(rows) \in WordMaps
         /\ DOMAIN WordMap(rows) = {rows[i].keys : i \in DOMAIN rows}
         /\ \A k \in DOMAIN WordMap(rows) :
              \E i \in DOMAIN rows : rows[i].keys = k /\ WordMap(rows)[k] = rows[i].prefer
<1> DEFINE W == {rows[i].keys : i \in DOMAIN rows}
           about(k) == {i \in DOMAIN rows : rows[i].keys = k}
           last(k) == CHOOSE i \in about(k) : \A j \in about(k) : j <= i
<1>1. Len(rows) \in Nat /\ DOMAIN rows = 1..Len(rows) /\ \A i \in DOMAIN rows : rows[i] \in WordRows
  OBVIOUS
<1>2. W \in SUBSET Words
  BY <1>1 DEF WordRows
<1>3. ASSUME NEW k \in W PROVE last(k) \in DOMAIN rows /\ rows[last(k)].keys = k
  <2>1. about(k) \subseteq 1..Len(rows) /\ about(k) # {}
    BY <1>1
  <2>2. \E i \in about(k) : \A j \in about(k) : i >= j
    BY <1>1, <2>1, LastPosition
  <2>3. \E i \in about(k) : \A j \in about(k) : j <= i
    BY <1>1, <2>2
  <2>4. last(k) \in about(k)
    BY <2>3
  <2> QED BY <2>4
<1>4. WordMap(rows) = [k \in W |-> rows[last(k)].prefer]
  BY DEF WordMap
<1> HIDE DEF W, last
<1>5. \A k \in W : rows[last(k)].prefer \in Verdicts
  BY <1>1, <1>3 DEF WordRows
<1>6. WordMap(rows) \in [W -> Verdicts]
  BY <1>4, <1>5
<1> QED BY <1>2, <1>3, <1>4, <1>6 DEF WordMaps, W

(* What is written about words is what is read back.                        *)
LEMMA WordsReturn ==
  ASSUME NEW map \in WordMaps
  PROVE  WordList(map) \in Seq(WordRows) /\ WordMap(WordList(map)) = map
<1> DEFINE rows == WordList(map)
           back == WordMap(rows)
<1>1. RowsOf(map, Len(WordOrder), rows)
  BY WordListRows
<1>2. rows \in Seq(WordRows)
  BY <1>1 DEF RowsOf
<1>3. /\ back \in WordMaps
      /\ DOMAIN back = {rows[i].keys : i \in DOMAIN rows}
      /\ \A k \in DOMAIN back :
           \E i \in DOMAIN rows : rows[i].keys = k /\ back[k] = rows[i].prefer
  BY <1>2, FiledRows
<1>4. DOMAIN map \subseteq DOMAIN back
  <2>1. ASSUME NEW k \in DOMAIN map PROVE \E i \in DOMAIN rows : rows[i].keys = k
    <3>1. PICK i \in DOMAIN WordOrder : WordOrder[i] = k
      BY <2>1 DEF WordMaps, Words
    <3>2. i \in 1..Len(WordOrder)
      BY <3>1, WinSettingsAssumption
    <3> QED BY <1>1, <3>1, <3>2 DEF RowsOf
  <2> QED BY <1>3, <2>1
<1>5. DOMAIN back \subseteq DOMAIN map /\ \A k \in DOMAIN back : back[k] = map[k]
  BY <1>1, <1>3 DEF RowsOf
<1> HIDE DEF back
<1>6. back = [k \in DOMAIN back |-> back[k]] /\ map = [k \in DOMAIN map |-> map[k]]
  BY <1>3 DEF WordMaps
<1>7. back = map
  BY <1>4, <1>5, <1>6
<1> QED BY <1>2, <1>7 DEF back

-----------------------------------------------------------------------------
(* Settings, and the session made of them.                                  *)

Sessions ==
  [list : Lists, autoFix : BOOLEAN, strict : BOOLEAN, macros : Seq(Macros), words : WordMaps,
   mode : {"vietnamese", "english"}, app : Apps \cup {NoApp}]

(* The list of this build: what it ships is in it unless it was removed, so *)
(* that reading it back adds nothing.                                       *)
Kept(list) ==
  /\ list \in Lists
  /\ list.defaults = ShippedTable(Defaults)
  /\ list.defaults \ list.removed \subseteq list.ids

LEMMA ReadListIsKept ==
  ASSUME NEW s \in Settings PROVE Kept(ListOf(s))
<1>1. ShippedTable(Defaults) \subseteq Apps
  BY WinSettingsAssumption, AppsAssumption DEF ShippedTable
<1>2. s.exclusions \in SUBSET Apps /\ s.removed \in SUBSET Apps
  BY DEF Settings
<1>3. ListOf(s) = [ids |-> s.exclusions \cup (ShippedTable(Defaults) \ s.removed),
                   removed |-> s.removed, suspended |-> {}, defaults |-> ShippedTable(Defaults)]
  BY DEF ListOf, FromSaved
<1> HIDE DEF ShippedTable
<1> QED BY <1>1, <1>2, <1>3 DEF Kept, Lists

(* Adding, removing and toggling keep the list so; what is only let go for  *)
(* the session changes nothing that is saved.                               *)
LEMMA EditedListIsKept ==
  ASSUME NEW list, Kept(list), NEW a \in Apps
  PROVE  /\ Kept(Add(list, a)) /\ Kept(Remove(list, a)) /\ Kept(Toggled(list, a))
         /\ ToggleOutcome(list, a) = "EnabledSessionOnly" =>
              /\ Toggled(list, a).ids = list.ids
              /\ Toggled(list, a).removed = list.removed
<1> USE DEF Kept, Lists
<1>1. Kept(Add(list, a))
  BY DEF Add
<1>2. Kept(Remove(list, a))
  BY DEF Remove
<1>3. Kept(SuspendForSession(list, a)) /\ Kept(Resume(list, a))
  BY DEF SuspendForSession, Resume
<1>4. Kept(Toggled(list, a))
  BY <1>1, <1>2, <1>3 DEF Toggled
<1>5. ASSUME ToggleOutcome(list, a) = "EnabledSessionOnly"
      PROVE  Toggled(list, a) = SuspendForSession(list, a)
  BY <1>5 DEF Toggled, ToggleOutcome
<1>6. /\ SuspendForSession(list, a).ids = list.ids
      /\ SuspendForSession(list, a).removed = list.removed
  BY DEF SuspendForSession
<1> QED BY <1>1, <1>2, <1>4, <1>5, <1>6

(* A session of settings, and the settings of a session.                    *)
LEMMA SessionOfSettings ==
  ASSUME NEW s \in Settings
  PROVE  SessionFrom(s) \in Sessions /\ Kept(SessionFrom(s).list)
<1>1. Kept(ListOf(s)) /\ WordMap(s.words) \in WordMaps
  BY ReadListIsKept, FiledRows DEF Settings
<1>2. SessionFrom(s) = [list |-> ListOf(s), autoFix |-> s.autoFix, strict |-> s.strict,
                        macros |-> s.macros, words |-> WordMap(s.words),
                        mode |-> "vietnamese", app |-> NoApp]
  BY DEF SessionFrom
<1>3. s.autoFix \in BOOLEAN /\ s.strict \in BOOLEAN /\ s.macros \in Seq(Macros)
  BY DEF Settings
<1>4. ListOf(s) \in Lists
  BY <1>1 DEF Kept
<1>5. /\ SessionFrom(s).list = ListOf(s)
      /\ SessionFrom(s) \in Sessions
  BY <1>1, <1>2, <1>3, <1>4 DEF Sessions
<1> QED BY <1>1, <1>5

LEMMA SettingsOfSession ==
  ASSUME NEW live \in Sessions, NEW l \in Languages
  PROVE  SettingsFrom(live, l) \in Settings
<1>1. live.list.ids \in SUBSET Apps /\ live.list.removed \in SUBSET Apps
  BY DEF Sessions, Lists
<1>2. WordList(live.words) \in Seq(WordRows)
  BY WordsReturn DEF Sessions
<1>3. live.autoFix \in BOOLEAN /\ live.strict \in BOOLEAN /\ live.macros \in Seq(Macros)
  BY DEF Sessions
<1> QED BY <1>1, <1>2, <1>3 DEF SettingsFrom, Settings

(* Written to the file and read back, the settings of a session are what    *)
(* they were.                                                               *)
LEMMA SavedIsReadBack ==
  ASSUME NEW live \in Sessions, Kept(live.list), NEW l \in Languages
  PROVE  Meaning(SettingsFrom(live, l)) = SettingsFrom(live, l)
<1> DEFINE s == SettingsFrom(live, l)
           back == SessionFrom(s)
<1>1. /\ s.exclusions = live.list.ids /\ s.removed = live.list.removed
      /\ s.autoFix = live.autoFix /\ s.strict = live.strict
      /\ s.macros = live.macros /\ s.words = WordList(live.words) /\ s.language = l
  BY DEF SettingsFrom
<1>2. /\ back.list.ids = live.list.ids \cup (ShippedTable(Defaults) \ live.list.removed)
      /\ back.list.removed = live.list.removed
  BY <1>1 DEF SessionFrom, ListOf, FromSaved
<1>3. back.list.ids = live.list.ids
  BY <1>2 DEF Kept
<1>4. back.words = live.words
  BY <1>1, WordsReturn DEF SessionFrom, Sessions
<1>5. back.autoFix = live.autoFix /\ back.strict = live.strict
      /\ back.macros = live.macros
  BY <1>1 DEF SessionFrom
<1>6. Meaning(s) = SettingsFrom(back, l)
  BY <1>1 DEF Meaning
<1> HIDE DEF back, s
<1>7. SettingsFrom(back, l) = SettingsFrom(live, l)
  BY <1>2, <1>3, <1>4, <1>5 DEF SettingsFrom
<1> QED BY <1>6, <1>7 DEF s

(* What the program makes of a file it makes of it for good.                *)
LEMMA MeaningIsFinal ==
  ASSUME NEW s \in Settings
  PROVE  Meaning(s) \in Settings /\ Meaning(Meaning(s)) = Meaning(s)
<1>1. s.language \in Languages
  BY DEF Settings
<1> QED BY <1>1, SessionOfSettings, SettingsOfSession, SavedIsReadBack DEF Meaning

(* The parts of the settings that a merge takes from the live ones stay so  *)
(* through the session built from the merge.                                *)
LEMMA MeaningByPart ==
  ASSUME NEW s \in Settings, NEW live \in Settings, Meaning(live) = live,
         NEW f \in Fields, s[f] = live[f],
         f \in {"exclusions", "removed"} =>
           s.exclusions = live.exclusions /\ s.removed = live.removed
  PROVE  Meaning(s)[f] = live[f]
<1>1. /\ Meaning(s).autoFix = s.autoFix /\ Meaning(s).strict = s.strict
      /\ Meaning(s).macros = s.macros /\ Meaning(s).language = s.language
      /\ Meaning(s).words = WordList(WordMap(s.words))
      /\ Meaning(s).exclusions = s.exclusions \cup (ShippedTable(Defaults) \ s.removed)
      /\ Meaning(s).removed = s.removed
  BY DEF Meaning, SettingsFrom, SessionFrom, ListOf, FromSaved
<1>2. /\ Meaning(live).words = WordList(WordMap(live.words))
      /\ Meaning(live).exclusions = live.exclusions \cup (ShippedTable(Defaults) \ live.removed)
  BY DEF Meaning, SettingsFrom, SessionFrom, ListOf, FromSaved
<1>3. CASE f \in {"exclusions", "removed"}
  BY <1>1, <1>2, <1>3
<1>4. CASE f = "words"
  BY <1>1, <1>2, <1>4
<1>5. CASE f \in {"autoFix", "strict", "macros", "language"}
  BY <1>1, <1>5
<1> QED BY <1>3, <1>4, <1>5 DEF Fields

(* A merge is settings.                                                     *)
LEMMA MergeIsSettings ==
  ASSUME NEW baseline, NEW edited \in Settings, NEW live \in Settings
  PROVE  /\ Merged(baseline, edited, live) \in Settings
         /\ \A f \in Fields : edited[f] = baseline[f] =>
              Merged(baseline, edited, live)[f] = live[f]
<1> DEFINE m == Merged(baseline, edited, live)
<1>1. \A f \in Fields : m[f] = IF edited[f] = baseline[f] THEN live[f] ELSE edited[f]
  BY DEF Merged
<1>2. m = [exclusions |-> m.exclusions, removed |-> m.removed, autoFix |-> m.autoFix,
           strict |-> m.strict, macros |-> m.macros, words |-> m.words, language |-> m.language]
  BY DEF Merged, Fields
<1> HIDE DEF m
<1>3. /\ m.exclusions \in {edited.exclusions, live.exclusions}
      /\ m.removed \in {edited.removed, live.removed}
      /\ m.autoFix \in {edited.autoFix, live.autoFix}
      /\ m.strict \in {edited.strict, live.strict}
      /\ m.macros \in {edited.macros, live.macros}
      /\ m.words \in {edited.words, live.words}
      /\ m.language \in {edited.language, live.language}
  BY <1>1 DEF Fields
<1>4. /\ m.exclusions \in SUBSET Apps /\ m.removed \in SUBSET Apps
      /\ m.autoFix \in BOOLEAN /\ m.strict \in BOOLEAN
      /\ m.macros \in Seq(Macros) /\ m.words \in Seq(WordRows) /\ m.language \in Languages
  BY <1>3 DEF Settings
<1>5. m \in Settings
  BY <1>2, <1>4 DEF Settings
<1> QED BY <1>1, <1>5 DEF m

(* The rows of the two lists.                                               *)
LEMMA RowsWithoutOne ==
  ASSUME NEW S, NEW rows \in Seq(S), NEW i \in DOMAIN rows
  PROVE  Seqs!RemoveAt(rows, i) \in Seq(S)
<1>1. Len(rows) \in Nat /\ i \in 1..Len(rows)
  OBVIOUS
<1>2. SubSeq(rows, 1, i - 1) \in Seq(S) /\ SubSeq(rows, i + 1, Len(rows)) \in Seq(S)
  <2>1. 1 \in 1..(Len(rows) + 1) /\ i - 1 \in (1 - 1)..Len(rows)
    BY <1>1
  <2>2. i + 1 \in 1..(Len(rows) + 1) /\ Len(rows) \in ((i + 1) - 1)..Len(rows)
    BY <1>1
  <2>3. SubSeq(rows, 1, i - 1) \in Seq(S)
    BY <2>1, SliceProperties
  <2>4. SubSeq(rows, i + 1, Len(rows)) \in Seq(S)
    BY <2>2, SliceProperties
  <2> QED BY <2>3, <2>4
<1> QED BY <1>2 DEF Seqs!RemoveAt

LEMMA RowsWithOneChanged ==
  ASSUME NEW S, NEW rows \in Seq(S), NEW i \in DOMAIN rows, NEW x \in S
  PROVE  [rows EXCEPT ![i] = x] \in Seq(S) /\ DOMAIN [rows EXCEPT ![i] = x] = DOMAIN rows
  OBVIOUS

(* The first position of some.                                              *)
LEMMA FirstPosition ==
  ASSUME NEW n \in Nat, NEW P, P \subseteq 1..n, P # {}
  PROVE  (CHOOSE i \in P : \A j \in P : i <= j) \in P
<1>1. \E i \in P : \A j \in P : i <= j
  <2>1. P \subseteq Nat
    OBVIOUS
  <2> QED BY <2>1, LeastNatural
<1> QED BY <1>1

LEMMA UpsertedMacros ==
  ASSUME NEW rows \in Seq(Macros), NEW m \in Macros, NEW at
  PROVE  UpsertMacro(rows, m, at) \in Seq(Macros)
<1> DEFINE same == {i \in DOMAIN rows : SameShortcut(rows[i].shortcut, m.shortcut)}
           first == CHOOSE i \in same : \A j \in same : i <= j
           put == [rows EXCEPT ![at] = m]
<1>1. same # {} => first \in DOMAIN rows
  <2>1. same \subseteq 1..Len(rows) /\ Len(rows) \in Nat
    OBVIOUS
  <2> HIDE DEF same
  <2>2. same # {} => first \in same
    BY <2>1, FirstPosition
  <2> QED BY <2>2 DEF same
<1>2. UpsertMacro(rows, m, at) =
        IF at \in DOMAIN rows
        THEN IF same # {} /\ first # at THEN Seqs!RemoveAt(put, first) ELSE put
        ELSE IF same # {} THEN [rows EXCEPT ![first] = m] ELSE Append(rows, m)
  BY DEF UpsertMacro
<1> HIDE DEF same, first
<1>3. at \in DOMAIN rows => put \in Seq(Macros) /\ DOMAIN put = DOMAIN rows
  BY RowsWithOneChanged
<1>4. same # {} => [rows EXCEPT ![first] = m] \in Seq(Macros)
  BY <1>1, RowsWithOneChanged
<1>5. at \in DOMAIN rows /\ same # {} => Seqs!RemoveAt(put, first) \in Seq(Macros)
  <2> HIDE DEF put
  <2> QED BY <1>1, <1>3, RowsWithoutOne
<1>6. Append(rows, m) \in Seq(Macros)
  OBVIOUS
<1> HIDE DEF put
<1> QED BY <1>2, <1>3, <1>4, <1>5, <1>6, Zenon

LEMMA UpsertedWords ==
  ASSUME NEW rows \in Seq(WordRows), NEW w \in WordRows, NEW at
  PROVE  UpsertWord(rows, w, at) \in Seq(WordRows)
<1> DEFINE same == {i \in DOMAIN rows : rows[i].keys = w.keys}
           first == CHOOSE i \in same : \A j \in same : i <= j
<1>1. same # {} => first \in DOMAIN rows
  <2>1. same \subseteq 1..Len(rows) /\ Len(rows) \in Nat
    OBVIOUS
  <2> HIDE DEF same
  <2>2. same # {} => first \in same
    BY <2>1, FirstPosition
  <2> QED BY <2>2 DEF same
<1>2. UpsertWord(rows, w, at) =
        IF at \in DOMAIN rows THEN [rows EXCEPT ![at] = w]
        ELSE IF same # {} THEN [rows EXCEPT ![first] = w] ELSE Append(rows, w)
  BY DEF UpsertWord
<1> HIDE DEF same, first
<1>3. at \in DOMAIN rows => [rows EXCEPT ![at] = w] \in Seq(WordRows)
  BY RowsWithOneChanged
<1>4. same # {} => [rows EXCEPT ![first] = w] \in Seq(WordRows)
  BY <1>1, RowsWithOneChanged
<1>5. Append(rows, w) \in Seq(WordRows)
  OBVIOUS
<1> QED BY <1>2, <1>3, <1>4, <1>5, Zenon

(* An import is one upsert after another.                                   *)
LEMMA ImportedMacros ==
  ASSUME NEW rows \in Seq(Macros), NEW table \in Seq(Macros)
  PROVE  UpsertTable(rows, table) \in Seq(Macros)
<1> DEFINE Fold(h) == h = [s \in SUBSET DOMAIN table |->
                             IF s = {} THEN rows
                             ELSE UpsertMacro(h[s \ {Seqs!Max(s)}], table[Seqs!Max(s)], 0)]
           iter == CHOOSE h : Fold(h)
           n == Len(table)
           G == [x \in Seq(Macros) \X (1..n) |-> UpsertMacro(x[1], table[x[2]], 0)]
<1>1. UpsertTable(rows, table) = iter[DOMAIN table]
  BY DEF UpsertTable, Seqs!FoldLeft, Seqs!MapThenFoldSet
<1>2. n \in Nat /\ DOMAIN table = 1..n /\ \A i \in 1..n : table[i] \in Macros
  OBVIOUS
<1>3. G \in [Seq(Macros) \X (1..n) -> Seq(Macros)]
  <2>1. \A x \in Seq(Macros) \X (1..n) : UpsertMacro(x[1], table[x[2]], 0) \in Seq(Macros)
    BY <1>2, UpsertedMacros
  <2> QED BY <2>1
<1>4. PICK h \in [SUBSET (1..n) -> Seq(Macros)] : FoldsFromLeft(h, n, rows, G)
  <2>1. n \in Nat
    BY <1>2
  <2> HIDE DEF G, n
  <2> QED BY <1>3, <2>1, LeftFoldExists, Zenon
<1>5. \A s \in (SUBSET (1..n)) \ {{}} : Seqs!Max(s) = LastIn(s) /\ Seqs!Max(s) \in 1..n
  BY <1>2, LastPosition DEF Seqs!Max, LastIn
<1>6. ASSUME NEW s \in SUBSET (1..n), s # {}
      PROVE  h[s] = UpsertMacro(h[s \ {Seqs!Max(s)}], table[Seqs!Max(s)], 0)
  <2>1. h[s \ {Seqs!Max(s)}] \in Seq(Macros) /\ Seqs!Max(s) \in 1..n
    BY <1>4, <1>5, <1>6
  <2>2. h[s] = G[<<h[s \ {Seqs!Max(s)}], Seqs!Max(s)>>]
    BY <1>4, <1>5, <1>6, ZenonT(30) DEF FoldsFromLeft
  <2> QED BY <2>1, <2>2
<1>7. Fold(h)
  BY <1>2, <1>4, <1>5, <1>6 DEF FoldsFromLeft
<1>8. Fold(iter)
  <2> HIDE DEF Fold
  <2> QED BY <1>7
<1> HIDE DEF iter
<1> DEFINE T == {k \in 0..n : iter[1..k] \in Seq(Macros)}
<1>9. 0 \in T
  BY <1>2, <1>8, InitialSegments
<1>10. ASSUME NEW k \in 1..n, k - 1 \in T PROVE k \in T
  <2>1. /\ 1..k \in SUBSET (1..n) /\ 1..k # {} /\ Seqs!Max(1..k) = k
        /\ (1..k) \ {k} = 1..(k - 1)
    BY <1>2, <1>5, InitialSegments
  <2>2. iter[1..k] = UpsertMacro(iter[(1..k) \ {Seqs!Max(1..k)}], table[Seqs!Max(1..k)], 0)
    BY <1>2, <1>5, <1>8, <2>1
  <2>3. iter[1..(k - 1)] \in Seq(Macros) /\ table[k] \in Macros
    BY <1>2, <1>10
  <2>4. UpsertMacro(iter[1..(k - 1)], table[k], 0) \in Seq(Macros)
    BY <2>3, UpsertedMacros
  <2>5. iter[1..k] = UpsertMacro(iter[1..(k - 1)], table[k], 0)
    BY <2>1, <2>2, Zenon
  <2>6. iter[1..k] \in Seq(Macros)
    BY <2>4, <2>5, Zenon
  <2>7. k \in 0..n
    BY <1>2
  <2> QED BY <2>6, <2>7
<1>11. \A k \in 0..n : k \in T
  <2>1. n \in Nat
    BY <1>2
  <2> HIDE DEF T, n
  <2> QED BY <1>9, <1>10, <2>1, AllUpTo
<1> QED BY <1>1, <1>2, <1>11

-----------------------------------------------------------------------------
(* The settings window.                                                     *)

Results ==
  {Undecided, [is |-> "unchanged"]}
    \cup [is : {"edited"}, settings : Settings, touched : SUBSET Fields]

Windows ==
  [open : {TRUE}, initial : Settings, draft : Settings, list : Lists, macroAt : Nat,
   wordAt : Nat, lists : SUBSET ListWindows, result : Results, touched : SUBSET Fields]

Final(w) == [w.draft EXCEPT !.exclusions = w.list.ids, !.removed = w.list.removed]

OfTheList == {"exclusions", "removed"}
Whole(touched) == touched \cap OfTheList = {} \/ OfTheList \subseteq touched

(* What was not touched is as the window found it.                          *)
Untouched(w) ==
  /\ \A f \in Fields \ (w.touched \cup OfTheList) : w.draft[f] = w.initial[f]
  /\ Whole(w.touched)
  /\ OfTheList \subseteq w.touched \/ w.list = ListOf(w.initial)

(* And in a result it is as in the settings it is compared with.            *)
Honest(result, baseline) ==
  result.is = "edited" =>
    /\ \A f \in Fields \ result.touched : result.settings[f] = baseline[f]
    /\ Whole(result.touched)

IsAWindow(w) == w \in Windows /\ Untouched(w) /\ Honest(w.result, Baseline(w))

LEMMA NormalizedIsSettings ==
  ASSUME NEW s \in Settings
  PROVE  /\ Normalized(s) \in Settings
         /\ Normalized(s).exclusions = ListOf(s).ids
         /\ Normalized(s).removed = ListOf(s).removed
         /\ \A f \in Fields \ OfTheList : Normalized(s)[f] = s[f]
<1>1. ListOf(s) \in Lists
  BY ReadListIsKept DEF Kept
<1>2. ListOf(s).ids \in SUBSET Apps /\ ListOf(s).removed \in SUBSET Apps
  BY <1>1 DEF Lists
<1> QED BY <1>2 DEF Normalized, Settings, Fields, OfTheList

LEMMA FinalIsSettings ==
  ASSUME NEW w \in Windows
  PROVE  /\ Final(w) \in Settings
         /\ Final(w).exclusions = w.list.ids
         /\ Final(w).removed = w.list.removed
         /\ \A f \in Fields \ OfTheList : Final(w)[f] = w.draft[f]
<1>1. w.draft \in Settings /\ w.list.ids \in SUBSET Apps /\ w.list.removed \in SUBSET Apps
  BY DEF Windows, Lists
<1> QED BY <1>1 DEF Final, Settings, Fields, OfTheList

LEMMA NewWindowIsOne ==
  ASSUME NEW s \in Settings PROVE IsAWindow(NewWindow(s))
<1>1. ListOf(s) \in Lists
  BY ReadListIsKept DEF Kept
<1>2. NewWindow(s) \in Windows
  BY <1>1 DEF NewWindow, Windows, Results
<1>3. Untouched(NewWindow(s))
  BY DEF NewWindow, Untouched, Whole
<1>4. NewWindow(s).result = Undecided
  BY DEF NewWindow
<1> QED BY <1>2, <1>3, <1>4 DEF IsAWindow, Honest, Undecided

LEMMA FinalizedIsAWindow ==
  ASSUME NEW w, IsAWindow(w) PROVE IsAWindow(Finalized(w))
<1> DEFINE r == IF Final(w) = Baseline(w) THEN [is |-> "unchanged"]
                ELSE [is |-> "edited", settings |-> Final(w), touched |-> w.touched]
           x == [w EXCEPT !.result = r]
<1>1. w \in Windows /\ Untouched(w) /\ w.initial \in Settings
  BY DEF IsAWindow, Windows
<1>2. Final(w) \in Settings /\ w.touched \in SUBSET Fields
  BY <1>1, FinalIsSettings DEF Windows
<1>3. r \in Results
  BY <1>2 DEF Results
<1>4. Finalized(w) = IF w.result # Undecided THEN w ELSE x
  BY DEF Finalized, Final
<1>5. \A f \in Fields \ w.touched : Final(w)[f] = Baseline(w)[f]
  <2>1. ASSUME NEW f \in Fields \ w.touched PROVE Final(w)[f] = Baseline(w)[f]
    <3>1. CASE f \in OfTheList
      <4>1. w.list = ListOf(w.initial)
        BY <1>1, <3>1, <2>1 DEF Untouched
      <4> QED BY <1>1, <3>1, <4>1, FinalIsSettings, NormalizedIsSettings DEF Baseline, OfTheList
    <3>2. CASE f \notin OfTheList
      <4>1. w.draft[f] = w.initial[f]
        BY <1>1, <3>2, <2>1 DEF Untouched
      <4> QED BY <1>1, <3>2, <4>1, FinalIsSettings, NormalizedIsSettings DEF Baseline
    <3> QED BY <3>1, <3>2
  <2> QED BY <2>1
<1>6. Whole(w.touched)
  BY <1>1 DEF Untouched
<1>7. Honest(r, Baseline(w))
  BY <1>5, <1>6 DEF Honest
<1> HIDE DEF r
<1>8. x \in Windows
  BY <1>1, <1>3 DEF Windows
<1>9. x.result = r /\ x.touched = w.touched /\ x.draft = w.draft /\ x.initial = w.initial
      /\ x.list = w.list
  BY <1>1 DEF Windows
<1> HIDE DEF x
<1>10. Untouched(x) /\ Baseline(x) = Baseline(w)
  BY <1>1, <1>9 DEF Untouched, Baseline
<1> QED BY <1>4, <1>7, <1>8, <1>9, <1>10 DEF IsAWindow

(* A click that changes the draft and owns up to it.                        *)
Edited(w, next, d, l, parts) ==
  /\ next \in Windows
  /\ next.initial = w.initial /\ next.result = w.result
  /\ next.draft = d /\ next.list = l /\ next.touched = w.touched \cup parts

LEMMA OwningUp ==
  ASSUME NEW w, IsAWindow(w), NEW next, NEW d, NEW l, NEW parts,
         Edited(w, next, d, l, parts), Whole(parts),
         \A f \in Fields \ (parts \cup OfTheList) : d[f] = w.draft[f],
         OfTheList \subseteq parts \/ l = w.list
  PROVE  IsAWindow(next)
<1>1. next \in Windows /\ Honest(next.result, Baseline(next))
  BY DEF IsAWindow, Edited, Baseline
<1>2. \A f \in Fields \ (next.touched \cup OfTheList) : next.draft[f] = next.initial[f]
  <2>1. ASSUME NEW f \in Fields \ (next.touched \cup OfTheList)
        PROVE  next.draft[f] = next.initial[f]
    <3>1. f \in Fields \ (parts \cup OfTheList) /\ f \in Fields \ (w.touched \cup OfTheList)
      BY <2>1 DEF Edited
    <3>2. d[f] = w.draft[f] /\ w.draft[f] = w.initial[f]
      BY <3>1 DEF IsAWindow, Untouched
    <3> QED BY <3>2 DEF Edited
  <2> QED BY <2>1
<1>3. Whole(next.touched)
  BY DEF IsAWindow, Untouched, Edited, Whole
<1>4. OfTheList \subseteq next.touched \/ next.list = ListOf(next.initial)
  BY DEF IsAWindow, Untouched, Edited
<1> QED BY <1>1, <1>2, <1>3, <1>4 DEF IsAWindow, Untouched

(* The switches and the language.                                           *)
LEMMA SwitchesKeepAWindow ==
  ASSUME NEW w, IsAWindow(w)
  PROVE  /\ IsAWindow(SwitchAutoFix(w)) /\ IsAWindow(SwitchStrict(w))
         /\ \A l \in Languages : IsAWindow(ChooseLanguage(w, l))
<1>1. w \in Windows /\ w.draft \in Settings /\ w.touched \in SUBSET Fields
  BY DEF IsAWindow, Windows
<1>2. IsAWindow(SwitchAutoFix(w))
  <2> DEFINE d == [w.draft EXCEPT !.autoFix = ~@]
  <2>1. d \in Settings /\ \A f \in Fields \ {"autoFix"} : d[f] = w.draft[f]
    BY <1>1 DEF Settings, Fields
  <2>2. SwitchAutoFix(w) = [w EXCEPT !.draft = d, !.touched = w.touched \cup {"autoFix"}]
    BY <1>1 DEF SwitchAutoFix, Touch, Windows
  <2> HIDE DEF d
  <2>3. Edited(w, SwitchAutoFix(w), d, w.list, {"autoFix"})
    BY <1>1, <2>1, <2>2 DEF Edited, Windows, Fields
  <2> QED BY <2>1, <2>3, OwningUp DEF Whole, OfTheList
<1>3. IsAWindow(SwitchStrict(w))
  <2> DEFINE d == [w.draft EXCEPT !.strict = ~@]
  <2>1. d \in Settings /\ \A f \in Fields \ {"strict"} : d[f] = w.draft[f]
    BY <1>1 DEF Settings, Fields
  <2> DEFINE next == [w EXCEPT !.draft = d, !.touched = w.touched \cup {"strict"}]
  <2>2. SwitchStrict(w) = IF w.draft.autoFix THEN next ELSE w
    BY <1>1 DEF SwitchStrict, Touch, Windows
  <2> HIDE DEF d
  <2>3. Edited(w, next, d, w.list, {"strict"})
    BY <1>1, <2>1 DEF Edited, Windows, Fields
  <2> HIDE DEF next
  <2>4. IsAWindow(next)
    BY <2>1, <2>3, OwningUp DEF Whole, OfTheList
  <2> QED BY <2>2, <2>4
<1>4. ASSUME NEW l \in Languages PROVE IsAWindow(ChooseLanguage(w, l))
  <2> DEFINE d == [w.draft EXCEPT !.language = l]
  <2>1. d \in Settings /\ \A f \in Fields \ {"language"} : d[f] = w.draft[f]
    BY <1>1 DEF Settings, Fields
  <2>2. ChooseLanguage(w, l) = [w EXCEPT !.draft = d, !.touched = w.touched \cup {"language"}]
    BY <1>1 DEF ChooseLanguage, Touch, Windows
  <2> HIDE DEF d
  <2>3. Edited(w, ChooseLanguage(w, l), d, w.list, {"language"})
    BY <1>1, <2>1, <2>2 DEF Edited, Windows, Fields
  <2> QED BY <2>1, <2>3, OwningUp DEF Whole, OfTheList
<1> QED BY <1>2, <1>3, <1>4

(* The list of applications.                                                *)
LEMMA EditedListsAreLists ==
  ASSUME NEW list \in Lists, NEW a \in Apps
  PROVE  Add(list, a) \in Lists /\ Remove(list, a) \in Lists
<1>1. Add(list, a) \in Lists
  BY DEF Add, Lists
<1>2. Remove(list, a) \in Lists
  BY DEF Remove, Lists
<1> QED BY <1>1, <1>2

LEMMA ExclusionsKeepAWindow ==
  ASSUME NEW w, IsAWindow(w), NEW a \in Apps
  PROVE  IsAWindow(AddExclusion(w, a)) /\ IsAWindow(RemoveExclusion(w, a))
<1>1. w \in Windows /\ w.list \in Lists /\ w.touched \in SUBSET Fields
  BY DEF IsAWindow, Windows
<1>2. ASSUME NEW list \in Lists
      PROVE  IsAWindow([w EXCEPT !.list = list, !.touched = w.touched \cup OfTheList])
  <2> DEFINE next == [w EXCEPT !.list = list, !.touched = w.touched \cup OfTheList]
  <2>1. Edited(w, next, w.draft, list, OfTheList)
    BY <1>1, <1>2 DEF Edited, Windows, Fields, OfTheList
  <2> HIDE DEF next
  <2>2. IsAWindow(next)
    BY <2>1, OwningUp DEF Whole
  <2> QED BY <2>2 DEF next
<1>3. /\ AddExclusion(w, a) =
           [w EXCEPT !.list = Add(w.list, a), !.touched = w.touched \cup OfTheList]
      /\ RemoveExclusion(w, a) =
           [w EXCEPT !.list = Remove(w.list, a), !.touched = w.touched \cup OfTheList]
  BY <1>1 DEF AddExclusion, RemoveExclusion, Touch, OfTheList, Windows
<1> QED BY <1>1, <1>2, <1>3, EditedListsAreLists

(* The macros.                                                              *)
LEMMA MacrosOfAWindow ==
  ASSUME NEW w, IsAWindow(w), NEW rows \in Seq(Macros), NEW at \in Nat
  PROVE  IsAWindow([w EXCEPT !.draft.macros = rows, !.macroAt = at,
                             !.touched = w.touched \cup {"macros"}])
<1> DEFINE d == [w.draft EXCEPT !.macros = rows]
           next == [w EXCEPT !.draft = d, !.macroAt = at, !.touched = w.touched \cup {"macros"}]
<1>1. w \in Windows /\ w.draft \in Settings /\ w.touched \in SUBSET Fields
  BY DEF IsAWindow, Windows
<1>2. d \in Settings /\ \A f \in Fields \ {"macros"} : d[f] = w.draft[f]
  BY <1>1 DEF Settings, Fields
<1>3. [w EXCEPT !.draft.macros = rows, !.macroAt = at,
                !.touched = w.touched \cup {"macros"}] = next
  BY <1>1 DEF Windows
<1> HIDE DEF d
<1>4. Edited(w, next, d, w.list, {"macros"})
  BY <1>1, <1>2 DEF Edited, Windows, Fields
<1> HIDE DEF next
<1>5. IsAWindow(next)
  BY <1>2, <1>4, OwningUp DEF Whole, OfTheList
<1> QED BY <1>3, <1>5

LEMMA WordsOfAWindow ==
  ASSUME NEW w, IsAWindow(w), NEW rows \in Seq(WordRows), NEW at \in Nat
  PROVE  IsAWindow([w EXCEPT !.draft.words = rows, !.wordAt = at,
                             !.touched = w.touched \cup {"words"}])
<1> DEFINE d == [w.draft EXCEPT !.words = rows]
           next == [w EXCEPT !.draft = d, !.wordAt = at, !.touched = w.touched \cup {"words"}]
<1>1. w \in Windows /\ w.draft \in Settings /\ w.touched \in SUBSET Fields
  BY DEF IsAWindow, Windows
<1>2. d \in Settings /\ \A f \in Fields \ {"words"} : d[f] = w.draft[f]
  BY <1>1 DEF Settings, Fields
<1>3. [w EXCEPT !.draft.words = rows, !.wordAt = at,
                !.touched = w.touched \cup {"words"}] = next
  BY <1>1 DEF Windows
<1> HIDE DEF d
<1>4. Edited(w, next, d, w.list, {"words"})
  BY <1>1, <1>2 DEF Edited, Windows, Fields
<1> HIDE DEF next
<1>5. IsAWindow(next)
  BY <1>2, <1>4, OwningUp DEF Whole, OfTheList
<1> QED BY <1>3, <1>5

LEMMA MacrosKeepAWindow ==
  ASSUME NEW w, IsAWindow(w)
  PROVE  /\ \A m \in Macros : IsAWindow(SaveMacro(w, m))
         /\ \A i \in DOMAIN w.draft.macros : IsAWindow(RemoveMacro(w, i))
         /\ \A table \in Seq(Macros) : IsAWindow(ImportMacros(w, table))
<1> DEFINE With(rows, at) == [w EXCEPT !.draft.macros = rows, !.macroAt = at,
                                       !.touched = w.touched \cup {"macros"}]
<1>1. /\ w \in Windows /\ w.draft.macros \in Seq(Macros) /\ w.macroAt \in Nat
      /\ w.draft \in Settings
  BY DEF IsAWindow, Windows, Settings
<1>2. \A rows \in Seq(Macros), at \in Nat : IsAWindow(With(rows, at))
  BY MacrosOfAWindow
<1>3. ASSUME NEW m \in Macros PROVE IsAWindow(SaveMacro(w, m))
  <2>1. UpsertMacro(w.draft.macros, m, w.macroAt) \in Seq(Macros)
    BY <1>1, UpsertedMacros
  <2>2. SaveMacro(w, m) = With(UpsertMacro(w.draft.macros, m, w.macroAt), 0)
    BY <1>1 DEF SaveMacro, Touch, Windows, Settings
  <2> QED BY <1>2, <2>1, <2>2
<1>4. ASSUME NEW i \in DOMAIN w.draft.macros PROVE IsAWindow(RemoveMacro(w, i))
  <2>1. Seqs!RemoveAt(w.draft.macros, i) \in Seq(Macros)
    BY <1>1, RowsWithoutOne
  <2> DEFINE at == IF w.macroAt = i THEN 0 ELSE w.macroAt
  <2>2. at \in Nat
    BY <1>1
  <2>3. RemoveMacro(w, i) = With(Seqs!RemoveAt(w.draft.macros, i), at)
    BY <1>1 DEF RemoveMacro, Touch, Windows, Settings
  <2> HIDE DEF With, at
  <2> QED BY <1>2, <2>1, <2>2, <2>3
<1>5. ASSUME NEW table \in Seq(Macros) PROVE IsAWindow(ImportMacros(w, table))
  <2>1. UpsertTable(w.draft.macros, table) \in Seq(Macros)
    BY <1>1, ImportedMacros
  <2>2. ImportMacros(w, table) = With(UpsertTable(w.draft.macros, table), w.macroAt)
    BY <1>1 DEF ImportMacros, Touch, Windows, Settings
  <2> QED BY <1>1, <1>2, <2>1, <2>2
<1> QED BY <1>3, <1>4, <1>5

LEMMA WordsKeepAWindow ==
  ASSUME NEW w, IsAWindow(w)
  PROVE  /\ \A row \in WordRows : IsAWindow(SaveWord(w, row))
         /\ \A i \in DOMAIN w.draft.words : IsAWindow(RemoveWord(w, i))
<1> DEFINE With(rows, at) == [w EXCEPT !.draft.words = rows, !.wordAt = at,
                                       !.touched = w.touched \cup {"words"}]
<1>1. /\ w \in Windows /\ w.draft.words \in Seq(WordRows) /\ w.wordAt \in Nat
      /\ w.draft \in Settings
  BY DEF IsAWindow, Windows, Settings
<1>2. \A rows \in Seq(WordRows), at \in Nat : IsAWindow(With(rows, at))
  BY WordsOfAWindow
<1>3. ASSUME NEW row \in WordRows PROVE IsAWindow(SaveWord(w, row))
  <2>1. UpsertWord(w.draft.words, row, w.wordAt) \in Seq(WordRows)
    BY <1>1, UpsertedWords
  <2>2. SaveWord(w, row) = With(UpsertWord(w.draft.words, row, w.wordAt), 0)
    BY <1>1 DEF SaveWord, Touch, Windows, Settings
  <2> QED BY <1>2, <2>1, <2>2
<1>4. ASSUME NEW i \in DOMAIN w.draft.words PROVE IsAWindow(RemoveWord(w, i))
  <2>1. Seqs!RemoveAt(w.draft.words, i) \in Seq(WordRows)
    BY <1>1, RowsWithoutOne
  <2> DEFINE at == IF w.wordAt = i THEN 0 ELSE w.wordAt
  <2>2. at \in Nat
    BY <1>1
  <2>3. RemoveWord(w, i) = With(Seqs!RemoveAt(w.draft.words, i), at)
    BY <1>1 DEF RemoveWord, Touch, Windows, Settings
  <2> HIDE DEF With, at
  <2> QED BY <1>2, <2>1, <2>2, <2>3
<1> QED BY <1>3, <1>4

(* Which row is being edited and which list is shown are no edits.          *)
LEMMA MovingKeepsAWindow ==
  ASSUME NEW w, IsAWindow(w), NEW next \in Windows,
         next.initial = w.initial, next.result = w.result, next.draft = w.draft,
         next.list = w.list, next.touched = w.touched
  PROVE  IsAWindow(next)
<1>1. Edited(w, next, w.draft, w.list, {})
  BY DEF Edited
<1> QED BY <1>1, OwningUp DEF Whole, OfTheList

LEMMA MovesKeepAWindow ==
  ASSUME NEW w, IsAWindow(w)
  PROVE  /\ \A l \in ListWindows : IsAWindow(ManageList(w, l)) /\ IsAWindow(CloseList(w, l))
         /\ \A i \in Nat : IsAWindow(EditMacro(w, i)) /\ IsAWindow(EditWord(w, i))
         /\ IsAWindow(CancelMacro(w)) /\ IsAWindow(CancelWord(w))
<1>1. w \in Windows
  BY DEF IsAWindow
<1>2. ASSUME NEW lists \in SUBSET ListWindows, NEW i \in Nat, NEW j \in Nat
      PROVE  IsAWindow([w EXCEPT !.lists = lists, !.macroAt = i, !.wordAt = j])
  <2> DEFINE next == [w EXCEPT !.lists = lists, !.macroAt = i, !.wordAt = j]
  <2>1. /\ next \in Windows
        /\ next.initial = w.initial /\ next.result = w.result /\ next.draft = w.draft
        /\ next.list = w.list /\ next.touched = w.touched
    BY <1>1, <1>2 DEF Windows
  <2> HIDE DEF next
  <2>2. IsAWindow(next)
    BY <2>1, MovingKeepsAWindow
  <2> QED BY <2>2 DEF next
<1> DEFINE At(lists, i, j) == [w EXCEPT !.lists = lists, !.macroAt = i, !.wordAt = j]
<1>3. /\ w.lists \in SUBSET ListWindows /\ w.macroAt \in Nat /\ w.wordAt \in Nat
  BY <1>1 DEF Windows
<1>4. ASSUME NEW l \in ListWindows PROVE IsAWindow(ManageList(w, l)) /\ IsAWindow(CloseList(w, l))
  <2>1. /\ ManageList(w, l) = At(w.lists \cup {l}, w.macroAt, w.wordAt)
        /\ CloseList(w, l) = At(w.lists \ {l}, w.macroAt, w.wordAt)
    BY <1>1 DEF ManageList, CloseList, Windows
  <2>2. w.lists \cup {l} \in SUBSET ListWindows /\ w.lists \ {l} \in SUBSET ListWindows
    BY <1>3
  <2>3. /\ IsAWindow(At(w.lists \cup {l}, w.macroAt, w.wordAt))
        /\ IsAWindow(At(w.lists \ {l}, w.macroAt, w.wordAt))
    BY <1>2, <1>3, <2>2
  <2> QED BY <2>1, <2>3, Zenon
<1>5. ASSUME NEW i \in Nat PROVE IsAWindow(EditMacro(w, i)) /\ IsAWindow(EditWord(w, i))
  <2>1. /\ EditMacro(w, i) = At(w.lists, i, w.wordAt)
        /\ EditWord(w, i) = At(w.lists, w.macroAt, i)
    BY <1>1 DEF EditMacro, EditWord, Windows
  <2>2. IsAWindow(At(w.lists, i, w.wordAt)) /\ IsAWindow(At(w.lists, w.macroAt, i))
    BY <1>2, <1>3
  <2> QED BY <2>1, <2>2, Zenon
<1>6. CancelMacro(w) = EditMacro(w, 0) /\ CancelWord(w) = EditWord(w, 0)
  BY DEF CancelMacro, CancelWord, EditMacro, EditWord
<1> QED BY <1>4, <1>5, <1>6

-----------------------------------------------------------------------------
(* File, session, window and slot together.                                 *)

Slots == {Empty} \cup [is : {"result"}, baseline : Settings, updated : Results]

DataInv ==
  /\ session \in Sessions /\ Kept(session.list)
  /\ language \in Languages /\ stored \in Settings
  /\ commands \in Seq(Settings)
  /\ window.open => IsAWindow(window)
  /\ slot \in Slots
  /\ slot # Empty => Honest(slot.updated, slot.baseline)
  /\ FileMeansTheSession

(* The settings a live session stands for.                                  *)
LEMMA LiveIsSettings ==
  ASSUME session \in Sessions, Kept(session.list), language \in Languages
  PROVE  Live \in Settings /\ Meaning(Live) = Live
  BY SettingsOfSession, SavedIsReadBack DEF Live

LEMMA LiveIsSettingsNext ==
  ASSUME session' \in Sessions, Kept(session'.list), language' \in Languages
  PROVE  Live' \in Settings /\ Meaning(Live') = Live'
  BY SettingsOfSession, SavedIsReadBack DEF Live

(* Where the session is, and in which mode, is nobody's settings.           *)
LEMMA PlaceIsNotSaved ==
  ASSUME NEW s, NEW t, NEW l, s.list.ids = t.list.ids, s.list.removed = t.list.removed,
         s.autoFix = t.autoFix, s.strict = t.strict, s.macros = t.macros, s.words = t.words
  PROVE  SettingsFrom(s, l) = SettingsFrom(t, l)
  BY DEF SettingsFrom

LEMMA DataInit == Init => DataInv
<1> SUFFICES ASSUME Init PROVE DataInv
  OBVIOUS
<1> DEFINE fresh == SessionFrom(stored)
<1>1. stored \in Settings /\ language = stored.language /\ language \in Languages
  BY WinShellAssumption DEF Init, Settings
<1>2. fresh \in Sessions /\ Kept(fresh.list)
  BY <1>1, SessionOfSettings
<1>3. session = [fresh EXCEPT !.app = cache.app] /\ cache.app \in Apps \cup {NoApp}
  BY WinShellAssumption DEF Init
<1>4. Meaning(stored) = SettingsFrom(fresh, language)
  BY <1>1 DEF Meaning
<1> HIDE DEF fresh
<1>5. session \in Sessions /\ Kept(session.list)
  BY <1>2, <1>3 DEF Sessions
<1>6. Live = Meaning(stored)
  BY <1>2, <1>3, <1>4, PlaceIsNotSaved DEF Live, Sessions
<1>7. Live \in Settings /\ Meaning(Live) = Live
  BY <1>1, <1>5, LiveIsSettings
<1>8. FileMeansTheSession
  BY <1>6, <1>7 DEF FileMeansTheSession
<1>9. commands \in Seq(Settings) /\ slot = Empty /\ ~window.open
  BY <1>7 DEF Init, NoWindow
<1> QED BY <1>1, <1>5, <1>8, <1>9 DEF DataInv, Slots

-----------------------------------------------------------------------------
(* Steps of the keyboard hook and the menu: what they change of the session *)
(* is asked to be saved, unless it is nothing that a file holds.            *)
LEMMA ChangesAreSaved ==
  ASSUME DataInv, session' \in Sessions, Kept(session'.list),
         UNCHANGED <<language, stored, commands, window, slot>>,
         pending'.save \/ (Live' = Live /\ (pending.save => pending'.save))
  PROVE  DataInv'
<1>1. FileMeansTheSession'
  <2>1. ~pending.save => Meaning(stored) = Meaning(Live)
    BY DEF DataInv, FileMeansTheSession
  <2> SUFFICES ASSUME ~pending'.save PROVE Meaning(stored') = Meaning(Live')
    BY DEF FileMeansTheSession
  <2> QED BY <2>1
<1> QED BY <1>1 DEF DataInv

LEMMA HookSavesData ==
  ASSUME DataInv, Inv, \/ ToggleModeKey \/ ToggleAppKey
                       \/ \E k \in Words, v \in Verdicts : CorrectKey(k, v)
  PROVE  DataInv'
<1> DEFINE s == Backstop(session)
<1>1. /\ UNCHANGED <<language, stored, commands, window, slot>>
      /\ lastApp' = IF cache.app # NoApp THEN cache.app ELSE lastApp
  BY DEF ToggleModeKey, ToggleAppKey, CorrectKey, InHook, ui
<1>2. cache.app \in Apps \cup {NoApp} /\ (lastApp' = cache.app \/ lastApp' = NoApp)
  BY <1>1 DEF Inv, ShapeInv, Caches, FrontInv
<1>3. session \in Sessions /\ Kept(session.list)
  BY DEF DataInv
<1>4. /\ s \in Sessions /\ s.list = session.list
      /\ s.autoFix = session.autoFix /\ s.strict = session.strict
      /\ s.macros = session.macros /\ s.words = session.words
  BY <1>2, <1>3 DEF Backstop, Sessions
<1> HIDE DEF s
<1>5. CASE ToggleModeKey
  <2>1. session' = [s EXCEPT !.mode = IF @ = "vietnamese" THEN "english" ELSE "vietnamese"]
        /\ Ask(FALSE, TRUE)
    BY <1>5 DEF ToggleModeKey, s
  <2>2. /\ session' \in Sessions /\ session'.list = s.list
        /\ session'.autoFix = s.autoFix /\ session'.strict = s.strict
        /\ session'.macros = s.macros /\ session'.words = s.words
    BY <1>4, <2>1 DEF Sessions
  <2>3. Live' = Live
    BY <1>1, <1>4, <2>2, PlaceIsNotSaved DEF Live
  <2>4. pending'.save = pending.save
    BY <2>1 DEF Ask, Inv, ShapeInv
  <2> QED BY <1>1, <1>3, <1>4, <2>2, <2>3, <2>4, ChangesAreSaved
<1>6. CASE ToggleAppKey
  <2>1. CASE lastApp' = NoApp
    <3>1. session' = s /\ UNCHANGED flags
      BY <1>6, <2>1 DEF ToggleAppKey, s
    <3>2. Live' = Live
      BY <1>1, <1>4, <3>1, PlaceIsNotSaved DEF Live
    <3>3. pending' = pending
      BY <3>1 DEF flags
    <3> QED BY <1>1, <1>3, <1>4, <3>1, <3>2, <3>3, ChangesAreSaved
  <2>2. CASE lastApp' # NoApp
    <3> DEFINE a == cache.app
    <3>1. /\ session' = WithToggled(s, a)
          /\ Ask(ToggleOutcome(s.list, a) # "EnabledSessionOnly", TRUE)
          /\ a \in Apps
      BY <1>2, <1>6, <2>2 DEF ToggleAppKey, s
    <3> HIDE DEF a
    <3>2. /\ Kept(Toggled(s.list, a))
          /\ ToggleOutcome(s.list, a) = "EnabledSessionOnly" =>
               /\ Toggled(s.list, a).ids = s.list.ids
               /\ Toggled(s.list, a).removed = s.list.removed
      BY <1>3, <1>4, <3>1, EditedListIsKept
    <3>3. /\ session' \in Sessions /\ session'.list = Toggled(s.list, a)
          /\ session'.autoFix = s.autoFix /\ session'.strict = s.strict
          /\ session'.macros = s.macros /\ session'.words = s.words
      BY <1>4, <3>1, <3>2 DEF WithToggled, Sessions, Kept
    <3>4. CASE ToggleOutcome(s.list, a) # "EnabledSessionOnly"
      <4>1. pending'.save
        BY <3>1, <3>4 DEF Ask
      <4> QED BY <1>1, <3>2, <3>3, <4>1, ChangesAreSaved
    <3>5. CASE ToggleOutcome(s.list, a) = "EnabledSessionOnly"
      <4>1. Live' = Live
        BY <1>1, <1>4, <3>2, <3>3, <3>5, PlaceIsNotSaved DEF Live
      <4>2. pending'.save = pending.save
        BY <3>1, <3>5 DEF Ask, Inv, ShapeInv
      <4> QED BY <1>1, <3>2, <3>3, <4>1, <4>2, ChangesAreSaved
    <3> QED BY <3>4, <3>5
  <2> QED BY <2>1, <2>2
<1>7. CASE \E k \in Words, v \in Verdicts : CorrectKey(k, v)
  <2>1. PICK k \in Words, v \in Verdicts : CorrectKey(k, v)
    BY <1>7
  <2>2. session' = [s EXCEPT !.words = Taught(@, k, v)] /\ Ask(TRUE, FALSE)
    BY <2>1 DEF CorrectKey, s
  <2>3. Taught(s.words, k, v) \in WordMaps
    <3>1. PICK W \in SUBSET Words : s.words \in [W -> Verdicts]
      BY <1>4 DEF Sessions, WordMaps
    <3>2. Taught(s.words, k, v) \in [W \cup {k} -> Verdicts]
      BY <3>1 DEF Taught
    <3>3. W \cup {k} \in SUBSET Words
      OBVIOUS
    <3> QED BY <3>2, <3>3 DEF WordMaps
  <2>4. session' \in Sessions /\ session'.list = s.list
    BY <1>4, <2>2, <2>3 DEF Sessions
  <2>5. pending'.save
    BY <2>2 DEF Ask
  <2> QED BY <1>1, <1>3, <1>4, <2>4, <2>5, ChangesAreSaved
<1> QED BY <1>5, <1>6, <1>7

(* Steps that leave settings, session and window alone.                     *)
Still == UNCHANGED <<session, language, stored, commands, window, slot, pending>>

LEMMA StillKeepsData ==
  ASSUME DataInv, Still PROVE DataInv'
<1>1. FileMeansTheSession'
  BY DEF DataInv, Still, FileMeansTheSession, Live
<1> QED BY <1>1 DEF DataInv, Still

LEMMA StillSteps ==
  ASSUME \/ TakeWake \/ WakeIsLost \/ ShowMenu \/ DismissMenu \/ Quit
         \/ ThemeChanges \/ SettingChange \/ Ended \/ UNCHANGED vars
  PROVE  Still
<1> USE DEF Still, flags, ui
<1>1. CASE TakeWake \/ WakeIsLost
  BY <1>1 DEF TakeWake, WakeIsLost
<1>2. CASE ShowMenu \/ DismissMenu \/ Quit
  BY <1>2 DEF ShowMenu, DismissMenu, Quit
<1>3. CASE ThemeChanges \/ SettingChange
  BY <1>3 DEF ThemeChanges, SettingChange
<1>4. CASE Ended \/ UNCHANGED vars
  BY <1>4 DEF Ended, vars
<1> QED BY <1>1, <1>2, <1>3, <1>4

LEMMA ForegroundSavesData ==
  ASSUME DataInv, NEW c \in Places, Foreground(c) PROVE DataInv'
<1>1. /\ UNCHANGED <<language, stored, commands, window, slot, pending>>
      /\ session' = [session EXCEPT !.app = c.app]
  BY DEF Foreground, ForegroundChanged, flags, ui
<1>2. session \in Sessions /\ Kept(session.list) /\ c.app \in Apps
  BY WinShellAssumption DEF DataInv
<1>3. /\ session' \in Sessions /\ session'.list = session.list
      /\ session'.autoFix = session.autoFix /\ session'.strict = session.strict
      /\ session'.macros = session.macros /\ session'.words = session.words
  BY <1>1, <1>2 DEF Sessions
<1>4. Live' = Live
  BY <1>1, <1>3, PlaceIsNotSaved DEF Live
<1> QED BY <1>1, <1>2, <1>3, <1>4, ChangesAreSaved

(* The choices in the menu.                                                 *)
LEMMA MenuSavesData ==
  ASSUME DataInv, Inv, ToggleMode \/ ToggleCurrentApp \/ ToggleAutoFix
  PROVE  DataInv'
<1>1. UNCHANGED <<language, stored, commands, window, slot>>
  BY DEF ToggleMode, ToggleCurrentApp, ToggleAutoFix, ui
<1>2. session \in Sessions /\ Kept(session.list) /\ cache.app \in Apps \cup {NoApp}
  BY DEF DataInv, Inv, ShapeInv, Caches
<1>3. CASE ToggleMode
  <2>1. session' = [session EXCEPT !.mode = IF @ = "vietnamese" THEN "english" ELSE "vietnamese"]
        /\ Ask(TRUE, FALSE)
    BY <1>3 DEF ToggleMode
  <2>2. session' \in Sessions /\ session'.list = session.list /\ pending'.save
    BY <1>2, <2>1 DEF Sessions, Ask
  <2> QED BY <1>1, <1>2, <2>2, ChangesAreSaved
<1>4. CASE ToggleAutoFix
  <2>1. session' = [session EXCEPT !.autoFix = ~@] /\ Ask(TRUE, FALSE)
    BY <1>4 DEF ToggleAutoFix
  <2>2. session' \in Sessions /\ session'.list = session.list /\ pending'.save
    BY <1>2, <2>1 DEF Sessions, Ask
  <2> QED BY <1>1, <1>2, <2>2, ChangesAreSaved
<1>5. CASE ToggleCurrentApp
  <2> DEFINE a == cache.app
  <2>1. /\ session' = WithToggled(session, a)
        /\ Ask(ToggleOutcome(session.list, a) # "EnabledSessionOnly", FALSE)
        /\ a \in Apps
    BY <1>2, <1>5 DEF ToggleCurrentApp, WorthSaving
  <2> HIDE DEF a
  <2>2. /\ Kept(Toggled(session.list, a))
        /\ ToggleOutcome(session.list, a) = "EnabledSessionOnly" =>
             /\ Toggled(session.list, a).ids = session.list.ids
             /\ Toggled(session.list, a).removed = session.list.removed
    BY <1>2, <2>1, EditedListIsKept
  <2>3. /\ session' \in Sessions /\ session'.list = Toggled(session.list, a)
        /\ session'.autoFix = session.autoFix /\ session'.strict = session.strict
        /\ session'.macros = session.macros /\ session'.words = session.words
    BY <1>2, <2>1, <2>2 DEF WithToggled, Sessions, Kept
  <2>4. CASE ToggleOutcome(session.list, a) # "EnabledSessionOnly"
    <3>1. pending'.save
      BY <2>1, <2>4 DEF Ask
    <3> QED BY <1>1, <2>2, <2>3, <3>1, ChangesAreSaved
  <2>5. CASE ToggleOutcome(session.list, a) = "EnabledSessionOnly"
    <3>1. Live' = Live
      BY <1>1, <2>2, <2>3, <2>5, PlaceIsNotSaved DEF Live
    <3>2. pending.save => pending'.save
      BY <2>1, <2>5 DEF Ask, Inv, ShapeInv
    <3> QED BY <1>1, <2>2, <2>3, <3>1, <3>2, ChangesAreSaved
  <2> QED BY <2>4, <2>5
<1> QED BY <1>3, <1>4, <1>5

-----------------------------------------------------------------------------
(* The window and its result.                                               *)

LEMMA WindowStepsKeepData ==
  ASSUME DataInv, UNCHANGED <<session, language, stored, pending>>,
         commands' \in Seq(Settings), window'.open => IsAWindow(window'),
         slot' \in Slots, slot' # Empty => Honest(slot'.updated, slot'.baseline)
  PROVE  DataInv'
<1>1. FileMeansTheSession'
  BY DEF DataInv, FileMeansTheSession, Live
<1> QED BY <1>1 DEF DataInv

LEMMA RequestsKeepData ==
  ASSUME DataInv, OpenSettings \/ TakeCommand \/ WakeTheLoop \/ StoreResult
  PROVE  DataInv'
<1> USE DEF DataInv
<1>1. CASE OpenSettings
  <2>1. /\ UNCHANGED <<session, language, stored, pending, slot, window>>
        /\ commands' = Append(commands, Live)
    BY <1>1 DEF OpenSettings, flags
  <2>2. commands' \in Seq(Settings)
    BY <2>1, LiveIsSettings
  <2> QED BY <2>1, <2>2, WindowStepsKeepData
<1>2. CASE TakeCommand
  <2>1. /\ UNCHANGED <<session, language, stored, pending, slot>>
        /\ commands # <<>> /\ commands' = Tail(commands)
        /\ window' = IF window.open THEN window ELSE NewWindow(Head(commands))
    BY <1>2 DEF TakeCommand, flags
  <2>2. Head(commands) \in Settings /\ commands' \in Seq(Settings)
    BY <2>1
  <2>3. window'.open => IsAWindow(window')
    BY <2>1, <2>2, NewWindowIsOne
  <2> QED BY <2>1, <2>2, <2>3, WindowStepsKeepData
<1>3. CASE WakeTheLoop
  <2>1. /\ UNCHANGED <<session, language, stored, pending, slot, commands>>
        /\ ~window'.open
    BY <1>3 DEF WakeTheLoop, ReleaseTheWindow, NoWindow
  <2> QED BY <2>1, WindowStepsKeepData
<1>4. CASE StoreResult
  <2>1. /\ UNCHANGED <<session, language, stored, pending, window, commands>>
        /\ window.open
        /\ slot' = [is |-> "result", baseline |-> Baseline(window), updated |-> window.result]
    BY <1>4 DEF StoreResult, Decided, flags
  <2>2. /\ window.result \in Results /\ window.initial \in Settings
        /\ Honest(window.result, Baseline(window))
    BY <2>1 DEF IsAWindow, Windows
  <2>3. Baseline(window) \in Settings
    BY <2>2, NormalizedIsSettings DEF Baseline
  <2>4. slot' \in Slots /\ slot'.updated = window.result /\ slot'.baseline = Baseline(window)
    BY <2>1, <2>2, <2>3 DEF Slots
  <2>5. Honest(slot'.updated, slot'.baseline)
    BY <2>2, <2>4
  <2> QED BY <2>1, <2>4, <2>5, WindowStepsKeepData
<1> QED BY <1>1, <1>2, <1>3, <1>4

(* Each click in the window leaves a window.                                *)
LEMMA ClicksLeaveAWindow ==
  ASSUME IsAWindow(window), UiSteps PROVE IsAWindow(window')
<1>1. ASSUME NEW next, Edit(next) \/ AtWindow(next)
      PROVE  window' = next
  BY <1>1 DEF Edit, AtWindow
<1>2. window.draft.macros \in Seq(Macros) /\ window.draft.words \in Seq(WordRows)
  BY DEF IsAWindow, Windows, Settings
<1>3. CASE CloseWindow
  BY <1>1, <1>3, FinalizedIsAWindow DEF CloseWindow
<1>4. CASE EditSwitches
  BY <1>1, <1>4, SwitchesKeepAWindow DEF EditSwitches
<1>5. CASE \E l \in ListWindows : Manage(l)
  BY <1>1, <1>5, MovesKeepAWindow DEF Manage
<1>6. CASE EditExclusions
  <2>1. \A a \in window.list.ids : a \in Apps
    BY DEF IsAWindow, Windows, Lists
  <2> QED BY <1>1, <1>6, <2>1, ExclusionsKeepAWindow DEF EditExclusions
<1>7. CASE EditMacros
  <2>1. \A i \in DOMAIN window.draft.macros : i \in Nat
    BY <1>2
  <2>2. \A table \in Tables : table \in Seq(Macros)
    BY WinShellAssumption
  <2>3. \/ \E m \in Macros : Edit(SaveMacro(window, m))
        \/ \E i \in DOMAIN window.draft.macros :
             Edit(EditMacro(window, i)) \/ Edit(RemoveMacro(window, i))
        \/ Edit(CancelMacro(window))
        \/ \E table \in Tables : Edit(ImportMacros(window, table))
    BY <1>7 DEF EditMacros
  <2> QED BY <1>1, <2>1, <2>2, <2>3, MacrosKeepAWindow, MovesKeepAWindow
<1>8. CASE EditWords
  <2>1. \A i \in DOMAIN window.draft.words : i \in Nat
    BY <1>2
  <2>2. \/ \E row \in WordRows : Edit(SaveWord(window, row))
        \/ \E i \in DOMAIN window.draft.words :
             Edit(EditWord(window, i)) \/ Edit(RemoveWord(window, i))
        \/ Edit(CancelWord(window))
    BY <1>8 DEF EditWords
  <2> QED BY <1>1, <2>1, <2>2, WordsKeepAWindow, MovesKeepAWindow
<1> QED BY <1>3, <1>4, <1>5, <1>6, <1>7, <1>8 DEF UiSteps

LEMMA ClicksKeepData ==
  ASSUME DataInv, UiSteps PROVE DataInv'
<1>1. window.open
  <2>1. ASSUME NEW next, Edit(next) \/ AtWindow(next) PROVE window.open
    BY <2>1 DEF Edit, AtWindow
  <2> QED BY <2>1 DEF UiSteps, CloseWindow, EditSwitches, Manage, EditExclusions, In,
                      EditMacros, EditWords
<1>2. IsAWindow(window')
  BY <1>1, ClicksLeaveAWindow DEF DataInv
<1>3. UNCHANGED <<session, language, stored, pending, slot, commands>>
  <2>1. UNCHANGED <<session, pending, slot, commands>>
    BY ClicksStayInTheWindow
  <2>2. ASSUME NEW next, Edit(next) \/ AtWindow(next) PROVE UNCHANGED <<language, stored>>
    BY <2>2 DEF Edit, AtWindow
  <2>3. UNCHANGED <<language, stored>>
    BY <2>2 DEF UiSteps, CloseWindow, EditSwitches, Manage, EditExclusions, EditMacros, EditWords
  <2> QED BY <2>1, <2>3
<1> QED BY <1>2, <1>3, WindowStepsKeepData DEF DataInv

-----------------------------------------------------------------------------
(* What a save writes is the session, and what a merge writes the session   *)
(* is built from.                                                           *)
LEMMA AppliedIsSettings ==
  ASSUME DataInv, Applying
  PROVE  /\ AppliedSettings \in Settings
         /\ \A f \in Fields \ slot.updated.touched : AppliedSettings[f] = Live[f]
         /\ Whole(slot.updated.touched)
<1>1. slot # Empty /\ slot.updated \in Results /\ slot.updated.is = "edited"
  BY DEF DataInv, Applying, Slots, Empty
<1>2. slot.updated.settings \in Settings
  BY <1>1 DEF Results, Undecided
<1>3. /\ \A f \in Fields \ slot.updated.touched :
           slot.updated.settings[f] = slot.baseline[f]
      /\ Whole(slot.updated.touched)
  BY <1>1 DEF DataInv, Honest
<1>4. Live \in Settings
  BY LiveIsSettings DEF DataInv
<1> DEFINE edited == slot.updated.settings
           merged == Merged(slot.baseline, edited, Live)
<1>5. /\ merged \in Settings
      /\ \A f \in Fields : edited[f] = slot.baseline[f] => merged[f] = Live[f]
  <2> HIDE DEF edited
  <2>1. edited \in Settings
    BY <1>2 DEF edited
  <2> QED BY <1>4, <2>1, MergeIsSettings
<1>6. AppliedSettings = merged
  BY DEF AppliedSettings
<1> QED BY <1>3, <1>5, <1>6

LEMMA RebuiltSession ==
  ASSUME DataInv, Inv, Applying
  PROVE  /\ Rebuilt \in Sessions /\ Kept(Rebuilt.list)
         /\ SettingsFrom(Rebuilt, AppliedSettings.language) = Meaning(AppliedSettings)
<1> DEFINE fresh == SessionFrom(AppliedSettings)
<1>1. AppliedSettings \in Settings /\ cache.app \in Apps \cup {NoApp}
  BY AppliedIsSettings DEF Inv, ShapeInv, Caches
<1>2. fresh \in Sessions /\ Kept(fresh.list)
  BY <1>1, SessionOfSettings
<1>3. Rebuilt = [fresh EXCEPT !.app = cache.app]
  BY DEF Rebuilt
<1>4. Meaning(AppliedSettings) = SettingsFrom(fresh, AppliedSettings.language)
  BY DEF Meaning
<1> HIDE DEF fresh
<1>5. /\ Rebuilt \in Sessions /\ Rebuilt.list = fresh.list
      /\ Rebuilt.autoFix = fresh.autoFix /\ Rebuilt.strict = fresh.strict
      /\ Rebuilt.macros = fresh.macros /\ Rebuilt.words = fresh.words
  BY <1>1, <1>2, <1>3 DEF Sessions
<1> QED BY <1>2, <1>4, <1>5, PlaceIsNotSaved

LEMMA DrainKeepsData ==
  ASSUME DataInv, Inv, Drain \/ End PROVE DataInv'
<1> USE DEF DataInv
<1>1. Drained /\ UNCHANGED <<commands, window>>
  BY DEF Drain, End, LastDrain, ui
<1>2. slot' = Empty /\ slot' \in Slots
  BY <1>1 DEF Drained, Slots
<1>3. CASE Applying
  <2>1. /\ stored' = AppliedSettings /\ session' = Rebuilt
        /\ language' = AppliedSettings.language
    BY <1>1, <1>3 DEF Drained
  <2>2. AppliedSettings \in Settings
    BY <1>3, AppliedIsSettings
  <2>3. language' \in Languages
    BY <2>1, <2>2 DEF Settings
  <2>4. session' \in Sessions /\ Kept(session'.list) /\ Live' = Meaning(stored')
    BY <1>3, <2>1, RebuiltSession DEF Live
  <2>5. Meaning(Live') = Meaning(stored')
    BY <2>1, <2>2, <2>4, MeaningIsFinal
  <2>6. FileMeansTheSession'
    BY <2>5 DEF FileMeansTheSession
  <2> QED BY <1>1, <1>2, <2>1, <2>2, <2>3, <2>4, <2>6
<1>4. CASE ~Applying
  <2>1. /\ stored' = IF pending.save THEN Live ELSE stored
        /\ UNCHANGED <<session, language>>
    BY <1>1, <1>4 DEF Drained
  <2>2. Live' = Live /\ Live \in Settings
    BY <2>1, LiveIsSettings DEF Live
  <2>3. Meaning(stored') = Meaning(Live')
    BY <2>1, <2>2 DEF FileMeansTheSession
  <2>4. FileMeansTheSession'
    BY <2>3 DEF FileMeansTheSession
  <2> QED BY <1>1, <1>2, <2>1, <2>2, <2>4
<1> QED BY <1>3, <1>4

LEMMA DataKeeps == DataInv /\ Inv /\ [Next]_vars => DataInv'
<1> SUFFICES ASSUME DataInv, Inv, [Next]_vars PROVE DataInv'
  OBVIOUS
<1>1. CASE ToggleModeKey \/ ToggleAppKey \/ \E k \in Words, v \in Verdicts : CorrectKey(k, v)
  BY <1>1, HookSavesData
<1>2. CASE \E c \in Places : Foreground(c)
  BY <1>2, ForegroundSavesData
<1>3. CASE ToggleMode \/ ToggleCurrentApp \/ ToggleAutoFix
  BY <1>3, MenuSavesData
<1>4. CASE OpenSettings \/ TakeCommand \/ WakeTheLoop \/ StoreResult
  BY <1>4, RequestsKeepData
<1>5. CASE UiSteps
  BY <1>5, ClicksKeepData
<1>6. CASE Drain \/ End
  BY <1>6, DrainKeepsData
<1>7. CASE \/ TakeWake \/ WakeIsLost \/ ShowMenu \/ DismissMenu \/ Quit
           \/ ThemeChanges \/ SettingChange \/ Ended \/ UNCHANGED vars
  BY <1>7, StillSteps, StillKeepsData
<1> QED BY <1>1, <1>2, <1>3, <1>4, <1>5, <1>6, <1>7 DEF Next, UiSteps

LEMMA DataInvariant == Spec => []DataInv
  BY DataInit, DataKeeps, ShellInvariant, PTL DEF Spec

(* Whichever of hook, menu and window changed the session, and in which     *)
(* order: when no save is pending, the file reads back as the session is    *)
(* (hook.rs request_save, shell.rs apply_settings, liveadapter.rs).     *)
THEOREM TheFileIsTheSession == Spec => []FileMeansTheSession
<1>1. DataInv => FileMeansTheSession
  BY DEF DataInv
<1> QED BY <1>1, DataInvariant, PTL

(* What the user did not touch in the settings window outlives it: applying *)
(* the window's result leaves it as the hook and the menu made it meanwhile *)
(* (shell.rs merge_settings, settings_ui.rs finalize).                      *)
THEOREM TheRestSurvivesTheWindow == Spec => UntouchedFieldsSurvive
<1> DEFINE Survive ==
             slot # Empty /\ slot' = Empty /\ Applying =>
               \A f \in Fields \ slot.updated.touched :
                 SettingsFrom(session', language')[f] = Live[f]
<1>1. ASSUME DataInv, Inv, [Next]_vars, slot # Empty, slot' = Empty, Applying,
             NEW f \in Fields \ slot.updated.touched
      PROVE  SettingsFrom(session', language')[f] = Live[f]
  <2>1. Drain \/ End
    <3>1. slot' # slot
      BY <1>1
    <3>2. ~StoreResult
      BY <1>1 DEF StoreResult, Empty
    <3>3. CASE ToggleModeKey \/ ToggleAppKey \/ \E k \in Words, v \in Verdicts : CorrectKey(k, v)
      BY <3>1, <3>3 DEF ToggleModeKey, ToggleAppKey, CorrectKey, InHook
    <3>4. CASE \E c \in Places : Foreground(c)
      BY <3>1, <3>4 DEF Foreground
    <3>5. CASE ToggleMode \/ ToggleCurrentApp \/ ToggleAutoFix \/ OpenSettings
      BY <3>1, <3>5 DEF ToggleMode, ToggleCurrentApp, ToggleAutoFix, OpenSettings
    <3>6. CASE TakeCommand \/ WakeTheLoop
      BY <3>1, <3>6 DEF TakeCommand, WakeTheLoop
    <3>7. CASE UiSteps
      BY <3>1, <3>7, ClicksStayInTheWindow
    <3>8. CASE \/ TakeWake \/ WakeIsLost \/ ShowMenu \/ DismissMenu \/ Quit
               \/ ThemeChanges \/ SettingChange \/ Ended \/ UNCHANGED vars
      BY <3>1, <3>8, StillSteps DEF Still
    <3> QED BY <1>1, <3>2, <3>3, <3>4, <3>5, <3>6, <3>7, <3>8 DEF Next, UiSteps
  <2>2. Drained
    BY <2>1 DEF Drain, End, LastDrain
  <2>3. session' = Rebuilt /\ language' = AppliedSettings.language
    BY <1>1, <2>2 DEF Drained
  <2>4. SettingsFrom(session', language') = Meaning(AppliedSettings)
    BY <1>1, <2>3, RebuiltSession
  <2>5. /\ AppliedSettings \in Settings
        /\ \A g \in Fields \ slot.updated.touched : AppliedSettings[g] = Live[g]
        /\ Whole(slot.updated.touched)
    BY <1>1, AppliedIsSettings
  <2>6. Live \in Settings /\ Meaning(Live) = Live
    BY <1>1, LiveIsSettings DEF DataInv
  <2>7. f \in {"exclusions", "removed"} =>
          /\ AppliedSettings.exclusions = Live.exclusions
          /\ AppliedSettings.removed = Live.removed
    <3>1. ASSUME f \in OfTheList PROVE OfTheList \cap slot.updated.touched = {}
      BY <1>1, <2>5, <3>1 DEF Whole
    <3> QED BY <2>5, <3>1 DEF OfTheList, Fields
  <2> HIDE DEF AppliedSettings, Live
  <2>8. Meaning(AppliedSettings)[f] = Live[f]
    BY <1>1, <2>5, <2>6, <2>7, MeaningByPart
  <2> QED BY <2>4, <2>8
<1>2. DataInv /\ Inv /\ [Next]_vars => [Survive]_vars
  BY <1>1
<1> QED BY <1>2, DataInvariant, ShellInvariant, PTL DEF Spec, UntouchedFieldsSurvive
=============================================================================
