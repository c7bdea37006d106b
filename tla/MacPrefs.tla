------------------------------ MODULE MacPrefs ------------------------------
(***************************************************************************)
(* The macOS Settings windows and the menu bar (app/src/prefs, menu_bar.rs,*)
(* about_window.rs, platform/macos/settings.rs).  Everything runs on the   *)
(* main thread; the windows show copies of what the session and the        *)
(* preferences hold, refreshed by the handlers, while the keyboard changes *)
(* the same state through the event tap.                                   *)
(***************************************************************************)
EXTENDS MacroTable

CONSTANTS
  Words,          (* keys a personal decision may be about                    *)
  Apps, Own,      (* applications; GlowKey's own                              *)
  Presets,        (* the hotkeys with a segment of their own                  *)
  Recorded,       (* and those only the recorder can set                      *)
  Languages,      (* what the interface can speak                             *)
  Tables,         (* the files an import may read                             *)
  MaxMacros,      (* bound on the list                                        *)
  Subjects        (* sets of Parts a session of use may be about              *)

Parts == {"macros", "words", "apps", "auto-fix", "hotkey", "rest"}

ASSUME MacPrefsAssumption ==
  /\ Own \notin Apps
  /\ Presets \cap Recorded = {}
  /\ Subjects \subseteq SUBSET Parts
  /\ Tables \subseteq Seq(Entries)

VARIABLES
  subject,    (* the parts of the settings this session of use is about       *)
  macros, words, excluded, mode, autoFix, hotkey, language,
  rest,       (* any other setting: the other checkboxes and choices          *)
  stored,     (* all of these, as the settings file has them                  *)
  front,      (* the application really in front                              *)
  app,        (* current_app: the one in front, as the session knows it       *)
  last,       (* last_bundle_id: the last one that was told or asked for      *)
  glyph,      (* what the menu bar shows                                      *)
  missed,     (* history: the last switch has not been told or drawn yet      *)
  windows,    (* for each window, whether it is built, shown, and in what     *)
  rows,       (* what the list windows show                                   *)
  counts,     (* and the counts beside their buttons in Settings              *)
  editing,    (* macro_editing: the row the input fields are about            *)
  box,        (* the auto-fix checkbox, and whether its dependent is enabled  *)
  dependent,
  recording,  (* the hotkey recorder is armed                                 *)
  label,      (* what the label under the hotkey says                         *)
  agreed      (* the last step was the user's answer to give a macro up       *)

lists == <<macros, words, excluded>>
choices == <<mode, autoFix, hotkey, language, rest>>
bar == <<front, app, last, glyph, missed>>
checkbox == <<box, dependent>>
recorder == <<recording, label>>
vars == <<subject, lists, choices, stored, bar, windows, rows, counts, editing, checkbox,
          recorder, agreed>>

Windows == {"settings", "excluded", "macros", "words", "about"}
NoRow == "no row"

Built(w) == windows[w].is # "not built"
Visible(w) == windows[w].is = "open"

(* A click in a window finds GlowKey in front.                              *)
At(w) == Visible(w) /\ front = Own

(* update_glyph: V, E, or V struck through.                                 *)
GlyphOf(m, a, list) ==
  IF m = "english" THEN "E" ELSE IF a \in list THEN "V struck through" ELSE "V"

Live == <<lists, choices>>

(* Slip: the file is written before the change is made.                     *)
SaveFirst == stored' = Live

(* save_settings.                                                           *)
Save == stored' = Live'

(* refresh_list_counts, which finds no label before the window is built.    *)
CountsOf(m, w, x) ==
  [macros |-> Len(m), words |-> Cardinality(DOMAIN w), apps |-> Cardinality(x)]
RefreshListCounts ==
  counts' = IF Built("settings") THEN CountsOf(macros', words', excluded') ELSE counts

-----------------------------------------------------------------------------
Init ==
  /\ subject \in Subjects
  /\ macros = <<>> /\ words = <<>> /\ excluded = {}
  /\ mode = "vietnamese" /\ autoFix = TRUE
  /\ hotkey \in Presets /\ language \in Languages /\ rest = FALSE
  /\ stored = Live
  /\ front \in Apps /\ app = front /\ last = front
  /\ glyph = GlyphOf(mode, app, excluded) /\ missed = FALSE
  /\ windows = [w \in Windows |-> [is |-> "not built", language |-> language]]
  /\ rows = [macros |-> macros, words |-> words, apps |-> excluded]
  /\ counts = CountsOf(macros, words, excluded)
  /\ editing = NoRow
  /\ box = autoFix /\ dependent = autoFix
  /\ recording = FALSE /\ label = "current"
  /\ agreed = FALSE

-----------------------------------------------------------------------------
(* Opening, closing and rebuilding windows.                                 *)

(* A window that is brought back, or built with the labels of the moment.   *)
InFront(w) ==
  [is |-> "open", language |-> IF Built(w) THEN windows[w].language ELSE language]

(* add_row gives every checkbox the value of the moment.                    *)
BuildRows == box' = autoFix

(* build_window and the refreshes it ends with.                             *)
BuildSettings ==
  /\ BuildRows
  /\ label' = "current" /\ dependent' = autoFix
  /\ counts' = CountsOf(macros, words, excluded)

(* show and show_window.                                                    *)
ShowSettings ==
  /\ windows' = [windows EXCEPT !["settings"] = InFront("settings")]
  /\ IF Built("settings") THEN UNCHANGED <<label, checkbox, counts>> ELSE BuildSettings
  /\ UNCHANGED <<subject, lists, choices, stored, bar, rows, editing, recording>>
  /\ agreed' = FALSE

(* The list windows, built if need be.                                      *)
MacrosWindow == [windows EXCEPT !["macros"] = InFront("macros")]
WordsWindow == [windows EXCEPT !["words"] = InFront("words")]
ExcludedWindow == [windows EXCEPT !["excluded"] = InFront("excluded")]
AboutWindow == [windows EXCEPT !["about"] = InFront("about")]

(* A window with a list comes up with the rows and the counts of the moment.*)
OpenList(with, shown) ==
  /\ At("settings")
  /\ windows' = with
  /\ rows' = shown
  /\ counts' = CountsOf(macros, words, excluded)
  /\ UNCHANGED <<subject, lists, choices, stored, bar, editing, checkbox, recorder>>
  /\ agreed' = FALSE

ManageMacros == OpenList(MacrosWindow, [rows EXCEPT !.macros = macros])
ManagePersonalWords == OpenList(WordsWindow, [rows EXCEPT !.words = words])
ManageExcludedApps == OpenList(ExcludedWindow, [rows EXCEPT !.apps = excluded])

(* about_window::show.                                                      *)
ShowAbout ==
  /\ windows' = AboutWindow
  /\ UNCHANGED <<subject, lists, choices, stored, bar, rows, counts, editing, checkbox,
                 recorder>>
  /\ agreed' = FALSE

CloseWindow(w) ==
  /\ At(w)
  /\ windows' = [windows EXCEPT ![w].is = "closed"]
  /\ UNCHANGED <<subject, lists, choices, stored, bar, rows, counts, editing, checkbox,
                 recorder>>
  /\ agreed' = FALSE

(* Slip: the About window is left as it is.                                 *)
RebuiltButAbout(w, l) ==
  [is |-> IF w = "settings" \/ Visible(w) THEN "open" ELSE "not built",
   language |-> IF w = "about" THEN windows[w].language ELSE l]

(* rebuild_windows: every window goes, Settings and the list windows that   *)
(* were on screen come back, About comes back when it is asked for.         *)
Rebuilt(w, l) ==
  [is |-> IF w = "settings" \/ (w # "about" /\ Visible(w)) THEN "open" ELSE "not built",
   language |-> l]

(* languageChanged.  The fields of the macros window are new and empty.     *)
LanguageChanged(l) ==
  /\ At("settings")
  /\ language' = l
  /\ windows' = [w \in Windows |-> Rebuilt(w, l)]
  /\ rows' = [macros |-> IF Visible("macros") THEN macros ELSE rows.macros,
              words |-> IF Visible("words") THEN words ELSE rows.words,
              apps |-> IF Visible("excluded") THEN excluded ELSE rows.apps]
  /\ editing' = NoRow
  /\ BuildSettings
  /\ UNCHANGED <<subject, lists, mode, autoFix, hotkey, rest, bar, recording>>
  /\ Save
  /\ agreed' = FALSE

-----------------------------------------------------------------------------
(* The macros window.                                                       *)

Macros == "macros" \in subject /\ At("macros")

(* Slip: the rows wait for the window to be opened again.                   *)
CountOnly == RefreshListCounts /\ UNCHANGED rows

(* refresh_macros.                                                          *)
RefreshMacros ==
  /\ RefreshListCounts
  /\ rows' = IF Built("macros") THEN [rows EXCEPT !.macros = macros'] ELSE rows

MacrosChanged ==
  /\ UNCHANGED <<subject, words, excluded, choices, bar, windows, checkbox, recorder>>
  /\ RefreshMacros
  /\ Save

(* The row the fields are about, if it is still in the list: it always is,  *)
(* see EditedRowExists.                                                     *)
Edited == IF editing # NoRow /\ HasMacro(macros, editing) THEN editing ELSE NoRow

Collides(s) ==
  HasMacro(macros, s) /\ (Edited = NoRow \/ ~SameShortcut(Edited, s))

(* addMacro: Add or Save with what the fields hold, after a question when   *)
(* another row would be overwritten.                                        *)
AddMacro(m) ==
  /\ Macros
  /\ macros' = IF Edited = NoRow THEN Added(macros, m) ELSE Replaced(macros, Edited, m)
  /\ Storable(m) /\ Len(macros') <= MaxMacros
  /\ agreed' = Collides(m.shortcut)
  /\ editing' = NoRow
  /\ MacrosChanged

(* editMacro: the button's tag is an index of the live list.                *)
EditMacro(i) ==
  /\ Macros /\ i \in DOMAIN rows.macros
  /\ i \in DOMAIN macros
  /\ editing' = macros[i].shortcut
  /\ UNCHANGED <<subject, lists, choices, stored, bar, windows, rows, counts, checkbox,
                 recorder>>
  /\ agreed' = FALSE

CancelMacroEdit ==
  /\ Macros /\ editing # NoRow
  /\ editing' = NoRow
  /\ UNCHANGED <<subject, lists, choices, stored, bar, windows, rows, counts, checkbox,
                 recorder>>
  /\ agreed' = FALSE

(* Slip: the fields go on editing the row that was removed.                 *)
KeepTheFields(i) == UNCHANGED editing

(* Removing the row the fields are about empties them.                      *)
ForgetRemoved(i) ==
  editing' = IF editing # NoRow /\ SameShortcut(macros[i].shortcut, editing)
             THEN NoRow ELSE editing

RemoveMacro(i) ==
  /\ Macros /\ i \in DOMAIN rows.macros /\ i \in DOMAIN macros
  /\ macros' = RemoveAt(macros, i)
  /\ ForgetRemoved(i)
  /\ agreed' = TRUE
  /\ MacrosChanged

(* import_macros: one question for the whole file, when some of its         *)
(* shortcuts are taken.                                                     *)
ImportMacros(table, replace) ==
  /\ Macros
  /\ replace => Conflicts(macros, table) # {}
  /\ macros' = Imported(macros, table, replace)
  /\ Len(macros') <= MaxMacros
  /\ agreed' = replace
  /\ UNCHANGED editing
  /\ MacrosChanged

-----------------------------------------------------------------------------
(* Personal words and excluded applications.                                *)

Verdicts == {"as typed", "vietnamese"}
WordsPart == "words" \in subject
Without(f, k) == [x \in DOMAIN f \ {k} |-> f[x]]

(* Slip: nothing is refreshed before the window is built, not the count.    *)
AfterTheEarlyReturn ==
  IF Built("words")
  THEN /\ RefreshListCounts
       /\ rows' = [rows EXCEPT !.words = words']
  ELSE UNCHANGED <<rows, counts>>

(* refresh_words.                                                           *)
RefreshWords ==
  /\ RefreshListCounts
  /\ rows' = IF Built("words") THEN [rows EXCEPT !.words = words'] ELSE rows

WordsChanged ==
  /\ UNCHANGED <<subject, macros, excluded, choices, bar, windows, editing, checkbox,
                 recorder>>
  /\ RefreshWords
  /\ Save
  /\ agreed' = FALSE

(* addWordAsTyped and addWordAsVietnamese.                                  *)
AddWord(k, verdict) ==
  /\ WordsPart /\ At("words")
  /\ words' = (k :> verdict) @@ words
  /\ WordsChanged

(* flipWord: the verdict is the live one, the word is the row's.            *)
FlipWord(k) ==
  /\ WordsPart /\ At("words") /\ k \in DOMAIN rows.words
  /\ words' = (k :> IF k \in DOMAIN words /\ words[k] = "as typed"
                    THEN "vietnamese" ELSE "as typed") @@ words
  /\ WordsChanged

RemoveWord(k) ==
  /\ WordsPart /\ At("words") /\ k \in DOMAIN rows.words
  /\ words' = Without(words, k)
  /\ WordsChanged

(* Slip: the rows are refreshed when the window is opened again.            *)
UntilReopened == RefreshListCounts /\ UNCHANGED rows

PersonalWordsChanged == RefreshWords

(* The correction hotkey, in the event tap: the word is decided, the        *)
(* deferred personal_words_changed refreshes, the pending save follows.     *)
CorrectByHotkey(k, verdict) ==
  /\ WordsPart
  /\ words' = (k :> verdict) @@ words
  /\ UNCHANGED <<subject, macros, excluded, choices, bar, windows, editing, checkbox,
                 recorder>>
  /\ PersonalWordsChanged
  /\ Save
  /\ agreed' = FALSE

AppsPart == "apps" \in subject

(* refresh_list.                                                            *)
RefreshList ==
  /\ RefreshListCounts
  /\ rows' = IF Built("excluded") THEN [rows EXCEPT !.apps = excluded'] ELSE rows

ExcludedInWindow(set) ==
  /\ AppsPart /\ At("excluded")
  /\ excluded' = set
  /\ UNCHANGED <<subject, macros, words, choices, bar, windows, editing, checkbox, recorder>>
  /\ RefreshList
  /\ Save
  /\ agreed' = FALSE

(* Any application, GlowKey too; the glyph is not refreshed.                *)
AddApp(a) == ExcludedInWindow(excluded \cup {a})
RemoveApp(a) == a \in rows.apps /\ ExcludedInWindow(excluded \ {a})

-----------------------------------------------------------------------------
(* The menu bar, and the same switches on the keyboard.                     *)

(* Slip: the glyph is refreshed by the next activation.                     *)
GlyphLater == UNCHANGED glyph

UpdateGlyph == glyph' = GlyphOf(mode', app', excluded')

(* appDidActivate.  After a missed switch the notification may only be late.*)
AppDidActivate(a) ==
  /\ a # front \/ missed
  /\ front' = a /\ app' = a /\ last' = a
  /\ missed' = FALSE
  /\ recording' = (recording /\ a = Own)
  /\ label' = IF recording /\ a # Own THEN "current" ELSE label
  /\ UNCHANGED <<subject, lists, choices, stored, windows, rows, counts, editing, checkbox>>
  /\ UpdateGlyph
  /\ agreed' = FALSE

(* The environment: an application comes to the front and no notification   *)
(* does.                                                                    *)
MissedActivation(a) ==
  /\ AppsPart /\ a # front
  /\ front' = a
  /\ missed' = TRUE
  /\ UNCHANGED <<subject, lists, choices, stored, app, last, glyph, windows, rows, counts,
                 editing, checkbox, recorder>>
  /\ agreed' = FALSE

(* refresh_frontmost_if_idle: the session is told; glyph and recorder are   *)
(* not.                                                                     *)
RefreshFrontmostIfIdle ==
  /\ last # front
  /\ app' = front /\ last' = front
  /\ UNCHANGED <<subject, lists, choices, stored, front, glyph, missed, windows, rows, counts,
                 editing, checkbox, recorder>>
  /\ agreed' = FALSE

(* toggleMode and the hotkey of the tap: drawn for the session's application.*)
ToggleMode ==
  /\ AppsPart
  /\ mode' = IF mode = "english" THEN "vietnamese" ELSE "english"
  /\ missed' = (missed /\ app # front)
  /\ UNCHANGED <<subject, lists, autoFix, hotkey, language, rest, front, app, last, windows,
                 rows, counts, editing, checkbox, recorder>>
  /\ UpdateGlyph
  /\ Save
  /\ agreed' = FALSE

(* toggleCurrentApp and Control-Shift-E, on whatever is in front, which the *)
(* session then takes for current: neither refreshes the list window or the *)
(* counts.                                                                  *)
ToggleCurrentApp ==
  /\ AppsPart
  /\ excluded' = IF front \in excluded THEN excluded \ {front} ELSE excluded \cup {front}
  /\ app' = front
  /\ missed' = FALSE
  /\ UNCHANGED <<subject, macros, words, choices, front, last, windows, rows, counts, editing,
                 checkbox, recorder>>
  /\ UpdateGlyph
  /\ Save
  /\ agreed' = FALSE

(* toggleAutoFix: the checkbox in Settings is not told.                     *)
ToggleAutoFix ==
  /\ "auto-fix" \in subject
  /\ autoFix' = ~autoFix
  /\ UNCHANGED <<subject, lists, mode, hotkey, language, rest, bar, windows, rows, counts,
                 editing, checkbox, recorder>>
  /\ Save
  /\ agreed' = FALSE

-----------------------------------------------------------------------------
(* The controls of the Settings window.                                     *)

(* Slip: the dependent checkbox keeps its state.                            *)
LeaveDependents == UNCHANGED dependent

RefreshDependents == dependent' = autoFix'

(* autoFixChanged: what the checkbox now says, whatever the menu did.       *)
AutoFixChanged ==
  /\ "auto-fix" \in subject /\ At("settings")
  /\ box' = ~box
  /\ autoFix' = box'
  /\ UNCHANGED <<subject, lists, mode, hotkey, language, rest, bar, windows, rows, counts,
                 editing, recorder>>
  /\ RefreshDependents
  /\ Save
  /\ agreed' = FALSE

(* The other checkboxes and choices, one setter each.                       *)
RestChanged ==
  /\ "rest" \in subject /\ At("settings")
  /\ rest' = ~rest
  /\ UNCHANGED <<subject, lists, mode, autoFix, hotkey, language, bar, windows, rows, counts,
                 editing, checkbox, recorder>>
  /\ Save
  /\ agreed' = FALSE

HotkeyPart == "hotkey" \in subject

(* refresh_hotkey_ui: the label says what the hotkey is.                    *)
RefreshHotkeyUi == label' = "current"

(* hotkeyChanged on a preset: the recorder stays as it is.                  *)
PresetChosen(h) ==
  /\ HotkeyPart /\ At("settings")
  /\ hotkey' = h
  /\ UNCHANGED <<subject, lists, mode, autoFix, language, rest, bar, windows, rows, counts,
                 editing, checkbox, recording>>
  /\ RefreshHotkeyUi
  /\ Save
  /\ agreed' = FALSE

(* hotkeyChanged on "Custom...".                                            *)
RecorderArmed ==
  /\ HotkeyPart /\ At("settings") /\ ~recording
  /\ recording' = TRUE
  /\ label' = "prompt"
  /\ UNCHANGED <<subject, lists, choices, stored, bar, windows, rows, counts, editing,
                 checkbox>>
  /\ agreed' = FALSE

(* Slip: a cancelled recording does not refresh the controls.               *)
RecordingGone == UNCHANGED label

HotkeyRecordingDone == RefreshHotkeyUi

(* The tap ends a recording: a combination, Escape, a click.                *)
RecordingEnds(h) ==
  /\ HotkeyPart /\ recording
  /\ recording' = FALSE
  /\ hotkey' = h
  /\ UNCHANGED <<subject, lists, mode, autoFix, language, rest, bar, windows, rows, counts,
                 editing, checkbox>>
  /\ HotkeyRecordingDone
  /\ Save
  /\ agreed' = FALSE

-----------------------------------------------------------------------------
Next ==
  \/ ShowSettings \/ ShowAbout
  \/ \E w \in Windows : CloseWindow(w)
  \/ ManageMacros \/ ManagePersonalWords \/ ManageExcludedApps
  \/ \E l \in Languages : LanguageChanged(l)
  \/ \E m \in Entries : AddMacro(m)
  \/ \E i \in 1 .. MaxMacros : EditMacro(i) \/ RemoveMacro(i)
  \/ CancelMacroEdit
  \/ \E table \in Tables, replace \in BOOLEAN : ImportMacros(table, replace)
  \/ \E k \in Words, verdict \in Verdicts : AddWord(k, verdict) \/ CorrectByHotkey(k, verdict)
  \/ \E k \in Words : FlipWord(k) \/ RemoveWord(k)
  \/ \E a \in Apps \cup {Own} :
       AddApp(a) \/ RemoveApp(a) \/ AppDidActivate(a) \/ MissedActivation(a)
  \/ RefreshFrontmostIfIdle
  \/ ToggleMode \/ ToggleCurrentApp \/ ToggleAutoFix \/ AutoFixChanged
  \/ RestChanged
  \/ \E h \in Presets : PresetChosen(h)
  \/ RecorderArmed
  \/ \E h \in Recorded \cup {hotkey} : RecordingEnds(h)

Spec == Init /\ [][Next]_vars

-----------------------------------------------------------------------------
(* Two rows never answer to the same keys: adding, renaming an edited row   *)
(* and importing all drop the older one (session.rs, add_macro,             *)
(* replace_macro, import_macros).                                           *)
OneRowPerShortcut ==
  \A i, j \in DOMAIN macros :
    SameShortcut(macros[i].shortcut, macros[j].shortcut) => i = j

(* While the button says Save the row it is about is in the list, so a Save *)
(* never brings a removed macro back (prefs/mod.rs, remove_macro and        *)
(* add_macro).  Imports only merge: none takes the row away, whatever the   *)
(* comment in add_macro says.                                               *)
EditedRowExists == editing # NoRow => HasMacro(macros, editing)

(* A macro the user did not agree to give up outlives every step; the row   *)
(* under edit is the exception (prefs/mod.rs, add_macro; macros_window.rs,  *)
(* import_macros).                                                          *)
NothingIsOverwrittenUnasked ==
  [][~agreed' => \A m \in Range(macros) :
       m \in Range(macros') \/ (editing # NoRow /\ SameShortcut(m.shortcut, editing))]_vars

(* The rows of the macro list, whose buttons carry an index of the live     *)
(* list, and those of the words.                                            *)
RowsAreLive ==
  /\ Built("macros") => rows.macros = macros
  /\ Built("words") => rows.words = words

(* The count of excluded applications is left out: it lags behind the menu  *)
(* and the keyboard.                                                        *)
CountsTrackTheLists ==
  Built("settings") =>
    counts.macros = Len(macros) /\ counts.words = Cardinality(DOMAIN words)

(* A dependent checkbox is enabled as its box is drawn, even where the menu *)
(* made both stale; the prompt is up while a combination is waited for.     *)
ControlsAgree == dependent = box /\ (label = "prompt" => recording)

(* Every handler, in the windows, the menu and the event tap, brings up to  *)
(* date what else is a copy of what it changed: the settings file, the rows *)
(* of other windows, the counts, the controls (refresh_macros,              *)
(* personal_words_changed, refresh_list_counts, refresh_dependents,         *)
(* hotkey_recording_done, save_settings).  The rows and the count of        *)
(* excluded applications and the auto-fix box are no part of it: the menu   *)
(* and the keyboard leave them behind.                                      *)
CopiesAreCurrent ==
  stored = Live /\ RowsAreLive /\ CountsTrackTheLists /\ ControlsAgree

(* No window is left in the language of before (prefs/mod.rs,               *)
(* rebuild_windows).                                                        *)
WindowsSpeakTheLanguage == \A w \in Windows : Built(w) => windows[w].language = language

(* The menu bar shows what the keys do in the application in front          *)
(* (menu_bar.rs, update_glyph).  Excepted are a switch that was not told,   *)
(* until the glyph is drawn for it, and GlowKey itself in front: the list   *)
(* window adds and removes it with no refresh of the glyph.                 *)
GlyphTellsTheState ==
  /\ (glyph = "E") <=> (mode = "english")
  /\ ~missed => app = front
  /\ ~missed /\ front # Own => glyph = GlyphOf(mode, front, excluded)
=============================================================================
