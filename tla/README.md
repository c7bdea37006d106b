# GlowKey: specifications and proofs

GlowKey is a Vietnamese input method for macOS and Windows. It works *blind*:
it sees keys, never the document. Every word key is swallowed and typed again
as an edit ("delete n characters before the caret, insert these"), and the edit
is computed from what GlowKey believes it has put there. One wrong belief, and
an edit deletes somebody else's text. This directory models the parts that hold
those beliefs and the two shells around them, checks the models with TLC, and
proves the most important properties with TLAPS.

## 1. The system

| Component | Where | State | Operations | Modelled in |
|---|---|---|---|---|
| composition engine | `crates/glowkey-engine` | keys of the word (`raw`), what they show (`rendered`), `escaped`, style options | `process_key`, `process_key_verbatim`, `restore`, `backspace_visible_char`, `reset`, setters | `Engine` |
| session | `crates/glowkey-session/src/session.rs` | engine, mode, application, exclusion list, `committed` history, `correctable` word, `word_overrides`, macros, `pending_capital` | `process_key`, `commit`, `note_boundary`, `recompose_after_boundary_backspace`, `correct_last_word`, `flush`, toggles, setters | `Typing` |
| exclusion list | `crates/glowkey-session/src/exclusion.rs` | saved ids, tombstones, suspensions, shipped defaults | `add`, `remove`, `suspend_for_session`, `resume`, `from_saved`, `is_excluded` | `ExclusionList`, `Exclusions` |
| decision ladder | `crates/glowkey-input` (`ladder.rs`, `platform.rs`) | none | `decide`, `handle` | `Typing` |
| macro table, personal words | `macros.rs`, `overrides.rs` | list, map | add, import, replace, remove | `MacroTable`, `WinSettings` |
| settings file | `app/src/settings_store.rs`, `prefs_model.rs`, `session_adapter.rs` | the file, its `.bak`, a temporary file | `load`, `save`, quarantine of a damaged file | `SettingsStore`, `WinSettings` |
| macOS event tap | `app/src/platform/macos` | port, permission, cached application, recorder, circuit breaker | tap callback, health timer, permission poll, activation observer | `MacTap` |
| macOS windows and menu bar | `app/src/prefs`, `menu_bar.rs`, `about_window.rs`, `platform/macos/settings.rs` | the windows, their rows, counts and drafts, the glyph | one handler per control and menu item, `rebuild_windows` | `MacPrefs` |
| Windows hook | `app/src/platform/windows/hook.rs`, `mouse.rs`, `foreground.rs`, `omnibox.rs`, `inject.rs`, `hook_log.rs`, `elevation.rs` | caches of the window in front and of the focused element, the log queue, the report of refusals | the hooks, the notifications, the debounce timer, the two helper threads, `SendInput` | `WinHook` |
| Windows shell | `hook.rs` (`run`), `shell.rs`, `tray.rs`, `indicator.rs`, `ui_thread.rs`, `settings_ui.rs` | pending flags, the message loop, the icon, the result slot, the window's draft | the message loop, the tray menu, the settings window, the merge of its result | `WinShell`, `WinSettings` |
| translation, drawing, HUD, start-up | the rest of `app/src` | drawing and operating-system calls | | section 6 |

How they interact. A key callback translates an event and calls `handle`, which
calls `decide`; `decide` calls the session, the session the engine; the decision
goes back out as an injected edit, a replayed key or a passthrough. Clicks,
application switches, the recovery of the event tap and the preference windows
call the session directly. On macOS all of this runs on one run loop; on Windows
hooks, tray and notifications share one thread, the settings window, the
question to the focused element and the writer of the log have threads of their
own. So a handler is one step, and what interleaves is handlers, helper threads,
the user's document, the applications in front, permissions and crashes.

What is hard, and what has to be true:

* **engine**: the key log and the rendering have to agree after any mixture of
  typing, visible Backspaces and re-opening, although a Backspace deletes one
  visible *character* and the log holds *keys*; the escape flag has two owners.
* **session**: three memories describe the text before the caret (the composed
  word, the history, the correctable word). Each has to be true of the document
  or empty, across every path that can move the caret, and under every change
  of a setting that would render differently.
* **exclusion list**: decisions have to survive saves that come late, crashes,
  restarts and upgrades that ship new defaults; a terminal must never lose its
  protection by accident.
* **ladder**: every branch either keeps the session in step with what the
  application does with the key, or flushes.
* **settings file**: whatever fails between two file operations, a launch starts
  from something that was stored as a whole.
* **macOS tap**: keys typed while the tap is dead must be followed by a flush; a
  dead tap must come back or be reported.
* **macOS windows**: they show copies; a button acts on the row it is drawn
  beside only while every other handler refreshes the rows.
* **Windows hook**: the session is told of another window late, by way of a
  notification, a timer and a call that lets other keys in; an answer about the
  address bar may be about the element that had the focus before.
* **Windows shell**: work is left in flags and in a slot that only a dispatched
  message makes the loop look at; a window edits a copy of what goes on changing.

`PROJECT.json` lists the hazards one by one, at the line where each bites, with
the properties that cover each or the reason why none does.

## 2. Modules

| Module | Models |
|---|---|
| `Engine` | one word being composed, as a value: `ProcessKey`, `ProcessKeyVerbatim`, `Restore`, `BackspaceVisibleChar`, `Diff` |
| `Rendering` | how keys become letters and how a word is judged, around the `vi` crate: quick Telex, brackets, repeated keys, case, the spell check |
| `ExclusionList` | the ignore list as a value and its operations |
| `Typing` | session + ladder + the host's text before the caret: one action per branch of `decide` and per call of a shell |
| `TextOwnership` | abstract: characters are *owned* or not, edits delete owned characters only, a caret that may have moved owns nothing |
| `Exclusions` | the list over time: hotkey, menu, editor, deferred save, crash, restart, upgrade |
| `SettingsStore` | `load` and `save`, one step per file operation, under crashes, loss of power, errors and hand edits |
| `DurableSettings` | abstract: one value replaced as a whole, which a loss of power may bring back in its earlier form |
| `MacTap` | the permission gate, the tap, its health timer, the breaker, the recorder, the application in front |
| `MacroTable` | the macro list as a value: add, edit, remove, import with its conflicts, under two foldings |
| `MacPrefs` | the macOS windows and the menu bar over the shared state |
| `WinSettings` | what the Windows settings window edits, as values: settings, session built from them, merge, rows |
| `WinShell` | the message loop, the tray menu, the settings window on its thread, the end of the program |
| `WinHook` | the hooks, the window in front, the address-bar guard, injection, the log queue |
| `MCTyping`, `MCExclusions`, `MCSettingsStore`, `MCMacTap`, `MCMacPrefs`, `MCWinShell`, `MCWinHook` | small instances for TLC |
| `SequenceFacts` | lemmas about positions, folds and sums of sequences, used by the proofs |
| `TypingProofs`, `ExclusionsProofs`, `SettingsStoreProofs`, `MacTapProofs`, `MacPrefsProofs`, `WinHookProofs`, `WinShellProofs` | lemmas, theorems and proofs |

`Typing` is checked with the rendering of `Rendering`, which `MCTyping`
instantiates, and proved about for any other (its case only for that one). It
extends `Engine` and `ExclusionList` and composes them the way `Session` owns
both; it instantiates `TextOwnership` under a refinement mapping, and
`SettingsStore` instantiates `DurableSettings`. `Exclusions` and `WinSettings`
use the same `ExclusionList`, `MacPrefs` extends `MacroTable`, `WinShell`
extends `WinSettings`. `Typing` says what a key means; the shells' modules know
a key only by what was decided about it (`MacTap`) or by the batch it becomes
(`WinHook`), and of the session only what the shell can spoil: the application
it acts for, and whether the word it remembers is still before the caret.

### State and actions of `Typing`

`engine`, `committed`, `correctable`, `mode`, `app`, `exclusions`,
`pendingCapital` are the fields of `Session`; `settings` gathers the options and
`spellCheck` is the engine's own copy of one of them (`sync_spell_check`).
`prefersRaw` and `prefersVietnamese` are `word_overrides` split by decision.
`text` is the only variable the program does not have: the characters before the
caret in the host. `decision` is what `decide` returned, with its edit.

| Action | Code |
|---|---|
| `TypeWordKey` | ladder, word character; `Session::process_key`, `maybe_capitalize`, `Engine::process_key` or `process_key_verbatim` |
| `ExpandMacro`, `CommitWord` | ladder, boundary; `pending_macro`, `commit`, `note_boundary` |
| `ReopenWord`, `ShrinkWord`, `LoseWord` | ladder, Backspace; `recompose_after_boundary_backspace`, `backspace_visible_char`, `flush` |
| `MoveCaret`, `Shortcut`, `Click` | the three flushes: caret keys, shortcuts, mouse (and a recovered tap) |
| `KeyWhileDeaf`, `PassCorrectionKey`, `KeyWithoutACharacter` | the branches that let a key through and change nothing |
| `ToggleMode`, `ToggleAppHotkey`, `ToggleNoApp` | the two toggle hotkeys |
| `CorrectLastWord`, `CorrectNothing` | the correction hotkey |
| `SetFrontmostApp` | the shell reports the application in front |
| `SetStyle`, `SetChecks`, `SetAlwaysMacro` | setters called by menus and preference windows |

Choices of abstraction:

* *Rendering is a parameter.* `Render`, `CannotBecomeVietnamese`,
  `IsInvalidVietnamese`, `WithoutRejections`, `Upper`, `Lower` are CONSTANT
  operators; the theorems hold for every such rendering that shows nothing for
  no keys, the one about case for the rendering of `Rendering`. `MCTyping` takes them from `Rendering`: the pipeline of
  `render` (quick Telex, then brackets, then `vi` fed key by key in lower case
  with the fourth press of a doubling key withheld, then the case of the keys
  that spelled a letter), `typed_word`, `is_syllable_char` and the two questions
  of the spell check. A character is named by the Telex keys that spell it.
  What `vi` does is external and modelled for the letters in play: a mark on a
  single vowel, a repeat that takes it back, any other key a letter; `Onsets`
  and `Rimes` are the entries of the code's tables made of those letters.
  No run types a bracket; `BracketExamples` holds the code's examples instead.
* *The host is nondeterministic where the session is blind.* A control character
  may insert itself, do nothing or move the caret. A caret move lands on any
  prefix of the text or in front of other text (`OtherTexts`). A key that passes
  while the session does not listen may do any of these.
* *Edits arrive before the next key.* The code posts every edit and every
  replayed key through one ordered queue and swallows the keys it re-types; the
  model applies the edit in the same step. The queue itself is not modelled
  (section 6).
* *One UTF-16 unit per character.* All Vietnamese letters are in the basic plane
  in composed form; the distinction between character and unit counts is not
  modelled.
* `SetStyle` stands for style, method, Quick Telex and the bracket keys, whose
  setters do the same thing: set, reset the engine, forget the position.
* `SetAlwaysMacro` requires that nothing is remembered: the switch is reached by
  a click, which flushed. The setter itself forgets nothing.
* `UnseenMoves` names the two keys the ladder lets through with no flush on
  which an application might move the caret. It is empty in the passing runs,
  because otherwise the invariants fail: see section 4.

### State and actions of `Exclusions`

`list` is the running `ExclusionList`; `disk` is what the settings file keeps of
it (ids and tombstones, never suspensions); `dirty` is `pending_save`.
`ToggleByHotkey` changes the list and asks for a save unless the outcome is
session-only; `Save` is the write after the key was handled; `Restart` may come
before it, and may be into a build with a larger default table. The menu item
and the editor save on the spot.

### State and actions of `SettingsStore`

`seen` is the directory as programs see it, `device` the set of directories a
loss of power may leave: a write adds the written and the torn file, a sync
narrows the set, a rename adds to it. `step` is the file operation of `save`
that comes next; each may fail, and `GiveUp` is the early return. `Launch` is
`load` with the quarantine, which may itself fail. `careful` is fixed for a
behaviour: whether a damaged file can be moved aside and nobody writes the file
under the running program; the backup's property is stated for such a world.

### State and actions of `MacTap`

`port` is the event tap: none, working, disabled by the system, or void because
the permission under which it was made has gone. `failures`, `dead`, `warned`
are the counters of `health.rs`; `word` says that the session remembers text and
`behind` that the document has changed without it. `KeyDown` is the whole
callback: the application is asked for on the first key, then the recorder or
the policy has the key, then the breaker posts or drops the edit.
`CheckTapHealth` is one firing of the timer with its five outcomes.
`world` is fixed for a behaviour: which troubles may happen at all (a tap
disabled without a notice, an activation not announced, edits faster than the
breaker allows), so that a property can exempt a trouble without losing the case
in which it does not occur.

### State and actions of `MacPrefs`

Beside the lists and choices, `stored` is the settings file, `windows`, `rows`,
`counts`, `box`, `dependent` and `label` are what is drawn, `editing` is the row
the input fields are about. Handlers are actions, with the save and the
refreshes they call; the keyboard's side (`ToggleMode`, `CorrectByHotkey`,
`ToggleCurrentApp`) changes the same state while the windows are open.
`front` is the application really in front, `app` the session's, `last` the one
`last_bundle_id` holds. `AppDidActivate` brings all three together,
`MissedActivation` (the environment) moves the first alone, and
`RefreshFrontmostIfIdle` catches up without drawing. Any application can be
excluded, GlowKey too, by the toggle or in the list window. `missed` is a history
variable: the last switch was not told, or not yet, and the glyph has not been
drawn for it. A guard reads it only to let a late notification come.
`LanguageChanged` is `rebuild_windows`. `subject` is fixed for a behaviour: the
parts of the settings one session of use is about; parts that share no state
are not interleaved with each other.

### State and actions of `WinSettings` and `WinShell`

`session` and `language` are what the program works with, `stored` the file.
The main thread is `loop`: waiting in `GetMessage`, inside the tray menu's own
loop, draining its flags after a dispatched message, or ended. Hook callbacks
run in the first two and leave `pending` flags and, through `wake`, a posted
message (`woken`), which the menu's loop loses. `commands` is the UI thread's
channel, `window` the settings window with its draft, `slot` the result it left,
`storing` the moment between filling the slot and waking the loop. `Drained` is
one pass over flags and slot: save, refresh of the icon, `apply_settings` with
the three-way merge, the rebuild of the session and the application put back.

### State and actions of `WinHook`

`front` and `spot` are where the caret really is; `cache`, `session`, `lastApp`
what the code knows. `notice`, `timer` and `resolving` are a change of window on
its way: notification, debounce, and `update` asking about the window it found.
While it asks about a browser, other keys are handled (`HookRuns`).
`focusNotice`, `flag`, `token`, `worker` are the address-bar guard. `HandleKey`
is a key from the backstop to the batches; `sent` and `tally` record them.
A window is what `update` compares: program, layout, reach. `story` is fixed for
a behaviour: carets, the focused element or the log, with the places the caret
may go to; the three share no state but the keys.

Choices of abstraction in the shells:

* What a key does to the word is `Typing`'s: here a letter starts or continues
  the word, and a key may delete only where a word is remembered.
* The caret moves within a window only by a click or a caret key, and between
  windows also by itself. Letters typed before the code could know where they go
  (during the debounce, or into a program it cannot read) mark the word
  `strayed`.
* GlowKey's own windows are skipped by the notification and not modelled on
  Windows. Lines of the log are counted, their wording left out.

## 3. Properties and runs

| Property | Says |
|---|---|
| `ComposedWordIsTheTail` | the text before the caret ends in what the engine rendered: the baseline of every edit |
| `HistoryIsAsRecorded` | the history is an unbroken account of the text behind the composed word |
| `CorrectionTargetIsAtTheCaret` | what the correction hotkey would delete is before the caret |
| `KeysAndRenderingAgree` | every composed or remembered word is what the settings in force make of its keys |
| `EscapesAreTheSpellChecks` | in Vietnamese mode only the spell check escapes a word |
| `CaseIsAsTyped` | a composed word has capitals as its keys have them, also where quick Telex put in keys of its own (Telex without its bracket keys, of which `{` is a capital by design; VNI breaks it, see section 4) |
| `CorrectionIsRemembered` | after a correction, the same word typed again comes out corrected |
| `OnlyOwnedTextIsEdited` | `Typing` implements `TextOwnership` |
| `NextLaunchAgrees` | with nothing to save, a restart excludes what is excluded now |
| `OnlyTheEditorDisarmsATerminal` | only removal in the editor makes the file give up a terminal |
| `RestartKeepsDecisions` | a restart keeps exclusions and removals, also across an upgrade |
| `StoresWholeValues` | `SettingsStore` implements `DurableSettings`: no launch starts from half a save |
| `OnlyReadableFilesReplaceTheBackup` | a good backup is replaced by a readable file, or by one that is not text |
| `NoWordSurvivesAGap` | no key reaches a session whose word the document left behind while the tap was away |
| `RecorderStaysAtHome` | the hotkey recorder does not stay armed for another application |
| `DeadTapIsReported`, `GrantedTapComesBack`, `MissedSwitchIsNoticed` | liveness of the health check |
| `CopiesAreCurrent` | the file, the rows and their buttons, the counts, the dependent box and the recorder's prompt, copies all of them, are what the running program has |
| `OneRowPerShortcut`, `EditedRowExists`, `NothingIsOverwrittenUnasked` | the macro list under editing, removal and import |
| `WindowsSpeakTheLanguage`, `GlyphTellsTheState` | every window is rebuilt in a new language; the menu bar's glyph tells the mode and, of the application in front, the exclusion, except with GlowKey itself in front and after a switch nobody announced |
| `SomethingWakesTheLoop`, `CloseIsApplied`, `OpenRequestIsHonoured` | no flag, result or request waits for a message that never comes, nor for a program that has ended |
| `FileMeansTheSession`, `UntouchedFieldsSurvive` | hook, tray and window change one session, and the file says so |
| `SessionKnowsTheApp`, `TrayTellsTheState` | what the rebuild and the refresh must not forget |
| `FrontIsKnown`, `ForegroundSettles` | once nothing is on its way, the code knows what is in front, and it gets there |
| `WordIsAtHome` | a settled word is before the caret it was typed at |
| `GuardOnlyInTheBar`, `StaleGuardIsWithdrawn` | a forward-delete meets the address bar or an open question; a stale guard is disarmed |
| `LogAccountsForEveryLine` | every line asked for was written, is queued or is in a count of dropped lines |
| `RefusalIsToldOnce` | a run of refused batches is told once |

Some properties name the cases the code leaves open (a tap disabled in silence,
a latched breaker, a program that cannot be read, a question still open). Each
exemption is a disjunct of the formula, not a restriction of the model: the
cases happen in the runs, and section 4 says what the code does in them.

| Run | Question | Bounds |
|---|---|---|
| `typing_words` | do typing, deleting, re-opening, restoring and expanding keep the account true, with the spell check at the key or at the end? | the letters a and e in Telex, 4 keys a word, 4 characters of text, history of 2 |
| `typing_settings` | style, spell check and macro switch changed at any moment, two applications (interchangeable, hence a symmetry) | a and the VNI mark 6, 3 keys a word, 3 characters of text, Telex and VNI, history of 2 |
| `typing_corrections` | corrections in either case, against the English restore, with sentence capitals, and the case of what quick Telex puts in | c and C, 3 keys a word, one word decided about |
| `exclusions` | the life of the list | a terminal, an editor, a browser, a web app inside it, two releases |
| `settings_file` | can anything between two file operations make a launch start from what was never stored? | two values, one text that does not parse, one file that is not text; no bound on saves, crashes or edits |
| `event_tap` | what a gap in the tap leaves behind; does the health check report, bring back and notice? | two applications, two hotkeys, 2 failures before the warning and 4 before giving up (30 in the code), a breaker of 1; worlds with no trouble and with every one |
| `mac_settings` | do windows and menu bar go on showing, acting on and storing what they share with the keyboard? | 4 shortcuts under two foldings and a blank one, lists of up to 3, one word, one application beside GlowKey, two languages; macros, words with the auto-fix box, applications, hotkey and the rest each in a session of their own |
| `win_shell` | can hook, tray and window lose, overwrite or misapply each other's work, up to the end? | 3 inputs beside a window requested at the launch and one more, 3 shortcuts, lists of up to 3, two applications of which one may be out of reach |
| `win_hook` | where do keys, clicks, notifications, the timer and the helper threads leave the session, the guard, the report and the log? | 3 keys or clicks, 2 windows that raise themselves, six windows of four programs, a log queue of 1 |
| `correction_key`, `win_mode`, `win_omnibox` | the three findings | as above |

Why the bounds are enough. *Typing*: three keys are the smallest number at which
words shrink as keys are added (`aaa` shows `aa`), at which one Backspace has no
key to remove and must undo one, and at which a refused word (`aae`) is
committed and re-opened; four the smallest at which these happen behind another
letter. A history of 2 overflows, with bare boundaries as entries, in text of 4
characters: trimming and deleting back past the cap both happen. One word and
one other text suffice to tell a true account from a stale one. *Exclusions*:
the release tables differ by a browser that hosts a web app, the only case in
which an upgrade can change what an application inherits. *Tap*: the order of
the two thresholds is kept, the count saturates, and the breaker latches with
its second edit. *Windows shell*: three inputs are a change by hook, one by the
window under it and one by the menu after it; two windows in succession are
enough for a request that meets a closed one. *Windows hook*: a word, a move and
an edit; a window that comes and goes before the timer fires; a queue of 1
overflows with the second line. `MaxText`, `MaxKeys`, `MaxDecisions`,
`MaxMacros`, `MaxInputs`, `MaxOpens`, `MaxRows`, `MaxRaises` are bounds of the
models and cut inputs off by a guard; the environment's inputs only, never a
step of the program.

Deadlock is checked except in `event_tap`, where a process may have ended, and
in `win_hook` and `win_omnibox`, where the inputs may be spent and everything
settled.

### Fairness

`Typing`, `Exclusions`, `SettingsStore` and `MacPrefs` assume none: their
handlers do nothing unasked, and the save of `Exclusions` may be cut off by a
crash at any time.

* `MacTap`: weak fairness of a firing of the health timer (it repeats for as
  long as the run loop runs) and of `Pause` (somebody stops typing for three
  seconds, without which the timer skips for good: `DeadTapIsReported` is false
  of a user who never stops). Strong fairness of a check that can create a tap:
  if the system is asked again and again, it does not refuse for ever. Neither
  the grant nor the notices of the system are fair.
* `WinShell`: weak fairness of the message loop taking a posted message and
  draining, and of the UI thread's frame (storing a result, waking the loop,
  taking a command). Opening and closing the menu is the user's; hence
  `CloseIsApplied` excepts an open menu.
* `WinHook`: weak fairness of the thread of the hooks taking its messages
  (notification, timer, `update`, focus event) and of the worker. Keys, clicks
  and raised windows are not fair, nor is the log's writer.

`Slip` operators (each just before the definition it imitates) are the code with
a plausible mistake: a missing reset, a dropped tombstone, a cap not enforced, a
timer not killed. No action uses them. `PROJECT.json` pairs each with a property
that the mistake breaks, which is the evidence that the property says something.

## 4. Findings

Kept as runs that TLC must find violated:

1. **The correction hotkey passes without a flush** (`ladder.rs:117`, run
   `correction_key`). With English macro matching a word is composed although
   the session is not active. Ctrl-Shift-W then goes to the application ahead of
   the shortcut filter that would flush. If the application acts on it, the next
   edit has a stale baseline.
2. **Closing the settings window turns Vietnamese back on** (`shell.rs:256`, run
   `win_mode`). `apply_settings` rebuilds the session, whose mode starts as
   Vietnamese: an English mode chosen with the hotkey or in the tray is lost
   with any edit of the window.
3. **A stale answer can arm the address-bar guard in a page** (`omnibox.rs:157`,
   run `win_omnibox`). The worker stores its answer unconditionally: asked while
   the bar had the focus, it may set the flag after the change of focus has
   cleared it, and the next edit in the page is preceded by a forward-delete.
   `omnibox.rs:41-46` says that this cannot happen. `GuardOnlyInTheBar` states
   what does hold: the question is still open then, and is asked again.

### Disagreements met and not kept as runs

Session and ladder:

* *The pending capital outlives its full stop* (`session.rs:958`, against the
  field's doc, `session.rs:144-146`). Backspacing the `.` away leaves
  `pending_capital` set, and the next word is capitalised in mid-sentence. To
  see it, add `CapitalFollowsASentenceEnd` to the INVARIANTS of
  `MCTypingCorrections.cfg`.
* *A VNI digit that takes its mark back costs an all-caps word its capitals*
  (`engine.rs:716-720` and `789-801`, against the doc of `apply_case`,
  `engine.rs:778-784`, which has marks left out of the pattern, those of VNI by
  name). The second `6` of `A66A` undoes the circumflex and lengthens the
  rendering, so it counts as a letter of the word; a digit is never uppercase, and
  the word comes out as `A6a`. That `vi` answers a repeated digit by undoing the
  mark and keeping the digit is the model's reading of the crate. To see it, give
  `MCTypingCorrections.cfg` the keys `a`, `A` and `6`, four of them to a word, a
  set of VNI styles and initial settings in that style: `CaseIsAsTyped` fails.
* *Keys without a character pass without a flush* (`ladder.rs:281`).
  `note_boundary` (`session.rs:414-418`) relies on function keys, Delete and the
  like arriving as control characters. That is macOS; the Windows adapter
  (`adapt.rs:278-281`) delivers them with no character, and neither the composed
  word nor the correctable word is forgotten. To see it, set
  `UnseenMoves = {"key without a character"}` in `MCTypingWords.cfg`.

Settings file:

* A file that is not UTF-8 counts as missing (`settings_store.rs:58`) and is
  then copied over a good backup, against `settings_store.rs:34-42, 99-101`;
  the property excepts it.

macOS:

* The health timer re-enables a silently disabled tap with no flush
  (`health.rs:285`, against `docs/decisions/0007:40` and `health.rs:60`).
* A latched breaker drops edits whose keys stay suppressed (`emit.rs:57`,
  against `emit.rs:46`).
* `refresh_frontmost_if_idle` leaves the recorder armed, against
  `mod.rs:183-185`, and the glyph as it was, so the glyph does not "always"
  show "the state for the app you are in" (`menu_bar.rs:545-546`). Nor does it
  after the list window has added or removed GlowKey itself, whose window is in
  front (`prefs/mod.rs:261-320` refreshes the list only). `GlyphTellsTheState`
  excepts both; `MacPrefs` reaches both.
* A toggle sets the session's application and not `last_bundle_id`
  (`settings.rs:42-47`, `session.rs:680`). If an application came up unannounced,
  was toggled there, and the one before comes back unannounced, the idle check
  finds its cache right (`mod.rs:261`) and the session keeps the wrong one until
  the next notification. `MacTap`, where `MissedSwitchIsNoticed` is checked, has
  no toggles: it speaks of `last_bundle_id`. To see it, check
  `last = front => app = front` of `MCMacPrefs`.
* An import cannot "replace the whole table while the fields sit open"
  (`prefs/mod.rs:393-396`): `import_macros` only merges, and what it overwrites it
  adds again under the same shortcut (`session.rs:469-514`). The row under edit is
  always in the list (`EditedRowExists`, proved for every import), and the
  fallback to an ordinary Add, kept in the model as `Edited`, is never taken.
* The rows and the count of excluded applications are stale after the hotkey or
  the menu; so is the auto-fix checkbox with its dependent; a preset chosen by
  keyboard while the recorder is armed leaves it armed under the label
  "Current"; replacing by import leaves both rows of a non-ASCII case variant;
  the main menu keeps its language.

Windows:

* Removing a row above the edited one leaves the edit index at another row,
  which Save then overwrites (`settings_ui.rs:1248-1251, 1384-1388`, against
  `789-790`); renaming a personal word onto another's key leaves two entries;
  an import overwrites without asking.
* Removing a default and adding it again edits the tombstones only, so the merge
  overwrites a tombstone made in the tray meanwhile; a second window that starts
  from a snapshot older than the first one's result undoes its edit
  (`shell.rs:196-210`); quitting with a closed window not yet delivered loses
  its edits.
* `foreground.rs:307` returns when the program in front cannot be read, so the
  application and the exclusions of before stay in force, where
  `foreground.rs:126-131` and `417-419` promise to fail closed.
* Letters typed during the 150 ms debounce, or into a popup that closes again
  within it, belong to no window the code knows; the word is wrong with no
  flush. The layout is cached with the window, so switching it inside one goes
  unnoticed (`foreground.rs:138`); two windows of one program, layout and reach
  are the same to `update`.
* `SetTimer` without a window ignores the identifier, so a burst of
  notifications starts several timers; `reinstall_hook` is not reachable, and
  `is_installed` stays true when Windows removes a slow hook; the backstop of
  `handle_key` (`hook.rs:442-447`) cannot help where the notification was never
  installed, since nothing then fills the cache.

## 5. Proofs

All theorems are for every value of the constants under the named assumptions of
the modules: a rendering that shows nothing for no keys and only known
characters, case maps that stay within the keys, control characters distinct
from the others, a history cap of at least 1, no terminal hosting applications;
distinct markers for files; thresholds in order; windows with a program and a
reach; tables of macros that are sequences of macros, and a folding of every
letter that tells apart no two shortcuts which ASCII folding takes for one;
shipped defaults that are applications. The bounds of the models (`MaxKeys`,
`MaxInputs`, ...) are arbitrary naturals or play no part.

| Theorem | States |
|---|---|
| `TypingProofs!TypeCorrect` | `Spec => []TypeOK`, with the cap and the agreement of the two copies of the spell check |
| `TypingProofs!KeysAgree`, `EscapesStayWithTheCheck`, `CorrectionsStick` | `Spec => []KeysAndRenderingAgree`, `Spec => []EscapesAreTheSpellChecks`, `Spec => CorrectionIsRemembered` |
| `TypingProofs!TheWordIsTheTail`, `TheHistoryIsTheText`, `TheCorrectedWordIsThere` | the three caret invariants, assuming `UnseenMoves = {}` |
| `TypingProofs!OwnershipIsKept` | the refinement of `TextOwnership` (`OnlyOwnedTextIsEdited`), assuming `UnseenMoves = {}` |
| `TypingProofs!CaseIsKept` | `Spec => [](LettersOnly(settings.style) => CaseIsAsTyped)`, assuming `RulesApply` and `CaseFacts` |
| `ExclusionsProofs!TypeCorrect`, `RestartAgreement`, `TerminalsStayProtected`, `DecisionsSurviveRestart` | the four properties of `Exclusions` |
| `SettingsStoreProofs!WholeValuesAreStored`, `TheBackupStaysReadable` | the refinement of `DurableSettings`, and the backup's action property |
| `MacTapProofs!TypeCorrect`, `GapsAreFlushed`, `HotkeyIsStored`, `RecorderIsAtHome` | the four invariants of `MacTap` |
| `MacTapProofs!OutagesEndInAWarning`, `GrantEndsTheOutage` | `Spec => []CountInv /\ OutagesAreCounted`, `Spec => GrantedChecksGetNearer`: what the two liveness properties of `MacTap` rest on |
| `MacPrefsProofs!ShortcutsAreUnique`, `SavesAreOfRowsThatExist`, `MacrosAreNotLost` | `OneRowPerShortcut`, `EditedRowExists`, `NothingIsOverwrittenUnasked` of `MacPrefs` |
| `MacPrefsProofs!NothingGoesStale`, `OneLanguage`, `GlyphIsRight` | `CopiesAreCurrent`, `WindowsSpeakTheLanguage`, `GlyphTellsTheState` |
| `WinHookProofs!TypeCorrect`, `FrontIsFollowed`, `WordStaysHome`, `GuardStaysInTheBar`, `RefusalsAreTold`, `SendingAnswersKeys`, `LinesAreAccountedFor` | the invariants of `WinHook` |
| `WinHookProofs!ChangesAreNotHeldUp`, `StaleGuardsRunOut` | `Spec => [](Settling <=> WaitsLeft > 0) /\ OnlyANewFrontDelays`, `Spec => []SomeoneWillAsk /\ StaleGuardsWearOut`: the same for `WinHook` |
| `WinShellProofs!NothingWaitsInSilence`, `TheSessionIsInFront`, `TheTrayTellsTheTruth`, `TheWindowOpens` | `SomethingWakesTheLoop`, `SessionKnowsTheApp`, `TrayTellsTheState` and `OpenRequestIsHonoured` of `WinShell` |
| `WinShellProofs!TheFileIsTheSession`, `TheRestSurvivesTheWindow` | `FileMeansTheSession` and `UntouchedFieldsSurvive` |

A type invariant is run for `Typing` and `Exclusions`; those of `SettingsStore`,
`MacTap` and `WinHook` are proved and not run again, like
`RecordedHotkeyIsStored` (a hotkey the recorder took is in the file) and
`BatchesAnswerKeys` (nothing is sent that no key asked for).

The arguments:

* `TypingProofs` first shows what each engine operation returns: `Diff` really turns
  one rendering into the next, a Backspace the engine follows leaves either one
  character less on screen with a log that renders to it, or a rewrite of the
  whole word.
* Its invariant about a word's keys is the conjunction of the two
  properties, because they need each other: a re-opened word is escaped exactly
  if its rendering is not what its keys render to, so the history must hold
  produced words only, and in Vietnamese mode without the spell check none that
  were escaped. That a correction sticks needs no invariant: `Learn` files the
  decision under the key `WantedReading` looks up, and withdraws the other.
* None of the three caret invariants is inductive. The
  strengthening `CaretKnown` adds (i) `CorrectableIsOnTop`: while a word could
  be corrected and there is a history, the history ends in a word and not in a
  bare boundary, and in the word that could be corrected, so the Backspace that
  takes the boundary away re-opens it, and a session that is composing corrects
  nothing, and (ii)
  `DeafRemembersNothing`: a session that does not listen remembers nothing, so
  keys it ignores cannot invalidate anything. The history is handled by lemmas
  on `AccountedFor`: an account grows by a committed word, shrinks by a
  re-opened one, survives the trimming of its oldest entries and survives any
  edit in front of it.
* That `Typing` refines `TextOwnership` is shown step by step, one lemma per kind
  of edit. What is owned is the composed word and the sum over the history,
  which `AccountIsASum` takes out of its fold; the lemmas on sums say what an
  entry pushed, popped or trimmed does to it. An edit deletes a composed word, a
  re-opened one, or the word to be corrected, which `CorrectableIsOnTop` makes
  the last of the history where there is one: that is why it had to say which
  word is on top, not only that one is.
* `CaseIsKept` is the one theorem that looks into `Render`. `RulesApply` says
  that it is `RenderWord` of `Rendering` and that the word keys are those of
  `ExtendsAWord`; `CaseFacts` that the two cases of a character are each other's
  and that `vi` shows no capital when fed small letters, which `MCTyping` has
  TLC evaluate over its model of the crate. `LettersOnly` are the styles in
  which a word is spelled with letters: Telex and simple Telex, quick or not,
  without the bracket keys. A first invariant, `LettersTyped`, follows the keys
  through typing, automatic capitals, Backspace and the history: all of them are
  letters. Then the pipeline: the folds of `Selected` and `AllPutBack` keep a
  word in whatever set its keys and its view are from (`SelectedFolds`,
  `AllPutBackType`), quick Telex keeps the case of the keys it replaces
  (`ExpandedType`), the keys the case is judged on are never none
  (`SelectedType`), and a word is shown in small letters or in capitals
  throughout (`RenderedIn`, `WordsKeepTheirCase`). The verbatim rendering of an
  escaped word is its keys.
* `ExclusionsProofs`: `NextLaunchAgrees` rests on `FileIsCurrent` (with nothing
  dirty the file, merged with the defaults, is the list), terminal protection on
  the fact that a terminal in the saved ids leaves them in the editor only.
* `SettingsStoreProofs`: the mapping takes the set of readings the device may
  leave for `survivors`. `SaveInOrder` says what the temporary file holds at
  each step of a save, on the device too once it is synchronised; so the rename
  is the one step that changes a reading, and it stores the running settings.
* `MacTapProofs`: `GapInv` adds that a disabled tap has a notice waiting unless
  the permission has gone, and that an armed recorder finds no word but one
  already behind: its keys pass the session by, and would otherwise leave a word
  stale with the tap in order. `RecorderInv` speaks of the application really in
  front, because the idle check changes the cached one under an armed recorder.
* `MacPrefsProofs`: the list and the row being edited are inductive together
  (`ListInv`). `RowsAt` and the import are folds: `RowsArePicked` shows that the
  first returns rows of the list, each once and in order, and the import keeps
  one row per shortcut because what it adds is new to the list. `CopiesInv` is
  the conjunction of the three properties of the windows, with what is drawn in
  shape: a handler keeps it because it refreshes, itself or by rebuilding the
  windows, every copy of what it changes. The list window is the exception for
  the glyph: its clicks find GlowKey in front, where the property asks for the
  mode only, and GlowKey leaves the front by a notification, which draws the
  glyph, or by a switch nobody announced, which the property excepts.
* `WinHookProofs`: `CacheInv` ties what is cached to what is in front unless
  something is on its way, and what `update` is asking about to a further notice
  when it is no longer in front. `WordInv` follows a word into windows that are
  not in front: its window is the one cached, and the caret in it has not moved.
  `BarInv` carries the wrong flag or answer to the question that is still open.
  The log's property is about the sum of the counts in its queue: a line queued
  takes the count of those dropped before it along, a line that finds the queue
  full adds to it, and a key may log several, one after the other.
* `WinShellProofs`: the three invariants are inductive together, once the icon,
  the cache and the flags have their shape and the hook is known to have
  reported no application while none is known. One assumption is used on the
  data: no application is called as the one `repaint` pretends to have drawn
  ("poisoned" in the model). That every request opens a window rests on the
  delivery of a closed window before the next command, and on the channel
  losing its first request in `TakeCommand` alone.
* That the file means the session rests on one lemma, `SavedIsReadBack`: the
  settings of a session, written and read back, are what they were. It needs the
  session's words to be among the known ones (writing them as sorted rows and
  filing the rows again then gives the same decisions, `WordsReturn`) and its
  list to contain what the build ships unless it was removed (`Kept`): otherwise
  the next launch would add it. Each step then keeps the two equal, asks for a
  save, or changes only what no file holds: place, mode, a suspended terminal.
* `IsAWindow` is what `UntouchedFieldsSurvive` needs: the draft differs from what
  the window opened with only in parts the user clicked in, the list of
  applications counting as one part, and a result differs from its baseline only
  there. So the merge takes the rest from the live session, and by the lemma
  above it comes through the session built from it (`MeaningByPart`).

Of a liveness property the provers reach the part that does not speak of
fairness: a count that the awaited steps bring down (or up to its end), that
nothing else sets back, and whose end is what was promised. `OutagesAreCounted`
and `CountInv` are that for a dead tap: while it is out, neither revocations nor
grants nor keys take back the failed checks, and the last of `BeforeGivingUp`
shows the glyph; `GrantedChecksGetNearer` says the same of a tap that may be
built, whose port is given up, and then built anew, when the count is full.
`WaitsLeft` counts what the thread of the Windows hooks has yet to do about a
change of the window in front, and only a further change adds to it; `StepsLeft`
counts the steps of the resolver until a wrong guard is stored away, and
`BarInv` says that there is one to come. `NothingWaitsInSilence` plays that part
for `CloseIsApplied`. What is left to TLC is that the timer, the threads and the
user let those steps happen, which is what the fairness conditions say.

Folds and sums are reached by induction without a rule for it: the set of
lengths for which a statement fails has a least member (`LeastNatural`,
`AllNaturals`), and the functions that folds are defined by exist by the same
argument (`FoldExists`, `StepsExist`).

Model-checked only: the liveness properties as such, whose fairness is out of
the prover's reach; and `CaseIsAsTyped` with the bracket keys or in VNI, where it does not
hold (sections 3 and 4).

## 6. Not modelled

* *The queue of edits.* The code posts edits and replayed keys through the
  system's event queue, in the order in which they were decided; `Typing` lets
  each arrive before the next key. A model of the delivery itself would need
  what the applications do with a key that overtakes an injected one, which no
  code here decides. Nor is a batch modelled that `SendInput` accepts in part:
  `inject.rs` only counts it, and what the application then holds is anything.
* *Data.* How `vi` composes and what it takes for a syllable belong to another
  crate; the model of them knows single vowels only, and old and new placement
  of a tone are part of it. The tables of onsets, rimes and tones are constants,
  given their entries over the letters in play; the English word list is a set.
  Taking all marks off a word (`tones.rs`), and Vietnamese words of several
  vowels, are not run. Units
  against characters, and the folding of case beyond a pair of tables, are left
  out.
* *Translation of events* (the two `adapt.rs`): a pure function of
  a key, its modifiers and the layout, but for the dead keys, whose pending
  state lives in a buffer of the system that several callers share and that no
  code here owns. A hotkey is a decision that a key matches or does not.
* *Drawing and the system*: layout and painting of windows and icons, the HUD,
  the clipboard and the file dialogs (a table that was read is an input),
  start-up registration, the single instance, the wording and the rotation of
  logs, the prompts for permission, the address-bar rule of macOS (one
  comparison when an edit is posted).
* *GlowKey's own windows on Windows*, which the notification skips.

## 7. What would come next

1. The dead keys of `adapt.rs` as a machine of their own, with the system's
   buffer as nondeterminism.
2. A larger model of `vi`, with nuclei of two vowels, and the full tables, so
   that the rules of the spell check (`split_rime`, the glides, the stop codas)
   can be compared with a reference definition over bounded words.
