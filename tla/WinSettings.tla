---------------------------- MODULE WinSettings ----------------------------
(***************************************************************************)
(* What the Windows settings window edits, as values: the persisted        *)
(* settings, the session built from them and written back over them        *)
(* (session_adapter.rs), the merge of a window's edits into a session that *)
(* went on living behind it (shell.rs), and the window itself              *)
(* (settings_ui.rs), one operator per click.                               *)
(*                                                                         *)
(* Of the settings, `language` stands for those the session never holds    *)
(* (hotkey, language, verbose log, welcome, open at launch), `autoFix` and *)
(* `strict`, which is only offered under it, for the session's switches.   *)
(***************************************************************************)
EXTENDS ExclusionList, Naturals, Sequences

CONSTANTS
  Defaults,       (* the exclusion table this build ships                     *)
  Shortcuts,      (* macro shortcuts, trimmed and not empty                   *)
  AsciiFold,      (* what ASCII case folding makes of each                    *)
  Expansions,
  WordOrder,      (* the keys a decision may be about, sorted                 *)
  Languages

Seqs == INSTANCE SequencesExt

Verdicts == {"raw", "vietnamese"}
Words == {WordOrder[i] : i \in DOMAIN WordOrder}
ASSUME WinSettingsAssumption == WordOrder \in Seq(Words) /\ Defaults \subseteq Apps
Macros == [shortcut : Shortcuts, expansion : Expansions]
WordRows == [keys : Words, prefer : Verdicts]
Fields == {"exclusions", "removed", "autoFix", "strict", "macros", "words", "language"}

Settings ==
  [exclusions : SUBSET Apps, removed : SUBSET Apps, autoFix : BOOLEAN, strict : BOOLEAN,
   macros : Seq(Macros), words : Seq(WordRows), language : Languages]

(* Settings::exclusion_list.                                                *)
ListOf(s) == FromSaved(s.exclusions, s.removed, ShippedTable(Defaults))

(* The builder files the rows in a map: the last row about a word wins.     *)
WordMap(rows) ==
  [k \in {rows[i].keys : i \in DOMAIN rows} |->
     LET about == {i \in DOMAIN rows : rows[i].keys = k}
     IN  rows[CHOOSE i \in about : \A j \in about : j <= i].prefer]

(* word_override_list, sorted by keys.                                      *)
WordList(map) ==
  Seqs!FoldLeft(LAMBDA rows, k : IF k \in DOMAIN map
                                 THEN Append(rows, [keys |-> k, prefer |-> map[k]])
                                 ELSE rows,
                <<>>, WordOrder)

(* session_from: what is not in the file starts anew.                       *)
SessionFrom(s) ==
  [list |-> ListOf(s), autoFix |-> s.autoFix, strict |-> s.strict, macros |-> s.macros,
   words |-> WordMap(s.words), mode |-> "vietnamese", app |-> NoApp]

(* settings_from: the session over the fields it never held.                *)
SettingsFrom(session, language) ==
  [exclusions |-> session.list.ids, removed |-> session.list.removed,
   autoFix |-> session.autoFix, strict |-> session.strict, macros |-> session.macros,
   words |-> WordList(session.words), language |-> language]

(* What the program would make of a file.                                   *)
Meaning(s) == SettingsFrom(SessionFrom(s), s.language)

(* Slip: what the window returns is written straight back.                  *)
EditedAsItIs(baseline, edited, live) == edited

(* merge_settings: the window's value where the user changed it.            *)
Merged(baseline, edited, live) ==
  [f \in Fields |-> IF edited[f] = baseline[f] THEN live[f] ELSE edited[f]]

-----------------------------------------------------------------------------
(* The rows of the two editable lists.                                      *)

SameShortcut(s, t) == AsciiFold[s] = AsciiFold[t]

(* upsert_macro: `at` is the row being edited, 0 for none.                  *)
UpsertMacro(rows, m, at) ==
  LET same == {i \in DOMAIN rows : SameShortcut(rows[i].shortcut, m.shortcut)}
      first == CHOOSE i \in same : \A j \in same : i <= j
  IN  IF at \in DOMAIN rows
      THEN LET put == [rows EXCEPT ![at] = m]
           IN  IF same # {} /\ first # at THEN Seqs!RemoveAt(put, first) ELSE put
      ELSE IF same # {} THEN [rows EXCEPT ![first] = m]
      ELSE Append(rows, m)

(* An imported table, row by row.                                           *)
UpsertTable(rows, table) ==
  Seqs!FoldLeft(LAMBDA list, m : UpsertMacro(list, m, 0), rows, table)

(* upsert_word_override: an edited row simply takes what was typed.         *)
UpsertWord(rows, w, at) ==
  LET same == {i \in DOMAIN rows : rows[i].keys = w.keys}
      first == CHOOSE i \in same : \A j \in same : i <= j
  IN  IF at \in DOMAIN rows THEN [rows EXCEPT ![at] = w]
      ELSE IF same # {} THEN [rows EXCEPT ![first] = w]
      ELSE Append(rows, w)

-----------------------------------------------------------------------------
(* The window.  `touched` is a history variable: the parts of the settings  *)
(* the user has clicked in.                                                 *)

ListWindows == {"apps", "macros", "words"}
Undecided == [is |-> "undecided"]
NoWindow == [open |-> FALSE]

(* SettingsApp::new.                                                        *)
NewWindow(snapshot) ==
  [open |-> TRUE, initial |-> snapshot, draft |-> snapshot, list |-> ListOf(snapshot),
   macroAt |-> 0, wordAt |-> 0, lists |-> {}, result |-> Undecided, touched |-> {}]

(* normalize_exclusions: the effective list, in its own order.              *)
Normalized(s) == [s EXCEPT !.exclusions = ListOf(s).ids, !.removed = ListOf(s).removed]

Baseline(w) == Normalized(w.initial)

(* finalize, on the first close request.                                    *)
Finalized(w) ==
  LET final == [w.draft EXCEPT !.exclusions = w.list.ids, !.removed = w.list.removed]
  IN  IF w.result # Undecided THEN w
      ELSE [w EXCEPT !.result =
              IF final = Baseline(w) THEN [is |-> "unchanged"]
              ELSE [is |-> "edited", settings |-> final, touched |-> w.touched]]

Touch(w, parts) == [w EXCEPT !.touched = @ \cup parts]

SwitchAutoFix(w) == Touch([w EXCEPT !.draft.autoFix = ~@], {"autoFix"})
(* A row whose parent is off is drawn greyed and takes no click.            *)
SwitchStrict(w) ==
  IF w.draft.autoFix THEN Touch([w EXCEPT !.draft.strict = ~@], {"strict"}) ELSE w
ChooseLanguage(w, l) == Touch([w EXCEPT !.draft.language = l], {"language"})

ManageList(w, l) == [w EXCEPT !.lists = @ \cup {l}]
CloseList(w, l) == [w EXCEPT !.lists = @ \ {l}]

AddExclusion(w, a) == Touch([w EXCEPT !.list = Add(@, a)], {"exclusions", "removed"})
RemoveExclusion(w, a) == Touch([w EXCEPT !.list = Remove(@, a)], {"exclusions", "removed"})

SaveMacro(w, m) ==
  Touch([w EXCEPT !.draft.macros = UpsertMacro(@, m, w.macroAt), !.macroAt = 0], {"macros"})
EditMacro(w, i) == [w EXCEPT !.macroAt = i]
CancelMacro(w) == [w EXCEPT !.macroAt = 0]
RemoveMacro(w, i) ==
  Touch([w EXCEPT !.draft.macros = Seqs!RemoveAt(@, i),
                  !.macroAt = IF @ = i THEN 0 ELSE @], {"macros"})
ImportMacros(w, table) ==
  Touch([w EXCEPT !.draft.macros = UpsertTable(@, table)], {"macros"})

SaveWord(w, row) ==
  Touch([w EXCEPT !.draft.words = UpsertWord(@, row, w.wordAt), !.wordAt = 0], {"words"})
EditWord(w, i) == [w EXCEPT !.wordAt = i]
CancelWord(w) == [w EXCEPT !.wordAt = 0]
RemoveWord(w, i) ==
  Touch([w EXCEPT !.draft.words = Seqs!RemoveAt(@, i),
                  !.wordAt = IF @ = i THEN 0 ELSE @], {"words"})
=============================================================================
