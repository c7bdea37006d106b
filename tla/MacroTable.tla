----------------------------- MODULE MacroTable -----------------------------
(***************************************************************************)
(* The list of macros as the session keeps it (glowkey-session, session.rs *)
(* and macros.rs): a sequence of entries, looked up by shortcut.  The two  *)
(* ways to compare shortcuts differ outside ASCII: the list folds ASCII    *)
(* only, an import folds every letter.                                     *)
(***************************************************************************)
EXTENDS Naturals, SequencesExt

CONSTANTS
  Shortcuts,    (* spellings a field or a file may hold                       *)
  Refused,      (* those is_storable refuses                                  *)
  Expansions,
  AsciiFold,    (* to_ascii_lowercase and to_lowercase, as functions          *)
  LowerFold

ASSUME MacroTableAssumption ==
  /\ Refused \subseteq Shortcuts
  /\ DOMAIN AsciiFold = Shortcuts /\ DOMAIN LowerFold = Shortcuts
  /\ \A s, t \in Shortcuts : AsciiFold[s] = AsciiFold[t] => LowerFold[s] = LowerFold[t]

Entries == [shortcut : Shortcuts, expansion : Expansions]

SameShortcut(s, t) == AsciiFold[s] = AsciiFold[t]

HasMacro(macros, s) == \E m \in Range(macros) : SameShortcut(m.shortcut, s)

(* is_storable.                                                             *)
Storable(m) == m.shortcut \notin Refused

(* The rows at the positions in `kept`, in their order.                     *)
RowsAt(list, kept) ==
  FoldLeftDomain(LAMBDA rows, i : IF i \in kept THEN Append(rows, list[i]) ELSE rows,
                 <<>>, list)

(* Session::add_macro: the old row goes, the new one is the last.           *)
Added(macros, m) ==
  IF Storable(m)
  THEN Append(RowsAt(macros, {i \in DOMAIN macros :
                                ~SameShortcut(macros[i].shortcut, m.shortcut)}), m)
  ELSE macros

(* Slip: the row of the new shortcut stays where another row had it.        *)
OnlyRewritten(macros, old, m) ==
  IF Storable(m) /\ HasMacro(macros, old)
  THEN ReplaceAt(macros, SelectInSeq(macros, LAMBDA row : SameShortcut(row.shortcut, old)), m)
  ELSE macros

(* Session::replace_macro: the row of old is rewritten in its place, and    *)
(* another row with the new shortcut is dropped.                            *)
Replaced(macros, old, m) ==
  IF Storable(m) /\ HasMacro(macros, old)
  THEN LET index == SelectInSeq(macros, LAMBDA row : SameShortcut(row.shortcut, old))
           twins == {i \in DOMAIN macros \ {index} :
                       SameShortcut(macros[i].shortcut, m.shortcut)}
           rewritten == ReplaceAt(macros, index, m)
       IN IF twins = {} THEN rewritten
          ELSE RemoveAt(rewritten, CHOOSE i \in twins : \A j \in twins : i <= j)
  ELSE macros

(* The shortcuts of the list, as an import compares them.                   *)
Existing(macros) == {LowerFold[m.shortcut] : m \in Range(macros)}

(* Session::macro_conflicts, as the set it counts.                          *)
Conflicts(macros, table) ==
  {LowerFold[m.shortcut] : m \in Range(table)} \cap Existing(macros)

FirstOfItsShortcut(table, i) ==
  \A j \in 1 .. i - 1 : LowerFold[table[j].shortcut] # LowerFold[table[i].shortcut]

(* Slip: what the list already held is found by its exact spelling.         *)
RowsToTakeBySpelling(macros, table, replace) ==
  LET old == {m.shortcut : m \in Range(macros)}
  IN SelectSeq(table, LAMBDA m : replace \/ m.shortcut \notin old)

(* The rows of a file that import_macros adds: the first of each shortcut,  *)
(* and of those the list already has only when they are to be replaced.     *)
RowsToTake(macros, table, replace) ==
  RowsAt(table, {i \in DOMAIN table :
                   /\ FirstOfItsShortcut(table, i)
                   /\ replace \/ LowerFold[table[i].shortcut] \notin Existing(macros)})

(* Session::import_macros.                                                  *)
Imported(macros, table, replace) ==
  FoldLeft(Added, macros, RowsToTake(macros, table, replace))
=============================================================================
