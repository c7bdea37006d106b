----------------------------- MODULE Exclusions -----------------------------
(***************************************************************************)
(* The life of the ignore list across saves, crashes, restarts and         *)
(* upgrades.  The running program keeps the whole list; the settings file  *)
(* keeps only `ids` and `removed`, and is written some time after a change *)
(* asked for it (the macOS shell defers the write past the tap callback,   *)
(* the Windows shell flags it for the message loop).                       *)
(***************************************************************************)
EXTENDS ExclusionList

CONSTANT
  Releases    (* the default tables of the builds the user may run          *)

ASSUME ReleasesAssumption == Releases # {} /\ Releases \subseteq SUBSET Apps

VARIABLES
  list,       (* the list the running program uses                          *)
  disk,       (* what the settings file says of it                          *)
  dirty       (* a save has been asked for and not yet made                 *)

vars == <<list, disk, dirty>>

Saved(x) == [ids |-> x.ids, removed |-> x.removed]

(* The list the next launch of a build shipping `table` would start from.   *)
Reloaded(saved, table) == FromSaved(saved.ids, saved.removed, table)

(* First run: no settings file, so the defaults are the saved list.         *)
Init ==
  \E r \in Releases :
    LET shipped == ShippedTable(r)
    IN  /\ list = Reloaded([ids |-> shipped, removed |-> {}], shipped)
        /\ disk = [ids |-> shipped, removed |-> {}]
        /\ dirty = FALSE

(* The per-app hotkey.  A session-only suspension asks for no save.         *)
ToggleByHotkey(a) ==
  /\ list' = Toggled(list, a)
  /\ dirty' = (dirty \/ ToggleOutcome(list, a) # "EnabledSessionOnly")
  /\ UNCHANGED disk

(* The macOS menu item makes the same change and saves on the spot.         *)
ToggleFromMenu(a) ==
  /\ list' = Toggled(list, a)
  /\ disk' = Saved(list')
  /\ dirty' = FALSE

(* The Excluded Apps editor saves as it changes the list; a row can only be *)
(* removed while it is listed.                                              *)
AddInEditor(a) ==
  /\ list' = Add(list, a)
  /\ disk' = Saved(list')
  /\ dirty' = FALSE

RemoveInEditor(a) ==
  /\ a \in list.ids
  /\ list' = Remove(list, a)
  /\ disk' = Saved(list')
  /\ dirty' = FALSE

(* The deferred save: the whole file, from the live list.                   *)
Save ==
  /\ dirty
  /\ disk' = Saved(list)
  /\ dirty' = FALSE
  /\ UNCHANGED list

(* The process ends, possibly before a pending save, and is started again:  *)
(* the same build, or one that ships more defaults.                         *)
Restart ==
  /\ \E r \in Releases :
       /\ list.defaults \subseteq ShippedTable(r)
       /\ list' = Reloaded(disk, ShippedTable(r))
  /\ dirty' = FALSE
  /\ UNCHANGED disk

Next ==
  \/ \E a \in Apps : ToggleByHotkey(a)
  \/ \E a \in Apps : ToggleFromMenu(a)
  \/ \E a \in Apps : AddInEditor(a)
  \/ \E a \in Apps : RemoveInEditor(a)
  \/ Save
  \/ Restart

Spec == Init /\ [][Next]_vars

-----------------------------------------------------------------------------
(* The types, with what the constructors and the operations keep true of    *)
(* the four sets: only terminals that are still listed are ever suspended,  *)
(* and every default is either listed or tombstoned.                        *)
TypeOK ==
  /\ list \in Lists
  /\ disk \in [ids : SUBSET Apps, removed : SUBSET Apps]
  /\ dirty \in BOOLEAN
  /\ Terminals \subseteq list.defaults
  /\ list.suspended \subseteq list.ids \cap Terminals
  /\ list.defaults \ list.removed \subseteq list.ids

(* With no save outstanding, quitting and starting the same build again     *)
(* changes nothing but the suspensions: an application is excluded now      *)
(* exactly when it will be excluded then.  (exclusion.rs: from_saved merges *)
(* the defaults back in, so this rests on remove leaving tombstones and on  *)
(* every toggle that changes the file asking for a save.)                   *)
NextLaunchAgrees ==
  ~dirty =>
    \A a \in Apps \ list.suspended :
      IsExcluded(list, a) <=> IsExcluded(Reloaded(disk, list.defaults), a)

(* What the settings file says of a terminal it protects is given up only   *)
(* in the editor: no hotkey, menu item, save, crash or upgrade can leave a  *)
(* file from which that terminal would start unprotected.  (session.rs:     *)
(* "an accidental hotkey press must not permanently remove the protection") *)
FileProtects(t) == IsExcluded(Reloaded(disk, list.defaults), t)

OnlyTheEditorDisarmsATerminal ==
  [][\A t \in Terminals :
       FileProtects(t) /\ ~FileProtects(t)' => RemoveInEditor(t)]_vars

(* A restart with everything saved, into this build or one with more        *)
(* defaults, keeps every decision: what was excluded stays excluded, and a  *)
(* default the user removed does not come back.                             *)
RestartKeepsDecisions ==
  [][Restart /\ ~dirty =>
       \A a \in Apps :
         /\ IsExcluded(list, a) => IsExcluded(list', a)
         /\ a \in list.removed \ list.ids => ~IsExcluded(list', a)]_vars
=============================================================================
