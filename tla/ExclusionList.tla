--------------------------- MODULE ExclusionList ---------------------------
(***************************************************************************)
(* The per-application ignore list, as a value: the four sets kept by      *)
(* ExclusionList (glowkey-session/src/exclusion.rs) and the operations on  *)
(* them.  An application is excluded when Vietnamese input is off in it.   *)
(*                                                                         *)
(*   ids        the saved identities (app_ids)                             *)
(*   removed    tombstones: exclusions the user deliberately removed       *)
(*   suspended  terminals let go until restart; never written to disk      *)
(*   defaults   the table shipped with the running build                   *)
(***************************************************************************)

CONSTANTS
  Apps,       (* application identities                                     *)
  NoApp,      (* "no application": the answer of parent_of for most of them *)
  Parent,     (* the application a `parent#rest` identity runs inside       *)
  Terminals   (* identities the shipped tables call terminals               *)

(* An identity is split at its first '#', so a parent never has a parent.   *)
(* Only an installed web app has one, and what hosts it is a browser: no    *)
(* terminal hosts applications or is hosted.                                *)
ASSUME AppsAssumption ==
  /\ NoApp \notin Apps
  /\ Parent \in [Apps -> Apps \cup {NoApp}]
  /\ \A a \in Apps : Parent[a] # NoApp =>
       Parent[Parent[a]] = NoApp /\ {a, Parent[a]} \cap Terminals = {}
  /\ Terminals \subseteq Apps

Lists == [ids : SUBSET Apps, removed : SUBSET Apps,
          suspended : SUBSET Apps, defaults : SUBSET Apps]

(* Every terminal is also a shipped default, whatever the table says.       *)
ShippedTable(table) == table \cup Terminals

(* Slip: the shipped defaults are merged in whatever the user removed.      *)
FromSavedAnew(ids, removed, table) ==
  [ids |-> ids \cup table, removed |-> removed,
   suspended |-> {}, defaults |-> table]

FromSaved(ids, removed, table) ==
  [ids |-> ids \cup (table \ removed), removed |-> removed,
   suspended |-> {}, defaults |-> table]

ExcludedByItself(x, a) == a \notin x.suspended /\ a \in x.ids

(* A decision of its own first; without one, follow the hosting application *)
(* unless this one was deliberately enabled.                                *)
IsExcluded(x, a) ==
  /\ a \notin x.suspended
  /\ \/ a \in x.ids
     \/ /\ a \notin x.removed
        /\ Parent[a] # NoApp
        /\ ExcludedByItself(x, Parent[a])

(* The tombstone is deliberately kept: an explicit entry wins over it.      *)
Add(x, a) == [x EXCEPT !.suspended = @ \ {a}, !.ids = @ \cup {a}]

(* Slip: no tombstone, and: a removed application stays suspended.          *)
RemoveWithoutTombstone(x, a) ==
  [x EXCEPT !.suspended = @ \ {a}, !.ids = @ \ {a}]

RemoveStillSuspended(x, a) ==
  IF a \in x.defaults
  THEN [x EXCEPT !.ids = @ \ {a}, !.removed = @ \cup {a}]
  ELSE [x EXCEPT !.ids = @ \ {a}]

(* Tombstoned when something other than the saved list was excluding it: a  *)
(* shipped default, or the hosting application it would follow.             *)
Remove(x, a) ==
  LET without == [x EXCEPT !.suspended = @ \ {a}, !.ids = @ \ {a}]
  IN  IF a \in x.defaults \/ IsExcluded(without, a)
      THEN [without EXCEPT !.removed = @ \cup {a}]
      ELSE without

SuspendForSession(x, a) ==
  IF a \in x.ids THEN [x EXCEPT !.suspended = @ \cup {a}] ELSE x

Resume(x, a) == [x EXCEPT !.suspended = @ \ {a}]

(* Slip: a terminal is let go like any other application.                   *)
ToggledForGood(x, a) ==
  IF IsExcluded(x, a) THEN Remove(x, a) ELSE Add(x, a)

(* What the per-app hotkey and the menu item do to the list ...             *)
Toggled(x, a) ==
  IF IsExcluded(x, a)
  THEN IF a \in Terminals THEN SuspendForSession(x, a) ELSE Remove(x, a)
  ELSE IF a \in x.suspended THEN Resume(x, a) ELSE Add(x, a)

(* ... and what they report having done.                                    *)
ToggleOutcome(x, a) ==
  IF ~IsExcluded(x, a) THEN "Excluded"
  ELSE IF a \in Terminals THEN "EnabledSessionOnly" ELSE "Enabled"
=============================================================================
