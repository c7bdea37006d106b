-------------------------- MODULE ExclusionsProofs --------------------------
(* Theorems about the ignore list, for every set of applications, every     *)
(* hosting relation and every sequence of releases.                         *)
EXTENDS Exclusions, TLAPS

(* A terminal neither hosts nor is hosted, so the rule about hosting        *)
(* applications never decides for it.                                       *)
LEMMA TerminalsStandAlone ==
  ASSUME NEW x \in Lists, NEW t \in Terminals
  PROVE  IsExcluded(x, t) <=> t \in x.ids /\ t \notin x.suspended
  BY AppsAssumption DEF IsExcluded

LEMMA ListsAreClosed ==
  ASSUME NEW x \in Lists, NEW a \in Apps
  PROVE  /\ Add(x, a) \in Lists
         /\ Remove(x, a) \in Lists
         /\ Toggled(x, a) \in Lists
  BY DEF Lists, Add, Remove, Toggled, SuspendForSession, Resume

LEMMA ReloadedIsAList ==
  ASSUME NEW ids \in SUBSET Apps, NEW removed \in SUBSET Apps,
         NEW table \in SUBSET Apps
  PROVE  FromSaved(ids, removed, table) \in Lists
  BY DEF FromSaved, Lists

(* No operation touches the shipped table, and each keeps the two facts     *)
(* TypeOK states about the sets.                                            *)
Coherent(x) ==
  /\ Terminals \subseteq x.defaults
  /\ x.suspended \subseteq x.ids \cap Terminals
  /\ x.defaults \ x.removed \subseteq x.ids

LEMMA OperationsKeepCoherence ==
  ASSUME NEW x \in Lists, NEW a \in Apps, Coherent(x)
  PROVE  Coherent(Add(x, a)) /\ Coherent(Remove(x, a)) /\ Coherent(Toggled(x, a))
<1>1. Coherent(Add(x, a))
  BY DEF Coherent, Lists, Add
<1>2. Coherent(Remove(x, a))
  BY DEF Coherent, Lists, Remove
<1>3. Coherent(SuspendForSession(x, a)) \/ a \notin Terminals
  BY DEF Coherent, Lists, SuspendForSession
<1>4. Coherent(Resume(x, a))
  BY DEF Coherent, Lists, Resume
<1>5. QED
  BY <1>1, <1>2, <1>3, <1>4 DEF Toggled

LEMMA ReloadingIsCoherent ==
  ASSUME NEW ids \in SUBSET Apps, NEW removed \in SUBSET Apps,
         NEW table \in SUBSET Apps, Terminals \subseteq table
  PROVE  Coherent(FromSaved(ids, removed, table))
  BY DEF Coherent, FromSaved

LEMMA ShippedTablesAreTables ==
  ASSUME NEW r \in Releases
  PROVE  ShippedTable(r) \in SUBSET Apps /\ Terminals \subseteq ShippedTable(r)
  BY AppsAssumption, ReleasesAssumption DEF ShippedTable

(* The sets always have their types, only listed terminals are suspended,   *)
(* and every default is listed or tombstoned (exclusion.rs).                *)
THEOREM TypeCorrect == Spec => []TypeOK
<1>1. Init => TypeOK
  <2> SUFFICES ASSUME NEW r \in Releases,
                      list = Reloaded([ids |-> ShippedTable(r), removed |-> {}],
                                      ShippedTable(r)),
                      disk = [ids |-> ShippedTable(r), removed |-> {}],
                      dirty = FALSE
               PROVE  TypeOK
    BY DEF Init
  <2>1. list \in Lists /\ Coherent(list)
    BY ShippedTablesAreTables, ReloadedIsAList, ReloadingIsCoherent DEF Reloaded
  <2> QED
    BY <2>1, ShippedTablesAreTables DEF TypeOK, Coherent
<1>2. TypeOK /\ [Next]_vars => TypeOK'
  <2> SUFFICES ASSUME TypeOK, [Next]_vars
               PROVE  TypeOK'
    OBVIOUS
  <2>0. list \in Lists /\ Coherent(list)
    BY DEF TypeOK, Coherent
  <2>a. ASSUME list' \in Lists, Coherent(list'),
               disk' \in {disk, Saved(list')}, dirty' \in BOOLEAN
        PROVE  TypeOK'
    BY <2>a DEF TypeOK, Coherent, Saved, Lists
  <2>1. ASSUME NEW a \in Apps, ToggleByHotkey(a)
        PROVE  TypeOK'
    BY <2>0, <2>1, <2>a, ListsAreClosed, OperationsKeepCoherence
       DEF ToggleByHotkey, TypeOK
  <2>2. ASSUME NEW a \in Apps, ToggleFromMenu(a)
        PROVE  TypeOK'
    BY <2>0, <2>2, <2>a, ListsAreClosed, OperationsKeepCoherence
       DEF ToggleFromMenu
  <2>3. ASSUME NEW a \in Apps, AddInEditor(a)
        PROVE  TypeOK'
    BY <2>0, <2>3, <2>a, ListsAreClosed, OperationsKeepCoherence
       DEF AddInEditor
  <2>4. ASSUME NEW a \in Apps, RemoveInEditor(a)
        PROVE  TypeOK'
    BY <2>0, <2>4, <2>a, ListsAreClosed, OperationsKeepCoherence
       DEF RemoveInEditor
  <2>5. CASE Save
    BY <2>0, <2>5, <2>a DEF Save
  <2>6. CASE Restart
    <3> PICK r \in Releases : list' = Reloaded(disk, ShippedTable(r))
      BY <2>6 DEF Restart
    <3>1. list' \in Lists /\ Coherent(list')
      BY ShippedTablesAreTables, ReloadedIsAList, ReloadingIsCoherent
         DEF Reloaded, TypeOK
    <3> QED
      BY <2>6, <2>a, <3>1 DEF Restart
  <2>7. CASE UNCHANGED vars
    BY <2>7 DEF vars, TypeOK
  <2> QED
    BY <2>1, <2>2, <2>3, <2>4, <2>5, <2>6, <2>7 DEF Next
<1> QED
  BY <1>1, <1>2, PTL DEF Spec

-----------------------------------------------------------------------------
(* What makes NextLaunchAgrees inductive: with no save outstanding, the     *)
(* file holds the live tombstones and, once the defaults are merged in, the *)
(* live identities.                                                         *)
FileIsCurrent ==
  ~dirty => /\ disk.removed = list.removed
            /\ list.ids = disk.ids \cup (list.defaults \ disk.removed)

LEMMA FileStaysCurrent == Spec => []FileIsCurrent
<1>1. Init => FileIsCurrent
  BY DEF Init, FileIsCurrent, Reloaded, FromSaved
<1>2. TypeOK /\ TypeOK' /\ FileIsCurrent /\ [Next]_vars => FileIsCurrent'
  <2> SUFFICES ASSUME TypeOK, TypeOK', FileIsCurrent, [Next]_vars
               PROVE  FileIsCurrent'
    OBVIOUS
  <2>a. ASSUME disk' = Saved(list')
        PROVE  FileIsCurrent'
    BY <2>a DEF FileIsCurrent, Saved, TypeOK, Lists
  <2>1. ASSUME NEW a \in Apps, ToggleByHotkey(a)
        PROVE  FileIsCurrent'
    <3>1. CASE ToggleOutcome(list, a) # "EnabledSessionOnly"
      BY <2>1, <3>1 DEF ToggleByHotkey, FileIsCurrent
    <3>2. CASE ToggleOutcome(list, a) = "EnabledSessionOnly"
      <4>1. list' = SuspendForSession(list, a)
        BY <2>1, <3>2 DEF ToggleByHotkey, ToggleOutcome, Toggled
      <4>2. /\ list'.ids = list.ids
            /\ list'.removed = list.removed
            /\ list'.defaults = list.defaults
        BY <4>1 DEF SuspendForSession, TypeOK, Lists
      <4> QED
        BY <2>1, <4>2 DEF ToggleByHotkey, FileIsCurrent, TypeOK
    <3> QED
      BY <3>1, <3>2
  <2>5. CASE Save
    BY <2>5, <2>a DEF Save, Saved
  <2>6. CASE Restart
    BY <2>6 DEF Restart, FileIsCurrent, Reloaded, FromSaved
  <2>7. CASE UNCHANGED vars
    BY <2>7 DEF vars, FileIsCurrent
  <2> QED
    BY <2>1, <2>a, <2>5, <2>6, <2>7
       DEF Next, ToggleFromMenu, AddInEditor, RemoveInEditor
<1> QED
  BY <1>1, <1>2, TypeCorrect, PTL DEF Spec

(* Quitting and starting the same build again, with nothing left to save,   *)
(* changes no application's exclusion except the suspensions (from_saved).  *)
THEOREM RestartAgreement == Spec => []NextLaunchAgrees
<1>1. TypeOK /\ FileIsCurrent => NextLaunchAgrees
  <2> SUFFICES ASSUME TypeOK, FileIsCurrent, ~dirty,
                      NEW a \in Apps \ list.suspended
               PROVE  IsExcluded(list, a)
                        <=> IsExcluded(Reloaded(disk, list.defaults), a)
    BY DEF NextLaunchAgrees
  <2> DEFINE next == Reloaded(disk, list.defaults)
  <2>1. next.ids = list.ids /\ next.removed = list.removed /\ next.suspended = {}
    BY DEF Reloaded, FromSaved, FileIsCurrent
  <2>2. Parent[a] # NoApp => Parent[a] \notin list.suspended
    BY AppsAssumption DEF TypeOK
  <2> QED
    BY <2>1, <2>2 DEF IsExcluded, ExcludedByItself
<1> QED
  BY <1>1, TypeCorrect, FileStaysCurrent, PTL

-----------------------------------------------------------------------------
(* What makes the terminal rule inductive: a terminal the file protects is  *)
(* also listed by the running program, so no later save can lose it.        *)
FileTerminalsAreListed ==
  \A t \in Terminals :
    t \in disk.ids \cup (list.defaults \ disk.removed) => t \in list.ids

LEMMA ProtectedMeansListedOnDisk ==
  ASSUME TypeOK, NEW t \in Terminals
  PROVE  FileProtects(t) <=> t \in disk.ids \cup (list.defaults \ disk.removed)
<1>1. Reloaded(disk, list.defaults) \in Lists
  BY ReloadedIsAList DEF TypeOK, Lists, Reloaded
<1> QED
  BY <1>1, TerminalsStandAlone DEF FileProtects, Reloaded, FromSaved

(* Toggling never takes a terminal off the list, whichever application it   *)
(* is done for.                                                             *)
LEMMA TogglingKeepsTerminals ==
  ASSUME NEW x \in Lists, NEW a \in Apps, NEW t \in Terminals, t \in x.ids
  PROVE  /\ t \in Toggled(x, a).ids /\ t \in Add(x, a).ids
         /\ a # t => t \in Remove(x, a).ids
<1>1. t \in Add(x, a).ids /\ (a # t => t \in Remove(x, a).ids)
  BY DEF Lists, Add, Remove
<1> QED
  BY <1>1 DEF Lists, Toggled, SuspendForSession, Resume

LEMMA TablesDoNotChange ==
  ASSUME NEW x \in Lists, NEW a \in Apps
  PROVE  /\ Toggled(x, a).defaults = x.defaults
         /\ Add(x, a).defaults = x.defaults
         /\ Remove(x, a).defaults = x.defaults
  BY DEF Lists, Add, Remove, Toggled, SuspendForSession, Resume

LEMMA FileTerminalsStayListed == Spec => []FileTerminalsAreListed
<1>1. Init => FileTerminalsAreListed
  BY DEF Init, FileTerminalsAreListed, Reloaded, FromSaved
<1>2. TypeOK /\ TypeOK' /\ FileTerminalsAreListed /\ [Next]_vars
        => FileTerminalsAreListed'
  <2> SUFFICES ASSUME TypeOK, TypeOK', FileTerminalsAreListed, [Next]_vars
               PROVE  FileTerminalsAreListed'
    OBVIOUS
  <2>0. list \in Lists
    BY DEF TypeOK
  <2>a. ASSUME disk' = Saved(list')
        PROVE  FileTerminalsAreListed'
    BY <2>a DEF FileTerminalsAreListed, Saved, TypeOK
  <2>1. ASSUME NEW a \in Apps, ToggleByHotkey(a)
        PROVE  FileTerminalsAreListed'
    BY <2>0, <2>1, TogglingKeepsTerminals, TablesDoNotChange
       DEF ToggleByHotkey, FileTerminalsAreListed
  <2>5. CASE Save
    BY <2>5, <2>a DEF Save, Saved
  <2>6. CASE Restart
    BY <2>6 DEF Restart, FileTerminalsAreListed, Reloaded, FromSaved
  <2>7. CASE UNCHANGED vars
    BY <2>7 DEF vars, FileTerminalsAreListed
  <2> QED
    BY <2>1, <2>a, <2>5, <2>6, <2>7
       DEF Next, ToggleFromMenu, AddInEditor, RemoveInEditor
<1> QED
  BY <1>1, <1>2, TypeCorrect, PTL DEF Spec

(* A settings file that protects a terminal stops doing so only when the    *)
(* user removes that terminal in the editor (Session::toggle_app_exclusion).*)
THEOREM TerminalsStayProtected == Spec => OnlyTheEditorDisarmsATerminal
<1>1. TypeOK /\ TypeOK' /\ FileTerminalsAreListed /\ [Next]_vars
        => [\A t \in Terminals :
              FileProtects(t) /\ ~FileProtects(t)' => RemoveInEditor(t)]_vars
  <2> SUFFICES ASSUME TypeOK, TypeOK', FileTerminalsAreListed, [Next]_vars,
                      NEW t \in Terminals, FileProtects(t),
                      ~RemoveInEditor(t)
               PROVE  FileProtects(t)'
    OBVIOUS
  <2>0. list \in Lists /\ t \in Apps
    BY AppsAssumption DEF TypeOK
  <2>1. t \in disk.ids \cup (list.defaults \ disk.removed)
    BY ProtectedMeansListedOnDisk
  <2>2. t \in list.ids
    BY <2>1 DEF FileTerminalsAreListed
  <2>3. FileProtects(t)' <=> t \in disk'.ids \cup (list'.defaults \ disk'.removed)
    <3>1. Reloaded(disk', list'.defaults) \in Lists
      BY ReloadedIsAList DEF TypeOK, Lists, Reloaded
    <3> QED
      BY <3>1, TerminalsStandAlone DEF FileProtects, Reloaded, FromSaved
  <2>4. ASSUME disk' = Saved(list'), t \in list'.ids
        PROVE  FileProtects(t)'
    BY <2>3, <2>4 DEF Saved
  <2>5. ASSUME disk' = disk, list.defaults \subseteq list'.defaults
        PROVE  FileProtects(t)'
    BY <2>1, <2>3, <2>5
  <2>6. ASSUME NEW a \in Apps, ToggleByHotkey(a)
        PROVE  FileProtects(t)'
    BY <2>0, <2>5, <2>6, TablesDoNotChange DEF ToggleByHotkey
  <2>7. ASSUME NEW a \in Apps, ToggleFromMenu(a) \/ AddInEditor(a)
        PROVE  FileProtects(t)'
    BY <2>0, <2>2, <2>4, <2>7, TogglingKeepsTerminals
       DEF ToggleFromMenu, AddInEditor
  <2>8. ASSUME NEW a \in Apps, RemoveInEditor(a)
        PROVE  FileProtects(t)'
    BY <2>0, <2>2, <2>4, <2>8, TogglingKeepsTerminals DEF RemoveInEditor
  <2>9. CASE Save
    BY <2>2, <2>4, <2>9 DEF Save
  <2>10. CASE Restart
    BY <2>5, <2>10 DEF Restart, Reloaded, FromSaved
  <2>11. CASE UNCHANGED vars
    BY <2>5, <2>11 DEF vars
  <2> QED
    BY <2>6, <2>7, <2>8, <2>9, <2>10, <2>11 DEF Next
<1> QED
  BY <1>1, TypeCorrect, FileTerminalsStayListed, PTL
     DEF Spec, OnlyTheEditorDisarmsATerminal

-----------------------------------------------------------------------------
(* A restart into this build or a later one, with everything saved, neither *)
(* lets an excluded application go nor brings a removed default back        *)
(* (ExclusionList::from_saved, whatever the new build ships).               *)
THEOREM DecisionsSurviveRestart == Spec => RestartKeepsDecisions
<1>1. TypeOK /\ FileIsCurrent /\ [Next]_vars
        => [Restart /\ ~dirty =>
              \A a \in Apps :
                /\ IsExcluded(list, a) => IsExcluded(list', a)
                /\ a \in list.removed \ list.ids => ~IsExcluded(list', a)]_vars
  <2> SUFFICES ASSUME TypeOK, FileIsCurrent, Restart, ~dirty, NEW a \in Apps
               PROVE  /\ IsExcluded(list, a) => IsExcluded(list', a)
                      /\ a \in list.removed \ list.ids => ~IsExcluded(list', a)
    OBVIOUS
  <2>1. PICK r \in Releases :
          /\ list.defaults \subseteq ShippedTable(r)
          /\ list' = Reloaded(disk, ShippedTable(r))
    BY DEF Restart
  <2>2. /\ list'.ids = disk.ids \cup (ShippedTable(r) \ list.removed)
        /\ list'.removed = list.removed
        /\ list'.suspended = {}
        /\ list.ids = disk.ids \cup (list.defaults \ list.removed)
    BY <2>1 DEF Reloaded, FromSaved, FileIsCurrent
  <2>3. list.ids \subseteq list'.ids
    BY <2>1, <2>2
  <2>4. IsExcluded(list, a) => IsExcluded(list', a)
    BY <2>2, <2>3 DEF IsExcluded, ExcludedByItself
  <2>5. a \in list.removed \ list.ids => ~IsExcluded(list', a)
    BY <2>2 DEF IsExcluded
  <2> QED
    BY <2>4, <2>5
<1> QED
  BY <1>1, TypeCorrect, FileStaysCurrent, PTL DEF Spec, RestartKeepsDecisions
=============================================================================
