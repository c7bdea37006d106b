------------------------- MODULE SettingsStoreProofs -------------------------
(***************************************************************************)
(* SettingsStore keeps its types, and implements DurableSettings: whatever *)
(* fails and whenever, a launch starts from settings stored as a whole.    *)
(***************************************************************************)
EXTENDS SettingsStore, TLAPS

(* What a launch may find on each of a set of directories.                  *)
Survivors(D) == {Reading(d.file) : d \in D}

(* While a save is past its write, the temporary file holds all of what is  *)
(* saved; past its sync, on the device too.  The device may hold what the   *)
(* programs see.                                                            *)
SaveInOrder ==
  /\ step # "idle" => settings \in Versions
  /\ step \in {"sync", "rename"} => seen.tmp = settings
  /\ step = "rename" => \A d \in device : d.tmp = settings
  /\ Reading(seen.file) \in Survivors(device)

Inv == TypeOK /\ SaveInOrder

-----------------------------------------------------------------------------
(* Writing beside the settings file changes no answer of a launch.          *)
LEMMA PutsKeepTheFile ==
  ASSUME NEW d \in Directories, NEW c \in Contents
  PROVE  /\ PutBak(d, c) \in Directories /\ PutTmp(d, c) \in Directories
         /\ PutBak(d, c).file = d.file /\ PutTmp(d, c).file = d.file
         /\ PutTmp(d, c).tmp = c /\ PutBak(d, c).tmp = d.tmp
  BY DEF Directories, PutBak, PutTmp

LEMMA RenamesAreDirectories ==
  ASSUME NEW d \in Directories
  PROVE  /\ TmpRenamed(d) \in Directories
         /\ TmpRenamed(d).file = IF d.tmp = NoFile THEN Torn ELSE d.tmp
         /\ MovedAside(d) \in Directories
         /\ MovedAside(d).file = NoFile /\ MovedAside(d).tmp = d.tmp
  BY DEF Directories, TmpRenamed, MovedAside, Contents

LEMMA WritesKeepSurvivors ==
  ASSUME NEW D, D \subseteq Directories, NEW c \in Contents
  PROVE  /\ Survivors(D \cup BakWritten(D, c)) = Survivors(D)
         /\ Survivors(D \cup TmpWritten(D, c)) = Survivors(D)
         /\ Survivors(TmpSynced(D, c)) = Survivors(D)
<1>0. Torn \in Contents
  BY DEF Contents
<1>1. \A d \in D : \A x \in {c, Torn} :
        PutBak(d, x).file = d.file /\ PutTmp(d, x).file = d.file
  BY <1>0, PutsKeepTheFile
<1>2. \A b \in BakWritten(D, c) \cup TmpWritten(D, c) \cup TmpSynced(D, c) :
        \E d \in D : b.file = d.file
  BY <1>1 DEF BakWritten, TmpWritten, TmpSynced
<1>3. \A d \in D : PutTmp(d, c) \in TmpSynced(D, c)
  BY DEF TmpSynced
<1>4. Survivors(D \cup BakWritten(D, c)) = Survivors(D)
  BY <1>2 DEF Survivors
<1>5. Survivors(D \cup TmpWritten(D, c)) = Survivors(D)
  BY <1>2 DEF Survivors
<1>6. Survivors(TmpSynced(D, c)) = Survivors(D)
  BY <1>1, <1>2, <1>3 DEF Survivors
<1> QED
  BY <1>4, <1>5, <1>6

-----------------------------------------------------------------------------
LEMMA InitInv == Init => Inv
<1> SUFFICES ASSUME Init PROVE Inv
  OBVIOUS
<1>1. Empty \in Directories
  BY DEF Empty, Directories, Contents
<1>2. TypeOK
  BY <1>1 DEF Init, TypeOK, Steps
<1>3. SaveInOrder
  BY DEF Init, SaveInOrder, Survivors
<1> QED
  BY <1>2, <1>3 DEF Inv

LEMMA LaunchInv == Inv /\ Launch => Inv'
<1> SUFFICES ASSUME Inv, Launch PROVE Inv'
  OBVIOUS
<1> USE DEF Inv
<1>0. step = "idle" => step' = "idle"
  BY DEF Launch
<1>1. settings' \in Versions
  BY StoreAssumption DEF Launch, Loaded
<1>2. CASE UNCHANGED <<seen, device>>
  <2>1. step = "idle"
    BY StoreAssumption DEF Launch, SaveInOrder, Running
  <2>2. Reading(seen'.file) \in Survivors(device')
    BY <1>2 DEF SaveInOrder
  <2> QED
    BY <1>1, <1>2, <2>1, <2>2 DEF Launch, TypeOK, SaveInOrder
<1>3. CASE seen' = MovedAside(seen) /\ device' = device \cup {MovedAside(d) : d \in device}
  <2>1. seen' \in Directories /\ device' \in SUBSET Directories
    BY <1>3, RenamesAreDirectories DEF TypeOK
  <2>2. step = "idle"
    BY StoreAssumption DEF Launch, SaveInOrder, Running
  <2>3. \E d \in device : TRUE
    BY DEF SaveInOrder, Survivors
  <2>4. \A d \in device : MovedAside(d).file = NoFile
    BY RenamesAreDirectories DEF TypeOK
  <2>5. seen'.file = NoFile
    BY <1>3, RenamesAreDirectories DEF TypeOK
  <2>6. Reading(seen'.file) \in Survivors(device')
    BY <1>3, <2>3, <2>4, <2>5 DEF Survivors
  <2> QED
    BY <1>1, <2>1, <2>2, <2>6 DEF Launch, TypeOK, SaveInOrder
<1> QED
  BY <1>2, <1>3 DEF Launch, PreserveCorrupt

LEMMA WriteInv ==
  ASSUME Inv, NEW c \in Contents, WriteBak(c) \/ WriteTmp(c)
  PROVE  /\ seen' \in Directories /\ device' \in SUBSET Directories
         /\ seen'.file = seen.file
         /\ Survivors(device)' = Survivors(device)
         /\ WriteBak(c) => seen'.tmp = seen.tmp
         /\ WriteTmp(c) => seen'.tmp = c
<1>0. Torn \in Contents /\ seen \in Directories /\ device \in SUBSET Directories
  BY DEF Contents, Inv, TypeOK
<1>1. BakWritten(device, c) \subseteq Directories /\ TmpWritten(device, c) \subseteq Directories
  <2>1. \A d \in device : \A x \in {c, Torn} :
          PutBak(d, x) \in Directories /\ PutTmp(d, x) \in Directories
    BY <1>0, PutsKeepTheFile
  <2> QED
    BY <2>1 DEF BakWritten, TmpWritten
<1>2. device' \in SUBSET Directories
  BY <1>0, <1>1 DEF WriteBak, WriteTmp
<1>3. Survivors(device') = Survivors(device)
  BY <1>0, WritesKeepSurvivors DEF WriteBak, WriteTmp
<1>4. /\ PutBak(seen, c) \in Directories /\ PutTmp(seen, c) \in Directories
      /\ PutBak(seen, c).file = seen.file /\ PutTmp(seen, c).file = seen.file
      /\ PutTmp(seen, c).tmp = c /\ PutBak(seen, c).tmp = seen.tmp
  BY <1>0, PutsKeepTheFile
<1>5. WriteBak(c) => seen' = PutBak(seen, c)
  BY DEF WriteBak
<1>6. WriteTmp(c) => seen' = PutTmp(seen, c)
  BY DEF WriteTmp
<1>7. WriteBak(c) /\ WriteTmp(c) => seen'.tmp = seen.tmp /\ seen'.tmp = c
  BY <1>4, <1>5, <1>6
<1> QED
  BY <1>2, <1>3, <1>4, <1>5, <1>6, <1>7

LEMMA SyncInv == Inv /\ SyncAll => Inv'
<1> SUFFICES ASSUME Inv, SyncAll PROVE Inv'
  OBVIOUS
<1>1. /\ seen \in Directories /\ device \subseteq Directories
      /\ settings \in Versions /\ seen.tmp = settings /\ seen.tmp \in Contents
      /\ Reading(seen.file) \in Survivors(device)
  BY DEF Inv, TypeOK, SaveInOrder, SyncAll, Directories
<1>2. device' = TmpSynced(device, seen.tmp) /\ seen' = seen
  BY DEF SyncAll, SyncTmp
<1>3. Survivors(device') = Survivors(device)
  BY <1>1, <1>2, WritesKeepSurvivors
<1>4. \A d \in device : PutTmp(d, seen.tmp) \in Directories /\ PutTmp(d, seen.tmp).tmp = seen.tmp
  BY <1>1, PutsKeepTheFile
<1>5. device' \subseteq Directories /\ \A d \in device' : d.tmp = settings
  BY <1>1, <1>2, <1>4 DEF TmpSynced
<1>6. TypeOK'
  BY <1>1, <1>2, <1>5 DEF SyncAll, TypeOK, Steps
<1>7. SaveInOrder'
  BY <1>1, <1>2, <1>3, <1>5 DEF SyncAll, SaveInOrder
<1> QED
  BY <1>6, <1>7 DEF Inv

(* A finished save: what was written is what a launch finds.                *)
LEMMA RenameStores ==
  ASSUME Inv, Rename
  PROVE  /\ Inv'
         /\ settings \in Versions /\ settings' = settings
         /\ Reading(seen'.file) = settings
         /\ Survivors(device') = Survivors(device) \cup {settings}
<1>1. /\ seen \in Directories /\ device \subseteq Directories
      /\ settings \in Versions /\ seen.tmp = settings
      /\ \A d \in device : d.tmp = settings
      /\ \E d \in device : TRUE
  BY DEF Inv, TypeOK, SaveInOrder, Rename, Survivors
<1>2. settings # NoFile
  BY <1>1, StoreAssumption
<1>3. seen' = TmpRenamed(seen) /\ device' = device \cup {TmpRenamed(d) : d \in device}
  BY DEF Rename, RenameTmp
<1>4. \A d \in device : TmpRenamed(d) \in Directories /\ TmpRenamed(d).file = settings
  BY <1>1, <1>2, RenamesAreDirectories
<1>5. seen' \in Directories /\ seen'.file = settings
  BY <1>1, <1>2, <1>3, RenamesAreDirectories
<1>6. device' \subseteq Directories
  BY <1>1, <1>3, <1>4
<1>7. Reading(settings) = settings
  BY <1>1 DEF Reading
<1>8. Survivors(device') = Survivors(device) \cup {settings}
  BY <1>1, <1>3, <1>4, <1>7 DEF Survivors
<1>9. settings' = settings /\ step' = "idle"
  BY DEF Rename
<1>10. TypeOK'
  BY <1>5, <1>6, <1>9 DEF Inv, TypeOK, Steps
<1>11. SaveInOrder'
  BY <1>1, <1>5, <1>7, <1>8, <1>9 DEF SaveInOrder
<1> QED
  BY <1>1, <1>5, <1>7, <1>8, <1>9, <1>10, <1>11 DEF Inv

(* The steps of a save before its sync touch neither the file nor what a    *)
(* launch may find in its place.                                            *)
LEMMA BeforeTheSync ==
  ASSUME Inv, BeginSave \/ CopyToBackup \/ CreateTmp \/ WriteAll
  PROVE  /\ Inv' /\ settings' = settings /\ seen'.file = seen.file
         /\ Survivors(device') = Survivors(device)
<1> DEFINE Goal ==
      /\ seen' \in Directories /\ device' \in SUBSET Directories
      /\ seen'.file = seen.file
      /\ Survivors(device') = Survivors(device)
<1>0. /\ settings \in Versions \cup {Unusable} /\ seen \in Directories
      /\ device \in SUBSET Directories
      /\ step # "idle" => settings \in Versions
      /\ Reading(seen.file) \in Survivors(device)
      /\ Torn \in Contents /\ seen.file \in Contents
  BY DEF Inv, TypeOK, SaveInOrder, Contents, Directories
<1>1. ASSUME UNCHANGED <<seen, device>> PROVE Goal
  BY <1>0, <1>1
<1>2. ASSUME NEW c \in Contents, WriteBak(c) \/ WriteTmp(c) PROVE Goal
  BY <1>2, WriteInv DEF Survivors
<1>3. CASE BeginSave
  <2>1. Goal
    BY <1>0, <1>1, <1>2, <1>3 DEF BeginSave
  <2>2. settings' = settings /\ settings \in Versions /\ step' \in {"create", "copy"}
    BY <1>0, <1>3 DEF BeginSave, Running
  <2> QED
    BY <1>0, <2>1, <2>2 DEF Inv, TypeOK, SaveInOrder, Steps
<1>4. CASE CopyToBackup
  <2>1. Goal
    BY <1>0, <1>1, <1>2, <1>4 DEF CopyToBackup
  <2>2. settings' = settings /\ settings \in Versions /\ step' = "create"
    BY <1>0, <1>4 DEF CopyToBackup
  <2> QED
    BY <1>0, <2>1, <2>2 DEF Inv, TypeOK, SaveInOrder, Steps
<1>5. CASE CreateTmp
  <2>1. Goal
    BY <1>0, <1>1, <1>2, <1>5 DEF CreateTmp
  <2>2. settings' = settings /\ settings \in Versions /\ step' = "write"
    BY <1>0, <1>5 DEF CreateTmp
  <2> QED
    BY <1>0, <2>1, <2>2 DEF Inv, TypeOK, SaveInOrder, Steps
<1>6. CASE WriteAll
  <2>1. settings' = settings /\ settings \in Versions /\ step' = "sync"
    BY <1>0, <1>6 DEF WriteAll
  <2>2. settings \in Contents /\ WriteTmp(settings)
    BY <1>6, <2>1 DEF WriteAll, Contents
  <2>3. Goal
    BY <1>2, <2>2
  <2>4. seen'.tmp = settings
    BY <2>2, WriteInv
  <2> QED
    BY <1>0, <2>1, <2>3, <2>4 DEF Inv, TypeOK, SaveInOrder, Steps
<1> QED
  BY <1>3, <1>4, <1>5, <1>6

(* Everything that happens outside a save.                                  *)
LEMMA OutsideASave ==
  ASSUME Inv,
         \/ Crash \/ LosePower \/ Settle \/ GiveUp
         \/ \E v \in Versions : Change(v)
         \/ \E c \in Versions \cup Foreign : EditByHand(c)
  PROVE  Inv'
<1>0. /\ settings \in Versions \cup {Unusable} /\ step \in Steps
      /\ seen \in Directories /\ device \subseteq Directories
      /\ step # "idle" => settings \in Versions
      /\ Reading(seen.file) \in Survivors(device)
  BY DEF Inv, TypeOK, SaveInOrder
<1>1. CASE Crash \/ GiveUp
  BY <1>0, <1>1 DEF Crash, GiveUp, Inv, TypeOK, SaveInOrder, Survivors, Steps
<1>2. CASE LosePower
  <2>1. PICK d \in device : seen' = d /\ device' = {d}
    BY <1>2 DEF LosePower
  <2>2. Reading(seen'.file) \in Survivors(device')
    BY <2>1 DEF Survivors
  <2> QED
    BY <1>0, <1>2, <2>1, <2>2 DEF LosePower, Inv, TypeOK, SaveInOrder, Steps
<1>3. CASE Settle
  <2>1. Reading(seen'.file) \in Survivors(device')
    BY <1>3 DEF Settle, Survivors
  <2> QED
    BY <1>0, <1>3, <2>1 DEF Settle, Inv, TypeOK, SaveInOrder
<1>4. CASE \E v \in Versions : Change(v)
  BY <1>0, <1>4 DEF Change, Inv, TypeOK, SaveInOrder, Survivors
<1>5. CASE \E c \in Versions \cup Foreign : EditByHand(c)
  <2>1. PICK c \in Contents : EditByHand(c)
    BY <1>5 DEF Contents
  <2>2. seen' \in Directories /\ device' = {seen'} /\ step = "idle" /\ step' = "idle"
    BY <1>0, <2>1 DEF EditByHand, Directories
  <2>3. Reading(seen'.file) \in Survivors(device')
    BY <2>2 DEF Survivors
  <2> QED
    BY <1>0, <2>1, <2>2, <2>3 DEF EditByHand, Inv, TypeOK, SaveInOrder
<1> QED
  BY <1>1, <1>2, <1>3, <1>4, <1>5

LEMMA NextInv == Inv /\ [Next]_vars => Inv'
<1> SUFFICES ASSUME Inv, [Next]_vars PROVE Inv'
  OBVIOUS
<1>1. CASE UNCHANGED vars
  BY <1>1 DEF vars, Inv, TypeOK, SaveInOrder, Survivors
<1>2. CASE Launch
  BY <1>2, LaunchInv
<1>3. CASE BeginSave \/ CopyToBackup \/ CreateTmp \/ WriteAll
  BY <1>3, BeforeTheSync
<1>4. CASE SyncAll
  BY <1>4, SyncInv
<1>5. CASE Rename
  BY <1>5, RenameStores
<1>6. CASE \/ Crash \/ LosePower \/ Settle \/ GiveUp
           \/ \E v \in Versions : Change(v)
           \/ \E c \in Versions \cup Foreign : EditByHand(c)
  BY <1>6, OutsideASave
<1> QED
  BY <1>1, <1>2, <1>3, <1>4, <1>5, <1>6 DEF Next

(* The running settings are always a value the program can work with, and   *)
(* the files hold what a save, a crash or an editor can leave.              *)
THEOREM TypeCorrect == Spec => []TypeOK
<1>1. Inv => TypeOK
  BY DEF Inv
<1> QED
  BY InitInv, NextInv, <1>1, PTL DEF Spec

-----------------------------------------------------------------------------
(* The refinement, one action at a time.                                    *)

LEMMA InitRefines == Init => Promise!Init
  BY StoreAssumption DEF Init, Promise!Init, Empty, Reading

LEMMA LaunchRefines == Inv /\ Inv' /\ Launch => Promise!Launch
<1> SUFFICES ASSUME Inv, Launch PROVE Promise!Launch
  OBVIOUS
<1> DEFINE S(D) == {Reading(d.file) : d \in D}
<1>0. seen \in Directories /\ device \subseteq Directories
  BY DEF Inv, TypeOK
<1>1. settings = Unusable
  BY DEF Launch, Running
<1>2. settings' = Promise!StartsOn(Reading(seen.file))
  BY StoreAssumption DEF Launch, Loaded, Promise!StartsOn, Reading
<1>3. Reading(seen'.file) = Reading(seen.file) /\ S(device') = S(device)
  <2>1. CASE UNCHANGED <<seen, device>>
    BY <2>1
  <2>2. CASE /\ seen.file \in NotJson \cup {Torn}
             /\ seen' = MovedAside(seen)
             /\ device' = device \cup {MovedAside(d) : d \in device}
    <3>1. Reading(seen.file) = Unusable /\ Reading(NoFile) = Unusable
      BY <2>2, StoreAssumption DEF Reading, Foreign
    <3>2. seen'.file = NoFile /\ \A d \in device : MovedAside(d).file = NoFile
      BY <1>0, <2>2, RenamesAreDirectories
    <3>3. Unusable \in S(device)
      BY <3>1 DEF Inv, SaveInOrder, Survivors
    <3> QED
      BY <2>2, <3>1, <3>2, <3>3
  <2> QED
    BY <2>1, <2>2 DEF Launch, PreserveCorrupt
<1> QED
  BY <1>1, <1>2, <1>3 DEF Promise!Launch

LEMMA RenameRefines == Inv /\ Rename => Promise!Store
<1> SUFFICES ASSUME Inv, Rename PROVE Promise!Store
  OBVIOUS
<1> QED
  BY RenameStores, StoreAssumption DEF Promise!Store, Survivors

LEMMA SaveStutters ==
  ASSUME Inv, BeginSave \/ CopyToBackup \/ CreateTmp \/ WriteAll \/ SyncAll \/ GiveUp
  PROVE  UNCHANGED Promise!vars
<1>1. CASE BeginSave \/ CopyToBackup \/ CreateTmp \/ WriteAll
  BY <1>1, BeforeTheSync DEF Promise!vars, Survivors
<1>2. CASE SyncAll
  <2>1. /\ seen \in Directories /\ device \subseteq Directories
        /\ seen.tmp \in Contents
    BY DEF Inv, TypeOK, Directories
  <2>2. Survivors(device') = Survivors(device)
    BY <1>2, <2>1, WritesKeepSurvivors DEF SyncAll, SyncTmp
  <2> QED
    BY <1>2, <2>2 DEF SyncAll, SyncTmp, Promise!vars, Survivors
<1>3. CASE GiveUp
  BY <1>3 DEF GiveUp, Promise!vars
<1> QED
  BY <1>1, <1>2, <1>3

LEMMA EnvironmentRefines ==
  ASSUME Inv,
         \/ Crash \/ LosePower \/ Settle
         \/ \E v \in Versions : Change(v)
         \/ \E c \in Versions \cup Foreign : EditByHand(c)
  PROVE  Promise!Next
<1>1. CASE Crash
  <2>1. Promise!Crash
    BY <1>1 DEF Crash, Running, Promise!Crash
  <2> QED
    BY <2>1 DEF Promise!Next
<1>2. CASE LosePower
  <2>1. PICK d \in device : seen' = d /\ device' = {d}
    BY <1>2 DEF LosePower
  <2>2. Promise!LosePower
    BY <1>2, <2>1 DEF LosePower, Promise!LosePower
  <2> QED
    BY <2>2 DEF Promise!Next
<1>3. CASE Settle
  <2>1. Promise!Settle
    BY <1>3 DEF Settle, Promise!Settle
  <2> QED
    BY <2>1 DEF Promise!Next
<1>4. CASE \E v \in Versions : Change(v)
  <2>1. PICK v \in Versions : Change(v)
    BY <1>4
  <2>2. Promise!Change(v)
    BY <2>1 DEF Change, Running, Promise!Change
  <2> QED
    BY <2>2 DEF Promise!Next
<1>5. CASE \E c \in Versions \cup Foreign : EditByHand(c)
  <2>1. PICK c \in Versions \cup Foreign : EditByHand(c)
    BY <1>5
  <2>2. seen'.file = c /\ device' = {seen'} /\ settings' = settings
    BY <2>1 DEF EditByHand, Inv, TypeOK, Directories
  <2>3. Reading(c) \in Promise!Readings
    BY DEF Reading, Promise!Readings
  <2>4. Promise!Rewritten(Reading(c))
    BY <2>2 DEF Promise!Rewritten
  <2> QED
    BY <2>3, <2>4 DEF Promise!Next
<1> QED
  BY <1>1, <1>2, <1>3, <1>4, <1>5

LEMMA StepRefines == Inv /\ Inv' /\ [Next]_vars => [Promise!Next]_Promise!vars
<1> SUFFICES ASSUME Inv, Inv', [Next]_vars
             PROVE  Promise!Next \/ UNCHANGED Promise!vars
  OBVIOUS
<1>1. CASE UNCHANGED vars
  BY <1>1 DEF vars, Promise!vars
<1>2. CASE Launch
  BY <1>2, LaunchRefines DEF Promise!Next
<1>3. CASE BeginSave \/ CopyToBackup \/ CreateTmp \/ WriteAll \/ SyncAll \/ GiveUp
  BY <1>3, SaveStutters
<1>4. CASE Rename
  BY <1>4, RenameRefines DEF Promise!Next
<1>5. CASE \/ Crash \/ LosePower \/ Settle
           \/ \E v \in Versions : Change(v)
           \/ \E c \in Versions \cup Foreign : EditByHand(c)
  BY <1>5, EnvironmentRefines
<1> QED
  BY <1>1, <1>2, <1>3, <1>4, <1>5 DEF Next

(* Whatever fails and whenever, a launch starts from settings that were     *)
(* stored as a whole.                                                       *)
THEOREM WholeValuesAreStored == Spec => StoresWholeValues
<1>1. Init => Inv
  BY InitInv
<1>2. Inv /\ [Next]_vars => Inv'
  BY NextInv
<1> QED
  BY <1>1, <1>2, InitRefines, StepRefines, PTL DEF Spec, StoresWholeValues, Promise!Spec

-----------------------------------------------------------------------------
(* The backup.                                                              *)

(* While damage is noticed and moved away by the launch that follows it, a  *)
(* session sees its own file, none, or one that is not text.                *)
SessionFile ==
  /\ careful /\ Running => seen.file \in Versions \cup {NoFile} \cup NotText
  /\ step = "copy" => seen.file # NoFile

LEMMA SessionFileInv ==
  ASSUME Inv, Inv', SessionFile, [Next]_vars
  PROVE  SessionFile'
<1>0. /\ seen \in Directories /\ device \subseteq Directories
      /\ step # "idle" => Running
  BY StoreAssumption DEF Inv, TypeOK, SaveInOrder, Running
<1>c. careful' = careful
  BY DEF Next, vars
<1>1. CASE UNCHANGED vars
  BY <1>1 DEF vars, SessionFile, Running
<1>2. CASE Launch
  <2>1. step' = "idle"
    BY <1>0, <1>2 DEF Launch
  <2>2. careful => seen'.file \in Versions \cup {NoFile} \cup NotText
    <3>1. CASE seen.file \in NotJson \cup {Torn}
      <4>1. careful => seen' = MovedAside(seen)
        BY <1>2, <3>1 DEF Launch, PreserveCorrupt
      <4> QED
        BY <1>0, <4>1, RenamesAreDirectories
    <3>2. CASE seen.file \notin NotJson \cup {Torn}
      <4>1. seen' = seen
        BY <1>2, <3>2 DEF Launch
      <4> QED
        BY <1>0, <3>2, <4>1 DEF Directories, Contents, Foreign
    <3> QED
      BY <3>1, <3>2
  <2> QED
    BY <1>c, <2>1, <2>2 DEF SessionFile
<1>3. CASE BeginSave \/ CopyToBackup \/ CreateTmp \/ WriteAll
  <2>1. seen'.file = seen.file /\ settings' = settings
    BY <1>3, BeforeTheSync
  <2>2. step' = "copy" => seen.file # NoFile
    BY <1>3 DEF BeginSave, CopyToBackup, CreateTmp, WriteAll
  <2> QED
    BY <1>c, <2>1, <2>2 DEF SessionFile, Running
<1>4. CASE SyncAll \/ GiveUp
  BY <1>c, <1>4 DEF SyncAll, SyncTmp, GiveUp, SessionFile, Running
<1>5. CASE Rename
  <2>1. seen'.file \in Versions /\ step' = "idle"
    <3>1. settings \in Versions /\ seen.tmp = settings /\ seen' = TmpRenamed(seen)
      BY <1>5 DEF Inv, SaveInOrder, Rename, RenameTmp
    <3>2. seen.tmp # NoFile
      BY <3>1, StoreAssumption
    <3>3. seen'.file = seen.tmp
      BY <1>0, <3>1, <3>2, RenamesAreDirectories
    <3> QED
      BY <1>5, <3>1, <3>3 DEF Rename
  <2> QED
    BY <1>c, <2>1 DEF SessionFile
<1>6. CASE Crash \/ LosePower
  BY <1>c, <1>6 DEF Crash, LosePower, SessionFile, Running
<1>7. CASE Settle \/ \E v \in Versions : Change(v)
  BY <1>c, <1>7 DEF Settle, Change, SessionFile, Running
<1>8. CASE \E c \in Versions \cup Foreign : EditByHand(c)
  BY <1>c, <1>8 DEF EditByHand, SessionFile, Running
<1> QED
  BY <1>1, <1>2, <1>3, <1>4, <1>5, <1>6, <1>7, <1>8 DEF Next

LEMMA BackupStep ==
  ASSUME Inv, SessionFile, [Next]_vars, careful, Running, Running', seen'.bak # seen.bak
  PROVE  seen.file \in Versions \cup NotText
<1>1. CASE BeginSave \/ CopyToBackup
  <2>1. seen.file # NoFile
    BY <1>1 DEF BeginSave, CopyToBackup, SessionFile
  <2> QED
    BY <2>1 DEF SessionFile
<1>2. CASE CreateTmp \/ WriteAll \/ SyncAll \/ Rename \/ GiveUp
  <2>1. seen'.bak = seen.bak
    BY <1>2 DEF CreateTmp, WriteAll, SyncAll, Rename, GiveUp, WriteTmp, SyncTmp,
                RenameTmp, PutTmp, TmpRenamed, Inv, TypeOK, Directories
  <2> QED
    BY <2>1
<1>3. CASE Launch \/ Crash \/ LosePower
  BY <1>3 DEF Launch, Crash, LosePower, Running
<1>4. CASE Settle \/ (\E v \in Versions : Change(v)) \/ UNCHANGED vars
  BY <1>4 DEF Settle, Change, vars
<1>5. CASE \E c \in Versions \cup Foreign : EditByHand(c)
  BY <1>5 DEF EditByHand, Inv, TypeOK, Directories
<1> QED
  BY <1>1, <1>2, <1>3, <1>4, <1>5 DEF Next

(* While every damaged file is noticed by the next launch, a good backup is *)
(* only replaced by settings that can be read again, or by a file that is   *)
(* not text.                                                                *)
THEOREM TheBackupStaysReadable == Spec => OnlyReadableFilesReplaceTheBackup
<1>1. Init => Inv /\ SessionFile
  <2>1. Init => SessionFile
    BY DEF Init, SessionFile, Running
  <2> QED
    BY <2>1, InitInv
<1>2. Inv /\ SessionFile /\ [Next]_vars => Inv' /\ SessionFile'
  BY NextInv, SessionFileInv
<1>3. Inv /\ SessionFile /\ [Next]_vars
        => [careful /\ Running /\ Running' /\ seen.bak \in Versions /\ seen'.bak # seen.bak
              => seen.file \in Versions \cup NotText]_vars
  BY BackupStep
<1> QED
  BY <1>1, <1>2, <1>3, PTL DEF Spec, OnlyReadableFilesReplaceTheBackup
=============================================================================
