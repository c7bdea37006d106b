---------------------------- MODULE SettingsStore ----------------------------
(***************************************************************************)
(* The settings file on disk (app/src/settings_store.rs): every file       *)
(* operation of a save is a step of its own, so that the process can be    *)
(* killed, the power can fail and any operation can report an error        *)
(* between two of them.                                                    *)
(***************************************************************************)
EXTENDS Naturals

CONSTANTS
  Versions,         (* settings values; each is one complete JSON document   *)
  Default,          (* Settings::default()                                   *)
  NotJson,          (* text that does not parse                              *)
  NotText,          (* bytes that read_to_string refuses                     *)
  NoFile, Torn,     (* no file of that name; a file with a part of its bytes *)
  Unusable          (* what a file that gives no settings reads as           *)

Foreign == NotJson \cup NotText
Contents == Versions \cup Foreign \cup {NoFile, Torn}

ASSUME StoreAssumption ==
  /\ Default \in Versions
  /\ {NoFile, Torn, Unusable} \cap (Versions \cup Foreign) = {}
  /\ Versions \cap Foreign = {} /\ NotJson \cap NotText = {}
  /\ NoFile # Torn /\ Unusable \notin {NoFile, Torn}

VARIABLES
  settings,   (* what the program works with, Unusable while it does not run *)
  step,       (* the next operation of the save that is under way            *)
  seen,       (* the directory as programs see it                            *)
  device,     (* the directories a loss of power may leave                   *)
  careful     (* renaming a damaged file works, and nobody writes the file   *)
              (* while the program runs: so for good, or not so              *)

vars == <<settings, step, seen, device, careful>>

Steps == {"idle", "copy", "create", "write", "sync", "rename"}

(* settings.json, its .bak and the temporary file.  What is moved aside as  *)
(* settings.corrupt-<stamp>.json is never read again.                       *)
Directories ==
  [file : Contents, bak : Contents, tmp : Contents]

Empty == [file |-> NoFile, bak |-> NoFile, tmp |-> NoFile]

Running == settings # Unusable

Reading(content) == IF content \in Versions THEN content ELSE Unusable

-----------------------------------------------------------------------------
(* What an operation does to the directory and to what the device may hold. *)

(* Bytes that were written and not synchronised may be lost in part.        *)
PutBak(d, content) == [d EXCEPT !.bak = content]
PutTmp(d, content) == [d EXCEPT !.tmp = content]
BakWritten(D, content) == {PutBak(d, c) : d \in D, c \in {content, Torn}}
TmpWritten(D, content) == {PutTmp(d, c) : d \in D, c \in {content, Torn}}
TmpSynced(D, content) == {PutTmp(d, content) : d \in D}

WriteBak(content) ==
  /\ seen' = PutBak(seen, content)
  /\ device' = device \cup BakWritten(device, content)

WriteTmp(content) ==
  /\ seen' = PutTmp(seen, content)
  /\ device' = device \cup TmpWritten(device, content)

(* Slip: the bytes are left to the system.                                  *)
NoSyncTmp == UNCHANGED <<seen, device>>

(* sync_all: whatever else is lost, this file is there.                     *)
SyncTmp ==
  /\ device' = TmpSynced(device, seen.tmp)
  /\ UNCHANGED seen

(* A rename is atomic, and not durable until the directory is.  A file that *)
(* never reached the device has a name and no bytes.                        *)
TmpRenamed(d) ==
  [d EXCEPT !.file = IF d.tmp = NoFile THEN Torn ELSE d.tmp, !.tmp = NoFile]

RenameTmp ==
  /\ seen' = TmpRenamed(seen)
  /\ device' = device \cup {TmpRenamed(d) : d \in device}

MovedAside(d) == [d EXCEPT !.file = NoFile]

-----------------------------------------------------------------------------
Init ==
  /\ settings = Unusable /\ step = "idle"
  /\ seen = Empty /\ device = {Empty}
  /\ careful \in BOOLEAN

(* Slip: a file that does not parse stays where it is.                      *)
LeaveInPlace == UNCHANGED <<seen, device>>

(* preserve_corrupt: best effort.                                           *)
PreserveCorrupt ==
  \/ /\ seen' = MovedAside(seen)
     /\ device' = device \cup {MovedAside(d) : d \in device}
  \/ ~careful /\ UNCHANGED <<seen, device>>

Loaded(content) == IF content \in Versions THEN content ELSE Default

(* load.  Only text that does not parse is moved aside: any error of        *)
(* read_to_string, a missing file or bytes that are not text, is "missing". *)
Launch ==
  /\ ~Running
  /\ settings' = Loaded(seen.file)
  /\ IF seen.file \in NotJson \cup {Torn} THEN PreserveCorrupt
                                          ELSE UNCHANGED <<seen, device>>
  /\ UNCHANGED step

Change(v) ==
  /\ Running /\ step = "idle"
  /\ settings' = v
  /\ UNCHANGED <<step, seen, device>>

(* save.  fs::copy truncates the backup before it writes it; its errors are *)
(* ignored.                                                                 *)
BeginSave ==
  /\ Running /\ step = "idle"
  /\ IF seen.file = NoFile
     THEN step' = "create" /\ UNCHANGED <<seen, device>>
     ELSE step' = "copy" /\ WriteBak(Torn)
  /\ UNCHANGED settings

CopyToBackup ==
  /\ step = "copy"
  /\ WriteBak(seen.file) \/ UNCHANGED <<seen, device>>
  /\ step' = "create"
  /\ UNCHANGED settings

CreateTmp ==
  /\ step = "create"
  /\ WriteTmp(Torn)
  /\ step' = "write"
  /\ UNCHANGED settings

WriteAll ==
  /\ step = "write"
  /\ WriteTmp(settings)
  /\ step' = "sync"
  /\ UNCHANGED settings

SyncAll ==
  /\ step = "sync"
  /\ SyncTmp
  /\ step' = "rename"
  /\ UNCHANGED settings

Rename ==
  /\ step = "rename"
  /\ RenameTmp
  /\ step' = "idle"
  /\ UNCHANGED settings

(* An operation reports an error: it is logged and the save given up.       *)
GiveUp ==
  /\ step \in {"create", "write", "sync", "rename"}
  /\ step' = "idle"
  /\ UNCHANGED <<settings, seen, device>>

-----------------------------------------------------------------------------
(* The environment.                                                         *)

(* The process ends, killed or not; what it wrote is in the system's hands. *)
Crash ==
  /\ Running
  /\ settings' = Unusable /\ step' = "idle"
  /\ UNCHANGED <<seen, device>>

LosePower ==
  /\ settings' = Unusable /\ step' = "idle"
  /\ \E d \in device : seen' = d /\ device' = {d}

(* The system writes out everything it holds.                               *)
Settle ==
  /\ device' = {seen}
  /\ UNCHANGED <<settings, step, seen>>

(* Somebody writes settings.json, well or badly.                            *)
EditByHand(content) ==
  /\ step = "idle"
  /\ ~(Running /\ careful)
  /\ seen' = [seen EXCEPT !.file = content]
  /\ device' = {seen'}
  /\ UNCHANGED <<settings, step>>

Next ==
  /\ UNCHANGED careful
  /\ \/ Launch \/ BeginSave \/ CopyToBackup \/ CreateTmp \/ WriteAll \/ SyncAll
     \/ Rename \/ GiveUp \/ Crash \/ LosePower \/ Settle
     \/ \E v \in Versions : Change(v)
     \/ \E c \in Versions \cup Foreign : EditByHand(c)

Spec == Init /\ [][Next]_vars

-----------------------------------------------------------------------------
(* The running settings are always a value the program can work with, and   *)
(* the files hold what a save, a crash or an editor can leave               *)
(* (settings_store.rs, load and save).                                      *)
TypeOK ==
  /\ settings \in Versions \cup {Unusable}
  /\ step \in Steps
  /\ seen \in Directories
  /\ device \in SUBSET Directories

(* Whatever fails and whenever, a launch starts from settings that were     *)
(* stored as a whole, the last ones or, after a loss of power, one of those *)
(* before; never from a half-written file (settings_store.rs, save and      *)
(* write_durably).                                                          *)
Promise == INSTANCE DurableSettings WITH
  current <- Reading(seen.file),
  survivors <- {Reading(d.file) : d \in device}

StoresWholeValues == Promise!Spec

(* A good backup is only ever replaced by settings that can be read again:  *)
(* while damage is noticed by the next launch, no damaged file takes the    *)
(* last good copy with it (settings_store.rs, load: "that is what keeps the *)
(* .bak in save meaningful").  Excepted is a file that is not text at all,  *)
(* which load takes for a missing one and leaves where it is.               *)
OnlyReadableFilesReplaceTheBackup ==
  [][careful /\ Running /\ Running' /\ seen.bak \in Versions /\ seen'.bak # seen.bak
       => seen.file \in Versions \cup NotText]_vars
=============================================================================
