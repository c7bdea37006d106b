--------------------------- MODULE DurableSettings ---------------------------
(***************************************************************************)
(* What a settings file promises, without files: one value that a launch   *)
(* starts from, replaced as a whole, with a window in which a loss of      *)
(* power brings the value before back.  A value nobody stored is never     *)
(* found, unless somebody else wrote into the file.                        *)
(***************************************************************************)
CONSTANTS Versions, Default, Unusable

VARIABLES
  settings,   (* what the running program works with, or Unusable: not running *)
  current,    (* what a launch would find now                              *)
  survivors   (* what it may find after a loss of power                    *)

vars == <<settings, current, survivors>>

Readings == Versions \cup {Unusable}

(* A file that cannot be used starts the program on the defaults.           *)
StartsOn(reading) == IF reading = Unusable THEN Default ELSE reading

Init == settings = Unusable /\ current = Unusable /\ survivors = {Unusable}

Launch ==
  /\ settings = Unusable
  /\ settings' = StartsOn(current)
  /\ UNCHANGED <<current, survivors>>

Change(v) == settings # Unusable /\ settings' = v /\ UNCHANGED <<current, survivors>>

(* The running settings replace the stored ones in one step.                *)
Store ==
  /\ settings # Unusable
  /\ current' = settings
  /\ survivors' = survivors \cup {settings}
  /\ UNCHANGED settings

Settle == survivors' = {current} /\ UNCHANGED <<settings, current>>

Crash == settings # Unusable /\ settings' = Unusable /\ UNCHANGED <<current, survivors>>

LosePower ==
  /\ settings' = Unusable
  /\ current' \in survivors
  /\ survivors' = {current'}

(* Somebody else writes the file: by hand, or into it by accident.          *)
Rewritten(v) ==
  /\ current' = v /\ survivors' = {v}
  /\ UNCHANGED settings

(* An unusable file is moved out of the way: a launch may find it again     *)
(* after a loss of power, or find nothing, which is as unusable.            *)
Next ==
  \/ Launch \/ Store \/ Settle \/ Crash \/ LosePower
  \/ \E v \in Versions : Change(v)
  \/ \E v \in Readings : Rewritten(v)

Spec == Init /\ [][Next]_vars
=============================================================================
