--------------------------- MODULE TextOwnership ---------------------------
(***************************************************************************)
(* What an input method that cannot see the document promises.  It owns    *)
(* some of the characters just before the caret, namely those it typed or  *)
(* watched being typed there; its edits delete owned characters only; and  *)
(* it owns nothing once anybody else may have moved the caret.             *)
(*                                                                         *)
(* The user's keys reach the document by themselves (`edit` is NoEdit) or  *)
(* behind an edit, when the key that asked for it is typed again after it. *)
(***************************************************************************)
EXTENDS Integers, Sequences

CONSTANT NoEdit

VARIABLES
  text,      (* the characters before the caret                             *)
  owned,     (* how many of the last ones the input method may delete       *)
  edit       (* the edit the input method made in the last step, if any     *)

vars == <<text, owned, edit>>

Init == owned = 0 /\ edit = NoEdit

Edited(t, e) == SubSeq(t, 1, Len(t) - e.bs) \o e.ins

(* What the user's key does itself to text `t`, of which the last `n`       *)
(* characters are owned: nothing, ...                                       *)
Nothing(t, n) == text' = t /\ owned' \in 0..n

(* ... one character more ...                                               *)
Insert(t, n) ==
  /\ Len(text') = Len(t) + 1
  /\ SubSeq(text', 1, Len(t)) = t
  /\ owned' \in 0..(n + 1)

(* ... one character less, owned or not ...                                 *)
Delete(t, n) ==
  /\ t # <<>>
  /\ text' = SubSeq(t, 1, Len(t) - 1)
  /\ owned' = 0 \/ owned' \in 0..(n - 1)

(* ... or anything else, and then nothing is owned.                         *)
Elsewhere == owned' = 0

KeyEffect(t, n) == Nothing(t, n) \/ Insert(t, n) \/ Delete(t, n) \/ Elsewhere

Watch == edit' = NoEdit /\ KeyEffect(text, owned)

(* An edit, never longer than what is owned, and what its key does after it.*)
Edit ==
  /\ edit' # NoEdit
  /\ edit'.bs <= owned
  /\ KeyEffect(Edited(text, edit'), owned - edit'.bs + Len(edit'.ins))

Next == Watch \/ Edit

Spec == Init /\ [][Next]_vars
=============================================================================
