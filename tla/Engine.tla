------------------------------- MODULE Engine -------------------------------
(***************************************************************************)
(* One word being composed: Engine (glowkey-engine/src/engine.rs) as a     *)
(* value, and its operations.                                              *)
(*                                                                         *)
(*   raw       every key typed since the word began                        *)
(*   rendered  what those keys show on screen, the baseline of every edit  *)
(*   escaped   the keys are shown verbatim: the spell check refused the    *)
(*             word, or only macros are being matched                      *)
(*                                                                         *)
(* How keys turn into Vietnamese letters is the parameter Render: nothing  *)
(* the engine keeps in step with the document depends on which letters     *)
(* they are.  An edit deletes `bs` characters before the caret and then    *)
(* inserts `ins`; a rendered letter is one UTF-16 unit.                    *)
(***************************************************************************)
EXTENDS Integers, Sequences
SequenceOps == INSTANCE SequencesExt

CONSTANTS
  Keys,             (* the keys that extend a word, as characters             *)
  Chars,            (* the characters a word can show                         *)
  Styles,           (* the settings a rendering depends on                    *)
  MaxKeys,          (* bound: the longest key log of one word                 *)
  Render(_, _),     (* what a key log shows under a style                     *)
  CannotBecomeVietnamese(_),  (* the mid-word question of the spell check     *)
  WithoutRejections(_, _)     (* a key log minus its repeat-key rejections    *)

KeyLogs == UNION {[1..n -> Keys] : n \in 0..MaxKeys}

ASSUME EngineAssumption ==
  /\ MaxKeys \in Nat
  /\ Keys \subseteq Chars
  /\ \A raw \in KeyLogs :
       \A s \in Styles :
         WithoutRejections(s, raw) \in KeyLogs /\ Render(s, raw) \in Seq(Chars)
  /\ \A s \in Styles : Render(s, <<>>) = <<>>

Engines == [raw : KeyLogs, rendered : Seq(Chars), escaped : BOOLEAN]

NoEdit == [bs |-> 0, ins |-> <<>>]
FreshEngine == [raw |-> <<>>, rendered |-> <<>>, escaped |-> FALSE]

IsComposing(e) == e.raw # <<>>

RenderKeys(e, s, raw) == IF e.escaped THEN raw ELSE Render(s, raw)

CanUnescape(s, raw) == ~CannotBecomeVietnamese(Render(s, raw))

(* The edit that turns one rendering into the next: keep what they share at *)
(* the front, delete the rest, insert the rest.                             *)
IsShared(prev, next, k) == \A i \in 1..k : prev[i] = next[i]

CommonPrefix(prev, next) ==
  CHOOSE k \in 0..Len(prev) :
    /\ k <= Len(next) /\ IsShared(prev, next, k)
    /\ k = Len(prev) \/ k = Len(next) \/ prev[k + 1] # next[k + 1]

Diff(prev, next) ==
  LET k == CommonPrefix(prev, next)
  IN  [bs |-> Len(prev) - k, ins |-> SubSeq(next, k + 1, Len(next))]

(* A whole word replaced by another reading of it.                          *)
Rewrite(from, to) == [bs |-> Len(from), ins |-> to]

(* Typing a key.  `check` is the mid-word spell check in effect: a key that *)
(* makes the word impossible escapes all of it, for the rest of its life.   *)
ProcessKey(e, s, check, key) ==
  LET raw == Append(e.raw, key)
      escaped == e.escaped \/ (check /\ ~CanUnescape(s, raw))
  IN  [raw |-> raw, escaped |-> escaped,
       rendered |-> IF escaped THEN raw ELSE Render(s, raw)]

ProcessKeyVerbatim(e, s, check, key) ==
  ProcessKey([e EXCEPT !.escaped = TRUE], s, check, key)

(* Re-opening a committed word.  Whether it had been escaped is read off    *)
(* its rendering: an escaped word is the only one that shows something      *)
(* other than what its keys render to.                                      *)
Restore(e, s, raw, rendered) ==
  [raw |-> raw, rendered |-> rendered,
   escaped |-> RenderKeys(e, s, raw) # rendered]

(* The word as typed, which is what auto-fix puts back.                     *)
TypedWord(e, s) == IF e.escaped THEN e.raw ELSE WithoutRejections(s, e.raw)

-----------------------------------------------------------------------------
(* Backspace inside a word.  The host deletes one visible character by      *)
(* itself, so the engine looks, from the last key backwards, for the key    *)
(* whose removal renders to exactly that (InStep); deleting the key that    *)
(* escaped the word lifts the escape (Repair, and the key is swallowed).    *)
(* When no key stands for the last character, the last keystroke is undone  *)
(* instead, provided the word gets one character shorter.  Otherwise the    *)
(* engine cannot follow (Flush).                                            *)
Droppable(e, s) ==
  {i \in DOMAIN e.raw :
     RenderKeys(e, s, SequenceOps!RemoveAt(e.raw, i)) = SequenceOps!Front(e.rendered)}

LastOf(S) == CHOOSE i \in S : \A j \in S : j <= i

InStep(e, raw) ==
  [kind |-> "InStep", edit |-> NoEdit,
   engine |-> [raw |-> raw, rendered |-> SequenceOps!Front(e.rendered),
               escaped |-> e.escaped /\ raw # <<>>]]

Repair(e, raw, rendered, escaped) ==
  [kind |-> "Repair", edit |-> Rewrite(e.rendered, rendered),
   engine |-> [raw |-> raw, rendered |-> rendered, escaped |-> escaped]]

CannotFollow(e) == [kind |-> "Flush", edit |-> NoEdit, engine |-> e]

AfterDropping(e, s, raw) ==
  IF e.escaped /\ raw # <<>> /\ CanUnescape(s, raw)
  THEN Repair(e, raw, Render(s, raw), FALSE)
  ELSE InStep(e, raw)

AfterUndoing(e, s, raw) ==
  IF raw # <<>> /\ Len(RenderKeys(e, s, raw)) + 1 = Len(e.rendered)
  THEN Repair(e, raw, RenderKeys(e, s, raw), e.escaped)
  ELSE CannotFollow(e)

BackspaceVisibleChar(e, s) ==
  IF e.raw = <<>> \/ e.rendered = <<>> THEN CannotFollow(e)
  ELSE IF Droppable(e, s) # {}
       THEN AfterDropping(e, s, SequenceOps!RemoveAt(e.raw, LastOf(Droppable(e, s))))
       ELSE AfterUndoing(e, s, SequenceOps!Front(e.raw))
=============================================================================
