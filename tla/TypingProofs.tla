---------------------------- MODULE TypingProofs ----------------------------
(***************************************************************************)
(* Typing keeps its promises for every alphabet, rendering, history length,*)
(* set of applications and table of macros: the engine's operations, the   *)
(* types, the keys and renderings that belong together, what the session   *)
(* knows of the text before the caret, and the case of what is shown.      *)
(***************************************************************************)
EXTENDS Typing, SequenceFacts

-----------------------------------------------------------------------------
(* What the engine's operations return, for every alphabet and rendering.   *)

(* The common prefix of two words exists: it ends before the first place    *)
(* where they differ, or where the shorter one ends.                        *)
LEMMA CommonPrefixIsShared ==
  ASSUME NEW S, NEW prev \in Seq(S), NEW next \in Seq(S)
  PROVE  /\ CommonPrefix(prev, next) \in 0..Len(prev)
         /\ CommonPrefix(prev, next) <= Len(next)
         /\ IsShared(prev, next, CommonPrefix(prev, next))
<1> DEFINE m == IF Len(prev) <= Len(next) THEN Len(prev) ELSE Len(next)
           T == {i \in 1..m : prev[i] # next[i]}
           P(k) == /\ k <= Len(next) /\ IsShared(prev, next, k)
                   /\ k = Len(prev) \/ k = Len(next) \/ prev[k + 1] # next[k + 1]
<1>0. m \in Nat /\ m <= Len(prev) /\ m <= Len(next)
  OBVIOUS
<1>1. \E k \in 0..Len(prev) : P(k)
  <2>1. CASE T = {}
    <3>1. P(m) /\ m \in 0..Len(prev)
      BY <1>0, <2>1 DEF IsShared
    <3> QED BY <3>1
  <2>2. CASE T # {}
    <3>1. PICK x \in T : \A y \in T : x <= y
      <4>1. T \subseteq Nat
        BY <1>0
      <4> QED BY <2>2, <4>1, LeastNatural, Zenon
    <3>2. P(x - 1) /\ x - 1 \in 0..Len(prev)
      BY <1>0, <3>1 DEF IsShared
    <3> QED BY <3>2
  <2> QED BY <2>1, <2>2
<1> QED BY <1>1 DEF CommonPrefix

-----------------------------------------------------------------------------
LEMMA MaxKeysType == MaxKeys \in Nat
BY EngineAssumption

(* A key log is a sequence of keys, of bounded length.                      *)
LEMMA KeyLogsAreSequences ==
  ASSUME NEW raw
  PROVE  raw \in KeyLogs <=> raw \in Seq(Keys) /\ Len(raw) <= MaxKeys
<1>1. ASSUME raw \in KeyLogs PROVE raw \in Seq(Keys) /\ Len(raw) <= MaxKeys
  <2>1. PICK n \in 0..MaxKeys : raw \in [1..n -> Keys]
    BY <1>1 DEF KeyLogs
  <2> QED BY <2>1, EngineAssumption
<1>2. ASSUME raw \in Seq(Keys), Len(raw) <= MaxKeys PROVE raw \in KeyLogs
  <2>1. raw \in [1..Len(raw) -> Keys] /\ Len(raw) \in 0..MaxKeys
    BY <1>2, EngineAssumption
  <2> QED BY <2>1 DEF KeyLogs
<1> QED BY <1>1, <1>2

LEMMA KeyLogsShowAsTyped ==
  ASSUME NEW raw \in KeyLogs
  PROVE  raw \in Seq(Chars)
BY KeyLogsAreSequences, EngineAssumption

LEMMA RenderKeysType ==
  ASSUME NEW e \in Engines, NEW s \in Styles, NEW raw \in KeyLogs
  PROVE  RenderKeys(e, s, raw) \in Seq(Chars)
BY KeyLogsShowAsTyped, EngineAssumption DEF RenderKeys

(* Dropping a key, or the last character, leaves a shorter word.            *)
LEMMA ShorterLogs ==
  ASSUME NEW raw \in KeyLogs, NEW i \in DOMAIN raw
  PROVE  SequenceOps!RemoveAt(raw, i) \in KeyLogs
<1>1. raw \in Seq(Keys) /\ Len(raw) <= MaxKeys /\ i \in 1..Len(raw)
  BY KeyLogsAreSequences
<1>2. /\ SubSeq(raw, 1, i - 1) \in Seq(Keys) /\ Len(SubSeq(raw, 1, i - 1)) = i - 1
      /\ SubSeq(raw, i + 1, Len(raw)) \in Seq(Keys)
      /\ Len(SubSeq(raw, i + 1, Len(raw))) = Len(raw) - i
  <2>1. /\ 1 \in 1..(Len(raw) + 1) /\ i - 1 \in 0..Len(raw)
        /\ i + 1 \in 1..(Len(raw) + 1) /\ Len(raw) \in i..Len(raw)
    BY <1>1
  <2>2. /\ SubSeq(raw, 1, i - 1) \in Seq(Keys) /\ Len(SubSeq(raw, 1, i - 1)) = i - 1
    BY <1>1, <2>1, SliceProperties
  <2>3. /\ SubSeq(raw, i + 1, Len(raw)) \in Seq(Keys)
        /\ Len(SubSeq(raw, i + 1, Len(raw))) = Len(raw) - i
    BY <1>1, <2>1, SliceProperties
  <2> QED BY <2>2, <2>3
<1>3. SequenceOps!RemoveAt(raw, i) =
        SubSeq(raw, 1, i - 1) \o SubSeq(raw, i + 1, Len(raw))
  BY DEF SequenceOps!RemoveAt
<1>4. /\ SequenceOps!RemoveAt(raw, i) \in Seq(Keys)
      /\ Len(SequenceOps!RemoveAt(raw, i)) <= MaxKeys
  BY <1>1, <1>2, <1>3, ConcatProperties, MaxKeysType
<1> QED BY <1>4, KeyLogsAreSequences, Zenon

LEMMA FrontOfWord ==
  ASSUME NEW S, NEW w \in Seq(S), w # <<>>
  PROVE  /\ SequenceOps!Front(w) \in Seq(S)
         /\ Len(SequenceOps!Front(w)) = Len(w) - 1
         /\ \A i \in 1..(Len(w) - 1) : SequenceOps!Front(w)[i] = w[i]
<1>1. Len(w) \in Nat \ {0}
  BY EmptySeq
<1>2. 1 \in 1..(Len(w) + 1) /\ Len(w) - 1 \in 0..Len(w)
  BY <1>1
<1>3. SequenceOps!Front(w) = SubSeq(w, 1, Len(w) - 1)
  BY DEF SequenceOps!Front
<1> DEFINE n == Len(w) - 1
<1>4. /\ SubSeq(w, 1, n) \in Seq(S) /\ Len(SubSeq(w, 1, n)) = n - 1 + 1
      /\ \A i \in 1..(n - 1 + 1) : SubSeq(w, 1, n)[i] = w[1 + i - 1]
  <2>1. 1 \in 1..(Len(w) + 1) /\ n \in (1 - 1)..Len(w)
    BY <1>2
  <2> HIDE DEF n
  <2> QED BY <2>1, SliceProperties
<1>5. n \in Nat
  BY <1>1
<1>6. Len(SubSeq(w, 1, n)) = n /\ \A i \in 1..n : SubSeq(w, 1, n)[i] = w[i]
  <2> HIDE DEF n
  <2> QED BY <1>4, <1>5
<1> QED BY <1>3, <1>4, <1>6

LEMMA FrontOfLog ==
  ASSUME NEW raw \in KeyLogs, raw # <<>>
  PROVE  SequenceOps!Front(raw) \in KeyLogs
BY KeyLogsAreSequences, FrontOfWord, EngineAssumption

(* The last of some positions is one of them.                               *)
LEMMA LastOfIsOne ==
  ASSUME NEW n \in Nat, NEW S, S \subseteq 1..n, S # {}
  PROVE  LastOf(S) \in S
BY LastPosition DEF LastOf

-----------------------------------------------------------------------------
(* Keys and rendering belong together, and no keys is a fresh engine: what  *)
(* every operation of the engine preserves.                                 *)
Agrees(e, s) ==
  /\ e.raw = <<>> => e = FreshEngine
  /\ e.rendered = RenderKeys(e, s, e.raw)

LEMMA FreshEngineType ==
  <<>> \in KeyLogs /\ FreshEngine \in Engines
<1>1. <<>> \in Seq(Keys) /\ Len(<<>>) <= MaxKeys
  BY EmptySeq, MaxKeysType
<1>2. <<>> \in KeyLogs
  BY <1>1, KeyLogsAreSequences, Zenon
<1> QED BY <1>2, EmptySeq DEF FreshEngine, Engines

LEMMA FreshAgrees ==
  ASSUME NEW s \in Styles
  PROVE  Agrees(FreshEngine, s)
BY EngineAssumption DEF FreshEngine, Agrees, RenderKeys

LEMMA ProcessKeyAgrees ==
  ASSUME NEW e \in Engines, NEW s \in Styles, NEW check \in BOOLEAN,
         NEW key \in Keys, Len(e.raw) < MaxKeys
  PROVE  LET next == ProcessKey(e, s, check, key)
         IN  /\ next \in Engines /\ next.raw # <<>> /\ Agrees(next, s)
             /\ next.escaped => e.escaped \/ check
<1> DEFINE raw == Append(e.raw, key)
           escaped == e.escaped \/ (check /\ ~CanUnescape(s, raw))
<1>1. e.raw \in Seq(Keys) /\ Len(e.raw) \in Nat
  BY KeyLogsAreSequences DEF Engines
<1>2. raw \in KeyLogs /\ raw # <<>>
  <2>1. raw \in Seq(Keys) /\ Len(raw) <= MaxKeys
    BY <1>1, MaxKeysType
  <2>2. raw # <<>>
    BY <1>1, AppendProperties
  <2> QED BY <2>1, <2>2, KeyLogsAreSequences, Zenon
<1>3. escaped \in BOOLEAN
  BY DEF Engines, CanUnescape
<1>4. Render(s, raw) \in Seq(Chars) /\ raw \in Seq(Chars)
  BY <1>2, KeyLogsShowAsTyped, EngineAssumption
<1> HIDE DEF raw, escaped
<1>5. ProcessKey(e, s, check, key) =
        [raw |-> raw, escaped |-> escaped,
         rendered |-> IF escaped THEN raw ELSE Render(s, raw)]
  BY DEF ProcessKey, raw, escaped
<1>6. escaped => e.escaped \/ check
  BY DEF escaped
<1> QED BY <1>2, <1>3, <1>4, <1>5, <1>6 DEF Engines, Agrees, RenderKeys

LEMMA ProcessKeyVerbatimAgrees ==
  ASSUME NEW e \in Engines, NEW s \in Styles, NEW check \in BOOLEAN,
         NEW key \in Keys, Len(e.raw) < MaxKeys
  PROVE  LET next == ProcessKeyVerbatim(e, s, check, key)
         IN  next \in Engines /\ next.raw # <<>> /\ Agrees(next, s)
<1> DEFINE escaped == [e EXCEPT !.escaped = TRUE]
<1>1. escaped \in Engines /\ escaped.raw = e.raw
  BY DEF Engines
<1> HIDE DEF escaped
<1>2. LET next == ProcessKey(escaped, s, check, key)
      IN  next \in Engines /\ next.raw # <<>> /\ Agrees(next, s)
  BY <1>1, ProcessKeyAgrees
<1> QED BY <1>2 DEF ProcessKeyVerbatim, escaped

(* A committed word, put back, is a word of the engine again.               *)
LEMMA RestoreAgrees ==
  ASSUME NEW s \in Styles, NEW raw \in KeyLogs, raw # <<>>,
         NEW rendered \in Seq(Chars), rendered = raw \/ rendered = Render(s, raw)
  PROVE  LET next == Restore(FreshEngine, s, raw, rendered)
         IN  /\ next \in Engines /\ next.raw = raw /\ next.rendered = rendered
             /\ Agrees(next, s)
             /\ next.escaped => rendered # Render(s, raw)
BY DEF Restore, FreshEngine, RenderKeys, Engines, Agrees

-----------------------------------------------------------------------------
(* What Backspace answers inside a word: the host's deletion is followed    *)
(* exactly, or the whole word is rewritten, or neither.                     *)
Followed(e, s, outcome) ==
  /\ outcome.kind = "InStep" /\ outcome.edit = NoEdit
  /\ outcome.engine \in Engines /\ Agrees(outcome.engine, s)
  /\ outcome.engine.rendered = SequenceOps!Front(e.rendered)
  /\ outcome.engine.escaped => e.escaped

Repaired(e, s, outcome) ==
  /\ outcome.kind = "Repair"
  /\ outcome.edit = Rewrite(e.rendered, outcome.engine.rendered)
  /\ outcome.engine \in Engines /\ Agrees(outcome.engine, s)
  /\ outcome.engine.raw # <<>>
  /\ outcome.engine.escaped => e.escaped

LEMMA InStepFollows ==
  ASSUME NEW e \in Engines, NEW s \in Styles, e.rendered # <<>>,
         NEW raw \in KeyLogs,
         RenderKeys(e, s, raw) = SequenceOps!Front(e.rendered)
  PROVE  Followed(e, s, InStep(e, raw))
<1> DEFINE next == InStep(e, raw).engine
<1>1. next = [raw |-> raw, rendered |-> SequenceOps!Front(e.rendered),
              escaped |-> e.escaped /\ raw # <<>>]
  BY DEF InStep
<1>2. SequenceOps!Front(e.rendered) \in Seq(Chars)
  BY FrontOfWord DEF Engines
<1>3. next \in Engines
  BY <1>1, <1>2 DEF Engines
<1>4. raw = <<>> => next = FreshEngine
  <2>1. ASSUME raw = <<>> PROVE RenderKeys(e, s, raw) = <<>>
    BY <2>1, EngineAssumption DEF RenderKeys
  <2> QED BY <1>1, <2>1 DEF FreshEngine
<1>5. next.rendered = RenderKeys(next, s, next.raw)
  <2>1. CASE raw = <<>>
    BY <1>4, <2>1, FreshAgrees DEF Agrees
  <2>2. CASE raw # <<>>
    <3>1. next.raw = raw /\ next.rendered = RenderKeys(e, s, raw)
      BY <1>1
    <3>2. next.escaped = e.escaped
      BY <1>1, <2>2 DEF Engines
    <3> HIDE DEF next
    <3> QED BY <3>1, <3>2 DEF RenderKeys
  <2> QED BY <2>1, <2>2
<1>6. InStep(e, raw).kind = "InStep" /\ InStep(e, raw).edit = NoEdit
  BY DEF InStep
<1>7. /\ next.raw = raw /\ next.rendered = SequenceOps!Front(e.rendered)
      /\ next.escaped => e.escaped
  <2>1. next.escaped = (e.escaped /\ raw # <<>>)
    BY <1>1
  <2>2. next.raw = raw /\ next.rendered = SequenceOps!Front(e.rendered)
    BY <1>1
  <2> HIDE DEF next
  <2> QED BY <2>1, <2>2, Zenon
<1>8. InStep(e, raw).engine = next
  OBVIOUS
<1> HIDE DEF next
<1> QED BY <1>3, <1>4, <1>5, <1>6, <1>7, <1>8, Zenon DEF Followed, Agrees

LEMMA RepairRewrites ==
  ASSUME NEW e \in Engines, NEW s \in Styles, NEW raw \in KeyLogs, raw # <<>>,
         NEW escaped \in BOOLEAN, escaped => e.escaped,
         NEW rendered, rendered = IF escaped THEN raw ELSE Render(s, raw)
  PROVE  Repaired(e, s, Repair(e, raw, rendered, escaped))
<1>1. rendered \in Seq(Chars)
  BY KeyLogsShowAsTyped, EngineAssumption
<1> QED BY <1>1 DEF Repaired, Repair, Engines, Agrees, RenderKeys

LEMMA BackspaceFollowsOrRepairs ==
  ASSUME NEW e \in Engines, NEW s \in Styles
  PROVE  LET outcome == BackspaceVisibleChar(e, s)
         IN  \/ outcome.kind = "Flush"
             \/ e.rendered # <<>> /\ Followed(e, s, outcome)
             \/ e.rendered # <<>> /\ Repaired(e, s, outcome)
<1>1. CASE e.raw = <<>> \/ e.rendered = <<>>
  BY <1>1 DEF BackspaceVisibleChar, CannotFollow
<1>2. CASE e.raw # <<>> /\ e.rendered # <<>> /\ Droppable(e, s) # {}
  <2> DEFINE last == LastOf(Droppable(e, s))
             raw == SequenceOps!RemoveAt(e.raw, last)
  <2>1. last \in Droppable(e, s)
    <3>1. Droppable(e, s) \subseteq 1..Len(e.raw) /\ Len(e.raw) \in Nat
      BY KeyLogsAreSequences DEF Droppable, Engines
    <3> QED BY <1>2, <3>1, LastOfIsOne
  <2>2. raw \in KeyLogs /\ RenderKeys(e, s, raw) = SequenceOps!Front(e.rendered)
    <3>1. last \in DOMAIN e.raw
      BY <2>1 DEF Droppable
    <3>2. raw \in KeyLogs
      BY <3>1, ShorterLogs DEF Engines
    <3> QED BY <2>1, <3>2 DEF Droppable
  <2>3. BackspaceVisibleChar(e, s) = AfterDropping(e, s, raw)
    BY <1>2 DEF BackspaceVisibleChar
  <2> HIDE DEF last, raw
  <2>4. CASE e.escaped /\ raw # <<>> /\ CanUnescape(s, raw)
    <3>1. AfterDropping(e, s, raw) = Repair(e, raw, Render(s, raw), FALSE)
      BY <2>4 DEF AfterDropping
    <3>2. Repaired(e, s, Repair(e, raw, Render(s, raw), FALSE))
      BY <2>2, <2>4, RepairRewrites
    <3> QED BY <1>2, <2>3, <3>1, <3>2
  <2>5. CASE ~(e.escaped /\ raw # <<>> /\ CanUnescape(s, raw))
    <3>1. AfterDropping(e, s, raw) = InStep(e, raw)
      BY <2>5 DEF AfterDropping
    <3> QED BY <1>2, <2>2, <2>3, <3>1, InStepFollows
  <2> QED BY <2>4, <2>5
<1>3. CASE e.raw # <<>> /\ e.rendered # <<>> /\ Droppable(e, s) = {}
  <2> DEFINE raw == SequenceOps!Front(e.raw)
  <2>1. raw \in KeyLogs
    BY <1>3, FrontOfLog DEF Engines
  <2>2. BackspaceVisibleChar(e, s) = AfterUndoing(e, s, raw)
    BY <1>3 DEF BackspaceVisibleChar
  <2> HIDE DEF raw
  <2>3. CASE raw # <<>> /\ Len(RenderKeys(e, s, raw)) + 1 = Len(e.rendered)
    <3>1. AfterUndoing(e, s, raw) = Repair(e, raw, RenderKeys(e, s, raw), e.escaped)
      BY <2>3 DEF AfterUndoing
    <3>2. RenderKeys(e, s, raw) = IF e.escaped THEN raw ELSE Render(s, raw)
      BY DEF RenderKeys
    <3>3. e.escaped \in BOOLEAN
      BY DEF Engines
    <3>4. Repaired(e, s, Repair(e, raw, RenderKeys(e, s, raw), e.escaped))
      BY <2>1, <2>3, <3>2, <3>3, RepairRewrites
    <3> QED BY <1>3, <2>2, <3>1, <3>4
  <2>4. CASE ~(raw # <<>> /\ Len(RenderKeys(e, s, raw)) + 1 = Len(e.rendered))
    BY <2>2, <2>4 DEF AfterUndoing, CannotFollow
  <2> QED BY <2>3, <2>4
<1> QED BY <1>1, <1>2, <1>3

-----------------------------------------------------------------------------
(* What the operations on the text return.                                  *)

LEMMA TextFacts ==
  /\ <<>> \in Texts /\ Keys \subseteq Characters /\ Chars \subseteq Characters
  /\ Seq(Chars) \subseteq Texts
  /\ NoEdit \in Edits
<1>1. Keys \subseteq Characters /\ Chars \subseteq Characters
  BY EngineAssumption DEF Characters
<1>2. \A w \in Seq(Chars) : w \in Texts
  BY <1>1, SeqMonotonic DEF Texts
<1>3. <<>> \in Texts
  BY EmptySeq DEF Texts
<1> QED BY <1>1, <1>2, <1>3 DEF NoEdit, Edits

(* The text up to a position.                                               *)
LEMMA Beginning ==
  ASSUME NEW S, NEW t \in Seq(S), NEW n \in 0..Len(t)
  PROVE  /\ SubSeq(t, 1, n) \in Seq(S) /\ Len(SubSeq(t, 1, n)) = n
         /\ \A i \in 1..n : SubSeq(t, 1, n)[i] = t[i]
<1>1. Len(t) \in Nat /\ n \in Nat
  BY LenProperties
<1>2. 1 \in 1..(Len(t) + 1) /\ n \in (1 - 1)..Len(t)
  BY <1>1
<1>3. /\ SubSeq(t, 1, n) \in Seq(S) /\ Len(SubSeq(t, 1, n)) = n - 1 + 1
      /\ \A i \in 1..(n - 1 + 1) : SubSeq(t, 1, n)[i] = t[1 + i - 1]
  BY <1>2, SliceProperties
<1> QED BY <1>1, <1>3

LEMMA ApplyType ==
  ASSUME NEW t \in Texts, NEW edit \in Edits
  PROVE  Apply(t, edit) \in Texts
<1> DEFINE n == Len(t) - edit.bs
<1>1. Len(t) \in Nat /\ edit.bs \in Nat /\ edit.ins \in Texts
  BY LenProperties DEF Texts, Edits
<1>2. SubSeq(t, 1, n) \in Texts
  <2>1. CASE n >= 0
    <3>1. n \in 0..Len(t)
      BY <1>1, <2>1
    <3> QED BY <3>1, Beginning DEF Texts
  <2>2. CASE n < 0
    <3>1. n \in Int /\ n < 1
      BY <1>1, <2>2
    <3>2. SubSeq(t, 1, n) = <<>>
      BY <3>1, SubSeqEmpty
    <3> QED BY <3>2, TextFacts
  <2> QED BY <1>1, <2>1, <2>2
<1> QED BY <1>1, <1>2, ConcatProperties DEF Texts, Apply

LEMMA DeletedType ==
  ASSUME NEW t \in Texts
  PROVE  Deleted(t) \in Texts
<1>1. CASE t # <<>>
  <2>1. Len(t) - 1 \in 0..Len(t)
    BY <1>1, EmptySeq DEF Texts
  <2> QED BY <1>1, <2>1, Beginning DEF Deleted, Texts
<1> QED BY <1>1 DEF Deleted

LEMMA LandingsType ==
  ASSUME NEW t \in Texts
  PROVE  Landings(t) \subseteq Texts
BY Beginning, TypingAssumption DEF Landings, Texts

LEMMA TypedType ==
  ASSUME NEW t \in Texts, NEW ch \in Characters
  PROVE  Typed(t, ch) \subseteq Texts
<1>1. Append(t, ch) \in Texts
  BY AppendProperties DEF Texts
<1> QED BY <1>1, LandingsType DEF Typed

LEMMA RewriteType ==
  ASSUME NEW from \in Seq(Chars), NEW to \in Seq(Chars)
  PROVE  Rewrite(from, to) \in Edits
<1>1. Len(from) \in Nat /\ to \in Texts
  BY TextFacts, LenProperties
<1> QED BY <1>1 DEF Rewrite, Edits

LEMMA DiffType ==
  ASSUME NEW prev \in Seq(Chars), NEW next \in Seq(Chars)
  PROVE  Diff(prev, next) \in Edits
<1> DEFINE k == CommonPrefix(prev, next)
<1>1. k \in 0..Len(prev) /\ k <= Len(next) /\ Len(prev) \in Nat /\ Len(next) \in Nat
  BY CommonPrefixIsShared, LenProperties
<1>2. SubSeq(next, k + 1, Len(next)) \in Seq(Chars)
  <2> HIDE DEF k
  <2>1. k + 1 \in 1..(Len(next) + 1) /\ Len(next) \in (k + 1 - 1)..Len(next)
    BY <1>1
  <2> QED BY <2>1, SliceProperties
<1>3. Len(prev) - k \in Nat
  BY <1>1
<1> QED BY <1>2, <1>3, TextFacts DEF Diff, Edits

LEMMA DecisionType ==
  /\ {Passthrough, Consume, ToggleApp, NotAKey} \subseteq Decisions
  /\ \A edit \in Edits : Emit(edit) \in Decisions /\ EmitThenReplayKey(edit) \in Decisions
BY TextFacts DEF Passthrough, Consume, ToggleApp, NotAKey, Emit, EmitThenReplayKey, Decisions

-----------------------------------------------------------------------------
(* What the operations on the session's memory return.                      *)
Histories == {stack \in Seq(Behinds) : Len(stack) <= CommittedHistory}

LEMMA CapType == CommittedHistory \in Nat /\ CommittedHistory >= 1
BY TypingAssumption

LEMMA NothingBehind == <<>> \in Histories
BY EmptySeq, CapType DEF Histories

(* One entry more, and the oldest dropped when there are too many.          *)
LEMMA PushBehindDrops ==
  ASSUME NEW stack \in Histories, NEW entry \in Behinds
  PROVE  \/ /\ PushBehind(stack, entry) = Append(stack, entry)
            /\ Len(stack) + 1 <= CommittedHistory
         \/ /\ PushBehind(stack, entry) = SubSeq(Append(stack, entry), 2, Len(stack) + 1)
            /\ Len(stack) = CommittedHistory
<1> DEFINE longer == Append(stack, entry)
<1>1. /\ longer \in Seq(Behinds) /\ Len(longer) = Len(stack) + 1
      /\ Len(stack) \in Nat /\ Len(stack) <= CommittedHistory
  BY AppendProperties, LenProperties DEF Histories
<1>2. CASE Len(longer) > CommittedHistory
  <2>1. Len(stack) = CommittedHistory
    BY <1>1, <1>2, CapType
  <2>2. PushBehind(stack, entry) =
          SubSeq(longer, Len(longer) - CommittedHistory + 1, Len(longer))
    BY <1>2 DEF PushBehind
  <2> QED BY <1>1, <2>1, <2>2, CapType
<1>3. CASE ~(Len(longer) > CommittedHistory)
  <2>1. PushBehind(stack, entry) = SubSeq(longer, 1, Len(longer))
    BY <1>3 DEF PushBehind
  <2>2. Len(stack) + 1 <= CommittedHistory
    BY <1>1, <1>3, CapType
  <2> QED BY <1>1, <2>1, <2>2, SubSeqFull
<1> QED BY <1>2, <1>3

LEMMA PushBehindType ==
  ASSUME NEW stack \in Histories, NEW entry \in Behinds
  PROVE  PushBehind(stack, entry) \in Histories
<1> DEFINE longer == Append(stack, entry)
<1>1. /\ longer \in Seq(Behinds) /\ Len(longer) = Len(stack) + 1
      /\ Len(stack) \in Nat
  BY AppendProperties, LenProperties DEF Histories
<1>2. CASE PushBehind(stack, entry) = longer /\ Len(stack) + 1 <= CommittedHistory
  BY <1>1, <1>2 DEF Histories
<1>3. CASE PushBehind(stack, entry) = SubSeq(longer, 2, Len(stack) + 1)
           /\ Len(stack) = CommittedHistory
  <2> HIDE DEF longer
  <2>1. 2 \in 1..(Len(longer) + 1) /\ Len(stack) + 1 \in (2 - 1)..Len(longer)
    BY <1>1
  <2>2. /\ SubSeq(longer, 2, Len(stack) + 1) \in Seq(Behinds)
        /\ Len(SubSeq(longer, 2, Len(stack) + 1)) = Len(stack) + 1 - 2 + 1
    BY <1>1, <2>1, SliceProperties
  <2> QED BY <1>1, <1>3, <2>2 DEF Histories
<1> QED BY <1>2, <1>3, PushBehindDrops

LEMMA PopType ==
  ASSUME NEW stack \in Histories, stack # <<>>
  PROVE  /\ SubSeq(stack, 1, Len(stack) - 1) \in Histories
         /\ stack[Len(stack)] \in Behinds
<1>1. Len(stack) \in Nat \ {0} /\ stack \in Seq(Behinds) /\ Len(stack) <= CommittedHistory
  BY EmptySeq DEF Histories
<1>2. Len(stack) - 1 \in 0..Len(stack) /\ Len(stack) \in 1..Len(stack)
  BY <1>1
<1> QED BY <1>1, <1>2, Beginning, ElementOfSeq, CapType DEF Histories

LEMMA BehindType ==
  /\ BareBoundary \in Behinds
  /\ \A e \in Engines : [raw |-> e.raw, rendered |-> e.rendered] \in Behinds
BY FreshEngineType, EmptySeq DEF BareBoundary, Behinds, Engines

LEMMA TypedWordType ==
  ASSUME NEW e \in Engines, NEW s \in Styles
  PROVE  TypedWord(e, s) \in KeyLogs /\ TypedWord(e, s) \in Seq(Chars)
BY KeyLogsShowAsTyped, EngineAssumption DEF TypedWord, Engines

LEMMA LowerWordType ==
  ASSUME NEW word \in KeyLogs
  PROVE  LowerWord(word) \in KeyLogs
<1>1. word \in Seq(Keys) /\ Len(word) <= MaxKeys /\ Len(word) \in Nat
  BY KeyLogsAreSequences, LenProperties
<1>2. \A i \in DOMAIN word : Lower(word[i]) \in Keys
  BY <1>1, ElementOfSeq, TypingAssumption
<1>3. LowerWord(word) \in Seq(Keys) /\ Len(LowerWord(word)) = Len(word)
  BY <1>1, <1>2 DEF LowerWord
<1> QED BY <1>1, <1>3, KeyLogsAreSequences, Zenon

(* A committed word ends up as typed or as rendered.                        *)
LEMMA WantedIsAReading ==
  ASSUME NEW typed, NEW rendered
  PROVE  WantedReading(typed, rendered) \in {typed, rendered}
BY DEF WantedReading

LEMMA OtherReadingType ==
  ASSUME NEW word \in Correctables
  PROVE  /\ OtherReading(word) \in Seq(Chars)
         /\ Swap(word) \in Edits
<1>1. /\ word.raw \in Seq(Chars) /\ word.rendered \in Seq(Chars)
      /\ word.onScreen \in Seq(Chars) /\ word.boundary \in Characters
  BY KeyLogsShowAsTyped, TextFacts DEF Correctables, Characters
<1>2. OtherReading(word) \in Seq(Chars)
  BY <1>1 DEF OtherReading
<1>3. Append(OtherReading(word), word.boundary) \in Texts
  BY <1>1, <1>2, TextFacts, AppendProperties DEF Texts
<1>4. Len(word.onScreen) + 1 \in Nat
  BY <1>1, LenProperties
<1> QED BY <1>2, <1>3, <1>4 DEF Swap, Edits

LEMMA ToggledType ==
  ASSUME NEW x \in Lists, NEW a \in Apps
  PROVE  Toggled(x, a) \in Lists
BY DEF Toggled, SuspendForSession, Remove, Resume, Add, Lists

LEMMA InitialExclusions ==
  FromSaved(DefaultTable, {}, ShippedTable(DefaultTable)) \in Lists
BY AppsAssumption, TypingAssumption DEF FromSaved, ShippedTable, Lists

-----------------------------------------------------------------------------
(* Types, step by step.  A step leaves a well-typed engine, memory and text *)
(* behind; what it does not touch keeps its type.                           *)
EngineTyped == engine \in Engines
MemoryTyped == committed \in Histories /\ correctable \in Correctables \cup {NoWord}
LearnedTyped == prefersRaw \subseteq KeyLogs /\ prefersVietnamese \subseteq KeyLogs
PolicyTyped ==
  /\ settings \in Settings
  /\ spellCheck = (settings.autoFix /\ settings.strict)
  /\ mode \in {"Vietnamese", "English"}
  /\ app \in Apps \cup {NoApp}
  /\ exclusions \in Lists

LEMMA TypeOKParts ==
  TypeOK <=> /\ text \in Texts /\ EngineTyped /\ PolicyTyped /\ MemoryTyped
             /\ LearnedTyped /\ pendingCapital \in BOOLEAN /\ decision \in Decisions
BY DEF TypeOK, EngineTyped, PolicyTyped, MemoryTyped, LearnedTyped, Histories

LEMMA TypeOKNext ==
  ASSUME text' \in Texts, EngineTyped', PolicyTyped', MemoryTyped', LearnedTyped',
         pendingCapital' \in BOOLEAN, decision' \in Decisions
  PROVE  TypeOK'
BY DEF TypeOK, EngineTyped, PolicyTyped, MemoryTyped, LearnedTyped, Histories

LEMMA TypeInit == Init => TypeOK
<1> SUFFICES ASSUME Init PROVE TypeOK
  OBVIOUS
<1>1. text \in Texts /\ decision \in Decisions
  BY TextFacts, DecisionType DEF Init
<1>2. EngineTyped
  BY FreshEngineType DEF Init, EngineTyped
<1>3. MemoryTyped
  BY NothingBehind DEF Init, MemoryTyped
<1>4. PolicyTyped
  BY InitialExclusions, TypingAssumption DEF Init, PolicyTyped
<1>5. LearnedTyped /\ pendingCapital \in BOOLEAN
  BY DEF Init, LearnedTyped
<1> QED BY <1>1, <1>2, <1>3, <1>4, <1>5, TypeOKParts

LEMMA FrameTyped ==
  ASSUME TypeOK
  PROVE  /\ UNCHANGED policy => PolicyTyped'
         /\ UNCHANGED learned => LearnedTyped'
         /\ UNCHANGED memory => MemoryTyped'
         /\ UNCHANGED engine => EngineTyped'
<1> USE TypeOKParts
<1>1. ASSUME UNCHANGED policy PROVE PolicyTyped'
  BY <1>1 DEF policy, PolicyTyped
<1>2. ASSUME UNCHANGED learned PROVE LearnedTyped'
  BY <1>2 DEF learned, LearnedTyped
<1>3. ASSUME UNCHANGED memory PROVE MemoryTyped'
  BY <1>3 DEF memory, MemoryTyped
<1>4. ASSUME UNCHANGED engine PROVE EngineTyped'
  BY <1>4 DEF EngineTyped
<1> QED BY <1>1, <1>2, <1>3, <1>4

LEMMA ResetTyped ==
  ASSUME TypeOK
  PROVE  /\ ForgetPosition => MemoryTyped'
         /\ ResetEngine => EngineTyped'
BY FreshEngineType, NothingBehind DEF ForgetPosition, ResetEngine, MemoryTyped, EngineTyped

LEMMA FlushTyped ==
  ASSUME TypeOK, Flush
  PROVE  MemoryTyped' /\ EngineTyped' /\ pendingCapital' \in BOOLEAN
BY ResetTyped DEF Flush

LEMMA TypedAWordKey ==
  ASSUME TypeOK, NEW key \in Keys, TypeWordKey(key)
  PROVE  /\ engine' \in Engines /\ engine'.raw # <<>>
         /\ Agrees(engine', settings.style)
         /\ IsActive /\ engine'.escaped => engine.escaped \/ spellCheck
<1>1. /\ engine \in Engines /\ settings.style \in Styles /\ spellCheck \in BOOLEAN
      /\ Len(engine.raw) < MaxKeys /\ engine' = Extended(key)
  BY DEF TypeOK, Settings, TypeWordKey
<1>2. Capitalised(key) \in Keys
  BY TypingAssumption DEF Capitalised
<1>3. CASE IsActive
  <2>1. engine' = ProcessKey(engine, settings.style, spellCheck, Capitalised(key))
    BY <1>1, <1>3 DEF Extended
  <2> QED BY <1>1, <1>2, <2>1, ProcessKeyAgrees
<1>4. CASE ~IsActive
  <2>1. engine' = ProcessKeyVerbatim(engine, settings.style, spellCheck, key)
    BY <1>1, <1>4 DEF Extended
  <2> QED BY <1>1, <1>4, <2>1, ProcessKeyVerbatimAgrees
<1> QED BY <1>3, <1>4

LEMMA TypeWordKeyTyped ==
  ASSUME TypeOK, NEW key \in Keys, TypeWordKey(key)
  PROVE  TypeOK'
<1>1. engine.rendered \in Seq(Chars) /\ engine'.rendered \in Seq(Chars) /\ EngineTyped'
  BY TypedAWordKey DEF TypeOK, Engines, EngineTyped
<1> DEFINE edit == Diff(engine.rendered, engine'.rendered)
<1>2. edit \in Edits
  BY <1>1, DiffType
<1>3. decision' = Emit(edit) /\ text' = Apply(text, edit)
  BY DEF TypeWordKey, Emit
<1> HIDE DEF edit
<1>4. decision' \in Decisions /\ text' \in Texts
  BY <1>2, <1>3, DecisionType, ApplyType DEF TypeOK
<1>5. MemoryTyped'
  BY TypeOKParts DEF TypeWordKey, MemoryTyped
<1>6. pendingCapital' \in BOOLEAN
  BY DEF TypeWordKey
<1>7. PolicyTyped' /\ LearnedTyped'
  BY FrameTyped DEF TypeWordKey
<1> QED BY <1>1, <1>4, <1>5, <1>6, <1>7, TypeOKNext

LEMMA EndsAWordIsACharacter ==
  ASSUME NEW ch, EndsAWord(ch)
  PROVE  /\ ch \in Characters
         /\ ch \in ControlKeys \/ ch \in Boundaries \cup Keys
BY TextFacts DEF EndsAWord, Characters

LEMMA NoteBoundaryTyped ==
  ASSUME TypeOK, NEW ch, NEW stack \in Histories,
         NEW word \in Correctables \cup {NoWord}, NoteBoundary(ch, stack, word)
  PROVE  MemoryTyped' /\ pendingCapital' \in BOOLEAN
<1>1. MemoryTyped'
  BY ResetTyped DEF NoteBoundary, MemoryTyped
<1> QED BY <1>1 DEF NoteBoundary

LEMMA ExpandMacroTyped ==
  ASSUME TypeOK, NEW ch, ExpandMacro(ch)
  PROVE  TypeOK'
<1>1. PICK shortcut \in PendingMacros :
        LET edit == Rewrite(engine.rendered, Macros[shortcut])
        IN  IF ch = Tab
            THEN decision' = Emit(edit) /\ text' = Apply(text, edit)
            ELSE /\ decision' = EmitThenReplayKey(edit)
                 /\ text' \in Typed(Apply(text, edit), ch)
  BY DEF ExpandMacro
<1> DEFINE edit == Rewrite(engine.rendered, Macros[shortcut])
<1>2. edit \in Edits
  <2>1. Macros[shortcut] \in Seq(Chars)
    BY TypingAssumption DEF PendingMacros
  <2> QED BY <2>1, RewriteType DEF TypeOK, Engines
<1> HIDE DEF edit
<1>3. Apply(text, edit) \in Texts /\ ch \in Characters
  BY <1>2, ApplyType, EndsAWordIsACharacter DEF TypeOK, ExpandMacro
<1>4. text' \in Texts /\ decision' \in Decisions
  BY <1>1, <1>2, <1>3, TypedType, DecisionType DEF edit
<1>5. EngineTyped' /\ PolicyTyped' /\ LearnedTyped'
  BY ResetTyped, FrameTyped DEF ExpandMacro
<1>6. MemoryTyped' /\ pendingCapital' \in BOOLEAN
  <2>1. NoteBoundary(ch, <<>>, NoWord)
    BY DEF ExpandMacro
  <2> QED BY <2>1, NothingBehind, NoteBoundaryTyped
<1> QED BY <1>4, <1>5, <1>6, TypeOKNext

LEMMA CommittedAfterTyped ==
  ASSUME TypeOK, NEW wanted
  PROVE  CommittedAfter(wanted) \in Histories
<1>1. committed \in Histories /\ engine \in Engines
  BY DEF TypeOK, Histories
<1> QED BY <1>1, BehindType, PushBehindType, NothingBehind DEF CommittedAfter

LEMMA CorrectableAfterTyped ==
  ASSUME TypeOK, NEW wanted \in {TypedWord(engine, settings.style), engine.rendered},
         NEW ch \in Boundaries \cup Keys
  PROVE  CorrectableAfter(wanted, ch) \in Correctables \cup {NoWord}
<1>1. engine \in Engines /\ engine.rendered \in Seq(Chars) /\ settings.style \in Styles
  BY DEF TypeOK, Engines, Settings
<1>2. TypedWord(engine, settings.style) \in KeyLogs /\ wanted \in Seq(Chars)
  BY <1>1, TypedWordType
<1> QED BY <1>1, <1>2 DEF CorrectableAfter, Correctables

LEMMA CommitWordTyped ==
  ASSUME TypeOK, NEW ch, CommitWord(ch)
  PROVE  TypeOK'
<1> DEFINE wanted == WantedReading(TypedWord(engine, settings.style), engine.rendered)
           edit == Rewrite(engine.rendered, wanted)
<1>1. /\ wanted \in {TypedWord(engine, settings.style), engine.rendered} /\ wanted \in Seq(Chars)
      /\ edit \in Edits
  <2>1. wanted \in {TypedWord(engine, settings.style), engine.rendered}
    BY WantedIsAReading
  <2>2. engine.rendered \in Seq(Chars) /\ TypedWord(engine, settings.style) \in Seq(Chars)
    BY TypedWordType DEF TypeOK, Engines, Settings
  <2> HIDE DEF wanted
  <2> QED BY <2>1, <2>2, RewriteType
<1>2. /\ \/ decision' = EmitThenReplayKey(edit) /\ text' \in Typed(Apply(text, edit), ch)
         \/ decision' = Passthrough /\ text' \in Typed(text, ch)
      /\ NoteBoundary(ch, CommittedAfter(wanted), CorrectableAfter(wanted, ch))
      /\ EndsAWord(ch) /\ ResetEngine /\ UNCHANGED policy /\ UNCHANGED learned
  BY DEF CommitWord
<1> HIDE DEF wanted, edit
<1>3. text' \in Texts /\ decision' \in Decisions
  <2>1. ch \in Characters /\ Apply(text, edit) \in Texts /\ text \in Texts
    BY <1>1, <1>2, ApplyType, EndsAWordIsACharacter DEF TypeOK
  <2> QED BY <1>1, <1>2, <2>1, TypedType, DecisionType
<1>4. EngineTyped' /\ PolicyTyped' /\ LearnedTyped'
  BY <1>2, ResetTyped, FrameTyped
<1>5. MemoryTyped' /\ pendingCapital' \in BOOLEAN
  <2>1. CASE ch \in ControlKeys
    <3>1. ForgetPosition /\ pendingCapital' \in BOOLEAN
      BY <1>2, <2>1 DEF NoteBoundary
    <3> QED BY <3>1, ResetTyped
  <2>2. CASE ch \notin ControlKeys
    <3>1. CorrectableAfter(wanted, ch) \in Correctables \cup {NoWord}
      BY <1>1, <1>2, <2>2, EndsAWordIsACharacter, CorrectableAfterTyped
    <3>2. CommittedAfter(wanted) \in Histories
      BY CommittedAfterTyped
    <3> QED BY <1>2, <3>1, <3>2, NoteBoundaryTyped
  <2> QED BY <2>1, <2>2
<1> QED BY <1>3, <1>4, <1>5, TypeOKNext

LEMMA ReopenWordTyped ==
  ASSUME TypeOK, ReopenWord
  PROVE  TypeOK'
<1> DEFINE entry == committed[Len(committed)]
<1>1. /\ committed \in Histories /\ committed # <<>> /\ entry \in Behinds
      /\ SubSeq(committed, 1, Len(committed) - 1) \in Histories
  BY PopType DEF TypeOK, Histories, ReopenWord
<1>2. EngineTyped'
  <2>1. /\ engine \in Engines
        /\ engine' = IF entry = BareBoundary THEN engine
                     ELSE Restore(engine, settings.style, entry.raw, entry.rendered)
    BY DEF TypeOK, ReopenWord
  <2> HIDE DEF entry
  <2>2. Restore(engine, settings.style, entry.raw, entry.rendered) \in Engines
    BY <1>1 DEF Restore, Engines, Behinds
  <2> QED BY <2>1, <2>2 DEF EngineTyped
<1>3. MemoryTyped'
  BY <1>1, TypeOKParts DEF ReopenWord, MemoryTyped
<1>4. text' \in Texts /\ decision' \in Decisions
  BY DeletedType, DecisionType DEF ReopenWord, TypeOK
<1>5. PolicyTyped' /\ LearnedTyped' /\ pendingCapital' \in BOOLEAN
  BY FrameTyped DEF ReopenWord, TypeOK
<1> QED BY <1>2, <1>3, <1>4, <1>5, TypeOKNext

LEMMA ShrinkWordTyped ==
  ASSUME TypeOK, ShrinkWord
  PROVE  TypeOK'
<1> DEFINE outcome == BackspaceVisibleChar(engine, settings.style)
<1>1. engine \in Engines /\ settings.style \in Styles
  BY DEF TypeOK, Settings
<1>2. /\ outcome.kind # "Flush" /\ engine' = outcome.engine
      /\ IF outcome.kind = "Repair"
         THEN decision' = Emit(outcome.edit) /\ text' = Apply(text, outcome.edit)
         ELSE decision' = Passthrough /\ text' = Deleted(text)
  BY DEF ShrinkWord, Emit
<1>3. \/ Followed(engine, settings.style, outcome)
      \/ Repaired(engine, settings.style, outcome)
  BY <1>1, <1>2, BackspaceFollowsOrRepairs
<1> HIDE DEF outcome
<1>4. EngineTyped'
  BY <1>2, <1>3 DEF Followed, Repaired, EngineTyped
<1>5. text' \in Texts /\ decision' \in Decisions
  <2>1. CASE Followed(engine, settings.style, outcome)
    BY <1>2, <2>1, DeletedType, DecisionType DEF Followed, TypeOK
  <2>2. CASE Repaired(engine, settings.style, outcome)
    <3>1. outcome.edit = Rewrite(engine.rendered, outcome.engine.rendered)
      BY <2>2 DEF Repaired
    <3>2. outcome.engine.rendered \in Seq(Chars) /\ engine.rendered \in Seq(Chars)
      BY <1>1, <2>2 DEF Repaired, Engines
    <3>3. outcome.edit \in Edits
      BY <3>1, <3>2, RewriteType
    <3> QED BY <1>2, <2>2, <3>3, ApplyType, DecisionType DEF Repaired, TypeOK
  <2> QED BY <1>3, <2>1, <2>2
<1>6. MemoryTyped'
  BY TypeOKParts DEF ShrinkWord, MemoryTyped
<1>7. PolicyTyped' /\ LearnedTyped' /\ pendingCapital' \in BOOLEAN
  BY FrameTyped DEF ShrinkWord, TypeOK
<1> QED BY <1>4, <1>5, <1>6, <1>7, TypeOKNext

LEMMA LoseWordTyped ==
  ASSUME TypeOK, LoseWord
  PROVE  TypeOK'
<1>1. text' \in Texts /\ decision' \in Decisions
  BY DeletedType, DecisionType DEF LoseWord, TypeOK
<1>2. MemoryTyped' /\ EngineTyped' /\ pendingCapital' \in BOOLEAN
  BY FlushTyped DEF LoseWord
<1>3. PolicyTyped' /\ LearnedTyped'
  BY FrameTyped DEF LoseWord
<1> QED BY <1>1, <1>2, <1>3, TypeOKNext

(* Steps that flush, and steps that leave the engine and its memory alone.  *)
LEMMA CaretStepsTyped ==
  ASSUME TypeOK, MoveCaret \/ Shortcut \/ Click
  PROVE  TypeOK'
<1>1. /\ Flush /\ text' \in Landings(text) /\ UNCHANGED policy /\ UNCHANGED learned
      /\ decision' \in {Passthrough, NotAKey}
  BY DEF MoveCaret, Shortcut, Click
<1>2. text' \in Texts /\ decision' \in Decisions
  BY <1>1, LandingsType, DecisionType DEF TypeOK
<1> QED BY <1>1, <1>2, FlushTyped, FrameTyped, TypeOKNext

LEMMA DeafStepsTyped ==
  ASSUME TypeOK, KeyWhileDeaf \/ PassCorrectionKey \/ KeyWithoutACharacter \/ ToggleNoApp
  PROVE  TypeOK'
<1>1. /\ UNCHANGED engine /\ UNCHANGED memory /\ UNCHANGED pendingCapital
      /\ UNCHANGED policy /\ UNCHANGED learned /\ decision' \in {Passthrough, ToggleApp}
  BY DEF KeyWhileDeaf, PassCorrectionKey, KeyWithoutACharacter, LetThrough, ToggleNoApp
<1>2. text' \in Texts
  <2>1. \A c \in Keys : Append(text, c) \in Texts
    BY TextFacts, AppendProperties DEF TypeOK, Texts
  <2>2. text \in Texts /\ Landings(text) \subseteq Texts
    BY LandingsType DEF TypeOK
  <2> QED BY <2>1, <2>2 DEF KeyWhileDeaf, PassCorrectionKey, KeyWithoutACharacter, LetThrough, ToggleNoApp
<1>3. pendingCapital' \in BOOLEAN
  BY <1>1 DEF TypeOK
<1> QED BY <1>1, <1>2, <1>3, FrameTyped, DecisionType, TypeOKNext

(* The toggles, the frontmost application and the settings.                 *)
LEMMA PolicyStepsTyped ==
  ASSUME TypeOK,
         \/ ToggleMode
         \/ \E a \in Apps : ToggleAppHotkey(a) \/ SetFrontmostApp(a)
         \/ \E style \in Styles : SetStyle(style)
         \/ \E autoFix, strict \in BOOLEAN : SetChecks(autoFix, strict)
         \/ \E on \in BOOLEAN : SetAlwaysMacro(on)
  PROVE  TypeOK'
<1>1. LearnedTyped' /\ pendingCapital' \in BOOLEAN
  <2>1. UNCHANGED learned /\ UNCHANGED pendingCapital
    BY DEF ToggleMode, ToggleAppHotkey, SetFrontmostApp, SetStyle, SetChecks, SetAlwaysMacro
  <2> QED BY <2>1, FrameTyped DEF TypeOK
<1>2. EngineTyped' /\ MemoryTyped'
  <2>1. \/ ForgetPosition /\ ResetEngine
        \/ UNCHANGED engine /\ UNCHANGED memory
    BY DEF ToggleMode, ToggleAppHotkey, SetFrontmostApp, SetStyle, SetChecks, SetAlwaysMacro
  <2> QED BY <2>1, ResetTyped, FrameTyped
<1>3. text' \in Texts /\ decision' \in Decisions
  <2>1. text' \in {text} \cup Landings(text)
    BY DEF ToggleMode, ToggleAppHotkey, SetFrontmostApp, SetStyle, SetChecks, SetAlwaysMacro
  <2>2. decision' \in {Consume, ToggleApp, NotAKey}
    BY DEF ToggleMode, ToggleAppHotkey, SetFrontmostApp, SetStyle, SetChecks, SetAlwaysMacro
  <2> QED BY <2>1, <2>2, LandingsType, DecisionType DEF TypeOK
<1>4. PolicyTyped'
  <2> USE TypeOKParts
  <2>1. CASE ToggleMode
    BY <2>1 DEF ToggleMode, PolicyTyped
  <2>2. ASSUME NEW a \in Apps, ToggleAppHotkey(a) PROVE PolicyTyped'
    BY <2>2, ToggledType DEF ToggleAppHotkey, PolicyTyped
  <2>3. ASSUME NEW a \in Apps, SetFrontmostApp(a) PROVE PolicyTyped'
    BY <2>3 DEF SetFrontmostApp, PolicyTyped
  <2>4. ASSUME NEW style \in Styles, SetStyle(style) PROVE PolicyTyped'
    BY <2>4 DEF SetStyle, PolicyTyped, Settings
  <2>5. ASSUME NEW autoFix \in BOOLEAN, NEW strict \in BOOLEAN, SetChecks(autoFix, strict)
        PROVE PolicyTyped'
    BY <2>5 DEF SetChecks, PolicyTyped, Settings
  <2>6. ASSUME NEW on \in BOOLEAN, SetAlwaysMacro(on) PROVE PolicyTyped'
    BY <2>6 DEF SetAlwaysMacro, PolicyTyped, Settings
  <2> QED BY <2>1, <2>2, <2>3, <2>4, <2>5, <2>6
<1> QED BY <1>1, <1>2, <1>3, <1>4, TypeOKNext

LEMMA CorrectionStepsTyped ==
  ASSUME TypeOK, CorrectLastWord \/ CorrectNothing
  PROVE  TypeOK'
<1>1. PolicyTyped' /\ EngineTyped' /\ pendingCapital' \in BOOLEAN
  <2>1. UNCHANGED policy /\ UNCHANGED engine /\ UNCHANGED pendingCapital
    BY DEF CorrectLastWord, CorrectNothing
  <2> QED BY <2>1, FrameTyped DEF TypeOK
<1>2. MemoryTyped'
  BY ResetTyped, FrameTyped DEF CorrectLastWord, CorrectNothing
<1>3. CASE CorrectLastWord
  <2>1. correctable \in Correctables
    BY <1>3 DEF TypeOK, CorrectLastWord
  <2>2. Swap(correctable) \in Edits
    BY <2>1, OtherReadingType
  <2>3. text' \in Texts /\ decision' \in Decisions
    BY <1>3, <2>2, ApplyType, DecisionType DEF TypeOK, CorrectLastWord
  <2>4. LowerWord(correctable.raw) \in KeyLogs
    BY <2>1, LowerWordType DEF Correctables
  <2>5. LearnedTyped'
    BY <1>3, <2>4 DEF TypeOK, CorrectLastWord, Learn, LearnedTyped
  <2> QED BY <1>1, <1>2, <2>3, <2>5, TypeOKNext
<1>4. CASE CorrectNothing
  <2>1. text' \in Texts /\ decision' \in Decisions /\ LearnedTyped'
    BY <1>4, DecisionType, FrameTyped DEF TypeOK, CorrectNothing
  <2> QED BY <1>1, <1>2, <2>1, TypeOKNext
<1> QED BY <1>3, <1>4

LEMMA StutterTyped ==
  ASSUME TypeOK, UNCHANGED vars
  PROVE  TypeOK'
BY DEF TypeOK, vars, memory, policy, learned

(* Every reachable state of the session is well typed, with the history     *)
(* within its cap and the engine's copy of the spell check in agreement     *)
(* with the settings.                                                       *)
THEOREM TypeCorrect == Spec => []TypeOK
<1>1. TypeOK /\ [Next]_vars => TypeOK'
  <2> SUFFICES ASSUME TypeOK, [Next]_vars PROVE TypeOK'
    OBVIOUS
  <2>1. ASSUME NEW key \in Keys, TypeWordKey(key) PROVE TypeOK'
    BY <2>1, TypeWordKeyTyped
  <2>2. ASSUME NEW ch, Boundary(ch) PROVE TypeOK'
    BY <2>2, ExpandMacroTyped, CommitWordTyped DEF Boundary
  <2>3. CASE Backspace
    BY <2>3, ReopenWordTyped, ShrinkWordTyped, LoseWordTyped DEF Backspace
  <2>4. CASE CorrectionHotkey
    BY <2>4, CorrectionStepsTyped, DeafStepsTyped DEF CorrectionHotkey
  <2> QED BY <2>1, <2>2, <2>3, <2>4, CaretStepsTyped, DeafStepsTyped,
             PolicyStepsTyped, StutterTyped DEF Next
<1> QED BY <1>1, TypeInit, PTL DEF Spec

-----------------------------------------------------------------------------
(* The keys of a word and what it shows belong together, in the engine and  *)
(* in every word of the history.                                            *)

(* The entries of a history that grew or shrank.                            *)

LEMMA PushedEntries ==
  ASSUME NEW stack \in Histories, NEW entry \in Behinds,
         NEW i \in DOMAIN PushBehind(stack, entry)
  PROVE  \/ PushBehind(stack, entry)[i] = entry
         \/ \E j \in DOMAIN stack : PushBehind(stack, entry)[i] = stack[j]
<1> DEFINE longer == Append(stack, entry)
<1>1. /\ longer \in Seq(Behinds) /\ Len(longer) = Len(stack) + 1
      /\ Len(stack) \in Nat /\ DOMAIN stack = 1..Len(stack)
      /\ \A j \in 1..Len(stack) : longer[j] = stack[j]
      /\ longer[Len(stack) + 1] = entry
  BY AppendProperties, LenProperties DEF Histories
<1>2. \A j \in 1..Len(longer) : longer[j] = entry \/ \E k \in DOMAIN stack : longer[j] = stack[k]
  <2> HIDE DEF longer
  <2> SUFFICES ASSUME NEW j \in 1..Len(longer)
               PROVE  longer[j] = entry \/ \E k \in DOMAIN stack : longer[j] = stack[k]
    OBVIOUS
  <2>1. j \in 1..Len(stack) \/ j = Len(stack) + 1
    BY <1>1
  <2> QED BY <1>1, <2>1
<1>3. CASE PushBehind(stack, entry) = longer
  <2>1. i \in 1..Len(longer)
    BY <1>1, <1>3
  <2> QED BY <1>2, <1>3, <2>1
<1>4. CASE PushBehind(stack, entry) = SubSeq(longer, 2, Len(stack) + 1)
  <2> HIDE DEF longer
  <2>1. 2 \in 1..(Len(longer) + 1) /\ Len(stack) + 1 \in (2 - 1)..Len(longer)
    BY <1>1
  <2>2. /\ SubSeq(longer, 2, Len(stack) + 1) \in Seq(Behinds)
        /\ Len(SubSeq(longer, 2, Len(stack) + 1)) = Len(stack) + 1 - 2 + 1
        /\ \A j \in 1..(Len(stack) + 1 - 2 + 1) :
             SubSeq(longer, 2, Len(stack) + 1)[j] = longer[2 + j - 1]
    BY <1>1, <2>1, SliceProperties
  <2>3. i \in 1..Len(stack)
    BY <1>1, <1>4, <2>2
  <2>4. PushBehind(stack, entry)[i] = longer[i + 1] /\ i + 1 \in 1..Len(longer)
    BY <1>1, <1>4, <2>2, <2>3
  <2> QED BY <1>2, <2>4
<1> QED BY <1>3, <1>4, PushBehindDrops

LEMMA PoppedEntries ==
  ASSUME NEW stack \in Histories, stack # <<>>
  PROVE  /\ DOMAIN SubSeq(stack, 1, Len(stack) - 1) = 1..(Len(stack) - 1)
         /\ \A i \in 1..(Len(stack) - 1) :
              i \in DOMAIN stack /\ SubSeq(stack, 1, Len(stack) - 1)[i] = stack[i]
         /\ Len(stack) \in DOMAIN stack /\ Len(stack) \in Nat \ {0}
<1>1. Len(stack) \in Nat \ {0} /\ stack \in Seq(Behinds) /\ DOMAIN stack = 1..Len(stack)
  BY EmptySeq, LenProperties DEF Histories
<1>2. Len(stack) - 1 \in 0..Len(stack)
  BY <1>1
<1>3. /\ SubSeq(stack, 1, Len(stack) - 1) \in Seq(Behinds)
      /\ Len(SubSeq(stack, 1, Len(stack) - 1)) = Len(stack) - 1
      /\ \A i \in 1..(Len(stack) - 1) : SubSeq(stack, 1, Len(stack) - 1)[i] = stack[i]
  BY <1>1, <1>2, Beginning
<1>4. DOMAIN SubSeq(stack, 1, Len(stack) - 1) = 1..(Len(stack) - 1)
  BY <1>3, LenProperties
<1> QED BY <1>1, <1>3, <1>4

-----------------------------------------------------------------------------
(* Keys and rendering.  The two invariants are proved together: what one    *)
(* step keeps of the first it needs for the second.                         *)
WordsAgree == KeysAndRenderingAgree /\ EscapesAreTheSpellChecks

LEMMA WordsAgreeAfterReset ==
  ASSUME TypeOK', ResetEngine, committed' = <<>>
  PROVE  WordsAgree'
<1>1. settings'.style \in Styles
  BY DEF TypeOK, Settings
<1>2. Agrees(FreshEngine, settings'.style)
  BY <1>1, FreshAgrees
<1> QED BY <1>2 DEF ResetEngine, Agrees, FreshEngine, RenderKeys,
        WordsAgree, KeysAndRenderingAgree, EscapesAreTheSpellChecks

LEMMA WordsAgreeUnchanged ==
  ASSUME TypeOK, WordsAgree, UNCHANGED engine, UNCHANGED committed,
         settings'.style = settings.style, UNCHANGED spellCheck, UNCHANGED mode
  PROVE  WordsAgree'
BY DEF WordsAgree, KeysAndRenderingAgree, EscapesAreTheSpellChecks, Produced, RenderKeys

LEMMA WordsAgreeWithNewWord ==
  ASSUME TypeOK, WordsAgree, UNCHANGED committed, UNCHANGED policy,
         engine'.raw # <<>> \/ engine' = FreshEngine,
         Agrees(engine', settings.style),
         mode = "Vietnamese" /\ ~spellCheck => ~engine'.escaped
  PROVE  WordsAgree'
BY DEF WordsAgree, KeysAndRenderingAgree, EscapesAreTheSpellChecks, Produced, RenderKeys,
       Agrees, policy

LEMMA WordsAgreeInit == Init => WordsAgree
<1> SUFFICES ASSUME Init PROVE WordsAgree
  OBVIOUS
<1>1. engine = FreshEngine /\ committed = <<>> /\ settings.style \in Styles
  BY TypeInit DEF Init, TypeOK, Settings
<1>2. Agrees(FreshEngine, settings.style)
  BY <1>1, FreshAgrees
<1> QED BY <1>1, <1>2 DEF Agrees, FreshEngine, WordsAgree, KeysAndRenderingAgree,
        EscapesAreTheSpellChecks

(* The word at the end of its life: it goes into the history as it stands.  *)
LEMMA CommittedWordsAgree ==
  ASSUME TypeOK, WordsAgree, NEW wanted, NEW i \in DOMAIN CommittedAfter(wanted)
  PROVE  /\ Produced(CommittedAfter(wanted)[i].raw, CommittedAfter(wanted)[i].rendered)
         /\ mode = "Vietnamese" /\ ~spellCheck =>
              CommittedAfter(wanted)[i].rendered
                = Render(settings.style, CommittedAfter(wanted)[i].raw)
<1> DEFINE Good(entry) ==
             /\ Produced(entry.raw, entry.rendered)
             /\ mode = "Vietnamese" /\ ~spellCheck =>
                  entry.rendered = Render(settings.style, entry.raw)
           word == [raw |-> engine.raw, rendered |-> engine.rendered]
<1>1. \A j \in DOMAIN committed : Good(committed[j])
  BY DEF WordsAgree, KeysAndRenderingAgree, EscapesAreTheSpellChecks
<1>2. Good(BareBoundary)
  BY EngineAssumption DEF BareBoundary, Produced, TypeOK, Settings
<1>3. Good(word)
  BY DEF WordsAgree, KeysAndRenderingAgree, EscapesAreTheSpellChecks, RenderKeys, Produced
<1>4. /\ committed \in Histories
      /\ BareBoundary \in Behinds /\ word \in Behinds
  BY BehindType DEF TypeOK, Histories
<1>5. CASE CommittedAfter(wanted) = PushBehind(committed, BareBoundary)
  <2> HIDE DEF Good, word
  <2> QED BY <1>1, <1>2, <1>4, <1>5, PushedEntries DEF Good
<1>6. CASE CommittedAfter(wanted) = PushBehind(committed, word)
  <2> HIDE DEF Good, word
  <2> QED BY <1>1, <1>3, <1>4, <1>6, PushedEntries DEF Good
<1>7. CASE CommittedAfter(wanted) = <<>>
  BY <1>7, EmptySeq
<1> QED BY <1>5, <1>6, <1>7 DEF CommittedAfter

LEMMA BoundaryAgrees ==
  ASSUME TypeOK, TypeOK', WordsAgree, NEW ch, Boundary(ch)
  PROVE  WordsAgree'
<1>1. CASE ExpandMacro(ch)
  <2>1. ResetEngine /\ committed' = <<>>
    BY <1>1 DEF ExpandMacro, NoteBoundary, ForgetPosition
  <2> QED BY <2>1, WordsAgreeAfterReset
<1>2. CASE CommitWord(ch)
  <2>1. ResetEngine /\ UNCHANGED policy
    BY <1>2 DEF CommitWord
  <2>2. PICK wanted : committed' = <<>> \/ committed' = CommittedAfter(wanted)
    BY <1>2 DEF CommitWord, NoteBoundary, ForgetPosition
  <2>3. CASE committed' = <<>>
    BY <2>1, <2>3, WordsAgreeAfterReset
  <2>4. CASE committed' = CommittedAfter(wanted)
    <3>1. Agrees(FreshEngine, settings.style)
      BY FreshAgrees DEF TypeOK, Settings
    <3>2. KeysAndRenderingAgree'
      BY <2>1, <2>4, <3>1, CommittedWordsAgree
         DEF KeysAndRenderingAgree, ResetEngine, policy, Produced, Agrees, RenderKeys
    <3>3. EscapesAreTheSpellChecks'
      BY <2>1, <2>4, CommittedWordsAgree
         DEF EscapesAreTheSpellChecks, ResetEngine, policy, FreshEngine
    <3> QED BY <3>2, <3>3 DEF WordsAgree
  <2> QED BY <2>2, <2>3, <2>4
<1> QED BY <1>1, <1>2 DEF Boundary

LEMMA TypeWordKeyAgrees ==
  ASSUME TypeOK, WordsAgree, NEW key \in Keys, TypeWordKey(key)
  PROVE  WordsAgree'
<1>1. mode = "Vietnamese" => IsActive
  BY DEF TypeWordKey, Listening, MacrosActive
<1>2. mode = "Vietnamese" /\ ~spellCheck => ~engine'.escaped
  BY <1>1, TypedAWordKey DEF WordsAgree, EscapesAreTheSpellChecks
<1> QED BY <1>2, TypedAWordKey, WordsAgreeWithNewWord DEF TypeWordKey

(* A word re-opened goes on as the word it was, escaped only if it had been.*)
LEMMA ReopenWordAgrees ==
  ASSUME TypeOK, WordsAgree, ReopenWord
  PROVE  WordsAgree'
<1> DEFINE entry == committed[Len(committed)]
<1>1. committed \in Histories /\ committed # <<>> /\ settings.style \in Styles
  BY DEF TypeOK, Histories, Settings, ReopenWord
<1>2. engine = FreshEngine
  BY DEF ReopenWord, IsComposing, WordsAgree, KeysAndRenderingAgree
<1>3. Produced(entry.raw, entry.rendered) /\ entry \in Behinds /\ Len(committed) \in DOMAIN committed
  BY <1>1, PopType, PoppedEntries DEF WordsAgree, KeysAndRenderingAgree
<1>4. /\ Agrees(engine', settings.style)
      /\ engine'.raw # <<>> \/ engine' = FreshEngine
      /\ mode = "Vietnamese" /\ ~spellCheck => ~engine'.escaped
  <2>1. CASE entry = BareBoundary
    BY <1>1, <1>2, <2>1, FreshAgrees DEF ReopenWord, FreshEngine
  <2>2. CASE entry # BareBoundary
    <3>1. engine' = Restore(FreshEngine, settings.style, entry.raw, entry.rendered)
      BY <1>2, <2>2 DEF ReopenWord
    <3>2. entry.raw # <<>>
      <4>1. ASSUME entry.raw = <<>> PROVE entry.rendered = <<>>
        BY <1>1, <1>3, <4>1, EngineAssumption DEF Produced
      <4> QED BY <1>3, <2>2, <4>1 DEF BareBoundary, Behinds
    <3>3. /\ engine'.raw = entry.raw /\ Agrees(engine', settings.style)
          /\ engine'.escaped => entry.rendered # Render(settings.style, entry.raw)
      BY <1>1, <1>3, <3>1, <3>2, RestoreAgrees DEF Produced, Behinds
    <3> QED BY <1>3, <3>2, <3>3 DEF WordsAgree, EscapesAreTheSpellChecks
  <2> QED BY <2>1, <2>2
<1>5. \A i \in DOMAIN committed' : i \in DOMAIN committed /\ committed'[i] = committed[i]
  BY <1>1, PoppedEntries DEF ReopenWord
<1>6. UNCHANGED policy
  BY DEF ReopenWord
<1> HIDE DEF entry
<1>7. KeysAndRenderingAgree'
  BY <1>4, <1>5, <1>6 DEF WordsAgree, KeysAndRenderingAgree, Agrees, Produced, policy, RenderKeys
<1>8. EscapesAreTheSpellChecks'
  BY <1>4, <1>5, <1>6 DEF WordsAgree, EscapesAreTheSpellChecks, policy
<1> QED BY <1>7, <1>8 DEF WordsAgree

LEMMA ShrinkWordAgrees ==
  ASSUME TypeOK, WordsAgree, ShrinkWord
  PROVE  WordsAgree'
<1> DEFINE outcome == BackspaceVisibleChar(engine, settings.style)
<1>1. engine \in Engines /\ settings.style \in Styles
  BY DEF TypeOK, Settings
<1>2. Followed(engine, settings.style, outcome) \/ Repaired(engine, settings.style, outcome)
  BY <1>1, BackspaceFollowsOrRepairs DEF ShrinkWord
<1>3. engine' = outcome.engine /\ UNCHANGED committed /\ UNCHANGED policy
  BY DEF ShrinkWord
<1> HIDE DEF outcome
<1>4. Agrees(engine', settings.style)
  BY <1>2, <1>3 DEF Followed, Repaired
<1>5. engine'.raw # <<>> \/ engine' = FreshEngine
  BY <1>4 DEF Agrees
<1>6. engine'.escaped => engine.escaped
  BY <1>2, <1>3, Zenon DEF Followed, Repaired
<1>7. mode = "Vietnamese" /\ ~spellCheck => ~engine'.escaped
  BY <1>6 DEF WordsAgree, EscapesAreTheSpellChecks
<1> QED BY <1>3, <1>4, <1>5, <1>7, WordsAgreeWithNewWord

LEMMA WordsAgreeNext ==
  ASSUME TypeOK, TypeOK', WordsAgree, [Next]_vars
  PROVE  WordsAgree'
<1>1. ASSUME NEW key \in Keys, TypeWordKey(key) PROVE WordsAgree'
  BY <1>1, TypeWordKeyAgrees
<1>2. ASSUME NEW ch, Boundary(ch) PROVE WordsAgree'
  BY <1>2, BoundaryAgrees
<1>3. CASE Backspace
  <2>1. LoseWord => ResetEngine /\ committed' = <<>>
    BY DEF LoseWord, Flush, ForgetPosition
  <2> QED BY <1>3, <2>1, ReopenWordAgrees, ShrinkWordAgrees, WordsAgreeAfterReset DEF Backspace
<1>4. CASE MoveCaret \/ Shortcut \/ Click
  BY <1>4, WordsAgreeAfterReset DEF MoveCaret, Shortcut, Click, Flush, ForgetPosition
<1>5. CASE \/ ToggleMode
           \/ \E a \in Apps : ToggleAppHotkey(a) \/ SetFrontmostApp(a)
           \/ \E style \in Styles : SetStyle(style)
  BY <1>5, WordsAgreeAfterReset
     DEF ToggleMode, ToggleAppHotkey, SetFrontmostApp, SetStyle, ForgetPosition
<1>6. CASE \/ KeyWhileDeaf \/ PassCorrectionKey \/ KeyWithoutACharacter
           \/ ToggleNoApp \/ UNCHANGED vars
  BY <1>6, WordsAgreeUnchanged
     DEF KeyWhileDeaf, PassCorrectionKey, KeyWithoutACharacter, LetThrough, ToggleNoApp,
         vars, memory, policy
<1>7. CASE CorrectLastWord \/ CorrectNothing
  <2>1. UNCHANGED engine /\ UNCHANGED policy /\ (UNCHANGED committed \/ committed' = <<>>)
    BY <1>7 DEF CorrectLastWord, CorrectNothing, memory, ForgetPosition
  <2>2. CASE UNCHANGED committed
    BY <2>1, <2>2, WordsAgreeUnchanged DEF policy
  <2>3. CASE committed' = <<>>
    BY <2>1, <2>3 DEF WordsAgree, KeysAndRenderingAgree, EscapesAreTheSpellChecks, policy, RenderKeys
  <2> QED BY <2>1, <2>2, <2>3
<1>8. ASSUME NEW autoFix \in BOOLEAN, NEW strict \in BOOLEAN, SetChecks(autoFix, strict)
      PROVE WordsAgree'
  <2>1. CASE spellCheck' = spellCheck
    <3>1. /\ UNCHANGED engine /\ UNCHANGED committed /\ UNCHANGED mode
          /\ settings'.style = settings.style
      BY <1>8, <2>1 DEF SetChecks, memory, TypeOK, Settings
    <3> QED BY <2>1, <3>1, WordsAgreeUnchanged
  <2>2. CASE spellCheck' # spellCheck
    BY <1>8, <2>2, WordsAgreeAfterReset DEF SetChecks, ForgetPosition
  <2> QED BY <2>1, <2>2
<1>9. ASSUME NEW on \in BOOLEAN, SetAlwaysMacro(on) PROVE WordsAgree'
  <2>1. /\ UNCHANGED engine /\ UNCHANGED committed /\ UNCHANGED mode
        /\ UNCHANGED spellCheck /\ settings'.style = settings.style
    BY <1>9 DEF SetAlwaysMacro, memory, TypeOK, Settings
  <2> QED BY <2>1, WordsAgreeUnchanged
<1> QED BY <1>1, <1>2, <1>3, <1>4, <1>5, <1>6, <1>7, <1>8, <1>9
        DEF Next, CorrectionHotkey

LEMMA WordsAlwaysAgree == Spec => []WordsAgree
<1>1. TypeOK /\ TypeOK' /\ WordsAgree /\ [Next]_vars => WordsAgree'
  BY WordsAgreeNext
<1> QED BY <1>1, TypeCorrect, WordsAgreeInit, PTL DEF Spec

(* The keys the engine and the history hold always render to what they say  *)
(* is on screen: a later key or Backspace continues the word it sees.       *)
THEOREM KeysAgree == Spec => []KeysAndRenderingAgree
<1>1. WordsAgree => KeysAndRenderingAgree
  BY DEF WordsAgree
<1> QED BY <1>1, WordsAlwaysAgree, PTL

(* While Vietnamese is on and the mid-word check is off, no word is         *)
(* verbatim: the macro matcher's escape never outlives English mode.        *)
THEOREM EscapesStayWithTheCheck == Spec => []EscapesAreTheSpellChecks
<1>1. WordsAgree => EscapesAreTheSpellChecks
  BY DEF WordsAgree
<1> QED BY <1>1, WordsAlwaysAgree, PTL

-----------------------------------------------------------------------------
(* A correction is remembered (CorrectLastWord of Session): in any session, *)
(* because the decision is filed under the key the next commit looks it up  *)
(* by, and withdraws the one before it.                                     *)
THEOREM CorrectionsStick == Spec => CorrectionIsRemembered
<1>1. ASSUME CorrectLastWord, NEW word \in {correctable}
      PROVE  WantedReading(word.raw, word.rendered)' = OtherReading(word)
  <2> DEFINE key == LowerWord(word.raw)
  <2>1. Learn(key, word.onScreen = word.raw)
    BY <1>1 DEF CorrectLastWord
  <2>2. WantedReading(word.raw, word.rendered)' =
          IF key \in prefersRaw' THEN word.raw
          ELSE IF /\ key \notin prefersVietnamese'
                  /\ \/ settings'.autoFix /\ IsInvalidVietnamese(word.rendered)
                     \/ settings'.restoreEnglish /\ word.raw \in EnglishWords
               THEN word.raw
          ELSE word.rendered
    BY DEF WantedReading, LowerWord
  <2>3. CASE word.onScreen = word.raw
    <3>1. key \notin prefersRaw' /\ key \in prefersVietnamese'
      BY <2>1, <2>3 DEF Learn
    <3>2. OtherReading(word) = word.rendered
      BY <2>3 DEF OtherReading
    <3> QED BY <2>2, <3>1, <3>2
  <2>4. CASE word.onScreen # word.raw
    <3>1. key \in prefersRaw'
      BY <2>1, <2>4 DEF Learn
    <3>2. OtherReading(word) = word.raw
      BY <2>4 DEF OtherReading
    <3> QED BY <2>2, <3>1, <3>2
  <2> QED BY <2>3, <2>4
<1>2. [CorrectLastWord =>
         \A word \in {correctable} :
           WantedReading(word.raw, word.rendered)' = OtherReading(word)]_vars
  BY <1>1
<1> QED BY <1>2, PTL DEF CorrectionIsRemembered

-----------------------------------------------------------------------------
(* The session always knows what stands before the caret: the word being    *)
(* composed, the history behind it, and the word it could correct.          *)

(* What an edit leaves: the text up to position n, and then `word`.         *)
EndsWith(before, n, word, after) ==
  /\ after \in Texts /\ Len(after) = n + Len(word)
  /\ \A j \in 1..n : after[j] = before[j]
  /\ \A j \in DOMAIN word : after[n + j] = word[j]

LEMMA ApplyEndsWith ==
  ASSUME NEW t \in Texts, NEW edit \in Edits, edit.bs <= Len(t)
  PROVE  EndsWith(t, Len(t) - edit.bs, edit.ins, Apply(t, edit))
<1> DEFINE n == Len(t) - edit.bs
           front == SubSeq(t, 1, n)
<1>1. n \in 0..Len(t) /\ edit.ins \in Texts /\ n \in Nat /\ Len(edit.ins) \in Nat
      /\ DOMAIN edit.ins = 1..Len(edit.ins)
  BY LenProperties DEF Edits, Texts
<1>2. front \in Texts /\ Len(front) = n /\ \A j \in 1..n : front[j] = t[j]
  <2> HIDE DEF n
  <2> QED BY <1>1, Beginning DEF Texts
<1>3. Apply(t, edit) = front \o edit.ins
  BY DEF Apply
<1> HIDE DEF n, front
<1>4. /\ Apply(t, edit) \in Texts /\ Len(Apply(t, edit)) = n + Len(edit.ins)
      /\ \A j \in 1..(n + Len(edit.ins)) :
           Apply(t, edit)[j] = IF j <= n THEN front[j] ELSE edit.ins[j - n]
  BY <1>1, <1>2, <1>3, ConcatProperties DEF Texts
<1>5. \A j \in 1..n : Apply(t, edit)[j] = t[j]
  BY <1>1, <1>2, <1>4
<1>6. \A j \in DOMAIN edit.ins : Apply(t, edit)[n + j] = edit.ins[j]
  <2> SUFFICES ASSUME NEW j \in DOMAIN edit.ins PROVE Apply(t, edit)[n + j] = edit.ins[j]
    OBVIOUS
  <2>1. n + j \in 1..(n + Len(edit.ins)) /\ ~(n + j <= n) /\ n + j - n = j
    BY <1>1, SMTT(20)
  <2>2. Apply(t, edit)[n + j] = edit.ins[n + j - n]
    BY <1>1, <1>4, <2>1
  <2> QED BY <2>1, <2>2
<1>7. EndsWith(t, n, edit.ins, Apply(t, edit))
  BY <1>1, <1>4, <1>5, <1>6 DEF EndsWith
<1> QED BY <1>7 DEF n

(* A word rewritten as a whole.                                             *)
LEMMA RewriteEndsWith ==
  ASSUME NEW t \in Texts, NEW from \in Seq(Chars), NEW to \in Seq(Chars),
         Len(from) <= Len(t)
  PROVE  EndsWith(t, Len(t) - Len(from), to, Apply(t, Rewrite(from, to)))
<1>1. Rewrite(from, to) \in Edits
  BY RewriteType
<1> QED BY <1>1, ApplyEndsWith DEF Rewrite

(* A word continued: what the two renderings share stays where it is.       *)
LEMMA DiffEndsWith ==
  ASSUME NEW t \in Texts, NEW prev \in Seq(Chars), NEW next \in Seq(Chars),
         Len(prev) <= Len(t), ReadsAt(t, Len(t) - Len(prev), prev)
  PROVE  EndsWith(t, Len(t) - Len(prev), next, Apply(t, Diff(prev, next)))
<1> DEFINE n == Len(t) - Len(prev)
           k == CommonPrefix(prev, next)
           edit == Diff(prev, next)
           after == Apply(t, edit)
<1>1. /\ k \in 0..Len(prev) /\ k <= Len(next) /\ IsShared(prev, next, k)
      /\ Len(prev) \in Nat /\ Len(next) \in Nat /\ Len(t) \in Nat
      /\ DOMAIN next = 1..Len(next) /\ DOMAIN prev = 1..Len(prev)
  BY CommonPrefixIsShared, LenProperties DEF Texts
<1>2. edit \in Edits /\ edit.bs = Len(prev) - k /\ edit.ins = SubSeq(next, k + 1, Len(next))
  BY DiffType DEF Diff
<1>3. /\ Len(edit.ins) = Len(next) - k
      /\ \A j \in 1..(Len(next) - k) : edit.ins[j] = next[k + j]
      /\ DOMAIN edit.ins = 1..(Len(next) - k)
  <2> HIDE DEF k, edit
  <2>1. k + 1 \in 1..(Len(next) + 1) /\ Len(next) \in (k + 1 - 1)..Len(next)
    BY <1>1
  <2>2. /\ SubSeq(next, k + 1, Len(next)) \in Seq(Chars)
        /\ Len(SubSeq(next, k + 1, Len(next))) = Len(next) - (k + 1) + 1
        /\ \A j \in 1..(Len(next) - (k + 1) + 1) :
             SubSeq(next, k + 1, Len(next))[j] = next[k + 1 + j - 1]
    BY <2>1, SliceProperties
  <2>3. Len(edit.ins) = Len(next) - k /\ edit.ins \in Seq(Chars)
    <3>1. edit.ins \in Seq(Chars) /\ Len(edit.ins) = Len(next) - (k + 1) + 1
      BY <1>2, <2>2, Zenon
    <3>2. Len(next) - (k + 1) + 1 = Len(next) - k
      BY <1>1
    <3> QED BY <3>1, <3>2
  <2>4. ASSUME NEW j \in 1..(Len(next) - k) PROVE edit.ins[j] = next[k + j]
    <3>1. j \in 1..(Len(next) - (k + 1) + 1) /\ k + 1 + j - 1 = k + j
      BY <1>1
    <3> QED BY <1>2, <2>2, <3>1
  <2> QED BY <2>3, <2>4, LenProperties
<1>4. EndsWith(t, Len(t) - edit.bs, edit.ins, after) /\ Len(t) - edit.bs = n + k
  <2> HIDE DEF k, edit
  <2>1. edit.bs <= Len(t) /\ Len(t) - edit.bs = n + k
    BY <1>1, <1>2
  <2> QED BY <1>2, <2>1, ApplyEndsWith
<1>5. \A j \in 1..k : t[n + j] = next[j]
  BY <1>1 DEF IsShared, ReadsAt
<1>6. n \in Nat /\ k \in Nat /\ k <= Len(next) /\ Len(next) \in Nat
  <2> HIDE DEF k
  <2> QED BY <1>1
<1> HIDE DEF n, k, edit, after
<1>7. after \in Texts /\ Len(after) = n + Len(next)
  <2>1. after \in Texts /\ Len(after) = Len(t) - edit.bs + Len(edit.ins)
    BY <1>4 DEF EndsWith
  <2>2. Len(t) - edit.bs = n + k
    BY <1>4
  <2>3. Len(edit.ins) = Len(next) - k
    BY <1>3
  <2> QED BY <1>6, <2>1, <2>2, <2>3
<1>8. \A j \in 1..n : after[j] = t[j]
  BY <1>1, <1>4, <1>6 DEF EndsWith
<1>9. \A j \in DOMAIN next : after[n + j] = next[j]
  <2> SUFFICES ASSUME NEW j \in 1..Len(next) PROVE after[n + j] = next[j]
    BY <1>1
  <2>1. CASE j <= k
    <3>1. n + j \in 1..(n + k) /\ j \in 1..k
      BY <1>1, <1>6, <2>1
    <3> QED BY <1>4, <1>5, <3>1 DEF EndsWith
  <2>2. CASE j > k
    <3>1. j - k \in 1..(Len(next) - k) /\ n + j = n + k + (j - k) /\ k + (j - k) = j
      BY <1>1, <1>6, <2>2
    <3>2. after[n + k + (j - k)] = edit.ins[j - k]
      BY <1>3, <1>4, <3>1 DEF EndsWith
    <3> QED BY <1>3, <3>1, <3>2
  <2> QED BY <1>1, <2>1, <2>2
<1>10. EndsWith(t, n, next, after)
  BY <1>7, <1>8, <1>9 DEF EndsWith
<1> QED BY <1>10 DEF n, after, edit

LEMMA DeletedEndsWith ==
  ASSUME NEW t \in Texts, t # <<>>
  PROVE  EndsWith(t, Len(t) - 1, <<>>, Deleted(t))
<1>1. Len(t) \in Nat \ {0} /\ t \in Seq(Characters)
  BY EmptySeq, LenProperties DEF Texts
<1>2. Len(t) - 1 \in 0..Len(t)
  BY <1>1
<1>3. Deleted(t) = SubSeq(t, 1, Len(t) - 1)
  BY DEF Deleted
<1>4. /\ Deleted(t) \in Seq(Characters) /\ Len(Deleted(t)) = Len(t) - 1
      /\ \A j \in 1..(Len(t) - 1) : Deleted(t)[j] = t[j]
  <2> DEFINE n == Len(t) - 1
  <2>1. n \in 0..Len(t) /\ Deleted(t) = SubSeq(t, 1, n)
    BY <1>2, <1>3
  <2> HIDE DEF n
  <2>2. /\ Deleted(t) \in Seq(Characters) /\ Len(Deleted(t)) = n
        /\ \A j \in 1..n : Deleted(t)[j] = t[j]
    BY <1>1, <2>1, Beginning
  <2> QED BY <2>2 DEF n
<1>5. Len(<<>>) = 0 /\ DOMAIN <<>> = {}
  BY EmptySeq
<1>6. /\ Len(Deleted(t)) = Len(t) - 1 + Len(<<>>)
      /\ \A j \in DOMAIN <<>> : Deleted(t)[Len(t) - 1 + j] = <<>>[j]
  BY <1>1, <1>4, <1>5
<1> QED BY <1>4, <1>6, Zenon DEF EndsWith, Texts

-----------------------------------------------------------------------------
(* The account of what is behind the caret.  `ends` says where each entry   *)
(* ends.                                                                    *)
Stands(t, stack, ends, i) ==
  LET start == ends[i] - 1 - Len(stack[i].rendered)
  IN  /\ start >= 0 /\ ReadsAt(t, start, stack[i].rendered)
      /\ t[ends[i]] \in Boundaries \cup Keys
      /\ i > 1 => ends[i - 1] = start

LEMMA AccountMeans ==
  ASSUME NEW t, NEW n, NEW stack
  PROVE  AccountedFor(t, n, stack) <=>
           \E ends \in [DOMAIN stack -> 1..n] :
             /\ stack # <<>> => ends[Len(stack)] = n
             /\ \A i \in DOMAIN stack : Stands(t, stack, ends, i)
BY DEF AccountedFor, Stands

LEMMA EntryType ==
  ASSUME NEW stack \in Seq(Behinds), NEW i \in DOMAIN stack
  PROVE  /\ stack[i].rendered \in Seq(Chars) /\ Len(stack[i].rendered) \in Nat
         /\ DOMAIN stack[i].rendered = 1..Len(stack[i].rendered)
         /\ i \in 1..Len(stack) /\ Len(stack) \in Nat
<1>1. stack[i] \in Behinds /\ i \in 1..Len(stack) /\ Len(stack) \in Nat
  BY ElementOfSeq, LenProperties
<1> QED BY <1>1, LenProperties DEF Behinds

LEMMA NothingToAccountFor ==
  ASSUME NEW t, NEW n
  PROVE  AccountedFor(t, n, <<>>)
<1>1. DOMAIN <<>> = {}
  BY EmptySeq
<1>2. [x \in {} |-> x] \in [DOMAIN <<>> -> 1..n]
  BY <1>1
<1>3. \A i \in DOMAIN <<>> : Stands(t, <<>>, [x \in {} |-> x], i)
  BY <1>1
<1> QED BY <1>2, <1>3, AccountMeans

(* It depends on the text up to where it ends, and on nothing else.         *)
LEMMA AccountKept ==
  ASSUME NEW t \in Texts, NEW after \in Texts, NEW n \in Nat,
         n <= Len(t), n <= Len(after), \A j \in 1..n : after[j] = t[j],
         NEW stack \in Seq(Behinds), AccountedFor(t, n, stack)
  PROVE  AccountedFor(after, n, stack)
<1>1. PICK ends \in [DOMAIN stack -> 1..n] :
        /\ stack # <<>> => ends[Len(stack)] = n
        /\ \A i \in DOMAIN stack : Stands(t, stack, ends, i)
  BY AccountMeans
<1>2. ASSUME NEW i \in DOMAIN stack PROVE Stands(after, stack, ends, i)
  <2> DEFINE word == stack[i].rendered
             start == ends[i] - 1 - Len(word)
  <2>1. /\ Len(word) \in Nat /\ DOMAIN word = 1..Len(word) /\ ends[i] \in 1..n
        /\ Len(t) \in Nat /\ Len(after) \in Nat
    BY EntryType, LenProperties DEF Texts
  <2>2. /\ start >= 0 /\ ReadsAt(t, start, word) /\ t[ends[i]] \in Boundaries \cup Keys
        /\ i > 1 => ends[i - 1] = start
    BY <1>1 DEF Stands
  <2>3. ReadsAt(after, start, word)
    <3> HIDE DEF word
    <3>1. \A j \in 1..Len(word) : start + j \in 1..n
      BY <2>1, <2>2
    <3>2. start + Len(word) <= Len(after)
      BY <2>1
    <3> HIDE DEF start
    <3>3. \A j \in 1..Len(word) : after[start + j] = word[j]
      BY <2>1, <2>2, <3>1 DEF ReadsAt
    <3> QED BY <2>1, <3>2, <3>3 DEF ReadsAt
  <2>4. after[ends[i]] \in Boundaries \cup Keys
    BY <2>1, <2>2
  <2> QED BY <2>2, <2>3, <2>4 DEF Stands
<1> QED BY <1>1, <1>2, AccountMeans

(* A word and its boundary more.                                            *)
LEMMA AccountGrows ==
  ASSUME NEW t \in Texts, NEW n \in Nat, NEW entry \in Behinds,
         Len(t) = n + Len(entry.rendered) + 1,
         ReadsAt(t, n, entry.rendered), t[Len(t)] \in Boundaries \cup Keys,
         NEW stack \in Seq(Behinds), AccountedFor(t, n, stack)
  PROVE  AccountedFor(t, Len(t), Append(stack, entry))
<1> DEFINE longer == Append(stack, entry)
           m == Len(stack) + 1
<1>1. PICK ends \in [DOMAIN stack -> 1..n] :
        /\ stack # <<>> => ends[Len(stack)] = n
        /\ \A i \in DOMAIN stack : Stands(t, stack, ends, i)
  BY AccountMeans
<1>2. /\ Len(stack) \in Nat /\ DOMAIN stack = 1..Len(stack)
      /\ Len(longer) = m /\ DOMAIN longer = 1..m /\ longer # <<>>
      /\ longer[m] = entry /\ \A i \in 1..Len(stack) : longer[i] = stack[i]
  BY AppendProperties, LenProperties
<1>3. Len(t) \in Nat /\ Len(entry.rendered) \in Nat
  BY LenProperties DEF Texts, Behinds
<1> DEFINE further == [i \in 1..m |-> IF i = m THEN Len(t) ELSE ends[i]]
<1> HIDE DEF longer
<1>4. further \in [DOMAIN longer -> 1..Len(t)] /\ further[m] = Len(t)
  <2>1. ASSUME NEW i \in 1..m PROVE (IF i = m THEN Len(t) ELSE ends[i]) \in 1..Len(t)
    <3>1. CASE i = m
      BY <1>3, <3>1
    <3>2. CASE i # m
      <4>1. i \in DOMAIN stack
        BY <1>2, <3>2
      <4>2. ends[i] \in 1..n
        BY <4>1
      <4> QED BY <1>3, <3>2, <4>2
    <3> QED BY <3>1, <3>2
  <2>2. m \in 1..m
    BY <1>2
  <2> HIDE DEF m
  <2> QED BY <1>2, <2>1, <2>2
<1>5. ASSUME NEW i \in 1..m PROVE Stands(t, longer, further, i)
  <2>1. CASE i = m
    <3>1. further[i] - 1 - Len(longer[i].rendered) = n
      <4>1. further[i] = Len(t) /\ longer[i] = entry
        BY <1>2, <1>4, <2>1
      <4> HIDE DEF further, m
      <4> QED BY <1>3, <4>1
    <3>2. i > 1 => further[i - 1] = n
      <4> SUFFICES ASSUME i > 1 PROVE further[i - 1] = n
        OBVIOUS
      <4>1. i - 1 = Len(stack) /\ Len(stack) \in 1..m /\ Len(stack) # m
        <5> i = Len(stack) + 1 /\ Len(stack) \in Nat
          BY <1>2, <2>1
        <5> HIDE DEF further
        <5> QED OBVIOUS
      <4>2. stack # <<>>
        <5>1. Len(stack) # 0
          BY <4>1
        <5> QED BY <5>1, EmptySeq
      <4>3. further[i - 1] = ends[Len(stack)]
        BY <4>1
      <4> QED BY <1>1, <4>2, <4>3
    <3>3. ReadsAt(t, n, longer[i].rendered) /\ t[further[i]] \in Boundaries \cup Keys
      BY <1>2, <1>4, <2>1
    <3> HIDE DEF further, m
    <3> QED BY <3>1, <3>2, <3>3 DEF Stands
  <2>2. CASE i # m
    <3>1. i \in DOMAIN stack /\ longer[i] = stack[i] /\ further[i] = ends[i]
      BY <1>2, <2>2
    <3>2. i > 1 => further[i - 1] = ends[i - 1]
      BY <1>2, <2>2
    <3>3. Stands(t, stack, ends, i)
      BY <1>1, <3>1
    <3> HIDE DEF further, m
    <3> QED BY <3>1, <3>2, <3>3 DEF Stands
  <2> QED BY <2>1, <2>2
<1>6. /\ further \in [DOMAIN longer -> 1..Len(t)]
      /\ longer # <<>> => further[Len(longer)] = Len(t)
      /\ \A i \in DOMAIN longer : Stands(t, longer, further, i)
  BY <1>2, <1>4, <1>5
<1> HIDE DEF further
<1>7. AccountedFor(t, Len(t), longer)
  BY <1>6, AccountMeans
<1> QED BY <1>7 DEF longer

(* The oldest entry dropped.                                                *)
LEMMA AccountForgets ==
  ASSUME NEW t, NEW n \in Nat, NEW stack \in Seq(Behinds), Len(stack) >= 2,
         AccountedFor(t, n, stack)
  PROVE  AccountedFor(t, n, SubSeq(stack, 2, Len(stack)))
<1> DEFINE shorter == SubSeq(stack, 2, Len(stack))
           m == Len(stack) - 1
<1>1. PICK ends \in [DOMAIN stack -> 1..n] :
        /\ stack # <<>> => ends[Len(stack)] = n
        /\ \A i \in DOMAIN stack : Stands(t, stack, ends, i)
  BY AccountMeans
<1>2. Len(stack) \in Nat /\ DOMAIN stack = 1..Len(stack) /\ m \in Nat \ {0} /\ Len(stack) = m + 1
  <2>1. Len(stack) \in Nat /\ DOMAIN stack = 1..Len(stack)
    BY LenProperties
  <2> QED BY <2>1
<1>3. /\ shorter \in Seq(Behinds) /\ Len(shorter) = m /\ DOMAIN shorter = 1..m
      /\ \A i \in 1..m : shorter[i] = stack[i + 1]
  <2> DEFINE last == Len(stack)
  <2>1. 2 \in 1..(Len(stack) + 1) /\ last \in (2 - 1)..Len(stack)
    BY <1>2
  <2> HIDE DEF last
  <2>2. /\ SubSeq(stack, 2, last) \in Seq(Behinds)
        /\ Len(SubSeq(stack, 2, last)) = last - 2 + 1
        /\ \A i \in 1..(last - 2 + 1) : SubSeq(stack, 2, last)[i] = stack[2 + i - 1]
    BY <2>1, SliceProperties
  <2>3. last - 2 + 1 = m /\ \A i \in 1..m : 2 + i - 1 = i + 1
    BY <1>2 DEF last
  <2>4. SubSeq(stack, 2, last) = shorter
    BY DEF last
  <2> HIDE DEF shorter, m
  <2>5. /\ shorter \in Seq(Behinds) /\ Len(shorter) = m
        /\ \A i \in 1..m : shorter[i] = stack[i + 1]
    BY <2>2, <2>3, <2>4
  <2> QED BY <2>5, LenProperties
<1> DEFINE later == [i \in 1..m |-> ends[i + 1]]
<1> HIDE DEF shorter, m
<1>4. later \in [DOMAIN shorter -> 1..n]
  <2>1. \A i \in 1..m : ends[i + 1] \in 1..n
    BY <1>2
  <2> QED BY <1>3, <2>1
<1>5. shorter # <<>> => later[Len(shorter)] = n
  <2>1. m \in 1..m /\ stack # <<>>
    BY <1>2, EmptySeq
  <2> QED BY <1>1, <1>2, <1>3, <2>1
<1>6. ASSUME NEW i \in 1..m PROVE Stands(t, shorter, later, i)
  <2>1. i + 1 \in DOMAIN stack /\ shorter[i] = stack[i + 1] /\ later[i] = ends[i + 1]
    BY <1>2, <1>3
  <2>2. Stands(t, stack, ends, i + 1)
    BY <1>1, <2>1
  <2>3. i > 1 => later[i - 1] = ends[i + 1 - 1] /\ i + 1 > 1
    BY <1>2
  <2> HIDE DEF later
  <2> QED BY <2>1, <2>2, <2>3 DEF Stands
<1> HIDE DEF later
<1>7. AccountedFor(t, n, shorter)
  BY <1>3, <1>4, <1>5, <1>6, AccountMeans
<1> QED BY <1>7 DEF shorter

(* Every entry but the last ends where the last one begins, or before.      *)
LEMMA EarlierEndsEarlier ==
  ASSUME NEW t, NEW n \in Nat, NEW stack \in Seq(Behinds), stack # <<>>,
         NEW ends \in [DOMAIN stack -> 1..n], ends[Len(stack)] = n,
         \A i \in DOMAIN stack : Stands(t, stack, ends, i),
         NEW k \in DOMAIN stack, k < Len(stack)
  PROVE  ends[k] <= n - 1 - Len(stack[Len(stack)].rendered)
<1> DEFINE top == Len(stack)
           start == n - 1 - Len(stack[top].rendered)
           Late == {i \in 1..(top - 1) : ends[i] > start}
           T == {top - i : i \in Late}
<1>1. /\ top \in Nat /\ DOMAIN stack = 1..top /\ top \in DOMAIN stack
      /\ \A i \in DOMAIN stack : Len(stack[i].rendered) \in Nat
      /\ \A i \in DOMAIN stack : ends[i] \in 1..n
  BY EntryType, EmptySeq, LenProperties
<1>2. ASSUME NEW i \in 2..top PROVE ends[i - 1] = ends[i] - 1 - Len(stack[i].rendered)
  <2>1. i \in DOMAIN stack /\ i > 1
    BY <1>1
  <2> QED BY <2>1 DEF Stands
<1> HIDE DEF top
<1>0. start \in Int
  BY <1>1
<1> HIDE DEF start
<1>3. CASE Late = {}
  <2>1. k \in 1..(top - 1)
    BY <1>1 DEF top
  <2>2. ~(ends[k] > start)
    BY <1>3, <2>1
  <2>3. ends[k] \in Int
    BY <1>1
  <2>4. ends[k] <= start
    BY <1>0, <2>2, <2>3
  <2> QED BY <2>4 DEF start, top
<1>4. CASE Late # {}
  <2>1. T \subseteq Nat /\ T # {}
    <3>1. \A i \in Late : top - i \in Nat
      BY <1>1
    <3> QED BY <1>4, <3>1
  <2>2. PICK x \in T : \A y \in T : x <= y
    <3> HIDE DEF T
    <3> QED BY <2>1, LeastNatural, Zenon
  <2>3. PICK i \in Late : x = top - i
    BY <2>2
  <2>4. i \in 1..(top - 1) /\ ends[i] > start
    BY <2>3
  <2>next. i + 1 \in 2..top /\ i + 1 - 1 = i /\ i \in Nat
    BY <1>1, <2>4
  <2>5. ends[i] = ends[i + 1] - 1 - Len(stack[i + 1].rendered)
    BY <1>2, <2>next
  <2>6. CASE i + 1 = top
    <3>1. ends[i] = start
      BY <2>5, <2>6 DEF start, top
    <3> QED BY <1>0, <2>4, <3>1
  <2>7. CASE i + 1 # top
    <3>1. i + 1 \in 1..(top - 1)
      BY <1>1, <2>next, <2>4, <2>7
    <3>2. i + 1 \notin Late
      <4> SUFFICES ASSUME i + 1 \in Late PROVE FALSE
        OBVIOUS
      <4>1. top - (i + 1) \in T
        OBVIOUS
      <4>2. x <= top - (i + 1)
        BY <2>2, <4>1
      <4> QED BY <1>1, <2>3, <2>next, <4>2
    <3>3. ~(ends[i + 1] > start)
      BY <3>1, <3>2
    <3>4. ends[i + 1] \in Int /\ Len(stack[i + 1].rendered) \in Nat
      BY <1>1, <3>1
    <3> QED BY <1>0, <2>4, <2>5, <3>3, <3>4, SMTT(20)
  <2> QED BY <2>6, <2>7
<1> QED BY <1>3, <1>4

(* The last entry taken off again.                                          *)
LEMMA AccountShrinks ==
  ASSUME NEW t \in Texts, NEW n \in Nat, NEW stack \in Seq(Behinds), stack # <<>>,
         AccountedFor(t, n, stack)
  PROVE  LET word == stack[Len(stack)].rendered
             start == n - 1 - Len(word)
         IN  /\ start \in Nat /\ n >= 1 /\ ReadsAt(t, start, word)
             /\ AccountedFor(t, start, SubSeq(stack, 1, Len(stack) - 1))
<1> DEFINE top == Len(stack)
           word == stack[top].rendered
           start == n - 1 - Len(word)
           shorter == SubSeq(stack, 1, top - 1)
<1>1. PICK ends \in [DOMAIN stack -> 1..n] :
        /\ stack # <<>> => ends[top] = n
        /\ \A i \in DOMAIN stack : Stands(t, stack, ends, i)
  BY AccountMeans
<1>2. /\ top \in Nat \ {0} /\ DOMAIN stack = 1..top /\ top \in DOMAIN stack
      /\ Len(word) \in Nat
  BY EntryType, EmptySeq, LenProperties
<1>3. ends[top] = n /\ n \in 1..n /\ Stands(t, stack, ends, top)
  BY <1>1, <1>2
<1>4. start \in Nat /\ n >= 1 /\ ReadsAt(t, start, word)
  <2>1. ends[top] - 1 - Len(word) >= 0 /\ ReadsAt(t, ends[top] - 1 - Len(word), word)
    BY <1>3 DEF Stands
  <2> HIDE DEF word
  <2> QED BY <1>2, <1>3, <2>1
<1>5. /\ shorter \in Seq(Behinds) /\ Len(shorter) = top - 1 /\ DOMAIN shorter = 1..(top - 1)
      /\ \A i \in 1..(top - 1) : shorter[i] = stack[i]
  <2> DEFINE m == top - 1
  <2>1. m \in 0..Len(stack)
    BY <1>2
  <2> HIDE DEF m
  <2>2. /\ SubSeq(stack, 1, m) \in Seq(Behinds) /\ Len(SubSeq(stack, 1, m)) = m
        /\ \A i \in 1..m : SubSeq(stack, 1, m)[i] = stack[i]
    BY <2>1, Beginning
  <2>3. DOMAIN SubSeq(stack, 1, m) = 1..m
    BY <2>2, LenProperties
  <2> QED BY <2>2, <2>3 DEF m
<1>6. \A i \in 1..(top - 1) : ends[i] \in 1..start
  <2> SUFFICES ASSUME NEW i \in 1..(top - 1) PROVE ends[i] \in 1..start
    OBVIOUS
  <2>1. i \in DOMAIN stack /\ i < Len(stack)
    BY <1>2
  <2>2. ends[i] <= start
    BY <1>1, <1>3, <2>1, EarlierEndsEarlier
  <2>3. ends[i] \in 1..n
    BY <2>1
  <2> HIDE DEF start
  <2> QED BY <1>4, <2>2, <2>3
<1> DEFINE fewer == [i \in 1..(top - 1) |-> ends[i]]
<1> HIDE DEF shorter, start, word
<1>7. fewer \in [DOMAIN shorter -> 1..start]
  BY <1>5, <1>6
<1>8. shorter # <<>> => fewer[Len(shorter)] = start
  <2> SUFFICES ASSUME shorter # <<>> PROVE fewer[top - 1] = start
    BY <1>5
  <2>1. top - 1 # 0
    BY <1>5, EmptySeq
  <2>2. top > 1 /\ top - 1 \in 1..(top - 1)
    BY <1>2, <2>1
  <2>3. ends[top - 1] = ends[top] - 1 - Len(word)
    BY <1>3, <2>2 DEF Stands, word
  <2> QED BY <1>3, <2>2, <2>3 DEF start
<1>9. ASSUME NEW i \in 1..(top - 1) PROVE Stands(t, shorter, fewer, i)
  <2>1. i \in DOMAIN stack /\ shorter[i] = stack[i] /\ fewer[i] = ends[i]
    BY <1>2, <1>5
  <2>2. i > 1 => fewer[i - 1] = ends[i - 1]
    BY <1>2
  <2>3. Stands(t, stack, ends, i)
    BY <1>1, <2>1
  <2> HIDE DEF fewer
  <2> QED BY <2>1, <2>2, <2>3 DEF Stands
<1> HIDE DEF fewer
<1>10. AccountedFor(t, start, shorter)
  BY <1>5, <1>7, <1>8, <1>9, AccountMeans
<1> QED BY <1>4, <1>10 DEF start, word, shorter, top

(* A word pushed, and the oldest dropped when there are too many.           *)
LEMMA AccountPushed ==
  ASSUME NEW t \in Texts, NEW n \in Nat, NEW entry \in Behinds,
         Len(t) = n + Len(entry.rendered) + 1,
         ReadsAt(t, n, entry.rendered), t[Len(t)] \in Boundaries \cup Keys,
         NEW stack \in Histories, AccountedFor(t, n, stack)
  PROVE  /\ AccountedFor(t, Len(t), PushBehind(stack, entry))
         /\ PushBehind(stack, entry)[Len(PushBehind(stack, entry))] = entry
<1> DEFINE longer == Append(stack, entry)
<1>1. /\ longer \in Seq(Behinds) /\ Len(longer) = Len(stack) + 1 /\ Len(stack) \in Nat
      /\ longer[Len(stack) + 1] = entry /\ Len(t) \in Nat
  BY AppendProperties, LenProperties DEF Histories, Texts
<1>2. AccountedFor(t, Len(t), longer)
  BY AccountGrows DEF Histories
<1>3. CASE PushBehind(stack, entry) = longer
  BY <1>1, <1>2, <1>3
<1>4. CASE /\ PushBehind(stack, entry) = SubSeq(longer, 2, Len(stack) + 1)
           /\ Len(stack) = CommittedHistory
  <2> HIDE DEF longer
  <2>1. Len(longer) >= 2 /\ PushBehind(stack, entry) = SubSeq(longer, 2, Len(longer))
    BY <1>1, <1>4, CapType
  <2>2. AccountedFor(t, Len(t), PushBehind(stack, entry))
    BY <1>1, <1>2, <2>1, AccountForgets
  <2>3. 2 \in 1..(Len(longer) + 1) /\ Len(stack) + 1 \in (2 - 1)..Len(longer)
    BY <1>1
  <2>4. /\ Len(SubSeq(longer, 2, Len(stack) + 1)) = Len(stack) + 1 - 2 + 1
        /\ \A i \in 1..(Len(stack) + 1 - 2 + 1) :
             SubSeq(longer, 2, Len(stack) + 1)[i] = longer[2 + i - 1]
    BY <1>1, <2>3, SliceProperties
  <2>5. Len(stack) \in 1..(Len(stack) + 1 - 2 + 1) /\ Len(stack) + 1 - 2 + 1 = Len(stack)
        /\ 2 + Len(stack) - 1 = Len(stack) + 1
    BY <1>1, <2>1
  <2> QED BY <1>1, <1>4, <2>2, <2>4, <2>5
<1> QED BY <1>3, <1>4, PushBehindDrops

-----------------------------------------------------------------------------
(* The invariant.  Two conjuncts are there for the induction: a word that   *)
(* could still be corrected is the one on top of the history, as it stands  *)
(* there, which is why Backspace may leave it standing, and nothing is      *)
(* remembered while keys go by unseen.                                      *)
CorrectableIsOnTop ==
  correctable # NoWord /\ ~IsComposing(engine) /\ committed # <<>> =>
    /\ committed[Len(committed)].raw # <<>>
    /\ committed[Len(committed)].rendered = correctable.onScreen

DeafRemembersNothing == RemembersPosition => Listening

CaretKnown ==
  /\ ComposedWordIsTheTail /\ HistoryIsAsRecorded /\ CorrectionTargetIsAtTheCaret
  /\ CorrectableIsOnTop /\ DeafRemembersNothing

LEMMA CaretForgotten ==
  ASSUME TypeOK', ResetEngine, ForgetPosition
  PROVE  CaretKnown'
<1>1. Len(text') \in Nat /\ Len(<<>>) = 0 /\ DOMAIN <<>> = {}
  BY LenProperties, EmptySeq DEF TypeOK, Texts
<1>2. engine'.rendered = <<>> /\ engine'.raw = <<>> /\ committed' = <<>> /\ correctable' = NoWord
  BY DEF ResetEngine, FreshEngine, ForgetPosition
<1>3. ComposedWordIsTheTail'
  BY <1>1, <1>2 DEF ComposedWordIsTheTail, ReadsAt
<1>4. HistoryIsAsRecorded'
  BY <1>2, NothingToAccountFor DEF HistoryIsAsRecorded
<1> QED BY <1>2, <1>3, <1>4 DEF CaretKnown, CorrectionTargetIsAtTheCaret,
        CorrectableIsOnTop, DeafRemembersNothing, RemembersPosition, IsComposing

LEMMA CaretUnchanged ==
  ASSUME CaretKnown, UNCHANGED text, UNCHANGED engine, UNCHANGED memory,
         RemembersPosition => Listening'
  PROVE  CaretKnown'
BY DEF CaretKnown, ComposedWordIsTheTail, HistoryIsAsRecorded, CorrectionTargetIsAtTheCaret,
       CorrectableIsOnTop, DeafRemembersNothing, RemembersPosition, memory

LEMMA ListeningUnchanged ==
  ASSUME UNCHANGED policy
  PROVE  Listening' = Listening /\ IsActive' = IsActive
BY DEF policy, Listening, IsActive, MacrosActive, InFront

(* The word changes where it stands; what is behind it does not.            *)
LEMMA WordReplaced ==
  ASSUME TypeOK, TypeOK', CaretKnown, UNCHANGED committed, correctable' = NoWord,
         EndsWith(text, Len(text) - Len(engine.rendered), engine'.rendered, text'),
         Listening'
  PROVE  CaretKnown'
<1> DEFINE n == Len(text) - Len(engine.rendered)
<1>1. /\ n \in Nat /\ n <= Len(text) /\ Len(text) \in Nat /\ Len(text') \in Nat
      /\ Len(engine'.rendered) \in Nat
  BY LenProperties DEF CaretKnown, ComposedWordIsTheTail, TypeOK, Texts, Engines
<1>2. AccountedFor(text, n, committed) /\ committed \in Seq(Behinds)
  BY DEF CaretKnown, HistoryIsAsRecorded, TypeOK
<1> HIDE DEF n
<1>3. /\ Len(text') = n + Len(engine'.rendered)
      /\ \A j \in 1..n : text'[j] = text[j]
      /\ \A j \in DOMAIN engine'.rendered : text'[n + j] = engine'.rendered[j]
  BY DEF EndsWith, n
<1>4. n <= Len(text') /\ Len(text') - Len(engine'.rendered) = n /\ Len(engine'.rendered) <= Len(text')
      /\ n + Len(engine'.rendered) <= Len(text')
  BY <1>1, <1>3
<1>5. ComposedWordIsTheTail'
  BY <1>3, <1>4 DEF ComposedWordIsTheTail, ReadsAt
<1>6. AccountedFor(text', n, committed)
  BY <1>1, <1>2, <1>3, <1>4, AccountKept DEF TypeOK
<1>7. HistoryIsAsRecorded'
  BY <1>4, <1>6 DEF HistoryIsAsRecorded
<1> QED BY <1>5, <1>7 DEF CaretKnown, CorrectionTargetIsAtTheCaret,
        CorrectableIsOnTop, DeafRemembersNothing

LEMMA TypeWordKeyKnown ==
  ASSUME TypeOK, TypeOK', CaretKnown, NEW key \in Keys, TypeWordKey(key)
  PROVE  CaretKnown'
<1>1. engine.rendered \in Seq(Chars) /\ engine'.rendered \in Seq(Chars) /\ text \in Texts
  BY DEF TypeOK, Engines
<1>2. text' = Apply(text, Diff(engine.rendered, engine'.rendered))
  BY DEF TypeWordKey, Emit
<1>3. EndsWith(text, Len(text) - Len(engine.rendered), engine'.rendered, text')
  BY <1>1, <1>2, DiffEndsWith DEF CaretKnown, ComposedWordIsTheTail
<1>4. UNCHANGED committed /\ correctable' = NoWord /\ Listening'
  BY ListeningUnchanged DEF TypeWordKey
<1> QED BY <1>3, <1>4, WordReplaced

LEMMA ShrinkWordKnown ==
  ASSUME TypeOK, TypeOK', CaretKnown, ShrinkWord
  PROVE  CaretKnown'
<1> DEFINE outcome == BackspaceVisibleChar(engine, settings.style)
           n == Len(text) - Len(engine.rendered)
<1>1. /\ engine \in Engines /\ settings.style \in Styles /\ text \in Texts
      /\ engine.rendered \in Seq(Chars) /\ Len(engine.rendered) <= Len(text)
      /\ ReadsAt(text, n, engine.rendered)
  BY DEF TypeOK, Settings, Engines, CaretKnown, ComposedWordIsTheTail
<1>2. /\ engine.rendered # <<>>
      /\ \/ Followed(engine, settings.style, outcome)
         \/ Repaired(engine, settings.style, outcome)
  BY <1>1, BackspaceFollowsOrRepairs DEF ShrinkWord
<1>3. /\ engine' = outcome.engine /\ UNCHANGED committed /\ correctable' = NoWord
      /\ outcome.kind = "Repair" => text' = Apply(text, outcome.edit)
      /\ outcome.kind # "Repair" => text' = Deleted(text)
  BY DEF ShrinkWord
<1>4. Listening'
  BY ListeningUnchanged DEF ShrinkWord, Listening
<1> HIDE DEF outcome
<1>5. CASE Repaired(engine, settings.style, outcome)
  <2>1. text' = Apply(text, Rewrite(engine.rendered, engine'.rendered))
    BY <1>3, <1>5 DEF Repaired
  <2>2. engine'.rendered \in Seq(Chars)
    BY DEF TypeOK, Engines
  <2>3. EndsWith(text, n, engine'.rendered, text')
    BY <1>1, <2>1, <2>2, RewriteEndsWith
  <2> QED BY <1>3, <1>4, <2>3, WordReplaced
<1>6. CASE Followed(engine, settings.style, outcome)
  <2>1. text' = Deleted(text) /\ engine'.rendered = SequenceOps!Front(engine.rendered)
    BY <1>3, <1>6 DEF Followed
  <2> DEFINE r == engine.rendered
             f == engine'.rendered
  <2>2. /\ Len(r) \in Nat \ {0} /\ Len(text) \in Nat /\ Len(r) <= Len(text)
        /\ n \in Nat /\ n + Len(r) = Len(text) /\ DOMAIN r = 1..Len(r)
    BY <1>1, <1>2, EmptySeq, LenProperties DEF Texts
  <2>3. /\ f \in Seq(Chars) /\ Len(f) = Len(r) - 1 /\ DOMAIN f = 1..(Len(r) - 1)
        /\ \A i \in 1..(Len(r) - 1) : f[i] = r[i]
    BY <1>1, <1>2, <2>1, FrontOfWord, LenProperties
  <2>4. text # <<>>
    BY <2>2, EmptySeq
  <2>5. /\ text' \in Texts /\ Len(text') = Len(text) - 1
        /\ \A j \in 1..(Len(text) - 1) : text'[j] = text[j]
    <3>1. EndsWith(text, Len(text) - 1, <<>>, text')
      BY <1>1, <2>1, <2>4, DeletedEndsWith
    <3>2. Len(text') = Len(text) - 1 + 0
      BY <3>1, EmptySeq DEF EndsWith
    <3> QED BY <2>2, <3>1, <3>2 DEF EndsWith
  <2>6. \A j \in 1..Len(r) : text[n + j] = r[j]
    BY <1>1, <2>2 DEF ReadsAt
  <2> HIDE DEF n, r, f
  <2>7. Len(text') = n + Len(f)
    BY <2>2, <2>3, <2>5
  <2>8. ASSUME NEW j \in 1..n PROVE text'[j] = text[j]
    <3>1. j \in 1..(Len(text) - 1)
      BY <2>2
    <3> QED BY <2>5, <3>1
  <2>9. ASSUME NEW j \in 1..(Len(r) - 1) PROVE text'[n + j] = f[j]
    <3>1. n + j \in 1..(Len(text) - 1) /\ j \in 1..Len(r)
      BY <2>2
    <3>2. text'[n + j] = text[n + j]
      BY <2>5, <3>1
    <3> QED BY <2>3, <2>6, <3>1, <3>2
  <2>10. EndsWith(text, n, f, text')
    BY <2>3, <2>5, <2>7, <2>8, <2>9 DEF EndsWith
  <2>11. EndsWith(text, Len(text) - Len(engine.rendered), engine'.rendered, text')
    BY <2>10 DEF n, f
  <2> QED BY <1>3, <1>4, <2>11, WordReplaced
<1> QED BY <1>2, <1>5, <1>6

(* A boundary re-opens the word in front of it when it is deleted.          *)
LEMMA ReopenWordKnown ==
  ASSUME TypeOK, TypeOK', WordsAgree, CaretKnown, ReopenWord
  PROVE  CaretKnown'
<1> DEFINE entry == committed[Len(committed)]
           word == entry.rendered
           shorter == SubSeq(committed, 1, Len(committed) - 1)
           n == Len(text)
           start == n - 1 - Len(word)
<1>1. /\ engine = FreshEngine /\ ~IsComposing(engine) /\ engine.rendered = <<>>
      /\ committed \in Histories /\ committed \in Seq(Behinds) /\ committed # <<>>
      /\ text \in Texts /\ n \in Nat
  BY LenProperties
     DEF ReopenWord, IsComposing, WordsAgree, KeysAndRenderingAgree, FreshEngine,
         TypeOK, Histories, Texts
<1>2. AccountedFor(text, n, committed)
  <2>1. AccountedFor(text, n - Len(engine.rendered), committed)
    BY DEF CaretKnown, HistoryIsAsRecorded
  <2>2. n - Len(engine.rendered) = n
    BY <1>1, EmptySeq
  <2> QED BY <2>1, <2>2
<1>3. start \in Nat /\ n >= 1 /\ ReadsAt(text, start, word) /\ AccountedFor(text, start, shorter)
  BY <1>1, <1>2, AccountShrinks
<1>4. word \in Seq(Chars) /\ Len(word) \in Nat /\ DOMAIN word = 1..Len(word)
  BY <1>1, PoppedEntries, EntryType
<1>5. committed' = shorter /\ text' = Deleted(text) /\ UNCHANGED correctable /\ shorter \in Seq(Behinds)
  BY <1>1, PopType DEF ReopenWord, Histories
<1>6. engine'.rendered = word /\ engine'.raw = entry.raw
  <2>1. CASE entry = BareBoundary
    BY <1>1, <2>1 DEF ReopenWord, BareBoundary, FreshEngine
  <2>2. CASE entry # BareBoundary
    BY <2>2 DEF ReopenWord, Restore
  <2> QED BY <2>1, <2>2
<1>7. /\ text' \in Texts /\ Len(text') = n - 1
      /\ \A j \in 1..(n - 1) : text'[j] = text[j]
  <2>1. text # <<>>
    BY <1>3, EmptySeq
  <2>2. EndsWith(text, n - 1, <<>>, text')
    BY <1>1, <1>5, <2>1, DeletedEndsWith
  <2>3. Len(text') = n - 1 + 0
    BY <2>2, EmptySeq DEF EndsWith
  <2> HIDE DEF n
  <2> QED BY <1>1, <2>2, <2>3 DEF EndsWith
<1>8. start + Len(word) = n - 1 /\ Len(text') - Len(word) = start
  <2> HIDE DEF n, word
  <2> QED BY <1>1, <1>4, <1>7
<1> HIDE DEF start, n, word, shorter
<1>9. ComposedWordIsTheTail'
  <2>1. \A j \in DOMAIN word : text[start + j] = word[j] /\ start + j \in 1..(n - 1)
    BY <1>1, <1>3, <1>4, <1>8 DEF ReadsAt
  <2>2. ReadsAt(text', start, word)
    BY <1>1, <1>3, <1>4, <1>7, <1>8, <2>1 DEF ReadsAt
  <2>3. Len(word) <= Len(text')
    BY <1>1, <1>3, <1>4, <1>7, <1>8
  <2> QED BY <1>6, <1>8, <2>2, <2>3 DEF ComposedWordIsTheTail
<1>10. HistoryIsAsRecorded'
  <2>1. start <= n - 1 /\ start <= Len(text)
    BY <1>1, <1>3, <1>4, <1>8 DEF n
  <2>2. \A j \in 1..start : text'[j] = text[j]
    BY <1>1, <1>3, <1>7, <2>1
  <2>3. AccountedFor(text', start, shorter)
    BY <1>1, <1>3, <1>5, <1>7, <2>1, <2>2, AccountKept
  <2> QED BY <1>5, <1>6, <1>8, <2>3 DEF HistoryIsAsRecorded
<1>11. CorrectionTargetIsAtTheCaret' /\ CorrectableIsOnTop'
  <2>1. correctable' # NoWord => IsComposing(engine')
    BY <1>1, <1>5, <1>6 DEF CaretKnown, CorrectableIsOnTop, IsComposing
  <2> QED BY <2>1 DEF CorrectionTargetIsAtTheCaret, CorrectableIsOnTop
<1>12. DeafRemembersNothing'
  BY ListeningUnchanged DEF DeafRemembersNothing, ReopenWord
<1> QED BY <1>9, <1>10, <1>11, <1>12 DEF CaretKnown

(* A character typed behind a text that ends in a word.                     *)
LEMMA TypedBehind ==
  ASSUME NEW t \in Texts, NEW ch \in Characters, NEW word \in Seq(Chars),
         Len(word) <= Len(t), ReadsAt(t, Len(t) - Len(word), word)
  PROVE  /\ Append(t, ch) \in Texts /\ Len(Append(t, ch)) = Len(t) + 1
         /\ \A j \in 1..Len(t) : Append(t, ch)[j] = t[j]
         /\ Append(t, ch)[Len(t) + 1] = ch
         /\ ReadsAt(Append(t, ch), Len(t) - Len(word), word)
         /\ Len(Append(word, ch)) <= Len(t) + 1
         /\ ReadsAt(Append(t, ch), Len(t) + 1 - Len(Append(word, ch)), Append(word, ch))
<1> DEFINE after == Append(t, ch)
           longer == Append(word, ch)
           n == Len(t) - Len(word)
<1>1. /\ after \in Texts /\ Len(after) = Len(t) + 1 /\ Len(t) \in Nat
      /\ \A j \in 1..Len(t) : after[j] = t[j]
      /\ after[Len(t) + 1] = ch
  BY AppendProperties, LenProperties DEF Texts
<1>2. /\ Len(longer) = Len(word) + 1 /\ Len(word) \in Nat
      /\ DOMAIN word = 1..Len(word) /\ DOMAIN longer = 1..(Len(word) + 1)
      /\ \A j \in 1..Len(word) : longer[j] = word[j]
      /\ longer[Len(word) + 1] = ch
  <2>1. word \in Texts
    BY TextFacts
  <2> QED BY <2>1, AppendProperties, LenProperties DEF Texts
<1>3. \A j \in 1..Len(word) : t[n + j] = word[j]
  BY <1>2 DEF ReadsAt
<1>4. n \in Nat /\ n + Len(word) = Len(t) /\ Len(t) + 1 - (Len(word) + 1) = n
      /\ n + (Len(word) + 1) = Len(t) + 1
  BY <1>1, <1>2
<1> HIDE DEF after, longer, n
<1>5. \A j \in 1..Len(word) : after[n + j] = word[j] /\ n + j \in 1..Len(t)
  BY <1>1, <1>2, <1>3, <1>4
<1>6. ReadsAt(after, n, word)
  BY <1>1, <1>2, <1>4, <1>5 DEF ReadsAt
<1>7. ReadsAt(after, n, longer)
  <2>1. ASSUME NEW j \in 1..(Len(word) + 1) PROVE after[n + j] = longer[j]
    <3>1. CASE j = Len(word) + 1
      BY <1>1, <1>2, <1>4, <3>1
    <3>2. CASE j # Len(word) + 1
      <4>1. j \in 1..Len(word)
        BY <1>2, <3>2
      <4> QED BY <1>2, <1>5, <4>1
    <3> QED BY <3>1, <3>2
  <2> QED BY <1>1, <1>2, <1>4, <2>1 DEF ReadsAt
<1>8. Len(longer) <= Len(t) + 1 /\ Len(t) + 1 - Len(longer) = n
  BY <1>1, <1>2, <1>4
<1> QED BY <1>1, <1>6, <1>7, <1>8 DEF after, longer, n

LEMMA WhereTheWordBegins ==
  ASSUME NEW a \in Nat, NEW b \in Nat, b <= a
  PROVE  /\ a - b \in Nat /\ a - b <= a /\ a + 1 = a - b + b + 1 /\ a - b <= a + 1
OBVIOUS

LEMMA CommitWordKnown ==
  ASSUME TypeOK, TypeOK', WordsAgree, CaretKnown, NEW ch, CommitWord(ch)
  PROVE  CaretKnown'
<1> DEFINE wanted == WantedReading(TypedWord(engine, settings.style), engine.rendered)
           restored == IsComposing(engine) /\ wanted # engine.rendered
           before == IF restored THEN Apply(text, Rewrite(engine.rendered, wanted)) ELSE text
           word == IF restored THEN wanted ELSE engine.rendered
           entry == [raw |-> engine.raw, rendered |-> engine.rendered]
           n == Len(text) - Len(engine.rendered)
<1>1. /\ engine \in Engines /\ text \in Texts /\ engine.rendered \in Seq(Chars)
      /\ committed \in Histories /\ Len(engine.rendered) <= Len(text)
      /\ ReadsAt(text, n, engine.rendered) /\ AccountedFor(text, n, committed)
      /\ settings.style \in Styles
  BY DEF TypeOK, Engines, Histories, CaretKnown, ComposedWordIsTheTail, HistoryIsAsRecorded,
         Settings
<1>2. wanted \in Seq(Chars) /\ wanted \in {TypedWord(engine, settings.style), engine.rendered}
  BY <1>1, WantedIsAReading, TypedWordType
<1>3. /\ ResetEngine /\ text' \in Typed(before, ch)
      /\ NoteBoundary(ch, CommittedAfter(wanted), CorrectableAfter(wanted, ch))
      /\ Listening /\ EndsAWord(ch) /\ UNCHANGED policy
  BY DEF CommitWord
<1>4. CASE ch \in ControlKeys
  <2>1. ForgetPosition
    BY <1>3, <1>4 DEF NoteBoundary
  <2> QED BY <1>3, <2>1, CaretForgotten
<1>5. CASE ch \notin ControlKeys
  <2>1. /\ text' = Append(before, ch) /\ ch \in Characters /\ ch \in Boundaries \cup Keys
        /\ committed' = CommittedAfter(wanted) /\ correctable' = CorrectableAfter(wanted, ch)
        /\ engine' = FreshEngine
    BY <1>3, <1>5, EndsAWordIsACharacter DEF Typed, NoteBoundary, ResetEngine
  <2>2. /\ before \in Texts /\ word \in Seq(Chars)
        /\ Len(word) <= Len(before) /\ ReadsAt(before, Len(before) - Len(word), word)
    <3>1. CASE ~restored
      BY <1>1, <3>1
    <3>2. CASE restored
      <4>1. EndsWith(text, n, wanted, before)
        BY <1>1, <1>2, <3>2, RewriteEndsWith
      <4>2. n \in Nat /\ Len(wanted) \in Nat /\ word = wanted
        BY <1>1, <1>2, <3>2, LenProperties DEF Texts
      <4> HIDE DEF n, wanted, before, word
      <4>3. Len(before) = n + Len(wanted) /\ Len(before) - Len(wanted) = n
        BY <4>1, <4>2 DEF EndsWith
      <4> QED BY <1>2, <4>1, <4>2, <4>3 DEF EndsWith, ReadsAt
    <3> QED BY <3>1, <3>2
  <2> HIDE DEF restored, before, word
  <2>3. /\ text' \in Texts /\ Len(text') = Len(before) + 1
        /\ \A j \in 1..Len(before) : text'[j] = before[j]
        /\ text'[Len(before) + 1] = ch
        /\ ReadsAt(text', Len(before) - Len(word), word)
        /\ Len(Append(word, ch)) <= Len(text')
        /\ ReadsAt(text', Len(text') - Len(Append(word, ch)), Append(word, ch))
    BY <2>1, <2>2, TypedBehind
  <2>4. ComposedWordIsTheTail'
    <3>1. Len(text') \in Nat /\ engine'.rendered = <<>>
      BY <2>1, <2>3, LenProperties DEF Texts, FreshEngine
    <3> QED BY <3>1, EmptySeq DEF ComposedWordIsTheTail, ReadsAt
  <2>5. CorrectionTargetIsAtTheCaret'
    <3> SUFFICES ASSUME correctable' # NoWord
                 PROVE  correctable'.onScreen = word /\ correctable'.boundary = ch
      BY <2>3 DEF CorrectionTargetIsAtTheCaret
    <3>1. IsComposing(engine) /\ correctable'.onScreen = wanted /\ correctable'.boundary = ch
      BY <2>1 DEF CorrectableAfter
    <3> QED BY <3>1 DEF word, restored
  <2>6. HistoryIsAsRecorded' /\ CorrectableIsOnTop'
    <3>1. CASE restored
      <4>1. committed' = <<>>
        BY <2>1, <3>1 DEF CommittedAfter, restored
      <4> QED BY <4>1, NothingToAccountFor DEF HistoryIsAsRecorded, CorrectableIsOnTop
    <3>2. CASE ~restored
      <4>1. committed' = PushBehind(committed, entry) /\ entry \in Behinds
        <5>1. CASE ~IsComposing(engine)
          <6>1. entry = BareBoundary
            BY <5>1 DEF IsComposing, WordsAgree, KeysAndRenderingAgree, FreshEngine, BareBoundary
          <6> QED BY <2>1, <5>1, <6>1, BehindType DEF CommittedAfter
        <5>2. CASE IsComposing(engine)
          BY <1>1, <2>1, <3>2, <5>2, BehindType DEF CommittedAfter, restored
        <5> QED BY <5>1, <5>2
      <4>2. before = text /\ word = engine.rendered /\ entry.rendered = engine.rendered
        BY <3>2 DEF before, word
      <4>3. n \in Nat /\ n <= Len(text) /\ Len(text) \in Nat /\ Len(engine.rendered) \in Nat
            /\ Len(text) + 1 = n + Len(engine.rendered) + 1 /\ n <= Len(text) + 1
        <5>1. Len(text) \in Nat /\ Len(engine.rendered) \in Nat
          BY <1>1, LenProperties DEF Texts
        <5>2. Len(engine.rendered) <= Len(text)
          BY <1>1
        <5> QED BY <5>1, <5>2, WhereTheWordBegins
      <4> HIDE DEF n
      <4>4. AccountedFor(text', n, committed)
        <5>1. \A j \in 1..n : text'[j] = text[j]
          BY <2>3, <4>2, <4>3
        <5>2. n <= Len(text')
          BY <2>3, <4>2, <4>3
        <5> QED BY <1>1, <2>3, <4>3, <5>1, <5>2, AccountKept DEF Histories
      <4>5. /\ Len(text') = n + Len(entry.rendered) + 1 /\ ReadsAt(text', n, entry.rendered)
            /\ text'[Len(text')] \in Boundaries \cup Keys
        <5>1. Len(before) - Len(word) = n
          BY <4>2 DEF n
        <5> QED BY <2>1, <2>3, <4>2, <4>3, <5>1
      <4> HIDE DEF entry
      <4>6. AccountedFor(text', Len(text'), committed') /\ committed'[Len(committed')] = entry
        BY <1>1, <2>3, <4>1, <4>3, <4>4, <4>5, AccountPushed
      <4>7. HistoryIsAsRecorded'
        <5>1. Len(text') - Len(engine'.rendered) = Len(text')
          BY <2>1, <2>3, EmptySeq, LenProperties DEF Texts, FreshEngine
        <5> QED BY <4>6, <5>1 DEF HistoryIsAsRecorded
      <4>8. CorrectableIsOnTop'
        <5>1. correctable' # NoWord =>
                engine.raw # <<>> /\ correctable'.onScreen = engine.rendered
          BY <2>1, <3>2 DEF CorrectableAfter, IsComposing, restored
        <5> QED BY <4>6, <5>1 DEF CorrectableIsOnTop, entry
      <4> QED BY <4>7, <4>8
    <3> QED BY <3>1, <3>2
  <2>7. DeafRemembersNothing'
    BY <1>3, ListeningUnchanged DEF DeafRemembersNothing
  <2> QED BY <2>4, <2>5, <2>6, <2>7 DEF CaretKnown
<1> QED BY <1>4, <1>5

-----------------------------------------------------------------------------
LEMMA CaretInit == Init => CaretKnown
<1> SUFFICES ASSUME Init PROVE CaretKnown
  OBVIOUS
<1>1. /\ text = <<>> /\ engine.rendered = <<>> /\ engine.raw = <<>>
      /\ committed = <<>> /\ correctable = NoWord
  BY DEF Init, FreshEngine
<1>2. Len(<<>>) = 0 /\ DOMAIN <<>> = {}
  BY EmptySeq
<1>3. ComposedWordIsTheTail
  BY <1>1, <1>2 DEF ComposedWordIsTheTail, ReadsAt
<1>4. HistoryIsAsRecorded
  BY <1>1, NothingToAccountFor DEF HistoryIsAsRecorded
<1> QED BY <1>1, <1>3, <1>4 DEF CaretKnown, CorrectionTargetIsAtTheCaret,
        CorrectableIsOnTop, DeafRemembersNothing, RemembersPosition, IsComposing

LEMMA CaretNext ==
  ASSUME UnseenMoves = {}, TypeOK, TypeOK', WordsAgree, CaretKnown, [Next]_vars
  PROVE  CaretKnown'
<1>1. ASSUME NEW key \in Keys, TypeWordKey(key) PROVE CaretKnown'
  BY <1>1, TypeWordKeyKnown
<1>2. ASSUME NEW ch, Boundary(ch) PROVE CaretKnown'
  <2>1. ExpandMacro(ch) => ResetEngine /\ ForgetPosition
    BY DEF ExpandMacro, NoteBoundary, ForgetPosition
  <2> QED BY <1>2, <2>1, CommitWordKnown, CaretForgotten DEF Boundary
<1>3. CASE Backspace
  <2>1. LoseWord => ResetEngine /\ ForgetPosition
    BY DEF LoseWord, Flush
  <2> QED BY <1>3, <2>1, ReopenWordKnown, ShrinkWordKnown, CaretForgotten DEF Backspace
<1>4. CASE MoveCaret \/ Shortcut \/ Click
  BY <1>4, CaretForgotten DEF MoveCaret, Shortcut, Click, Flush
<1>5. CASE \/ ToggleMode
           \/ \E a \in Apps : ToggleAppHotkey(a) \/ SetFrontmostApp(a)
           \/ \E style \in Styles : SetStyle(style)
  BY <1>5, CaretForgotten DEF ToggleMode, ToggleAppHotkey, SetFrontmostApp, SetStyle
<1>6. CASE KeyWhileDeaf
  <2>1. ~RemembersPosition
    BY <1>6 DEF KeyWhileDeaf, CaretKnown, DeafRemembersNothing
  <2>2. engine = FreshEngine /\ committed = <<>> /\ correctable = NoWord
    BY <2>1 DEF RemembersPosition, IsComposing, WordsAgree, KeysAndRenderingAgree
  <2>3. ResetEngine /\ ForgetPosition
    BY <1>6, <2>2 DEF KeyWhileDeaf, memory, ResetEngine, ForgetPosition
  <2> QED BY <2>3, CaretForgotten
<1>7. CASE PassCorrectionKey \/ KeyWithoutACharacter \/ ToggleNoApp \/ UNCHANGED vars
  <2>1. /\ UNCHANGED text /\ UNCHANGED engine /\ UNCHANGED memory /\ UNCHANGED policy
    BY <1>7 DEF PassCorrectionKey, KeyWithoutACharacter, LetThrough, ToggleNoApp, vars
  <2> QED BY <2>1, CaretUnchanged, ListeningUnchanged DEF CaretKnown, DeafRemembersNothing
<1>8. CASE CorrectLastWord
  <2>1. engine = FreshEngine
    BY <1>8 DEF CorrectLastWord, IsComposing, WordsAgree, KeysAndRenderingAgree
  <2>2. ResetEngine /\ ForgetPosition
    BY <1>8, <2>1 DEF CorrectLastWord, ResetEngine
  <2> QED BY <2>2, CaretForgotten
<1>9. CASE CorrectNothing
  <2>1. UNCHANGED text /\ UNCHANGED engine /\ UNCHANGED policy /\ Listening'
    BY <1>9, ListeningUnchanged DEF CorrectNothing, Listening
  <2>2. CASE UNCHANGED memory
    BY <2>1, <2>2, CaretUnchanged
  <2>3. CASE ForgetPosition
    <3>1. committed' = <<>> /\ correctable' = NoWord
      BY <2>3 DEF ForgetPosition
    <3>2. HistoryIsAsRecorded'
      BY <3>1, NothingToAccountFor DEF HistoryIsAsRecorded
    <3> QED BY <2>1, <3>1, <3>2 DEF CaretKnown, ComposedWordIsTheTail,
            CorrectionTargetIsAtTheCaret, CorrectableIsOnTop, DeafRemembersNothing
  <2> QED BY <1>9, <2>2, <2>3 DEF CorrectNothing
<1>10. ASSUME NEW autoFix \in BOOLEAN, NEW strict \in BOOLEAN, SetChecks(autoFix, strict)
       PROVE CaretKnown'
  <2>1. CASE spellCheck' = spellCheck
    <3>1. /\ UNCHANGED text /\ UNCHANGED engine /\ UNCHANGED memory
          /\ UNCHANGED mode /\ UNCHANGED app /\ UNCHANGED exclusions
          /\ settings'.alwaysMacro = settings.alwaysMacro
      BY <1>10, <2>1 DEF SetChecks, TypeOK, Settings
    <3>2. Listening' = Listening
      BY <3>1 DEF Listening, IsActive, MacrosActive, InFront
    <3> QED BY <3>1, <3>2, CaretUnchanged DEF CaretKnown, DeafRemembersNothing
  <2>2. CASE spellCheck' # spellCheck
    BY <1>10, <2>2, CaretForgotten DEF SetChecks
  <2> QED BY <2>1, <2>2
<1>11. ASSUME NEW on \in BOOLEAN, SetAlwaysMacro(on) PROVE CaretKnown'
  <2>1. UNCHANGED text /\ UNCHANGED engine /\ UNCHANGED memory /\ ~RemembersPosition
    BY <1>11 DEF SetAlwaysMacro
  <2> QED BY <2>1, CaretUnchanged
<1> QED BY <1>1, <1>2, <1>3, <1>4, <1>5, <1>6, <1>7, <1>8, <1>9, <1>10, <1>11
        DEF Next, CorrectionHotkey

LEMMA CaretIsKnown == UnseenMoves = {} /\ Spec => []CaretKnown
<1> SUFFICES ASSUME UnseenMoves = {} PROVE Spec => []CaretKnown
  OBVIOUS
<1>1. TypeOK /\ TypeOK' /\ WordsAgree /\ CaretKnown /\ [Next]_vars => CaretKnown'
  BY CaretNext
<1> QED BY <1>1, TypeCorrect, WordsAlwaysAgree, CaretInit, PTL DEF Spec

(* As long as no application moves the caret on a key GlowKey lets through  *)
(* without a flush, the text before the caret always ends in the word the   *)
(* engine believes it has rendered: every edit has the baseline it was      *)
(* computed from.                                                           *)
THEOREM TheWordIsTheTail ==
  UnseenMoves = {} /\ Spec => []ComposedWordIsTheTail
<1>1. CaretKnown => ComposedWordIsTheTail
  BY DEF CaretKnown
<1> QED BY <1>1, CaretIsKnown, PTL

(* Under the same condition the history is an unbroken account of the text  *)
(* behind the composed word: Backspace re-opens only words that are there.  *)
THEOREM TheHistoryIsTheText ==
  UnseenMoves = {} /\ Spec => []HistoryIsAsRecorded
<1>1. CaretKnown => HistoryIsAsRecorded
  BY DEF CaretKnown
<1> QED BY <1>1, CaretIsKnown, PTL

(* And the word the correction hotkey would replace is at the caret.        *)
THEOREM TheCorrectedWordIsThere ==
  UnseenMoves = {} /\ Spec => []CorrectionTargetIsAtTheCaret
<1>1. CaretKnown => CorrectionTargetIsAtTheCaret
  BY DEF CaretKnown
<1> QED BY <1>1, CaretIsKnown, PTL

-----------------------------------------------------------------------------
(* What the input method owns.  The account of the history is a sum: of its *)
(* words, and a boundary for each.                                          *)
Sizes(stack) == [i \in DOMAIN stack |-> Len(stack[i].rendered) + 1]

LEMMA SizesType ==
  ASSUME NEW stack \in Seq(Behinds)
  PROVE  Sizes(stack) \in Seq(Nat) /\ Len(Sizes(stack)) = Len(stack)
<1>1. \A i \in DOMAIN stack : Len(stack[i].rendered) + 1 \in Nat
  BY EntryType
<1> QED BY <1>1 DEF Sizes

LEMMA AccountIsASum ==
  ASSUME NEW stack \in Seq(Behinds)
  PROVE  IsSum(Sizes(stack), Accounted(stack)) /\ Accounted(stack) \in Nat
<1> DEFINE sizes == Sizes(stack)
           Sums(h) == h = [s \in SUBSET DOMAIN stack |->
                             IF s = {} THEN 0
                             ELSE LET x == CHOOSE x \in s : TRUE
                                  IN  Len(stack[x].rendered) + 1 + h[s \ {x}]]
           iter == CHOOSE h : Sums(h)
<1>1. Accounted(stack) = iter[DOMAIN stack]
  BY DEF Accounted, SequenceOps!FoldSeq, SequenceOps!FoldFunction,
         SequenceOps!FoldFunctionOnSet, SequenceOps!MapThenFoldSet
<1>2. sizes \in Seq(Nat) /\ DOMAIN sizes = DOMAIN stack
      /\ \A x \in DOMAIN stack : sizes[x] = Len(stack[x].rendered) + 1
  BY SizesType DEF Sizes
<1>3. ASSUME NEW s \in SUBSET DOMAIN stack, s # {}
      PROVE  (CHOOSE x \in s : TRUE) \in DOMAIN stack
  BY <1>3
<1> HIDE DEF sizes
<1>4. \E h : Sums(h)
  <2>1. PICK h \in [SUBSET DOMAIN sizes -> Nat] : SumsOver(h, sizes)
    BY <1>2, SumExists
  <2>2. ASSUME NEW s \in SUBSET DOMAIN stack
        PROVE  h[s] = IF s = {} THEN 0
                      ELSE LET x == CHOOSE x \in s : TRUE
                           IN  Len(stack[x].rendered) + 1 + h[s \ {x}]
    BY <1>2, <1>3, <2>1, <2>2 DEF SumsOver
  <2> DEFINE g == [s \in SUBSET DOMAIN stack |->
                     IF s = {} THEN 0
                     ELSE LET x == CHOOSE x \in s : TRUE
                          IN  Len(stack[x].rendered) + 1 + h[s \ {x}]]
  <2>3. \A s \in SUBSET DOMAIN stack : g[s] = h[s]
    BY <2>2, Zenon
  <2>4. h = [s \in SUBSET DOMAIN stack |-> h[s]]
        /\ g = [s \in SUBSET DOMAIN stack |-> g[s]]
    BY <1>2
  <2>5. h = g
    <3> HIDE DEF g
    <3> QED BY <2>3, <2>4
  <2> QED BY <2>5
<1>5. Sums(iter)
  <2> HIDE DEF Sums
  <2> QED BY <1>4
<1> HIDE DEF iter
<1>6. SumsOver(iter, sizes)
  BY <1>2, <1>3, <1>5 DEF SumsOver
<1> QED BY <1>1, <1>2, <1>6, SumInAnyOrder, SumIsANatural DEF sizes

LEMMA AccountOfNone == Accounted(<<>>) = 0
<1>1. <<>> \in Seq(Behinds) /\ Sizes(<<>>) = <<>> /\ <<>> \in Seq(Nat)
  BY DEF Sizes
<1> QED BY <1>1, AccountIsASum, SumOfNone, SumIsUnique

LEMMA AccountOfMore ==
  ASSUME NEW stack \in Seq(Behinds), NEW entry \in Behinds
  PROVE  Accounted(Append(stack, entry)) = Accounted(stack) + (Len(entry.rendered) + 1)
<1> DEFINE longer == Append(stack, entry)
           size == Len(entry.rendered) + 1
<1>1. longer \in Seq(Behinds) /\ size \in Nat
  BY AppendProperties, LenProperties DEF Behinds
<1>2. Sizes(longer) = Append(Sizes(stack), size)
  <2>1. /\ Len(longer) = Len(stack) + 1 /\ Len(stack) \in Nat
        /\ \A i \in 1..Len(stack) : longer[i] = stack[i]
        /\ longer[Len(stack) + 1] = entry
    BY AppendProperties, LenProperties
  <2>2. /\ DOMAIN longer = 1..(Len(stack) + 1) /\ DOMAIN stack = 1..Len(stack)
    BY <1>1, <2>1, LenProperties
  <2> QED BY <2>1, <2>2 DEF Sizes
<1>3. /\ Sizes(stack) \in Seq(Nat) /\ IsSum(Sizes(stack), Accounted(stack))
      /\ Sizes(longer) \in Seq(Nat) /\ IsSum(Sizes(longer), Accounted(longer))
  <2> HIDE DEF longer
  <2> QED BY <1>1, SizesType, AccountIsASum
<1> HIDE DEF longer, size
<1>4. IsSum(Sizes(longer), Accounted(stack) + size)
  BY <1>1, <1>2, <1>3, SumOfMore
<1>5. Accounted(longer) = Accounted(stack) + size
  BY <1>3, <1>4, SumIsUnique
<1> QED BY <1>5 DEF longer, size

LEMMA AccountOfFewer ==
  ASSUME NEW stack \in Seq(Behinds), stack # <<>>
  PROVE  Accounted(SubSeq(stack, 1, Len(stack) - 1))
           = Accounted(stack) - (Len(stack[Len(stack)].rendered) + 1)
<1> DEFINE shorter == SubSeq(stack, 1, Len(stack) - 1)
           entry == stack[Len(stack)]
<1>1. Len(stack) \in Nat \ {0} /\ entry \in Behinds
  BY EmptySeq
<1>2. /\ shorter \in Seq(Behinds) /\ Len(shorter) = Len(stack) - 1
      /\ \A i \in 1..(Len(stack) - 1) : shorter[i] = stack[i]
  <2> DEFINE n == Len(stack) - 1
  <2>1. n \in 0..Len(stack)
    BY <1>1
  <2> HIDE DEF n
  <2>2. /\ SubSeq(stack, 1, n) \in Seq(Behinds) /\ Len(SubSeq(stack, 1, n)) = n
        /\ \A i \in 1..n : SubSeq(stack, 1, n)[i] = stack[i]
    BY <2>1, Beginning
  <2> QED BY <2>2 DEF n
<1> HIDE DEF shorter
<1>3. stack = Append(shorter, entry)
  BY <1>1, <1>2
<1> HIDE DEF entry
<1>4. Accounted(stack) = Accounted(shorter) + (Len(entry.rendered) + 1)
  BY <1>1, <1>2, <1>3, AccountOfMore
<1>5. Accounted(shorter) \in Nat /\ Len(entry.rendered) \in Nat
  BY <1>1, <1>2, AccountIsASum, LenProperties DEF Behinds
<1> QED BY <1>4, <1>5 DEF shorter, entry

LEMMA AccountOfTheRest ==
  ASSUME NEW stack \in Seq(Behinds), stack # <<>>
  PROVE  Accounted(SubSeq(stack, 2, Len(stack))) <= Accounted(stack)
<1> DEFINE rest == SubSeq(stack, 2, Len(stack))
<1>1. /\ Len(stack) \in Nat \ {0} /\ rest = Tail(stack) /\ rest \in Seq(Behinds)
      /\ DOMAIN stack = 1..Len(stack) /\ DOMAIN rest = 1..(Len(stack) - 1)
      /\ \A i \in 1..(Len(stack) - 1) : rest[i] = stack[i + 1]
  BY EmptySeq, LenProperties, HeadTailProperties
<1> HIDE DEF rest
<1>2. Sizes(rest) = Tail(Sizes(stack))
  BY <1>1, SizesType DEF Sizes
<1>3. /\ Sizes(stack) \in Seq(Nat) /\ Sizes(stack) # <<>> /\ Sizes(rest) \in Seq(Nat)
      /\ IsSum(Sizes(stack), Accounted(stack)) /\ IsSum(Sizes(rest), Accounted(rest))
      /\ Accounted(stack) \in Nat /\ Sizes(stack)[1] \in Nat
  <2>1. Len(Sizes(stack)) \in Nat \ {0} /\ Sizes(stack) \in Seq(Nat)
    BY <1>1, SizesType
  <2>2. Sizes(stack) # <<>> /\ Sizes(stack)[1] \in Nat
    BY <2>1, EmptySeq
  <2> QED BY <1>1, <2>2, SizesType, AccountIsASum
<1>4. IsSum(Sizes(rest), Accounted(stack) - Sizes(stack)[1])
  BY <1>2, <1>3, SumOfRest
<1>5. Accounted(rest) = Accounted(stack) - Sizes(stack)[1]
  BY <1>3, <1>4, SumIsUnique
<1> QED BY <1>3, <1>5 DEF rest

LEMMA PushedAccount ==
  ASSUME NEW stack \in Histories, NEW entry \in Behinds
  PROVE  /\ Accounted(PushBehind(stack, entry))
              <= Accounted(stack) + (Len(entry.rendered) + 1)
         /\ PushBehind(stack, entry) # <<>>
<1> DEFINE longer == Append(stack, entry)
<1>1. /\ longer \in Seq(Behinds) /\ Len(longer) = Len(stack) + 1 /\ Len(stack) \in Nat
      /\ longer # <<>> /\ stack \in Seq(Behinds)
  BY AppendProperties, LenProperties DEF Histories
<1>2. Accounted(longer) = Accounted(stack) + (Len(entry.rendered) + 1)
  BY <1>1, AccountOfMore
<1>3. Accounted(longer) \in Nat
  BY <1>1, AccountIsASum
<1>4. CASE PushBehind(stack, entry) = longer
  BY <1>1, <1>2, <1>3, <1>4
<1>5. CASE /\ PushBehind(stack, entry) = SubSeq(longer, 2, Len(stack) + 1)
           /\ Len(stack) = CommittedHistory
  <2> HIDE DEF longer
  <2>1. PushBehind(stack, entry) = SubSeq(longer, 2, Len(longer))
    BY <1>1, <1>5
  <2>2. Accounted(PushBehind(stack, entry)) <= Accounted(longer)
    BY <1>1, <2>1, AccountOfTheRest
  <2>3. 2 \in 1..(Len(longer) + 1) /\ Len(longer) \in (2 - 1)..Len(longer)
    BY <1>1
  <2>4. Len(SubSeq(longer, 2, Len(longer))) = Len(longer) - 2 + 1
    BY <1>1, <2>3, SliceProperties
  <2>5. Len(PushBehind(stack, entry)) # 0
    BY <1>1, <1>5, <2>1, <2>4, CapType
  <2> QED BY <1>2, <2>2, <2>5, EmptySeq
<1> QED BY <1>4, <1>5, PushBehindDrops

LEMMA WordsAreOwned ==
  TypeOK =>
    /\ Owned \in Nat /\ Accounted(committed) \in Nat /\ Len(engine.rendered) \in Nat
    /\ IsComposing(engine) \/ committed # <<>> \/ correctable = NoWord
         => Owned = Len(engine.rendered) + Accounted(committed)
<1> SUFFICES ASSUME TypeOK
             PROVE  /\ Owned \in Nat /\ Accounted(committed) \in Nat
                    /\ Len(engine.rendered) \in Nat
                    /\ IsComposing(engine) \/ committed # <<>> \/ correctable = NoWord
                         => Owned = Len(engine.rendered) + Accounted(committed)
  OBVIOUS
<1>1. Accounted(committed) \in Nat /\ Len(engine.rendered) \in Nat
  BY AccountIsASum, LenProperties DEF TypeOK, Engines
<1>2. correctable # NoWord => Len(correctable.onScreen) \in Nat
  BY LenProperties DEF TypeOK, Correctables
<1> QED BY <1>1, <1>2 DEF Owned

LEMMA WordsStayOwned ==
  TypeOK' =>
    /\ Owned' \in Nat /\ Accounted(committed') \in Nat /\ Len(engine'.rendered) \in Nat
    /\ IsComposing(engine') \/ committed' # <<>> \/ correctable' = NoWord
         => Owned' = Len(engine'.rendered) + Accounted(committed')
<1> SUFFICES ASSUME TypeOK'
             PROVE  /\ Owned' \in Nat /\ Accounted(committed') \in Nat
                    /\ Len(engine'.rendered) \in Nat
                    /\ IsComposing(engine') \/ committed' # <<>> \/ correctable' = NoWord
                         => Owned' = Len(engine'.rendered) + Accounted(committed')
  OBVIOUS
<1>1. Accounted(committed') \in Nat /\ Len(engine'.rendered) \in Nat
  BY AccountIsASum, LenProperties DEF TypeOK, Engines
<1>2. correctable' # NoWord => Len(correctable'.onScreen) \in Nat
  BY LenProperties DEF TypeOK, Correctables
<1> QED BY <1>1, <1>2 DEF Owned

(* What each step of the abstract specification asks for.                   *)
LEMMA ApplyNothing ==
  ASSUME NEW t \in Texts
  PROVE  Apply(t, NoEdit) = t
<1>1. Len(t) \in Nat /\ SubSeq(t, 1, Len(t) - 0) = t /\ t \o <<>> = t
  BY LenProperties, SubSeqFull DEF Texts
<1> QED BY <1>1 DEF Apply, NoEdit

LEMMA StepByEdit ==
  ASSUME TypeOK, TypeOK', NEW e \in Edits, decision'.edit = e, text' = Apply(text, e),
         e.bs <= Owned, Owned' <= Owned - e.bs + Len(e.ins)
  PROVE  Ownership!Next
<1>1. /\ Owned \in Nat /\ Owned' \in Nat /\ e.bs \in Nat /\ Len(e.ins) \in Nat
      /\ text \in Texts
  BY WordsAreOwned, WordsStayOwned, LenProperties DEF Edits, Texts, TypeOK
<1>2. Owned' \in 0..(Owned - e.bs + Len(e.ins))
  BY <1>1
<1>3. CASE e # NoEdit
  BY <1>1, <1>2, <1>3 DEF Ownership!Next, Ownership!Edit, Ownership!KeyEffect,
                     Ownership!Nothing, Ownership!Edited, Apply
<1>4. CASE e = NoEdit
  <2>1. text' = text /\ Owned' \in 0..Owned
    <3>1. e.bs = 0 /\ Len(e.ins) = 0
      BY <1>4, EmptySeq DEF NoEdit
    <3> QED BY <1>1, <1>2, <1>4, <3>1, ApplyNothing
  <2> QED BY <1>4, <2>1 DEF Ownership!Next, Ownership!Watch, Ownership!KeyEffect,
                            Ownership!Nothing
<1> QED BY <1>3, <1>4

LEMMA StepByKey ==
  ASSUME TypeOK, TypeOK', NEW e \in Edits, decision'.edit = e,
         NEW ch \in Characters, text' = Append(Apply(text, e), ch),
         e.bs <= Owned, Owned' <= Owned - e.bs + Len(e.ins) + 1
  PROVE  Ownership!Next
<1> DEFINE before == Apply(text, e)
           n == Owned - e.bs + Len(e.ins)
<1>1. /\ Owned \in Nat /\ Owned' \in Nat /\ e.bs \in Nat /\ Len(e.ins) \in Nat
      /\ text \in Texts /\ before \in Texts
  BY WordsAreOwned, WordsStayOwned, ApplyType, LenProperties DEF Edits, Texts, TypeOK
<1>2. Owned' \in 0..(n + 1)
  BY <1>1
<1>3. Len(text') = Len(before) + 1 /\ SubSeq(text', 1, Len(before)) = before
  BY <1>1, AppendProperties DEF Texts
<1>4. CASE e # NoEdit
  <2>1. before = Ownership!Edited(text, decision'.edit)
    BY DEF Apply, Ownership!Edited
  <2> HIDE DEF before
  <2> QED BY <1>2, <1>3, <1>4, <2>1 DEF Ownership!Next, Ownership!Edit, Ownership!KeyEffect,
                     Ownership!Insert
<1>5. CASE e = NoEdit
  <2>1. before = text /\ n = Owned
    <3>1. e.bs = 0 /\ Len(e.ins) = 0
      BY <1>5, EmptySeq DEF NoEdit
    <3> QED BY <1>1, <1>5, <3>1, ApplyNothing
  <2> HIDE DEF before, n
  <2> QED BY <1>2, <1>3, <1>5, <2>1 DEF Ownership!Next, Ownership!Watch, Ownership!KeyEffect,
                            Ownership!Insert
<1> QED BY <1>4, <1>5

LEMMA StepByBackspace ==
  ASSUME TypeOK, TypeOK', decision'.edit = NoEdit, text # <<>>, text' = Deleted(text),
         Owned' <= Owned - 1
  PROVE  Ownership!Next
<1>1. Owned \in Nat /\ Owned' \in Nat
  BY WordsAreOwned, WordsStayOwned
<1>2. Owned' \in 0..(Owned - 1) /\ text' = SubSeq(text, 1, Len(text) - 1)
  BY <1>1 DEF Deleted
<1> QED BY <1>2 DEF Ownership!Next, Ownership!Watch, Ownership!KeyEffect, Ownership!Delete

LEMMA StepElsewhere ==
  ASSUME Owned' = 0, decision'.edit = NoEdit \/ decision'.edit.bs <= Owned
  PROVE  Ownership!Next
BY DEF Ownership!Next, Ownership!Watch, Ownership!Edit, Ownership!KeyEffect, Ownership!Elsewhere

LEMMA StepKeeps ==
  ASSUME TypeOK, TypeOK', decision'.edit = NoEdit, UNCHANGED text, Owned' <= Owned
  PROVE  Ownership!Next
<1>1. Owned' \in 0..Owned
  BY WordsAreOwned, WordsStayOwned
<1> QED BY <1>1 DEF Ownership!Next, Ownership!Watch, Ownership!KeyEffect, Ownership!Nothing

(* Step by step.                                                            *)
LEMMA ForgottenIsNotOwned ==
  ASSUME TypeOK', engine'.rendered = <<>>, engine'.raw = <<>>, ForgetPosition
  PROVE  Owned' = 0
<1>1. correctable' = NoWord /\ committed' = <<>>
  BY DEF ForgetPosition
<1>2. Owned' = Len(engine'.rendered) + Accounted(committed')
  BY <1>1, WordsStayOwned
<1> QED BY <1>1, <1>2, AccountOfNone, EmptySeq

LEMMA TypeWordKeyEdits ==
  ASSUME TypeOK, TypeOK', WordsAgree, NEW key \in Keys, TypeWordKey(key)
  PROVE  Ownership!Next
<1> DEFINE prev == engine.rendered
           next == engine'.rendered
           k == CommonPrefix(prev, next)
           e == Diff(prev, next)
<1>1. prev \in Seq(Chars) /\ next \in Seq(Chars)
  BY DEF TypeOK, Engines
<1>2. /\ k \in 0..Len(prev) /\ k <= Len(next) /\ Len(prev) \in Nat /\ Len(next) \in Nat
  BY <1>1, CommonPrefixIsShared, LenProperties
<1>3. e \in Edits /\ e.bs = Len(prev) - k /\ Len(e.ins) = Len(next) - k
  <2>1. e \in Edits /\ e.bs = Len(prev) - k /\ e.ins = SubSeq(next, k + 1, Len(next))
    BY <1>1, DiffType DEF Diff
  <2>2. k + 1 \in 1..(Len(next) + 1) /\ Len(next) \in (k + 1 - 1)..Len(next)
    <3> HIDE DEF k
    <3> QED BY <1>2
  <2> HIDE DEF k, next
  <2>3. Len(SubSeq(next, k + 1, Len(next))) = Len(next) - (k + 1) + 1
    BY <1>1, <2>2, SliceProperties
  <2> QED BY <1>2, <2>1, <2>3
<1>4. decision'.edit = e /\ text' = Apply(text, e)
      /\ correctable' = NoWord /\ committed' = committed
  BY DEF TypeWordKey, Emit
<1>5. Owned' = Len(next) + Accounted(committed)
  BY <1>4, WordsStayOwned
<1>6. Owned \in Nat /\ Accounted(committed) \in Nat
  BY WordsAreOwned
<1>7. e.bs <= Owned /\ Owned' <= Owned - e.bs + Len(e.ins)
  <2>1. CASE Owned = Len(prev) + Accounted(committed)
    <3> HIDE DEF e, k, prev, next
    <3> QED BY <1>2, <1>3, <1>5, <1>6, <2>1
  <2>2. CASE ~(IsComposing(engine) \/ committed # <<>> \/ correctable = NoWord)
    <3>1. prev = <<>> /\ committed = <<>>
      BY <2>2 DEF IsComposing, WordsAgree, KeysAndRenderingAgree, FreshEngine
    <3>2. Len(prev) = 0 /\ Accounted(committed) = 0
      BY <3>1, AccountOfNone, EmptySeq
    <3> HIDE DEF e, k, prev, next
    <3> QED BY <1>2, <1>3, <1>5, <1>6, <3>2
  <2> QED BY <2>1, <2>2, WordsAreOwned
<1> HIDE DEF e
<1> QED BY <1>3, <1>4, <1>7, StepByEdit

LEMMA ExpandMacroEdits ==
  ASSUME TypeOK, TypeOK', NEW ch, ExpandMacro(ch)
  PROVE  Ownership!Next
<1>1. PICK shortcut \in PendingMacros :
        decision'.edit = Rewrite(engine.rendered, Macros[shortcut])
  BY DEF ExpandMacro, Emit, EmitThenReplayKey
<1>2. IsComposing(engine)
  BY DEF PendingMacros
<1>3. decision'.edit.bs <= Owned
  <2>1. decision'.edit.bs = Len(engine.rendered)
    BY <1>1 DEF Rewrite
  <2> QED BY <1>2, <2>1, WordsAreOwned
<1>4. Owned' = 0
  <2>1. ForgetPosition /\ engine' = FreshEngine
    BY DEF ExpandMacro, NoteBoundary, ForgetPosition, ResetEngine
  <2> QED BY <2>1, ForgottenIsNotOwned DEF FreshEngine
<1> QED BY <1>3, <1>4, StepElsewhere

LEMMA CommitWordEdits ==
  ASSUME TypeOK, TypeOK', WordsAgree, NEW ch, CommitWord(ch)
  PROVE  Ownership!Next
<1> DEFINE wanted == WantedReading(TypedWord(engine, settings.style), engine.rendered)
           restored == IsComposing(engine) /\ wanted # engine.rendered
           e == IF restored THEN Rewrite(engine.rendered, wanted) ELSE NoEdit
           entry == [raw |-> engine.raw, rendered |-> engine.rendered]
<1>1. /\ engine \in Engines /\ text \in Texts /\ engine.rendered \in Seq(Chars)
      /\ committed \in Histories /\ settings.style \in Styles
      /\ Len(engine.rendered) \in Nat
  BY LenProperties DEF TypeOK, Engines, Histories, Settings
<1>2. wanted \in Seq(Chars) /\ Len(wanted) \in Nat
  BY <1>1, WantedIsAReading, TypedWordType, LenProperties
<1>3. e \in Edits
  BY <1>1, <1>2, RewriteType, TextFacts
<1>4. /\ engine' = FreshEngine /\ EndsAWord(ch) /\ decision'.edit = e
      /\ NoteBoundary(ch, CommittedAfter(wanted), CorrectableAfter(wanted, ch))
  BY DEF CommitWord, ResetEngine, EmitThenReplayKey, Passthrough
<1>5. text' \in Typed(Apply(text, e), ch)
  <2>1. CASE restored
    BY <2>1 DEF CommitWord
  <2>2. CASE ~restored
    <3>1. text' \in Typed(text, ch)
      BY <2>2 DEF CommitWord
    <3>2. Apply(text, NoEdit) = text
      BY <1>1, ApplyNothing
    <3> QED BY <2>2, <3>1, <3>2
  <2> QED BY <2>1, <2>2
<1>6. /\ restored => e.bs = Len(engine.rendered) /\ Len(e.ins) = Len(wanted)
      /\ ~restored => e.bs = 0 /\ Len(e.ins) = 0
  BY EmptySeq DEF Rewrite, NoEdit
<1>7. /\ Owned \in Nat /\ Accounted(committed) \in Nat
      /\ IsComposing(engine) => Owned = Len(engine.rendered) + Accounted(committed)
  BY WordsAreOwned
<1>8. e.bs <= Owned
  <2> HIDE DEF wanted, e
  <2> QED BY <1>1, <1>6, <1>7
<1>9. CASE ch \in ControlKeys
  <2>1. ForgetPosition
    BY <1>4, <1>9 DEF NoteBoundary
  <2>2. Owned' = 0
    BY <1>4, <2>1, ForgottenIsNotOwned DEF FreshEngine
  <2> QED BY <1>4, <1>8, <2>2, StepElsewhere
<1>10. CASE ch \notin ControlKeys
  <2>1. /\ text' = Append(Apply(text, e), ch) /\ ch \in Characters
        /\ committed' = CommittedAfter(wanted) /\ correctable' = CorrectableAfter(wanted, ch)
    BY <1>4, <1>5, <1>10, EndsAWordIsACharacter DEF Typed, NoteBoundary
  <2>2. Owned' <= Owned - e.bs + Len(e.ins) + 1
    <3>1. CASE restored
      <4>1. /\ committed' = <<>> /\ engine'.raw = <<>> /\ engine'.rendered = <<>>
            /\ correctable' # NoWord => correctable'.onScreen = wanted
        BY <1>4, <2>1, <3>1 DEF CommittedAfter, CorrectableAfter, FreshEngine
      <4>2. Accounted(committed') = 0 /\ Len(engine'.rendered) = 0
        BY <4>1, AccountOfNone, EmptySeq
      <4>3. Owned' = 0 \/ Owned' = Len(wanted) + 1
        <5>1. CASE correctable' = NoWord
          BY <4>2, <5>1, WordsStayOwned
        <5>2. CASE correctable' # NoWord
          BY <4>1, <5>2 DEF Owned, IsComposing
        <5> QED BY <5>1, <5>2
      <4>4. /\ Owned = Len(engine.rendered) + Accounted(committed)
            /\ e.bs = Len(engine.rendered) /\ Len(e.ins) = Len(wanted)
        BY <1>6, <1>7, <3>1
      <4> HIDE DEF e, wanted
      <4>5. Owned - e.bs + Len(e.ins) + 1 = Accounted(committed) + Len(wanted) + 1
        BY <1>1, <1>2, <1>7, <4>4
      <4> QED BY <1>2, <1>7, <4>3, <4>5
    <3>2. CASE ~restored
      <4>1. committed' = PushBehind(committed, entry) /\ entry \in Behinds
        <5>1. CASE ~IsComposing(engine)
          <6>1. entry = BareBoundary
            BY <5>1 DEF IsComposing, WordsAgree, KeysAndRenderingAgree, FreshEngine, BareBoundary
          <6> QED BY <2>1, <5>1, <6>1, BehindType DEF CommittedAfter
        <5>2. CASE IsComposing(engine)
          BY <1>1, <2>1, <3>2, <5>2, BehindType DEF CommittedAfter
        <5> QED BY <5>1, <5>2
      <4>2. /\ Accounted(committed') <= Accounted(committed) + (Len(engine.rendered) + 1)
            /\ committed' # <<>>
        <5> HIDE DEF entry
        <5>1. /\ Accounted(committed') <= Accounted(committed) + (Len(entry.rendered) + 1)
              /\ committed' # <<>>
          BY <1>1, <4>1, PushedAccount
        <5> QED BY <5>1 DEF entry
      <4>3. Owned' = Accounted(committed') /\ Accounted(committed') \in Nat
        <5>1. Owned' = Len(engine'.rendered) + Accounted(committed')
              /\ Accounted(committed') \in Nat
          BY <4>2, WordsStayOwned
        <5>2. Len(engine'.rendered) = 0
          BY <1>4, EmptySeq DEF FreshEngine
        <5> QED BY <5>1, <5>2
      <4>4. Accounted(committed) + Len(engine.rendered) <= Owned
        <5>1. CASE IsComposing(engine) \/ committed # <<>> \/ correctable = NoWord
          BY <1>1, <1>7, <5>1, WordsAreOwned
        <5>2. CASE ~(IsComposing(engine) \/ committed # <<>> \/ correctable = NoWord)
          <6>1. engine.rendered = <<>> /\ committed = <<>>
            BY <5>2 DEF IsComposing, WordsAgree, KeysAndRenderingAgree, FreshEngine
          <6>2. Accounted(committed) = 0 /\ Len(engine.rendered) = 0
            BY <6>1, AccountOfNone, EmptySeq
          <6> QED BY <1>7, <6>2
        <5> QED BY <5>1, <5>2
      <4> HIDE DEF e, wanted, entry
      <4> QED BY <1>1, <1>6, <1>7, <3>2, <4>2, <4>3, <4>4
    <3> QED BY <3>1, <3>2
  <2> HIDE DEF e
  <2> QED BY <1>3, <1>4, <1>8, <2>1, <2>2, StepByKey
<1> QED BY <1>9, <1>10

LEMMA ReopenWordEdits ==
  ASSUME TypeOK, TypeOK', WordsAgree, CaretKnown, ReopenWord
  PROVE  Ownership!Next
<1> DEFINE entry == committed[Len(committed)]
           shorter == SubSeq(committed, 1, Len(committed) - 1)
           size == Len(entry.rendered)
<1>1. /\ engine.rendered = <<>> /\ engine.raw = <<>> /\ ~IsComposing(engine)
      /\ committed \in Seq(Behinds) /\ committed # <<>> /\ committed \in Histories
      /\ text \in Texts /\ Len(text) \in Nat
  BY LenProperties
     DEF ReopenWord, IsComposing, WordsAgree, KeysAndRenderingAgree, FreshEngine,
         TypeOK, Histories, Texts
<1>2. text # <<>>
  <2>1. AccountedFor(text, Len(text), committed)
    <3>1. AccountedFor(text, Len(text) - Len(engine.rendered), committed)
      BY DEF CaretKnown, HistoryIsAsRecorded
    <3>2. Len(text) - Len(engine.rendered) = Len(text)
      BY <1>1, EmptySeq
    <3> QED BY <3>1, <3>2
  <2>2. Len(text) >= 1
    BY <1>1, <2>1, AccountShrinks
  <2> QED BY <2>2, EmptySeq
<1>3. /\ committed' = shorter /\ correctable' = correctable /\ text' = Deleted(text)
      /\ decision'.edit = NoEdit
      /\ engine'.raw = entry.raw /\ engine'.rendered = entry.rendered
  <2>1. CASE entry = BareBoundary
    BY <1>1, <2>1 DEF ReopenWord, BareBoundary, Passthrough
  <2>2. CASE entry # BareBoundary
    BY <2>2 DEF ReopenWord, Restore, Passthrough
  <2> QED BY <2>1, <2>2
<1>4. Accounted(shorter) = Accounted(committed) - (size + 1)
  BY <1>1, AccountOfFewer
<1>5. correctable = NoWord \/ entry.raw # <<>>
  BY <1>1 DEF CaretKnown, CorrectableIsOnTop
<1>6. Owned' = size + Accounted(shorter)
  BY <1>3, <1>5, WordsStayOwned DEF IsComposing
<1>7. Owned = Accounted(committed) /\ Accounted(committed) \in Nat
  <2>1. Owned = Len(engine.rendered) + Accounted(committed)
    BY <1>1, WordsAreOwned
  <2> QED BY <1>1, <2>1, WordsAreOwned, EmptySeq
<1>8. size \in Nat
  BY <1>3, WordsStayOwned
<1>9. Owned' <= Owned - 1
  <2> HIDE DEF size, shorter
  <2> QED BY <1>4, <1>6, <1>7, <1>8
<1> QED BY <1>2, <1>3, <1>9, StepByBackspace

LEMMA ShrinkWordEdits ==
  ASSUME TypeOK, TypeOK', CaretKnown, ShrinkWord
  PROVE  Ownership!Next
<1> DEFINE outcome == BackspaceVisibleChar(engine, settings.style)
<1>1. /\ engine \in Engines /\ settings.style \in Styles /\ text \in Texts
      /\ engine.rendered \in Seq(Chars) /\ Len(engine.rendered) <= Len(text)
      /\ IsComposing(engine) /\ engine'.rendered \in Seq(Chars)
  BY DEF TypeOK, Settings, Engines, CaretKnown, ComposedWordIsTheTail, ShrinkWord
<1>2. /\ engine.rendered # <<>>
      /\ \/ Followed(engine, settings.style, outcome)
         \/ Repaired(engine, settings.style, outcome)
  BY <1>1, BackspaceFollowsOrRepairs DEF ShrinkWord
<1>3. /\ engine' = outcome.engine /\ UNCHANGED committed /\ correctable' = NoWord
      /\ outcome.kind = "Repair" =>
           text' = Apply(text, outcome.edit) /\ decision'.edit = outcome.edit
      /\ outcome.kind # "Repair" => text' = Deleted(text) /\ decision'.edit = NoEdit
  BY DEF ShrinkWord, Emit, Passthrough
<1>4. /\ Owned = Len(engine.rendered) + Accounted(committed)
      /\ Owned' = Len(engine'.rendered) + Accounted(committed)
      /\ Accounted(committed) \in Nat
      /\ Len(engine.rendered) \in Nat /\ Len(engine'.rendered) \in Nat
  BY <1>1, <1>3, WordsAreOwned, WordsStayOwned
<1> HIDE DEF outcome
<1>5. CASE Repaired(engine, settings.style, outcome)
  <2> DEFINE e == Rewrite(engine.rendered, engine'.rendered)
  <2>1. text' = Apply(text, e) /\ decision'.edit = e
    BY <1>3, <1>5 DEF Repaired
  <2>2. e \in Edits /\ e.bs = Len(engine.rendered) /\ e.ins = engine'.rendered
    BY <1>1, RewriteType DEF Rewrite
  <2> HIDE DEF e
  <2>3. e.bs <= Owned /\ Owned' <= Owned - e.bs + Len(e.ins)
    BY <1>4, <2>2
  <2> QED BY <2>1, <2>2, <2>3, StepByEdit
<1>6. CASE Followed(engine, settings.style, outcome)
  <2>1. text' = Deleted(text) /\ engine'.rendered = SequenceOps!Front(engine.rendered)
        /\ decision'.edit = NoEdit
    BY <1>3, <1>6 DEF Followed
  <2>2. Len(engine'.rendered) = Len(engine.rendered) - 1
    BY <1>1, <1>2, <2>1, FrontOfWord
  <2>3. text # <<>>
    <3>1. Len(engine.rendered) # 0 /\ Len(text) \in Nat
      BY <1>1, <1>2, EmptySeq, LenProperties DEF Texts
    <3>2. Len(text) # 0
      BY <1>1, <1>4, <3>1
    <3> QED BY <3>2, EmptySeq
  <2>4. Owned' <= Owned - 1
    BY <1>4, <2>2
  <2> QED BY <2>1, <2>3, <2>4, StepByBackspace
<1> QED BY <1>2, <1>5, <1>6

LEMMA CorrectLastWordEdits ==
  ASSUME TypeOK, TypeOK', WordsAgree, CaretKnown, CorrectLastWord
  PROVE  Ownership!Next
<1>1. engine.rendered = <<>> /\ engine.raw = <<>> /\ engine' = engine /\ ForgetPosition
      /\ correctable # NoWord /\ ~IsComposing(engine)
  BY DEF CorrectLastWord, IsComposing, WordsAgree, KeysAndRenderingAgree, FreshEngine
<1>2. Owned' = 0
  BY <1>1, ForgottenIsNotOwned
<1>3. decision'.edit.bs = Len(correctable.onScreen) + 1
  BY DEF CorrectLastWord, Emit, Swap
<1>4. CASE committed = <<>>
  BY <1>1, <1>2, <1>3, <1>4, StepElsewhere DEF Owned
<1>5. CASE committed # <<>>
  <2> DEFINE entry == committed[Len(committed)]
             shorter == SubSeq(committed, 1, Len(committed) - 1)
  <2>1. entry.rendered = correctable.onScreen /\ committed \in Seq(Behinds)
        /\ committed \in Histories
    BY <1>1, <1>5 DEF CaretKnown, CorrectableIsOnTop, TypeOK, Histories
  <2>2. /\ Accounted(shorter) = Accounted(committed) - (Len(entry.rendered) + 1)
        /\ Accounted(shorter) \in Nat /\ Accounted(committed) \in Nat
        /\ Len(entry.rendered) \in Nat
    <3>1. shorter \in Seq(Behinds) /\ entry \in Behinds
      BY <1>5, <2>1, PopType DEF Histories
    <3>2. Len(entry.rendered) \in Nat
      BY <3>1, LenProperties DEF Behinds
    <3> HIDE DEF shorter, entry
    <3>3. Accounted(shorter) \in Nat /\ Accounted(committed) \in Nat
      BY <2>1, <3>1, AccountIsASum
    <3> QED BY <1>5, <2>1, <3>2, <3>3, AccountOfFewer DEF shorter, entry
  <2>3. Owned = Accounted(committed)
    <3>1. Owned = Len(engine.rendered) + Accounted(committed)
      BY <1>5, WordsAreOwned
    <3> QED BY <1>1, <2>2, <3>1, EmptySeq
  <2>4. decision'.edit.bs <= Owned
    <3> HIDE DEF shorter, entry
    <3> QED BY <1>3, <2>1, <2>2, <2>3
  <2> QED BY <1>2, <2>4, StepElsewhere
<1> QED BY <1>4, <1>5

LEMMA OwnershipInit == Init => Ownership!Init
<1> SUFFICES ASSUME Init PROVE Owned = 0 /\ decision.edit = NoEdit
  BY DEF Ownership!Init
<1>1. /\ engine = FreshEngine /\ committed = <<>> /\ correctable = NoWord
      /\ decision.edit = NoEdit
  BY DEF Init, NotAKey
<1> QED BY <1>1, AccountOfNone, EmptySeq DEF Owned, FreshEngine

(* Every step is a step of the abstract specification, or a stutter.        *)
LEMMA OwnershipNext ==
  ASSUME UnseenMoves = {}, TypeOK, TypeOK', WordsAgree, CaretKnown, [Next]_vars
  PROVE  [Ownership!Next]_(Ownership!vars)
<1>1. ASSUME NEW key \in Keys, TypeWordKey(key) PROVE Ownership!Next
  BY <1>1, TypeWordKeyEdits
<1>2. ASSUME NEW ch, Boundary(ch) PROVE Ownership!Next
  BY <1>2, ExpandMacroEdits, CommitWordEdits DEF Boundary
<1>3. ASSUME decision'.edit = NoEdit, ResetEngine, ForgetPosition PROVE Ownership!Next
  <2>1. Owned' = 0
    BY <1>3, ForgottenIsNotOwned DEF ResetEngine, FreshEngine
  <2> QED BY <1>3, <2>1, StepElsewhere
<1>4. CASE Backspace
  <2>1. LoseWord => decision'.edit = NoEdit /\ ResetEngine /\ ForgetPosition
    BY DEF LoseWord, Flush, Passthrough
  <2> QED BY <1>3, <1>4, <2>1, ReopenWordEdits, ShrinkWordEdits DEF Backspace
<1>5. CASE MoveCaret \/ Shortcut \/ Click
  BY <1>3, <1>5 DEF MoveCaret, Shortcut, Click, Flush, Passthrough, NotAKey
<1>6. CASE \/ ToggleMode
           \/ \E a \in Apps : ToggleAppHotkey(a) \/ SetFrontmostApp(a)
           \/ \E style \in Styles : SetStyle(style)
  BY <1>3, <1>6 DEF ToggleMode, ToggleAppHotkey, SetFrontmostApp, SetStyle,
                    Consume, ToggleApp, NotAKey
<1>7. CASE KeyWhileDeaf
  <2>1. ~RemembersPosition
    BY <1>7 DEF KeyWhileDeaf, CaretKnown, DeafRemembersNothing
  <2>2. engine = FreshEngine /\ committed = <<>> /\ correctable = NoWord
    BY <2>1 DEF RemembersPosition, IsComposing, WordsAgree, KeysAndRenderingAgree
  <2>3. decision'.edit = NoEdit /\ ResetEngine /\ ForgetPosition
    BY <1>7, <2>2 DEF KeyWhileDeaf, memory, ResetEngine, ForgetPosition, Passthrough
  <2> QED BY <1>3, <2>3
<1>8. ASSUME decision'.edit = NoEdit, UNCHANGED text, UNCHANGED engine, UNCHANGED memory
      PROVE  Ownership!Next
  <2>1. Owned' = Owned
    BY <1>8 DEF Owned, memory
  <2>2. Owned' <= Owned
    BY <2>1, WordsAreOwned
  <2> QED BY <1>8, <2>2, StepKeeps
<1>9. CASE PassCorrectionKey \/ KeyWithoutACharacter \/ ToggleNoApp
  BY <1>8, <1>9 DEF PassCorrectionKey, KeyWithoutACharacter, LetThrough, ToggleNoApp,
                    ToggleApp, Passthrough
<1>10. CASE CorrectNothing
  <2>1. UNCHANGED text /\ UNCHANGED engine /\ decision'.edit = NoEdit
    BY <1>10 DEF CorrectNothing, Consume
  <2>2. CASE UNCHANGED memory
    BY <1>8, <2>1, <2>2
  <2>3. CASE ForgetPosition /\ IsComposing(engine)
    <3>1. committed' = <<>> /\ correctable' = NoWord
      BY <2>3 DEF ForgetPosition
    <3>2. Owned' = Len(engine.rendered) + Accounted(committed') /\ Accounted(committed') = 0
      BY <2>1, <3>1, WordsStayOwned, AccountOfNone
    <3>3. Owned' <= Owned
      BY <2>3, <3>2, WordsAreOwned
    <3> QED BY <2>1, <3>3, StepKeeps
  <2> QED BY <1>10, <2>2, <2>3 DEF CorrectNothing
<1>11. CASE CorrectLastWord
  BY <1>11, CorrectLastWordEdits
<1>12. ASSUME NEW autoFix \in BOOLEAN, NEW strict \in BOOLEAN, SetChecks(autoFix, strict)
       PROVE  Ownership!Next
  BY <1>3, <1>8, <1>12 DEF SetChecks, NotAKey
<1>13. ASSUME NEW on \in BOOLEAN, SetAlwaysMacro(on) PROVE Ownership!Next
  BY <1>8, <1>13 DEF SetAlwaysMacro, NotAKey
<1>14. CASE UNCHANGED vars
  <2>1. UNCHANGED <<text, engine, committed, correctable, decision>>
    BY <1>14 DEF vars, memory
  <2>2. Owned' = Owned
    BY <2>1 DEF Owned
  <2> QED BY <2>1, <2>2 DEF Ownership!vars
<1> QED BY <1>1, <1>2, <1>4, <1>5, <1>6, <1>7, <1>9, <1>10, <1>11, <1>12, <1>13, <1>14
        DEF Next, CorrectionHotkey

(* As long as no application moves the caret on a key GlowKey lets through, *)
(* the session, engine and ladder implement the promise of an input method  *)
(* that cannot see the document: an edit deletes characters it owns, those  *)
(* it typed or watched being typed, and none when anybody else may have     *)
(* moved the caret.                                                         *)
THEOREM OwnershipIsKept ==
  UnseenMoves = {} /\ Spec => OnlyOwnedTextIsEdited
<1> SUFFICES ASSUME UnseenMoves = {} PROVE Spec => OnlyOwnedTextIsEdited
  OBVIOUS
<1>1. TypeOK /\ TypeOK' /\ WordsAgree /\ CaretKnown /\ [Next]_vars
        => [Ownership!Next]_(Ownership!vars)
  BY OwnershipNext
<1>2. Spec => []CaretKnown
  BY CaretIsKnown
<1> QED BY <1>1, <1>2, TypeCorrect, WordsAlwaysAgree, OwnershipInit, PTL
        DEF Spec, OnlyOwnedTextIsEdited, Ownership!Spec

-----------------------------------------------------------------------------
(* The case of a word.  Here alone the proofs look into what Render stands  *)
(* for: the rules of the engine around `vi`, in Rendering.                  *)
CONSTANTS
  Ascii, View(_, _), IsValidSyllable(_), Untoned, Unmodified, UncheckedTones,
  Onsets, Rimes
R == INSTANCE Rendering

(* The case tables are sound, and `vi` shows no capital for small letters.  *)
CaseFacts == R!CasesArePaired(Chars) /\ R!ViShowsNoCapitals(MaxKeys, Chars)

(* The styles in which every key of a word is a letter.                     *)
LettersOnly(style) ==
  R!IsTelexFamily(style.method) /\ ~(style.telexBrackets /\ style.method = "telex")

CapitalLetters == {c \in R!Letters : R!IsUpper(c)}

(* What a word is shown with that is typed in small letters, or in capitals.*)
Lows == {c \in Chars \cup Ascii : Lower(c) = c}
Highs == {Upper(c) : c \in Chars \cup Ascii}

LEMMA CaseOfALetter ==
  ASSUME CaseFacts, NEW c \in R!Letters
  PROVE  /\ c \in Ascii /\ Upper(c) \in R!Letters
         /\ Lower(c) \in R!SmallLetters
         /\ Upper(Upper(c)) = Upper(c) /\ Lower(Lower(c)) = Lower(c)
         /\ R!IsUpper(c) <=> Upper(c) = c
         /\ ~R!IsUpper(c) <=> Lower(c) = c
         /\ Upper(c) # Lower(c)
<1>1. /\ c \in Ascii /\ (Lower(c) # c \/ Upper(c) # c)
      /\ c \in {Upper(c), Lower(c)}
      /\ Upper(Upper(c)) = Upper(c) /\ Upper(Lower(c)) = Upper(c)
      /\ Lower(Lower(c)) = Lower(c) /\ Lower(Upper(c)) = Lower(c)
      /\ Upper(c) \in Ascii /\ Lower(c) \in Ascii
  BY DEF CaseFacts, R!CasesArePaired, R!Letters, R!IsLetter
<1>2. Upper(c) # Lower(c)
  BY <1>1
<1> QED BY <1>1, <1>2 DEF R!Letters, R!IsLetter, R!SmallLetters, R!IsUpper

(* The selected keys: some of them, and one at least.                       *)
LEMMA SelectedFolds ==
  ASSUME NEW S, NEW keys \in Seq(S), NEW indices
  PROVE  \E f : /\ f[0] = <<>>
                /\ \A k \in 1..Len(keys) :
                     f[k] = IF k \in indices THEN Append(f[k - 1], keys[k]) ELSE f[k - 1]
                /\ R!Selected(keys, indices) = f[Len(keys)]
<1> DEFINE p == [i \in DOMAIN keys |-> i]
           Step(word, i) == IF i \in indices THEN Append(word, keys[i]) ELSE word
           Fold(h) == h = [s \in SUBSET DOMAIN p |->
                             IF s = {} THEN <<>>
                             ELSE IF p[R!Seqs!Max(s)] \in indices
                                  THEN Append(h[s \ {R!Seqs!Max(s)}], keys[p[R!Seqs!Max(s)]])
                                  ELSE h[s \ {R!Seqs!Max(s)}]]
           iter == CHOOSE h : Fold(h)
           n == Len(keys)
           G == [x \in Seq(S) \X (1..n) |-> Step(x[1], x[2])]
<1>1. R!Selected(keys, indices) = iter[DOMAIN p]
  BY DEF R!Selected, R!Seqs!FoldLeftDomain, R!Seqs!FoldLeft, R!Seqs!MapThenFoldSet
<1>2. n \in Nat /\ DOMAIN keys = 1..n /\ DOMAIN p = 1..n /\ \A i \in 1..n : p[i] = i
  OBVIOUS
<1>3. G \in [Seq(S) \X (1..n) -> Seq(S)]
  OBVIOUS
<1>4. PICK h \in [SUBSET (1..n) -> Seq(S)] : FoldsFromLeft(h, n, <<>>, G)
  <2>1. <<>> \in Seq(S)
    OBVIOUS
  <2>2. n \in Nat
    BY <1>2
  <2> HIDE DEF G, n
  <2> QED BY <1>3, <2>1, <2>2, LeftFoldExists, Zenon
<1>5. \A s \in (SUBSET (1..n)) \ {{}} :
        R!Seqs!Max(s) = LastIn(s) /\ R!Seqs!Max(s) \in 1..n
  BY <1>2, LastPosition DEF R!Seqs!Max, LastIn
<1>6. ASSUME NEW s \in SUBSET (1..n), s # {}
      PROVE  h[s] = Step(h[s \ {R!Seqs!Max(s)}], R!Seqs!Max(s))
  <2>1. h[s \ {R!Seqs!Max(s)}] \in Seq(S) /\ R!Seqs!Max(s) \in 1..n
    BY <1>4, <1>5, <1>6
  <2> HIDE DEF Step
  <2> QED BY <1>4, <1>5, <1>6, <2>1 DEF FoldsFromLeft
<1>7. Fold(h)
  BY <1>2, <1>4, <1>5, <1>6 DEF FoldsFromLeft
<1>8. Fold(iter)
  <2> HIDE DEF Fold
  <2> QED BY <1>7
<1> HIDE DEF iter
<1> DEFINE f == [k \in 0..n |-> iter[1..k]]
<1>9. f[0] = <<>>
  BY <1>2, <1>8, InitialSegments
<1>10. ASSUME NEW k \in 1..n
       PROVE  f[k] = Step(f[k - 1], k)
  <2>1. /\ 1..k \in SUBSET (1..n) /\ 1..k # {} /\ R!Seqs!Max(1..k) = k
        /\ (1..k) \ {k} = 1..(k - 1)
    BY <1>2, <1>5, InitialSegments
  <2>2. iter[1..k] = Step(iter[(1..k) \ {R!Seqs!Max(1..k)}], R!Seqs!Max(1..k))
    BY <1>2, <1>5, <1>8, <2>1
  <2>3. f[k] = iter[1..k] /\ f[k - 1] = iter[1..(k - 1)]
    BY <1>2
  <2> HIDE DEF f
  <2> QED BY <2>1, <2>2, <2>3
<1>11. R!Selected(keys, indices) = f[n]
  BY <1>1, <1>2
<1> HIDE DEF f
<1> QED BY <1>9, <1>10, <1>11

(* They are keys that were there, and no more of them.                      *)
LEMMA SelectedType ==
  ASSUME NEW S, NEW keys \in Seq(S), NEW indices
  PROVE  /\ R!Selected(keys, indices) \in Seq(S)
         /\ Len(R!Selected(keys, indices)) <= Len(keys)
         /\ indices \cap DOMAIN keys # {} => R!Selected(keys, indices) # <<>>
<1> DEFINE n == Len(keys)
<1>1. PICK f : /\ f[0] = <<>>
               /\ \A k \in 1..n :
                    f[k] = IF k \in indices THEN Append(f[k - 1], keys[k]) ELSE f[k - 1]
               /\ R!Selected(keys, indices) = f[n]
  BY SelectedFolds
<1>2. n \in Nat /\ DOMAIN keys = 1..n /\ \A k \in 1..n : keys[k] \in S
  OBVIOUS
<1> DEFINE T == {k \in 0..n : /\ f[k] \in Seq(S) /\ Len(f[k]) <= k
                              /\ \A i \in indices : i \in 1..k => f[k] # <<>>}
<1> HIDE DEF n
<1>3. 0 \in T
  <2>1. f[0] \in Seq(S) /\ Len(f[0]) = 0
    BY <1>1
  <2>2. 0 \in 0..n /\ \A i \in indices : i \notin 1..0
    BY <1>2
  <2> QED BY <2>1, <2>2
<1>4. ASSUME NEW k \in 1..n, k - 1 \in T PROVE k \in T
  <2>1. f[k - 1] \in Seq(S) /\ Len(f[k - 1]) <= k - 1 /\ k \in 0..n /\ keys[k] \in S
    BY <1>2, <1>4
  <2>2. CASE k \in indices
    <3>1. f[k] = Append(f[k - 1], keys[k])
      BY <1>1, <2>2
    <3>2. f[k] \in Seq(S) /\ Len(f[k]) = Len(f[k - 1]) + 1 /\ f[k] # <<>>
      BY <2>1, <3>1, AppendProperties
    <3>3. Len(f[k]) <= k
      BY <1>2, <2>1, <3>2
    <3> QED BY <2>1, <3>2, <3>3
  <2>3. CASE k \notin indices
    <3>1. f[k] = f[k - 1]
      BY <1>1, <2>3
    <3>2. \A i \in indices : i \in 1..k => i \in 1..(k - 1)
      BY <1>2, <2>3
    <3>3. Len(f[k]) <= k
      BY <1>2, <2>1, <3>1
    <3> QED BY <1>4, <2>1, <3>1, <3>2, <3>3
  <2> QED BY <2>2, <2>3
<1>5. n \in T
  <2>1. n \in 0..n
    BY <1>2
  <2> HIDE DEF T
  <2>2. \A k \in 0..n : k \in T
    BY <1>2, <1>3, <1>4, AllUpTo
  <2> QED BY <2>1, <2>2
<1> QED BY <1>1, <1>2, <1>5 DEF n

(* Putting the withheld keys back.                                          *)
LEMMA PutBackType ==
  ASSUME NEW S, NEW word \in Seq(S), NEW place \in Nat, NEW key \in S
  PROVE  R!PutBack(word, place, key) \in Seq(S)
<1>1. CASE place < Len(word)
  <2>1. R!PutBack(word, place, key) = R!Seqs!InsertAt(word, place + 1, key)
    BY <1>1 DEF R!PutBack
  <2>2. R!PutBack(word, place, key) =
          SubSeq(word, 1, (place + 1) - 1) \o <<key>> \o SubSeq(word, place + 1, Len(word))
    BY <2>1, Zenon DEF R!Seqs!InsertAt
  <2>3. /\ SubSeq(word, 1, (place + 1) - 1) \in Seq(S)
        /\ SubSeq(word, place + 1, Len(word)) \in Seq(S)
    BY <1>1
  <2>4. <<key>> \in Seq(S)
    OBVIOUS
  <2> QED BY <2>2, <2>3, <2>4
<1>2. CASE ~(place < Len(word))
  BY <1>2 DEF R!PutBack
<1> QED BY <1>1, <1>2

(* One by one, each at its place.                                           *)
LEMMA AllPutBackType ==
  ASSUME NEW S, NEW keys \in Seq(S), NEW withheld, NEW word \in Seq(S),
         NEW place, \A i \in DOMAIN keys : place[i] \in Nat
  PROVE  R!AllPutBack(word, keys, withheld, place) \in Seq(S)
<1> DEFINE p == [i \in DOMAIN keys |-> i]
           Step(now, i) == IF i \in withheld THEN R!PutBack(now, place[i], keys[i]) ELSE now
           Fold(h) == h = [s \in SUBSET DOMAIN p |->
                             IF s = {} THEN word
                             ELSE IF p[R!Seqs!Max(s)] \in withheld
                                  THEN R!PutBack(h[s \ {R!Seqs!Max(s)}], place[p[R!Seqs!Max(s)]],
                                                 keys[p[R!Seqs!Max(s)]])
                                  ELSE h[s \ {R!Seqs!Max(s)}]]
           iter == CHOOSE h : Fold(h)
           n == Len(keys)
           G == [x \in Seq(S) \X (1..n) |-> Step(x[1], x[2])]
<1>1. R!AllPutBack(word, keys, withheld, place) = iter[DOMAIN p]
  BY DEF R!AllPutBack, R!Seqs!FoldLeftDomain, R!Seqs!FoldLeft, R!Seqs!MapThenFoldSet
<1>2. n \in Nat /\ DOMAIN keys = 1..n /\ DOMAIN p = 1..n /\ \A i \in 1..n : p[i] = i
  OBVIOUS
<1>3. ASSUME NEW now \in Seq(S), NEW i \in 1..n PROVE Step(now, i) \in Seq(S)
  <2>1. keys[i] \in S /\ place[i] \in Nat
    BY <1>2
  <2>2. R!PutBack(now, place[i], keys[i]) \in Seq(S)
    BY <2>1, PutBackType
  <2> QED BY <2>2
<1>4. G \in [Seq(S) \X (1..n) -> Seq(S)]
  <2> HIDE DEF Step
  <2> QED BY <1>3
<1>5. PICK h \in [SUBSET (1..n) -> Seq(S)] : FoldsFromLeft(h, n, word, G)
  <2>1. n \in Nat
    BY <1>2
  <2> HIDE DEF G, n
  <2> QED BY <1>4, <2>1, LeftFoldExists, Zenon
<1>6. \A s \in (SUBSET (1..n)) \ {{}} :
        R!Seqs!Max(s) = LastIn(s) /\ R!Seqs!Max(s) \in 1..n
  BY <1>2, LastPosition DEF R!Seqs!Max, LastIn
<1>7. ASSUME NEW s \in SUBSET (1..n), s # {}
      PROVE  h[s] = Step(h[s \ {R!Seqs!Max(s)}], R!Seqs!Max(s))
  <2>1. h[s \ {R!Seqs!Max(s)}] \in Seq(S) /\ R!Seqs!Max(s) \in 1..n
    BY <1>5, <1>6, <1>7
  <2> HIDE DEF Step
  <2> QED BY <1>5, <1>6, <1>7, <2>1 DEF FoldsFromLeft
<1>8. Fold(h)
  BY <1>2, <1>5, <1>6, <1>7 DEF FoldsFromLeft
<1>9. Fold(iter)
  <2> HIDE DEF Fold
  <2> QED BY <1>8
<1> HIDE DEF iter
<1> DEFINE f == [k \in 0..n |-> iter[1..k]]
<1>10. f[0] = word
  BY <1>2, <1>9, InitialSegments
<1>11. ASSUME NEW k \in 1..n
       PROVE  f[k] = Step(f[k - 1], k)
  <2>1. /\ 1..k \in SUBSET (1..n) /\ 1..k # {} /\ R!Seqs!Max(1..k) = k
        /\ (1..k) \ {k} = 1..(k - 1)
    BY <1>2, <1>6, InitialSegments
  <2>2. iter[1..k] = Step(iter[(1..k) \ {R!Seqs!Max(1..k)}], R!Seqs!Max(1..k))
    BY <1>2, <1>6, <1>9, <2>1
  <2>3. f[k] = iter[1..k] /\ f[k - 1] = iter[1..(k - 1)]
    BY <1>2
  <2> HIDE DEF f
  <2> QED BY <2>1, <2>2, <2>3
<1>12. R!AllPutBack(word, keys, withheld, place) = f[n]
  BY <1>1, <1>2
<1> HIDE DEF f
<1> DEFINE T == {k \in 0..n : f[k] \in Seq(S)}
<1>13. 0 \in T
  BY <1>2, <1>10
<1>14. ASSUME NEW k \in 1..n, k - 1 \in T PROVE k \in T
  <2> HIDE DEF Step
  <2> QED BY <1>2, <1>3, <1>11, <1>14
<1>15. n \in T
  <2>1. n \in Nat /\ n \in 0..n
    BY <1>2
  <2> HIDE DEF T, n
  <2>2. \A k \in 0..n : k \in T
    BY <2>1, <1>13, <1>14, AllUpTo
  <2> QED BY <2>1, <2>2
<1> QED BY <1>12, <1>15

(* What `vi` is given, and what it shows of it.                             *)
LEMMA FedType ==
  ASSUME CaseFacts, NEW keys \in Seq(R!Letters), Len(keys) <= MaxKeys, NEW indices
  PROVE  R!Lowercase(R!Selected(keys, indices)) \in R!SmallWords(MaxKeys)
<1> DEFINE sel == R!Selected(keys, indices)
<1>1. sel \in Seq(R!Letters) /\ Len(sel) <= Len(keys)
  BY SelectedType
<1> HIDE DEF sel
<1>2. /\ Len(sel) \in 0..MaxKeys /\ DOMAIN sel = 1..Len(sel)
      /\ \A i \in 1..Len(sel) : sel[i] \in R!Letters
  BY <1>1, MaxKeysType
<1>3. \A i \in 1..Len(sel) : Lower(sel[i]) \in R!SmallLetters
  BY <1>2, CaseOfALetter
<1>4. R!Lowercase(sel) = [i \in 1..Len(sel) |-> Lower(sel[i])]
  BY <1>2 DEF R!Lowercase
<1>5. R!Lowercase(sel) \in [1..Len(sel) -> R!SmallLetters]
  BY <1>3, <1>4
<1> QED BY <1>2, <1>5 DEF R!SmallWords, sel

SmallChars == {c \in Chars : ~R!IsUpper(c)}

(* A rendering is the cased view with the withheld keys put back: whatever  *)
(* set holds the keys and every cased view, the rendering stays in it.      *)
LEMMA RenderedIn ==
  ASSUME CaseFacts, NEW method \in R!Methods, R!IsTelexFamily(method),
         NEW K, K \subseteq R!Letters, NEW S, K \subseteq S,
         \A out \in Seq(SmallChars), sel \in Seq(K) :
           sel # <<>> => R!ApplyCase(out, sel) \in Seq(S),
         NEW keys \in Seq(K), keys # <<>>, Len(keys) <= MaxKeys
  PROVE  R!Rendered(method, keys) \in Seq(S)
<1> DEFINE withheld == {i \in DOMAIN keys : R!IsWithheld(method, keys, i)}
           Fed(n) == R!Lowercase(R!Selected(keys, (1..n) \ withheld))
           shown == [n \in 0..Len(keys) |-> View(method, Fed(n))]
           out == shown[Len(keys)]
           letters == {i \in DOMAIN keys : i \in withheld \/ Len(shown[i]) > Len(shown[i - 1])}
           place == [i \in DOMAIN keys |-> Len(shown[i]) + R!Cardinality({j \in withheld : j < i})]
           chosen == R!Selected(keys, IF letters = {} THEN DOMAIN keys ELSE letters)
<1>1. R!Rendered(method, keys) =
        IF out = Fed(Len(keys)) THEN keys
        ELSE R!AllPutBack(R!ApplyCase(out, chosen), keys, withheld, place)
  <2>1. R!Rendered(method, keys) = R!RenderKeys(method, keys, withheld)
    BY DEF R!Rendered
  <2>2. R!RenderKeys(method, keys, withheld) = R!Assembled(keys, withheld, Fed(Len(keys)), shown)
    BY DEF R!RenderKeys
  <2> HIDE DEF withheld, Fed, shown
  <2>3. R!Assembled(keys, withheld, Fed(Len(keys)), shown) =
          IF out = Fed(Len(keys)) THEN keys
          ELSE R!AllPutBack(R!ApplyCase(out, chosen), keys, withheld, place)
    BY DEF R!Assembled
  <2> QED BY <2>1, <2>2, <2>3
<1>2. keys \in Seq(R!Letters) /\ keys \in Seq(S) /\ Len(keys) \in Nat
      /\ DOMAIN keys = 1..Len(keys) /\ DOMAIN keys # {}
  <2>1. Len(keys) \in Nat /\ DOMAIN keys = 1..Len(keys) /\ keys \in [1..Len(keys) -> K]
    OBVIOUS
  <2>2. Len(keys) # 0
    OBVIOUS
  <2>3. keys \in Seq(R!Letters) /\ keys \in Seq(S)
    OBVIOUS
  <2>4. 1 \in DOMAIN keys
    BY <2>1, <2>2
  <2> QED BY <2>1, <2>3, <2>4
<1>3. ASSUME NEW n \in 0..Len(keys) PROVE shown[n] \in Seq(SmallChars)
  <2>1. Fed(n) \in R!SmallWords(MaxKeys)
    BY <1>2, FedType
  <2> HIDE DEF Fed
  <2>2. View(method, Fed(n)) \in Seq(SmallChars)
    BY <2>1 DEF CaseFacts, R!ViShowsNoCapitals, SmallChars
  <2> QED BY <2>2
<1>4. \A i \in DOMAIN keys : place[i] \in Nat
  <2> SUFFICES ASSUME NEW i \in DOMAIN keys PROVE place[i] \in Nat
    OBVIOUS
  <2>1. Len(shown[i]) \in Nat
    BY <1>2, <1>3
  <2>2. IsFiniteSet({j \in withheld : j < i})
    <3>1. {j \in withheld : j < i} \subseteq 1..Len(keys)
      BY <1>2
    <3>2. IsFiniteSet(1..Len(keys))
      BY <1>2, FS_Interval
    <3> QED BY <3>1, <3>2, FS_Subset
  <2>3. R!Cardinality({j \in withheld : j < i}) \in Nat
    <3> DEFINE before == {j \in withheld : j < i}
    <3>1. Cardinality(before) \in Nat
      BY <2>2, FS_CardinalityType
    <3> HIDE DEF before
    <3>2. R!Cardinality(before) = Cardinality(before)
      BY Zenon DEF R!Cardinality, Cardinality
    <3> QED BY <3>1, <3>2 DEF before
  <2> HIDE DEF withheld, shown
  <2> QED BY <2>1, <2>3
<1>5. out \in Seq(SmallChars)
  BY <1>2, <1>3
<1>6. chosen \in Seq(K) /\ chosen # <<>>
  <2> DEFINE indices == IF letters = {} THEN DOMAIN keys ELSE letters
  <2>1. indices \cap DOMAIN keys # {}
    <3>1. letters \subseteq DOMAIN keys
      OBVIOUS
    <3> HIDE DEF letters
    <3> QED BY <1>2, <3>1
  <2> HIDE DEF indices
  <2> QED BY <2>1, SelectedType DEF indices
<1> HIDE DEF out, chosen, place, withheld, Fed
<1>7. R!ApplyCase(out, chosen) \in Seq(S)
  BY <1>5, <1>6
<1>8. R!AllPutBack(R!ApplyCase(out, chosen), keys, withheld, place) \in Seq(S)
  BY <1>2, <1>4, <1>7, AllPutBackType
<1> QED BY <1>1, <1>2, <1>8

LEMMA SmallLettersRender ==
  ASSUME CaseFacts, NEW method \in R!Methods, R!IsTelexFamily(method),
         NEW keys \in Seq(R!SmallLetters), keys # <<>>, Len(keys) <= MaxKeys
  PROVE  R!Rendered(method, keys) \in Seq(Lows)
<1>1. R!SmallLetters \subseteq R!Letters /\ R!SmallLetters \subseteq Lows
  BY DEF R!SmallLetters, R!Letters, R!IsUpper, Lows
<1>2. SmallChars \subseteq Lows
  BY DEF SmallChars, Lows, R!IsUpper
<1>3. ASSUME NEW out \in Seq(SmallChars), NEW sel \in Seq(R!SmallLetters), sel # <<>>
      PROVE  R!ApplyCase(out, sel) \in Seq(Lows)
  <2>1. 1 \in DOMAIN sel /\ sel[1] \in R!SmallLetters
    BY <1>3
  <2>2. ~R!IsUpper(sel[1])
    BY <2>1 DEF R!SmallLetters
  <2>3. R!ApplyCase(out, sel) = out
    BY <2>1, <2>2 DEF R!ApplyCase
  <2> QED BY <1>2, <2>3
<1> QED BY <1>1, <1>3, RenderedIn

LEMMA CapitalLettersRender ==
  ASSUME CaseFacts, NEW method \in R!Methods, R!IsTelexFamily(method),
         NEW keys \in Seq(CapitalLetters), keys # <<>>, Len(keys) <= MaxKeys
  PROVE  R!Rendered(method, keys) \in Seq(Highs)
<1>1. CapitalLetters \subseteq R!Letters /\ CapitalLetters \subseteq Highs
  <2>1. ASSUME NEW c \in CapitalLetters PROVE c \in Highs
    <3>1. c \in R!Letters /\ R!IsUpper(c)
      BY DEF CapitalLetters
    <3>2. c \in Ascii /\ Upper(c) = c
      BY <3>1, CaseOfALetter
    <3> QED BY <3>2 DEF Highs
  <2> QED BY <2>1 DEF CapitalLetters
<1>2. ASSUME NEW out \in Seq(SmallChars), NEW sel \in Seq(CapitalLetters), sel # <<>>
      PROVE  R!ApplyCase(out, sel) \in Seq(Highs)
  <2>1. \A i \in DOMAIN sel : R!IsUpper(sel[i])
    BY DEF CapitalLetters
  <2>2. R!ApplyCase(out, sel) = [i \in DOMAIN out |-> Upper(out[i])]
    BY <2>1 DEF R!ApplyCase, R!Uppercase
  <2>3. \A i \in DOMAIN out : Upper(out[i]) \in Highs
    BY DEF SmallChars, Highs
  <2>4. Len(out) \in Nat /\ DOMAIN out = 1..Len(out)
    OBVIOUS
  <2>5. [i \in 1..Len(out) |-> Upper(out[i])] \in [1..Len(out) -> Highs]
    BY <2>3, <2>4
  <2> QED BY <2>2, <2>4, <2>5
<1> QED BY <1>1, <1>2, RenderedIn

(* Quick Telex: the digraph is in the case of the two keys it stands for.   *)
LEMMA FunctionIsSeq ==
  ASSUME NEW C, NEW u
  PROVE  \A n \in Nat : u \in [1..n -> C] => u \in Seq(C) /\ Len(u) = n
OBVIOUS

LEMMA DigraphType ==
  ASSUME CaseFacts, NEW k \in DOMAIN R!QuickDigraphs, k \in R!SmallLetters
  PROVE  /\ R!QuickDigraphs[k] \in Seq(R!SmallLetters) /\ Len(R!QuickDigraphs[k]) = 2
         /\ R!Uppercase(R!QuickDigraphs[k]) \in Seq(CapitalLetters)
         /\ Len(R!Uppercase(R!QuickDigraphs[k])) = 2
<1> DEFINE q == R!QuickDigraphs[k]
<1>1. Len(q) = 2
  BY DEF R!QuickDigraphs
<1>2. q \in Seq(R!SmallLetters)
  BY DEF CaseFacts, R!CasesArePaired
<1> HIDE DEF q
<1>3. DOMAIN q = 1..2 /\ \A i \in 1..2 : q[i] \in R!SmallLetters
  BY <1>1, <1>2
<1>4. \A i \in 1..2 : Upper(q[i]) \in CapitalLetters
  <2> SUFFICES ASSUME NEW i \in 1..2 PROVE Upper(q[i]) \in CapitalLetters
    OBVIOUS
  <2>1. q[i] \in R!Letters
    BY <1>3 DEF R!SmallLetters
  <2>2. Upper(q[i]) \in R!Letters /\ Upper(Upper(q[i])) = Upper(q[i])
    BY <2>1, CaseOfALetter
  <2>3. R!IsUpper(Upper(q[i]))
    BY <2>2, CaseOfALetter
  <2> QED BY <2>2, <2>3 DEF CapitalLetters
<1>5. R!Uppercase(q) = [i \in 1..2 |-> Upper(q[i])]
  BY <1>3 DEF R!Uppercase
<1>6. R!Uppercase(q) \in [1..2 -> CapitalLetters]
  BY <1>4, <1>5
<1>7. R!Uppercase(q) \in Seq(CapitalLetters) /\ Len(R!Uppercase(q)) = 2
  <2> DEFINE u == R!Uppercase(q)
  <2>1. u \in [1..2 -> CapitalLetters]
    BY <1>6
  <2>3. 2 \in Nat
    OBVIOUS
  <2> HIDE DEF u
  <2>2. u \in Seq(CapitalLetters) /\ Len(u) = 2
    BY <2>1, <2>3, FunctionIsSeq, Zenon
  <2> QED BY <2>2 DEF u
<1> QED BY <1>1, <1>2, <1>7 DEF q

LEMMA ExpandedType ==
  ASSUME CaseFacts, NEW style, LettersOnly(style),
         NEW K \in {R!SmallLetters, CapitalLetters}, NEW raw \in Seq(K)
  PROVE  /\ R!ExpandedKeys(style, raw) \in Seq(K)
         /\ Len(R!ExpandedKeys(style, raw)) = Len(raw)
<1>1. CASE R!ExpandedKeys(style, raw) = raw
  BY <1>1
<1>2. CASE R!ExpandedKeys(style, raw) # raw
  <2>1. R!ExpandedKeys(style, raw) = R!ExpandQuickTelex(raw)
    BY <1>2 DEF R!ExpandedKeys, LettersOnly
  <2> DEFINE k == Lower(raw[1])
             q == R!QuickDigraphs[k]
             head == R!DigraphTakesTheCase(q, raw[1], raw[2])
  <2>2. /\ Len(raw) >= 2 /\ k \in DOMAIN R!QuickDigraphs
        /\ R!ExpandedKeys(style, raw) = head \o SubSeq(raw, 3, Len(raw))
    BY <1>2, <2>1 DEF R!ExpandQuickTelex
  <2>3. Len(raw) \in Nat /\ raw[1] \in K /\ raw[2] \in K
    BY <2>2
  <2>4. raw[1] \in R!Letters /\ raw[2] \in R!Letters
    BY <2>3 DEF R!SmallLetters, CapitalLetters
  <2>5. k \in R!SmallLetters
    BY <2>4, CaseOfALetter
  <2>6. /\ q \in Seq(R!SmallLetters) /\ Len(q) = 2
        /\ R!Uppercase(q) \in Seq(CapitalLetters) /\ Len(R!Uppercase(q)) = 2
    BY <2>2, <2>5, DigraphType
  <2> HIDE DEF q, k
  <2>7. head \in Seq(K) /\ Len(head) = 2
    <3>1. CASE K = R!SmallLetters
      <4>1. head = q
        BY <2>3, <3>1 DEF R!DigraphTakesTheCase, R!SmallLetters
      <4> QED BY <2>6, <3>1, <4>1
    <3>2. CASE K = CapitalLetters
      <4>1. head = R!Uppercase(q)
        BY <2>3, <3>2 DEF R!DigraphTakesTheCase, CapitalLetters
      <4> QED BY <2>6, <3>2, <4>1
    <3> QED BY <3>1, <3>2
  <2> HIDE DEF head
  <2>8. /\ 3 \in 1..(Len(raw) + 1) /\ Len(raw) \in (3 - 1)..Len(raw)
    BY <2>2, <2>3
  <2>9. SubSeq(raw, 3, Len(raw)) \in Seq(K) /\ Len(SubSeq(raw, 3, Len(raw))) = Len(raw) - 3 + 1
    BY <2>8, SliceProperties
  <2> DEFINE rest == SubSeq(raw, 3, Len(raw))
  <2> HIDE DEF rest
  <2>10. head \o rest \in Seq(K) /\ Len(head \o rest) = Len(head) + Len(rest)
    BY <2>7, <2>9, ConcatProperties DEF rest
  <2> QED BY <2>2, <2>3, <2>7, <2>9, <2>10 DEF rest
<1> QED BY <1>1, <1>2

(* Small letters show no capital, and capitals no small letter, through     *)
(* quick Telex, the view, its case pattern and the withheld keys.           *)
LEMMA WordsKeepTheirCase ==
  ASSUME CaseFacts, NEW style \in R!RenderStyles, LettersOnly(style),
         NEW raw, raw # <<>>, Len(raw) <= MaxKeys
  PROVE  /\ raw \in Seq(R!SmallLetters) => R!RenderWord(style, raw) \in Seq(Lows)
         /\ raw \in Seq(CapitalLetters) => R!RenderWord(style, raw) \in Seq(Highs)
<1> DEFINE keys == R!ExpandedKeys(style, raw)
<1>1. R!RenderWord(style, raw) = R!Rendered(style.method, keys)
  BY DEF R!RenderWord
<1>2. style.method \in R!Methods /\ R!IsTelexFamily(style.method)
  BY DEF R!RenderStyles, LettersOnly
<1>3. ASSUME NEW K \in {R!SmallLetters, CapitalLetters}, raw \in Seq(K)
      PROVE  keys \in Seq(K) /\ keys # <<>> /\ Len(keys) <= MaxKeys
  <2>1. keys \in Seq(K) /\ Len(keys) = Len(raw)
    BY <1>3, ExpandedType
  <2> HIDE DEF keys
  <2>2. Len(raw) # 0
    BY <1>3
  <2> QED BY <2>1, <2>2
<1> HIDE DEF keys
<1>4. ASSUME raw \in Seq(R!SmallLetters) PROVE R!Rendered(style.method, keys) \in Seq(Lows)
  <2>1. keys \in Seq(R!SmallLetters) /\ keys # <<>> /\ Len(keys) <= MaxKeys
    BY <1>3, <1>4
  <2> QED BY <1>2, <2>1, SmallLettersRender
<1>5. ASSUME raw \in Seq(CapitalLetters) PROVE R!Rendered(style.method, keys) \in Seq(Highs)
  <2>1. keys \in Seq(CapitalLetters) /\ keys # <<>> /\ Len(keys) <= MaxKeys
    BY <1>3, <1>5
  <2> QED BY <1>2, <2>1, CapitalLettersRender
<1> QED BY <1>1, <1>4, <1>5

LEMMA RemovedOne ==
  ASSUME NEW S, NEW raw \in Seq(S), NEW i \in 1..Len(raw)
  PROVE  SequenceOps!RemoveAt(raw, i) \in Seq(S)
<1>1. /\ 1 \in 1..(Len(raw) + 1) /\ i - 1 \in 0..Len(raw)
      /\ i + 1 \in 1..(Len(raw) + 1) /\ Len(raw) \in i..Len(raw)
  OBVIOUS
<1>2. SubSeq(raw, 1, i - 1) \in Seq(S) /\ SubSeq(raw, i + 1, Len(raw)) \in Seq(S)
  BY <1>1, SliceProperties
<1> QED BY <1>2, ConcatProperties DEF SequenceOps!RemoveAt

-----------------------------------------------------------------------------
(* Under such a style only letters are typed: the keys of a word, and of    *)
(* every word behind it, are letters, also after a Backspace, a re-opened   *)
(* word or a capital the session put in.                                    *)
RulesApply ==
  /\ Styles \subseteq R!RenderStyles
  /\ \A s \in Styles : WordKeys(s) = {k \in Keys : R!ExtendsAWord(s, k)}
  /\ \A s \in Styles, raw \in KeyLogs : Render(s, raw) = R!RenderWord(s, raw)

LettersTyped ==
  LettersOnly(settings.style) =>
    /\ engine.raw \in Seq(R!Letters)
    /\ \A j \in DOMAIN committed : committed[j].raw \in Seq(R!Letters)

LEMMA LettersTypedAfterReset ==
  ASSUME ResetEngine, committed' = <<>>
  PROVE  LettersTyped'
BY EmptySeq DEF ResetEngine, FreshEngine, LettersTyped

LEMMA LettersTypedUnchanged ==
  ASSUME LettersTyped, UNCHANGED engine, UNCHANGED committed \/ committed' = <<>>,
         settings'.style = settings.style
  PROVE  LettersTyped'
BY DEF LettersTyped

LEMMA KeysAreLetters ==
  ASSUME RulesApply, CaseFacts, NEW s \in Styles, LettersOnly(s), NEW key \in WordKeys(s)
  PROVE  key \in R!Letters /\ Upper(key) \in R!Letters
<1>1. R!ExtendsAWord(s, key)
  BY DEF RulesApply
<1>2. key \in R!Letters
  BY <1>1 DEF R!ExtendsAWord, LettersOnly, R!IsTelexFamily
<1> QED BY <1>2, CaseOfALetter

LEMMA TypeWordKeyIsALetter ==
  ASSUME RulesApply, CaseFacts, TypeOK, LettersTyped, NEW key \in Keys, TypeWordKey(key)
  PROVE  LettersTyped'
<1> SUFFICES ASSUME LettersOnly(settings.style) PROVE LettersTyped'
  BY DEF TypeWordKey, policy, LettersTyped
<1>1. settings.style \in Styles /\ key \in WordKeys(settings.style)
  BY DEF TypeOK, Settings, TypeWordKey
<1>2. key \in R!Letters /\ Capitalised(key) \in R!Letters
  BY <1>1, KeysAreLetters DEF Capitalised
<1>3. engine'.raw = Append(engine.raw, key) \/ engine'.raw = Append(engine.raw, Capitalised(key))
  <2>1. engine' = Extended(key)
    BY DEF TypeWordKey
  <2> QED BY <2>1 DEF Extended, ProcessKey, ProcessKeyVerbatim, TypeOK, Engines
<1>4. engine.raw \in Seq(R!Letters)
  BY DEF LettersTyped
<1>5. \A c \in R!Letters : Append(engine.raw, c) \in Seq(R!Letters)
  BY <1>4, AppendProperties
<1>6. engine'.raw \in Seq(R!Letters)
  BY <1>2, <1>3, <1>5, Zenon
<1> QED BY <1>6 DEF LettersTyped, TypeWordKey, policy

LEMMA CommittedLetters ==
  ASSUME TypeOK, LettersTyped, LettersOnly(settings.style),
         NEW wanted, NEW i \in DOMAIN CommittedAfter(wanted)
  PROVE  CommittedAfter(wanted)[i].raw \in Seq(R!Letters)
<1> DEFINE word == [raw |-> engine.raw, rendered |-> engine.rendered]
<1>1. \A j \in DOMAIN committed : committed[j].raw \in Seq(R!Letters)
  BY DEF LettersTyped
<1>2. BareBoundary.raw \in Seq(R!Letters) /\ word.raw \in Seq(R!Letters)
  BY EmptySeq DEF BareBoundary, LettersTyped
<1>3. committed \in Histories /\ BareBoundary \in Behinds /\ word \in Behinds
  BY BehindType DEF TypeOK, Histories
<1>4. CASE CommittedAfter(wanted) = PushBehind(committed, BareBoundary)
  BY <1>1, <1>2, <1>3, <1>4, PushedEntries
<1>5. CASE CommittedAfter(wanted) = PushBehind(committed, word)
  <2> HIDE DEF word
  <2> QED BY <1>1, <1>2, <1>3, <1>5, PushedEntries
<1>6. CASE CommittedAfter(wanted) = <<>>
  BY <1>6, EmptySeq
<1> QED BY <1>4, <1>5, <1>6 DEF CommittedAfter

LEMMA BoundaryKeepsLetters ==
  ASSUME TypeOK, LettersTyped, NEW ch, Boundary(ch)
  PROVE  LettersTyped'
<1>1. CASE ExpandMacro(ch)
  <2>1. ResetEngine /\ committed' = <<>>
    BY <1>1 DEF ExpandMacro, NoteBoundary, ForgetPosition
  <2> QED BY <2>1, LettersTypedAfterReset
<1>2. CASE CommitWord(ch)
  <2>1. ResetEngine /\ UNCHANGED policy
    BY <1>2 DEF CommitWord
  <2>2. PICK wanted : committed' = <<>> \/ committed' = CommittedAfter(wanted)
    BY <1>2 DEF CommitWord, NoteBoundary, ForgetPosition
  <2>3. CASE committed' = <<>>
    BY <2>1, <2>3, LettersTypedAfterReset
  <2>4. CASE committed' = CommittedAfter(wanted)
    <3>1. engine'.raw \in Seq(R!Letters)
      BY <2>1, EmptySeq DEF ResetEngine, FreshEngine
    <3> QED BY <2>1, <2>4, <3>1, CommittedLetters DEF LettersTyped, policy
  <2> QED BY <2>2, <2>3, <2>4
<1> QED BY <1>1, <1>2 DEF Boundary

LEMMA ReopenWordKeepsLetters ==
  ASSUME TypeOK, LettersTyped, ReopenWord
  PROVE  LettersTyped'
<1> SUFFICES ASSUME LettersOnly(settings.style) PROVE LettersTyped'
  BY DEF ReopenWord, policy, LettersTyped
<1>1. committed \in Histories /\ committed # <<>> /\ UNCHANGED policy
  BY DEF TypeOK, Histories, ReopenWord
<1>2. \A i \in DOMAIN committed' : i \in DOMAIN committed /\ committed'[i] = committed[i]
  BY <1>1, PoppedEntries DEF ReopenWord
<1>3. engine'.raw \in {engine.raw, committed[Len(committed)].raw}
  BY DEF ReopenWord, Restore
<1>4. Len(committed) \in DOMAIN committed
  BY <1>1, PoppedEntries
<1> QED BY <1>1, <1>2, <1>3, <1>4 DEF LettersTyped, policy

(* Backspace drops a key, and types none.                                   *)
LEMMA BackspaceDropsAKey ==
  ASSUME NEW e \in Engines, NEW s \in Styles, NEW S, e.raw \in Seq(S)
  PROVE  BackspaceVisibleChar(e, s).engine.raw \in Seq(S)
<1>1. CASE e.raw = <<>> \/ e.rendered = <<>>
  BY <1>1 DEF BackspaceVisibleChar, CannotFollow
<1>2. CASE e.raw # <<>> /\ e.rendered # <<>> /\ Droppable(e, s) # {}
  <2> DEFINE last == LastOf(Droppable(e, s))
             raw == SequenceOps!RemoveAt(e.raw, last)
  <2>1. last \in 1..Len(e.raw)
    <3>1. Droppable(e, s) \subseteq 1..Len(e.raw) /\ Len(e.raw) \in Nat
      BY DEF Droppable
    <3> QED BY <1>2, <3>1, LastOfIsOne
  <2>2. raw \in Seq(S)
    BY <2>1, RemovedOne
  <2>3. BackspaceVisibleChar(e, s) = AfterDropping(e, s, raw)
    BY <1>2 DEF BackspaceVisibleChar
  <2> HIDE DEF raw
  <2> QED BY <2>2, <2>3 DEF AfterDropping, Repair, InStep
<1>3. CASE e.raw # <<>> /\ e.rendered # <<>> /\ Droppable(e, s) = {}
  <2> DEFINE raw == SequenceOps!Front(e.raw)
  <2>1. raw \in Seq(S)
    BY <1>3, FrontOfWord
  <2>2. BackspaceVisibleChar(e, s) = AfterUndoing(e, s, raw)
    BY <1>3 DEF BackspaceVisibleChar
  <2> HIDE DEF raw
  <2> QED BY <2>1, <2>2 DEF AfterUndoing, Repair, CannotFollow
<1> QED BY <1>1, <1>2, <1>3

LEMMA ShrinkWordKeepsLetters ==
  ASSUME TypeOK, LettersTyped, ShrinkWord
  PROVE  LettersTyped'
<1>1. engine \in Engines /\ settings.style \in Styles
  BY DEF TypeOK, Settings
<1>2. /\ engine' = BackspaceVisibleChar(engine, settings.style).engine
      /\ UNCHANGED committed /\ UNCHANGED policy
  BY DEF ShrinkWord
<1>3. engine.raw \in Seq(R!Letters) => engine'.raw \in Seq(R!Letters)
  BY <1>1, <1>2, BackspaceDropsAKey
<1> QED BY <1>2, <1>3 DEF LettersTyped, policy

LEMMA LettersTypedNext ==
  ASSUME RulesApply, CaseFacts, TypeOK, TypeOK', LettersTyped, [Next]_vars
  PROVE  LettersTyped'
<1>1. ASSUME NEW key \in Keys, TypeWordKey(key) PROVE LettersTyped'
  BY <1>1, TypeWordKeyIsALetter
<1>2. ASSUME NEW ch, Boundary(ch) PROVE LettersTyped'
  BY <1>2, BoundaryKeepsLetters
<1>3. CASE Backspace
  <2>1. LoseWord => ResetEngine /\ committed' = <<>>
    BY DEF LoseWord, Flush, ForgetPosition
  <2> QED BY <1>3, <2>1, ReopenWordKeepsLetters, ShrinkWordKeepsLetters,
             LettersTypedAfterReset DEF Backspace
<1>4. CASE MoveCaret \/ Shortcut \/ Click
  BY <1>4, LettersTypedAfterReset DEF MoveCaret, Shortcut, Click, Flush, ForgetPosition
<1>5. CASE \/ ToggleMode
           \/ \E a \in Apps : ToggleAppHotkey(a) \/ SetFrontmostApp(a)
           \/ \E style \in Styles : SetStyle(style)
  BY <1>5, LettersTypedAfterReset
     DEF ToggleMode, ToggleAppHotkey, SetFrontmostApp, SetStyle, ForgetPosition
<1>6. CASE \/ KeyWhileDeaf \/ PassCorrectionKey \/ KeyWithoutACharacter
           \/ ToggleNoApp \/ UNCHANGED vars
  BY <1>6, LettersTypedUnchanged
     DEF KeyWhileDeaf, PassCorrectionKey, KeyWithoutACharacter, LetThrough, ToggleNoApp,
         vars, memory, policy
<1>7. CASE CorrectLastWord \/ CorrectNothing
  <2>1. UNCHANGED engine /\ UNCHANGED policy /\ (UNCHANGED committed \/ committed' = <<>>)
    BY <1>7 DEF CorrectLastWord, CorrectNothing, memory, ForgetPosition
  <2> QED BY <2>1, LettersTypedUnchanged DEF policy
<1>8. ASSUME NEW autoFix \in BOOLEAN, NEW strict \in BOOLEAN, SetChecks(autoFix, strict)
      PROVE LettersTyped'
  <2>1. CASE spellCheck' = spellCheck
    BY <1>8, <2>1, LettersTypedUnchanged DEF SetChecks, memory, TypeOK, Settings
  <2>2. CASE spellCheck' # spellCheck
    BY <1>8, <2>2, LettersTypedAfterReset DEF SetChecks, ForgetPosition
  <2> QED BY <2>1, <2>2
<1>9. ASSUME NEW on \in BOOLEAN, SetAlwaysMacro(on) PROVE LettersTyped'
  BY <1>9, LettersTypedUnchanged DEF SetAlwaysMacro, memory, TypeOK, Settings
<1> QED BY <1>1, <1>2, <1>3, <1>4, <1>5, <1>6, <1>7, <1>8, <1>9
        DEF Next, CorrectionHotkey

LEMMA OnlyLettersAreTyped ==
  ASSUME RulesApply, CaseFacts
  PROVE  Spec => []LettersTyped
<1>1. Init => LettersTyped
  BY EmptySeq DEF Init, FreshEngine, LettersTyped
<1>2. TypeOK /\ TypeOK' /\ LettersTyped /\ [Next]_vars => LettersTyped'
  BY LettersTypedNext
<1> QED BY <1>1, <1>2, TypeCorrect, PTL DEF Spec

(* A word of letters, and what it shows: neither a capital nor a small      *)
(* letter comes from nowhere.                                               *)
LEMMA LettersKeepTheirCase ==
  ASSUME RulesApply, CaseFacts, TypeOK, KeysAndRenderingAgree, LettersTyped,
         LettersOnly(settings.style)
  PROVE  CaseIsAsTyped
<1> DEFINE raw == engine.raw
           shown == engine.rendered
           letters == {i \in DOMAIN raw : Cased(raw[i])}
<1>1. /\ raw \in Seq(R!Letters) /\ raw \in KeyLogs /\ Len(raw) <= MaxKeys
      /\ settings.style \in Styles /\ settings.style \in R!RenderStyles
      /\ DOMAIN raw = 1..Len(raw) /\ Len(raw) \in Nat
  BY KeyLogsAreSequences, LenProperties DEF LettersTyped, TypeOK, Settings, Engines, RulesApply
<1>2. \A i \in DOMAIN raw : raw[i] \in R!Letters
  BY <1>1
<1>3. letters = DOMAIN raw
  BY <1>2, CaseOfALetter DEF Cased
<1>4. shown = raw \/ shown = R!RenderWord(settings.style, raw)
  BY <1>1 DEF KeysAndRenderingAgree, RenderKeys, RulesApply
<1>5. raw = <<>> => shown = <<>>
  BY DEF KeysAndRenderingAgree, FreshEngine
<1>6. ASSUME \A i \in letters : raw[i] = Lower(raw[i])
      PROVE  \A i \in DOMAIN shown : shown[i] = Lower(shown[i])
  <2>1. \A i \in DOMAIN raw : raw[i] \in R!SmallLetters
    BY <1>2, <1>3, <1>6 DEF R!SmallLetters, R!IsUpper
  <2>2. raw \in Seq(R!SmallLetters)
    BY <1>1, <2>1
  <2>3. R!SmallLetters \subseteq Lows
    BY DEF R!SmallLetters, R!Letters, R!IsUpper, Lows
  <2>4. raw \in Seq(Lows)
    BY <2>2, <2>3
  <2>5. shown \in Seq(Lows)
    BY <1>1, <1>4, <1>5, <2>2, <2>4, WordsKeepTheirCase
  <2>6. \A i \in DOMAIN shown : shown[i] \in Lows
    BY <2>5
  <2> QED BY <2>6 DEF Lows
<1>7. ASSUME \A i \in letters : raw[i] = Upper(raw[i])
      PROVE  \A i \in DOMAIN shown : shown[i] = Upper(shown[i])
  <2>1. \A i \in DOMAIN raw : raw[i] \in CapitalLetters
    BY <1>2, <1>3, <1>7, CaseOfALetter DEF CapitalLetters
  <2>2. raw \in Seq(CapitalLetters)
    BY <1>1, <2>1
  <2>3. CapitalLetters \subseteq Highs
    BY CaseOfALetter DEF CapitalLetters, Highs
  <2>4. raw \in Seq(Highs)
    BY <2>2, <2>3
  <2>5. shown \in Seq(Highs)
    BY <1>1, <1>4, <1>5, <2>2, <2>4, WordsKeepTheirCase
  <2>6. \A i \in DOMAIN shown : shown[i] \in Highs
    BY <2>5
  <2>7. \A c \in Highs : Upper(c) = c
    BY DEF Highs, CaseFacts, R!CasesArePaired
  <2> QED BY <2>6, <2>7
<1> QED BY <1>6, <1>7 DEF CaseIsAsTyped

(* The case of a word is the one it was typed in (expand_quick_telex and    *)
(* apply_case of the engine, maybe_capitalize of the session), under every  *)
(* style whose words are spelled with letters: Telex and simple Telex,      *)
(* quick or not, without the bracket keys.  Of `vi` it asks that small      *)
(* letters never show a capital.                                            *)
THEOREM CaseIsKept ==
  ASSUME RulesApply, CaseFacts
  PROVE  Spec => [](LettersOnly(settings.style) => CaseIsAsTyped)
<1>1. TypeOK /\ KeysAndRenderingAgree /\ LettersTyped
        => (LettersOnly(settings.style) => CaseIsAsTyped)
  BY LettersKeepTheirCase
<1> QED BY <1>1, TypeCorrect, KeysAgree, OnlyLettersAreTyped, PTL
=============================================================================
