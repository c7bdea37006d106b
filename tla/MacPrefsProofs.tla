-------------------------- MODULE MacPrefsProofs ---------------------------
(* The list of macros, the windows that show it and the menu bar agree, for *)
(* every set of shortcuts, comparison of them, file and length of list.     *)
EXTENDS MacPrefs, SequenceFacts

-----------------------------------------------------------------------------
(* What the operations on the list return.                                  *)

(* The rows at some positions are those rows, in the order they had.        *)
Picks(list, kept, picked) ==
  \E from \in [DOMAIN picked -> kept] :
    /\ \A j \in DOMAIN picked : picked[j] = list[from[j]]
    /\ \A j, k \in DOMAIN picked : from[j] = from[k] => j = k
    /\ \A i \in kept : \E j \in DOMAIN picked : from[j] = i

(* The fold of RowsAt, on every initial segment of the list.                *)
LEMMA RowsAtFolds ==
  ASSUME NEW S, NEW list \in Seq(S), NEW kept
  PROVE  \E f : /\ f[0] = <<>>
                /\ \A k \in 1..Len(list) :
                     f[k] = IF k \in kept THEN Append(f[k - 1], list[k]) ELSE f[k - 1]
                /\ RowsAt(list, kept) = f[Len(list)]
<1> DEFINE p == [i \in DOMAIN list |-> i]
           Step(rs, i) == IF i \in kept THEN Append(rs, list[i]) ELSE rs
           Fold(h) == h = [s \in SUBSET DOMAIN p |->
                             IF s = {} THEN <<>>
                             ELSE IF p[Max(s)] \in kept
                                  THEN Append(h[s \ {Max(s)}], list[p[Max(s)]])
                                  ELSE h[s \ {Max(s)}]]
           iter == CHOOSE h : Fold(h)
           n == Len(list)
           G == [x \in Seq(S) \X (1..n) |-> Step(x[1], x[2])]
<1>1. RowsAt(list, kept) = iter[DOMAIN p]
  BY DEF RowsAt, FoldLeftDomain, FoldLeft, MapThenFoldSet
<1>2. n \in Nat /\ DOMAIN list = 1..n /\ DOMAIN p = 1..n /\ \A i \in 1..n : p[i] = i
  OBVIOUS
<1>3. G \in [Seq(S) \X (1..n) -> Seq(S)]
  OBVIOUS
<1>4. PICK h \in [SUBSET (1..n) -> Seq(S)] : FoldsFromLeft(h, n, <<>>, G)
  <2>1. <<>> \in Seq(S)
    OBVIOUS
  <2>2. n \in Nat
    BY <1>2
  <2> HIDE DEF G, n
  <2> QED BY <1>3, <2>1, <2>2, LeftFoldExists, Zenon
<1>5. \A s \in (SUBSET (1..n)) \ {{}} : Max(s) = LastIn(s) /\ Max(s) \in 1..n
  BY <1>2, LastPosition DEF Max, LastIn
<1>6. ASSUME NEW s \in SUBSET (1..n), s # {}
      PROVE  h[s] = Step(h[s \ {Max(s)}], Max(s))
  <2>1. h[s \ {Max(s)}] \in Seq(S) /\ Max(s) \in 1..n
    BY <1>4, <1>5, <1>6
  <2> HIDE DEF Step
  <2> QED BY <1>4, <1>5, <1>6, <2>1 DEF FoldsFromLeft
<1>7. Fold(h)
  BY <1>2, <1>4, <1>5, <1>6 DEF FoldsFromLeft
<1>8. Fold(iter)
  <2> HIDE DEF Fold
  <2> QED BY <1>7
<1> HIDE DEF iter
<1> DEFINE f == [k \in 0..n |-> iter[1..k]]
<1>9. f[0] = <<>>
  BY <1>2, <1>8, InitialSegments
<1>10. ASSUME NEW k \in 1..n
       PROVE  f[k] = Step(f[k - 1], k)
  <2>1. /\ 1..k \in SUBSET (1..n) /\ 1..k # {} /\ Max(1..k) = k
        /\ (1..k) \ {k} = 1..(k - 1)
    BY <1>2, <1>5, InitialSegments
  <2>2. iter[1..k] = Step(iter[(1..k) \ {Max(1..k)}], Max(1..k))
    BY <1>2, <1>5, <1>8, <2>1
  <2>3. f[k] = iter[1..k] /\ f[k - 1] = iter[1..(k - 1)]
    BY <1>2
  <2> HIDE DEF f
  <2> QED BY <2>1, <2>2, <2>3
<1>11. RowsAt(list, kept) = f[n]
  BY <1>1, <1>2
<1> HIDE DEF f
<1> QED BY <1>9, <1>10, <1>11

(* What RowsAt returns: those rows, each once.                              *)
LEMMA RowsArePicked ==
  ASSUME NEW S, NEW list \in Seq(S), NEW kept, kept \subseteq DOMAIN list
  PROVE  RowsAt(list, kept) \in Seq(S) /\ Picks(list, kept, RowsAt(list, kept))
<1> DEFINE n == Len(list)
           Upto(k) == kept \cap (1..k)
<1>1. PICK f : /\ f[0] = <<>>
               /\ \A k \in 1..n :
                    f[k] = IF k \in kept THEN Append(f[k - 1], list[k]) ELSE f[k - 1]
               /\ RowsAt(list, kept) = f[n]
  BY RowsAtFolds
<1> DEFINE T == {k \in 0..n : f[k] \in Seq(S) /\ Picks(list, Upto(k), f[k])}
<1>2. n \in Nat /\ DOMAIN list = 1..n
  OBVIOUS
<1>3. 0 \in T
  <2>1. f[0] \in Seq(S) /\ DOMAIN f[0] = {} /\ Upto(0) = {}
    BY <1>1
  <2>2. [x \in {} |-> x] \in [{} -> {}]
    OBVIOUS
  <2> QED BY <1>2, <2>1, <2>2 DEF Picks
<1>4. ASSUME NEW k \in 1..n, k - 1 \in T PROVE k \in T
  <2>1. f[k - 1] \in Seq(S) /\ k \in 0..n /\ k - 1 \in 0..n
    BY <1>2, <1>4
  <2>2. PICK from \in [DOMAIN f[k - 1] -> Upto(k - 1)] :
          /\ \A j \in DOMAIN f[k - 1] : f[k - 1][j] = list[from[j]]
          /\ \A j, l \in DOMAIN f[k - 1] : from[j] = from[l] => j = l
          /\ \A i \in Upto(k - 1) : \E j \in DOMAIN f[k - 1] : from[j] = i
    BY <1>4 DEF Picks
  <2>3. CASE k \in kept
    <3> DEFINE m == Len(f[k - 1])
               to == [j \in 1..(m + 1) |-> IF j = m + 1 THEN k ELSE from[j]]
    <3>1. /\ m \in Nat /\ DOMAIN f[k - 1] = 1..m
          /\ f[k] = Append(f[k - 1], list[k]) /\ list[k] \in S
      <4>1. list[k] \in S
        BY <1>2
      <4>2. Len(f[k - 1]) \in Nat /\ DOMAIN f[k - 1] = 1..Len(f[k - 1])
        BY <2>1
      <4> QED BY <1>1, <2>3, <4>1, <4>2
    <3>2. /\ f[k] \in Seq(S) /\ DOMAIN f[k] = 1..(m + 1) /\ f[k][m + 1] = list[k]
          /\ \A j \in 1..m : f[k][j] = f[k - 1][j]
      BY <2>1, <3>1, AppendProperties
    <3>3. Upto(k) = Upto(k - 1) \cup {k} /\ k \notin Upto(k - 1)
      BY <1>2, <2>3
    <3> HIDE DEF m, Upto
    <3>4. to \in [1..(m + 1) -> Upto(k)]
      BY <2>2, <3>1, <3>3
    <3>5. ASSUME NEW j \in 1..(m + 1) PROVE f[k][j] = list[to[j]]
      <4>1. CASE j = m + 1
        BY <3>2, <4>1
      <4>2. CASE j \in 1..m
        <5>1. f[k][j] = f[k - 1][j] /\ f[k - 1][j] = list[from[j]]
          BY <2>2, <3>1, <3>2, <4>2
        <5>2. to[j] = from[j]
          BY <3>1, <4>2
        <5> QED BY <5>1, <5>2
      <4> QED BY <3>1, <4>1, <4>2
    <3>6. ASSUME NEW j \in 1..(m + 1), NEW l \in 1..(m + 1), to[j] = to[l]
          PROVE  j = l
      <4>1. \A i \in 1..m : to[i] = from[i] /\ from[i] # k
        BY <2>2, <3>1, <3>3
      <4>2. to[m + 1] = k /\ (j = m + 1 \/ j \in 1..m) /\ (l = m + 1 \/ l \in 1..m)
        BY <3>1
      <4>3. j \in 1..m /\ l \in 1..m => j = l
        BY <2>2, <3>1, <3>6, <4>1
      <4> QED BY <3>6, <4>1, <4>2, <4>3
    <3>7. ASSUME NEW i \in Upto(k) PROVE \E j \in 1..(m + 1) : to[j] = i
      <4>1. CASE i = k
        <5>1. m + 1 \in 1..(m + 1)
          BY <3>1
        <5>2. to[m + 1] = k
          BY <5>1
        <5> HIDE DEF to
        <5> QED BY <4>1, <5>1, <5>2
      <4>2. CASE i \in Upto(k - 1)
        <5>1. PICK j \in 1..m : from[j] = i
          BY <2>2, <3>1, <4>2
        <5>2. j \in 1..(m + 1) /\ j # m + 1
          BY <3>1
        <5>3. to[j] = from[j]
          BY <5>2
        <5> HIDE DEF to
        <5> QED BY <5>1, <5>2, <5>3
      <4> QED BY <3>3, <4>1, <4>2
    <3> HIDE DEF to
    <3>8. Picks(list, Upto(k), f[k])
      <4>1. to \in [DOMAIN f[k] -> Upto(k)]
        BY <3>2, <3>4
      <4>2. \A j \in DOMAIN f[k] : f[k][j] = list[to[j]]
        BY <3>2, <3>5
      <4>3. \A j, l \in DOMAIN f[k] : to[j] = to[l] => j = l
        BY <3>2, <3>6
      <4>4. \A i \in Upto(k) : \E j \in DOMAIN f[k] : to[j] = i
        BY <3>2, <3>7
      <4> QED BY <4>1, <4>2, <4>3, <4>4, Zenon DEF Picks
    <3> QED BY <2>1, <3>2, <3>8
  <2>4. CASE k \notin kept
    <3>1. f[k] = f[k - 1] /\ Upto(k) = Upto(k - 1)
      BY <1>1, <1>2, <2>4
    <3> QED BY <1>4, <2>1, <3>1
  <2> QED BY <2>3, <2>4
<1>5. n \in T
  <2>1. n \in Nat /\ n \in 0..n
    BY <1>2
  <2> HIDE DEF T, n
  <2>2. \A k \in 0..n : k \in T
    BY <1>3, <1>4, <2>1, AllUpTo
  <2> QED BY <2>1, <2>2
<1>6. Upto(n) = kept
  BY <1>2
<1> QED BY <1>1, <1>5, <1>6

-----------------------------------------------------------------------------
(* No shortcut answers twice.                                               *)
OneEach(list) ==
  \A i, j \in DOMAIN list :
    SameShortcut(list[i].shortcut, list[j].shortcut) => i = j

(* Adding a row: what was there stays, unless the new row answers to its    *)
(* shortcut.                                                                *)
LEMMA AddedRows ==
  ASSUME NEW list \in Seq(Entries), NEW m \in Entries
  PROVE  /\ Added(list, m) \in Seq(Entries)
         /\ OneEach(list) => OneEach(Added(list, m))
         /\ \A s : HasMacro(list, s) => HasMacro(Added(list, m), s)
         /\ \A row \in Range(list) :
              \/ row \in Range(Added(list, m))
              \/ SameShortcut(row.shortcut, m.shortcut)
         /\ Range(Added(list, m)) \subseteq Range(list) \cup {m}
<1>1. CASE ~Storable(m)
  BY <1>1 DEF Added
<1>2. CASE Storable(m)
  <2> DEFINE kept == {i \in DOMAIN list : ~SameShortcut(list[i].shortcut, m.shortcut)}
             others == RowsAt(list, kept)
             n == Len(others)
  <2>1. others \in Seq(Entries) /\ Picks(list, kept, others)
    BY RowsArePicked
  <2>2. n \in Nat /\ DOMAIN others = 1..n
    BY <2>1
  <2>3. PICK from \in [1..n -> kept] :
          /\ \A j \in 1..n : others[j] = list[from[j]]
          /\ \A j, k \in 1..n : from[j] = from[k] => j = k
          /\ \A i \in kept : \E j \in 1..n : from[j] = i
    <3> HIDE DEF kept, others, n
    <3>1. PICK from \in [DOMAIN others -> kept] :
            /\ \A j \in DOMAIN others : others[j] = list[from[j]]
            /\ \A j, k \in DOMAIN others : from[j] = from[k] => j = k
            /\ \A i \in kept : \E j \in DOMAIN others : from[j] = i
      BY <2>1, Zenon DEF Picks
    <3> QED BY <2>2, <3>1, SMTT(20)
  <2> DEFINE new == Append(others, m)
  <2>4. /\ new \in Seq(Entries) /\ DOMAIN new = 1..(n + 1) /\ new[n + 1] = m
        /\ \A j \in 1..n : new[j] = others[j]
    BY <2>1, <2>2, AppendProperties
  <2>5. Added(list, m) = new
    BY <1>2 DEF Added
  <2>6. \A i \in DOMAIN list : i \in kept \/ SameShortcut(list[i].shortcut, m.shortcut)
    OBVIOUS
  <2>7. \A i \in kept : i \in DOMAIN list /\ ~SameShortcut(list[i].shortcut, m.shortcut)
    OBVIOUS
  <2> HIDE DEF kept, others, n, new
  <2>8. ASSUME NEW j \in 1..(n + 1), j # n + 1
        PROVE  /\ j \in 1..n /\ from[j] \in kept /\ new[j] = list[from[j]]
               /\ ~SameShortcut(new[j].shortcut, m.shortcut)
    BY <2>2, <2>3, <2>4, <2>7, <2>8
  <2>9. ASSUME OneEach(list) PROVE OneEach(new)
    <3>1. ASSUME NEW j \in 1..(n + 1), NEW k \in 1..(n + 1),
                 SameShortcut(new[j].shortcut, new[k].shortcut)
          PROVE  j = k
      <4>1. CASE j = n + 1 \/ k = n + 1
        BY <2>4, <2>8, <3>1, <4>1 DEF SameShortcut
      <4>2. CASE j # n + 1 /\ k # n + 1
        <5>1. from[j] = from[k]
          BY <2>7, <2>8, <2>9, <3>1, <4>2 DEF OneEach
        <5> QED BY <2>3, <2>8, <4>2, <5>1
      <4> QED BY <4>1, <4>2
    <3> QED BY <2>4, <3>1 DEF OneEach
  <2>10. ASSUME NEW i \in DOMAIN list
         PROVE  \/ \E j \in 1..n : new[j] = list[i]
                \/ SameShortcut(list[i].shortcut, m.shortcut)
    BY <2>3, <2>4, <2>6
  <2>11. n + 1 \in DOMAIN new /\ \A j \in 1..n : j \in DOMAIN new
    BY <2>2, <2>4
  <2>12. ASSUME NEW s, HasMacro(list, s) PROVE HasMacro(new, s)
    <3>1. PICK i \in DOMAIN list : SameShortcut(list[i].shortcut, s)
      BY <2>12 DEF HasMacro, Range
    <3>2. \E j \in DOMAIN new : SameShortcut(new[j].shortcut, s)
      BY <2>4, <2>10, <2>11, <3>1 DEF SameShortcut
    <3> QED BY <3>2 DEF HasMacro, Range
  <2>13. \A row \in Range(list) : row \in Range(new) \/ SameShortcut(row.shortcut, m.shortcut)
    BY <2>10, <2>11 DEF Range
  <2>14. Range(new) \subseteq Range(list) \cup {m}
    BY <2>4, <2>7, <2>8 DEF Range
  <2> QED BY <2>4, <2>5, <2>9, <2>12, <2>13, <2>14
<1> QED BY <1>1, <1>2

(* Removing one.                                                            *)
LEMMA RemovedRows ==
  ASSUME NEW list \in Seq(Entries), NEW i \in DOMAIN list
  PROVE  /\ RemoveAt(list, i) \in Seq(Entries)
         /\ OneEach(list) => OneEach(RemoveAt(list, i))
         /\ \A k \in DOMAIN list : k # i => list[k] \in Range(RemoveAt(list, i))
         /\ \E from \in [DOMAIN RemoveAt(list, i) -> DOMAIN list] :
              /\ \A j \in DOMAIN RemoveAt(list, i) :
                   RemoveAt(list, i)[j] = list[from[j]] /\ from[j] # i
              /\ \A j, k \in DOMAIN RemoveAt(list, i) : from[j] = from[k] => j = k
<1> DEFINE n == Len(list)
           gone == RemoveAt(list, i)
           at(j) == IF j < i THEN j ELSE j + 1
<1>1. n \in Nat /\ DOMAIN list = 1..n /\ i \in 1..n
  OBVIOUS
<1>2. gone = SubSeq(list, 1, i - 1) \o SubSeq(list, i + 1, n)
  BY DEF RemoveAt
<1>3. /\ gone \in Seq(Entries) /\ Len(gone) = n - 1
      /\ \A j \in 1..(n - 1) : gone[j] = list[at(j)]
  <2> DEFINE before == SubSeq(list, 1, i - 1)
             after == SubSeq(list, i + 1, n)
  <2>1. /\ 1 \in 1..(Len(list) + 1) /\ i - 1 \in (1 - 1)..Len(list)
        /\ i + 1 \in 1..(Len(list) + 1) /\ n \in ((i + 1) - 1)..Len(list)
    BY <1>1
  <2>2. /\ before \in Seq(Entries) /\ Len(before) = i - 1
        /\ \A j \in 1..(i - 1) : before[j] = list[j]
    <3>1. /\ before \in Seq(Entries) /\ Len(before) = (i - 1) - 1 + 1
          /\ \A j \in 1..((i - 1) - 1 + 1) : before[j] = list[1 + j - 1]
      BY <2>1, SliceProperties
    <3> QED BY <1>1, <3>1
  <2>3. /\ after \in Seq(Entries) /\ Len(after) = n - i
        /\ \A j \in 1..(n - i) : after[j] = list[i + j]
    <3>1. /\ after \in Seq(Entries) /\ Len(after) = n - (i + 1) + 1
          /\ \A j \in 1..(n - (i + 1) + 1) : after[j] = list[(i + 1) + j - 1]
      BY <2>1, SliceProperties
    <3> QED BY <1>1, <3>1, SMTT(20)
  <2> HIDE DEF before, after
  <2>4. /\ gone \in Seq(Entries) /\ Len(gone) = (i - 1) + (n - i)
        /\ \A j \in 1..((i - 1) + (n - i)) :
             gone[j] = IF j <= i - 1 THEN before[j] ELSE after[j - (i - 1)]
    <3>1. gone = before \o after
      BY <1>2 DEF before, after
    <3> HIDE DEF gone
    <3>2. /\ gone \in Seq(Entries) /\ Len(gone) = Len(before) + Len(after)
          /\ \A j \in 1..(Len(before) + Len(after)) :
               gone[j] = IF j <= Len(before) THEN before[j] ELSE after[j - Len(before)]
      BY <2>2, <2>3, <3>1, ConcatProperties, Zenon
    <3> QED BY <2>2, <2>3, <3>2
  <2> HIDE DEF gone
  <2>5. (i - 1) + (n - i) = n - 1
    BY <1>1
  <2>6. ASSUME NEW j \in 1..(n - 1) PROVE gone[j] = list[at(j)]
    <3>1. CASE j < i
      BY <1>1, <2>2, <2>4, <2>5, <3>1
    <3>2. CASE j >= i
      <4>1. gone[j] = after[j - (i - 1)] /\ j - (i - 1) \in 1..(n - i)
        BY <1>1, <2>4, <2>5, <3>2
      <4>2. after[j - (i - 1)] = list[i + (j - (i - 1))] /\ i + (j - (i - 1)) = j + 1
        BY <1>1, <2>3, <4>1
      <4> QED BY <1>1, <3>2, <4>1, <4>2
    <3> QED BY <1>1, <3>1, <3>2
  <2> QED BY <2>4, <2>5, <2>6
<1> HIDE DEF gone
<1>4. DOMAIN gone = 1..(n - 1)
  BY <1>1, <1>3
<1>5. \A j \in 1..(n - 1) : at(j) \in DOMAIN list /\ at(j) # i
  BY <1>1
<1>6. \A j, k \in 1..(n - 1) : at(j) = at(k) => j = k
  BY <1>1
<1>7. ASSUME NEW k \in DOMAIN list, k # i PROVE \E j \in 1..(n - 1) : at(j) = k
  <2>1. CASE k < i
    BY <1>1, <2>1
  <2>2. CASE k > i
    <3>1. k - 1 \in 1..(n - 1) /\ at(k - 1) = k
      BY <1>1, <2>2
    <3> QED BY <3>1
  <2> QED BY <1>1, <1>7, <2>1, <2>2
<1> HIDE DEF at, n
<1>8. ASSUME OneEach(list) PROVE OneEach(gone)
  BY <1>3, <1>4, <1>5, <1>6, <1>8 DEF OneEach
<1>9. \A k \in DOMAIN list : k # i => list[k] \in Range(gone)
  BY <1>3, <1>4, <1>7 DEF Range
<1> DEFINE from == [j \in DOMAIN gone |-> at(j)]
<1>10. /\ from \in [DOMAIN gone -> DOMAIN list]
       /\ \A j \in DOMAIN gone : gone[j] = list[from[j]] /\ from[j] # i
       /\ \A j, k \in DOMAIN gone : from[j] = from[k] => j = k
  BY <1>3, <1>4, <1>5, <1>6
<1> HIDE DEF from
<1> QED BY <1>3, <1>8, <1>9, <1>10 DEF gone

(* Rewriting one: what was there stays, but for the row that is rewritten   *)
(* and one that answers to the new shortcut.                                *)
LEMMA ReplacedRows ==
  ASSUME NEW list \in Seq(Entries), NEW old, HasMacro(list, old), NEW m \in Entries
  PROVE  /\ Replaced(list, old, m) \in Seq(Entries)
         /\ OneEach(list) => OneEach(Replaced(list, old, m))
         /\ \A row \in Range(list) :
              \/ row \in Range(Replaced(list, old, m))
              \/ SameShortcut(row.shortcut, old)
              \/ SameShortcut(row.shortcut, m.shortcut)
<1>1. CASE ~Storable(m)
  BY <1>1 DEF Replaced
<1>2. CASE Storable(m)
  <2> DEFINE I == {i \in 1..Len(list) : SameShortcut(list[i].shortcut, old)}
             index == SelectInSeq(list, LAMBDA row : SameShortcut(row.shortcut, old))
             twins == {i \in DOMAIN list \ {index} : SameShortcut(list[i].shortcut, m.shortcut)}
             rewritten == ReplaceAt(list, index, m)
             twin == CHOOSE i \in twins : \A j \in twins : i <= j
  <2>1. Len(list) \in Nat /\ DOMAIN list = 1..Len(list)
    OBVIOUS
  <2>2. index \in DOMAIN list /\ SameShortcut(list[index].shortcut, old)
    <3>1. I # {} /\ I \subseteq Nat
      BY <2>1 DEF HasMacro, Range
    <3>2. \E x \in I : \A y \in I : x <= y
      <4> HIDE DEF I
      <4> QED BY <3>1, LeastNatural
    <3>3. index = CHOOSE x \in I : \A y \in I : x <= y
      BY <3>1 DEF SelectInSeq, Min
    <3>4. index \in I
      <4> HIDE DEF I, index
      <4> QED BY <3>2, <3>3
    <3> QED BY <2>1, <3>4
  <2>3. Replaced(list, old, m) = IF twins = {} THEN rewritten ELSE RemoveAt(rewritten, twin)
    BY <1>2 DEF Replaced
  <2> HIDE DEF index
  <2>4. /\ rewritten \in Seq(Entries) /\ DOMAIN rewritten = DOMAIN list
        /\ rewritten[index] = m
        /\ \A i \in DOMAIN list : i # index => rewritten[i] = list[i]
    BY <2>2 DEF ReplaceAt
  <2>5. \A i \in twins : /\ i \in DOMAIN list /\ i # index
                        /\ SameShortcut(list[i].shortcut, m.shortcut)
    OBVIOUS
  <2>6. \A i \in DOMAIN list :
          i # index /\ SameShortcut(list[i].shortcut, m.shortcut) => i \in twins
    OBVIOUS
  <2> HIDE DEF rewritten
  <2>7. ASSUME twins = {}, OneEach(list) PROVE OneEach(rewritten)
    BY <2>4, <2>6, <2>7 DEF OneEach, SameShortcut
  <2>8. ASSUME twins # {} PROVE twin \in twins
    <3>1. twins \subseteq Nat
      BY <2>1
    <3>2. \E x \in twins : \A y \in twins : x <= y
      <4> HIDE DEF twins
      <4> QED BY <2>8, <3>1, LeastNatural
    <3> HIDE DEF twins
    <3> QED BY <3>2
  <2> HIDE DEF twins, twin
  <2>9. \A i \in DOMAIN list : i # index => list[i] \in Range(rewritten)
    BY <2>4 DEF Range
  <2>10. CASE twins = {}
    <3>1. Replaced(list, old, m) = rewritten
      BY <2>3, <2>10
    <3>2. \A row \in Range(list) : row \in Range(rewritten) \/ SameShortcut(row.shortcut, old)
      BY <2>2, <2>9 DEF Range
    <3> QED BY <2>4, <2>7, <2>10, <3>1, <3>2
  <2>11. CASE twins # {}
    <3> DEFINE left == RemoveAt(rewritten, twin)
    <3>1. Replaced(list, old, m) = left
      BY <2>3, <2>11
    <3>2. twin \in twins /\ twin \in DOMAIN rewritten
      BY <2>4, <2>5, <2>8, <2>11
    <3>3. /\ left \in Seq(Entries)
          /\ \A k \in DOMAIN rewritten : k # twin => rewritten[k] \in Range(left)
      BY <2>4, <3>2, RemovedRows
    <3>4. ASSUME OneEach(list) PROVE OneEach(left)
      <4> DEFINE n == Len(rewritten)
                 at(j) == IF j < twin THEN j ELSE j + 1
      <4>1. PICK from \in [DOMAIN left -> DOMAIN rewritten] :
              /\ \A j \in DOMAIN left : left[j] = rewritten[from[j]] /\ from[j] # twin
              /\ \A j, k \in DOMAIN left : from[j] = from[k] => j = k
        BY <2>4, <3>2, RemovedRows
      <4>2. ASSUME NEW j \in DOMAIN left, NEW k \in DOMAIN left,
                   SameShortcut(left[j].shortcut, left[k].shortcut)
            PROVE  from[j] = from[k]
        <5>1. \A i \in DOMAIN list :
                i # index /\ i # twin => ~SameShortcut(list[i].shortcut, m.shortcut)
          BY <2>5, <2>6, <3>2, <3>4 DEF OneEach, SameShortcut
        <5>2. /\ from[j] \in DOMAIN list /\ from[j] # twin
              /\ from[k] \in DOMAIN list /\ from[k] # twin
              /\ SameShortcut(rewritten[from[j]].shortcut, rewritten[from[k]].shortcut)
          BY <2>4, <4>1, <4>2
        <5> HIDE DEF left
        <5>3. CASE from[j] # index /\ from[k] # index
          BY <2>4, <3>4, <5>2, <5>3 DEF OneEach
        <5>4. CASE from[j] = index \/ from[k] = index
          BY <2>4, <5>1, <5>2, <5>4 DEF SameShortcut
        <5> QED BY <5>3, <5>4
      <4> QED BY <4>1, <4>2 DEF OneEach
    <3>5. ASSUME NEW row \in Range(list)
          PROVE  \/ row \in Range(left)
                 \/ SameShortcut(row.shortcut, old)
                 \/ SameShortcut(row.shortcut, m.shortcut)
      <4>1. PICK i \in DOMAIN list : row = list[i]
        BY DEF Range
      <4>2. CASE i = index
        BY <2>2, <4>1, <4>2
      <4>3. CASE i = twin
        BY <2>5, <3>2, <4>1, <4>3
      <4>4. CASE i # index /\ i # twin
        BY <2>4, <3>3, <4>1, <4>4
      <4> QED BY <4>2, <4>3, <4>4
    <3> QED BY <3>1, <3>3, <3>4, <3>5
  <2> QED BY <2>10, <2>11
<1> QED BY <1>1, <1>2

(* The rows an import adds; without a "replace" none of them is one the     *)
(* list has.                                                                *)
LEMMA TakenRows ==
  ASSUME NEW list \in Seq(Entries), NEW table \in Seq(Entries), NEW replace \in BOOLEAN
  PROVE  /\ RowsToTake(list, table, replace) \in Seq(Entries)
         /\ ~replace => \A i \in DOMAIN RowsToTake(list, table, replace) :
              LowerFold[RowsToTake(list, table, replace)[i].shortcut] \notin Existing(list)
<1> DEFINE kept == {i \in DOMAIN table :
                      /\ FirstOfItsShortcut(table, i)
                      /\ replace \/ LowerFold[table[i].shortcut] \notin Existing(list)}
           picked == RowsToTake(list, table, replace)
<1>1. picked \in Seq(Entries) /\ Picks(table, kept, picked)
  BY RowsArePicked DEF RowsToTake
<1>2. ASSUME ~replace, NEW i \in DOMAIN picked
      PROVE  LowerFold[picked[i].shortcut] \notin Existing(list)
  <2>1. PICK j \in kept : picked[i] = table[j]
    <3> HIDE DEF kept, picked
    <3> QED BY <1>1, <1>2 DEF Picks
  <2> QED BY <1>2, <2>1
<1> QED BY <1>1, <1>2

(* Rows added one by one, from the first to the last.                       *)
LEMMA AddingFolds ==
  ASSUME NEW list \in Seq(Entries), NEW new \in Seq(Entries)
  PROVE  \E f : /\ f[0] = list
                /\ \A k \in 1..Len(new) : f[k] = Added(f[k - 1], new[k])
                /\ FoldLeft(Added, list, new) = f[Len(new)]
<1> DEFINE Fold(h) == h = [s \in SUBSET DOMAIN new |->
                             IF s = {} THEN list ELSE Added(h[s \ {Max(s)}], new[Max(s)])]
           iter == CHOOSE h : Fold(h)
           n == Len(new)
           G == [x \in Seq(Entries) \X (1..n) |-> Added(x[1], new[x[2]])]
<1>1. FoldLeft(Added, list, new) = iter[DOMAIN new]
  BY DEF FoldLeft, MapThenFoldSet
<1>2. n \in Nat /\ DOMAIN new = 1..n /\ \A i \in 1..n : new[i] \in Entries
  OBVIOUS
<1>3. G \in [Seq(Entries) \X (1..n) -> Seq(Entries)]
  <2>1. \A rs \in Seq(Entries), i \in 1..n : Added(rs, new[i]) \in Seq(Entries)
    BY <1>2, AddedRows
  <2> HIDE DEF n
  <2> QED BY <2>1
<1>4. PICK h \in [SUBSET (1..n) -> Seq(Entries)] : FoldsFromLeft(h, n, list, G)
  <2>1. n \in Nat
    BY <1>2
  <2> HIDE DEF G, n
  <2> QED BY <1>3, <2>1, LeftFoldExists, Zenon
<1>5. \A s \in (SUBSET (1..n)) \ {{}} : Max(s) = LastIn(s) /\ Max(s) \in 1..n
  BY <1>2, LastPosition DEF Max, LastIn
<1>6. ASSUME NEW s \in SUBSET (1..n), s # {}
      PROVE  h[s] = Added(h[s \ {Max(s)}], new[Max(s)])
  <2>1. h[s \ {Max(s)}] \in Seq(Entries) /\ Max(s) \in 1..n
    BY <1>4, <1>5, <1>6
  <2> QED BY <1>4, <1>5, <1>6, <2>1 DEF FoldsFromLeft
<1>7. Fold(h)
  BY <1>2, <1>4, <1>5, <1>6 DEF FoldsFromLeft
<1>8. Fold(iter)
  <2> HIDE DEF Fold
  <2> QED BY <1>7
<1> HIDE DEF iter
<1> DEFINE f == [k \in 0..n |-> iter[1..k]]
<1>9. f[0] = list
  BY <1>2, <1>8, InitialSegments
<1>10. ASSUME NEW k \in 1..n PROVE f[k] = Added(f[k - 1], new[k])
  <2>1. /\ 1..k \in SUBSET (1..n) /\ 1..k # {} /\ Max(1..k) = k
        /\ (1..k) \ {k} = 1..(k - 1)
    BY <1>2, <1>5, InitialSegments
  <2>2. iter[1..k] = Added(iter[(1..k) \ {Max(1..k)}], new[Max(1..k)])
    BY <1>2, <1>8, <2>1
  <2>3. f[k] = iter[1..k] /\ f[k - 1] = iter[1..(k - 1)]
    BY <1>2
  <2> HIDE DEF f
  <2> QED BY <2>1, <2>2, <2>3
<1>11. FoldLeft(Added, list, new) = f[n]
  BY <1>1, <1>2
<1> HIDE DEF f
<1> QED BY <1>9, <1>10, <1>11

(* An import keeps what the list promised, and the rows themselves when the *)
(* user was not asked: a shortcut ASCII folds to one of the list's folds to *)
(* it with every letter.                                                    *)
LEMMA ImportedRows ==
  ASSUME NEW list \in Seq(Entries), NEW table \in Seq(Entries), NEW replace \in BOOLEAN
  PROVE  /\ Imported(list, table, replace) \in Seq(Entries)
         /\ OneEach(list) => OneEach(Imported(list, table, replace))
         /\ \A s : HasMacro(list, s) => HasMacro(Imported(list, table, replace), s)
         /\ ~replace => Range(list) \subseteq Range(Imported(list, table, replace))
<1> DEFINE new == RowsToTake(list, table, replace)
           n == Len(new)
<1>1. new \in Seq(Entries)
  BY TakenRows
<1>2. n \in Nat /\ DOMAIN new = 1..n /\ \A i \in 1..n : new[i] \in Entries
  BY <1>1
<1>3. ASSUME ~replace, NEW i \in 1..n, NEW row \in Range(list)
      PROVE  ~SameShortcut(row.shortcut, new[i].shortcut)
  <2>1. LowerFold[new[i].shortcut] \notin Existing(list)
    BY <1>2, <1>3, TakenRows
  <2>2. LowerFold[row.shortcut] \in Existing(list)
    BY DEF Existing
  <2>3. row.shortcut \in Shortcuts /\ new[i].shortcut \in Shortcuts
    <3>1. row \in Entries /\ new[i] \in Entries
      BY <1>2 DEF Range
    <3> QED BY <3>1 DEF Entries
  <2> QED BY <2>1, <2>2, <2>3, MacroTableAssumption DEF SameShortcut
<1> HIDE DEF new
<1>4. PICK f : /\ f[0] = list
               /\ \A k \in 1..n : f[k] = Added(f[k - 1], new[k])
               /\ FoldLeft(Added, list, new) = f[n]
  BY <1>1, AddingFolds
<1> DEFINE Good(now) == /\ now \in Seq(Entries)
                        /\ OneEach(list) => OneEach(now)
                        /\ \A s : HasMacro(list, s) => HasMacro(now, s)
                        /\ ~replace => Range(list) \subseteq Range(now)
           T == {k \in 0..n : Good(f[k])}
<1>5. 0 \in T
  BY <1>2, <1>4
<1>6. ASSUME NEW k \in 1..n, k - 1 \in T PROVE k \in T
  <2>1. Good(f[k - 1]) /\ k \in 0..n /\ new[k] \in Entries
    BY <1>2, <1>6
  <2>2. f[k] = Added(f[k - 1], new[k])
    BY <1>4
  <2> HIDE DEF n
  <2>3. /\ f[k] \in Seq(Entries)
        /\ OneEach(f[k - 1]) => OneEach(f[k])
        /\ \A s : HasMacro(f[k - 1], s) => HasMacro(f[k], s)
        /\ \A row \in Range(f[k - 1]) :
             row \in Range(f[k]) \/ SameShortcut(row.shortcut, new[k].shortcut)
    BY <2>1, <2>2, AddedRows, SMTT(40)
  <2> QED BY <1>3, <2>1, <2>3, SMTT(20)
<1>7. n \in T
  <2>1. n \in Nat /\ n \in 0..n
    BY <1>2
  <2> HIDE DEF T, n
  <2>2. \A k \in 0..n : k \in T
    BY <1>5, <1>6, <2>1, AllUpTo
  <2> QED BY <2>1, <2>2
<1> QED BY <1>4, <1>7 DEF Imported, new

-----------------------------------------------------------------------------
(* The list in every state.  The two parts need each other: the row under   *)
(* edit is one row only because no shortcut answers twice, and rewriting it *)
(* leaves one of each only because it is there.                             *)
ListInv ==
  /\ macros \in Seq(Entries)
  /\ OneRowPerShortcut
  /\ EditedRowExists

Kept ==
  \A m \in Range(macros) :
    m \in Range(macros') \/ (editing # NoRow /\ SameShortcut(m.shortcut, editing))

LEMMA OneRowMeans == OneRowPerShortcut <=> OneEach(macros)
BY DEF OneRowPerShortcut, OneEach

LEMMA ListUntouched ==
  ASSUME ListInv, macros' = macros, editing' = editing \/ editing' = NoRow
  PROVE  ListInv' /\ Kept
BY DEF ListInv, Kept, OneRowPerShortcut, EditedRowExists

(* The windows, the menu, the words and the applications leave it alone.    *)
QuietNext ==
  \/ ShowSettings \/ ShowAbout
  \/ \E w \in Windows : CloseWindow(w)
  \/ ManageMacros \/ ManagePersonalWords \/ ManageExcludedApps
  \/ \E l \in Languages : LanguageChanged(l)
  \/ CancelMacroEdit
  \/ \E k \in Words, verdict \in Verdicts : AddWord(k, verdict) \/ CorrectByHotkey(k, verdict)
  \/ \E k \in Words : FlipWord(k) \/ RemoveWord(k)
  \/ \E a \in Apps \cup {Own} :
       AddApp(a) \/ RemoveApp(a) \/ AppDidActivate(a) \/ MissedActivation(a)
  \/ RefreshFrontmostIfIdle
  \/ ToggleMode \/ ToggleCurrentApp \/ ToggleAutoFix \/ AutoFixChanged
  \/ RestChanged
  \/ \E h \in Presets : PresetChosen(h)
  \/ RecorderArmed
  \/ \E h \in Recorded \cup {hotkey} : RecordingEnds(h)
  \/ UNCHANGED vars

LEMMA QuietNextIsQuiet ==
  ASSUME QuietNext
  PROVE  macros' = macros /\ (editing' = editing \/ editing' = NoRow)
<1>1. CASE \/ ShowSettings \/ ShowAbout
           \/ \E w \in Windows : CloseWindow(w)
           \/ ManageMacros \/ ManagePersonalWords \/ ManageExcludedApps
           \/ CancelMacroEdit
  BY <1>1 DEF ShowSettings, ShowAbout, CloseWindow, ManageMacros, ManagePersonalWords,
     ManageExcludedApps, OpenList, CancelMacroEdit, lists
<1>2. CASE \E l \in Languages : LanguageChanged(l)
  BY <1>2 DEF LanguageChanged, lists
<1>3. CASE \/ \E k \in Words, verdict \in Verdicts :
                AddWord(k, verdict) \/ CorrectByHotkey(k, verdict)
           \/ \E k \in Words : FlipWord(k) \/ RemoveWord(k)
           \/ \E a \in Apps \cup {Own} : AddApp(a) \/ RemoveApp(a)
  BY <1>3 DEF AddWord, CorrectByHotkey, FlipWord, RemoveWord, WordsChanged, AddApp,
     RemoveApp, ExcludedInWindow
<1>4. CASE \/ \E a \in Apps \cup {Own} : AppDidActivate(a) \/ MissedActivation(a)
           \/ RefreshFrontmostIfIdle
           \/ ToggleMode \/ ToggleCurrentApp \/ ToggleAutoFix \/ AutoFixChanged
           \/ RestChanged
  BY <1>4 DEF AppDidActivate, MissedActivation, RefreshFrontmostIfIdle, ToggleMode,
     ToggleCurrentApp, ToggleAutoFix, AutoFixChanged, RestChanged, lists
<1>5. CASE \/ \E h \in Presets : PresetChosen(h)
           \/ RecorderArmed
           \/ \E h \in Recorded \cup {hotkey} : RecordingEnds(h)
  BY <1>5 DEF PresetChosen, RecorderArmed, RecordingEnds, lists
<1>6. CASE UNCHANGED vars
  BY <1>6 DEF vars, lists
<1> QED BY <1>1, <1>2, <1>3, <1>4, <1>5, <1>6 DEF QuietNext

LEMMA NextByParts ==
  ASSUME [Next]_vars
  PROVE  \/ QuietNext
         \/ \E m \in Entries : AddMacro(m)
         \/ \E i \in 1 .. MaxMacros : EditMacro(i) \/ RemoveMacro(i)
         \/ \E table \in Tables, replace \in BOOLEAN : ImportMacros(table, replace)
BY DEF Next, QuietNext

(* A row is lost only to a new one with its shortcut, which is asked about. *)
LEMMA AddMacroKeeps ==
  ASSUME ListInv, NEW m \in Entries, AddMacro(m)
  PROVE  ListInv' /\ (~agreed' => Kept)
<1>1. /\ macros \in Seq(Entries) /\ OneEach(macros) /\ EditedRowExists
      /\ macros' = IF Edited = NoRow THEN Added(macros, m) ELSE Replaced(macros, Edited, m)
      /\ agreed' = Collides(m.shortcut) /\ editing' = NoRow
  BY OneRowMeans DEF ListInv, AddMacro
<1>2. EditedRowExists'
  BY <1>1 DEF EditedRowExists
<1>3. CASE Edited = NoRow
  <2>1. /\ macros' \in Seq(Entries) /\ OneEach(macros')
        /\ \A row \in Range(macros) :
             row \in Range(macros') \/ SameShortcut(row.shortcut, m.shortcut)
    BY <1>1, <1>3, AddedRows
  <2>2. ASSUME ~agreed' PROVE Kept
    <3>1. ~HasMacro(macros, m.shortcut)
      BY <1>1, <1>3, <2>2 DEF Collides
    <3> QED BY <2>1, <3>1 DEF Kept, HasMacro
  <2> QED BY <1>2, <2>1, <2>2 DEF ListInv, OneRowPerShortcut, OneEach
<1>4. CASE Edited # NoRow
  <2>1. Edited = editing /\ editing # NoRow /\ HasMacro(macros, editing)
    BY <1>4 DEF Edited
  <2>2. /\ macros' \in Seq(Entries) /\ OneEach(macros')
        /\ \A row \in Range(macros) :
             \/ row \in Range(macros')
             \/ SameShortcut(row.shortcut, editing)
             \/ SameShortcut(row.shortcut, m.shortcut)
    BY <1>1, <1>4, <2>1, ReplacedRows
  <2>3. ASSUME ~agreed' PROVE Kept
    <3>1. ~HasMacro(macros, m.shortcut) \/ SameShortcut(editing, m.shortcut)
      BY <1>1, <1>4, <2>1, <2>3 DEF Collides
    <3> QED BY <2>1, <2>2, <3>1 DEF Kept, HasMacro, SameShortcut
  <2> QED BY <1>2, <2>2, <2>3 DEF ListInv, OneRowPerShortcut, OneEach
<1> QED BY <1>3, <1>4

LEMMA EditMacroKeeps ==
  ASSUME ListInv, NEW i, EditMacro(i)
  PROVE  ListInv' /\ Kept
<1>1. macros' = macros /\ i \in DOMAIN macros /\ editing' = macros[i].shortcut
  BY DEF EditMacro, lists
<1>2. HasMacro(macros, macros[i].shortcut)
  BY <1>1 DEF HasMacro, Range, SameShortcut
<1> QED BY <1>1, <1>2 DEF ListInv, Kept, OneRowPerShortcut, EditedRowExists

LEMMA RemoveMacroKeeps ==
  ASSUME ListInv, NEW i, RemoveMacro(i)
  PROVE  ListInv' /\ agreed'
<1>1. /\ macros \in Seq(Entries) /\ OneEach(macros) /\ i \in DOMAIN macros
      /\ macros' = RemoveAt(macros, i)
      /\ editing' = (IF editing # NoRow /\ SameShortcut(macros[i].shortcut, editing)
                     THEN NoRow ELSE editing)
      /\ agreed'
  BY OneRowMeans DEF ListInv, RemoveMacro, ForgetRemoved
<1>2. /\ macros' \in Seq(Entries) /\ OneEach(macros')
      /\ \A k \in DOMAIN macros : k # i => macros[k] \in Range(macros')
  BY <1>1, RemovedRows
<1>3. ASSUME editing' # NoRow PROVE HasMacro(macros', editing')
  <2>1. /\ editing' = editing /\ editing # NoRow
        /\ ~SameShortcut(macros[i].shortcut, editing)
    BY <1>1, <1>3
  <2>2. PICK k \in DOMAIN macros : SameShortcut(macros[k].shortcut, editing)
    BY <2>1 DEF ListInv, EditedRowExists, HasMacro, Range
  <2>3. macros[k] \in Range(macros')
    BY <1>2, <2>1, <2>2
  <2> QED BY <2>1, <2>2, <2>3 DEF HasMacro
<1>4. EditedRowExists'
  BY <1>3 DEF EditedRowExists, HasMacro, SameShortcut
<1> QED BY <1>1, <1>2, <1>4 DEF ListInv, OneRowPerShortcut, OneEach

LEMMA ImportMacrosKeeps ==
  ASSUME ListInv, NEW table \in Tables, NEW replace \in BOOLEAN,
         ImportMacros(table, replace)
  PROVE  ListInv' /\ (~agreed' => Kept)
<1>1. /\ macros \in Seq(Entries) /\ OneEach(macros) /\ table \in Seq(Entries)
      /\ macros' = Imported(macros, table, replace)
      /\ editing' = editing /\ agreed' = replace
  BY OneRowMeans, MacPrefsAssumption DEF ListInv, ImportMacros
<1>2. /\ macros' \in Seq(Entries) /\ OneEach(macros')
      /\ \A s : HasMacro(macros, s) => HasMacro(macros', s)
      /\ ~replace => Range(macros) \subseteq Range(macros')
  BY <1>1, ImportedRows
<1>3. EditedRowExists'
  BY <1>1, <1>2 DEF ListInv, EditedRowExists, HasMacro, SameShortcut
<1> QED BY <1>1, <1>2, <1>3 DEF ListInv, OneRowPerShortcut, OneEach, Kept

LEMMA ListNext ==
  ASSUME ListInv, [Next]_vars
  PROVE  ListInv' /\ (~agreed' => Kept)
<1>1. CASE QuietNext
  BY <1>1, QuietNextIsQuiet, ListUntouched
<1>2. CASE \E m \in Entries : AddMacro(m)
  BY <1>2, AddMacroKeeps
<1>3. CASE \E i \in 1 .. MaxMacros : EditMacro(i) \/ RemoveMacro(i)
  BY <1>3, EditMacroKeeps, RemoveMacroKeeps
<1>4. CASE \E table \in Tables, replace \in BOOLEAN : ImportMacros(table, replace)
  BY <1>4, ImportMacrosKeeps
<1> QED BY <1>1, <1>2, <1>3, <1>4, NextByParts

LEMMA ListAlways == Spec => []ListInv
<1>1. Init => ListInv
  <2> SUFFICES ASSUME Init PROVE ListInv
    OBVIOUS
  <2>1. macros = <<>> /\ editing = NoRow
    BY DEF Init
  <2>2. <<>> \in Seq(Entries) /\ DOMAIN <<>> = {}
    OBVIOUS
  <2> QED BY <2>1, <2>2 DEF ListInv, OneRowPerShortcut, EditedRowExists
<1>2. ListInv /\ [Next]_vars => ListInv'
  BY ListNext
<1> QED BY <1>1, <1>2, PTL DEF Spec

(* No two rows of the list ever answer to the same keys, whatever is added, *)
(* renamed, removed and imported (session.rs, add_macro, replace_macro,     *)
(* import_macros).                                                          *)
THEOREM ShortcutsAreUnique == Spec => []OneRowPerShortcut
<1>1. ListInv => OneRowPerShortcut
  BY DEF ListInv
<1> QED BY <1>1, ListAlways, PTL

(* The row a Save would rewrite is in the list (prefs/mod.rs, remove_macro, *)
(* add_macro).                                                              *)
THEOREM SavesAreOfRowsThatExist == Spec => []EditedRowExists
<1>1. ListInv => EditedRowExists
  BY DEF ListInv
<1> QED BY <1>1, ListAlways, PTL

(* No macro is lost that the user did not agree to give up, by a button, an *)
(* edit or an import (prefs/mod.rs, add_macro; macros_window.rs,            *)
(* import_macros).                                                          *)
THEOREM MacrosAreNotLost == Spec => NothingIsOverwrittenUnasked
<1>1. ListInv /\ [Next]_vars => (~agreed' => Kept)
  BY ListNext
<1>2. ListInv /\ [Next]_vars =>
        [~agreed' => \A m \in Range(macros) :
           m \in Range(macros') \/ (editing # NoRow /\ SameShortcut(m.shortcut, editing))]_vars
  BY <1>1 DEF Kept
<1> QED BY <1>2, ListAlways, PTL DEF Spec, NothingIsOverwrittenUnasked

-----------------------------------------------------------------------------
(* The windows, the counts, the controls, the menu bar and the file are     *)
(* copies; in every state they tell what they are copies of.                *)
Shapes ==
  /\ DOMAIN windows = Windows
  /\ \A w \in Windows : DOMAIN windows[w] = {"is", "language"}
  /\ DOMAIN rows = {"macros", "words", "apps"}
  /\ recording \in BOOLEAN

CopiesInv ==
  /\ Shapes
  /\ CopiesAreCurrent
  /\ WindowsSpeakTheLanguage
  /\ GlyphTellsTheState

(* Only English mode draws an E.                                            *)
LEMMA GlyphOfMode ==
  \A m, a, list : (GlyphOf(m, a, list) = "E") <=> (m = "english")
BY DEF GlyphOf

LEMMA CopiesInit == Init => CopiesInv
<1> SUFFICES ASSUME Init PROVE CopiesInv
  OBVIOUS
<1>1. Shapes
  BY DEF Init, Shapes
<1>2. CopiesAreCurrent
  BY DEF Init, CopiesAreCurrent, RowsAreLive, CountsTrackTheLists, ControlsAgree, Built,
     Windows, CountsOf
<1>3. WindowsSpeakTheLanguage /\ GlyphTellsTheState
  BY GlyphOfMode DEF Init, WindowsSpeakTheLanguage, GlyphTellsTheState
<1> QED BY <1>1, <1>2, <1>3 DEF CopiesInv

(* A window that comes up speaks the language of the moment.                *)
LEMMA WindowComesUp ==
  ASSUME Shapes, WindowsSpeakTheLanguage, NEW w \in Windows,
         windows' = [windows EXCEPT ![w] = InFront(w)], language' = language
  PROVE  /\ DOMAIN windows' = Windows
         /\ \A x \in Windows : DOMAIN windows'[x] = {"is", "language"}
         /\ WindowsSpeakTheLanguage'
         /\ \A x \in Windows : x # w => windows'[x] = windows[x]
         /\ windows'[w].is = "open"
<1>1. /\ windows'[w] = InFront(w) /\ \A x \in Windows : x # w => windows'[x] = windows[x]
      /\ DOMAIN windows' = Windows
  BY DEF Shapes
<1>2. /\ InFront(w).is = "open" /\ InFront(w).language = language
      /\ DOMAIN InFront(w) = {"is", "language"}
  BY DEF InFront, WindowsSpeakTheLanguage
<1> QED BY <1>1, <1>2 DEF Shapes, WindowsSpeakTheLanguage, Built

LEMMA ShowSettingsCopies ==
  ASSUME CopiesInv, ShowSettings
  PROVE  CopiesInv'
<1>1. /\ windows' = [windows EXCEPT !["settings"] = InFront("settings")]
      /\ language' = language /\ UNCHANGED <<lists, choices, stored, bar, rows, recording>>
      /\ IF Built("settings") THEN UNCHANGED <<label, checkbox, counts>> ELSE BuildSettings
  BY DEF ShowSettings, choices
<1>2. /\ DOMAIN windows' = Windows
      /\ \A x \in Windows : DOMAIN windows'[x] = {"is", "language"}
      /\ WindowsSpeakTheLanguage'
      /\ \A x \in Windows : x # "settings" => windows'[x] = windows[x]
  BY <1>1, WindowComesUp DEF CopiesInv, Windows
<1>3. Shapes'
  BY <1>1, <1>2 DEF CopiesInv, Shapes
<1>4. stored' = Live' /\ RowsAreLive'
  BY <1>1, <1>2 DEF CopiesInv, CopiesAreCurrent, Live, lists, choices, RowsAreLive, Built, Windows
<1>5. CountsTrackTheLists' /\ ControlsAgree'
  <2>1. CASE Built("settings")
    <3>1. UNCHANGED <<label, checkbox, counts, lists, recording>>
      BY <1>1, <2>1
    <3> QED BY <2>1, <3>1 DEF CopiesInv, CopiesAreCurrent, CountsTrackTheLists, ControlsAgree,
               checkbox, lists
  <2>2. CASE ~Built("settings")
    <3>1. /\ box' = autoFix /\ dependent' = autoFix /\ label' = "current"
          /\ counts' = CountsOf(macros, words, excluded) /\ UNCHANGED lists
      BY <1>1, <2>2 DEF BuildSettings, BuildRows
    <3> QED BY <3>1 DEF CountsTrackTheLists, ControlsAgree, CountsOf, lists
  <2> QED BY <2>1, <2>2
<1>6. GlyphTellsTheState'
  BY <1>1 DEF CopiesInv, GlyphTellsTheState, GlyphOf, bar, choices, lists
<1> QED BY <1>2, <1>3, <1>4, <1>5, <1>6 DEF CopiesInv, CopiesAreCurrent

LEMMA OpenListCopies ==
  ASSUME CopiesInv, NEW w \in {"excluded", "macros", "words"}, NEW shown,
         OpenList([windows EXCEPT ![w] = InFront(w)], shown),
         DOMAIN shown = DOMAIN rows,
         shown.macros = IF w = "macros" THEN macros ELSE rows.macros,
         shown.words = IF w = "words" THEN words ELSE rows.words
  PROVE  CopiesInv'
<1>1. /\ windows' = [windows EXCEPT ![w] = InFront(w)] /\ rows' = shown
      /\ language' = language /\ counts' = CountsOf(macros, words, excluded)
      /\ UNCHANGED <<lists, choices, stored, bar, checkbox, recorder>>
  BY DEF OpenList, choices
<1>2. /\ DOMAIN windows' = Windows
      /\ \A x \in Windows : DOMAIN windows'[x] = {"is", "language"}
      /\ WindowsSpeakTheLanguage'
      /\ \A x \in Windows : x # w => windows'[x] = windows[x]
  BY <1>1, WindowComesUp DEF CopiesInv, Windows
<1>3. Shapes'
  BY <1>1, <1>2 DEF CopiesInv, Shapes, recorder
<1>4. stored' = Live' /\ RowsAreLive'
  BY <1>1, <1>2 DEF CopiesInv, CopiesAreCurrent, Live, lists, choices, RowsAreLive, Built, Windows
<1>5. CountsTrackTheLists' /\ ControlsAgree'
  BY <1>1 DEF CopiesInv, CopiesAreCurrent, CountsTrackTheLists, ControlsAgree, CountsOf,
     checkbox, recorder, lists
<1>6. GlyphTellsTheState'
  BY <1>1 DEF CopiesInv, GlyphTellsTheState, GlyphOf, bar, choices, lists
<1> QED BY <1>2, <1>3, <1>4, <1>5, <1>6 DEF CopiesInv, CopiesAreCurrent

LEMMA WindowStepsCopies ==
  ASSUME CopiesInv,
         \/ ShowAbout \/ ManageMacros \/ ManagePersonalWords \/ ManageExcludedApps
         \/ \E w \in Windows : CloseWindow(w)
  PROVE  CopiesInv'
<1>1. CASE ShowAbout
  <2>1. /\ windows' = [windows EXCEPT !["about"] = InFront("about")]
        /\ language' = language
        /\ UNCHANGED <<lists, choices, stored, bar, rows, counts, checkbox, recorder>>
    BY <1>1 DEF ShowAbout, AboutWindow, choices
  <2>2. /\ DOMAIN windows' = Windows
        /\ \A x \in Windows : DOMAIN windows'[x] = {"is", "language"}
        /\ WindowsSpeakTheLanguage'
        /\ \A x \in Windows : x # "about" => windows'[x] = windows[x]
    BY <2>1, WindowComesUp DEF CopiesInv, Windows
  <2>3. Shapes' /\ GlyphTellsTheState'
    BY <2>1, <2>2 DEF CopiesInv, Shapes, GlyphTellsTheState, GlyphOf, bar, choices, lists, recorder
  <2>4. CopiesAreCurrent'
    BY <2>1, <2>2 DEF CopiesInv, CopiesAreCurrent, RowsAreLive, CountsTrackTheLists,
       ControlsAgree, Live, Built, Windows, lists, choices, checkbox, recorder
  <2> QED BY <2>2, <2>3, <2>4 DEF CopiesInv
<1>2. CASE ManageMacros
  <2> DEFINE shown == [rows EXCEPT !.macros = macros]
  <2>1. /\ DOMAIN shown = DOMAIN rows
        /\ shown.macros = IF "macros" = "macros" THEN macros ELSE rows.macros
        /\ shown.words = IF "macros" = "words" THEN words ELSE rows.words
    BY DEF CopiesInv, Shapes
  <2>2. OpenList([windows EXCEPT !["macros"] = InFront("macros")], shown)
    BY <1>2 DEF ManageMacros, MacrosWindow
  <2> HIDE DEF shown
  <2> QED BY <2>1, <2>2, OpenListCopies
<1>3. CASE ManagePersonalWords
  <2> DEFINE shown == [rows EXCEPT !.words = words]
  <2>1. /\ DOMAIN shown = DOMAIN rows
        /\ shown.macros = IF "words" = "macros" THEN macros ELSE rows.macros
        /\ shown.words = IF "words" = "words" THEN words ELSE rows.words
    BY DEF CopiesInv, Shapes
  <2>2. OpenList([windows EXCEPT !["words"] = InFront("words")], shown)
    BY <1>3 DEF ManagePersonalWords, WordsWindow
  <2> HIDE DEF shown
  <2> QED BY <2>1, <2>2, OpenListCopies
<1>4. CASE ManageExcludedApps
  <2> DEFINE shown == [rows EXCEPT !.apps = excluded]
  <2>1. /\ DOMAIN shown = DOMAIN rows
        /\ shown.macros = IF "excluded" = "macros" THEN macros ELSE rows.macros
        /\ shown.words = IF "excluded" = "words" THEN words ELSE rows.words
    BY DEF CopiesInv, Shapes
  <2>2. OpenList([windows EXCEPT !["excluded"] = InFront("excluded")], shown)
    BY <1>4 DEF ManageExcludedApps, ExcludedWindow
  <2> HIDE DEF shown
  <2> QED BY <2>1, <2>2, OpenListCopies
<1>5. CASE \E w \in Windows : CloseWindow(w)
  <2>1. PICK w \in Windows : CloseWindow(w)
    BY <1>5
  <2>2. /\ windows' = [windows EXCEPT ![w].is = "closed"] /\ Built(w)
        /\ UNCHANGED <<lists, choices, stored, bar, rows, counts, checkbox, recorder>>
    BY <2>1 DEF CloseWindow, At, Visible, Built
  <2>3. /\ DOMAIN windows' = Windows
        /\ \A x \in Windows : /\ DOMAIN windows'[x] = {"is", "language"}
                              /\ windows'[x].language = windows[x].language
                              /\ Built(x)' => Built(x)
    BY <2>2 DEF CopiesInv, Shapes, Built
  <2>4. Shapes' /\ GlyphTellsTheState' /\ WindowsSpeakTheLanguage'
    BY <2>2, <2>3 DEF CopiesInv, Shapes, GlyphTellsTheState, GlyphOf, WindowsSpeakTheLanguage,
       bar, choices, lists, recorder
  <2>5. CopiesAreCurrent'
    <3> HIDE DEF Built
    <3> QED BY <2>2, <2>3 DEF CopiesInv, CopiesAreCurrent, RowsAreLive, CountsTrackTheLists,
               ControlsAgree, Live, Windows, lists, choices, checkbox, recorder
  <2> QED BY <2>4, <2>5 DEF CopiesInv
<1> QED BY <1>1, <1>2, <1>3, <1>4, <1>5

LEMMA LanguageCopies ==
  ASSUME CopiesInv, NEW l, LanguageChanged(l)
  PROVE  CopiesInv'
<1>1. /\ language' = l /\ windows' = [w \in Windows |-> Rebuilt(w, l)]
      /\ rows' = [macros |-> IF Visible("macros") THEN macros ELSE rows.macros,
                  words |-> IF Visible("words") THEN words ELSE rows.words,
                  apps |-> IF Visible("excluded") THEN excluded ELSE rows.apps]
      /\ box' = autoFix /\ dependent' = autoFix /\ label' = "current"
      /\ counts' = CountsOf(macros, words, excluded)
      /\ UNCHANGED <<lists, mode, bar, recording>>
      /\ stored' = Live'
  BY DEF LanguageChanged, BuildSettings, BuildRows, Save
<1>2. \A w \in Windows : /\ windows'[w] = Rebuilt(w, l) /\ windows'[w].language = l
                        /\ DOMAIN windows'[w] = {"is", "language"}
  BY <1>1 DEF Rebuilt
<1>3. /\ Built("macros")' => Visible("macros")
      /\ Built("words")' => Visible("words")
  <2>1. /\ windows'["macros"].is = IF Visible("macros") THEN "open" ELSE "not built"
        /\ windows'["words"].is = IF Visible("words") THEN "open" ELSE "not built"
    <3>1. /\ Rebuilt("macros", l).is = IF Visible("macros") THEN "open" ELSE "not built"
          /\ Rebuilt("words", l).is = IF Visible("words") THEN "open" ELSE "not built"
      BY DEF Rebuilt
    <3>2. "macros" \in Windows /\ "words" \in Windows
      BY DEF Windows
    <3> QED BY <1>2, <3>1, <3>2
  <2>2. Built("macros")' = (windows'["macros"].is # "not built")
        /\ Built("words")' = (windows'["words"].is # "not built")
    BY DEF Built
  <2> QED BY <2>1, <2>2
<1>4. Shapes'
  BY <1>1, <1>2 DEF CopiesInv, Shapes
<1>5. WindowsSpeakTheLanguage'
  BY <1>1, <1>2 DEF WindowsSpeakTheLanguage
<1>6. RowsAreLive'
  BY <1>1, <1>3 DEF RowsAreLive, lists
<1>7. CountsTrackTheLists' /\ ControlsAgree'
  BY <1>1 DEF CountsTrackTheLists, ControlsAgree, CountsOf, lists
<1>8. GlyphTellsTheState'
  BY <1>1 DEF CopiesInv, GlyphTellsTheState, GlyphOf, bar, lists
<1> QED BY <1>1, <1>4, <1>5, <1>6, <1>7, <1>8 DEF CopiesInv, CopiesAreCurrent

(* A handler that changes a list refreshes the rows, the counts and the     *)
(* file.                                                                    *)
LEMMA RefreshedCopies ==
  ASSUME CopiesInv,
         UNCHANGED <<windows, language, bar, mode, checkbox, recorder>>,
         front = Own \/ excluded' = excluded,
         stored' = Live', RefreshListCounts,
         DOMAIN rows' = DOMAIN rows,
         Built("macros") => rows'.macros = macros',
         Built("words") => rows'.words = words'
  PROVE  CopiesInv'
<1>1. Shapes' /\ WindowsSpeakTheLanguage'
  BY DEF CopiesInv, Shapes, WindowsSpeakTheLanguage, Built, recorder
<1>2. GlyphTellsTheState'
  <2>1. UNCHANGED <<front, app, glyph, missed, mode>>
    BY DEF bar
  <2> QED BY <2>1 DEF CopiesInv, GlyphTellsTheState
<1>3. RowsAreLive'
  BY DEF RowsAreLive, Built
<1>4. CountsTrackTheLists'
  <2>1. Built("settings") => counts' = CountsOf(macros', words', excluded')
    BY DEF RefreshListCounts
  <2>2. Built("settings")' => Built("settings")
    BY DEF Built
  <2>3. Built("settings") => /\ counts'.macros = Len(macros')
                             /\ counts'.words = Cardinality(DOMAIN words')
    BY <2>1 DEF CountsOf
  <2> QED BY <2>2, <2>3 DEF CountsTrackTheLists
<1>5. ControlsAgree'
  BY DEF CopiesInv, CopiesAreCurrent, ControlsAgree, checkbox, recorder
<1> QED BY <1>1, <1>2, <1>3, <1>4, <1>5 DEF CopiesInv, CopiesAreCurrent

LEMMA MacrosCopies ==
  ASSUME CopiesInv, MacrosChanged
  PROVE  CopiesInv'
<1>1. /\ UNCHANGED <<words, excluded, windows, language, bar, mode, checkbox, recorder>>
      /\ stored' = Live' /\ RefreshListCounts
      /\ rows' = IF Built("macros") THEN [rows EXCEPT !.macros = macros'] ELSE rows
  BY DEF MacrosChanged, choices, RefreshMacros, Save
<1>2. DOMAIN rows = {"macros", "words", "apps"} /\ (Built("words") => rows.words = words)
  BY DEF CopiesInv, Shapes, CopiesAreCurrent, RowsAreLive
<1>3. /\ DOMAIN rows' = DOMAIN rows
      /\ Built("macros") => rows'.macros = macros'
      /\ Built("words") => rows'.words = words'
  BY <1>1, <1>2
<1> QED BY <1>1, <1>3, RefreshedCopies

LEMMA WordsCopies ==
  ASSUME CopiesInv,
         UNCHANGED <<macros, excluded, choices, bar, windows, checkbox, recorder>>,
         RefreshWords, Save
  PROVE  CopiesInv'
<1>1. /\ UNCHANGED <<macros, excluded, windows, language, bar, mode, checkbox, recorder>>
      /\ stored' = Live' /\ RefreshListCounts
      /\ rows' = IF Built("words") THEN [rows EXCEPT !.words = words'] ELSE rows
  BY DEF choices, RefreshWords, Save
<1>2. DOMAIN rows = {"macros", "words", "apps"} /\ (Built("macros") => rows.macros = macros)
  BY DEF CopiesInv, Shapes, CopiesAreCurrent, RowsAreLive
<1>3. /\ DOMAIN rows' = DOMAIN rows
      /\ Built("macros") => rows'.macros = macros'
      /\ Built("words") => rows'.words = words'
  BY <1>1, <1>2
<1> QED BY <1>1, <1>3, RefreshedCopies

(* The list window does not refresh the glyph; a click in it finds GlowKey  *)
(* itself in front, and the glyph is drawn again when it leaves.            *)
LEMMA AppsCopies ==
  ASSUME CopiesInv, NEW a, AddApp(a) \/ RemoveApp(a)
  PROVE  CopiesInv'
<1>1. /\ UNCHANGED <<macros, words, windows, language, bar, mode, checkbox, recorder>>
      /\ stored' = Live' /\ RefreshListCounts
      /\ rows' = IF Built("excluded") THEN [rows EXCEPT !.apps = excluded'] ELSE rows
      /\ front = Own
  BY DEF AddApp, RemoveApp, ExcludedInWindow, RefreshList, Save, choices, At
<1>2. /\ DOMAIN rows = {"macros", "words", "apps"}
      /\ Built("macros") => rows.macros = macros
      /\ Built("words") => rows.words = words
  BY DEF CopiesInv, Shapes, CopiesAreCurrent, RowsAreLive
<1>3. /\ DOMAIN rows' = DOMAIN rows
      /\ Built("macros") => rows'.macros = macros'
      /\ Built("words") => rows'.words = words'
  BY <1>1, <1>2
<1> QED BY <1>1, <1>3, RefreshedCopies

LEMMA ListStepsCopies ==
  ASSUME CopiesInv,
         \/ \E m \in Entries : AddMacro(m)
         \/ \E i \in 1 .. MaxMacros : RemoveMacro(i)
         \/ \E table \in Tables, replace \in BOOLEAN : ImportMacros(table, replace)
         \/ \E k \in Words, verdict \in Verdicts : AddWord(k, verdict) \/ CorrectByHotkey(k, verdict)
         \/ \E k \in Words : FlipWord(k) \/ RemoveWord(k)
         \/ \E a \in Apps \cup {Own} : AddApp(a) \/ RemoveApp(a)
  PROVE  CopiesInv'
<1>1. CASE \/ \E m \in Entries : AddMacro(m)
           \/ \E i \in 1 .. MaxMacros : RemoveMacro(i)
           \/ \E table \in Tables, replace \in BOOLEAN : ImportMacros(table, replace)
  BY <1>1, MacrosCopies DEF AddMacro, RemoveMacro, ImportMacros
<1>2. CASE \/ \E k \in Words, verdict \in Verdicts :
                AddWord(k, verdict) \/ CorrectByHotkey(k, verdict)
           \/ \E k \in Words : FlipWord(k) \/ RemoveWord(k)
  BY <1>2, WordsCopies DEF AddWord, CorrectByHotkey, FlipWord, RemoveWord, WordsChanged,
     PersonalWordsChanged
<1>3. CASE \E a \in Apps \cup {Own} : AddApp(a) \/ RemoveApp(a)
  BY <1>3, AppsCopies
<1> QED BY <1>1, <1>2, <1>3

(* What leaves windows, lists and counts alone: the menu bar, the controls, *)
(* the fields of the macros window.                                         *)
LEMMA InPlaceCopies ==
  ASSUME CopiesInv, UNCHANGED <<windows, language, macros, words, rows, counts>>,
         recording' \in BOOLEAN, stored' = Live', ControlsAgree',
         GlyphTellsTheState'
  PROVE  CopiesInv'
<1>1. Shapes' /\ WindowsSpeakTheLanguage' /\ RowsAreLive' /\ CountsTrackTheLists'
  BY DEF CopiesInv, CopiesAreCurrent, Shapes, WindowsSpeakTheLanguage, Built, RowsAreLive,
     CountsTrackTheLists
<1> QED BY <1>1 DEF CopiesInv, CopiesAreCurrent

LEMMA InPlaceStepsCopies ==
  ASSUME CopiesInv,
         \/ \E i \in 1 .. MaxMacros : EditMacro(i)
         \/ CancelMacroEdit
         \/ \E a \in Apps \cup {Own} : AppDidActivate(a) \/ MissedActivation(a)
         \/ RefreshFrontmostIfIdle
         \/ ToggleMode \/ ToggleCurrentApp \/ ToggleAutoFix \/ AutoFixChanged
         \/ RestChanged
         \/ \E h \in Presets : PresetChosen(h)
         \/ RecorderArmed
         \/ \E h \in Recorded \cup {hotkey} : RecordingEnds(h)
         \/ UNCHANGED vars
  PROVE  CopiesInv'
<1>1. /\ stored = Live /\ GlyphTellsTheState
      /\ dependent = box /\ (label = "prompt" => recording) /\ recording \in BOOLEAN
  BY DEF CopiesInv, CopiesAreCurrent, ControlsAgree, Shapes
<1>2. ASSUME UNCHANGED <<bar, mode, excluded>> PROVE GlyphTellsTheState'
  <2>1. UNCHANGED <<front, app, glyph, missed, mode, excluded>>
    BY <1>2 DEF bar
  <2> QED BY <1>1, <2>1 DEF GlyphTellsTheState
<1>3. CASE (\E i \in 1 .. MaxMacros : EditMacro(i)) \/ CancelMacroEdit \/ UNCHANGED vars
  <2>1. UNCHANGED <<lists, choices, stored, bar, windows, rows, counts, checkbox, recorder>>
    BY <1>3 DEF EditMacro, CancelMacroEdit, vars
  <2> QED BY <1>1, <1>2, <2>1, InPlaceCopies DEF lists, choices, checkbox, recorder, Live,
             ControlsAgree
<1>4. CASE \E a \in Apps \cup {Own} : AppDidActivate(a)
  <2>1. PICK a \in Apps \cup {Own} : AppDidActivate(a)
    BY <1>4
  <2>2. /\ UNCHANGED <<windows, lists, choices, rows, counts, checkbox, stored>>
        /\ recording' \in BOOLEAN /\ (label' = "prompt" => recording')
        /\ front' = a /\ app' = a /\ glyph' = GlyphOf(mode', app', excluded')
    BY <1>1, <2>1 DEF AppDidActivate, UpdateGlyph
  <2>3. GlyphTellsTheState'
    BY <2>2, GlyphOfMode DEF GlyphTellsTheState
  <2> QED BY <1>1, <2>2, <2>3, InPlaceCopies DEF lists, choices, checkbox, Live, ControlsAgree
<1>5. CASE (\E a \in Apps \cup {Own} : MissedActivation(a)) \/ RefreshFrontmostIfIdle
  <2>1. UNCHANGED <<windows, lists, choices, rows, counts, checkbox, recorder, stored, glyph>>
    BY <1>5 DEF MissedActivation, RefreshFrontmostIfIdle
  <2>2. GlyphTellsTheState'
    BY <1>1, <1>5, <2>1 DEF GlyphTellsTheState, MissedActivation, RefreshFrontmostIfIdle,
       lists, choices
  <2> QED BY <1>1, <2>1, <2>2, InPlaceCopies DEF lists, choices, checkbox, recorder, Live,
             ControlsAgree
<1>6. CASE ToggleMode \/ ToggleCurrentApp
  <2>1. /\ UNCHANGED <<windows, language, macros, words, rows, counts, checkbox, recorder, front>>
        /\ stored' = Live' /\ glyph' = GlyphOf(mode', app', excluded')
        /\ ~missed' => app' = front
    BY <1>1, <1>6 DEF ToggleMode, ToggleCurrentApp, UpdateGlyph, Save, lists, choices,
       GlyphTellsTheState
  <2>2. GlyphTellsTheState'
    BY <2>1, GlyphOfMode DEF GlyphTellsTheState
  <2> QED BY <1>1, <2>1, <2>2, InPlaceCopies DEF checkbox, recorder, ControlsAgree
<1>7. CASE ToggleAutoFix \/ RestChanged
  <2>1. /\ UNCHANGED <<lists, mode, language, bar, windows, rows, counts, checkbox, recorder>>
        /\ stored' = Live'
    BY <1>7 DEF ToggleAutoFix, RestChanged, Save
  <2> QED BY <1>1, <1>2, <2>1, InPlaceCopies DEF lists, checkbox, recorder, ControlsAgree
<1>8. CASE AutoFixChanged
  <2>1. /\ UNCHANGED <<lists, mode, language, bar, windows, rows, counts, recorder>>
        /\ stored' = Live' /\ dependent' = box'
    BY <1>8 DEF AutoFixChanged, RefreshDependents, Save
  <2> QED BY <1>1, <1>2, <2>1, InPlaceCopies DEF lists, recorder, ControlsAgree
<1>9. CASE (\E h \in Presets : PresetChosen(h)) \/ (\E h \in Recorded \cup {hotkey} : RecordingEnds(h))
  <2>1. /\ UNCHANGED <<lists, mode, language, bar, windows, rows, counts, checkbox>>
        /\ recording' \in BOOLEAN /\ label' = "current" /\ stored' = Live'
    BY <1>1, <1>9 DEF PresetChosen, RecordingEnds, HotkeyRecordingDone, RefreshHotkeyUi, Save
  <2> QED BY <1>1, <1>2, <2>1, InPlaceCopies DEF lists, checkbox, ControlsAgree
<1>10. CASE RecorderArmed
  <2>1. /\ UNCHANGED <<lists, choices, stored, bar, windows, rows, counts, checkbox>>
        /\ recording' = TRUE /\ label' = "prompt"
    BY <1>10 DEF RecorderArmed
  <2> QED BY <1>1, <1>2, <2>1, InPlaceCopies DEF lists, choices, checkbox, Live, ControlsAgree
<1> QED BY <1>3, <1>4, <1>5, <1>6, <1>7, <1>8, <1>9, <1>10

LEMMA CopiesNext ==
  ASSUME CopiesInv, [Next]_vars
  PROVE  CopiesInv'
<1>1. CASE ShowSettings
  BY <1>1, ShowSettingsCopies
<1>2. CASE \/ ShowAbout \/ ManageMacros \/ ManagePersonalWords \/ ManageExcludedApps
           \/ \E w \in Windows : CloseWindow(w)
  BY <1>2, WindowStepsCopies
<1>3. CASE \E l \in Languages : LanguageChanged(l)
  BY <1>3, LanguageCopies
<1> QED BY <1>1, <1>2, <1>3, ListStepsCopies, InPlaceStepsCopies DEF Next

LEMMA CopiesAlways == Spec => []CopiesInv
BY CopiesInit, CopiesNext, PTL DEF Spec

(* The file, the rows, the counts and the controls are never left behind by *)
(* what they copy, in any order of clicks, menus and keys (refresh_macros,  *)
(* personal_words_changed, refresh_list_counts, refresh_dependents,         *)
(* hotkey_recording_done, save_settings).                                   *)
THEOREM NothingGoesStale == Spec => []CopiesAreCurrent
<1>1. CopiesInv => CopiesAreCurrent
  BY DEF CopiesInv
<1> QED BY <1>1, CopiesAlways, PTL

(* A change of language reaches every window that is built, whether it was  *)
(* rebuilt at once or is left to be built again (rebuild_windows).          *)
THEOREM OneLanguage == Spec => []WindowsSpeakTheLanguage
<1>1. CopiesInv => WindowsSpeakTheLanguage
  BY DEF CopiesInv
<1> QED BY <1>1, CopiesAlways, PTL

(* However applications are switched, told or not, and whatever is added to *)
(* and taken from the list, GlowKey included: once the glyph was drawn for  *)
(* the switch it tells the mode and whether the application in front is     *)
(* excluded, except that in front of its own windows GlowKey's glyph tells  *)
(* the mode only (menu_bar.rs, update_glyph; prefs/mod.rs, add_app).        *)
THEOREM GlyphIsRight == Spec => []GlyphTellsTheState
<1>1. CopiesInv => GlyphTellsTheState
  BY DEF CopiesInv
<1> QED BY <1>1, CopiesAlways, PTL
=============================================================================
