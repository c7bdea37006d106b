--------------------------- MODULE SequenceFacts ---------------------------
(***************************************************************************)
(* What the proofs about sequences and folds keep needing, for every set   *)
(* of elements.  A folded operation is given as a function: the provers do *)
(* not instantiate a theorem that is about an operator.                    *)
(***************************************************************************)
EXTENDS SequenceTheorems, FiniteSetTheorems, NaturalsInduction, WellFoundedInduction, TLAPS

(* A set of naturals that is not empty has a least element.                 *)
LEMMA LeastNatural ==
  ASSUME NEW T, T \subseteq Nat, T # {}
  PROVE  \E x \in T : \A y \in T : x <= y
<1>1. PICK x \in T : \A y \in T : ~(<<y, x>> \in OpToRel(<, Nat))
  BY NatLessThanWellFounded, WFMin, Zenon
<1>2. ASSUME NEW y \in T PROVE x <= y
  <2>1. y \in Nat /\ x \in Nat
    OBVIOUS
  <2>2. <<y, x>> \in Nat \X Nat
    BY <2>1
  <2>3. ~(<<y, x>>[1] < <<y, x>>[2])
    BY <1>1, <2>2, Zenon DEF OpToRel
  <2> QED BY <2>1, <2>3
<1> QED BY <1>2

(* A set of naturals that has 0 and every successor of its members has all  *)
(* of them.                                                                 *)
LEMMA AllNaturals ==
  ASSUME NEW T, 0 \in T, \A n \in Nat : n \in T => n + 1 \in T
  PROVE  \A n \in Nat : n \in T
<1> SUFFICES ASSUME NEW k \in Nat, k \notin T PROVE FALSE
  OBVIOUS
<1>1. PICK x \in Nat \ T : \A y \in Nat \ T : x <= y
  BY LeastNatural, Zenon
<1>2. x - 1 \in Nat
  BY <1>1
<1>3. x - 1 \in T
  BY <1>1, <1>2
<1> QED BY <1>1, <1>2, <1>3

(* The same up to n.                                                        *)
LEMMA AllUpTo ==
  ASSUME NEW n \in Nat, NEW T, 0 \in T,
         \A k \in 1..n : k - 1 \in T => k \in T
  PROVE  \A k \in 0..n : k \in T
<1> DEFINE U == {k \in Nat : k <= n => k \in T}
<1>1. 0 \in U
  OBVIOUS
<1>2. ASSUME NEW k \in Nat, k \in U PROVE k + 1 \in U
  <2>1. SUFFICES ASSUME k + 1 <= n PROVE k + 1 \in T
    BY <1>2
  <2>2. k \in T /\ k + 1 \in 1..n /\ (k + 1) - 1 = k
    BY <1>2, <2>1
  <2> QED BY <2>2
<1>3. \A k \in Nat : k \in U
  <2> HIDE DEF U
  <2> QED BY <1>1, <1>2, AllNaturals
<1> QED BY <1>3

(* A set of positions that is not empty has a last one.                     *)
LEMMA LastPosition ==
  ASSUME NEW n \in Nat, NEW S, S \subseteq 1..n, S # {}
  PROVE  \E i \in S : \A j \in S : i >= j
<1> DEFINE T == {n - i : i \in S}
<1>1. T \subseteq Nat /\ T # {}
  <2>1. \A i \in S : n - i \in Nat
    OBVIOUS
  <2> QED BY <2>1
<1>2. PICK x \in T : \A y \in T : x <= y
  BY <1>1, LeastNatural, Zenon
<1>3. PICK i \in S : x = n - i
  BY <1>2
<1>4. \A j \in S : j <= i
  BY <1>2, <1>3
<1> QED BY <1>4

(* Part of a sequence.                                                      *)
LEMMA SliceProperties ==
  ASSUME NEW S, NEW w \in Seq(S), NEW from \in 1..(Len(w) + 1),
         NEW to \in (from - 1)..Len(w)
  PROVE  /\ SubSeq(w, from, to) \in Seq(S)
         /\ Len(SubSeq(w, from, to)) = to - from + 1
         /\ \A i \in 1..(to - from + 1) : SubSeq(w, from, to)[i] = w[from + i - 1]
<1>1. Len(w) \in Nat
  BY LenProperties
<1>2. from \in Int /\ to \in Int
  BY <1>1
<1>3. \A i \in from..to : w[i] \in S
  BY <1>1, ElementOfSeq
<1>4. /\ SubSeq(w, from, to) \in Seq(S)
      /\ Len(SubSeq(w, from, to)) = IF from <= to THEN to - from + 1 ELSE 0
      /\ \A i \in 1..(to - from + 1) : SubSeq(w, from, to)[i] = w[from + i - 1]
  BY <1>2, <1>3, SubSeqProperties
<1> QED BY <1>1, <1>2, <1>4
-----------------------------------------------------------------------------
(* A fold over a finite set, in the order `pick` gives, is the value of a   *)
(* function on its subsets, as the operators of the community modules       *)
(* define it.                                                               *)
FoldsOver(iter, D, base, G, pick) ==
  \A s \in SUBSET D :
    iter[s] = IF s = {} THEN base ELSE G[<<iter[s \ {pick[s]}], pick[s]>>]

LEMMA FoldExists ==
  ASSUME NEW D, IsFiniteSet(D), NEW A, NEW base \in A, NEW G \in [A \X D -> A],
         NEW pick \in [(SUBSET D) \ {{}} -> D],
         \A s \in (SUBSET D) \ {{}} : pick[s] \in s
  PROVE  \E iter \in [SUBSET D -> A] : FoldsOver(iter, D, base, G, pick)
<1> DEFINE Small(k) == {s \in SUBSET D : Cardinality(s) <= k}
           Folds(h, s) == h[s] = IF s = {} THEN base ELSE G[<<h[s \ {pick[s]}], pick[s]>>]
           T == {k \in Nat : \E h \in [Small(k) -> A] : \A s \in Small(k) : Folds(h, s)}
<1>1. \A s \in SUBSET D : IsFiniteSet(s) /\ Cardinality(s) \in Nat
                          /\ Cardinality(s) <= Cardinality(D)
  BY FS_Subset, FS_CardinalityType
<1>2. ASSUME NEW k \in Nat, NEW s \in Small(k + 1), s # {}
      PROVE  /\ s \ {pick[s]} \in Small(k)
             /\ pick[s] \in D
  <2>1. pick[s] \in s
    BY <1>2
  <2>2. Cardinality(s \ {pick[s]}) = Cardinality(s) - 1
    BY <1>1, <2>1, FS_RemoveElement
  <2>3. Cardinality(s \ {pick[s]}) <= k
    BY <1>1, <2>2
  <2> QED BY <2>1, <2>3
<1>3. ASSUME NEW k \in Nat, NEW s \in Small(k) PROVE s \in Small(k + 1)
  BY <1>1
<1>4. 0 \in T
  <2>1. \A s \in Small(0) : s = {}
    BY <1>1, FS_EmptySet
  <2>2. [s \in Small(0) |-> base] \in [Small(0) -> A]
    OBVIOUS
  <2>3. \A s \in Small(0) : Folds([x \in Small(0) |-> base], s)
    BY <2>1
  <2> QED BY <2>2, <2>3
<1>5. ASSUME NEW k \in Nat, k \in T PROVE k + 1 \in T
  <2>1. PICK h \in [Small(k) -> A] : \A s \in Small(k) : Folds(h, s)
    BY <1>5
  <2> DEFINE g == [s \in Small(k + 1) |->
                     IF s = {} THEN base ELSE G[<<h[s \ {pick[s]}], pick[s]>>]]
  <2>2. g \in [Small(k + 1) -> A]
    <3>1. ASSUME NEW s \in Small(k + 1), s # {}
          PROVE  G[<<h[s \ {pick[s]}], pick[s]>>] \in A
      <4>1. h[s \ {pick[s]}] \in A /\ pick[s] \in D
        BY <1>2, <3>1
      <4> QED BY <4>1
    <3> HIDE DEF Small
    <3> QED BY <3>1
  <2>3. \A s \in Small(k) : g[s] = h[s]
    BY <1>3, <2>1
  <2>4. ASSUME NEW s \in Small(k + 1) PROVE Folds(g, s)
    <3>1. CASE s = {}
      BY <2>4, <3>1
    <3>2. CASE s # {}
      <4>1. s \ {pick[s]} \in Small(k)
        BY <1>2, <3>2
      <4>2. g[s \ {pick[s]}] = h[s \ {pick[s]}]
        BY <2>3, <4>1
      <4>3. g[s] = G[<<h[s \ {pick[s]}], pick[s]>>]
        BY <2>4, <3>2
      <4> HIDE DEF g
      <4> QED BY <3>2, <4>2, <4>3
    <3> QED BY <3>1, <3>2
  <2> HIDE DEF g, Small, Folds
  <2> QED BY <2>2, <2>4
<1>6. Cardinality(D) \in T
  <2> HIDE DEF T
  <2> QED BY <1>4, <1>5, AllNaturals, FS_CardinalityType
<1>7. Small(Cardinality(D)) = SUBSET D
  BY <1>1
<1> QED BY <1>6, <1>7 DEF FoldsOver

(* The last of some positions, and a fold from the left, which takes that   *)
(* one off in every step: it has a value on every initial segment.          *)
LastIn(s) == CHOOSE i \in s : \A j \in s : i >= j

LEMMA InitialSegments ==
  ASSUME NEW n \in Nat
  PROVE  /\ 1..0 = {}
         /\ \A k \in 1..n : /\ LastIn(1..k) = k
                            /\ 1..k # {} /\ (1..k) \ {k} = 1..(k - 1)
                            /\ 1..k \subseteq 1..n
<1>1. ASSUME NEW k \in 1..n PROVE LastIn(1..k) = k
  <2>1. k \in 1..k /\ \A j \in 1..k : k >= j
    OBVIOUS
  <2>2. LastIn(1..k) \in 1..k /\ \A j \in 1..k : LastIn(1..k) >= j
    BY <2>1 DEF LastIn
  <2> QED BY <2>1, <2>2
<1> QED BY <1>1

FoldsFromLeft(iter, n, base, G) ==
  \A s \in SUBSET (1..n) :
    iter[s] = IF s = {} THEN base ELSE G[<<iter[s \ {LastIn(s)}], LastIn(s)>>]

LEMMA LeftFoldExists ==
  ASSUME NEW n \in Nat, NEW A, NEW base \in A, NEW G \in [A \X (1..n) -> A]
  PROVE  \E iter \in [SUBSET (1..n) -> A] : FoldsFromLeft(iter, n, base, G)
<1> DEFINE D == 1..n
           pick == [s \in (SUBSET D) \ {{}} |-> LastIn(s)]
<1>1. \A s \in (SUBSET D) \ {{}} : LastIn(s) \in s
  BY LastPosition DEF LastIn
<1>2. /\ pick \in [(SUBSET D) \ {{}} -> D]
      /\ \A s \in (SUBSET D) \ {{}} : pick[s] \in s
  BY <1>1
<1>3. IsFiniteSet(D) /\ G \in [A \X D -> A]
  BY FS_Interval
<1>4. \E iter \in [SUBSET D -> A] : FoldsOver(iter, D, base, G, pick)
  <2> HIDE DEF pick, D
  <2> QED BY <1>2, <1>3, FoldExists
<1> QED BY <1>4 DEF FoldsOver, FoldsFromLeft

(* A step taken n times over: the function that says where one is after     *)
(* each of them.                                                            *)
Steps(f, n, base, step) ==
  f[0] = base /\ \A k \in 1..n : f[k] = step[f[k - 1]]

LEMMA StepsExist ==
  ASSUME NEW n \in Nat, NEW A, NEW base \in A, NEW step \in [A -> A]
  PROVE  \E f \in [0..n -> A] : Steps(f, n, base, step)
<1> DEFINE T == {k \in Nat : \E f \in [0..k -> A] : Steps(f, k, base, step)}
<1>1. 0 \in T
  <2>1. [i \in 0..0 |-> base] \in [0..0 -> A]
    OBVIOUS
  <2>2. Steps([i \in 0..0 |-> base], 0, base, step)
    BY DEF Steps
  <2> QED BY <2>1, <2>2
<1>2. ASSUME NEW k \in Nat, k \in T PROVE k + 1 \in T
  <2>1. PICK f \in [0..k -> A] : Steps(f, k, base, step)
    BY <1>2
  <2> DEFINE g == [i \in 0..(k + 1) |-> IF i = k + 1 THEN step[f[k]] ELSE f[i]]
  <2>2. f[k] \in A /\ step[f[k]] \in A
    OBVIOUS
  <2>3. g \in [0..(k + 1) -> A]
    BY <2>2
  <2>4. g[0] = base
    BY <2>1 DEF Steps
  <2>5. ASSUME NEW i \in 1..(k + 1) PROVE g[i] = step[g[i - 1]]
    <3>1. g[i - 1] = f[i - 1]
      OBVIOUS
    <3>2. CASE i = k + 1
      <4>1. g[i] = step[f[k]] /\ i - 1 = k
        BY <3>2
      <4> HIDE DEF g
      <4> QED BY <3>1, <4>1
    <3>3. CASE i # k + 1
      <4>1. i \in 1..k /\ g[i] = f[i]
        BY <3>3
      <4>2. f[i] = step[f[i - 1]]
        BY <2>1, <4>1 DEF Steps
      <4> HIDE DEF g
      <4> QED BY <3>1, <4>1, <4>2
    <3> QED BY <3>2, <3>3
  <2> HIDE DEF g
  <2>6. Steps(g, k + 1, base, step)
    BY <2>4, <2>5 DEF Steps
  <2> QED BY <2>3, <2>6
<1>3. n \in T
  <2> HIDE DEF T
  <2> QED BY <1>1, <1>2, AllNaturals
<1> QED BY <1>3

-----------------------------------------------------------------------------
(* The sum of a sequence of naturals, by its partial sums.                  *)
PartialSums(sums, q) ==
  sums[0] = 0 /\ \A k \in 1..Len(q) : sums[k] = sums[k - 1] + q[k]

IsSum(q, total) == \E sums : PartialSums(sums, q) /\ total = sums[Len(q)]

LEMMA PartialSumsAreNaturals ==
  ASSUME NEW q \in Seq(Nat), NEW sums, PartialSums(sums, q)
  PROVE  \A k \in 0..Len(q) : sums[k] \in Nat
<1> DEFINE T == {k \in 0..Len(q) : sums[k] \in Nat}
           n == Len(q)
<1>1. n \in Nat /\ \A k \in 1..n : q[k] \in Nat
  OBVIOUS
<1>2. 0 \in T
  BY <1>1 DEF PartialSums
<1>3. ASSUME NEW k \in 1..n, k - 1 \in T PROVE k \in T
  BY <1>1, <1>3, SMTT(20) DEF PartialSums
<1>4. \A k \in 0..n : k \in T
  <2> HIDE DEF T, n
  <2> QED BY <1>1, <1>2, <1>3, AllUpTo
<1> QED BY <1>4

LEMMA SumIsANatural ==
  ASSUME NEW q \in Seq(Nat), NEW total, IsSum(q, total)
  PROVE  total \in Nat
<1>1. PICK sums : PartialSums(sums, q) /\ total = sums[Len(q)]
  BY DEF IsSum
<1>2. Len(q) \in Nat /\ Len(q) \in 0..Len(q)
  OBVIOUS
<1> QED BY <1>1, <1>2, PartialSumsAreNaturals

(* There is one.                                                            *)
LEMMA SumIsUnique ==
  ASSUME NEW q \in Seq(Nat), NEW one, NEW other, IsSum(q, one), IsSum(q, other)
  PROVE  one = other
<1> DEFINE n == Len(q)
<1>1. PICK f : PartialSums(f, q) /\ one = f[n]
  BY DEF IsSum
<1>2. PICK g : PartialSums(g, q) /\ other = g[n]
  BY DEF IsSum
<1> DEFINE T == {k \in 0..n : f[k] = g[k]}
<1>3. n \in Nat
  OBVIOUS
<1>4. 0 \in T
  BY <1>1, <1>2, <1>3 DEF PartialSums
<1>5. ASSUME NEW k \in 1..n, k - 1 \in T PROVE k \in T
  BY <1>1, <1>2, <1>3, <1>5 DEF PartialSums
<1>6. \A k \in 0..n : k \in T
  <2> HIDE DEF T, n
  <2> QED BY <1>3, <1>4, <1>5, AllUpTo
<1> QED BY <1>1, <1>2, <1>3, <1>6

LEMMA SumOfNone == IsSum(<<>>, 0)
<1>1. PartialSums([k \in 0..0 |-> 0], <<>>)
  BY DEF PartialSums
<1>2. [k \in 0..0 |-> 0][Len(<<>>)] = 0
  OBVIOUS
<1> QED BY <1>1, <1>2 DEF IsSum

(* One more at the end adds, one less at the front takes away.              *)
LEMMA SumOfMore ==
  ASSUME NEW q \in Seq(Nat), NEW total, IsSum(q, total), NEW x \in Nat
  PROVE  IsSum(Append(q, x), total + x)
<1> DEFINE n == Len(q)
           longer == Append(q, x)
<1>1. PICK f : PartialSums(f, q) /\ total = f[n]
  BY DEF IsSum
<1>2. n \in Nat /\ Len(longer) = n + 1 /\ longer[n + 1] = x
      /\ \A k \in 1..n : longer[k] = q[k]
  BY AppendProperties
<1> DEFINE g == [k \in 0..(n + 1) |-> IF k = n + 1 THEN total + x ELSE f[k]]
<1> HIDE DEF n, longer
<1>3. g[0] = 0
  BY <1>1, <1>2 DEF PartialSums, n
<1>4. ASSUME NEW k \in 1..(n + 1) PROVE g[k] = g[k - 1] + longer[k]
  <2>1. CASE k = n + 1
    BY <1>1, <1>2, <2>1
  <2>2. CASE k \in 1..n
    <3>1. f[k] = f[k - 1] + q[k]
      BY <1>1, <2>2 DEF PartialSums, n
    <3>2. g[k] = f[k] /\ g[k - 1] = f[k - 1]
      BY <1>2, <2>2
    <3> QED BY <1>2, <2>2, <3>1, <3>2
  <2> QED BY <1>2, <2>1, <2>2
<1>5. g[n + 1] = total + x
  BY <1>2
<1> HIDE DEF g
<1>6. PartialSums(g, longer)
  BY <1>2, <1>3, <1>4 DEF PartialSums
<1> QED BY <1>2, <1>5, <1>6 DEF IsSum, longer

LEMMA SumOfRest ==
  ASSUME NEW q \in Seq(Nat), q # <<>>, NEW total, IsSum(q, total)
  PROVE  IsSum(Tail(q), total - q[1])
<1> DEFINE n == Len(q)
           rest == Tail(q)
<1>1. PICK f : PartialSums(f, q) /\ total = f[n]
  BY DEF IsSum
<1>2. /\ n \in Nat \ {0} /\ Len(rest) = n - 1 /\ q[1] \in Nat
      /\ \A k \in 1..(n - 1) : rest[k] = q[k + 1] /\ q[k + 1] \in Nat
  BY EmptySeq
<1>3. \A k \in 0..n : f[k] \in Nat
  BY <1>1, PartialSumsAreNaturals
<1> DEFINE g == [k \in 0..(n - 1) |-> f[k + 1] - q[1]]
<1> HIDE DEF n, rest
<1>4. f[0] = 0 /\ \A k \in 1..n : f[k] = f[k - 1] + q[k]
  BY <1>1 DEF PartialSums, n
<1>5. g[0] = 0
  BY <1>2, <1>3, <1>4
<1>6. ASSUME NEW k \in 1..(n - 1) PROVE g[k] = g[k - 1] + rest[k]
  <2>1. /\ k \in 0..(n - 1) /\ k - 1 \in 0..(n - 1) /\ (k - 1) + 1 = k /\ (k + 1) - 1 = k
        /\ k \in 0..n /\ k + 1 \in 1..n
    BY <1>2
  <2>2. g[k] = f[k + 1] - q[1] /\ g[k - 1] = f[k] - q[1]
    BY <2>1
  <2>3. f[k + 1] = f[k] + q[k + 1] /\ f[k] \in Nat
    BY <1>3, <1>4, <2>1
  <2>4. rest[k] = q[k + 1] /\ q[k + 1] \in Nat /\ q[1] \in Nat
    BY <1>2
  <2> HIDE DEF g
  <2> QED BY <2>2, <2>3, <2>4
<1>7. g[n - 1] = total - q[1]
  BY <1>1, <1>2
<1> HIDE DEF g
<1>8. PartialSums(g, rest)
  BY <1>2, <1>5, <1>6 DEF PartialSums
<1> QED BY <1>2, <1>7, <1>8 DEF IsSum, rest

(* A sum that takes the elements in any order, one chosen from those left:  *)
(* whichever is taken off first, the rest is what remains.                  *)
SumsOver(iter, q) ==
  \A s \in SUBSET DOMAIN q :
    iter[s] = IF s = {} THEN 0
              ELSE LET x == CHOOSE x \in s : TRUE IN q[x] + iter[s \ {x}]

LEMMA SumExists ==
  ASSUME NEW q \in Seq(Nat)
  PROVE  \E iter \in [SUBSET DOMAIN q -> Nat] : SumsOver(iter, q)
<1> DEFINE D == DOMAIN q
           G == [p \in Nat \X D |-> q[p[2]] + p[1]]
           pick == [s \in (SUBSET D) \ {{}} |-> CHOOSE x \in s : TRUE]
<1>1. IsFiniteSet(D) /\ \A x \in D : q[x] \in Nat
  BY FS_Interval
<1>2. /\ G \in [Nat \X D -> Nat]
      /\ pick \in [(SUBSET D) \ {{}} -> D]
      /\ \A s \in (SUBSET D) \ {{}} : pick[s] \in s
  BY <1>1
<1>3. PICK iter \in [SUBSET D -> Nat] : FoldsOver(iter, D, 0, G, pick)
  <2>1. 0 \in Nat
    OBVIOUS
  <2> HIDE DEF D, G, pick
  <2> QED BY <1>1, <1>2, <2>1, FoldExists
<1>4. ASSUME NEW s \in SUBSET D, s # {}
      PROVE  LET x == CHOOSE x \in s : TRUE IN iter[s] = q[x] + iter[s \ {x}]
  <2> DEFINE x == CHOOSE x \in s : TRUE
  <2>1. pick[s] = x /\ x \in D /\ iter[s \ {x}] \in Nat
    BY <1>2, <1>3, <1>4
  <2>2. iter[s] = G[<<iter[s \ {pick[s]}], pick[s]>>]
    BY <1>3, <1>4 DEF FoldsOver
  <2>3. G[<<iter[s \ {x}], x>>] = q[x] + iter[s \ {x}]
    <3> HIDE DEF x
    <3> QED BY <2>1
  <2> QED BY <2>1, <2>2, <2>3
<1>5. iter[{}] = 0
  BY <1>3 DEF FoldsOver
<1> QED BY <1>3, <1>4, <1>5 DEF SumsOver

LEMMA SumInAnyOrder ==
  ASSUME NEW q \in Seq(Nat), NEW iter, SumsOver(iter, q)
  PROVE  IsSum(q, iter[DOMAIN q])
<1> DEFINE D == DOMAIN q
           n == Len(q)
           Takes(s) == /\ iter[s] \in Nat
                       /\ \A x \in s : iter[s] = q[x] + iter[s \ {x}]
           T == {k \in Nat : \A s \in SUBSET D : Cardinality(s) <= k => Takes(s)}
<1>1. /\ n \in Nat /\ D = 1..n /\ IsFiniteSet(D) /\ \A x \in D : q[x] \in Nat
  BY FS_Interval
<1>2. \A s \in SUBSET D :
        /\ IsFiniteSet(s) /\ Cardinality(s) \in Nat
        /\ Cardinality(s) <= Cardinality(D)
        /\ Cardinality(s) = 0 <=> s = {}
        /\ \A x \in s : Cardinality(s \ {x}) = Cardinality(s) - 1
  BY <1>1, FS_Subset, FS_CardinalityType, FS_EmptySet, FS_RemoveElement
<1>3. 0 \in T
  <2>1. \A s \in SUBSET D : Cardinality(s) <= 0 => s = {}
    BY <1>2
  <2>2. Takes({})
    <3>1. iter[{}] = 0
      BY DEF SumsOver
    <3> QED BY <3>1
  <2> QED BY <2>1, <2>2
<1>4. ASSUME NEW k \in Nat, k \in T PROVE k + 1 \in T
  <2> SUFFICES \A s \in SUBSET D : Cardinality(s) <= k + 1 => Takes(s)
    <3> HIDE DEF Takes
    <3> QED OBVIOUS
  <2>1. SUFFICES ASSUME NEW s \in SUBSET D, Cardinality(s) <= k + 1, s # {}
                 PROVE  Takes(s)
    <3>1. Takes({})
      BY <1>2, <1>3
    <3> HIDE DEF Takes, T
    <3> QED BY <3>1
  <2>2. PICK p \in s : iter[s] = q[p] + iter[s \ {p}]
    BY <2>1 DEF SumsOver
  <2>3. ASSUME NEW x \in s PROVE Takes(s \ {x})
    <3>1. s \ {x} \in SUBSET D /\ Cardinality(s \ {x}) = Cardinality(s) - 1
      BY <1>2, <2>3
    <3>2. Cardinality(s \ {x}) <= k
      BY <1>2, <2>1, <3>1
    <3> QED BY <1>4, <3>1, <3>2
  <2>4. ASSUME NEW x \in s, x # p PROVE iter[s] = q[x] + iter[s \ {x}]
    <3>1. /\ x \in s \ {p} /\ p \in s \ {x} /\ q[x] \in Nat /\ q[p] \in Nat
          /\ (s \ {p}) \ {x} = (s \ {x}) \ {p}
      BY <1>1, <2>4
    <3> DEFINE both == (s \ {x}) \ {p}
    <3>2. iter[s \ {p}] = q[x] + iter[both]
      BY <2>3, <3>1
    <3>3. iter[s \ {x}] = q[p] + iter[both]
      BY <2>3, <3>1
    <3>4. iter[both] \in Nat
      <4>1. s \ {x} \in SUBSET D /\ Takes(s \ {x})
        BY <2>3
      <4>2. /\ both \in SUBSET D /\ Cardinality(s \ {x}) = Cardinality(s) - 1
            /\ Cardinality(both) = Cardinality(s \ {x}) - 1
        BY <1>2, <3>1, <4>1
      <4>3. Cardinality(both) <= k
        <5>1. Cardinality(s) \in Nat /\ Cardinality(both) = (Cardinality(s) - 1) - 1
          BY <1>2, <4>2
        <5> HIDE DEF both
        <5> QED BY <2>1, <5>1
      <4> QED BY <1>4, <4>2, <4>3
    <3> HIDE DEF both
    <3> QED BY <2>2, <3>1, <3>2, <3>3, <3>4
  <2>5. iter[s] \in Nat
    <3>1. iter[s \ {p}] \in Nat /\ q[p] \in Nat
      BY <1>1, <2>3
    <3> QED BY <2>2, <3>1
  <2> QED BY <2>2, <2>4, <2>5
<1>5. \A s \in SUBSET D : Takes(s)
  <2>1. \A k \in Nat : k \in T
    <3> HIDE DEF T
    <3> QED BY <1>3, <1>4, AllNaturals
  <2> QED BY <1>2, <2>1
<1> DEFINE sums == [k \in 0..n |-> iter[1..k]]
<1>6. PartialSums(sums, q)
  <2>1. sums[0] = 0
    <3>1. iter[{}] = 0
      BY DEF SumsOver
    <3>2. 1..0 = {} /\ 0 \in 0..n
      BY <1>1
    <3> QED BY <3>1, <3>2
  <2>2. ASSUME NEW k \in 1..n PROVE sums[k] = sums[k - 1] + q[k]
    <3>1. k \in 1..k /\ (1..k) \ {k} = 1..(k - 1) /\ 1..k \in SUBSET D /\ q[k] \in Nat
          /\ 1..(k - 1) \in SUBSET D
      BY <1>1
    <3>2. iter[1..k] = q[k] + iter[1..(k - 1)] /\ iter[1..(k - 1)] \in Nat
      <4> HIDE DEF D
      <4> QED BY <1>5, <3>1
    <3> QED BY <1>1, <3>1, <3>2
  <2> QED BY <2>1, <2>2 DEF PartialSums
<1>7. iter[D] = sums[Len(q)]
  BY <1>1
<1> QED BY <1>6, <1>7 DEF IsSum
=============================================================================
