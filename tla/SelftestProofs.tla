--------------------------- MODULE SelftestProofs ---------------------------
(***************************************************************************)
(* Proofs about Selftest for every tree, whatever circles its references   *)
(* make, and every job.                                                    *)
(*                                                                         *)
(* TestsInv says what the recursion of perform keeps: every device that    *)
(* has been tested or is being tested is in the report, and a call for a   *)
(* nested device waits at the test point that names it.  To it are added:  *)
(*   EntriesInv  resolveLogEntry has decided right about the part of the   *)
(*               log it has visited                                        *)
(*   BootInv     what the test of the whole tree still owes                *)
(*   AgreeInv    the calls are a path of references, and the result of a   *)
(*               reference is final unless the path leads back to it       *)
(*   TracerInv   what a device in the report refers to is in the report,   *)
(*               but for references a call has still to come to            *)
(*   TraceInv    the origin and the health, once they are set, are right   *)
(***************************************************************************)
EXTENDS Selftest, FiniteSetTheorems, SequenceTheorems, TLAPS

-----------------------------------------------------------------------------
(* Numbers                                                                 *)

\* Induction: a set of numbers that is not empty has a least one.
LEMMA SmallestOf ==
    ASSUME NEW T \in SUBSET Nat, T # {}
    PROVE  \E m \in T : \A n \in T : m <= n
<1>1. PICK top \in T : TRUE
  OBVIOUS
<1> DEFINE S == 0 .. top
           R == StrictSubsetOrdering(S)
           U == {0 .. x : x \in T \cap S}
<1>2. IsFiniteSet(S) /\ top \in Nat
  BY <1>1, FS_Interval
<1>3. IsWellFoundedOn(R, FiniteSubsetsOf(S))
  BY FS_StrictSubsetOrderingWellFounded
<1>4. U \subseteq FiniteSubsetsOf(S) /\ U # {}
  <2>1. ASSUME NEW x \in T \cap S PROVE IsFiniteSet(0 .. x) /\ 0 .. x \subseteq S
    BY <1>2, FS_Interval
  <2>2. top \in T \cap S
    BY <1>1
  <2> QED BY <2>1, <2>2 DEF FiniteSubsetsOf
<1>5. \E u \in U : \A v \in U : ~(<<v, u>> \in R)
  <2> HIDE DEF U, R, S
  <2> QED BY <1>3, <1>4, WFMin
<1>6. PICK m \in T \cap S : \A x \in T \cap S : ~(<<0 .. x, 0 .. m>> \in R)
  BY <1>5
<1>7. ASSUME NEW n \in T, n < m PROVE FALSE
  <2>1. n \in S /\ 0 .. n \subseteq 0 .. m /\ m \notin 0 .. n /\ m \in 0 .. m
    BY <1>6, <1>7
  <2>2. <<0 .. n, 0 .. m>> \in R
    BY <2>1 DEF StrictSubsetOrdering
  <2> QED BY <1>6, <2>1, <2>2
<1> QED BY <1>6, <1>7

LEMMA LargestOf ==
    ASSUME NEW n \in Nat, NEW T \in SUBSET (1 .. n), T # {}
    PROVE  \E m \in T : \A l \in T : l <= m
<1> DEFINE U == {n - l : l \in T}
<1>1. U \in SUBSET Nat /\ U # {}
  <2>1. \A l \in T : l \in 1 .. n
    OBVIOUS
  <2>2. \A l \in T : n - l \in Nat
    BY <2>1
  <2>3. U \subseteq Nat
    BY <2>2
  <2>4. U # {}
    OBVIOUS
  <2> QED BY <2>3, <2>4
<1>2. PICK u \in U : \A v \in U : u <= v
  BY <1>1, SmallestOf
<1>3. PICK m \in T : u = n - m
  OBVIOUS
<1>4. \A l \in T : n - l \in U
  OBVIOUS
<1>5. \A l \in T : l \in Int /\ l <= n
  OBVIOUS
<1> HIDE DEF U
<1>6. \A l \in T : n - m <= n - l
  BY <1>2, <1>3, <1>4
<1> QED BY <1>3, <1>5, <1>6

-----------------------------------------------------------------------------
(* Sequences put together                                                  *)

\* FlattenSeq is the last of the sequences its definition builds up.
LEMMA FlattenUnfolds ==
    ASSUME NEW S, NEW n \in Nat, n > 0, NEW s \in [1 .. n -> Seq(S)]
    PROVE  \E f : /\ FlattenSeq(s) = f[n]
                  /\ f[1] = s[1]
                  /\ \A i \in 1 .. n : i # 1 => f[i] = f[i - 1] \o s[i]
<1>0. s \in Seq(Seq(S)) /\ Len(s) = n
  OBVIOUS
<1> DEFINE Is(f, m) == f = [i \in 1 .. m |-> IF i = 1 THEN s[i] ELSE f[i - 1] \o s[i]]
           T == {m \in 1 .. n : ~\E f : Is(f, m)}
           flatten == CHOOSE f : Is(f, n)
<1>1. T = {}
  <2> SUFFICES ASSUME T # {} PROVE FALSE
    OBVIOUS
  <2>1. PICK m \in T : \A l \in T : m <= l
    <3>1. T \subseteq Nat
      <4> HIDE DEF Is
      <4> QED OBVIOUS
    <3> HIDE DEF T
    <3> QED BY <3>1, SmallestOf
  <2>2. m \in 1 .. n /\ ~\E f : Is(f, m)
    BY <2>1
  <2>3. CASE m = 1
    <3> DEFINE f == [i \in 1 .. 1 |-> s[1]]
    <3>1. Is(f, 1)
      OBVIOUS
    <3> QED BY <2>2, <2>3, <3>1
  <2>4. CASE m # 1
    <3>1. m - 1 \in 1 .. n /\ m - 1 \notin T
      <4> HIDE DEF T
      <4> QED BY <2>1, <2>2, <2>4
    <3>2. PICK g : Is(g, m - 1)
      <4> HIDE DEF Is
      <4> QED BY <3>1
    <3> DEFINE f == [i \in 1 .. m |-> IF i = m THEN g[m - 1] \o s[m] ELSE g[i]]
    <3>3. ASSUME NEW i \in 1 .. m
          PROVE  f[i] = IF i = 1 THEN s[i] ELSE f[i - 1] \o s[i]
      <4>1. CASE i = m
        <5>1. i - 1 \in 1 .. m /\ i - 1 # m
          BY <2>2, <2>4, <4>1
        <5>2. f[i] = g[m - 1] \o s[m] /\ f[i - 1] = g[i - 1]
          BY <4>1, <5>1
        <5> QED BY <2>4, <4>1, <5>2
      <4>2. CASE i # m /\ i = 1
        <5>1. f[i] = g[i] /\ i \in 1 .. m - 1
          BY <2>2, <4>2
        <5>2. g[i] = s[i]
          BY <3>2, <4>2, <5>1
        <5> QED BY <4>2, <5>1, <5>2
      <4>3. CASE i # m /\ i # 1
        <5>1. /\ i \in 1 .. m - 1 /\ i - 1 \in 1 .. m /\ i - 1 # m
              /\ f[i] = g[i] /\ f[i - 1] = g[i - 1]
          BY <2>2, <4>3
        <5>2. g[i] = g[i - 1] \o s[i]
          BY <3>2, <4>3, <5>1
        <5> QED BY <4>3, <5>1, <5>2
      <4> QED BY <4>1, <4>2, <4>3
    <3>4. f = [i \in 1 .. m |-> f[i]]
      OBVIOUS
    <3>5. Is(f, m)
      <4> HIDE DEF f
      <4> QED BY <3>3, <3>4, Zenon
    <3> HIDE DEF f
    <3> QED BY <2>2, <3>5
  <2> QED BY <2>3, <2>4
<1>2. Is(flatten, n)
  <2>1. n \in 1 .. n
    OBVIOUS
  <2>2. \E f : Is(f, n)
    BY <1>1, <2>1
  <2> HIDE DEF Is
  <2> QED BY <2>2
<1>3. FlattenSeq(s) = flatten[n]
  BY <1>0 DEF FlattenSeq
<1>4. \A i \in 1 .. n : flatten[i] = IF i = 1 THEN s[i] ELSE flatten[i - 1] \o s[i]
  <2> HIDE DEF flatten
  <2> QED BY <1>2
<1>5. 1 \in 1 .. n
  OBVIOUS
<1> HIDE DEF flatten
<1> QED BY <1>3, <1>4, <1>5

LEMMA FlattenIs ==
    ASSUME NEW S, NEW n \in Nat, NEW s \in [1 .. n -> Seq(S)]
    PROVE  /\ FlattenSeq(s) \in Seq(S)
           /\ Range(FlattenSeq(s)) = UNION {Range(s[i]) : i \in 1 .. n}
<1>1. s \in Seq(Seq(S)) /\ Len(s) = n
  OBVIOUS
<1>2. CASE n = 0
  <2>1. s = <<>> /\ Range(s) = {}
    BY <1>1, <1>2 DEF Range
  <2>2. FlattenSeq(s) = s
    BY <1>1, <1>2 DEF FlattenSeq
  <2>3. UNION {Range(s[i]) : i \in 1 .. n} = {}
    BY <1>2
  <2>4. FlattenSeq(s) \in Seq(S) /\ Range(FlattenSeq(s)) = {}
    <3>1. s \in Seq(S)
      BY <2>1
    <3> QED BY <2>1, <2>2, <3>1, Zenon
  <2> QED BY <2>3, <2>4, Zenon
<1>3. CASE n > 0
  <2>2. PICK flatten : /\ FlattenSeq(s) = flatten[n]
                       /\ flatten[1] = s[1]
                       /\ \A i \in 1 .. n : i # 1 => flatten[i] = flatten[i - 1] \o s[i]
    BY <1>3, FlattenUnfolds
  <2>3. FlattenSeq(s) = flatten[n]
    BY <2>2
  <2>4. \A i \in 1 .. n : flatten[i] = IF i = 1 THEN s[i] ELSE flatten[i - 1] \o s[i]
    BY <2>2
  <2> DEFINE R(i) == UNION {Range(s[j]) : j \in 1 .. i}
             U == {i \in 1 .. n : ~(flatten[i] \in Seq(S) /\ Range(flatten[i]) = R(i))}
  <2>5. U = {}
    <3> SUFFICES ASSUME U # {} PROVE FALSE
      OBVIOUS
    <3>1. PICK m \in U : \A l \in U : m <= l
      <4> U \subseteq Nat
        OBVIOUS
      <4> HIDE DEF U
      <4> QED BY SmallestOf
    <3>2. m \in 1 .. n /\ ~(flatten[m] \in Seq(S) /\ Range(flatten[m]) = R(m))
      BY <3>1
    <3>3. CASE m = 1
      <4>1. flatten[1] = s[1] /\ s[1] \in Seq(S)
        BY <2>4, <3>2, <3>3
      <4>2. R(1) = Range(s[1])
        OBVIOUS
      <4> HIDE DEF R
      <4> QED BY <3>2, <3>3, <4>1, <4>2
    <3>4. CASE m # 1
      <4>1. m - 1 \in 1 .. n /\ m - 1 \notin U
        <5> HIDE DEF U
        <5> QED BY <3>1, <3>2, <3>4
      <4>2. flatten[m - 1] \in Seq(S) /\ Range(flatten[m - 1]) = R(m - 1)
        BY <4>1
      <4>3. flatten[m] = flatten[m - 1] \o s[m] /\ s[m] \in Seq(S)
        BY <2>4, <3>2, <3>4
      <4>4. flatten[m] \in Seq(S) /\ Range(flatten[m]) = R(m - 1) \cup Range(s[m])
        <5> HIDE DEF R
        <5>1. PICK a, b : a = flatten[m - 1] /\ b = s[m]
          OBVIOUS
        <5>2. a \in Seq(S) /\ b \in Seq(S)
          BY <4>2, <4>3, <5>1
        <5>3. a \o b \in Seq(S) /\ Range(a \o b) = Range(a) \cup Range(b)
          BY <5>2, ConcatProperties, RangeConcatenation
        <5> QED BY <4>2, <4>3, <5>1, <5>3
      <4>5. R(m) = R(m - 1) \cup Range(s[m])
        <5>1. 1 .. m = (1 .. m - 1) \cup {m}
          BY <3>2
        <5> QED BY <5>1
      <4> HIDE DEF R
      <4> QED BY <3>2, <4>4, <4>5
    <3> QED BY <3>3, <3>4
  <2>6. n \in 1 .. n /\ n \notin U
    BY <1>3, <2>5
  <2> QED BY <2>3, <2>6
<1> QED BY <1>2, <1>3

Distinct(q) == \A i, j \in DOMAIN q : q[i] = q[j] => i = j

LEMMA ConcatDistinct ==
    ASSUME NEW S, NEW a \in Seq(S), NEW b \in Seq(S), Distinct(a), Distinct(b),
           Range(a) \cap Range(b) = {}
    PROVE  Distinct(a \o b)
<1>1. /\ a \o b \in Seq(S) /\ Len(a \o b) = Len(a) + Len(b)
      /\ \A k \in 1 .. Len(a) + Len(b) :
            (a \o b)[k] = IF k <= Len(a) THEN a[k] ELSE b[k - Len(a)]
  BY ConcatProperties
<1>2. DOMAIN (a \o b) = 1 .. Len(a) + Len(b) /\ Len(a) \in Nat /\ Len(b) \in Nat
  BY <1>1
<1>3. ASSUME NEW i \in 1 .. Len(a) + Len(b)
      PROVE  \/ i \in DOMAIN a /\ (a \o b)[i] = a[i] /\ (a \o b)[i] \in Range(a)
             \/ /\ i - Len(a) \in DOMAIN b /\ (a \o b)[i] = b[i - Len(a)]
                /\ (a \o b)[i] \in Range(b)
  <2>1. CASE i <= Len(a)
    <3>1. i \in DOMAIN a /\ (a \o b)[i] = a[i]
      BY <1>1, <1>2, <2>1
    <3> QED BY <3>1 DEF Range
  <2>2. CASE ~(i <= Len(a))
    <3>1. i - Len(a) \in DOMAIN b /\ (a \o b)[i] = b[i - Len(a)]
      BY <1>1, <1>2, <2>2
    <3> QED BY <3>1 DEF Range
  <2> QED BY <2>1, <2>2
<1>4. ASSUME NEW i \in 1 .. Len(a) + Len(b), NEW j \in 1 .. Len(a) + Len(b),
             (a \o b)[i] = (a \o b)[j]
      PROVE  i = j
  <2>1. CASE i \in DOMAIN a /\ (a \o b)[i] = a[i] /\ (a \o b)[i] \in Range(a)
    <3>1. j \in DOMAIN a /\ (a \o b)[j] = a[j]
      BY <1>3, <1>4, <2>1
    <3> QED BY <1>4, <2>1, <3>1 DEF Distinct
  <2>2. CASE /\ i - Len(a) \in DOMAIN b /\ (a \o b)[i] = b[i - Len(a)]
             /\ (a \o b)[i] \in Range(b)
    <3>1. j - Len(a) \in DOMAIN b /\ (a \o b)[j] = b[j - Len(a)]
      BY <1>3, <1>4, <2>2
    <3>2. i - Len(a) = j - Len(a)
      BY <1>4, <2>2, <3>1 DEF Distinct
    <3> QED BY <1>2, <3>2
  <2> QED BY <1>3, <2>1, <2>2
<1> QED BY <1>2, <1>4 DEF Distinct

\* What is put together from sequences that share nothing repeats nothing.
LEMMA FlattenDistinct ==
    ASSUME NEW S, NEW n \in Nat, NEW s \in [1 .. n -> Seq(S)],
           \A i \in 1 .. n : Distinct(s[i]),
           \A i, j \in 1 .. n : i # j => Range(s[i]) \cap Range(s[j]) = {}
    PROVE  Distinct(FlattenSeq(s))
<1>1. CASE n = 0
  <2>1. FlattenSeq(s) \in Seq(S) /\ Range(FlattenSeq(s)) = {}
    <3>1. UNION {Range(s[i]) : i \in 1 .. n} = {}
      BY <1>1
    <3> QED BY <3>1, FlattenIs
  <2>2. DOMAIN FlattenSeq(s) = {}
    BY <2>1 DEF Range
  <2> QED BY <2>2 DEF Distinct
<1>2. CASE n > 0
  <2>1. PICK flatten : /\ FlattenSeq(s) = flatten[n]
                       /\ flatten[1] = s[1]
                       /\ \A i \in 1 .. n : i # 1 => flatten[i] = flatten[i - 1] \o s[i]
    BY <1>2, FlattenUnfolds
  <2> DEFINE R(i) == UNION {Range(s[j]) : j \in 1 .. i}
             Is(i) == /\ flatten[i] \in Seq(S) /\ Range(flatten[i]) = R(i)
                      /\ Distinct(flatten[i])
             U == {i \in 1 .. n : ~Is(i)}
  <2>2. CASE U = {}
    <3>1. n \in 1 .. n
      BY <1>2
    <3>2. Is(n)
      BY <2>2, <3>1
    <3> QED BY <2>1, <3>2
  <2>3. CASE U # {}
    <3>1. PICK m \in U : \A l \in U : m <= l
      <4> U \subseteq Nat
        OBVIOUS
      <4> HIDE DEF U
      <4> QED BY <2>3, SmallestOf
    <3>2. m \in 1 .. n /\ ~Is(m)
      BY <3>1
    <3>3. CASE m = 1
      <4>1. R(1) = Range(s[1]) /\ 1 \in 1 .. n
        BY <1>2
      <4> HIDE DEF R
      <4> QED BY <2>1, <3>2, <3>3, <4>1
    <3>4. CASE m # 1
      <4>1. m - 1 \in 1 .. n /\ m - 1 \notin U
        <5> HIDE DEF U
        <5> QED BY <3>1, <3>2, <3>4
      <4>2. Is(m - 1)
        BY <4>1
      <4>3. PICK a, b : a = flatten[m - 1] /\ b = s[m]
        OBVIOUS
      <4>4. /\ flatten[m] = a \o b /\ a \in Seq(S) /\ b \in Seq(S)
            /\ Distinct(a) /\ Distinct(b) /\ Range(a) = R(m - 1)
        <5> HIDE DEF R
        <5> QED BY <2>1, <3>2, <3>4, <4>2, <4>3
      <4>5. Range(a) \cap Range(b) = {}
        <5>1. \A j \in 1 .. m - 1 : j \in 1 .. n /\ j # m
          BY <3>2
        <5>2. \A j \in 1 .. m - 1 : Range(s[j]) \cap Range(s[m]) = {}
          BY <3>2, <5>1
        <5> QED BY <4>3, <4>4, <5>2
      <4>6. a \o b \in Seq(S) /\ Range(a \o b) = Range(a) \cup Range(b)
        BY <4>4, ConcatProperties, RangeConcatenation
      <4>7. R(m) = R(m - 1) \cup Range(s[m])
        <5>1. 1 .. m = (1 .. m - 1) \cup {m}
          BY <3>2
        <5> QED BY <5>1
      <4>8. Distinct(a \o b)
        BY <4>4, <4>5, ConcatDistinct
      <4> HIDE DEF R
      <4> QED BY <3>2, <4>3, <4>4, <4>6, <4>7, <4>8
    <3> QED BY <3>3, <3>4
  <2> QED BY <2>2, <2>3
<1> QED BY <1>1, <1>2

-----------------------------------------------------------------------------
(* What a device lists                                                     *)

LEMMA DeviceIs ==
    ASSUME NEW tree, IsDat(tree), NEW d \in DOMAIN tree
    PROVE  /\ d \in Names
           /\ tree[d].test \in Seq(TestPoints) /\ tree[d].association \in Seq(Names)
           /\ Range(tree[d].association) \subseteq Names
<1>1. tree[d] \in Devices /\ d \in Names
  BY DEF IsDat
<1>2. tree[d].test \in Seq(TestPoints) /\ tree[d].association \in Seq(Names)
  BY <1>1 DEF Devices
<1> QED BY <1>1, <1>2, RangeOfSeq

LEMMA AssociationsAre ==
    ASSUME NEW tree, IsDat(tree), NEW d \in DOMAIN tree, NEW layers, NEW found
    PROVE  LET names == getTestLayerAssociations(tree[d], layers, found)
           IN /\ names \in Seq(Names)
              /\ Range(names) = Refers(tree, d, layers) \ found
              /\ Distinct(names)
<1>1. PICK test : test = tree[d].test
  OBVIOUS
<1>2. PICK n \in Nat : n = Len(test) /\ DOMAIN test = 1 .. n /\ test \in [1 .. n -> TestPoints]
  <2>1. test \in Seq(TestPoints)
    BY <1>1, DeviceIs
  <2> QED BY <2>1
<1> DEFINE on(i) == refersOn(test[i], layers)
           known(i) == \/ test[i].nested \in found
                       \/ \E j \in 1 .. i - 1 : on(j) /\ test[j].nested = test[i].nested
           s == [i \in 1 .. n |-> IF on(i) /\ ~known(i) THEN <<test[i].nested>> ELSE <<>>]
<1>3. getTestLayerAssociations(tree[d], layers, found) = FlattenSeq(s)
  BY <1>1, <1>2 DEF getTestLayerAssociations
<1>4. ASSUME NEW i \in 1 .. n
      PROVE  /\ s[i] \in Seq(Names) /\ Distinct(s[i])
             /\ Range(s[i]) = IF on(i) /\ ~known(i) THEN {test[i].nested} ELSE {}
  <2>1. test[i] \in TestPoints
    BY <1>2
  <2>2. CASE on(i) /\ ~known(i)
    <3>1. s[i] = <<test[i].nested>> /\ test[i].nested \in Names
      BY <2>1, <2>2 DEF TestPoints, refersOn
    <3> HIDE DEF s, on, known
    <3> QED BY <2>2, <3>1 DEF Range, Distinct
  <2>3. CASE ~(on(i) /\ ~known(i))
    <3>1. s[i] = <<>>
      BY <2>3
    <3> HIDE DEF s, on, known
    <3> QED BY <2>3, <3>1 DEF Range, Distinct
  <2> HIDE DEF s, on, known
  <2> QED BY <2>2, <2>3
<1>5. s \in [1 .. n -> Seq(Names)]
  <2>1. s = [i \in 1 .. n |-> s[i]]
    OBVIOUS
  <2> HIDE DEF s
  <2> QED BY <1>4, <2>1
<1>6. ASSUME NEW i \in 1 .. n, NEW j \in 1 .. n, i < j
      PROVE  Range(s[i]) \cap Range(s[j]) = {}
  <2> SUFFICES ASSUME on(i), ~known(i), on(j), ~known(j), test[i].nested = test[j].nested
               PROVE  FALSE
    <3> HIDE DEF on, known, s
    <3> QED BY <1>4
  <2>1. i \in 1 .. j - 1
    BY <1>6
  <2> HIDE DEF on
  <2> QED BY <2>1
<1>7. \A i, j \in 1 .. n : i # j => Range(s[i]) \cap Range(s[j]) = {}
  <2> SUFFICES ASSUME NEW i \in 1 .. n, NEW j \in 1 .. n, i # j
               PROVE  Range(s[i]) \cap Range(s[j]) = {}
    OBVIOUS
  <2>1. i < j \/ j < i
    OBVIOUS
  <2> HIDE DEF s
  <2> QED BY <1>6, <2>1
<1>8. /\ FlattenSeq(s) \in Seq(Names) /\ Distinct(FlattenSeq(s))
      /\ Range(FlattenSeq(s)) = UNION {Range(s[i]) : i \in 1 .. n}
  <2> HIDE DEF s
  <2>1. \A i \in 1 .. n : Distinct(s[i])
    BY <1>4
  <2>2. Distinct(FlattenSeq(s))
    BY <1>5, <1>7, <2>1, FlattenDistinct
  <2> QED BY <1>5, <2>2, FlattenIs
<1>9. \A x : x \in Refers(tree, d, layers) <=> \E i \in 1 .. n : on(i) /\ x = test[i].nested
  BY <1>1, <1>2 DEF Refers, refersOn
<1>10. \A x : x \in UNION {Range(s[i]) : i \in 1 .. n} <=>
                 \E i \in 1 .. n : on(i) /\ ~known(i) /\ x = test[i].nested
  <2> HIDE DEF s, on, known
  <2>1. \A x : x \in UNION {Range(s[i]) : i \in 1 .. n} <=> \E i \in 1 .. n : x \in Range(s[i])
    OBVIOUS
  <2>2. \A i \in 1 .. n : \A x : x \in Range(s[i]) <=> on(i) /\ ~known(i) /\ x = test[i].nested
    BY <1>4
  <2> QED BY <2>1, <2>2
<1>11. ASSUME NEW x, x \notin found, NEW k \in 1 .. n, on(k), x = test[k].nested
       PROVE  \E i \in 1 .. n : on(i) /\ ~known(i) /\ x = test[i].nested
  <2> DEFINE T == {i \in 1 .. n : on(i) /\ x = test[i].nested}
  <2>1. PICK m \in T : \A l \in T : m <= l
    <3>1. T \subseteq Nat /\ k \in T
      BY <1>11
    <3> HIDE DEF T
    <3> QED BY <3>1, SmallestOf
  <2>2. m \in 1 .. n /\ on(m) /\ x = test[m].nested
    <3> HIDE DEF on
    <3> QED BY <2>1
  <2>3. ASSUME NEW j \in 1 .. m - 1, on(j), test[j].nested = test[m].nested PROVE FALSE
    <3> HIDE DEF on
    <3>1. j \in 1 .. n /\ j < m
      BY <2>2
    <3>2. j \in T
      BY <2>2, <2>3, <3>1
    <3> QED BY <2>1, <2>2, <3>1, <3>2
  <2> HIDE DEF on
  <2> QED BY <1>11, <2>2, <2>3
<1>12. \A i \in 1 .. n : ~known(i) => test[i].nested \notin found
  OBVIOUS
<1>13. Range(FlattenSeq(s)) = Refers(tree, d, layers) \ found
  <2> HIDE DEF s, on, known
  <2>1. ASSUME NEW x
        PROVE  x \in Range(FlattenSeq(s)) <=> x \in Refers(tree, d, layers) /\ x \notin found
    <3>1. x \in Range(FlattenSeq(s)) <=>
             \E i \in 1 .. n : on(i) /\ ~known(i) /\ x = test[i].nested
      BY <1>8, <1>10
    <3>2. CASE x \in Refers(tree, d, layers) /\ x \notin found
      BY <1>9, <1>11, <3>1, <3>2
    <3>3. ASSUME NEW i \in 1 .. n, on(i), ~known(i), x = test[i].nested
          PROVE  x \in Refers(tree, d, layers) /\ x \notin found
      BY <1>9, <1>12, <3>3
    <3> QED BY <3>1, <3>2, <3>3
  <2> QED BY <2>1
<1> HIDE DEF s
<1> QED BY <1>3, <1>8, <1>13

-----------------------------------------------------------------------------
(* References                                                              *)

LEMMA RefersToNames ==
    ASSUME NEW tree, IsDat(tree), NEW d, NEW c
    PROVE  Refers(tree, d, c) \subseteq Names
<1> SUFFICES ASSUME d \in DOMAIN tree, NEW i \in DOMAIN tree[d].test,
                    tree[d].test[i].nested # None
             PROVE  tree[d].test[i].nested \in Names
  BY DEF Refers
<1>1. tree[d].test \in Seq(TestPoints)
  BY DEF IsDat, Devices
<1>2. tree[d].test[i] \in TestPoints
  BY <1>1
<1> QED BY <1>2 DEF TestPoints

\* The equation by which Within is defined has a solution: what paths of a
\* length lead to.
LEMMA WithinUnfolds ==
    ASSUME NEW tree, IsDat(tree), NEW root \in Names, NEW c
    PROVE  /\ Within(tree, root, c, 0) = {root}
           /\ Within(tree, root, c, 1) =
                 {root} \cup Refers(tree, root, IF c = {} THEN Layers ELSE c)
           /\ \A k \in Nat : k > 1 =>
                 Within(tree, root, c, k) =
                    Within(tree, root, c, k - 1) \cup
                       UNION {Refers(tree, d, Layers) :
                                 d \in Within(tree, root, c, k - 1) \ {root}}
<1> DEFINE first == Refers(tree, root, IF c = {} THEN Layers ELSE c)
           Then(d) == Refers(tree, d, Layers)
           Rest(S) == S \cup UNION {Then(d) : d \in S \ {root}}
           Step(i, x, y) == IF i = 0 THEN y \in {root} \cup first
                            ELSE y = x \/ (x # root /\ y \in Then(x))
           IsPath(g, k, y) == /\ g[0] = root /\ g[k] = y
                              /\ \A i \in 0 .. k - 1 : Step(i, g[i], g[i + 1])
           W == [k \in Nat |-> {y \in Names : \E g \in [0 .. k -> Names] : IsPath(g, k, y)}]
           Is(f) == f = [k \in Nat |-> IF k = 0 THEN {root}
                                       ELSE IF k = 1 THEN {root} \cup first
                                       ELSE Rest(f[k - 1])]
           reach == CHOOSE f : Is(f)
<1>1. first \subseteq Names /\ \A d : Then(d) \subseteq Names
  BY RefersToNames
<1>2. W[0] = {root}
  <2>1. \A y \in W[0] : y = root
    OBVIOUS
  <2>2. root \in W[0]
    <3> DEFINE g == [i \in 0 .. 0 |-> root]
    <3>1. g \in [0 .. 0 -> Names] /\ IsPath(g, 0, root)
      OBVIOUS
    <3> QED BY <3>1
  <2> QED BY <2>1, <2>2
<1>3. ASSUME NEW k \in Nat, k > 0
      PROVE  W[k] = {y \in Names : \E x \in W[k - 1] : Step(k - 1, x, y)}
  <2> HIDE DEF Step
  <2>1. ASSUME NEW y \in W[k]
        PROVE  \E x \in W[k - 1] : Step(k - 1, x, y)
    <3>1. PICK g \in [0 .. k -> Names] : IsPath(g, k, y)
      OBVIOUS
    <3> DEFINE h == [i \in 0 .. k - 1 |-> g[i]]
    <3>2. h \in [0 .. k - 1 -> Names] /\ h[0] = root
      BY <1>3, <3>1
    <3>3. \A i \in 0 .. (k - 1) - 1 : Step(i, h[i], h[i + 1])
      <4> SUFFICES ASSUME NEW i \in 0 .. (k - 1) - 1 PROVE Step(i, h[i], h[i + 1])
        OBVIOUS
      <4>1. i \in 0 .. k - 1 /\ h[i] = g[i] /\ h[i + 1] = g[i + 1]
        BY <1>3
      <4> QED BY <3>1, <4>1
    <3>4. h[k - 1] = g[k - 1] /\ g[k - 1] \in Names
      BY <1>3
    <3>5. g[k - 1] \in W[k - 1]
      <4>1. IsPath(h, k - 1, g[k - 1])
        BY <3>2, <3>3, <3>4
      <4> HIDE DEF h, IsPath
      <4> QED BY <1>3, <3>2, <3>4, <4>1
    <3>6. Step(k - 1, g[k - 1], y)
      <4>1. k - 1 \in 0 .. k - 1 /\ (k - 1) + 1 = k
        BY <1>3
      <4> QED BY <3>1, <4>1
    <3> QED BY <3>5, <3>6
  <2>2. ASSUME NEW y \in Names, NEW x \in W[k - 1], Step(k - 1, x, y)
        PROVE  y \in W[k]
    <3>1. PICK g \in [0 .. k - 1 -> Names] : IsPath(g, k - 1, x)
      BY <1>3
    <3> DEFINE h == [i \in 0 .. k |-> IF i = k THEN y ELSE g[i]]
    <3>2. h \in [0 .. k -> Names] /\ h[0] = root /\ h[k] = y
      BY <1>3, <3>1
    <3>3. \A i \in 0 .. k - 1 : Step(i, h[i], h[i + 1])
      <4> SUFFICES ASSUME NEW i \in 0 .. k - 1 PROVE Step(i, h[i], h[i + 1])
        OBVIOUS
      <4>1. CASE i = k - 1
        <5>1. h[i] = x /\ h[i + 1] = y
          BY <1>3, <3>1, <4>1
        <5> QED BY <2>2, <4>1, <5>1
      <4>2. CASE i # k - 1
        <5>1. i \in 0 .. (k - 1) - 1 /\ h[i] = g[i] /\ h[i + 1] = g[i + 1]
          BY <1>3, <4>2
        <5> QED BY <3>1, <5>1
      <4> QED BY <4>1, <4>2
    <3>4. IsPath(h, k, y)
      BY <3>2, <3>3
    <3> HIDE DEF h, IsPath
    <3> QED BY <3>2, <3>4
  <2>3. W[k] \subseteq Names
    OBVIOUS
  <2> HIDE DEF W
  <2> QED BY <2>1, <2>2, <2>3
<1>4. W[1] = {root} \cup first
  <2>1. W[1] = {y \in Names : \E x \in W[0] : Step(0, x, y)}
    <3> HIDE DEF W, Step
    <3>1. W[1] = {y \in Names : \E x \in W[1 - 1] : Step(1 - 1, x, y)}
      BY <1>3
    <3> QED BY <3>1
  <2> HIDE DEF W, first
  <2> QED BY <1>1, <1>2, <2>1
<1>5. ASSUME NEW k \in Nat, k > 1 PROVE W[k] = Rest(W[k - 1])
  <2>1. W[k] = {y \in Names : \E x \in W[k - 1] : Step(k - 1, x, y)}
    <3> HIDE DEF W, Step
    <3> QED BY <1>3, <1>5
  <2>2. \A x, y : Step(k - 1, x, y) <=> (y = x \/ (x # root /\ y \in Then(x)))
    BY <1>5
  <2>3. W[k - 1] \subseteq Names
    BY <1>5
  <2> HIDE DEF W, Step, Then
  <2> QED BY <1>1, <2>1, <2>2, <2>3
<1>6. Is(W)
  <2>1. W = [k \in Nat |-> W[k]]
    OBVIOUS
  <2>2. ASSUME NEW k \in Nat
        PROVE  W[k] = IF k = 0 THEN {root}
                      ELSE IF k = 1 THEN {root} \cup first ELSE Rest(W[k - 1])
    <3>1. k = 0 \/ k = 1 \/ k > 1
      OBVIOUS
    <3> HIDE DEF W, first, Rest
    <3> QED BY <1>2, <1>4, <1>5, <3>1
  <2> HIDE DEF W, first, Rest
  <2> QED BY <2>1, <2>2, Zenon
<1>7. Is(reach)
  <2> HIDE DEF Is, W
  <2> QED BY <1>6
<1>8. \A k \in Nat : Within(tree, root, c, k) = reach[k]
  BY DEF Within
<1>9. /\ reach[0] = {root} /\ reach[1] = {root} \cup first
      /\ \A k \in Nat : k > 1 => reach[k] = Rest(reach[k - 1])
  <2> HIDE DEF reach, Rest, first
  <2> QED BY <1>7
<1>10. \A k \in Nat : k > 1 => k - 1 \in Nat
  OBVIOUS
<1> HIDE DEF reach
<1> QED BY <1>8, <1>9, <1>10

\* Whoever is reached stays reached, and leads on.
LEMMA WithinGrows ==
    ASSUME NEW tree, IsDat(tree), NEW root \in Names, NEW c,
           NEW k \in Nat, NEW m \in Nat, k <= m
    PROVE  Within(tree, root, c, k) \subseteq Within(tree, root, c, m)
<1> DEFINE R(n) == Within(tree, root, c, n)
           T == {n \in Nat : k <= n /\ ~(R(k) \subseteq R(n))}
<1>1. ASSUME NEW n \in Nat PROVE R(n) \subseteq R(n + 1)
  <2>1. CASE n = 0
    <3>1. R(0) = {root} /\ root \in R(1) /\ n + 1 = 1
      BY <2>1, WithinUnfolds
    <3> QED BY <2>1, <3>1
  <2>2. CASE n > 0
    <3>1. n + 1 \in Nat /\ n + 1 > 1 /\ (n + 1) - 1 = n
      BY <2>2
    <3>2. \A l \in Nat : l > 1 => R(l - 1) \subseteq R(l)
      BY WithinUnfolds
    <3>3. R((n + 1) - 1) \subseteq R(n + 1)
      <4> HIDE DEF R
      <4> QED BY <3>1, <3>2
    <3> QED BY <3>1, <3>3
  <2> QED BY <2>1, <2>2
<1>2. CASE T = {}
  BY <1>2
<1>3. CASE T # {}
  <2>1. PICK n \in T : \A l \in T : n <= l
    <3> HIDE DEF T
    <3>1. T \subseteq Nat
      BY DEF T
    <3> QED BY <1>3, <3>1, SmallestOf
  <2>2. n # k /\ n \in Nat /\ k <= n /\ ~(R(k) \subseteq R(n))
    OBVIOUS
  <2>3. n - 1 \in Nat /\ k <= n - 1 /\ (n - 1) + 1 = n
    BY <2>2
  <2>4. R(k) \subseteq R(n - 1)
    BY <2>1, <2>3
  <2>5. R(n - 1) \subseteq R((n - 1) + 1)
    <3> HIDE DEF R
    <3> QED BY <1>1, <2>3
  <2> HIDE DEF R
  <2> QED BY <2>2, <2>3, <2>4, <2>5
<1> QED BY <1>2, <1>3

LEMMA WithinLeadsOn ==
    ASSUME NEW tree, IsDat(tree), NEW root \in Names,
           NEW c \in SUBSET Layers, c # {},
           NEW k \in Nat, NEW x \in Within(tree, root, c, k), NEW y \in Refers(tree, x, c)
    PROVE  y \in Within(tree, root, c, k + 1)
<1>1. /\ Within(tree, root, c, 0) = {root}
      /\ Within(tree, root, c, 1) = {root} \cup Refers(tree, root, c)
      /\ \A n \in Nat : n > 1 =>
            Within(tree, root, c, n) =
               Within(tree, root, c, n - 1) \cup
                  UNION {Refers(tree, d, Layers) :
                            d \in Within(tree, root, c, n - 1) \ {root}}
  BY WithinUnfolds
<1>2. y \in Refers(tree, x, Layers)
  BY DEF Refers
<1>3. CASE x = root
  <2>1. y \in Within(tree, root, c, 1)
    BY <1>1, <1>3
  <2>2. 1 \in Nat /\ k + 1 \in Nat /\ 1 <= k + 1
    OBVIOUS
  <2>3. Within(tree, root, c, 1) \subseteq Within(tree, root, c, k + 1)
    BY <2>2, WithinGrows
  <2> QED BY <2>1, <2>3
<1>4. CASE x # root
  <2>1. k # 0
    BY <1>1, <1>4
  <2>2. k + 1 \in Nat /\ k + 1 > 1 /\ (k + 1) - 1 = k
    BY <2>1
  <2>3. Within(tree, root, c, k + 1) =
           Within(tree, root, c, (k + 1) - 1) \cup
              UNION {Refers(tree, d, Layers) :
                        d \in Within(tree, root, c, (k + 1) - 1) \ {root}}
    BY <1>1, <2>2
  <2> QED BY <1>2, <1>4, <2>2, <2>3
<1> QED BY <1>3, <1>4

\* A set that holds the root and whatever its members lead to holds everything
\* that is reached.
LEMMA WithinStays ==
    ASSUME NEW tree, IsDat(tree), NEW root \in Names, NEW c, NEW C, root \in C,
           Refers(tree, root, IF c = {} THEN Layers ELSE c) \subseteq C,
           \A d \in C \ {root} : Refers(tree, d, Layers) \subseteq C,
           NEW k \in Nat
    PROVE  Within(tree, root, c, k) \subseteq C
<1> DEFINE R(n) == Within(tree, root, c, n)
           first == Refers(tree, root, IF c = {} THEN Layers ELSE c)
           T == {n \in Nat : ~(R(n) \subseteq C)}
<1>1. /\ R(0) = {root} /\ R(1) = {root} \cup first
      /\ \A n \in Nat : n > 1 =>
            R(n) = R(n - 1) \cup UNION {Refers(tree, d, Layers) : d \in R(n - 1) \ {root}}
  BY WithinUnfolds
<1> HIDE DEF R
<1>2. ASSUME T # {} PROVE FALSE
  <2>1. PICK m \in T : \A l \in T : m <= l
    <3> T \subseteq Nat
      OBVIOUS
    <3> HIDE DEF T
    <3> QED BY <1>2, SmallestOf
  <2>2. m # 0 /\ m # 1
    BY <1>1, <2>1
  <2>3. m \in Nat /\ m > 1 /\ m - 1 \in Nat /\ m - 1 \notin T
    <3>1. m \in Nat
      OBVIOUS
    <3> HIDE DEF T
    <3> QED BY <2>1, <2>2, <3>1
  <2>4. R(m - 1) \subseteq C
    BY <2>3
  <2>5. R(m) = R(m - 1) \cup UNION {Refers(tree, d, Layers) : d \in R(m - 1) \ {root}}
    BY <1>1, <2>3
  <2>6. R(m) \subseteq C
    BY <2>4, <2>5
  <2> QED BY <2>6
<1>3. k \notin T
  BY <1>2
<1> QED BY <1>3 DEF R

-----------------------------------------------------------------------------
(* What the search of the root cause tracer finds                          *)

LayersAt(c, i) == IF i = 1 /\ c # {} THEN c ELSE Layers

LEMMA TurnIs ==
    ASSUME NEW tree, IsDat(tree), NEW c, NEW n \in Nat, n > 0, NEW found \in Seq(Names)
    PROVE  IF n <= Len(found) /\ Range(found) \subseteq DOMAIN tree
           THEN \E new \in Seq(Names) :
                   /\ SearchTurn(tree, n, c)[found] = found \o new
                   /\ Range(new) = Refers(tree, found[n], LayersAt(c, n)) \ Range(found)
                   /\ Distinct(new)
           ELSE SearchTurn(tree, n, c)[found] = found
<1>1. CASE n <= Len(found) /\ Range(found) \subseteq DOMAIN tree
  <2>1. n \in 1 .. Len(found) /\ found[n] \in DOMAIN tree
    BY <1>1 DEF Range
  <2> DEFINE new == getTestLayerAssociations(tree[found[n]], LayersAt(c, n), Range(found))
  <2>2. SearchTurn(tree, n, c)[found] = found \o new
    BY <1>1 DEF SearchTurn, LayersAt
  <2>3. /\ new \in Seq(Names) /\ Distinct(new)
        /\ Range(new) = Refers(tree, found[n], LayersAt(c, n)) \ Range(found)
    BY <2>1, AssociationsAre
  <2> HIDE DEF new
  <2> QED BY <1>1, <2>2, <2>3
<1>2. CASE ~(n <= Len(found) /\ Range(found) \subseteq DOMAIN tree)
  <2>1. n > Len(found) \/ ~(Range(found) \subseteq DOMAIN tree)
    BY <1>2
  <2>2. SearchTurn(tree, n, c)[found] = found
    BY <2>1 DEF SearchTurn
  <2> QED BY <1>2, <2>2
<1> QED BY <1>1, <1>2

\* The equation by which the search is defined has a solution.
LEMMA SearchUnfolds ==
    ASSUME NEW tree, NEW root, NEW c, Cardinality(Names) \in Nat
    PROVE  \E search : /\ SubAssociations(tree, root, c) = search[Cardinality(Names)]
                       /\ search[0] = <<root>>
                       /\ \A n \in 1 .. Cardinality(Names) :
                             search[n] = SearchTurn(tree, n, c)[search[n - 1]]
<1> DEFINE all == Cardinality(Names)
           Is(f, m) == f = [n \in 0 .. m |-> IF n = 0 THEN <<root>>
                                             ELSE SearchTurn(tree, n, c)[f[n - 1]]]
           T == {m \in 0 .. all : ~\E f : Is(f, m)}
           search == CHOOSE f : Is(f, all)
<1>1. ASSUME T # {} PROVE FALSE
  <2>1. PICK m \in T : \A l \in T : m <= l
    <3>1. T \subseteq Nat
      <4> HIDE DEF Is
      <4> QED OBVIOUS
    <3> HIDE DEF T
    <3> QED BY <1>1, <3>1, SmallestOf
  <2>2. m \in 0 .. all /\ ~\E f : Is(f, m)
    BY <2>1
  <2>3. CASE m = 0
    <3> DEFINE f == [n \in 0 .. 0 |-> <<root>>]
    <3>1. f = [n \in 0 .. 0 |-> IF n = 0 THEN <<root>> ELSE SearchTurn(tree, n, c)[f[n - 1]]]
      OBVIOUS
    <3>2. Is(f, 0)
      BY <3>1, Zenon
    <3> QED BY <2>2, <2>3, <3>2
  <2>4. CASE m # 0
    <3>1. m - 1 \in 0 .. all /\ m - 1 \notin T
      <4> HIDE DEF T
      <4> QED BY <2>1, <2>2, <2>4
    <3>2. PICK g : Is(g, m - 1)
      <4> HIDE DEF Is
      <4> QED BY <3>1
    <3> DEFINE f == [n \in 0 .. m |-> IF n = m THEN SearchTurn(tree, m, c)[g[m - 1]] ELSE g[n]]
    <3>3. ASSUME NEW n \in 0 .. m
          PROVE  f[n] = IF n = 0 THEN <<root>> ELSE SearchTurn(tree, n, c)[f[n - 1]]
      <4>1. CASE n = m
        <5>1. n - 1 \in 0 .. m /\ n - 1 # m
          BY <2>2, <2>4, <4>1
        <5>2. f[n] = SearchTurn(tree, m, c)[g[m - 1]] /\ f[n - 1] = g[n - 1]
          BY <4>1, <5>1
        <5> QED BY <2>4, <4>1, <5>2
      <4>2. CASE n # m /\ n = 0
        <5>1. f[n] = g[n] /\ n \in 0 .. m - 1
          BY <2>2, <4>2
        <5>2. g[n] = <<root>>
          BY <3>2, <4>2, <5>1
        <5> QED BY <4>2, <5>1, <5>2
      <4>3. CASE n # m /\ n # 0
        <5>1. /\ n \in 0 .. m - 1 /\ n - 1 \in 0 .. m /\ n - 1 # m
              /\ f[n] = g[n] /\ f[n - 1] = g[n - 1]
          BY <2>2, <4>3
        <5>2. g[n] = SearchTurn(tree, n, c)[g[n - 1]]
          BY <3>2, <4>3, <5>1
        <5> QED BY <4>3, <5>1, <5>2
      <4> QED BY <4>1, <4>2, <4>3
    <3>4. f = [n \in 0 .. m |-> f[n]]
      OBVIOUS
    <3>5. Is(f, m)
      <4> HIDE DEF f
      <4> QED BY <3>3, <3>4, Zenon
    <3> HIDE DEF f
    <3> QED BY <2>2, <3>5
  <2> QED BY <2>3, <2>4
<1>2. Is(search, all)
  <2>1. all \in 0 .. all
    OBVIOUS
  <2>2. \E f : Is(f, all)
    BY <1>1, <2>1
  <2> HIDE DEF Is
  <2> QED BY <2>2
<1>3. SubAssociations(tree, root, c) = search[all]
  BY DEF SubAssociations
<1>4. \A n \in 0 .. all : search[n] = IF n = 0 THEN <<root>>
                                      ELSE SearchTurn(tree, n, c)[search[n - 1]]
  <2> HIDE DEF search
  <2> QED BY <1>2
<1>5. 0 \in 0 .. all /\ \A n \in 1 .. all : n \in 0 .. all /\ n # 0
  OBVIOUS
<1> HIDE DEF search
<1> QED BY <1>3, <1>4, <1>5

\* After n turns: the first n devices have been expanded, the devices are in the
\* order of their distance, and what the next one is near to, the others are at
\* most one reference farther from.
Expanded(tree, c, found, n) ==
    \A i \in 1 .. Len(found) :
        i <= n => Refers(tree, found[i], LayersAt(c, i)) \subseteq Range(found)

NearestFirst(tree, root, c, found) ==
    \A i, j \in 1 .. Len(found), k \in Nat :
        i <= j /\ found[j] \in Within(tree, root, c, k) => found[i] \in Within(tree, root, c, k)

NextLeadsOn(tree, root, c, found, n) ==
    n + 1 <= Len(found) =>
        \A k \in Nat : found[n + 1] \in Within(tree, root, c, k)
                         => Range(found) \subseteq Within(tree, root, c, k + 1)

SearchInv(tree, root, c, found, n) ==
    /\ found \in Seq(Names) /\ Len(found) > 0 /\ found[1] = root /\ Distinct(found)
    /\ \A i \in 1 .. Len(found) : found[i] \in Within(tree, root, c, i - 1)
    /\ Range(found) \subseteq DOMAIN tree =>
          /\ Expanded(tree, c, found, n)
          /\ NearestFirst(tree, root, c, found)
          /\ NextLeadsOn(tree, root, c, found, n)

LEMMA SearchStarts ==
    ASSUME NEW tree, IsDat(tree), NEW root \in Names, NEW c
    PROVE  SearchInv(tree, root, c, <<root>>, 0)
<1>1. /\ <<root>> \in Seq(Names) /\ Len(<<root>>) = 1 /\ <<root>>[1] = root
      /\ Range(<<root>>) = {root}
  BY DEF Range
<1>2. Distinct(<<root>>)
  BY DEF Distinct
<1>3. Within(tree, root, c, 0) = {root}
  BY WithinUnfolds
<1>4. \A k \in Nat : root \in Within(tree, root, c, k)
  <2> SUFFICES ASSUME NEW k \in Nat PROVE root \in Within(tree, root, c, k)
    OBVIOUS
  <2>1. Within(tree, root, c, 0) \subseteq Within(tree, root, c, k)
    BY WithinGrows
  <2> QED BY <1>3, <2>1
<1>5. Expanded(tree, c, <<root>>, 0)
  BY <1>1 DEF Expanded
<1>6. NearestFirst(tree, root, c, <<root>>)
  BY <1>1, <1>4 DEF NearestFirst
<1>7. NextLeadsOn(tree, root, c, <<root>>, 0)
  BY <1>1, <1>4 DEF NextLeadsOn
<1>8. \A i \in 1 .. Len(<<root>>) : <<root>>[i] \in Within(tree, root, c, i - 1)
  BY <1>1, <1>4
<1> QED BY <1>1, <1>2, <1>5, <1>6, <1>7, <1>8 DEF SearchInv

\* What the device of the turn refers to is one reference farther than it.
LEMMA TurnLeadsOn ==
    ASSUME NEW tree, IsDat(tree), NEW root \in Names, NEW c, NEW n \in Nat, n > 0,
           NEW found, SearchInv(tree, root, c, found, n - 1), n <= Len(found),
           NEW k \in Nat, k > 0, found[n] \in Within(tree, root, c, k - 1)
    PROVE  Refers(tree, found[n], LayersAt(c, n)) \subseteq Within(tree, root, c, k)
<1>1. /\ found \in Seq(Names) /\ found[1] = root /\ Distinct(found)
      /\ 1 \in DOMAIN found /\ n \in DOMAIN found
  BY DEF SearchInv
<1>2. /\ Within(tree, root, c, 0) = {root}
      /\ Within(tree, root, c, 1) =
            {root} \cup Refers(tree, root, IF c = {} THEN Layers ELSE c)
      /\ k > 1 => Within(tree, root, c, k) =
                     Within(tree, root, c, k - 1) \cup
                        UNION {Refers(tree, d, Layers) :
                                  d \in Within(tree, root, c, k - 1) \ {root}}
  BY WithinUnfolds
<1>3. CASE n = 1
  <2>1. LayersAt(c, n) = IF c = {} THEN Layers ELSE c
    BY <1>3 DEF LayersAt
  <2>2. Within(tree, root, c, 1) \subseteq Within(tree, root, c, k)
    <3>1. 1 \in Nat /\ 1 <= k
      OBVIOUS
    <3> QED BY <3>1, WithinGrows
  <2> QED BY <1>1, <1>2, <1>3, <2>1, <2>2
<1>4. CASE n # 1
  <2>1. found[n] # root /\ LayersAt(c, n) = Layers
    BY <1>1, <1>4 DEF Distinct, LayersAt
  <2>2. k # 1
    BY <1>2, <2>1
  <2> QED BY <1>2, <2>1, <2>2
<1> QED BY <1>3, <1>4

\* Whatever is near and has not been found is farther than the device of the
\* turn, and there is one.
LEMMA UnfoundIsFarther ==
    ASSUME NEW tree, IsDat(tree), NEW root \in Names, NEW c, NEW n \in Nat, n > 0,
           NEW found, SearchInv(tree, root, c, found, n - 1),
           Range(found) \subseteq DOMAIN tree,
           NEW k \in Nat, NEW y \in Within(tree, root, c, k), y \notin Range(found)
    PROVE  k > 0 /\ n <= Len(found) /\ found[n] \in Within(tree, root, c, k - 1)
<1> DEFINE R(l) == Within(tree, root, c, l)
           T == {l \in Nat : ~(R(l) \subseteq Range(found))}
<1>1. /\ found \in Seq(Names) /\ Len(found) > 0 /\ found[1] = root /\ Distinct(found)
      /\ DOMAIN found = 1 .. Len(found) /\ Len(found) \in Nat
      /\ Expanded(tree, c, found, n - 1) /\ NearestFirst(tree, root, c, found)
  BY DEF SearchInv
<1>2. /\ R(0) = {root}
      /\ R(1) = {root} \cup Refers(tree, root, IF c = {} THEN Layers ELSE c)
      /\ \A l \in Nat : l > 1 =>
            R(l) = R(l - 1) \cup UNION {Refers(tree, d, Layers) : d \in R(l - 1) \ {root}}
  BY WithinUnfolds
<1>3. root \in Range(found)
  BY <1>1 DEF Range
<1> HIDE DEF R
<1>4. PICK m \in T : \A l \in T : m <= l
  <2>1. k \in T /\ T \subseteq Nat
    BY DEF R
  <2> HIDE DEF T
  <2> QED BY <2>1, SmallestOf
<1>5. m \in Nat /\ ~(R(m) \subseteq Range(found))
  OBVIOUS
<1>6. m > 0 /\ m <= k
  <2>1. k \in T
    BY DEF R
  <2>2. m <= k
    BY <1>4, <2>1
  <2>3. m # 0
    BY <1>2, <1>3, <1>5
  <2> QED BY <1>5, <2>2, <2>3
<1>7. n <= Len(found) /\ found[n] \in R(m - 1)
  <2>1. CASE m = 1
    <3>1. ~(Refers(tree, root, IF c = {} THEN Layers ELSE c) \subseteq Range(found))
      BY <1>2, <1>3, <1>5, <2>1
    <3>2. LayersAt(c, 1) = IF c = {} THEN Layers ELSE c
      BY DEF LayersAt
    <3>3. ~(1 <= n - 1)
      <4>1. 1 \in 1 .. Len(found)
        BY <1>1
      <4> QED BY <1>1, <3>1, <3>2, <4>1 DEF Expanded
    <3>4. n = 1
      BY <3>3
    <3> QED BY <1>1, <1>2, <2>1, <3>4
  <2>2. CASE m # 1
    <3>1. m - 1 \in Nat /\ m > 1 /\ m - 1 \notin T
      <4> HIDE DEF T
      <4> QED BY <1>4, <1>5, <1>6, <2>2
    <3>2. R(m - 1) \subseteq Range(found)
      BY <3>1
    <3>3. PICK z \in R(m - 1) \ {root} : ~(Refers(tree, z, Layers) \subseteq Range(found))
      BY <1>2, <1>5, <3>1, <3>2
    <3>4. PICK p \in 1 .. Len(found) : found[p] = z
      BY <1>1, <3>2, <3>3 DEF Range
    <3>5. p # 1 /\ LayersAt(c, p) = Layers
      BY <1>1, <3>3, <3>4 DEF LayersAt
    <3>6. ~(p <= n - 1)
      BY <1>1, <3>3, <3>4, <3>5 DEF Expanded
    <3>7. n \in 1 .. Len(found) /\ n <= p
      BY <1>1, <3>4, <3>6
    <3> QED BY <1>1, <3>1, <3>3, <3>4, <3>7 DEF NearestFirst, R
  <2> QED BY <2>1, <2>2
<1>8. R(m - 1) \subseteq R(k - 1)
  <2>1. m - 1 \in Nat /\ k - 1 \in Nat /\ m - 1 <= k - 1
    BY <1>5, <1>6
  <2> QED BY <2>1, WithinGrows DEF R
<1> QED BY <1>5, <1>6, <1>7, <1>8 DEF R

LEMMA TurnKeepsOrder ==
    ASSUME NEW tree, IsDat(tree), NEW root \in Names, NEW c, NEW n \in Nat, n > 0,
           NEW found, SearchInv(tree, root, c, found, n - 1)
    PROVE  SearchInv(tree, root, c, SearchTurn(tree, n, c)[found], n)
<1>1. /\ found \in Seq(Names) /\ Len(found) > 0 /\ found[1] = root /\ Distinct(found)
      /\ DOMAIN found = 1 .. Len(found) /\ Len(found) \in Nat
      /\ \A i \in 1 .. Len(found) : found[i] \in Within(tree, root, c, i - 1)
  BY DEF SearchInv
<1>2. CASE ~(n <= Len(found) /\ Range(found) \subseteq DOMAIN tree)
  <2>1. SearchTurn(tree, n, c)[found] = found
    BY <1>1, <1>2, TurnIs
  <2>2. CASE ~(Range(found) \subseteq DOMAIN tree)
    BY <2>1, <2>2 DEF SearchInv
  <2>3. CASE Range(found) \subseteq DOMAIN tree
    <3>1. n > Len(found) /\ Expanded(tree, c, found, n - 1) /\ NearestFirst(tree, root, c, found)
      BY <1>1, <1>2, <2>3 DEF SearchInv
    <3>2. Expanded(tree, c, found, n)
      BY <1>1, <3>1 DEF Expanded
    <3>3. NextLeadsOn(tree, root, c, found, n)
      BY <1>1, <3>1 DEF NextLeadsOn
    <3> QED BY <1>1, <2>1, <3>1, <3>2, <3>3 DEF SearchInv
  <2> QED BY <2>2, <2>3
<1>3. CASE n <= Len(found) /\ Range(found) \subseteq DOMAIN tree
  <2> DEFINE more == SearchTurn(tree, n, c)[found]
             R(k) == Within(tree, root, c, k)
             next == Refers(tree, found[n], LayersAt(c, n))
  <2>1. PICK new \in Seq(Names) : /\ more = found \o new /\ Distinct(new)
                                  /\ Range(new) = next \ Range(found)
    BY <1>1, <1>3, TurnIs
  <2>2. /\ Expanded(tree, c, found, n - 1) /\ NearestFirst(tree, root, c, found)
        /\ NextLeadsOn(tree, root, c, found, n - 1)
    BY <1>3 DEF SearchInv
  <2>3. /\ more \in Seq(Names) /\ Len(more) = Len(found) + Len(new)
        /\ Len(new) \in Nat /\ DOMAIN new = 1 .. Len(new)
        /\ Range(more) = Range(found) \cup next
        /\ \A i \in 1 .. Len(found) : more[i] = found[i] /\ found[i] \in Range(found)
        /\ \A i \in 1 .. Len(more) : i > Len(found) =>
              /\ more[i] = new[i - Len(found)] /\ i - Len(found) \in 1 .. Len(new)
    <3>1. /\ found \o new \in Seq(Names) /\ Len(found \o new) = Len(found) + Len(new)
          /\ Range(found \o new) = Range(found) \cup Range(new)
          /\ Len(new) \in Nat /\ DOMAIN new = 1 .. Len(new)
      BY <1>1, ConcatProperties, RangeConcatenation
    <3>2. \A i \in 1 .. Len(found) : (found \o new)[i] = found[i] /\ found[i] \in Range(found)
      BY <1>1, ConcatProperties DEF Range
    <3>3. \A i \in 1 .. Len(found) + Len(new) : i > Len(found) =>
             /\ (found \o new)[i] = new[i - Len(found)] /\ i - Len(found) \in 1 .. Len(new)
      BY <1>1, ConcatProperties
    <3> HIDE DEF next, more
    <3> QED BY <2>1, <3>1, <3>2, <3>3
  <2> HIDE DEF more
  <2>4. Distinct(more)
    <3> HIDE DEF next
    <3>1. Range(found) \cap Range(new) = {}
      BY <2>1
    <3> QED BY <1>1, <2>1, <3>1, ConcatDistinct
  <2>5. \A i \in 1 .. Len(more) : i > Len(found) => more[i] \in next /\ more[i] \notin Range(found)
    <3> SUFFICES ASSUME NEW i \in 1 .. Len(more), i > Len(found)
                 PROVE  more[i] \in next \ Range(found)
      OBVIOUS
    <3>1. more[i] \in Range(new)
      BY <2>3 DEF Range
    <3> QED BY <2>1, <3>1
  <2>6. \A k \in Nat : k > 0 /\ found[n] \in R(k - 1) => next \subseteq R(k)
    BY <1>3, TurnLeadsOn
  <2>7. /\ n \in 1 .. Len(found) /\ n - 1 \in Nat /\ found[n] \in R(n - 1) /\ next \subseteq R(n)
        /\ found[n] \in Range(found)
    BY <1>1, <1>3, <2>3, <2>6
  <2>8. \A i \in 1 .. Len(more) : more[i] \in R(i - 1)
    <3> SUFFICES ASSUME NEW i \in 1 .. Len(more) PROVE more[i] \in R(i - 1)
      OBVIOUS
    <3>1. CASE i <= Len(found)
      BY <1>1, <2>3, <3>1
    <3>2. CASE i > Len(found)
      <4>1. more[i] \in R(n)
        BY <2>5, <2>7, <3>2
      <4>2. n <= i - 1 /\ i - 1 \in Nat
        BY <1>1, <2>7, <3>2
      <4>3. R(n) \subseteq R(i - 1)
        BY <4>2, WithinGrows
      <4> QED BY <4>1, <4>3
    <3> QED BY <1>1, <2>3, <3>1, <3>2
  <2>9. ASSUME NEW k \in Nat, NEW y \in R(k), y \notin Range(found)
        PROVE  Range(more) \subseteq R(k)
    <3>1. k > 0 /\ found[n] \in R(k - 1) /\ k - 1 \in Nat
      <4>1. k > 0 /\ found[n] \in R(k - 1)
        BY <1>3, <2>9, UnfoundIsFarther
      <4> QED BY <4>1
    <3>2. (n - 1) + 1 = n /\ (k - 1) + 1 = k
      BY <2>7
    <3>3. Range(found) \subseteq R(k)
      BY <2>2, <2>7, <3>1, <3>2 DEF NextLeadsOn
    <3> QED BY <2>3, <2>6, <3>1, <3>3
  <2>10. Expanded(tree, c, more, n)
    <3> SUFFICES ASSUME NEW i \in 1 .. Len(more), i <= n
                 PROVE  Refers(tree, more[i], LayersAt(c, i)) \subseteq Range(more)
      BY DEF Expanded
    <3>1. i \in 1 .. Len(found) /\ more[i] = found[i]
      BY <1>1, <2>3, <2>7
    <3>2. CASE i = n
      BY <2>3, <3>1, <3>2
    <3>3. CASE i # n
      <4>1. i <= n - 1
        BY <2>7, <3>3
      <4> QED BY <2>2, <2>3, <3>1, <4>1 DEF Expanded
    <3> QED BY <3>2, <3>3
  <2>11. NearestFirst(tree, root, c, more)
    <3> SUFFICES ASSUME NEW i \in 1 .. Len(more), NEW j \in 1 .. Len(more), NEW k \in Nat,
                        i <= j, more[j] \in R(k)
                 PROVE  more[i] \in R(k)
      BY DEF NearestFirst
    <3>1. CASE j <= Len(found)
      <4>1. /\ i \in 1 .. Len(found) /\ j \in 1 .. Len(found)
            /\ more[i] = found[i] /\ more[j] = found[j]
        BY <1>1, <2>3, <3>1
      <4> QED BY <2>2, <4>1 DEF NearestFirst
    <3>2. CASE j > Len(found)
      <4>1. Range(more) \subseteq R(k)
        BY <2>5, <2>9, <3>2
      <4>2. more[i] \in Range(more)
        BY <2>3 DEF Range
      <4> QED BY <4>1, <4>2
    <3> QED BY <1>1, <2>3, <3>1, <3>2
  <2>12. NextLeadsOn(tree, root, c, more, n)
    <3> SUFFICES ASSUME n + 1 <= Len(more), NEW k \in Nat, more[n + 1] \in R(k)
                 PROVE  Range(more) \subseteq R(k + 1)
      BY DEF NextLeadsOn
    <3>1. n + 1 \in 1 .. Len(more) /\ k + 1 \in Nat /\ k + 1 > 0 /\ (k + 1) - 1 = k
      BY <2>3, <1>1
    <3>2. CASE n + 1 <= Len(found)
      <4>1. more[n + 1] = found[n + 1] /\ n + 1 \in 1 .. Len(found)
        BY <1>1, <2>3, <3>1, <3>2
      <4>2. found[n] \in R(k)
        <5>1. n <= n + 1
          OBVIOUS
        <5> QED BY <2>2, <2>7, <4>1, <5>1 DEF NearestFirst
      <4>3. Range(found) \subseteq R(k + 1)
        <5>1. (n - 1) + 1 = n /\ n <= Len(found)
          BY <2>7
        <5>2. \A l \in Nat : found[n] \in Within(tree, root, c, l)
                               => Range(found) \subseteq Within(tree, root, c, l + 1)
          BY <2>2, <5>1 DEF NextLeadsOn
        <5> QED BY <4>2, <5>2
      <4>4. next \subseteq R(k + 1)
        BY <2>6, <3>1, <4>2
      <4> QED BY <2>3, <4>3, <4>4
    <3>3. CASE ~(n + 1 <= Len(found))
      <4>1. more[n + 1] \notin Range(found)
        BY <1>1, <2>5, <3>1, <3>3
      <4>2. Range(more) \subseteq R(k)
        BY <2>9, <4>1
      <4>3. R(k) \subseteq R(k + 1)
        <5>1. k <= k + 1
          OBVIOUS
        <5> QED BY <3>1, <5>1, WithinGrows
      <4> QED BY <4>2, <4>3
    <3> QED BY <3>2, <3>3
  <2>13. Len(more) > 0 /\ more[1] = root
    BY <1>1, <2>3
  <2> QED BY <2>3, <2>4, <2>8, <2>10, <2>11, <2>12, <2>13 DEF SearchInv, more
<1> QED BY <1>2, <1>3

\* getTestLayerSubAssociations (dat_traverse.cpp:399-441) is a breadth-first
\* search: in every tree, whatever circles its references make, it finds only
\* what is reached, and when it ends without an exception it has found each
\* device that is reached, once, and the nearest first.
THEOREM SearchFinds ==
    ASSUME NEW tree, IsDat(tree), NEW root \in Names, NEW c, IsFiniteSet(Names)
    PROVE  LET children == SubAssociations(tree, root, c)
               reach(k) == Within(tree, root, c, k)
           IN /\ children \in Seq(Names) /\ root \in Range(children)
              /\ Range(children) \subseteq reach(Cardinality(Names))
              /\ Range(children) \subseteq DOMAIN tree =>
                    /\ NearestFirst(tree, root, c, children)
                    /\ \A k \in Nat : reach(k) \subseteq Range(children)
<1>1. Cardinality(Names) \in Nat
  BY FS_CardinalityType
<1>2. PICK all \in Nat : all = Cardinality(Names)
  BY <1>1
<1>3. PICK search : /\ SubAssociations(tree, root, c) = search[all]
                    /\ search[0] = <<root>>
                    /\ \A n \in 1 .. all : search[n] = SearchTurn(tree, n, c)[search[n - 1]]
  <2>1. \E search : /\ SubAssociations(tree, root, c) = search[Cardinality(Names)]
                    /\ search[0] = <<root>>
                    /\ \A n \in 1 .. Cardinality(Names) :
                          search[n] = SearchTurn(tree, n, c)[search[n - 1]]
    BY <1>1, SearchUnfolds
  <2> QED BY <1>2, <2>1
<1> DEFINE Is(n) == SearchInv(tree, root, c, search[n], n)
           T == {n \in 0 .. all : ~Is(n)}
<1>4. ASSUME T # {} PROVE FALSE
  <2>1. PICK m \in T : \A l \in T : m <= l
    <3> T \subseteq Nat
      OBVIOUS
    <3> HIDE DEF T
    <3> QED BY <1>4, SmallestOf
  <2>2. m \in 0 .. all /\ ~Is(m)
    BY <2>1
  <2>3. m # 0
    BY <1>3, <2>2, SearchStarts
  <2>4. m - 1 \in 0 .. all /\ m - 1 \notin T /\ m \in 1 .. all /\ m \in Nat /\ m > 0
    <3> HIDE DEF T
    <3> QED BY <2>1, <2>2, <2>3
  <2>5. SearchInv(tree, root, c, search[m - 1], m - 1)
    BY <2>4
  <2>6. SearchInv(tree, root, c, search[m], m)
    <3>1. SearchInv(tree, root, c, SearchTurn(tree, m, c)[search[m - 1]], m)
      BY <2>4, <2>5, TurnKeepsOrder
    <3> QED BY <1>3, <2>4, <3>1
  <2> QED BY <2>2, <2>6
<1>5. PICK found : found = SubAssociations(tree, root, c) /\ SearchInv(tree, root, c, found, all)
  <2>1. all \in 0 .. all
    OBVIOUS
  <2> QED BY <1>3, <1>4, <2>1
<1>6. /\ found \in Seq(Names) /\ Len(found) > 0 /\ found[1] = root /\ Distinct(found)
      /\ DOMAIN found = 1 .. Len(found) /\ Len(found) \in Nat
      /\ \A i \in 1 .. Len(found) : found[i] \in Within(tree, root, c, i - 1)
      /\ Range(found) \subseteq DOMAIN tree =>
            Expanded(tree, c, found, all) /\ NearestFirst(tree, root, c, found)
  BY <1>5 DEF SearchInv
<1>7. root \in Range(found)
  BY <1>6 DEF Range
<1>8. Len(found) <= all
  <2>1. found \in Injection(1 .. Len(found), Names)
    BY <1>6 DEF Distinct, Injection, IsInjective
  <2>2. Cardinality(1 .. Len(found)) <= all
    BY <1>2, <2>1, FS_Injection
  <2>3. Cardinality(1 .. Len(found)) = Len(found)
    <3>1. 1 \in Int /\ Len(found) \in Int
      BY <1>6
    <3>2. Cardinality(1 .. Len(found)) = IF 1 > Len(found) THEN 0 ELSE Len(found) - 1 + 1
      BY <3>1, FS_Interval
    <3> QED BY <1>6, <3>2
  <2> QED BY <2>2, <2>3
<1>9. Range(found) \subseteq Within(tree, root, c, all)
  <2> SUFFICES ASSUME NEW i \in 1 .. Len(found)
               PROVE  found[i] \in Within(tree, root, c, all)
    BY <1>6 DEF Range
  <2>1. i - 1 \in Nat /\ i - 1 <= all
    BY <1>6, <1>8
  <2>2. Within(tree, root, c, i - 1) \subseteq Within(tree, root, c, all)
    BY <2>1, WithinGrows
  <2> QED BY <1>6, <2>2
<1>10. ASSUME Range(found) \subseteq DOMAIN tree, NEW k \in Nat
       PROVE  Within(tree, root, c, k) \subseteq Range(found)
  <2>1. \A i \in 1 .. Len(found) : Refers(tree, found[i], LayersAt(c, i)) \subseteq Range(found)
    BY <1>6, <1>8, <1>10 DEF Expanded
  <2>2. Refers(tree, root, IF c = {} THEN Layers ELSE c) \subseteq Range(found)
    <3>1. 1 \in 1 .. Len(found) /\ LayersAt(c, 1) = IF c = {} THEN Layers ELSE c
      BY <1>6 DEF LayersAt
    <3> QED BY <1>6, <2>1, <3>1
  <2>3. ASSUME NEW d \in Range(found) \ {root}
        PROVE  Refers(tree, d, Layers) \subseteq Range(found)
    <3>1. PICK i \in 1 .. Len(found) : found[i] = d
      BY <1>6 DEF Range
    <3>2. LayersAt(c, i) = Layers
      BY <1>6, <3>1 DEF LayersAt
    <3> QED BY <2>1, <3>1, <3>2
  <2> QED BY <1>7, <2>2, <2>3, WithinStays
<1> QED BY <1>2, <1>5, <1>6, <1>7, <1>9, <1>10

-----------------------------------------------------------------------------
(* The states                                                              *)

Frames == [device : DOMAIN dat, todo : Seq(TestPoints), done : Seq(Results)]

Typed ==
    /\ IsDat(dat) /\ job \in Jobs
    /\ pc \in {"start", "devices", "perform", "trace", "cause", "done"}
    /\ stack \in Seq(Frames)
    /\ ret \in {"none", "succ", "error"}
    /\ DOMAIN report \subseteq DOMAIN dat
    /\ report \in [DOMAIN report -> Seq(Results)]
    /\ tested \in Seq(DOMAIN dat)
    /\ health \in Severities \cup {-1}
    /\ status.originOfCondition \in Names \cup {None}
    /\ origin \in Names \cup {None}
    /\ outcome \in {"none", "succ", "error", "exception"}

\* Which job is where, and what it has to do there.
InPhase ==
    /\ pc = "perform" <=> stack # <<>>
    /\ pc = "start" => report = [d \in {} |-> <<>>] /\ tested = <<>> /\ ret = "none"
    /\ pc \in {"devices", "perform", "trace", "cause"} => job.kind # "entries"
    /\ pc = "devices" => job.kind = "boot"
    /\ pc = "cause" => job.kind = "trace"
    /\ pc \in {"trace", "cause"} =>
          job.kind \in {"trace", "process"} /\ job.device \in DOMAIN dat
    /\ pc = "perform" /\ job.kind # "boot" => job.device \in DOMAIN dat
    /\ job.kind = "boot" /\ pc \in {"devices", "perform"} => left \in Seq(DOMAIN dat)
    /\ job.kind = "entries" => left \in Seq(Entries)

\* What is left of a device's test points are test points of it.
TodoListed ==
    \A k \in DOMAIN stack : \A j \in DOMAIN stack[k].todo :
        \E i \in DOMAIN dat[stack[k].device].test :
            stack[k].todo[j] = dat[stack[k].device].test[i]

TestedReported == \A i \in DOMAIN tested : tested[i] \in DOMAIN report

\* A call waits for the one above it; the last one that has returned was for
\* the test point at hand, its device perhaps not in the report if skipped.
CallsNested ==
    /\ \A k \in DOMAIN stack : stack[k].device \in DOMAIN report
    /\ \A k \in DOMAIN stack : k + 1 \in DOMAIN stack =>
          /\ stack[k].todo # <<>>
          /\ stack[k].todo[1].nested = stack[k + 1].device
          /\ stack[k].todo[1].layer \notin Ignored
    /\ pc = "perform" /\ ret # "none" =>
          /\ Top.todo # <<>>
          /\ Head1.nested \in DOMAIN report
          /\ Head1.layer \notin Ignored

TestsInv == Typed /\ InPhase /\ TodoListed /\ TestedReported /\ TestedOnce /\ CallsNested

-----------------------------------------------------------------------------
(* What the parts of the steps do                                          *)

LEMMA TopIsFrame ==
    ASSUME Typed, stack # <<>>
    PROVE  /\ Len(stack) \in DOMAIN stack /\ Len(stack) \in Nat /\ Len(stack) > 0
           /\ DOMAIN stack = 1 .. Len(stack)
           /\ Top \in Frames
           /\ Top.device \in DOMAIN dat /\ Top.todo \in Seq(TestPoints)
           /\ Top.done \in Seq(Results)
           /\ Top.todo # <<>> =>
                 /\ Head1 \in TestPoints /\ Head1 = Top.todo[1]
                 /\ 1 \in DOMAIN Top.todo
                 /\ Tail(Top.todo) \in Seq(TestPoints)
<1>1. stack \in Seq(Frames)
  BY DEF Typed
<1>2. /\ Len(stack) \in DOMAIN stack /\ Len(stack) \in Nat /\ Len(stack) > 0
      /\ DOMAIN stack = 1 .. Len(stack)
  BY <1>1
<1>3. Top \in Frames
  BY <1>1, <1>2 DEF Top
<1>4. /\ Top.device \in DOMAIN dat /\ Top.todo \in Seq(TestPoints)
      /\ Top.done \in Seq(Results)
  BY <1>3 DEF Frames
<1>5. ASSUME Top.todo # <<>>
      PROVE  /\ Head1 \in TestPoints /\ Head1 = Top.todo[1]
             /\ 1 \in DOMAIN Top.todo
             /\ Tail(Top.todo) \in Seq(TestPoints)
  <2> DEFINE todo == Top.todo
  <2>1. todo \in Seq(TestPoints) /\ todo # <<>>
    BY <1>4, <1>5
  <2>2. Head(todo) \in TestPoints /\ Head(todo) = todo[1] /\ 1 \in DOMAIN todo
        /\ Tail(todo) \in Seq(TestPoints)
    <3> HIDE DEF todo
    <3> QED BY <2>1
  <2> QED BY <2>2 DEF Head1
<1> QED BY <1>2, <1>3, <1>4, <1>5

\* perform begins.
LEMMA PerformBegins ==
    ASSUME Typed, NEW d \in DOMAIN dat, d \notin DOMAIN report, Perform(d)
    PROVE  /\ stack' \in Seq(Frames) /\ stack' # <<>>
           /\ DOMAIN stack' = 1 .. Len(stack) + 1 /\ Len(stack') = Len(stack) + 1
           /\ \A k \in DOMAIN stack : stack'[k] = stack[k]
           /\ stack'[Len(stack) + 1] = [device |-> d, todo |-> dat[d].test, done |-> <<>>]
           /\ report' \in [DOMAIN report' -> Seq(Results)]
           /\ DOMAIN report' = {d} \cup DOMAIN report
           /\ report'[d] = <<>> /\ \A e \in DOMAIN report : report'[e] = report[e]
           /\ tested' = Append(tested, d) /\ tested' \in Seq(DOMAIN dat)
           /\ ret' = "none"
<1> DEFINE f == [device |-> d, todo |-> dat[d].test, done |-> <<>>]
<1>1. dat[d].test \in Seq(TestPoints)
  BY DEF Typed, IsDat, Devices
<1>2. f \in Frames
  BY <1>1 DEF Frames
<1>3. stack \in Seq(Frames) /\ tested \in Seq(DOMAIN dat)
  BY DEF Typed
<1>4. stack' = Append(stack, f)
  BY DEF Perform
<1>5. /\ stack' \in Seq(Frames) /\ stack' # <<>>
      /\ DOMAIN stack' = 1 .. Len(stack) + 1 /\ Len(stack') = Len(stack) + 1
      /\ \A k \in DOMAIN stack : stack'[k] = stack[k]
      /\ stack'[Len(stack) + 1] = f
  <2> HIDE DEF f
  <2> QED BY <1>2, <1>3, <1>4
<1>6. /\ report' = [e \in DOMAIN report' |-> report'[e]]
      /\ DOMAIN report' = {d} \cup DOMAIN report
      /\ report'[d] = <<>>
      /\ \A e \in DOMAIN report : report'[e] = report[e]
  BY DEF Perform, reportWith
<1>7. \A e \in DOMAIN report' : report'[e] \in Seq(Results)
  <2>1. \A e \in DOMAIN report : report[e] \in Seq(Results)
    BY DEF Typed
  <2>2. <<>> \in Seq(Results)
    OBVIOUS
  <2> QED BY <1>6, <2>1, <2>2
<1>8. report' \in [DOMAIN report' -> Seq(Results)]
  BY <1>6, <1>7
<1>9. tested' = Append(tested, d) /\ tested' \in Seq(DOMAIN dat) /\ ret' = "none"
  BY <1>3 DEF Perform
<1> QED BY <1>5, <1>6, <1>8, <1>9

\* The result of a test point is kept.
LEMMA ResultKept ==
    ASSUME Typed, stack # <<>>, Top.todo # <<>>, NEW r \in Results, Tested(r)
    PROVE  LET f == stack'[Len(stack)] IN
           /\ stack' \in Seq(Frames)
           /\ DOMAIN stack' = DOMAIN stack /\ Len(stack') = Len(stack)
           /\ \A k \in DOMAIN stack : k # Len(stack) => stack'[k] = stack[k]
           /\ f.device = Top.device /\ f.todo = Tail(Top.todo)
           /\ f.done = Append(Top.done, r)
<1> DEFINE n == Len(stack)
           f == [Top EXCEPT !.todo = Tail(Top.todo), !.done = Append(Top.done, r)]
<1>1. /\ n \in DOMAIN stack /\ Top \in Frames /\ Top.done \in Seq(Results)
      /\ Tail(Top.todo) \in Seq(TestPoints)
  BY TopIsFrame
<1>2. Append(Top.done, r) \in Seq(Results)
  BY <1>1
<1>3. f \in Frames /\ f.device = Top.device /\ f.todo = Tail(Top.todo)
      /\ f.done = Append(Top.done, r)
  BY <1>1, <1>2 DEF Frames
<1>4. stack' = [stack EXCEPT ![n] = f]
  BY <1>1 DEF Tested, Top, Frames
<1>5. stack \in Seq(Frames)
  BY DEF Typed
<1>6. /\ stack' \in Seq(Frames) /\ DOMAIN stack' = DOMAIN stack
      /\ Len(stack') = Len(stack)
      /\ \A k \in DOMAIN stack : k # Len(stack) => stack'[k] = stack[k]
      /\ stack'[n] = f
  <2> HIDE DEF f
  <2> QED BY <1>1, <1>3, <1>4, <1>5, ExceptSeq
<1> QED BY <1>3, <1>6

\* A nested device is evaluated; only one that was skipped is new in the report.
LEMMA NestedEvaluated ==
    ASSUME Typed, stack # <<>>, Top.todo # <<>>, Head1.nested \in DOMAIN dat,
           NEW rc, EvaluateNested(rc)
    PROVE  /\ \E v \in Values : fillTpRes(Head1, v) \in Results /\ Tested(fillTpRes(Head1, v))
           /\ report' \in [DOMAIN report' -> Seq(Results)]
           /\ DOMAIN report' = {Head1.nested} \cup DOMAIN report
           /\ \A e \in DOMAIN report : report'[e] = report[e]
           /\ Head1.nested \notin DOMAIN report => report'[Head1.nested] = <<>>
<1> DEFINE n == Head1.nested
           results == IF n \in DOMAIN report THEN report[n] ELSE <<>>
           v == IF rc = "succ" /\ evaluateDevice(results) THEN "expected" ELSE "other"
<1>1. v \in Values /\ Head1 \in TestPoints
  BY TopIsFrame DEF Values
<1>2. fillTpRes(Head1, v) \in Results
  <2> HIDE DEF v
  <2> QED BY <1>1 DEF fillTpRes, Results, TestPoints, Values
<1>3. Tested(fillTpRes(Head1, v)) /\ report' = reportWith(n, results)
  BY DEF EvaluateNested
<1>4. /\ report' = [e \in DOMAIN report' |-> report'[e]]
      /\ DOMAIN report' = {n} \cup DOMAIN report
      /\ report'[n] = results
      /\ \A e \in DOMAIN report : e # n => report'[e] = report[e]
  <2> HIDE DEF n, results
  <2> QED BY <1>3 DEF reportWith
<1>5. results \in Seq(Results)
  BY DEF Typed
<1>6. \A e \in DOMAIN report' : report'[e] \in Seq(Results)
  BY <1>4, <1>5 DEF Typed
<1> QED BY <1>1, <1>2, <1>3, <1>4, <1>6

\* A call of perform returns.
LEMMA FramePopped ==
    ASSUME Typed, stack # <<>>, stack' = Front(stack)
    PROVE  /\ stack' \in Seq(Frames) /\ DOMAIN stack' = 1 .. Len(stack) - 1
           /\ Len(stack') = Len(stack) - 1
           /\ \A k \in DOMAIN stack' : k \in DOMAIN stack /\ stack'[k] = stack[k]
           /\ stack' = <<>> <=> Len(stack) = 1
<1>1. stack \in Seq(Frames) /\ Len(stack) \in Nat /\ Len(stack) > 0
      /\ DOMAIN stack = 1 .. Len(stack)
  BY TopIsFrame DEF Typed
<1>2. stack' = SubSeq(stack, 1, Len(stack) - 1)
  BY DEF Front
<1>3. /\ stack' \in Seq(Frames) /\ Len(stack') = Len(stack) - 1
      /\ \A k \in 1 .. Len(stack) - 1 : stack'[k] = stack[k]
  BY <1>1, <1>2, SubSeqProperties
<1>4. DOMAIN stack' = 1 .. Len(stack) - 1
  BY <1>3
<1> QED BY <1>1, <1>3, <1>4

LEMMA JobIs ==
    ASSUME job \in Jobs
    PROVE  /\ job.kind \in {"trace", "boot", "process", "entries"}
           /\ job.kind = "trace" => /\ job.fixed \in Names \cup {None}
                                    /\ job.severity \in Severities
           /\ job.kind = "entries" => job.log \in Seq(Entries)
<1>1. CASE job \in [kind : {"trace"}, device : Names, categories : SUBSET Layers,
                    fixed : Names \cup {None}, severity : Severities]
  BY <1>1
<1>2. CASE job \in [kind : {"boot"}, hmc : BOOLEAN]
  BY <1>2
<1>3. CASE job \in [kind : {"process"}, device : Names]
  BY <1>3
<1>4. CASE job \in [kind : {"entries"}, log : Seq(Entries)]
  BY <1>4
<1> QED BY <1>1, <1>2, <1>3, <1>4 DEF Jobs

-----------------------------------------------------------------------------
(* TestsInv is kept                                                        *)

\* By the start of a test, at the bottom or for the test point at hand.
LEMMA BeginKeeps ==
    ASSUME TestsInv, NEW d \in DOMAIN dat, d \notin DOMAIN report, Perform(d),
           pc' = "perform", job.kind # "entries",
           job.kind # "boot" => job.device \in DOMAIN dat,
           job.kind = "boot" => left' \in Seq(DOMAIN dat),
           stack # <<>> => /\ Top.todo # <<>> /\ Head1.nested = d
                           /\ Head1.layer \notin Ignored,
           UNCHANGED <<dat, job, health, status, origin, outcome>>
    PROVE  TestsInv'
<1> DEFINE n == Len(stack)
<1>1. /\ Typed /\ InPhase /\ TodoListed /\ TestedReported /\ TestedOnce /\ CallsNested
      /\ dat' = dat /\ job' = job
  BY DEF TestsInv
<1>2. /\ stack' \in Seq(Frames) /\ stack' # <<>>
      /\ DOMAIN stack' = 1 .. n + 1 /\ Len(stack') = n + 1
      /\ \A k \in DOMAIN stack : stack'[k] = stack[k]
      /\ stack'[n + 1] = [device |-> d, todo |-> dat[d].test, done |-> <<>>]
      /\ report' \in [DOMAIN report' -> Seq(Results)]
      /\ DOMAIN report' = {d} \cup DOMAIN report
      /\ report'[d] = <<>> /\ \A e \in DOMAIN report : report'[e] = report[e]
      /\ tested' = Append(tested, d) /\ tested' \in Seq(DOMAIN dat)
      /\ ret' = "none"
  BY <1>1, PerformBegins
<1>3. /\ stack \in Seq(Frames) /\ n \in Nat /\ DOMAIN stack = 1 .. n
      /\ tested \in Seq(DOMAIN dat)
  BY <1>1 DEF Typed
<1>4. Typed'
  BY <1>1, <1>2 DEF Typed, Frames
<1>5. InPhase'
  BY <1>1, <1>2 DEF InPhase
<1>6. TodoListed'
  <2> SUFFICES ASSUME NEW k \in DOMAIN stack', NEW j \in DOMAIN stack'[k].todo
               PROVE  \E i \in DOMAIN dat[stack'[k].device].test :
                         stack'[k].todo[j] = dat[stack'[k].device].test[i]
    BY <1>1 DEF TodoListed
  <2>1. CASE k = n + 1
    <3>1. stack'[k].device = d /\ stack'[k].todo = dat[d].test
      BY <1>2, <2>1
    <3> QED BY <3>1
  <2>2. CASE k # n + 1
    <3>1. k \in DOMAIN stack /\ stack'[k] = stack[k]
      BY <1>2, <1>3, <2>2
    <3>2. j \in DOMAIN stack[k].todo
      BY <3>1
    <3>3. \E i \in DOMAIN dat[stack[k].device].test :
             stack[k].todo[j] = dat[stack[k].device].test[i]
      BY <1>1, <3>1, <3>2 DEF TodoListed
    <3> QED BY <3>1, <3>3
  <2> QED BY <2>1, <2>2
<1>7. TestedReported' /\ TestedOnce'
  <2>1. /\ DOMAIN tested' = 1 .. Len(tested) + 1 /\ DOMAIN tested = 1 .. Len(tested)
        /\ Len(tested) \in Nat
        /\ \A i \in DOMAIN tested : tested'[i] = tested[i]
        /\ tested'[Len(tested) + 1] = d
    BY <1>2, <1>3
  <2>2. \A i \in DOMAIN tested : tested[i] # d
    BY <1>1 DEF TestedReported
  <2>3. TestedReported'
    BY <1>1, <1>2, <2>1 DEF TestedReported
  <2>4. TestedOnce'
    <3> SUFFICES ASSUME NEW i \in DOMAIN tested', NEW j \in DOMAIN tested',
                        tested'[i] = tested'[j]
                 PROVE  i = j
      BY DEF TestedOnce
    <3>1. CASE i \in DOMAIN tested /\ j \in DOMAIN tested
      BY <1>1, <2>1, <3>1 DEF TestedOnce
    <3>2. CASE i = Len(tested) + 1 \/ j = Len(tested) + 1
      BY <2>1, <2>2, <3>2
    <3> QED BY <2>1, <3>1, <3>2
  <2> QED BY <2>3, <2>4
<1>8. CallsNested'
  <2>1. \A k \in DOMAIN stack' : stack'[k].device \in DOMAIN report'
    <3> SUFFICES ASSUME NEW k \in DOMAIN stack'
                 PROVE  stack'[k].device \in DOMAIN report'
      OBVIOUS
    <3>1. CASE k = n + 1
      <4>1. stack'[k].device = d
        BY <1>2, <3>1
      <4> QED BY <1>2, <4>1
    <3>2. CASE k # n + 1
      <4>1. k \in DOMAIN stack /\ stack'[k] = stack[k]
        BY <1>2, <1>3, <3>2
      <4>2. stack[k].device \in DOMAIN report
        BY <1>1, <4>1 DEF CallsNested
      <4> QED BY <1>2, <4>1, <4>2
    <3> QED BY <3>1, <3>2
  <2>2. ASSUME NEW k \in DOMAIN stack', k + 1 \in DOMAIN stack'
        PROVE  /\ stack'[k].todo # <<>>
               /\ stack'[k].todo[1].nested = stack'[k + 1].device
               /\ stack'[k].todo[1].layer \notin Ignored
    <3>1. k \in 1 .. n
      BY <1>2, <1>3, <2>2
    <3>2. CASE k = n
      <4>1. stack # <<>> /\ stack'[k] = Top
        BY <1>2, <1>3, <3>1, <3>2 DEF Top
      <4>2. Head1 = Top.todo[1]
        BY <1>1, <4>1, TopIsFrame
      <4>3. stack'[k + 1].device = d
        BY <1>2, <3>2
      <4> QED BY <4>1, <4>2, <4>3
    <3>3. CASE k # n
      <4>1. /\ k \in DOMAIN stack /\ k + 1 \in DOMAIN stack
            /\ stack'[k] = stack[k] /\ stack'[k + 1] = stack[k + 1]
        BY <1>2, <1>3, <3>1, <3>3
      <4>2. /\ stack[k].todo # <<>>
            /\ stack[k].todo[1].nested = stack[k + 1].device
            /\ stack[k].todo[1].layer \notin Ignored
        BY <1>1, <4>1 DEF CallsNested
      <4> QED BY <4>1, <4>2
    <3> QED BY <3>2, <3>3
  <2>3. Ignored' = Ignored
    BY <1>1 DEF Ignored
  <2> QED BY <1>2, <2>1, <2>2, <2>3 DEF CallsNested
<1> QED BY <1>4, <1>5, <1>6, <1>7, <1>8 DEF TestsInv

\* By a step from one test point to the next.
LEMMA TurnKeeps ==
    ASSUME TestsInv, pc = "perform", Top.todo # <<>>,
           stack' \in Seq(Frames), DOMAIN stack' = DOMAIN stack, Len(stack') = Len(stack),
           \A k \in DOMAIN stack : k # Len(stack) => stack'[k] = stack[k],
           stack'[Len(stack)].device = Top.device,
           stack'[Len(stack)].todo = Tail(Top.todo),
           report' \in [DOMAIN report' -> Seq(Results)],
           DOMAIN report \subseteq DOMAIN report', DOMAIN report' \subseteq DOMAIN dat,
           ret' = "none",
           UNCHANGED <<dat, job, pc, left, health, status, origin, outcome, tested>>
    PROVE  TestsInv'
<1> DEFINE n == Len(stack)
<1>1. /\ Typed /\ InPhase /\ TodoListed /\ TestedReported /\ TestedOnce /\ CallsNested
      /\ dat' = dat /\ job' = job /\ tested' = tested
  BY DEF TestsInv
<1>2. stack # <<>>
  BY <1>1 DEF InPhase
<1>3. /\ n \in DOMAIN stack /\ n \in Nat /\ n > 0 /\ DOMAIN stack = 1 .. n
      /\ Top.todo \in Seq(TestPoints)
  BY <1>1, <1>2, TopIsFrame
<1>4. Typed'
  BY <1>1 DEF Typed, Frames
<1>5. InPhase'
  BY <1>1, <1>2, <1>3 DEF InPhase
<1>6. TodoListed'
  <2> SUFFICES ASSUME NEW k \in DOMAIN stack', NEW j \in DOMAIN stack'[k].todo
               PROVE  \E i \in DOMAIN dat[stack'[k].device].test :
                         stack'[k].todo[j] = dat[stack'[k].device].test[i]
    BY <1>1 DEF TodoListed
  <2>1. CASE k = n
    <3>1. j \in DOMAIN Tail(Top.todo)
      BY <2>1
    <3>2. j + 1 \in DOMAIN Top.todo /\ Tail(Top.todo)[j] = Top.todo[j + 1]
      <4> DEFINE todo == Top.todo
      <4>1. todo \in Seq(TestPoints) /\ todo # <<>> /\ j \in DOMAIN Tail(todo)
        BY <1>3, <3>1
      <4>2. /\ todo \in Seq(TestPoints) /\ Len(todo) \in Nat
            /\ Len(Tail(todo)) = Len(todo) - 1 /\ Tail(todo) \in Seq(TestPoints)
            /\ \A i \in 1 .. Len(Tail(todo)) : Tail(todo)[i] = todo[i + 1]
        <5> HIDE DEF todo
        <5> QED BY <4>1, HeadTailProperties
      <4>3. DOMAIN Tail(todo) = 1 .. Len(Tail(todo)) /\ DOMAIN todo = 1 .. Len(todo)
        <5> HIDE DEF todo
        <5> QED BY <4>2
      <4>4. j + 1 \in DOMAIN todo /\ Tail(todo)[j] = todo[j + 1]
        <5> HIDE DEF todo
        <5> QED BY <4>1, <4>2, <4>3
      <4> QED BY <4>4
    <3>3. \E i \in DOMAIN dat[Top.device].test : Top.todo[j + 1] = dat[Top.device].test[i]
      BY <1>1, <1>3, <3>2 DEF TodoListed, Top
    <3> QED BY <2>1, <3>2, <3>3
  <2>2. CASE k # n
    <3>1. k \in DOMAIN stack /\ stack'[k] = stack[k]
      BY <2>2
    <3>2. j \in DOMAIN stack[k].todo
      BY <3>1
    <3>3. \E i \in DOMAIN dat[stack[k].device].test :
             stack[k].todo[j] = dat[stack[k].device].test[i]
      BY <1>1, <3>1, <3>2 DEF TodoListed
    <3> QED BY <3>1, <3>3
  <2> QED BY <2>1, <2>2
<1>7. TestedReported' /\ TestedOnce'
  BY <1>1 DEF TestedReported, TestedOnce
<1>8. CallsNested'
  <2>1. ASSUME NEW k \in DOMAIN stack'
        PROVE  stack'[k].device = stack[k].device
    BY <1>3 DEF Top
  <2>2. \A k \in DOMAIN stack' : stack'[k].device \in DOMAIN report'
    BY <1>1, <2>1 DEF CallsNested
  <2>3. ASSUME NEW k \in DOMAIN stack', k + 1 \in DOMAIN stack'
        PROVE  /\ stack'[k].todo # <<>>
               /\ stack'[k].todo[1].nested = stack'[k + 1].device
               /\ stack'[k].todo[1].layer \notin Ignored
    <3>1. k \in DOMAIN stack /\ k + 1 \in DOMAIN stack /\ k # n
      BY <1>3, <2>3
    <3>2. stack'[k] = stack[k] /\ stack'[k + 1].device = stack[k + 1].device
      BY <2>1, <3>1
    <3> QED BY <1>1, <3>1, <3>2 DEF CallsNested
  <2>4. Ignored' = Ignored
    BY <1>1 DEF Ignored
  <2> QED BY <2>2, <2>3, <2>4 DEF CallsNested
<1> QED BY <1>4, <1>5, <1>6, <1>7, <1>8 DEF TestsInv

\* By the return of a call.
LEMMA ReturnKeeps ==
    ASSUME TestsInv, pc = "perform", stack' = Front(stack), pc' = After,
           report' \in [DOMAIN report' -> Seq(Results)],
           DOMAIN report' = DOMAIN report, ret' \in {"succ", "error"},
           UNCHANGED <<dat, job, left, health, status, origin, outcome, tested>>
    PROVE  TestsInv'
<1> DEFINE n == Len(stack)
<1>1. /\ Typed /\ InPhase /\ TodoListed /\ TestedReported /\ TestedOnce /\ CallsNested
      /\ dat' = dat /\ job' = job /\ tested' = tested
  BY DEF TestsInv
<1>2. stack # <<>>
  BY <1>1 DEF InPhase
<1>3. n \in DOMAIN stack /\ n \in Nat /\ n > 0 /\ DOMAIN stack = 1 .. n
  BY <1>1, <1>2, TopIsFrame
<1>4. /\ stack' \in Seq(Frames) /\ DOMAIN stack' = 1 .. n - 1 /\ Len(stack') = n - 1
      /\ \A k \in DOMAIN stack' : k \in DOMAIN stack /\ stack'[k] = stack[k]
      /\ stack' = <<>> <=> n = 1
  BY <1>1, <1>2, FramePopped
<1>5. job.kind \in {"trace", "boot", "process", "entries"}
  BY <1>1, JobIs DEF Typed
<1>6. Typed'
  BY <1>1, <1>4 DEF Typed, Frames, After
<1>7. InPhase'
  BY <1>1, <1>3, <1>4, <1>5 DEF InPhase, After
<1>8. TodoListed' /\ TestedReported' /\ TestedOnce'
  <2>1. TodoListed'
    <3> SUFFICES ASSUME NEW k \in DOMAIN stack', NEW j \in DOMAIN stack'[k].todo
                 PROVE  \E i \in DOMAIN dat[stack'[k].device].test :
                           stack'[k].todo[j] = dat[stack'[k].device].test[i]
      BY <1>1 DEF TodoListed
    <3>1. k \in DOMAIN stack /\ stack'[k] = stack[k]
      BY <1>4
    <3>2. j \in DOMAIN stack[k].todo
      BY <3>1
    <3>3. \E i \in DOMAIN dat[stack[k].device].test :
             stack[k].todo[j] = dat[stack[k].device].test[i]
      BY <1>1, <3>1, <3>2 DEF TodoListed
    <3> QED BY <3>1, <3>3
  <2>2. TestedReported' /\ TestedOnce'
    BY <1>1 DEF TestedReported, TestedOnce
  <2> QED BY <2>1, <2>2
<1>9. CallsNested'
  <2>1. \A k \in DOMAIN stack' : stack'[k].device \in DOMAIN report'
    BY <1>1, <1>4 DEF CallsNested
  <2>2. ASSUME NEW k \in DOMAIN stack', k + 1 \in DOMAIN stack'
        PROVE  /\ stack'[k].todo # <<>>
               /\ stack'[k].todo[1].nested = stack'[k + 1].device
               /\ stack'[k].todo[1].layer \notin Ignored
    BY <1>1, <1>4, <2>2 DEF CallsNested
  <2>3. ASSUME pc' = "perform"
        PROVE  /\ Top'.todo # <<>> /\ Head1'.nested \in DOMAIN report'
               /\ Head1'.layer \notin Ignored
    <3>1. n - 1 \in DOMAIN stack' /\ n - 1 \in DOMAIN stack
      BY <1>3, <1>4, <1>7, <2>3 DEF InPhase
    <3>2. Top' = stack[n - 1]
      BY <1>4, <3>1 DEF Top
    <3>3. /\ stack[n - 1].todo # <<>>
          /\ stack[n - 1].todo[1].nested = stack[n].device
          /\ stack[n - 1].todo[1].layer \notin Ignored
          /\ stack[n].device \in DOMAIN report
      <4>1. (n - 1) + 1 \in DOMAIN stack /\ (n - 1) + 1 = n
        BY <1>3
      <4> HIDE DEF n
      <4> QED BY <1>1, <1>3, <3>1, <4>1 DEF CallsNested
    <3>4. Head1' = stack[n - 1].todo[1]
      BY <3>2 DEF Head1
    <3> QED BY <3>2, <3>3, <3>4
  <2>4. Ignored' = Ignored
    BY <1>1 DEF Ignored
  <2> QED BY <2>1, <2>2, <2>3, <2>4 DEF CallsNested
<1> QED BY <1>6, <1>7, <1>8, <1>9 DEF TestsInv

\* SetToSeq lists a finite set.
LEMMA SetListed ==
    ASSUME NEW S, IsFiniteSet(S)
    PROVE  /\ SetToSeq(S) \in Seq(S)
           /\ \A x \in S : \E i \in DOMAIN SetToSeq(S) : SetToSeq(S)[i] = x
<1> DEFINE I == 1 .. Cardinality(S)
           f == SetToSeq(S)
<1>1. Cardinality(S) \in Nat /\ ExistsBijection(I, S)
  BY FS_CardinalityType
<1>2. \E g \in [I -> S] : IsInjective(g)
  BY <1>1 DEF ExistsBijection, Bijection, Injection
<1>3. f \in [I -> S] /\ IsInjective(f)
  BY <1>2 DEF SetToSeq
<1>4. f \in Injection(I, S)
  BY <1>3 DEF Injection
<1>5. Cardinality(I) = Cardinality(S)
  BY <1>1, FS_Interval
<1>6. f \in Surjection(I, S)
  <2> HIDE DEF f, I
  <2> QED BY <1>4, <1>5, FS_Injection
<1>7. f \in Seq(S) /\ DOMAIN f = I
  BY <1>1, <1>3
<1> QED BY <1>6, <1>7 DEF Surjection

LEMMA FiniteTree ==
    ASSUME Typed PROVE IsFiniteSet(DOMAIN dat)
BY TasksAssumption, FS_Subset DEF Typed, IsDat

LEMMA InitTests == Init => TestsInv
<1> SUFFICES ASSUME Init PROVE TestsInv
  OBVIOUS
<1>1. PICK task \in Tasks : dat = task[1] /\ job = task[2]
  BY DEF Init
<1>2. IsDat(dat) /\ job \in Jobs
  BY <1>1, TasksAssumption
<1>3. /\ pc = "start" /\ stack = <<>> /\ ret = "none" /\ report = [d \in {} |-> <<>>]
      /\ tested = <<>> /\ health = -1 /\ origin = None /\ outcome = "none"
      /\ status.originOfCondition = None
      /\ left = IF job.kind = "entries" THEN job.log ELSE <<>>
  BY DEF Init
<1>4. Typed
  BY <1>2, <1>3 DEF Typed
<1>5. InPhase
  BY <1>2, <1>3, JobIs DEF InPhase
<1>6. TodoListed /\ TestedReported /\ TestedOnce /\ CallsNested
  BY <1>3 DEF TodoListed, TestedReported, TestedOnce, CallsNested
<1> QED BY <1>4, <1>5, <1>6 DEF TestsInv

\* The steps that leave the calls and what has been tested alone.
LEMMA QuietKeeps ==
    ASSUME TestsInv, Typed', InPhase', pc' # "perform",
           DOMAIN report \subseteq DOMAIN report',
           UNCHANGED <<dat, job, stack, tested>>
    PROVE  TestsInv'
<1>1. Ignored' = Ignored
  BY DEF Ignored
<1>2. CallsNested'
  BY <1>1 DEF TestsInv, CallsNested
<1> QED BY <1>2 DEF TestsInv, TodoListed, TestedReported, TestedOnce

LEMMA NextTests == TestsInv /\ [Next]_vars => TestsInv'
<1> SUFFICES ASSUME TestsInv, [Next]_vars PROVE TestsInv'
  OBVIOUS
<1>1. Typed /\ InPhase /\ TodoListed /\ TestedReported /\ TestedOnce /\ CallsNested
  BY DEF TestsInv
<1>2. job.kind \in {"trace", "boot", "process", "entries"}
  BY <1>1, JobIs DEF Typed
<1>3. CASE Start
  <2>1. CASE job.device \notin DOMAIN dat
    <3>1. Typed' /\ InPhase'
      BY <1>1, <1>3, <2>1 DEF Start, Typed, InPhase, Frames
    <3> QED BY <1>1, <1>3, <2>1, <3>1, QuietKeeps DEF Start
  <2>2. CASE job.device \in DOMAIN dat /\ shouldSkip(job.device)
    <3>1. Typed' /\ InPhase'
      BY <1>1, <1>3, <2>2 DEF Start, Typed, InPhase, Frames
    <3> QED BY <1>1, <1>3, <2>2, <3>1, QuietKeeps DEF Start
  <2>3. CASE job.device \in DOMAIN dat /\ ~shouldSkip(job.device)
    <3>1. /\ Perform(job.device) /\ pc' = "perform" /\ stack = <<>>
          /\ job.kind \in {"trace", "process"} /\ job.device \notin DOMAIN report
          /\ UNCHANGED <<dat, job, health, status, origin, outcome>>
      BY <1>1, <1>3, <2>3 DEF Start, InPhase
    <3> QED BY <2>3, <3>1, BeginKeeps
  <2> QED BY <2>1, <2>2, <2>3
<1>4. CASE ResolveLogs
  <2>1. left' \in Seq(DOMAIN dat)
    BY <1>1, <1>4, FiniteTree, SetListed DEF ResolveLogs
  <2>2. Typed' /\ InPhase'
    BY <1>1, <1>4, <2>1 DEF ResolveLogs, Typed, InPhase, Frames
  <2> QED BY <1>1, <1>4, <2>2, QuietKeeps DEF ResolveLogs
<1>5. CASE NextDevice
  <2>1. /\ pc = "devices" /\ job.kind = "boot" /\ stack = <<>> /\ left \in Seq(DOMAIN dat)
        /\ UNCHANGED <<dat, job, health, status, origin>>
    BY <1>1, <1>5 DEF NextDevice, InPhase
  <2>2. CASE left = <<>> \/ ret = "error"
    <3>1. Typed' /\ InPhase'
      BY <1>1, <1>5, <2>1, <2>2 DEF NextDevice, Typed, InPhase, Frames
    <3> QED BY <1>1, <1>5, <2>2, <3>1, QuietKeeps DEF NextDevice
  <2>3. CASE /\ left # <<>> /\ ret # "error"
             /\ Head(left) \in DOMAIN report \/ shouldSkip(Head(left))
    <3>1. left' = Tail(left) /\ UNCHANGED <<pc, stack, report, tested, ret, outcome>>
      BY <1>5, <2>3 DEF NextDevice
    <3>2. left' \in Seq(DOMAIN dat)
      BY <2>1, <2>3, <3>1
    <3>3. Typed' /\ InPhase'
      BY <1>1, <2>1, <3>1, <3>2 DEF Typed, InPhase, Frames
    <3> QED BY <2>1, <3>1, <3>3, QuietKeeps
  <2>4. CASE /\ left # <<>> /\ ret # "error"
             /\ Head(left) \notin DOMAIN report /\ ~shouldSkip(Head(left))
    <3>1. /\ Perform(Head(left)) /\ pc' = "perform" /\ Head(left) \in DOMAIN dat
          /\ left' \in Seq(DOMAIN dat) /\ outcome' = outcome
      BY <1>5, <2>1, <2>4 DEF NextDevice
    <3>2. PICK d \in DOMAIN dat : d = Head(left)
      BY <3>1
    <3>3. d \notin DOMAIN report /\ Perform(d)
      BY <2>4, <3>1, <3>2
    <3> QED BY <2>1, <3>1, <3>3, BeginKeeps
  <2> QED BY <2>2, <2>3, <2>4
<1>6. CASE ResolveEntry
  <2>1. job.kind = "entries" /\ left \in Seq(Entries) /\ (left # <<>> => Tail(left) \in Seq(Entries))
    BY <1>1, <1>6 DEF ResolveEntry, InPhase
  <2>2. left' \in Seq(Entries) /\ pc' \in {"start", "done"} /\ pc = "start"
    BY <1>6, <2>1 DEF ResolveEntry
  <2>3. Typed' /\ InPhase'
    BY <1>1, <1>6, <2>1, <2>2 DEF ResolveEntry, Typed, InPhase, Frames
  <2> QED BY <1>1, <1>6, <2>2, <2>3, QuietKeeps DEF ResolveEntry
<1>7. CASE IgnoreLayer
  <2>1. stack # <<>> /\ Top.todo # <<>> /\ pc = "perform"
    BY <1>1, <1>7 DEF IgnoreLayer, InPhase
  <2> DEFINE n == Len(stack)
             f == [Top EXCEPT !.todo = Tail(Top.todo)]
  <2>2. /\ n \in DOMAIN stack /\ Top \in Frames /\ Tail(Top.todo) \in Seq(TestPoints)
        /\ stack \in Seq(Frames)
    BY <1>1, <2>1, TopIsFrame DEF Typed
  <2>3. f \in Frames /\ f.device = Top.device /\ f.todo = Tail(Top.todo)
    BY <2>2 DEF Frames
  <2>4. stack' = [stack EXCEPT ![n] = f]
    BY <1>7, <2>2 DEF IgnoreLayer, Top
  <2>5. /\ stack' \in Seq(Frames) /\ DOMAIN stack' = DOMAIN stack
        /\ Len(stack') = Len(stack)
        /\ \A k \in DOMAIN stack : k # Len(stack) => stack'[k] = stack[k]
        /\ stack'[n] = f
    <3> HIDE DEF f
    <3> QED BY <2>2, <2>3, <2>4, ExceptSeq
  <2>6. /\ report' \in [DOMAIN report' -> Seq(Results)]
        /\ DOMAIN report \subseteq DOMAIN report' /\ DOMAIN report' \subseteq DOMAIN dat
        /\ ret' = "none"
        /\ UNCHANGED <<dat, job, pc, left, health, status, origin, outcome, tested>>
    BY <1>1, <1>7 DEF IgnoreLayer, Typed
  <2> QED BY <2>1, <2>3, <2>5, <2>6, TurnKeeps
<1>8. CASE ReadTestPoint
  <2>1. stack # <<>> /\ Top.todo # <<>> /\ pc = "perform"
    BY <1>1, <1>8 DEF ReadTestPoint, AtTestPoint, InPhase
  <2>2. PICK value \in Values : Tested(fillTpRes(Head1, value))
    BY <1>8 DEF ReadTestPoint
  <2>3. fillTpRes(Head1, value) \in Results
    BY <1>1, <2>1, TopIsFrame DEF fillTpRes, Results, TestPoints, Values
  <2>4. PICK r \in Results : Tested(r)
    BY <2>2, <2>3
  <2>5. /\ stack' \in Seq(Frames) /\ DOMAIN stack' = DOMAIN stack
        /\ Len(stack') = Len(stack)
        /\ \A k \in DOMAIN stack : k # Len(stack) => stack'[k] = stack[k]
        /\ stack'[Len(stack)].device = Top.device
        /\ stack'[Len(stack)].todo = Tail(Top.todo)
    BY <1>1, <2>1, <2>4, ResultKept
  <2>6. /\ report' \in [DOMAIN report' -> Seq(Results)]
        /\ DOMAIN report \subseteq DOMAIN report' /\ DOMAIN report' \subseteq DOMAIN dat
        /\ ret' = "none"
        /\ UNCHANGED <<dat, job, pc, left, health, status, origin, outcome, tested>>
    BY <1>1, <1>8 DEF ReadTestPoint, AtTestPoint, Typed
  <2> QED BY <2>1, <2>5, <2>6, TurnKeeps
<1>9. CASE EnterNested
  <2>1. /\ stack # <<>> /\ Top.todo # <<>> /\ pc = "perform"
        /\ Head1.nested \in DOMAIN dat /\ Head1.layer \notin Ignored
        /\ Head1.nested \notin DOMAIN report /\ Perform(Head1.nested)
        /\ UNCHANGED <<dat, job, pc, left, health, status, origin, outcome>>
    BY <1>1, <1>9 DEF EnterNested, AtTestPoint, InPhase
  <2>2. PICK d \in DOMAIN dat : d = Head1.nested
    BY <2>1
  <2>3. Perform(d) /\ d \notin DOMAIN report
    BY <2>1, <2>2
  <2>4. /\ job.kind # "entries" /\ (job.kind # "boot" => job.device \in DOMAIN dat)
        /\ (job.kind = "boot" => left' \in Seq(DOMAIN dat))
    BY <1>1, <2>1 DEF InPhase
  <2> QED BY <2>1, <2>2, <2>3, <2>4, BeginKeeps
<1>10. ASSUME NestedKnown \/ NestedReturns
       PROVE  TestsInv'
  <2>1. /\ stack # <<>> /\ Top.todo # <<>> /\ pc = "perform"
        /\ Head1.nested \in DOMAIN dat
        /\ ret' = "none"
        /\ UNCHANGED <<dat, job, pc, left, health, status, origin, outcome, tested>>
    BY <1>1, <1>10 DEF NestedKnown, NestedReturns, AtTestPoint, InPhase, CallsNested, Typed
  <2>2. EvaluateNested("succ") \/ EvaluateNested(ret)
    BY <1>10 DEF NestedKnown, NestedReturns
  <2>3. PICK rc \in {"none", "succ", "error"} : EvaluateNested(rc)
    BY <1>1, <2>2 DEF Typed
  <2>4. /\ \E v \in Values : fillTpRes(Head1, v) \in Results /\ Tested(fillTpRes(Head1, v))
        /\ report' \in [DOMAIN report' -> Seq(Results)]
        /\ DOMAIN report' = {Head1.nested} \cup DOMAIN report
    BY <1>1, <2>1, <2>3, NestedEvaluated
  <2>5. PICK r \in Results : Tested(r)
    BY <2>4
  <2>6. /\ stack' \in Seq(Frames) /\ DOMAIN stack' = DOMAIN stack
        /\ Len(stack') = Len(stack)
        /\ \A k \in DOMAIN stack : k # Len(stack) => stack'[k] = stack[k]
        /\ stack'[Len(stack)].device = Top.device
        /\ stack'[Len(stack)].todo = Tail(Top.todo)
    BY <1>1, <2>1, <2>5, ResultKept
  <2>7. DOMAIN report' \subseteq DOMAIN dat
    BY <1>1, <2>1, <2>4 DEF Typed
  <2> QED BY <2>1, <2>4, <2>6, <2>7, TurnKeeps
<1>11. CASE NestedUnknown
  BY <1>1, <1>11, ReturnKeeps DEF NestedUnknown, AtTestPoint, Typed
<1>12. CASE PerformEnds
  <2>1. stack # <<>> /\ pc = "perform" /\ report' = reportWith(Top.device, Top.done)
    BY <1>1, <1>12 DEF PerformEnds, InPhase
  <2>2. Top.device \in DOMAIN report /\ Top.done \in Seq(Results)
    BY <1>1, <2>1, TopIsFrame DEF CallsNested, Top
  <2>3. report' \in [DOMAIN report' -> Seq(Results)] /\ DOMAIN report' = DOMAIN report
    BY <1>1, <2>1, <2>2 DEF reportWith, Typed
  <2> QED BY <1>12, <2>3, ReturnKeeps DEF PerformEnds
<1>13. CASE Trace
  <2>1. /\ pc = "trace" /\ job.kind = "trace" /\ job.device \in DOMAIN dat /\ stack = <<>>
    BY <1>1, <1>13 DEF Trace, InPhase
  <2>2. CASE ret = "error"
    <3>1. Typed' /\ InPhase'
      BY <1>1, <1>13, <2>1, <2>2 DEF Trace, Typed, InPhase, Frames
    <3> QED BY <1>1, <1>13, <2>1, <2>2, <3>1, QuietKeeps DEF Trace
  <2>3. CASE ret # "error"
    <3> DEFINE results == IF job.device \in DOMAIN report THEN report[job.device] ELSE <<>>
    <3>1. results \in Seq(Results)
      BY <1>1 DEF Typed
    <3>2. report' = reportWith(job.device, results)
      BY <1>13, <2>3 DEF Trace
    <3>3. report' \in [DOMAIN report' -> Seq(Results)]
          /\ DOMAIN report' = {job.device} \cup DOMAIN report
      <4> HIDE DEF results
      <4> QED BY <1>1, <3>1, <3>2 DEF reportWith, Typed
    <3>4. maxSeverity(results) \in Severities
      <4> DEFINE S == {0} \cup {results[i].severity : i \in {j \in DOMAIN results :
                        ~results[j].result /\ results[j].nested = None}}
      <4>1. S \subseteq Severities /\ S # {}
        <5>1. \A i \in DOMAIN results : results[i] \in Results
          BY <3>1
        <5>2. \A i \in DOMAIN results : results[i].severity \in Severities
          BY <5>1 DEF Results
        <5>3. 0 \in Severities
          BY DEF Severities
        <5> HIDE DEF results
        <5> QED BY <5>2, <5>3
      <4>2. \E s \in S : \A t \in S : t <= s
        BY <4>1 DEF Severities
      <4>3. getDeviceTestResult(results) = Worst(S)
        BY DEF getDeviceTestResult
      <4>4. Worst(S) \in Severities
        <5> HIDE DEF S
        <5> QED BY <4>1, <4>2 DEF Worst
      <4>5. getDeviceTestResult(results) \in Severities
        BY <4>3, <4>4
      <4>6. job.severity \in Severities
        BY <1>1, <2>1, JobIs DEF Typed
      <4> HIDE DEF results, S
      <4> QED BY <4>5, <4>6 DEF maxSeverity, Worst, Severities
    <3>5. health' \in Severities \cup {-1}
      BY <1>1, <1>13, <2>3, <3>4 DEF Trace, Typed
    <3>6. /\ pc' = "cause"
          /\ UNCHANGED <<dat, job, stack, ret, left, status, origin, outcome, tested>>
      BY <1>13, <2>3 DEF Trace
    <3>7. Typed' /\ InPhase'
      BY <1>1, <2>1, <3>3, <3>5, <3>6 DEF Typed, InPhase, Frames
    <3> QED BY <1>1, <3>3, <3>6, <3>7, QuietKeeps
  <2> QED BY <2>2, <2>3
<1>14. CASE Cause
  <2>1. /\ pc = "cause" /\ pc' = "done" /\ stack = <<>>
        /\ UNCHANGED <<dat, job, stack, ret, report, left, health, tested>>
    BY <1>1, <1>14 DEF Cause, InPhase
  <2>2. job.kind = "trace" => job.fixed \in Names \cup {None}
    BY <1>1, JobIs DEF Typed
  <2>3. DOMAIN report \subseteq DOMAIN dat /\ DOMAIN dat \subseteq Names
    BY <1>1 DEF Typed, IsDat
  <2>4. /\ origin' \in Names \cup {None} /\ status'.originOfCondition \in Names \cup {None}
        /\ outcome' \in {"none", "succ", "error", "exception"}
    <3>1. CASE UNCHANGED <<origin, status>> /\ outcome' = "exception"
      BY <1>1, <3>1 DEF Typed
    <3>2. CASE /\ outcome' = "succ"
               /\ origin' = IF job.fixed = None THEN findRootCauseGeneral ELSE job.fixed
               /\ status' = [triState |-> "Error", originOfCondition |->
                                IF origin' \in DOMAIN dat THEN origin' ELSE None]
               /\ job.fixed = None => findRootCauseGeneral \in DOMAIN report
      <4>1. job.kind = "trace"
        BY <1>1, <1>14 DEF Cause, InPhase
      <4> QED BY <2>2, <2>3, <3>2, <4>1
    <3> QED BY <1>14, <3>1, <3>2 DEF Cause
  <2>5. Typed' /\ InPhase'
    BY <1>1, <2>1, <2>4 DEF Typed, InPhase, Frames
  <2> QED BY <2>1, <2>5, QuietKeeps
<1>15. CASE Process
  <2>1. Typed' /\ InPhase'
    BY <1>1, <1>15 DEF Process, Typed, InPhase, Frames
  <2> QED BY <1>1, <1>15, <2>1, QuietKeeps DEF Process
<1>16. CASE UNCHANGED vars
  <2>1. Ignored' = Ignored /\ Top' = Top /\ Head1' = Head1
    BY <1>16 DEF vars, Ignored, Top, Head1
  <2> QED BY <1>1, <1>16, <2>1 DEF vars, TestsInv, Typed, InPhase, TodoListed,
             TestedReported, TestedOnce, CallsNested, Frames
<1> QED BY <1>3, <1>4, <1>5, <1>6, <1>7, <1>8, <1>9, <1>10, <1>11, <1>12, <1>13,
           <1>14, <1>15, <1>16 DEF Next

\* The inductive invariant of the tests: the recursion of Selftest::perform and
\* the loops around it, in every tree.
THEOREM TestsInvariant == Spec => []TestsInv
<1>1. Init => TestsInv
  BY InitTests
<1>2. TestsInv /\ [Next]_vars => TestsInv'
  BY NextTests
<1> QED BY <1>1, <1>2, PTL DEF Spec

\* TestsOK: no device is tested twice within a job, neither inside its own test
\* nor later, whatever circles the references make (selftest.cpp:318-359).
THEOREM NothingIsTestedTwice == Spec => []TestsOK
<1>1. TestsInv => TestsOK
  <2> SUFFICES ASSUME TestsInv PROVE TypeOK
    BY DEF TestsInv, TestsOK
  <2>1. Typed /\ InPhase
    BY DEF TestsInv
  <2>2. \A i \in DOMAIN stack : stack[i] \in Frames
    BY <2>1 DEF Typed
  <2>3. \A i \in DOMAIN stack : stack[i].device \in DOMAIN dat /\ stack[i].done \in Seq(Results)
    BY <2>2 DEF Frames
  <2>4. \A i \in DOMAIN stack : \A j \in DOMAIN stack[i].done : stack[i].done[j] \in Results
    BY <2>3
  <2>5. \A d \in DOMAIN report : report[d] \in Seq(Results)
    BY <2>1 DEF Typed
  <2>6. \A d \in DOMAIN report : \A j \in DOMAIN report[d] : report[d][j] \in Results
    BY <2>5
  <2> QED BY <2>1, <2>3, <2>4, <2>6 DEF TypeOK, Typed, InPhase
<1> QED BY <1>1, TestsInvariant, PTL

-----------------------------------------------------------------------------
(* resolveLogEntry                                                         *)

\* Every entry of the log has both properties.
LogComplete ==
    \A i \in DOMAIN job.log : /\ job.log[i].data # "none"
                              /\ job.log[i].resolved \in {"true", "false"}

\* The log from its end, as EntriesResolved counts it.
Backwards == Reverse(job.log)

OpenOnes(from) ==
    {i \in from .. Len(job.log) : /\ Backwards[i].data = "names"
                                  /\ Backwards[i].resolved = "false"}

\* What is left is the end of the log; what has been resolved is right so far.
EntriesInv ==
    job.kind = "entries" =>
        /\ Len(left) <= Len(job.log)
        /\ \A k \in 1 .. Len(left) : left[k] = job.log[Len(job.log) - Len(left) + k]
        /\ LogComplete => /\ resolved = OpenOnes(Len(left) + 1)
                          /\ pc = "done" => left = <<>>

LEMMA TreeAndJobStay ==
    ASSUME [Next]_vars PROVE dat' = dat /\ job' = job
<1>1. CASE Start \/ ResolveLogs \/ NextDevice \/ ResolveEntry
  BY <1>1 DEF Start, ResolveLogs, NextDevice, ResolveEntry
<1>2. CASE IgnoreLayer \/ ReadTestPoint
  BY <1>2 DEF IgnoreLayer, ReadTestPoint
<1>3. CASE EnterNested \/ NestedKnown \/ NestedReturns
  BY <1>3 DEF EnterNested, NestedKnown, NestedReturns
<1>4. CASE NestedUnknown \/ PerformEnds
  BY <1>4 DEF NestedUnknown, PerformEnds
<1>5. CASE Trace \/ Cause \/ Process
  BY <1>5 DEF Trace, Cause, Process
<1>6. CASE UNCHANGED vars
  BY <1>6 DEF vars
<1> QED BY <1>1, <1>2, <1>3, <1>4, <1>5, <1>6 DEF Next

LEMMA InitEntries == Init => EntriesInv
<1> SUFFICES ASSUME Init, job.kind = "entries" PROVE EntriesInv
  BY DEF EntriesInv
<1>1. job.log \in Seq(Entries)
  BY InitTests, JobIs DEF TestsInv, Typed
<1>2. left = job.log /\ resolved = {} /\ pc = "start"
  BY DEF Init
<1>3. OpenOnes(Len(left) + 1) = {}
  BY <1>1, <1>2 DEF OpenOnes
<1> QED BY <1>1, <1>2, <1>3 DEF EntriesInv

LEMMA NextEntries == TestsInv /\ EntriesInv /\ [Next]_vars => EntriesInv'
<1> SUFFICES ASSUME TestsInv, EntriesInv, [Next]_vars, job.kind = "entries",
                    job' = job
             PROVE  EntriesInv'
  BY TreeAndJobStay DEF EntriesInv
<1>1. pc \in {"start", "done"} /\ left \in Seq(Entries) /\ job.log \in Seq(Entries)
  BY JobIs DEF TestsInv, Typed, InPhase
<1>2. ResolveEntry \/ UNCHANGED <<pc, left, resolved>>
  BY <1>1 DEF Next, vars, Start, ResolveLogs, NextDevice, ResolveEntry, IgnoreLayer,
         ReadTestPoint, EnterNested, NestedKnown, NestedReturns, NestedUnknown,
         PerformEnds, Trace, Cause, Process, AtTestPoint
<1>3. CASE UNCHANGED <<pc, left, resolved>>
  BY <1>3 DEF EntriesInv, LogComplete, OpenOnes, Backwards
<1>4. CASE ResolveEntry
  <2> DEFINE n == Len(job.log)
             m == Len(left)
  <2>1. /\ m \in Nat /\ n \in Nat /\ m <= n
        /\ \A k \in 1 .. m : left[k] = job.log[n - m + k]
        /\ LogComplete => resolved = OpenOnes(m + 1)
        /\ LogComplete' = LogComplete
        /\ \A i : OpenOnes(i)' = OpenOnes(i)
    BY <1>1 DEF EntriesInv, LogComplete, OpenOnes, Backwards
  <2>2. CASE left = <<>>
    BY <1>1, <1>4, <2>1, <2>2 DEF ResolveEntry, EntriesInv
  <2>3. CASE left # <<>>
    <3> DEFINE e == Head(left)
    <3>1. /\ m > 0 /\ e = job.log[n - m + 1] /\ n - m + 1 \in DOMAIN job.log
          /\ Tail(left) \in Seq(Entries) /\ Len(Tail(left)) = m - 1
          /\ \A k \in 1 .. m - 1 : Tail(left)[k] = left[k + 1]
      BY <1>1, <2>1, <2>3
    <3>2. LogComplete => e.data # "none" /\ e.resolved \in {"true", "false"}
      BY <3>1 DEF LogComplete
    <3>3. CASE e.resolved = "odd"
      BY <1>4, <2>1, <2>3, <3>2, <3>3 DEF ResolveEntry, EntriesInv
    <3>4. CASE e.resolved # "odd"
      <4>1. left' = Tail(left) /\ pc' = pc /\ pc = "start"
        BY <1>4, <2>3, <3>4 DEF ResolveEntry
      <4>2. Len(left') = m - 1
        BY <3>1, <4>1
      <4>3. ASSUME NEW k \in 1 .. Len(left')
            PROVE  left'[k] = job.log[n - Len(left') + k]
        <5>1. k \in 1 .. m - 1 /\ k + 1 \in 1 .. m
          BY <2>1, <4>2
        <5>2. left'[k] = left[k + 1]
          BY <3>1, <4>1, <5>1
        <5>3. left[k + 1] = job.log[n - m + (k + 1)]
          BY <2>1, <5>1
        <5>4. n - m + (k + 1) = n - (m - 1) + k
          <6> HIDE DEF n, m
          <6> QED BY <2>1, <5>1
        <5> QED BY <4>2, <5>2, <5>3, <5>4
      <4>4. ASSUME LogComplete
            PROVE  resolved' = OpenOnes(m)
        <5>1. resolved' = IF e.resolved = "false" /\ e.data = "names"
                          THEN resolved \cup {m} ELSE resolved
          BY <1>4, <2>3, <3>2, <3>4, <4>4 DEF ResolveEntry
        <5>2. Backwards[m] = e /\ m \in 1 .. n
          BY <2>1, <3>1 DEF Backwards, Reverse
        <5>3. m .. n = {m} \cup ((m + 1) .. n)
          BY <2>1
        <5>4. OpenOnes(m) = IF e.resolved = "false" /\ e.data = "names"
                            THEN OpenOnes(m + 1) \cup {m} ELSE OpenOnes(m + 1)
          <6> HIDE DEF e, m
          <6> QED BY <5>2, <5>3 DEF OpenOnes
        <5> QED BY <2>1, <4>4, <5>1, <5>4
      <4>5. (m - 1) + 1 = m
        BY <2>1
      <4>6. Len(left') <= n
        BY <2>1, <4>2
      <4> HIDE DEF m, n, e
      <4> QED BY <2>1, <4>1, <4>2, <4>3, <4>4, <4>5, <4>6 DEF EntriesInv, n
    <3> QED BY <3>3, <3>4
  <2> QED BY <2>2, <2>3
<1> QED BY <1>2, <1>3, <1>4

\* EntriesResolved: for logs of any length, what one entry leaves behind in the
\* loop of resolveLogEntry (selftest.cpp:44-134) never decides about another
\* if every entry has both properties.
THEOREM OpenEntriesAreResolved == Spec => []EntriesResolved
<1>1. Init => EntriesInv
  BY InitEntries
<1>2. TestsInv /\ EntriesInv /\ [Next]_vars => EntriesInv'
  BY NextEntries
<1>3. TestsInv /\ EntriesInv => EntriesResolved
  <2> SUFFICES ASSUME TestsInv, EntriesInv, pc = "done", job.kind = "entries",
                      \A i \in DOMAIN Backwards : /\ Backwards[i].data # "none"
                                                  /\ Backwards[i].resolved \in {"true", "false"}
               PROVE  resolved = {i \in DOMAIN Backwards : /\ Backwards[i].data = "names"
                                                           /\ Backwards[i].resolved = "false"}
    BY DEF EntriesResolved, Backwards
  <2>1. job.log \in Seq(Entries)
    BY JobIs DEF TestsInv, Typed
  <2>2. DOMAIN Backwards = 1 .. Len(job.log)
        /\ \A i \in DOMAIN job.log : /\ Len(job.log) - i + 1 \in DOMAIN Backwards
                                     /\ Backwards[Len(job.log) - i + 1] = job.log[i]
    BY <2>1 DEF Backwards, Reverse
  <2>3. LogComplete
    <3> SUFFICES ASSUME NEW i \in DOMAIN job.log
                 PROVE  job.log[i].data # "none" /\ job.log[i].resolved \in {"true", "false"}
      BY DEF LogComplete
    <3>1. PICK j \in DOMAIN Backwards : Backwards[j] = job.log[i]
      BY <2>2
    <3> QED BY <3>1
  <2>4. resolved = OpenOnes(Len(left) + 1) /\ Len(left) = 0
    BY <2>3 DEF EntriesInv
  <2> QED BY <2>2, <2>4 DEF OpenOnes
<1> QED BY <1>1, <1>2, <1>3, TestsInvariant, PTL DEF Spec

-----------------------------------------------------------------------------
(* The selftest after a boot of the HMC                                    *)

Failed(r) == ~r.result /\ r.value # "empty"

\* A device without results is skipped, or is still to come.
ToBeTested(d) ==
    \/ shouldSkip(d)
    \/ d \in DOMAIN report
    \/ pc \in {"devices", "perform"} /\ \E i \in DOMAIN left : left[i] = d

\* Nothing has failed to give its failures to the event detection.
FailuresPushed ==
    /\ \A d \in DOMAIN report : \A i \in DOMAIN report[d] :
          Failed(report[d][i]) => <<d, i>> \in pushed
    /\ \A k \in DOMAIN stack : \A i \in DOMAIN stack[k].done :
          Failed(stack[k].done[i]) => <<stack[k].device, i>> \in pushed

BootInv ==
    job.kind = "boot" /\ WellFormed =>
        /\ ret # "error"
        /\ resolved \subseteq DOMAIN dat
        /\ pc # "start" => \A d \in DOMAIN dat : ToBeTested(d)
        /\ job.hmc => FailuresPushed

\* In a well-formed tree the test point at hand is a value or names a device.
LEMMA HeadListed ==
    ASSUME TestsInv, stack # <<>>, Top.todo # <<>>
    PROVE  /\ \E i \in DOMAIN dat[Top.device].test : Head1 = dat[Top.device].test[i]
           /\ WellFormed => Head1.nested \in DOMAIN dat \cup {None}
<1>1. /\ Len(stack) \in DOMAIN stack /\ 1 \in DOMAIN Top.todo /\ Head1 = Top.todo[1]
      /\ Top.device \in DOMAIN dat
  BY TopIsFrame DEF TestsInv
<1>2. PICK i \in DOMAIN dat[Top.device].test : Head1 = dat[Top.device].test[i]
  BY <1>1 DEF TestsInv, TodoListed, Top
<1>3. WellFormed => Head1.nested \in DOMAIN dat \cup {None}
  BY <1>1, <1>2 DEF WellFormed
<1> QED BY <1>2, <1>3

\* The failure of the test point at hand is pushed with its result.
LEMMA FailurePushed ==
    ASSUME TestsInv, stack # <<>>, Top.todo # <<>>, NEW r \in Results, Tested(r),
           job.kind = "boot", job.hmc, FailuresPushed,
           DOMAIN report \subseteq DOMAIN report',
           \A e \in DOMAIN report : report'[e] = report[e],
           \A e \in DOMAIN report' : e \in DOMAIN report \/ report'[e] = <<>>
    PROVE  FailuresPushed'
<1> DEFINE n == Len(stack)
<1>1. Typed
  BY DEF TestsInv
<1>2. /\ DOMAIN stack' = DOMAIN stack
      /\ \A k \in DOMAIN stack : k # n => stack'[k] = stack[k]
      /\ stack'[n].device = Top.device /\ stack'[n].done = Append(Top.done, r)
      /\ n \in DOMAIN stack /\ Top.done \in Seq(Results)
  BY <1>1, ResultKept, TopIsFrame
<1>3. /\ pushed \subseteq pushed'
      /\ Failed(r) => <<Top.device, Len(Top.done) + 1>> \in pushed'
  BY DEF Tested, Failed
<1>4. ASSUME NEW d \in DOMAIN report', NEW i \in DOMAIN report'[d], Failed(report'[d][i])
      PROVE  <<d, i>> \in pushed'
  <2>1. d \in DOMAIN report /\ report'[d] = report[d]
    OBVIOUS
  <2>2. i \in DOMAIN report[d] /\ Failed(report[d][i])
    BY <1>4, <2>1
  <2>3. <<d, i>> \in pushed
    BY <2>1, <2>2 DEF FailuresPushed
  <2> QED BY <1>3, <2>3
<1>5. ASSUME NEW k \in DOMAIN stack', NEW i \in DOMAIN stack'[k].done,
             Failed(stack'[k].done[i])
      PROVE  <<stack'[k].device, i>> \in pushed'
  <2>1. CASE k = n
    <3> DEFINE done == Top.done
    <3>1. done \in Seq(Results) /\ stack'[k].done = Append(done, r)
          /\ stack'[k].device = Top.device
      BY <1>2, <2>1
    <3>2. /\ DOMAIN Append(done, r) = 1 .. Len(done) + 1 /\ DOMAIN done = 1 .. Len(done)
          /\ Append(done, r)[Len(done) + 1] = r
          /\ \A j \in DOMAIN done : Append(done, r)[j] = done[j]
      <4> HIDE DEF done
      <4> QED BY <3>1
    <3>3. i \in DOMAIN Append(done, r) /\ Failed(Append(done, r)[i])
      BY <1>5, <3>1
    <3>4. CASE i = Len(done) + 1
      <4>1. Failed(r)
        BY <3>2, <3>3, <3>4
      <4> QED BY <1>3, <3>1, <3>4, <4>1
    <3>5. CASE i # Len(done) + 1
      <4>1. i \in DOMAIN done /\ Failed(done[i])
        <5>1. i \in DOMAIN done
          <6> HIDE DEF done
          <6> QED BY <3>1, <3>2, <3>3, <3>5
        <5> QED BY <3>2, <3>3, <5>1
      <4>2. <<Top.device, i>> \in pushed
        BY <1>2, <4>1 DEF FailuresPushed, Top
      <4> QED BY <1>3, <3>1, <4>2
    <3> QED BY <3>4, <3>5
  <2>2. CASE k # n
    <3>1. k \in DOMAIN stack /\ stack'[k] = stack[k]
      BY <1>2, <2>2
    <3>2. i \in DOMAIN stack[k].done /\ Failed(stack[k].done[i])
      BY <1>5, <3>1
    <3>3. <<stack[k].device, i>> \in pushed
      BY <3>1, <3>2 DEF FailuresPushed
    <3> QED BY <1>3, <3>1, <3>3
  <2> QED BY <2>1, <2>2
<1> QED BY <1>4, <1>5 DEF FailuresPushed

\* A test that begins has no results yet.
LEMMA NothingPushedYet ==
    ASSUME TestsInv, NEW d \in DOMAIN dat, d \notin DOMAIN report, Perform(d),
           FailuresPushed, pushed' = pushed
    PROVE  FailuresPushed'
<1> DEFINE n == Len(stack)
<1>1. Typed /\ DOMAIN stack = 1 .. n /\ n \in Nat
  BY DEF TestsInv, Typed
<1>2. /\ DOMAIN stack' = 1 .. n + 1
      /\ \A k \in DOMAIN stack : stack'[k] = stack[k]
      /\ stack'[n + 1] = [device |-> d, todo |-> dat[d].test, done |-> <<>>]
      /\ DOMAIN report' = {d} \cup DOMAIN report
      /\ report'[d] = <<>> /\ \A e \in DOMAIN report : report'[e] = report[e]
  BY <1>1, PerformBegins
<1>3. ASSUME NEW e \in DOMAIN report', NEW i \in DOMAIN report'[e], Failed(report'[e][i])
      PROVE  <<e, i>> \in pushed'
  <2>1. e \in DOMAIN report /\ report'[e] = report[e]
    BY <1>2
  <2>2. i \in DOMAIN report[e] /\ Failed(report[e][i])
    BY <1>3, <2>1
  <2> QED BY <2>1, <2>2 DEF FailuresPushed
<1>4. ASSUME NEW k \in DOMAIN stack', NEW i \in DOMAIN stack'[k].done,
             Failed(stack'[k].done[i])
      PROVE  <<stack'[k].device, i>> \in pushed'
  <2>1. k # n + 1
    BY <1>2
  <2>2. k \in DOMAIN stack /\ stack'[k] = stack[k]
    BY <1>1, <1>2, <2>1
  <2>3. i \in DOMAIN stack[k].done /\ Failed(stack[k].done[i])
    BY <1>4, <2>2
  <2>4. <<stack[k].device, i>> \in pushed
    BY <2>2, <2>3 DEF FailuresPushed
  <2> QED BY <2>2, <2>4
<1> QED BY <1>3, <1>4 DEF FailuresPushed

LEMMA NextBoot == TestsInv /\ BootInv /\ [Next]_vars => BootInv'
<1> SUFFICES ASSUME TestsInv, BootInv, [Next]_vars, job.kind = "boot", WellFormed,
                    dat' = dat, job' = job
             PROVE  BootInv'
  BY TreeAndJobStay DEF BootInv, WellFormed
<1>1. /\ Typed /\ InPhase /\ WellFormed' = WellFormed
      /\ ret # "error" /\ resolved \subseteq DOMAIN dat
      /\ pc # "start" => \A d \in DOMAIN dat : ToBeTested(d)
      /\ job.hmc => FailuresPushed
  BY DEF BootInv, TestsInv, WellFormed
<1>2. CASE ResolveLogs
  <2>1. left' = SetToSeq(DOMAIN dat) /\ pc' = "devices"
        /\ resolved' \subseteq DOMAIN dat
        /\ UNCHANGED <<ret, report, stack, pushed>>
    BY <1>2 DEF ResolveLogs
  <2>2. \A d \in DOMAIN dat : ToBeTested(d)'
    BY <1>1, <2>1, FiniteTree, SetListed DEF ToBeTested
  <2> QED BY <1>1, <2>1, <2>2 DEF BootInv, FailuresPushed
<1>3. CASE NextDevice
  <2>1. /\ pc = "devices" /\ left \in Seq(DOMAIN dat)
        /\ UNCHANGED <<resolved, pushed>>
    BY <1>1, <1>3 DEF NextDevice, InPhase
  <2>2. CASE left = <<>>
    <3>1. UNCHANGED <<stack, report, ret>> /\ pc' = "done"
      BY <1>3, <2>2 DEF NextDevice
    <3>2. \A d \in DOMAIN dat : ToBeTested(d)'
      BY <1>1, <2>1, <2>2, <3>1 DEF ToBeTested, shouldSkip
    <3> QED BY <1>1, <2>1, <3>1, <3>2 DEF BootInv, FailuresPushed
  <2>3. CASE left # <<>>
    <3>1. /\ left' = Tail(left) /\ Head(left) \in DOMAIN dat
          /\ \A i \in DOMAIN left : left[i] = Head(left) \/ \E j \in DOMAIN left' : left'[j] = left[i]
      <4>1. left' = Tail(left)
        BY <1>1, <1>3, <2>3 DEF NextDevice
      <4>2. /\ Len(left) \in Nat /\ Len(left) > 0 /\ Head(left) = left[1]
            /\ DOMAIN left = 1 .. Len(left) /\ DOMAIN Tail(left) = 1 .. Len(left) - 1
            /\ \A j \in 1 .. Len(left) - 1 : Tail(left)[j] = left[j + 1]
        BY <2>1, <2>3
      <4>3. ASSUME NEW i \in DOMAIN left, i # 1
            PROVE  i - 1 \in DOMAIN Tail(left) /\ Tail(left)[i - 1] = left[i]
        BY <4>2, <4>3
      <4>4. Head(left) \in DOMAIN dat
        BY <2>1, <2>3
      <4>5. ASSUME NEW i \in DOMAIN left
            PROVE  left[i] = Head(left) \/ \E j \in DOMAIN left' : left'[j] = left[i]
        <5>1. CASE i = 1
          BY <4>2, <5>1
        <5>2. CASE i # 1
          BY <4>1, <4>3, <5>2
        <5> QED BY <5>1, <5>2
      <4> QED BY <4>1, <4>4, <4>5
    <3>2. CASE Head(left) \in DOMAIN report \/ shouldSkip(Head(left))
      <4>1. UNCHANGED <<pc, stack, report, tested, ret>>
        BY <1>1, <1>3, <2>3, <3>2 DEF NextDevice
      <4>2. \A d \in DOMAIN dat : ToBeTested(d)'
        BY <1>1, <2>1, <3>1, <3>2, <4>1 DEF ToBeTested, shouldSkip
      <4> QED BY <1>1, <2>1, <4>1, <4>2 DEF BootInv, FailuresPushed
    <3>3. CASE Head(left) \notin DOMAIN report /\ ~shouldSkip(Head(left))
      <4>1. Perform(Head(left)) /\ pc' = "perform"
        BY <1>1, <1>3, <2>3, <3>3 DEF NextDevice
      <4>2. PICK d \in DOMAIN dat : d = Head(left)
        BY <3>1
      <4>3. d \notin DOMAIN report /\ Perform(d)
        BY <3>3, <4>1, <4>2
      <4>4. DOMAIN report' = {d} \cup DOMAIN report /\ ret' = "none"
        BY <1>1, <4>3, PerformBegins
      <4>5. \A e \in DOMAIN dat : ToBeTested(e)'
        BY <1>1, <2>1, <3>1, <4>1, <4>2, <4>4 DEF ToBeTested, shouldSkip
      <4>6. job.hmc => FailuresPushed'
        BY <1>1, <2>1, <4>3, NothingPushedYet
      <4> QED BY <1>1, <2>1, <4>4, <4>5, <4>6 DEF BootInv
    <3> QED BY <3>2, <3>3
  <2> QED BY <2>2, <2>3
<1>4. CASE IgnoreLayer
  <2>1. /\ UNCHANGED <<pc, left, report, ret, resolved, pushed>>
        /\ stack # <<>>
        /\ stack' = [stack EXCEPT ![Len(stack)].todo = Tail(@)]
    BY <1>1, <1>4 DEF IgnoreLayer, InPhase
  <2>2. stack \in Seq(Frames) /\ Len(stack) \in DOMAIN stack
    BY <1>1, <2>1, TopIsFrame DEF Typed
  <2>3. ASSUME NEW k \in DOMAIN stack
        PROVE  stack'[k].device = stack[k].device /\ stack'[k].done = stack[k].done
    <3>1. stack[k] \in Frames
      BY <2>2
    <3> QED BY <2>1, <2>2, <3>1 DEF Frames
  <2>4. DOMAIN stack' = DOMAIN stack
    BY <2>1
  <2>5. FailuresPushed => FailuresPushed'
    BY <2>1, <2>3, <2>4 DEF FailuresPushed
  <2> QED BY <1>1, <2>1, <2>5 DEF BootInv, ToBeTested, shouldSkip
<1>5. CASE ReadTestPoint
  <2>1. /\ UNCHANGED <<pc, left, report, ret, resolved>>
        /\ stack # <<>> /\ Top.todo # <<>>
    BY <1>1, <1>5 DEF ReadTestPoint, AtTestPoint, InPhase
  <2>2. PICK value \in Values : Tested(fillTpRes(Head1, value))
    BY <1>5 DEF ReadTestPoint
  <2>3. fillTpRes(Head1, value) \in Results
    BY <1>1, <2>1, TopIsFrame DEF fillTpRes, Results, TestPoints, Values
  <2>4. PICK r \in Results : Tested(r)
    BY <2>2, <2>3
  <2>5. job.hmc => FailuresPushed'
    BY <1>1, <2>1, <2>4, FailurePushed
  <2> QED BY <1>1, <2>1, <2>5 DEF BootInv, ToBeTested, shouldSkip
<1>6. CASE EnterNested
  <2>1. PICK d \in DOMAIN dat : d = Head1.nested
    BY <1>6 DEF EnterNested
  <2>2. /\ d \notin DOMAIN report /\ Perform(d)
        /\ UNCHANGED <<pc, left, resolved, pushed>>
    BY <1>6, <2>1 DEF EnterNested
  <2>3. DOMAIN report' = {d} \cup DOMAIN report /\ ret' = "none"
    BY <1>1, <2>2, PerformBegins
  <2>4. job.hmc => FailuresPushed'
    BY <1>1, <2>2, NothingPushedYet
  <2> QED BY <1>1, <2>2, <2>3, <2>4 DEF BootInv, ToBeTested, shouldSkip
<1>7. ASSUME NestedKnown \/ NestedReturns
      PROVE  BootInv'
  <2>1. /\ stack # <<>> /\ Top.todo # <<>> /\ Head1.nested \in DOMAIN dat
        /\ ret' = "none" /\ UNCHANGED <<pc, left, resolved>>
        /\ EvaluateNested("succ") \/ EvaluateNested(ret)
    BY <1>1, <1>7 DEF NestedKnown, NestedReturns, AtTestPoint, InPhase, CallsNested,
                      Typed, TestsInv
  <2>2. PICK rc \in {"none", "succ", "error"} : EvaluateNested(rc)
    BY <1>1, <2>1 DEF Typed
  <2>3. /\ \E v \in Values : fillTpRes(Head1, v) \in Results /\ Tested(fillTpRes(Head1, v))
        /\ DOMAIN report' = {Head1.nested} \cup DOMAIN report
        /\ \A e \in DOMAIN report : report'[e] = report[e]
        /\ Head1.nested \notin DOMAIN report => report'[Head1.nested] = <<>>
    BY <1>1, <2>1, <2>2, NestedEvaluated
  <2>4. PICK r \in Results : Tested(r)
    BY <2>3
  <2>5. job.hmc => FailuresPushed'
    BY <1>1, <2>1, <2>3, <2>4, FailurePushed
  <2> QED BY <1>1, <2>1, <2>3, <2>5 DEF BootInv, ToBeTested, shouldSkip
<1>8. CASE NestedUnknown
  BY <1>1, <1>8, HeadListed DEF NestedUnknown, AtTestPoint, InPhase
<1>9. CASE PerformEnds
  <2>1. /\ stack # <<>> /\ stack' = Front(stack) /\ ret' = "succ" /\ pc = "perform"
        /\ report' = reportWith(Top.device, Top.done)
        /\ UNCHANGED <<left, resolved, pushed>>
    BY <1>1, <1>9 DEF PerformEnds, InPhase
  <2>2. pc' \in {"devices", "perform"}
    BY <1>9 DEF PerformEnds, After
  <2>3. /\ DOMAIN report' = DOMAIN report \cup {Top.device}
        /\ report'[Top.device] = Top.done
        /\ \A e \in DOMAIN report : e # Top.device => report'[e] = report[e]
    BY <2>1 DEF reportWith
  <2>4. \A k \in DOMAIN stack' : k \in DOMAIN stack /\ stack'[k] = stack[k]
    BY <1>1, <2>1, FramePopped
  <2>5. ASSUME FailuresPushed PROVE FailuresPushed'
    <3>1. ASSUME NEW d \in DOMAIN report', NEW i \in DOMAIN report'[d], Failed(report'[d][i])
          PROVE  <<d, i>> \in pushed'
      <4>1. CASE d = Top.device
        <5>1. Len(stack) \in DOMAIN stack
          BY <1>1, <2>1, TopIsFrame
        <5>2. i \in DOMAIN Top.done /\ Failed(Top.done[i])
          BY <2>3, <3>1, <4>1
        <5> QED BY <2>1, <2>5, <4>1, <5>1, <5>2 DEF FailuresPushed, Top
      <4>2. CASE d # Top.device
        <5>1. d \in DOMAIN report /\ report'[d] = report[d]
          BY <2>3, <4>2
        <5>2. i \in DOMAIN report[d] /\ Failed(report[d][i])
          BY <3>1, <5>1
        <5> QED BY <2>1, <2>5, <5>1, <5>2 DEF FailuresPushed
      <4> QED BY <4>1, <4>2
    <3>2. ASSUME NEW k \in DOMAIN stack', NEW i \in DOMAIN stack'[k].done,
                 Failed(stack'[k].done[i])
          PROVE  <<stack'[k].device, i>> \in pushed'
      <4>1. k \in DOMAIN stack /\ stack'[k] = stack[k]
        BY <2>4
      <4>2. i \in DOMAIN stack[k].done /\ Failed(stack[k].done[i])
        BY <3>2, <4>1
      <4>3. <<stack[k].device, i>> \in pushed
        BY <2>5, <4>1, <4>2 DEF FailuresPushed
      <4> QED BY <2>1, <4>1, <4>3
    <3> QED BY <3>1, <3>2 DEF FailuresPushed
  <2> QED BY <1>1, <2>1, <2>2, <2>3, <2>5 DEF BootInv, ToBeTested, shouldSkip
<1>10. CASE UNCHANGED vars
  BY <1>1, <1>10 DEF vars, BootInv, ToBeTested, shouldSkip, FailuresPushed
<1>11. ~Start /\ ~ResolveEntry /\ ~Trace /\ ~Cause /\ ~Process
  BY <1>1 DEF Start, ResolveEntry, Trace, Cause, Process, InPhase
<1> QED BY <1>2, <1>3, <1>4, <1>5, <1>6, <1>7, <1>8, <1>9, <1>10, <1>11 DEF Next

\* ResolvedIsTestedAgain: in every well-formed tree, after a boot of the HMC
\* every failed test point of a device whose entries performEntireTree has
\* resolved (selftest.cpp:389-420) has reached the event detection again.
THEOREM NothingResolvedIsForgotten == Spec => []ResolvedIsTestedAgain
<1>1. Init => BootInv
  BY DEF Init, BootInv, FailuresPushed
<1>2. TestsInv /\ BootInv /\ [Next]_vars => BootInv'
  BY NextBoot
<1>3. TestsInv /\ BootInv => ResolvedIsTestedAgain
  BY DEF ResolvedIsTestedAgain, BootInv, ToBeTested, FailuresPushed, Failed
<1> QED BY <1>1, <1>2, <1>3, TestsInvariant, PTL DEF Spec

-----------------------------------------------------------------------------
(* References agree with the devices they name                             *)

OnStack(d) == \E k \in DOMAIN stack : stack[k].device = d

\* The calls follow references and never meet.
StackIsPath ==
    /\ \A i, j \in DOMAIN stack : i <= j =>
          stack[j].device \in Within(dat, stack[i].device, Layers \ Ignored, j - i)
    /\ \A i, j \in DOMAIN stack : stack[i].device = stack[j].device => i = j

\* The result r of device d is that of a device whose results are final.
Agrees(d, r) ==
    \/ r.nested = None
    \/ Reaches(r.nested, d)
    \/ /\ r.nested \in DOMAIN report /\ ~OnStack(r.nested)
       /\ r.value = "expected" <=> evaluateDevice(report[r.nested])

AgreeInv ==
    WellFormed =>
        /\ ret # "error"
        /\ pc = "perform" /\ ret # "none" => ~OnStack(Head1.nested)
        /\ StackIsPath
        /\ \A d \in DOMAIN report : \A i \in DOMAIN report[d] : Agrees(d, report[d][i])
        /\ \A k \in DOMAIN stack : \A i \in DOMAIN stack[k].done :
              Agrees(stack[k].device, stack[k].done[i])

\* A call for the device that the test point at hand names extends the path.
LEMMA PathExtended ==
    ASSUME TestsInv, StackIsPath, NEW d \in DOMAIN dat, d \notin DOMAIN report, Perform(d),
           stack # <<>> => /\ Top.todo # <<>> /\ Head1.nested = d
                           /\ Head1.layer \notin Ignored,
           dat' = dat, job' = job
    PROVE  StackIsPath'
<1> DEFINE n == Len(stack)
           c == Layers \ Ignored
<1>1. /\ Typed /\ DOMAIN stack = 1 .. n /\ n \in Nat /\ d \in Names
      /\ Ignored' = Ignored /\ IsDat(dat)
      /\ \A i \in DOMAIN stack : stack[i].device \in Names /\ stack[i].device \in DOMAIN report
  BY DEF TestsInv, Typed, Ignored, IsDat, CallsNested
<1>2. /\ DOMAIN stack' = 1 .. n + 1
      /\ \A k \in DOMAIN stack : stack'[k] = stack[k]
      /\ stack'[n + 1].device = d
  <2>1. /\ DOMAIN stack' = 1 .. n + 1
        /\ \A k \in DOMAIN stack : stack'[k] = stack[k]
        /\ stack'[n + 1] = [device |-> d, todo |-> dat[d].test, done |-> <<>>]
    BY <1>1, PerformBegins
  <2> HIDE DEF n
  <2> QED BY <2>1
<1>3. ASSUME NEW i \in DOMAIN stack', NEW j \in DOMAIN stack', i <= j
      PROVE  stack'[j].device \in Within(dat, stack'[i].device, c, j - i)
  <2>1. CASE j # n + 1
    <3>1. /\ i \in DOMAIN stack /\ j \in DOMAIN stack
          /\ stack'[i] = stack[i] /\ stack'[j] = stack[j]
      BY <1>1, <1>2, <1>3, <2>1
    <3>2. stack[j].device \in Within(dat, stack[i].device, c, j - i)
      BY <1>3, <3>1 DEF StackIsPath
    <3> QED BY <3>1, <3>2
  <2>2. CASE j = n + 1 /\ i = n + 1
    <3>1. stack'[j].device = d /\ stack'[i].device = d /\ j - i = 0
      BY <1>1, <1>2, <2>2
    <3>2. Within(dat, d, c, 0) = {d}
      <4> HIDE DEF c
      <4> QED BY <1>1, WithinUnfolds
    <3> QED BY <3>1, <3>2
  <2>3. CASE j = n + 1 /\ i # n + 1
    <3>1. /\ i \in DOMAIN stack /\ n \in DOMAIN stack /\ i <= n /\ n - i \in Nat
          /\ stack # <<>> /\ stack'[i] = stack[i] /\ stack'[j].device = d
      BY <1>1, <1>2, <1>3, <2>3
    <3>2. Top.device \in Within(dat, stack[i].device, c, n - i)
      BY <3>1 DEF StackIsPath, Top
    <3>3. d \in Refers(dat, Top.device, c)
      <4>1. PICK l \in DOMAIN dat[Top.device].test : Head1 = dat[Top.device].test[l]
        BY <3>1, HeadListed
      <4>2. Top.device \in DOMAIN dat /\ Head1 \in TestPoints /\ d # None
        BY <1>1, <3>1, TopIsFrame, NoneIsNoName
      <4>3. Head1.layer \in c
        BY <3>1, <4>2 DEF TestPoints
      <4> QED BY <3>1, <4>1, <4>2, <4>3 DEF Refers
    <3>4. c \in SUBSET Layers /\ c # {}
      <4>1. "pin_status" \in c
        BY DEF Layers, Ignored
      <4> QED BY <4>1
    <3>5. d \in Within(dat, stack[i].device, c, (n - i) + 1)
      <4> HIDE DEF c, n
      <4>1. stack[i].device \in Names
        BY <1>1, <3>1
      <4>2. PICK root \in Names : root = stack[i].device
        BY <4>1
      <4>3. PICK x : x = Top.device
        OBVIOUS
      <4>4. PICK k \in Nat : k = n - i
        BY <3>1
      <4>5. PICK t : t = dat
        OBVIOUS
      <4>6. PICK b \in SUBSET Layers : b = c /\ b # {}
        BY <3>4
      <4>7. /\ x \in Within(t, root, b, k) /\ d \in Refers(t, x, b) /\ IsDat(t)
        BY <1>1, <3>2, <3>3, <4>2, <4>3, <4>4, <4>5, <4>6
      <4>8. d \in Within(t, root, b, k + 1)
        BY <4>6, <4>7, WithinLeadsOn
      <4> QED BY <4>2, <4>4, <4>5, <4>6, <4>8
    <3>6. (n - i) + 1 = j - i
      BY <1>1, <2>3, <3>1
    <3> HIDE DEF c, n
    <3> QED BY <3>1, <3>5, <3>6
  <2> QED BY <2>1, <2>2, <2>3
<1>4. ASSUME NEW i \in DOMAIN stack', NEW j \in DOMAIN stack',
             stack'[i].device = stack'[j].device
      PROVE  i = j
  <2>1. CASE i # n + 1 /\ j # n + 1
    <3>1. /\ i \in DOMAIN stack /\ j \in DOMAIN stack
          /\ stack'[i] = stack[i] /\ stack'[j] = stack[j]
      BY <1>1, <1>2, <2>1
    <3> QED BY <1>4, <3>1 DEF StackIsPath
  <2>2. \A k \in DOMAIN stack' : k # n + 1 => stack'[k].device # d
    <3> SUFFICES ASSUME NEW k \in DOMAIN stack', k # n + 1
                 PROVE  stack'[k].device # d
      OBVIOUS
    <3>1. k \in DOMAIN stack /\ stack'[k] = stack[k]
      BY <1>1, <1>2
    <3> QED BY <1>1, <3>1
  <2> QED BY <1>2, <1>4, <2>1, <2>2
<1> QED BY <1>1, <1>3, <1>4 DEF StackIsPath

\* What calls the device under test is led to it: the path is no longer than
\* there are names.
LEMMA CallersReach ==
    ASSUME TestsInv, StackIsPath, NEW k \in DOMAIN stack
    PROVE  Reaches(stack[k].device, Top.device)
<1> DEFINE n == Len(stack)
           f == [i \in 1 .. n |-> stack[i].device]
           c == Layers \ Ignored
<1>1. /\ Typed /\ DOMAIN stack = 1 .. n /\ n \in Nat /\ IsDat(dat)
      /\ \A i \in DOMAIN stack : stack[i].device \in Names
  BY DEF TestsInv, Typed, IsDat, CallsNested
<1>2. f \in Injection(1 .. n, Names)
  <2>1. f \in [1 .. n -> Names]
    BY <1>1
  <2>2. IsInjective(f)
    <3> SUFFICES ASSUME NEW i \in 1 .. n, NEW j \in 1 .. n, f[i] = f[j]
                 PROVE  i = j
      BY DEF IsInjective
    <3> QED BY <1>1 DEF StackIsPath
  <2> HIDE DEF f, n
  <2> QED BY <2>1, <2>2 DEF Injection
<1>3. n <= Cardinality(Names) /\ Cardinality(Names) \in Nat
  <2>1. IsFiniteSet(Names)
    BY TasksAssumption
  <2>2. Cardinality(1 .. n) <= Cardinality(Names)
    <3> HIDE DEF f, n
    <3>1. PICK g, m : g = f /\ m = n
      OBVIOUS
    <3>2. g \in Injection(1 .. m, Names)
      BY <1>2, <3>1
    <3>3. Cardinality(1 .. m) <= Cardinality(Names)
      BY <2>1, <3>2, FS_Injection
    <3> QED BY <3>1, <3>3
  <2>3. Cardinality(1 .. n) = n
    <3> HIDE DEF n
    <3>1. PICK m \in Nat : m = n
      BY <1>1
    <3>2. Cardinality(1 .. m) = m
      BY FS_Interval
    <3> QED BY <3>1, <3>2
  <2>4. Cardinality(Names) \in Nat
    BY <2>1, FS_CardinalityType
  <2> QED BY <2>2, <2>3, <2>4
<1>4. Top.device \in Within(dat, stack[k].device, c, n - k)
  <2>1. n \in DOMAIN stack /\ k <= n
    BY <1>1
  <2> QED BY <2>1 DEF StackIsPath, Top
<1>5. PICK m, root, t, b :
        /\ m \in Nat /\ m = n - k
        /\ root \in Names /\ root = stack[k].device
        /\ t = dat /\ b = c
  <2>1. n - k \in Nat /\ stack[k].device \in Names
    BY <1>1
  <2> HIDE DEF n, c
  <2> QED BY <2>1
<1>6. Within(t, root, b, m) \subseteq Within(t, root, b, Cardinality(Names))
  <2>1. m <= Cardinality(Names) /\ IsDat(t)
    BY <1>1, <1>3, <1>5
  <2> QED BY <1>3, <1>5, <2>1, WithinGrows
<1> QED BY <1>4, <1>5, <1>6 DEF Reaches

\* Agrees in the state that a step leads to.
AgreesThen(d, r) ==
    \/ r.nested = None
    \/ Reaches(r.nested, d)
    \/ /\ r.nested \in DOMAIN report'
       /\ \A k \in DOMAIN stack' : stack'[k].device # r.nested
       /\ r.value = "expected" <=> evaluateDevice(report'[r.nested])

\* Results that are final stay as they are.
FinalStays ==
    \A e \in DOMAIN report : ~OnStack(e) =>
        /\ e \in DOMAIN report' /\ report'[e] = report[e]
        /\ \A k \in DOMAIN stack' : stack'[k].device # e

LEMMA AgreesStays ==
    ASSUME FinalStays, NEW d, NEW r, Agrees(d, r)
    PROVE  AgreesThen(d, r)
BY DEF FinalStays, Agrees, AgreesThen

\* So that it is enough to show where each result comes from.
LEMMA AgreeStep ==
    ASSUME AgreeInv, WellFormed, FinalStays, dat' = dat, job' = job,
           ret' # "error", StackIsPath',
           pc' = "perform" /\ ret' # "none" =>
               \A k \in DOMAIN stack' : stack'[k].device # Head1'.nested,
           \A d \in DOMAIN report' : \A i \in DOMAIN report'[d] :
               \/ AgreesThen(d, report'[d][i])
               \/ d \in DOMAIN report /\ report'[d] = report[d],
           \A k \in DOMAIN stack' : \A i \in DOMAIN stack'[k].done :
               \/ AgreesThen(stack'[k].device, stack'[k].done[i])
               \/ /\ k \in DOMAIN stack /\ stack'[k].device = stack[k].device
                  /\ stack'[k].done = stack[k].done
    PROVE  AgreeInv'
<1>1. ASSUME NEW d \in DOMAIN report', NEW i \in DOMAIN report'[d]
      PROVE  AgreesThen(d, report'[d][i])
  <2>1. CASE d \in DOMAIN report /\ report'[d] = report[d]
    <3>1. PICK r : r = report[d][i]
      OBVIOUS
    <3>2. Agrees(d, r)
      BY <2>1, <3>1 DEF AgreeInv
    <3>3. AgreesThen(d, r)
      BY <3>2, AgreesStays
    <3> QED BY <2>1, <3>1, <3>3
  <2> QED BY <2>1
<1>2. ASSUME NEW k \in DOMAIN stack', NEW i \in DOMAIN stack'[k].done
      PROVE  AgreesThen(stack'[k].device, stack'[k].done[i])
  <2>1. CASE /\ k \in DOMAIN stack /\ stack'[k].device = stack[k].device
             /\ stack'[k].done = stack[k].done
    <3>1. PICK d, r : d = stack[k].device /\ r = stack[k].done[i]
      OBVIOUS
    <3>2. Agrees(d, r)
      BY <2>1, <3>1 DEF AgreeInv
    <3>3. AgreesThen(d, r)
      BY <3>2, AgreesStays
    <3> QED BY <2>1, <3>1, <3>3
  <2> QED BY <2>1
<1>3. /\ Ignored' = Ignored /\ WellFormed' = WellFormed
      /\ \A e, d : Reaches(e, d)' <=> Reaches(e, d)
  BY DEF Ignored, WellFormed, Reaches
<1>4. \A d \in DOMAIN report' : \A i \in DOMAIN report'[d] : Agrees(d, report[d][i])'
  <2> SUFFICES ASSUME NEW d \in DOMAIN report', NEW i \in DOMAIN report'[d]
               PROVE  Agrees(d, report[d][i])'
    OBVIOUS
  <2>1. AgreesThen(d, report'[d][i])
    BY <1>1
  <2>2. Reaches(report'[d][i].nested, d) => Reaches(report[d][i].nested, d)'
    BY <1>3 DEF Reaches
  <2> QED BY <2>1, <2>2 DEF Agrees, AgreesThen, OnStack
<1>5. \A k \in DOMAIN stack' : \A i \in DOMAIN stack'[k].done :
         Agrees(stack[k].device, stack[k].done[i])'
  <2> SUFFICES ASSUME NEW k \in DOMAIN stack', NEW i \in DOMAIN stack'[k].done
               PROVE  Agrees(stack[k].device, stack[k].done[i])'
    OBVIOUS
  <2>1. AgreesThen(stack'[k].device, stack'[k].done[i])
    BY <1>2
  <2>2. Reaches(stack'[k].done[i].nested, stack'[k].device)
           => Reaches(stack[k].done[i].nested, stack[k].device)'
    BY <1>3 DEF Reaches
  <2> QED BY <2>1, <2>2 DEF Agrees, AgreesThen, OnStack
<1> QED BY <1>4, <1>5 DEF AgreeInv, OnStack

\* A test that begins is of a device nothing has agreed with.
LEMMA BeginAgrees ==
    ASSUME TestsInv, AgreeInv, WellFormed,
           NEW d \in DOMAIN dat, d \notin DOMAIN report, Perform(d),
           stack # <<>> => /\ Top.todo # <<>> /\ Head1.nested = d
                           /\ Head1.layer \notin Ignored,
           dat' = dat, job' = job
    PROVE  AgreeInv'
<1> DEFINE n == Len(stack)
<1>1. /\ Typed /\ DOMAIN stack = 1 .. n /\ n \in Nat /\ StackIsPath
  BY DEF TestsInv, Typed, AgreeInv
<1>2. /\ DOMAIN stack' = 1 .. n + 1
      /\ \A k \in DOMAIN stack : stack'[k] = stack[k]
      /\ stack'[n + 1] = [device |-> d, todo |-> dat[d].test, done |-> <<>>]
      /\ DOMAIN report' = {d} \cup DOMAIN report /\ report'[d] = <<>>
      /\ \A e \in DOMAIN report : report'[e] = report[e]
      /\ ret' = "none"
  BY <1>1, PerformBegins
<1>3. StackIsPath'
  BY <1>1, PathExtended
<1>4. ASSUME NEW k \in DOMAIN stack'
      PROVE  \/ stack'[k].device = d /\ stack'[k].done = <<>>
             \/ k \in DOMAIN stack /\ stack'[k] = stack[k]
  <2>1. CASE k = n + 1
    BY <1>2, <2>1
  <2>2. CASE k # n + 1
    BY <1>1, <1>2, <2>2
  <2> QED BY <2>1, <2>2
<1>5. FinalStays
  BY <1>2, <1>4 DEF FinalStays, OnStack
<1>6. \A e \in DOMAIN report' : \A i \in DOMAIN report'[e] :
         e \in DOMAIN report /\ report'[e] = report[e]
  BY <1>2
<1>7. \A k \in DOMAIN stack' : \A i \in DOMAIN stack'[k].done :
         /\ k \in DOMAIN stack /\ stack'[k].device = stack[k].device
         /\ stack'[k].done = stack[k].done
  <2> SUFFICES ASSUME NEW k \in DOMAIN stack', NEW i \in DOMAIN stack'[k].done
               PROVE  k \in DOMAIN stack /\ stack'[k] = stack[k]
    OBVIOUS
  <2>1. stack'[k].done # <<>>
    OBVIOUS
  <2> QED BY <1>4, <2>1
<1> QED BY <1>2, <1>3, <1>5, <1>6, <1>7, AgreeStep

\* The result of a test point joins those of the device under test.
LEMMA ResultAgrees ==
    ASSUME TestsInv, AgreeInv, WellFormed, stack # <<>>, Top.todo # <<>>,
           NEW r \in Results, Tested(r), AgreesThen(Top.device, r),
           DOMAIN report \subseteq DOMAIN report',
           \A e \in DOMAIN report : report'[e] = report[e],
           \A e \in DOMAIN report' : e \in DOMAIN report \/ report'[e] = <<>>,
           ret' = "none", dat' = dat, job' = job
    PROVE  AgreeInv'
<1> DEFINE n == Len(stack)
<1>1. Typed /\ StackIsPath /\ Ignored' = Ignored
  BY DEF TestsInv, AgreeInv, Ignored
<1>2. /\ DOMAIN stack' = DOMAIN stack
      /\ \A k \in DOMAIN stack : k # n => stack'[k] = stack[k]
      /\ stack'[n].device = Top.device /\ stack'[n].done = Append(Top.done, r)
      /\ n \in DOMAIN stack /\ Top.done \in Seq(Results)
  BY <1>1, ResultKept, TopIsFrame
<1>3. \A k \in DOMAIN stack' : stack'[k].device = stack[k].device
  BY <1>2 DEF Top
<1>4. StackIsPath'
  BY <1>1, <1>2, <1>3 DEF StackIsPath
<1>5. FinalStays
  BY <1>2, <1>3 DEF FinalStays, OnStack
<1>6. ASSUME NEW i \in DOMAIN stack'[n].done
      PROVE  AgreesThen(Top.device, stack'[n].done[i])
  <2> DEFINE done == Top.done
  <2>1. done \in Seq(Results) /\ stack'[n].done = Append(done, r)
    BY <1>2
  <2>2. i = Len(done) + 1 \/ i \in DOMAIN done
    <3>1. i \in DOMAIN Append(done, r)
      BY <2>1
    <3> HIDE DEF done
    <3> QED BY <2>1, <3>1
  <2>3. CASE i = Len(done) + 1
    <3>1. stack'[n].done[i] = r
      <4> HIDE DEF done
      <4> QED BY <2>1, <2>3
    <3> QED BY <3>1
  <2>4. CASE i \in DOMAIN done
    <3>1. PICK d, q : d = Top.device /\ q = done[i]
      OBVIOUS
    <3>2. Agrees(d, q)
      BY <1>2, <2>4, <3>1 DEF AgreeInv, Top
    <3>3. AgreesThen(d, q)
      BY <1>5, <3>2, AgreesStays
    <3>4. stack'[n].done[i] = done[i]
      <4> HIDE DEF done
      <4> QED BY <2>1, <2>4
    <3> QED BY <3>1, <3>3, <3>4
  <2> QED BY <2>2, <2>3, <2>4
<1>7. \A k \in DOMAIN stack' : \A i \in DOMAIN stack'[k].done :
         \/ AgreesThen(stack'[k].device, stack'[k].done[i])
         \/ /\ k \in DOMAIN stack /\ stack'[k].device = stack[k].device
            /\ stack'[k].done = stack[k].done
  <2> SUFFICES ASSUME NEW k \in DOMAIN stack', NEW i \in DOMAIN stack'[k].done
               PROVE  \/ AgreesThen(stack'[k].device, stack'[k].done[i])
                      \/ /\ k \in DOMAIN stack /\ stack'[k].device = stack[k].device
                         /\ stack'[k].done = stack[k].done
    OBVIOUS
  <2>1. CASE k = n
    <3>1. AgreesThen(Top.device, stack'[n].done[i])
      BY <1>6, <2>1
    <3> QED BY <1>2, <2>1, <3>1
  <2>2. CASE k # n
    BY <1>2, <2>2
  <2> QED BY <2>1, <2>2
<1>8. \A e \in DOMAIN report' : \A i \in DOMAIN report'[e] :
         e \in DOMAIN report /\ report'[e] = report[e]
  OBVIOUS
<1> QED BY <1>4, <1>5, <1>7, <1>8, AgreeStep

\* A nested device is judged by final results, or calls the device under test.
LEMMA NestedAgrees ==
    ASSUME TestsInv, AgreeInv, WellFormed, stack # <<>>, Top.todo # <<>>,
           Head1.nested \in DOMAIN dat, EvaluateNested("succ"),
           ret' = "none", dat' = dat, job' = job
    PROVE  AgreeInv'
<1> DEFINE n == Head1.nested
           results == IF n \in DOMAIN report THEN report[n] ELSE <<>>
           v == IF evaluateDevice(results) THEN "expected" ELSE "other"
<1>1. Typed /\ StackIsPath
  BY DEF TestsInv, AgreeInv
<1>2. Tested(fillTpRes(Head1, v)) /\ report' = reportWith(n, results)
  BY DEF EvaluateNested
<1>3. /\ DOMAIN report' = {n} \cup DOMAIN report /\ report'[n] = results
      /\ \A e \in DOMAIN report : report'[e] = report[e]
      /\ \A e \in DOMAIN report' : e \in DOMAIN report \/ report'[e] = <<>>
  BY <1>2 DEF reportWith
<1>4. Head1 \in TestPoints
  BY <1>1, TopIsFrame
<1>5. v \in Values /\ (v = "expected" <=> evaluateDevice(results))
  BY DEF Values
<1>6. fillTpRes(Head1, v) \in Results
  <2> HIDE DEF v
  <2> QED BY <1>4, <1>5 DEF fillTpRes, Results, TestPoints, Values
<1>7. PICK r \in Results : r = fillTpRes(Head1, v)
  BY <1>6
<1>8. r.nested = n /\ r.value = v
  <2> HIDE DEF v
  <2> QED BY <1>7 DEF fillTpRes
<1>9. Tested(r)
  BY <1>2, <1>7
<1>10. AgreesThen(Top.device, r)
  <2>1. CASE OnStack(n)
    <3>1. Reaches(n, Top.device)
      BY <1>1, <2>1, CallersReach DEF OnStack
    <3> QED BY <1>8, <3>1 DEF AgreesThen
  <2>2. CASE ~OnStack(n)
    <3>1. /\ DOMAIN stack' = DOMAIN stack
          /\ \A k \in DOMAIN stack : k # Len(stack) => stack'[k] = stack[k]
          /\ stack'[Len(stack)].device = Top.device
      BY <1>1, <1>9, ResultKept
    <3>2. \A k \in DOMAIN stack' : stack'[k].device # n
      BY <2>2, <3>1 DEF OnStack, Top
    <3>3. r.value = "expected" <=> evaluateDevice(report'[n])
      <4> HIDE DEF v, results
      <4> QED BY <1>3, <1>5, <1>8
    <3>4. n \in DOMAIN report'
      BY <1>3
    <3> HIDE DEF n
    <3> QED BY <1>8, <3>2, <3>3, <3>4 DEF AgreesThen
  <2> QED BY <2>1, <2>2
<1>11. DOMAIN report \subseteq DOMAIN report'
  BY <1>3
<1> HIDE DEF n, results, v
<1> QED BY <1>3, <1>9, <1>10, <1>11, ResultAgrees

\* A step that leaves the calls alone and keeps the results.
LEMMA QuietAgrees ==
    ASSUME TestsInv, AgreeInv, WellFormed, dat' = dat, job' = job, stack' = stack,
           ret' # "error", pc' = "perform" => pc = "perform" /\ ret' = ret,
           DOMAIN report \subseteq DOMAIN report',
           \A e \in DOMAIN report : report'[e] = report[e],
           \A e \in DOMAIN report' : e \in DOMAIN report \/ report'[e] = <<>>
    PROVE  AgreeInv'
<1>1. StackIsPath'
  BY DEF AgreeInv, StackIsPath, Ignored
<1>2. FinalStays
  BY DEF FinalStays, OnStack
<1>3. pc' = "perform" /\ ret' # "none" =>
         \A k \in DOMAIN stack' : stack'[k].device # Head1'.nested
  BY DEF AgreeInv, OnStack, Head1, Top
<1> QED BY <1>1, <1>2, <1>3, AgreeStep

LEMMA NextAgrees == TestsInv /\ AgreeInv /\ [Next]_vars => AgreeInv'
<1> SUFFICES ASSUME TestsInv, AgreeInv, [Next]_vars, WellFormed, dat' = dat, job' = job
             PROVE  AgreeInv'
  BY TreeAndJobStay DEF AgreeInv, WellFormed
<1>1. /\ Typed /\ InPhase /\ ret # "error" /\ StackIsPath
      /\ pc = "perform" /\ ret # "none" => ~OnStack(Head1.nested)
  BY DEF TestsInv, AgreeInv
<1>2. CASE Start
  <2>1. pc = "start" /\ stack = <<>> /\ ret = "none" /\ DOMAIN report = {}
    BY <1>1, <1>2 DEF Start, InPhase
  <2>2. CASE job.device \in DOMAIN dat /\ ~shouldSkip(job.device)
    <3>1. Perform(job.device) /\ job.device \notin DOMAIN report
      BY <1>2, <2>1, <2>2 DEF Start
    <3> QED BY <2>1, <2>2, <3>1, BeginAgrees
  <2>3. CASE job.device \notin DOMAIN dat \/ shouldSkip(job.device)
    <3>1. UNCHANGED <<stack, report>> /\ ret' \in {"none", "succ"} /\ pc' # "perform"
      BY <1>2, <2>1, <2>3 DEF Start
    <3> QED BY <3>1, QuietAgrees
  <2> QED BY <2>2, <2>3
<1>3. CASE ResolveLogs
  <2>1. UNCHANGED <<stack, report, ret>> /\ pc' # "perform"
    BY <1>3 DEF ResolveLogs
  <2> QED BY <1>1, <2>1, QuietAgrees
<1>4. CASE NextDevice
  <2>1. pc = "devices" /\ stack = <<>> /\ left \in Seq(DOMAIN dat)
    BY <1>1, <1>4 DEF NextDevice, InPhase
  <2>2. CASE left = <<>> \/ Head(left) \in DOMAIN report \/ shouldSkip(Head(left))
    <3>1. UNCHANGED <<stack, report, ret>> /\ pc' # "perform"
      BY <1>1, <1>4, <2>2 DEF NextDevice
    <3> QED BY <1>1, <3>1, QuietAgrees
  <2>3. CASE left # <<>> /\ Head(left) \notin DOMAIN report /\ ~shouldSkip(Head(left))
    <3>1. PICK d \in DOMAIN dat : d = Head(left)
      BY <2>1, <2>3
    <3>2. d \notin DOMAIN report /\ Perform(d)
      BY <1>1, <1>4, <2>3, <3>1 DEF NextDevice
    <3> QED BY <2>1, <3>2, BeginAgrees
  <2> QED BY <2>2, <2>3
<1>5. CASE ResolveEntry
  <2>1. UNCHANGED <<stack, report, ret>> /\ pc' # "perform"
    BY <1>5 DEF ResolveEntry
  <2> QED BY <1>1, <2>1, QuietAgrees
<1>6. CASE IgnoreLayer
  <2>1. /\ UNCHANGED <<pc, report, ret>> /\ ret = "none" /\ stack # <<>>
        /\ stack' = [stack EXCEPT ![Len(stack)].todo = Tail(@)]
    BY <1>1, <1>6 DEF IgnoreLayer, InPhase
  <2>2. stack \in Seq(Frames) /\ Len(stack) \in DOMAIN stack
    BY <1>1, <2>1, TopIsFrame DEF Typed
  <2>3. ASSUME NEW k \in DOMAIN stack
        PROVE  stack'[k].device = stack[k].device /\ stack'[k].done = stack[k].done
    <3>1. stack[k] \in Frames
      BY <2>2
    <3> QED BY <2>1, <2>2, <3>1 DEF Frames
  <2>4. DOMAIN stack' = DOMAIN stack
    BY <2>1
  <2>5. StackIsPath'
    BY <1>1, <2>3, <2>4 DEF StackIsPath, Ignored
  <2>6. FinalStays
    BY <2>1, <2>3, <2>4 DEF FinalStays, OnStack
  <2> QED BY <1>1, <2>1, <2>3, <2>4, <2>5, <2>6, AgreeStep
<1>7. CASE ReadTestPoint
  <2>1. /\ UNCHANGED <<report, ret>> /\ ret = "none" /\ stack # <<>> /\ Top.todo # <<>>
        /\ Head1.nested = None
    BY <1>1, <1>7 DEF ReadTestPoint, AtTestPoint, InPhase
  <2>2. PICK value \in Values : Tested(fillTpRes(Head1, value))
    BY <1>7 DEF ReadTestPoint
  <2>3. fillTpRes(Head1, value) \in Results /\ fillTpRes(Head1, value).nested = None
    BY <1>1, <2>1, TopIsFrame DEF fillTpRes, Results, TestPoints, Values
  <2>4. PICK r \in Results : Tested(r) /\ r.nested = None
    BY <2>2, <2>3
  <2>5. AgreesThen(Top.device, r)
    BY <2>4 DEF AgreesThen
  <2> QED BY <2>1, <2>4, <2>5, ResultAgrees
<1>8. CASE EnterNested
  <2>1. PICK d \in DOMAIN dat : d = Head1.nested
    BY <1>8 DEF EnterNested
  <2>2. /\ d \notin DOMAIN report /\ Perform(d)
        /\ Top.todo # <<>> /\ Head1.layer \notin Ignored
    BY <1>8, <2>1 DEF EnterNested, AtTestPoint
  <2> QED BY <2>1, <2>2, BeginAgrees
<1>9. CASE NestedKnown
  <2>1. /\ stack # <<>> /\ Top.todo # <<>> /\ Head1.nested \in DOMAIN dat
        /\ EvaluateNested("succ") /\ ret' = "none"
    BY <1>1, <1>9 DEF NestedKnown, AtTestPoint, InPhase
  <2> QED BY <2>1, NestedAgrees
<1>10. CASE NestedReturns
  <2>1. /\ stack # <<>> /\ Top.todo # <<>> /\ Head1.nested \in DOMAIN dat
        /\ ret = "succ" /\ EvaluateNested(ret) /\ ret' = "none"
    BY <1>1, <1>10 DEF NestedReturns, InPhase, CallsNested, TestsInv, Typed
  <2> QED BY <2>1, NestedAgrees
<1>11. CASE NestedUnknown
  BY <1>1, <1>11, HeadListed DEF NestedUnknown, AtTestPoint, InPhase
<1>12. CASE PerformEnds
  <2> DEFINE n == Len(stack)
  <2>1. /\ stack # <<>> /\ stack' = Front(stack) /\ ret' = "succ" /\ pc = "perform"
        /\ report' = reportWith(Top.device, Top.done) /\ pc' = After
    BY <1>1, <1>12 DEF PerformEnds, InPhase
  <2>2. /\ DOMAIN report' = DOMAIN report \cup {Top.device}
        /\ report'[Top.device] = Top.done
        /\ \A e \in DOMAIN report : e # Top.device => report'[e] = report[e]
    BY <2>1 DEF reportWith
  <2>3. /\ \A k \in DOMAIN stack' : k \in DOMAIN stack /\ stack'[k] = stack[k]
        /\ DOMAIN stack' = 1 .. n - 1 /\ Len(stack') = n - 1
        /\ stack' = <<>> <=> n = 1
    BY <1>1, <2>1, FramePopped
  <2>4. n \in DOMAIN stack /\ n \in Nat /\ DOMAIN stack = 1 .. n
    BY <1>1, <2>1, TopIsFrame
  <2>5. StackIsPath'
    <3>1. Ignored' = Ignored
      BY DEF Ignored
    <3> QED BY <1>1, <2>3, <3>1 DEF StackIsPath
  <2>6. FinalStays
    BY <2>2, <2>3, <2>4 DEF FinalStays, OnStack, Top
  <2>7. ASSUME pc' = "perform", NEW k \in DOMAIN stack'
        PROVE  stack'[k].device # Head1'.nested
    <3>1. n > 1
      BY <2>1, <2>4, <2>7 DEF After
    <3>2. n - 1 \in DOMAIN stack /\ (n - 1) + 1 \in DOMAIN stack /\ (n - 1) + 1 = n
          /\ n - 1 \in DOMAIN stack'
      BY <2>3, <2>4, <3>1
    <3>3. stack[n - 1].todo[1].nested = Top.device
      <4>1. stack[n - 1].todo[1].nested = stack[(n - 1) + 1].device
        <5> HIDE DEF n
        <5> QED BY <3>2 DEF TestsInv, CallsNested
      <4> QED BY <3>2, <4>1 DEF Top
    <3>4. Head1' = stack[n - 1].todo[1]
      <4>1. Top' = stack[n - 1]
        BY <2>3, <3>2 DEF Top
      <4> QED BY <4>1 DEF Head1
    <3>5. k \in DOMAIN stack /\ stack'[k] = stack[k] /\ k # n
      BY <2>3, <2>4
    <3>6. stack[k].device # Top.device
      BY <1>1, <2>4, <3>5 DEF StackIsPath, Top
    <3> QED BY <3>3, <3>4, <3>5, <3>6
  <2>8. \A d \in DOMAIN report' : \A i \in DOMAIN report'[d] :
           \/ AgreesThen(d, report'[d][i])
           \/ d \in DOMAIN report /\ report'[d] = report[d]
    <3> SUFFICES ASSUME NEW d \in DOMAIN report', NEW i \in DOMAIN report'[d],
                        d = Top.device
                 PROVE  AgreesThen(d, report'[d][i])
      BY <2>2
    <3>1. PICK r : r = Top.done[i]
      OBVIOUS
    <3>2. Agrees(d, r)
      BY <2>2, <2>4, <3>1 DEF AgreeInv, Top
    <3>3. AgreesThen(d, r)
      BY <2>6, <3>2, AgreesStays
    <3> QED BY <2>2, <3>1, <3>3
  <2> QED BY <2>1, <2>3, <2>5, <2>6, <2>7, <2>8, AgreeStep
<1>13. CASE Trace
  <2>1. /\ pc' # "perform" /\ ret' = ret /\ stack' = stack
        /\ \/ report' = report
           \/ report' = reportWith(job.device, IF job.device \in DOMAIN report
                                               THEN report[job.device] ELSE <<>>)
    BY <1>1, <1>13 DEF Trace
  <2>2. /\ DOMAIN report \subseteq DOMAIN report'
        /\ \A e \in DOMAIN report : report'[e] = report[e]
        /\ \A e \in DOMAIN report' : e \in DOMAIN report \/ report'[e] = <<>>
    BY <2>1 DEF reportWith
  <2> QED BY <1>1, <2>1, <2>2, QuietAgrees
<1>14. CASE Cause \/ Process
  <2>1. UNCHANGED <<stack, report, ret>> /\ pc' # "perform"
    BY <1>14 DEF Cause, Process
  <2> QED BY <1>1, <2>1, QuietAgrees
<1>15. CASE UNCHANGED vars
  BY <1>1, <1>15, QuietAgrees DEF vars
<1> QED BY <1>2, <1>3, <1>4, <1>5, <1>6, <1>7, <1>8, <1>9, <1>10, <1>11, <1>12,
           <1>13, <1>14, <1>15 DEF Next

\* ReferencesAgree: in every well-formed tree, a reference passes exactly if
\* the device it names has passed, although perform (selftest.cpp:335-387) may
\* find that device in the report before its test has ended; it does so only in
\* a circle.
THEOREM ReferencesAgreeWithDevices == Spec => []ReferencesAgree
<1>1. Init => AgreeInv
  BY DEF Init, AgreeInv, StackIsPath
<1>2. TestsInv /\ AgreeInv /\ [Next]_vars => AgreeInv'
  BY NextAgrees
<1>3. TestsInv /\ AgreeInv => ReferencesAgree
  <2> SUFFICES ASSUME AgreeInv, WellFormed, NEW d \in DOMAIN report,
                      NEW i \in DOMAIN report[d], report[d][i].nested # None,
                      ~Reaches(report[d][i].nested, d)
               PROVE  report[d][i].value = "expected"
                         <=> evaluateDevice(report[report[d][i].nested])
    BY DEF ReferencesAgree
  <2>1. Agrees(d, report[d][i])
    BY DEF AgreeInv
  <2> QED BY <2>1 DEF Agrees
<1> QED BY <1>1, <1>2, <1>3, TestsInvariant, PTL DEF Spec

-----------------------------------------------------------------------------
(* The root cause tracer                                                   *)

Follow(d) == Refers(dat, d, Layers \ Ignored)

\* What d refers to has been tested or is listed in todo.
Covered(d, todo) ==
    \A x \in Follow(d) :
        \/ x \in DOMAIN report
        \/ \E j \in DOMAIN todo : todo[j].nested = x /\ todo[j].layer \notin Ignored

\* The same after the step.
CoveredThen(d, todo) ==
    \A x \in Follow(d) :
        \/ x \in DOMAIN report'
        \/ \E j \in DOMAIN todo : todo[j].nested = x /\ todo[j].layer \notin Ignored

\* A device of the report whose test is over has nothing more to wait for.
RefsInv ==
    WellFormed =>
        /\ \A d \in DOMAIN report : ~OnStack(d) => Follow(d) \subseteq DOMAIN report
        /\ \A k \in DOMAIN stack : Covered(stack[k].device, stack[k].todo)

\* The device of the event is in the report when its root cause is looked for.
DeviceReported ==
    job.kind = "trace" =>
        /\ pc = "perform" => job.device \in DOMAIN report
        /\ pc = "trace" => job.device \in DOMAIN report \/ shouldSkip(job.device)
        /\ pc = "cause" => job.device \in DOMAIN report

TracerInv == RefsInv /\ DeviceReported /\ TracerDoesNotThrow

\* A skipped device refers to nothing.
LEMMA SkippedRefersToNothing ==
    ASSUME Typed, NEW d \in DOMAIN dat, shouldSkip(d)
    PROVE  Follow(d) = {}
<1>1. dat[d].test = <<>>
  BY DEF shouldSkip, hasTestpoints
<1> QED BY <1>1 DEF Follow, Refers

LEMMA RefsStep ==
    ASSUME RefsInv, WellFormed, dat' = dat, job' = job,
           DOMAIN report \subseteq DOMAIN report',
           \A d \in DOMAIN report' : \/ \E k \in DOMAIN stack' : stack'[k].device = d
                                     \/ d \in DOMAIN report /\ ~OnStack(d)
                                     \/ Follow(d) \subseteq DOMAIN report',
           \A k \in DOMAIN stack' :
               \/ CoveredThen(stack'[k].device, stack'[k].todo)
               \/ /\ k \in DOMAIN stack /\ stack'[k].device = stack[k].device
                  /\ stack'[k].todo = stack[k].todo
    PROVE  RefsInv'
<1>1. Ignored' = Ignored
  BY DEF Ignored
<1>2. \A d : Follow(d)' = Follow(d)
  BY <1>1 DEF Follow
<1>3. ASSUME NEW d \in DOMAIN report', ~\E k \in DOMAIN stack' : stack'[k].device = d
      PROVE  Follow(d) \subseteq DOMAIN report'
  BY <1>3 DEF RefsInv
<1>4. ASSUME NEW k \in DOMAIN stack'
      PROVE  CoveredThen(stack'[k].device, stack'[k].todo)
  <2>1. CASE /\ k \in DOMAIN stack /\ stack'[k].device = stack[k].device
             /\ stack'[k].todo = stack[k].todo
    <3>1. Covered(stack[k].device, stack[k].todo)
      BY <2>1 DEF RefsInv
    <3> QED BY <2>1, <3>1 DEF Covered, CoveredThen
  <2> QED BY <2>1
<1>5. \A d \in DOMAIN report' : ~OnStack(d)' => Follow(d)' \subseteq DOMAIN report'
  BY <1>2, <1>3 DEF OnStack
<1>6. \A k \in DOMAIN stack' : Covered(stack[k].device, stack[k].todo)'
  BY <1>1, <1>2, <1>4 DEF Covered, CoveredThen
<1> QED BY <1>5, <1>6 DEF RefsInv

\* The frame of a test that begins lists whatever its device refers to.
LEMMA BeginCovers ==
    ASSUME TestsInv, RefsInv, WellFormed, dat' = dat, job' = job,
           NEW d \in DOMAIN dat, d \notin DOMAIN report, Perform(d)
    PROVE  RefsInv'
<1>1. /\ DOMAIN stack' = 1 .. Len(stack) + 1 /\ Len(stack) \in Nat
      /\ DOMAIN stack = 1 .. Len(stack)
      /\ \A k \in DOMAIN stack : stack'[k] = stack[k]
      /\ stack'[Len(stack) + 1] = [device |-> d, todo |-> dat[d].test, done |-> <<>>]
      /\ DOMAIN report' = {d} \cup DOMAIN report
  <2>1. Typed /\ stack \in Seq(Frames)
    BY DEF TestsInv, Typed
  <2>2. /\ DOMAIN stack' = 1 .. Len(stack) + 1
        /\ \A k \in DOMAIN stack : stack'[k] = stack[k]
        /\ stack'[Len(stack) + 1] = [device |-> d, todo |-> dat[d].test, done |-> <<>>]
        /\ DOMAIN report' = {d} \cup DOMAIN report
    BY <2>1, PerformBegins
  <2>3. Len(stack) \in Nat /\ DOMAIN stack = 1 .. Len(stack)
    BY <2>1
  <2> QED BY <2>2, <2>3
<1>2. CoveredThen(d, dat[d].test)
  BY DEF CoveredThen, Follow, Refers
<1>3. \A k \in DOMAIN stack' :
         \/ CoveredThen(stack'[k].device, stack'[k].todo)
         \/ /\ k \in DOMAIN stack /\ stack'[k].device = stack[k].device
            /\ stack'[k].todo = stack[k].todo
  <2> SUFFICES ASSUME NEW k \in DOMAIN stack', k \notin DOMAIN stack
               PROVE  CoveredThen(stack'[k].device, stack'[k].todo)
    BY <1>1
  <2>1. k = Len(stack) + 1
    BY <1>1
  <2> QED BY <1>1, <1>2, <2>1
<1>4. ASSUME NEW e \in DOMAIN report'
      PROVE  \/ \E k \in DOMAIN stack' : stack'[k].device = e
             \/ e \in DOMAIN report /\ ~OnStack(e)
  <2>1. CASE e = d
    <3>1. Len(stack) + 1 \in DOMAIN stack'
      BY <1>1
    <3> QED BY <1>1, <2>1, <3>1
  <2>2. CASE OnStack(e)
    <3>1. PICK k \in DOMAIN stack : stack[k].device = e
      BY <2>2 DEF OnStack
    <3>2. k \in DOMAIN stack' /\ stack'[k].device = e
      BY <1>1, <3>1
    <3> QED BY <3>2
  <2> QED BY <1>1, <2>1, <2>2
<1> QED BY <1>1, <1>3, <1>4, RefsStep

\* The test point at hand may go once it refers to nothing new.
LEMMA TurnCovers ==
    ASSUME TestsInv, RefsInv, WellFormed, dat' = dat, job' = job,
           stack # <<>>, Top.todo # <<>>,
           DOMAIN stack' = DOMAIN stack,
           \A k \in DOMAIN stack : k # Len(stack) => stack'[k] = stack[k],
           stack'[Len(stack)].device = Top.device,
           stack'[Len(stack)].todo = Tail(Top.todo),
           DOMAIN report \subseteq DOMAIN report',
           \A d \in DOMAIN report' : d \in DOMAIN report \/ Follow(d) = {},
           \/ Head1.nested \in {None} \cup DOMAIN report'
           \/ Head1.layer \in Ignored
    PROVE  RefsInv'
<1> DEFINE n == Len(stack)
<1>1. /\ n \in DOMAIN stack /\ n \in Nat /\ DOMAIN stack = 1 .. n
      /\ Top.todo \in Seq(TestPoints) /\ Top.device = stack[n].device
      /\ Top.todo = stack[n].todo /\ Head1 = Top.todo[1]
  BY TopIsFrame DEF TestsInv, Top
<1>2. CoveredThen(Top.device, Tail(Top.todo))
  <2> SUFFICES ASSUME NEW x \in Follow(Top.device), x \notin DOMAIN report'
               PROVE  \E j \in DOMAIN Tail(Top.todo) :
                         Tail(Top.todo)[j].nested = x /\ Tail(Top.todo)[j].layer \notin Ignored
    BY DEF CoveredThen
  <2>1. Covered(Top.device, Top.todo)
    BY <1>1 DEF RefsInv
  <2>2. PICK j \in DOMAIN Top.todo : Top.todo[j].nested = x /\ Top.todo[j].layer \notin Ignored
    BY <2>1 DEF Covered
  <2>3. x # None
    BY DEF Follow, Refers
  <2>4. j # 1
    BY <1>1, <2>2, <2>3
  <2>5. j - 1 \in DOMAIN Tail(Top.todo) /\ Tail(Top.todo)[j - 1] = Top.todo[j]
    <3>1. PICK todo : todo = Top.todo
      OBVIOUS
    <3>2. todo \in Seq(TestPoints) /\ todo # <<>> /\ j \in DOMAIN todo
      BY <1>1, <3>1
    <3>3. /\ Len(todo) \in Nat /\ DOMAIN todo = 1 .. Len(todo)
          /\ Tail(todo) \in Seq(TestPoints) /\ Len(Tail(todo)) = Len(todo) - 1
          /\ \A i \in 1 .. Len(Tail(todo)) : Tail(todo)[i] = todo[i + 1]
      BY <3>2, HeadTailProperties
    <3>4. DOMAIN Tail(todo) = 1 .. Len(Tail(todo))
      BY <3>3
    <3>5. j - 1 \in 1 .. Len(Tail(todo)) /\ (j - 1) + 1 = j
      BY <2>4, <3>2, <3>3
    <3>6. Tail(todo)[j - 1] = todo[j]
      BY <3>3, <3>5
    <3> QED BY <3>1, <3>4, <3>5, <3>6
  <2> QED BY <2>2, <2>5
<1>3. \A k \in DOMAIN stack' :
         \/ CoveredThen(stack'[k].device, stack'[k].todo)
         \/ /\ k \in DOMAIN stack /\ stack'[k].device = stack[k].device
            /\ stack'[k].todo = stack[k].todo
  BY <1>1, <1>2
<1>4. \A k \in DOMAIN stack : stack'[k].device = stack[k].device
  BY <1>1
<1>5. \A d \in DOMAIN report' : \/ \E k \in DOMAIN stack' : stack'[k].device = d
                                \/ d \in DOMAIN report /\ ~OnStack(d)
                                \/ Follow(d) \subseteq DOMAIN report'
  BY <1>4 DEF OnStack
<1> QED BY <1>3, <1>5, RefsStep

LEMMA NextRefs == TestsInv /\ AgreeInv /\ RefsInv /\ DeviceReported /\ [Next]_vars => RefsInv'
<1> SUFFICES ASSUME TestsInv, AgreeInv, RefsInv, DeviceReported, [Next]_vars, WellFormed,
                    dat' = dat, job' = job
             PROVE  RefsInv'
  BY TreeAndJobStay DEF RefsInv, WellFormed
<1>1. /\ Typed /\ InPhase /\ ret # "error"
      /\ IsDat(dat) /\ DOMAIN report \subseteq DOMAIN dat
  BY DEF TestsInv, AgreeInv, Typed
<1>2. ASSUME stack' = stack, DOMAIN report \subseteq DOMAIN report',
             \A d \in DOMAIN report' : d \in DOMAIN report \/ Follow(d) = {}
      PROVE  RefsInv'
  BY <1>2, RefsStep DEF OnStack
<1>3. CASE Start
  <2>1. stack = <<>> /\ DOMAIN report = {}
    BY <1>1, <1>3 DEF Start, InPhase
  <2>2. CASE job.device \in DOMAIN dat /\ ~shouldSkip(job.device)
    <3>1. Perform(job.device) /\ job.device \notin DOMAIN report
      BY <1>3, <2>1, <2>2 DEF Start
    <3> QED BY <2>2, <3>1, BeginCovers
  <2>3. CASE job.device \notin DOMAIN dat \/ shouldSkip(job.device)
    <3>1. UNCHANGED <<stack, report>>
      BY <1>3, <2>3 DEF Start
    <3> QED BY <1>2, <3>1
  <2> QED BY <2>2, <2>3
<1>4. CASE ResolveLogs \/ ResolveEntry \/ Cause \/ Process
  <2>1. UNCHANGED <<stack, report>>
    BY <1>4 DEF ResolveLogs, ResolveEntry, Cause, Process
  <2> QED BY <1>2, <2>1
<1>5. CASE NextDevice
  <2>1. left \in Seq(DOMAIN dat)
    BY <1>1, <1>5 DEF NextDevice, InPhase
  <2>2. CASE left = <<>> \/ Head(left) \in DOMAIN report \/ shouldSkip(Head(left))
    <3>1. UNCHANGED <<stack, report>>
      BY <1>1, <1>5, <2>2 DEF NextDevice
    <3> QED BY <1>2, <3>1
  <2>3. CASE left # <<>> /\ Head(left) \notin DOMAIN report /\ ~shouldSkip(Head(left))
    <3>1. PICK d \in DOMAIN dat : d = Head(left)
      BY <2>1, <2>3
    <3>2. d \notin DOMAIN report /\ Perform(d)
      BY <1>1, <1>5, <2>3, <3>1 DEF NextDevice
    <3> QED BY <3>2, BeginCovers
  <2> QED BY <2>2, <2>3
<1>6. CASE IgnoreLayer
  <2>1. /\ report' = report /\ stack # <<>> /\ Top.todo # <<>> /\ Head1.layer \in Ignored
        /\ stack' = [stack EXCEPT ![Len(stack)].todo = Tail(@)]
    BY <1>1, <1>6 DEF IgnoreLayer, InPhase
  <2>2. stack \in Seq(Frames) /\ Len(stack) \in DOMAIN stack /\ Top \in Frames
    BY <1>1, <2>1, TopIsFrame DEF Typed
  <2>3. /\ DOMAIN stack' = DOMAIN stack
        /\ \A k \in DOMAIN stack : k # Len(stack) => stack'[k] = stack[k]
    BY <2>1, <2>2
  <2>4. /\ stack'[Len(stack)].device = Top.device
        /\ stack'[Len(stack)].todo = Tail(Top.todo)
    BY <2>1, <2>2 DEF Top, Frames
  <2> QED BY <2>1, <2>3, <2>4, TurnCovers
<1>7. CASE ReadTestPoint
  <2>1. /\ report' = report /\ stack # <<>> /\ Top.todo # <<>> /\ Head1.nested = None
    BY <1>1, <1>7 DEF ReadTestPoint, AtTestPoint, InPhase
  <2>2. PICK value \in Values : Tested(fillTpRes(Head1, value))
    BY <1>7 DEF ReadTestPoint
  <2>3. fillTpRes(Head1, value) \in Results
    BY <1>1, <2>1, TopIsFrame DEF fillTpRes, Results, TestPoints, Values
  <2>4. PICK r \in Results : Tested(r)
    BY <2>2, <2>3
  <2>5. /\ DOMAIN stack' = DOMAIN stack
        /\ \A k \in DOMAIN stack : k # Len(stack) => stack'[k] = stack[k]
        /\ stack'[Len(stack)].device = Top.device
        /\ stack'[Len(stack)].todo = Tail(Top.todo)
    BY <1>1, <2>1, <2>4, ResultKept
  <2> QED BY <2>1, <2>5, TurnCovers
<1>8. CASE EnterNested
  <2>1. PICK d \in DOMAIN dat : d = Head1.nested
    BY <1>8 DEF EnterNested
  <2>2. d \notin DOMAIN report /\ Perform(d)
    BY <1>8, <2>1 DEF EnterNested
  <2> QED BY <2>2, BeginCovers
<1>9. CASE NestedKnown \/ NestedReturns
  <2>1. PICK rc : /\ stack # <<>> /\ Top.todo # <<>> /\ Head1.nested \in DOMAIN dat
                  /\ EvaluateNested(rc)
                  /\ Head1.nested \in DOMAIN report \/ shouldSkip(Head1.nested)
    <3>1. CASE NestedKnown
      BY <1>1, <3>1 DEF NestedKnown, AtTestPoint, InPhase
    <3>2. CASE NestedReturns
      BY <1>1, <3>2 DEF NestedReturns, InPhase, CallsNested, TestsInv
    <3> QED BY <1>9, <3>1, <3>2
  <2>2. /\ \E v \in Values : fillTpRes(Head1, v) \in Results /\ Tested(fillTpRes(Head1, v))
        /\ DOMAIN report' = {Head1.nested} \cup DOMAIN report
    BY <1>1, <2>1, NestedEvaluated
  <2>3. PICK r \in Results : Tested(r)
    BY <2>2
  <2>4. /\ DOMAIN stack' = DOMAIN stack
        /\ \A k \in DOMAIN stack : k # Len(stack) => stack'[k] = stack[k]
        /\ stack'[Len(stack)].device = Top.device
        /\ stack'[Len(stack)].todo = Tail(Top.todo)
    BY <1>1, <2>1, <2>3, ResultKept
  <2>5. \A d \in DOMAIN report' : d \in DOMAIN report \/ Follow(d) = {}
    BY <1>1, <2>1, <2>2, SkippedRefersToNothing
  <2> QED BY <2>1, <2>2, <2>4, <2>5, TurnCovers
<1>10. CASE NestedUnknown
  BY <1>1, <1>10, HeadListed DEF NestedUnknown, AtTestPoint, InPhase
<1>11. CASE PerformEnds
  <2> DEFINE n == Len(stack)
  <2>1. /\ stack # <<>> /\ stack' = Front(stack) /\ Top.todo = <<>>
        /\ report' = reportWith(Top.device, Top.done)
    BY <1>1, <1>11 DEF PerformEnds, InPhase
  <2>2. DOMAIN report' = DOMAIN report \cup {Top.device}
    BY <2>1 DEF reportWith
  <2>3. /\ \A k \in DOMAIN stack' : k \in DOMAIN stack /\ stack'[k] = stack[k]
        /\ DOMAIN stack' = 1 .. n - 1
    BY <1>1, <2>1, FramePopped
  <2>4. /\ n \in DOMAIN stack /\ n \in Nat /\ DOMAIN stack = 1 .. n
        /\ Top.device = stack[n].device /\ Top.todo = stack[n].todo
    BY <1>1, <2>1, TopIsFrame DEF Top
  <2>5. Follow(Top.device) \subseteq DOMAIN report'
    <3>1. Covered(Top.device, Top.todo)
      BY <2>4 DEF RefsInv
    <3>2. DOMAIN Top.todo = {}
      BY <2>1
    <3> QED BY <2>2, <3>1, <3>2 DEF Covered
  <2>6. ASSUME NEW d \in DOMAIN report'
        PROVE  \/ \E k \in DOMAIN stack' : stack'[k].device = d
               \/ d \in DOMAIN report /\ ~OnStack(d)
               \/ Follow(d) \subseteq DOMAIN report'
    <3>1. CASE d = Top.device
      BY <2>5, <3>1
    <3>2. CASE d # Top.device /\ OnStack(d)
      <4>1. PICK k \in DOMAIN stack : stack[k].device = d
        BY <3>2 DEF OnStack
      <4>2. k \in DOMAIN stack'
        BY <2>3, <2>4, <3>2, <4>1
      <4> QED BY <2>3, <4>1, <4>2
    <3> QED BY <2>2, <3>1, <3>2
  <2> QED BY <2>2, <2>3, <2>6, RefsStep
<1>12. CASE Trace
  <2>1. /\ stack' = stack /\ job.device \in DOMAIN dat
        /\ \/ report' = report
           \/ report' = reportWith(job.device, IF job.device \in DOMAIN report
                                               THEN report[job.device] ELSE <<>>)
    BY <1>1, <1>12 DEF Trace, InPhase
  <2>2. job.device \in DOMAIN report \/ shouldSkip(job.device)
    BY <1>12 DEF Trace, DeviceReported
  <2>3. \A d \in DOMAIN report' : d \in DOMAIN report \/ d = job.device
    BY <2>1 DEF reportWith
  <2>4. DOMAIN report \subseteq DOMAIN report'
    BY <2>1 DEF reportWith
  <2>5. job.device \in DOMAIN report \/ Follow(job.device) = {}
    BY <1>1, <2>1, <2>2, SkippedRefersToNothing
  <2>6. \A d \in DOMAIN report' : d \in DOMAIN report \/ Follow(d) = {}
    BY <2>3, <2>5
  <2> QED BY <1>2, <2>1, <2>4, <2>6
<1>13. CASE UNCHANGED vars
  BY <1>2, <1>13 DEF vars
<1> QED BY <1>3, <1>4, <1>5, <1>6, <1>7, <1>8, <1>9, <1>10, <1>11, <1>12, <1>13 DEF Next

\* The root cause is the last device of the search at which it stops.
LEMMA LastStop ==
    ASSUME NEW children \in Seq(Names),
           children = SubAssociations(dat, job.device, job.categories)
    PROVE  \/ /\ findRootCauseGeneral = job.device
              /\ \A i \in DOMAIN children : ~Stops(children[i])
           \/ \E i \in DOMAIN children :
                 /\ findRootCauseGeneral = children[i] /\ Stops(children[i])
                 /\ \A j \in DOMAIN children : Stops(children[j]) => j <= i
<1> DEFINE stops == {i \in DOMAIN children : Stops(children[i])}
<1>1. CASE stops = {}
  BY <1>1 DEF findRootCauseGeneral
<1>2. CASE stops # {}
  <2>1. Len(children) \in Nat /\ DOMAIN children = 1 .. Len(children)
    OBVIOUS
  <2>2. \E i \in stops : \A j \in stops : j <= i
    <3>1. stops \in SUBSET (1 .. Len(children))
      BY <2>1
    <3> HIDE DEF stops
    <3> QED BY <1>2, <2>1, <3>1, LargestOf
  <2> DEFINE last == CHOOSE i \in stops : \A j \in stops : j <= i
  <2>3. last \in stops /\ \A j \in stops : j <= last
    <3> HIDE DEF stops
    <3> QED BY <2>2
  <2>4. findRootCauseGeneral = children[last]
    BY <1>2 DEF findRootCauseGeneral
  <2> HIDE DEF last
  <2> QED BY <2>3, <2>4
<1> QED BY <1>1, <1>2

LEMMA NextReported == TestsInv /\ DeviceReported /\ [Next]_vars => DeviceReported'
<1> SUFFICES ASSUME TestsInv, DeviceReported, [Next]_vars, dat' = dat, job' = job,
                    job.kind = "trace"
             PROVE  DeviceReported'
  BY TreeAndJobStay DEF DeviceReported
<1>1. Typed /\ InPhase
  BY DEF TestsInv
<1>2. \A d : shouldSkip(d)' <=> shouldSkip(d)
  BY DEF shouldSkip, hasTestpoints
<1>3. ASSUME pc' = pc, DOMAIN report \subseteq DOMAIN report' PROVE DeviceReported'
  BY <1>2, <1>3 DEF DeviceReported
<1>4. CASE Start
  <2>1. CASE job.device \in DOMAIN dat /\ ~shouldSkip(job.device)
    BY <1>4, <2>1 DEF Start, Perform, reportWith, DeviceReported
  <2>2. CASE ~(job.device \in DOMAIN dat /\ ~shouldSkip(job.device))
    BY <1>2, <1>4, <2>2 DEF Start, DeviceReported
  <2> QED BY <2>1, <2>2
<1>5. CASE ResolveLogs \/ NextDevice \/ ResolveEntry
  BY <1>1, <1>5 DEF ResolveLogs, NextDevice, ResolveEntry, InPhase
<1>6. CASE IgnoreLayer \/ ReadTestPoint
  BY <1>3, <1>6 DEF IgnoreLayer, ReadTestPoint
<1>7. CASE EnterNested
  <2>1. DOMAIN report \subseteq DOMAIN report' /\ pc' = pc
    BY <1>7 DEF EnterNested, Perform, reportWith
  <2> QED BY <1>3, <2>1
<1>8. CASE NestedKnown \/ NestedReturns
  <2>1. pc' = pc /\ \E rc : EvaluateNested(rc)
    BY <1>8 DEF NestedKnown, NestedReturns
  <2>2. DOMAIN report \subseteq DOMAIN report'
    BY <2>1 DEF EvaluateNested, reportWith
  <2> QED BY <1>3, <2>1, <2>2
<1>9. CASE NestedUnknown \/ PerformEnds
  <2>1. pc = "perform" /\ pc' \in {"perform", "trace"}
    BY <1>9 DEF NestedUnknown, PerformEnds, After, AtTestPoint
  <2>2. DOMAIN report \subseteq DOMAIN report'
    BY <1>9 DEF NestedUnknown, PerformEnds, reportWith
  <2> QED BY <2>1, <2>2 DEF DeviceReported
<1>10. CASE Trace
  <2>1. pc' = "done" \/ (pc' = "cause" /\ job.device \in DOMAIN report')
    BY <1>10 DEF Trace, reportWith
  <2> QED BY <2>1 DEF DeviceReported
<1>11. CASE Cause \/ Process
  BY <1>11 DEF Cause, Process, DeviceReported
<1>12. CASE UNCHANGED vars
  BY <1>3, <1>12 DEF vars
<1> QED BY <1>4, <1>5, <1>6, <1>7, <1>8, <1>9, <1>10, <1>11, <1>12 DEF Next

\* What is asked of the report is an entry of it.
LEMMA SearchCovered ==
    ASSUME TestsInv, RefsInv, DeviceReported, WellFormed, pc = "cause"
    PROVE  /\ ~SearchThrows(dat, job.device, job.categories)
           /\ findRootCauseGeneral \in DOMAIN report
<1> DEFINE children == SubAssociations(dat, job.device, job.categories)
<1>1. /\ IsDat(dat) /\ job \in Jobs /\ job.kind = "trace" /\ stack = <<>>
      /\ DOMAIN report \subseteq DOMAIN dat /\ job.device \in DOMAIN report
  BY DEF TestsInv, Typed, InPhase, DeviceReported
<1>2. job.categories \subseteq Layers /\ job.device \in Names
  BY <1>1 DEF Jobs, IsDat
<1>3. \A d \in DOMAIN report : Follow(d) \subseteq DOMAIN report
  BY <1>1 DEF RefsInv, OnStack
<1>4. \A d \in DOMAIN dat : Refers(dat, d, Layers) \subseteq Follow(d)
  BY DEF WellFormed, Follow, Refers, Ignored
<1>5. Refers(dat, job.device, IF job.categories = {} THEN Layers ELSE job.categories)
         \subseteq Refers(dat, job.device, Layers)
  BY <1>2 DEF Refers
<1>6. Within(dat, job.device, job.categories, Cardinality(Names)) \subseteq DOMAIN report
  <2>1. Cardinality(Names) \in Nat
    BY TasksAssumption, FS_CardinalityType
  <2>2. \A d \in DOMAIN report : Refers(dat, d, Layers) \subseteq DOMAIN report
    BY <1>1, <1>3, <1>4
  <2>3. \A d \in DOMAIN report \ {job.device} : Refers(dat, d, Layers) \subseteq DOMAIN report
    BY <2>2
  <2>4. Refers(dat, job.device, IF job.categories = {} THEN Layers ELSE job.categories)
           \subseteq DOMAIN report
    BY <1>1, <1>5, <2>2
  <2> QED BY <1>1, <1>2, <2>1, <2>3, <2>4, WithinStays
<1>7. children \in Seq(Names) /\ Range(children) \subseteq DOMAIN report
  BY <1>1, <1>2, <1>6, TasksAssumption, SearchFinds
<1>8. ~SearchThrows(dat, job.device, job.categories)
  BY <1>1, <1>7 DEF SearchThrows
<1>9. findRootCauseGeneral \in DOMAIN report
  <2>1. PICK found \in Seq(Names) : found = children
    BY <1>7
  <2>2. findRootCauseGeneral = job.device \/ \E i \in DOMAIN found : findRootCauseGeneral = found[i]
    BY <2>1, LastStop
  <2>3. \A i \in DOMAIN found : found[i] \in DOMAIN report
    BY <1>7, <2>1 DEF Range
  <2> QED BY <1>1, <2>2, <2>3
<1> QED BY <1>8, <1>9

LEMMA NextTracer == TestsInv /\ AgreeInv /\ TracerInv /\ [Next]_vars => TracerInv'
<1> SUFFICES ASSUME TestsInv, AgreeInv, TracerInv, [Next]_vars PROVE TracerInv'
  OBVIOUS
<1>1. RefsInv' /\ DeviceReported'
  BY NextRefs, NextReported DEF TracerInv
<1>2. TracerDoesNotThrow'
  <2> SUFFICES ASSUME WellFormed, dat' = dat, job' = job PROVE outcome' # "exception"
    BY TreeAndJobStay DEF TracerDoesNotThrow, WellFormed
  <2>1. outcome # "exception"
    BY DEF TracerInv, TracerDoesNotThrow
  <2>2. CASE Cause
    <3>1. pc = "cause"
      BY <2>2 DEF Cause
    <3>2. /\ ~SearchThrows(dat, job.device, job.categories)
          /\ findRootCauseGeneral \in DOMAIN report
      BY <3>1, SearchCovered DEF TracerInv
    <3> QED BY <2>2, <3>2 DEF Cause
  <2>3. CASE Start \/ Trace \/ Process \/ NextDevice
    BY <2>1, <2>3 DEF Start, Trace, Process, NextDevice
  <2>4. CASE ~(Cause \/ Start \/ Trace \/ Process \/ NextDevice)
    BY <2>1, <2>4 DEF Next, vars, ResolveLogs, ResolveEntry, IgnoreLayer, ReadTestPoint,
       EnterNested, NestedKnown, NestedReturns, NestedUnknown, PerformEnds
  <2> QED BY <2>2, <2>3, <2>4
<1> QED BY <1>1, <1>2 DEF TracerInv

\* TracerDoesNotThrow: in every well-formed tree, circles included, findRootCause
\* (selftest.cpp:590-630) asks the report only for devices perform has entered
\* in it, and the tree only for devices it has.
THEOREM TracerFindsEveryResult == Spec => []TracerDoesNotThrow
<1>1. Init => AgreeInv /\ TracerInv
  BY DEF Init, AgreeInv, StackIsPath, TracerInv, RefsInv, DeviceReported, TracerDoesNotThrow
<1>2. TestsInv /\ AgreeInv /\ [Next]_vars => AgreeInv'
  BY NextAgrees
<1>3. TestsInv /\ AgreeInv /\ TracerInv /\ [Next]_vars => TracerInv'
  BY NextTracer
<1>4. TracerInv => TracerDoesNotThrow
  BY DEF TracerInv
<1> QED BY <1>1, <1>2, <1>3, <1>4, TestsInvariant, PTL DEF Spec

\* What findRootCauseGeneral finds if it does not throw.
LEMMA RootCauseIsMostNested ==
    ASSUME TestsInv, pc = "cause", ~SearchThrows(dat, job.device, job.categories),
           findRootCauseGeneral \in DOMAIN report
    PROVE  LET failed == {d \in DOMAIN report : ~evaluateDevice(report[d])}
               near(n) == Within(dat, job.device, job.categories, n)
               all == Cardinality(Names)
           IN IF failed \cap near(all) = {} THEN findRootCauseGeneral = job.device
              ELSE /\ findRootCauseGeneral \in failed
                   /\ \A n \in 0 .. all :
                         findRootCauseGeneral \in near(n) => failed \cap near(all) \subseteq near(n)
<1> DEFINE failed == {d \in DOMAIN report : ~evaluateDevice(report[d])}
           near(n) == Within(dat, job.device, job.categories, n)
           all == Cardinality(Names)
<1>1. IsDat(dat) /\ job.device \in Names
  BY DEF TestsInv, Typed, InPhase, IsDat
<1>2. all \in Nat
  BY TasksAssumption, FS_CardinalityType
<1>3. PICK found : found = SubAssociations(dat, job.device, job.categories)
  OBVIOUS
<1>4. /\ found \in Seq(Names) /\ Range(found) = near(all)
      /\ NearestFirst(dat, job.device, job.categories, found)
  <2>1. Range(found) \subseteq DOMAIN dat
    BY <1>3 DEF SearchThrows
  <2>2. /\ found \in Seq(Names) /\ Range(found) \subseteq near(all)
        /\ NearestFirst(dat, job.device, job.categories, found)
        /\ \A k \in Nat : near(k) \subseteq Range(found)
    BY <1>1, <1>3, <2>1, TasksAssumption, SearchFinds
  <2> QED BY <1>2, <2>2
<1>5. DOMAIN found = 1 .. Len(found)
  BY <1>4
<1>6. \A d \in DOMAIN report : Stops(d) <=> d \in failed
  BY DEF Stops
<1>7. ASSUME NEW i \in DOMAIN found, findRootCauseGeneral = found[i], Stops(found[i]),
             \A j \in DOMAIN found : Stops(found[j]) => j <= i
      PROVE  /\ findRootCauseGeneral \in failed \cap near(all)
             /\ \A n \in 0 .. all :
                   findRootCauseGeneral \in near(n) => failed \cap near(all) \subseteq near(n)
  <2>1. findRootCauseGeneral \in failed /\ findRootCauseGeneral \in near(all)
    BY <1>4, <1>6, <1>7 DEF Range
  <2>2. ASSUME NEW n \in 0 .. all, findRootCauseGeneral \in near(n),
               NEW d \in failed \cap near(all)
        PROVE  d \in near(n)
    <3>1. PICK j \in DOMAIN found : found[j] = d
      BY <1>4 DEF Range
    <3>2. Stops(found[j])
      BY <1>6, <3>1
    <3>3. j <= i /\ n \in Nat
      BY <1>2, <1>7, <3>2
    <3> QED BY <1>4, <1>5, <1>7, <2>2, <3>1, <3>3 DEF NearestFirst
  <2> QED BY <2>1, <2>2
<1> HIDE DEF failed, near, all
<1>8. \/ failed \cap near(all) = {} /\ findRootCauseGeneral = job.device
      \/ /\ findRootCauseGeneral \in failed \cap near(all)
         /\ \A n \in 0 .. all :
               findRootCauseGeneral \in near(n) => failed \cap near(all) \subseteq near(n)
  <2>1. \/ /\ findRootCauseGeneral = job.device
           /\ \A i \in DOMAIN found : ~Stops(found[i])
        \/ \E i \in DOMAIN found :
              /\ findRootCauseGeneral = found[i] /\ Stops(found[i])
              /\ \A j \in DOMAIN found : Stops(found[j]) => j <= i
    BY <1>3, <1>4, LastStop
  <2>2. CASE /\ findRootCauseGeneral = job.device
             /\ \A i \in DOMAIN found : ~Stops(found[i])
    <3>1. \A d \in Range(found) : ~Stops(d)
      BY <2>2 DEF Range
    <3>2. failed \cap near(all) = {}
      <4>1. failed \subseteq DOMAIN report
        BY DEF failed
      <4> QED BY <1>4, <1>6, <3>1, <4>1
    <3> QED BY <2>2, <3>2
  <2>3. ASSUME NEW i \in DOMAIN found, findRootCauseGeneral = found[i], Stops(found[i]),
               \A j \in DOMAIN found : Stops(found[j]) => j <= i
        PROVE  /\ findRootCauseGeneral \in failed \cap near(all)
               /\ \A n \in 0 .. all :
                     findRootCauseGeneral \in near(n) => failed \cap near(all) \subseteq near(n)
    BY <1>7, <2>3
  <2> QED BY <2>1, <2>2, <2>3
<1> QED BY <1>8 DEF failed, near, all

LEMMA WorstIs ==
    ASSUME NEW S \in SUBSET Severities, S # {}
    PROVE  Worst(S) \in S /\ \A t \in S : t <= Worst(S)
<1>1. \E s \in S : \A t \in S : t <= s
  <2>1. S \subseteq {0, 1, 2}
    BY DEF Severities
  <2>2. CASE 2 \in S
    BY <2>1, <2>2
  <2>3. CASE 2 \notin S /\ 1 \in S
    BY <2>1, <2>3
  <2>4. CASE 2 \notin S /\ 1 \notin S
    <3>1. S = {0}
      BY <2>1, <2>4
    <3> QED BY <3>1
  <2> QED BY <2>2, <2>3, <2>4
<1> QED BY <1>1 DEF Worst

LEMMA DoneStays ==
    ASSUME [Next]_vars, pc = "done"
    PROVE  UNCHANGED vars
<1>1. ~(Start \/ ResolveLogs \/ NextDevice \/ ResolveEntry)
  BY DEF Start, ResolveLogs, NextDevice, ResolveEntry
<1>2. ~(IgnoreLayer \/ ReadTestPoint \/ EnterNested \/ NestedKnown \/ NestedReturns)
  BY DEF IgnoreLayer, ReadTestPoint, EnterNested, NestedKnown, NestedReturns, AtTestPoint
<1>3. ~(NestedUnknown \/ PerformEnds \/ Trace \/ Cause \/ Process)
  BY DEF NestedUnknown, AtTestPoint, PerformEnds, Trace, Cause, Process
<1> QED BY <1>1, <1>2, <1>3 DEF Next

\* The origin is set by the last step, the health by the one before it.
TraceInv ==
    /\ pc # "done" => origin = None
    /\ pc \notin {"cause", "done"} => health = -1
    /\ OriginIsMostNested
    /\ HealthCoversFailures

LEMMA HealthCovers ==
    ASSUME TestsInv, TraceInv, Trace
    PROVE  HealthCoversFailures'
<1> SUFFICES ASSUME health' # -1 PROVE HealthCoversFailures'
  BY DEF HealthCoversFailures
<1>1. Typed /\ pc = "trace" /\ job.kind = "trace" /\ job' = job /\ health = -1
  BY DEF TestsInv, Trace, TraceInv
<1>2. job.severity \in Severities
  BY <1>1, JobIs DEF Typed
<1>3. PICK results : results = IF job.device \in DOMAIN report
                               THEN report[job.device] ELSE <<>>
  OBVIOUS
<1>4. results \in Seq(Results)
  BY <1>1, <1>3 DEF Typed
<1>5. /\ report' = reportWith(job.device, results)
      /\ health' = maxSeverity(results)
  BY <1>1, <1>3 DEF Trace
<1>6. report'[job.device] = results
  BY <1>5 DEF reportWith
<1> DEFINE bad == {0} \cup {results[i].severity : i \in {j \in DOMAIN results :
                               ~results[j].result /\ results[j].nested = None}}
<1>7. bad \in SUBSET Severities /\ bad # {}
  <2>1. \A i \in DOMAIN results : results[i].severity \in Severities
    <3> SUFFICES ASSUME NEW i \in DOMAIN results PROVE results[i].severity \in Severities
      OBVIOUS
    <3>1. results[i] \in Results
      BY <1>4
    <3> QED BY <3>1 DEF Results
  <2> QED BY <2>1 DEF Severities
<1>8. Worst(bad) \in Severities /\ \A t \in bad : t <= Worst(bad)
  <2> HIDE DEF bad
  <2> QED BY <1>7, WorstIs
<1>9. getDeviceTestResult(results) = Worst(bad)
  BY DEF getDeviceTestResult
<1>10. /\ health' \in Severities /\ job.severity <= health' /\ Worst(bad) <= health'
  <2> HIDE DEF bad
  <2>1. {job.severity, Worst(bad)} \in SUBSET Severities
    BY <1>2, <1>8
  <2>2. health' = Worst({job.severity, Worst(bad)})
    BY <1>5, <1>9 DEF maxSeverity
  <2> QED BY <2>1, <2>2, WorstIs
<1>11. \A i \in DOMAIN results :
          results[i].nested = None /\ ~results[i].result => health' >= results[i].severity
  <2> SUFFICES ASSUME NEW i \in DOMAIN results, results[i].nested = None, ~results[i].result
               PROVE  health' >= results[i].severity
    OBVIOUS
  <2>1. results[i].severity \in bad
    OBVIOUS
  <2>2. results[i].severity \in Severities /\ results[i].severity <= Worst(bad)
    <3> HIDE DEF bad
    <3> QED BY <1>7, <1>8, <2>1
  <2> HIDE DEF bad
  <2> QED BY <1>8, <1>10, <2>2 DEF Severities
<1>12. health' >= job.severity
  BY <1>2, <1>10 DEF Severities
<1> QED BY <1>1, <1>6, <1>11, <1>12 DEF HealthCoversFailures

LEMMA NextTrace == TestsInv /\ TraceInv /\ [Next]_vars => TraceInv'
<1> SUFFICES ASSUME TestsInv, TraceInv, [Next]_vars, dat' = dat, job' = job
             PROVE  TraceInv'
  BY TreeAndJobStay
<1>1. ASSUME origin' = None, health' = -1, pc' # "cause" => pc' # "done" \/ origin' = None
      PROVE  TraceInv'
  BY <1>1 DEF TraceInv, OriginIsMostNested, HealthCoversFailures
<1>2. CASE UNCHANGED vars
  BY <1>2 DEF vars, TraceInv, OriginIsMostNested, HealthCoversFailures, evaluateDevice
<1>3. CASE Trace
  <2>1. origin' = None
    BY <1>3 DEF Trace, TraceInv
  <2>2. HealthCoversFailures'
    BY <1>3, HealthCovers
  <2>3. pc' \in {"cause", "done"}
    BY <1>3 DEF Trace
  <2> QED BY <2>1, <2>2, <2>3 DEF TraceInv, OriginIsMostNested
<1>4. CASE Cause
  <2>1. pc = "cause" /\ pc' = "done" /\ UNCHANGED <<report, health>> /\ origin = None
    BY <1>4 DEF Cause, TraceInv
  <2>2. HealthCoversFailures'
    BY <2>1 DEF TraceInv, HealthCoversFailures
  <2>3. OriginIsMostNested'
    <3> SUFFICES ASSUME origin' # None, job.fixed = None PROVE OriginIsMostNested'
      BY DEF OriginIsMostNested
    <3>1. /\ ~SearchThrows(dat, job.device, job.categories)
          /\ findRootCauseGeneral \in DOMAIN report
          /\ origin' = findRootCauseGeneral
      BY <1>4, <2>1 DEF Cause
    <3>2. \A d : evaluateDevice(report'[d]) <=> evaluateDevice(report[d])
      BY <2>1
    <3> QED BY <2>1, <3>1, <3>2, RootCauseIsMostNested DEF OriginIsMostNested
  <2> QED BY <2>1, <2>2, <2>3 DEF TraceInv
<1>5. CASE ~Trace /\ ~Cause /\ Next
  <2>1. CASE pc = "done"
    BY <1>2, <2>1, DoneStays
  <2>2. CASE pc # "done"
    <3>1. origin = None /\ UNCHANGED <<origin, health>>
      BY <1>5, <2>2 DEF TraceInv, Next, Start, ResolveLogs, NextDevice, ResolveEntry,
         IgnoreLayer, ReadTestPoint, EnterNested, NestedKnown, NestedReturns,
         NestedUnknown, PerformEnds, Process
    <3>2. CASE pc # "cause"
      BY <1>1, <2>2, <3>1, <3>2 DEF TraceInv
    <3>3. CASE pc = "cause"
      BY <1>5, <3>3 DEF Next, Start, ResolveLogs, NextDevice, ResolveEntry,
         IgnoreLayer, ReadTestPoint, EnterNested, NestedKnown, NestedReturns,
         NestedUnknown, AtTestPoint, PerformEnds, Process
    <3> QED BY <3>2, <3>3
  <2> QED BY <2>1, <2>2
<1> QED BY <1>2, <1>3, <1>4, <1>5

\* TraceOK: in every tree whose search does not throw, the origin of condition
\* that findRootCauseGeneral (selftest.cpp:606-630) finds is a failed device
\* than which none that failed is more references away from the device of the
\* event, and the health the tracer publishes covers the event and all of the
\* device's own failures.
THEOREM OriginAndHealthAreRight == Spec => []TraceOK
<1>1. Init => TraceInv
  BY DEF Init, TraceInv, OriginIsMostNested, HealthCoversFailures
<1>2. TestsInv /\ TraceInv /\ [Next]_vars => TraceInv'
  BY NextTrace
<1>3. TraceInv => TraceOK
  BY DEF TraceInv, TraceOK
<1> QED BY <1>1, <1>2, <1>3, TestsInvariant, PTL DEF Spec

=============================================================================
