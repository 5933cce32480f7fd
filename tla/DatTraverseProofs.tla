------------------------- MODULE DatTraverseProofs -------------------------
(***************************************************************************)
(* Proofs about DatTraverse for every tree, circles and missing names      *)
(* included, every bus and whatever happens on it during a pass.           *)
(*                                                                         *)
(* The walks are compared with Closure, which is shown to be the least set *)
(* that holds the start and whatever follows (ClosureIsLeast).  A walk     *)
(* knows that what follows a visited device is visited or waits to be      *)
(* (ChildInv, SubInv, ParentInv); a pass, that the devices behind it are   *)
(* done and what of the current one (PassInv), and that between the Get    *)
(* and the Set of a path at most its owner has written (RaceInv).          *)
(***************************************************************************)
EXTENDS DatTraverse, FiniteSetTheorems, SequenceTheorems, TLAPS

-----------------------------------------------------------------------------
(* Numbers                                                                 *)

\* Induction: a set of numbers that is not empty has a least one.
LEMMA SmallestOf ==
    ASSUME NEW T \in SUBSET Nat, T # {}
    PROVE  \E m \in T : \A n \in T : m <= n
<1>1. PICK top \in T : TRUE
  OBVIOUS
<1> DEFINE S == 0 .. top
           R == StrictSubsetOrdering(S)
           U == {0 .. x : x \in T \cap S}
<1>2. IsFiniteSet(S) /\ top \in Nat
  BY <1>1, FS_Interval
<1>3. IsWellFoundedOn(R, FiniteSubsetsOf(S))
  BY FS_StrictSubsetOrderingWellFounded
<1>4. U \subseteq FiniteSubsetsOf(S) /\ U # {}
  <2>1. ASSUME NEW x \in T \cap S PROVE IsFiniteSet(0 .. x) /\ 0 .. x \subseteq S
    BY <1>2, FS_Interval
  <2>2. top \in T \cap S
    BY <1>1
  <2> QED BY <2>1, <2>2 DEF FiniteSubsetsOf
<1>5. \E u \in U : \A v \in U : ~(<<v, u>> \in R)
  <2> HIDE DEF U, R, S
  <2> QED BY <1>3, <1>4, WFMin
<1>6. PICK m \in T \cap S : \A x \in T \cap S : ~(<<0 .. x, 0 .. m>> \in R)
  BY <1>5
<1>7. ASSUME NEW n \in T, n < m PROVE FALSE
  <2>1. n \in S /\ 0 .. n \subseteq 0 .. m /\ m \notin 0 .. n /\ m \in 0 .. m
    BY <1>6, <1>7
  <2>2. <<0 .. n, 0 .. m>> \in R
    BY <2>1 DEF StrictSubsetOrdering
  <2> QED BY <1>6, <2>1, <2>2
<1> QED BY <1>6, <1>7

-----------------------------------------------------------------------------
(* Sequences put together                                                  *)

\* FlattenSeq is the last of the sequences its definition builds up.
LEMMA FlattenUnfolds ==
    ASSUME NEW S, NEW n \in Nat, n > 0, NEW s \in [1 .. n -> Seq(S)]
    PROVE  \E f : /\ FlattenSeq(s) = f[n]
                  /\ f[1] = s[1]
                  /\ \A i \in 1 .. n : i # 1 => f[i] = f[i - 1] \o s[i]
<1>0. s \in Seq(Seq(S)) /\ Len(s) = n
  OBVIOUS
<1> DEFINE Is(f, m) == f = [i \in 1 .. m |-> IF i = 1 THEN s[i] ELSE f[i - 1] \o s[i]]
           T == {m \in 1 .. n : ~\E f : Is(f, m)}
           flatten == CHOOSE f : Is(f, n)
<1>1. T = {}
  <2> SUFFICES ASSUME T # {} PROVE FALSE
    OBVIOUS
  <2>1. PICK m \in T : \A l \in T : m <= l
    <3>1. T \subseteq Nat
      <4> HIDE DEF Is
      <4> QED OBVIOUS
    <3> HIDE DEF T
    <3> QED BY <3>1, SmallestOf
  <2>2. m \in 1 .. n /\ ~\E f : Is(f, m)
    BY <2>1
  <2>3. CASE m = 1
    <3> DEFINE f == [i \in 1 .. 1 |-> s[1]]
    <3>1. Is(f, 1)
      OBVIOUS
    <3> QED BY <2>2, <2>3, <3>1
  <2>4. CASE m # 1
    <3>1. m - 1 \in 1 .. n /\ m - 1 \notin T
      <4> HIDE DEF T
      <4> QED BY <2>1, <2>2, <2>4
    <3>2. PICK g : Is(g, m - 1)
      <4> HIDE DEF Is
      <4> QED BY <3>1
    <3> DEFINE f == [i \in 1 .. m |-> IF i = m THEN g[m - 1] \o s[m] ELSE g[i]]
    <3>3. ASSUME NEW i \in 1 .. m
          PROVE  f[i] = IF i = 1 THEN s[i] ELSE f[i - 1] \o s[i]
      <4>1. CASE i = m
        <5>1. i - 1 \in 1 .. m /\ i - 1 # m
          BY <2>2, <2>4, <4>1
        <5>2. f[i] = g[m - 1] \o s[m] /\ f[i - 1] = g[i - 1]
          BY <4>1, <5>1
        <5> QED BY <2>4, <4>1, <5>2
      <4>2. CASE i # m /\ i = 1
        <5>1. f[i] = g[i] /\ i \in 1 .. m - 1
          BY <2>2, <4>2
        <5>2. g[i] = s[i]
          BY <3>2, <4>2, <5>1
        <5> QED BY <4>2, <5>1, <5>2
      <4>3. CASE i # m /\ i # 1
        <5>1. /\ i \in 1 .. m - 1 /\ i - 1 \in 1 .. m /\ i - 1 # m
              /\ f[i] = g[i] /\ f[i - 1] = g[i - 1]
          BY <2>2, <4>3
        <5>2. g[i] = g[i - 1] \o s[i]
          BY <3>2, <4>3, <5>1
        <5> QED BY <4>3, <5>1, <5>2
      <4> QED BY <4>1, <4>2, <4>3
    <3>4. f = [i \in 1 .. m |-> f[i]]
      OBVIOUS
    <3>5. Is(f, m)
      <4> HIDE DEF f
      <4> QED BY <3>3, <3>4, Zenon
    <3> HIDE DEF f
    <3> QED BY <2>2, <3>5
  <2> QED BY <2>3, <2>4
<1>2. Is(flatten, n)
  <2>1. n \in 1 .. n
    OBVIOUS
  <2>2. \E f : Is(f, n)
    BY <1>1, <2>1
  <2> HIDE DEF Is
  <2> QED BY <2>2
<1>3. FlattenSeq(s) = flatten[n]
  BY <1>0 DEF FlattenSeq
<1>4. \A i \in 1 .. n : flatten[i] = IF i = 1 THEN s[i] ELSE flatten[i - 1] \o s[i]
  <2> HIDE DEF flatten
  <2> QED BY <1>2
<1>5. 1 \in 1 .. n
  OBVIOUS
<1> HIDE DEF flatten
<1> QED BY <1>3, <1>4, <1>5

LEMMA FlattenIs ==
    ASSUME NEW S, NEW n \in Nat, NEW s \in [1 .. n -> Seq(S)]
    PROVE  /\ FlattenSeq(s) \in Seq(S)
           /\ Range(FlattenSeq(s)) = UNION {Range(s[i]) : i \in 1 .. n}
<1>1. s \in Seq(Seq(S)) /\ Len(s) = n
  OBVIOUS
<1>2. CASE n = 0
  <2>1. s = <<>> /\ Range(s) = {}
    BY <1>1, <1>2 DEF Range
  <2>2. FlattenSeq(s) = s
    BY <1>1, <1>2 DEF FlattenSeq
  <2>3. UNION {Range(s[i]) : i \in 1 .. n} = {}
    BY <1>2
  <2>4. FlattenSeq(s) \in Seq(S) /\ Range(FlattenSeq(s)) = {}
    <3>1. s \in Seq(S)
      BY <2>1
    <3> QED BY <2>1, <2>2, <3>1, Zenon
  <2> QED BY <2>3, <2>4, Zenon
<1>3. CASE n > 0
  <2>2. PICK flatten : /\ FlattenSeq(s) = flatten[n]
                       /\ flatten[1] = s[1]
                       /\ \A i \in 1 .. n : i # 1 => flatten[i] = flatten[i - 1] \o s[i]
    BY <1>3, FlattenUnfolds
  <2>3. FlattenSeq(s) = flatten[n]
    BY <2>2
  <2>4. \A i \in 1 .. n : flatten[i] = IF i = 1 THEN s[i] ELSE flatten[i - 1] \o s[i]
    BY <2>2
  <2> DEFINE R(i) == UNION {Range(s[j]) : j \in 1 .. i}
             U == {i \in 1 .. n : ~(flatten[i] \in Seq(S) /\ Range(flatten[i]) = R(i))}
  <2>5. U = {}
    <3> SUFFICES ASSUME U # {} PROVE FALSE
      OBVIOUS
    <3>1. PICK m \in U : \A l \in U : m <= l
      <4> U \subseteq Nat
        OBVIOUS
      <4> HIDE DEF U
      <4> QED BY SmallestOf
    <3>2. m \in 1 .. n /\ ~(flatten[m] \in Seq(S) /\ Range(flatten[m]) = R(m))
      BY <3>1
    <3>3. CASE m = 1
      <4>1. flatten[1] = s[1] /\ s[1] \in Seq(S)
        BY <2>4, <3>2, <3>3
      <4>2. R(1) = Range(s[1])
        OBVIOUS
      <4> HIDE DEF R
      <4> QED BY <3>2, <3>3, <4>1, <4>2
    <3>4. CASE m # 1
      <4>1. m - 1 \in 1 .. n /\ m - 1 \notin U
        <5> HIDE DEF U
        <5> QED BY <3>1, <3>2, <3>4
      <4>2. flatten[m - 1] \in Seq(S) /\ Range(flatten[m - 1]) = R(m - 1)
        BY <4>1
      <4>3. flatten[m] = flatten[m - 1] \o s[m] /\ s[m] \in Seq(S)
        BY <2>4, <3>2, <3>4
      <4>4. flatten[m] \in Seq(S) /\ Range(flatten[m]) = R(m - 1) \cup Range(s[m])
        <5> HIDE DEF R
        <5>1. PICK a, b : a = flatten[m - 1] /\ b = s[m]
          OBVIOUS
        <5>2. a \in Seq(S) /\ b \in Seq(S)
          BY <4>2, <4>3, <5>1
        <5>3. a \o b \in Seq(S) /\ Range(a \o b) = Range(a) \cup Range(b)
          BY <5>2, ConcatProperties, RangeConcatenation
        <5> QED BY <4>2, <4>3, <5>1, <5>3
      <4>5. R(m) = R(m - 1) \cup Range(s[m])
        <5>1. 1 .. m = (1 .. m - 1) \cup {m}
          BY <3>2
        <5> QED BY <5>1
      <4> HIDE DEF R
      <4> QED BY <3>2, <4>4, <4>5
    <3> QED BY <3>3, <3>4
  <2>6. n \in 1 .. n /\ n \notin U
    BY <1>3, <2>5
  <2> QED BY <2>3, <2>6
<1> QED BY <1>2, <1>3

-----------------------------------------------------------------------------
(* What a device lists                                                     *)

LEMMA DeviceIs ==
    ASSUME NEW tree, IsDat(tree), NEW d \in DOMAIN tree
    PROVE  /\ d \in Names
           /\ tree[d].test \in Seq(TestPoints) /\ tree[d].association \in Seq(Names)
           /\ Range(tree[d].association) \subseteq Names
<1>1. tree[d] \in Devices /\ d \in Names
  BY DEF IsDat
<1>2. tree[d].test \in Seq(TestPoints) /\ tree[d].association \in Seq(Names)
  BY <1>1 DEF Devices
<1> QED BY <1>1, <1>2, RangeOfSeq

LEMMA TestpointsAre ==
    ASSUME NEW entry, entry.test \in Seq(TestPoints), NEW layers
    PROVE  /\ getDeviceTypeTestpoints(entry, layers) \in Seq(Names)
           /\ Range(getDeviceTypeTestpoints(entry, layers)) =
                 {entry.test[i].nested : i \in {j \in DOMAIN entry.test :
                      /\ entry.test[j].layer \in layers
                      /\ entry.test[j].nested # None}}
<1>1. PICK test : test = entry.test
  OBVIOUS
<1> DEFINE n == Len(test)
           chosen(i) == test[i].nested # None /\ test[i].layer \in layers
           s == [i \in 1 .. n |-> IF chosen(i) THEN <<test[i].nested>> ELSE <<>>]
<1>2. n \in Nat /\ DOMAIN test = 1 .. n
  BY <1>1
<1>3. ASSUME NEW i \in 1 .. n
      PROVE  /\ s[i] \in Seq(Names)
             /\ Range(s[i]) = IF chosen(i) THEN {test[i].nested} ELSE {}
  <2>1. test[i] \in TestPoints
    BY <1>1, <1>2
  <2>2. CASE chosen(i)
    <3>1. s[i] = <<test[i].nested>> /\ test[i].nested \in Names
      BY <2>1, <2>2 DEF TestPoints
    <3> HIDE DEF s, chosen
    <3> QED BY <2>2, <3>1 DEF Range
  <2>3. CASE ~chosen(i)
    <3>1. s[i] = <<>>
      BY <2>3
    <3> HIDE DEF s, chosen
    <3> QED BY <2>3, <3>1 DEF Range
  <2> HIDE DEF s, chosen
  <2> QED BY <2>2, <2>3
<1>4. getDeviceTypeTestpoints(entry, layers) = FlattenSeq(s)
  BY <1>1, <1>2 DEF getDeviceTypeTestpoints, refersOn
<1>5. s \in [1 .. n -> Seq(Names)]
  <2>1. s = [i \in 1 .. n |-> s[i]]
    OBVIOUS
  <2> HIDE DEF s
  <2> QED BY <1>3, <2>1
<1>6. /\ FlattenSeq(s) \in Seq(Names)
      /\ Range(FlattenSeq(s)) = UNION {Range(s[i]) : i \in 1 .. n}
  <2> HIDE DEF s, n
  <2>1. PICK m : m = n
    OBVIOUS
  <2> QED BY <1>2, <1>5, <2>1, FlattenIs
<1>7. UNION {Range(s[i]) : i \in 1 .. n} =
         {test[i].nested : i \in {j \in DOMAIN test : test[j].layer \in layers
                                                      /\ test[j].nested # None}}
  <2>1. \A i : chosen(i) <=> test[i].layer \in layers /\ test[i].nested # None
    OBVIOUS
  <2> HIDE DEF s, chosen, n
  <2>2. {test[i].nested : i \in {j \in DOMAIN test : test[j].layer \in layers
                                                    /\ test[j].nested # None}} =
           {test[i].nested : i \in {j \in 1 .. n : chosen(j)}}
    BY <1>2, <2>1
  <2>3. \A x : x \in UNION {Range(s[i]) : i \in 1 .. n} <=>
                  \E i \in 1 .. n : x \in Range(s[i])
    OBVIOUS
  <2>4. \A x : x \in UNION {Range(s[i]) : i \in 1 .. n} <=>
                  \E i \in 1 .. n : chosen(i) /\ x = test[i].nested
    <3>1. ASSUME NEW i \in 1 .. n, NEW x
          PROVE  x \in Range(s[i]) <=> chosen(i) /\ x = test[i].nested
      <4>1. CASE chosen(i)
        BY <1>3, <4>1
      <4>2. CASE ~chosen(i)
        BY <1>3, <4>2
      <4> QED BY <4>1, <4>2
    <3> QED BY <2>3, <3>1, Zenon
  <2>5. \A x : x \in {test[i].nested : i \in {j \in 1 .. n : chosen(j)}} <=>
                  \E i \in 1 .. n : chosen(i) /\ x = test[i].nested
    OBVIOUS
  <2> QED BY <2>2, <2>4, <2>5
<1> HIDE DEF s, n
<1> QED BY <1>1, <1>4, <1>6, <1>7

LEMMA SearchFollows ==
    ASSUME NEW tree, IsDat(tree), NEW d \in DOMAIN tree, NEW layers
    PROVE  /\ getDeviceTypeTestpoints(tree[d], layers) \in Seq(Names)
           /\ Range(getDeviceTypeTestpoints(tree[d], layers)) = Refers(tree, d, layers)
<1>1. tree[d].test \in Seq(TestPoints)
  BY DeviceIs
<1> QED BY <1>1, TestpointsAre DEF Refers

LEMMA InOrderIs ==
    ASSUME NEW tree, IsDat(tree), NEW order \in Seq(Names), Range(order) = Names
    PROVE  /\ InOrder(tree, order) \in Seq(DOMAIN tree)
           /\ Range(InOrder(tree, order)) = DOMAIN tree
<1> DEFINE n == Len(order)
           s == [i \in 1 .. n |-> IF order[i] \in DOMAIN tree THEN <<order[i]>> ELSE <<>>]
<1>1. n \in Nat /\ DOMAIN order = 1 .. n
  OBVIOUS
<1>2. ASSUME NEW i \in 1 .. n
      PROVE  /\ s[i] \in Seq(DOMAIN tree)
             /\ Range(s[i]) = {order[i]} \cap DOMAIN tree
  <2>1. CASE order[i] \in DOMAIN tree
    <3>1. s[i] = <<order[i]>>
      BY <2>1
    <3> HIDE DEF s
    <3> QED BY <2>1, <3>1 DEF Range
  <2>2. CASE order[i] \notin DOMAIN tree
    <3>1. s[i] = <<>>
      BY <2>2
    <3> HIDE DEF s
    <3> QED BY <2>2, <3>1 DEF Range
  <2> HIDE DEF s
  <2> QED BY <2>1, <2>2
<1>3. InOrder(tree, order) = FlattenSeq(s)
  BY <1>1 DEF InOrder
<1>4. s \in [1 .. n -> Seq(DOMAIN tree)]
  <2>1. s = [i \in 1 .. n |-> s[i]]
    OBVIOUS
  <2> HIDE DEF s
  <2> QED BY <1>2, <2>1
<1>5. /\ FlattenSeq(s) \in Seq(DOMAIN tree)
      /\ Range(FlattenSeq(s)) = UNION {Range(s[i]) : i \in 1 .. n}
  <2> HIDE DEF s, n
  <2>1. PICK m : m = n
    OBVIOUS
  <2> QED BY <1>1, <1>4, <2>1, FlattenIs
<1>6. UNION {Range(s[i]) : i \in 1 .. n} = DOMAIN tree
  <2>1. DOMAIN tree \subseteq {order[i] : i \in 1 .. n}
    BY <1>1 DEF Range, IsDat
  <2> HIDE DEF s, n
  <2>2. \A x : x \in UNION {Range(s[i]) : i \in 1 .. n} <=>
                  \E i \in 1 .. n : x = order[i] /\ x \in DOMAIN tree
    BY <1>2
  <2> QED BY <2>1, <2>2
<1> HIDE DEF s, n
<1> QED BY <1>3, <1>5, <1>6

LEMMA ListingsCount ==
    ASSUME NEW entry, entry.association \in Seq(Names), NEW d
    PROVE  /\ Listings(entry, d) \in Nat
           /\ Listings(entry, d) > 0 <=> d \in Range(entry.association)
<1> DEFINE K == {k \in DOMAIN entry.association : entry.association[k] = d}
<1>1. IsFiniteSet(K)
  <2>1. PICK n \in Nat : DOMAIN entry.association = 1 .. n
    OBVIOUS
  <2>2. IsFiniteSet(1 .. n) /\ K \subseteq 1 .. n
    BY <2>1, FS_Interval
  <2> HIDE DEF K
  <2> QED BY <2>2, FS_Subset
<1>2. Listings(entry, d) = Cardinality(K)
  BY DEF Listings
<1>3. K = {} <=> d \notin Range(entry.association)
  BY DEF Range
<1>4. Cardinality(K) \in Nat /\ (Cardinality(K) = 0 <=> K = {})
  <2> HIDE DEF K
  <2> QED BY <1>1, FS_CardinalityType, FS_EmptySet
<1> HIDE DEF K
<1> QED BY <1>2, <1>3, <1>4

LEMMA ParentsAre ==
    ASSUME NEW tree, IsDat(tree), NEW order \in Seq(Names), Range(order) = Names, NEW d
    PROVE  /\ Parents(tree, order, d) \in Seq(DOMAIN tree)
           /\ Range(Parents(tree, order, d)) =
                 {e \in DOMAIN tree : d \in Range(tree[e].association)}
<1> DEFINE n == Len(order)
           list(e) == [k \in 1 .. Listings(tree[e], d) |-> e]
           s == [i \in 1 .. n |->
                   IF order[i] \in DOMAIN tree THEN list(order[i]) ELSE <<>>]
<1>1. n \in Nat /\ DOMAIN order = 1 .. n
  OBVIOUS
<1>2. ASSUME NEW e \in DOMAIN tree
      PROVE  /\ list(e) \in Seq(DOMAIN tree)
             /\ Range(list(e)) = IF d \in Range(tree[e].association) THEN {e} ELSE {}
  <2>1. PICK c : c = Listings(tree[e], d)
    OBVIOUS
  <2>2. c \in Nat /\ (c > 0 <=> d \in Range(tree[e].association))
    BY <2>1, DeviceIs, ListingsCount
  <2>3. list(e) = [k \in 1 .. c |-> e]
    BY <2>1
  <2>4. [k \in 1 .. c |-> e] \in Seq(DOMAIN tree)
    BY <2>2
  <2>5. Range([k \in 1 .. c |-> e]) = IF c > 0 THEN {e} ELSE {}
    <3>1. Range([k \in 1 .. c |-> e]) = {e : k \in 1 .. c}
      BY DEF Range
    <3>2. c > 0 => 1 \in 1 .. c
      BY <2>2
    <3>3. ~(c > 0) => 1 .. c = {}
      BY <2>2
    <3> QED BY <3>1, <3>2, <3>3
  <2> HIDE DEF list
  <2> QED BY <2>2, <2>3, <2>4, <2>5
<1>3. ASSUME NEW i \in 1 .. n
      PROVE  /\ s[i] \in Seq(DOMAIN tree)
             /\ Range(s[i]) = {e \in {order[i]} \cap DOMAIN tree :
                                  d \in Range(tree[e].association)}
  <2>1. CASE order[i] \in DOMAIN tree
    <3>1. s[i] = list(order[i])
      BY <2>1
    <3> HIDE DEF s, list
    <3> QED BY <1>2, <2>1, <3>1
  <2>2. CASE order[i] \notin DOMAIN tree
    <3>1. s[i] = <<>>
      BY <2>2
    <3> HIDE DEF s, list
    <3> QED BY <2>2, <3>1 DEF Range
  <2> HIDE DEF s, list
  <2> QED BY <2>1, <2>2
<1>4. Parents(tree, order, d) = FlattenSeq(s)
  BY <1>1 DEF Parents
<1>5. s \in [1 .. n -> Seq(DOMAIN tree)]
  <2>1. s = [i \in 1 .. n |-> s[i]]
    OBVIOUS
  <2> HIDE DEF s
  <2> QED BY <1>3, <2>1
<1>6. /\ FlattenSeq(s) \in Seq(DOMAIN tree)
      /\ Range(FlattenSeq(s)) = UNION {Range(s[i]) : i \in 1 .. n}
  <2> HIDE DEF s, n
  <2>1. PICK m : m = n
    OBVIOUS
  <2> QED BY <1>1, <1>5, <2>1, FlattenIs
<1>7. UNION {Range(s[i]) : i \in 1 .. n} =
         {e \in DOMAIN tree : d \in Range(tree[e].association)}
  <2>1. \A e \in DOMAIN tree : \E i \in 1 .. n : order[i] = e
    BY <1>1 DEF Range, IsDat
  <2> HIDE DEF s, n
  <2>2. ASSUME NEW e \in DOMAIN tree, d \in Range(tree[e].association)
        PROVE  \E i \in 1 .. n : e \in Range(s[i])
    BY <1>3, <2>1, <2>2
  <2>3. ASSUME NEW i \in 1 .. n, NEW e \in Range(s[i])
        PROVE  e \in DOMAIN tree /\ d \in Range(tree[e].association)
    BY <1>3, <2>3
  <2> QED BY <2>2, <2>3
<1> HIDE DEF s, n
<1> QED BY <1>4, <1>6, <1>7

-----------------------------------------------------------------------------
(* References                                                              *)

LEMMA RefersToNames ==
    ASSUME NEW tree, IsDat(tree), NEW d, NEW c
    PROVE  Refers(tree, d, c) \subseteq Names
<1> SUFFICES ASSUME d \in DOMAIN tree, NEW i \in DOMAIN tree[d].test,
                    tree[d].test[i].nested # None
             PROVE  tree[d].test[i].nested \in Names
  BY DEF Refers
<1>1. tree[d].test \in Seq(TestPoints)
  BY DEF IsDat, Devices
<1>2. tree[d].test[i] \in TestPoints
  BY <1>1
<1> QED BY <1>2 DEF TestPoints

-----------------------------------------------------------------------------
(* The states                                                              *)

associated == walk = "associate" /\ running

\* The walk of the pass from the device is over and its paths are known.
found == associated /\ toVisit = <<>> /\ result = <<>> /\ OM!IsTree(cache)

Typed ==
    /\ TypeOK /\ IsDat(dat) /\ bus \in Buses
    /\ walk \notin {"parent", "none", "associate"} => device \in Names
    /\ walk = "parent" /\ running =>
          device \in DOMAIN dat /\ Range(toVisit) \subseteq DOMAIN dat
    /\ associated =>
          /\ devices # <<>> /\ device = Head(devices)
          /\ device \in DOMAIN dat /\ Range(devices) \subseteq DOMAIN dat
          /\ toVisit = <<>> /\ result = <<>> => OM!IsTree(cache) /\ cache # None
    /\ values # None => found

-----------------------------------------------------------------------------
(* Sequences and the sets of what is in them                               *)

LEMMA FrontAndLast ==
    ASSUME NEW S, NEW s \in Seq(S), s # <<>>
    PROVE  /\ Front(s) \in Seq(S) /\ Last(s) \in S
           /\ Range(s) = Range(Front(s)) \cup {Last(s)}
<1>1. PICK n \in Nat : n = Len(s) /\ n > 0 /\ DOMAIN s = 1 .. n
  OBVIOUS
<1>2. \A i \in 1 .. n - 1 : s[i] \in S
  BY <1>1
<1>3. /\ Front(s) \in Seq(S) /\ Len(Front(s)) = n - 1
      /\ \A i \in 1 .. n - 1 : Front(s)[i] = s[i]
  BY <1>1, <1>2, SubSeqProperties DEF Front
<1>4. Last(s) \in S /\ Last(s) = s[n]
  BY <1>1 DEF Last
<1>5. DOMAIN Front(s) = 1 .. n - 1
  BY <1>1, <1>3
<1>6. 1 .. n = (1 .. n - 1) \cup {n}
  BY <1>1
<1> QED BY <1>1, <1>3, <1>4, <1>5, <1>6 DEF Range

LEMMA HeadAndTail ==
    ASSUME NEW S, NEW s \in Seq(S), s # <<>>
    PROVE  /\ Head(s) \in S /\ Tail(s) \in Seq(S)
           /\ Range(s) = {Head(s)} \cup Range(Tail(s))
<1>1. PICK n \in Nat : n = Len(s) /\ n > 0 /\ DOMAIN s = 1 .. n
  OBVIOUS
<1>2. /\ Head(s) \in S /\ Tail(s) \in Seq(S) /\ Head(s) = s[1]
      /\ DOMAIN Tail(s) = 1 .. n - 1 /\ \A i \in 1 .. n - 1 : Tail(s)[i] = s[i + 1]
  BY <1>1
<1>3. ASSUME NEW x PROVE x \in Range(s) <=> x \in {Head(s)} \cup Range(Tail(s))
  <2>1. ASSUME NEW i \in 1 .. n, x = s[i]
        PROVE  x \in {Head(s)} \cup Range(Tail(s))
    <3>1. CASE i = 1
      BY <1>2, <2>1, <3>1
    <3>2. CASE i # 1
      <4>1. i - 1 \in 1 .. n - 1 /\ (i - 1) + 1 = i
        BY <3>2
      <4>2. Tail(s)[i - 1] = s[(i - 1) + 1]
        BY <1>2, <4>1
      <4> QED BY <1>2, <2>1, <4>1, <4>2 DEF Range
    <3> QED BY <3>1, <3>2
  <2>2. ASSUME NEW i \in 1 .. n - 1 PROVE i + 1 \in 1 .. n
    OBVIOUS
  <2>3. 1 \in 1 .. n
    BY <1>1
  <2> QED BY <1>1, <1>2, <2>1, <2>2, <2>3 DEF Range
<1> QED BY <1>2, <1>3

LEMMA AppendedIs ==
    ASSUME NEW S, NEW s \in Seq(S), NEW e \in S
    PROVE  /\ Append(s, e) \in Seq(S) /\ Range(Append(s, e)) = Range(s) \cup {e}
           /\ IsInjective(s) /\ e \notin Range(s) => IsInjective(Append(s, e))
<1>1. PICK n \in Nat : n = Len(s) /\ DOMAIN s = 1 .. n
  OBVIOUS
<1>2. /\ Append(s, e) \in Seq(S) /\ DOMAIN Append(s, e) = 1 .. n + 1
      /\ \A i \in 1 .. n : Append(s, e)[i] = s[i]
      /\ Append(s, e)[n + 1] = e
  BY <1>1
<1>3. 1 .. n + 1 = (1 .. n) \cup {n + 1}
  BY <1>1
<1>4. Range(Append(s, e)) = Range(s) \cup {e}
  BY <1>1, <1>2, <1>3 DEF Range
<1>5. ASSUME IsInjective(s), e \notin Range(s) PROVE IsInjective(Append(s, e))
  <2>1. \A i \in 1 .. n : s[i] # e
    BY <1>1, <1>5 DEF Range
  <2> QED BY <1>1, <1>2, <1>3, <1>5, <2>1 DEF IsInjective
<1> QED BY <1>2, <1>4, <1>5

LEMMA ContainsIs ==
    ASSUME NEW S, NEW s \in Seq(S), NEW e
    PROVE  Contains(s, e) <=> e \in Range(s)
BY DEF Contains, Range

LEMMA JoinedIs ==
    ASSUME NEW S, NEW s \in Seq(S), NEW t \in Seq(S)
    PROVE  s \o t \in Seq(S) /\ Range(s \o t) = Range(s) \cup Range(t)
BY ConcatProperties, RangeConcatenation

LEMMA SingleIs ==
    ASSUME NEW S, NEW e \in S
    PROVE  <<e>> \in Seq(S) /\ Range(<<e>>) = {e} /\ <<e>> # <<>> /\ Head(<<e>>) = e
<1>1. <<e>> \in Seq(S) /\ DOMAIN <<e>> = {1} /\ <<e>>[1] = e
  OBVIOUS
<1> QED BY <1>1 DEF Range

LEMMA EmptyIs ==
    /\ \A S : <<>> \in Seq(S)
    /\ Range(<<>>) = {} /\ IsInjective(<<>>)
BY DEF Range, IsInjective

-----------------------------------------------------------------------------
(* Closure                                                                 *)

LEMMA ClosureIsLeast ==
    ASSUME NEW next \in [Names -> SUBSET Names], NEW S \in SUBSET Names
    PROVE  /\ S \subseteq Closure(next, S) /\ Closure(next, S) \subseteq Names
           /\ \A d \in Closure(next, S) : next[d] \subseteq Closure(next, S)
           /\ \A C \in SUBSET Names :
                 S \subseteq C /\ (\A d \in C : next[d] \subseteq C)
                    => Closure(next, S) \subseteq C
<1> DEFINE Larger(T) == T \cup UNION {next[d] : d \in T}
           Closed(C) == \A d \in C : next[d] \subseteq C
           W == [T \in SUBSET Names |->
                   {n \in Names : \A C \in SUBSET Names :
                                     T \subseteq C /\ Closed(C) => n \in C}]
           Is(f) == f = [T \in SUBSET Names |->
                           IF Larger(T) = T THEN T ELSE f[Larger(T)]]
           close == CHOOSE f : Is(f)
<1>1. ASSUME NEW T \in SUBSET Names
      PROVE  /\ Larger(T) \in SUBSET Names /\ T \subseteq Larger(T)
             /\ Larger(T) = T => Closed(T)
             /\ \A C \in SUBSET Names : T \subseteq C /\ Closed(C) => Larger(T) \subseteq C
  OBVIOUS
<1>2. ASSUME NEW T \in SUBSET Names
      PROVE  W[T] = IF Larger(T) = T THEN T ELSE W[Larger(T)]
  <2>1. \A V \in SUBSET Names :
           W[V] = {n \in Names : \A C \in SUBSET Names : V \subseteq C /\ Closed(C) => n \in C}
    OBVIOUS
  <2> HIDE DEF W, Closed, Larger
  <2>2. CASE Larger(T) = T
    <3>1. Closed(T) /\ W[T] = {n \in Names : \A C \in SUBSET Names :
                                 T \subseteq C /\ Closed(C) => n \in C}
      BY <1>1, <2>1, <2>2
    <3>2. W[T] \subseteq T
      BY <3>1
    <3>3. T \subseteq W[T]
      BY <3>1
    <3> QED BY <2>2, <3>2, <3>3
  <2>3. CASE Larger(T) # T
    <3>1. \A C \in SUBSET Names : Closed(C) => (T \subseteq C <=> Larger(T) \subseteq C)
      BY <1>1
    <3>2. Larger(T) \in SUBSET Names
      BY <1>1
    <3> QED BY <2>1, <2>3, <3>1, <3>2
  <2> QED BY <2>2, <2>3
<1>3. Is(W)
  <2>1. W = [T \in SUBSET Names |-> W[T]]
    OBVIOUS
  <2> HIDE DEF W, Larger
  <2> QED BY <1>2, <2>1, Zenon
<1>4. Is(close)
  <2> HIDE DEF Is, W
  <2> QED BY <1>3
<1>5. Closure(next, S) = close[S]
  BY DEF Closure
<1>6. \A T \in SUBSET Names : close[T] = IF Larger(T) = T THEN T ELSE close[Larger(T)]
  <2> HIDE DEF close, Larger
  <2> QED BY <1>4
<1> HIDE DEF close
<1>7. close[S] = W[S]
  <2> DEFINE R == StrictSubsetOrdering(Names)
             U == {V \in SUBSET Names : close[Names \ V] # W[Names \ V]}
  <2>1. IsWellFoundedOn(R, FiniteSubsetsOf(Names))
    BY FS_StrictSubsetOrderingWellFounded
  <2>2. U \subseteq FiniteSubsetsOf(Names)
    BY WalksAssumption, FS_Subset DEF FiniteSubsetsOf
  <2>3. CASE U = {}
    <3>1. Names \ S \notin U /\ Names \ (Names \ S) = S
      BY <2>3
    <3> HIDE DEF W
    <3> QED BY <3>1
  <2>4. CASE U # {}
    <3>1. PICK V \in U : \A Y \in U : ~(<<Y, V>> \in R)
      <4> HIDE DEF U, R
      <4> QED BY <2>1, <2>2, <2>4, WFMin
    <3> DEFINE T == Names \ V
    <3>2. T \in SUBSET Names /\ close[T] # W[T] /\ Names \ T = V
      OBVIOUS
    <3>3. Larger(T) # T
      <4> HIDE DEF W, T, Larger
      <4> QED BY <1>2, <1>6, <3>2
    <3>4. Names \ Larger(T) \in U
      <4>1. close[T] = close[Larger(T)] /\ W[T] = W[Larger(T)]
        <5> HIDE DEF W, T, Larger
        <5> QED BY <1>2, <1>6, <3>2, <3>3
      <4>2. Larger(T) \in SUBSET Names
        <5> HIDE DEF T, Larger
        <5> QED BY <1>1, <3>2
      <4>3. Names \ (Names \ Larger(T)) = Larger(T)
        <5> HIDE DEF T, Larger
        <5> QED BY <4>2
      <4> HIDE DEF W, T, Larger
      <4> QED BY <3>2, <4>1, <4>2, <4>3
    <3>5. <<Names \ Larger(T), V>> \in R
      <4>1. T \subseteq Larger(T) /\ Larger(T) \in SUBSET Names
        <5> HIDE DEF T, Larger
        <5> QED BY <1>1, <3>2
      <4> HIDE DEF T, Larger
      <4> QED BY <3>2, <3>3, <4>1 DEF StrictSubsetOrdering
    <3> HIDE DEF R, U, T, Larger
    <3> QED BY <3>1, <3>4, <3>5
  <2> QED BY <2>3, <2>4
<1>8. W[S] = {n \in Names : \A C \in SUBSET Names : S \subseteq C /\ Closed(C) => n \in C}
  OBVIOUS
<1>9. Closed(W[S])
  <2> SUFFICES ASSUME NEW d \in W[S], NEW n \in next[d] PROVE n \in W[S]
    OBVIOUS
  <2>1. n \in Names /\ d \in Names
    BY <1>8
  <2>2. ASSUME NEW C \in SUBSET Names, S \subseteq C, Closed(C) PROVE n \in C
    <3>1. d \in C
      <4> HIDE DEF W
      <4> QED BY <1>8, <2>2
    <3> QED BY <2>2, <3>1
  <2> HIDE DEF W, Closed
  <2> QED BY <1>8, <2>1, <2>2
<1>10. Closure(next, S) = W[S]
  BY <1>5, <1>7
<1> HIDE DEF W
<1> QED BY <1>8, <1>9, <1>10

-----------------------------------------------------------------------------
(* Types                                                                   *)

LEMMA PathsFound ==
    ASSUME NEW t, OM!IsTree(t), NEW d, NEW i
    PROVE  /\ OM!getAllDevIdObjPaths(t, d, i) \subseteq OM!Paths
           /\ \A p \in OM!getAllDevIdObjPaths(t, d, i) : p.name = d
BY DEF OM!IsTree, OM!getAllDevIdObjPaths, OM!getSubTreePaths,
       OM!isObjPathPrimaryDevId, OM!isObjPathDerivativeDevId

LEMMA InitTyped == Init => Typed
<1> SUFFICES ASSUME Init PROVE Typed
  OBVIOUS
<1>1. IsDat(dat) /\ OM!IsTree(bus)
  BY WalksAssumption DEF Init
<1>2. status \in [DOMAIN dat -> Status]
  BY DEF Init, Status
<1>3. assocs \in [OM!Paths -> SUBSET Association]
  BY DEF Init, ownerEntry, Association
<1> QED BY <1>1, <1>2, <1>3, EmptyIs DEF Init, Typed, TypeOK, running, associated, found

LEMMA StartWalkTyped ==
    ASSUME Typed, NEW w \in Walks, NEW d \in Names \cup {None}, d # None \/ w = "parent",
           StartWalk(w, d)
    PROVE  Typed'
<1>1. /\ TypeOK /\ IsDat(dat) /\ values = None
  BY DEF Typed, found, associated, StartWalk
<1>2. /\ walk' = w /\ device' = d /\ w # "associate" /\ w \in Walks
      /\ UNCHANGED <<dat, status, rollupVars, busVars>>
  BY DEF StartWalk, Walks
<1>3. CASE w = "parent" /\ d \notin DOMAIN dat
  <2>1. /\ toVisit' = <<>> /\ result' = <<>> /\ outcome' \in {"error", "done"}
    BY <1>3 DEF StartWalk
  <2> QED BY <1>1, <1>2, <1>3, <2>1, EmptyIs
          DEF Typed, TypeOK, rollupVars, busVars, running, associated
<1>4. CASE ~(w = "parent" /\ d \notin DOMAIN dat)
  <2>1. d \in Names
    BY <1>1, <1>4 DEF IsDat
  <2>2. /\ toVisit' = <<d>> /\ outcome' = "running"
        /\ result' = IF w \in {"sub", "subTestpoints"} THEN <<d>> ELSE <<>>
    BY <1>4 DEF StartWalk
  <2>3. <<d>> \in Seq(Names) /\ Range(<<d>>) = {d}
    BY <2>1, SingleIs
  <2>4. toVisit' \in Seq(Names) /\ Range(toVisit') = {d} /\ result' \in Seq(Names)
    BY <2>2, <2>3, EmptyIs
  <2>5. TypeOK'
    BY <1>1, <1>2, <2>1, <2>2, <2>4 DEF TypeOK, rollupVars, busVars
  <2> QED BY <1>1, <1>2, <1>4, <2>1, <2>2, <2>4, <2>5
          DEF Typed, rollupVars, busVars, running, associated
<1> QED BY <1>3, <1>4

\* A turn of childTraverse, for any of its walks.
LEMMA ChildTurn ==
    ASSUME Typed, VisitChild
    PROVE  /\ running /\ walk \in {"child", "childHealthy", "associate"}
           /\ toVisit \in Seq(Names) /\ result \in Seq(Names) /\ toVisit # <<>>
           /\ toVisit' \in Seq(Names) /\ result' \in Seq(Names)
           /\ LET d == Last(toVisit) IN
              /\ d \in Names
              /\ \/ /\ d \in Range(result) /\ UNCHANGED <<result, outcome>>
                    /\ toVisit' = Front(toVisit)
                 \/ /\ d \notin Range(result) /\ result' = Append(result, d)
                    /\ d \in DOMAIN dat /\ UNCHANGED outcome
                    /\ toVisit' = IF predicate(d) THEN Front(toVisit) \o dat[d].association
                                  ELSE Front(toVisit)
                 \/ /\ d \notin Range(result) /\ result' = Append(result, d)
                    /\ d \notin DOMAIN dat /\ outcome' = "thrown" /\ toVisit' = <<>>
<1>1. PICK d : d = Last(toVisit)
  OBVIOUS
<1>2. /\ IsDat(dat) /\ toVisit \in Seq(Names) /\ result \in Seq(Names)
      /\ running /\ walk \in {"child", "childHealthy", "associate"} /\ toVisit # <<>>
  BY DEF Typed, TypeOK, VisitChild
<1>3. d \in Names /\ Front(toVisit) \in Seq(Names)
  BY <1>1, <1>2, FrontAndLast
<1>4. Contains(result, d) <=> d \in Range(result)
  BY <1>2, ContainsIs
<1>5. CASE d \in Range(result)
  <2>1. UNCHANGED <<result, outcome>> /\ toVisit' = Front(toVisit)
    BY <1>1, <1>4, <1>5 DEF VisitChild
  <2> QED BY <1>1, <1>2, <1>3, <1>5, <2>1
<1>6. CASE d \notin Range(result)
  <2>1. result' = Append(result, d) /\ Append(result, d) \in Seq(Names)
    BY <1>1, <1>2, <1>3, <1>4, <1>6 DEF VisitChild
  <2>2. CASE d \in DOMAIN dat
    <3>1. /\ UNCHANGED outcome
          /\ toVisit' = IF predicate(d) THEN Front(toVisit) \o dat[d].association
                        ELSE Front(toVisit)
      BY <1>1, <1>4, <1>6, <2>2 DEF VisitChild
    <3>2. dat[d].association \in Seq(Names)
      BY <1>2, <2>2, DeviceIs
    <3>3. toVisit' \in Seq(Names)
      BY <1>3, <3>1, <3>2, JoinedIs
    <3> QED BY <1>1, <1>2, <1>3, <1>6, <2>1, <2>2, <3>1, <3>3
  <2>3. CASE d \notin DOMAIN dat
    <3>1. outcome' = "thrown" /\ toVisit' = <<>>
      BY <1>1, <1>4, <1>6, <2>3 DEF VisitChild
    <3> QED BY <1>1, <1>2, <1>3, <1>6, <2>1, <2>3, <3>1, EmptyIs
  <2> QED BY <2>2, <2>3
<1> QED BY <1>5, <1>6

LEMMA VisitChildTyped ==
    ASSUME Typed, VisitChild
    PROVE  Typed'
<1>1. /\ toVisit' \in Seq(Names) /\ result' \in Seq(Names)
      /\ running /\ walk \in {"child", "childHealthy", "associate"} /\ toVisit # <<>>
      /\ outcome' \in {outcome, "thrown"}
      /\ outcome' # "thrown" => result' # <<>> \/ toVisit' # <<>>
  <2>1. PICK d : d = Last(toVisit)
    OBVIOUS
  <2>2. d \in Range(result) => result # <<>>
    BY EmptyIs
  <2> QED BY <2>1, <2>2, ChildTurn, AppendProperties
<1>2. UNCHANGED <<dat, status, walk, device, rollupVars, busVars>>
  BY DEF VisitChild
<1>3. values = None
  BY <1>1 DEF Typed, found
<1>4. TypeOK'
  BY <1>1, <1>2, <1>3 DEF Typed, TypeOK, rollupVars, busVars, running
<1>5. associated' => associated
  BY <1>1, <1>2 DEF associated
<1> QED BY <1>1, <1>2, <1>3, <1>4, <1>5 DEF Typed, rollupVars, busVars, running, associated

\* A turn of parentTraverse.
LEMMA ParentTurn ==
    ASSUME Typed, VisitParent
    PROVE  LET d == Head(toVisit) IN
           /\ walk = "parent" /\ running /\ device \in DOMAIN dat /\ d \in DOMAIN dat
           /\ toVisit' \in Seq(Names)
           /\ Range(toVisit) = {d} \cup Range(Tail(toVisit))
           /\ Range(toVisit') = Range(Tail(toVisit)) \cup
                 {e \in DOMAIN dat : d \in Range(dat[e].association)}
           /\ status' \in [DOMAIN dat -> Status]
           /\ \A e \in DOMAIN dat : e # d => status'[e] = status[e]
           /\ status'[d].health = status[d].health
           /\ status'[d].healthRollup = status[device].health
           /\ status'[d].originOfCondition = device
<1>1. /\ IsDat(dat) /\ toVisit \in Seq(Names) /\ toVisit # <<>>
      /\ walk = "parent" /\ running /\ device \in DOMAIN dat
      /\ Range(toVisit) \subseteq DOMAIN dat
      /\ status \in [DOMAIN dat -> Status]
  BY DEF Typed, TypeOK, VisitParent
<1>2. PICK d : d = Head(toVisit)
  OBVIOUS
<1>3. /\ d \in Names /\ Tail(toVisit) \in Seq(Names)
      /\ Range(toVisit) = {d} \cup Range(Tail(toVisit))
  BY <1>1, <1>2, HeadAndTail
<1>4. PICK tree : tree = dat
  OBVIOUS
<1>5. /\ Parents(tree, Order, d) \in Seq(DOMAIN tree)
      /\ Range(Parents(tree, Order, d)) =
            {e \in DOMAIN tree : d \in Range(tree[e].association)}
  BY <1>1, <1>4, WalksAssumption, ParentsAre
<1>6. Parents(tree, Order, d) \in Seq(Names)
  BY <1>1, <1>4, <1>5 DEF IsDat
<1>7. toVisit' = Tail(toVisit) \o Parents(tree, Order, d)
  BY <1>2, <1>4 DEF VisitParent
<1>8. /\ toVisit' \in Seq(Names)
      /\ Range(toVisit') = Range(Tail(toVisit)) \cup Range(Parents(tree, Order, d))
  <2>1. PICK a, b : a = Tail(toVisit) /\ b = Parents(tree, Order, d)
    OBVIOUS
  <2>2. a \in Seq(Names) /\ b \in Seq(Names)
    BY <1>3, <1>6, <2>1
  <2>3. a \o b \in Seq(Names) /\ Range(a \o b) = Range(a) \cup Range(b)
    BY <2>2, JoinedIs
  <2> QED BY <1>7, <2>1, <2>3
<1>9. /\ status' \in [DOMAIN dat -> Status]
      /\ \A e \in DOMAIN dat : e # d => status'[e] = status[e]
      /\ status'[d].health = status[d].health
      /\ status'[d].healthRollup = status[device].health
      /\ status'[d].originOfCondition = device
  <2>1. PICK r : r = [status[d] EXCEPT !.healthRollup = status[device].health,
                                       !.originOfCondition = device]
    OBVIOUS
  <2>2. /\ d \in DOMAIN dat /\ status[d] \in Status /\ status[device] \in Status
        /\ device \in Names
    BY <1>1, <1>3 DEF IsDat
  <2>3. /\ r \in Status /\ r.health = status[d].health
        /\ r.healthRollup = status[device].health /\ r.originOfCondition = device
    BY <2>1, <2>2 DEF Status
  <2>4. status' = [status EXCEPT ![d] = r]
    BY <1>1, <1>2, <2>1, <2>2 DEF VisitParent
  <2> QED BY <1>1, <2>2, <2>3, <2>4
<1> QED BY <1>1, <1>2, <1>3, <1>4, <1>5, <1>8, <1>9

LEMMA VisitParentTyped ==
    ASSUME Typed, VisitParent
    PROVE  Typed'
<1>1. /\ walk = "parent" /\ running /\ device \in DOMAIN dat /\ toVisit' \in Seq(Names)
      /\ Range(toVisit') \subseteq DOMAIN dat
  <2>1. Range(Tail(toVisit)) \subseteq DOMAIN dat
    BY ParentTurn DEF Typed
  <2> QED BY <2>1, ParentTurn
<1>2. UNCHANGED <<dat, walk, device, result, outcome, rollupVars, busVars>>
  BY DEF VisitParent
<1>3. status' \in [DOMAIN dat -> Status]
  BY ParentTurn
<1>4. values = None
  BY <1>1 DEF Typed, found, associated
<1>5. TypeOK'
  BY <1>1, <1>2, <1>3, <1>4 DEF Typed, TypeOK, rollupVars, busVars
<1> QED BY <1>1, <1>2, <1>4, <1>5 DEF Typed, rollupVars, busVars, running, associated

\* A turn of getSubAssociations or printTree.
LEMMA QueueTurn ==
    ASSUME Typed, VisitQueued
    PROVE  LET d == Head(toVisit)
               next == IF d \notin DOMAIN dat THEN {}
                       ELSE IF walk = "subTestpoints" THEN Refers(dat, d, Layers)
                       ELSE Range(dat[d].association)
           IN
           /\ walk \in {"sub", "subTestpoints", "print"} /\ running /\ d \in Names
           /\ toVisit \in Seq(Names) /\ toVisit # <<>> /\ result \in Seq(Names)
           /\ toVisit' \in Seq(Names) /\ result' \in Seq(Names)
           /\ Range(toVisit) = {d} \cup Range(Tail(toVisit))
           /\ Range(toVisit') = Range(Tail(toVisit)) \cup next
           /\ walk # "print" => /\ Range(result') = Range(result) \cup next
                                /\ result # <<>> =>
                                      result' # <<>> /\ Head(result') = Head(result)
<1>1. /\ IsDat(dat) /\ toVisit \in Seq(Names) /\ toVisit # <<>> /\ result \in Seq(Names)
      /\ walk \in {"sub", "subTestpoints", "print"} /\ running
  BY DEF Typed, TypeOK, VisitQueued
<1> DEFINE children(tree, d) ==
              IF d \notin DOMAIN tree THEN <<>>
              ELSE IF walk = "subTestpoints"
                   THEN getDeviceTypeTestpoints(tree[d], Layers) ELSE tree[d].association
           next(tree, d) ==
              IF d \notin DOMAIN tree THEN {}
              ELSE IF walk = "subTestpoints" THEN Refers(tree, d, Layers)
              ELSE Range(tree[d].association)
<1>2. PICK d, tree, kids : d = Head(toVisit) /\ tree = dat /\ kids = children(tree, d)
  OBVIOUS
<1>3. /\ d \in Names /\ Tail(toVisit) \in Seq(Names)
      /\ Range(toVisit) = {d} \cup Range(Tail(toVisit))
  BY <1>1, <1>2, HeadAndTail
<1>4. kids \in Seq(Names) /\ Range(kids) = next(tree, d)
  <2>1. CASE d \notin DOMAIN tree
    BY <1>2, <2>1, EmptyIs
  <2>2. CASE d \in DOMAIN tree
    <3>1. /\ tree[d].association \in Seq(Names)
          /\ getDeviceTypeTestpoints(tree[d], Layers) \in Seq(Names)
          /\ Range(getDeviceTypeTestpoints(tree[d], Layers)) = Refers(tree, d, Layers)
      BY <1>1, <1>2, <2>2, DeviceIs, SearchFollows
    <3> QED BY <1>2, <2>2, <3>1
  <2> QED BY <2>1, <2>2
<1>5. /\ toVisit' = Tail(toVisit) \o kids
      /\ result' = IF walk = "print" THEN result ELSE result \o kids
  BY <1>2 DEF VisitQueued
<1>6. /\ toVisit' \in Seq(Names) /\ Range(toVisit') = Range(Tail(toVisit)) \cup Range(kids)
      /\ result \o kids \in Seq(Names)
      /\ Range(result \o kids) = Range(result) \cup Range(kids)
  <2>1. PICK a, b : a = Tail(toVisit) /\ b = result
    OBVIOUS
  <2>2. a \in Seq(Names) /\ b \in Seq(Names) /\ kids \in Seq(Names)
    BY <1>1, <1>3, <1>4, <2>1
  <2>3. a \o kids \in Seq(Names) /\ Range(a \o kids) = Range(a) \cup Range(kids)
    BY <2>2, JoinedIs
  <2>4. b \o kids \in Seq(Names) /\ Range(b \o kids) = Range(b) \cup Range(kids)
    BY <2>2, JoinedIs
  <2> QED BY <1>5, <2>1, <2>3, <2>4
<1>7. result # <<>> => result \o kids # <<>> /\ Head(result \o kids) = Head(result)
  <2> SUFFICES ASSUME result # <<>>
               PROVE  result \o kids # <<>> /\ Head(result \o kids) = Head(result)
    OBVIOUS
  <2>1. /\ Len(result) \in Nat /\ Len(result) > 0 /\ Len(kids) \in Nat
        /\ Len(result \o kids) = Len(result) + Len(kids)
        /\ (result \o kids)[1] = result[1]
    BY <1>1, <1>4
  <2>2. result \o kids # <<>> /\ Head(result \o kids) = (result \o kids)[1]
    BY <1>6, <2>1
  <2> QED BY <1>1, <2>1, <2>2
<1> HIDE DEF children
<1> QED BY <1>1, <1>2, <1>3, <1>4, <1>5, <1>6, <1>7

LEMMA VisitQueuedTyped ==
    ASSUME Typed, VisitQueued
    PROVE  Typed'
<1>1. /\ walk \in {"sub", "subTestpoints", "print"} /\ running
      /\ toVisit' \in Seq(Names) /\ result' \in Seq(Names)
  BY QueueTurn
<1>2. UNCHANGED <<dat, status, walk, device, outcome, rollupVars, busVars>>
  BY DEF VisitQueued
<1>3. values = None
  BY <1>1 DEF Typed, found, associated
<1>4. TypeOK'
  BY <1>1, <1>2, <1>3 DEF Typed, TypeOK, rollupVars, busVars
<1> QED BY <1>1, <1>2, <1>3, <1>4 DEF Typed, rollupVars, busVars, running, associated

LEMMA WalkReturnsTyped ==
    ASSUME Typed, WalkReturns
    PROVE  Typed'
<1>1. /\ walk \in Walks /\ outcome' = "done" /\ values = None
      /\ UNCHANGED <<dat, status, walk, device, toVisit, result, rollupVars, busVars>>
  BY DEF Typed, found, associated, WalkReturns, Walks
<1> QED BY <1>1 DEF Typed, TypeOK, rollupVars, busVars, running, associated, Walks

-----------------------------------------------------------------------------
(* The association pass                                                    *)

\* What NextDevice does, with the devices left.
LEMMA NextDeviceTyped ==
    ASSUME Typed, NEW left, NextDevice(left), left \in Seq(DOMAIN dat),
           UNCHANGED <<dat, status, bus, assocs>>, raced' \subseteq OM!Paths,
           cache' # None => OM!IsTree(cache')
    PROVE  Typed'
<1>1. /\ walk' = "associate" /\ devices' = left /\ result' = <<>>
      /\ paths' = {} /\ targets' = {} /\ values' = None
  BY DEF NextDevice
<1>2. IsDat(dat) /\ left \in Seq(Names) /\ Range(left) \subseteq DOMAIN dat
  <2>1. DOMAIN dat \subseteq Names /\ IsDat(dat)
    BY DEF Typed, IsDat
  <2> QED BY <2>1, RangeOfSeq
<1>3. CASE left = <<>>
  <2>1. device' = None /\ toVisit' = <<>> /\ outcome' = "done"
    BY <1>3 DEF NextDevice
  <2> QED BY <1>1, <1>2, <1>3, <2>1, EmptyIs DEF Typed, TypeOK, running, associated
<1>4. CASE left # <<>>
  <2>1. /\ device' = Head(left) /\ toVisit' = <<Head(left)>> /\ outcome' = "running"
        /\ Head(left) \in DOMAIN dat
    BY <1>4, HeadAndTail DEF NextDevice
  <2>2. /\ <<Head(left)>> \in Seq(Names) /\ <<Head(left)>> # <<>>
        /\ Head(left) \in Names
    BY <1>2, <2>1, SingleIs DEF IsDat
  <2>3. TypeOK'
    BY <1>1, <1>2, <2>1, <2>2, EmptyIs DEF Typed, TypeOK
  <2> QED BY <1>1, <1>2, <1>4, <2>1, <2>2, <2>3 DEF Typed, running, associated
<1> QED BY <1>3, <1>4

LEMMA PassBeginsTyped ==
    ASSUME Typed, datToDbusAssociation
    PROVE  Typed'
<1>1. /\ NextDevice(InOrder(dat, Order)) /\ cache' = None /\ raced' = {}
      /\ UNCHANGED <<dat, status, bus, assocs>>
  BY DEF datToDbusAssociation
<1>2. PICK tree, left : tree = dat /\ left = InOrder(tree, Order)
  OBVIOUS
<1>3. left \in Seq(DOMAIN tree)
  BY <1>2, InOrderIs, WalksAssumption DEF Typed
<1> QED BY <1>1, <1>2, <1>3, NextDeviceTyped

LEMMA DeviceAssociatedTyped ==
    ASSUME Typed, DeviceAssociated
    PROVE  Typed'
<1>1. /\ NextDevice(Tail(devices)) /\ UNCHANGED <<dat, status, cache, busVars>>
      /\ associated
  BY DEF DeviceAssociated, associating, associated
<1>2. /\ devices # <<>> /\ devices \in Seq(Names) /\ Range(devices) \subseteq DOMAIN dat
      /\ raced \subseteq OM!Paths /\ (cache # None => OM!IsTree(cache))
  BY <1>1 DEF Typed, TypeOK
<1>3. Tail(devices) \in Seq(DOMAIN dat)
  <2>1. PICK ds, D : ds = devices /\ D = DOMAIN dat
    OBVIOUS
  <2>2. ds \in Seq(D)
    BY <1>2, <2>1, SeqOfRange, SeqMonotonic
  <2>3. Tail(ds) \in Seq(D)
    BY <1>2, <2>1, <2>2, HeadAndTail
  <2> QED BY <2>1, <2>3
<1> QED BY <1>1, <1>2, <1>3, NextDeviceTyped DEF busVars

LEMMA FindPathsTyped ==
    ASSUME Typed, FindPaths
    PROVE  /\ Typed' /\ found' /\ OM!IsTree(cache')
           /\ cache' = ensureIsInitialized /\ values = None /\ values' = None
<1>1. associated /\ result # <<>> /\ toVisit = <<>>
  BY DEF FindPaths, associated
<1>2. values = None
  BY <1>1 DEF Typed, found
<1>3. /\ cache' = ensureIsInitialized
      /\ targets' = UNION {OM!getAllDevIdObjPaths(ensureIsInitialized, d, {}) :
                              d \in Range(result)}
      /\ paths' = OM!getAllDevIdObjPaths(ensureIsInitialized, device, {Definitions})
      /\ result' = <<>>
      /\ UNCHANGED <<dat, status, walk, device, toVisit, outcome, devices, values, busVars>>
  BY DEF FindPaths
<1>4. OM!IsTree(ensureIsInitialized) /\ ensureIsInitialized # None
  BY WalksAssumption DEF Typed, TypeOK, ensureIsInitialized
<1>5. targets' \subseteq OM!Paths /\ paths' \subseteq OM!Paths
  <2>1. \A d, i : OM!getAllDevIdObjPaths(ensureIsInitialized, d, i) \subseteq OM!Paths
    <3>1. PICK t : t = ensureIsInitialized
      OBVIOUS
    <3>2. \A d, i : OM!getAllDevIdObjPaths(t, d, i) \subseteq OM!Paths
      BY <1>4, <3>1, PathsFound
    <3> QED BY <3>1, <3>2
  <2> QED BY <1>3, <2>1
<1>6. TypeOK'
  BY <1>2, <1>3, <1>4, <1>5, EmptyIs DEF Typed, TypeOK, busVars
<1>7. found'
  BY <1>1, <1>3, <1>4 DEF found, associated, running
<1> QED BY <1>1, <1>2, <1>3, <1>4, <1>6, <1>7 DEF Typed, busVars, running, associated

LEMMA SkipPathTyped ==
    ASSUME Typed, NEW p \in paths, SkipPath(p)
    PROVE  Typed'
<1>1. /\ associating /\ values = None /\ paths' = paths \ {p}
      /\ UNCHANGED <<dat, walkVars, cache, devices, targets, values, busVars>>
  BY DEF SkipPath
<1> QED BY <1>1 DEF Typed, TypeOK, walkVars, busVars, running, associated

LEMMA GetTyped ==
    ASSUME Typed, NEW p \in paths, dbusGetDeviceAssociations(p)
    PROVE  Typed'
<1>1. /\ associating /\ values = None /\ raced' = raced \ {p}
      /\ UNCHANGED <<dat, status, walk, device, toVisit, result, cache, devices, targets, bus>>
  BY DEF dbusGetDeviceAssociations
<1>2. CASE Answers(p)
  <2>1. values' = [path |-> p, read |-> assocs[p]] /\ UNCHANGED <<outcome, paths, assocs>>
    BY <1>2 DEF dbusGetDeviceAssociations
  <2>2. assocs[p] \in SUBSET Association
    BY DEF Typed, TypeOK
  <2>3. values' \in [path : paths, read : SUBSET Association]
    BY <2>1, <2>2
  <2>4. TypeOK'
    BY <1>1, <2>1, <2>3 DEF Typed, TypeOK
  <2>5. found /\ found'
    BY <1>1, <2>1 DEF Typed, found, associated, associating, running
  <2> QED BY <1>1, <2>1, <2>4, <2>5 DEF Typed, running, associated
<1>3. CASE ~Answers(p)
  <2>1. outcome' = "thrown" /\ paths' = {} /\ values' = None /\ UNCHANGED assocs
    BY <1>3 DEF dbusGetDeviceAssociations, CallFails
  <2> QED BY <1>1, <2>1 DEF Typed, TypeOK, running, associated
<1> QED BY <1>2, <1>3

LEMMA RollupTyped ==
    ASSUME NEW read \in SUBSET Association, NEW T \in SUBSET OM!Paths, NEW p
    PROVE  withRollup(read, T, p) \in SUBSET Association
BY DEF withRollup, Association

LEMMA SetTyped ==
    ASSUME Typed, dbusSetDeviceAssociations
    PROVE  Typed'
<1>1. /\ associating /\ values # None
      /\ UNCHANGED <<dat, status, walk, device, toVisit, result, cache, devices, targets,
                     bus, raced>>
  BY DEF dbusSetDeviceAssociations
<1>2. /\ values.path \in paths /\ values.path \in OM!Paths
      /\ values.read \in SUBSET Association
  BY <1>1 DEF Typed, TypeOK
<1>3. CASE Answers(values.path)
  <2>1. /\ assocs' = [assocs EXCEPT ![values.path] =
                        withRollup(values.read, targets, values.path)]
        /\ paths' = paths \ {values.path} /\ values' = None /\ UNCHANGED outcome
    BY <1>3 DEF dbusSetDeviceAssociations
  <2>2. withRollup(values.read, targets, values.path) \in SUBSET Association
    BY <1>2, RollupTyped DEF Typed, TypeOK
  <2>3. assocs' \in [OM!Paths -> SUBSET Association]
    BY <1>2, <2>1, <2>2 DEF Typed, TypeOK
  <2> QED BY <1>1, <2>1, <2>3 DEF Typed, TypeOK, running, associated
<1>4. CASE ~Answers(values.path)
  <2>1. outcome' = "thrown" /\ paths' = {} /\ values' = None /\ UNCHANGED assocs
    BY <1>4 DEF dbusSetDeviceAssociations, CallFails
  <2> QED BY <1>1, <2>1 DEF Typed, TypeOK, running, associated
<1> QED BY <1>3, <1>4

LEMMA OthersTyped ==
    ASSUME Typed, ServicesChange \/ \E b \in Buses : \E p \in DOMAIN b : OwnerAdds(p)
    PROVE  Typed'
<1>1. CASE ServicesChange
  <2>1. /\ bus' \in Buses /\ OM!IsTree(bus')
        /\ UNCHANGED <<dat, walkVars, rollupVars, assocs, raced>>
    BY <1>1, WalksAssumption DEF ServicesChange
  <2> QED BY <2>1 DEF Typed, TypeOK, walkVars, rollupVars, running, associated, found
<1>2. ASSUME NEW b \in Buses, NEW p \in DOMAIN b, OwnerAdds(p) PROVE Typed'
  <2>1. p \in OM!Paths
    BY WalksAssumption DEF OM!IsTree
  <2>2. /\ assocs' = [assocs EXCEPT ![p] = @ \cup {addedEntry}]
        /\ raced' \subseteq raced \cup {p}
        /\ UNCHANGED <<dat, walkVars, rollupVars, bus>>
    BY <1>2 DEF OwnerAdds
  <2>3. addedEntry \in Association
    BY DEF addedEntry, Association
  <2>4. assocs' \in [OM!Paths -> SUBSET Association]
    BY <2>1, <2>2, <2>3 DEF Typed, TypeOK
  <2>5. raced' \subseteq OM!Paths
    BY <2>1, <2>2 DEF Typed, TypeOK
  <2> QED BY <2>2, <2>4, <2>5
          DEF Typed, TypeOK, walkVars, rollupVars, running, associated, found
<1> QED BY <1>1, <1>2

LEMMA NextTyped == Typed /\ [Next]_vars => Typed'
<1> SUFFICES ASSUME Typed, [Next]_vars PROVE Typed'
  OBVIOUS
<1>1. CASE UNCHANGED vars
  BY <1>1 DEF vars, walkVars, rollupVars, busVars, Typed, TypeOK, running, associated, found
<1>2. CASE Turn
  BY <1>2, VisitChildTyped, VisitParentTyped, VisitQueuedTyped, WalkReturnsTyped,
     FindPathsTyped, SetTyped, DeviceAssociatedTyped, SkipPathTyped, GetTyped DEF Turn
<1>3. ASSUME NEW w \in Walks, NEW d \in Names \cup {None}, d # None \/ w = "parent",
             StartWalk(w, d)
      PROVE  Typed'
  BY <1>3, StartWalkTyped
<1> QED BY <1>1, <1>2, <1>3, PassBeginsTyped, OthersTyped DEF Next

\* Whatever a walk meets and the bus does, walks and passes stay what they are;
\* a walk of the parents never leaves the tree.
THEOREM WalksTyped == Spec => []Typed
  BY InitTyped, NextTyped, PTL DEF Spec

-----------------------------------------------------------------------------
(* The entries of the owner                                                *)

RaceInv ==
    values # None =>
        \A a \in assocs[values.path] \ values.read :
            a = addedEntry /\ values.path \in raced

LEMMA NextRace == Typed /\ RaceInv /\ [Next]_vars => RaceInv'
<1> SUFFICES ASSUME Typed, RaceInv, [Next]_vars, values' # None PROVE RaceInv'
  BY DEF RaceInv
<1>1. CASE UNCHANGED <<values, assocs, raced>>
  BY <1>1 DEF RaceInv
<1>2. ASSUME NEW p \in paths, dbusGetDeviceAssociations(p) PROVE RaceInv'
  <2>1. values' = [path |-> p, read |-> assocs[p]] /\ UNCHANGED assocs
    BY <1>2 DEF dbusGetDeviceAssociations, CallFails
  <2> QED BY <2>1 DEF RaceInv
<1>3. ASSUME NEW b \in Buses, NEW p \in DOMAIN b, OwnerAdds(p) PROVE RaceInv'
  <2>1. /\ assocs' = [assocs EXCEPT ![p] = @ \cup {addedEntry}]
        /\ raced' = IF values # None /\ values.path = p THEN raced \cup {p} ELSE raced
        /\ UNCHANGED values
    BY <1>3 DEF OwnerAdds, rollupVars
  <2>2. p \in OM!Paths /\ assocs \in [OM!Paths -> SUBSET Association]
    BY WalksAssumption DEF Typed, TypeOK, OM!IsTree
  <2>3. CASE values.path = p
    BY <2>1, <2>2, <2>3 DEF RaceInv
  <2>4. CASE values.path # p
    <3>1. assocs'[values.path] = assocs[values.path] /\ raced' = raced
      BY <2>1, <2>2, <2>4 DEF Typed, TypeOK
    <3> QED BY <2>1, <3>1 DEF RaceInv
  <2> QED BY <2>3, <2>4
<1>4. CASE VisitChild \/ VisitParent \/ VisitQueued \/ WalkReturns \/ ServicesChange
  BY <1>1, <1>4 DEF VisitChild, VisitParent, VisitQueued, WalkReturns, ServicesChange,
                    rollupVars, busVars
<1>5. FindPaths \/ dbusSetDeviceAssociations \/ DeviceAssociated \/ datToDbusAssociation
         => values' = None
  BY FindPathsTyped DEF dbusSetDeviceAssociations, CallFails, DeviceAssociated,
                        datToDbusAssociation, NextDevice
<1>6. ASSUME NEW p \in paths, SkipPath(p) PROVE RaceInv'
  BY <1>1, <1>6 DEF SkipPath, busVars
<1>7. ASSUME NEW w, NEW d, StartWalk(w, d) PROVE RaceInv'
  BY <1>1, <1>7 DEF StartWalk, rollupVars, busVars
<1> QED BY <1>1, <1>2, <1>3, <1>4, <1>5, <1>6, <1>7
        DEF Next, Turn, vars, rollupVars, busVars

\* No entry of the path's owner is lost but one added between Get and Set.
THEOREM OwnersEntriesStay == Spec => LostOnlyInRace
<1> DEFINE Lost == \A p \in OM!Paths : \A a \in assocs[p] \ assocs'[p] :
                      a.key # "health_rollup" => a = addedEntry /\ p \in raced
<1>1. Typed /\ RaceInv /\ [Next]_vars => Lost
  <2> SUFFICES ASSUME Typed, RaceInv, [Next]_vars, NEW p \in OM!Paths,
                      NEW a \in assocs[p], a \notin assocs'[p], a.key # "health_rollup"
               PROVE  a = addedEntry /\ p \in raced
    OBVIOUS
  <2>1. assocs' # assocs
    OBVIOUS
  <2>2. CASE dbusSetDeviceAssociations
    <3>1. /\ values # None
          /\ assocs' = [assocs EXCEPT ![values.path] =
                           withRollup(values.read, targets, values.path)]
      BY <2>1, <2>2 DEF dbusSetDeviceAssociations, CallFails
    <3>2. values.path = p /\ a \notin values.read
      BY <3>1 DEF Typed, TypeOK, withRollup
    <3> QED BY <3>1, <3>2 DEF RaceInv
  <2>3. ASSUME NEW q, OwnerAdds(q) PROVE FALSE
    BY <2>3 DEF OwnerAdds, Typed, TypeOK
  <2>4. ~(VisitChild \/ VisitParent \/ VisitQueued \/ WalkReturns \/ ServicesChange
            \/ FindPaths \/ DeviceAssociated \/ datToDbusAssociation)
    BY <2>1 DEF VisitChild, VisitParent, VisitQueued, WalkReturns, ServicesChange,
                FindPaths, DeviceAssociated, datToDbusAssociation, busVars
  <2>5. /\ \A q : ~SkipPath(q) /\ ~dbusGetDeviceAssociations(q)
        /\ \A w, d : ~StartWalk(w, d)
    BY <2>1 DEF SkipPath, dbusGetDeviceAssociations, CallFails, StartWalk, busVars
  <2> QED BY <2>1, <2>2, <2>3, <2>4, <2>5 DEF Next, Turn, vars, busVars
<1>2. Init => RaceInv
  BY DEF Init, RaceInv
<1>3. Spec => []RaceInv
  BY <1>2, InitTyped, NextTyped, NextRace, PTL DEF Spec
<1> QED
  BY <1>1, <1>3, WalksTyped, PTL DEF Spec, LostOnlyInRace

-----------------------------------------------------------------------------
(* What childTraverse has found                                            *)

\* What the walk follows, and what that leads to from the start.
Follows == IF walk = "childHealthy" THEN Healthy ELSE Children
Reached == Closure(Follows, {device})

childWalk == \/ walk \in {"child", "childHealthy"}
             \/ associated /\ (toVisit # <<>> \/ result # <<>>)

Known == Range(result) \cup Range(toVisit)

\* What follows a visited device is visited or on the stack.
ChildInv ==
    childWalk =>
        /\ outcome \in {"running", "done", "thrown"}
        /\ IsInjective(result)
        /\ Known \subseteq Reached
        /\ outcome # "thrown" =>
              /\ device \in Known
              /\ \A d \in Range(result) : d \in DOMAIN dat /\ Follows[d] \subseteq Known
        /\ outcome = "done" => toVisit = <<>>
        /\ outcome = "thrown" => ~(Reached \subseteq DOMAIN dat)

LEMMA NextsAre ==
    ASSUME Typed
    PROVE  /\ Children \in [Names -> SUBSET Names] /\ Healthy \in [Names -> SUBSET Names]
           /\ Tested \in [Names -> SUBSET Names] /\ ParentsOf \in [Names -> SUBSET Names]
           /\ Follows \in [Names -> SUBSET Names]
           /\ \A d \in Names :
                 /\ Children[d] = IF d \in DOMAIN dat THEN Range(dat[d].association) ELSE {}
                 /\ Healthy[d] = IF d \in DOMAIN dat /\ checkHealth(d) THEN Children[d] ELSE {}
                 /\ Tested[d] = Refers(dat, d, Layers)
                 /\ ParentsOf[d] = {e \in DOMAIN dat : d \in Range(dat[e].association)}
<1>1. IsDat(dat) /\ DOMAIN dat \subseteq Names
  BY DEF Typed, IsDat
<1>2. \A d \in DOMAIN dat : Range(dat[d].association) \subseteq Names
  <2>1. PICK tree : tree = dat
    OBVIOUS
  <2>2. \A d \in DOMAIN tree : Range(tree[d].association) \subseteq Names
    BY <1>1, <2>1, DeviceIs
  <2> QED BY <2>1, <2>2
<1>3. \A d : Refers(dat, d, Layers) \subseteq Names
  <2>1. PICK tree : tree = dat
    OBVIOUS
  <2>2. \A d : Refers(tree, d, Layers) \subseteq Names
    BY <1>1, <2>1, RefersToNames
  <2> QED BY <2>1, <2>2
<1>4. Children \in [Names -> SUBSET Names]
  BY <1>2 DEF Children
<1>5. \A d \in Names :
        Children[d] = IF d \in DOMAIN dat THEN Range(dat[d].association) ELSE {}
  BY DEF Children
<1>6. Healthy \in [Names -> SUBSET Names]
  BY <1>4 DEF Healthy
<1>7. Tested \in [Names -> SUBSET Names]
  BY <1>3 DEF Tested
<1>8. ASSUME NEW d \in Names
      PROVE  ParentsOf[d] = {e \in DOMAIN dat : d \in Range(dat[e].association)}
  <2>1. ParentsOf[d] = {e \in Names : d \in Children[e]}
    BY DEF ParentsOf
  <2> QED BY <1>1, <1>5, <2>1
<1>9. ParentsOf \in [Names -> SUBSET Names]
  BY DEF ParentsOf
<1>10. \A d \in Names :
          Healthy[d] = IF d \in DOMAIN dat /\ checkHealth(d) THEN Children[d] ELSE {}
  BY DEF Healthy
<1> QED BY <1>4, <1>5, <1>6, <1>7, <1>8, <1>9, <1>10 DEF Tested, Follows

\* What a walk compares itself with, and what it says of it, change with the
\* walk, the tree and the health of the devices only.
LEMMA FollowsStay ==
    ASSUME UNCHANGED <<dat, status, walk, device>>
    PROVE  Follows' = Follows /\ Reached' = Reached
BY DEF Reached, Follows, Healthy, Children, checkHealth

followsTyped == Follows \in [Names -> SUBSET Names]

LEMMA FollowsTyped == Typed' => followsTyped'
<1>1. Typed => followsTyped
  BY NextsAre DEF followsTyped
<1> QED BY <1>1, PTL

LEMMA VisitChildKnows ==
    ASSUME Typed, ChildInv, VisitChild
    PROVE  ChildInv'
<1>1. PICK d : d = Last(toVisit)
  OBVIOUS
<1>2. /\ walk \in {"child", "childHealthy", "associate"} /\ outcome = "running"
      /\ toVisit \in Seq(Names) /\ toVisit # <<>> /\ result \in Seq(Names) /\ d \in Names
  BY <1>1, ChildTurn DEF running
<1>3. childWalk /\ Known \subseteq Reached /\ device \in Known /\ IsInjective(result)
      /\ \A e \in Range(result) : e \in DOMAIN dat /\ Follows[e] \subseteq Known
  BY <1>2 DEF childWalk, associated, running, ChildInv
<1>4. UNCHANGED <<dat, status, walk, device>>
  BY DEF VisitChild
<1>5. Follows' = Follows /\ Reached' = Reached
  BY <1>4, FollowsStay
<1>6. /\ Front(toVisit) \in Seq(Names)
      /\ Range(toVisit) = Range(Front(toVisit)) \cup {d}
  BY <1>1, <1>2, FrontAndLast
<1>7. device \in Names
  BY <1>2 DEF Typed, associated, running, TypeOK, IsDat
<1>8. \A e \in Reached : Follows[e] \subseteq Reached
  BY <1>7, NextsAre, ClosureIsLeast DEF Reached
<1>9. d \in Reached
  BY <1>3, <1>6 DEF Known
<1>10. CASE d \in Range(result)
  <2>1. UNCHANGED <<result, outcome>> /\ toVisit' = Front(toVisit)
    BY <1>1, <1>10, ChildTurn
  <2>2. Known' = Known
    BY <1>6, <1>10, <2>1 DEF Known
  <2> QED BY <1>2, <1>3, <1>4, <1>5, <2>1, <2>2 DEF ChildInv
<1>11. CASE d \notin Range(result)
  <2>1. /\ result' = Append(result, d) /\ Range(result') = Range(result) \cup {d}
        /\ IsInjective(result')
    <3>1. result' = Append(result, d)
      BY <1>1, <1>11, ChildTurn
    <3>2. PICK r : r = result
      OBVIOUS
    <3>3. /\ Range(Append(r, d)) = Range(r) \cup {d}
          /\ IsInjective(r) /\ d \notin Range(r) => IsInjective(Append(r, d))
      BY <1>2, <3>2, AppendedIs
    <3> QED BY <1>3, <1>11, <3>1, <3>2, <3>3
  <2>2. CASE d \in DOMAIN dat
    <3>1. /\ UNCHANGED outcome
          /\ toVisit' = IF predicate(d) THEN Front(toVisit) \o dat[d].association
                        ELSE Front(toVisit)
      BY <1>1, <1>11, <2>2, ChildTurn
    <3>2. Range(toVisit') = Range(Front(toVisit)) \cup Follows[d]
      <4>1. Follows[d] = IF predicate(d) THEN Range(dat[d].association) ELSE {}
        BY <1>2, <2>2, NextsAre DEF Follows, predicate
      <4>2. CASE predicate(d)
        <5>1. PICK a, b : a = Front(toVisit) /\ b = dat[d].association
          OBVIOUS
        <5>2. a \in Seq(Names) /\ b \in Seq(Names)
          BY <1>6, <2>2, <5>1, DeviceIs DEF Typed
        <5>3. Range(a \o b) = Range(a) \cup Range(b)
          BY <5>2, JoinedIs
        <5> QED BY <3>1, <4>1, <4>2, <5>1, <5>3
      <4>3. CASE ~predicate(d)
        BY <3>1, <4>1, <4>3
      <4> QED BY <4>2, <4>3
    <3>3. Known' = Known \cup Follows[d] /\ Follows[d] \subseteq Reached
      BY <1>6, <1>8, <1>9, <2>1, <3>2 DEF Known
    <3>4. \A e \in Range(result') : e \in DOMAIN dat /\ Follows[e] \subseteq Known'
      BY <1>3, <2>1, <2>2, <3>3
    <3>5. Known' \subseteq Reached /\ device \in Known'
      BY <1>3, <3>3
    <3> QED BY <1>2, <1>4, <1>5, <2>1, <3>1, <3>4, <3>5 DEF ChildInv
  <2>3. CASE d \notin DOMAIN dat
    <3>1. outcome' = "thrown" /\ toVisit' = <<>>
      BY <1>1, <1>11, <2>3, ChildTurn
    <3>2. Known' \subseteq Reached
      BY <1>3, <1>9, <2>1, <3>1, EmptyIs DEF Known
    <3> QED BY <1>4, <1>5, <1>9, <2>1, <2>3, <3>1, <3>2 DEF ChildInv
  <2> QED BY <2>2, <2>3
<1> QED BY <1>10, <1>11

\* The steps other than the turns of the walks and their start.
LEMMA QuietOrPass ==
    ASSUME Typed, [Next]_vars
    PROVE  \/ UNCHANGED <<dat, walkVars>>
           \/ VisitChild \/ VisitParent \/ VisitQueued \/ WalkReturns
           \/ \E w \in Walks, d \in Names \cup {None} : StartWalk(w, d)
           \/ /\ walk' = "associate" /\ UNCHANGED <<dat, status>>
              /\ \/ toVisit' = <<>> /\ result' = <<>>
                 \/ outcome' = "running" /\ result' = <<>>
                       /\ toVisit' = <<device'>> /\ device' \in Names
<1>1. CASE UNCHANGED vars
  BY <1>1 DEF vars
<1>2. CASE FindPaths
  BY <1>2 DEF FindPaths, running
<1>3. CASE dbusSetDeviceAssociations
  BY <1>3 DEF dbusSetDeviceAssociations, associating
<1>4. ASSUME NEW left, NextDevice(left)
      PROVE  /\ walk' = "associate" /\ result' = <<>>
             /\ \/ toVisit' = <<>>
                \/ outcome' = "running" /\ toVisit' = <<device'>>
  BY <1>4 DEF NextDevice
<1>5. CASE DeviceAssociated \/ datToDbusAssociation
  <2>1. PICK left : NextDevice(left)
    BY <1>5 DEF DeviceAssociated, datToDbusAssociation
  <2>2. UNCHANGED <<dat, status>> /\ Typed'
    BY <1>5, DeviceAssociatedTyped, PassBeginsTyped DEF DeviceAssociated, datToDbusAssociation
  <2>3. walk' = "associate" /\ outcome' = "running" => device' \in Names
    BY <2>2 DEF Typed, IsDat, associated, running
  <2> QED BY <1>4, <2>1, <2>2, <2>3
<1>6. ASSUME NEW p \in paths, SkipPath(p) PROVE UNCHANGED <<dat, walkVars>>
  BY <1>6 DEF SkipPath
<1>7. ASSUME NEW p \in paths, dbusGetDeviceAssociations(p)
      PROVE  walk' = "associate" /\ UNCHANGED <<dat, status>>
             /\ toVisit' = <<>> /\ result' = <<>>
  BY <1>7 DEF dbusGetDeviceAssociations, associating
<1>8. ASSUME ServicesChange \/ \E b \in Buses : \E p \in DOMAIN b : OwnerAdds(p)
      PROVE  UNCHANGED <<dat, walkVars>>
  BY <1>8 DEF ServicesChange, OwnerAdds
<1> QED BY <1>1, <1>2, <1>3, <1>5, <1>6, <1>7, <1>8 DEF Next, Turn

\* Where a walk starts.
LEMMA Starts ==
    ASSUME Typed, NEW w \in Walks, NEW d \in Names \cup {None}, StartWalk(w, d)
    PROVE  /\ walk' = w /\ device' = d /\ UNCHANGED <<dat, status>>
           /\ \/ w = "parent" /\ d \notin DOMAIN dat /\ outcome' \in {"error", "done"}
              \/ /\ outcome' = "running" /\ toVisit' = <<d>>
                 /\ w \in {"sub", "subTestpoints"} => result' = <<d>>
                 /\ w \notin {"sub", "subTestpoints"} => result' = <<>>
BY DEF StartWalk

LEMMA NextChild == Typed /\ ChildInv /\ [Next]_vars => ChildInv'
<1> SUFFICES ASSUME Typed, ChildInv, [Next]_vars PROVE ChildInv'
  OBVIOUS
<1>1. CASE UNCHANGED <<dat, walkVars>>
  <2>1. Follows' = Follows /\ Reached' = Reached
    BY <1>1, FollowsStay DEF walkVars
  <2> QED BY <1>1, <2>1 DEF ChildInv, childWalk, associated, running, Known, walkVars
<1>2. ASSUME outcome' = "running", result' = <<>>, toVisit' = <<device'>>,
             device' \in Names
      PROVE  ChildInv'
  <2>1. Typed'
    BY NextTyped
  <2>2. Follows' \in [Names -> SUBSET Names]
    BY <2>1, FollowsTyped DEF followsTyped
  <2>3. device' \in Reached'
    <3>1. PICK f, d : f = Follows' /\ d = device'
      OBVIOUS
    <3>2. Closure(f, {d})' = Closure(f, {d})
      BY DEF Closure
    <3>3. {d} \subseteq Closure(f, {d})
      BY <1>2, <2>2, <3>1, ClosureIsLeast
    <3> QED BY <3>1, <3>3 DEF Reached
  <2>4. Range(result') = {} /\ IsInjective(result') /\ Range(toVisit') = {device'}
    BY <1>2, EmptyIs, SingleIs
  <2> QED BY <1>2, <2>3, <2>4 DEF ChildInv, Known
<1>3. CASE VisitParent \/ VisitQueued
  BY <1>3 DEF VisitParent, VisitQueued, ChildInv, childWalk, associated
<1>4. CASE WalkReturns
  <2>1. /\ UNCHANGED <<dat, status, walk, device, toVisit, result>>
        /\ toVisit = <<>> /\ outcome = "running" /\ outcome' = "done"
    BY <1>4 DEF WalkReturns, running
  <2>2. Follows' = Follows /\ Reached' = Reached
    BY <2>1, FollowsStay
  <2>3. childWalk' => childWalk
    BY <2>1 DEF childWalk, associated, running
  <2> QED BY <2>1, <2>2, <2>3 DEF ChildInv, Known
<1>5. ASSUME NEW w \in Walks, NEW d \in Names \cup {None}, StartWalk(w, d)
      PROVE  ChildInv'
  <2>1. CASE w \in {"child", "childHealthy"}
    <3>1. /\ outcome' = "running" /\ result' = <<>> /\ toVisit' = <<device'>>
          /\ walk' = w
      BY <1>5, <2>1, Starts
    <3>2. device' \in Names
      BY <2>1, <3>1, NextTyped DEF Typed
    <3> QED BY <1>2, <3>1, <3>2
  <2>2. CASE w \notin {"child", "childHealthy"}
    <3>1. walk' \in Walks /\ walk' \notin {"child", "childHealthy"}
      BY <1>5, <2>2, Starts
    <3> QED BY <3>1 DEF ChildInv, childWalk, associated, Walks
  <2> QED BY <2>1, <2>2
<1>6. ASSUME walk' = "associate", toVisit' = <<>>, result' = <<>> PROVE ChildInv'
  BY <1>6 DEF ChildInv, childWalk
<1> QED BY <1>1, <1>2, <1>3, <1>4, <1>5, <1>6, QuietOrPass, VisitChildKnows

\* ChildInv says what it is to say once the walk is over.
LEMMA ChildFindsAll ==
    ASSUME Typed, ChildInv, childWalk, outcome # "thrown", toVisit = <<>>
    PROVE  Range(result) = Reached
<1>1. device \in Names
  BY DEF Typed, childWalk, associated, TypeOK, IsDat
<1>2. Known = Range(result)
  BY EmptyIs DEF Known
<1>3. Range(result) \in SUBSET Names
  BY RangeOfSeq DEF Typed, TypeOK
<1>4. /\ Range(result) \subseteq Reached /\ device \in Range(result)
      /\ \A d \in Range(result) : Follows[d] \subseteq Range(result)
  BY <1>2 DEF ChildInv
<1>5. Reached \subseteq Range(result)
  <2>1. PICK f, d, r : f = Follows /\ d = device /\ r = Range(result)
    OBVIOUS
  <2>2. f \in [Names -> SUBSET Names]
    BY <2>1, NextsAre
  <2>3. \A C \in SUBSET Names :
           {d} \subseteq C /\ (\A e \in C : f[e] \subseteq C) => Closure(f, {d}) \subseteq C
    BY <1>1, <2>1, <2>2, ClosureIsLeast
  <2>4. Closure(f, {d}) \subseteq r
    BY <1>3, <1>4, <2>1, <2>3
  <2> QED BY <2>1, <2>4 DEF Reached
<1> QED BY <1>4, <1>5

LEMMA ChildVisited == Typed /\ ChildInv => ChildVisitsAll
<1> SUFFICES ASSUME Typed, ChildInv, walk \in {"child", "childHealthy"}
             PROVE  LET reached == Closure(IF walk = "child" THEN Children ELSE Healthy,
                                           {device})
                    IN /\ IsInjective(result) /\ Range(result) \subseteq reached
                       /\ outcome = "done" => Range(result) = reached
                       /\ outcome = "thrown" => ~(reached \subseteq DOMAIN dat)
  BY DEF ChildVisitsAll
<1>1. Closure(IF walk = "child" THEN Children ELSE Healthy, {device}) = Reached
  <2>1. (IF walk = "child" THEN Children ELSE Healthy) = Follows
    BY DEF Follows
  <2> QED BY <2>1 DEF Reached
<1>2. childWalk /\ Range(result) \subseteq Known
  BY DEF childWalk, Known
<1> QED BY <1>1, <1>2, ChildFindsAll DEF ChildInv

-----------------------------------------------------------------------------
(* What getSubAssociations has found                                       *)

SubFollows == IF walk = "sub" THEN Children ELSE Tested
SubReached == Closure(SubFollows, {device})

\* What follows a name returned is returned, unless the name waits in the queue.
SubInv ==
    walk \in {"sub", "subTestpoints"} =>
        /\ result # <<>> /\ Head(result) = device
        /\ Range(toVisit) \subseteq Range(result)
        /\ Range(result) \subseteq SubReached
        /\ \A d \in Range(result) \ Range(toVisit) : SubFollows[d] \subseteq Range(result)
        /\ outcome = "done" => toVisit = <<>>

subFollowsTyped == SubFollows \in [Names -> SUBSET Names]

LEMMA SubFollowsTyped == (Typed => subFollowsTyped) /\ (Typed' => subFollowsTyped')
<1>1. Typed => subFollowsTyped
  BY NextsAre DEF subFollowsTyped, SubFollows
<1> QED BY <1>1, PTL

LEMMA SubFollowsStay ==
    ASSUME UNCHANGED <<dat, walk, device>>
    PROVE  SubFollows' = SubFollows /\ SubReached' = SubReached
BY DEF SubFollows, SubReached, Children, Tested

LEMMA NextSub == Typed /\ SubInv /\ [Next]_vars => SubInv'
<1> SUFFICES ASSUME Typed, SubInv, [Next]_vars, walk' \in {"sub", "subTestpoints"}
             PROVE  SubInv'
  BY DEF SubInv
<1>1. CASE UNCHANGED <<dat, walkVars>>
  <2>1. SubFollows' = SubFollows /\ SubReached' = SubReached
    BY <1>1, SubFollowsStay DEF walkVars
  <2> QED BY <1>1, <2>1 DEF SubInv, walkVars
<1>2. CASE VisitQueued
  <2>1. /\ UNCHANGED <<dat, status, walk, device, outcome>> /\ outcome = "running"
        /\ walk \in {"sub", "subTestpoints"}
    BY <1>2 DEF VisitQueued, running
  <2>2. SubFollows' = SubFollows /\ SubReached' = SubReached
    BY <2>1, SubFollowsStay
  <2>3. PICK d : d = Head(toVisit)
    OBVIOUS
  <2>4. /\ d \in Names
        /\ Range(toVisit) = {d} \cup Range(Tail(toVisit))
        /\ Range(toVisit') = Range(Tail(toVisit)) \cup SubFollows[d]
        /\ Range(result') = Range(result) \cup SubFollows[d]
        /\ result # <<>> => result' # <<>> /\ Head(result') = Head(result)
    <3>1. SubFollows[d] = IF d \notin DOMAIN dat THEN {}
                          ELSE IF walk = "subTestpoints" THEN Refers(dat, d, Layers)
                          ELSE Range(dat[d].association)
      <4>1. d \in Names
        BY <1>2, <2>3, QueueTurn
      <4> QED BY <2>1, <4>1, NextsAre DEF SubFollows, Refers
    <3> QED BY <1>2, <2>1, <2>3, <3>1, QueueTurn
  <2>5. SubFollows[d] \subseteq SubReached
    <3>1. d \in SubReached /\ device \in Names
      BY <2>1, <2>4 DEF SubInv, Typed
    <3>2. PICK f, o : f = SubFollows /\ o = device
      OBVIOUS
    <3>3. \A e \in Closure(f, {o}) : f[e] \subseteq Closure(f, {o})
      BY <3>1, <3>2, SubFollowsTyped, ClosureIsLeast DEF subFollowsTyped
    <3> QED BY <3>1, <3>2, <3>3 DEF SubReached
  <2>6. Range(toVisit') \subseteq Range(result') /\ Range(result') \subseteq SubReached
    BY <2>1, <2>4, <2>5 DEF SubInv
  <2>7. \A e \in Range(result') \ Range(toVisit') : SubFollows[e] \subseteq Range(result')
    <3> SUFFICES ASSUME NEW e \in Range(result') \ Range(toVisit')
                 PROVE  SubFollows[e] \subseteq Range(result')
      OBVIOUS
    <3>1. e = d \/ e \in Range(result) \ Range(toVisit)
      BY <2>4
    <3> QED BY <2>1, <2>4, <3>1 DEF SubInv
  <2> QED BY <2>1, <2>2, <2>4, <2>6, <2>7 DEF SubInv
<1>3. ASSUME NEW w \in Walks, NEW d \in Names \cup {None}, StartWalk(w, d)
      PROVE  SubInv'
  <2>1. /\ outcome' = "running" /\ result' = <<device'>> /\ toVisit' = <<device'>>
    BY <1>3, Starts
  <2>2. device' \in Names
    BY NextTyped DEF Typed
  <2>3. device' \in SubReached'
    <3>1. PICK f, o : f = SubFollows' /\ o = device'
      OBVIOUS
    <3>2. {o} \subseteq Closure(f, {o})
      BY <2>2, <3>1, NextTyped, SubFollowsTyped, ClosureIsLeast DEF subFollowsTyped
    <3> QED BY <3>1, <3>2 DEF SubReached
  <2>4. /\ Range(result') = {device'} /\ Range(toVisit') = {device'}
        /\ result' # <<>> /\ Head(result') = device'
    BY <2>1, <2>2, SingleIs
  <2> QED BY <2>1, <2>3, <2>4 DEF SubInv
<1>4. CASE WalkReturns
  <2>1. /\ UNCHANGED <<dat, status, walk, device, toVisit, result>>
        /\ toVisit = <<>>
    BY <1>4 DEF WalkReturns
  <2>2. SubFollows' = SubFollows /\ SubReached' = SubReached
    BY <2>1, SubFollowsStay
  <2> QED BY <2>1, <2>2 DEF SubInv
<1>5. ~VisitChild /\ ~VisitParent
  BY DEF VisitChild, VisitParent
<1> QED BY <1>1, <1>2, <1>3, <1>4, <1>5, QuietOrPass

LEMMA SubFound == Typed /\ SubInv => SubFindsAll
<1> SUFFICES ASSUME Typed, SubInv, walk \in {"sub", "subTestpoints"}, outcome = "done"
             PROVE  Head(result) = device /\ Range(result) = SubReached
  BY DEF SubFindsAll, SubReached, SubFollows
<1>1. /\ Head(result) = device /\ Range(result) \subseteq SubReached /\ result # <<>>
      /\ \A d \in Range(result) : SubFollows[d] \subseteq Range(result)
  BY EmptyIs DEF SubInv
<1>2. result \in Seq(Names) /\ device \in Names
  BY DEF Typed, TypeOK
<1>3. Range(result) \in SUBSET Names /\ device \in Range(result)
  <2>1. PICK r : r = result
    OBVIOUS
  <2>2. r \in Seq(Names) /\ r # <<>>
    BY <1>1, <1>2, <2>1
  <2>3. Range(r) \subseteq Names /\ Head(r) \in Range(r)
    BY <2>2, RangeOfSeq, HeadAndTail
  <2> QED BY <1>1, <2>1, <2>3
<1>4. SubReached \subseteq Range(result)
  <2>1. PICK f, o, r : f = SubFollows /\ o = device /\ r = Range(result)
    OBVIOUS
  <2>2. \A C \in SUBSET Names :
           {o} \subseteq C /\ (\A e \in C : f[e] \subseteq C) => Closure(f, {o}) \subseteq C
    BY <1>2, <2>1, SubFollowsTyped, ClosureIsLeast DEF subFollowsTyped
  <2>3. Closure(f, {o}) \subseteq r
    BY <1>1, <1>3, <2>1, <2>2
  <2> QED BY <2>1, <2>3 DEF SubReached
<1> QED BY <1>1, <1>4

-----------------------------------------------------------------------------
(* Whom parentTraverse has told                                            *)

Above == Closure(ParentsOf, {device})

\* The devices told name the start, and their parents are told or wait.
ParentInv ==
    walk = "parent" /\ outcome \in {"running", "done"} /\ device \in DOMAIN dat =>
        /\ Range(toVisit) \subseteq Above
        /\ outcome = "done" => toVisit = <<>>
        /\ \E told \in SUBSET DOMAIN dat :
              /\ device \in told \cup Range(toVisit)
              /\ \A d \in told : /\ status[d].originOfCondition = device
                                 /\ ParentsOf[d] \subseteq told \cup Range(toVisit)

OriginInv ==
    \A d \in DOMAIN dat : status[d].originOfCondition # None =>
        status[d].originOfCondition \in DOMAIN dat

parentsTyped == ParentsOf \in [Names -> SUBSET Names]

LEMMA ParentsTyped == (Typed => parentsTyped) /\ (Typed' => parentsTyped')
<1>1. Typed => parentsTyped
  BY NextsAre DEF parentsTyped
<1> QED BY <1>1, PTL

LEMMA ParentsStay ==
    ASSUME UNCHANGED dat
    PROVE  /\ ParentsOf' = ParentsOf /\ (UNCHANGED device => Above' = Above)
           /\ \A o : Closure(ParentsOf, {o})' = Closure(ParentsOf, {o})
BY DEF ParentsOf, Children, Above

LEMMA ParentTold ==
    ASSUME Typed, ParentInv, VisitParent
    PROVE  ParentInv' /\ Head(toVisit) \in Above
<1>1. /\ walk = "parent" /\ outcome = "running" /\ device \in DOMAIN dat
      /\ UNCHANGED <<dat, walk, device, result, outcome>>
  BY ParentTurn DEF VisitParent, running
<1>2. ParentsOf' = ParentsOf /\ Above' = Above
  BY <1>1, ParentsStay
<1>3. PICK d : d = Head(toVisit)
  OBVIOUS
<1>4. /\ d \in DOMAIN dat /\ d \in Names
      /\ Range(toVisit) = {d} \cup Range(Tail(toVisit))
      /\ Range(toVisit') = Range(Tail(toVisit)) \cup ParentsOf[d]
      /\ \A e \in DOMAIN dat : e # d => status'[e] = status[e]
      /\ status'[d].originOfCondition = device
  <2>1. d \in Names
    BY <1>3, ParentTurn DEF Typed, IsDat
  <2> QED BY <1>3, <2>1, NextsAre, ParentTurn
<1>5. d \in Above /\ ParentsOf[d] \subseteq Above
  <2>1. d \in Above /\ device \in Names
    BY <1>1, <1>4 DEF ParentInv, Typed, IsDat
  <2>2. PICK f, o : f = ParentsOf /\ o = device
    OBVIOUS
  <2>3. \A e \in Closure(f, {o}) : f[e] \subseteq Closure(f, {o})
    BY <2>1, <2>2, ParentsTyped, ClosureIsLeast DEF parentsTyped
  <2> QED BY <2>1, <2>2, <2>3 DEF Above
<1>6. PICK told \in SUBSET DOMAIN dat :
          /\ device \in told \cup Range(toVisit)
          /\ \A e \in told : /\ status[e].originOfCondition = device
                             /\ ParentsOf[e] \subseteq told \cup Range(toVisit)
  BY <1>1 DEF ParentInv
<1>7. Range(toVisit') \subseteq Above
  BY <1>1, <1>4, <1>5 DEF ParentInv
<1>8. /\ told \cup {d} \in SUBSET DOMAIN dat
      /\ device \in (told \cup {d}) \cup Range(toVisit')
      /\ \A e \in told \cup {d} :
            /\ status'[e].originOfCondition = device
            /\ ParentsOf[e] \subseteq (told \cup {d}) \cup Range(toVisit')
  BY <1>4, <1>6
<1>9. \E T \in SUBSET DOMAIN dat :
         /\ device \in T \cup Range(toVisit')
         /\ \A e \in T : /\ status'[e].originOfCondition = device
                         /\ ParentsOf[e] \subseteq T \cup Range(toVisit')
  BY <1>8
<1> QED BY <1>1, <1>2, <1>3, <1>5, <1>7, <1>9 DEF ParentInv

LEMMA NextParent == Typed /\ ParentInv /\ [Next]_vars => ParentInv'
<1> SUFFICES ASSUME Typed, ParentInv, [Next]_vars, walk' = "parent",
                    outcome' \in {"running", "done"}, device' \in DOMAIN dat'
             PROVE  ParentInv'
  BY DEF ParentInv
<1>1. CASE UNCHANGED <<dat, walkVars>>
  <2>1. ParentsOf' = ParentsOf /\ Above' = Above
    BY <1>1, ParentsStay DEF walkVars
  <2> QED BY <1>1, <2>1 DEF ParentInv, walkVars
<1>2. ASSUME NEW w \in Walks, NEW d \in Names \cup {None}, StartWalk(w, d)
      PROVE  ParentInv'
  <2>1. toVisit' = <<device'>> /\ UNCHANGED <<dat, status>> /\ outcome' = "running"
    BY <1>2, Starts
  <2>2. device' \in Names
    BY NextTyped DEF Typed, IsDat
  <2>3. device' \in Above'
    <3>1. PICK f, o : f = ParentsOf' /\ o = device'
      OBVIOUS
    <3>2. {o} \subseteq Closure(f, {o})
      BY <2>2, <3>1, NextTyped, ParentsTyped, ClosureIsLeast DEF parentsTyped
    <3> QED BY <3>1, <3>2 DEF Above
  <2>4. Range(toVisit') = {device'}
    BY <2>1, <2>2, SingleIs
  <2>5. {} \in SUBSET DOMAIN dat' /\ device' \in {} \cup Range(toVisit')
    BY <2>4
  <2> QED BY <2>1, <2>3, <2>4, <2>5 DEF ParentInv
<1>3. CASE WalkReturns
  <2>1. /\ UNCHANGED <<dat, status, walk, device, toVisit, result>>
        /\ toVisit = <<>> /\ outcome = "running"
    BY <1>3 DEF WalkReturns, running
  <2>2. ParentsOf' = ParentsOf /\ Above' = Above
    BY <2>1, ParentsStay
  <2> QED BY <2>1, <2>2 DEF ParentInv
<1>4. ~VisitChild /\ ~VisitQueued
  BY DEF VisitChild, VisitQueued
<1> QED BY <1>1, <1>2, <1>3, <1>4, QuietOrPass, ParentTold

LEMMA NextOrigin ==
    Typed /\ ParentInv /\ OriginInv /\ OriginIsBelow /\ [Next]_vars
        => OriginInv' /\ OriginIsBelow'
<1> SUFFICES ASSUME Typed, ParentInv, OriginInv, OriginIsBelow, [Next]_vars
             PROVE  OriginInv' /\ OriginIsBelow'
  OBVIOUS
<1>1. CASE UNCHANGED <<dat, status>>
  <2>1. ParentsOf' = ParentsOf
    BY <1>1, ParentsStay
  <2> QED BY <1>1, <2>1 DEF OriginInv, OriginIsBelow
<1>2. CASE VisitParent
  <2>1. PICK d : d = Head(toVisit)
    OBVIOUS
  <2>2. /\ UNCHANGED <<dat, device>> /\ ParentsOf' = ParentsOf /\ device \in DOMAIN dat
        /\ d \in DOMAIN dat /\ d \in Above
        /\ \A e \in DOMAIN dat : e # d => status'[e] = status[e]
        /\ status'[d].health = status[d].health
        /\ status'[d].healthRollup = status[device].health
        /\ status'[d].originOfCondition = device
    BY <1>2, <2>1, ParentTurn, ParentTold, ParentsStay DEF VisitParent
  <2>3. \A e \in DOMAIN dat : status'[e].health = status[e].health
    BY <2>2
  <2>4. OriginInv'
    BY <2>2 DEF OriginInv
  <2>5. ASSUME NEW e \in DOMAIN dat, status'[e].originOfCondition # None
        PROVE  /\ e \in Closure(ParentsOf, {status'[e].originOfCondition})
               /\ status'[e].healthRollup = status'[status'[e].originOfCondition].health
    <3>1. CASE e = d
      BY <2>2, <2>3, <3>1 DEF Above
    <3>2. CASE e # d
      BY <2>2, <2>3, <2>5, <3>2 DEF OriginInv, OriginIsBelow
    <3> QED BY <3>1, <3>2
  <2>6. OriginIsBelow'
    <3>1. OriginIsBelow' <=>
             \A e \in DOMAIN dat : status'[e].originOfCondition # None =>
                /\ e \in Closure(ParentsOf, {status'[e].originOfCondition})
                /\ status'[e].healthRollup = status'[status'[e].originOfCondition].health
      BY <2>2 DEF OriginIsBelow
    <3> QED BY <2>5, <3>1
  <2> QED BY <2>4, <2>6
<1>3. VisitChild \/ VisitQueued \/ WalkReturns => UNCHANGED <<dat, status>>
  BY DEF VisitChild, VisitQueued, WalkReturns
<1> QED BY <1>1, <1>2, <1>3, QuietOrPass, Starts DEF walkVars

LEMMA ParentsTold == Typed /\ ParentInv => AncestorsTold
<1> SUFFICES ASSUME Typed, ParentInv, walk = "parent", outcome = "done",
                    device \in DOMAIN dat, NEW d \in Above \cap DOMAIN dat
             PROVE  status[d].originOfCondition = device
  BY DEF AncestorsTold, Above
<1>1. PICK told \in SUBSET DOMAIN dat :
          /\ device \in told
          /\ \A e \in told : /\ status[e].originOfCondition = device
                             /\ ParentsOf[e] \subseteq told
  BY EmptyIs DEF ParentInv
<1>2. Above \subseteq told
  <2>1. PICK f, o : f = ParentsOf /\ o = device
    OBVIOUS
  <2>2. told \in SUBSET Names /\ o \in Names
    BY <2>1 DEF Typed, IsDat
  <2>3. \A C \in SUBSET Names :
           {o} \subseteq C /\ (\A e \in C : f[e] \subseteq C) => Closure(f, {o}) \subseteq C
    BY <2>1, <2>2, ParentsTyped, ClosureIsLeast DEF parentsTyped
  <2> QED BY <1>1, <2>1, <2>2, <2>3 DEF Above
<1> QED BY <1>1, <1>2

-----------------------------------------------------------------------------
(* Every walk does what it is called for                                   *)

WalksInv == Typed /\ ChildInv /\ SubInv /\ ParentInv /\ OriginInv /\ OriginIsBelow

LEMMA InitWalks == Init => WalksInv
<1> SUFFICES ASSUME Init PROVE WalksInv
  OBVIOUS
<1>1. \A d \in DOMAIN dat : status[d].originOfCondition = None
  BY DEF Init
<1> QED BY <1>1, InitTyped DEF Init, WalksInv, ChildInv, childWalk, associated, SubInv,
                               ParentInv, OriginInv, OriginIsBelow

LEMMA NextWalks == WalksInv /\ [Next]_vars => WalksInv'
BY NextTyped, NextChild, NextSub, NextParent, NextOrigin DEF WalksInv

\* childTraverse, getSubAssociations and parentTraverse reach what the tree
\* leads to from where they start, in every tree, and what parentTraverse tells
\* a device is true whatever walks come after it.
THEOREM WalksDoTheirWork == Spec => []WalksOK
<1>1. WalksInv => WalksOK
  BY ChildVisited, SubFound, ParentsTold DEF WalksInv, WalksOK, Typed
<1> QED BY <1>1, InitWalks, NextWalks, PTL DEF Spec

-----------------------------------------------------------------------------
(* The roll-up                                                             *)

\* The paths of the devices reached from d, and that p says just that.
RollupPaths(d) ==
    UNION {OM!getAllDevIdObjPaths(cache, e, {}) : e \in Closure(Children, {d})}

RollsUp(d, p) ==
    {a.path : a \in {b \in assocs[p] : b.key = "health_rollup"}} = RollupPaths(d) \ {p}

\* The paths of d that have one manager, but those left, roll up what d reaches.
DeviceDone(d, left) ==
    \A p \in OM!getAllDevIdObjPaths(cache, d, {Definitions}) \ left :
        OM!getManager(cache, p, Definitions) # {} => RollsUp(d, p)

\* The devices behind the pass are done, and of the current one the paths behind.
PassInv ==
    walk = "associate" /\ outcome \in {"running", "done"} =>
        /\ outcome = "done" => devices = <<>>
        /\ (\E d \in DOMAIN dat : d \notin Range(devices)) => cache # None
        /\ \A d \in DOMAIN dat \ Range(devices) : DeviceDone(d, {})
        /\ found => /\ targets = RollupPaths(device)
                    /\ paths \subseteq OM!getAllDevIdObjPaths(cache, device, {Definitions})
                    /\ DeviceDone(device, paths)

\* The path found for a device carries its name.
LEMMA FoundAreNamed ==
    ASSUME Typed, cache # None
    PROVE  \A d, i : \A p \in OM!getAllDevIdObjPaths(cache, d, i) :
               p.name = d /\ p \in OM!Paths
<1>1. PICK t : t = cache
  OBVIOUS
<1>2. OM!IsTree(t)
  BY <1>1 DEF Typed, TypeOK
<1>3. \A d, i : \A p \in OM!getAllDevIdObjPaths(t, d, i) : p.name = d /\ p \in OM!Paths
  BY <1>2, PathsFound
<1> QED BY <1>1, <1>3

LEMMA RollsUpStays ==
    ASSUME UNCHANGED <<dat, cache>>, NEW d, NEW p, assocs'[p] = assocs[p]
    PROVE  RollsUp(d, p)' <=> RollsUp(d, p)
BY DEF RollsUp, RollupPaths, Children

LEMMA DoneStays ==
    ASSUME UNCHANGED <<dat, cache>>, NEW d, NEW left,
           \A p \in OM!getAllDevIdObjPaths(cache, d, {Definitions}) : assocs'[p] = assocs[p]
    PROVE  DeviceDone(d, left)' <=> DeviceDone(d, left)
<1>1. \A p \in OM!getAllDevIdObjPaths(cache, d, {Definitions}) :
          RollsUp(d, p)' <=> RollsUp(d, p)
  BY RollsUpStays
<1> QED BY <1>1 DEF DeviceDone

\* What dbusSetDeviceAssociations writes.
LEMMA WithRollupIs ==
    ASSUME NEW read, NEW T, NEW p
    PROVE  /\ {a.path : a \in {b \in withRollup(read, T, p) : b.key = "health_rollup"}} =
                 T \ {p}
           /\ \A a \in withRollup(read, T, p) :
                 a.key = "health_rollup" => a.path \in T \ {p}
<1> DEFINE entry(q) == [key |-> "health_rollup", path |-> q]
<1>1. \A q : entry(q).key = "health_rollup" /\ entry(q).path = q
  OBVIOUS
<1>2. \A a : a \in withRollup(read, T, p) <=>
               \/ a \in read /\ a.key # "health_rollup"
               \/ \E q \in T \ {p} : a = entry(q)
  BY DEF withRollup
<1> HIDE DEF entry
<1>3. \A a \in withRollup(read, T, p) : a.key = "health_rollup" => a.path \in T \ {p}
  BY <1>1, <1>2
<1>4. \A q \in T \ {p} : /\ entry(q) \in withRollup(read, T, p)
                         /\ entry(q).key = "health_rollup" /\ entry(q).path = q
  BY <1>1, <1>2
<1> QED BY <1>3, <1>4

LEMMA SetWrites ==
    ASSUME Typed, dbusSetDeviceAssociations, outcome' # "thrown"
    PROVE  /\ found /\ values.path \in paths /\ values.path \in OM!Paths
           /\ assocs'[values.path] = withRollup(values.read, targets, values.path)
           /\ \A p \in OM!Paths : p # values.path => assocs'[p] = assocs[p]
           /\ paths' = paths \ {values.path}
           /\ UNCHANGED <<dat, status, walk, device, toVisit, result, cache, devices, targets,
                          outcome>>
<1>1. /\ values # None /\ found /\ values.path \in paths /\ values.path \in OM!Paths
      /\ assocs \in [OM!Paths -> SUBSET Association]
  BY DEF dbusSetDeviceAssociations, Typed, TypeOK
<1>2. /\ assocs' = [assocs EXCEPT ![values.path] =
                       withRollup(values.read, targets, values.path)]
      /\ paths' = paths \ {values.path} /\ UNCHANGED outcome
  BY DEF dbusSetDeviceAssociations, CallFails
<1> QED BY <1>1, <1>2 DEF dbusSetDeviceAssociations

LEMMA SetDone ==
    ASSUME Typed, PassInv, dbusSetDeviceAssociations
    PROVE  PassInv'
<1> SUFFICES ASSUME outcome' # "thrown" PROVE PassInv'
  BY DEF PassInv
<1>1. PICK q : q = values.path
  OBVIOUS
<1>2. /\ found /\ q \in paths /\ q \in OM!Paths
      /\ assocs'[q] = withRollup(values.read, targets, q)
      /\ \A p \in OM!Paths : p # q => assocs'[p] = assocs[p]
      /\ paths' = paths \ {q}
      /\ UNCHANGED <<dat, status, walk, device, toVisit, result, cache, devices, targets,
                     outcome>>
  BY <1>1, SetWrites
<1>3. /\ walk = "associate" /\ outcome = "running" /\ cache # None
      /\ device \in Range(devices)
  <2>1. devices # <<>> /\ device = Head(devices) /\ devices \in Seq(Names)
    BY <1>2 DEF Typed, TypeOK, found
  <2>2. PICK ds : ds = devices
    OBVIOUS
  <2>3. Head(ds) \in Range(ds)
    BY <2>1, <2>2, HeadAndTail
  <2> QED BY <1>2, <2>1, <2>2, <2>3 DEF Typed, found, associated, running
<1>4. /\ targets = RollupPaths(device) /\ DeviceDone(device, paths)
      /\ paths \subseteq OM!getAllDevIdObjPaths(cache, device, {Definitions})
      /\ \A d \in DOMAIN dat \ Range(devices) : DeviceDone(d, {})
  BY <1>2, <1>3 DEF PassInv
<1>5. q.name = device
  BY <1>2, <1>3, <1>4, FoundAreNamed
<1>6. ASSUME NEW d \in DOMAIN dat \ Range(devices) PROVE DeviceDone(d, {})'
  <2>1. \A p \in OM!getAllDevIdObjPaths(cache, d, {Definitions}) : assocs'[p] = assocs[p]
    BY <1>2, <1>3, <1>5, FoundAreNamed
  <2> QED BY <1>2, <1>4, <2>1, DoneStays
<1>7. DeviceDone(device, paths)'
  <2> SUFFICES ASSUME NEW p \in OM!getAllDevIdObjPaths(cache, device, {Definitions}),
                      p \notin paths', OM!getManager(cache, p, Definitions) # {}
               PROVE  RollsUp(device, p)'
    BY <1>2 DEF DeviceDone
  <2>1. CASE p = q
    <3>1. {a.path : a \in {b \in assocs'[p] : b.key = "health_rollup"}} = targets \ {p}
      BY <1>2, <2>1, WithRollupIs
    <3>2. RollupPaths(device)' = RollupPaths(device)
      BY <1>2 DEF RollupPaths, Children
    <3> QED BY <1>2, <1>4, <3>1, <3>2 DEF RollsUp
  <2>2. CASE p # q
    <3>1. RollsUp(device, p)
      BY <1>2, <1>4, <2>2 DEF DeviceDone
    <3>2. p \in OM!Paths
      BY <1>3, FoundAreNamed
    <3> QED BY <1>2, <2>2, <3>1, <3>2, RollsUpStays
  <2> QED BY <2>1, <2>2
<1>8. RollupPaths(device)' = RollupPaths(device)
  BY <1>2 DEF RollupPaths, Children
<1> QED BY <1>2, <1>3, <1>4, <1>6, <1>7, <1>8 DEF PassInv

LEMMA VisitChildReturns ==
    ASSUME Typed, VisitChild
    PROVE  result' # <<>> /\ outcome' \in {outcome, "thrown"}
<1>1. PICK d : d = Last(toVisit)
  OBVIOUS
<1>2. d \in Range(result) => result # <<>>
  BY EmptyIs
<1> QED BY <1>1, <1>2, ChildTurn, AppendProperties

LEMMA FindPathsDone ==
    ASSUME Typed, ChildInv, PassInv, FindPaths
    PROVE  PassInv'
<1>1. /\ walk = "associate" /\ outcome = "running" /\ associated /\ childWalk
      /\ toVisit = <<>> /\ result # <<>>
  BY DEF FindPaths, running, associated, childWalk
<1>2. PICK m : m = ensureIsInitialized
  OBVIOUS
<1>3. /\ cache' = m
      /\ targets' = UNION {OM!getAllDevIdObjPaths(m, d, {}) : d \in Range(result)}
      /\ paths' = OM!getAllDevIdObjPaths(m, device, {Definitions})
      /\ UNCHANGED <<dat, status, walk, device, outcome, devices, assocs>>
  BY <1>2 DEF FindPaths, busVars
<1>4. m # None /\ (cache # None => m = cache)
  BY <1>2, WalksAssumption DEF ensureIsInitialized, Typed
<1>5. Range(result) = Closure(Children, {device})
  BY <1>1, ChildFindsAll DEF Reached, Follows
<1>6. Children' = Children
  BY <1>3 DEF Children
<1>7. targets' = RollupPaths(device)'
  <2>1. PICK R, o, next : R = Range(result) /\ o = device /\ next = Children
    OBVIOUS
  <2>2. targets' = UNION {OM!getAllDevIdObjPaths(m, d, {}) : d \in R}
    BY <1>3, <2>1
  <2>3. RollupPaths(device)' = UNION {OM!getAllDevIdObjPaths(m, d, {}) : d \in R}
    <3>1. R = Closure(next, {o}) /\ device' = o /\ Children' = next /\ cache' = m
      BY <1>3, <1>5, <1>6, <2>1
    <3>2. RollupPaths(device)' =
             UNION {OM!getAllDevIdObjPaths(cache', d, {}) : d \in Closure(Children', {device'})}
      BY DEF RollupPaths
    <3> QED BY <3>1, <3>2
  <2> QED BY <2>2, <2>3
<1>8. DeviceDone(device, paths)'
  BY <1>3 DEF DeviceDone
<1>9. ASSUME NEW d \in DOMAIN dat \ Range(devices) PROVE DeviceDone(d, {})'
  <2>1. cache # None /\ DeviceDone(d, {})
    BY <1>1 DEF PassInv
  <2>2. UNCHANGED <<dat, cache, assocs>>
    BY <1>3, <1>4, <2>1
  <2> QED BY <2>1, <2>2, DoneStays
<1> QED BY <1>1, <1>3, <1>4, <1>7, <1>8, <1>9 DEF PassInv

LEMMA NextDeviceDone ==
    ASSUME Typed, PassInv, DeviceAssociated
    PROVE  PassInv'
<1>1. /\ found /\ walk = "associate" /\ outcome = "running" /\ paths = {}
      /\ walk' = "associate" /\ devices' = Tail(devices) /\ result' = <<>>
      /\ UNCHANGED <<dat, cache, assocs>>
  BY DEF DeviceAssociated, associating, Typed, found, associated, running, NextDevice, busVars
<1>2. Range(devices) = {device} \cup Range(devices')
  <2>1. devices # <<>> /\ device = Head(devices) /\ devices \in Seq(Names)
    BY <1>1 DEF Typed, TypeOK, found
  <2>2. PICK ds : ds = devices
    OBVIOUS
  <2>3. Range(ds) = {Head(ds)} \cup Range(Tail(ds))
    BY <2>1, <2>2, HeadAndTail
  <2> QED BY <1>1, <2>1, <2>2, <2>3
<1>3. ASSUME NEW d \in DOMAIN dat \ Range(devices') PROVE DeviceDone(d, {})'
  <2>1. DeviceDone(d, {})
    BY <1>1, <1>2 DEF PassInv
  <2> QED BY <1>1, <2>1, DoneStays
<1>4. cache # None
  BY <1>1 DEF Typed, found, associated
<1>5. ~found' /\ (outcome' = "done" => devices' = <<>>)
  <2>1. \A e : <<e>> # <<>>
    OBVIOUS
  <2>2. NextDevice(Tail(devices))
    BY DEF DeviceAssociated
  <2>3. (outcome' = "running" => toVisit' # <<>>) /\ (outcome' = "done" => devices' = <<>>)
    BY <2>1, <2>2 DEF NextDevice
  <2> QED BY <2>3 DEF found, associated, running
<1> QED BY <1>1, <1>3, <1>4, <1>5 DEF PassInv

LEMMA PassBegins ==
    ASSUME Typed, datToDbusAssociation
    PROVE  PassInv'
<1>1. PICK tree, left : tree = dat /\ left = InOrder(tree, Order)
  OBVIOUS
<1>2. Range(left) = DOMAIN tree
  BY <1>1, InOrderIs, WalksAssumption DEF Typed
<1>3. devices' = left /\ dat' = tree /\ result' = <<>>
      /\ (outcome' = "running" => toVisit' # <<>>)
      /\ (outcome' = "done" => left = <<>>)
  BY <1>1 DEF datToDbusAssociation, NextDevice
<1> QED BY <1>2, <1>3 DEF PassInv, found, associated, running

LEMMA NextPass == Typed /\ ChildInv /\ PassInv /\ [Next]_vars => PassInv'
<1> SUFFICES ASSUME Typed, ChildInv, PassInv, [Next]_vars,
                    walk' = "associate", outcome' \in {"running", "done"}
             PROVE  PassInv'
  BY DEF PassInv
<1>1. CASE UNCHANGED <<dat, walkVars, cache, devices, paths, targets, assocs>>
  <2>1. /\ RollupPaths(device)' = RollupPaths(device) /\ (found' <=> found)
        /\ UNCHANGED <<dat, cache, assocs>>
    BY <1>1 DEF RollupPaths, Children, found, associated, running, walkVars
  <2>2. /\ DeviceDone(device, paths)' <=> DeviceDone(device, paths)
        /\ \A d : DeviceDone(d, {})' <=> DeviceDone(d, {})
    BY <1>1 DEF DeviceDone, RollsUp, RollupPaths, Children, walkVars
  <2> QED BY <1>1, <2>1, <2>2 DEF PassInv, walkVars
<1>2. CASE VisitChild
  <2>1. /\ UNCHANGED <<dat, walk, cache, devices, assocs>> /\ result' # <<>>
        /\ outcome' = outcome
    BY <1>2, VisitChildReturns DEF VisitChild, rollupVars, busVars
  <2>2. \A d : DeviceDone(d, {})' <=> DeviceDone(d, {})
    BY <2>1, DoneStays
  <2> QED BY <2>1, <2>2 DEF PassInv, found
<1>3. ASSUME NEW p \in paths, SkipPath(p) PROVE PassInv'
  <2>1. /\ associating /\ OM!getManager(cache, p, Definitions) = {}
        /\ paths' = paths \ {p}
        /\ UNCHANGED <<dat, walkVars, cache, devices, targets, assocs>>
    BY <1>3 DEF SkipPath, busVars
  <2>2. found /\ walk = "associate" /\ outcome = "running"
    BY <2>1 DEF Typed, found, associated, associating, running
  <2>3. /\ RollupPaths(device)' = RollupPaths(device) /\ (found' <=> found)
        /\ \A d : DeviceDone(d, {})' <=> DeviceDone(d, {})
    BY <2>1, DoneStays DEF RollupPaths, Children, found, associated, running, walkVars
  <2>4. DeviceDone(device, paths)'
    <3>1. PICK d, left : d = device /\ left = paths \ {p}
      OBVIOUS
    <3>2. DeviceDone(d, left)
      BY <2>1, <2>2, <3>1 DEF PassInv, DeviceDone
    <3>3. DeviceDone(d, left)'
      BY <2>1, <3>2, DoneStays
    <3>4. device' = d /\ paths' = left
      BY <2>1, <3>1 DEF walkVars
    <3> QED BY <3>3, <3>4 DEF DeviceDone
  <2> QED BY <2>1, <2>2, <2>3, <2>4 DEF PassInv, walkVars
<1>4. ASSUME NEW p \in paths, dbusGetDeviceAssociations(p) PROVE PassInv'
  <2>1. outcome' # "thrown"
    OBVIOUS
  <2> QED BY <1>1, <1>4, <2>1 DEF dbusGetDeviceAssociations, CallFails, walkVars
<1>5. CASE ServicesChange
  BY <1>1, <1>5 DEF ServicesChange, rollupVars
<1>6. ASSUME NEW q \in OM!Paths, OwnerAdds(q) PROVE PassInv'
  <2>1. /\ assocs' = [assocs EXCEPT ![q] = @ \cup {addedEntry}]
        /\ assocs \in [OM!Paths -> SUBSET Association]
        /\ UNCHANGED <<dat, walkVars, cache, devices, paths, targets>>
    BY <1>6 DEF OwnerAdds, rollupVars, Typed, TypeOK
  <2>2. ASSUME NEW p \in OM!Paths
        PROVE  {a.path : a \in {b \in assocs'[p] : b.key = "health_rollup"}} =
               {a.path : a \in {b \in assocs[p] : b.key = "health_rollup"}}
    <3>1. assocs'[p] = assocs[p] \/ assocs'[p] = assocs[p] \cup {addedEntry}
      BY <2>1
    <3>2. addedEntry.key # "health_rollup"
      BY DEF addedEntry
    <3> QED BY <3>1, <3>2
  <2>3. cache # None => \A d : \A p \in OM!getAllDevIdObjPaths(cache, d, {Definitions}) :
           RollsUp(d, p)' <=> RollsUp(d, p)
    <3>1. \A d : RollupPaths(d)' = RollupPaths(d)
      BY <2>1 DEF RollupPaths, Children
    <3> QED BY <2>2, <3>1, FoundAreNamed DEF RollsUp
  <2>4. cache # None => /\ DeviceDone(device, paths)' <=> DeviceDone(device, paths)
                        /\ \A d : DeviceDone(d, {})' <=> DeviceDone(d, {})
    BY <2>1, <2>3 DEF DeviceDone, walkVars
  <2>5. /\ RollupPaths(device)' = RollupPaths(device) /\ (found' <=> found)
        /\ found => cache # None
    BY <2>1 DEF RollupPaths, Children, found, associated, running, walkVars, Typed
  <2> QED BY <2>1, <2>4, <2>5 DEF PassInv, walkVars
<1>7. ASSUME NEW b \in Buses, NEW q \in DOMAIN b, OwnerAdds(q) PROVE PassInv'
  BY <1>6, <1>7, WalksAssumption DEF OM!IsTree
<1>8. ~VisitParent /\ ~VisitQueued /\ ~WalkReturns
  BY DEF VisitParent, VisitQueued, WalkReturns, Walks
<1>9. \A w \in Walks, d \in Names \cup {None} : ~StartWalk(w, d)
  BY Starts DEF Walks
<1> QED BY <1>1, <1>2, <1>3, <1>4, <1>5, <1>7, <1>8, <1>9,
           FindPathsDone, SetDone, NextDeviceDone, PassBegins DEF Next, Turn, vars, rollupVars,
           busVars

\* What is rolled up is reached, at any time.
LEMMA NextReached ==
    Typed /\ PassInv /\ RollupIsReached /\ [Next]_vars => RollupIsReached'
<1> SUFFICES ASSUME Typed, PassInv, RollupIsReached, [Next]_vars,
                    NEW p \in OM!Paths, NEW a \in assocs'[p], a.key = "health_rollup"
             PROVE  a.path # p /\ a.path.name \in Closure(Children, {p.name})'
  BY DEF RollupIsReached
<1>1. UNCHANGED dat
  BY DEF Next, Turn, vars, VisitChild, VisitParent, VisitQueued, WalkReturns, FindPaths,
         dbusSetDeviceAssociations, DeviceAssociated, SkipPath, dbusGetDeviceAssociations,
         StartWalk, datToDbusAssociation, ServicesChange, OwnerAdds
<1>2. Closure(Children, {p.name})' = Closure(Children, {p.name})
  BY <1>1 DEF Children
<1>3. CASE a \in assocs[p]
  BY <1>2, <1>3 DEF RollupIsReached
<1>4. CASE a \notin assocs[p]
  <2>1. assocs' # assocs /\ assocs \in [OM!Paths -> SUBSET Association]
    BY <1>4 DEF Typed, TypeOK
  <2>2. CASE dbusSetDeviceAssociations
    <3>1. outcome' # "thrown"
      BY <2>1, <2>2 DEF dbusSetDeviceAssociations, CallFails, associating, running
    <3>2. /\ found /\ p = values.path /\ p \in paths
          /\ a \in withRollup(values.read, targets, p)
      BY <1>4, <2>2, <3>1, SetWrites
    <3>3. /\ targets = RollupPaths(device)
          /\ p \in OM!getAllDevIdObjPaths(cache, device, {Definitions})
          /\ cache # None
      BY <3>2 DEF PassInv, found, associated, running, Typed
    <3>4. a.path \in RollupPaths(p.name) \ {p}
      <4>1. a.path \in targets \ {p}
        BY <3>2, WithRollupIs
      <4>2. p.name = device
        BY <3>3, FoundAreNamed
      <4> QED BY <3>3, <4>1, <4>2
    <3>5. PICK e \in Closure(Children, {p.name}) :
             a.path \in OM!getAllDevIdObjPaths(cache, e, {})
      BY <3>4 DEF RollupPaths
    <3>6. a.path.name = e
      BY <3>3, <3>5, FoundAreNamed
    <3> QED BY <1>2, <3>4, <3>5, <3>6
  <2>3. ASSUME NEW q, OwnerAdds(q) PROVE FALSE
    <3>1. a = addedEntry
      BY <1>4, <2>1, <2>3 DEF OwnerAdds
    <3> QED BY <3>1 DEF addedEntry
  <2>4. ~(VisitChild \/ VisitParent \/ VisitQueued \/ WalkReturns \/ ServicesChange
            \/ FindPaths \/ DeviceAssociated \/ datToDbusAssociation)
    BY <2>1 DEF VisitChild, VisitParent, VisitQueued, WalkReturns, ServicesChange,
                FindPaths, DeviceAssociated, datToDbusAssociation, busVars
  <2>5. /\ \A q : ~SkipPath(q) /\ ~dbusGetDeviceAssociations(q)
        /\ \A w, d : ~StartWalk(w, d)
    BY <2>1 DEF SkipPath, dbusGetDeviceAssociations, CallFails, StartWalk, busVars
  <2> QED BY <2>1, <2>2, <2>3, <2>4, <2>5 DEF Next, Turn, vars, busVars
<1> QED BY <1>3, <1>4

LEMMA PassCompletes == PassInv => RollupComplete
<1> SUFFICES ASSUME PassInv, walk = "associate", outcome = "done", NEW d \in DOMAIN dat,
                    NEW p \in OM!getAllDevIdObjPaths(cache, d, {Definitions}),
                    OM!getManager(cache, p, Definitions) # {}
             PROVE  RollsUp(d, p)
  BY DEF RollupComplete, RollsUp, RollupPaths
<1>1. d \notin Range(devices)
  BY EmptyIs DEF PassInv
<1> QED BY <1>1 DEF PassInv, DeviceDone

\* The roll-up entries of a path are right whatever the services do meanwhile
\* and however often the pass runs, and complete when it has gone through.
THEOREM RollupIsRight == Spec => []RollupOK
<1> DEFINE Inv == WalksInv /\ PassInv /\ RollupIsReached
<1>1. Init => Inv
  <2> SUFFICES ASSUME Init PROVE Inv
    OBVIOUS
  <2>1. RollupIsReached
    BY DEF Init, RollupIsReached, ownerEntry
  <2>2. PassInv
    BY DEF Init, PassInv
  <2> QED BY <2>1, <2>2, InitWalks
<1>2. Inv /\ [Next]_vars => Inv'
  BY NextWalks, NextPass, NextReached DEF WalksInv
<1>3. Inv => RollupOK
  BY PassCompletes DEF RollupOK
<1> QED BY <1>1, <1>2, <1>3, PTL DEF Spec

=============================================================================
