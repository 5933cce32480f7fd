------------------------ MODULE EventMatchingProofs ------------------------
(***************************************************************************)
(* Proofs about EventMatching for every profile of accessors the schema    *)
(* admits, every world of places, and any number of changes and results.   *)
(*                                                                         *)
(* Inv joins what one part of the daemon leaves to the next:               *)
(*   LoadInv      the events are the entries loaded, and each view has     *)
(*                each of its events once                                  *)
(*   QueueInv     an item has what eventDiscovery owed its data            *)
(*   IteratorInv  the iterator has the digits of its master index from     *)
(*                its position on, and the values before that index        *)
(*   FilterInv    the filter has what the accessors visited feed           *)
(*   HandlersInv  the subscriptions are what the events visited ask, once  *)
(*   WorkerInv    the check at hand is one of an event of the item, with   *)
(*                indexes of its device type or of its path                *)
(*   WorldInv     types of what is read                                    *)
(* Recursion gives the functions defined by recursion their equations;     *)
(* induction is that of 0 .. n (UpTo).                                     *)
(***************************************************************************)
EXTENDS EventMatching, FiniteSetTheorems, SequenceTheorems, TLAPS

-----------------------------------------------------------------------------
(* Numbers and sequences *)

\* A set of numbers that is not empty has a least one.
LEMMA SmallestOf ==
    ASSUME NEW T \in SUBSET Nat, T # {}
    PROVE  \E m \in T : \A n \in T : m <= n
<1>1. PICK top \in T : TRUE
  OBVIOUS
<1> DEFINE S == 0 .. top
           R == StrictSubsetOrdering(S)
           U == {0 .. x : x \in T \cap S}
<1>2. IsFiniteSet(S) /\ top \in Nat
  BY <1>1, FS_Interval
<1>3. IsWellFoundedOn(R, FiniteSubsetsOf(S))
  BY FS_StrictSubsetOrderingWellFounded
<1>4. U \subseteq FiniteSubsetsOf(S) /\ U # {}
  <2>1. ASSUME NEW x \in T \cap S PROVE IsFiniteSet(0 .. x) /\ 0 .. x \subseteq S
    BY <1>2, FS_Interval
  <2>2. top \in T \cap S
    BY <1>1
  <2> QED BY <2>1, <2>2 DEF FiniteSubsetsOf
<1>5. \E u \in U : \A v \in U : ~(<<v, u>> \in R)
  <2> HIDE DEF U, R, S
  <2> QED BY <1>3, <1>4, WFMin
<1>6. PICK m \in T \cap S : \A x \in T \cap S : ~(<<0 .. x, 0 .. m>> \in R)
  BY <1>5
<1>7. ASSUME NEW n \in T, n < m PROVE FALSE
  <2>1. n \in S /\ 0 .. n \subseteq 0 .. m /\ m \notin 0 .. n /\ m \in 0 .. m
    BY <1>6, <1>7
  <2>2. <<0 .. n, 0 .. m>> \in R
    BY <2>1 DEF StrictSubsetOrdering
  <2> QED BY <1>6, <2>1, <2>2
<1> QED BY <1>6, <1>7

\* Induction up to a number, on the set of those for which it has been shown.
LEMMA UpTo ==
    ASSUME NEW n \in Nat, NEW G, 0 \in G, \A i \in 1 .. n : i - 1 \in G => i \in G
    PROVE  \A i \in 0 .. n : i \in G
<1> DEFINE T == {i \in 0 .. n : i \notin G}
<1>1. ASSUME T # {} PROVE FALSE
  <2>1. PICK m \in T : \A l \in T : m <= l
    <3> T \subseteq Nat
      OBVIOUS
    <3> HIDE DEF T
    <3> QED BY <1>1, SmallestOf
  <2>2. m \in 1 .. n
    <3>1. m \in 0 .. n /\ m \notin G
      BY <2>1
    <3> QED BY <3>1
  <2>3. m - 1 \in 0 .. n /\ m - 1 \notin T
    <3> HIDE DEF T
    <3> QED BY <2>1, <2>2
  <2> QED BY <2>1, <2>2, <2>3
<1> QED BY <1>1

Solves(f, D, c, n, g) ==
    f \in [0 .. n -> D] /\ f[0] = c /\ \A i \in 1 .. n : f[i] = g[i][f[i - 1]]

\* The equations by which a function is defined from its last value have a
\* solution.
LEMMA Recursion ==
    ASSUME NEW D, NEW c \in D, NEW n \in Nat, NEW g \in [1 .. n -> [D -> D]]
    PROVE  \E f : Solves(f, D, c, n, g)
<1> DEFINE Is(f, m) == f[0] = c /\ \A i \in 1 .. m : f[i] = g[i][f[i - 1]]
           G == {m \in 0 .. n : \E f \in [0 .. m -> D] : Is(f, m)}
<1>1. 0 \in G
  <2>1. [i \in 0 .. 0 |-> c] \in [0 .. 0 -> D] /\ Is([i \in 0 .. 0 |-> c], 0)
    OBVIOUS
  <2> HIDE DEF Is
  <2> QED BY <2>1
<1>2. ASSUME NEW m \in 1 .. n, m - 1 \in G PROVE m \in G
  <2>1. PICK f \in [0 .. m - 1 -> D] : Is(f, m - 1)
    BY <1>2
  <2> DEFINE h == [i \in 0 .. m |-> IF i = m THEN g[m][f[m - 1]] ELSE f[i]]
  <2>2. m - 1 \in 0 .. m - 1 /\ g[m] \in [D -> D] /\ g[m][f[m - 1]] \in D
    BY <2>1
  <2>3. h \in [0 .. m -> D]
    BY <2>1, <2>2
  <2>4. h[0] = c
    BY <2>1, <1>2
  <2>5. ASSUME NEW i \in 1 .. m PROVE h[i] = g[i][h[i - 1]]
    <3>1. CASE i = m
      <4>1. m - 1 \in 0 .. m /\ m - 1 # m
        OBVIOUS
      <4> QED BY <3>1, <4>1
    <3>2. CASE i # m
      <4>1. i \in 1 .. m - 1 /\ i - 1 \in 0 .. m /\ i - 1 # m
        BY <3>2
      <4>2. f[i] = g[i][f[i - 1]]
        BY <2>1, <4>1
      <4> QED BY <3>2, <4>1, <4>2
    <3> QED BY <3>1, <3>2
  <2>6. Is(h, m)
    BY <2>4, <2>5
  <2> HIDE DEF h, Is
  <2> QED BY <2>3, <2>6
<1>3. n \in G
  <2> HIDE DEF G
  <2>1. \A i \in 0 .. n : i \in G
    BY <1>1, <1>2, UpTo
  <2> QED BY <2>1
<1> QED BY <1>3 DEF Solves

Distinct(q) == \A i, j \in DOMAIN q : q[i] = q[j] => i = j

LEMMA AmongUnfolds ==
    ASSUME NEW T, NEW seq \in Seq(T), NEW S
    PROVE  \E f : /\ among(seq, S) = f[Len(seq)]
                  /\ f[0] = <<>>
                  /\ \A i \in 1 .. Len(seq) :
                        f[i] = IF seq[i] \in S THEN Append(f[i - 1], seq[i]) ELSE f[i - 1]
<1>0. PICK all \in Nat : all = Len(seq)
  OBVIOUS
<1> DEFINE Is(f) == f = [n \in 0 .. all |-> IF n = 0 THEN <<>>
                            ELSE IF seq[n] \in S THEN Append(f[n - 1], seq[n]) ELSE f[n - 1]]
           g == [i \in 1 .. all |->
                    [q \in Seq(T) |-> IF seq[i] \in S THEN Append(q, seq[i]) ELSE q]]
           kept == CHOOSE f : Is(f)
<1>1. \A i \in 1 .. all : seq[i] \in T
  BY <1>0
<1>2. g \in [1 .. all -> [Seq(T) -> Seq(T)]]
  BY <1>1, AppendProperties
<1>3. PICK f \in [0 .. all -> Seq(T)] : f[0] = <<>> /\ \A i \in 1 .. all : f[i] = g[i][f[i - 1]]
  <2> HIDE DEF g
  <2>0. <<>> \in Seq(T)
    OBVIOUS
  <2>1. \E f : Solves(f, Seq(T), <<>>, all, g)
    BY <1>2, <2>0, Recursion
  <2> QED BY <2>1 DEF Solves
<1>4. ASSUME NEW i \in 1 .. all
      PROVE  f[i] = IF seq[i] \in S THEN Append(f[i - 1], seq[i]) ELSE f[i - 1]
  <2>1. i - 1 \in 0 .. all
    OBVIOUS
  <2>2. f[i - 1] \in Seq(T)
    BY <1>3, <2>1
  <2> QED BY <1>3, <2>2
<1>5. Is(f)
  <2>1. f = [n \in 0 .. all |-> f[n]]
    BY <1>3
  <2>2. ASSUME NEW n \in 0 .. all
        PROVE  f[n] = IF n = 0 THEN <<>>
                      ELSE IF seq[n] \in S THEN Append(f[n - 1], seq[n]) ELSE f[n - 1]
    <3>1. n = 0 \/ n \in 1 .. all
      OBVIOUS
    <3> QED BY <1>3, <1>4, <3>1
  <2> QED BY <2>1, <2>2, Zenon
<1>6. Is(kept)
  <2> HIDE DEF Is
  <2> QED BY <1>5
<1>7. among(seq, S) = kept[all]
  BY <1>0 DEF among
<1> HIDE DEF kept
<1>8. \A n \in 0 .. all : kept[n] = IF n = 0 THEN <<>>
                          ELSE IF seq[n] \in S THEN Append(kept[n - 1], seq[n]) ELSE kept[n - 1]
  BY <1>6
<1>9. 0 \in 0 .. all /\ \A i \in 1 .. all : i \in 0 .. all /\ i # 0
  OBVIOUS
<1> QED BY <1>0, <1>7, <1>8, <1>9

\* The members of the sequence that are in S, once each if they are once in it.
LEMMA AmongIs ==
    ASSUME NEW T, NEW seq \in Seq(T), NEW S
    PROVE  /\ among(seq, S) \in Seq(T)
           /\ Range(among(seq, S)) = Range(seq) \cap S
           /\ Distinct(seq) => Distinct(among(seq, S))
<1>1. PICK f : /\ among(seq, S) = f[Len(seq)]
               /\ f[0] = <<>>
               /\ \A i \in 1 .. Len(seq) :
                     f[i] = IF seq[i] \in S THEN Append(f[i - 1], seq[i]) ELSE f[i - 1]
  BY AmongUnfolds
<1> DEFINE R(i) == {seq[j] : j \in 1 .. i} \cap S
           Is(i) == /\ f[i] \in Seq(T) /\ Range(f[i]) = R(i)
                    /\ Distinct(seq) => Distinct(f[i])
           G == {i \in 0 .. Len(seq) : Is(i)}
<1>2. 0 \in G
  <2>1. f[0] \in Seq(T) /\ Range(f[0]) = {} /\ R(0) = {} /\ Distinct(f[0])
    BY <1>1 DEF Range, Distinct
  <2> QED BY <2>1
<1>3. ASSUME NEW i \in 1 .. Len(seq), i - 1 \in G PROVE i \in G
  <2>1. f[i - 1] \in Seq(T) /\ Range(f[i - 1]) = R(i - 1)
    BY <1>3
  <2>2. seq[i] \in T /\ 1 .. i = (1 .. i - 1) \cup {i}
    OBVIOUS
  <2>3. CASE seq[i] \in S
    <3>1. PICK q \in Seq(T) : q = f[i - 1] /\ f[i] = Append(q, seq[i])
      BY <1>1, <2>1, <2>3
    <3>2. /\ Append(q, seq[i]) \in Seq(T) /\ Len(Append(q, seq[i])) = Len(q) + 1
          /\ \A k \in 1 .. Len(q) + 1 :
                Append(q, seq[i])[k] = IF k <= Len(q) THEN q[k] ELSE seq[i]
      BY <2>2, AppendProperties
    <3>3. DOMAIN Append(q, seq[i]) = 1 .. Len(q) + 1 /\ Len(q) \in Nat
      BY <3>2
    <3>4. Range(Append(q, seq[i])) = Range(q) \cup {seq[i]}
      <4>1. Range(Append(q, seq[i])) = {Append(q, seq[i])[k] : k \in 1 .. Len(q) + 1}
        BY <3>3 DEF Range
      <4>2. 1 .. Len(q) + 1 = (1 .. Len(q)) \cup {Len(q) + 1} /\ DOMAIN q = 1 .. Len(q)
        BY <3>3
      <4>3. Range(q) = {q[k] : k \in 1 .. Len(q)}
        BY <4>2 DEF Range
      <4> QED BY <3>2, <3>3, <4>1, <4>2, <4>3
    <3>5. R(i) = R(i - 1) \cup {seq[i]}
      BY <2>2, <2>3
    <3>6. ASSUME Distinct(seq) PROVE Distinct(Append(q, seq[i]))
      <4>1. seq[i] \notin R(i - 1)
        <5>1. ASSUME NEW j \in 1 .. i - 1, seq[i] = seq[j] PROVE FALSE
          <6>1. i \in DOMAIN seq /\ j \in DOMAIN seq /\ i # j
            OBVIOUS
          <6> QED BY <3>6, <5>1, <6>1 DEF Distinct
        <5> QED BY <5>1
      <4>2. Distinct(q)
        BY <1>3, <3>1, <3>6
      <4>3. \A k \in 1 .. Len(q) : q[k] # seq[i]
        <5> HIDE DEF R
        <5> QED BY <2>1, <3>1, <4>1 DEF Range
      <4> HIDE DEF R
      <4> QED BY <3>2, <3>3, <4>2, <4>3 DEF Distinct
    <3>7. Is(i)
      <4> HIDE DEF R
      <4> QED BY <2>1, <3>1, <3>2, <3>4, <3>5, <3>6
    <3> HIDE DEF Is
    <3> QED BY <3>7
  <2>4. CASE seq[i] \notin S
    <3>1. f[i] = f[i - 1]
      BY <1>1, <2>4
    <3>2. R(i) = R(i - 1)
      BY <2>2, <2>4
    <3>3. Is(i)
      <4> HIDE DEF R
      <4> QED BY <1>3, <3>1, <3>2
    <3> HIDE DEF Is
    <3> QED BY <3>3
  <2> QED BY <2>3, <2>4
<1>4. Is(Len(seq))
  <2>1. Len(seq) \in Nat /\ Len(seq) \in 0 .. Len(seq)
    OBVIOUS
  <2> HIDE DEF Is
  <2>2. \A i \in 0 .. Len(seq) : i \in G
    <3> HIDE DEF G
    <3> QED BY <1>2, <1>3, <2>1, UpTo
  <2> QED BY <2>1, <2>2
<1>5. R(Len(seq)) = Range(seq) \cap S
  BY DEF Range
<1> HIDE DEF R
<1> QED BY <1>1, <1>4, <1>5

LEMMA AppendIs ==
    ASSUME NEW q, q \in Seq(Range(q)), NEW x
    PROVE  /\ Append(q, x) \in Seq(Range(Append(q, x)))
           /\ Range(Append(q, x)) = Range(q) \cup {x}
           /\ Len(Append(q, x)) = Len(q) + 1 /\ Len(q) \in Nat
           /\ \A k \in 1 .. Len(q) : Append(q, x)[k] = q[k]
           /\ Append(q, x)[Len(q) + 1] = x
           /\ Distinct(q) /\ x \notin Range(q) => Distinct(Append(q, x))
<1> DEFINE T == Range(q) \cup {x}
           r == Append(q, x)
<1>0. q \in Seq(T) /\ x \in T /\ Len(q) \in Nat /\ DOMAIN q = 1 .. Len(q)
  <2>1. Range(q) \subseteq T
    OBVIOUS
  <2> HIDE DEF T
  <2>2. q \in Seq(T)
    BY <2>1
  <2> QED BY <2>2 DEF T
<1>1. /\ r \in Seq(T) /\ Len(r) = Len(q) + 1
      /\ \A k \in 1 .. Len(q) + 1 : r[k] = IF k <= Len(q) THEN q[k] ELSE x
  <2> HIDE DEF T
  <2> QED BY <1>0, AppendProperties
<1>2. DOMAIN r = 1 .. Len(q) + 1
  <2> HIDE DEF r
  <2> QED BY <1>1
<1> HIDE DEF r
<1>3. Range(r) = T
  <2>1. Range(r) = {r[k] : k \in 1 .. Len(q) + 1}
    BY <1>2 DEF Range
  <2>2. 1 .. Len(q) + 1 = (1 .. Len(q)) \cup {Len(q) + 1}
    BY <1>0
  <2>3. Range(q) = {q[k] : k \in 1 .. Len(q)}
    BY <1>0 DEF Range
  <2> QED BY <1>0, <1>1, <2>1, <2>2, <2>3
<1>4. ASSUME Distinct(q), x \notin Range(q) PROVE Distinct(r)
  <2>1. \A k \in 1 .. Len(q) : q[k] # x
    BY <1>0, <1>4 DEF Range
  <2> QED BY <1>0, <1>1, <1>2, <1>4, <2>1 DEF Distinct
<1>5. r \in Seq(Range(r))
  <2> HIDE DEF T
  <2> QED BY <1>1, <1>3
<1> QED BY <1>0, <1>1, <1>3, <1>4, <1>5 DEF r

LEMMA TailIs ==
    ASSUME NEW q, q \in Seq(Range(q)), q # <<>>
    PROVE  /\ Tail(q) \in Seq(Range(Tail(q))) /\ Range(Tail(q)) \subseteq Range(q)
           /\ Head(q) \in Range(q) /\ Len(Tail(q)) = Len(q) - 1 /\ Len(q) \in Nat
<1>1. PICK T : T = Range(q) /\ q \in Seq(T)
  OBVIOUS
<1>2. Head(q) \in T /\ Tail(q) \in Seq(T) /\ Len(Tail(q)) = Len(q) - 1 /\ Len(q) \in Nat
  BY <1>1, HeadTailProperties
<1>3. Tail(q) \in Seq(Range(Tail(q))) /\ Range(Tail(q)) \in SUBSET T
  BY <1>2, SeqOfRange, RangeOfSeq, Zenon
<1> QED BY <1>1, <1>2, <1>3, Zenon

\* A sequence that repeats nothing is as long as its range is large.
LEMMA DistinctCounts ==
    ASSUME NEW T, NEW q \in Seq(T), Distinct(q)
    PROVE  Cardinality(Range(q)) = Len(q)
<1>1. DOMAIN q = 1 .. Len(q) /\ Len(q) \in Nat
  OBVIOUS
<1>2. q \in Bijection(1 .. Len(q), Range(q))
  BY <1>1 DEF Distinct, Range, Bijection, Injection, Surjection, IsInjective
<1>3. IsFiniteSet(1 .. Len(q)) /\ Cardinality(1 .. Len(q)) = Len(q)
  BY <1>1, FS_Interval
<1>4. ExistsBijection(1 .. Len(q), Range(q))
  BY <1>2 DEF ExistsBijection
<1> QED BY <1>3, <1>4, FS_Bijection

-----------------------------------------------------------------------------
(* Discovery *)

\* Equal accessors are found where the hash of one of them is looked for.
LEMMA SameHash ==
    ASSUME NEW acc, NEW other, same(acc, other),
           isValidDbusAccessor(acc) \/ isValidCmdlineAccessor(acc)
                                    \/ isValidDeviceCoreApiAccessor(acc)
    PROVE  hashed(acc) = hashed(other)
<1>1. "type" \in DOMAIN acc /\ "type" \in DOMAIN other /\ acc.type = other.type
  BY DEF same, isValid
<1>2. \A key \in DOMAIN acc \ ignoredKeys : key \in DOMAIN other
  BY DEF same
<1>3. \A key \in {"type", "interface", "property", "executable"} :
         key \in DOMAIN acc => acc[key] = other[key]
  BY DEF same, ignoredKeys
<1>4. CASE isValidDbusAccessor(acc)
  <2>1. isValidDbusAccessor(other)
    BY <1>1, <1>2, <1>4 DEF isValidDbusAccessor, isTypeDbus, isType, isValid, ignoredKeys
  <2>2. acc.interface = other.interface /\ acc.property = other.property
    BY <1>3, <1>4 DEF isValidDbusAccessor
  <2> QED BY <1>1, <1>4, <2>1, <2>2 DEF hashed
<1>5. CASE isValidCmdlineAccessor(acc)
  <2>1. /\ ~isValidDbusAccessor(acc) /\ ~isValidDbusAccessor(other)
        /\ isTypeCmdline(acc) /\ isTypeCmdline(other)
        /\ ~isTypeDeviceCoreApi(acc) /\ ~isTypeDeviceCoreApi(other)
    BY <1>1, <1>5 DEF isValidDbusAccessor, isValidCmdlineAccessor, isTypeDbus,
                      isTypeCmdline, isTypeDeviceCoreApi, isType, isValid
  <2>2. acc.executable = other.executable
    BY <1>3, <1>5 DEF isValidCmdlineAccessor
  <2> QED BY <1>1, <2>1, <2>2 DEF hashed
<1>6. CASE isValidDeviceCoreApiAccessor(acc)
  <2>1. /\ ~isValidDbusAccessor(acc) /\ ~isValidDbusAccessor(other)
        /\ ~isTypeCmdline(acc) /\ ~isTypeCmdline(other)
        /\ isTypeDeviceCoreApi(acc) /\ isTypeDeviceCoreApi(other)
    BY <1>1, <1>6 DEF isValidDbusAccessor, isValidDeviceCoreApiAccessor, isTypeDbus,
                      isTypeCmdline, isTypeDeviceCoreApi, isType, isValid
  <2>2. acc.property = other.property
    BY <1>3, <1>6 DEF isValidDeviceCoreApiAccessor
  <2> QED BY <1>1, <2>1, <2>2 DEF hashed
<1> QED BY <1>4, <1>5, <1>6

\* The views hold the first k events.
InViews(k) ==
    /\ DOMAIN views = {"accessor", "trigger", "recovery"}
    /\ \A v \in DOMAIN views : views[v] \in Seq(Nat) /\ Distinct(views[v])
    /\ Range(views["accessor"]) = 1 .. k /\ Range(views["trigger"]) = 1 .. k
    /\ Range(views["recovery"]) = {n \in 1 .. k : ~isEmpty(events[n].recovery)}

Readable(acc) == isValidDbusAccessor(acc) \/ isValidCmdlineAccessor(acc)
                                          \/ isValidDeviceCoreApiAccessor(acc)

LEMMA MatchingIs ==
    ASSUME NEW v \in {"accessor", "trigger", "recovery"}, InViews(Len(events)),
           events \in Seq(Range(events)), NEW data, Readable(data.acc)
    PROVE  /\ Matching(v, data) \in Seq(Nat) /\ Distinct(Matching(v, data))
           /\ Range(Matching(v, data)) = {n \in DOMAIN events : same(data.acc, events[n][v])}
<1> DEFINE S == {n \in DOMAIN events : /\ hashed(keyOf(v, n)) = hashed(data.acc)
                                       /\ same(data.acc, keyOf(v, n))}
<1>1. Matching(v, data) = among(views[v], S)
  BY DEF Matching
<1>2. views[v] \in Seq(Nat) /\ Distinct(views[v])
  BY DEF InViews
<1>3. /\ among(views[v], S) \in Seq(Nat) /\ Distinct(among(views[v], S))
      /\ Range(among(views[v], S)) = Range(views[v]) \cap S
  <2> HIDE DEF S
  <2> QED BY <1>2, AmongIs
<1>4. S = {n \in DOMAIN events : same(data.acc, events[n][v])}
  BY SameHash DEF keyOf, Readable
<1>5. S \subseteq Range(views[v])
  <2> SUFFICES ASSUME NEW n \in S PROVE n \in Range(views[v])
    OBVIOUS
  <2>1. n \in 1 .. Len(events) /\ same(data.acc, events[n][v])
    BY <1>4
  <2>2. ~isEmpty(events[n][v])
    BY <2>1 DEF same, isValid, isEmpty
  <2> QED BY <2>1, <2>2 DEF InViews
<1> HIDE DEF S
<1> QED BY <1>1, <1>3, <1>4, <1>5

LEMMA RangesAre ==
    ASSUME NEW v \in {"accessor", "trigger", "recovery"}, InViews(Len(events)),
           events \in Seq(Range(events)), NEW data, Readable(data.acc),
           NEW found \in equalRanges(v, data)
    PROVE  LET equals == {n \in DOMAIN events : same(data.acc, events[n][v])}
           IN /\ found \in Seq(Nat) /\ Distinct(found) /\ Range(found) \subseteq equals
              /\ Range(found) = equals \/ overlap(v, Matching(v, data))
<1>1. /\ Matching(v, data) \in Seq(Nat) /\ Distinct(Matching(v, data))
      /\ Range(Matching(v, data)) = {n \in DOMAIN events : same(data.acc, events[n][v])}
  BY MatchingIs
<1>2. CASE ~overlap(v, Matching(v, data))
  <2>1. found = Matching(v, data)
    BY <1>2 DEF equalRanges
  <2> QED BY <1>1, <2>1
<1>3. CASE overlap(v, Matching(v, data))
  <2>1. PICK S : found = among(Matching(v, data), S)
    BY <1>3 DEF equalRanges
  <2>2. /\ found \in Seq(Nat) /\ Distinct(found)
        /\ Range(found) = Range(Matching(v, data)) \cap S
    BY <1>1, <2>1, AmongIs
  <2> QED BY <1>1, <1>3, <2>2
<1> QED BY <1>2, <1>3

-----------------------------------------------------------------------------
(* Loading: the events are those of the profile, in its order, and the views
   hold them. *)

loading == {"accessor", "digit", "views"}

LoadInv ==
    /\ profile \in Profiles /\ events \in Seq(Range(events))
    /\ entry \in Nat \ {0} /\ part \in 1 .. 4
    /\ Len(events) <= Len(profile)
    /\ \A n \in 1 .. Len(events) : profile[n].complete /\ events[n] = EventNode(profile[n])
    /\ pc \in {"entry", "subscribe", "serve", "failed"} \cup loading
    /\ pc \in loading => InViews(entry - 1) /\ Len(events) = entry
    /\ pc \in {"entry", "subscribe", "serve"} => InViews(Len(events))
    /\ pc = "entry" => Len(events) = entry - 1
    /\ pc = "digit" => part \in 1 .. Len(Parts)
    /\ pc \in {"subscribe", "serve"} => Len(events) = Len(profile)
    /\ pc \in {"subscribe", "serve"} => entry <= Len(profile) + 1
    /\ pc = "failed" => entry <= Len(profile) /\ \E k \in 0 .. Len(events) : InViews(k)

LEMMA LoadInit == Init => LoadInv
<1> SUFFICES ASSUME Init PROVE LoadInv
  OBVIOUS
<1>1. Range(<<>>) = {} /\ Distinct(<<>>) /\ <<>> \in Seq(Nat) /\ <<>> \in Seq({}) /\ Len(<<>>) = 0
  BY DEF Range, Distinct
<1>2. Len(profile) \in Nat
  BY ProfilesAssumption DEF Init
<1>3. InViews(0)
  BY <1>1 DEF Init, InViews
<1> QED BY <1>1, <1>2, <1>3 DEF Init, LoadInv, loading

\* The views are as they were.
LEMMA ViewsStay ==
    ASSUME NEW k \in Nat, k <= Len(events), InViews(k), views' = views,
           \A n \in 1 .. k : events'[n] = events[n]
    PROVE  InViews(k)'
BY DEF InViews

LEMMA LoadEntryLoads ==
    ASSUME LoadInv, LoadEntry PROVE LoadInv'
<1>1. profile \in Seq(Range(profile)) /\ Len(profile) \in Nat /\ entry \in 1 .. Len(profile)
  BY ProfilesAssumption DEF LoadInv, LoadEntry
<1>2. CASE profile[entry].complete
  <2>1. /\ events' = Append(events, EventNode(profile[entry]))
        /\ pc' = "accessor" /\ part' = 1 /\ profile' = profile /\ entry' = entry
        /\ views' = views /\ pc = "entry"
    BY <1>2 DEF LoadEntry
  <2>2. /\ events' \in Seq(Range(events')) /\ Len(events') = entry
        /\ \A n \in 1 .. entry - 1 : events'[n] = events[n]
        /\ events'[entry] = EventNode(profile[entry])
    BY <2>1, AppendIs DEF LoadInv
  <2>3. InViews(entry - 1)'
    BY <1>1, <2>1, <2>2, ViewsStay DEF LoadInv
  <2> QED BY <1>1, <1>2, <2>1, <2>2, <2>3 DEF LoadInv, loading
<1>3. CASE ~profile[entry].complete
  <2>1. /\ UNCHANGED <<events, part, profile, entry, views>> /\ pc' = "failed" /\ pc = "entry"
    BY <1>3 DEF LoadEntry
  <2>2. InViews(Len(events))' /\ Len(events) \in Nat
    BY <2>1, ViewsStay DEF LoadInv
  <2> QED BY <1>1, <2>1, <2>2 DEF LoadInv, loading
<1> QED BY <1>2, <1>3

LEMMA NextAccessorLoads ==
    ASSUME LoadInv, NextAccessor PROVE LoadInv'
<1>1. /\ UNCHANGED <<events, profile, entry, views>> /\ pc = "accessor"
      /\ pc' \in {"accessor", "views", "failed", "digit"} /\ part' \in 1 .. 4
      /\ pc' = "digit" => part' \in 1 .. Len(Parts)
  BY DEF NextAccessor, LoadInv, Parts
<1>2. InViews(entry - 1)' /\ entry - 1 \in 0 .. Len(events)
  BY <1>1, ViewsStay DEF LoadInv, loading
<1> QED BY <1>1, <1>2, ProfilesAssumption DEF LoadInv, loading

\* The iterator.
LEMMA IteratorLoads ==
    ASSUME LoadInv, SetDigit \/ PushValue \/ EmplaceValues PROVE LoadInv'
<1>1. /\ UNCHANGED <<events, profile, entry, views>> /\ pc = "digit"
      /\ pc' \in {"accessor", "digit"}
  BY DEF SetDigit, PushValue, EmplaceValues
<1>2. part' \in 1 .. 4 /\ (pc' = "digit" => part' \in 1 .. Len(Parts))
  BY DEF SetDigit, PushValue, EmplaceValues, LoadInv, Parts
<1>3. InViews(entry - 1)'
  BY <1>1, ViewsStay DEF LoadInv, loading
<1> QED BY <1>1, <1>2, <1>3 DEF LoadInv, loading

LEMMA PushViewsLoads ==
    ASSUME LoadInv, PushViews PROVE LoadInv'
<1>1. /\ UNCHANGED <<events, profile, part>> /\ pc = "views" /\ pc' = "entry"
      /\ entry' = entry + 1 /\ Len(events) = entry /\ entry \in Nat \ {0}
      /\ InViews(entry - 1)
  BY DEF PushViews, LoadInv, loading
<1> DEFINE skipped == isEmpty(events[entry].recovery)
<1>2. /\ DOMAIN views' = {"accessor", "trigger", "recovery"}
      /\ \A v \in {"accessor", "trigger", "recovery"} :
            views'[v] = IF v = "recovery" /\ skipped THEN views[v] ELSE Append(views[v], entry)
  BY <1>1 DEF PushViews, InViews
<1>3. ASSUME NEW v \in {"accessor", "trigger", "recovery"}
      PROVE  LET q == Append(views[v], entry)
             IN q \in Seq(Nat) /\ Distinct(q) /\ Range(q) = Range(views[v]) \cup {entry}
  <2>1. /\ views[v] \in Seq(Nat) /\ Distinct(views[v]) /\ entry \notin Range(views[v])
    BY <1>1, <1>3 DEF InViews
  <2>2. views[v] \in Seq(Range(views[v]))
    BY <2>1, SeqOfRange
  <2>3. /\ Distinct(Append(views[v], entry))
        /\ Range(Append(views[v], entry)) = Range(views[v]) \cup {entry}
    BY <2>1, <2>2, AppendIs
  <2>4. Append(views[v], entry) \in Seq(Nat)
    BY <1>1, <2>1, AppendProperties
  <2> QED BY <2>3, <2>4
<1>4. 1 .. entry = (1 .. entry - 1) \cup {entry}
  BY <1>1
<1>5. \A v \in {"accessor", "trigger", "recovery"} :
         views'[v] \in Seq(Nat) /\ Distinct(views'[v])
  BY <1>1, <1>2, <1>3 DEF InViews
<1>6. Range(views'["accessor"]) = 1 .. entry /\ Range(views'["trigger"]) = 1 .. entry
  BY <1>1, <1>2, <1>3, <1>4 DEF InViews
<1>7. Range(views'["recovery"]) = {n \in 1 .. entry : ~isEmpty(events[n].recovery)}
  <2>1. CASE skipped
    BY <1>1, <1>2, <1>4, <2>1 DEF InViews
  <2>2. CASE ~skipped
    BY <1>1, <1>2, <1>3, <1>4, <2>2 DEF InViews
  <2> QED BY <2>1, <2>2
<1>8. InViews(Len(events))'
  BY <1>1, <1>2, <1>5, <1>6, <1>7 DEF InViews
<1> QED BY <1>1, <1>8 DEF LoadInv, loading

LEMMA LoadStays == ASSUME LoadInv, UNCHANGED <<pc, loadVars>> PROVE LoadInv'
<1>1. UNCHANGED <<pc, profile, entry, part, events, views>>
  BY DEF loadVars
<1>2. \A k \in Nat : InViews(k) => InViews(k)'
  BY <1>1 DEF InViews
<1> QED BY <1>1, <1>2 DEF LoadInv, loading

LEMMA RestLoads ==
    ASSUME LoadInv, Loaded \/ Subscribe \/ Ready PROVE LoadInv'
<1>1. /\ UNCHANGED <<events, profile, part, views>> /\ pc \in {"entry", "subscribe"}
      /\ pc' \in {"subscribe", "serve"} /\ entry' \in Nat \ {0}
      /\ (pc = "entry" /\ entry > Len(profile) /\ entry' = 1)
         \/ (pc = "subscribe" /\ entry <= Len(events) /\ entry' = entry + 1)
         \/ (pc = "subscribe" /\ entry' = entry)
  BY DEF Loaded, Subscribe, Ready, LoadInv, loadVars
<1>2. InViews(Len(events))'
  BY <1>1, ViewsStay DEF LoadInv
<1>3. Len(profile) \in Nat /\ Len(events) \in Nat
  BY ProfilesAssumption DEF LoadInv
<1>4. Len(events) = Len(profile) /\ entry' <= Len(profile) + 1
  BY <1>1, <1>3 DEF LoadInv
<1> QED BY <1>1, <1>2, <1>3, <1>4 DEF LoadInv, loading

LEMMA LoadStep == ASSUME LoadInv, [Next]_vars PROVE LoadInv'
<1>1. CASE LoadEntry
  BY <1>1, LoadEntryLoads
<1>2. CASE NextAccessor
  BY <1>2, NextAccessorLoads
<1>3. CASE SetDigit \/ PushValue \/ EmplaceValues
  BY <1>3, IteratorLoads
<1>4. CASE PushViews
  BY <1>4, PushViewsLoads
<1>5. CASE Loaded \/ Subscribe \/ Ready
  BY <1>5, RestLoads
<1>6. CASE Change \/ Selftested \/ Worker \/ UNCHANGED vars
  <2>1. UNCHANGED <<pc, loadVars>>
    BY <1>6 DEF Change, Selftested, Worker, Pop, RecoveryNext, Recovered, DetectNext, Read,
                Triggered, Checked, Detected, mainVars, vars
  <2> QED BY <2>1, LoadStays
<1> QED BY <1>1, <1>2, <1>3, <1>4, <1>5, <1>6 DEF Next, Load

-----------------------------------------------------------------------------
(* What is queued *)

wantedBy(data) ==
    {n \in DOMAIN events :
        IF data.device # <<>> THEN same(data.acc, events[n].accessor)
        ELSE same(data.acc, events[n].trigger) \/ same(data.acc, events[n].recovery)}

isDiscovered(data, found) ==
    /\ found \in Seq(Nat) /\ Distinct(found) /\ Range(found) \subseteq wantedBy(data)
    /\ \/ \E v \in DOMAIN views : overlap(v, Matching(v, data))
       \/ Range(found) = wantedBy(data)

\* Data comes with a signal of a property, which is no range, or is what the
\* selftest has read.
speaks(data) ==
    \/ /\ data.device = <<>>
       /\ \E p \in DOMAIN InitWorld : p.type = "DBUS" /\ data.acc = placeAccessor(p)
    \/ /\ data.device # <<>> /\ hasData(data)
       /\ \E b \in BootData : data.acc = b.acc

isItem(item) ==
    /\ isDiscovered(item.data, item.events) /\ speaks(item.data)
    /\ item = [data |-> item.data, events |-> item.events] /\ "acc" \in DOMAIN item.data

QueueInv ==
    /\ DOMAIN world = DOMAIN InitWorld
    /\ queue \in Seq(Range(queue)) /\ Len(queue) <= QueueSize
    /\ pc # "serve" => queue = <<>>
    /\ \A item \in Range(queue) : isItem(item)

LEMMA ConcatDistinct ==
    ASSUME NEW T, NEW a \in Seq(T), NEW b \in Seq(T), Distinct(a), Distinct(b),
           Range(a) \cap Range(b) = {}
    PROVE  Distinct(a \o b)
<1>1. /\ a \o b \in Seq(T) /\ Len(a \o b) = Len(a) + Len(b)
      /\ \A i \in 1 .. Len(a) + Len(b) :
            (a \o b)[i] = IF i <= Len(a) THEN a[i] ELSE b[i - Len(a)]
  BY ConcatProperties
<1>2. PICK c : c = a \o b
  OBVIOUS
<1>3. DOMAIN c = 1 .. Len(a) + Len(b) /\ Len(a) \in Nat /\ Len(b) \in Nat
  BY <1>1, <1>2
<1> SUFFICES ASSUME NEW i \in DOMAIN c, NEW j \in DOMAIN c, c[i] = c[j] PROVE i = j
  BY <1>2 DEF Distinct
<1>4. DOMAIN a = 1 .. Len(a) /\ DOMAIN b = 1 .. Len(b)
  OBVIOUS
<1>5. CASE i <= Len(a) /\ j <= Len(a)
  BY <1>1, <1>2, <1>3, <1>4, <1>5 DEF Distinct
<1>6. CASE i > Len(a) /\ j > Len(a)
  <2>1. i - Len(a) \in DOMAIN b /\ j - Len(a) \in DOMAIN b
    BY <1>3, <1>4, <1>6
  <2>2. b[i - Len(a)] = b[j - Len(a)]
    BY <1>1, <1>2, <1>3, <1>6
  <2> QED BY <1>3, <1>6, <2>1, <2>2 DEF Distinct
<1>7. ASSUME NEW x \in 1 .. Len(a), NEW y \in 1 .. Len(b) PROVE a[x] # b[y]
  BY <1>4 DEF Range
<1>8. CASE i <= Len(a) /\ j > Len(a)
  <2>1. j - Len(a) \in 1 .. Len(b) /\ i \in 1 .. Len(a)
    BY <1>3, <1>8
  <2>2. a[i] = b[j - Len(a)]
    BY <1>1, <1>2, <1>3, <1>8
  <2> QED BY <1>7, <2>1, <2>2
<1>9. CASE i > Len(a) /\ j <= Len(a)
  <2>1. i - Len(a) \in 1 .. Len(b) /\ j \in 1 .. Len(a)
    BY <1>3, <1>9
  <2>2. a[j] = b[i - Len(a)]
    BY <1>1, <1>2, <1>3, <1>9
  <2> QED BY <1>7, <2>1, <2>2
<1> QED BY <1>3, <1>5, <1>6, <1>8, <1>9

LEMMA SignalFinds ==
    ASSUME InViews(Len(events)), events \in Seq(Range(events)), NEW data, Readable(data.acc),
           data.device = <<>>, NEW found \in discoveries(data, FALSE)
    PROVE  isDiscovered(data, found)
<1> DEFINE equals(v) == {n \in DOMAIN events : same(data.acc, events[n][v])}
<1>1. PICK t \in equalRanges("trigger", data), r \in equalRanges("recovery", data) :
         found = t \o among(r, Range(r) \ Range(t))
  <2>1. \E t \in equalRanges("trigger", data), r \in equalRanges("recovery", data) :
           found = joined(t, r)
    BY SMT DEF discoveries
  <2> QED BY <2>1 DEF joined
<1>2. ASSUME NEW v \in {"trigger", "recovery"}, NEW q \in equalRanges(v, data)
      PROVE  /\ q \in Seq(Nat) /\ Distinct(q) /\ Range(q) \subseteq equals(v)
             /\ Range(q) = equals(v) \/ overlap(v, Matching(v, data))
  BY RangesAre
<1> HIDE DEF equals
<1>3. PICK late : late = among(r, Range(r) \ Range(t))
  OBVIOUS
<1>4. late \in Seq(Nat) /\ Distinct(late) /\ Range(late) = Range(r) \ Range(t)
  <2>1. r \in Seq(Nat) /\ Distinct(r)
    BY <1>2
  <2>2. Range(r) \cap (Range(r) \ Range(t)) = Range(r) \ Range(t)
    OBVIOUS
  <2> QED BY <1>3, <2>1, <2>2, AmongIs
<1>5. t \in Seq(Nat) /\ Distinct(t)
  BY <1>2
<1>6. found \in Seq(Nat) /\ Range(found) = Range(t) \cup Range(r)
  <2>1. t \o late \in Seq(Nat)
    BY <1>4, <1>5, ConcatProperties
  <2>2. Range(t \o late) = Range(t) \cup Range(late)
    BY <1>4, <1>5, RangeConcatenation
  <2> QED BY <1>1, <1>3, <1>4, <2>1, <2>2
<1>7. Distinct(found)
  <2>1. Range(t) \cap Range(late) = {}
    BY <1>4
  <2> QED BY <1>1, <1>3, <1>4, <1>5, <2>1, ConcatDistinct
<1>8. wantedBy(data) = equals("trigger") \cup equals("recovery")
  BY DEF wantedBy, equals
<1>9. DOMAIN views = {"accessor", "trigger", "recovery"}
  BY DEF InViews
<1>10. Range(t) \subseteq equals("trigger") /\ Range(r) \subseteq equals("recovery")
  BY <1>2
<1>11. \/ \E v \in DOMAIN views : overlap(v, Matching(v, data))
       \/ Range(t) = equals("trigger") /\ Range(r) = equals("recovery")
  BY <1>2, <1>9
<1> QED BY <1>6, <1>7, <1>8, <1>10, <1>11 DEF isDiscovered

LEMMA ResultFinds ==
    ASSUME InViews(Len(events)), events \in Seq(Range(events)), NEW data,
           hasData(data) => Readable(data.acc),
           data.device # <<>>, NEW found \in discoveries(data, TRUE), found # <<>>
    PROVE  isDiscovered(data, found) /\ hasData(data)
<1>1. hasData(data) /\ found \in equalRanges("accessor", data)
  BY DEF discoveries
<1> DEFINE equals == {n \in DOMAIN events : same(data.acc, events[n]["accessor"])}
<1>2. /\ found \in Seq(Nat) /\ Distinct(found) /\ Range(found) \subseteq equals
      /\ Range(found) = equals \/ overlap("accessor", Matching("accessor", data))
  BY <1>1, RangesAre
<1>3. wantedBy(data) = equals
  BY DEF wantedBy
<1> HIDE DEF equals
<1>4. "accessor" \in DOMAIN views
  BY DEF InViews
<1> QED BY <1>1, <1>2, <1>3, <1>4 DEF isDiscovered

LEMMA PushIs ==
    ASSUME NEW q, q \in Seq(Range(q)), Len(q) <= QueueSize, NEW data, NEW found
    PROVE  LET r == push(q, data, found)
           IN /\ r \in Seq(Range(r)) /\ Len(r) <= QueueSize
              /\ \/ r = q
                 \/ found # <<>> /\ Range(r) = Range(q) \cup {[data |-> data, events |-> found]}
<1>1. Len(q) \in Nat /\ QueueSize \in Nat
  BY BoundAssumption
<1>2. CASE found = <<>> \/ Len(q) >= QueueSize
  BY <1>2 DEF push
<1>3. CASE ~(found = <<>> \/ Len(q) >= QueueSize)
  <2>1. PICK r : r = Append(q, [data |-> data, events |-> found])
    OBVIOUS
  <2>2. /\ r \in Seq(Range(r)) /\ Len(r) = Len(q) + 1
        /\ Range(r) = Range(q) \cup {[data |-> data, events |-> found]}
    BY <2>1, AppendIs
  <2> QED BY <1>1, <1>3, <2>1, <2>2 DEF push
<1> QED BY <1>2, <1>3

LEMMA ItemsStay ==
    ASSUME UNCHANGED <<events, views>>
    PROVE  \A item : isItem(item) => isItem(item)'
BY DEF isItem, isDiscovered, wantedBy, overlap, Matching, keyOf

LEMMA SignalReadable ==
    ASSUME NEW p, NEW variant
    PROVE  /\ signalOf(p, variant).device = <<>> /\ Readable(signalOf(p, variant).acc)
           /\ signalOf(p, variant).acc = placeAccessor(p)
BY DEF signalOf, noData, placeAccessor, Readable, isValidDbusAccessor, isTypeDbus, isType, isValid

LEMMA ResultReadable ==
    ASSUME NEW acc, NEW values, NEW device, NEW pi, NEW data,
           data = [acc |-> acc, device |-> device, value |-> read(acc, values, device, pi)],
           hasData(data)
    PROVE  Readable(data.acc)
<1>1. read(acc, values, device, pi) # emptyValue
  BY DEF hasData, isEmptyValue, emptyValue
<1> QED BY <1>1 DEF read, Readable

LEMMA PushDiscovers ==
    ASSUME QueueInv, pc = "serve", NEW data, NEW found, UNCHANGED <<pc, events, views>>,
           DOMAIN world' = DOMAIN world, queue' = push(queue, data, found),
           data = [acc |-> data.acc, value |-> data.value, device |-> data.device],
           found # <<>> => isDiscovered(data, found) /\ speaks(data)
    PROVE  QueueInv'
<1>1. /\ queue' \in Seq(Range(queue')) /\ Len(queue') <= QueueSize
      /\ \/ queue' = queue
         \/ found # <<>> /\ Range(queue') = Range(queue) \cup {[data |-> data, events |-> found]}
  BY PushIs DEF QueueInv
<1>2. found # <<>> => isItem([data |-> data, events |-> found])
  BY DEF isItem
<1>3. \A item \in Range(queue') : isItem(item)
  BY <1>1, <1>2 DEF QueueInv
<1>4. \A item \in Range(queue') : isItem(item)'
  BY <1>3, ItemsStay
<1> QED BY <1>1, <1>4 DEF QueueInv

LEMMA ChangeDiscovers ==
    ASSUME LoadInv, QueueInv, Change PROVE QueueInv'
<1>1. PICK p \in DOMAIN world : \E variant \in Variants[p] \ {world[p]} :
         /\ world' = [world EXCEPT ![p] = variant]
         /\ IF /\ p.type = "DBUS" /\ isValidVariant(variant)
               /\ <<asString(p.target), p.name[1]>> \in Range(handlers)
            THEN \E found \in discoveries(signalOf(p, variant), FALSE) :
                    queue' = push(queue, signalOf(p, variant), found)
            ELSE UNCHANGED queue
  BY DEF Change
<1>2. PICK variant \in Variants[p] :
         /\ world' = [world EXCEPT ![p] = variant]
         /\ IF /\ p.type = "DBUS" /\ isValidVariant(variant)
               /\ <<asString(p.target), p.name[1]>> \in Range(handlers)
            THEN \E found \in discoveries(signalOf(p, variant), FALSE) :
                    queue' = push(queue, signalOf(p, variant), found)
            ELSE UNCHANGED queue
  BY <1>1
<1>3. UNCHANGED <<pc, events, views>> /\ pc = "serve" /\ DOMAIN world' = DOMAIN world
  BY <1>2 DEF Change, loadVars
<1>4. CASE UNCHANGED queue
  BY <1>3, <1>4, ItemsStay DEF QueueInv
<1>5. ASSUME p.type = "DBUS", NEW found \in discoveries(signalOf(p, variant), FALSE),
             queue' = push(queue, signalOf(p, variant), found)
      PROVE  QueueInv'
  <2>1. PICK data : data = signalOf(p, variant)
    OBVIOUS
  <2>2. /\ data = [acc |-> data.acc, value |-> data.value, device |-> data.device]
        /\ data.device = <<>> /\ Readable(data.acc) /\ data.acc = placeAccessor(p)
    BY <2>1, SignalReadable DEF signalOf, noData
  <2>3. isDiscovered(data, found)
    BY <1>3, <1>5, <2>1, <2>2, SignalFinds DEF LoadInv
  <2>4. speaks(data)
    BY <1>5, <2>2 DEF speaks, QueueInv
  <2> QED BY <1>3, <1>5, <2>1, <2>2, <2>3, <2>4, PushDiscovers
<1> QED BY <1>2, <1>4, <1>5

LEMMA SelftestedDiscovers ==
    ASSUME LoadInv, QueueInv, Selftested PROVE QueueInv'
<1>1. PICK b \in BootData :
         LET data == [acc |-> b.acc, device |-> b.device,
                      value |-> read(b.acc, world, b.device, <<>>)]
         IN \E found \in discoveries(data, TRUE) : queue' = push(queue, data, found)
  BY DEF Selftested
<1>2. PICK data : data = [acc |-> b.acc, device |-> b.device,
                          value |-> read(b.acc, world, b.device, <<>>)]
  OBVIOUS
<1>3. PICK found \in discoveries(data, TRUE) : queue' = push(queue, data, found)
  BY <1>1, <1>2
<1>4. UNCHANGED <<pc, events, views>> /\ pc = "serve" /\ DOMAIN world' = DOMAIN world
  BY DEF Selftested, loadVars
<1>5. /\ data = [acc |-> data.acc, value |-> data.value, device |-> data.device]
      /\ data.device # <<>> /\ data.acc = b.acc
  BY <1>2, WorldAssumption
<1>6. hasData(data) => Readable(data.acc)
  BY <1>2, ResultReadable
<1>7. found # <<>> => isDiscovered(data, found) /\ hasData(data)
  BY <1>3, <1>4, <1>5, <1>6, ResultFinds DEF LoadInv
<1>8. found # <<>> => speaks(data)
  BY <1>5, <1>7 DEF speaks
<1> QED BY <1>3, <1>4, <1>5, <1>7, <1>8, PushDiscovers

LEMMA QueueStep == ASSUME LoadInv, QueueInv, [Next]_vars PROVE QueueInv'
<1>1. CASE Change
  BY <1>1, ChangeDiscovers
<1>2. CASE Selftested
  BY <1>2, SelftestedDiscovers
<1>3. CASE Pop
  <2>1. UNCHANGED <<pc, events, views, world>> /\ queue # <<>> /\ queue' = Tail(queue)
    BY <1>3 DEF Pop, mainVars, loadVars
  <2>2. /\ queue' \in Seq(Range(queue')) /\ Range(queue') \subseteq Range(queue)
        /\ Len(queue') = Len(queue) - 1 /\ Len(queue) \in Nat /\ pc = "serve"
    BY <2>1, TailIs DEF QueueInv
  <2>3. Len(queue') <= QueueSize
    BY <2>2, BoundAssumption DEF QueueInv
  <2> QED BY <2>1, <2>2, <2>3, ItemsStay DEF QueueInv
<1>4. CASE Load
  <2>1. UNCHANGED <<queue, world>> /\ pc # "serve" /\ queue = <<>> /\ Range(<<>>) = {}
    BY <1>4 DEF Load, LoadEntry, NextAccessor, SetDigit, PushValue, EmplaceValues, PushViews,
                Loaded, Subscribe, Ready, serveVars, QueueInv, Range
  <2> QED BY <2>1 DEF QueueInv
<1>5. CASE UNCHANGED <<pc, events, views, world, queue>>
  BY <1>5, ItemsStay DEF QueueInv
<1>6. RecoveryNext \/ Recovered \/ DetectNext \/ Read \/ Triggered \/ Checked \/ Detected
      \/ UNCHANGED vars => UNCHANGED <<pc, events, views, world, queue>>
  BY DEF RecoveryNext, Recovered, DetectNext, Read, Triggered, Checked, Detected, mainVars,
         loadVars, vars
<1> QED BY <1>1, <1>2, <1>3, <1>4, <1>5, <1>6 DEF Next, Worker

LEMMA DiscoveryInvariant == Spec => [](LoadInv /\ QueueInv)
<1>1. Init => LoadInv /\ QueueInv
  <2> SUFFICES ASSUME Init PROVE QueueInv
    BY LoadInit
  <2>1. Range(<<>>) = {} /\ <<>> \in Seq({}) /\ Len(<<>>) = 0
    BY DEF Range
  <2> QED BY <2>1, BoundAssumption DEF Init, QueueInv
<1>2. LoadInv /\ QueueInv /\ [Next]_vars => (LoadInv /\ QueueInv)'
  BY LoadStep, QueueStep
<1> QED BY <1>1, <1>2, PTL DEF Spec

\* A signal or a selftest result is queued with every event it is about.
THEOREM EveryEventDiscovered == Spec => []DiscoveredAll
<1>1. ASSUME LoadInv, QueueInv PROVE DiscoveredAll
  <2> SUFFICES ASSUME NEW k \in DOMAIN queue
               PROVE  LET data == queue[k].data
                          bootup == data.device # <<>>
                          wanted == {n \in DOMAIN events :
                                        IF bootup THEN same(data.acc, events[n].accessor)
                                        ELSE \/ same(data.acc, events[n].trigger)
                                             \/ same(data.acc, events[n].recovery)}
                          unclear == \E v \in DOMAIN views : overlap(v, Matching(v, data))
                      IN /\ Cardinality(Range(queue[k].events)) = Len(queue[k].events)
                         /\ Range(queue[k].events) \subseteq wanted
                         /\ unclear \/ Range(queue[k].events) = wanted
    BY DEF DiscoveredAll
  <2>1. PICK item : item = queue[k]
    OBVIOUS
  <2>2. isDiscovered(item.data, item.events)
    BY <1>1, <2>1 DEF QueueInv, isItem, Range
  <2>3. Cardinality(Range(item.events)) = Len(item.events)
    BY <2>2, DistinctCounts DEF isDiscovered
  <2> QED BY <2>1, <2>2, <2>3 DEF isDiscovered, wantedBy
<1> QED BY <1>1, DiscoveryInvariant, PTL

-----------------------------------------------------------------------------
(* Greatest and least *)

LEMMA Bounded ==
    ASSUME NEW n \in Nat, NEW f \in [1 .. n -> Nat]
    PROVE  \E b \in Nat : \A i \in 1 .. n : f[i] <= b
<1> DEFINE G == {m \in 0 .. n : \E b \in Nat : \A i \in 1 .. m : f[i] <= b}
<1>1. 0 \in G
  OBVIOUS
<1>2. ASSUME NEW m \in 1 .. n, m - 1 \in G PROVE m \in G
  <2>1. PICK b \in Nat : \A i \in 1 .. m - 1 : f[i] <= b
    BY <1>2
  <2>2. PICK c \in Nat : c >= b /\ c >= f[m]
    <3>1. f[m] \in Nat /\ (b >= f[m] \/ f[m] >= b)
      OBVIOUS
    <3> QED BY <3>1
  <2>3. ASSUME NEW i \in 1 .. m PROVE f[i] <= c
    <3>1. f[i] \in Nat /\ (i = m \/ i \in 1 .. m - 1)
      OBVIOUS
    <3> QED BY <2>1, <2>2, <3>1
  <2>4. \E d \in Nat : \A i \in 1 .. m : f[i] <= d
    BY <2>2, <2>3
  <2>5. m \in 0 .. n
    OBVIOUS
  <2> QED BY <2>4, <2>5
<1>3. n \in G
  <2> HIDE DEF G
  <2>1. \A i \in 0 .. n : i \in G
    BY <1>1, <1>2, UpTo
  <2> QED BY <2>1
<1> QED BY <1>3

LEMMA MinIs ==
    ASSUME NEW T \in SUBSET Nat, T # {}
    PROVE  Min(T) \in T /\ \A x \in T : Min(T) <= x
<1>1. \E m \in T : \A x \in T : m =< x
  BY SmallestOf
<1> QED BY <1>1 DEF Min

LEMMA MaxIs ==
    ASSUME NEW T \in SUBSET Nat, T # {}, NEW b \in Nat, \A x \in T : x <= b
    PROVE  Max(T) \in T /\ \A x \in T : x <= Max(T)
<1> DEFINE U == {b - x : x \in T}
<1>1. \A x \in T : b - x \in Nat /\ b - x \in U /\ x \in Nat
  OBVIOUS
<1>2. U \in SUBSET Nat /\ U # {}
  BY <1>1
<1>3. PICK u \in U : \A v \in U : u <= v
  BY <1>2, SmallestOf
<1>4. PICK m \in T : u = b - m
  BY <1>3
<1>5. \A x \in T : m >= x
  <2> HIDE DEF U
  <2> SUFFICES ASSUME NEW x \in T PROVE m >= x
    OBVIOUS
  <2>1. b - m <= b - x
    BY <1>1, <1>3, <1>4
  <2> QED BY <1>1, <2>1
<1>6. \E y \in T : \A x \in T : y >= x
  BY <1>5
<1>7. Max(T) \in T /\ \A x \in T : Max(T) >= x
  BY <1>6 DEF Max
<1> QED BY <1>1, <1>7

\* The greatest and the least of the numbers that go with the members of a set
\* of places.
LEMMA ExtremesAre ==
    ASSUME NEW n \in Nat, NEW S \in SUBSET (1 .. n), S # {}, NEW f \in [1 .. n -> Nat]
    PROVE  LET T == {f[i] : i \in S}
           IN /\ Max(T) \in T /\ Min(T) \in T /\ T \subseteq Nat
              /\ \A i \in S : Min(T) <= f[i] /\ f[i] <= Max(T)
<1> DEFINE T == {f[i] : i \in S}
<1>1. T \in SUBSET Nat /\ T # {}
  OBVIOUS
<1>2. PICK b \in Nat : \A i \in 1 .. n : f[i] <= b
  BY Bounded
<1>3. \A x \in T : x <= b
  BY <1>2
<1>4. \A i \in S : f[i] \in T
  OBVIOUS
<1> HIDE DEF T
<1>5. Max(T) \in T /\ \A x \in T : x <= Max(T)
  BY <1>1, <1>3, MaxIs
<1>6. Min(T) \in T /\ \A x \in T : Min(T) <= x
  BY <1>1, MinIs
<1>7. Max(T) \in T /\ Min(T) \in T /\ T \subseteq Nat
      /\ \A i \in S : Min(T) <= f[i] /\ f[i] <= Max(T)
  BY <1>1, <1>4, <1>5, <1>6
<1> QED BY <1>7 DEF T

-----------------------------------------------------------------------------
(* Patterns *)

LEMMA BracketsAre ==
    ASSUME NEW p \in Patterns
    PROVE  /\ p.brackets \in Seq(Brackets) /\ Len(p.brackets) \in Nat
           /\ DOMAIN p.brackets = 1 .. Len(p.brackets)
           /\ \A i \in DOMAIN p.brackets :
                 /\ p.brackets[i].from.left \in Nat /\ p.brackets[i].from.right \in Nat
                 /\ inputPos(p, i) \in Nat
<1>1. p.brackets \in Seq(Brackets)
  BY DEF Patterns
<1>2. \A i \in DOMAIN p.brackets : p.brackets[i] \in Brackets
  BY <1>1
<1>3. ASSUME NEW i \in DOMAIN p.brackets
      PROVE  /\ p.brackets[i].from.left \in Nat /\ p.brackets[i].from.right \in Nat
             /\ inputPos(p, i) \in Nat
  <2>1. PICK b \in Brackets : b = p.brackets[i]
    BY <1>2
  <2>2. /\ b.from.left \in Nat /\ b.from.right \in Nat
        /\ b.pos = Implicit \/ b.pos \in Nat
    BY DEF Brackets, Ranges
  <2>3. i - 1 \in Nat
    BY <1>1
  <2> QED BY <2>1, <2>2, <2>3 DEF inputPos
<1> QED BY <1>1, <1>3

LEMMA DimIs ==
    ASSUME NEW p \in Patterns
    PROVE  /\ dim(p) \in Nat
           /\ \A i \in DOMAIN p.brackets : inputPos(p, i) < dim(p)
           /\ dim(p) > 0 => \E i \in DOMAIN p.brackets : inputPos(p, i) = dim(p) - 1
           /\ dim(p) = 0 => p.brackets = <<>>
<1>1. PICK n \in Nat : n = Len(p.brackets) /\ DOMAIN p.brackets = 1 .. n
  BY BracketsAre
<1>2. CASE p.brackets = <<>>
  BY <1>2 DEF dim
<1>3. CASE p.brackets # <<>>
  <2>1. n # 0
    BY <1>1, <1>3, BracketsAre
  <2> DEFINE f == [i \in 1 .. n |-> inputPos(p, i)]
             T == {f[i] : i \in 1 .. n}
  <2>2. f \in [1 .. n -> Nat]
    BY <1>1, BracketsAre
  <2>3. T = {inputPos(p, i) : i \in DOMAIN p.brackets}
    BY <1>1
  <2>4. Max(T) \in T /\ T \subseteq Nat /\ \A i \in 1 .. n : f[i] <= Max(T)
    <3>1. 1 .. n \in SUBSET (1 .. n) /\ 1 .. n # {}
      BY <2>1
    <3> HIDE DEF f
    <3> QED BY <2>2, <3>1, ExtremesAre
  <2>5. dim(p) = 1 + Max(T)
    BY <1>3, <2>3 DEF dim
  <2>6. PICK m \in Nat : m = Max(T)
    BY <2>4
  <2>7. \A i \in DOMAIN p.brackets : inputPos(p, i) \in Nat /\ inputPos(p, i) <= m
    BY <1>1, <2>4, <2>6, BracketsAre
  <2>8. \E i \in DOMAIN p.brackets : inputPos(p, i) = m
    BY <1>1, <2>4, <2>6
  <2>9. dim(p) = 1 + m
    BY <2>5, <2>6
  <2>10. m + 1 \in Nat /\ ~(1 + m = 0) /\ 1 + m - 1 = m /\ \A x \in Nat : x <= m => x < 1 + m
    OBVIOUS
  <2> HIDE DEF T, f
  <2> QED BY <2>7, <2>8, <2>9, <2>10
<1> QED BY <1>2, <1>3

\* The indexes of a position: those every bracket of it accepts, from the first
\* on, or the one that is unspecified.
LEMMA DomainIs ==
    ASSUME NEW p \in Patterns, NEW pos \in Nat
    PROVE  \/ bracketsOf(p, pos) = {} /\ inputDomain(p, pos) = <<unspecified>>
           \/ /\ bracketsOf(p, pos) # {}
              /\ \E first \in Nat, last \in Nat :
                    /\ inputDomain(p, pos) = [k \in 1 .. last - first + 1 |-> first + k - 1]
                    /\ \A x \in Int : x \in first .. last <=>
                          \A i \in bracketsOf(p, pos) :
                              x \in p.brackets[i].from.left .. p.brackets[i].from.right
<1>1. CASE bracketsOf(p, pos) = {}
  BY <1>1 DEF inputDomain
<1>2. CASE bracketsOf(p, pos) # {}
  <2>1. PICK n \in Nat : n = Len(p.brackets) /\ DOMAIN p.brackets = 1 .. n
    BY BracketsAre
  <2> DEFINE S == bracketsOf(p, pos)
             f == [i \in 1 .. n |-> p.brackets[i].from.left]
             g == [i \in 1 .. n |-> p.brackets[i].from.right]
  <2>2. S \in SUBSET (1 .. n) /\ S # {}
    BY <1>2, <2>1 DEF bracketsOf
  <2>3. f \in [1 .. n -> Nat] /\ g \in [1 .. n -> Nat]
    BY <2>1, BracketsAre
  <2>4. {f[i] : i \in S} = {p.brackets[i].from.left : i \in S}
        /\ {g[i] : i \in S} = {p.brackets[i].from.right : i \in S}
    BY <2>2
  <2>5. PICK first : first = Max({f[i] : i \in S})
    OBVIOUS
  <2>6. PICK last : last = Min({g[i] : i \in S})
    OBVIOUS
  <2>7. inputDomain(p, pos) = [k \in 1 .. last - first + 1 |-> first + k - 1]
    BY <1>2, <2>4, <2>5, <2>6 DEF inputDomain
  <2>8. /\ first \in {f[i] : i \in S} /\ first \in Nat
        /\ \A i \in S : f[i] <= first
    <3> HIDE DEF f, S
    <3> QED BY <2>2, <2>3, <2>5, ExtremesAre
  <2>9. /\ last \in {g[i] : i \in S} /\ last \in Nat
        /\ \A i \in S : last <= g[i]
    <3> HIDE DEF g, S
    <3> QED BY <2>2, <2>3, <2>6, ExtremesAre
  <2>10. \A x \in Int : x \in first .. last <=> \A i \in S : x \in f[i] .. g[i]
    <3> SUFFICES ASSUME NEW x \in Int
                 PROVE  x \in first .. last <=> \A i \in S : x \in f[i] .. g[i]
      OBVIOUS
    <3>1. ASSUME x \in first .. last, NEW i \in S PROVE x \in f[i] .. g[i]
      <4>1. f[i] \in Nat /\ g[i] \in Nat /\ f[i] <= first /\ last <= g[i]
        BY <2>2, <2>3, <2>8, <2>9
      <4> HIDE DEF f, g
      <4> QED BY <2>8, <2>9, <3>1, <4>1
    <3>2. ASSUME \A i \in S : x \in f[i] .. g[i] PROVE x \in first .. last
      <4>1. PICK a \in S : first = f[a]
        BY <2>8
      <4>2. PICK b \in S : last = g[b]
        BY <2>9
      <4>3. f[b] \in Nat /\ g[a] \in Nat
        BY <2>2, <2>3
      <4> HIDE DEF f, g
      <4> QED BY <2>8, <2>9, <3>2, <4>1, <4>2, <4>3
    <3> HIDE DEF S, f, g
    <3> QED BY <3>1, <3>2
  <2>11. \A i \in S : f[i] = p.brackets[i].from.left /\ g[i] = p.brackets[i].from.right
    BY <2>2
  <2>12. \A x \in Int : x \in first .. last <=>
                          \A i \in bracketsOf(p, pos) :
                              x \in p.brackets[i].from.left .. p.brackets[i].from.right
    <3> HIDE DEF f, g
    <3> QED BY <2>10, <2>11
  <2>13. first \in Nat /\ last \in Nat
    BY <2>8, <2>9
  <2> HIDE DEF f, g
  <2> QED BY <1>2, <2>7, <2>12, <2>13
<1> QED BY <1>1, <1>2

-----------------------------------------------------------------------------
(* Index tuples *)

Indexes == {q \in Seq(Nat \cup {unspecified}) : q # <<>> => q[Len(q)] # unspecified}

LEMMA IndexesAre ==
    ASSUME NEW q \in Indexes
    PROVE  /\ isPatternIndex(q) /\ Len(q) \in Nat /\ DOMAIN q = 1 .. Len(q)
           /\ \A k \in 1 .. Len(q) : q[k] \in Nat \cup {unspecified}
           /\ \A k \in Nat : at(q, k) \in Nat \cup {unspecified}
<1>1. q \in Seq(Nat \cup {unspecified}) /\ (q # <<>> => q[Len(q)] # unspecified)
  BY DEF Indexes
<1>2. Len(q) \in Nat /\ DOMAIN q = 1 .. Len(q)
      /\ \A k \in 1 .. Len(q) : q[k] \in Nat \cup {unspecified}
  BY <1>1
<1>3. isPatternIndex(q)
  BY <1>1, <1>2 DEF isPatternIndex
<1>4. ASSUME NEW k \in Nat PROVE at(q, k) \in Nat \cup {unspecified}
  <2>1. CASE k < Len(q)
    <3>1. k + 1 \in 1 .. Len(q)
      BY <1>2, <2>1
    <3> QED BY <1>2, <2>1, <3>1 DEF at
  <2>2. CASE ~(k < Len(q))
    BY <2>2 DEF at
  <2> QED BY <2>1, <2>2
<1> QED BY <1>2, <1>3, <1>4

\* What is at each position determines the tuple.
LEMMA AtDetermines ==
    ASSUME NEW a \in Indexes, NEW b \in Indexes, \A k \in Nat : at(a, k) = at(b, k)
    PROVE  a = b
<1>1. ASSUME NEW q \in Indexes, NEW r \in Indexes, \A k \in Nat : at(q, k) = at(r, k)
      PROVE  ~(Len(q) < Len(r))
  <2> SUFFICES ASSUME Len(q) < Len(r) PROVE FALSE
    OBVIOUS
  <2>1. Len(r) \in Nat /\ Len(q) \in Nat /\ Len(r) - 1 \in Nat
    BY IndexesAre
  <2>2. at(q, Len(r) - 1) = unspecified
    BY <2>1 DEF at
  <2>3. at(r, Len(r) - 1) = r[Len(r)]
    BY <2>1 DEF at
  <2>4. r # <<>>
    BY <2>1
  <2> QED BY <1>1, <2>1, <2>2, <2>3, <2>4 DEF Indexes
<1>2. Len(a) = Len(b)
  <2>1. Len(a) \in Nat /\ Len(b) \in Nat /\ ~(Len(a) < Len(b)) /\ ~(Len(b) < Len(a))
    BY <1>1, IndexesAre
  <2> QED BY <2>1
<1>3. ASSUME NEW i \in 1 .. Len(a) PROVE a[i] = b[i]
  <2>1. Len(a) \in Nat /\ i - 1 \in Nat /\ i - 1 < Len(a) /\ (i - 1) + 1 = i
    BY IndexesAre
  <2>2. at(a, i - 1) = a[i] /\ at(b, i - 1) = b[i]
    BY <1>2, <2>1 DEF at
  <2> QED BY <2>1, <2>2
<1>4. a \in Seq(Nat \cup {unspecified}) /\ b \in Seq(Nat \cup {unspecified})
  BY DEF Indexes
<1> QED BY <1>2, <1>3, <1>4, SeqEqual

LEMMA NormalizeIs ==
    ASSUME NEW n \in Nat, NEW is \in [1 .. n -> Nat \cup {unspecified}]
    PROVE  /\ normalize(is) \in Indexes
           /\ \A k \in Nat : at(normalize(is), k) = IF k < n THEN is[k + 1] ELSE unspecified
<1> DEFINE used == {i \in DOMAIN is : is[i] >= 0}
           to == IF used = {} THEN 0 ELSE Max(used)
           q == [i \in 1 .. to |-> IF is[i] >= 0 THEN is[i] ELSE unspecified]
<1>1. normalize(is) = q
  BY DEF normalize
<1>2. /\ to \in 0 .. n /\ (to # 0 => to \in used) /\ \A i \in used : i <= to
  <2>1. used \in SUBSET Nat /\ \A x \in used : x <= n /\ x \in 1 .. n
    OBVIOUS
  <2>2. CASE used = {}
    BY <2>2
  <2>3. CASE used # {}
    <3> HIDE DEF used
    <3>1. Max(used) \in used /\ \A x \in used : x <= Max(used)
      BY <2>1, <2>3, MaxIs
    <3>2. PICK top \in used : top = Max(used) /\ top \in 1 .. n /\ \A x \in used : x <= top
      BY <2>1, <3>1
    <3>3. to = top
      BY <2>3, <3>2
    <3> HIDE DEF to
    <3> QED BY <3>2, <3>3
  <2> QED BY <2>2, <2>3
<1>3. PICK m \in 0 .. n : m = to
  BY <1>2
<1>4. /\ m # 0 => m \in 1 .. n /\ is[m] >= 0
      /\ \A i \in 1 .. n : is[i] >= 0 => i <= m
  <2> HIDE DEF to
  <2> QED BY <1>2, <1>3
<1>5. q = [i \in 1 .. m |-> IF is[i] >= 0 THEN is[i] ELSE unspecified]
  BY <1>3
<1> HIDE DEF q, used, to
<1>6. \A i \in 1 .. n : is[i] \in Nat \cup {unspecified} /\ (~(is[i] >= 0) => is[i] = unspecified)
  BY DEF unspecified
<1>7. /\ q \in Seq(Nat \cup {unspecified}) /\ Len(q) = m
      /\ \A i \in 1 .. m : q[i] = is[i]
  <2>1. \A i \in 1 .. m : i \in 1 .. n
    OBVIOUS
  <2>2. \A i \in 1 .. m : q[i] = is[i]
    BY <1>5, <1>6, <2>1
  <2>3. q \in [1 .. m -> Nat \cup {unspecified}]
    BY <1>5, <1>6, <2>1
  <2> QED BY <2>2, <2>3, <1>5
<1>8. q \in Indexes
  <2>1. q # <<>> => m # 0
    BY <1>7
  <2>2. m # 0 => q[m] = is[m] /\ is[m] # unspecified
    BY <1>4, <1>7 DEF unspecified
  <2> QED BY <1>7, <2>1, <2>2 DEF Indexes
<1>9. ASSUME NEW k \in Nat
      PROVE  at(q, k) = IF k < n THEN is[k + 1] ELSE unspecified
  <2>1. CASE k < m
    <3>1. k + 1 \in 1 .. m /\ k < n
      BY <2>1
    <3> QED BY <1>7, <2>1, <3>1 DEF at
  <2>2. CASE ~(k < m) /\ k < n
    <3>1. k + 1 \in 1 .. n /\ ~(k + 1 <= m)
      BY <2>2
    <3>2. is[k + 1] = unspecified
      BY <1>4, <1>6, <3>1
    <3> QED BY <1>7, <2>2, <3>2 DEF at
  <2>3. CASE ~(k < n)
    BY <1>7, <2>3 DEF at
  <2> QED BY <2>1, <2>2, <2>3
<1> QED BY <1>1, <1>8, <1>9

LEMMA SetIs ==
    ASSUME NEW q \in Indexes, NEW i \in Nat, NEW value \in Nat \cup {unspecified}
    PROVE  /\ set(q, i, value) \in Indexes
           /\ \A k \in Nat : at(set(q, i, value), k) = IF k = i THEN value ELSE at(q, k)
<1>1. Len(q) \in Nat /\ q \in [1 .. Len(q) -> Nat \cup {unspecified}]
  BY IndexesAre DEF Indexes
<1>2. CASE i < Len(q)
  <2> DEFINE is == [q EXCEPT ![i + 1] = value]
  <2>1. is \in [1 .. Len(q) -> Nat \cup {unspecified}]
    BY <1>1
  <2>2. i + 1 \in 1 .. Len(q)
    BY <1>1, <1>2
  <2>3. set(q, i, value) = normalize(is)
    BY <1>2 DEF set
  <2>4. ASSUME NEW k \in Nat, k < Len(q)
        PROVE  is[k + 1] = IF k = i THEN value ELSE at(q, k)
    <3>1. k + 1 \in 1 .. Len(q) /\ (k + 1 = i + 1 <=> k = i)
      BY <1>1, <2>4
    <3> QED BY <1>1, <2>4, <3>1 DEF at
  <2> HIDE DEF is
  <2>5. /\ normalize(is) \in Indexes
        /\ \A k \in Nat : at(normalize(is), k) = IF k < Len(q) THEN is[k + 1] ELSE unspecified
    BY <1>1, <2>1, NormalizeIs
  <2>6. \A k \in Nat : ~(k < Len(q)) => k # i /\ at(q, k) = unspecified
    BY <1>1, <1>2 DEF at
  <2> QED BY <2>3, <2>4, <2>5, <2>6
<1>3. CASE ~(i < Len(q)) /\ value < 0
  <2>1. set(q, i, value) = q /\ value = unspecified
    BY <1>3 DEF set, unspecified
  <2>2. at(q, i) = unspecified
    BY <1>3 DEF at
  <2> QED BY <2>1, <2>2
<1>4. CASE ~(i < Len(q)) /\ ~(value < 0)
  <2> DEFINE r == [k \in 1 .. i + 1 |-> IF k = i + 1 THEN value ELSE at(q, k - 1)]
  <2>1. set(q, i, value) = r
    BY <1>4 DEF set
  <2>2. \A k \in 1 .. i + 1 : k - 1 \in Nat
    OBVIOUS
  <2>3. \A k \in 1 .. i + 1 : r[k] \in Nat \cup {unspecified}
    BY <2>2, IndexesAre
  <2>4. r \in Seq(Nat \cup {unspecified}) /\ Len(r) = i + 1 /\ r[i + 1] = value
    BY <2>3
  <2>5. r \in Indexes
    <3> HIDE DEF r
    <3> QED BY <1>4, <2>4 DEF Indexes, unspecified
  <2>6. ASSUME NEW k \in Nat PROVE at(r, k) = IF k = i THEN value ELSE at(q, k)
    <3>1. CASE k <= i
      <4>1. k + 1 \in 1 .. i + 1 /\ k < i + 1 /\ (k + 1 = i + 1 <=> k = i) /\ k + 1 - 1 = k
        BY <3>1
      <4>2. r[k + 1] = IF k = i THEN value ELSE at(q, k)
        BY <4>1
      <4> HIDE DEF r
      <4> QED BY <2>4, <4>1, <4>2 DEF at
    <3>2. CASE ~(k <= i)
      <4>1. ~(k < i + 1) /\ ~(k < Len(q)) /\ k # i
        BY <1>1, <1>4, <3>2
      <4> HIDE DEF r
      <4> QED BY <2>4, <4>1 DEF at
    <3> QED BY <3>1, <3>2
  <2> HIDE DEF r
  <2> QED BY <2>1, <2>5, <2>6
<1> QED BY <1>2, <1>3, <1>4

-----------------------------------------------------------------------------
(* The product of the input domains: a mixed radix *)

\* How many indexes a position has.
indexes(p, pos) == Len(inputDomain(p, pos))

LEMMA IndexesOf ==
    ASSUME NEW p \in Patterns, NEW pos \in Nat
    PROVE  /\ indexes(p, pos) \in Nat
           /\ inputDomain(p, pos) \in [1 .. indexes(p, pos) -> Nat \cup {unspecified}]
           /\ \A i, j \in 1 .. indexes(p, pos) :
                 i < j => inputDomain(p, pos)[i] < inputDomain(p, pos)[j]
           /\ \A x \in Nat \cup {unspecified} :
                 (\E j \in 1 .. indexes(p, pos) : inputDomain(p, pos)[j] = x)
                 <=> IF bracketsOf(p, pos) = {} THEN x = unspecified
                     ELSE \A i \in bracketsOf(p, pos) :
                             x \in p.brackets[i].from.left .. p.brackets[i].from.right
<1>1. CASE bracketsOf(p, pos) = {}
  <2>1. indexes(p, pos) = 1
    BY <1>1 DEF indexes, inputDomain
  <2>2. inputDomain(p, pos) = [k \in 1 .. 1 |-> unspecified]
    BY <1>1 DEF inputDomain
  <2> QED BY <1>1, <2>1, <2>2
<1>2. CASE bracketsOf(p, pos) # {}
  <2>1. PICK first \in Nat, last \in Nat :
          /\ inputDomain(p, pos) = [k \in 1 .. last - first + 1 |-> first + k - 1]
          /\ \A x \in Int : x \in first .. last <=>
                \A i \in bracketsOf(p, pos) :
                    x \in p.brackets[i].from.left .. p.brackets[i].from.right
    BY <1>2, DomainIs
  <2>2. PICK n \in Nat : n = IF first <= last THEN last - first + 1 ELSE 0
    <3>1. first <= last => last - first + 1 \in Nat
      OBVIOUS
    <3>2. (IF first <= last THEN last - first + 1 ELSE 0) \in Nat
      BY <3>1
    <3> QED BY <3>2
  <2>3. 1 .. last - first + 1 = 1 .. n
    BY <2>2
  <2>4. inputDomain(p, pos) = [k \in 1 .. n |-> first + k - 1]
    BY <2>1, <2>3
  <2>5. indexes(p, pos) = n
    BY <2>4 DEF indexes
  <2>6. \A k \in 1 .. n : first + k - 1 \in Nat
    OBVIOUS
  <2>7. inputDomain(p, pos) \in [1 .. n -> Nat \cup {unspecified}]
    BY <2>4, <2>6
  <2>8. \A i, j \in 1 .. n : i < j => inputDomain(p, pos)[i] < inputDomain(p, pos)[j]
    BY <2>4
  <2>9. ASSUME NEW x \in Nat \cup {unspecified}
        PROVE  (\E j \in 1 .. n : inputDomain(p, pos)[j] = x) <=> x \in first .. last
    <3>1. ASSUME NEW j \in 1 .. n PROVE inputDomain(p, pos)[j] \in first .. last
      BY <2>2, <2>4
    <3>2. ASSUME x \in first .. last
          PROVE  x - first + 1 \in 1 .. n /\ inputDomain(p, pos)[x - first + 1] = x
      <4>1. x \in Int /\ x - first + 1 \in 1 .. n /\ first + (x - first + 1) - 1 = x
        BY <2>2, <3>2
      <4> QED BY <2>4, <4>1
    <3> QED BY <3>1, <3>2
  <2>10. \A x \in Nat \cup {unspecified} : x \in Int
    BY DEF unspecified
  <2> QED BY <1>2, <2>1, <2>5, <2>7, <2>8, <2>9, <2>10
<1> QED BY <1>1, <1>2

LEMMA ProductUnfolds ==
    ASSUME NEW p \in Patterns
    PROVE  \E f : /\ f[0] = 1
                  /\ \A i \in 1 .. dim(p) : f[i] = f[i - 1] * indexes(p, dim(p) - i)
                  /\ \A i \in 0 .. dim(p) : f[i] \in Nat
                  /\ \A first \in 0 .. dim(p) : product(p, first) = f[dim(p) - first]
<1>0. PICK n \in Nat : n = dim(p)
  BY DimIs
<1> DEFINE Is(f) == f = [i \in 0 .. n |-> IF i = 0 THEN 1 ELSE f[i - 1] * indexes(p, n - i)]
           g == [i \in 1 .. n |-> [x \in Nat |-> x * indexes(p, n - i)]]
           sizes == CHOOSE f : Is(f)
<1>1. \A i \in 1 .. n : indexes(p, n - i) \in Nat
  <2>1. \A i \in 1 .. n : n - i \in Nat
    OBVIOUS
  <2> QED BY <2>1, IndexesOf
<1>2. g \in [1 .. n -> [Nat -> Nat]]
  <2>1. \A i \in 1 .. n : \A x \in Nat : x * indexes(p, n - i) \in Nat
    BY <1>1
  <2> QED BY <2>1
<1>3. PICK f \in [0 .. n -> Nat] : f[0] = 1 /\ \A i \in 1 .. n : f[i] = g[i][f[i - 1]]
  <2> HIDE DEF g
  <2>1. \E f : Solves(f, Nat, 1, n, g)
    BY <1>2, Recursion
  <2> QED BY <2>1 DEF Solves
<1>4. ASSUME NEW i \in 1 .. n PROVE f[i] = f[i - 1] * indexes(p, n - i)
  <2>1. i - 1 \in 0 .. n
    OBVIOUS
  <2>2. f[i - 1] \in Nat
    BY <1>3, <2>1
  <2> QED BY <1>3, <2>2
<1>5. Is(f)
  <2>1. f = [i \in 0 .. n |-> f[i]]
    BY <1>3
  <2>2. ASSUME NEW i \in 0 .. n
        PROVE  f[i] = IF i = 0 THEN 1 ELSE f[i - 1] * indexes(p, n - i)
    <3>1. i = 0 \/ i \in 1 .. n
      OBVIOUS
    <3> QED BY <1>3, <1>4, <3>1
  <2> QED BY <2>1, <2>2, Zenon
<1>6. Is(sizes)
  <2> HIDE DEF Is
  <2> QED BY <1>5
<1>7. ASSUME NEW first \in 0 .. n PROVE product(p, first) = sizes[n - first]
  BY <1>0 DEF product, indexes
<1> HIDE DEF sizes
<1>8. \A i \in 0 .. n : sizes[i] = IF i = 0 THEN 1 ELSE sizes[i - 1] * indexes(p, n - i)
  BY <1>6
<1> DEFINE G == {i \in 0 .. n : sizes[i] \in Nat}
<1>9. \A i \in 0 .. n : i \in G
  <2>1. 0 \in G
    BY <1>8
  <2>2. ASSUME NEW i \in 1 .. n, i - 1 \in G PROVE i \in G
    <3>1. i \in 0 .. n /\ i # 0
      OBVIOUS
    <3> QED BY <1>1, <1>8, <2>2, <3>1
  <2> HIDE DEF G
  <2> QED BY <2>1, <2>2, UpTo
<1>10. sizes[0] = 1 /\ \A i \in 1 .. n : sizes[i] = sizes[i - 1] * indexes(p, n - i)
  BY <1>8
<1> QED BY <1>0, <1>7, <1>9, <1>10

LEMMA ProductIs ==
    ASSUME NEW p \in Patterns
    PROVE  /\ product(p, dim(p)) = 1
           /\ \A pos \in 0 .. dim(p) : product(p, pos) \in Nat
           /\ \A pos \in 0 .. dim(p) - 1 :
                 product(p, pos) = product(p, pos + 1) * indexes(p, pos)
<1>0. PICK n \in Nat : n = dim(p)
  BY DimIs
<1>1. PICK f : /\ f[0] = 1
               /\ \A i \in 1 .. n : f[i] = f[i - 1] * indexes(p, n - i)
               /\ \A i \in 0 .. n : f[i] \in Nat
               /\ \A first \in 0 .. n : product(p, first) = f[n - first]
  BY <1>0, ProductUnfolds
<1>2. product(p, n) = 1
  BY <1>1
<1>3. ASSUME NEW pos \in 0 .. n PROVE product(p, pos) \in Nat
  BY <1>1
<1>4. ASSUME NEW pos \in 0 .. n - 1 PROVE product(p, pos) = product(p, pos + 1) * indexes(p, pos)
  <2>1. n - pos \in 1 .. n /\ n - (n - pos) = pos /\ n - pos - 1 = n - (pos + 1)
        /\ pos + 1 \in 0 .. n /\ pos \in 0 .. n
    OBVIOUS
  <2> QED BY <1>1, <2>1
<1> QED BY <1>0, <1>2, <1>3, <1>4

\* When the product is not empty none of the positions is.
LEMMA FactorsAre ==
    ASSUME NEW p \in Patterns, domainSize(p) > 0
    PROVE  /\ \A pos \in 0 .. dim(p) : product(p, pos) \in Nat \ {0}
           /\ \A pos \in 0 .. dim(p) - 1 : indexes(p, pos) \in Nat \ {0}
<1>0. PICK n \in Nat : n = dim(p)
  BY DimIs
<1>1. \A pos \in 0 .. n - 1 : /\ indexes(p, pos) \in Nat /\ product(p, pos) \in Nat
                              /\ product(p, pos + 1) \in Nat
                              /\ product(p, pos) = product(p, pos + 1) * indexes(p, pos)
  <2>1. \A pos \in 0 .. n - 1 : pos \in Nat /\ pos \in 0 .. n /\ pos + 1 \in 0 .. n
    OBVIOUS
  <2> QED BY <1>0, <2>1, ProductIs, IndexesOf
<1>2. ASSUME NEW pos \in 0 .. n - 1, product(p, pos) > 0
      PROVE  product(p, pos + 1) > 0 /\ indexes(p, pos) > 0
  <2>1. \A x, y \in Nat : x * y > 0 => x > 0 /\ y > 0
    OBVIOUS
  <2> QED BY <1>1, <1>2, <2>1
<1> DEFINE G == {pos \in 0 .. n : product(p, pos) > 0}
<1>3. \A pos \in 0 .. n : pos \in G
  <2>1. 0 \in G
    BY DEF domainSize
  <2>2. ASSUME NEW pos \in 1 .. n, pos - 1 \in G PROVE pos \in G
    <3>1. pos - 1 \in 0 .. n - 1 /\ (pos - 1) + 1 = pos /\ pos \in 0 .. n
      OBVIOUS
    <3>2. product(p, pos - 1) > 0
      BY <2>2
    <3>3. product(p, pos) > 0
      BY <1>2, <3>1, <3>2
    <3> QED BY <3>1, <3>3
  <2> HIDE DEF G
  <2> QED BY <2>1, <2>2, UpTo
<1>4. \A pos \in 0 .. n : product(p, pos) \in Nat /\ product(p, pos) > 0
  BY <1>0, <1>3, ProductIs
<1>5. \A pos \in 0 .. n - 1 : indexes(p, pos) \in Nat /\ indexes(p, pos) > 0
  <2>1. \A pos \in 0 .. n - 1 : pos \in 0 .. n
    OBVIOUS
  <2> QED BY <1>1, <1>2, <1>4, <2>1
<1> QED BY <1>0, <1>4, <1>5

-----------------------------------------------------------------------------
(* Division *)

LEMMA NextMultiple ==
    ASSUME NEW b \in Nat \ {0}, NEW q \in Int, NEW s \in Int, q < s
    PROVE  b * q + b <= b * s
OBVIOUS

LEMMA Division ==
    ASSUME NEW m \in Nat, NEW b \in Nat \ {0}
    PROVE  m \div b \in Nat /\ m % b \in 0 .. b - 1 /\ m = b * (m \div b) + (m % b)
<1>1. m % b \in 0 .. b - 1 /\ m = b * (m \div b) + (m % b) /\ m \div b \in Int
  OBVIOUS
<1>2. PICK q \in Int : q = m \div b
  BY <1>1
<1>3. ASSUME q < 0 PROVE FALSE
  <2>1. b * q + b <= b * 0
    BY <1>3, NextMultiple
  <2> QED BY <2>1, <1>1, <1>2
<1> QED BY <1>1, <1>2, <1>3

LEMMA DivisionIs ==
    ASSUME NEW m \in Nat, NEW b \in Nat \ {0}, NEW q \in Int, NEW r \in 0 .. b - 1,
           m = b * q + r
    PROVE  m \div b = q /\ m % b = r
<1>1. PICK s \in Int, t \in 0 .. b - 1 : s = m \div b /\ t = m % b /\ m = b * s + t
  BY Division
<1>2. PICK bq \in Int : bq = b * q
  OBVIOUS
<1>3. PICK bs \in Int : bs = b * s
  OBVIOUS
<1>4. ASSUME q < s PROVE FALSE
  <2>1. bq + b <= bs
    BY <1>2, <1>3, <1>4, NextMultiple
  <2> QED BY <1>1, <1>2, <1>3, <2>1
<1>5. ASSUME s < q PROVE FALSE
  <2>1. bs + b <= bq
    BY <1>2, <1>3, <1>5, NextMultiple
  <2> QED BY <1>1, <1>2, <1>3, <2>1
<1> QED BY <1>1, <1>4, <1>5

LEMMA DivisionTwice ==
    ASSUME NEW m \in Nat, NEW b \in Nat \ {0}, NEW c \in Nat \ {0}
    PROVE  m \div (b * c) = (m \div b) \div c
<1>1. PICK q \in Nat, r \in 0 .. b - 1 : q = m \div b /\ m = b * q + r
  BY Division
<1>2. PICK s \in Nat, t \in 0 .. c - 1 : s = q \div c /\ q = c * s + t
  BY Division
<1>3. PICK n \in Nat \ {0} : n = b * c
  OBVIOUS
<1>4. b * q = n * s + b * t
  <2>1. b * q = b * (c * s) + b * t
    BY <1>2
  <2>2. b * (c * s) = (b * c) * s
    OBVIOUS
  <2> QED BY <1>3, <2>1, <2>2
<1>5. m = n * s + (b * t + r)
  BY <1>1, <1>4
<1>6. b * t + r \in 0 .. n - 1
  <2>1. b * t + b <= b * c
    BY NextMultiple
  <2> QED BY <1>3, <2>1
<1>7. m \div n = s
  BY <1>5, <1>6, DivisionIs
<1> QED BY <1>1, <1>2, <1>3, <1>7

LEMMA DivisionGrows ==
    ASSUME NEW k \in Nat, NEW m \in Nat, NEW b \in Nat \ {0}, k <= m
    PROVE  k \div b <= m \div b
<1>1. PICK q \in Nat, r \in 0 .. b - 1 : q = k \div b /\ k = b * q + r
  BY Division
<1>2. PICK s \in Nat, t \in 0 .. b - 1 : s = m \div b /\ m = b * s + t
  BY Division
<1>3. ASSUME s < q PROVE FALSE
  <2>1. PICK bs \in Int : bs = b * s
    OBVIOUS
  <2>2. PICK bq \in Int : bq = b * q
    OBVIOUS
  <2>3. bs + b <= bq
    BY <1>3, <2>1, <2>2, NextMultiple
  <2> QED BY <1>1, <1>2, <2>1, <2>2, <2>3
<1> QED BY <1>1, <1>2, <1>3

-----------------------------------------------------------------------------
(* The n-th tuple *)

\* The digit of a position, and the index it stands for.
digit(p, m, pos) == (m \div product(p, pos + 1)) % indexes(p, pos)

indexAt(p, m, pos) == inputDomain(p, pos)[1 + digit(p, m, pos)]

LEMMA DigitIs ==
    ASSUME NEW p \in Patterns, domainSize(p) > 0, NEW m \in Nat, NEW pos \in 0 .. dim(p) - 1
    PROVE  /\ digit(p, m, pos) \in 0 .. indexes(p, pos) - 1
           /\ indexAt(p, m, pos) \in Nat \cup {unspecified}
           /\ m \div product(p, pos + 1) \in Nat
           /\ m \div product(p, pos) = (m \div product(p, pos + 1)) \div indexes(p, pos)
<1>1. dim(p) \in Nat /\ pos \in Nat /\ pos + 1 \in 0 .. dim(p) /\ pos \in 0 .. dim(p)
  BY DimIs
<1>2. PICK b \in Nat \ {0} : b = product(p, pos + 1)
  BY <1>1, FactorsAre
<1>3. PICK c \in Nat \ {0} : c = indexes(p, pos)
  BY <1>1, FactorsAre
<1>4. m \div b \in Nat
  BY Division
<1>5. (m \div b) % c \in 0 .. c - 1
  BY <1>4, Division
<1>6. digit(p, m, pos) \in 0 .. c - 1
  BY <1>2, <1>3, <1>5 DEF digit
<1>7. 1 + digit(p, m, pos) \in 1 .. c
  BY <1>6
<1>8. indexAt(p, m, pos) \in Nat \cup {unspecified}
  BY <1>1, <1>3, <1>7, IndexesOf DEF indexAt
<1>9. m \div product(p, pos) = (m \div b) \div c
  <2>1. product(p, pos) = b * c
    BY <1>2, <1>3, ProductIs
  <2> QED BY <2>1, DivisionTwice
<1> QED BY <1>2, <1>3, <1>4, <1>6, <1>8, <1>9

LEMMA NthIs ==
    ASSUME NEW p \in Patterns, domainSize(p) > 0, NEW m \in Nat
    PROVE  /\ nth(p, m) \in Indexes
           /\ \A k \in Nat : at(nth(p, m), k) = IF k < dim(p) THEN indexAt(p, m, k)
                                                              ELSE unspecified
<1>1. PICK n \in Nat : n = dim(p)
  BY DimIs
<1> DEFINE is == [k \in 1 .. n |-> LET dom == inputDomain(p, k - 1)
                                   IN dom[1 + ((m \div product(p, k)) % Len(dom))]]
<1>2. nth(p, m) = normalize(is)
  BY <1>1 DEF nth
<1>3. \A k \in 1 .. n : is[k] = indexAt(p, m, k - 1) /\ k - 1 \in 0 .. n - 1
  <2>1. \A k \in 1 .. n : (k - 1) + 1 = k /\ k - 1 \in 0 .. n - 1
    OBVIOUS
  <2> QED BY <2>1 DEF indexAt, digit, indexes
<1>4. is \in [1 .. n -> Nat \cup {unspecified}]
  BY <1>1, <1>3, DigitIs
<1> HIDE DEF is
<1>5. /\ normalize(is) \in Indexes
      /\ \A k \in Nat : at(normalize(is), k) = IF k < n THEN is[k + 1] ELSE unspecified
  BY <1>4, NormalizeIs
<1>6. \A k \in Nat : k < n => k + 1 \in 1 .. n /\ (k + 1) - 1 = k
  OBVIOUS
<1> QED BY <1>1, <1>2, <1>3, <1>5, <1>6

\* A tuple of the domain: each position has an index that all its brackets accept.
accepted(p, f) ==
    \A k \in 1 .. dim(p) : IF bracketsOf(p, k - 1) = {} THEN f[k] = unspecified
                           ELSE \A i \in bracketsOf(p, k - 1) :
                                   f[k] \in DOMAIN BracketMap(p.brackets[i])

choices(p) == {unspecified} \cup UNION {DOMAIN BracketMap(p.brackets[i]) : i \in DOMAIN p.brackets}

LEMMA AcceptedIs ==
    ASSUME NEW p \in Patterns, NEW f \in [1 .. dim(p) -> Nat \cup {unspecified}]
    PROVE  /\ f \in [1 .. dim(p) -> choices(p)] /\ accepted(p, f)
              <=> \A k \in 1 .. dim(p) : \E j \in 1 .. indexes(p, k - 1) :
                     inputDomain(p, k - 1)[j] = f[k]
           /\ accepted(p, f) => f \in [1 .. dim(p) -> choices(p)]
<1>1. \A i \in DOMAIN p.brackets :
         DOMAIN BracketMap(p.brackets[i]) = p.brackets[i].from.left .. p.brackets[i].from.right
  BY DEF BracketMap
<1>2. \A k \in 1 .. dim(p) : k - 1 \in Nat /\ bracketsOf(p, k - 1) \subseteq DOMAIN p.brackets
  BY DimIs DEF bracketsOf
<1>3. accepted(p, f) <=> \A k \in 1 .. dim(p) : \E j \in 1 .. indexes(p, k - 1) :
                            inputDomain(p, k - 1)[j] = f[k]
  <2> SUFFICES ASSUME NEW k \in 1 .. dim(p)
               PROVE  (IF bracketsOf(p, k - 1) = {} THEN f[k] = unspecified
                       ELSE \A i \in bracketsOf(p, k - 1) : f[k] \in DOMAIN BracketMap(p.brackets[i]))
                      <=> \E j \in 1 .. indexes(p, k - 1) : inputDomain(p, k - 1)[j] = f[k]
    BY DEF accepted
  <2>1. f[k] \in Nat \cup {unspecified} /\ k - 1 \in Nat
    BY <1>2
  <2>2. (\E j \in 1 .. indexes(p, k - 1) : inputDomain(p, k - 1)[j] = f[k])
        <=> IF bracketsOf(p, k - 1) = {} THEN f[k] = unspecified
            ELSE \A i \in bracketsOf(p, k - 1) :
                    f[k] \in p.brackets[i].from.left .. p.brackets[i].from.right
    BY <2>1, IndexesOf
  <2> QED BY <1>1, <1>2, <2>2
<1>4. ASSUME accepted(p, f), NEW k \in 1 .. dim(p) PROVE f[k] \in choices(p)
  <2>1. CASE bracketsOf(p, k - 1) = {}
    BY <1>4, <2>1 DEF accepted, choices
  <2>2. CASE bracketsOf(p, k - 1) # {}
    <3>1. PICK i \in bracketsOf(p, k - 1) : f[k] \in DOMAIN BracketMap(p.brackets[i])
      BY <1>4, <2>2 DEF accepted
    <3>2. i \in DOMAIN p.brackets
      BY <1>2
    <3> QED BY <3>1, <3>2 DEF choices
  <2> QED BY <2>1, <2>2
<1>5. accepted(p, f) => f \in [1 .. dim(p) -> choices(p)]
  BY <1>4
<1> QED BY <1>3, <1>5

LEMMA ChoicesAre ==
    ASSUME NEW p \in Patterns
    PROVE  /\ choices(p) \subseteq Nat \cup {unspecified}
           /\ domainOf(p) =
                 {normalize(f) : f \in {g \in [1 .. dim(p) -> choices(p)] : accepted(p, g)}}
<1>1. \A i \in DOMAIN p.brackets : DOMAIN BracketMap(p.brackets[i]) \subseteq Nat
  <2> SUFFICES ASSUME NEW i \in DOMAIN p.brackets
               PROVE  DOMAIN BracketMap(p.brackets[i]) \subseteq Nat
    OBVIOUS
  <2>1. p.brackets[i].from.left \in Nat /\ p.brackets[i].from.right \in Nat
    BY BracketsAre
  <2>2. DOMAIN BracketMap(p.brackets[i]) = p.brackets[i].from.left .. p.brackets[i].from.right
    BY DEF BracketMap
  <2> QED BY <2>1, <2>2
<1>2. choices(p) \subseteq Nat \cup {unspecified}
  BY <1>1 DEF choices
<1>3. domainOf(p) = {normalize(f) : f \in {g \in [1 .. dim(p) -> choices(p)] : accepted(p, g)}}
  BY DEF domainOf, choices, accepted
<1> QED BY <1>2, <1>3

LEMMA NthAccepted ==
    ASSUME NEW p \in Patterns, domainSize(p) > 0, NEW m \in Nat
    PROVE  nth(p, m) \in domainOf(p)
<1>1. PICK n \in Nat : n = dim(p)
  BY DimIs
<1> DEFINE is == [k \in 1 .. n |-> indexAt(p, m, k - 1)]
<1>2. nth(p, m) = normalize(is)
  <2>1. \A k \in 1 .. n : LET dom == inputDomain(p, k - 1)
                          IN dom[1 + ((m \div product(p, k)) % Len(dom))] = indexAt(p, m, k - 1)
    <3>1. \A k \in 1 .. n : (k - 1) + 1 = k
      OBVIOUS
    <3> QED BY <3>1 DEF indexAt, digit, indexes
  <2> QED BY <1>1, <2>1 DEF nth
<1>3. \A k \in 1 .. n : k - 1 \in 0 .. dim(p) - 1 /\ k - 1 \in Nat
  BY <1>1
<1>4. is \in [1 .. n -> Nat \cup {unspecified}]
  BY <1>3, DigitIs
<1>5. ASSUME NEW k \in 1 .. n
      PROVE  \E j \in 1 .. indexes(p, k - 1) : inputDomain(p, k - 1)[j] = is[k]
  <2>1. digit(p, m, k - 1) \in 0 .. indexes(p, k - 1) - 1 /\ indexes(p, k - 1) \in Nat
    BY <1>3, DigitIs, IndexesOf
  <2>2. 1 + digit(p, m, k - 1) \in 1 .. indexes(p, k - 1)
    BY <2>1
  <2> QED BY <2>2 DEF indexAt
<1> HIDE DEF is
<1>6. is \in [1 .. dim(p) -> choices(p)] /\ accepted(p, is)
  BY <1>1, <1>4, <1>5, AcceptedIs
<1> QED BY <1>2, <1>6, ChoicesAre

\* Each tuple of the domain comes: the digits found so far are those of every
\* master index that has them in front.
LEMMA NthReaches ==
    ASSUME NEW p \in Patterns, domainSize(p) > 0, NEW t \in domainOf(p)
    PROVE  \E k \in 0 .. domainSize(p) - 1 : nth(p, k) = t
<1>1. PICK n \in Nat : n = dim(p)
  BY DimIs
<1>2. PICK f : f \in [1 .. n -> choices(p)] /\ accepted(p, f) /\ t = normalize(f)
  BY <1>1, ChoicesAre
<1>3. f \in [1 .. n -> Nat \cup {unspecified}]
  BY <1>2, ChoicesAre
<1>4. \A k \in 1 .. n : \E j \in 1 .. indexes(p, k - 1) : inputDomain(p, k - 1)[j] = f[k]
  BY <1>1, <1>2, <1>3, AcceptedIs
<1> DEFINE Leads(q, i) ==
             /\ (q + 1) * product(p, i) <= domainSize(p)
             /\ \A k \in Nat : k \div product(p, i) = q =>
                   \A j \in 1 .. i : indexAt(p, k, j - 1) = f[j]
           G == {i \in 0 .. n : \E q \in Nat : Leads(q, i)}
<1>5. \A i \in 0 .. n : product(p, i) \in Nat \ {0}
  BY <1>1, FactorsAre
<1>6. 0 \in G
  <2>1. (0 + 1) * product(p, 0) <= domainSize(p)
    BY <1>5 DEF domainSize
  <2>2. Leads(0, 0)
    BY <2>1
  <2> HIDE DEF Leads
  <2> QED BY <2>2
<1>7. ASSUME NEW i \in 1 .. n, i - 1 \in G PROVE i \in G
  <2>1. PICK q \in Nat : Leads(q, i - 1)
    BY <1>7
  <2>2. PICK b \in Nat \ {0} : b = product(p, i)
    BY <1>5
  <2>3. PICK c \in Nat \ {0} : c = indexes(p, i - 1)
    BY <1>1, FactorsAre
  <2>4. product(p, i - 1) = b * c /\ i - 1 \in 0 .. n - 1 /\ (i - 1) + 1 = i
    BY <1>1, <2>2, <2>3, ProductIs
  <2>5. PICK j \in 1 .. c : inputDomain(p, i - 1)[j] = f[i]
    BY <1>4, <2>3
  <2>6. PICK r \in Nat : r = c * q + (j - 1)
    OBVIOUS
  <2>7. (r + 1) * b <= domainSize(p)
    <3>1. PICK total \in Nat : total = domainSize(p)
      BY <1>1, ProductIs DEF domainSize
    <3>2. (q + 1) * (b * c) <= total
      BY <2>1, <2>4, <3>1
    <3>3. r + 1 <= c * (q + 1)
      BY <2>6
    <3>4. PICK top \in Nat : top = c * (q + 1)
      OBVIOUS
    <3>5. (r + 1) * b <= top * b
      BY <3>3, <3>4
    <3>6. top * b = (q + 1) * (b * c)
      BY <3>4
    <3> QED BY <3>1, <3>2, <3>5, <3>6
  <2>8. ASSUME NEW k \in Nat, k \div b = r
        PROVE  \A l \in 1 .. i : indexAt(p, k, l - 1) = f[l]
    <3>1. r \div c = q /\ r % c = j - 1
      BY <2>6, DivisionIs
    <3>2. k \div product(p, i - 1) = q
      BY <2>2, <2>3, <2>4, <2>8, <3>1, DivisionTwice
    <3>3. \A l \in 1 .. i - 1 : indexAt(p, k, l - 1) = f[l]
      BY <2>1, <3>2
    <3>4. digit(p, k, i - 1) = j - 1
      BY <2>2, <2>3, <2>4, <2>8, <3>1 DEF digit
    <3>5. indexAt(p, k, i - 1) = f[i]
      BY <2>5, <3>4 DEF indexAt
    <3> QED BY <3>3, <3>5
  <2>9. Leads(r, i)
    BY <2>2, <2>7, <2>8
  <2> HIDE DEF Leads
  <2> QED BY <2>9
<1>8. PICK q \in Nat : Leads(q, n)
  <2> HIDE DEF Leads
  <2>1. \A i \in 0 .. n : i \in G
    <3> HIDE DEF G
    <3> QED BY <1>6, <1>7, UpTo
  <2>2. n \in G
    BY <2>1
  <2> QED BY <2>2
<1>9. product(p, n) = 1
  BY <1>1, ProductIs
<1>10. q \in 0 .. domainSize(p) - 1
  <2>1. PICK total \in Nat : total = domainSize(p)
    BY <1>1, ProductIs DEF domainSize
  <2> QED BY <1>8, <1>9, <2>1
<1>11. q \div 1 = q
  BY DivisionIs
<1>12. \A j \in 1 .. n : indexAt(p, q, j - 1) = f[j]
  BY <1>8, <1>9, <1>11
<1>13. nth(p, q) = t
  <2>1. /\ t \in Indexes
        /\ \A k \in Nat : at(t, k) = IF k < n THEN f[k + 1] ELSE unspecified
    BY <1>2, <1>3, NormalizeIs
  <2>2. /\ nth(p, q) \in Indexes
        /\ \A k \in Nat : at(nth(p, q), k) = IF k < n THEN indexAt(p, q, k) ELSE unspecified
    BY <1>1, NthIs
  <2>3. \A k \in Nat : k < n => k + 1 \in 1 .. n /\ (k + 1) - 1 = k
    OBVIOUS
  <2>4. \A k \in Nat : k < n => indexAt(p, q, k) = f[k + 1]
    BY <1>12, <2>3
  <2> QED BY <2>1, <2>2, <2>4, AtDetermines
<1> QED BY <1>10, <1>13

LEMMA LessOnce ==
    ASSUME NEW a \in Indexes, NEW b \in Indexes
    PROVE  ~(less(a, b) /\ less(b, a))
<1> SUFFICES ASSUME less(a, b), less(b, a) PROVE FALSE
  OBVIOUS
<1>1. \A k \in Nat : at(a, k) \in Int /\ at(b, k) \in Int
  BY IndexesAre DEF unspecified
<1>2. Len(a) \in Nat /\ Len(b) \in Nat
  BY IndexesAre
<1>3. PICK i \in Nat : at(a, i) < at(b, i) /\ \A j \in 0 .. i - 1 : at(a, j) = at(b, j)
  BY <1>2 DEF less
<1>4. PICK k \in Nat : at(b, k) < at(a, k) /\ \A j \in 0 .. k - 1 : at(b, j) = at(a, j)
  BY <1>2 DEF less
<1>5. i < k => i \in 0 .. k - 1
  OBVIOUS
<1>6. k < i => k \in 0 .. i - 1
  OBVIOUS
<1>7. i < k \/ k < i \/ i = k
  OBVIOUS
<1> QED BY <1>1, <1>3, <1>4, <1>5, <1>6, <1>7

\* The tuples come in their order: up to the first position at which the master
\* indexes have different digits they have the same ones.
LEMMA NthInOrder ==
    ASSUME NEW p \in Patterns, NEW m \in 0 .. domainSize(p) - 1, NEW k \in 0 .. m - 1
    PROVE  less(nth(p, k), nth(p, m))
<1>1. PICK n \in Nat : n = dim(p)
  BY DimIs
<1>2. domainSize(p) \in Nat /\ domainSize(p) > 0 /\ m \in Nat /\ k \in Nat
      /\ k < m /\ m < domainSize(p)
  <2>1. domainSize(p) \in Nat
    BY <1>1, ProductIs DEF domainSize
  <2> QED BY <2>1
<1>3. \A i \in 0 .. n : product(p, i) \in Nat \ {0}
  BY <1>1, <1>2, FactorsAre
<1> DEFINE T == {i \in 0 .. n : k \div product(p, i) # m \div product(p, i)}
<1>4. n \in T
  <2>1. product(p, n) = 1
    BY <1>1, ProductIs
  <2>2. k \div 1 = k /\ m \div 1 = m
    BY <1>2, DivisionIs
  <2> QED BY <1>2, <2>1, <2>2
<1>5. 0 \notin T
  <2>1. PICK total \in Nat \ {0} : total = domainSize(p) /\ product(p, 0) = total
    BY <1>2 DEF domainSize
  <2>2. k \in 0 .. total - 1 /\ m \in 0 .. total - 1
    BY <1>2, <2>1
  <2>3. ASSUME NEW x \in 0 .. total - 1 PROVE x \div total = 0
    <3>1. x \in Nat /\ x = total * 0 + x
      OBVIOUS
    <3> QED BY <3>1, DivisionIs
  <2>4. k \div total = 0 /\ m \div total = 0
    BY <2>2, <2>3
  <2> QED BY <2>1, <2>4
<1>6. PICK l \in T : \A i \in T : l <= i
  <2>1. T \in SUBSET Nat /\ T # {}
    BY <1>4
  <2> HIDE DEF T
  <2> QED BY <2>1, SmallestOf
<1>7. PICK j \in 0 .. n - 1 : l = j + 1
  <2>1. l \in 0 .. n /\ l # 0
    BY <1>5, <1>6
  <2>2. l - 1 \in 0 .. n - 1 /\ l = (l - 1) + 1
    BY <2>1
  <2> QED BY <2>2
<1>8. \A i \in 0 .. j : k \div product(p, i) = m \div product(p, i)
  <2> SUFFICES ASSUME NEW i \in 0 .. j PROVE i \notin T
    BY <1>7
  <2> HIDE DEF T
  <2>1. ~(l <= i)
    BY <1>7
  <2> QED BY <1>6, <2>1
<1>9. digit(p, k, j) < digit(p, m, j)
  <2>1. PICK b \in Nat \ {0} : b = product(p, j + 1)
    BY <1>3, <1>7
  <2>2. PICK c \in Nat \ {0} : c = indexes(p, j)
    BY <1>1, <1>2, FactorsAre
  <2>3. PICK x \in Nat, y \in Nat : x = k \div b /\ y = m \div b
    BY <1>2, <2>1, Division
  <2>4. x < y
    <3>1. x <= y
      BY <1>2, <2>1, <2>3, DivisionGrows
    <3>2. x # y
      BY <1>6, <1>7, <2>1, <2>3
    <3> QED BY <3>1, <3>2
  <2>5. x \div c = y \div c
    <3>1. k \div product(p, j) = m \div product(p, j)
      BY <1>8
    <3> QED BY <1>1, <1>2, <2>1, <2>2, <2>3, <3>1, DigitIs
  <2>6. PICK q \in Nat, d \in 0 .. c - 1 : q = x \div c /\ d = x % c /\ x = c * q + d
    <3>1. x \div c \in Nat /\ x % c \in 0 .. c - 1 /\ x = c * (x \div c) + (x % c)
      BY Division
    <3> QED BY <3>1
  <2>7. PICK e \in 0 .. c - 1 : e = y % c /\ y = c * q + e
    <3>1. y \div c \in Nat /\ y % c \in 0 .. c - 1 /\ y = c * (y \div c) + (y % c)
      BY Division
    <3> QED BY <2>5, <2>6, <3>1
  <2>8. PICK cq \in Int : cq = c * q
    OBVIOUS
  <2>9. d < e
    BY <2>4, <2>6, <2>7, <2>8
  <2> QED BY <2>1, <2>2, <2>3, <2>6, <2>7, <2>9 DEF digit
<1>10. indexAt(p, k, j) < indexAt(p, m, j)
  <2>1. /\ digit(p, k, j) \in 0 .. indexes(p, j) - 1 /\ digit(p, m, j) \in 0 .. indexes(p, j) - 1
        /\ indexes(p, j) \in Nat
    <3>1. j \in 0 .. dim(p) - 1 /\ j \in Nat /\ k \in Nat /\ m \in Nat /\ domainSize(p) > 0
      BY <1>1, <1>2
    <3>2. digit(p, k, j) \in 0 .. indexes(p, j) - 1
      BY <3>1, DigitIs
    <3>3. digit(p, m, j) \in 0 .. indexes(p, j) - 1
      BY <3>1, DigitIs
    <3> QED BY <3>1, <3>2, <3>3, IndexesOf
  <2>2. /\ 1 + digit(p, k, j) \in 1 .. indexes(p, j) /\ 1 + digit(p, m, j) \in 1 .. indexes(p, j)
        /\ 1 + digit(p, k, j) < 1 + digit(p, m, j)
    BY <1>9, <2>1
  <2>3. \A x, y \in 1 .. indexes(p, j) :
           x < y => inputDomain(p, j)[x] < inputDomain(p, j)[y]
    <3>1. j \in Nat
      OBVIOUS
    <3> QED BY <3>1, IndexesOf
  <2> QED BY <2>2, <2>3 DEF indexAt
<1>11. \A i \in 0 .. j - 1 : indexAt(p, k, i) = indexAt(p, m, i)
  <2>1. \A i \in 0 .. j - 1 : i + 1 \in 0 .. j
    OBVIOUS
  <2> QED BY <1>8, <2>1 DEF indexAt, digit
<1>12. /\ nth(p, k) \in Indexes /\ nth(p, m) \in Indexes
       /\ \A i \in 0 .. j : /\ at(nth(p, k), i) = indexAt(p, k, i)
                            /\ at(nth(p, m), i) = indexAt(p, m, i)
  <2>1. \A i \in 0 .. j : i \in Nat /\ i < n
    OBVIOUS
  <2> QED BY <1>1, <1>2, <2>1, NthIs
<1>13. j \in 0 .. Len(nth(p, k)) + Len(nth(p, m))
  <2>1. Len(nth(p, k)) \in Nat /\ Len(nth(p, m)) \in Nat
    BY <1>12, IndexesAre
  <2>2. indexAt(p, k, j) \in Nat \cup {unspecified} /\ j \in 0 .. j
    BY <1>1, <1>2, DigitIs
  <2>3. at(nth(p, m), j) # unspecified
    BY <1>10, <1>12, <2>2 DEF unspecified
  <2>4. j < Len(nth(p, m))
    BY <2>3 DEF at
  <2> QED BY <2>1, <2>4
<1>14. at(nth(p, k), j) < at(nth(p, m), j)
       /\ \A i \in 0 .. j - 1 : at(nth(p, k), i) = at(nth(p, m), i)
  <2>1. j \in 0 .. j /\ \A i \in 0 .. j - 1 : i \in 0 .. j
    OBVIOUS
  <2> QED BY <1>10, <1>11, <1>12, <2>1
<1> QED BY <1>13, <1>14 DEF less

\* As many tuples come before the one of a master index as it says.
LEMMA NthCounts ==
    ASSUME NEW p \in Patterns, NEW m \in 0 .. domainSize(p) - 1
    PROVE  Cardinality({t \in domainOf(p) : less(t, nth(p, m))}) = m
<1> DEFINE S == {t \in domainOf(p) : less(t, nth(p, m))}
           f == [k \in 0 .. m - 1 |-> nth(p, k)]
<1>1. domainSize(p) \in Nat /\ m \in Nat /\ domainSize(p) > 0
  <2>1. domainSize(p) \in Nat
    BY DimIs, ProductIs DEF domainSize
  <2> QED BY <2>1
<1>2. \A k \in 0 .. domainSize(p) - 1 :
         k \in Nat /\ nth(p, k) \in Indexes /\ nth(p, k) \in domainOf(p)
  BY <1>1, NthIs, NthAccepted
<1>3. \A k \in 0 .. m - 1 : k \in 0 .. domainSize(p) - 1
  BY <1>1
<1>4. f \in [0 .. m - 1 -> S]
  BY <1>2, <1>3, NthInOrder
<1>5. ASSUME NEW k \in 0 .. domainSize(p) - 1, NEW l \in 0 .. domainSize(p) - 1, k < l
      PROVE  less(nth(p, k), nth(p, l)) /\ nth(p, k) # nth(p, l)
  <2>1. k \in 0 .. l - 1
    BY <1>1, <1>5
  <2>2. less(nth(p, k), nth(p, l))
    BY <2>1, NthInOrder
  <2> QED BY <1>2, <2>2, LessOnce
<1>6. \A k, l \in 0 .. m - 1 : f[k] = f[l] => k = l
  <2> SUFFICES ASSUME NEW k \in 0 .. m - 1, NEW l \in 0 .. m - 1, nth(p, k) = nth(p, l)
               PROVE  k = l
    OBVIOUS
  <2>1. ~(k < l) /\ ~(l < k)
    BY <1>3, <1>5
  <2> QED BY <2>1
<1>7. \A t \in S : \E k \in 0 .. m - 1 : f[k] = t
  <2> SUFFICES ASSUME NEW t \in S PROVE \E k \in 0 .. m - 1 : nth(p, k) = t
    OBVIOUS
  <2>1. PICK k \in 0 .. domainSize(p) - 1 : nth(p, k) = t
    BY <1>1, NthReaches
  <2>2. ~(m < k) /\ k # m
    <3>1. ~less(nth(p, m), nth(p, k)) /\ less(nth(p, k), nth(p, m)) /\ ~less(nth(p, m), nth(p, m))
      BY <1>2, <2>1, LessOnce
    <3> QED BY <1>5, <3>1
  <2>3. k \in 0 .. m - 1
    BY <1>1, <2>2
  <2> QED BY <2>1, <2>3
<1> HIDE DEF S, f
<1>8. f \in Bijection(0 .. m - 1, S)
  BY <1>4, <1>6, <1>7 DEF Bijection, Injection, Surjection, IsInjective
<1>9. IsFiniteSet(0 .. m - 1) /\ Cardinality(0 .. m - 1) = m
  <2>1. 0 \in Int /\ m - 1 \in Int /\ (IF 0 > m - 1 THEN 0 ELSE m - 1 - 0 + 1) = m
    BY <1>1
  <2> QED BY <2>1, FS_Interval
<1>10. ExistsBijection(0 .. m - 1, S)
  BY <1>8 DEF ExistsBijection
<1>11. Cardinality(S) = m
  BY <1>9, <1>10, FS_Bijection
<1> QED BY <1>11 DEF S

-----------------------------------------------------------------------------
(* Accessors of events *)

Kinds == {"accessor", "trigger", "recovery"}

LEMMA EventAccessors ==
    ASSUME LoadInv, NEW n \in 1 .. Len(events)
    PROVE  /\ events[n].deviceType \in Patterns
           /\ \A v \in Kinds : isAccessor(events[n][v])
<1>1. /\ profile \in Profiles /\ events[n] = EventNode(profile[n]) /\ n \in DOMAIN profile
  BY ProfilesAssumption DEF LoadInv
<1>2. PICK e : e = profile[n]
  OBVIOUS
<1>3. /\ e.deviceType \in Patterns /\ isAccessor(e.accessor) /\ isAccessor(e.trigger)
      /\ isAccessor(e.recovery)
  BY <1>1, <1>2, ProfilesAssumption
<1>4. /\ EventNode(e).deviceType = e.deviceType /\ EventNode(e)["accessor"] = e.accessor
      /\ EventNode(e)["recovery"] = e.recovery
      /\ EventNode(e)["trigger"] \in {e.accessor, e.trigger}
  BY DEF EventNode
<1> QED BY <1>1, <1>2, <1>3, <1>4 DEF Kinds

\* An accessor of a profile has the keys of its type.
LEMMA DbusAccessor ==
    ASSUME NEW acc, isAccessor(acc), isTypeDbus(acc)
    PROVE  /\ acc.object \in Patterns /\ isValidDbusAccessor(acc)
           /\ DOMAIN acc \ ignoredKeys = {"type", "object", "interface", "property"}
<1>1. acc.type = "DBUS" /\ "type" \in DOMAIN acc
  BY DEF isTypeDbus, isType, isValid
<1>2. ~isEmpty(acc) /\ ~isTypeCmdline(acc) /\ ~isTypeDeviceCoreApi(acc)
  BY <1>1 DEF isEmpty, isTypeCmdline, isTypeDeviceCoreApi, isType
<1> QED BY <1>2 DEF isAccessor, isValidDbusAccessor

\* A pattern without brackets has one tuple, the empty one.
LEMMA StringIs ==
    ASSUME NEW p \in Patterns, isString(p)
    PROVE  dim(p) = 0 /\ domainSize(p) = 1 /\ nth(p, 0) = <<>>
<1>1. dim(p) = 0
  BY DEF isString, dim
<1>2. domainSize(p) = 1
  BY <1>1, ProductIs DEF domainSize
<1>3. nth(p, 0) \in Indexes /\ \A k \in Nat : at(nth(p, 0), k) = unspecified
  BY <1>1, <1>2, NthIs
<1>4. <<>> \in Indexes /\ \A k \in Nat : at(<<>>, k) = unspecified
  BY DEF Indexes, at
<1> QED BY <1>1, <1>2, <1>3, <1>4, AtDetermines

\* What a pattern stands for.
texts(p) == {eval(p, nth(p, n - 1)) : n \in 1 .. domainSize(p)}

LEMMA MatchesText ==
    ASSUME NEW p \in Patterns, NEW str
    PROVE  matches(p, str) <=> str \in texts(p)
BY DEF matches, match, texts

LEMMA StringTexts ==
    ASSUME NEW p \in Patterns, isString(p)
    PROVE  texts(p) = {asString(p)}
<1>1. domainSize(p) = 1 /\ nth(p, 0) = <<>>
  BY StringIs
<1>2. texts(p) = {eval(p, nth(p, n - 1)) : n \in {1}}
  BY <1>1 DEF texts
<1> QED BY <1>1, <1>2 DEF asString

LEMMA PathsMatch ==
    ASSUME NEW p \in Patterns, NEW t \in Patterns, isString(t)
    PROVE  pathsMatch(p, t) <=> asString(t) \in texts(p)
<1>1. texts(t) = {asString(t)}
  BY StringTexts
<1>2. isString(p) => texts(p) = {asString(p)}
  BY StringTexts
<1> QED BY <1>1, <1>2, MatchesText DEF pathsMatch

\* The members of the filter that come from an accessor.
filterOf(acc) == {<<acc.property, acc.interface, path>> : path \in texts(acc.object)}

LEMMA ListensIs ==
    ASSUME NEW acc, isAccessor(acc), NEW p \in DOMAIN InitWorld
    PROVE  same(acc, placeAccessor(p))
              <=> isTypeDbus(acc) /\ <<p.name[2], p.name[1], asString(p.target)>> \in filterOf(acc)
<1> DEFINE pa == placeAccessor(p)
<1>1. /\ DOMAIN pa = {"type", "object", "interface", "property"}
      /\ pa.type = "DBUS" /\ pa.object = p.target /\ pa.interface = p.name[1]
      /\ pa.property = p.name[2] /\ isValid(pa) /\ isTypeDbus(pa)
  BY DEF placeAccessor, isValid, isTypeDbus, isType
<1>2. p.target \in Patterns /\ isString(p.target)
  BY WorldAssumption
<1> HIDE DEF pa
<1>3. ASSUME same(acc, pa) PROVE isTypeDbus(acc)
  BY <1>1, <1>3 DEF same, isTypeDbus, isType
<1>4. ASSUME isTypeDbus(acc)
      PROVE  same(acc, pa) <=> <<p.name[2], p.name[1], asString(p.target)>> \in filterOf(acc)
  <2>1. /\ acc.object \in Patterns
        /\ DOMAIN acc \ ignoredKeys = {"type", "object", "interface", "property"}
        /\ isValid(acc) /\ acc.type = "DBUS"
    BY <1>4, DbusAccessor DEF isTypeDbus, isType
  <2>2. pathOf(acc) = acc.object /\ pathOf(pa) = p.target
    <3>1. ~isTypeCmdline(acc) /\ ~isTypeCmdline(pa)
      BY <1>1, <2>1 DEF isTypeCmdline, isType
    <3> QED BY <1>1, <1>4, <3>1 DEF pathOf
  <2>3. same(acc, pa) <=> /\ pathsMatch(acc.object, p.target)
                          /\ acc.interface = p.name[1] /\ acc.property = p.name[2]
    BY <1>1, <1>4, <2>1, <2>2 DEF same
  <2>4. pathsMatch(acc.object, p.target) <=> asString(p.target) \in texts(acc.object)
    BY <1>2, <2>1, PathsMatch
  <2>5. <<p.name[2], p.name[1], asString(p.target)>> \in filterOf(acc)
        <=> /\ asString(p.target) \in texts(acc.object)
            /\ acc.interface = p.name[1] /\ acc.property = p.name[2]
    BY DEF filterOf
  <2> QED BY <2>3, <2>4, <2>5
<1> QED BY <1>3, <1>4 DEF pa

-----------------------------------------------------------------------------
(* The iterator over the product *)

IteratorInv ==
    /\ pc # "digit" => it = NoIterator
    /\ pc = "digit" =>
          /\ isTypeDbus(current) /\ it.i \in -1 .. dim(current.object) - 1
          /\ it.master \in Nat /\ it.master <= domainSize(current.object)
          /\ it.mi \in Nat /\ it.mi = it.master \div product(current.object, it.i + 1)
          /\ it.index \in Indexes
          /\ \A k \in Nat : at(it.index, k) = IF k > it.i /\ k < dim(current.object)
                                             THEN indexAt(current.object, it.master, k)
                                             ELSE unspecified
          /\ it.values = [n \in 1 .. it.master |->
                             eval(current.object, nth(current.object, n - 1))]
          /\ DOMAIN it = {"master", "mi", "i", "index", "values"}

LEMMA CurrentIs ==
    ASSUME LoadInv, pc \in {"accessor", "digit"}, part <= Len(Parts)
    PROVE  /\ entry \in 1 .. Len(events) /\ Parts[part] \in Kinds /\ isAccessor(current)
           /\ isTypeDbus(current) => current.object \in Patterns
<1>1. entry \in 1 .. Len(events)
  BY DEF LoadInv, loading
<1>2. Parts[part] \in Kinds
  BY DEF LoadInv, Parts, Kinds
<1>3. isAccessor(current)
  BY <1>1, <1>2, EventAccessors DEF current
<1> QED BY <1>1, <1>2, <1>3, DbusAccessor

\* The iterator starts before the first tuple and with nothing.
LEMMA IteratorStarts ==
    ASSUME NEW p \in Patterns, NEW m \in Nat
    PROVE  /\ dim(p) \in Nat /\ m \div product(p, (dim(p) - 1) + 1) = m
           /\ <<>> \in Indexes
           /\ \A k \in Nat : at(<<>>, k) = unspecified /\ ~(k > dim(p) - 1 /\ k < dim(p))
<1>1. dim(p) \in Nat /\ product(p, (dim(p) - 1) + 1) = 1
  BY DimIs, ProductIs
<1>2. m \div 1 = m
  BY DivisionIs
<1>3. <<>> \in Indexes /\ \A k \in Nat : at(<<>>, k) = unspecified
  BY DEF Indexes, at
<1>4. \A k \in Nat : ~(k > dim(p) - 1 /\ k < dim(p))
  BY <1>1
<1> QED BY <1>1, <1>2, <1>3, <1>4

LEMMA NextAccessorIterates ==
    ASSUME LoadInv, IteratorInv, NextAccessor PROVE IteratorInv'
<1>1. pc = "accessor" /\ it = NoIterator /\ UNCHANGED events /\ UNCHANGED entry
  BY DEF NextAccessor, IteratorInv
<1>2. CASE pc' # "digit"
  <2>1. it' = it
    BY <1>2 DEF NextAccessor
  <2> QED BY <1>1, <1>2, <2>1 DEF IteratorInv
<1>3. CASE pc' = "digit"
  <2>1. /\ part <= Len(Parts) /\ isTypeDbus(current) /\ UNCHANGED part
        /\ it' = [NoIterator EXCEPT !.i = dim(current.object) - 1]
    BY <1>1, <1>3 DEF NextAccessor, LoadInv, Parts
  <2>2. current' = current
    BY <1>1, <2>1 DEF current
  <2>3. current.object \in Patterns
    BY <1>1, <2>1, CurrentIs
  <2>4. PICK p \in Patterns : p = current.object /\ p = current'.object
    BY <2>2, <2>3
  <2>5. it' = [master |-> 0, mi |-> 0, i |-> dim(p) - 1, index |-> <<>>, values |-> <<>>]
    BY <2>1, <2>4 DEF NoIterator
  <2>6. /\ dim(p) \in Nat /\ 0 \div product(p, (dim(p) - 1) + 1) = 0 /\ <<>> \in Indexes
        /\ \A k \in Nat : at(<<>>, k) = unspecified /\ ~(k > dim(p) - 1 /\ k < dim(p))
    BY IteratorStarts
  <2>7. domainSize(p) \in Nat
    BY <2>6, ProductIs DEF domainSize
  <2>8. <<>> = [n \in 1 .. 0 |-> eval(p, nth(p, n - 1))]
    OBVIOUS
  <2>9. /\ it'.i \in -1 .. dim(p) - 1 /\ it'.master = 0 /\ 0 <= domainSize(p)
        /\ it'.mi \in Nat /\ it'.mi = it'.master \div product(p, it'.i + 1) /\ it'.index \in Indexes
        /\ \A k \in Nat : at(it'.index, k) = IF k > it'.i /\ k < dim(p)
                                             THEN indexAt(p, it'.master, k) ELSE unspecified
    BY <2>5, <2>6, <2>7
  <2>10. it'.values = [n \in 1 .. it'.master |-> eval(p, nth(p, n - 1))]
    BY <2>5, <2>8
  <2>11. isTypeDbus(current')
    BY <2>1, <2>2
  <2> QED BY <1>3, <2>4, <2>5, <2>9, <2>10, <2>11 DEF IteratorInv
<1> QED BY <1>2, <1>3

LEMMA SetDigitIterates ==
    ASSUME LoadInv, IteratorInv, SetDigit PROVE IteratorInv'
<1>1. /\ pc = "digit" /\ pc' = "digit" /\ UNCHANGED <<events, entry, part>>
      /\ it.master < domainSize(current.object) /\ it.i >= 0
  BY DEF SetDigit
<1>2. current' = current
  BY <1>1 DEF current
<1>3. current.object \in Patterns /\ isTypeDbus(current)
  BY <1>1, CurrentIs DEF IteratorInv, LoadInv
<1>4. PICK p \in Patterns : p = current.object /\ p = current'.object
  BY <1>2, <1>3
<1>5. PICK m \in Nat : m = it.master /\ m < domainSize(p)
  BY <1>1, <1>4 DEF IteratorInv
<1>6. PICK i \in 0 .. dim(p) - 1 : i = it.i
  <2>1. it.i \in -1 .. dim(p) - 1 /\ dim(p) \in Nat
    BY <1>1, <1>4, DimIs DEF IteratorInv
  <2>2. it.i \in 0 .. dim(p) - 1
    BY <1>1, <2>1
  <2> QED BY <2>2
<1>7. dim(p) \in Nat /\ i \in Nat /\ domainSize(p) > 0
  <2>1. domainSize(p) \in Nat /\ dim(p) \in Nat
    BY DimIs, ProductIs DEF domainSize
  <2> QED BY <1>5, <2>1
<1>8. PICK index \in Indexes :
         /\ index = it.index
         /\ \A k \in Nat : at(index, k) = IF k > i /\ k < dim(p) THEN indexAt(p, m, k)
                                          ELSE unspecified
  BY <1>1, <1>4, <1>5, <1>6 DEF IteratorInv
<1>9. it.mi = m \div product(p, i + 1)
  BY <1>1, <1>4, <1>5, <1>6 DEF IteratorInv
<1> DEFINE range == inputDomain(p, i)
           mi == it.mi \div Len(range)
           next == set(index, i, indexAt(p, m, i))
<1>10. it' = [it EXCEPT !.index = set(@, it.i, range[1 + (it.mi % Len(range))]), !.mi = mi,
                        !.i = @ - 1]
  BY <1>4, <1>6 DEF SetDigit
<1>11. range[1 + (it.mi % Len(range))] = indexAt(p, m, i)
  BY <1>9 DEF indexAt, digit, indexes
<1>12. mi \in Nat /\ mi = m \div product(p, (i - 1) + 1)
  <2>1. m \div product(p, i) = (m \div product(p, i + 1)) \div indexes(p, i)
    BY <1>7, DigitIs
  <2>2. (i - 1) + 1 = i
    BY <1>7
  <2>3. product(p, i) \in Nat \ {0}
    BY <1>6, <1>7, FactorsAre
  <2>4. m \div product(p, i) \in Nat
    BY <2>3, Division
  <2> QED BY <1>9, <2>1, <2>2, <2>4 DEF indexes
<1> HIDE DEF mi
<1>13. /\ it'.master = m /\ it'.mi = mi /\ it'.i = i - 1 /\ it'.index = next
       /\ it'.values = it.values /\ DOMAIN it' = DOMAIN it
  <2>1. DOMAIN it = {"master", "mi", "i", "index", "values"}
    BY <1>1 DEF IteratorInv
  <2>2. it' = [it EXCEPT !.index = next, !.mi = mi, !.i = i - 1]
    BY <1>6, <1>8, <1>10, <1>11
  <2> HIDE DEF next
  <2> QED BY <1>5, <2>1, <2>2
<1>14. /\ next \in Indexes
       /\ \A k \in Nat : at(next, k) = IF k = i THEN indexAt(p, m, i) ELSE at(index, k)
  <2>1. PICK x \in Nat \cup {unspecified} : x = indexAt(p, m, i)
    BY <1>7, DigitIs
  <2>2. /\ set(index, i, x) \in Indexes
        /\ \A k \in Nat : at(set(index, i, x), k) = IF k = i THEN x ELSE at(index, k)
    <3>1. i \in Nat
      BY <1>7
    <3> HIDE DEF next, range
    <3> QED BY <3>1, SetIs
  <2> QED BY <2>1, <2>2
<1> HIDE DEF next, range
<1>15. \A k \in Nat : at(next, k) = IF k > i - 1 /\ k < dim(p) THEN indexAt(p, m, k)
                                    ELSE unspecified
  <2>1. \A k \in Nat : (k > i - 1 <=> k = i \/ k > i) /\ (k = i => k < dim(p))
    BY <1>6, <1>7
  <2> QED BY <1>8, <1>14, <2>1
<1>16. i - 1 \in -1 .. dim(p) - 1
  BY <1>6, <1>7
<1>17. it.values = [n \in 1 .. m |-> eval(p, nth(p, n - 1))]
  BY <1>1, <1>4, <1>5 DEF IteratorInv
<1>18. m <= domainSize(p)
  BY <1>1, <1>4, <1>5 DEF IteratorInv
<1> QED BY <1>1, <1>2, <1>3, <1>4, <1>12, <1>13, <1>14, <1>15, <1>16, <1>17, <1>18
        DEF IteratorInv

\* With no position left the tuple is the one of the master index.
LEMMA IteratorEnds ==
    ASSUME LoadInv, IteratorInv, pc = "digit", it.i < 0, it.master < domainSize(current.object)
    PROVE  current.object \in Patterns /\ it.i = -1
           /\ it.index = nth(current.object, it.master)
<1>1. current.object \in Patterns
  BY CurrentIs DEF IteratorInv, LoadInv
<1>2. PICK p \in Patterns : p = current.object
  BY <1>1
<1>3. dim(p) \in Nat /\ domainSize(p) \in Nat
  BY DimIs, ProductIs DEF domainSize
<1>4. /\ it.i = -1 /\ it.master \in Nat /\ domainSize(p) > 0 /\ it.index \in Indexes
      /\ \A k \in Nat : at(it.index, k) = IF k > -1 /\ k < dim(p)
                                          THEN indexAt(p, it.master, k) ELSE unspecified
  <2>1. it.i \in -1 .. dim(p) - 1 /\ it.master \in Nat
    BY <1>2 DEF IteratorInv
  <2>2. it.i = -1
    BY <1>3, <2>1
  <2> QED BY <1>2, <1>3, <2>1, <2>2 DEF IteratorInv
<1>5. /\ nth(p, it.master) \in Indexes
      /\ \A k \in Nat : at(nth(p, it.master), k) = IF k < dim(p) THEN indexAt(p, it.master, k)
                                                   ELSE unspecified
  BY <1>4, NthIs
<1>6. \A k \in Nat : k > -1
  OBVIOUS
<1> QED BY <1>1, <1>2, <1>4, <1>5, <1>6, AtDetermines

LEMMA PushValueIterates ==
    ASSUME LoadInv, IteratorInv, PushValue PROVE IteratorInv'
<1>1. /\ pc = "digit" /\ pc' = "digit" /\ UNCHANGED <<events, entry, part>>
      /\ it.master < domainSize(current.object) /\ it.i < 0
  BY DEF PushValue
<1>2. current' = current
  BY <1>1 DEF current
<1>3. /\ current.object \in Patterns /\ isTypeDbus(current)
      /\ it.index = nth(current.object, it.master)
  BY <1>1, IteratorEnds DEF IteratorInv
<1>4. PICK p \in Patterns : p = current.object /\ p = current'.object
  BY <1>2, <1>3
<1>5. PICK m \in Nat : m = it.master /\ m < domainSize(p)
  BY <1>1, <1>4 DEF IteratorInv
<1>6. it.values = [n \in 1 .. m |-> eval(p, nth(p, n - 1))]
  BY <1>1, <1>4, <1>5 DEF IteratorInv
<1>7. it' = [master |-> m + 1, mi |-> m + 1, i |-> dim(p) - 1, index |-> <<>>,
             values |-> Append(it.values, eval(p, nth(p, m)))]
  BY <1>3, <1>4, <1>5 DEF PushValue
<1>8. Append(it.values, eval(p, nth(p, m))) = [n \in 1 .. m + 1 |-> eval(p, nth(p, n - 1))]
  <2> DEFINE v(n) == eval(p, nth(p, n - 1))
             a == Append(it.values, v(m + 1))
             T == {v(n) : n \in 1 .. m + 1}
  <2>1. it.values \in Seq(T) /\ Len(it.values) = m /\ v(m + 1) \in T
    <3>1. it.values = [n \in 1 .. m |-> v(n)]
      BY <1>6
    <3>2. \A n \in 1 .. m : v(n) \in T
      OBVIOUS
    <3>3. v(m + 1) \in T
      OBVIOUS
    <3> HIDE DEF T, v
    <3> QED BY <3>1, <3>2, <3>3
  <2>2. \A n \in 1 .. m : it.values[n] = v(n)
    BY <1>6
  <2> HIDE DEF T, v
  <2>3. /\ a \in Seq(T) /\ Len(a) = m + 1
        /\ \A n \in 1 .. m : a[n] = it.values[n]
        /\ a[m + 1] = v(m + 1)
    BY <2>1, AppendProperties
  <2> HIDE DEF a
  <2>4. \A n \in 1 .. m + 1 : a[n] = v(n)
    BY <2>2, <2>3
  <2>5. a = [n \in 1 .. m + 1 |-> a[n]]
    BY <2>3
  <2>6. a = [n \in 1 .. m + 1 |-> v(n)]
    BY <2>4, <2>5
  <2>7. (m + 1) - 1 = m
    OBVIOUS
  <2> QED BY <2>6, <2>7 DEF a, v
<1>9. /\ dim(p) \in Nat /\ (m + 1) \div product(p, (dim(p) - 1) + 1) = m + 1 /\ <<>> \in Indexes
      /\ \A k \in Nat : at(<<>>, k) = unspecified /\ ~(k > dim(p) - 1 /\ k < dim(p))
  BY IteratorStarts
<1>10. m + 1 <= domainSize(p)
  <2>1. domainSize(p) \in Nat
    BY <1>9, ProductIs DEF domainSize
  <2> QED BY <1>5, <2>1
<1>11. it'.values = [n \in 1 .. it'.master |-> eval(p, nth(p, n - 1))]
  BY <1>7, <1>8
<1>12. dim(p) - 1 \in -1 .. dim(p) - 1
  BY <1>9
<1>13. it'.mi \in Nat /\ it'.mi = it'.master \div product(p, it'.i + 1)
  BY <1>7, <1>9
<1> QED BY <1>1, <1>2, <1>3, <1>4, <1>7, <1>9, <1>10, <1>11, <1>12, <1>13 DEF IteratorInv

LEMMA IteratorStep == ASSUME LoadInv, IteratorInv, [Next]_vars PROVE IteratorInv'
<1>1. CASE NextAccessor
  BY <1>1, NextAccessorIterates
<1>2. CASE SetDigit
  BY <1>2, SetDigitIterates
<1>3. CASE PushValue
  BY <1>3, PushValueIterates
<1>4. CASE EmplaceValues
  BY <1>4 DEF EmplaceValues, IteratorInv
<1>5. CASE LoadEntry \/ PushViews \/ Loaded \/ Subscribe \/ Ready
  BY <1>5 DEF LoadEntry, PushViews, Loaded, Subscribe, Ready, loadVars, IteratorInv
<1>6. CASE Change \/ Selftested \/ Worker \/ UNCHANGED vars
  <2>1. UNCHANGED <<pc, loadVars>>
    BY <1>6 DEF Change, Selftested, Worker, Pop, RecoveryNext, Recovered, DetectNext, Read,
                Triggered, Checked, Detected, mainVars, vars
  <2> QED BY <2>1 DEF loadVars, IteratorInv, current
<1> QED BY <1>1, <1>2, <1>3, <1>4, <1>5, <1>6 DEF Next, Load

LEMMA IteratorInvariant == Spec => [](LoadInv /\ IteratorInv)
<1>1. Init => LoadInv /\ IteratorInv
  BY LoadInit DEF Init, IteratorInv
<1>2. LoadInv /\ IteratorInv /\ [Next]_vars => (LoadInv /\ IteratorInv)'
  BY LoadStep, IteratorStep
<1> QED BY <1>1, <1>2, PTL DEF Spec

\* The product iterator yields the tuples a pattern accepts in their order, for
\* every pattern a profile may have.
THEOREM TuplesInOrder == Spec => []ProductInOrder
<1>1. ASSUME LoadInv, IteratorInv PROVE ProductInOrder
  <2> SUFFICES ASSUME pc = "digit", it.i < 0, it.master < domainSize(current.object)
               PROVE  /\ it.index \in domainOf(current.object)
                      /\ Cardinality({t \in domainOf(current.object) : less(t, it.index)})
                            = it.master
    BY DEF ProductInOrder
  <2>1. PICK p \in Patterns : p = current.object /\ it.index = nth(p, it.master)
    BY <1>1, IteratorEnds
  <2>2. it.master \in 0 .. domainSize(p) - 1 /\ it.master \in Nat /\ domainSize(p) > 0
    <3>1. it.master \in Nat
      BY <1>1 DEF IteratorInv
    <3>2. domainSize(p) \in Nat
      BY DimIs, ProductIs DEF domainSize
    <3> QED BY <2>1, <3>1, <3>2
  <2>3. nth(p, it.master) \in domainOf(p)
    BY <2>2, NthAccepted
  <2>4. Cardinality({t \in domainOf(p) : less(t, nth(p, it.master))}) = it.master
    BY <2>2, NthCounts
  <2> QED BY <2>1, <2>3, <2>4
<1> QED BY <1>1, IteratorInvariant, PTL

-----------------------------------------------------------------------------
(* The filter *)

\* The filter has what its accessor gives.
filtered(n, k) == pc \in loading => n < entry \/ (n = entry /\ k < part)

feeds(f, n, k) == /\ isTypeDbus(events[n][Parts[k]]) /\ f \in filterOf(events[n][Parts[k]])

FilterInv ==
    /\ pc = "views" => part = 4
    /\ pc # "failed" =>
          \A f : f \in filter <=> \E n \in 1 .. Len(events), k \in 1 .. 3 :
                                     filtered(n, k) /\ feeds(f, n, k)

LEMMA LoadEntryFilters ==
    ASSUME LoadInv, FilterInv, LoadEntry PROVE FilterInv'
<1>1. CASE pc' = "failed"
  BY <1>1 DEF FilterInv
<1>2. CASE pc' # "failed"
  <2>1. /\ events' = Append(events, EventNode(profile[entry])) /\ pc = "entry" /\ pc' = "accessor"
        /\ part' = 1 /\ entry' = entry /\ filter' = filter /\ Len(events) = entry - 1
    BY <1>2 DEF LoadEntry, LoadInv
  <2>2. /\ Len(events') = entry /\ \A n \in 1 .. entry - 1 : events'[n] = events[n]
    BY <2>1, AppendIs DEF LoadInv
  <2>3. entry \in Nat \ {0}
    BY DEF LoadInv
  <2>4. \A f : f \in filter <=> \E n \in 1 .. entry - 1, k \in 1 .. 3 : feeds(f, n, k)
    BY <2>1 DEF FilterInv, filtered, loading
  <2>5. ASSUME NEW n \in 1 .. entry, NEW k \in 1 .. 3
        PROVE  filtered(n, k)' <=> n \in 1 .. entry - 1
    BY <2>1, <2>3 DEF filtered, loading
  <2>6. \A n \in 1 .. entry - 1, k \in 1 .. 3 : \A f : feeds(f, n, k)' <=> feeds(f, n, k)
    BY <2>2 DEF feeds
  <2>7. \A n \in 1 .. entry - 1 : n \in 1 .. entry
    BY <2>3
  <2>8. \A f : f \in filter' <=> \E n \in 1 .. entry, k \in 1 .. 3 :
                                    filtered(n, k)' /\ feeds(f, n, k)'
    BY <2>1, <2>4, <2>5, <2>6, <2>7
  <2> QED BY <2>1, <2>2, <2>8 DEF FilterInv
<1> QED BY <1>1, <1>2

\* An accessor is done with.
LEMMA PartFilters ==
    ASSUME LoadInv, FilterInv, pc \in {"accessor", "digit"}, part \in 1 .. 3,
           UNCHANGED <<events, entry>>, pc' = "accessor", part' = part + 1,
           \A f : f \in filter' <=> f \in filter \/ (isTypeDbus(current) /\ f \in filterOf(current))
    PROVE  FilterInv'
<1>1. entry \in 1 .. Len(events) /\ Len(events) = entry
  BY DEF LoadInv, loading
<1>2. \A f : isTypeDbus(current) /\ f \in filterOf(current) <=> feeds(f, entry, part)
  BY DEF feeds, current
<1>3. \A n \in 1 .. Len(events), k \in 1 .. 3 :
         filtered(n, k)' <=> filtered(n, k) \/ (n = entry /\ k = part)
  BY <1>1 DEF filtered, loading
<1>4. \A n \in 1 .. Len(events), k \in 1 .. 3 : \A f : feeds(f, n, k)' <=> feeds(f, n, k)
  BY DEF feeds
<1>5. \A f : f \in filter <=> \E n \in 1 .. Len(events), k \in 1 .. 3 :
                                 filtered(n, k) /\ feeds(f, n, k)
  BY DEF FilterInv
<1>6. \A f : f \in filter' <=> \E n \in 1 .. Len(events), k \in 1 .. 3 :
                                  filtered(n, k)' /\ feeds(f, n, k)'
  BY <1>1, <1>2, <1>3, <1>4, <1>5
<1> QED BY <1>6 DEF FilterInv

LEMMA FilterStays ==
    ASSUME LoadInv, FilterInv, UNCHANGED <<events, filter>>, pc # "failed", pc' # "failed",
           pc' = "views" => part' = 4,
           \A n \in 1 .. Len(events), k \in 1 .. 3 : filtered(n, k)' <=> filtered(n, k)
    PROVE  FilterInv'
<1>1. \A n \in 1 .. Len(events), k \in 1 .. 3 : \A f : feeds(f, n, k)' <=> feeds(f, n, k)
  BY DEF feeds
<1>2. \A f : f \in filter <=> \E n \in 1 .. Len(events), k \in 1 .. 3 :
                                 filtered(n, k) /\ feeds(f, n, k)
  BY DEF FilterInv
<1>3. \A f : f \in filter' <=> \E n \in 1 .. Len(events), k \in 1 .. 3 :
                                  filtered(n, k)' /\ feeds(f, n, k)'
  BY <1>1, <1>2
<1> QED BY <1>3 DEF FilterInv

LEMMA NextAccessorFilters ==
    ASSUME LoadInv, FilterInv, NextAccessor PROVE FilterInv'
<1>1. pc = "accessor" /\ UNCHANGED <<events, entry, filter>> /\ part \in 1 .. 4
      /\ Len(events) = entry
  BY DEF NextAccessor, LoadInv, loading
<1>2. CASE part > Len(Parts)
  <2>1. pc' = "views" /\ part' = part /\ part = 4
    BY <1>1, <1>2 DEF NextAccessor, Parts
  <2> QED BY <1>1, <2>1, FilterStays DEF filtered, loading
<1>3. CASE part <= Len(Parts) /\ pc' = "accessor"
  <2>1. /\ part \in 1 .. 3 /\ part' = part + 1 /\ ~isTypeDbus(current)
    BY <1>1, <1>3 DEF NextAccessor, Parts, isEmpty, isTypeDbus, isType, isValid
  <2> QED BY <1>1, <1>3, <2>1, PartFilters
<1>4. CASE part <= Len(Parts) /\ pc' = "failed"
  BY <1>4 DEF FilterInv
<1>5. CASE part <= Len(Parts) /\ pc' \notin {"accessor", "failed"}
  <2>1. pc' = "digit" /\ part' = part
    BY <1>1, <1>5 DEF NextAccessor, Parts
  <2> QED BY <1>1, <2>1, FilterStays DEF filtered, loading
<1>6. part > Len(Parts) \/ part <= Len(Parts)
  BY <1>1 DEF Parts
<1> QED BY <1>2, <1>3, <1>4, <1>5, <1>6

LEMMA EmplaceValuesFilters ==
    ASSUME LoadInv, IteratorInv, FilterInv, EmplaceValues PROVE FilterInv'
<1>1. /\ pc = "digit" /\ pc' = "accessor" /\ UNCHANGED <<events, entry>> /\ part' = part + 1
      /\ part \in 1 .. 3 /\ it.master = domainSize(current.object) /\ isTypeDbus(current)
      /\ filter' = filter \cup {<<current.property, current.interface, path>> :
                                   path \in Range(it.values)}
  BY DEF EmplaceValues, LoadInv, IteratorInv, Parts
<1>2. it.values = [n \in 1 .. domainSize(current.object) |->
                      eval(current.object, nth(current.object, n - 1))]
  BY <1>1 DEF IteratorInv
<1>3. Range(it.values) = texts(current.object)
  BY <1>2 DEF Range, texts
<1>4. filter' = filter \cup filterOf(current)
  BY <1>1, <1>3 DEF filterOf
<1> QED BY <1>1, <1>4, PartFilters

LEMMA FilterStep == ASSUME LoadInv, IteratorInv, FilterInv, [Next]_vars PROVE FilterInv'
<1>1. CASE LoadEntry
  BY <1>1, LoadEntryFilters
<1>2. CASE NextAccessor
  BY <1>2, NextAccessorFilters
<1>3. CASE EmplaceValues
  BY <1>3, EmplaceValuesFilters
<1>4. CASE SetDigit \/ PushValue
  <2>1. UNCHANGED <<pc, entry, part, events, filter>> /\ pc = "digit"
    BY <1>4 DEF SetDigit, PushValue
  <2> QED BY <2>1, FilterStays DEF filtered
<1>5. CASE PushViews
  <2>1. /\ UNCHANGED <<part, events, filter>> /\ pc = "views" /\ pc' = "entry" /\ part = 4
        /\ Len(events) = entry
    BY <1>5 DEF PushViews, FilterInv, LoadInv, loading
  <2>2. \A n \in 1 .. Len(events), k \in 1 .. 3 : filtered(n, k)' <=> filtered(n, k)
    <3>1. entry \in Nat
      BY DEF LoadInv
    <3> QED BY <2>1, <3>1 DEF filtered, loading
  <2> QED BY <2>1, <2>2, FilterStays
<1>6. CASE Loaded \/ Subscribe \/ Ready
  <2>1. /\ UNCHANGED <<part, events, filter>> /\ pc \in {"entry", "subscribe"}
        /\ pc' \in {"subscribe", "serve"}
    BY <1>6 DEF Loaded, Subscribe, Ready, loadVars
  <2> QED BY <2>1, FilterStays DEF filtered, loading
<1>7. CASE Change \/ Selftested \/ Worker \/ UNCHANGED vars
  <2>1. UNCHANGED <<pc, loadVars>>
    BY <1>7 DEF Change, Selftested, Worker, Pop, RecoveryNext, Recovered, DetectNext, Read,
                Triggered, Checked, Detected, mainVars, vars
  <2>2. UNCHANGED <<pc, entry, part, events, filter>>
    BY <2>1 DEF loadVars
  <2>3. CASE pc = "failed"
    BY <2>2, <2>3 DEF FilterInv
  <2>4. CASE pc # "failed"
    BY <2>2, <2>4, FilterStays DEF filtered, FilterInv
  <2> QED BY <2>3, <2>4
<1> QED BY <1>1, <1>2, <1>3, <1>4, <1>5, <1>6, <1>7 DEF Next, Load

LEMMA FilterInit == Init => FilterInv
BY DEF Init, FilterInv, filtered, loading

\* With the whole profile loaded, the filter has what the events listen to.
LEMMA FilterIsExact ==
    ASSUME LoadInv, FilterInv, DOMAIN world = DOMAIN InitWorld PROVE FilterExact
<1> SUFFICES ASSUME pc \in {"subscribe", "serve"}, NEW p \in DOMAIN InitWorld, p.type = "DBUS"
             PROVE  <<p.name[2], p.name[1], asString(p.target)>> \in filter
                       <=> \E n \in DOMAIN events : listens(events[n], placeAccessor(p))
  BY DEF FilterExact
<1>1. PICK f : f = <<p.name[2], p.name[1], asString(p.target)>>
  OBVIOUS
<1>2. f \in filter <=> \E n \in 1 .. Len(events), k \in 1 .. 3 : feeds(f, n, k)
  BY DEF FilterInv, filtered, loading
<1>3. \A n \in 1 .. Len(events), v \in Kinds :
         same(events[n][v], placeAccessor(p))
            <=> isTypeDbus(events[n][v]) /\ f \in filterOf(events[n][v])
  BY <1>1, EventAccessors, ListensIs
<1>4. DOMAIN views = Kinds
  BY DEF LoadInv, InViews, Kinds
<1>5. Kinds = {Parts[k] : k \in 1 .. 3} /\ \A k \in 1 .. 3 : Parts[k] \in Kinds
  BY DEF Parts, Kinds
<1>6. ASSUME NEW n \in 1 .. Len(events)
      PROVE  listens(events[n], placeAccessor(p)) <=> \E k \in 1 .. 3 : feeds(f, n, k)
  <2>1. listens(events[n], placeAccessor(p))
           <=> \E v \in Kinds : isTypeDbus(events[n][v]) /\ f \in filterOf(events[n][v])
    BY <1>3, <1>4 DEF listens
  <2>2. (\E v \in Kinds : isTypeDbus(events[n][v]) /\ f \in filterOf(events[n][v]))
           <=> \E k \in 1 .. 3 : /\ isTypeDbus(events[n][Parts[k]])
                                   /\ f \in filterOf(events[n][Parts[k]])
    BY <1>5
  <2> QED BY <2>1, <2>2 DEF feeds
<1>7. DOMAIN events = 1 .. Len(events)
  BY DEF LoadInv
<1> QED BY <1>1, <1>2, <1>6, <1>7

-----------------------------------------------------------------------------
(* Subscriptions *)

LEMMA SubscribeUnfolds ==
    ASSUME NEW T, NEW hs \in Seq(T), NEW keys \in Seq(T)
    PROVE  \E f : /\ subscribe(hs, keys) = f[Len(keys)]
                  /\ f[0] = hs
                  /\ \A i \in 1 .. Len(keys) :
                        f[i] = IF keys[i] \in Range(f[i - 1]) THEN f[i - 1]
                               ELSE Append(f[i - 1], keys[i])
<1>0. PICK all \in Nat : all = Len(keys)
  OBVIOUS
<1> DEFINE Is(f) == f = [n \in 0 .. all |-> IF n = 0 THEN hs
                            ELSE IF keys[n] \in Range(f[n - 1]) THEN f[n - 1]
                            ELSE Append(f[n - 1], keys[n])]
           g == [i \in 1 .. all |->
                    [q \in Seq(T) |-> IF keys[i] \in Range(q) THEN q ELSE Append(q, keys[i])]]
           subscribed == CHOOSE f : Is(f)
<1>1. \A i \in 1 .. all : keys[i] \in T
  BY <1>0
<1>2. g \in [1 .. all -> [Seq(T) -> Seq(T)]]
  BY <1>1, AppendProperties
<1>3. PICK f \in [0 .. all -> Seq(T)] : f[0] = hs /\ \A i \in 1 .. all : f[i] = g[i][f[i - 1]]
  <2> HIDE DEF g
  <2>1. \E f : Solves(f, Seq(T), hs, all, g)
    BY <1>2, Recursion
  <2> QED BY <2>1 DEF Solves
<1>4. ASSUME NEW i \in 1 .. all
      PROVE  f[i] = IF keys[i] \in Range(f[i - 1]) THEN f[i - 1] ELSE Append(f[i - 1], keys[i])
  <2>1. i - 1 \in 0 .. all
    OBVIOUS
  <2>2. f[i - 1] \in Seq(T)
    BY <1>3, <2>1
  <2> QED BY <1>3, <2>2
<1>5. Is(f)
  <2>1. f = [n \in 0 .. all |-> f[n]]
    BY <1>3
  <2>2. ASSUME NEW n \in 0 .. all
        PROVE  f[n] = IF n = 0 THEN hs
                      ELSE IF keys[n] \in Range(f[n - 1]) THEN f[n - 1]
                      ELSE Append(f[n - 1], keys[n])
    <3>1. n = 0 \/ n \in 1 .. all
      OBVIOUS
    <3> QED BY <1>3, <1>4, <3>1
  <2> QED BY <2>1, <2>2, Zenon
<1>6. Is(subscribed)
  <2> HIDE DEF Is
  <2> QED BY <1>5
<1>7. subscribe(hs, keys) = subscribed[all]
  BY <1>0 DEF subscribe
<1> HIDE DEF subscribed
<1>8. \A n \in 0 .. all : subscribed[n] = IF n = 0 THEN hs
                          ELSE IF keys[n] \in Range(subscribed[n - 1]) THEN subscribed[n - 1]
                          ELSE Append(subscribed[n - 1], keys[n])
  BY <1>6
<1>9. 0 \in 0 .. all /\ \A i \in 1 .. all : i \in 0 .. all /\ i # 0
  OBVIOUS
<1> QED BY <1>0, <1>7, <1>8, <1>9

\* Each key is subscribed to, and none twice.
LEMMA SubscribeIs ==
    ASSUME NEW T, NEW hs \in Seq(T), Distinct(hs), NEW keys \in Seq(T)
    PROVE  /\ subscribe(hs, keys) \in Seq(T) /\ Distinct(subscribe(hs, keys))
           /\ Range(subscribe(hs, keys)) = Range(hs) \cup Range(keys)
<1>1. PICK f : /\ subscribe(hs, keys) = f[Len(keys)]
               /\ f[0] = hs
               /\ \A i \in 1 .. Len(keys) :
                     f[i] = IF keys[i] \in Range(f[i - 1]) THEN f[i - 1]
                            ELSE Append(f[i - 1], keys[i])
  BY SubscribeUnfolds
<1> DEFINE R(i) == Range(hs) \cup {keys[j] : j \in 1 .. i}
           Is(i) == f[i] \in Seq(T) /\ Range(f[i]) = R(i) /\ Distinct(f[i])
           G == {i \in 0 .. Len(keys) : Is(i)}
<1>2. 0 \in G
  <2>1. R(0) = Range(hs)
    OBVIOUS
  <2> QED BY <1>1, <2>1
<1>3. ASSUME NEW i \in 1 .. Len(keys), i - 1 \in G PROVE i \in G
  <2>1. PICK q \in Seq(T) : q = f[i - 1] /\ Range(q) = R(i - 1) /\ Distinct(q)
    BY <1>3
  <2>2. keys[i] \in T /\ 1 .. i = (1 .. i - 1) \cup {i}
    OBVIOUS
  <2>3. R(i) = R(i - 1) \cup {keys[i]}
    BY <2>2
  <2> HIDE DEF R
  <2>4. CASE keys[i] \in Range(q)
    <3>1. f[i] = q /\ R(i) = R(i - 1)
      BY <1>1, <2>1, <2>3, <2>4
    <3> QED BY <2>1, <3>1
  <2>5. CASE keys[i] \notin Range(q)
    <3>1. PICK r : r = Append(q, keys[i]) /\ f[i] = r
      BY <1>1, <2>1, <2>5
    <3>2. q \in Seq(Range(q))
      BY SeqOfRange
    <3>3. Range(r) = Range(q) \cup {keys[i]} /\ Distinct(r)
      BY <2>1, <2>5, <3>1, <3>2, AppendIs
    <3>4. r \in Seq(T)
      BY <2>2, <3>1, AppendProperties
    <3>5. Range(f[i]) = R(i)
      BY <2>1, <2>3, <3>1, <3>3
    <3>6. Is(i)
      BY <3>1, <3>3, <3>4, <3>5
    <3> HIDE DEF Is
    <3> QED BY <3>6
  <2> QED BY <2>4, <2>5
<1>4. Is(Len(keys))
  <2>1. Len(keys) \in Nat /\ Len(keys) \in 0 .. Len(keys)
    OBVIOUS
  <2> HIDE DEF Is
  <2>2. \A i \in 0 .. Len(keys) : i \in G
    <3> HIDE DEF G
    <3> QED BY <1>2, <1>3, <2>1, UpTo
  <2> QED BY <2>1, <2>2
<1>5. R(Len(keys)) = Range(hs) \cup Range(keys)
  BY DEF Range
<1> HIDE DEF R
<1> QED BY <1>1, <1>4, <1>5

\* An accessor asks signals of the objects its pattern stands for.
LEMMA ObjectsAre ==
    ASSUME NEW acc, isAccessor(acc)
    PROVE  /\ objectsOf(acc) \in Seq(Range(objectsOf(acc)))
           /\ isTypeDbus(acc) =>
                 Range(objectsOf(acc)) = {<<path, acc.interface>> : path \in texts(acc.object)}
           /\ ~isTypeDbus(acc) => Range(objectsOf(acc)) = {}
<1>1. CASE ~isTypeDbus(acc)
  <2>1. objectsOf(acc) = <<>>
    BY <1>1 DEF objectsOf, isValidDbusAccessor
  <2> QED BY <1>1, <2>1 DEF Range
<1>2. CASE isTypeDbus(acc)
  <2>1. acc.object \in Patterns /\ isValidDbusAccessor(acc)
    BY <1>2, DbusAccessor
  <2>2. PICK p \in Patterns : p = acc.object
    BY <2>1
  <2>3. dim(p) \in Nat /\ domainSize(p) \in Nat
    BY DimIs, ProductIs DEF domainSize
  <2>4. PICK N \in Nat : N = domainSize(p)
    BY <2>3
  <2> DEFINE first == IF dim(p) > 0 THEN at(nth(p, 0), 0) ELSE 0
             names == expandDeviceRange(p)
             keys == {first + n - 1 : n \in 1 .. N}
  <2>5. N > 0 => first \in Int
    <3> SUFFICES ASSUME N > 0 PROVE first \in Int
      OBVIOUS
    <3>1. nth(p, 0) \in Indexes
      BY <2>4, NthIs
    <3>2. at(nth(p, 0), 0) \in Nat \cup {unspecified}
      BY <3>1, IndexesAre
    <3> QED BY <3>2 DEF unspecified
  <2>6. DOMAIN names = keys
    BY <2>4 DEF expandDeviceRange
  <2>7. \A n \in 1 .. N : names[first + n - 1] = eval(p, nth(p, n - 1))
    <3> SUFFICES ASSUME NEW n \in 1 .. N PROVE names[first + n - 1] = eval(p, nth(p, n - 1))
      OBVIOUS
    <3>1. first \in Int /\ first + n - 1 \in keys
      BY <2>5
    <3>2. names[first + n - 1] = valuesVec(p)[(first + n - 1) - first + 1]
      BY <2>4, <3>1 DEF expandDeviceRange
    <3> HIDE DEF first
    <3>3. (first + n - 1) - first + 1 = n
      BY <3>1
    <3>4. valuesVec(p)[n] = eval(p, nth(p, n - 1))
      BY <2>4 DEF valuesVec
    <3> QED BY <3>2, <3>3, <3>4
  <2> HIDE DEF first, names
  <2>8. Cardinality(keys) = N
    <3> DEFINE f == [n \in 1 .. N |-> first + n - 1]
    <3>1. \A m, n \in 1 .. N : f[m] = f[n] => m = n
      BY <2>5
    <3>2. f \in [1 .. N -> keys] /\ \A k \in keys : \E n \in 1 .. N : f[n] = k
      OBVIOUS
    <3> HIDE DEF f, keys
    <3>3. f \in Bijection(1 .. N, keys)
      BY <3>1, <3>2 DEF Bijection, Injection, Surjection, IsInjective
    <3>4. ExistsBijection(1 .. N, keys)
      BY <3>3 DEF ExistsBijection
    <3>5. IsFiniteSet(1 .. N) /\ Cardinality(1 .. N) = N
      BY FS_Interval
    <3> QED BY <3>4, <3>5, FS_Bijection
  <2>9. N > 0 => Min(keys) = first
    <3> SUFFICES ASSUME N > 0 PROVE Min(keys) = first
      OBVIOUS
    <3>1. keys \subseteq Int /\ first \in keys /\ \A k \in keys : first <= k
      <4>1. 1 \in 1 .. N /\ first + 1 - 1 = first
        BY <2>5
      <4> QED BY <2>5, <4>1
    <3> HIDE DEF keys
    <3>2. \E m \in keys : \A k \in keys : m =< k
      BY <3>1
    <3>3. Min(keys) \in keys /\ \A k \in keys : Min(keys) <= k
      BY <3>2 DEF Min
    <3>4. PICK m \in Int : m = Min(keys) /\ m <= first /\ first <= m
      BY <3>1, <3>3
    <3> QED BY <2>5, <3>4
  <2>10. objectsOf(acc) = [n \in 1 .. N |-> <<eval(p, nth(p, n - 1)), acc.interface>>]
    <3>1. objectsOf(acc) = [n \in 1 .. Cardinality(keys) |->
                              <<names[Min(keys) + n - 1], acc.interface>>]
      BY <2>1, <2>2, <2>6 DEF objectsOf, names
    <3> HIDE DEF keys
    <3>2. \A n \in 1 .. N : N > 0
      OBVIOUS
    <3> QED BY <2>7, <2>8, <2>9, <3>1, <3>2
  <2>11. Range(objectsOf(acc)) = {<<path, acc.interface>> : path \in texts(p)}
    <3>1. Range(objectsOf(acc)) = {<<eval(p, nth(p, n - 1)), acc.interface>> : n \in 1 .. N}
      BY <2>10 DEF Range
    <3> QED BY <2>4, <3>1 DEF texts
  <2>12. objectsOf(acc) \in Seq(Range(objectsOf(acc)))
    <3>1. PICK q : q = objectsOf(acc) /\ DOMAIN q = 1 .. N /\ q = [n \in 1 .. N |-> q[n]]
      BY <2>10
    <3> QED BY <3>1 DEF Range
  <2> QED BY <1>2, <2>2, <2>11, <2>12
<1> QED BY <1>1, <1>2

asks(h, n, k) == h \in Range(objectsOf(events[n][Parts[k]]))

HandlersInv ==
    /\ handlers \in Seq(Range(handlers)) /\ Distinct(handlers)
    /\ pc \in {"entry"} \cup loading => handlers = <<>>
    /\ pc \in {"subscribe", "serve"} =>
          \A h : h \in Range(handlers) <=> \E n \in 1 .. Len(events), k \in 1 .. 3 :
                                              (pc = "subscribe" => n < entry) /\ asks(h, n, k)

LEMMA SubscribeSubscribes ==
    ASSUME LoadInv, HandlersInv, Subscribe PROVE HandlersInv'
<1>1. /\ pc = "subscribe" /\ entry \in 1 .. Len(events) /\ entry' = entry + 1
      /\ UNCHANGED <<pc, events>> /\ Len(events) \in Nat
  BY DEF Subscribe, loadVars, LoadInv
<1>2. PICK e : e = events[entry]
  OBVIOUS
<1>3. PICK a, b, c : /\ a = objectsOf(e.trigger) /\ b = objectsOf(e.accessor)
                     /\ c = objectsOf(e.recovery)
  OBVIOUS
<1>4. handlers' = subscribe(handlers, a \o b \o c)
  BY <1>2, <1>3 DEF Subscribe
<1>5. \A v \in Kinds : isAccessor(e[v])
  BY <1>1, <1>2, EventAccessors
<1>6. a \in Seq(Range(a)) /\ b \in Seq(Range(b)) /\ c \in Seq(Range(c))
  <2>1. isAccessor(e.trigger) /\ isAccessor(e.accessor) /\ isAccessor(e.recovery)
    BY <1>5 DEF Kinds
  <2> QED BY <1>3, <2>1, ObjectsAre
<1> DEFINE T == Range(handlers) \cup Range(a) \cup Range(b) \cup Range(c)
<1>7. a \in Seq(T) /\ b \in Seq(T) /\ c \in Seq(T) /\ handlers \in Seq(T)
  <2>1. Range(a) \subseteq T /\ Range(b) \subseteq T /\ Range(c) \subseteq T
        /\ Range(handlers) \subseteq T /\ handlers \in Seq(Range(handlers))
    BY DEF HandlersInv
  <2> HIDE DEF T
  <2> QED BY <1>6, <2>1
<1> HIDE DEF T
<1>8. a \o b \in Seq(T) /\ a \o b \o c \in Seq(T)
      /\ Range(a \o b \o c) = Range(a) \cup Range(b) \cup Range(c)
  <2>1. a \o b \in Seq(T) /\ Range(a \o b) = Range(a) \cup Range(b)
    BY <1>7, ConcatProperties, RangeConcatenation
  <2>2. PICK ab \in Seq(T) : ab = a \o b
    BY <2>1
  <2>3. ab \o c \in Seq(T) /\ Range(ab \o c) = Range(ab) \cup Range(c)
    BY <1>7, ConcatProperties, RangeConcatenation
  <2> QED BY <2>1, <2>2, <2>3
<1>9. PICK keys \in Seq(T) : keys = a \o b \o c
  BY <1>8
<1>10. /\ handlers' \in Seq(T) /\ Distinct(handlers')
       /\ Range(handlers') = Range(handlers) \cup Range(a) \cup Range(b) \cup Range(c)
  <2>1. Distinct(handlers)
    BY DEF HandlersInv
  <2>2. /\ subscribe(handlers, keys) \in Seq(T) /\ Distinct(subscribe(handlers, keys))
        /\ Range(subscribe(handlers, keys)) = Range(handlers) \cup Range(keys)
    BY <1>7, <2>1, SubscribeIs
  <2>3. handlers' = subscribe(handlers, keys)
    BY <1>4, <1>9
  <2>4. Range(keys) = Range(a) \cup Range(b) \cup Range(c)
    BY <1>8, <1>9
  <2> QED BY <2>2, <2>3, <2>4
<1>11. handlers' \in Seq(Range(handlers'))
  BY <1>10, SeqOfRange
<1>12. \A h : (\E k \in 1 .. 3 : asks(h, entry, k)) <=> h \in Range(a) \cup Range(b) \cup Range(c)
  <2>1. 1 .. 3 = {1, 2, 3} /\ Parts[1] = "accessor" /\ Parts[2] = "trigger" /\ Parts[3] = "recovery"
    BY DEF Parts
  <2>2. \A h : /\ asks(h, entry, 1) <=> h \in Range(b)
               /\ asks(h, entry, 2) <=> h \in Range(a)
               /\ asks(h, entry, 3) <=> h \in Range(c)
    BY <1>2, <1>3, <2>1 DEF asks
  <2> QED BY <2>1, <2>2
<1>13. \A h : h \in Range(handlers) <=> \E n \in 1 .. Len(events), k \in 1 .. 3 :
                                           n < entry /\ asks(h, n, k)
  BY <1>1 DEF HandlersInv
<1>14. \A n \in 1 .. Len(events) : n < entry' <=> n < entry \/ n = entry
  BY <1>1
<1>15. \A h : h \in Range(handlers') <=> \E n \in 1 .. Len(events), k \in 1 .. 3 :
                                            n < entry' /\ asks(h, n, k)
  BY <1>1, <1>10, <1>12, <1>13, <1>14
<1>16. \A h, n, k : asks(h, n, k)' <=> asks(h, n, k)
  BY <1>1 DEF asks
<1> QED BY <1>1, <1>10, <1>11, <1>15, <1>16 DEF HandlersInv, loading

LEMMA HandlersStep == ASSUME LoadInv, HandlersInv, [Next]_vars PROVE HandlersInv'
<1>1. CASE Subscribe
  BY <1>1, SubscribeSubscribes
<1>2. CASE LoadEntry \/ NextAccessor \/ SetDigit \/ PushValue \/ EmplaceValues \/ PushViews
  <2>1. /\ UNCHANGED handlers /\ pc \in {"entry"} \cup loading
        /\ pc' \notin {"subscribe", "serve"}
    BY <1>2 DEF LoadEntry, NextAccessor, SetDigit, PushValue, EmplaceValues, PushViews,
                serveVars, loading
  <2> QED BY <2>1 DEF HandlersInv
<1>3. CASE Loaded
  <2>1. handlers = <<>> /\ UNCHANGED <<handlers, events>> /\ pc' = "subscribe" /\ entry' = 1
    BY <1>3 DEF Loaded, serveVars, HandlersInv
  <2>2. Range(handlers') = {} /\ \A n \in 1 .. Len(events') : ~(n < entry')
    BY <2>1 DEF Range
  <2> QED BY <2>1, <2>2 DEF HandlersInv, loading
<1>4. CASE Ready
  <2>1. /\ UNCHANGED <<handlers, events>> /\ pc = "subscribe" /\ pc' = "serve"
        /\ entry > Len(events) /\ entry \in Nat /\ Len(events) \in Nat
    BY <1>4 DEF Ready, loadVars, LoadInv
  <2>2. \A n \in 1 .. Len(events) : n < entry
    BY <2>1
  <2>3. \A h, n, k : asks(h, n, k)' <=> asks(h, n, k)
    BY <2>1 DEF asks
  <2> QED BY <2>1, <2>2, <2>3 DEF HandlersInv, loading
<1>5. CASE Change \/ Selftested \/ Worker \/ UNCHANGED vars
  <2>1. UNCHANGED <<pc, loadVars, handlers>>
    BY <1>5 DEF Change, Selftested, Worker, Pop, RecoveryNext, Recovered, DetectNext, Read,
                Triggered, Checked, Detected, mainVars, vars
  <2>2. UNCHANGED <<pc, entry, events, handlers>>
    BY <2>1 DEF loadVars
  <2>3. \A h, n, k : asks(h, n, k)' <=> asks(h, n, k)
    BY <2>2 DEF asks
  <2> QED BY <2>2, <2>3 DEF HandlersInv, loading
<1> QED BY <1>1, <1>2, <1>3, <1>4, <1>5 DEF Next, Load

\* The objects subscribed to are those of the filter.
LEMMA SubscribedIsOnce ==
    ASSUME LoadInv, FilterInv, HandlersInv PROVE SubscribedOnce
<1> SUFFICES ASSUME pc = "serve"
             PROVE  /\ Cardinality(Range(handlers)) = Len(handlers)
                    /\ Range(handlers) = {<<f[3], f[2]>> : f \in filter}
  BY DEF SubscribedOnce
<1>1. Cardinality(Range(handlers)) = Len(handlers)
  BY DistinctCounts DEF HandlersInv
<1>2. \A h : h \in Range(handlers) <=> \E n \in 1 .. Len(events), k \in 1 .. 3 : asks(h, n, k)
  BY DEF HandlersInv
<1>3. \A f : f \in filter <=> \E n \in 1 .. Len(events), k \in 1 .. 3 : feeds(f, n, k)
  BY DEF FilterInv, filtered, loading
<1>4. ASSUME NEW n \in 1 .. Len(events), NEW k \in 1 .. 3, NEW h
      PROVE  asks(h, n, k) <=> \E f : feeds(f, n, k) /\ h = <<f[3], f[2]>>
  <2>1. PICK acc : acc = events[n][Parts[k]] /\ isAccessor(acc)
    <3>1. Parts[k] \in Kinds
      BY DEF Parts, Kinds
    <3> QED BY <3>1, EventAccessors
  <2>2. CASE ~isTypeDbus(acc)
    BY <2>1, <2>2, ObjectsAre DEF asks, feeds
  <2>3. CASE isTypeDbus(acc)
    <3>1. asks(h, n, k) <=> \E path \in texts(acc.object) : h = <<path, acc.interface>>
      BY <2>1, <2>3, ObjectsAre DEF asks
    <3>2. \A f : feeds(f, n, k) <=> \E path \in texts(acc.object) :
                                       f = <<acc.property, acc.interface, path>>
      BY <2>1, <2>3 DEF feeds, filterOf
    <3>3. ASSUME NEW path PROVE LET f == <<acc.property, acc.interface, path>>
                                IN f[3] = path /\ f[2] = acc.interface
      OBVIOUS
    <3>4. ASSUME asks(h, n, k) PROVE \E f : feeds(f, n, k) /\ h = <<f[3], f[2]>>
      <4>1. PICK path \in texts(acc.object) : h = <<path, acc.interface>>
        BY <3>1, <3>4
      <4>2. PICK f : f = <<acc.property, acc.interface, path>>
        OBVIOUS
      <4>3. feeds(f, n, k) /\ h = <<f[3], f[2]>>
        BY <3>2, <4>1, <4>2
      <4> QED BY <4>3
    <3>5. ASSUME NEW f, feeds(f, n, k), h = <<f[3], f[2]>> PROVE asks(h, n, k)
      BY <3>1, <3>2, <3>3, <3>5
    <3> QED BY <3>4, <3>5
  <2> QED BY <2>2, <2>3
<1>5. \A h : h \in Range(handlers) <=> \E f \in filter : h = <<f[3], f[2]>>
  BY <1>2, <1>3, <1>4
<1> QED BY <1>1, <1>5

\* An index of another pattern that is not in the domain of one with as many
\* dimensions.
LEMMA OutsideIsMisfit ==
    ASSUME NEW p \in Patterns, NEW q \in Patterns, domainSize(q) > 0, NEW m \in Nat,
           NEW idx, idx = nth(q, m), dim(p) > 0, dim(p) = Len(idx), ~checkIsInDomain(p, idx)
    PROVE  misfit(p, q) /\ misfit(q, p)
<1>1. dim(p) \in Nat /\ dim(q) \in Nat
  BY DimIs
<1>2. /\ idx \in Indexes
      /\ \A k \in Nat : at(idx, k) = IF k < dim(q) THEN indexAt(q, m, k) ELSE unspecified
  BY NthIs
<1>3. PICK n \in Nat : n = dim(p) /\ n = Len(idx) /\ n > 0 /\ n - 1 \in Nat
  BY <1>1
<1>4. idx[n] # unspecified /\ at(idx, n - 1) = idx[n]
  BY <1>2, <1>3 DEF Indexes, at
<1>5. n <= dim(q)
  <2>1. n - 1 < dim(q)
    BY <1>2, <1>3, <1>4
  <2> QED BY <1>1, <1>3, <2>1
<1>6. dim(q) <= n
  <2> SUFFICES ASSUME n < dim(q) PROVE FALSE
    BY <1>1, <1>3
  <2>1. PICK d \in Nat : d = dim(q) - 1 /\ d >= n /\ d < dim(q)
    BY <1>1, <1>3
  <2>2. at(idx, d) = unspecified
    BY <1>3, <2>1 DEF at
  <2>3. at(idx, d) = indexAt(q, m, d)
    BY <1>2, <2>1
  <2>4. \E i \in DOMAIN q.brackets : inputPos(q, i) = d
    BY <1>3, <2>1, DimIs
  <2>5. bracketsOf(q, d) # {}
    BY <2>4 DEF bracketsOf
  <2>6. digit(q, m, d) \in 0 .. indexes(q, d) - 1 /\ indexes(q, d) \in Nat
    <3>1. d \in 0 .. dim(q) - 1
      BY <1>1, <2>1
    <3> QED BY <3>1, DigitIs, IndexesOf
  <2>7. 1 + digit(q, m, d) \in 1 .. indexes(q, d)
    BY <2>6
  <2>8. indexAt(q, m, d) \in Nat \cup {unspecified}
        /\ \E j \in 1 .. indexes(q, d) : inputDomain(q, d)[j] = indexAt(q, m, d)
    BY <2>7, IndexesOf DEF indexAt
  <2>9. \A i \in bracketsOf(q, d) :
           indexAt(q, m, d) \in q.brackets[i].from.left .. q.brackets[i].from.right
    BY <2>5, <2>8, IndexesOf
  <2>10. PICK i \in DOMAIN q.brackets :
             unspecified \in q.brackets[i].from.left .. q.brackets[i].from.right
    BY <2>2, <2>3, <2>5, <2>9 DEF bracketsOf
  <2>11. q.brackets[i].from.left \in Nat /\ q.brackets[i].from.right \in Nat
    BY BracketsAre
  <2> QED BY <2>10, <2>11 DEF unspecified
<1>7. idx \in domainOf(q)
  BY NthAccepted
<1>8. ASSUME idx \in domainOf(p) PROVE FALSE
  <2>1. PICK f : f \in [1 .. n -> choices(p)] /\ accepted(p, f) /\ idx = normalize(f)
    BY <1>3, <1>8, ChoicesAre
  <2>2. f \in [1 .. n -> Nat \cup {unspecified}]
    BY <2>1, ChoicesAre
  <2>3. \A k \in 1 .. n : \E j \in 1 .. indexes(p, k - 1) : inputDomain(p, k - 1)[j] = f[k]
    <3>1. n = dim(p)
      BY <1>3
    <3>2. f \in [1 .. dim(p) -> Nat \cup {unspecified}] /\ accepted(p, f)
      BY <2>1, <2>2, <3>1
    <3>3. \A k \in 1 .. dim(p) : \E j \in 1 .. indexes(p, k - 1) : inputDomain(p, k - 1)[j] = f[k]
      BY <3>2, AcceptedIs
    <3> QED BY <3>1, <3>3
  <2>4. \A k \in Nat : at(idx, k) = IF k < n THEN f[k + 1] ELSE unspecified
    BY <2>1, <2>2, NormalizeIs
  <2>5. ASSUME NEW pos \in 0 .. n - 1 PROVE contains(p, pos, at(idx, pos))
    <3>1. pos \in Nat /\ pos < n /\ pos + 1 \in 1 .. n /\ (pos + 1) - 1 = pos
      OBVIOUS
    <3>2. PICK j \in 1 .. indexes(p, pos) : inputDomain(p, pos)[j] = at(idx, pos)
      BY <2>3, <2>4, <3>1
    <3>3. j \in DOMAIN inputDomain(p, pos)
      BY <3>1, IndexesOf
    <3> QED BY <3>2, <3>3 DEF contains, Range
  <2> QED BY <1>3, <2>5 DEF checkIsInDomain
<1> QED BY <1>1, <1>3, <1>5, <1>6, <1>7, <1>8 DEF misfit

-----------------------------------------------------------------------------
(* Checks *)

CheckKeys == {"status", "asserted", "trigger", "triggerDevice", "pattern", "index", "json",
              "data", "reads", "looping", "deviceToRead"}

areAsserted(devices) ==
    /\ devices \in Seq(Range(devices))
    /\ \A a \in Range(devices) : a.deviceIndexTuple \in Indexes

isCheck(ck) ==
    /\ ck = [key \in CheckKeys |-> ck[key]] /\ ck.pattern \in Patterns /\ ck.index \in Indexes
    /\ ck.reads \in Seq(Indexes) /\ areAsserted(ck.asserted) /\ "acc" \in DOMAIN ck.data

\* Only the verdict and the devices differ.
keeps(ck, c) ==
    /\ c = [key \in CheckKeys |-> c[key]] /\ areAsserted(c.asserted)
    /\ \A key \in CheckKeys \ {"status", "asserted"} : c[key] = ck[key]

LEMMA KeepsCheck ==
    ASSUME NEW ck, isCheck(ck), NEW c, keeps(ck, c) PROVE isCheck(c)
BY DEF isCheck, keeps, CheckKeys

LEMMA AssertedGrows ==
    ASSUME NEW devices, areAsserted(devices), NEW a, a.deviceIndexTuple \in Indexes
    PROVE  areAsserted(Append(devices, a))
BY AppendIs DEF areAsserted

LEMMA BuildKeeps ==
    ASSUME NEW ck, ck = [key \in CheckKeys |-> ck[key]], areAsserted(ck.asserted),
           NEW device, NEW pi \in Indexes
    PROVE  keeps(ck, buildSingleAssertedDeviceName(ck, device, pi))
<1>1. PICK c : c = buildSingleAssertedDeviceName(ck, device, pi)
  OBVIOUS
<1>2. \/ c = ck
      \/ \E d : c = [ck EXCEPT !.asserted =
                       Append(@, [trigger |-> ck.trigger, accessor |-> ck.data, device |-> d,
                                  deviceIndexTuple |-> pi])]
  BY <1>1 DEF buildSingleAssertedDeviceName
<1>3. CASE c = ck
  BY <1>1, <1>3 DEF keeps
<1>4. CASE c # ck
  <2>1. PICK d : c = [ck EXCEPT !.asserted =
                        Append(@, [trigger |-> ck.trigger, accessor |-> ck.data, device |-> d,
                                   deviceIndexTuple |-> pi])]
    BY <1>2, <1>4
  <2>2. PICK a : a = [trigger |-> ck.trigger, accessor |-> ck.data, device |-> d,
                      deviceIndexTuple |-> pi]
    OBVIOUS
  <2>3. a.deviceIndexTuple \in Indexes
    BY <2>2
  <2>4. c = [ck EXCEPT !.asserted = Append(@, a)]
    BY <2>1, <2>2
  <2>5. areAsserted(Append(ck.asserted, a))
    BY <2>3, AssertedGrows
  <2> QED BY <1>1, <2>4, <2>5 DEF keeps, CheckKeys
<1> QED BY <1>3, <1>4

LEMMA PassedKeeps ==
    ASSUME NEW ck, ck = [key \in CheckKeys |-> ck[key]], areAsserted(ck.asserted),
           NEW device, NEW pi \in Indexes
    PROVE  keeps(ck, [buildSingleAssertedDeviceName(ck, device, pi) EXCEPT !.status = "Passed"])
<1>1. PICK c : c = buildSingleAssertedDeviceName(ck, device, pi) /\ keeps(ck, c)
  BY BuildKeeps
<1>2. PICK d : d = [c EXCEPT !.status = "Passed"]
  OBVIOUS
<1>3. /\ d = [key \in CheckKeys |-> d[key]] /\ d.asserted = c.asserted
      /\ \A key \in CheckKeys \ {"status", "asserted"} : d[key] = c[key]
  BY <1>1, <1>2 DEF keeps, CheckKeys
<1>4. keeps(ck, d)
  BY <1>1, <1>3 DEF keeps
<1> QED BY <1>1, <1>2, <1>4

LEMMA KeepsOn ==
    ASSUME NEW ck, NEW c, keeps(ck, c), NEW d, keeps(c, d) PROVE keeps(ck, d)
BY DEF keeps, CheckKeys

\* The loop over a bitmap, device by device.
LEMMA BitmapKeeps ==
    ASSUME NEW ck, isCheck(ck), hasData(ck.data), existsCheckBitmap(ck.json),
           isValidInteger(string2Uint64(ck.json.check.bitmap)), NEW dev2Read, NEW patternIndex
    PROVE  keeps(ck, subCheck(ck, dev2Read, patternIndex))
<1>1. PICK P \in Patterns : P = ck.pattern
  BY DEF isCheck
<1>2. PICK N \in Nat : N = domainSize(P)
  BY DimIs, ProductIs DEF domainSize
<1> DEFINE map == ck.json.check
           bitmap == string2Uint64(map.bitmap)
           mask(n) == [type |-> "integer", value |-> shiftLeft(bitmap.value64, n - 1)]
           judge(c, n) ==
             IF check(ck.data.value, map, mask(n))
             THEN [buildSingleAssertedDeviceName(c, eval(c.pattern, nth(c.pattern, n - 1)),
                                                 nth(c.pattern, n - 1))
                      EXCEPT !.status = "Passed"]
             ELSE c
           Is(f) == f = [n \in 0 .. N |-> IF n = 0 THEN ck ELSE judge(f[n - 1], n)]
           judged == CHOOSE f : Is(f)
           entry0(d, n) == [trigger |-> ck.trigger, accessor |-> ck.data, device |-> d,
                            deviceIndexTuple |-> nth(P, n - 1)]
           A == Range(ck.asserted) \cup {entry0(eval(P, nth(P, n - 1)), n) : n \in 1 .. N}
                  \cup {entry0(determineDeviceName(P, nth(P, n - 1)), n) : n \in 1 .. N}
           D == {c \in [CheckKeys -> Range(ck) \cup {"Passed"} \cup Seq(A)] :
                    keeps(ck, c) /\ c.asserted \in Seq(A)}
           g == [n \in 1 .. N |-> [c \in D |-> judge(c, n)]]
<1>3. subCheck(ck, dev2Read, patternIndex) = judged[N]
  BY <1>1, <1>2 DEF subCheck
<1> DEFINE V == Range(ck) \cup {"Passed"} \cup Seq(A)
<1>4. ck \in D
  <2> HIDE DEF A
  <2>1. ck \in [CheckKeys -> V]
    <3>1. ck \in [CheckKeys -> Range(ck)]
      BY DEF isCheck, Range
    <3> HIDE DEF V
    <3>2. Range(ck) \subseteq V
      BY DEF V
    <3> QED BY <3>1, <3>2
  <2>2. keeps(ck, ck)
    BY DEF isCheck, keeps
  <2>3. ck.asserted \in Seq(A)
    <3>1. Range(ck.asserted) \subseteq A
      BY DEF A
    <3> QED BY <3>1 DEF isCheck, areAsserted
  <2> QED BY <2>1, <2>2, <2>3
<1>5. ASSUME NEW c \in D, NEW n \in 1 .. N PROVE judge(c, n) \in D
  <2>1. PICK pi \in Indexes : pi = nth(P, n - 1)
    <3>1. N > 0 /\ n - 1 \in Nat
      OBVIOUS
    <3> QED BY <1>2, <3>1, NthIs
  <2>2. PICK real : real = eval(P, pi)
    OBVIOUS
  <2>3. /\ c = [key \in CheckKeys |-> c[key]] /\ areAsserted(c.asserted) /\ keeps(ck, c)
        /\ c.pattern = P /\ c.trigger = ck.trigger /\ c.data = ck.data /\ c.asserted \in Seq(A)
    BY <1>1 DEF keeps, CheckKeys
  <2>4. PICK x : x = [buildSingleAssertedDeviceName(c, real, pi) EXCEPT !.status = "Passed"]
    OBVIOUS
  <2>5. keeps(c, x)
    BY <2>3, <2>4, PassedKeeps
  <2>6. keeps(ck, x)
    BY <2>3, <2>5, KeepsOn
  <2>7. x.asserted \in Seq(A) /\ x.status = "Passed"
    <3>1. PICK b : b = buildSingleAssertedDeviceName(c, real, pi)
      OBVIOUS
    <3>2. keeps(c, b)
      BY <2>3, <3>1, BuildKeeps
    <3>3. x.asserted = b.asserted /\ x.status = "Passed"
      BY <2>4, <3>1, <3>2 DEF keeps, CheckKeys
    <3>4. entry0(real, n) \in A /\ entry0(determineDeviceName(P, pi), n) \in A
      BY <2>1, <2>2
    <3>5. PICK a \in A : b = c \/ b = [c EXCEPT !.asserted = Append(@, a)]
      <4>1. \/ b = c
            \/ b = [c EXCEPT !.asserted = Append(@, entry0(real, n))]
            \/ b = [c EXCEPT !.asserted = Append(@, entry0(determineDeviceName(P, pi), n))]
        BY <2>1, <2>3, <3>1 DEF buildSingleAssertedDeviceName
      <4> HIDE DEF A, entry0
      <4> QED BY <3>4, <4>1
    <3> HIDE DEF A
    <3>6. b.asserted = c.asserted \/ b.asserted = Append(c.asserted, a)
      BY <2>3, <3>5 DEF CheckKeys
    <3>7. Append(c.asserted, a) \in Seq(A)
      BY <2>3, AppendProperties
    <3> QED BY <2>3, <3>3, <3>6, <3>7
  <2>8. x \in [CheckKeys -> V]
    <3> HIDE DEF A
    <3>1. DOMAIN x = CheckKeys /\ x = [key \in DOMAIN x |-> x[key]]
      <4>1. PICK b : b = buildSingleAssertedDeviceName(c, real, pi)
        OBVIOUS
      <4> QED BY <2>4, <2>6, <4>1 DEF keeps
    <3>2. ASSUME NEW key \in CheckKeys PROVE x[key] \in V
      <4>1. CASE key \in {"status", "asserted"}
        BY <2>7, <4>1
      <4>2. CASE key \notin {"status", "asserted"}
        <5>1. x[key] = ck[key] /\ DOMAIN ck = CheckKeys
          BY <2>6, <4>2 DEF keeps, isCheck
        <5>2. ck[key] \in Range(ck)
          BY <5>1 DEF Range
        <5> QED BY <5>1, <5>2
      <4> QED BY <4>1, <4>2
    <3> HIDE DEF V
    <3> QED BY <3>1, <3>2
  <2>9. x \in D
    <3> HIDE DEF A
    <3> QED BY <2>6, <2>7, <2>8
  <2>10. judge(c, n) \in {c, x}
    BY <2>1, <2>2, <2>3, <2>4
  <2> HIDE DEF D, judge
  <2> QED BY <2>9, <2>10
<1>6. g \in [1 .. N -> [D -> D]]
  <2> HIDE DEF D, judge
  <2> QED BY <1>5
<1>7. PICK f \in [0 .. N -> D] : f[0] = ck /\ \A n \in 1 .. N : f[n] = g[n][f[n - 1]]
  <2> HIDE DEF g, D
  <2>1. \E f : Solves(f, D, ck, N, g)
    BY <1>4, <1>6, Recursion
  <2> QED BY <2>1 DEF Solves
<1>8. \A n \in 1 .. N : f[n] = judge(f[n - 1], n)
  <2> SUFFICES ASSUME NEW n \in 1 .. N PROVE f[n] = judge(f[n - 1], n)
    OBVIOUS
  <2> HIDE DEF D, judge
  <2>1. n - 1 \in 0 .. N
    OBVIOUS
  <2>2. f[n - 1] \in D
    BY <1>7, <2>1
  <2> QED BY <1>7, <2>2
<1>9. Is(f)
  <2> HIDE DEF D, judge, g
  <2>1. f = [n \in 0 .. N |-> f[n]]
    BY <1>7
  <2>2. ASSUME NEW n \in 0 .. N PROVE f[n] = IF n = 0 THEN ck ELSE judge(f[n - 1], n)
    <3>1. n = 0 \/ n \in 1 .. N
      OBVIOUS
    <3> QED BY <1>7, <1>8, <3>1
  <2> QED BY <2>1, <2>2, Zenon
<1>10. Is(judged)
  <2> HIDE DEF Is
  <2> QED BY <1>9
<1> HIDE DEF judged, judge, D, g
<1>11. \A n \in 0 .. N : judged[n] = IF n = 0 THEN ck ELSE judge(judged[n - 1], n)
  BY <1>10
<1>12. judged[N] \in D
  <2> DEFINE G == {n \in 0 .. N : judged[n] \in D}
  <2>1. 0 \in G
    BY <1>4, <1>11
  <2>2. ASSUME NEW n \in 1 .. N, n - 1 \in G PROVE n \in G
    BY <1>5, <1>11, <2>2
  <2> HIDE DEF G
  <2>3. \A n \in 0 .. N : n \in G
    BY <2>1, <2>2, UpTo
  <2> QED BY <2>3 DEF G
<1> QED BY <1>3, <1>12 DEF D

LEMMA SubCheckKeeps ==
    ASSUME NEW ck, isCheck(ck), NEW dev2Read, NEW pi \in Indexes
    PROVE  keeps(ck, subCheck(ck, dev2Read, pi))
<1>0. keeps(ck, ck)
  BY DEF isCheck, keeps
<1>1. CASE ~hasData(ck.data)
  BY <1>0, <1>1 DEF subCheck
<1>2. CASE hasData(ck.data) /\ existsCheckBitmap(ck.json)
  <2>1. CASE isValidInteger(string2Uint64(ck.json.check.bitmap))
    BY <1>2, <2>1, BitmapKeeps
  <2>2. CASE ~isValidInteger(string2Uint64(ck.json.check.bitmap))
    <3>1. subCheck(ck, dev2Read, pi) = ck
      BY <1>2, <2>2 DEF subCheck
    <3> QED BY <1>0, <3>1
  <2> QED BY <2>1, <2>2
<1>3. CASE hasData(ck.data) /\ ~existsCheckBitmap(ck.json)
  <2>1. subCheck(ck, dev2Read, pi) \in
           {ck, [buildSingleAssertedDeviceName(ck, dev2Read, pi) EXCEPT !.status = "Passed"]}
    BY <1>3 DEF subCheck
  <2>2. keeps(ck, [buildSingleAssertedDeviceName(ck, dev2Read, pi) EXCEPT !.status = "Passed"])
    BY PassedKeeps DEF isCheck
  <2> QED BY <1>0, <2>1, <2>2
<1> QED BY <1>1, <1>2, <1>3

\* An index that a path of the pattern gave.
comesFrom(idx, q) ==
    \/ idx = <<>>
    \/ q \in Patterns /\ domainSize(q) > 0 /\ \E m \in Nat : idx = nth(q, m)

LEMMA ComesFromIs ==
    ASSUME NEW q, NEW idx, comesFrom(idx, q) PROVE idx \in Indexes
<1>1. <<>> \in Indexes
  BY DEF Indexes
<1> QED BY <1>1, NthIs DEF comesFrom

LEMMA DetermineIs ==
    ASSUME NEW q \in Patterns, NEW path PROVE comesFrom(determineDeviceIndex(q, path), q)
<1>1. PICK N \in Nat : N = domainSize(q)
  BY DimIs, ProductIs DEF domainSize
<1>2. PICK T : T = match(q, path)
  OBVIOUS
<1>3. CASE T = {}
  BY <1>2, <1>3 DEF determineDeviceIndex, comesFrom
<1>4. CASE T # {}
  <2>1. T \subseteq 1 .. N
    BY <1>1, <1>2 DEF match
  <2>2. T \in SUBSET Nat
    BY <2>1
  <2>3. PICK m \in T : m = Min(T)
    BY <1>4, <2>2, MinIs
  <2>4. m \in 1 .. N
    BY <2>1
  <2>5. determineDeviceIndex(q, path) = nth(q, m - 1)
    BY <1>2, <1>4, <2>3 DEF determineDeviceIndex
  <2>6. m - 1 \in Nat /\ N > 0
    BY <2>4
  <2> QED BY <1>1, <2>5, <2>6 DEF comesFrom
<1> QED BY <1>3, <1>4

LEMMA AsPatternIs ==
    /\ asPattern(<<>>) \in Patterns /\ dim(asPattern(<<>>)) = 0
<1>1. <<>> \in Seq(STRING) /\ <<>> \in Seq(Brackets) /\ Len(<<>>) = 0
  OBVIOUS
<1>2. <<<<>>>> \in Seq(Seq(STRING)) /\ Len(<<<<>>>>) = 1
  BY <1>1
<1>3. PICK p : p = asPattern(<<>>)
  OBVIOUS
<1>4. p = [texts |-> <<<<>>>>, brackets |-> <<>>]
  BY <1>3 DEF asPattern
<1>5. p.texts = <<<<>>>> /\ p.brackets = <<>>
  BY <1>4
<1>6. p \in [texts : Seq(Seq(STRING)), brackets : Seq(Brackets)]
  BY <1>1, <1>2, <1>4
<1>7. Len(p.texts) = Len(p.brackets) + 1
  BY <1>1, <1>2, <1>5
<1>8. p \in Patterns
  BY <1>6, <1>7, Zenon DEF Patterns
<1> QED BY <1>3, <1>5, <1>8 DEF dim

LEMMA PathPatterns ==
    ASSUME NEW acc, isAccessor(acc)
    PROVE  patternOf(acc) \in Patterns /\ argumentsOf(acc) \in Patterns
<1>1. argumentsOf(acc) \in Patterns
  <2>1. CASE isTypeCmdline(acc) /\ "arguments" \in DOMAIN acc
    <3>1. "type" \in DOMAIN acc /\ acc.type = "CMDLINE"
      BY <2>1 DEF isTypeCmdline, isType, isValid
    <3>2. ~isEmpty(acc) /\ ~isTypeDbus(acc) /\ ~isTypeDeviceCoreApi(acc)
      BY <3>1 DEF isEmpty, isTypeDbus, isTypeDeviceCoreApi, isType
    <3> QED BY <2>1, <3>2 DEF isAccessor, argumentsOf
  <2>2. CASE ~(isTypeCmdline(acc) /\ "arguments" \in DOMAIN acc)
    BY <2>2, AsPatternIs DEF argumentsOf
  <2> QED BY <2>1, <2>2
<1>2. isTypeDbus(acc) => acc.object \in Patterns
  BY DbusAccessor
<1> QED BY <1>1, <1>2 DEF patternOf

LEMMA NewIs ==
    ASSUME NEW p \in Patterns
    PROVE  /\ isCheck(newCheck(p)) /\ newCheck(p).pattern = p /\ newCheck(p).index = <<>>
           /\ newCheck(p).reads = <<>>
<1>1. PICK c : c = newCheck(p)
  OBVIOUS
<1>2. /\ c = [key \in CheckKeys |-> c[key]] /\ c.pattern = p /\ c.index = <<>> /\ c.reads = <<>>
      /\ c.asserted = <<>> /\ c.data = noData
  BY <1>1 DEF newCheck, CheckKeys
<1>3. <<>> \in Indexes /\ <<>> \in Seq(Indexes) /\ areAsserted(<<>>) /\ "acc" \in DOMAIN noData
  BY DEF Indexes, areAsserted, Range, noData
<1> QED BY <1>1, <1>2, <1>3 DEF isCheck

LEMMA IndexedIs ==
    ASSUME NEW p \in Patterns, NEW json, isAccessor(json), NEW data, NEW c,
           c = indexed(newCheck(p), json, data)
    PROVE  /\ isCheck(c) /\ c.pattern = p /\ c.reads = <<>>
           /\ comesFrom(c.index, patternOf(json))
           /\ \/ c.index = <<>> \/ isTypeDbus(data.acc)
              \/ ~existsRange(argumentsOf(data.acc))
<1>1. PICK n : n = newCheck(p)
  OBVIOUS
<1>2. isCheck(n) /\ n.pattern = p /\ n.index = <<>> /\ n.reads = <<>>
  BY <1>1, NewIs
<1>3. PICK idx : c = [n EXCEPT !.index = idx] /\ comesFrom(idx, patternOf(json))
                 /\ (idx = <<>> \/ isTypeDbus(data.acc) \/ ~existsRange(argumentsOf(data.acc)))
  <2>1. CASE isTypeDbus(json) /\ existsRange(n.pattern)
             /\ isValidDbusAccessor(json) /\ isValidDbusAccessor(data.acc)
    <3>0. ~isTypeCmdline(json)
      BY <2>1 DEF isTypeDbus, isTypeCmdline, isType
    <3>1. c = [n EXCEPT !.index = determineDeviceIndex(json.object, asString(data.acc.object))]
      BY <1>1, <2>1, <3>0 DEF indexed
    <3>2. json.object = patternOf(json) /\ isTypeDbus(data.acc)
      BY <2>1 DEF patternOf, isValidDbusAccessor
    <3>3. patternOf(json) \in Patterns
      BY PathPatterns
    <3> QED BY <3>1, <3>2, <3>3, DetermineIs
  <2>2. CASE isTypeCmdline(json) /\ existsRange(argumentsOf(json))
             /\ ~existsRange(argumentsOf(data.acc))
    <3>0. ~isTypeDbus(json)
      BY <2>2 DEF isTypeDbus, isTypeCmdline, isType
    <3>1. c = [n EXCEPT !.index = determineDeviceIndex(argumentsOf(json),
                                                       asString(argumentsOf(data.acc)))]
      BY <1>1, <2>2, <3>0 DEF indexed
    <3>2. argumentsOf(json) = patternOf(json)
      BY <3>0 DEF patternOf
    <3>3. patternOf(json) \in Patterns
      BY PathPatterns
    <3> QED BY <2>2, <3>1, <3>2, <3>3, DetermineIs
  <2>3. CASE /\ ~(isTypeDbus(json) /\ existsRange(n.pattern)
                  /\ isValidDbusAccessor(json) /\ isValidDbusAccessor(data.acc))
             /\ ~(isTypeCmdline(json) /\ existsRange(argumentsOf(json))
                  /\ ~existsRange(argumentsOf(data.acc)))
    <3>1. c = n
      BY <1>1, <2>3 DEF indexed
    <3>2. n = [n EXCEPT !.index = <<>>]
      BY <1>2 DEF isCheck, CheckKeys
    <3> QED BY <3>1, <3>2 DEF comesFrom
  <2> QED BY <2>1, <2>2, <2>3
<1>4. idx \in Indexes
  BY <1>3, ComesFromIs
<1>5. /\ c = [key \in CheckKeys |-> c[key]] /\ c.index = idx
      /\ \A key \in CheckKeys \ {"index"} : c[key] = n[key]
  BY <1>2, <1>3 DEF isCheck, CheckKeys
<1>6. isCheck(c)
  BY <1>2, <1>4, <1>5 DEF isCheck, CheckKeys
<1> QED BY <1>2, <1>3, <1>5, <1>6 DEF CheckKeys

\* The reads of a check that has just begun.
isRead(ck, p, json, data, pi) ==
    \/ /\ ck.data.acc = json /\ (isTypeCmdline(json) \/ isTypeDeviceCoreApi(json))
       /\ domainSize(p) > 0 /\ \E m \in Nat : pi = nth(p, m)
    \/ ck.data.acc = data.acc /\ pi = ck.index /\ ~(isTypeDbus(data.acc) /\ hasData(data))

LEMMA PrivCheckIs ==
    ASSUME NEW ck0, isCheck(ck0), ck0.reads = <<>>, NEW json, NEW data, "acc" \in DOMAIN data,
           NEW c, c = privCheck(ck0, json, data)
    PROVE  /\ isCheck(c) /\ c.pattern = ck0.pattern /\ c.index = ck0.index
           /\ \A pi \in Range(c.reads) : isRead(c, c.pattern, json, data, pi)
<1>1. PICK ck : ck = [ck0 EXCEPT !.status = "NotPassed", !.json = json, !.data = data,
                                 !.trigger = IF isEmpty(@.acc) THEN data ELSE @]
  OBVIOUS
<1>2. /\ ck = [key \in CheckKeys |-> ck[key]] /\ ck.data = data /\ ck.pattern = ck0.pattern
      /\ ck.index = ck0.index /\ ck.reads = <<>> /\ ck.asserted = ck0.asserted
  BY <1>1 DEF isCheck, CheckKeys
<1>3. isCheck(ck)
  BY <1>2 DEF isCheck
<1>4. ck.index \in Indexes /\ ck.pattern \in Patterns
  BY <1>3 DEF isCheck
<1>5. PICK device : device = getCurrentDevice(ck)
  OBVIOUS
<1>6. PICK range : range = devRange(ck, json)
  OBVIOUS
<1>7. ASSUME keeps(ck, c) PROVE /\ isCheck(c) /\ c.pattern = ck.pattern /\ c.index = ck.index
                                /\ c.reads = <<>>
  BY <1>2, <1>3, <1>7, KeepsCheck DEF keeps, CheckKeys
<1>8. Range(<<>>) = {}
  BY DEF Range
<1>9. CASE ~existsCheckKey(json)
  <2>1. c = [buildSingleAssertedDeviceName(ck, device, ck.index) EXCEPT !.status = "Passed"]
    BY <1>1, <1>5, <1>9 DEF privCheck
  <2>2. keeps(ck, c)
    BY <1>3, <1>4, <2>1, PassedKeeps DEF isCheck
  <2> QED BY <1>2, <1>7, <1>8, <2>2
<1>10. CASE existsCheckKey(json) /\ range # <<>>
  <2>1. c = [ck EXCEPT !.data = [noData EXCEPT !.acc = json], !.reads = range, !.looping = TRUE]
    BY <1>1, <1>6, <1>10 DEF privCheck
  <2>2. PICK d : d = [noData EXCEPT !.acc = json]
    OBVIOUS
  <2>3. "acc" \in DOMAIN d /\ d.acc = json
    BY <2>2 DEF noData
  <2>4. /\ c = [key \in CheckKeys |-> c[key]] /\ c.data = d /\ c.reads = range
        /\ c.pattern = ck.pattern /\ c.index = ck.index /\ c.asserted = ck.asserted
    BY <1>2, <2>1, <2>2 DEF CheckKeys
  <2>5. PICK p \in Patterns, N \in Nat : p = ck.pattern /\ N = domainSize(p)
    BY <1>4, DimIs, ProductIs DEF domainSize
  <2>6. /\ range = [n \in 1 .. N |-> nth(p, n - 1)]
        /\ isTypeCmdline(json) \/ isTypeDeviceCoreApi(json)
    BY <1>6, <1>10, <2>5 DEF devRange, domainVec
  <2>7. ASSUME NEW n \in 1 .. N PROVE N > 0 /\ n - 1 \in Nat /\ nth(p, n - 1) \in Indexes
    <3>1. N > 0 /\ n - 1 \in Nat
      OBVIOUS
    <3> QED BY <2>5, <3>1, NthIs
  <2>8. range \in Seq(Indexes)
    BY <2>6, <2>7
  <2>9. isCheck(c)
    BY <1>3, <2>3, <2>4, <2>8 DEF isCheck
  <2>10. ASSUME NEW pi \in Range(range) PROVE isRead(c, p, json, data, pi)
    <3>1. PICK n \in 1 .. N : pi = nth(p, n - 1)
      BY <2>6 DEF Range
    <3>2. domainSize(p) > 0 /\ \E m \in Nat : pi = nth(p, m)
      BY <2>5, <2>7, <3>1
    <3>3. c.data.acc = json
      BY <2>3, <2>4
    <3> QED BY <2>6, <3>2, <3>3 DEF isRead
  <2> QED BY <1>2, <2>4, <2>5, <2>9, <2>10
<1>11. CASE existsCheckKey(json) /\ range = <<>>
  <2>1. c = IF isTypeDbus(data.acc) /\ hasData(data) THEN subCheck(ck, device, ck.index)
            ELSE [ck EXCEPT !.reads = <<ck.index>>, !.deviceToRead = device]
    BY <1>1, <1>5, <1>6, <1>11 DEF privCheck
  <2>2. CASE isTypeDbus(data.acc) /\ hasData(data)
    <3>1. keeps(ck, c)
      BY <1>3, <1>4, <2>1, <2>2, SubCheckKeeps
    <3> QED BY <1>2, <1>7, <1>8, <3>1
  <2>3. CASE ~(isTypeDbus(data.acc) /\ hasData(data))
    <3>1. c = [ck EXCEPT !.reads = <<ck.index>>, !.deviceToRead = device]
      BY <2>1, <2>3
    <3>2. /\ c = [key \in CheckKeys |-> c[key]] /\ c.data = data /\ c.reads = <<ck.index>>
          /\ c.pattern = ck.pattern /\ c.index = ck.index /\ c.asserted = ck.asserted
      BY <1>2, <3>1 DEF CheckKeys
    <3>3. <<ck.index>> \in Seq(Indexes) /\ Range(<<ck.index>>) = {ck.index}
      BY <1>4 DEF Range
    <3>4. isCheck(c)
      BY <1>3, <3>2, <3>3 DEF isCheck
    <3> QED BY <1>2, <2>3, <3>2, <3>3, <3>4 DEF isRead
  <2> QED BY <2>2, <2>3
<1> QED BY <1>9, <1>10, <1>11

LEMMA ThrowsIsMisfit ==
    ASSUME NEW acc, isAccessor(acc), NEW q \in Patterns, NEW idx, comesFrom(idx, q),
           readThrows(acc, idx)
    PROVE  misfit(patternOf(acc), q) /\ misfit(q, patternOf(acc))
<1>1. PICK p \in Patterns : p = patternOf(acc) /\ introduceThrows(p, idx)
  <2>1. patternOf(acc) \in Patterns
    BY PathPatterns
  <2>2. CASE isTypeDbus(acc)
    <3>1. ~isTypeCmdline(acc)
      BY <2>2 DEF isTypeDbus, isTypeCmdline, isType
    <3> QED BY <2>1, <2>2, <3>1 DEF readThrows, patternOf, isValidCmdlineAccessor
  <2>3. CASE ~isTypeDbus(acc)
    BY <2>1, <2>3 DEF readThrows, patternOf, isValidDbusAccessor
  <2> QED BY <2>2, <2>3
<1>2. dim(p) > 0 /\ dim(p) = Len(idx) /\ ~checkIsInDomain(p, idx)
  BY <1>1 DEF introduceThrows
<1>3. idx # <<>>
  <2> SUFFICES ASSUME idx = <<>> PROVE FALSE
    OBVIOUS
  <2>1. dim(p) = 0
    BY <1>2
  <2> QED BY <1>2, <2>1
<1>4. PICK m \in Nat : domainSize(q) > 0 /\ idx = nth(q, m)
  BY <1>3 DEF comesFrom
<1> QED BY <1>1, <1>2, <1>4, OutsideIsMisfit

LEMMA NameThrowsIsMisfit ==
    ASSUME NEW p \in Patterns, NEW q \in Patterns, NEW idx, comesFrom(idx, q), nameThrows(p, idx)
    PROVE  misfit(q, p)
<1>1. dim(p) \in Nat /\ dim(p) = Len(idx) /\ ~checkIsInDomain(p, idx)
  BY DimIs DEF nameThrows
<1>2. dim(p) > 0
  <2> SUFFICES ASSUME dim(p) = 0 PROVE FALSE
    BY <1>1
  <2> QED BY <1>1 DEF checkIsInDomain
<1>3. idx # <<>>
  <2> SUFFICES ASSUME idx = <<>> PROVE FALSE
    OBVIOUS
  <2>1. dim(p) = 0
    BY <1>1
  <2> QED BY <1>2, <2>1
<1>4. PICK m \in Nat : domainSize(q) > 0 /\ idx = nth(q, m)
  BY <1>3 DEF comesFrom
<1> QED BY <1>1, <1>2, <1>4, OutsideIsMisfit

\* Reading for the data itself never throws.
LEMMA OwnReadIsSafe ==
    ASSUME NEW data, speaks(data), ~(isTypeDbus(data.acc) /\ hasData(data)), NEW idx,
           idx = <<>> \/ isTypeDbus(data.acc) \/ ~existsRange(argumentsOf(data.acc))
    PROVE  ~readThrows(data.acc, idx)
<1>1. ASSUME isValidDbusAccessor(data.acc) PROVE ~introduceThrows(data.acc.object, idx)
  <2>1. PICK p \in DOMAIN InitWorld : data.acc = placeAccessor(p)
    BY <1>1 DEF speaks, isValidDbusAccessor
  <2>2. data.acc.object = p.target
    BY <2>1 DEF placeAccessor
  <2>3. dim(p.target) = 0
    BY WorldAssumption, StringIs
  <2> QED BY <2>2, <2>3 DEF introduceThrows
<1>2. ASSUME isValidCmdlineAccessor(data.acc) PROVE ~introduceThrows(argumentsOf(data.acc), idx)
  <2>1. ~isTypeDbus(data.acc)
    BY <1>2 DEF isValidCmdlineAccessor, isTypeDbus, isTypeCmdline, isType
  <2>2. CASE idx = <<>>
    <3>1. Len(idx) = 0
      BY <2>2
    <3> QED BY <3>1 DEF introduceThrows
  <2>3. CASE ~existsRange(argumentsOf(data.acc))
    BY <2>3 DEF introduceThrows, existsRange
  <2> QED BY <2>1, <2>2, <2>3
<1> QED BY <1>1, <1>2 DEF readThrows

LEMMA TupleIs ==
    ASSUME NEW ck, ck.index \in Indexes, NEW k \in Nat \cup {unspecified}
    PROVE  tupleOf(ck, k) \in Indexes
<1>1. CASE k \in Nat
  <2>1. tupleOf(ck, k) = <<k>>
    BY <1>1 DEF tupleOf
  <2>2. <<k>> \in Seq(Nat \cup {unspecified}) /\ Len(<<k>>) = 1 /\ <<k>>[1] # unspecified
    BY <1>1 DEF unspecified
  <2> QED BY <2>1, <2>2 DEF Indexes
<1>2. CASE k = unspecified
  BY <1>2 DEF tupleOf, unspecified
<1> QED BY <1>1, <1>2

LEMMA DeviceTupleIs ==
    ASSUME NEW device PROVE <<getDeviceId(device)>> \in Indexes
<1>1. getDeviceId(device) \in Nat
  <2>1. PICK digits : digits = {n \in 0 .. 9 : Contains(device, ToString(n))}
    OBVIOUS
  <2>2. digits \in SUBSET Nat /\ \A n \in digits : n <= 9
    BY <2>1
  <2>3. digits # {} => Max(digits) \in digits
    BY <2>2, MaxIs
  <2> QED BY <2>1, <2>2, <2>3 DEF getDeviceId
<1>2. PICK k \in Nat : k = getDeviceId(device)
  BY <1>1
<1>3. <<k>> \in Seq(Nat \cup {unspecified}) /\ Len(<<k>>) = 1 /\ <<k>>[1] # unspecified
  BY DEF unspecified
<1> QED BY <1>2, <1>3 DEF Indexes

\* A check of an accessor of an event, on data of the item.
LEMMA CheckDataIs ==
    ASSUME NEW p \in Patterns, NEW json, isAccessor(json), NEW data, speaks(data),
           "acc" \in DOMAIN data, NEW c, c = checkData(p, json, data)
    PROVE  /\ isCheck(c) /\ c.pattern = p /\ comesFrom(c.index, patternOf(json))
           /\ \A pi \in Range(c.reads) :
                 readThrows(c.data.acc, pi) => misfit(patternOf(json), p)
<1>1. PICK i : i = indexed(newCheck(p), json, data)
  OBVIOUS
<1>2. /\ isCheck(i) /\ i.pattern = p /\ i.reads = <<>> /\ comesFrom(i.index, patternOf(json))
      /\ i.index = <<>> \/ isTypeDbus(data.acc) \/ ~existsRange(argumentsOf(data.acc))
  BY <1>1, IndexedIs
<1>3. PICK ck : ck = [i EXCEPT !.status = "NotPassed", !.json = json, !.data = data]
  OBVIOUS
<1>4. /\ ck = [key \in CheckKeys |-> ck[key]] /\ ck.data = data /\ ck.pattern = p
      /\ ck.index = i.index /\ ck.reads = <<>> /\ ck.asserted = i.asserted
  BY <1>2, <1>3 DEF isCheck, CheckKeys
<1>5. isCheck(ck)
  BY <1>2, <1>4 DEF isCheck
<1>6. CASE judgesAtOnce(json, data)
  <2>1. \/ c = subCheck(ck, determineDeviceName(p, ck.index), tupleOf(ck, at(ck.index, 0)))
        \/ c = subCheck(ck, data.device, <<getDeviceId(data.device)>>)
    BY <1>1, <1>3, <1>6 DEF checkData
  <2>2. tupleOf(ck, at(ck.index, 0)) \in Indexes
    <3>1. ck.index \in Indexes
      BY <1>5 DEF isCheck
    <3>2. at(ck.index, 0) \in Nat \cup {unspecified}
      BY <3>1, IndexesAre
    <3> QED BY <3>1, <3>2, TupleIs
  <2>3. keeps(ck, c)
    BY <1>5, <2>1, <2>2, DeviceTupleIs, SubCheckKeeps
  <2>4. isCheck(c) /\ c.pattern = p /\ c.index = ck.index /\ c.reads = <<>>
    BY <1>4, <1>5, <2>3, KeepsCheck DEF keeps, CheckKeys
  <2> QED BY <1>2, <1>4, <2>4 DEF Range
<1>7. CASE ~judgesAtOnce(json, data)
  <2>1. c = privCheck(ck, json, data)
    BY <1>1, <1>3, <1>7 DEF checkData
  <2>2. /\ isCheck(c) /\ c.pattern = p /\ c.index = ck.index
        /\ \A pi \in Range(c.reads) : isRead(c, p, json, data, pi)
    BY <1>4, <1>5, <2>1, PrivCheckIs
  <2>3. ASSUME NEW pi \in Range(c.reads), readThrows(c.data.acc, pi)
        PROVE  misfit(patternOf(json), p)
    <3>1. CASE c.data.acc = json /\ domainSize(p) > 0 /\ \E m \in Nat : pi = nth(p, m)
      <4>1. comesFrom(pi, p)
        BY <3>1 DEF comesFrom
      <4> QED BY <2>3, <3>1, <4>1, ThrowsIsMisfit
    <3>2. CASE c.data.acc = data.acc /\ pi = c.index /\ ~(isTypeDbus(data.acc) /\ hasData(data))
      <4>1. ~readThrows(data.acc, pi)
        BY <1>2, <1>4, <2>2, <3>2, OwnReadIsSafe
      <4> QED BY <2>3, <3>2, <4>1
    <3> QED BY <2>2, <3>1, <3>2 DEF isRead
  <2> QED BY <1>2, <1>4, <2>2, <2>3
<1> QED BY <1>6, <1>7

LEMMA CheckDataThrowsIs ==
    ASSUME NEW p \in Patterns, NEW json, isAccessor(json), NEW data, checkDataThrows(p, json, data)
    PROVE  misfit(patternOf(json), p) \/ (judgesAtOnce(json, data) /\ ~existsCheckKey(json))
<1>1. PICK i : i = indexed(newCheck(p), json, data)
  OBVIOUS
<1>2. i.pattern = p /\ comesFrom(i.index, patternOf(json)) /\ patternOf(json) \in Patterns
  <2>1. i.pattern = p /\ comesFrom(i.index, patternOf(json))
    BY <1>1, IndexedIs
  <2> QED BY <2>1, PathPatterns
<1>3. nameThrows(p, i.index) => misfit(patternOf(json), p)
  BY <1>2, NameThrowsIsMisfit
<1> QED BY <1>1, <1>2, <1>3 DEF checkDataThrows, currentDeviceThrows

\* The accessor is checked after the trigger, for the device that gave.
LEMMA AfterTriggerChecks ==
    ASSUME NEW p \in Patterns, NEW json, isAccessor(json), NEW tc, isCheck(tc), tc.pattern = p,
           NEW q \in Patterns, comesFrom(tc.index, q), NEW c, c = checkAfterTrigger(p, json, tc)
    PROVE  /\ isCheck(c) /\ c.pattern = p
           /\ currentDeviceThrows(c) => misfit(q, p)
           /\ \A pi \in Range(c.reads) :
                 readThrows(c.data.acc, pi) =>
                    misfit(patternOf(json), p) \/ misfit(q, patternOf(json))
<1>1. PICK n : n = [newCheck(p) EXCEPT !.trigger = tc.trigger]
  OBVIOUS
<1>2. /\ n = [key \in CheckKeys |-> n[key]] /\ isCheck(n) /\ n.pattern = p /\ n.index = <<>>
      /\ n.reads = <<>>
  <2>1. PICK m : m = newCheck(p)
    OBVIOUS
  <2>2. isCheck(m) /\ m.pattern = p /\ m.index = <<>> /\ m.reads = <<>>
    BY <2>1, NewIs
  <2>3. /\ n = [key \in CheckKeys |-> n[key]]
        /\ \A key \in CheckKeys \ {"trigger"} : n[key] = m[key]
    BY <1>1, <2>1, <2>2 DEF isCheck, CheckKeys
  <2> QED BY <2>2, <2>3 DEF isCheck, CheckKeys
<1>3. PICK data : data = [noData EXCEPT !.acc = json]
  OBVIOUS
<1>4. "acc" \in DOMAIN data /\ data.acc = json
  BY <1>3 DEF noData
<1>5. PICK ck : /\ c = privCheck(ck, json, data) /\ isCheck(ck) /\ ck.reads = <<>>
                /\ ck.pattern = p /\ comesFrom(ck.index, q)
  <2>1. CASE tc.asserted = <<>>
    <3>1. c = privCheck(n, json, data)
      BY <1>1, <1>3, <2>1 DEF checkAfterTrigger
    <3> QED BY <1>2, <3>1 DEF comesFrom
  <2>2. CASE tc.asserted # <<>>
    <3>1. PICK ck : ck = [n EXCEPT !.triggerDevice = tc.asserted[1].device,
                                   !.pattern = tc.pattern, !.index = tc.index]
      OBVIOUS
    <3>2. c = privCheck(ck, json, data)
      BY <1>1, <1>3, <2>2, <3>1 DEF checkAfterTrigger
    <3>3. /\ ck = [key \in CheckKeys |-> ck[key]] /\ ck.pattern = p /\ ck.index = tc.index
          /\ ck.reads = <<>> /\ ck.asserted = n.asserted /\ ck.data = n.data
      BY <1>2, <3>1 DEF CheckKeys
    <3>4. tc.index \in Indexes
      BY DEF isCheck
    <3>5. isCheck(ck)
      BY <1>2, <3>3, <3>4 DEF isCheck
    <3> QED BY <3>2, <3>3, <3>5
  <2> QED BY <2>1, <2>2
<1>6. /\ isCheck(c) /\ c.pattern = p /\ c.index = ck.index
      /\ \A pi \in Range(c.reads) : isRead(c, p, json, data, pi)
  <2>1. "acc" \in DOMAIN data /\ c = privCheck(ck, json, data) /\ isCheck(ck) /\ ck.reads = <<>>
    BY <1>4, <1>5
  <2>2. /\ isCheck(c) /\ c.pattern = ck.pattern /\ c.index = ck.index
        /\ \A pi \in Range(c.reads) : isRead(c, c.pattern, json, data, pi)
    BY <2>1, PrivCheckIs
  <2> QED BY <1>5, <2>2
<1>7. ASSUME currentDeviceThrows(c) PROVE misfit(q, p)
  <2>1. nameThrows(p, c.index) /\ comesFrom(c.index, q)
    BY <1>5, <1>6, <1>7 DEF currentDeviceThrows
  <2> QED BY <2>1, NameThrowsIsMisfit
<1>8. ASSUME NEW pi \in Range(c.reads), readThrows(c.data.acc, pi)
      PROVE  misfit(patternOf(json), p) \/ misfit(q, patternOf(json))
  <2>1. CASE domainSize(p) > 0 /\ \E m \in Nat : pi = nth(p, m)
    <3>1. comesFrom(pi, p)
      BY <2>1 DEF comesFrom
    <3>2. c.data.acc = json
      BY <1>4, <1>6, <1>8 DEF isRead
    <3> QED BY <1>8, <3>1, <3>2, ThrowsIsMisfit
  <2>2. CASE c.data.acc = json /\ pi = c.index
    <3>1. comesFrom(pi, q)
      BY <1>5, <1>6, <2>2
    <3> QED BY <1>8, <2>2, <3>1, ThrowsIsMisfit
  <2> QED BY <1>4, <1>6, <1>8, <2>1, <2>2 DEF isRead
<1> QED BY <1>6, <1>7, <1>8

LEMMA ReadNextIs ==
    ASSUME NEW ck, isCheck(ck), ck.reads # <<>>, NEW values, NEW c, c = readNext(ck, values)
    PROVE  /\ isCheck(c) /\ c.pattern = ck.pattern /\ c.index = ck.index
           /\ c.data.acc = ck.data.acc /\ Range(c.reads) \subseteq Range(ck.reads)
<1>1. PICK pi \in Indexes : pi = Head(ck.reads)
  <2>1. ck.reads \in Seq(Indexes)
    BY DEF isCheck
  <2> QED BY <2>1, HeadTailProperties
<1>2. PICK device : device = IF ck.looping THEN eval(ck.pattern, pi) ELSE ck.deviceToRead
  OBVIOUS
<1>3. PICK value : value = read(ck.data.acc, values, device, pi)
  OBVIOUS
<1>4. PICK r : r = [ck EXCEPT !.reads = Tail(@), !.data.value = value]
  OBVIOUS
<1>5. c = subCheck(r, device, IF ck.looping THEN tupleOf(ck, at(pi, 0)) ELSE ck.index)
  BY <1>1, <1>2, <1>3, <1>4 DEF readNext
<1>6. Tail(ck.reads) \in Seq(Indexes) /\ Range(Tail(ck.reads)) \subseteq Range(ck.reads)
  <2>1. ck.reads \in Seq(Indexes)
    BY DEF isCheck
  <2>2. PICK q \in Seq(Indexes) : q = ck.reads /\ q # <<>>
    BY <2>1
  <2>3. Tail(q) \in Seq(Indexes)
    BY <2>2, HeadTailProperties
  <2>4. q \in Seq(Range(q))
    BY SeqOfRange
  <2> QED BY <2>2, <2>3, <2>4, TailIs
<1>7. /\ r = [key \in CheckKeys |-> r[key]] /\ r.pattern = ck.pattern /\ r.index = ck.index
      /\ r.reads = Tail(ck.reads) /\ r.asserted = ck.asserted
      /\ r.data = [ck.data EXCEPT !.value = value]
  BY <1>4 DEF isCheck, CheckKeys
<1>8. "acc" \in DOMAIN r.data /\ r.data.acc = ck.data.acc
  BY <1>7 DEF isCheck
<1>9. isCheck(r)
  BY <1>6, <1>7, <1>8 DEF isCheck
<1>10. (IF ck.looping THEN tupleOf(ck, at(pi, 0)) ELSE ck.index) \in Indexes
  <2>1. ck.index \in Indexes /\ at(pi, 0) \in Nat \cup {unspecified}
    BY IndexesAre DEF isCheck
  <2> QED BY <2>1, TupleIs
<1>11. keeps(r, c)
  BY <1>5, <1>9, <1>10, SubCheckKeeps
<1>12. /\ isCheck(c) /\ c.pattern = r.pattern /\ c.index = r.index /\ c.data = r.data
       /\ c.reads = r.reads
  BY <1>9, <1>11, KeepsCheck DEF keeps, CheckKeys
<1> QED BY <1>6, <1>7, <1>8, <1>12

-----------------------------------------------------------------------------
(* The worker *)

WorkerKeys == {"pc", "item", "todo", "only", "event", "ck", "trig", "cands"}

\* The paths of an event do not fit, or there is nothing to check against.
isUnfit(n, data) ==
    \/ Mismatched(events[n])
    \/ misfit(patternOf(events[n].trigger), patternOf(events[n].accessor))
    \/ \E v \in DOMAIN views : judgesAtOnce(events[n][v], data) /\ ~existsCheckKey(events[n][v])

isCheckOf(ck, n, item) ==
    /\ n \in Range(item.events) /\ isCheck(ck) /\ ck.pattern = events[n].deviceType
    /\ \A pi \in Range(ck.reads) : readThrows(ck.data.acc, pi) => isUnfit(n, item.data)

isWorker(u) ==
    /\ u = [key \in WorkerKeys |-> u[key]]
    /\ u.pc \in {"pop", "recovery", "detect", "dead"} \cup asserts
    /\ u.pc # "pop" => isItem(u.item)
    /\ u.todo \in Seq(Range(u.todo)) /\ u.only \in Seq(Range(u.only))
    /\ Range(u.todo) \subseteq Range(u.item.events)
    /\ Range(u.only) \subseteq Range(u.item.events)
    /\ u.pc \in asserts => isCheckOf(u.ck, u.event, u.item)
    /\ u.pc = "triggering" => comesFrom(u.ck.index, patternOf(events[u.event].trigger))
    /\ areAsserted(u.ck.asserted) /\ areAsserted(u.trig.asserted)
    /\ u.pc = "dead" => \E n \in Range(u.item.events) : isUnfit(n, u.item.data)

WorkerInv == isWorker(w) /\ (pc # "serve" => w = Idle)

LEMMA IdleIs == isWorker(Idle) /\ Idle.pc = "pop"
<1>1. PICK u : u = Idle
  OBVIOUS
<1>2. /\ u = [key \in WorkerKeys |-> u[key]] /\ u.pc = "pop" /\ u.todo = <<>> /\ u.only = <<>>
      /\ u.ck = newCheck(asPattern(<<>>)) /\ u.trig = newCheck(asPattern(<<>>))
  BY <1>1 DEF Idle, WorkerKeys
<1>3. areAsserted(newCheck(asPattern(<<>>)).asserted)
  BY AsPatternIs, NewIs DEF isCheck
<1>4. <<>> \in Seq(Range(<<>>)) /\ Range(<<>>) = {}
  BY DEF Range
<1>5. "pop" \notin asserts /\ "pop" # "triggering" /\ "pop" # "dead"
  BY DEF asserts
<1> QED BY <1>1, <1>2, <1>3, <1>4, <1>5, Zenon DEF isWorker

LEMMA WorkerStays ==
    ASSUME UNCHANGED <<events, views>> PROVE \A u : isWorker(u) => isWorker(u)'
<1>1. \A item : isItem(item) => isItem(item)'
  BY ItemsStay
<1>2. \A n, data : isUnfit(n, data) <=> isUnfit(n, data)'
  BY DEF isUnfit, Mismatched
<1>3. \A ck, n, item : isCheckOf(ck, n, item) => isCheckOf(ck, n, item)'
  BY <1>2 DEF isCheckOf
<1> QED BY <1>1, <1>2, <1>3 DEF isWorker

\* The events of an item are events of the profile.
LEMMA ItemEvents ==
    ASSUME LoadInv, NEW item, isItem(item), NEW n \in Range(item.events), pc = "serve"
    PROVE  /\ n \in 1 .. Len(events) /\ DOMAIN views = Kinds /\ events[n].deviceType \in Patterns
           /\ \A v \in Kinds : isAccessor(events[n][v]) /\ patternOf(events[n][v]) \in Patterns
<1>1. n \in 1 .. Len(events)
  BY DEF isItem, isDiscovered, wantedBy, LoadInv
<1> QED BY <1>1, EventAccessors, PathPatterns DEF LoadInv, InViews, Kinds

LEMMA BeginIs ==
    ASSUME LoadInv, isWorker(w), w.pc \in {"recovery", "detect"}, w.todo # <<>>, pc = "serve",
           NEW stage \in {"recovering", "checking", "triggering"}, NEW v \in Kinds,
           NEW n, n = Head(w.todo), stage = "triggering" => v = "trigger"
    PROVE  isWorker(begin(stage, n, events[n][v]))
<1>1. isItem(w.item) /\ w = [key \in WorkerKeys |-> w[key]]
  BY DEF isWorker
<1>2. /\ n \in Range(w.item.events) /\ Tail(w.todo) \in Seq(Range(Tail(w.todo)))
      /\ Range(Tail(w.todo)) \subseteq Range(w.item.events)
  BY TailIs DEF isWorker
<1>3. PICK json : json = events[n][v]
  OBVIOUS
<1>4. PICK p \in Patterns : p = events[n].deviceType
  BY <1>1, <1>2, ItemEvents
<1>5. PICK data : data = w.item.data /\ speaks(data) /\ "acc" \in DOMAIN data
  BY <1>1 DEF isItem
<1>6. isAccessor(json) /\ v \in DOMAIN views
  BY <1>1, <1>2, <1>3, ItemEvents
<1>7. misfit(patternOf(json), p) => isUnfit(n, data)
  BY <1>3, <1>4, <1>6 DEF isUnfit, Mismatched
<1>8. CASE checkDataThrows(p, json, data)
  <2>1. isUnfit(n, data)
    BY <1>3, <1>6, <1>7, <1>8, CheckDataThrowsIs DEF isUnfit
  <2>2. PICK u : u = begin(stage, n, events[n][v]) /\ u = [w EXCEPT !.pc = "dead"]
    BY <1>3, <1>4, <1>5, <1>8 DEF begin
  <2>3. /\ u = [key \in WorkerKeys |-> u[key]] /\ u.pc = "dead"
        /\ \A key \in WorkerKeys \ {"pc"} : u[key] = w[key]
    BY <1>1, <2>2 DEF WorkerKeys
  <2>4. "dead" \notin asserts /\ "dead" # "triggering"
    BY DEF asserts
  <2>5. /\ u.item = w.item /\ u.todo = w.todo /\ u.only = w.only /\ u.ck = w.ck /\ u.trig = w.trig
    BY <2>3 DEF WorkerKeys
  <2> QED BY <1>1, <1>2, <1>5, <2>1, <2>2, <2>3, <2>4, <2>5 DEF isWorker
<1>9. CASE ~checkDataThrows(p, json, data)
  <2>1. PICK c : c = checkData(p, json, data)
    OBVIOUS
  <2>2. /\ isCheck(c) /\ c.pattern = p /\ comesFrom(c.index, patternOf(json))
        /\ \A pi \in Range(c.reads) : readThrows(c.data.acc, pi) => misfit(patternOf(json), p)
    <3>1. isAccessor(json) /\ speaks(data) /\ "acc" \in DOMAIN data
      BY <1>5, <1>6
    <3>2. p \in Patterns
      OBVIOUS
    <3>3. isCheck(c)
      BY <2>1, <3>1, <3>2, CheckDataIs
    <3>4. c.pattern = p
      BY <2>1, <3>1, <3>2, CheckDataIs
    <3>5. comesFrom(c.index, patternOf(json))
      BY <2>1, <3>1, <3>2, CheckDataIs
    <3>6. \A pi \in Range(c.reads) : readThrows(c.data.acc, pi) => misfit(patternOf(json), p)
      BY <2>1, <3>1, <3>2, CheckDataIs
    <3> QED BY <3>3, <3>4, <3>5, <3>6
  <2>3. isCheckOf(c, n, w.item)
    BY <1>2, <1>4, <1>5, <1>7, <2>2 DEF isCheckOf
  <2>4. PICK u : /\ u = begin(stage, n, events[n][v])
                 /\ u = [w EXCEPT !.pc = stage, !.event = n, !.todo = Tail(@), !.ck = c]
    BY <1>3, <1>4, <1>5, <1>9, <2>1 DEF begin
  <2>5. /\ u = [key \in WorkerKeys |-> u[key]] /\ u.pc = stage /\ u.item = w.item
        /\ u.todo = Tail(w.todo) /\ u.only = w.only /\ u.ck = c /\ u.event = n /\ u.trig = w.trig
    BY <1>1, <2>4 DEF WorkerKeys
  <2>6. areAsserted(c.asserted) /\ areAsserted(w.trig.asserted)
    BY <2>2 DEF isCheck, isWorker
  <2>7. stage \in asserts /\ stage # "pop" /\ stage # "dead"
    BY DEF asserts
  <2>8. stage = "triggering" => comesFrom(c.index, patternOf(events[n].trigger))
    BY <1>3, <2>2
  <2>9. w.only \in Seq(Range(w.only)) /\ Range(w.only) \subseteq Range(w.item.events)
    BY DEF isWorker
  <2>10. isWorker(u)
    BY <1>1, <1>2, <2>3, <2>5, <2>6, <2>7, <2>8, <2>9 DEF isWorker
  <2> QED BY <2>4, <2>10
<1> QED BY <1>8, <1>9

-----------------------------------------------------------------------------
(* The worker's actions *)

\* The worker is on an item only once the main thread serves.
LEMMA OnItem ==
    ASSUME WorkerInv, w.pc # "pop"
    PROVE  pc = "serve" /\ isItem(w.item) /\ isWorker(w) /\ w = [key \in WorkerKeys |-> w[key]]
BY IdleIs DEF WorkerInv, isWorker

LEMMA WorkerMoves ==
    ASSUME WorkerInv, w.pc # "pop", UNCHANGED mainVars, isWorker(w') PROVE WorkerInv'
<1>1. UNCHANGED <<events, views, pc>>
  BY DEF mainVars, loadVars
<1>2. isWorker(w)'
  <2>1. PICK u : u = w'
    OBVIOUS
  <2>2. isWorker(u)
    BY <2>1
  <2>3. isWorker(u)'
    BY <1>1, <2>2, WorkerStays
  <2> QED BY <2>1, <2>3 DEF isWorker
<1> QED BY <1>1, <1>2, OnItem DEF WorkerInv

\* A worker that only changes where it is, between two checks.
LEMMA WorkerTurns ==
    ASSUME isWorker(w), NEW u, u = [key \in WorkerKeys |-> u[key]],
           u.pc \in {"recovery", "detect", "pop"}, w.pc # "pop",
           u.item = w.item, u.ck = w.ck, u.trig = w.trig,
           u.todo \in Seq(Range(u.todo)), Range(u.todo) \subseteq Range(w.item.events),
           u.only \in Seq(Range(u.only)), Range(u.only) \subseteq Range(w.item.events)
    PROVE  isWorker(u)
<1>1. u.pc \notin asserts /\ u.pc # "triggering" /\ u.pc # "dead"
  BY DEF asserts
<1> QED BY <1>1 DEF isWorker

\* A worker that ends.
LEMMA WorkerDies ==
    ASSUME isWorker(w), w.pc # "pop", NEW u, u = [w EXCEPT !.pc = "dead"],
           \E n \in Range(w.item.events) : isUnfit(n, w.item.data)
    PROVE  isWorker(u)
<1>1. w = [key \in WorkerKeys |-> w[key]]
  BY DEF isWorker
<1>2. /\ u = [key \in WorkerKeys |-> u[key]] /\ u.pc = "dead"
      /\ \A key \in WorkerKeys \ {"pc"} : u[key] = w[key]
  BY <1>1 DEF WorkerKeys
<1>3. "dead" \notin asserts /\ "dead" # "triggering"
  BY DEF asserts
<1>4. /\ u.item = w.item /\ u.todo = w.todo /\ u.only = w.only /\ u.ck = w.ck /\ u.trig = w.trig
  BY <1>2 DEF WorkerKeys
<1> QED BY <1>2, <1>3, <1>4 DEF isWorker

LEMMA PopWorks ==
    ASSUME LoadInv, QueueInv, WorkerInv, Pop PROVE WorkerInv'
<1>1. PICK item : item = Head(queue)
  OBVIOUS
<1>2. isItem(item) /\ pc = "serve"
  BY <1>1, TailIs DEF Pop, QueueInv
<1>3. PICK u : u = w' /\ u = [Idle EXCEPT !.pc = "recovery", !.item = item, !.todo = item.events]
  BY <1>1 DEF Pop
<1>4. Idle = [key \in WorkerKeys |-> Idle[key]] /\ areAsserted(Idle.ck.asserted)
      /\ areAsserted(Idle.trig.asserted) /\ Idle.only = <<>>
  BY IdleIs DEF isWorker, Idle
<1>5. /\ u = [key \in WorkerKeys |-> u[key]] /\ u.pc = "recovery" /\ u.item = item
      /\ u.todo = item.events /\ u.only = Idle.only /\ u.ck = Idle.ck /\ u.trig = Idle.trig
  <2>1. PICK i : i = Idle
    OBVIOUS
  <2>2. /\ i = [key \in WorkerKeys |-> i[key]]
        /\ u = [i EXCEPT !.pc = "recovery", !.item = item, !.todo = item.events]
    BY <1>3, <1>4, <2>1
  <2>3. /\ u = [key \in WorkerKeys |-> u[key]] /\ u.pc = "recovery" /\ u.item = item
        /\ u.todo = item.events /\ u.only = i.only /\ u.ck = i.ck /\ u.trig = i.trig
    BY <2>2 DEF WorkerKeys
  <2> QED BY <2>1, <2>3
<1>6. /\ item.events \in Seq(Range(item.events)) /\ <<>> \in Seq(Range(<<>>))
      /\ Range(<<>>) = {}
  <2>1. item.events \in Seq(Nat)
    BY <1>2 DEF isItem, isDiscovered
  <2> QED BY <2>1 DEF Range
<1>7. "recovery" \notin asserts /\ "recovery" # "triggering" /\ "recovery" # "dead"
  BY DEF asserts
<1>8. isWorker(u)
  <2>1. u.only \in Seq(Range(u.only)) /\ Range(u.only) \subseteq Range(u.item.events)
    BY <1>4, <1>5, <1>6
  <2> QED BY <1>2, <1>4, <1>5, <1>6, <1>7, <2>1 DEF isWorker
<1>9. UNCHANGED <<events, views, pc>>
  BY DEF Pop, mainVars, loadVars
<1>10. isWorker(u)'
  BY <1>8, <1>9, WorkerStays
<1> QED BY <1>2, <1>3, <1>9, <1>10 DEF WorkerInv, isWorker

LEMMA RecoveryNextWorks ==
    ASSUME LoadInv, WorkerInv, RecoveryNext PROVE WorkerInv'
<1>1. /\ pc = "serve" /\ isWorker(w) /\ w = [key \in WorkerKeys |-> w[key]]
      /\ w.pc = "recovery" /\ UNCHANGED mainVars
  BY OnItem DEF RecoveryNext
<1>2. /\ w.only \in Seq(Range(w.only)) /\ Range(w.only) \subseteq Range(w.item.events)
      /\ w.todo \in Seq(Range(w.todo)) /\ Range(w.todo) \subseteq Range(w.item.events)
  BY <1>1 DEF isWorker
<1>3. CASE w.todo = <<>>
  <2>1. PICK u : u = w' /\ u = [w EXCEPT !.pc = "detect", !.todo = w.only]
    BY <1>3 DEF RecoveryNext
  <2>2. /\ u = [key \in WorkerKeys |-> u[key]] /\ u.pc = "detect" /\ u.item = w.item
        /\ u.ck = w.ck /\ u.trig = w.trig /\ u.todo = w.only /\ u.only = w.only
    BY <1>1, <2>1 DEF WorkerKeys
  <2>3. isWorker(u)
    BY <1>1, <1>2, <2>2, WorkerTurns
  <2> QED BY <1>1, <2>1, <2>3, WorkerMoves
<1>4. CASE w.todo # <<>>
  <2>1. PICK n : n = Head(w.todo)
    OBVIOUS
  <2>2. \/ w' = begin("recovering", n, events[n]["recovery"])
        \/ w' = [w EXCEPT !.only = Append(@, n), !.todo = Tail(@)]
    BY <1>4, <2>1 DEF RecoveryNext
  <2>3. CASE w' = begin("recovering", n, events[n]["recovery"])
    <3>1. isWorker(begin("recovering", n, events[n]["recovery"]))
      BY <1>1, <1>4, <2>1, BeginIs DEF Kinds
    <3> QED BY <1>1, <2>3, <3>1, WorkerMoves
  <2>4. CASE w' = [w EXCEPT !.only = Append(@, n), !.todo = Tail(@)]
    <3>1. PICK u : u = w' /\ u = [w EXCEPT !.only = Append(w.only, n), !.todo = Tail(w.todo)]
      BY <1>1, <2>4 DEF WorkerKeys
    <3>2. /\ u = [key \in WorkerKeys |-> u[key]] /\ u.pc = "recovery" /\ u.item = w.item
          /\ u.ck = w.ck /\ u.trig = w.trig /\ u.todo = Tail(w.todo) /\ u.only = Append(w.only, n)
      BY <1>1, <3>1 DEF WorkerKeys
    <3>3. /\ Tail(w.todo) \in Seq(Range(Tail(w.todo))) /\ n \in Range(w.todo)
          /\ Range(Tail(w.todo)) \subseteq Range(w.todo)
      BY <1>2, <1>4, <2>1, TailIs
    <3>4. /\ Append(w.only, n) \in Seq(Range(Append(w.only, n)))
          /\ Range(Append(w.only, n)) = Range(w.only) \cup {n}
      BY <1>2, AppendIs
    <3>5. isWorker(u)
      BY <1>1, <1>2, <3>2, <3>3, <3>4, WorkerTurns
    <3> QED BY <1>1, <3>1, <3>5, WorkerMoves
  <2> QED BY <2>2, <2>3, <2>4
<1> QED BY <1>3, <1>4

LEMMA RecoveredWorks ==
    ASSUME WorkerInv, Recovered PROVE WorkerInv'
<1>1. /\ isWorker(w) /\ w = [key \in WorkerKeys |-> w[key]]
      /\ w.pc = "recovering" /\ UNCHANGED mainVars
  BY OnItem DEF Recovered
<1>2. /\ w.only \in Seq(Range(w.only)) /\ Range(w.only) \subseteq Range(w.item.events)
      /\ w.todo \in Seq(Range(w.todo)) /\ Range(w.todo) \subseteq Range(w.item.events)
      /\ w.event \in Range(w.item.events)
  BY <1>1 DEF isWorker, isCheckOf, asserts
<1>3. PICK u : /\ u = w'
               /\ \/ u = [w EXCEPT !.pc = "recovery", !.only = Append(@, w.event)]
                  \/ \E cands : u = [w EXCEPT !.pc = "recovery", !.cands = cands]
  BY DEF Recovered
<1>4. /\ u = [key \in WorkerKeys |-> u[key]] /\ u.pc = "recovery" /\ u.item = w.item
      /\ u.ck = w.ck /\ u.trig = w.trig /\ u.todo = w.todo
      /\ u.only = Append(w.only, w.event) \/ u.only = w.only
  BY <1>1, <1>3 DEF WorkerKeys
<1>5. /\ Append(w.only, w.event) \in Seq(Range(Append(w.only, w.event)))
      /\ Range(Append(w.only, w.event)) = Range(w.only) \cup {w.event}
  BY <1>2, AppendIs
<1>6. isWorker(u)
  BY <1>1, <1>2, <1>4, <1>5, WorkerTurns
<1> QED BY <1>1, <1>3, <1>6, WorkerMoves

LEMMA DetectNextWorks ==
    ASSUME LoadInv, WorkerInv, DetectNext PROVE WorkerInv'
<1>1. /\ pc = "serve" /\ isWorker(w) /\ w.pc = "detect" /\ w.todo # <<>> /\ UNCHANGED mainVars
  BY OnItem DEF DetectNext
<1>2. PICK n : n = Head(w.todo)
  OBVIOUS
<1>3. \/ w' = begin("checking", n, events[n]["accessor"])
      \/ w' = begin("checking", n, events[n]["trigger"])
      \/ w' = begin("triggering", n, events[n]["trigger"])
  BY <1>2 DEF DetectNext
<1>4. "accessor" \in Kinds /\ "trigger" \in Kinds
  BY DEF Kinds
<1>5. isWorker(begin("checking", n, events[n]["accessor"]))
  BY <1>1, <1>2, <1>4, BeginIs
<1>6. isWorker(begin("checking", n, events[n]["trigger"]))
  BY <1>1, <1>2, <1>4, BeginIs
<1>7. isWorker(begin("triggering", n, events[n]["trigger"]))
  BY <1>1, <1>2, <1>4, BeginIs
<1> QED BY <1>1, <1>3, <1>5, <1>6, <1>7, WorkerMoves

LEMMA CheckedWorks ==
    ASSUME WorkerInv, Checked \/ Detected PROVE WorkerInv'
<1>1. /\ isWorker(w) /\ w = [key \in WorkerKeys |-> w[key]]
      /\ w.pc # "pop" /\ UNCHANGED mainVars
  BY OnItem DEF Checked, Detected
<1>2. PICK u : /\ u = w'
               /\ \E stage \in {"detect", "pop"} :
                     \E cands : u = [w EXCEPT !.pc = stage, !.cands = cands]
  <2>1. CASE Detected
    <3>1. w' = [w EXCEPT !.pc = "pop", !.cands = w.cands]
      BY <1>1, <2>1 DEF Detected, WorkerKeys
    <3> QED BY <3>1
  <2>2. CASE Checked
    BY <2>2 DEF Checked
  <2> QED BY <2>1, <2>2
<1>3. /\ u = [key \in WorkerKeys |-> u[key]] /\ u.pc \in {"detect", "pop"} /\ u.item = w.item
      /\ u.ck = w.ck /\ u.trig = w.trig /\ u.todo = w.todo /\ u.only = w.only
  BY <1>1, <1>2 DEF WorkerKeys
<1>4. isWorker(u)
  BY <1>1, <1>3, WorkerTurns DEF isWorker
<1> QED BY <1>1, <1>2, <1>4, WorkerMoves

LEMMA ReadWorks ==
    ASSUME WorkerInv, Read PROVE WorkerInv'
<1>1. /\ isWorker(w) /\ w = [key \in WorkerKeys |-> w[key]] /\ UNCHANGED mainVars
      /\ w.pc \in asserts /\ w.pc # "pop" /\ w.pc # "dead" /\ w.ck.reads # <<>>
  BY OnItem DEF Read, asserts, isDone
<1>2. PICK ck : ck = w.ck
  OBVIOUS
<1>3. isCheckOf(ck, w.event, w.item) /\ isCheck(ck) /\ ck.reads # <<>>
  BY <1>1, <1>2 DEF isWorker, isCheckOf
<1>4. Head(ck.reads) \in Range(ck.reads)
  <2>1. PICK r \in Seq(Indexes) : r = ck.reads
    BY <1>3 DEF isCheck
  <2>2. r \in Seq(Range(r))
    BY DEF Range
  <2> QED BY <1>3, <2>1, <2>2, TailIs
<1>5. CASE nextReadThrows(ck)
  <2>1. PICK u : u = w' /\ u = [w EXCEPT !.pc = "dead"]
    BY <1>2, <1>5 DEF Read
  <2>2. \E n \in Range(w.item.events) : isUnfit(n, w.item.data)
    BY <1>3, <1>4, <1>5 DEF isCheckOf, nextReadThrows
  <2>3. isWorker(u)
    BY <1>1, <2>1, <2>2, WorkerDies
  <2> QED BY <1>1, <2>1, <2>3, WorkerMoves
<1>6. CASE ~nextReadThrows(ck)
  <2>1. PICK c : c = readNext(ck, world)
    OBVIOUS
  <2>2. PICK u : u = w' /\ u = [w EXCEPT !.ck = c]
    BY <1>1, <1>2, <1>6, <2>1 DEF Read
  <2>3. /\ u = [key \in WorkerKeys |-> u[key]] /\ u.pc = w.pc /\ u.item = w.item
        /\ u.ck = c /\ u.trig = w.trig /\ u.todo = w.todo /\ u.only = w.only /\ u.event = w.event
    BY <1>1, <2>2 DEF WorkerKeys
  <2>4. /\ isCheck(c) /\ c.pattern = ck.pattern /\ c.index = ck.index
        /\ c.data.acc = ck.data.acc /\ Range(c.reads) \subseteq Range(ck.reads)
    BY <1>3, <2>1, ReadNextIs
  <2>5. isCheckOf(c, w.event, w.item)
    BY <1>3, <2>4 DEF isCheckOf
  <2>6. areAsserted(c.asserted) /\ areAsserted(w.trig.asserted) /\ isItem(w.item)
    BY <1>1, <2>4 DEF isCheck, isWorker
  <2>7. /\ w.todo \in Seq(Range(w.todo)) /\ Range(w.todo) \subseteq Range(w.item.events)
        /\ w.only \in Seq(Range(w.only)) /\ Range(w.only) \subseteq Range(w.item.events)
        /\ w.pc = "triggering" => comesFrom(ck.index, patternOf(events[w.event].trigger))
    BY <1>1, <1>2 DEF isWorker
  <2>8. isWorker(u)
    BY <1>1, <2>3, <2>4, <2>5, <2>6, <2>7 DEF isWorker
  <2> QED BY <1>1, <2>2, <2>8, WorkerMoves
<1> QED BY <1>5, <1>6

LEMMA TriggeredWorks ==
    ASSUME LoadInv, WorkerInv, Triggered PROVE WorkerInv'
<1>1. /\ isWorker(w) /\ w = [key \in WorkerKeys |-> w[key]] /\ UNCHANGED mainVars
      /\ w.pc = "triggering" /\ isItem(w.item) /\ pc = "serve"
  BY OnItem DEF Triggered
<1>2. PICK tc : tc = w.ck
  OBVIOUS
<1>3. PICK n : n = w.event
  OBVIOUS
<1>4. isCheckOf(tc, n, w.item) /\ comesFrom(tc.index, patternOf(events[n].trigger))
  BY <1>1, <1>2, <1>3 DEF isWorker, asserts
<1>5. /\ n \in Range(w.item.events) /\ isCheck(tc) /\ tc.pattern = events[n].deviceType
  BY <1>4 DEF isCheckOf
<1>6. /\ DOMAIN views = Kinds /\ events[n].deviceType \in Patterns
      /\ isAccessor(events[n]["accessor"]) /\ patternOf(events[n]["trigger"]) \in Patterns
  BY <1>1, <1>5, ItemEvents DEF Kinds
<1>7. PICK p \in Patterns : p = events[n].deviceType
  BY <1>6
<1>8. PICK q \in Patterns : q = patternOf(events[n].trigger)
  BY <1>6
<1>9. PICK json : json = events[n].accessor /\ isAccessor(json)
  BY <1>6
<1>10. PICK c : c = checkAfterTrigger(p, json, tc)
  OBVIOUS
<1>11. comesFrom(tc.index, q) /\ tc.pattern = p
  BY <1>4, <1>5, <1>7, <1>8
<1>12. isCheck(c) /\ c.pattern = p
  BY <1>5, <1>9, <1>10, <1>11, AfterTriggerChecks
<1>13. currentDeviceThrows(c) => misfit(q, p)
  BY <1>5, <1>9, <1>10, <1>11, AfterTriggerChecks
<1>14. \A pi \in Range(c.reads) : readThrows(c.data.acc, pi) =>
          misfit(patternOf(json), p) \/ misfit(q, patternOf(json))
  BY <1>5, <1>9, <1>10, <1>11, AfterTriggerChecks
<1>15. /\ misfit(q, p) => isUnfit(n, w.item.data)
       /\ misfit(patternOf(json), p) => isUnfit(n, w.item.data)
       /\ misfit(q, patternOf(json)) => isUnfit(n, w.item.data)
  <2>1. "trigger" \in DOMAIN views /\ "accessor" \in DOMAIN views
    BY <1>6 DEF Kinds
  <2> QED BY <1>7, <1>8, <1>9, <2>1 DEF isUnfit, Mismatched
<1>16. w' = IF ~passed(tc) THEN [w EXCEPT !.pc = "detect"]
            ELSE IF currentDeviceThrows(c) THEN [w EXCEPT !.pc = "dead"]
            ELSE [w EXCEPT !.pc = "accessing", !.trig = tc, !.ck = c]
  BY <1>2, <1>3, <1>7, <1>9, <1>10 DEF Triggered, Event
<1>17. CASE ~passed(tc)
  <2>1. PICK u : u = w' /\ u = [w EXCEPT !.pc = "detect"]
    BY <1>16, <1>17
  <2>2. /\ u = [key \in WorkerKeys |-> u[key]] /\ u.pc = "detect" /\ u.item = w.item
        /\ u.ck = w.ck /\ u.trig = w.trig /\ u.todo = w.todo /\ u.only = w.only
    BY <1>1, <2>1 DEF WorkerKeys
  <2>3. isWorker(u)
    BY <1>1, <2>2, WorkerTurns DEF isWorker
  <2> QED BY <1>1, <2>1, <2>3, WorkerMoves
<1>18. CASE passed(tc) /\ currentDeviceThrows(c)
  <2>1. PICK u : u = w' /\ u = [w EXCEPT !.pc = "dead"]
    BY <1>16, <1>18
  <2>2. isWorker(u)
    BY <1>1, <1>5, <1>13, <1>15, <1>18, <2>1, WorkerDies
  <2> QED BY <1>1, <2>1, <2>2, WorkerMoves
<1>19. CASE passed(tc) /\ ~currentDeviceThrows(c)
  <2>1. PICK u : u = w' /\ u = [w EXCEPT !.pc = "accessing", !.trig = tc, !.ck = c]
    BY <1>16, <1>19
  <2>2. /\ u = [key \in WorkerKeys |-> u[key]] /\ u.pc = "accessing" /\ u.item = w.item
        /\ u.ck = c /\ u.trig = tc /\ u.todo = w.todo /\ u.only = w.only /\ u.event = n
    BY <1>1, <1>3, <2>1 DEF WorkerKeys
  <2>3. isCheckOf(c, n, w.item)
    BY <1>5, <1>7, <1>12, <1>14, <1>15 DEF isCheckOf
  <2>4. areAsserted(c.asserted) /\ areAsserted(tc.asserted)
    BY <1>5, <1>12 DEF isCheck
  <2>5. /\ w.todo \in Seq(Range(w.todo)) /\ Range(w.todo) \subseteq Range(w.item.events)
        /\ w.only \in Seq(Range(w.only)) /\ Range(w.only) \subseteq Range(w.item.events)
    BY <1>1 DEF isWorker
  <2>6. "accessing" \in asserts
    BY DEF asserts
  <2>7. isWorker(u)
    BY <1>1, <2>2, <2>3, <2>4, <2>5, <2>6 DEF isWorker
  <2> QED BY <1>1, <2>1, <2>7, WorkerMoves
<1> QED BY <1>17, <1>18, <1>19

LEMMA WorkerStep ==
    ASSUME LoadInv, QueueInv, WorkerInv, [Next]_vars PROVE WorkerInv'
<1>1. CASE Load
  <2>1. UNCHANGED w /\ w = Idle
    BY <1>1 DEF Load, LoadEntry, NextAccessor, SetDigit, PushValue, EmplaceValues, PushViews,
                Loaded, Subscribe, Ready, serveVars, WorkerInv
  <2>2. isWorker(Idle)'
    <3>1. PICK u : u = Idle
      OBVIOUS
    <3>2. u.pc = "pop" /\ isWorker(u) /\ u.todo = <<>> /\ u.only = <<>>
      BY <3>1, IdleIs DEF Idle
    <3>3. Range(<<>>) = {} /\ "pop" \notin asserts /\ "pop" # "triggering" /\ "pop" # "dead"
      BY DEF Range, asserts
    <3>4. isWorker(u)'
      BY <3>2, <3>3 DEF isWorker
    <3> QED BY <3>1, <3>4
  <2> QED BY <2>1, <2>2 DEF WorkerInv
<1>2. CASE Change \/ Selftested \/ UNCHANGED vars
  <2>1. UNCHANGED <<events, views, pc, w>>
    BY <1>2 DEF Change, Selftested, vars, loadVars
  <2>2. isWorker(w)'
    <3>1. PICK u : u = w
      OBVIOUS
    <3>2. isWorker(u)'
      BY <2>1, <3>1, WorkerStays DEF WorkerInv
    <3> QED BY <2>1, <3>1, <3>2 DEF isWorker
  <2> QED BY <2>1, <2>2 DEF WorkerInv
<1>3. CASE Worker
  BY <1>3, PopWorks, RecoveryNextWorks, RecoveredWorks, DetectNextWorks, ReadWorks,
     TriggeredWorks, CheckedWorks DEF Worker
<1> QED BY <1>1, <1>2, <1>3 DEF Next

-----------------------------------------------------------------------------
(* The invariant *)

WorldInv ==
    /\ DOMAIN world = DOMAIN InitWorld /\ DOMAIN seen = DOMAIN InitWorld
    /\ \A p \in DOMAIN InitWorld : world[p] \in Variants[p] /\ world[p] \in seen[p]
    /\ changes \in 0 .. MaxChanges

LEMMA WorldStep == ASSUME WorldInv, [Next]_vars PROVE WorldInv'
<1>1. CASE Change
  <2>1. PICK p \in DOMAIN world : \E variant \in Variants[p] :
           /\ world' = [world EXCEPT ![p] = variant]
           /\ seen' = [seen EXCEPT ![p] = @ \cup {variant}]
    BY <1>1 DEF Change
  <2>2. PICK variant \in Variants[p] :
           /\ world' = [world EXCEPT ![p] = variant]
           /\ seen' = [seen EXCEPT ![p] = @ \cup {variant}]
    BY <2>1
  <2>3. changes' \in 0 .. MaxChanges
    BY <1>1, BoundAssumption DEF Change, WorldInv
  <2> QED BY <2>2, <2>3 DEF WorldInv
<1>2. CASE Selftested
  BY <1>2, BoundAssumption DEF Selftested, WorldInv
<1>3. CASE Pop
  BY <1>3 DEF Pop, mainVars, WorldInv
<1>4. CASE UNCHANGED <<world, seen, changes>>
  BY <1>4 DEF WorldInv
<1>5. Load \/ RecoveryNext \/ Recovered \/ DetectNext \/ Read \/ Triggered \/ Checked \/ Detected
      \/ UNCHANGED vars => UNCHANGED <<world, seen, changes>>
  BY DEF Load, LoadEntry, NextAccessor, SetDigit, PushValue, EmplaceValues, PushViews, Loaded,
         Subscribe, Ready, serveVars, RecoveryNext, Recovered, DetectNext, Read, Triggered,
         Checked, Detected, mainVars, vars
<1> QED BY <1>1, <1>2, <1>3, <1>4, <1>5 DEF Next, Worker

Inv == /\ LoadInv /\ QueueInv /\ IteratorInv /\ FilterInv /\ HandlersInv /\ WorkerInv
       /\ WorldInv

\* From the first entry of the profile to the last item: everything the parts of
\* the daemon leave to one another holds always.
THEOREM MatchingInvariant == Spec => []Inv
<1>1. Init => Inv
  <2> SUFFICES ASSUME Init PROVE Inv
    OBVIOUS
  <2>1. Range(<<>>) = {} /\ <<>> \in Seq({}) /\ Len(<<>>) = 0
    BY DEF Range
  <2>2. QueueInv
    BY <2>1, BoundAssumption DEF Init, QueueInv
  <2>3. HandlersInv
    BY <2>1 DEF Init, HandlersInv, Distinct
  <2>4. IteratorInv
    BY DEF Init, IteratorInv
  <2>5. WorkerInv
    BY IdleIs DEF Init, WorkerInv
  <2>6. WorldInv
    BY WorldAssumption, BoundAssumption DEF Init, WorldInv
  <2> QED BY <2>2, <2>3, <2>4, <2>5, <2>6, LoadInit, FilterInit DEF Inv
<1>2. Inv /\ [Next]_vars => Inv'
  BY LoadStep, QueueStep, IteratorStep, FilterStep, HandlersStep, WorkerStep, WorldStep DEF Inv
<1> QED BY <1>1, <1>2, PTL DEF Spec

LEMMA TypesHold == ASSUME Inv PROVE TypeOK
<1>1. /\ pc \in {"entry", "accessor", "digit", "views", "subscribe", "serve", "failed"}
      /\ entry \in 1 .. Len(profile) + 1 /\ part \in 1 .. 4
  <2>1. Len(profile) \in Nat /\ Len(events) \in Nat
    <3>1. profile \in Seq(Range(profile)) /\ events \in Seq(Range(events))
      BY ProfilesAssumption DEF Inv, LoadInv
    <3> QED BY <3>1
  <2> QED BY <2>1 DEF Inv, LoadInv, loading
<1>2. it.master \in Nat /\ it.mi \in Nat /\ it.i \in Nat \cup {-1} /\ isPatternIndex(it.index)
  <2>1. CASE pc # "digit"
    <3>1. <<>> \in Indexes
      BY DEF Indexes
    <3> QED BY <2>1, <3>1, IndexesAre DEF Inv, IteratorInv, NoIterator
  <2>2. CASE pc = "digit"
    <3>1. current.object \in Patterns
      BY <2>2, CurrentIs DEF Inv, LoadInv, IteratorInv
    <3>2. dim(current.object) \in Nat
      BY <3>1, DimIs
    <3>3. it.index \in Indexes /\ it.i \in -1 .. dim(current.object) - 1
          /\ it.master \in Nat /\ it.mi \in Nat
      BY <2>2 DEF Inv, IteratorInv
    <3> QED BY <3>2, <3>3, IndexesAre
  <2> QED BY <2>1, <2>2
<1>3. \A v \in DOMAIN views : Range(views[v]) \subseteq DOMAIN events
  <2>1. Len(events) \in Nat /\ DOMAIN events = 1 .. Len(events)
    BY DEF Inv, LoadInv
  <2>2. \E k \in 0 .. Len(events) : InViews(k)
    <3>1. LoadInv
      BY DEF Inv
    <3>2. CASE pc \in loading
      <4>1. InViews(entry - 1) /\ entry - 1 \in 0 .. Len(events)
        BY <2>1, <3>1, <3>2 DEF LoadInv
      <4> QED BY <4>1
    <3>3. CASE pc \in {"entry", "subscribe", "serve"}
      <4>1. InViews(Len(events))
        BY <3>1, <3>3 DEF LoadInv
      <4>2. Len(events) \in 0 .. Len(events)
        BY <2>1
      <4> QED BY <4>1, <4>2
    <3>4. CASE pc = "failed"
      BY <3>1, <3>4 DEF LoadInv
    <3> QED BY <3>1, <3>2, <3>3, <3>4 DEF LoadInv
  <2> QED BY <2>1, <2>2 DEF InViews
<1>4. /\ \A p \in DOMAIN world : world[p] \in Variants[p] /\ world[p] \in seen[p]
      /\ Len(queue) <= QueueSize /\ changes \in 0 .. MaxChanges
  BY DEF Inv, WorldInv, QueueInv
<1>5. /\ w.pc \in {"pop", "recovery", "detect", "dead"} \cup asserts
      /\ Range(w.todo) \cup Range(w.only) \subseteq Range(w.item.events)
      /\ w.pc \in asserts => w.event \in Range(w.item.events)
  BY DEF Inv, WorkerInv, isWorker, isCheckOf
<1>6. \A k \in DOMAIN w.ck.asserted : isPatternIndex(w.ck.asserted[k].deviceIndexTuple)
  BY IndexesAre DEF Inv, WorkerInv, isWorker, areAsserted, Range
<1> QED BY <1>1, <1>2, <1>3, <1>4, <1>5, <1>6 DEF TypeOK

\* The filter and the subscriptions are exact when loading ends, and the state
\* keeps its shape.
THEOREM LoadingIsRight == Spec => []LoadedOK
<1>1. ASSUME Inv PROVE LoadedOK
  BY <1>1, TypesHold, FilterIsExact, SubscribedIsOnce DEF Inv, LoadedOK, WorldInv
<1> QED BY <1>1, MatchingInvariant, PTL

\* The worker only dies of a profile whose paths do not fit one another, or of
\* a value that nothing checks.
THEOREM WorkerDiesOfMismatch == Spec => []DeathIsMismatch
<1>1. ASSUME Inv PROVE DeathIsMismatch
  BY <1>1 DEF Inv, WorkerInv, isWorker, isUnfit, DeathIsMismatch
<1> QED BY <1>1, MatchingInvariant, PTL

=============================================================================
