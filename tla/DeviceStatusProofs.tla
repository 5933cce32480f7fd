------------------------- MODULE DeviceStatusProofs -------------------------
(***************************************************************************)
(* Proofs about DeviceStatus for any number of threads, devices, events    *)
(* and restarts.                                                           *)
(*                                                                         *)
(* CacheOK and CompletedIsReported are about states in which nobody is in  *)
(* the middle of anything; StatusInv says what a thread that is knows:     *)
(* which entry it refers to (RefersToName), that the file it has truncated *)
(* or written is still as it left it (WrittenStays), and what is owed to   *)
(* the first device of its list (FirstIsKept).  For FileKeepsHighest,      *)
(* HighestInv says what a thread that has passed the test alone may rely   *)
(* on.                                                                     *)
(***************************************************************************)
EXTENDS DeviceStatus, FiniteSetTheorems, SequenceTheorems, TLAPS

Duplicate(i) == \E j \in DOMAIN cache \ {i} : cache[j].name = cache[i].name

Updating(n) == \E t \in Threads : thr[t].pc = "update" /\ Head(thr[t].names) = n

\* In the loop there is a name left.
NamesLeft(t) == t \in Active => thr[t].names # <<>>

RefersToName(t) ==
    thr[t].pc \in {"compare", "lock", "write", "dump", "update"} =>
        /\ thr[t].ref.at \in DOMAIN cache
        /\ cache[thr[t].ref.at].name = Head(thr[t].names)

WrittenStays(t) ==
    /\ thr[t].pc = "dump" => file[Head(thr[t].names)] = Cut
    /\ thr[t].pc = "update" => file[Head(thr[t].names)] \in {thr[t].sev, Cut}

FirstIsKept(t) ==
    ~undefined /\ thr[t].all # <<>> =>
        \/ file[Head(thr[t].all)] \in Opened
        \/ t \in Active /\ Head(thr[t].names) = Head(thr[t].all)

ThreadKept(t) ==
    NamesLeft(t) /\ RefersToName(t) /\ WrittenStays(t) /\ FirstIsKept(t)

\* CacheMatchesFile with the mutex taken: only the name being updated differs.
MatchesOrUpdating ==
    ~undefined =>
        \A i \in DOMAIN cache :
            \/ cache[i].health \in {0, file[cache[i].name]}
            \/ file[cache[i].name] = Cut
            \/ Duplicate(i)
            \/ Updating(cache[i].name)

StatusInv ==
    /\ TypeOK
    /\ CacheBacked
    /\ \A t \in Threads : ThreadKept(t)
    /\ MatchesOrUpdating

\* For FileKeepsHighest.  Before the first restart the cache knows of every
\* severity in a file; a thread without company has tested against it.
FileIsCached ==
    restarts = 0 /\ ~undefined =>
        \A n \in Names :
            \/ file[n] <= 0
            \/ Updating(n)
            \/ \E i \in DOMAIN cache :
                  cache[i].name = n /\ (cache[i].health = file[n] \/ Duplicate(i))

AloneIsAlone == \A t \in Active : thr[t].alone => Active = {t}

AloneTested ==
    \A t \in Threads :
        /\ thr[t].pc \in {"lock", "write"} /\ thr[t].alone
        /\ restarts = 0 /\ ~undefined
        /\ ~Duplicate(thr[t].ref.at)
        => file[Head(thr[t].names)] <= thr[t].sev

HighestInv == FileIsCached /\ AloneIsAlone /\ AloneTested

-----------------------------------------------------------------------------
(* Records of threads                                                      *)

LEMMA NewThreadTyped ==
    /\ NewThread \in ThreadStates
    /\ NewThread.pc = "new" /\ NewThread.all = <<>> /\ NewThread.ref = NoRef
    /\ NoRef.at = 0 /\ NoRef.moved = 0
<1>1. <<>> \in Seq(Names)
  OBVIOUS
<1>2. NoRef \in [at : Nat, moved : Nat] /\ NoRef.at = 0 /\ NoRef.moved = 0
  BY DEF NoRef
<1> QED
  BY <1>1, <1>2 DEF NewThread, ThreadStates, PCs, Severities

LEMMA ReturnIs ==
    ASSUME TypeOK, NEW t \in Threads, NEW code \in {"succ", "error"}
    PROVE  /\ Return(t, code) \in ThreadStates
           /\ Return(t, code).pc = code /\ Return(t, code).ref = NoRef
           /\ Return(t, code).all = IF code = "succ" THEN thr[t].all ELSE <<>>
<1> DEFINE all == IF code = "succ" THEN thr[t].all ELSE <<>>
<1>1. all \in Seq(Names)
  BY DEF TypeOK, ThreadStates
<1>2. Return(t, code) = [NewThread EXCEPT !.pc = code, !.all = all]
  BY DEF Return
<1> HIDE DEF all
<1>3. /\ Return(t, code) \in ThreadStates
      /\ Return(t, code).pc = code /\ Return(t, code).ref = NoRef
      /\ Return(t, code).all = all
  BY <1>1, <1>2, NewThreadTyped DEF ThreadStates, PCs
<1> QED
  BY <1>3 DEF all

LEMMA ContinueIs ==
    ASSUME TypeOK, NEW t \in Threads, NEW names \in Seq(Names)
    PROVE  /\ Continue(t, names) \in ThreadStates
           /\ Continue(t, names).ref = NoRef
           /\ Continue(t, names).all = thr[t].all
           /\ names = <<>> => Continue(t, names).pc = "succ"
           /\ names # <<>> => /\ Continue(t, names).pc = "scan"
                              /\ Continue(t, names).names = names
                              /\ Continue(t, names).alone = thr[t].alone
<1>1. CASE names = <<>>
  BY <1>1, ReturnIs DEF Continue
<1>2. CASE names # <<>>
  BY <1>2, NewThreadTyped DEF Continue, TypeOK, ThreadStates, PCs, NoRef
<1> QED
  BY <1>1, <1>2

\* The flag for the properties changes nothing else.
LEMMA AloneIs ==
    ASSUME NEW r \in ThreadStates, NEW x \in BOOLEAN
    PROVE  /\ [r EXCEPT !.alone = x] \in ThreadStates
           /\ [r EXCEPT !.alone = x].pc = r.pc
           /\ [r EXCEPT !.alone = x].names = r.names
           /\ [r EXCEPT !.alone = x].all = r.all
           /\ [r EXCEPT !.alone = x].ref = r.ref
           /\ [r EXCEPT !.alone = x].sev = r.sev
  BY DEF ThreadStates

\* A thread gets its reference.
LEMMA RefersIs ==
    ASSUME TypeOK, NEW t \in Threads, NEW i \in Nat, NEW m \in Nat,
           thr' = [thr EXCEPT ![t].pc = "compare",
                              ![t].ref = [at |-> i, moved |-> m]]
    PROVE  /\ thr' \in [Threads -> ThreadStates]
           /\ \A u \in Threads \ {t} : thr'[u] = thr[u]
           /\ thr'[t].names = thr[t].names /\ thr'[t].all = thr[t].all
           /\ thr'[t].sev = thr[t].sev /\ thr'[t].alone = thr[t].alone
           /\ thr'[t].pc = "compare"
           /\ thr'[t].ref.at = i /\ thr'[t].ref.moved = m
<1> DEFINE r == [at |-> i, moved |-> m]
           n == [thr[t] EXCEPT !.pc = "compare", !.ref = r]
<1>1. r \in [at : Nat, moved : Nat] /\ r.at = i /\ r.moved = m
  OBVIOUS
<1>2. thr' = [thr EXCEPT ![t] = n]
  BY DEF TypeOK
<1> HIDE DEF r
<1>3. /\ n \in ThreadStates /\ n.pc = "compare" /\ n.ref = r
      /\ n.names = thr[t].names /\ n.all = thr[t].all
      /\ n.sev = thr[t].sev /\ n.alone = thr[t].alone
  BY <1>1 DEF TypeOK, ThreadStates, PCs
<1> HIDE DEF n
<1>4. /\ thr' \in [Threads -> ThreadStates] /\ thr'[t] = n
      /\ \A u \in Threads \ {t} : thr'[u] = thr[u]
  BY <1>2, <1>3 DEF TypeOK
<1> QED
  BY <1>1, <1>3, <1>4

\* Only where the thread is changes.
LEMMA PcIs ==
    ASSUME TypeOK, NEW t \in Threads, NEW p \in PCs,
           thr' = [thr EXCEPT ![t].pc = p]
    PROVE  /\ thr' \in [Threads -> ThreadStates]
           /\ \A u \in Threads \ {t} : thr'[u] = thr[u]
           /\ thr'[t].names = thr[t].names /\ thr'[t].all = thr[t].all
           /\ thr'[t].sev = thr[t].sev /\ thr'[t].alone = thr[t].alone
           /\ thr'[t].pc = p /\ thr'[t].ref = thr[t].ref
  BY DEF TypeOK, ThreadStates

\* A thread goes on with another record.
LEMMA BecomesIs ==
    ASSUME TypeOK, NEW t \in Threads, NEW r \in ThreadStates,
           thr' = [thr EXCEPT ![t] = r]
    PROVE  /\ thr' \in [Threads -> ThreadStates] /\ thr'[t] = r
           /\ \A u \in Threads \ {t} : thr'[u] = thr[u]
  BY DEF TypeOK

\* What the loop has left, when something is left.
LEMMA NamesTyped ==
    ASSUME TypeOK, NEW t \in Threads, thr[t].names # <<>>
    PROVE  Head(thr[t].names) \in Names /\ Tail(thr[t].names) \in Seq(Names)
  BY DEF TypeOK, ThreadStates

LEMMA RollupTyped ==
    ASSUME NEW d \in SourceDevices
    PROVE  lookupRollupDeviceId(d) \in Seq(Names)
  BY StatusAssumption DEF lookupRollupDeviceId

-----------------------------------------------------------------------------
(* Frames                                                                  *)

\* Nobody disturbs what another thread knows, as long as entries keep their
\* names, a file once opened for writing stays so, and nobody else writes
\* while a thread does.
LEMMA OthersKept ==
    ASSUME StatusInv, NEW t \in Threads, NEW u \in Threads \ {t},
           thr'[u].pc = thr[u].pc, thr'[u].names = thr[u].names,
           thr'[u].all = thr[u].all, thr'[u].ref = thr[u].ref,
           thr'[u].sev = thr[u].sev,
           DOMAIN cache \subseteq DOMAIN cache',
           \A i \in DOMAIN cache : cache'[i].name = cache[i].name,
           \A n \in Names : file[n] \in Opened => file'[n] \in Opened,
           thr[u].pc \in {"dump", "update"} => file' = file,
           undefined => undefined'
    PROVE  ThreadKept(u)'
<1>1. thr[u].names # <<>> => Head(thr[u].names) \in Names
  BY NamesTyped DEF StatusInv
<1>2. thr[u].all # <<>> => Head(thr[u].all) \in Names
  BY DEF StatusInv, TypeOK, ThreadStates
<1> QED
  BY <1>1, <1>2 DEF StatusInv, ThreadKept, NamesLeft, Active, RefersToName,
                    WrittenStays, FirstIsKept

\* A step that leaves cache and files alone and is not about updating: what
\* is left to show is about its thread.
LEMMA QuietStep ==
    ASSUME StatusInv, NEW t \in Threads,
           UNCHANGED <<cache, moved, file>>,
           undefined' \in BOOLEAN, undefined => undefined',
           begun' \in 0 .. MaxEvents, restarts' = restarts,
           thr' \in [Threads -> ThreadStates],
           \A u \in Threads \ {t} :
              /\ thr'[u].pc = thr[u].pc /\ thr'[u].names = thr[u].names
              /\ thr'[u].all = thr[u].all /\ thr'[u].ref = thr[u].ref
              /\ thr'[u].sev = thr[u].sev,
           thr[t].pc # "update", thr'[t].pc \notin {"dump", "update"},
           thr'[t].ref.at <= Len(cache), thr'[t].ref.moved <= moved,
           thr'[t].pc = "write" => lock = {},
           lock' = IF thr'[t].pc = "write" THEN {t} ELSE lock \ {t},
           ThreadKept(t)'
    PROVE  StatusInv'
<1>1. \A u \in Threads : ThreadKept(u)'
  BY OthersKept
<1>2. TypeOK'
  <2>1. lock' = {u \in Threads : thr'[u].pc \in {"write", "dump", "update"}}
    BY DEF StatusInv, TypeOK
  <2>2. \A u \in Threads : thr'[u].ref.at <= Len(cache)
                           /\ thr'[u].ref.moved <= moved
    BY DEF StatusInv, TypeOK
  <2> QED
    BY <2>1, <2>2 DEF StatusInv, TypeOK
<1>3. CacheBacked'
  BY DEF StatusInv, CacheBacked
<1>4. MatchesOrUpdating'
  <2>1. \A n : Updating(n) => Updating(n)'
    BY DEF Updating
  <2> QED
    BY <2>1 DEF StatusInv, MatchesOrUpdating, Duplicate
<1> QED
  BY <1>1, <1>2, <1>3, <1>4 DEF StatusInv

-----------------------------------------------------------------------------
(* The steps                                                               *)

LEMMA InitInv == Init => StatusInv
<1> SUFFICES ASSUME Init PROVE StatusInv
  OBVIOUS
<1>1. \A t \in Threads : thr[t] = NewThread
  BY DEF Init
<1>2. TypeOK
  <2>1. cache \in Seq(CachedDevices) /\ Len(cache) = 0 /\ lock = {}
    BY DEF Init
  <2>2. file \in [Names -> Severities \cup {Cut, Empty, NoFile}]
    BY DEF Init
  <2>3. begun \in 0 .. MaxEvents /\ restarts \in 0 .. MaxRestarts /\ moved = 0
    <3>1. MaxEvents \in Nat /\ MaxRestarts \in Nat
      BY StatusAssumption
    <3> QED
      BY <3>1 DEF Init
  <2>5. undefined \in BOOLEAN
    BY DEF Init
  <2>4. thr \in [Threads -> ThreadStates]
    BY NewThreadTyped DEF Init
  <2> QED
    BY <1>1, <2>1, <2>2, <2>3, <2>4, <2>5, NewThreadTyped DEF TypeOK
<1>3. \A t \in Threads : ThreadKept(t)
  BY <1>1, NewThreadTyped
     DEF ThreadKept, NamesLeft, Active, RefersToName, WrittenStays, FirstIsKept
<1>4. CacheBacked /\ MatchesOrUpdating
  BY DEF Init, CacheBacked, MatchesOrUpdating
<1> QED
  BY <1>2, <1>3, <1>4 DEF StatusInv

LEMMA BeginInv ==
    ASSUME StatusInv, NEW t \in Threads, NEW d \in SourceDevices,
           NEW s \in EventSeverities, Begin(t, d, s)
    PROVE  StatusInv'
<1> DEFINE names == lookupRollupDeviceId(d)
           b == [Continue(t, names) EXCEPT !.sev = s, !.all = names,
                                           !.alone = (Active = {})]
<1>1. names \in Seq(Names) /\ s \in Severities
  BY RollupTyped, StatusAssumption DEF Severities
<1>2. /\ thr'[t] = b
      /\ \A u \in Threads \ {t} :
            thr'[u] = [thr[u] EXCEPT !.alone = u \notin Active]
      /\ DOMAIN thr' = Threads /\ thr' = [u \in Threads |-> thr'[u]]
  BY DEF Begin
<1> HIDE DEF names
<1>3. TypeOK
  BY DEF StatusInv
<1>4. /\ b \in ThreadStates /\ b.ref = NoRef /\ b.all = names
      /\ names = <<>> => b.pc = "succ"
      /\ names # <<>> => b.pc = "scan" /\ b.names = names
  <2> DEFINE c == Continue(t, names)
             nobody == Active = {}
  <2>1. /\ c \in ThreadStates /\ c.ref = NoRef
        /\ names = <<>> => c.pc = "succ"
        /\ names # <<>> => c.pc = "scan" /\ c.names = names
    BY <1>1, <1>3, ContinueIs
  <2>2. b = [c EXCEPT !.sev = s, !.all = names, !.alone = nobody]
    OBVIOUS
  <2>3. nobody \in BOOLEAN
    OBVIOUS
  <2> HIDE DEF b, c, nobody
  <2> QED
    BY <1>1, <2>1, <2>2, <2>3 DEF ThreadStates
<1> HIDE DEF b
<1>5. \A u \in Threads \ {t} :
         /\ thr'[u] \in ThreadStates
         /\ thr'[u].pc = thr[u].pc /\ thr'[u].names = thr[u].names
         /\ thr'[u].all = thr[u].all /\ thr'[u].ref = thr[u].ref
         /\ thr'[u].sev = thr[u].sev
  <2> SUFFICES ASSUME NEW u \in Threads \ {t}
               PROVE  /\ thr'[u] \in ThreadStates
                      /\ thr'[u].pc = thr[u].pc /\ thr'[u].names = thr[u].names
                      /\ thr'[u].all = thr[u].all /\ thr'[u].ref = thr[u].ref
                      /\ thr'[u].sev = thr[u].sev
    OBVIOUS
  <2> DEFINE x == u \notin Active
  <2>1. thr'[u] = [thr[u] EXCEPT !.alone = x] /\ x \in BOOLEAN
    BY <1>2
  <2>2. thr[u] \in ThreadStates
    BY <1>3 DEF TypeOK
  <2> HIDE DEF x
  <2> QED
    BY <2>1, <2>2, AloneIs
<1>6. thr' \in [Threads -> ThreadStates]
  BY <1>2, <1>4, <1>5
<1>7. ThreadKept(t)'
  BY <1>2, <1>4 DEF ThreadKept, NamesLeft, Active, RefersToName, WrittenStays,
                    FirstIsKept
<1>8. /\ UNCHANGED <<cache, moved, file, lock, restarts, undefined>>
      /\ begun' \in 0 .. MaxEvents /\ t \notin Active
  <2>1. /\ UNCHANGED <<cache, moved, file, lock, restarts, undefined>>
        /\ begun' = begun + 1 /\ begun < MaxEvents /\ t \notin Active
    BY DEF Begin
  <2>2. begun \in 0 .. MaxEvents /\ MaxEvents \in Nat
    BY <1>3, StatusAssumption DEF TypeOK
  <2> QED
    BY <2>1, <2>2
<1>9. t \notin lock /\ thr[t].pc # "update"
  BY <1>3, <1>8 DEF TypeOK, Active
<1>10. thr'[t].ref.at <= Len(cache) /\ thr'[t].ref.moved <= moved
  BY <1>2, <1>3, <1>4, NewThreadTyped, LenProperties DEF TypeOK
<1> QED
  BY <1>2, <1>3, <1>4, <1>5, <1>6, <1>7, <1>8, <1>9, <1>10, QuietStep DEF TypeOK

LEMMA IgnoreInv ==
    ASSUME StatusInv, NEW t \in Threads, IgnoreUnmanaged(t)
    PROVE  StatusInv'
<1>1. TypeOK
  BY DEF StatusInv
<1> DEFINE b == [Return(t, "succ") EXCEPT !.all = <<>>]
<1>2. /\ b \in ThreadStates /\ b.ref = NoRef /\ b.all = <<>> /\ b.pc = "succ"
  BY <1>1, ReturnIs DEF ThreadStates
<1>3. thr' = [thr EXCEPT ![t] = b]
  BY DEF IgnoreUnmanaged
<1> HIDE DEF b
<1>4. /\ thr' \in [Threads -> ThreadStates] /\ thr'[t] = b
      /\ \A u \in Threads \ {t} : thr'[u] = thr[u]
  BY <1>1, <1>2, <1>3 DEF TypeOK
<1>5. ThreadKept(t)'
  BY <1>2, <1>4 DEF ThreadKept, NamesLeft, Active, RefersToName, WrittenStays,
                    FirstIsKept
<1>6. /\ UNCHANGED <<cache, moved, file, lock, restarts, undefined>>
      /\ begun' \in 0 .. MaxEvents /\ t \notin Active
  <2>1. /\ UNCHANGED <<cache, moved, file, lock, restarts, undefined>>
        /\ begun' = begun + 1 /\ begun < MaxEvents /\ t \notin Active
    BY DEF IgnoreUnmanaged
  <2>2. begun \in 0 .. MaxEvents /\ MaxEvents \in Nat
    BY <1>1, StatusAssumption DEF TypeOK
  <2> QED
    BY <2>1, <2>2
<1>7. t \notin lock /\ thr[t].pc # "update"
  BY <1>1, <1>6 DEF TypeOK, Active
<1>8. thr'[t].ref.at <= Len(cache) /\ thr'[t].ref.moved <= moved
  BY <1>1, <1>2, <1>4, NewThreadTyped, LenProperties DEF TypeOK
<1> QED
  BY <1>1, <1>2, <1>4, <1>5, <1>6, <1>7, <1>8, QuietStep DEF TypeOK

LEMMA ScanInv ==
    ASSUME StatusInv, NEW t \in Threads, Scan(t)
    PROVE  StatusInv'
<1>1. TypeOK /\ ThreadKept(t) /\ thr[t].pc = "scan" /\ thr[t] \in ThreadStates
  BY DEF StatusInv, Scan, TypeOK
<1>2. /\ UNCHANGED <<cache, moved, file, lock, begun, restarts, undefined>>
      /\ \/ thr' = [thr EXCEPT ![t].pc = "insert"]
         \/ \E i \in DOMAIN cache :
              /\ cache[i].name = Head(thr[t].names)
              /\ thr' = [thr EXCEPT ![t].pc = "compare",
                                    ![t].ref = [at |-> i, moved |-> moved]]
  BY DEF Scan
<1>3. /\ thr' \in [Threads -> ThreadStates]
      /\ \A u \in Threads \ {t} : thr'[u] = thr[u]
      /\ thr'[t].names = thr[t].names /\ thr'[t].all = thr[t].all
      /\ \/ thr'[t].pc = "insert" /\ thr'[t].ref = thr[t].ref
         \/ \E i \in DOMAIN cache :
              /\ cache[i].name = Head(thr[t].names)
              /\ thr'[t].pc = "compare" /\ thr'[t].ref.at = i
              /\ thr'[t].ref.moved = moved
  <2>1. CASE thr' = [thr EXCEPT ![t].pc = "insert"]
    BY <1>1, <2>1 DEF TypeOK, ThreadStates, PCs
  <2>2. ASSUME NEW i \in DOMAIN cache, cache[i].name = Head(thr[t].names),
               thr' = [thr EXCEPT ![t].pc = "compare",
                                  ![t].ref = [at |-> i, moved |-> moved]]
        PROVE  /\ thr' \in [Threads -> ThreadStates]
               /\ \A u \in Threads \ {t} : thr'[u] = thr[u]
               /\ thr'[t].names = thr[t].names /\ thr'[t].all = thr[t].all
               /\ thr'[t].pc = "compare" /\ thr'[t].ref.at = i
               /\ thr'[t].ref.moved = moved
    <3>1. i \in Nat /\ moved \in Nat
      BY <1>1 DEF TypeOK
    <3> QED
      BY <1>1, <2>2, <3>1, RefersIs
  <2> QED
    BY <1>2, <2>1, <2>2
<1>4. ThreadKept(t)'
  BY <1>1, <1>2, <1>3 DEF ThreadKept, NamesLeft, Active, RefersToName,
                          WrittenStays, FirstIsKept
<1>5. thr'[t].ref.at <= Len(cache) /\ thr'[t].ref.moved <= moved
  BY <1>1, <1>3 DEF TypeOK
<1> QED
  BY <1>1, <1>2, <1>3, <1>4, <1>5, QuietStep DEF TypeOK

LEMMA InsertInv ==
    ASSUME StatusInv, NEW t \in Threads, Insert(t)
    PROVE  StatusInv'
<1>1. /\ TypeOK /\ ThreadKept(t) /\ thr[t].pc = "insert"
      /\ thr[t] \in ThreadStates /\ t \in Active
  BY DEF StatusInv, Insert, TypeOK, Active
<1>2. Head(thr[t].names) \in Names
  BY <1>1, NamesTyped DEF ThreadKept, NamesLeft
<1> DEFINE e == [name |-> Head(thr[t].names), health |-> 0]
<1>3. /\ e \in CachedDevices /\ e.name = Head(thr[t].names) /\ e.health = 0
      /\ cache' = Append(cache, e)
      /\ UNCHANGED <<file, lock, begun, restarts, undefined>>
  BY <1>2 DEF Insert, CachedDevices, Severities
<1> HIDE DEF e
<1>4. /\ cache' \in Seq(CachedDevices) /\ Len(cache') = Len(cache) + 1
      /\ DOMAIN cache' = DOMAIN cache \cup {Len(cache) + 1}
      /\ \A i \in DOMAIN cache : cache'[i] = cache[i]
      /\ cache'[Len(cache) + 1] = e
      /\ Len(cache) \in Nat /\ Len(cache) + 1 \notin DOMAIN cache
  BY <1>1, <1>3 DEF TypeOK
<1>5. moved' \in Nat /\ moved <= moved'
  BY <1>1 DEF Insert, TypeOK
<1>6. /\ thr' \in [Threads -> ThreadStates]
      /\ \A u \in Threads \ {t} : thr'[u] = thr[u]
      /\ thr'[t].names = thr[t].names /\ thr'[t].all = thr[t].all
      /\ thr'[t].pc = "compare" /\ thr'[t].ref.at = Len(cache) + 1
      /\ thr'[t].ref.moved = moved'
  <2>1. PICK i \in Nat, m \in Nat : i = Len(cache) + 1 /\ m = moved'
    BY <1>4, <1>5
  <2>2. thr' = [thr EXCEPT ![t].pc = "compare",
                           ![t].ref = [at |-> i, moved |-> m]]
    BY <2>1 DEF Insert
  <2>3. /\ thr' \in [Threads -> ThreadStates]
        /\ \A u \in Threads \ {t} : thr'[u] = thr[u]
        /\ thr'[t].names = thr[t].names /\ thr'[t].all = thr[t].all
        /\ thr'[t].pc = "compare" /\ thr'[t].ref.at = i
        /\ thr'[t].ref.moved = m
    BY <1>1, <2>2, RefersIs
  <2> QED
    BY <2>1, <2>3
<1>7. TypeOK'
  <2>1. lock' = {u \in Threads : thr'[u].pc \in {"write", "dump", "update"}}
    BY <1>1, <1>3, <1>6 DEF TypeOK
  <2>2. \A u \in Threads : thr'[u].ref.at <= Len(cache')
                           /\ thr'[u].ref.moved <= moved'
    <3>1. \A u \in Threads : /\ thr[u].ref.at \in Nat /\ thr[u].ref.moved \in Nat
                             /\ thr[u].ref.at <= Len(cache)
                             /\ thr[u].ref.moved <= moved
      BY <1>1 DEF TypeOK, ThreadStates
    <3> QED
      BY <1>1, <1>4, <1>5, <1>6, <3>1 DEF TypeOK
  <2> QED
    BY <1>1, <1>3, <1>4, <1>5, <1>6, <2>1, <2>2 DEF TypeOK
<1>8. CacheBacked'
  BY <1>3, <1>4 DEF StatusInv, CacheBacked
<1>9. ThreadKept(t)'
  BY <1>1, <1>3, <1>4, <1>6
     DEF ThreadKept, NamesLeft, Active, RefersToName, WrittenStays, FirstIsKept
<1>10. \A u \in Threads : ThreadKept(u)'
  BY <1>3, <1>4, <1>6, <1>9, OthersKept
<1>11. MatchesOrUpdating'
  <2>1. \A n : Updating(n) => Updating(n)'
    BY <1>1, <1>6 DEF Updating
  <2>2. \A i \in DOMAIN cache : Duplicate(i) => Duplicate(i)'
    BY <1>4 DEF Duplicate
  <2> QED
    BY <1>3, <1>4, <2>1, <2>2 DEF StatusInv, MatchesOrUpdating
<1> QED
  BY <1>7, <1>8, <1>10, <1>11 DEF StatusInv

\* A handler that ends without a write: cached with a higher severity.
LEMMA LowerInv ==
    ASSUME StatusInv, NEW t \in Threads, CompareLower(t)
    PROVE  StatusInv'
<1>1. /\ TypeOK /\ ThreadKept(t) /\ thr[t].pc = "compare"
      /\ thr[t] \in ThreadStates /\ t \in Active
  BY DEF StatusInv, CompareLower, TypeOK, Active
<1> DEFINE r == Return(t, "succ")
<1>2. /\ r \in ThreadStates /\ r.pc = "succ" /\ r.ref = NoRef
      /\ r.all = thr[t].all
  BY <1>1, ReturnIs
<1>3. /\ thr' = [thr EXCEPT ![t] = r]
      /\ UNCHANGED <<cache, moved, file, lock, begun, restarts>>
      /\ undefined' = (undefined \/ Dangling(t))
      /\ Dangling(t) \/ Entry(t).health > thr[t].sev
  BY DEF CompareLower
<1> HIDE DEF r
<1>4. /\ thr' \in [Threads -> ThreadStates] /\ thr'[t] = r
      /\ \A u \in Threads \ {t} : thr'[u] = thr[u]
  BY <1>1, <1>2, <1>3, BecomesIs
<1>5. ~undefined' => file[Head(thr[t].names)] \in Opened
  <2> SUFFICES ASSUME ~undefined' PROVE file[Head(thr[t].names)] \in Opened
    OBVIOUS
  <2>1. Entry(t).health > thr[t].sev
    BY <1>3, Zenon
  <2>2. /\ thr[t].ref.at \in DOMAIN cache
        /\ Entry(t).name = Head(thr[t].names)
    BY <1>1 DEF ThreadKept, RefersToName, Entry
  <2>3. Entry(t) \in CachedDevices
    BY <1>1, <2>2 DEF Entry, TypeOK
  <2>4. Entry(t).health > 0
    BY <1>1, <2>1, <2>3 DEF ThreadStates, CachedDevices, Severities
  <2> QED
    BY <2>2, <2>4 DEF StatusInv, CacheBacked, Entry
<1>6. ThreadKept(t)'
  BY <1>1, <1>2, <1>3, <1>4, <1>5
     DEF ThreadKept, NamesLeft, Active, RefersToName, WrittenStays, FirstIsKept
<1>7. thr'[t].ref.at <= Len(cache) /\ thr'[t].ref.moved <= moved
  BY <1>1, <1>2, <1>4, NewThreadTyped, LenProperties DEF TypeOK
<1>8. undefined' \in BOOLEAN /\ (undefined => undefined') /\ t \notin lock
  BY <1>1, <1>3 DEF TypeOK
<1> QED
  BY <1>1, <1>2, <1>3, <1>4, <1>6, <1>7, <1>8, QuietStep DEF TypeOK

LEMMA CompareInv ==
    ASSUME StatusInv, NEW t \in Threads, CompareUpdate(t)
    PROVE  StatusInv'
<1>1. /\ TypeOK /\ ThreadKept(t) /\ thr[t].pc = "compare" /\ t \in Active
  BY DEF StatusInv, CompareUpdate, TypeOK, Active
<1>2. /\ thr' = [thr EXCEPT ![t].pc = "lock"]
      /\ UNCHANGED <<cache, moved, file, lock, begun, restarts>>
      /\ undefined' = (undefined \/ Dangling(t))
  BY DEF CompareUpdate
<1>3. /\ thr' \in [Threads -> ThreadStates]
      /\ \A u \in Threads \ {t} : thr'[u] = thr[u]
      /\ thr'[t].names = thr[t].names /\ thr'[t].all = thr[t].all
      /\ thr'[t].pc = "lock" /\ thr'[t].ref = thr[t].ref
  BY <1>1, <1>2, PcIs DEF PCs
<1>4. undefined' \in BOOLEAN /\ (undefined => undefined') /\ t \notin lock
  BY <1>1, <1>2 DEF TypeOK
<1>5. ThreadKept(t)'
  BY <1>1, <1>2, <1>3, <1>4
     DEF ThreadKept, NamesLeft, Active, RefersToName, WrittenStays, FirstIsKept
<1> QED
  BY <1>1, <1>2, <1>3, <1>4, <1>5, QuietStep DEF TypeOK

LEMMA SkipInv ==
    ASSUME StatusInv, NEW t \in Threads, SkipNameless(t)
    PROVE  StatusInv'
<1>1. /\ TypeOK /\ ThreadKept(t) /\ thr[t].pc = "compare" /\ t \in Active
  BY DEF StatusInv, SkipNameless, TypeOK, Active
<1> DEFINE rest == Tail(thr[t].names)
           r == Continue(t, rest)
<1>2. rest \in Seq(Names)
  BY <1>1, NamesTyped DEF ThreadKept, NamesLeft
<1>3. /\ thr' = [thr EXCEPT ![t] = r]
      /\ UNCHANGED <<cache, moved, file, lock, begun, restarts>>
      /\ undefined' = TRUE
  BY DEF SkipNameless
<1> HIDE DEF rest
<1>4. /\ r \in ThreadStates /\ r.ref = NoRef /\ r.all = thr[t].all
      /\ \/ r.pc = "succ"
         \/ r.pc = "scan" /\ r.names # <<>>
  BY <1>1, <1>2, ContinueIs
<1> HIDE DEF r
<1>5. /\ thr' \in [Threads -> ThreadStates] /\ thr'[t] = r
      /\ \A u \in Threads \ {t} : thr'[u] = thr[u]
  BY <1>1, <1>3, <1>4, BecomesIs
<1>6. ThreadKept(t)'
  BY <1>3, <1>4, <1>5 DEF ThreadKept, NamesLeft, Active, RefersToName,
                          WrittenStays, FirstIsKept
<1>7. thr'[t].ref.at <= Len(cache) /\ thr'[t].ref.moved <= moved
  BY <1>1, <1>4, <1>5, NewThreadTyped, LenProperties DEF TypeOK
<1>8. t \notin lock /\ undefined' \in BOOLEAN
  BY <1>1, <1>3 DEF TypeOK
<1> QED
  BY <1>1, <1>3, <1>4, <1>5, <1>6, <1>7, <1>8, QuietStep DEF TypeOK

LEMMA LockInv ==
    ASSUME StatusInv, NEW t \in Threads, Lock(t)
    PROVE  StatusInv'
<1>1. /\ TypeOK /\ ThreadKept(t) /\ thr[t].pc = "lock" /\ t \in Active
  BY DEF StatusInv, Lock, TypeOK, Active
<1>2. /\ thr' = [thr EXCEPT ![t].pc = "write"] /\ lock = {} /\ lock' = {t}
      /\ UNCHANGED <<cache, moved, file, begun, restarts, undefined>>
  BY DEF Lock
<1>3. /\ thr' \in [Threads -> ThreadStates]
      /\ \A u \in Threads \ {t} : thr'[u] = thr[u]
      /\ thr'[t].names = thr[t].names /\ thr'[t].all = thr[t].all
      /\ thr'[t].pc = "write" /\ thr'[t].ref = thr[t].ref
  BY <1>1, <1>2, PcIs DEF PCs
<1>4. ThreadKept(t)'
  BY <1>1, <1>2, <1>3
     DEF ThreadKept, NamesLeft, Active, RefersToName, WrittenStays, FirstIsKept
<1> QED
  BY <1>1, <1>2, <1>3, <1>4, QuietStep DEF TypeOK

\* Whoever writes or updates is the only one.
LEMMA HolderIs ==
    ASSUME TypeOK, NEW t \in Threads, thr[t].pc \in {"write", "dump", "update"}
    PROVE  /\ lock = {t}
           /\ \A u \in Threads \ {t} : thr[u].pc \notin {"write", "dump", "update"}
<1>1. /\ lock = {u \in Threads : thr[u].pc \in {"write", "dump", "update"}}
      /\ \A u, v \in lock : u = v
  BY DEF TypeOK
<1>2. t \in lock
  BY <1>1
<1> QED
  BY <1>1, <1>2

\* The file is truncated, or writeJson2File returns 0 with or without the
\* severity in it.
LEMMA PutInv ==
    ASSUME StatusInv, NEW t \in Threads, NEW p \in {"dump", "update"},
           NEW x \in {thr[t].sev, Cut},
           thr[t].pc \in {"write", "dump"}, p = "dump" => x = Cut,
           thr' = [thr EXCEPT ![t].pc = p],
           file' = [file EXCEPT ![Head(thr[t].names)] = x],
           UNCHANGED <<cache, moved, lock, begun, restarts, undefined>>
    PROVE  StatusInv'
<1>1. /\ TypeOK /\ ThreadKept(t) /\ t \in Active
      /\ thr[t].sev \in Severities /\ thr[t].ref.at \in Nat
  BY DEF StatusInv, TypeOK, ThreadStates, Active
<1> DEFINE n == Head(thr[t].names)
<1>2. n \in Names
  BY <1>1, NamesTyped DEF ThreadKept, NamesLeft
<1>3. x \in Opened
  BY <1>1 DEF Opened
<1>4. /\ thr' \in [Threads -> ThreadStates]
      /\ \A u \in Threads \ {t} : thr'[u] = thr[u]
      /\ thr'[t].names = thr[t].names /\ thr'[t].all = thr[t].all
      /\ thr'[t].sev = thr[t].sev
      /\ thr'[t].pc = p /\ thr'[t].ref = thr[t].ref
  BY <1>1, PcIs DEF PCs
<1>5. /\ file' \in [Names -> Severities \cup {Cut, Empty, NoFile}]
      /\ file'[n] = x
      /\ \A m \in Names \ {n} : file'[m] = file[m]
      /\ \A m \in Names : file[m] \in Opened => file'[m] \in Opened
  BY <1>1, <1>2, <1>3 DEF TypeOK, Opened
<1>6. /\ lock = {t}
      /\ \A u \in Threads \ {t} : thr[u].pc \notin {"write", "dump", "update"}
  BY <1>1, HolderIs
<1>7. ThreadKept(t)'
  BY <1>1, <1>3, <1>4, <1>5
     DEF ThreadKept, NamesLeft, Active, RefersToName, WrittenStays, FirstIsKept
<1>8. \A u \in Threads : ThreadKept(u)'
  BY <1>4, <1>5, <1>6, <1>7, OthersKept
<1>9. TypeOK'
  <2>1. lock' = {u \in Threads : thr'[u].pc \in {"write", "dump", "update"}}
    BY <1>4, <1>6
  <2>2. \A u \in Threads : thr'[u].ref.at <= Len(cache')
                           /\ thr'[u].ref.moved <= moved'
    BY <1>1, <1>4 DEF TypeOK
  <2> QED
    BY <1>1, <1>4, <1>5, <2>1, <2>2 DEF TypeOK
<1>10. \A i \in DOMAIN cache : cache[i] \in CachedDevices
  BY <1>1 DEF TypeOK
<1>11. CacheBacked'
  BY <1>5, <1>10 DEF StatusInv, CacheBacked, CachedDevices
<1>12. MatchesOrUpdating'
  <2> SUFFICES ASSUME ~undefined, NEW i \in DOMAIN cache
               PROVE  \/ cache[i].health \in {0, file'[cache[i].name]}
                      \/ file'[cache[i].name] = Cut
                      \/ Duplicate(i)'
                      \/ Updating(cache[i].name)'
    BY DEF MatchesOrUpdating
  <2>1. CASE cache[i].name = n
    <3>1. CASE p = "dump"
      BY <1>5, <2>1, <3>1
    <3>2. CASE p = "update"
      BY <1>4, <2>1, <3>2 DEF Updating
    <3> QED
      BY <3>1, <3>2
  <2>2. CASE cache[i].name # n
    <3>1. ~Updating(cache[i].name) /\ file'[cache[i].name] = file[cache[i].name]
      BY <1>5, <1>6, <1>10, <2>2 DEF Updating, CachedDevices
    <3>2. Duplicate(i) => Duplicate(i)'
      BY DEF Duplicate
    <3> QED
      BY <3>1, <3>2 DEF StatusInv, MatchesOrUpdating
  <2> QED
    BY <2>1, <2>2
<1> QED
  BY <1>8, <1>9, <1>11, <1>12 DEF StatusInv

LEMMA WriteInv ==
    ASSUME StatusInv, NEW t \in Threads,
           Truncate(t) \/ WriteFile(t) \/ WriteLost(t)
    PROVE  StatusInv'
<1>1. CASE Truncate(t)
  BY <1>1, PutInv DEF Truncate
<1>2. CASE WriteFile(t)
  BY <1>2, PutInv DEF WriteFile
<1>3. CASE WriteLost(t)
  <2>1. /\ thr[t].pc = "dump" /\ file' = file
        /\ thr' = [thr EXCEPT ![t].pc = "update"]
        /\ UNCHANGED <<cache, moved, lock, begun, restarts, undefined>>
    BY <1>3 DEF WriteLost
  <2>2. file[Head(thr[t].names)] = Cut
    BY <2>1 DEF StatusInv, ThreadKept, WrittenStays
  <2>3. file' = [file EXCEPT ![Head(thr[t].names)] = Cut]
    BY <2>1, <2>2 DEF StatusInv, TypeOK
  <2> QED
    BY <2>1, <2>3, PutInv
<1> QED
  BY <1>1, <1>2, <1>3

LEMMA DumpInv ==
    ASSUME StatusInv, NEW t \in Threads, DumpFails(t)
    PROVE  StatusInv'
<1>1. /\ TypeOK /\ thr[t].pc = "dump"
      /\ thr' = [thr EXCEPT ![t] = Return(t, "error")] /\ lock' = lock \ {t}
      /\ UNCHANGED <<cache, moved, file, begun, restarts, undefined>>
  BY DEF StatusInv, DumpFails
<1> DEFINE r == Return(t, "error")
<1>2. r \in ThreadStates /\ r.pc = "error" /\ r.all = <<>> /\ r.ref = NoRef
  BY <1>1, ReturnIs
<1>3. thr' = [thr EXCEPT ![t] = r]
  BY <1>1
<1> HIDE DEF r
<1>4. /\ thr' \in [Threads -> ThreadStates] /\ thr'[t] = r
      /\ \A u \in Threads \ {t} : thr'[u] = thr[u]
  BY <1>1, <1>2, <1>3, BecomesIs
<1>5. ThreadKept(t)'
  BY <1>2, <1>4
     DEF ThreadKept, NamesLeft, Active, RefersToName, WrittenStays, FirstIsKept
<1>6. thr'[t].ref.at <= Len(cache) /\ thr'[t].ref.moved <= moved
  BY <1>1, <1>2, <1>4, NewThreadTyped, LenProperties DEF TypeOK
<1> QED
  BY <1>1, <1>2, <1>4, <1>5, <1>6, QuietStep DEF TypeOK

LEMMA FailInv ==
    ASSUME StatusInv, NEW t \in Threads, WriteFails(t)
    PROVE  StatusInv'
<1>1. /\ TypeOK /\ ThreadKept(t) /\ thr[t].pc = "write" /\ t \in Active
  BY DEF StatusInv, WriteFails, TypeOK, Active
<1> DEFINE n == Head(thr[t].names)
           r == Return(t, "error")
<1>2. n \in Names
  BY <1>1, NamesTyped DEF ThreadKept, NamesLeft
<1>3. /\ thr' = [thr EXCEPT ![t] = r]
      /\ lock' = lock \ {t}
      /\ UNCHANGED <<cache, moved, begun, restarts, undefined>>
      /\ \/ file' = file
         \/ file[n] = NoFile /\ file' = [file EXCEPT ![n] = Empty]
  BY DEF WriteFails
<1>4. r \in ThreadStates /\ r.pc = "error" /\ r.all = <<>> /\ r.ref = NoRef
  BY <1>1, ReturnIs
<1> HIDE DEF r
<1>5. /\ thr' \in [Threads -> ThreadStates] /\ thr'[t] = r
      /\ \A u \in Threads \ {t} : thr'[u] = thr[u]
  BY <1>1, <1>3, <1>4, BecomesIs
<1>6. /\ file' \in [Names -> Severities \cup {Cut, Empty, NoFile}]
      /\ \A m \in Names : file'[m] = file[m] \/ file[m] = NoFile
      /\ NoFile \notin Opened
  BY <1>1, <1>2, <1>3 DEF TypeOK, NoFile, Cut, Opened, Severities
<1>7. /\ lock = {t}
      /\ \A u \in Threads \ {t} : thr[u].pc \notin {"write", "dump", "update"}
  BY <1>1, HolderIs
<1>8. ThreadKept(t)'
  BY <1>4, <1>5
     DEF ThreadKept, NamesLeft, Active, RefersToName, WrittenStays, FirstIsKept
<1>9. \A u \in Threads : ThreadKept(u)'
  BY <1>3, <1>5, <1>6, <1>7, <1>8, OthersKept
<1>10. TypeOK'
  <2>1. lock' = {u \in Threads : thr'[u].pc \in {"write", "dump", "update"}}
    BY <1>3, <1>4, <1>5, <1>7
  <2>2. \A u \in Threads : thr'[u].ref.at <= Len(cache')
                           /\ thr'[u].ref.moved <= moved'
    BY <1>1, <1>3, <1>4, <1>5, NewThreadTyped, LenProperties DEF TypeOK
  <2> QED
    BY <1>1, <1>3, <1>5, <1>6, <2>1, <2>2 DEF TypeOK
<1>11. \A i \in DOMAIN cache : cache[i] \in CachedDevices
  BY <1>1 DEF TypeOK
<1>12. CacheBacked'
  BY <1>3, <1>6, <1>11 DEF StatusInv, CacheBacked, CachedDevices
<1>13. MatchesOrUpdating'
  <2> SUFFICES ASSUME ~undefined, NEW i \in DOMAIN cache
               PROVE  \/ cache[i].health \in {0, file'[cache[i].name]}
                      \/ file'[cache[i].name] = Cut
                      \/ Duplicate(i)'
    BY <1>3 DEF MatchesOrUpdating
  <2>1. /\ ~Updating(cache[i].name)
        /\ cache[i].name \in Names /\ cache[i].health \in Severities
    BY <1>1, <1>7, <1>11 DEF Updating, CachedDevices
  <2>2. \/ cache[i].health \in {0, file[cache[i].name]}
        \/ file[cache[i].name] = Cut \/ Duplicate(i)
    BY <2>1 DEF StatusInv, MatchesOrUpdating
  <2>3. NoFile # Cut /\ NoFile \notin Severities
    BY DEF NoFile, Cut, Severities
  <2> QED
    BY <1>3, <1>6, <2>1, <2>2, <2>3 DEF Duplicate
<1> QED
  BY <1>9, <1>10, <1>12, <1>13 DEF StatusInv

LEMMA UpdateInv ==
    ASSUME StatusInv, NEW t \in Threads, UpdateCache(t)
    PROVE  StatusInv'
<1>1. /\ TypeOK /\ ThreadKept(t) /\ thr[t].pc = "update" /\ t \in Active
      /\ thr[t].sev \in Severities
  BY DEF StatusInv, UpdateCache, TypeOK, ThreadStates, Active
<1> DEFINE n == Head(thr[t].names)
           at == thr[t].ref.at
           rest == Tail(thr[t].names)
           r == Continue(t, rest)
<1>2. n \in Names /\ rest \in Seq(Names)
  BY <1>1, NamesTyped DEF ThreadKept, NamesLeft
<1>3. /\ at \in DOMAIN cache /\ cache[at].name = n
      /\ file[n] \in {thr[t].sev, Cut}
  BY <1>1 DEF ThreadKept, RefersToName, WrittenStays
<1>4. /\ thr' = [thr EXCEPT ![t] = r]
      /\ lock' = lock \ {t}
      /\ UNCHANGED <<moved, file, begun, restarts>>
      /\ undefined' = (undefined \/ Dangling(t))
      /\ cache' = IF Dangling(t) THEN cache
                  ELSE [cache EXCEPT ![at].health = thr[t].sev]
  BY DEF UpdateCache
<1> HIDE DEF rest
<1>5. /\ r \in ThreadStates /\ r.ref = NoRef /\ r.all = thr[t].all
      /\ \/ r.pc = "succ"
         \/ r.pc = "scan" /\ r.names # <<>>
  BY <1>1, <1>2, ContinueIs
<1> HIDE DEF r
<1>6. /\ thr' \in [Threads -> ThreadStates] /\ thr'[t] = r
      /\ \A u \in Threads \ {t} : thr'[u] = thr[u]
  BY <1>1, <1>4, <1>5, BecomesIs
<1>7. /\ lock = {t}
      /\ \A u \in Threads \ {t} : thr[u].pc \notin {"write", "dump", "update"}
  BY <1>1, HolderIs
<1>8. \A i \in DOMAIN cache : cache[i] \in CachedDevices
  BY <1>1 DEF TypeOK
<1>9. /\ cache' \in Seq(CachedDevices) /\ Len(cache') = Len(cache)
      /\ DOMAIN cache' = DOMAIN cache
      /\ \A i \in DOMAIN cache : /\ cache'[i].name = cache[i].name
                                 /\ i # at => cache'[i] = cache[i]
      /\ ~Dangling(t) => cache'[at].health = thr[t].sev
      /\ Dangling(t) => cache' = cache
  <2>1. CASE Dangling(t)
    BY <1>1, <1>4, <2>1 DEF TypeOK
  <2>2. CASE ~Dangling(t)
    <3> DEFINE e == [cache[at] EXCEPT !.health = thr[t].sev]
    <3>1. cache' = [cache EXCEPT ![at] = e]
      BY <1>4, <2>2
    <3>2. e \in CachedDevices /\ e.name = cache[at].name /\ e.health = thr[t].sev
      BY <1>1, <1>3, <1>8 DEF CachedDevices
    <3> HIDE DEF e
    <3>3. cache \in Seq(CachedDevices)
      BY <1>1 DEF TypeOK
    <3>4. cache' \in Seq(CachedDevices) /\ Len(cache') = Len(cache)
      BY <1>3, <3>1, <3>2, <3>3, ExceptSeq
    <3> QED
      BY <1>3, <2>2, <3>1, <3>2, <3>3, <3>4
  <2> QED
    BY <2>1, <2>2
<1>10. undefined' \in BOOLEAN /\ (undefined => undefined')
  BY <1>1, <1>4 DEF TypeOK
<1>11. ThreadKept(t)'
  <2>1. file[n] \in Opened
    BY <1>1, <1>3 DEF Opened
  <2>2. ~undefined' /\ thr[t].all # <<>> => file[Head(thr[t].all)] \in Opened
    BY <1>1, <1>10, <2>1 DEF ThreadKept, FirstIsKept
  <2> QED
    BY <1>4, <1>5, <1>6, <2>2
       DEF ThreadKept, NamesLeft, Active, RefersToName, WrittenStays, FirstIsKept
<1>12. \A u \in Threads : ThreadKept(u)'
  BY <1>4, <1>6, <1>9, <1>10, <1>11, OthersKept
<1>13. TypeOK'
  <2>1. lock' = {u \in Threads : thr'[u].pc \in {"write", "dump", "update"}}
    BY <1>4, <1>5, <1>6, <1>7
  <2>2. \A u \in Threads : thr'[u].ref.at <= Len(cache')
                           /\ thr'[u].ref.moved <= moved'
    BY <1>1, <1>4, <1>5, <1>6, <1>9, NewThreadTyped, LenProperties DEF TypeOK
  <2> QED
    BY <1>1, <1>4, <1>6, <1>9, <1>10, <2>1, <2>2 DEF TypeOK
<1>14. CacheBacked'
  <2> SUFFICES ASSUME NEW i \in DOMAIN cache, cache'[i].health > 0
               PROVE  file[cache[i].name] \in Opened
    BY <1>4, <1>9 DEF CacheBacked
  <2>1. CASE cache'[i] = cache[i]
    BY <2>1 DEF StatusInv, CacheBacked
  <2>2. CASE i = at
    BY <1>1, <1>3, <2>2 DEF Opened
  <2> QED
    BY <1>9, <2>1, <2>2
<1>15. MatchesOrUpdating'
  <2> SUFFICES ASSUME ~undefined', NEW i \in DOMAIN cache
               PROVE  \/ cache'[i].health \in {0, file[cache[i].name]}
                      \/ file[cache[i].name] = Cut
                      \/ Duplicate(i)'
    BY <1>4, <1>9 DEF MatchesOrUpdating
  <2>1. ~Dangling(t) /\ ~undefined
    BY <1>4, Zenon
  <2>2. CASE i = at
    BY <1>3, <1>9, <2>1, <2>2
  <2>3. CASE i # at
    <3>1. Updating(cache[i].name) => cache[i].name = n
      BY <1>7 DEF Updating
    <3>2. cache[i].name = n => Duplicate(i)
      BY <1>3, <2>3 DEF Duplicate
    <3>3. \/ cache[i].health \in {0, file[cache[i].name]}
          \/ file[cache[i].name] = Cut \/ Duplicate(i)
      BY <2>1, <3>1, <3>2 DEF StatusInv, MatchesOrUpdating
    <3>4. Duplicate(i) => Duplicate(i)'
      BY <1>9 DEF Duplicate
    <3> QED
      BY <1>9, <2>3, <3>3, <3>4
  <2> QED
    BY <2>2, <2>3
<1> QED
  BY <1>12, <1>13, <1>14, <1>15 DEF StatusInv

LEMMA RestartInv == StatusInv /\ Restart => StatusInv'
<1> SUFFICES ASSUME StatusInv, Restart PROVE StatusInv'
  OBVIOUS
<1>1. TypeOK
  BY DEF StatusInv
<1>2. /\ \A t \in Threads : thr'[t] = NewThread
      /\ thr' \in [Threads -> ThreadStates]
  BY NewThreadTyped DEF Restart
<1>3. TypeOK'
  <2>1. /\ cache' \in Seq(CachedDevices) /\ Len(cache') = 0 /\ lock' = {}
        /\ moved' = 0
    BY DEF Restart
  <2>4. undefined' \in BOOLEAN
    BY DEF Restart
  <2>2. begun' \in 0 .. MaxEvents /\ restarts' \in 0 .. MaxRestarts
    <3>1. /\ MaxEvents \in Nat /\ MaxRestarts \in Nat
          /\ restarts \in 0 .. MaxRestarts
      BY <1>1, StatusAssumption DEF TypeOK
    <3> QED
      BY <3>1 DEF Restart
  <2>3. file' = file
    BY DEF Restart
  <2> QED
    BY <1>1, <1>2, <2>1, <2>2, <2>3, <2>4, NewThreadTyped DEF TypeOK
<1>4. \A t \in Threads : ThreadKept(t)'
  BY <1>2, NewThreadTyped
     DEF ThreadKept, NamesLeft, Active, RefersToName, WrittenStays, FirstIsKept
<1>5. CacheBacked' /\ MatchesOrUpdating'
  BY DEF Restart, CacheBacked, MatchesOrUpdating
<1> QED
  BY <1>3, <1>4, <1>5 DEF StatusInv

-----------------------------------------------------------------------------
(* What holds in every state                                               *)

LEMMA NextInv == StatusInv /\ [Next]_vars => StatusInv'
<1> SUFFICES ASSUME StatusInv, [Next]_vars PROVE StatusInv'
  OBVIOUS
<1>1. ASSUME NEW t \in Threads, Step(t) PROVE StatusInv'
  BY <1>1, ScanInv, InsertInv, LowerInv, CompareInv, SkipInv, LockInv, WriteInv,
     DumpInv, FailInv, UpdateInv DEF Step
<1>2. ASSUME NEW t \in Threads, NEW d \in SourceDevices,
             NEW s \in EventSeverities, Begin(t, d, s)
      PROVE  StatusInv'
  BY <1>2, BeginInv
<1>3. ASSUME NEW t \in Threads, IgnoreUnmanaged(t) PROVE StatusInv'
  BY <1>3, IgnoreInv
<1>4. CASE Restart
  BY <1>4, RestartInv
<1>5. CASE UNCHANGED vars
  BY <1>5 DEF vars, StatusInv, TypeOK, CacheBacked, ThreadKept, NamesLeft,
              Active, RefersToName, WrittenStays, FirstIsKept,
              MatchesOrUpdating, Duplicate, Updating
<1> QED
  BY <1>1, <1>2, <1>3, <1>4, <1>5 DEF Next

\* The inductive invariant of the handler, whatever the threads interleave.
THEOREM StatusInvariant == Spec => []StatusInv
<1>1. Init => StatusInv
  BY InitInv
<1>2. StatusInv /\ [Next]_vars => StatusInv'
  BY NextInv
<1> QED
  BY <1>1, <1>2, PTL DEF Spec

\* What the cache says is backed by a file, and with the mutex free an entry
\* that is the only one of its device shows what the file shows.
THEOREM CacheIsBacked == Spec => []CacheOK
<1>1. StatusInv => CacheOK
  <2> SUFFICES ASSUME StatusInv PROVE CacheOK
    OBVIOUS
  <2>1. lock = {} => \A n : ~Updating(n)
    BY DEF StatusInv, TypeOK, Updating
  <2>2. CacheMatchesFile
    BY <2>1 DEF StatusInv, MatchesOrUpdating, CacheMatchesFile, Duplicate
  <2> QED
    BY <2>2 DEF StatusInv, CacheOK
<1> QED
  BY <1>1, StatusInvariant, PTL

\* An event the handler completed has its first rollup device reported.
THEOREM CompletedEventsAreReported == Spec => []CompletedIsReported
<1>1. StatusInv => CompletedIsReported
  BY DEF StatusInv, ThreadKept, FirstIsKept, Active, CompletedIsReported
<1> QED
  BY <1>1, StatusInvariant, PTL

-----------------------------------------------------------------------------
(* The highest severity stays in the file                                  *)

\* What every step of a thread has in common.
LEMMA StepIs ==
    ASSUME StatusInv, NEW t \in Threads, Step(t)
    PROVE  /\ t \in Active /\ restarts' = restarts /\ (undefined => undefined')
           /\ thr' \in [Threads -> ThreadStates]
           /\ \A u \in Threads \ {t} : thr'[u] = thr[u]
           /\ t \in Active' => thr'[t].alone = thr[t].alone
<1>1. TypeOK /\ ThreadKept(t)
  BY DEF StatusInv
<1>2. StatusInv'
  BY NextInv DEF Next
<1>3. /\ t \in Active /\ restarts' = restarts /\ (undefined => undefined')
      /\ thr' \in [Threads -> ThreadStates]
  <2>1. thr' \in [Threads -> ThreadStates]
    BY <1>2 DEF StatusInv, TypeOK
  <2>2. t \in Active /\ restarts' = restarts
    BY DEF Step, Active, Scan, Insert, CompareLower, CompareUpdate, SkipNameless,
           Lock, Truncate, DumpFails, WriteFile, WriteLost, WriteFails,
           UpdateCache
  <2>3. undefined => undefined'
    BY Zenon DEF Step, Scan, Insert, CompareLower, CompareUpdate, SkipNameless,
                 Lock, Truncate, DumpFails, WriteFile, WriteLost, WriteFails,
                 UpdateCache
  <2> QED
    BY <2>1, <2>2, <2>3
<1>4. thr \in [Threads -> ThreadStates]
  BY <1>1 DEF TypeOK
<1>5. \A u \in Threads \ {t} : thr'[u] = thr[u]
  BY <1>4 DEF Step, Scan, Insert, CompareLower, CompareUpdate, SkipNameless,
              Lock, Truncate, DumpFails, WriteFile, WriteLost, WriteFails,
              UpdateCache
<1>6. t \in Active' => thr'[t].alone = thr[t].alone
  <2>1. CASE \/ Scan(t) \/ Insert(t) \/ CompareUpdate(t) \/ Lock(t)
             \/ Truncate(t) \/ WriteFile(t) \/ WriteLost(t)
    BY <1>4, <2>1 DEF Scan, Insert, CompareUpdate, Lock, Truncate, WriteFile,
                      WriteLost, ThreadStates
  <2>2. CASE CompareLower(t) \/ WriteFails(t) \/ DumpFails(t)
    <3>1. PICK code \in {"succ", "error"} : thr' = [thr EXCEPT ![t] = Return(t, code)]
      BY <2>2 DEF CompareLower, WriteFails, DumpFails
    <3>2. thr'[t].pc = code
      BY <1>1, <1>4, <3>1, ReturnIs
    <3> QED
      BY <3>2 DEF Active
  <2>3. CASE SkipNameless(t) \/ UpdateCache(t)
    <3> DEFINE rest == Tail(thr[t].names)
    <3>1. rest \in Seq(Names)
      BY <1>1, <1>3, NamesTyped DEF ThreadKept, NamesLeft
    <3>2. thr'[t] = Continue(t, rest)
      BY <1>4, <2>3 DEF SkipNameless, UpdateCache
    <3> HIDE DEF rest
    <3> QED
      BY <1>1, <3>1, <3>2, ContinueIs DEF Active
  <2> QED
    BY <2>1, <2>2, <2>3 DEF Step
<1> QED
  BY <1>3, <1>5, <1>6

LEMMA AloneKept ==
    ASSUME StatusInv, HighestInv, NEW t \in Threads, Step(t)
    PROVE  AloneIsAlone'
<1>1. /\ t \in Active
      /\ \A u \in Threads \ {t} : thr'[u] = thr[u]
      /\ t \in Active' => thr'[t].alone = thr[t].alone
  BY StepIs
<1>2. Active' \subseteq Active
  BY <1>1 DEF Active
<1>3. \A u \in Active' : thr'[u].alone => thr[u].alone
  BY <1>1 DEF Active
<1> QED
  BY <1>2, <1>3 DEF HighestInv, AloneIsAlone

\* The test of a thread without company is against the severity in the file.
LEMMA TestedKept ==
    ASSUME StatusInv, HighestInv, NEW t \in Threads, Step(t)
    PROVE  AloneTested'
<1>1. /\ t \in Active /\ restarts' = restarts /\ (undefined => undefined')
      /\ \A u \in Threads \ {t} : thr'[u] = thr[u]
      /\ t \in Active' => thr'[t].alone = thr[t].alone
  BY StepIs
<1>2. TypeOK /\ ThreadKept(t) /\ thr \in [Threads -> ThreadStates]
  BY DEF StatusInv, TypeOK
<1>3. ASSUME NEW u \in Threads, thr'[u].pc \in {"lock", "write"}, thr'[u].alone,
             restarts' = 0, ~undefined', ~Duplicate(thr[u].ref.at)'
      PROVE  file'[Head(thr'[u].names)] <= thr'[u].sev
  <2>1. u = t
    <3> SUFFICES ASSUME u # t PROVE FALSE
      OBVIOUS
    <3>1. u \in Active /\ thr[u].alone
      BY <1>1, <1>3 DEF Active
    <3> QED
      BY <1>1, <3>1 DEF HighestInv, AloneIsAlone
  <2>2. thr[t].alone /\ restarts = 0 /\ ~undefined /\ Active = {t}
    <3>1. thr[t].alone
      BY <1>1, <1>3, <2>1 DEF Active
    <3>2. Active = {t}
      BY <1>1, <3>1 DEF HighestInv, AloneIsAlone
    <3> QED
      BY <1>1, <1>3, <3>1, <3>2
  <2>3. CASE CompareUpdate(t)
    <3>1. /\ UNCHANGED <<cache, file>>
          /\ thr'[t].names = thr[t].names /\ thr'[t].sev = thr[t].sev
          /\ thr'[t].ref = thr[t].ref
          /\ thr[t].pc = "compare" /\ thr[t].sev \in Severities
      BY <1>2, <2>3 DEF CompareUpdate, ThreadStates
    <3>2. Entry(t).health <= thr[t].sev
      BY <1>3, <2>3, Zenon DEF CompareUpdate
    <3> DEFINE n == Head(thr[t].names)
               at == thr[t].ref.at
    <3>3. at \in DOMAIN cache /\ cache[at].name = n /\ cache[at] \in CachedDevices
      BY <1>2, <3>1 DEF ThreadKept, RefersToName, TypeOK
    <3>4. ~Duplicate(at)
      BY <1>3, <2>1, <3>1 DEF Duplicate
    <3>5. ~Updating(n)
      BY <2>2, <3>1 DEF Updating, Active
    <3>6. n \in Names
      BY <3>3 DEF CachedDevices
    <3>7. file[n] <= 0 \/ cache[at].health = file[n]
      BY <2>2, <3>3, <3>4, <3>5, <3>6
         DEF HighestInv, FileIsCached, Duplicate
    <3>8. file[n] \in Severities \cup {Cut, Empty, NoFile}
      BY <1>2, <3>6 DEF TypeOK
    <3>9. file[n] <= thr[t].sev
      BY <3>1, <3>2, <3>7, <3>8 DEF Entry, Severities, Cut, Empty, NoFile
    <3> QED
      BY <2>1, <3>1, <3>9
  <2>4. CASE Lock(t)
    <3>1. /\ UNCHANGED <<cache, file>>
          /\ thr'[t].names = thr[t].names /\ thr'[t].sev = thr[t].sev
          /\ thr'[t].ref = thr[t].ref
          /\ thr[t].pc = "lock"
      BY <1>2, <2>4 DEF Lock, ThreadStates
    <3>2. ~Duplicate(thr[t].ref.at)
      BY <1>3, <2>1, <3>1 DEF Duplicate
    <3> QED
      BY <2>1, <2>2, <3>1, <3>2 DEF HighestInv, AloneTested
  <2>5. CASE ~CompareUpdate(t) /\ ~Lock(t)
    <3>1. CASE Scan(t) \/ Insert(t) \/ Truncate(t) \/ WriteFile(t) \/ WriteLost(t)
      BY <1>2, <1>3, <2>1, <3>1
         DEF Scan, Insert, Truncate, WriteFile, WriteLost, ThreadStates
    <3>2. CASE CompareLower(t) \/ WriteFails(t) \/ DumpFails(t)
      <4>1. PICK code \in {"succ", "error"} :
               thr' = [thr EXCEPT ![t] = Return(t, code)]
        BY <3>2 DEF CompareLower, WriteFails, DumpFails
      <4>2. thr'[t].pc = code
        BY <1>2, <4>1, ReturnIs
      <4> QED
        BY <1>3, <2>1, <4>2
    <3>3. CASE SkipNameless(t) \/ UpdateCache(t)
      <4> DEFINE rest == Tail(thr[t].names)
      <4>1. rest \in Seq(Names)
        BY <1>1, <1>2, NamesTyped DEF ThreadKept, NamesLeft
      <4>2. thr'[t] = Continue(t, rest)
        BY <1>2, <3>3 DEF SkipNameless, UpdateCache
      <4> HIDE DEF rest
      <4> QED
        BY <1>2, <1>3, <2>1, <4>1, <4>2, ContinueIs
    <3> QED
      BY <2>5, <3>1, <3>2, <3>3 DEF Step
  <2> QED
    BY <2>3, <2>4, <2>5
<1> QED
  BY <1>3 DEF AloneTested

\* Before the first restart a severity in a file is cached.
LEMMA CachedKept ==
    ASSUME StatusInv, HighestInv, NEW t \in Threads, Step(t)
    PROVE  FileIsCached'
<1>1. /\ t \in Active /\ restarts' = restarts /\ (undefined => undefined')
      /\ \A u \in Threads \ {t} : thr'[u] = thr[u]
  BY StepIs
<1>2. TypeOK /\ ThreadKept(t) /\ thr \in [Threads -> ThreadStates]
  BY DEF StatusInv, TypeOK
<1>3. SUFFICES ASSUME restarts = 0, ~undefined, ~undefined', NEW m \in Names
               PROVE  \/ file'[m] <= 0
                      \/ Updating(m)'
                      \/ \E i \in DOMAIN cache' :
                            /\ cache'[i].name = m
                            /\ cache'[i].health = file'[m] \/ Duplicate(i)'
  BY <1>1 DEF FileIsCached
<1>4. \/ file[m] <= 0
      \/ Updating(m)
      \/ \E i \in DOMAIN cache : cache[i].name = m
                                 /\ (cache[i].health = file[m] \/ Duplicate(i))
  BY <1>3 DEF HighestInv, FileIsCached
<1>5. CASE Scan(t) \/ CompareLower(t) \/ CompareUpdate(t) \/ SkipNameless(t)
           \/ Lock(t) \/ DumpFails(t)
  <2>1. UNCHANGED <<cache, file>> /\ thr[t].pc # "update"
    BY <1>5 DEF Scan, CompareLower, CompareUpdate, SkipNameless, Lock, DumpFails
  <2>2. Updating(m) => Updating(m)'
    BY <1>1, <2>1 DEF Updating
  <2>3. \A i \in DOMAIN cache : Duplicate(i) => Duplicate(i)'
    BY <2>1 DEF Duplicate
  <2> QED
    BY <1>4, <2>1, <2>2, <2>3
<1>6. CASE Insert(t)
  <2> DEFINE e == [name |-> Head(thr[t].names), health |-> 0]
  <2>1. file' = file /\ thr[t].pc # "update" /\ cache' = Append(cache, e)
    BY <1>6 DEF Insert
  <2>2. Head(thr[t].names) \in Names
    BY <1>1, <1>2, NamesTyped DEF ThreadKept, NamesLeft
  <2>3. e \in CachedDevices
    BY <2>2 DEF CachedDevices, Severities
  <2> HIDE DEF e
  <2>4. /\ DOMAIN cache \subseteq DOMAIN cache'
        /\ \A i \in DOMAIN cache : cache'[i] = cache[i]
    BY <1>2, <2>1, <2>3 DEF TypeOK
  <2>5. Updating(m) => Updating(m)'
    BY <1>1, <2>1 DEF Updating
  <2>6. \A i \in DOMAIN cache : Duplicate(i) => Duplicate(i)'
    BY <2>4 DEF Duplicate
  <2> QED
    BY <1>4, <2>1, <2>4, <2>5, <2>6
<1>7. CASE Truncate(t) \/ WriteFile(t) \/ WriteLost(t)
  <2> DEFINE n == Head(thr[t].names)
  <2>1. /\ cache' = cache /\ thr[t].pc \in {"write", "dump"}
        /\ thr'[t].names = thr[t].names
        /\ \A k \in Names \ {n} : file'[k] = file[k]
    BY <1>2, <1>7 DEF Truncate, WriteFile, WriteLost, TypeOK, ThreadStates
  <2>2. CASE m = n
    <3>1. CASE Truncate(t)
      BY <1>2, <2>2, <3>1 DEF Truncate, TypeOK, Cut
    <3>2. CASE WriteFile(t) \/ WriteLost(t)
      BY <1>2, <2>1, <2>2, <3>2 DEF WriteFile, WriteLost, Updating, ThreadStates
    <3> QED
      BY <1>7, <3>1, <3>2
  <2>3. CASE m # n
    <3>1. ~Updating(m)
      BY <1>2, <2>1, HolderIs DEF Updating
    <3>2. \A i \in DOMAIN cache : Duplicate(i) => Duplicate(i)'
      BY <2>1 DEF Duplicate
    <3> QED
      BY <1>4, <2>1, <2>3, <3>1, <3>2
  <2> QED
    BY <2>2, <2>3
<1>8. CASE WriteFails(t)
  <2> DEFINE n == Head(thr[t].names)
  <2>1. /\ cache' = cache /\ thr[t].pc = "write"
        /\ \/ file' = file
           \/ file[n] = NoFile /\ file' = [file EXCEPT ![n] = Empty]
    BY <1>8 DEF WriteFails
  <2>2. file'[m] = file[m] \/ file'[m] <= 0
    BY <1>2, <2>1 DEF TypeOK, Empty
  <2>3. ~Updating(m)
    BY <1>2, <2>1, HolderIs DEF Updating
  <2>4. \A i \in DOMAIN cache : Duplicate(i) => Duplicate(i)'
    BY <2>1 DEF Duplicate
  <2> QED
    BY <1>4, <2>1, <2>2, <2>3, <2>4
<1>9. CASE UpdateCache(t)
  <2> DEFINE n == Head(thr[t].names)
             at == thr[t].ref.at
  <2>1. ~Dangling(t)
    BY <1>3, <1>9, Zenon DEF UpdateCache
  <2>2. /\ file' = file /\ thr[t].pc = "update"
        /\ cache' = [cache EXCEPT ![at].health = thr[t].sev]
    BY <1>9, <2>1 DEF UpdateCache
  <2>3. /\ at \in DOMAIN cache /\ cache[at].name = n
        /\ file[n] \in {thr[t].sev, Cut}
        /\ cache[at] \in CachedDevices
    BY <1>2, <2>2 DEF ThreadKept, RefersToName, WrittenStays, TypeOK
  <2>4. /\ DOMAIN cache' = DOMAIN cache
        /\ \A i \in DOMAIN cache : /\ cache'[i].name = cache[i].name
                                   /\ i # at => cache'[i] = cache[i]
        /\ cache'[at].health = thr[t].sev
    BY <1>2, <2>2, <2>3 DEF TypeOK, CachedDevices
  <2>5. CASE m = n
    BY <2>2, <2>3, <2>4, <2>5 DEF Cut
  <2>6. CASE m # n
    <3>1. ~Updating(m)
      BY <1>2, <2>2, <2>6, HolderIs DEF Updating
    <3>2. \A i \in DOMAIN cache : Duplicate(i) => Duplicate(i)'
      BY <2>4 DEF Duplicate
    <3> QED
      BY <1>4, <2>2, <2>3, <2>4, <2>6, <3>1, <3>2
  <2> QED
    BY <2>5, <2>6
<1> QED
  BY <1>5, <1>6, <1>7, <1>8, <1>9 DEF Step

LEMMA HighestBegin ==
    ASSUME StatusInv, HighestInv, NEW t \in Threads, NEW d \in SourceDevices,
           NEW s \in EventSeverities, Begin(t, d, s)
    PROVE  HighestInv'
<1> DEFINE names == lookupRollupDeviceId(d)
           nobody == Active = {}
           c == Continue(t, names)
<1>1. names \in Seq(Names) /\ s \in Severities
  BY RollupTyped, StatusAssumption DEF Severities
<1>2. /\ thr'[t] = [c EXCEPT !.sev = s, !.all = names, !.alone = nobody]
      /\ \A u \in Threads \ {t} :
            thr'[u] = [thr[u] EXCEPT !.alone = u \notin Active]
      /\ UNCHANGED <<cache, file, restarts, undefined>> /\ t \notin Active
  BY DEF Begin
<1> HIDE DEF names
<1>3. TypeOK /\ \A u \in Threads : thr[u] \in ThreadStates
  BY DEF StatusInv, TypeOK
<1>4. c \in ThreadStates /\ c.pc \in {"scan", "succ"} /\ nobody \in BOOLEAN
  BY <1>1, <1>3, ContinueIs
<1>5. thr'[t].pc \in {"scan", "succ"} /\ (thr'[t].alone <=> Active = {})
  <2> HIDE DEF c, nobody
  <2>1. thr'[t].pc = c.pc /\ thr'[t].alone = nobody
    BY <1>2, <1>4 DEF ThreadStates
  <2> QED
    BY <1>4, <2>1 DEF nobody
<1>6. \A u \in Threads \ {t} :
         /\ thr'[u].pc = thr[u].pc /\ thr'[u].names = thr[u].names
         /\ (u \in Active => ~thr'[u].alone)
  <2> SUFFICES ASSUME NEW u \in Threads \ {t}
               PROVE  /\ thr'[u].pc = thr[u].pc /\ thr'[u].names = thr[u].names
                      /\ (u \in Active => ~thr'[u].alone)
    OBVIOUS
  <2> DEFINE x == u \notin Active
  <2>1. thr'[u] = [thr[u] EXCEPT !.alone = x] /\ x \in BOOLEAN
    BY <1>2
  <2>2. thr'[u].alone = x
    <3> HIDE DEF x
    <3> QED
      BY <1>3, <2>1 DEF ThreadStates
  <2>3. thr'[u].pc = thr[u].pc /\ thr'[u].names = thr[u].names
    <3> HIDE DEF x
    <3> QED
      BY <1>3, <2>1, AloneIs
  <2> QED
    BY <2>2, <2>3
<1>7. FileIsCached'
  <2>1. \A n : Updating(n) => Updating(n)'
    BY <1>2, <1>6 DEF Updating, Active
  <2>2. \A i : Duplicate(i) => Duplicate(i)'
    BY <1>2 DEF Duplicate
  <2> QED
    BY <1>2, <2>1, <2>2 DEF HighestInv, FileIsCached
<1>8. AloneIsAlone'
  <2>1. Active' \ {t} = Active
    BY <1>2, <1>6 DEF Active
  <2>2. \A u \in Active' : thr'[u].alone => u = t /\ Active = {}
    <3> SUFFICES ASSUME NEW u \in Active', thr'[u].alone
                 PROVE  u = t /\ Active = {}
      OBVIOUS
    <3>1. CASE u = t
      BY <1>5, <3>1, Zenon
    <3>2. CASE u # t
      <4>1. u \in Active /\ u \in Threads \ {t}
        BY <2>1, <3>2 DEF Active
      <4> QED
        BY <1>6, <4>1, Zenon
    <3> QED
      BY <3>1, <3>2
  <2> QED
    BY <2>1, <2>2 DEF AloneIsAlone
<1>9. AloneTested'
  BY <1>5, <1>6 DEF AloneTested, Active
<1> QED
  BY <1>7, <1>8, <1>9 DEF HighestInv

LEMMA HighestIgnore ==
    ASSUME StatusInv, HighestInv, NEW t \in Threads, IgnoreUnmanaged(t)
    PROVE  HighestInv'
<1>1. TypeOK /\ thr \in [Threads -> ThreadStates] /\ thr[t].pc # "update"
  BY DEF StatusInv, TypeOK, IgnoreUnmanaged, Active
<1> DEFINE r == Return(t, "succ")
<1>2. /\ thr'[t] = [r EXCEPT !.all = <<>>]
      /\ \A u \in Threads \ {t} : thr'[u] = thr[u]
      /\ UNCHANGED <<cache, file, restarts, undefined>> /\ t \notin Active
  BY <1>1 DEF IgnoreUnmanaged
<1>3. r \in ThreadStates /\ r.pc = "succ"
  BY <1>1, ReturnIs
<1>4. thr'[t].pc = "succ"
  BY <1>2, <1>3 DEF ThreadStates
<1>5. Active' = Active
  BY <1>2, <1>4 DEF Active
<1>6. FileIsCached'
  <2>1. \A n : Updating(n) => Updating(n)'
    BY <1>1, <1>2 DEF Updating
  <2>2. \A i : Duplicate(i) => Duplicate(i)'
    BY <1>2 DEF Duplicate
  <2> QED
    BY <1>2, <2>1, <2>2 DEF HighestInv, FileIsCached
<1>7. AloneIsAlone'
  <2>1. \A u \in Active : u \in Threads \ {t} /\ thr'[u] = thr[u]
    BY <1>2 DEF Active
  <2> QED
    BY <1>5, <2>1 DEF HighestInv, AloneIsAlone
<1>8. AloneTested'
  <2> SUFFICES ASSUME NEW u \in Threads, thr'[u].pc \in {"lock", "write"},
                      thr'[u].alone, restarts' = 0, ~undefined',
                      ~Duplicate(thr[u].ref.at)'
               PROVE  file'[Head(thr'[u].names)] <= thr'[u].sev
    BY DEF AloneTested
  <2>1. u # t /\ thr'[u] = thr[u]
    BY <1>2, <1>4
  <2>2. ~Duplicate(thr[u].ref.at)
    BY <1>2, <2>1 DEF Duplicate
  <2> QED
    BY <1>2, <2>1, <2>2 DEF HighestInv, AloneTested
<1> QED
  BY <1>6, <1>7, <1>8 DEF HighestInv

LEMMA HighestNext == StatusInv /\ HighestInv /\ [Next]_vars => HighestInv'
<1> SUFFICES ASSUME StatusInv, HighestInv, [Next]_vars PROVE HighestInv'
  OBVIOUS
<1>1. ASSUME NEW t \in Threads, Step(t) PROVE HighestInv'
  BY <1>1, CachedKept, AloneKept, TestedKept DEF HighestInv
<1>2. ASSUME NEW t \in Threads, NEW d \in SourceDevices,
             NEW s \in EventSeverities, Begin(t, d, s)
      PROVE  HighestInv'
  BY <1>2, HighestBegin
<1>3. ASSUME NEW t \in Threads, IgnoreUnmanaged(t) PROVE HighestInv'
  BY <1>3, HighestIgnore
<1>4. CASE Restart
  <2>1. restarts' # 0
    BY <1>4 DEF Restart, StatusInv, TypeOK
  <2>2. \A t \in Threads : thr'[t].pc = "new"
    BY <1>4, NewThreadTyped DEF Restart
  <2> QED
    BY <2>1, <2>2 DEF HighestInv, FileIsCached, AloneIsAlone, AloneTested, Active
<1>5. CASE UNCHANGED vars
  BY <1>5 DEF vars, HighestInv, FileIsCached, AloneIsAlone, AloneTested, Active,
              Duplicate, Updating
<1> QED
  BY <1>1, <1>2, <1>3, <1>4, <1>5 DEF Next

\* A file that shows a severity is touched for a lower one only where
\* FileKeepsHighest allows it: after a restart, once a dangling reference has
\* been used, with the device in the cache twice, or by a thread with company.
THEOREM HighestSeverityStays == Spec => FileKeepsHighest
<1>1. Init => HighestInv
  <2> SUFFICES ASSUME Init PROVE HighestInv
    OBVIOUS
  <2>1. \A t \in Threads : thr[t].pc = "new"
    BY NewThreadTyped DEF Init
  <2>2. \A n \in Names : file[n] <= 0
    BY DEF Init, NoFile
  <2> QED
    BY <2>1, <2>2 DEF HighestInv, FileIsCached, AloneIsAlone, AloneTested, Active
<1>2. StatusInv /\ HighestInv /\ [Next]_vars => HighestInv'
  BY HighestNext
<1>3. ASSUME StatusInv, HighestInv, [Next]_vars, NEW n \in Names,
             file[n] \in Severities, file'[n] # file[n]
      PROVE  \/ restarts > 0 \/ undefined
             \/ Cardinality({i \in DOMAIN cache : cache[i].name = n}) > 1
             \/ \E t \in lock : /\ Head(thr[t].names) = n
                                /\ thr[t].sev >= file[n] \/ ~thr[t].alone
  <2>1. TypeOK /\ restarts \in Nat /\ file[n] \in Int
    BY <1>3 DEF StatusInv, TypeOK, Severities
  <2>2. file' # file
    BY <1>3
  <2>3. PICK t \in Threads : Truncate(t) \/ WriteFile(t) \/ WriteFails(t)
    BY <1>3, <2>2 DEF Next, Step, vars, Begin, IgnoreUnmanaged, Scan, Insert,
                      CompareLower, CompareUpdate, SkipNameless, Lock,
                      DumpFails, WriteLost, UpdateCache, Restart
  <2>4. ~WriteFails(t)
    BY <1>3, <2>1, <2>2 DEF WriteFails, TypeOK, NoFile, Severities
  <2>5. ~WriteFile(t)
    <3> SUFFICES ASSUME WriteFile(t) PROVE FALSE
      OBVIOUS
    <3>1. /\ thr[t].pc = "dump"
          /\ file' = [file EXCEPT ![Head(thr[t].names)] = thr[t].sev]
      BY DEF WriteFile
    <3>2. file[Head(thr[t].names)] = Cut
      BY <1>3, <3>1 DEF StatusInv, ThreadKept, WrittenStays
    <3>3. Head(thr[t].names) = n
      BY <1>3, <2>1, <3>1 DEF TypeOK
    <3> QED
      BY <1>3, <3>2, <3>3 DEF Cut, Severities
  <2>6. /\ file' = [file EXCEPT ![Head(thr[t].names)] = Cut]
        /\ thr[t].pc = "write" /\ t \in Active
    BY <2>3, <2>4, <2>5 DEF Truncate, Active
  <2>7. Head(thr[t].names) = n /\ t \in lock
    BY <1>3, <2>1, <2>6, HolderIs DEF TypeOK
  <2>8. thr[t].sev \in Int
    BY <2>1 DEF TypeOK, ThreadStates, Severities
  <2> SUFFICES ASSUME restarts = 0, ~undefined, thr[t].alone,
                      ~(file[n] <= thr[t].sev)
               PROVE  Cardinality({i \in DOMAIN cache : cache[i].name = n}) > 1
    BY <2>1, <2>7, <2>8
  <2> DEFINE at == thr[t].ref.at
             same == {i \in DOMAIN cache : cache[i].name = n}
  <2>9. Duplicate(at)
    BY <1>3, <2>6, <2>7 DEF HighestInv, AloneTested
  <2>10. at \in same
    BY <1>3, <2>6, <2>7 DEF StatusInv, ThreadKept, RefersToName
  <2>11. PICK j \in same : j # at
    BY <2>9, <2>10 DEF Duplicate
  <2>12. IsFiniteSet(same)
    <3>1. DOMAIN cache = 1 .. Len(cache) /\ Len(cache) \in Nat
      BY <2>1 DEF TypeOK
    <3>2. IsFiniteSet(1 .. Len(cache))
      BY <3>1, FS_Interval
    <3>3. same \subseteq 1 .. Len(cache)
      BY <3>1
    <3> QED
      BY <3>2, <3>3, FS_Subset
  <2> HIDE DEF same, at
  <2>13. Cardinality({at, j}) = 2
    <3>1. IsFiniteSet({at}) /\ Cardinality({at}) = 1 /\ j \notin {at}
      BY <2>11, FS_Singleton
    <3>2. Cardinality({at} \cup {j}) = Cardinality({at}) + 1
      BY <3>1, FS_AddElement, Zenon
    <3>3. {at, j} = {at} \cup {j}
      OBVIOUS
    <3> QED
      BY <3>1, <3>2, <3>3
  <2>14. 2 <= Cardinality(same) /\ Cardinality(same) \in Nat
    BY <2>10, <2>11, <2>12, <2>13, FS_Subset, FS_CardinalityType
  <2> QED
    BY <2>14 DEF same
<1>4. StatusInv /\ HighestInv /\ [Next]_vars
      => [\A n \in Names : file[n] \in Severities /\ file'[n] # file[n] =>
            \/ restarts > 0 \/ undefined
            \/ Cardinality({i \in DOMAIN cache : cache[i].name = n}) > 1
            \/ \E t \in lock : /\ Head(thr[t].names) = n
                               /\ thr[t].sev >= file[n] \/ ~thr[t].alone]_vars
  BY <1>3
<1> QED
  BY <1>1, <1>2, <1>4, StatusInvariant, PTL DEF Spec, FileKeepsHighest
=============================================================================
