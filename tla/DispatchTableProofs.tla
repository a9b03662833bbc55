------------------------ MODULE DispatchTableProofs ------------------------
(***************************************************************************)
(* The dispatch table for any number of threads, keys, values and calls,   *)
(* any sizes and any limit of buckets.                                     *)
(*                                                                         *)
(* The argument: the allocated slots are the main table and the buckets    *)
(* counted by nAvailBuckets, and one bucket more while the holder of the   *)
(* lock has made it and not yet raised the count.  A thread that is about  *)
(* to write holds the lock and points at a slot that is free, or that does *)
(* not exist yet; so a slot with a flag is never written but for its       *)
(* value, and a value is in the sink before it is stored.                  *)
(***************************************************************************)
EXTENDS DispatchTable, FiniteSetTheorems, TLAPS

\* The main table and the first e entries of the backup table.
Slots(e) == (0 .. TableSize - 1) \X (1 .. ChainSize) \cup {Backup} \X (1 .. e)

\* A bucket is there that queries are not told of yet.
Grown == \E t \in Threads : at[t] \in {"publish", "expose"} /\ pos[t] > Span(nAvailBuckets)

TableInv ==
  /\ nextBucketSize = BaseSize * 2 ^ nAvailBuckets
  /\ DOMAIN entry = Slots(Before(IF Grown THEN nAvailBuckets + 1 ELSE nAvailBuckets))

EntryInv ==
  \A s \in DOMAIN entry : entry[s].isOccupied =>
    /\ entry[s].value \in sink /\ entry[s].value \in Values
    /\ entry[s].key \in Keys
    /\ KeyOf[entry[s].value] = entry[s].key

\* The argument of a call, and what the call has come to know.
ArgInv(t) ==
  /\ at[t] # "idle" => arg[t].key \in Keys
  /\ arg[t].value # None => KeyOf[arg[t].value] = arg[t].key
  /\ at[t] \notin {"idle", "scan"} => arg[t].value \in Values
  /\ pos[t] \in Nat \ {0}
  /\ n[t] \in Nat /\ Before(n[t]) <= Before(nAvailBuckets)

\* Where a thread is only with the lock.
Locked == {"search", "write", "grow", "publish", "expose"}

\* The slot a thread points at.
PlaceInv(t) ==
  /\ at[t] \in Locked => mtx = t
  /\ at[t] \in {"write", "publish"} => Here(t) \in DOMAIN entry
  /\ at[t] = "write" => pos[t] <= Span(nAvailBuckets) /\ ~entry[Here(t)].isOccupied
  /\ at[t] \in {"grow", "expose"} => pos[t] = Span(nAvailBuckets) + 1
  /\ at[t] = "publish" => pos[t] <= Span(nAvailBuckets) + 1 /\ entry[Here(t)] = Fresh(t)
  /\ at[t] \in {"grow", "publish", "expose"} /\ pos[t] > Span(nAvailBuckets) => CanGrow
  /\ at[t] \in {"compare", "store", "return", "filled", "expose"} =>
       Here(t) \in DOMAIN entry /\ Holds(Here(t), arg[t].key)
  /\ at[t] \in {"publish", "expose", "store", "return", "filled"} => arg[t].value \in sink

RetInv(t) ==
  /\ ret[t] # None => ret[t] \in sink
  /\ at[t] = "idle" /\ ret[t] # None => KeyOf[ret[t]] = arg[t].key

IInv == /\ TypeOK /\ TableInv /\ EntryInv
        /\ \A t \in Threads : ArgInv(t) /\ PlaceInv(t) /\ RetInv(t)

\* What is occupied stays so, with its key.
Keeps ==
  \A s \in DOMAIN entry : entry[s].isOccupied =>
    s \in DOMAIN entry' /\ entry'[s].isOccupied /\ entry'[s].key = entry[s].key

----------------------------------------------------------------------------
(* The sizes of the buckets.  2^b is the number of subsets of 1 .. b, which *)
(* gives its type and its doubling without an induction.                    *)

\* A power of two is a natural number.
LEMMA PowerType == ASSUME NEW b \in Nat PROVE 2 ^ b \in Nat
<1>1. IsFiniteSet(1 .. b) /\ Cardinality(1 .. b) = b
  BY FS_Interval
<1>2. IsFiniteSet(SUBSET (1 .. b)) /\ Cardinality(SUBSET (1 .. b)) = 2 ^ b
  BY <1>1, FS_SUBSET
<1> QED
  BY <1>2, FS_CardinalityType

\* The subsets of 1 .. b+1 are those of 1 .. b, without b+1 and with it.
LEMMA Doubling == ASSUME NEW b \in Nat PROVE 2 ^ (b + 1) = 2 * 2 ^ b
<1> DEFINE S == 1 .. b
           Old == SUBSET S
           New == {A \cup {b + 1} : A \in Old}
           f == [A \in Old |-> A \cup {b + 1}]
<1>1. IsFiniteSet(S) /\ Cardinality(S) = b /\ b + 1 \notin S
  BY FS_Interval
<1>2. IsFiniteSet(S \cup {b + 1}) /\ Cardinality(S \cup {b + 1}) = b + 1
  BY <1>1, FS_AddElement
<1> HIDE DEF S
<1>3. IsFiniteSet(Old) /\ Cardinality(Old) = 2 ^ b
  BY <1>1, FS_SUBSET
<1>4. Cardinality(SUBSET (S \cup {b + 1})) = 2 ^ (b + 1)
  BY <1>2, FS_SUBSET
<1>5. f \in Bijection(Old, New)
  <2>1. f \in [Old -> New]
    OBVIOUS
  <2>2. ASSUME NEW A \in Old, NEW B \in Old, f[A] = f[B] PROVE A = B
    BY <1>1, <2>2
  <2>3. ASSUME NEW C \in New PROVE \E A \in Old : f[A] = C
    OBVIOUS
  <2> QED
    BY <2>1, <2>2, <2>3 DEF Bijection, Injection, Surjection, IsInjective
<1>6. IsFiniteSet(New) /\ Cardinality(New) = 2 ^ b
  BY <1>3, <1>5, FS_Bijection DEF ExistsBijection
<1>7. SUBSET (S \cup {b + 1}) = Old \cup New
  <2>1. ASSUME NEW C \in SUBSET (S \cup {b + 1}), b + 1 \in C PROVE C \in New
    <3>1. C \ {b + 1} \in Old /\ C = (C \ {b + 1}) \cup {b + 1}
      BY <2>1
    <3> QED
      BY <3>1
  <2> QED
    BY <2>1
<1>8. Cardinality(Old \cap New) = 0
  <2>1. Old \cap New = {}
    BY <1>1
  <2> QED
    BY <2>1, FS_EmptySet
<1> HIDE DEF Old, New
<1>9. Cardinality(Old \cup New) = 2 ^ b + 2 ^ b - 0
  BY <1>3, <1>6, <1>8, FS_Union
<1>10. 2 ^ b \in Nat
  BY PowerType
<1>11. 2 ^ (b + 1) = 2 ^ b + 2 ^ b - 0
  BY <1>4, <1>7, <1>9
<1> QED
  BY <1>10, <1>11

\* A further bucket has baseBucketSize << b entries.
LEMMA BeforeNext ==
  ASSUME NEW b \in Nat
  PROVE  /\ Before(b) \in Nat /\ Before(b + 1) \in Nat /\ BaseSize * 2 ^ b \in Nat
         /\ Before(b + 1) = Before(b) + BaseSize * 2 ^ b
         /\ BaseSize * 2 ^ (b + 1) = 2 * (BaseSize * 2 ^ b)
         /\ 2 ^ b > 0
<1> DEFINE p == 2 ^ b
<1>1. p \in Nat /\ 2 ^ (b + 1) = 2 * p /\ BaseSize \in Nat \ {0}
  BY PowerType, Doubling, TableAssumption
<1>2. p # 0
  <2>1. IsFiniteSet(1 .. b) /\ Cardinality(1 .. b) = b
    BY FS_Interval
  <2>2. IsFiniteSet(SUBSET (1 .. b)) /\ Cardinality(SUBSET (1 .. b)) = p
    BY <2>1, FS_SUBSET
  <2>3. SUBSET (1 .. b) # {}
    OBVIOUS
  <2> QED
    BY <2>2, <2>3, FS_EmptySet
<1>3. Before(b) = BaseSize * (p - 1) /\ Before(b + 1) = BaseSize * (2 * p - 1)
  BY <1>1 DEF Before
<1>4. BaseSize * 2 ^ b = BaseSize * p /\ BaseSize * 2 ^ (b + 1) = BaseSize * (2 * p)
  BY <1>1
<1> HIDE DEF p
<1>5. p - 1 \in Nat /\ 2 * p - 1 \in Nat
  BY <1>1, <1>2
<1>6. BaseSize * (p - 1) \in Nat /\ BaseSize * (2 * p - 1) \in Nat /\ BaseSize * p \in Nat
  BY <1>1, <1>5
<1>7. BaseSize * (2 * p - 1) = BaseSize * (p - 1) + BaseSize * p
  BY <1>1
<1>8. BaseSize * (2 * p) = 2 * (BaseSize * p)
  BY <1>1
<1>9. 2 ^ b > 0
  BY <1>1, <1>2 DEF p
<1> QED
  BY <1>3, <1>4, <1>6, <1>7, <1>8, <1>9

\* There is nothing before the first bucket, and it has baseBucketSize entries.
LEMMA BeforeFirst == Before(0) = 0 /\ Before(1) = BaseSize
  BY TableAssumption DEF Before

----------------------------------------------------------------------------
(* Slots.                                                                  *)

\* A place within the chain and the first e backup entries is one of Slots(e).
LEMMA SlotInside ==
  ASSUME NEW k \in Keys, NEW e \in Nat, NEW p \in Nat \ {0}, p <= ChainSize + e
  PROVE  Slot(k, p) \in Slots(e)
  BY TableAssumption DEF Slot, Slots

\* Slots(e) and the d entries that follow.
LEMMA SlotsAfter ==
  ASSUME NEW e \in Nat, NEW d \in Nat
  PROVE  /\ Slots(e + d) = Slots(e) \cup {Backup} \X (e + 1 .. e + d)
         /\ Slots(e) \cap ({Backup} \X (e + 1 .. e + d)) = {}
<1>1. 1 .. e + d = (1 .. e) \cup (e + 1 .. e + d)
  OBVIOUS
<1>2. Slots(e + d) = Slots(e) \cup {Backup} \X (e + 1 .. e + d)
  BY <1>1 DEF Slots
<1>3. ASSUME NEW x \in Slots(e), x \in {Backup} \X (e + 1 .. e + d) PROVE FALSE
  BY <1>3, TableAssumption DEF Slots, Backup
<1> QED
  BY <1>2, <1>3

\* The limits and the counts are numbers.
LEMMA Counts ==
  ASSUME TypeOK
  PROVE  /\ nAvailBuckets \in Nat \ {0} /\ maxBTBuckets \in Nat
         /\ Before(nAvailBuckets) \in Nat /\ Before(nAvailBuckets + 1) \in Nat
         /\ Span(nAvailBuckets) \in Nat
<1>1. nAvailBuckets \in Nat \ {0} /\ maxBTBuckets \in Nat
  BY TableAssumption DEF TypeOK
<1> QED
  BY <1>1, BeforeNext, TableAssumption DEF Span

\* The slots that queries know of are there.
LEMMA KnownSlots ==
  ASSUME TypeOK, TableInv, NEW k \in Keys, NEW p \in Nat \ {0}, NEW m \in Nat,
         Before(m) <= Before(nAvailBuckets), p <= Span(m)
  PROVE  Slot(k, p) \in DOMAIN entry
<1> DEFINE b == Before(nAvailBuckets)
<1>1. b \in Nat /\ Before(nAvailBuckets + 1) \in Nat /\ ChainSize \in Nat /\ Before(m) \in Nat
  BY Counts, BeforeNext, TableAssumption
<1>2. Before(nAvailBuckets + 1) >= b
  BY Counts, BeforeNext
<1>3. p <= ChainSize + b /\ p <= ChainSize + Before(nAvailBuckets + 1)
  BY <1>1, <1>2 DEF Span
<1>4. Slot(k, p) \in Slots(b) /\ Slot(k, p) \in Slots(Before(nAvailBuckets + 1))
  BY <1>1, <1>3, SlotInside
<1> QED
  BY <1>4 DEF TableInv

\* The initial state satisfies the invariant.
LEMMA InitIInv == Init => IInv
<1> SUFFICES ASSUME Init PROVE IInv
  OBVIOUS
<1>1. /\ BaseSize \in Nat \ {0} /\ 2 * BaseSize \in Nat /\ 2 ^ 1 = 2
      /\ maxBTBuckets \in Nat \ {0}
  BY TableAssumption DEF Init
<1>2. \A x \in DOMAIN entry : entry[x] = Empty
  BY DEF Init
<1>3. TypeOK
  BY <1>1, <1>2, TableAssumption DEF Init, TypeOK, Empty
<1>4. TableInv
  <2>1. ~Grown
    BY DEF Init, Grown
  <2>2. DOMAIN entry = Slots(BaseSize)
    BY DEF Init, Slots
  <2> QED
    BY <1>1, <2>1, <2>2, BeforeFirst DEF TableInv, Init
<1>5. EntryInv
  BY <1>2 DEF EntryInv, Empty
<1>6. ASSUME NEW t \in Threads PROVE ArgInv(t) /\ PlaceInv(t) /\ RetInv(t)
  BY <1>1, BeforeFirst DEF Init, ArgInv, PlaceInv, RetInv, Locked
<1> QED
  BY <1>3, <1>4, <1>5, <1>6 DEF IInv

----------------------------------------------------------------------------
(* What a step of thread t leaves alone.                                   *)

\* A step of another thread keeps what thread u knows, if it keeps the slots
\* that are occupied and, when u has the lock, also the one u points at.
LEMMA OtherThread ==
  ASSUME IInv, NEW u \in Threads,
         at'[u] = at[u], arg'[u] = arg[u], pos'[u] = pos[u], n'[u] = n[u], ret'[u] = ret[u],
         sink \subseteq sink', maxBTBuckets' = maxBTBuckets, Keeps,
         Before(nAvailBuckets) <= Before(nAvailBuckets'), nAvailBuckets' \in Nat,
         at[u] \in Locked => nAvailBuckets' = nAvailBuckets /\ mtx' = u,
         at[u] \in {"write", "publish"} =>
           /\ Here(u) \in DOMAIN entry'
           /\ entry'[Here(u)] = entry[Here(u)]
  PROVE  ArgInv(u)' /\ PlaceInv(u)' /\ RetInv(u)'
<1>1. ArgInv(u) /\ PlaceInv(u) /\ RetInv(u)
  BY DEF IInv
<1>2. Here(u)' = Here(u) /\ Fresh(u)' = Fresh(u)
  BY DEF Here, Slot, Fresh
<1>3. ArgInv(u)'
  <2>1. Before(n[u]) \in Nat /\ Before(nAvailBuckets) \in Nat /\ Before(nAvailBuckets') \in Nat
    BY <1>1, BeforeNext, Counts DEF ArgInv, IInv
  <2>2. Before(n[u]) <= Before(nAvailBuckets')
    BY <1>1, <2>1 DEF ArgInv
  <2> QED
    BY <1>1, <2>2 DEF ArgInv, Before
<1>4. PlaceInv(u)'
  <2>1. at[u] \in {"compare", "store", "return", "filled", "expose"} =>
          Here(u) \in DOMAIN entry' /\ entry'[Here(u)].isOccupied
            /\ entry'[Here(u)].key = arg[u].key
    BY <1>1 DEF PlaceInv, Holds, Keeps
  <2> QED
    BY <1>1, <1>2, <2>1 DEF PlaceInv, Holds, Locked, CanGrow, Span, Before
<1>5. RetInv(u)'
  BY <1>1 DEF RetInv
<1> QED
  BY <1>3, <1>4, <1>5

\* Whoever is where the lock is needed has it, so nobody else is there.
LEMMA LockExcludes ==
  ASSUME IInv, NEW t \in Threads, mtx = t
  PROVE  \A u \in Threads : u # t => at[u] \notin Locked
  BY DEF IInv, PlaceInv

\* A thread that neither was nor is about to publish does not make or unmake a bucket.
LEMMA GrownSame ==
  ASSUME TypeOK, NEW t \in Threads, nAvailBuckets' = nAvailBuckets,
         at[t] \notin {"publish", "expose"}, at'[t] \notin {"publish", "expose"},
         \A u \in Threads : u # t => at'[u] = at[u] /\ pos'[u] = pos[u]
  PROVE  Grown' <=> Grown
  BY DEF Grown, Span, Before

\* Steps that touch neither the slots nor the count.
LEMMA TableSame ==
  ASSUME TypeOK, TableInv, EntryInv, NEW t \in Threads,
         nAvailBuckets' = nAvailBuckets, nextBucketSize' = nextBucketSize, entry' = entry,
         sink \subseteq sink',
         at[t] \notin {"publish", "expose"}, at'[t] \notin {"publish", "expose"},
         \A u \in Threads : u # t => at'[u] = at[u] /\ pos'[u] = pos[u]
  PROVE  TableInv' /\ EntryInv' /\ Keeps
<1>1. Grown' <=> Grown
  BY GrownSame
<1>2. TableInv'
  BY <1>1 DEF TableInv, Slots, Before, Backup
<1>3. EntryInv' /\ Keeps
  BY DEF EntryInv, Keeps
<1> QED
  BY <1>2, <1>3

\* Thread t keeps the invariant if it leaves the others alone and what it now
\* knows itself is true.
LEMMA OwnThread ==
  ASSUME IInv, NEW t \in Threads, TypeOK', TableInv', EntryInv', Keeps,
         sink \subseteq sink', maxBTBuckets' = maxBTBuckets,
         Before(nAvailBuckets) <= Before(nAvailBuckets'),
         \A u \in Threads : u # t =>
           /\ at'[u] = at[u] /\ arg'[u] = arg[u] /\ pos'[u] = pos[u]
           /\ n'[u] = n[u] /\ ret'[u] = ret[u]
           /\ at[u] \in Locked => nAvailBuckets' = nAvailBuckets /\ mtx' = u
           /\ at[u] \in {"write", "publish"} =>
                Here(u) \in DOMAIN entry' /\ entry'[Here(u)] = entry[Here(u)],
         ArgInv(t)', PlaceInv(t)', RetInv(t)'
  PROVE  IInv'
<1>1. nAvailBuckets' \in Nat
  BY TableAssumption DEF TypeOK
<1>2. ASSUME NEW u \in Threads, u # t PROVE ArgInv(u)' /\ PlaceInv(u)' /\ RetInv(u)'
  BY <1>1, <1>2, OtherThread
<1> QED
  BY <1>2 DEF IInv

\* The same for a step that touches neither the slots nor the count.
LEMMA QuietStep ==
  ASSUME IInv, NEW t \in Threads, TypeOK',
         entry' = entry, nAvailBuckets' = nAvailBuckets, nextBucketSize' = nextBucketSize,
         maxBTBuckets' = maxBTBuckets, sink \subseteq sink',
         \A u \in Threads : u # t =>
           /\ at'[u] = at[u] /\ arg'[u] = arg[u] /\ pos'[u] = pos[u]
           /\ n'[u] = n[u] /\ ret'[u] = ret[u]
           /\ at[u] \in Locked => mtx' = u,
         at[t] \notin {"publish", "expose"}, at'[t] \notin {"publish", "expose"},
         ArgInv(t)', PlaceInv(t)', RetInv(t)'
  PROVE  IInv' /\ Keeps
<1>1. TypeOK /\ TableInv /\ EntryInv /\ \A u \in Threads : PlaceInv(u)
  BY DEF IInv
<1>2. TableInv' /\ EntryInv' /\ Keeps
  BY <1>1, TableSame
<1>3. Before(nAvailBuckets) <= Before(nAvailBuckets')
  BY <1>1, Counts
<1>4. \A u \in Threads : at[u] \in {"write", "publish"} => Here(u) \in DOMAIN entry
  BY <1>1 DEF PlaceInv
<1> QED
  BY <1>2, <1>3, <1>4, OwnThread

----------------------------------------------------------------------------
(* Calls and the search without the lock.                                  *)

\* A call begins.
LEMMA CallIInv ==
  ASSUME IInv, NEW t \in Threads, CallInsert(t) \/ CallQuery(t)
  PROVE  IInv' /\ Keeps
<1>1. PICK k \in Keys, v \in Values \cup {None} :
        Call(t, k, v) /\ (v # None => KeyOf[v] = k)
  BY TableAssumption DEF CallInsert, CallQuery
<1>2. TypeOK'
  BY <1>1, TableAssumption DEF IInv, TypeOK, Call, Goto, shared
<1>3. ArgInv(t)' /\ PlaceInv(t)' /\ RetInv(t)'
  BY <1>1, TableAssumption
     DEF IInv, TypeOK, ArgInv, PlaceInv, RetInv, Call, Goto, shared, Locked, Before
<1> QED
  BY <1>1, <1>2, <1>3, QuietStep DEF IInv, TypeOK, Call, Goto, shared, PlaceInv, Locked

\* What a call returns is in the sink and for its key.
LEMMA ReturnOwn ==
  ASSUME IInv, NEW t \in Threads, NEW v \in Values \cup {None}, Return(t, v),
         v # None => v \in sink /\ KeyOf[v] = arg[t].key,
         arg' = arg, sink' = sink, nAvailBuckets' = nAvailBuckets,
         at[t] # "idle"
  PROVE  ArgInv(t)' /\ PlaceInv(t)' /\ RetInv(t)'
<1>1. Before(0) = 0 /\ Before(nAvailBuckets) \in Nat
  BY BeforeFirst, Counts DEF IInv
<1>2. ArgInv(t)'
  BY <1>1 DEF IInv, TypeOK, ArgInv, Return, Goto, Before
<1>3. PlaceInv(t)' /\ RetInv(t)'
  BY DEF IInv, TypeOK, PlaceInv, RetInv, Return, Goto, Locked
<1> QED
  BY <1>2, <1>3

\* The slot a scan looks at is there.
LEMMA ScanInside ==
  ASSUME IInv, NEW t \in Threads, at[t] # "idle", pos[t] <= Span(n[t])
  PROVE  Here(t) \in DOMAIN entry
  BY KnownSlots DEF IInv, ArgInv, Here

\* The scan finds the key.
LEMMA ScanHitIInv ==
  ASSUME IInv, NEW t \in Threads, ScanHit(t)
  PROVE  IInv' /\ Keeps
<1>1. /\ Here(t) \in DOMAIN entry /\ entry[Here(t)].isOccupied
      /\ entry[Here(t)].key = arg[t].key
  BY ScanInside DEF ScanHit, Holds
<1>2. CASE IsInsert(t)
  <2>1. TypeOK'
    BY <1>2 DEF IInv, TypeOK, ScanHit, Goto, shared
  <2>2. arg[t].value \in Values
    BY <1>2 DEF IInv, TypeOK, IsInsert
  <2>3. ArgInv(t)' /\ RetInv(t)'
    BY <1>2, <2>2 DEF IInv, TypeOK, ArgInv, RetInv, ScanHit, Goto, shared, Before
  <2>4. PlaceInv(t)'
    BY <1>1, <1>2 DEF IInv, TypeOK, PlaceInv, ScanHit, Goto, shared, Locked, Holds, Here, Slot
  <2> QED
    BY <1>2, <2>1, <2>3, <2>4, QuietStep DEF IInv, TypeOK, ScanHit, Goto, shared, PlaceInv
<1>3. CASE ~IsInsert(t)
  <2> DEFINE v == entry[Here(t)].value
  <2>1. v \in Values /\ v \in sink /\ KeyOf[v] = arg[t].key
    BY <1>1 DEF IInv, EntryInv
  <2> HIDE DEF v
  <2>2. Return(t, v)
    BY <1>3 DEF ScanHit, v
  <2>3. TypeOK'
    BY <1>3, <2>1, <2>2 DEF IInv, TypeOK, ScanHit, Return, Goto, shared
  <2>4. ArgInv(t)' /\ PlaceInv(t)' /\ RetInv(t)'
    BY <2>1, <2>2, ReturnOwn DEF ScanHit, shared
  <2> QED
    BY <2>2, <2>3, <2>4, QuietStep DEF IInv, TypeOK, ScanHit, Return, Goto, shared, PlaceInv
<1> QED
  BY <1>2, <1>3

\* The scan moves on, learns of the buckets, or ends without the key.
LEMMA ScanOnIInv ==
  ASSUME IInv, NEW t \in Threads, ScanMiss(t) \/ LoadBuckets(t) \/ QueryMiss(t)
  PROVE  IInv' /\ Keeps
<1>1. CASE ScanMiss(t)
  <2>1. TypeOK'
    BY <1>1 DEF IInv, TypeOK, ScanMiss, shared
  <2>2. ArgInv(t)' /\ PlaceInv(t)' /\ RetInv(t)'
    BY <1>1 DEF IInv, TypeOK, ArgInv, PlaceInv, RetInv, ScanMiss, shared, Before, Locked
  <2> QED
    BY <1>1, <2>1, <2>2, QuietStep DEF IInv, TypeOK, ScanMiss, shared, PlaceInv
<1>2. CASE LoadBuckets(t)
  <2>1. nAvailBuckets \in Nat /\ Before(nAvailBuckets) \in Nat
    BY Counts DEF IInv
  <2>2. TypeOK'
    BY <1>2, <2>1 DEF IInv, TypeOK, LoadBuckets, shared
  <2>3. ArgInv(t)' /\ PlaceInv(t)' /\ RetInv(t)'
    BY <1>2, <2>1 DEF IInv, TypeOK, ArgInv, PlaceInv, RetInv, LoadBuckets, shared, Before, Locked
  <2> QED
    BY <1>2, <2>2, <2>3, QuietStep DEF IInv, TypeOK, LoadBuckets, shared, PlaceInv
<1>3. CASE QueryMiss(t)
  <2>1. Return(t, None)
    BY <1>3 DEF QueryMiss
  <2>2. TypeOK'
    BY <1>3 DEF IInv, TypeOK, QueryMiss, Return, Goto, shared, IsInsert
  <2>3. ArgInv(t)' /\ PlaceInv(t)' /\ RetInv(t)'
    BY <1>3, <2>1, ReturnOwn DEF QueryMiss, shared
  <2> QED
    BY <1>3, <2>2, <2>3, QuietStep DEF IInv, TypeOK, QueryMiss, Return, Goto, shared, PlaceInv
<1> QED
  BY <1>1, <1>2, <1>3

----------------------------------------------------------------------------
(* With the lock.                                                          *)

\* The lock is taken when nobody has it.
LEMMA LockIInv ==
  ASSUME IInv, NEW t \in Threads, Lock(t)
  PROVE  IInv' /\ Keeps
<1>1. TypeOK'
  BY DEF IInv, TypeOK, Lock, Goto
<1>2. arg[t].value \in Values
  BY DEF IInv, TypeOK, Lock, IsInsert
<1>3. ArgInv(t)' /\ PlaceInv(t)' /\ RetInv(t)'
  BY <1>2 DEF IInv, TypeOK, ArgInv, PlaceInv, RetInv, Lock, Goto, Before, Locked
<1>4. \A u \in Threads : at[u] \notin Locked
  BY TableAssumption DEF IInv, PlaceInv, Lock
<1> QED
  BY <1>1, <1>3, <1>4, QuietStep DEF IInv, TypeOK, Lock, Goto, Locked

\* The locked search points at the key, at a free slot, at the bucket to come,
\* or gives up.
LEMMA SearchIInv ==
  ASSUME IInv, NEW t \in Threads, Search(t)
  PROVE  IInv' /\ Keeps
<1> DEFINE k == arg[t].key
<1>1. /\ mtx = t /\ k \in Keys /\ arg[t].value \in Values /\ at[t] = "search"
      /\ Span(nAvailBuckets) \in Nat /\ nAvailBuckets \in Nat
  BY Counts DEF IInv, ArgInv, PlaceInv, Search, Locked
<1>2. \A u \in Threads : u # t => at[u] \notin Locked
  BY <1>1, LockExcludes
<1>3. ASSUME NEW p \in Stops(k), pos' = [pos EXCEPT ![t] = p],
             Goto(t, IF entry[Slot(k, p)].isOccupied THEN "compare" ELSE "write"),
             UNCHANGED <<mtx, n, ret>>
      PROVE  IInv' /\ Keeps
  <2>1. p \in Nat \ {0} /\ p <= Span(nAvailBuckets)
    BY <1>1 DEF Stops
  <2>2. ~entry[Slot(k, p)].isOccupied \/ entry[Slot(k, p)].key = k
    BY DEF Stops
  <2>3. Slot(k, p) \in DOMAIN entry
    BY <1>1, <2>1, KnownSlots, Counts DEF IInv
  <2>4. Here(t)' = Slot(k, p)
    BY <1>3 DEF Here, Slot, Search, IInv, TypeOK
  <2>5. TypeOK'
    BY <1>3, <2>1 DEF IInv, TypeOK, Search, Goto
  <2>6. ArgInv(t)' /\ RetInv(t)'
    BY <1>1, <1>3, <2>1 DEF IInv, TypeOK, ArgInv, RetInv, Search, Goto, Before
  <2>7. PlaceInv(t)'
    BY <1>1, <1>3, <2>1, <2>2, <2>3, <2>4
       DEF IInv, TypeOK, PlaceInv, Search, Goto, Locked, Holds, Span, Before
  <2> QED
    BY <1>1, <1>2, <1>3, <2>5, <2>6, <2>7, QuietStep DEF IInv, TypeOK, Search, Goto
<1>4. ASSUME CanGrow, pos' = [pos EXCEPT ![t] = Span(nAvailBuckets) + 1], Goto(t, "grow"),
             UNCHANGED <<mtx, n, ret>>
      PROVE  IInv' /\ Keeps
  <2>1. TypeOK'
    BY <1>1, <1>4 DEF IInv, TypeOK, Search, Goto
  <2>2. ArgInv(t)' /\ RetInv(t)'
    BY <1>1, <1>4 DEF IInv, TypeOK, ArgInv, RetInv, Search, Goto, Before
  <2>3. PlaceInv(t)'
    BY <1>1, <1>4 DEF IInv, TypeOK, PlaceInv, Search, Goto, Locked, Span, Before, CanGrow
  <2> QED
    BY <1>1, <1>2, <1>4, <2>1, <2>2, <2>3, QuietStep DEF IInv, TypeOK, Search, Goto
<1>5. ASSUME Return(t, None), mtx' = None
      PROVE  IInv' /\ Keeps
  <2>1. TypeOK'
    BY <1>1, <1>5 DEF IInv, TypeOK, Search, Return, Goto, IsInsert
  <2>2. ArgInv(t)' /\ PlaceInv(t)' /\ RetInv(t)'
    BY <1>1, <1>5, ReturnOwn DEF Search
  <2> QED
    BY <1>1, <1>2, <1>5, <2>1, <2>2, QuietStep DEF IInv, TypeOK, Search, Return, Goto
<1> QED
  BY <1>3, <1>4, <1>5 DEF Search

\* The value at a slot with the key is compared.
LEMMA CompareIInv ==
  ASSUME IInv, NEW t \in Threads, Compare(t)
  PROVE  IInv' /\ Keeps
<1>1. /\ Here(t) \in DOMAIN entry /\ Holds(Here(t), arg[t].key)
      /\ arg[t].value \in Values /\ at[t] = "compare"
  BY DEF IInv, ArgInv, PlaceInv, Compare
<1>2. entry[Here(t)].value \in sink
  BY <1>1 DEF IInv, EntryInv, Holds
<1>3. TypeOK' /\ sink \subseteq sink'
  BY <1>1 DEF IInv, TypeOK, Compare, Goto
<1>4. ArgInv(t)' /\ RetInv(t)'
  BY <1>1, <1>3 DEF IInv, TypeOK, ArgInv, RetInv, Compare, Goto, Before
<1>5. Here(t)' = Here(t) /\ arg[t].value \in sink'
  BY <1>2 DEF Compare, Here, Slot
<1>6. PlaceInv(t)'
  BY <1>1, <1>5 DEF IInv, TypeOK, PlaceInv, Compare, Goto, Locked, Holds
<1> QED
  BY <1>3, <1>4, <1>6, QuietStep DEF IInv, TypeOK, Compare, Goto, PlaceInv

\* An insert ends.
LEMMA EndInsertIInv ==
  ASSUME IInv, NEW t \in Threads, EndInsert(t)
  PROVE  IInv' /\ Keeps
<1> DEFINE v == IF mtx = t THEN entry[Here(t)].value ELSE arg[t].value
<1>1. /\ Here(t) \in DOMAIN entry /\ Holds(Here(t), arg[t].key)
      /\ arg[t].value \in Values /\ arg[t].value \in sink /\ KeyOf[arg[t].value] = arg[t].key
  BY TableAssumption DEF IInv, ArgInv, PlaceInv, EndInsert
<1>2. v \in Values /\ v \in sink /\ KeyOf[v] = arg[t].key
  BY <1>1 DEF IInv, EntryInv, Holds
<1>3. Return(t, v)
  BY DEF EndInsert
<1> HIDE DEF v
<1>4. TypeOK'
  BY <1>2, <1>3 DEF IInv, TypeOK, ArgInv, EndInsert, Return, Goto
<1>5. ArgInv(t)' /\ PlaceInv(t)' /\ RetInv(t)'
  BY <1>2, <1>3, ReturnOwn DEF EndInsert
<1>6. \A u \in Threads : u # t /\ at[u] \in Locked => mtx' = u
  BY DEF IInv, PlaceInv, EndInsert
<1> QED
  BY <1>3, <1>4, <1>5, <1>6, QuietStep DEF IInv, TypeOK, EndInsert, Return, Goto

----------------------------------------------------------------------------
(* Steps that write slots.                                                 *)

\* The thread with the lock is alone in needing it.
LEMMA HolderAlone ==
  ASSUME IInv, NEW t \in Threads, at[t] \in Locked
  PROVE  \A u \in Threads : u # t => at[u] \notin Locked
  BY LockExcludes DEF IInv, PlaceInv

\* The free slot is filled, its flag still down.
LEMMA WriteIInv ==
  ASSUME IInv, NEW t \in Threads, Write(t)
  PROVE  IInv' /\ Keeps
<1>1. /\ Here(t) \in DOMAIN entry /\ ~entry[Here(t)].isOccupied
      /\ arg[t].value \in Values /\ at[t] = "write" /\ arg[t].key \in Keys
      /\ pos[t] <= Span(nAvailBuckets) /\ mtx = t /\ pos[t] \in Nat
      /\ Span(nAvailBuckets) \in Nat
  BY Counts DEF IInv, ArgInv, PlaceInv, Write, Locked
<1>2. \A u \in Threads : u # t => at[u] \notin Locked
  BY <1>1, HolderAlone DEF Locked
<1>3. DOMAIN entry' = DOMAIN entry
  BY DEF Write
<1>4. \A x \in DOMAIN entry : entry'[x] = IF x = Here(t) THEN Fresh(t) ELSE entry[x]
  BY DEF Write
<1>5. TypeOK'
  BY <1>1, <1>3, <1>4 DEF IInv, TypeOK, Write, Goto, Fresh
<1>6. Keeps
  BY <1>1, <1>3, <1>4 DEF Keeps
<1>7. EntryInv'
  BY <1>3, <1>4 DEF IInv, EntryInv, Write, Fresh
<1>8. TableInv'
  <2>1. ~Grown
    BY <1>1, <1>2 DEF Grown, Locked
  <2>2. ~Grown'
    BY <1>1, <1>2 DEF Grown, Locked, Write, Goto, Span, Before, IInv, TypeOK
  <2> QED
    BY <1>3, <2>1, <2>2 DEF IInv, TableInv, Slots, Before, Backup, Write
<1>9. ArgInv(t)' /\ RetInv(t)'
  BY <1>1 DEF IInv, TypeOK, ArgInv, RetInv, Write, Goto, Before
<1>10. Here(t)' = Here(t) /\ Fresh(t)' = Fresh(t)
  BY DEF Write, Here, Slot, Fresh
<1>11. PlaceInv(t)'
  BY <1>1, <1>3, <1>4, <1>10 DEF IInv, TypeOK, PlaceInv, Write, Goto, Locked, Span, Before
<1>12. Before(nAvailBuckets) <= Before(nAvailBuckets')
  BY Counts DEF Write, IInv
<1> QED
  BY <1>2, <1>5, <1>6, <1>7, <1>8, <1>9, <1>11, <1>12, OwnThread
     DEF IInv, TypeOK, Write, Goto, Locked

\* A bucket is made after the last one, with the entry in its first slot.
LEMMA GrowIInv ==
  ASSUME IInv, NEW t \in Threads, Grow(t)
  PROVE  IInv' /\ Keeps
<1> DEFINE b == Before(nAvailBuckets)
<1>1. /\ arg[t].value \in Values /\ at[t] = "grow" /\ arg[t].key \in Keys
      /\ pos[t] = Span(nAvailBuckets) + 1 /\ mtx = t /\ pos[t] \in Nat
      /\ Span(nAvailBuckets) \in Nat /\ CanGrow /\ nAvailBuckets \in Nat
  BY Counts DEF IInv, ArgInv, PlaceInv, Grow, Locked
<1>2. \A u \in Threads : u # t => at[u] \notin Locked
  BY <1>1, HolderAlone DEF Locked
<1>3. ~Grown
  BY <1>1, <1>2 DEF Grown, Locked
<1>4. /\ b \in Nat /\ nextBucketSize \in Nat \ {0}
      /\ Before(nAvailBuckets + 1) = b + nextBucketSize /\ ChainSize \in Nat
  <2>1. nextBucketSize = BaseSize * 2 ^ nAvailBuckets
    BY DEF IInv, TableInv
  <2>2. BaseSize * 2 ^ nAvailBuckets # 0
    <3> DEFINE p == 2 ^ nAvailBuckets
    <3>1. p \in Nat /\ p > 0 /\ BaseSize \in Nat \ {0}
      BY <1>1, BeforeNext, PowerType, TableAssumption
    <3> HIDE DEF p
    <3>2. BaseSize * p # 0
      BY <3>1
    <3> QED
      BY <3>2 DEF p
  <2> QED
    BY <1>1, <2>1, <2>2, BeforeNext, TableAssumption
<1>5. DOMAIN entry = Slots(b) /\ NewSlots = {Backup} \X (b + 1 .. b + nextBucketSize)
  BY <1>3 DEF IInv, TableInv, NewSlots
<1>6. DOMAIN entry \cap NewSlots = {} /\ DOMAIN entry \cup NewSlots = Slots(b + nextBucketSize)
  BY <1>4, <1>5, SlotsAfter
<1>7. Here(t) = <<Backup, b + 1>> /\ Here(t) \in NewSlots
  BY <1>1, <1>4, <1>5 DEF Here, Slot, Span
<1>8. /\ DOMAIN entry' = DOMAIN entry \cup NewSlots
      /\ \A x \in DOMAIN entry : entry'[x] = entry[x]
      /\ entry'[Here(t)] = Fresh(t)
      /\ \A x \in NewSlots : x # Here(t) => entry'[x] = Empty
  BY <1>6, <1>7 DEF Grow
<1>9. TypeOK'
  <2>1. Fresh(t) \in [key : Keys \cup {None}, value : Values \cup {None}, isOccupied : BOOLEAN]
    BY <1>1 DEF Fresh
  <2>2. Empty \in [key : Keys \cup {None}, value : Values \cup {None}, isOccupied : BOOLEAN]
    BY DEF Empty
  <2>3. \A x \in DOMAIN entry' :
          entry'[x] \in [key : Keys \cup {None}, value : Values \cup {None}, isOccupied : BOOLEAN]
    BY <1>8, <2>1, <2>2 DEF IInv, TypeOK
  <2> QED
    BY <1>1, <2>3 DEF IInv, TypeOK, Grow, Goto
<1>10. Keeps
  BY <1>8 DEF Keeps
<1>11. EntryInv'
  <2>1. \A x \in DOMAIN entry' : entry'[x].isOccupied => x \in DOMAIN entry
    BY <1>8 DEF Empty, Fresh
  <2>2. EntryInv /\ sink \subseteq sink'
    BY DEF IInv, Grow
  <2>3. ASSUME NEW x \in DOMAIN entry', entry'[x].isOccupied
        PROVE  /\ entry'[x].value \in sink' /\ entry'[x].value \in Values
               /\ entry'[x].key \in Keys
               /\ KeyOf[entry'[x].value] = entry'[x].key
    BY <1>8, <2>1, <2>2, <2>3 DEF EntryInv
  <2> QED
    BY <2>3 DEF EntryInv
<1>12. TableInv'
  <2>1. Grown'
    BY <1>1 DEF Grown, Grow, Goto, Span, Before, IInv, TypeOK
  <2>2. nAvailBuckets' = nAvailBuckets /\ nextBucketSize' = nextBucketSize
    BY DEF Grow
  <2>3. DOMAIN entry' = Slots(Before(nAvailBuckets + 1))
    BY <1>4, <1>6, <1>8
  <2> QED
    BY <2>1, <2>2, <2>3 DEF IInv, TableInv, Slots, Before, Backup
<1>13. ArgInv(t)' /\ RetInv(t)'
  BY <1>1 DEF IInv, TypeOK, ArgInv, RetInv, Grow, Goto, Before
<1>14. Here(t)' = Here(t) /\ Fresh(t)' = Fresh(t)
  BY DEF Grow, Here, Slot, Fresh
<1>15. PlaceInv(t)'
  BY <1>1, <1>7, <1>8, <1>14
     DEF IInv, TypeOK, PlaceInv, Grow, Goto, Locked, Span, Before, CanGrow
<1>16. Before(nAvailBuckets) <= Before(nAvailBuckets')
  BY <1>4 DEF Grow
<1> QED
  BY <1>2, <1>9, <1>10, <1>11, <1>12, <1>13, <1>15, <1>16, OwnThread
     DEF IInv, TypeOK, Grow, Goto, Locked

\* The flag of a complete entry goes up.
LEMMA PublishIInv ==
  ASSUME IInv, NEW t \in Threads, Publish(t)
  PROVE  IInv' /\ Keeps
<1>1. /\ Here(t) \in DOMAIN entry /\ entry[Here(t)] = Fresh(t)
      /\ arg[t].value \in Values /\ arg[t].value \in sink /\ at[t] = "publish"
      /\ arg[t].key \in Keys /\ KeyOf[arg[t].value] = arg[t].key
      /\ pos[t] <= Span(nAvailBuckets) + 1 /\ mtx = t /\ pos[t] \in Nat
      /\ Span(nAvailBuckets) \in Nat
      /\ pos[t] > Span(nAvailBuckets) => CanGrow
  BY Counts, TableAssumption DEF IInv, ArgInv, PlaceInv, Publish, Locked
<1>2. \A u \in Threads : u # t => at[u] \notin Locked
  BY <1>1, HolderAlone DEF Locked
<1>3. /\ DOMAIN entry' = DOMAIN entry
      /\ \A x \in DOMAIN entry : x # Here(t) => entry'[x] = entry[x]
      /\ entry'[Here(t)] = [key |-> arg[t].key, value |-> arg[t].value, isOccupied |-> TRUE]
  <2>1. /\ DOMAIN entry' = DOMAIN entry
        /\ \A x \in DOMAIN entry : x # Here(t) => entry'[x] = entry[x]
        /\ entry'[Here(t)] = [entry[Here(t)] EXCEPT !.isOccupied = TRUE]
    BY <1>1 DEF Publish
  <2>2. /\ Fresh(t) \in [key : Keys, value : Values, isOccupied : BOOLEAN]
        /\ Fresh(t).key = arg[t].key /\ Fresh(t).value = arg[t].value
    BY <1>1 DEF Fresh
  <2> QED
    BY <1>1, <2>1, <2>2
<1>4. TypeOK'
  BY <1>1, <1>3 DEF IInv, TypeOK, Publish, Goto
<1>5. Keeps
  BY <1>1, <1>3 DEF Keeps, Fresh
<1>6. EntryInv'
  BY <1>1, <1>3 DEF IInv, EntryInv, Publish
<1>7. TableInv'
  <2>1. Grown <=> pos[t] > Span(nAvailBuckets)
    BY <1>1, <1>2 DEF Grown, Locked
  <2>2. Grown' <=> pos[t] > Span(nAvailBuckets)
    BY <1>1, <1>2 DEF Grown, Locked, Publish, Goto, Span, Before, IInv, TypeOK
  <2> QED
    BY <1>3, <2>1, <2>2 DEF IInv, TableInv, Slots, Before, Backup, Publish
<1>8. ArgInv(t)' /\ RetInv(t)'
  BY <1>1 DEF IInv, TypeOK, ArgInv, RetInv, Publish, Goto, Before
<1>9. Here(t)' = Here(t)
  BY DEF Publish, Here, Slot
<1>10. PlaceInv(t)'
  BY <1>1, <1>3, <1>9
     DEF IInv, TypeOK, PlaceInv, Publish, Goto, Locked, Span, Before, Holds, CanGrow
<1>11. Before(nAvailBuckets) <= Before(nAvailBuckets')
  BY Counts DEF Publish, IInv
<1> QED
  BY <1>2, <1>4, <1>5, <1>6, <1>7, <1>8, <1>10, <1>11, OwnThread
     DEF IInv, TypeOK, Publish, Goto, Locked

\* Queries are told of the bucket.
LEMMA ExposeIInv ==
  ASSUME IInv, NEW t \in Threads, Expose(t)
  PROVE  IInv' /\ Keeps
<1>1. /\ Here(t) \in DOMAIN entry /\ Holds(Here(t), arg[t].key)
      /\ arg[t].value \in Values /\ arg[t].value \in sink /\ at[t] = "expose"
      /\ pos[t] = Span(nAvailBuckets) + 1 /\ mtx = t /\ pos[t] \in Nat
      /\ Span(nAvailBuckets) \in Nat /\ CanGrow
      /\ nAvailBuckets \in Nat \ {0} /\ maxBTBuckets \in Nat
  BY Counts DEF IInv, ArgInv, PlaceInv, Expose, Locked
<1>2. \A u \in Threads : u # t => at[u] \notin Locked
  BY <1>1, HolderAlone DEF Locked
<1>3. /\ Before(nAvailBuckets) \in Nat /\ Before(nAvailBuckets + 1) \in Nat
      /\ Before(nAvailBuckets) <= Before(nAvailBuckets + 1)
      /\ nextBucketSize' = BaseSize * 2 ^ (nAvailBuckets + 1)
      /\ nAvailBuckets' = nAvailBuckets + 1 /\ nextBucketSize' \in Nat
  <2>1. nextBucketSize = BaseSize * 2 ^ nAvailBuckets
    BY DEF IInv, TableInv
  <2> QED
    BY <1>1, <2>1, BeforeNext DEF Expose
<1>4. TypeOK'
  BY <1>1, <1>3 DEF IInv, TypeOK, Expose, Goto, CanGrow
<1>5. Keeps
  BY DEF Keeps, Expose
<1>6. EntryInv'
  BY DEF IInv, EntryInv, Expose
<1>7. TableInv'
  <2>1. Grown
    BY <1>1 DEF Grown
  <2>2. ~Grown'
    BY <1>1, <1>2 DEF Grown, Locked, Expose, Goto, IInv, TypeOK
  <2>3. DOMAIN entry' = Slots(Before(nAvailBuckets + 1))
    BY <2>1 DEF IInv, TableInv, Expose
  <2> QED
    BY <1>3, <2>2, <2>3 DEF TableInv, Slots, Before, Backup
<1>8. ArgInv(t)' /\ RetInv(t)'
  <2>1. ArgInv(t) /\ RetInv(t) /\ Before(n[t]) \in Nat
    BY BeforeNext DEF IInv, ArgInv
  <2>2. Before(n[t]) <= Before(nAvailBuckets + 1)
    BY <1>3, <2>1 DEF ArgInv
  <2> QED
    BY <1>1, <1>3, <2>1, <2>2 DEF IInv, TypeOK, ArgInv, RetInv, Expose, Goto, Before
<1>9. Here(t)' = Here(t)
  BY DEF Expose, Here, Slot
<1>10. PlaceInv(t)'
  BY <1>1, <1>9 DEF IInv, TypeOK, PlaceInv, Expose, Goto, Locked, Holds
<1>11. Before(nAvailBuckets) <= Before(nAvailBuckets')
  BY <1>3
<1> QED
  BY <1>2, <1>4, <1>5, <1>6, <1>7, <1>8, <1>10, <1>11, OwnThread
     DEF IInv, TypeOK, Expose, Goto, Locked

\* The value at an occupied slot is replaced, with or without the lock.
LEMMA StoreIInv ==
  ASSUME IInv, NEW t \in Threads, Store(t)
  PROVE  IInv' /\ Keeps
<1>1. /\ Here(t) \in DOMAIN entry /\ Holds(Here(t), arg[t].key)
      /\ arg[t].value \in Values /\ arg[t].value \in sink /\ at[t] = "store"
      /\ KeyOf[arg[t].value] = arg[t].key
  BY TableAssumption DEF IInv, ArgInv, PlaceInv, Store
<1>2. entry[Here(t)].isOccupied /\ entry[Here(t)].key = arg[t].key /\ arg[t].key \in Keys
  BY <1>1 DEF Holds, IInv, EntryInv
<1>3. /\ DOMAIN entry' = DOMAIN entry
      /\ \A x \in DOMAIN entry : x # Here(t) => entry'[x] = entry[x]
      /\ entry'[Here(t)] = [entry[Here(t)] EXCEPT !.value = arg[t].value]
  BY <1>1 DEF Store
<1>4. entry'[Here(t)] = [key |-> arg[t].key, value |-> arg[t].value, isOccupied |-> TRUE]
  BY <1>1, <1>2, <1>3 DEF IInv, TypeOK
<1>5. TypeOK'
  BY <1>1, <1>2, <1>3, <1>4 DEF IInv, TypeOK, Store, Goto
<1>6. Keeps
  BY <1>2, <1>3, <1>4 DEF Keeps
<1>7. EntryInv'
  BY <1>1, <1>2, <1>3, <1>4 DEF IInv, EntryInv, Store
<1>8. TableInv'
  <2>1. Grown' <=> Grown
    BY <1>1, GrownSame DEF IInv, TypeOK, Store, Goto
  <2> QED
    BY <1>3, <2>1 DEF IInv, TableInv, Slots, Before, Backup, Store
<1>9. ArgInv(t)' /\ RetInv(t)'
  BY <1>1 DEF IInv, TypeOK, ArgInv, RetInv, Store, Goto, Before
<1>10. Here(t)' = Here(t)
  BY DEF Store, Here, Slot
<1>11. PlaceInv(t)'
  BY <1>1, <1>3, <1>4, <1>10 DEF IInv, TypeOK, PlaceInv, Store, Goto, Locked, Holds
<1>12. Before(nAvailBuckets) <= Before(nAvailBuckets')
  BY Counts DEF Store, IInv
<1>13. ASSUME NEW u \in Threads, at[u] \in {"write", "publish"}
       PROVE  Here(u) \in DOMAIN entry' /\ entry'[Here(u)] = entry[Here(u)]
  <2>1. Here(u) \in DOMAIN entry /\ ~entry[Here(u)].isOccupied
    <3>1. PlaceInv(u) /\ Fresh(u).isOccupied = FALSE
      BY DEF IInv, Fresh
    <3> QED
      BY <1>13, <3>1 DEF PlaceInv
  <2> QED
    BY <1>2, <1>3, <2>1
<1> QED
  BY <1>5, <1>6, <1>7, <1>8, <1>9, <1>11, <1>12, <1>13, OwnThread
     DEF IInv, TypeOK, Store, Goto, PlaceInv

----------------------------------------------------------------------------
\* Every step keeps the invariant, and what is occupied.
LEMMA NextIInv == IInv /\ [Next]_vars => IInv' /\ Keeps
<1> SUFFICES ASSUME IInv, [Next]_vars PROVE IInv' /\ Keeps
  OBVIOUS
<1>1. ASSUME NEW t \in Threads, CallInsert(t) \/ CallQuery(t) \/ Step(t)
      PROVE  IInv' /\ Keeps
  BY <1>1, CallIInv, ScanHitIInv, ScanOnIInv, LockIInv, SearchIInv, WriteIInv, GrowIInv,
     PublishIInv, ExposeIInv, CompareIInv, StoreIInv, EndInsertIInv DEF Step
<1>2. CASE UNCHANGED vars
  <2>1. UNCHANGED <<entry, maxBTBuckets, nAvailBuckets, nextBucketSize, mtx, sink,
                    at, calls, arg, pos, n, due, ret>>
    BY <1>2 DEF vars, shared
  <2>2. Keeps
    BY <2>1 DEF Keeps
  <2>3. TypeOK'
    BY <2>1 DEF IInv, TypeOK
  <2>4. TableInv' /\ EntryInv'
    BY <2>1 DEF IInv, TableInv, EntryInv, Slots, Before, Backup, Grown, Span
  <2>5. ASSUME NEW t \in Threads PROVE ArgInv(t)' /\ PlaceInv(t)' /\ RetInv(t)'
    BY <2>1 DEF IInv, ArgInv, PlaceInv, RetInv, Before, Span, Holds, Here, Slot, Fresh,
                CanGrow, Locked
  <2> QED
    BY <2>2, <2>3, <2>4, <2>5 DEF IInv
<1> QED
  BY <1>1, <1>2 DEF Next

\* The invariant holds in every reachable state.
LEMMA SpecIInv == Spec => []IInv
  BY InitIInv, NextIInv, PTL DEF Spec

\* The table's fields keep their types and the number of buckets its limit,
\* however threads insert and query.
THEOREM TableTypeCorrect == Spec => []TypeOK
<1>1. IInv => TypeOK
  BY DEF IInv
<1> QED
  BY <1>1, SpecIInv, PTL

\* A value a caller was given or can find is for its key and is kept alive,
\* also after a thread without the lock has replaced it.
THEOREM TableKeepsHandedOut == Spec => []HandedOutIsKept
<1>1. IInv => HandedOutIsKept
  BY DEF IInv, RetInv, EntryInv, HandedOutIsKept
<1> QED
  BY <1>1, SpecIInv, PTL

\* Lock-free readers stay inside the allocated buckets while the table grows.
THEOREM TableReadsAllocated == Spec => []ReadsAllocated
<1>1. IInv => ReadsAllocated
  BY ScanInside DEF ReadsAllocated
<1> QED
  BY <1>1, SpecIInv, PTL

\* The key of an occupied slot never changes, so it can be read without the
\* lock.
THEOREM TableKeysStay == Spec => KeysStay
<1>1. Keeps => \A s \in DOMAIN entry :
                 entry[s].isOccupied => entry'[s].isOccupied /\ entry'[s].key = entry[s].key
  BY DEF Keeps
<1> QED
  BY <1>1, NextIInv, SpecIInv, PTL DEF Spec, KeysStay

----------------------------------------------------------------------------
(* A key has one slot.  Slots are taken in the order in which they are     *)
(* searched, so the places before an occupied one are occupied, and a      *)
(* thread that found the first free place has seen every slot of its key.  *)

PrefixInv ==
  \A s \in DOMAIN entry : entry[s].isOccupied =>
    \E p \in Nat \ {0} :
      /\ s = Slot(entry[s].key, p)
      /\ \A q \in 1 .. p - 1 : /\ Slot(entry[s].key, q) \in DOMAIN entry
                               /\ entry[Slot(entry[s].key, q)].isOccupied

FirstInv(t) ==
  at[t] \in {"write", "grow", "publish"} =>
    \A q \in 1 .. pos[t] - 1 :
      LET s == Slot(arg[t].key, q)
      IN  s \in DOMAIN entry /\ entry[s].isOccupied /\ entry[s].key # arg[t].key

OnceInv == PrefixInv /\ KeyOnce /\ \A t \in Threads : FirstInv(t)

\* Nothing becomes occupied.
NothingNew ==
  \A s \in DOMAIN entry' : entry'[s].isOccupied => s \in DOMAIN entry /\ entry[s].isOccupied

\* What a thread has seen on its way stays so.
LEMMA FirstKept ==
  ASSUME NEW u \in Threads, FirstInv(u), Keeps, at[u] \in {"write", "grow", "publish"},
         pos'[u] = pos[u], arg'[u] = arg[u]
  PROVE  FirstInv(u)'
<1> SUFFICES ASSUME NEW q \in 1 .. pos[u] - 1
             PROVE  LET s == Slot(arg[u].key, q)
                    IN  s \in DOMAIN entry' /\ entry'[s].isOccupied /\ entry'[s].key # arg[u].key
  BY DEF FirstInv, Slot
<1> DEFINE s == Slot(arg[u].key, q)
<1>1. s \in DOMAIN entry /\ entry[s].isOccupied /\ entry[s].key # arg[u].key
  BY DEF FirstInv
<1> HIDE DEF s
<1>2. s \in DOMAIN entry' /\ entry'[s].isOccupied /\ entry'[s].key # arg[u].key
  BY <1>1 DEF Keeps
<1> QED
  BY <1>2 DEF s

\* A step that occupies nothing keeps the order and the uniqueness.
LEMMA OnceKept ==
  ASSUME PrefixInv, KeyOnce, Keeps, NothingNew
  PROVE  PrefixInv' /\ KeyOnce'
<1>1. ASSUME NEW s \in DOMAIN entry', entry'[s].isOccupied
      PROVE  s \in DOMAIN entry /\ entry[s].isOccupied /\ entry'[s].key = entry[s].key
  BY <1>1 DEF NothingNew, Keeps
<1>2. ASSUME NEW s \in DOMAIN entry', entry'[s].isOccupied
      PROVE  \E p \in Nat \ {0} :
               /\ s = Slot(entry'[s].key, p)
               /\ \A q \in 1 .. p - 1 : /\ Slot(entry'[s].key, q) \in DOMAIN entry'
                                        /\ entry'[Slot(entry'[s].key, q)].isOccupied
  <2>1. s \in DOMAIN entry /\ entry[s].isOccupied /\ entry'[s].key = entry[s].key
    BY <1>1, <1>2
  <2>2. PICK p \in Nat \ {0} :
          /\ s = Slot(entry[s].key, p)
          /\ \A q \in 1 .. p - 1 : /\ Slot(entry[s].key, q) \in DOMAIN entry
                                   /\ entry[Slot(entry[s].key, q)].isOccupied
    BY <2>1 DEF PrefixInv
  <2>3. \A q \in 1 .. p - 1 : /\ Slot(entry'[s].key, q) \in DOMAIN entry'
                              /\ entry'[Slot(entry'[s].key, q)].isOccupied
    BY <2>1, <2>2 DEF Keeps
  <2> QED
    BY <2>1, <2>2, <2>3
<1>3. PrefixInv'
  BY <1>2 DEF PrefixInv, Slot
<1>4. KeyOnce'
  BY <1>1 DEF KeyOnce
<1> QED
  BY <1>3, <1>4

\* Of all steps only Publish occupies a slot.
LEMMA OnlyPublish ==
  ASSUME IInv, NEW t \in Threads, CallInsert(t) \/ CallQuery(t) \/ Step(t), ~Publish(t)
  PROVE  NothingNew
<1>1. CASE Write(t)
  <2>1. \A x \in DOMAIN entry' : x \in DOMAIN entry /\
          entry'[x] = IF x = Here(t) THEN Fresh(t) ELSE entry[x]
    BY <1>1 DEF Write
  <2>2. Fresh(t).isOccupied = FALSE
    BY DEF Fresh
  <2> QED
    BY <2>1, <2>2 DEF NothingNew
<1>2. CASE Grow(t)
  <2>1. \A x \in DOMAIN entry' :
          \/ entry'[x] = Fresh(t) \/ entry'[x] = Empty
          \/ x \in DOMAIN entry /\ entry'[x] = entry[x]
    BY <1>2 DEF Grow
  <2>2. Fresh(t).isOccupied = FALSE /\ Empty.isOccupied = FALSE
    BY DEF Fresh, Empty
  <2> QED
    BY <2>1, <2>2 DEF NothingNew
<1>3. CASE Store(t)
  <2>1. Here(t) \in DOMAIN entry /\ entry[Here(t)].isOccupied
    BY <1>3 DEF IInv, PlaceInv, Store, Holds
  <2>2. DOMAIN entry' = DOMAIN entry /\ \A x \in DOMAIN entry : x # Here(t) => entry'[x] = entry[x]
    BY <1>3 DEF Store
  <2> QED
    BY <2>1, <2>2 DEF NothingNew
<1>4. CASE entry' = entry
  BY <1>4 DEF NothingNew
<1>5. Write(t) \/ Grow(t) \/ Store(t) \/ entry' = entry
  BY DEF Step, CallInsert, CallQuery, Call, ScanHit, ScanMiss, Lock, LoadBuckets, QueryMiss,
         Search, Expose, Compare, EndInsert, shared
<1> QED
  BY <1>1, <1>2, <1>3, <1>4, <1>5

\* The locked search takes the first place that is free or has the key.
LEMMA SearchFirst ==
  ASSUME IInv, NEW t \in Threads, Search(t)
  PROVE  FirstInv(t)'
<1> DEFINE k == arg[t].key
<1>1. k \in Keys /\ Span(nAvailBuckets) \in Nat /\ nAvailBuckets \in Nat
  BY Counts DEF IInv, ArgInv, Search
<1>2. ASSUME NEW q \in 1 .. Span(nAvailBuckets), q \notin Stops(k)
      PROVE  /\ Slot(k, q) \in DOMAIN entry /\ entry[Slot(k, q)].isOccupied
             /\ entry[Slot(k, q)].key # k
  <2>1. Slot(k, q) \in DOMAIN entry
    BY <1>1, KnownSlots, Counts DEF IInv
  <2> QED
    BY <1>2, <2>1 DEF Stops
<1>3. at'[t] \in {"write", "grow"} =>
        \A q \in 1 .. pos'[t] - 1 : q \in 1 .. Span(nAvailBuckets) /\ q \notin Stops(k)
  <2>1. ASSUME NEW p \in Stops(k), \A q \in Stops(k) : p <= q,
               pos' = [pos EXCEPT ![t] = p]
        PROVE  \A q \in 1 .. pos'[t] - 1 : q \in 1 .. Span(nAvailBuckets) /\ q \notin Stops(k)
    <3>1. p \in 1 .. Span(nAvailBuckets) /\ pos'[t] = p
      BY <2>1 DEF Stops, IInv, TypeOK
    <3> QED
      BY <1>1, <2>1, <3>1
  <2>2. ASSUME Stops(k) = {}, pos' = [pos EXCEPT ![t] = Span(nAvailBuckets) + 1]
        PROVE  \A q \in 1 .. pos'[t] - 1 : q \in 1 .. Span(nAvailBuckets) /\ q \notin Stops(k)
    <3>1. pos'[t] = Span(nAvailBuckets) + 1
      BY <2>2 DEF IInv, TypeOK
    <3> QED
      BY <1>1, <2>2, <3>1
  <2>3. ASSUME Return(t, None) PROVE at'[t] = "idle"
    BY <2>3 DEF Return, Goto, IInv, TypeOK
  <2> QED
    BY <2>1, <2>2, <2>3 DEF Search
<1>4. arg' = arg /\ entry' = entry /\ at'[t] # "publish"
  BY DEF Search, Return, Goto, IInv, TypeOK
<1>5. at'[t] \in {"write", "grow"} =>
        \A q \in 1 .. pos'[t] - 1 :
          /\ Slot(k, q) \in DOMAIN entry /\ entry[Slot(k, q)].isOccupied
          /\ entry[Slot(k, q)].key # k
  BY <1>2, <1>3
<1> QED
  BY <1>4, <1>5 DEF FirstInv, Slot

\* Whatever thread steps, what thread u has seen holds of the new state.
LEMMA FirstStep ==
  ASSUME IInv, OnceInv, Keeps, NEW t \in Threads, NEW u \in Threads,
         CallInsert(t) \/ CallQuery(t) \/ Step(t)
  PROVE  FirstInv(u)'
<1>1. FirstInv(u)
  BY DEF OnceInv
<1>2. CASE t # u
  <2>1. at'[u] = at[u] /\ pos'[u] = pos[u] /\ arg'[u] = arg[u]
    BY <1>2 DEF IInv, TypeOK, Step, CallInsert, CallQuery, Call, ScanHit, ScanMiss, Lock,
       LoadBuckets, QueryMiss, Search, Write, Grow, Publish, Expose, Compare, Store, EndInsert,
       Return, Goto, shared
  <2>2. CASE at[u] \in {"write", "grow", "publish"}
    BY <1>1, <2>1, <2>2, FirstKept
  <2>3. CASE at[u] \notin {"write", "grow", "publish"}
    BY <2>1, <2>3 DEF FirstInv
  <2> QED
    BY <2>2, <2>3
<1>3. CASE t = u /\ Search(u)
  BY <1>3, SearchFirst
<1>4. CASE t = u /\ (Write(u) \/ Grow(u))
  <2>1. at[u] \in {"write", "grow"} /\ pos'[u] = pos[u] /\ arg'[u] = arg[u]
    BY <1>4 DEF Write, Grow
  <2> QED
    BY <1>1, <2>1, FirstKept
<1>5. CASE t = u /\ ~Search(u) /\ ~Write(u) /\ ~Grow(u)
  <2>1. at'[u] \notin {"write", "grow", "publish"}
    BY <1>5 DEF IInv, TypeOK, Step, CallInsert, CallQuery, Call, ScanHit, ScanMiss, Lock,
       LoadBuckets, QueryMiss, Publish, Expose, Compare, Store, EndInsert,
       Return, Goto, shared
  <2> QED
    BY <2>1 DEF FirstInv
<1> QED
  BY <1>2, <1>3, <1>4, <1>5

\* The slot that Publish occupies is the only one of its key and the next one
\* in its order.
LEMMA PublishOnce ==
  ASSUME IInv, OnceInv, Keeps, NEW t \in Threads, Publish(t)
  PROVE  PrefixInv' /\ KeyOnce'
<1> DEFINE k == arg[t].key
           here == Here(t)
<1>1. /\ here \in DOMAIN entry /\ entry[here] = Fresh(t) /\ here = Slot(k, pos[t])
      /\ pos[t] \in Nat \ {0}
      /\ \A q \in 1 .. pos[t] - 1 : /\ Slot(k, q) \in DOMAIN entry
                                    /\ entry[Slot(k, q)].isOccupied
                                    /\ entry[Slot(k, q)].key # k
  BY DEF IInv, ArgInv, PlaceInv, OnceInv, FirstInv, Publish, Here
<1>2. entry[here].isOccupied = FALSE /\ entry[here].key = k
  BY <1>1 DEF Fresh
<1>3. /\ DOMAIN entry' = DOMAIN entry
      /\ \A x \in DOMAIN entry : x # here => entry'[x] = entry[x]
      /\ entry'[here] = [entry[here] EXCEPT !.isOccupied = TRUE]
  BY <1>1 DEF Publish
<1>4. entry'[here].key = k
  <2>1. entry[here] \in [key : Keys \cup {None}, value : Values \cup {None}, isOccupied : BOOLEAN]
    BY <1>1 DEF IInv, TypeOK
  <2> QED
    BY <1>2, <1>3, <2>1
<1> HIDE DEF k, here
<1>5. ASSUME NEW s \in DOMAIN entry, entry[s].isOccupied, entry[s].key = k PROVE FALSE
  <2>1. PICK p \in Nat \ {0} :
          /\ s = Slot(k, p)
          /\ \A q \in 1 .. p - 1 : entry[Slot(k, q)].isOccupied
    BY <1>5 DEF OnceInv, PrefixInv
  <2>2. CASE p < pos[t]
    <3>1. p \in 1 .. pos[t] - 1
      BY <1>1, <2>2
    <3> QED
      BY <1>1, <1>5, <2>1, <3>1
  <2>3. CASE p = pos[t]
    BY <1>1, <1>2, <1>5, <2>1, <2>3
  <2>4. CASE p > pos[t]
    <3>1. pos[t] \in 1 .. p - 1
      BY <1>1, <2>4
    <3> QED
      BY <1>1, <1>2, <2>1, <3>1
  <2> QED
    BY <1>1, <2>2, <2>3, <2>4
<1>6. KeyOnce'
  <2>1. ASSUME NEW s \in DOMAIN entry', NEW r \in DOMAIN entry',
               entry'[s].isOccupied, entry'[r].isOccupied, entry'[s].key = entry'[r].key
        PROVE  s = r
    <3>1. CASE s # here /\ r # here
      BY <1>3, <2>1, <3>1 DEF OnceInv, KeyOnce
    <3>2. CASE s = here /\ r # here
      BY <1>3, <1>4, <1>5, <2>1, <3>2
    <3>3. CASE s # here /\ r = here
      BY <1>3, <1>4, <1>5, <2>1, <3>3
    <3> QED
      BY <3>1, <3>2, <3>3
  <2> QED
    BY <2>1 DEF KeyOnce
<1>7. ASSUME NEW s \in DOMAIN entry', entry'[s].isOccupied
      PROVE  \E p \in Nat \ {0} :
               /\ s = Slot(entry'[s].key, p)
               /\ \A q \in 1 .. p - 1 : /\ Slot(entry'[s].key, q) \in DOMAIN entry'
                                        /\ entry'[Slot(entry'[s].key, q)].isOccupied
  <2>1. CASE s = here
    <3>1. \A q \in 1 .. pos[t] - 1 : /\ Slot(k, q) \in DOMAIN entry'
                                     /\ entry'[Slot(k, q)].isOccupied
      BY <1>1 DEF Keeps
    <3> QED
      BY <1>1, <1>4, <2>1, <3>1
  <2>2. CASE s # here
    <3>1. s \in DOMAIN entry /\ entry[s].isOccupied /\ entry'[s].key = entry[s].key
      BY <1>3, <1>7, <2>2
    <3>2. PICK p \in Nat \ {0} :
            /\ s = Slot(entry[s].key, p)
            /\ \A q \in 1 .. p - 1 : /\ Slot(entry[s].key, q) \in DOMAIN entry
                                     /\ entry[Slot(entry[s].key, q)].isOccupied
      BY <3>1 DEF OnceInv, PrefixInv
    <3>3. \A q \in 1 .. p - 1 : /\ Slot(entry'[s].key, q) \in DOMAIN entry'
                                /\ entry'[Slot(entry'[s].key, q)].isOccupied
      BY <3>1, <3>2 DEF Keeps
    <3> QED
      BY <3>1, <3>2, <3>3
  <2> QED
    BY <2>1, <2>2
<1>8. PrefixInv'
  BY <1>7 DEF PrefixInv, Slot
<1> QED
  BY <1>6, <1>8

\* At first nothing is occupied.
LEMMA InitOnce == Init => OnceInv
<1> SUFFICES ASSUME Init PROVE OnceInv
  OBVIOUS
<1>1. \A x \in DOMAIN entry : entry[x].isOccupied = FALSE
  BY DEF Init, Empty
<1>2. \A t \in Threads : at[t] = "idle"
  BY DEF Init
<1> QED
  BY <1>1, <1>2 DEF OnceInv, PrefixInv, KeyOnce, FirstInv

\* Every step keeps the order of the slots and the one slot of a key.
LEMMA NextOnce == IInv /\ OnceInv /\ [Next]_vars => OnceInv'
<1> SUFFICES ASSUME IInv, OnceInv, [Next]_vars PROVE OnceInv'
  OBVIOUS
<1>1. Keeps
  BY NextIInv
<1>2. ASSUME NEW t \in Threads, CallInsert(t) \/ CallQuery(t) \/ Step(t)
      PROVE  OnceInv'
  <2>1. PrefixInv' /\ KeyOnce'
    <3>1. CASE Publish(t)
      BY <1>1, <3>1, PublishOnce
    <3>2. CASE ~Publish(t)
      BY <1>1, <1>2, <3>2, OnlyPublish, OnceKept DEF OnceInv
    <3> QED
      BY <3>1, <3>2
  <2>2. \A u \in Threads : FirstInv(u)'
    BY <1>1, <1>2, FirstStep
  <2> QED
    BY <2>1, <2>2 DEF OnceInv
<1>3. CASE UNCHANGED vars
  <2>1. entry' = entry /\ at' = at /\ pos' = pos /\ arg' = arg
    BY <1>3 DEF vars, shared
  <2> QED
    BY <2>1 DEF OnceInv, PrefixInv, KeyOnce, FirstInv, Slot
<1> QED
  BY <1>2, <1>3 DEF Next

\* However many threads insert a key at once, it comes to have one slot.
THEOREM TableKeyOnce == Spec => []KeyOnce
<1>1. OnceInv => KeyOnce
  BY DEF OnceInv
<1>2. Spec => []OnceInv
  BY InitOnce, NextOnce, SpecIInv, PTL DEF Spec
<1> QED
  BY <1>1, <1>2, PTL

----------------------------------------------------------------------------
(* A query that is due has its key ahead of it, within the buckets it will *)
(* have been told of when it comes to the end.                             *)

Ahead(t, p) ==
  /\ pos[t] <= p
  /\ p <= Span(IF n[t] = 0 THEN nAvailBuckets ELSE n[t])
  /\ Slot(arg[t].key, p) \in DOMAIN entry /\ Holds(Slot(arg[t].key, p), arg[t].key)

FindInv(t) ==
  /\ at[t] = "idle" => pos[t] = 1 /\ n[t] = 0
  /\ due[t] /\ arg[t].key # None /\ arg[t].value = None =>
       /\ at[t] = "idle" => ret[t] # None
       /\ at[t] = "scan" => \E p \in Nat \ {0} : Ahead(t, p)

\* The count of the buckets only grows, and with it what queries are told of.
LEMMA CountGrows ==
  ASSUME IInv, NEW t \in Threads, CallInsert(t) \/ CallQuery(t) \/ Step(t)
  PROVE  /\ nAvailBuckets' = nAvailBuckets \/ nAvailBuckets' = nAvailBuckets + 1
         /\ Span(nAvailBuckets) \in Nat /\ Span(nAvailBuckets') \in Nat
         /\ Span(nAvailBuckets) <= Span(nAvailBuckets')
<1>1. nAvailBuckets' = nAvailBuckets \/ nAvailBuckets' = nAvailBuckets + 1
  BY DEF Step, CallInsert, CallQuery, Call, ScanHit, ScanMiss, Lock, LoadBuckets, QueryMiss,
         Search, Write, Grow, Publish, Expose, Compare, Store, EndInsert, shared
<1>2. nAvailBuckets \in Nat \ {0} /\ Before(nAvailBuckets) \in Nat
      /\ Before(nAvailBuckets + 1) \in Nat /\ Before(nAvailBuckets) <= Before(nAvailBuckets + 1)
  BY Counts, BeforeNext DEF IInv
<1>3. ChainSize \in Nat
  BY TableAssumption
<1> QED BY <1>1, <1>2, <1>3 DEF Span

\* Whatever another thread does, a query has its key ahead.
LEMMA FindKept ==
  ASSUME IInv, Keeps, NEW u \in Threads, FindInv(u),
         at'[u] = at[u], arg'[u] = arg[u], pos'[u] = pos[u], n'[u] = n[u], ret'[u] = ret[u],
         due'[u] = due[u], Span(nAvailBuckets) \in Nat, Span(nAvailBuckets') \in Nat,
         Span(nAvailBuckets) <= Span(nAvailBuckets')
  PROVE  FindInv(u)'
<1>1. ASSUME NEW p \in Nat \ {0}, Ahead(u, p) PROVE Ahead(u, p)'
  <2>1. p <= Span(IF n[u] = 0 THEN nAvailBuckets' ELSE n[u])
    BY <1>1 DEF Ahead
  <2>2. pos'[u] <= p
    BY <1>1 DEF Ahead
  <2>3. /\ Slot(arg[u].key, p) \in DOMAIN entry'
        /\ entry'[Slot(arg[u].key, p)].isOccupied /\ entry'[Slot(arg[u].key, p)].key = arg[u].key
    BY <1>1 DEF Ahead, Holds, Keeps
  <2> QED BY <2>1, <2>2, <2>3 DEF Ahead, Holds, Slot, Span, Before
<1> QED BY <1>1 DEF FindInv

\* What a step does to the query of its own thread.
LEMMA FindOwn ==
  ASSUME IInv, Keeps, NEW t \in Threads, FindInv(t), CallInsert(t) \/ CallQuery(t) \/ Step(t)
  PROVE  FindInv(t)'
<1>0. /\ at \in [Threads -> {"idle", "scan", "search", "write", "grow", "publish", "expose",
                             "compare", "store", "return", "filled"}]
      /\ arg \in [Threads -> [key : Keys \cup {None}, value : Values \cup {None}]]
      /\ pos \in [Threads -> Nat] /\ n \in [Threads -> Nat] /\ due \in [Threads -> BOOLEAN]
      /\ ret \in [Threads -> Values \cup {None}] /\ pos[t] \in Nat \ {0}
      /\ ArgInv(t)
  BY DEF IInv, TypeOK, ArgInv
<1>1. CASE CallInsert(t) \/ CallQuery(t)
  <2>1. PICK k \in Keys, v \in Values \cup {None} : Call(t, k, v)
    BY <1>1, TableAssumption DEF CallInsert, CallQuery
  <2>2. /\ at'[t] = "scan" /\ arg'[t] = [key |-> k, value |-> v] /\ pos'[t] = 1 /\ n'[t] = 0
        /\ due'[t] = (Places(k) # {}) /\ entry' = entry /\ nAvailBuckets' = nAvailBuckets
    BY <1>0, <2>1 DEF Call, Goto, FindInv, shared
  <2>3. ASSUME due'[t] PROVE \E p \in Nat \ {0} : Ahead(t, p)'
    <3>1. PICK p \in Places(k) : TRUE
      BY <2>2, <2>3
    <3>2. Span(nAvailBuckets) \in Nat /\ nAvailBuckets \in Nat /\ Before(nAvailBuckets) \in Nat
      BY Counts DEF IInv
    <3>3. p \in Nat \ {0} /\ p <= Span(nAvailBuckets) /\ Holds(Slot(k, p), k) /\ 1 <= p
      BY <3>1, <3>2 DEF Places
    <3>4. Slot(k, p) \in DOMAIN entry
      BY <3>2, <3>3, KnownSlots DEF IInv
    <3>5. Ahead(t, p)'
      BY <2>2, <3>3, <3>4 DEF Ahead, Holds, Slot, Span, Before
    <3> QED BY <3>3, <3>5
  <2> QED BY <2>2, <2>3 DEF FindInv
<1>2. CASE ScanHit(t)
  <2>1. CASE IsInsert(t)
    BY <1>0, <1>2, <2>1 DEF ScanHit, IsInsert, Goto, FindInv
  <2>2. CASE ~IsInsert(t)
    <3>1. Here(t) \in DOMAIN entry /\ entry[Here(t)].isOccupied
      BY <1>2, ScanInside DEF ScanHit, Holds
    <3>2. entry[Here(t)].value \in Values
      BY <3>1 DEF IInv, EntryInv
    <3>3. Return(t, entry[Here(t)].value)
      BY <1>2, <2>2 DEF ScanHit
    <3>4. at'[t] = "idle" /\ pos'[t] = 1 /\ n'[t] = 0 /\ ret'[t] = entry[Here(t)].value
      BY <1>0, <3>3 DEF Return, Goto
    <3> QED BY <3>2, <3>4, TableAssumption DEF FindInv
  <2> QED BY <2>1, <2>2
<1>3. CASE ScanMiss(t)
  <2>1. /\ at[t] = "scan" /\ at'[t] = "scan" /\ pos'[t] = pos[t] + 1 /\ n' = n /\ arg' = arg
        /\ due' = due /\ ret' = ret /\ entry' = entry /\ nAvailBuckets' = nAvailBuckets
        /\ ~Holds(Here(t), arg[t].key)
    BY <1>0, <1>3 DEF ScanMiss, shared
  <2>2. ASSUME NEW p \in Nat \ {0}, Ahead(t, p) PROVE Ahead(t, p)'
    <3>1. p # pos[t] /\ pos[t] <= p
      BY <2>1, <2>2 DEF Ahead, Here
    <3>2. pos'[t] <= p
      <4>1. pos[t] \in Nat /\ pos'[t] = pos[t] + 1
        BY <1>0, <2>1
      <4> QED BY <3>1, <4>1
    <3> QED BY <2>1, <2>2, <3>2 DEF Ahead, Holds, Slot, Span, Before
  <2> QED BY <2>1, <2>2 DEF FindInv
<1>4. CASE LoadBuckets(t)
  <2>1. /\ at[t] = "scan" /\ at'[t] = "scan" /\ pos' = pos /\ n'[t] = nAvailBuckets /\ arg' = arg
        /\ due' = due /\ ret' = ret /\ entry' = entry /\ nAvailBuckets' = nAvailBuckets
        /\ n[t] = 0
    BY <1>0, <1>4 DEF LoadBuckets, shared
  <2>2. nAvailBuckets # 0
    BY Counts DEF IInv
  <2>3. ASSUME NEW p \in Nat \ {0}, Ahead(t, p) PROVE Ahead(t, p)'
    BY <2>1, <2>2, <2>3 DEF Ahead, Holds, Slot, Span, Before
  <2> QED BY <2>1, <2>3 DEF FindInv
<1>5. CASE QueryMiss(t)
  <2>1. /\ at[t] = "scan" /\ n[t] > 0 /\ pos[t] > Span(n[t]) /\ arg' = arg /\ due' = due
        /\ Return(t, None)
    BY <1>5 DEF QueryMiss
  <2>2. at'[t] = "idle" /\ pos'[t] = 1 /\ n'[t] = 0
    BY <1>0, <2>1 DEF Return, Goto
  <2>3. ASSUME due[t], arg[t].key # None, arg[t].value = None PROVE FALSE
    <3>1. PICK p \in Nat \ {0} : Ahead(t, p)
      BY <2>1, <2>3 DEF FindInv
    <3>2. pos[t] <= p /\ p <= Span(n[t])
      BY <1>0, <2>1, <3>1 DEF Ahead
    <3>3. Span(n[t]) \in Nat
      BY <1>0, BeforeNext, TableAssumption DEF Span
    <3> QED BY <1>0, <2>1, <3>2, <3>3
  <2> QED BY <2>1, <2>2, <2>3 DEF FindInv
<1>6. CASE Search(t)
  <2>1. at[t] = "search" /\ arg' = arg
    BY <1>6 DEF Search
  <2>2. arg[t].value # None
    BY <1>0, <2>1, TableAssumption DEF ArgInv
  <2>3. at'[t] = "idle" => pos'[t] = 1 /\ n'[t] = 0
    BY <1>0, <1>6 DEF Search, Return, Goto
  <2> QED BY <2>1, <2>2, <2>3 DEF FindInv
<1>7. CASE EndInsert(t)
  <2>1. at[t] \in {"return", "filled"} /\ arg' = arg /\ at'[t] = "idle" /\ pos'[t] = 1 /\ n'[t] = 0
    BY <1>0, <1>7 DEF EndInsert, Return, Goto
  <2>2. arg[t].value # None
    BY <1>0, <2>1, TableAssumption DEF ArgInv
  <2> QED BY <2>1, <2>2 DEF FindInv
<1>8. CASE \/ Lock(t) \/ Write(t) \/ Grow(t) \/ Publish(t) \/ Expose(t) \/ Compare(t) \/ Store(t)
  <2>1. arg' = arg /\ at'[t] \notin {"idle", "scan"}
    BY <1>0, <1>8 DEF Lock, Write, Grow, Publish, Expose, Compare, Store, Goto
  <2> QED BY <2>1 DEF FindInv
<1> QED
  BY <1>1, <1>2, <1>3, <1>4, <1>5, <1>6, <1>7, <1>8 DEF Step

\* Nothing is asked for at first.
LEMMA InitFind == Init => \A t \in Threads : FindInv(t)
  BY DEF Init, FindInv

\* Every step leaves every query its key.
LEMMA NextFind ==
  ASSUME IInv, \A t \in Threads : FindInv(t), [Next]_vars
  PROVE  \A t \in Threads : FindInv(t)'
<1>1. Keeps
  BY NextIInv
<1>2. ASSUME NEW t \in Threads, CallInsert(t) \/ CallQuery(t) \/ Step(t), NEW u \in Threads
      PROVE  FindInv(u)'
  <2>1. CASE u = t
    BY <1>1, <1>2, <2>1, FindOwn
  <2>2. CASE u # t
    <3>1. /\ at'[u] = at[u] /\ pos'[u] = pos[u] /\ arg'[u] = arg[u] /\ n'[u] = n[u]
          /\ ret'[u] = ret[u] /\ due'[u] = due[u]
      BY <1>2, <2>2 DEF IInv, TypeOK, Step, CallInsert, CallQuery, Call, ScanHit, ScanMiss, Lock,
         LoadBuckets, QueryMiss, Search, Write, Grow, Publish, Expose, Compare, Store, EndInsert,
         Return, Goto, shared
    <3> QED BY <1>1, <1>2, <3>1, CountGrows, FindKept
  <2> QED BY <2>1, <2>2
<1>3. CASE UNCHANGED vars
  <2>1. /\ at' = at /\ pos' = pos /\ arg' = arg /\ n' = n /\ ret' = ret /\ due' = due
        /\ nAvailBuckets' = nAvailBuckets
    BY <1>3 DEF vars, shared
  <2>2. Span(nAvailBuckets) \in Nat
    BY Counts DEF IInv
  <2> QED BY <1>1, <2>1, <2>2, FindKept
<1> QED
  BY <1>2, <1>3 DEF Next

\* A query whose key was there when it began finds a value, however the backup
\* table grows meanwhile.
THEOREM TableQueryFinds == Spec => []QueryFinds
<1> DEFINE AllFind == \A t \in Threads : FindInv(t)
<1>1. AllFind => QueryFinds
  BY DEF FindInv, QueryFinds
<1>2. IInv /\ AllFind /\ [Next]_vars => AllFind'
  BY NextFind
<1>3. Init => AllFind
  BY InitFind
<1> HIDE DEF AllFind
<1>4. Spec => []AllFind
  BY <1>2, <1>3, SpecIInv, PTL DEF Spec
<1> QED
  BY <1>1, <1>4, PTL

----------------------------------------------------------------------------
(* The refinement of AbstractTable.  A key is in the abstract map when one *)
(* of the places that queries are told of has it: an insert takes effect   *)
(* when it raises the flag of a slot in a known bucket, when it makes a    *)
(* new bucket known, or when it stores a value.                            *)

Full == {k \in Keys : Stops(k) = {} /\ ~CanGrow}
Busy == {t \in Threads : at[t] # "idle"}

\* What an insert has come to; a bucket that is not yet known has one entry.
RefInv(t) ==
  /\ at[t] # "idle" /\ arg[t].value # None => n[t] = 0
  /\ at[t] \in {"compare", "store", "return", "filled"} => pos[t] <= Span(nAvailBuckets)
  /\ at[t] = "expose" => entry[Here(t)].value = arg[t].value
  /\ at[t] \in {"publish", "expose"} /\ pos[t] > Span(nAvailBuckets) =>
       \A s \in DOMAIN entry :
         entry[s].isOccupied /\ s # Here(t) => s \in Slots(Before(nAvailBuckets))

\* What the abstract map says of a key.
Looks ==
  \A k \in Keys :
    /\ \A p \in Places(k) : Map[k] = entry[Slot(k, p)].value /\ Map[k] \in Values
    /\ Places(k) = {} => Map[k] = None
    /\ Places(k) \subseteq Stops(k)

\* A key has one slot, so its value in the map is the one found at any of its places.
LEMMA MapLooks == IInv /\ OnceInv => Looks
<1> SUFFICES ASSUME IInv, OnceInv, NEW k \in Keys
             PROVE  /\ \A p \in Places(k) : Map[k] = entry[Slot(k, p)].value /\ Map[k] \in Values
                    /\ Places(k) = {} => Map[k] = None
                    /\ Places(k) \subseteq Stops(k)
  BY DEF Looks
<1>1. Span(nAvailBuckets) \in Nat /\ nAvailBuckets \in Nat /\ Before(nAvailBuckets) \in Nat
  BY Counts DEF IInv
<1>2. ASSUME NEW p \in Places(k)
      PROVE  /\ Slot(k, p) \in DOMAIN entry /\ entry[Slot(k, p)].isOccupied
             /\ entry[Slot(k, p)].key = k
  <2>1. p \in Nat \ {0} /\ p <= Span(nAvailBuckets) /\ Holds(Slot(k, p), k)
    BY <1>1 DEF Places
  <2>2. Slot(k, p) \in DOMAIN entry
    BY <1>1, <2>1, KnownSlots DEF IInv
  <2> QED BY <2>1, <2>2 DEF Holds
<1>3. ASSUME NEW p \in Places(k)
      PROVE  Map[k] = entry[Slot(k, p)].value /\ Map[k] \in Values
  <2> DEFINE q == CHOOSE p0 \in Places(k) : TRUE
  <2>1. q \in Places(k) /\ Map[k] = entry[Slot(k, q)].value
    BY <1>3 DEF Map
  <2> HIDE DEF q
  <2>2. Slot(k, q) = Slot(k, p)
    BY <1>2, <2>1 DEF OnceInv, KeyOnce
  <2>3. entry[Slot(k, p)].value \in Values
    BY <1>2 DEF IInv, EntryInv
  <2> QED BY <2>1, <2>2, <2>3
<1>4. Places(k) = {} => Map[k] = None
  BY DEF Map
<1>5. Places(k) \subseteq Stops(k)
  BY DEF Places, Stops, Holds
<1> QED
  BY <1>3, <1>4, <1>5

\* Slots that are known and occupied stay as they are: the map and what is
\* refused stay, too.
LEMMA SameView ==
  ASSUME Looks, Looks', nAvailBuckets' = nAvailBuckets, maxBTBuckets' = maxBTBuckets,
         \A k \in Keys : \A p \in 1 .. Span(nAvailBuckets) :
           /\ entry'[Slot(k, p)].isOccupied <=> entry[Slot(k, p)].isOccupied
           /\ entry[Slot(k, p)].isOccupied => entry'[Slot(k, p)] = entry[Slot(k, p)]
  PROVE  Map' = Map /\ Full' = Full
<1>1. \A k, p : Slot(k, p)' = Slot(k, p)
  BY DEF Slot
<1>2. Span(nAvailBuckets)' = Span(nAvailBuckets)
  BY DEF Span, Before
<1>3. ASSUME NEW k \in Keys PROVE Places(k)' = Places(k) /\ Stops(k)' = Stops(k)
  <2>1. Places(k)' = Places(k)
    BY <1>1, <1>2 DEF Places, Holds
  <2>2. Stops(k)' = Stops(k)
    BY <1>1, <1>2 DEF Stops
  <2> QED BY <2>1, <2>2
<1>4. ASSUME NEW k \in Keys PROVE Map'[k] = Map[k]
  <2>1. CASE Places(k) = {}
    BY <1>3, <2>1 DEF Looks
  <2>2. CASE Places(k) # {}
    <3>1. PICK p \in Places(k) : TRUE
      BY <2>2
    <3>2. p \in 1 .. Span(nAvailBuckets) /\ entry[Slot(k, p)].isOccupied
      BY <3>1 DEF Places, Holds
    <3>3. Map[k] = entry[Slot(k, p)].value /\ Map'[k] = entry'[Slot(k, p)].value
      BY <1>1, <1>3, <3>1 DEF Looks
    <3> QED BY <3>2, <3>3
  <2> QED BY <2>1, <2>2
<1>5. Map' = Map
  BY <1>4 DEF Map
<1>6. Full' = Full
  BY <1>3 DEF Full, CanGrow
<1> QED
  BY <1>5, <1>6

\* A function over the keys that differs at one.
LEMMA MapPut ==
  ASSUME NEW k \in Keys, NEW v, Map'[k] = v, \A j \in Keys : j # k => Map'[j] = Map[j]
  PROVE  Map' = [Map EXCEPT ![k] = v]
<1>1. /\ Map = [j \in Keys |-> Map[j]] /\ Map' = [j \in Keys |-> Map'[j]]
  BY DEF Map
<1> HIDE DEF Map
<1> QED
  BY <1>1

\* A slot of a place outside of the known ones is none of theirs.
LEMMA SlotBeyond ==
  ASSUME IInv, NEW k \in Keys, NEW j \in Keys, NEW p \in Nat, NEW q \in Nat \ {0},
         p > Span(nAvailBuckets), q <= Span(nAvailBuckets)
  PROVE  /\ Slot(k, p) # Slot(j, q) /\ Slot(k, p) \notin Slots(Before(nAvailBuckets))
         /\ Slot(j, q) \in Slots(Before(nAvailBuckets)) /\ Slot(j, q) \in DOMAIN entry
<1>1. /\ Before(nAvailBuckets) \in Nat /\ ChainSize \in Nat /\ TableSize \in Nat
      /\ nAvailBuckets \in Nat /\ Span(nAvailBuckets) = ChainSize + Before(nAvailBuckets)
  BY Counts, TableAssumption DEF IInv, Span
<1> DEFINE e == Before(nAvailBuckets)
<1>2. p > ChainSize + e /\ q <= ChainSize + e /\ e \in Nat
  BY <1>1
<1>3. Slot(j, q) \in DOMAIN entry
  BY <1>1, KnownSlots DEF IInv
<1> HIDE DEF e
<1>4. Slot(j, q) \in Slots(e)
  BY <1>1, <1>2, SlotInside
<1>5. Slot(k, p) = <<Backup, p - ChainSize>> /\ p - ChainSize > e
  BY <1>1, <1>2 DEF Slot
<1>6. Slot(k, p) \notin Slots(e)
  BY <1>1, <1>2, <1>5, TableAssumption DEF Slots, Backup
<1> QED
  BY <1>3, <1>4, <1>6 DEF e

\* What a step of thread t does to the others' knowledge.
LEMMA RefOther ==
  ASSUME IInv, Keeps, NEW t \in Threads, NEW u \in Threads, u # t,
         \A w \in Threads : RefInv(w),
         CallInsert(t) \/ CallQuery(t) \/ Step(t)
  PROVE  RefInv(u)'
<1>1. at'[u] = at[u] /\ pos'[u] = pos[u] /\ arg'[u] = arg[u] /\ n'[u] = n[u]
  BY DEF IInv, TypeOK, Step, CallInsert, CallQuery, Call, ScanHit, ScanMiss, Lock,
     LoadBuckets, QueryMiss, Search, Write, Grow, Publish, Expose, Compare, Store, EndInsert,
     Return, Goto, shared
<1>2. /\ RefInv(u) /\ PlaceInv(u) /\ pos[u] \in Nat
  BY DEF IInv, ArgInv
<1>3. /\ Span(nAvailBuckets) \in Nat /\ Span(nAvailBuckets') \in Nat
      /\ Span(nAvailBuckets) <= Span(nAvailBuckets')
      /\ nAvailBuckets' = nAvailBuckets \/ nAvailBuckets' = nAvailBuckets + 1
  BY CountGrows
<1>4. Here(u)' = Here(u)
  BY <1>1 DEF Here, Slot
<1>5. at'[u] # "idle" /\ arg'[u].value # None => n'[u] = 0
  BY <1>1, <1>2 DEF RefInv
<1>6. at'[u] \in {"compare", "store", "return", "filled"} => pos'[u] <= Span(nAvailBuckets')
  BY <1>1, <1>2, <1>3 DEF RefInv
<1>7. ASSUME at[u] \in {"publish", "expose"}
      PROVE  /\ at[t] \notin Locked /\ nAvailBuckets' = nAvailBuckets /\ NothingNew
             /\ at[u] = "expose" => entry'[Here(u)].value = arg[u].value
  <2>1. mtx = u
    BY <1>2, <1>7 DEF PlaceInv, Locked
  <2>2. at[t] \notin Locked
    BY <2>1, LockExcludes
  <2>3. ~Publish(t) /\ ~Expose(t) /\ ~Write(t) /\ ~Grow(t)
    BY <2>2 DEF Publish, Expose, Write, Grow, Locked
  <2>4. NothingNew
    BY <2>3, OnlyPublish
  <2>5. nAvailBuckets' = nAvailBuckets
    BY <2>3 DEF Step, CallInsert, CallQuery, Call, ScanHit, ScanMiss, Lock, LoadBuckets,
       QueryMiss, Search, Compare, Store, EndInsert, shared
  <2>6. ASSUME at[u] = "expose" PROVE entry'[Here(u)].value = arg[u].value
    <3>1. entry[Here(u)].value = arg[u].value /\ pos[u] = Span(nAvailBuckets) + 1
          /\ Here(u) \in DOMAIN entry
      BY <1>2, <2>6 DEF RefInv, PlaceInv
    <3>2. CASE Store(t)
      <4>1. /\ RefInv(t) /\ at[t] = "store" /\ ArgInv(t) /\ ArgInv(u)
            /\ entry' = [entry EXCEPT ![Here(t)].value = arg[t].value]
        BY <3>2 DEF Store, IInv
      <4>2. pos[t] <= Span(nAvailBuckets) /\ pos[t] \in Nat \ {0} /\ arg[t].key \in Keys
        BY <4>1 DEF RefInv, ArgInv
      <4>3. arg[u].key \in Keys
        BY <2>6, <4>1 DEF ArgInv
      <4>4. pos[u] > Span(nAvailBuckets)
        BY <1>2, <1>3, <3>1
      <4>5. Here(u) # Here(t)
        BY <1>2, <4>2, <4>3, <4>4, SlotBeyond DEF Here
      <4> QED BY <3>1, <4>1, <4>5
    <3>3. CASE ~Store(t)
      <4>1. entry' = entry
        BY <2>3, <3>3 DEF Step, CallInsert, CallQuery, Call, ScanHit, ScanMiss, Lock, LoadBuckets,
           QueryMiss, Search, Compare, EndInsert, shared
      <4> QED BY <3>1, <4>1
    <3> QED BY <3>2, <3>3
  <2> QED BY <2>2, <2>4, <2>5, <2>6
<1>8. at'[u] = "expose" => entry'[Here(u)].value = arg'[u].value
  BY <1>1, <1>7
<1>9. ASSUME at'[u] \in {"publish", "expose"}, pos'[u] > Span(nAvailBuckets'),
             NEW s \in DOMAIN entry', entry'[s].isOccupied, s # Here(u)
      PROVE  s \in Slots(Before(nAvailBuckets'))
  <2>1. nAvailBuckets' = nAvailBuckets /\ NothingNew
    BY <1>1, <1>7, <1>9
  <2>2. s \in DOMAIN entry /\ entry[s].isOccupied
    BY <1>9, <2>1 DEF NothingNew
  <2> QED BY <1>1, <1>2, <1>9, <2>1, <2>2 DEF RefInv
<1> QED
  BY <1>4, <1>5, <1>6, <1>8, <1>9 DEF RefInv, Span, Slots, Before, Backup

\* What a step comes to know itself.
LEMMA RefOwn ==
  ASSUME IInv, Keeps, NEW t \in Threads, RefInv(t), FindInv(t),
         CallInsert(t) \/ CallQuery(t) \/ Step(t)
  PROVE  RefInv(t)'
<1>0. /\ at \in [Threads -> {"idle", "scan", "search", "write", "grow", "publish", "expose",
                             "compare", "store", "return", "filled"}]
      /\ arg \in [Threads -> [key : Keys \cup {None}, value : Values \cup {None}]]
      /\ pos \in [Threads -> Nat] /\ n \in [Threads -> Nat]
      /\ pos[t] \in Nat \ {0} /\ ArgInv(t) /\ PlaceInv(t)
  BY DEF IInv, TypeOK, ArgInv
<1>00. /\ Span(nAvailBuckets) \in Nat /\ Before(nAvailBuckets) \in Nat /\ nAvailBuckets \in Nat
       /\ Span(0) = ChainSize /\ ChainSize \in Nat /\ ChainSize <= Span(nAvailBuckets)
  <2>1. Before(nAvailBuckets) \in Nat /\ ChainSize \in Nat /\ nAvailBuckets \in Nat
    BY Counts, TableAssumption DEF IInv
  <2> QED BY <2>1, BeforeFirst DEF Span
<1>1. CASE CallInsert(t) \/ CallQuery(t)
  <2>1. at'[t] = "scan" /\ n'[t] = 0
    BY <1>0, <1>1 DEF CallInsert, CallQuery, Call, Goto, FindInv
  <2> QED BY <2>1 DEF RefInv
<1>2. CASE ScanHit(t)
  <2>1. CASE IsInsert(t)
    <3>1. /\ at'[t] = "compare" /\ arg' = arg /\ n' = n /\ pos' = pos /\ at[t] = "scan"
          /\ nAvailBuckets' = nAvailBuckets /\ pos[t] <= Span(n[t])
      BY <1>0, <1>2, <2>1 DEF ScanHit, Goto, shared
    <3>2. n[t] = 0
      BY <2>1, <3>1 DEF RefInv, IsInsert
    <3>3. pos'[t] <= Span(nAvailBuckets')
      BY <1>0, <1>00, <3>1, <3>2
    <3> QED BY <3>1, <3>2, <3>3 DEF RefInv, Span, Before
  <2>2. CASE ~IsInsert(t)
    <3>1. at'[t] = "idle"
      BY <1>0, <1>2, <2>2 DEF ScanHit, Return, Goto
    <3> QED BY <3>1 DEF RefInv
  <2> QED BY <2>1, <2>2
<1>3. CASE ScanMiss(t) \/ LoadBuckets(t) \/ Lock(t)
  <2>1. /\ at'[t] \in {"scan", "search"} /\ arg' = arg /\ at[t] = "scan"
        /\ n' = n \/ arg[t].value = None
    BY <1>0, <1>3 DEF ScanMiss, LoadBuckets, Lock, IsInsert, Goto
  <2> QED BY <2>1 DEF RefInv
<1>4. CASE QueryMiss(t) \/ EndInsert(t)
  <2>1. at'[t] = "idle"
    BY <1>0, <1>4 DEF QueryMiss, EndInsert, Return, Goto
  <2> QED BY <2>1 DEF RefInv
<1>5. CASE Search(t)
  <2>1. at[t] = "search" /\ arg' = arg /\ nAvailBuckets' = nAvailBuckets
    BY <1>5 DEF Search
  <2>2. at'[t] \in {"idle", "compare", "write", "grow"} /\ (at'[t] # "idle" => n' = n)
    BY <1>0, <1>5 DEF Search, Return, Goto
  <2>3. at'[t] = "compare" => pos'[t] <= Span(nAvailBuckets)
    <3>1. ASSUME NEW p \in Stops(arg[t].key), pos' = [pos EXCEPT ![t] = p]
          PROVE  pos'[t] <= Span(nAvailBuckets)
      <4>1. p \in 1 .. Span(nAvailBuckets) /\ pos'[t] = p
        BY <1>0, <3>1 DEF Stops
      <4> QED BY <1>00, <4>1
    <3>2. at'[t] = "compare" => \E p \in Stops(arg[t].key) : pos' = [pos EXCEPT ![t] = p]
      BY <1>0, <1>5 DEF Search, Return, Goto
    <3> QED BY <3>1, <3>2
  <2> QED BY <2>1, <2>2, <2>3 DEF RefInv, Span, Before
<1>6. CASE Write(t)
  <2>1. /\ at[t] = "write" /\ at'[t] = "publish" /\ arg' = arg /\ n' = n /\ pos' = pos
        /\ nAvailBuckets' = nAvailBuckets
    BY <1>0, <1>6 DEF Write, Goto
  <2>2. pos[t] <= Span(nAvailBuckets)
    BY <1>0, <2>1 DEF PlaceInv
  <2>3. ~(pos'[t] > Span(nAvailBuckets'))
    BY <1>0, <1>00, <2>1, <2>2
  <2> QED BY <2>1, <2>3 DEF RefInv, Span, Before
<1>7. CASE Grow(t)
  <2>1. /\ at[t] = "grow" /\ at'[t] = "publish" /\ arg' = arg /\ n' = n /\ pos' = pos
        /\ nAvailBuckets' = nAvailBuckets /\ mtx = t
    BY <1>0, <1>7 DEF Grow, Goto, PlaceInv, Locked
  <2>2. ~Grown
    <3>1. ASSUME NEW u \in Threads, at[u] \in {"publish", "expose"} PROVE FALSE
      BY <2>1, <3>1, LockExcludes DEF Locked
    <3> QED BY <3>1 DEF Grown
  <2>3. DOMAIN entry = Slots(Before(nAvailBuckets))
    BY <2>2 DEF IInv, TableInv
  <2>4. ~Publish(t) /\ NothingNew
    BY <1>7, <2>1, OnlyPublish DEF Publish
  <2>5. \A s \in DOMAIN entry' : entry'[s].isOccupied => s \in Slots(Before(nAvailBuckets'))
    BY <2>1, <2>3, <2>4 DEF NothingNew
  <2> QED BY <2>1, <2>5 DEF RefInv, Span, Slots, Before, Backup
<1>8. CASE Publish(t)
  <2>1. /\ at[t] = "publish" /\ arg' = arg /\ n' = n /\ pos' = pos
        /\ nAvailBuckets' = nAvailBuckets
        /\ at'[t] = IF pos[t] > Span(nAvailBuckets) THEN "expose" ELSE "filled"
        /\ entry' = [entry EXCEPT ![Here(t)].isOccupied = TRUE]
    BY <1>0, <1>8 DEF Publish, Goto
  <2>2. Here(t) \in DOMAIN entry /\ entry[Here(t)] = Fresh(t) /\ Here(t)' = Here(t)
    BY <1>0, <2>1 DEF PlaceInv, Here, Slot
  <2>3. entry'[Here(t)].value = arg[t].value
    <3>1. entry'[Here(t)] = [Fresh(t) EXCEPT !.isOccupied = TRUE]
      BY <2>1, <2>2
    <3> QED BY <3>1 DEF Fresh
  <2>4. at'[t] = "filled" => pos[t] <= Span(nAvailBuckets)
    <3>1. CASE pos[t] > Span(nAvailBuckets)
      BY <2>1, <3>1
    <3>2. CASE pos[t] <= Span(nAvailBuckets)
      BY <3>2
    <3>3. pos[t] > Span(nAvailBuckets) \/ pos[t] <= Span(nAvailBuckets)
      BY <1>0, <1>00
    <3> QED BY <3>1, <3>2, <3>3
  <2>5. ASSUME pos[t] > Span(nAvailBuckets), NEW s \in DOMAIN entry', entry'[s].isOccupied,
               s # Here(t)
        PROVE  s \in Slots(Before(nAvailBuckets))
    <3>1. s \in DOMAIN entry /\ entry[s].isOccupied
      BY <2>1, <2>5
    <3> QED BY <2>1, <2>5, <3>1 DEF RefInv
  <2> QED BY <2>1, <2>2, <2>3, <2>4, <2>5 DEF RefInv, Span, Slots, Before, Backup
<1>9. CASE Expose(t)
  <2>1. /\ at[t] = "expose" /\ at'[t] = "filled" /\ arg' = arg /\ n' = n /\ pos' = pos
        /\ nAvailBuckets' = nAvailBuckets + 1
    BY <1>0, <1>9 DEF Expose, Goto
  <2>2. pos[t] = Span(nAvailBuckets) + 1
    BY <1>0, <2>1 DEF PlaceInv
  <2>3. pos'[t] <= Span(nAvailBuckets')
    <3>1. /\ Before(nAvailBuckets + 1) = Before(nAvailBuckets) + BaseSize * 2 ^ nAvailBuckets
          /\ BaseSize * 2 ^ nAvailBuckets \in Nat /\ 2 ^ nAvailBuckets > 0
          /\ 2 ^ nAvailBuckets \in Nat /\ BaseSize \in Nat \ {0}
      BY <1>00, BeforeNext, PowerType, TableAssumption
    <3>2. BaseSize * 2 ^ nAvailBuckets >= 1
      <4> DEFINE x == 2 ^ nAvailBuckets
      <4>1. x \in Nat /\ x > 0
        BY <3>1
      <4> HIDE DEF x
      <4>2. BaseSize * x >= 1
        BY <3>1, <4>1
      <4> QED BY <4>2 DEF x
    <3>3. Span(nAvailBuckets') = ChainSize + Before(nAvailBuckets + 1)
      BY <2>1 DEF Span
    <3>4. Span(nAvailBuckets) = ChainSize + Before(nAvailBuckets) /\ pos'[t] = pos[t]
      BY <2>1 DEF Span
    <3> DEFINE y == BaseSize * 2 ^ nAvailBuckets
               b == Before(nAvailBuckets)
    <3>5. y \in Nat /\ y >= 1 /\ b \in Nat /\ Before(nAvailBuckets + 1) = b + y
      BY <1>00, <3>1, <3>2
    <3>6. pos'[t] = ChainSize + b + 1 /\ Span(nAvailBuckets') = ChainSize + (b + y)
      BY <2>2, <3>3, <3>4, <3>5
    <3> HIDE DEF y, b
    <3> QED BY <1>00, <3>5, <3>6
  <2> QED BY <2>1, <2>3 DEF RefInv, Span, Before
<1>10. CASE Compare(t) \/ Store(t)
  <2>1. /\ at[t] \in {"compare", "store"} /\ at'[t] \in {"store", "return"} /\ arg' = arg
        /\ n' = n /\ pos' = pos /\ nAvailBuckets' = nAvailBuckets
    BY <1>0, <1>10 DEF Compare, Store, Goto
  <2> QED BY <2>1 DEF RefInv, Span, Before
<1> QED
  BY <1>1, <1>2, <1>3, <1>4, <1>5, <1>6, <1>7, <1>8, <1>9, <1>10 DEF Step

\* Every step leaves every thread's knowledge true.
LEMMA NextRef ==
  ASSUME IInv, \A t \in Threads : FindInv(t) /\ RefInv(t), [Next]_vars
  PROVE  \A t \in Threads : RefInv(t)'
<1>1. Keeps
  BY NextIInv
<1>2. ASSUME NEW t \in Threads, CallInsert(t) \/ CallQuery(t) \/ Step(t), NEW u \in Threads
      PROVE  RefInv(u)'
  <2>1. CASE u = t
    BY <1>1, <1>2, <2>1, RefOwn
  <2>2. CASE u # t
    BY <1>1, <1>2, <2>2, RefOther
  <2> QED BY <2>1, <2>2
<1>3. CASE UNCHANGED vars
  <2>1. /\ at' = at /\ pos' = pos /\ arg' = arg /\ n' = n /\ entry' = entry
        /\ nAvailBuckets' = nAvailBuckets
    BY <1>3 DEF vars, shared
  <2> QED BY <2>1 DEF RefInv, Here, Slot, Slots, Span, Before, Backup
<1> QED
  BY <1>2, <1>3 DEF Next

\* A step inside a call that changes neither the map nor the answers.
LEMMA InsideCall ==
  ASSUME IInv, NEW t \in Threads, at[t] # "idle", at'[t] # "idle",
         at' = [at EXCEPT ![t] = at'[t]]
  PROVE  Busy' = Busy
  BY DEF Busy, Goto, IInv, TypeOK

\* A step that does not touch the table.
LEMMA TableUntouched ==
  ASSUME entry' = entry, nAvailBuckets' = nAvailBuckets, maxBTBuckets' = maxBTBuckets
  PROVE  Map' = Map /\ Full' = Full
<1>1. ASSUME NEW k \in Keys PROVE Places(k)' = Places(k) /\ Stops(k)' = Stops(k)
  BY DEF Places, Stops, Holds, Slot, Span, Before
<1>2. ASSUME NEW k \in Keys PROVE Map'[k] = Map[k]
  <2>1. CASE Places(k) = {}
    BY <1>1, <2>1 DEF Map
  <2>2. CASE Places(k) # {}
    <3>1. (CHOOSE p \in Places(k) : TRUE)' = CHOOSE p \in Places(k) : TRUE
      BY <1>1
    <3> QED BY <1>1, <2>2, <3>1 DEF Map, Slot
  <2> QED BY <2>1, <2>2
<1>3. Map' = Map
  <2>1. /\ Map = [j \in Keys |-> Map[j]] /\ Map' = [j \in Keys |-> Map'[j]]
    BY DEF Map
  <2> HIDE DEF Map
  <2> QED BY <1>2, <2>1
<1>4. Full' = Full
  BY <1>1 DEF Full, CanGrow
<1> QED BY <1>3, <1>4

\* An insert's value becomes the one of its key.
LEMMA PutStep ==
  ASSUME IInv, Looks, Looks', NEW t \in Threads, at[t] \notin {"idle", "scan"}, at'[t] # "idle",
         at' = [at EXCEPT ![t] = at'[t]],
         arg[t].value \in sink, arg[t].key \notin Full, Full \subseteq Full',
         Map' = [Map EXCEPT ![arg[t].key] = arg[t].value],
         UNCHANGED <<sink, arg, due, ret>>
  PROVE  AT!Put(t)
<1>1. arg[t].value \in Values /\ arg[t].value # None
  BY TableAssumption DEF IInv, ArgInv
<1>2. t \in Busy /\ Busy' = Busy
  BY InsideCall DEF Busy
<1>3. Full' \subseteq {k \in Keys : Map'[k] = None}
  <2>1. ASSUME NEW k \in Keys, Stops(k)' = {} PROVE Map'[k] = None
    BY <2>1 DEF Looks
  <2> QED BY <2>1 DEF Full
<1> QED
  BY <1>1, <1>2, <1>3 DEF AT!Put, Full, Busy

\* The value of an insert goes into the sink.
LEMMA CollectStep ==
  ASSUME IInv, NEW t \in Threads, at[t] \notin {"idle", "scan"}, at'[t] # "idle",
         at' = [at EXCEPT ![t] = at'[t]], sink' = sink \cup {arg[t].value},
         Map' = Map, Full' = Full, UNCHANGED <<arg, due, ret>>
  PROVE  AT!Collect(t)
<1>1. arg[t].value # None
  BY TableAssumption DEF IInv, ArgInv
<1>2. t \in Busy /\ Busy' = Busy
  BY InsideCall DEF Busy
<1> QED
  BY <1>1, <1>2 DEF AT!Collect, Full, Busy

\* A call returns.
LEMMA ReturnStep ==
  ASSUME IInv, NEW t \in Threads, NEW v, Return(t, v), Map' = Map, Full' = Full,
         UNCHANGED <<sink, arg, due>>
  PROVE  AT!Return(t, v)
<1>1. Busy' = Busy \ {t}
  BY DEF Return, Goto, Busy, IInv, TypeOK
<1> QED
  BY <1>1 DEF AT!Return, Return, Full, Busy

\* The abstract state stays.
Stutter == UNCHANGED <<Map, Full, sink, Busy, arg, due, ret>>
AbsStep(t) ==
  \/ \E v \in Values : AT!Call(t, KeyOf[v], v)
  \/ \E k \in Keys : AT!Call(t, k, None)
  \/ AT!Collect(t) \/ AT!Put(t) \/ AT!EndInsert(t) \/ AT!EndQuery(t)

\* The place of an insert or query that has found its key.
LEMMA FoundPlace ==
  ASSUME IInv, NEW t \in Threads, at[t] # "idle", pos[t] <= Span(nAvailBuckets),
         Holds(Here(t), arg[t].key)
  PROVE  pos[t] \in Places(arg[t].key)
<1>1. pos[t] \in Nat \ {0} /\ Span(nAvailBuckets) \in Nat
  BY Counts DEF IInv, ArgInv
<1>2. pos[t] \in 1 .. Span(nAvailBuckets)
  BY <1>1
<1> QED BY <1>2 DEF Places, Here

\* A call begins, and knows whether its key is there.
LEMMA CallRefines ==
  ASSUME IInv, Looks, NEW t \in Threads, CallInsert(t) \/ CallQuery(t)
  PROVE  AbsStep(t)
<1>1. ASSUME NEW k \in Keys, NEW v, Call(t, k, v) PROVE AT!Call(t, k, v)
  <2>1. Map' = Map /\ Full' = Full
    BY <1>1, TableUntouched DEF Call, shared
  <2>2. t \notin Busy /\ Busy' = Busy \cup {t}
    BY <1>1 DEF Call, Goto, Busy, IInv, TypeOK
  <2>3. Places(k) # {} <=> Map[k] # None
    <3>1. CASE Places(k) = {}
      BY <3>1 DEF Looks
    <3>2. CASE Places(k) # {}
      <4>1. Map[k] \in Values
        BY <3>2 DEF Looks
      <4> QED BY <3>2, <4>1, TableAssumption
    <3> QED BY <3>1, <3>2
  <2>4. due' = [due EXCEPT ![t] = Map[k] # None]
    <3>1. (Places(k) # {}) = (Map[k] # None)
      BY <2>3
    <3> QED BY <1>1, <3>1 DEF Call
  <2> QED BY <1>1, <2>1, <2>2, <2>4 DEF AT!Call, Call, Full, Busy, shared
<1>2. CASE CallInsert(t)
  <2>1. PICK v \in Values : Call(t, KeyOf[v], v)
    BY <1>2 DEF CallInsert
  <2>2. KeyOf[v] \in Keys
    BY TableAssumption
  <2> QED BY <1>1, <2>1, <2>2 DEF AbsStep
<1>3. CASE CallQuery(t)
  BY <1>1, <1>3 DEF CallQuery, AbsStep
<1> QED BY <1>2, <1>3

\* A query ends with the value of a moment, or with none if its key was not there.
LEMMA QueryRefines ==
  ASSUME IInv, Looks, NEW t \in Threads, FindInv(t), ScanHit(t) \/ QueryMiss(t), ~IsInsert(t)
  PROVE  AbsStep(t)
<1>1. /\ at[t] = "scan" /\ arg[t].key \in Keys /\ arg[t].value = None /\ ArgInv(t)
      /\ pos[t] \in Nat \ {0} /\ n[t] \in Nat
  BY DEF ScanHit, QueryMiss, IsInsert, IInv, ArgInv
<1>2. Map' = Map /\ Full' = Full /\ UNCHANGED <<sink, arg, due>>
  BY TableUntouched DEF ScanHit, QueryMiss, shared
<1>3. t \in Busy
  BY <1>1 DEF Busy
<1>4. /\ Before(n[t]) \in Nat /\ ChainSize \in Nat /\ Before(nAvailBuckets) \in Nat
  BY <1>1, BeforeNext, Counts, TableAssumption DEF IInv
<1>5. CASE ScanHit(t)
  <2>1. pos[t] <= Span(n[t]) /\ Holds(Here(t), arg[t].key) /\ Return(t, entry[Here(t)].value)
    BY <1>5 DEF ScanHit
  <2>2. pos[t] <= Span(nAvailBuckets)
    BY <1>1, <1>4, <2>1 DEF ArgInv, Span
  <2>3. pos[t] \in Places(arg[t].key)
    BY <1>1, <2>1, <2>2, FoundPlace
  <2>4. Map[arg[t].key] = entry[Here(t)].value /\ Map[arg[t].key] # None
    BY <1>1, <2>3, TableAssumption DEF Looks, Here
  <2>5. AT!Return(t, Map[arg[t].key])
    <3>1. PICK v : v = Map[arg[t].key]
      OBVIOUS
    <3>2. Return(t, v)
      BY <2>1, <2>4, <3>1
    <3>3. AT!Return(t, v)
      BY <1>2, <3>2, ReturnStep
    <3> QED BY <3>1, <3>3 DEF AT!Return
  <2>6. AT!EndQuery(t)
    BY <1>1, <1>3, <2>4, <2>5 DEF AT!EndQuery, Busy
  <2> QED BY <2>6 DEF AbsStep
<1>6. CASE QueryMiss(t)
  <2>1. n[t] > 0 /\ pos[t] > Span(n[t]) /\ Return(t, None)
    BY <1>6 DEF QueryMiss
  <2>2. ~due[t]
    <3>1. ASSUME due[t] PROVE FALSE
      <4>1. arg[t].key # None
        BY <1>1, TableAssumption
      <4>2. PICK p \in Nat \ {0} : Ahead(t, p)
        BY <1>1, <3>1, <4>1 DEF FindInv
      <4>3. pos[t] <= p /\ p <= Span(n[t])
        BY <1>1, <2>1, <4>2 DEF Ahead
      <4>4. Span(n[t]) \in Nat
        BY <1>4 DEF Span
      <4> QED BY <1>1, <2>1, <4>3, <4>4
    <3> QED BY <3>1
  <2>3. AT!Return(t, None)
    BY <1>2, <2>1, ReturnStep
  <2>4. AT!EndQuery(t)
    BY <1>1, <1>3, <2>2, <2>3 DEF AT!EndQuery, Busy
  <2> QED BY <2>4 DEF AbsStep
<1> QED BY <1>5, <1>6

\* An insert ends with its own value or with what its key has by then, or is
\* refused because no place is left and none can be made.
LEMMA InsertRefines ==
  ASSUME IInv, Looks, NEW t \in Threads, RefInv(t), Search(t) \/ EndInsert(t)
  PROVE  AbsStep(t) \/ Stutter
<1>1. /\ arg[t].key \in Keys /\ arg[t].value # None /\ at[t] \in {"search", "return", "filled"}
  BY TableAssumption DEF IInv, ArgInv, Search, EndInsert
<1>2. Map' = Map /\ Full' = Full /\ UNCHANGED <<sink, arg, due>>
  BY TableUntouched DEF Search, EndInsert
<1>3. t \in Busy
  BY <1>1 DEF Busy
<1>4. CASE Search(t) /\ Return(t, None) /\ Stops(arg[t].key) = {} /\ ~CanGrow
  <2>1. arg[t].key \in Full
    BY <1>1, <1>4 DEF Full
  <2>2. AT!Return(t, None)
    BY <1>2, <1>4, ReturnStep
  <2>3. AT!EndInsert(t)
    BY <1>1, <1>3, <2>1, <2>2 DEF AT!EndInsert, Busy, Full
  <2> QED BY <2>3 DEF AbsStep
<1>5. CASE Search(t) /\ ret' = ret /\ \E to \in {"compare", "write", "grow"} : Goto(t, to)
  <2>1. at[t] # "idle" /\ at'[t] # "idle" /\ at' = [at EXCEPT ![t] = at'[t]]
    BY <1>5 DEF Search, Goto, IInv, TypeOK
  <2>2. Busy' = Busy
    BY <2>1, InsideCall
  <2> QED BY <1>2, <1>5, <2>2 DEF Stutter
<1>6. CASE EndInsert(t)
  <2>1. /\ at[t] \in {"return", "filled"}
        /\ Return(t, IF mtx = t THEN entry[Here(t)].value ELSE arg[t].value)
    BY <1>6 DEF EndInsert
  <2>2. pos[t] <= Span(nAvailBuckets) /\ Holds(Here(t), arg[t].key)
    BY <2>1 DEF RefInv, IInv, PlaceInv
  <2>3. pos[t] \in Places(arg[t].key)
    BY <1>1, <2>2, FoundPlace
  <2>4. Map[arg[t].key] = entry[Here(t)].value /\ Map[arg[t].key] # None
    BY <1>1, <2>3, TableAssumption DEF Looks, Here
  <2>5. PICK v : v = IF mtx = t THEN entry[Here(t)].value ELSE arg[t].value
    OBVIOUS
  <2>6. AT!Return(t, v)
    <3>1. Return(t, v)
      BY <2>1, <2>5
    <3> QED BY <1>2, <3>1, ReturnStep
  <2>7. v \in {arg[t].value, Map[arg[t].key]}
    BY <2>4, <2>5
  <2>8. AT!EndInsert(t)
    BY <1>1, <1>3, <2>4, <2>6, <2>7 DEF AT!EndInsert, Busy
  <2> QED BY <2>8 DEF AbsStep
<1>7. CASE Search(t)
  <2>1. \/ Return(t, None) /\ Stops(arg[t].key) = {} /\ ~CanGrow
        \/ ret' = ret /\ \E to \in {"compare", "write", "grow"} : Goto(t, to)
    BY <1>7 DEF Search
  <2> QED BY <1>4, <1>5, <1>7, <2>1
<1> QED BY <1>6, <1>7

\* An entry is filled in where nobody looks, and its value collected.
LEMMA FillRefines ==
  ASSUME IInv, Looks, Looks', NEW t \in Threads, Write(t) \/ Grow(t)
  PROVE  AbsStep(t)
<1>1. /\ arg[t].key \in Keys /\ arg[t].value # None /\ at[t] \in {"write", "grow"} /\ PlaceInv(t)
      /\ pos[t] \in Nat \ {0} /\ mtx = t
  BY TableAssumption DEF IInv, ArgInv, Write, Grow, PlaceInv, Locked
<1>2. /\ Span(nAvailBuckets) \in Nat /\ nAvailBuckets \in Nat /\ Before(nAvailBuckets) \in Nat
  BY Counts DEF IInv
<1>3. ASSUME NEW k \in Keys, NEW p \in 1 .. Span(nAvailBuckets)
      PROVE  /\ entry'[Slot(k, p)].isOccupied <=> entry[Slot(k, p)].isOccupied
             /\ entry[Slot(k, p)].isOccupied => entry'[Slot(k, p)] = entry[Slot(k, p)]
  <2>1. p \in Nat \ {0} /\ p <= Span(nAvailBuckets)
    BY <1>2
  <2>2. Slot(k, p) \in DOMAIN entry
    BY <1>2, <2>1, KnownSlots DEF IInv
  <2>3. CASE Write(t)
    <3>1. /\ entry' = [entry EXCEPT ![Here(t)] = Fresh(t)] /\ Here(t) \in DOMAIN entry
          /\ ~entry[Here(t)].isOccupied
      BY <1>1, <2>3 DEF Write, PlaceInv
    <3>2. Fresh(t).isOccupied = FALSE
      BY DEF Fresh
    <3> QED BY <2>2, <3>1, <3>2
  <2>4. CASE Grow(t)
    <3>1. /\ at[t] = "grow"
          /\ entry' = [s \in DOMAIN entry \cup NewSlots |->
                 IF s = Here(t) THEN Fresh(t) ELSE IF s \in NewSlots THEN Empty ELSE entry[s]]
      BY <2>4 DEF Grow
    <3>2. pos[t] = Span(nAvailBuckets) + 1
      BY <1>1, <3>1 DEF PlaceInv
    <3>3. pos[t] > Span(nAvailBuckets)
      BY <1>1, <1>2, <3>2
    <3>4. Slot(k, p) # Here(t) /\ Slot(k, p) \in Slots(Before(nAvailBuckets))
      BY <1>1, <2>1, <3>3, SlotBeyond DEF Here
    <3>5. Slot(k, p) \notin NewSlots
      <4>1. nextBucketSize \in Nat
        BY DEF IInv, TypeOK
      <4> QED BY <1>2, <3>4, <4>1, SlotsAfter DEF NewSlots
    <3> QED BY <2>2, <3>1, <3>4, <3>5
  <2> QED BY <2>3, <2>4
<1>4. nAvailBuckets' = nAvailBuckets /\ maxBTBuckets' = maxBTBuckets /\ UNCHANGED <<arg, due, ret>>
      /\ sink' = sink \cup {arg[t].value}
  BY DEF Write, Grow
<1>5. Map' = Map /\ Full' = Full
  BY <1>3, <1>4, SameView
<1>6. at[t] \notin {"idle", "scan"} /\ at'[t] # "idle" /\ at' = [at EXCEPT ![t] = at'[t]]
  BY DEF Write, Grow, Goto, IInv, TypeOK
<1>7. AT!Collect(t)
  BY <1>4, <1>5, <1>6, CollectStep
<1> QED BY <1>7 DEF AbsStep

\* Steps that leave the table as it is.
LEMMA QuietRefines ==
  ASSUME IInv, NEW t \in Threads,
         \/ ScanHit(t) /\ IsInsert(t)
         \/ ScanMiss(t) \/ Lock(t) \/ LoadBuckets(t) \/ Compare(t)
  PROVE  AbsStep(t) \/ Stutter
<1>1. Map' = Map /\ Full' = Full /\ UNCHANGED <<arg, due, ret>>
  BY TableUntouched DEF ScanHit, ScanMiss, Lock, LoadBuckets, Compare, shared
<1>2. at[t] # "idle" /\ at'[t] # "idle"
  BY DEF ScanHit, ScanMiss, Lock, LoadBuckets, Compare, shared, Goto, IInv, TypeOK
<1>3. Busy' = Busy
  <2>1. at' = [at EXCEPT ![t] = at'[t]]
    BY DEF ScanHit, ScanMiss, Lock, LoadBuckets, Compare, Goto, IInv, TypeOK
  <2> QED BY <1>2, <2>1, InsideCall DEF Busy
<1>4. CASE sink' = sink
  BY <1>1, <1>3, <1>4 DEF Stutter
<1>5. CASE Compare(t) /\ sink' = sink \cup {arg[t].value}
  <2>1. at[t] \notin {"idle", "scan"} /\ at' = [at EXCEPT ![t] = at'[t]]
    BY <1>5 DEF Compare, Goto, IInv, TypeOK
  <2>2. AT!Collect(t)
    BY <1>1, <1>2, <1>5, <2>1, CollectStep
  <2> QED BY <2>2 DEF AbsStep
<1>6. sink' = sink \/ (Compare(t) /\ sink' = sink \cup {arg[t].value})
  BY DEF ScanHit, ScanMiss, Lock, LoadBuckets, Compare, shared
<1> QED BY <1>4, <1>5, <1>6

\* Storing a value, or raising the flag of a slot in a known bucket, puts the
\* value into the map and fills no key's last place but by its own slot.
LEMMA PutRefines ==
  ASSUME IInv, OnceInv, Looks, Looks', NEW t \in Threads, RefInv(t),
         \/ Publish(t) /\ pos[t] <= Span(nAvailBuckets)
         \/ Store(t)
  PROVE  AbsStep(t)
<1> DEFINE k == arg[t].key
           v == arg[t].value
           here == Here(t)
<1>1. /\ k \in Keys /\ v \in Values /\ v \in sink /\ at[t] \in {"publish", "store"}
      /\ pos[t] <= Span(nAvailBuckets) /\ pos[t] \in Nat \ {0} /\ here \in DOMAIN entry
      /\ entry[here].key = k
      /\ here = Slot(k, pos[t])
  <2>1. /\ ArgInv(t) /\ PlaceInv(t) /\ at[t] \in {"publish", "store"}
        /\ at[t] = "publish" => pos[t] <= Span(nAvailBuckets)
    BY DEF IInv, Publish, Store
  <2>2. /\ k \in Keys /\ v \in Values /\ v \in sink /\ pos[t] \in Nat \ {0}
        /\ here \in DOMAIN entry
    BY <2>1 DEF ArgInv, PlaceInv
  <2>3. pos[t] <= Span(nAvailBuckets)
    BY <2>1 DEF RefInv
  <2>4. entry[here].key = k
    <3>1. CASE at[t] = "publish"
      BY <2>1, <3>1 DEF PlaceInv, Fresh
    <3>2. CASE at[t] = "store"
      BY <2>1, <3>2 DEF PlaceInv, Holds
    <3> QED BY <2>1, <3>1, <3>2
  <2> QED BY <2>1, <2>2, <2>3, <2>4 DEF Here
<1>2. /\ Span(nAvailBuckets) \in Nat /\ nAvailBuckets \in Nat /\ Before(nAvailBuckets) \in Nat
  BY Counts DEF IInv
<1>3. /\ nAvailBuckets' = nAvailBuckets /\ maxBTBuckets' = maxBTBuckets
      /\ UNCHANGED <<sink, arg, due, ret>>
  BY DEF Publish, Store
<1>4. /\ DOMAIN entry' = DOMAIN entry
      /\ \A x \in DOMAIN entry : x # here => entry'[x] = entry[x]
      /\ entry'[here].key = k /\ entry'[here].value = v /\ entry'[here].isOccupied
  <2>1. entry[here] \in [key : Keys \cup {None}, value : Values \cup {None}, isOccupied : BOOLEAN]
    BY <1>1 DEF IInv, TypeOK
  <2>2. CASE Publish(t)
    <3>1. entry' = [entry EXCEPT ![here].isOccupied = TRUE] /\ PlaceInv(t) /\ at[t] = "publish"
      BY <2>2 DEF Publish, IInv
    <3>2. entry[here].value = v
      BY <3>1 DEF PlaceInv, Fresh
    <3> QED BY <1>1, <2>1, <3>1, <3>2
  <2>3. CASE Store(t)
    <3>1. entry' = [entry EXCEPT ![here].value = v] /\ entry[here].isOccupied
      BY <2>3 DEF Store, IInv, PlaceInv, Holds
    <3> QED BY <1>1, <2>1, <3>1
  <2> QED BY <2>2, <2>3
<1>5. \A j, p : Slot(j, p)' = Slot(j, p)
  BY DEF Slot
<1>6. Span(nAvailBuckets)' = Span(nAvailBuckets)
  BY <1>3 DEF Span, Before
<1>7. pos[t] \in 1 .. Span(nAvailBuckets)
  BY <1>1, <1>2
<1>8. at[t] \notin {"idle", "scan"} /\ at'[t] # "idle" /\ at' = [at EXCEPT ![t] = at'[t]]
  BY DEF Publish, Store, Goto, IInv, TypeOK
<1> HIDE DEF k, v, here
<1>9. pos[t] \in Stops(k)
  BY <1>1, <1>7 DEF Stops
<1>10. PICK kk : kk = k
  OBVIOUS
<1>11. Map'[k] = v
  <2>1. pos[t] \in Places(kk)'
    BY <1>1, <1>4, <1>5, <1>6, <1>7, <1>10 DEF Places, Holds
  <2>2. kk \in Keys /\ here = Slot(kk, pos[t])
    BY <1>1, <1>10
  <2>3. Map'[kk] = entry'[Slot(kk, pos[t])].value
    BY <1>5, <2>1, <2>2 DEF Looks
  <2> QED BY <1>4, <1>10, <2>2, <2>3
<1>12. ASSUME NEW j \in Keys, NEW p \in 1 .. Span(nAvailBuckets) PROVE Slot(j, p) \in DOMAIN entry
  <2>1. p \in Nat \ {0} /\ p <= Span(nAvailBuckets)
    BY <1>2
  <2> QED BY <1>2, <2>1, KnownSlots DEF IInv
<1>13. ASSUME NEW j \in Keys, j # k PROVE Map'[j] = Map[j]
  <2>1. ASSUME NEW p \in 1 .. Span(nAvailBuckets)
        PROVE  /\ (Holds(Slot(j, p), j))' <=> Holds(Slot(j, p), j)
               /\ Holds(Slot(j, p), j) => entry'[Slot(j, p)] = entry[Slot(j, p)]
    <3>1. Slot(j, p) \in DOMAIN entry
      BY <1>12
    <3>2. CASE Slot(j, p) = here
      BY <1>1, <1>4, <1>5, <1>13, <3>2 DEF Holds
    <3>3. CASE Slot(j, p) # here
      BY <1>4, <1>5, <3>1, <3>3 DEF Holds
    <3> QED BY <3>2, <3>3
  <2>2. Places(j)' = Places(j)
    BY <1>5, <1>6, <2>1 DEF Places
  <2>3. CASE Places(j) = {}
    BY <2>2, <2>3 DEF Looks
  <2>4. CASE Places(j) # {}
    <3>1. PICK p \in Places(j) : TRUE
      BY <2>4
    <3>2. p \in 1 .. Span(nAvailBuckets) /\ Holds(Slot(j, p), j)
      BY <3>1 DEF Places
    <3>3. Map[j] = entry[Slot(j, p)].value /\ Map'[j] = entry'[Slot(j, p)].value
      BY <1>5, <2>2, <3>1 DEF Looks
    <3> QED BY <2>1, <3>2, <3>3
  <2> QED BY <2>3, <2>4
<1>14. Map' = [Map EXCEPT ![k] = v]
  <2>1. PICK kp, vv : kp = k /\ vv = v
    OBVIOUS
  <2>2. Map' = [Map EXCEPT ![kp] = vv]
    BY <1>1, <1>11, <1>13, <2>1, MapPut
  <2> QED BY <2>1, <2>2
<1>15. Full \subseteq Full'
  <2>1. ASSUME NEW j \in Keys, NEW p \in Stops(j)' PROVE p \in Stops(j)
    <3>1. /\ p \in 1 .. Span(nAvailBuckets)
          /\ ~entry'[Slot(j, p)].isOccupied \/ entry'[Slot(j, p)].key = j
      BY <1>5, <1>6, <2>1 DEF Stops
    <3>2. Slot(j, p) \in DOMAIN entry
      BY <1>12, <3>1
    <3>3. ~entry[Slot(j, p)].isOccupied \/ entry[Slot(j, p)].key = j
      BY <1>1, <1>4, <3>1, <3>2
    <3> QED BY <3>1, <3>3 DEF Stops
  <2>2. CanGrow' = CanGrow
    BY <1>3 DEF CanGrow
  <2> QED BY <2>1, <2>2 DEF Full
<1>16. k \notin Full
  BY <1>9 DEF Full
<1>17. AT!Put(t)
  BY <1>1, <1>3, <1>8, <1>14, <1>15, <1>16, PutStep DEF k, v
<1> QED BY <1>17 DEF AbsStep

\* The flag of an entry in a bucket that nobody knows of changes nothing yet.
LEMMA HiddenPublishRefines ==
  ASSUME IInv, Looks, Looks', NEW t \in Threads, Publish(t), pos[t] > Span(nAvailBuckets)
  PROVE  Stutter
<1>1. /\ arg[t].key \in Keys /\ pos[t] \in Nat \ {0} /\ Here(t) \in DOMAIN entry
      /\ entry' = [entry EXCEPT ![Here(t)].isOccupied = TRUE]
      /\ nAvailBuckets' = nAvailBuckets /\ maxBTBuckets' = maxBTBuckets
      /\ UNCHANGED <<sink, arg, due, ret>>
  BY DEF IInv, ArgInv, PlaceInv, Publish
<1>2. Span(nAvailBuckets) \in Nat
  BY Counts DEF IInv
<1>3. ASSUME NEW k \in Keys, NEW p \in 1 .. Span(nAvailBuckets)
      PROVE  entry'[Slot(k, p)] = entry[Slot(k, p)]
  <2>1. p \in Nat \ {0} /\ p <= Span(nAvailBuckets)
    BY <1>2
  <2>2. Slot(k, p) # Here(t) /\ Slot(k, p) \in DOMAIN entry
    BY <1>1, <2>1, SlotBeyond DEF Here
  <2> QED BY <1>1, <2>2
<1>4. Map' = Map /\ Full' = Full
  BY <1>1, <1>3, SameView
<1>5. at[t] # "idle" /\ at'[t] # "idle" /\ at' = [at EXCEPT ![t] = at'[t]]
  BY DEF Publish, Goto, IInv, TypeOK
<1>6. Busy' = Busy
  BY <1>5, InsideCall
<1> QED BY <1>1, <1>4, <1>6 DEF Stutter

\* Making a bucket known puts its one entry into the map.
LEMMA ExposeRefines ==
  ASSUME IInv, Looks, Looks', NEW t \in Threads, RefInv(t), RefInv(t)', PlaceInv(t)', Expose(t)
  PROVE  AbsStep(t)
<1> DEFINE k == arg[t].key
           v == arg[t].value
<1>1. /\ k \in Keys /\ v \in Values /\ v \in sink /\ at[t] = "expose" /\ CanGrow
      /\ pos[t] \in Nat \ {0} /\ Here(t) \in DOMAIN entry /\ Holds(Here(t), k)
      /\ entry[Here(t)].value = v /\ pos[t] = Span(nAvailBuckets) + 1
      /\ Span(nAvailBuckets) \in Nat
  <2>1. at[t] = "expose" /\ ArgInv(t) /\ PlaceInv(t)
    BY DEF IInv, Expose
  <2>2. pos[t] = Span(nAvailBuckets) + 1 /\ Span(nAvailBuckets) \in Nat /\ pos[t] \in Nat \ {0}
    BY <2>1, Counts DEF PlaceInv, IInv, ArgInv
  <2>3. pos[t] > Span(nAvailBuckets)
    BY <2>2
  <2> QED BY <2>1, <2>2, <2>3 DEF ArgInv, PlaceInv, RefInv
<1>2. /\ entry' = entry /\ UNCHANGED <<sink, arg, due, ret, pos>>
      /\ nAvailBuckets' = nAvailBuckets + 1 /\ at'[t] = "filled"
  BY DEF Expose, Goto, IInv, TypeOK
<1>3. /\ nAvailBuckets \in Nat /\ Before(nAvailBuckets) \in Nat
      /\ Span(nAvailBuckets') \in Nat /\ Span(nAvailBuckets) <= Span(nAvailBuckets')
  BY Counts, CountGrows DEF IInv, Step
<1>4. \A j, p : Slot(j, p)' = Slot(j, p)
  BY DEF Slot
<1>5. pos[t] \in 1 .. Span(nAvailBuckets')
  <2>1. pos'[t] <= Span(nAvailBuckets')
    BY <1>2 DEF RefInv, Span, Before
  <2> QED BY <1>1, <1>2, <1>3, <2>1
<1>6. Span(nAvailBuckets)' = Span(nAvailBuckets')
  BY DEF Span, Before
<1>7. pos[t] \in Places(k)'
  BY <1>1, <1>2, <1>4, <1>5, <1>6 DEF Places, Holds, Here
<1>8. Map'[k] = v
  BY <1>1, <1>2, <1>4, <1>7 DEF Looks, Here
<1>9. at[t] \notin {"idle", "scan"} /\ at'[t] # "idle" /\ at' = [at EXCEPT ![t] = at'[t]]
  BY DEF Expose, Goto, IInv, TypeOK
<1>10. pos[t] > Span(nAvailBuckets)
  BY <1>1
<1>11. \A s \in DOMAIN entry :
         entry[s].isOccupied /\ s # Here(t) => s \in Slots(Before(nAvailBuckets))
  BY <1>1, <1>10 DEF RefInv
<1>12. entry[Here(t)].key = k
  BY <1>1 DEF Holds
<1> HIDE DEF k, v
<1>13. ASSUME NEW j \in Keys, j # k PROVE Map'[j] = Map[j]
  <2>1. ASSUME NEW p \in Places(j)' PROVE p \in Places(j)
    <3>1. /\ p \in 1 .. Span(nAvailBuckets') /\ entry[Slot(j, p)].isOccupied
          /\ entry[Slot(j, p)].key = j
      BY <1>2, <1>4, <1>6, <2>1 DEF Places, Holds
    <3>2. p \in Nat \ {0} /\ p <= Span(nAvailBuckets')
      BY <1>3, <3>1
    <3>3. p <= Span(nAvailBuckets)
      <4>1. SUFFICES ASSUME p > Span(nAvailBuckets) PROVE FALSE
        BY <1>1, <3>2
      <4>2. Slot(j, p) \notin Slots(Before(nAvailBuckets))
        <5>1. 1 \in Nat \ {0} /\ 1 <= Span(nAvailBuckets)
          <6>1. ChainSize \in Nat \ {0}
            BY TableAssumption
          <6> QED BY <1>3, <6>1 DEF Span
        <5> QED BY <3>2, <4>1, <5>1, SlotBeyond
      <4>3. Slot(j, p) # Here(t)
        BY <1>12, <1>13, <3>1
      <4>4. Slot(j, p) \in DOMAIN entry
        <5>1. Slot(j, p) \in Slots(Before(nAvailBuckets + 1))
          <6>1. Before(nAvailBuckets + 1) \in Nat
            BY <1>3, BeforeNext
          <6>2. p <= ChainSize + Before(nAvailBuckets + 1)
            BY <1>2, <3>2 DEF Span
          <6> QED BY <3>2, <6>1, <6>2, SlotInside
        <5>2. Grown
          BY <1>1, <1>10 DEF Grown
        <5> QED BY <5>1, <5>2 DEF IInv, TableInv
      <4> QED BY <1>11, <3>1, <4>2, <4>3, <4>4
    <3> QED BY <1>1, <3>1, <3>2, <3>3 DEF Places, Holds
  <2>2. ASSUME NEW p \in Places(j) PROVE p \in Places(j)'
    <3>1. p \in 1 .. Span(nAvailBuckets) /\ Holds(Slot(j, p), j)
      BY DEF Places
    <3>2. p \in 1 .. Span(nAvailBuckets')
      BY <1>1, <1>3, <3>1
    <3> QED BY <1>2, <1>4, <1>6, <3>1, <3>2 DEF Places, Holds
  <2>3. CASE Places(j) = {}
    <3>1. Places(j)' = {}
      BY <2>1, <2>3
    <3> QED BY <2>3, <3>1 DEF Looks
  <2>4. CASE Places(j) # {}
    <3>1. PICK p \in Places(j) : TRUE
      BY <2>4
    <3>2. Map[j] = entry[Slot(j, p)].value /\ Map'[j] = entry'[Slot(j, p)].value
      BY <1>4, <2>2, <3>1 DEF Looks
    <3> QED BY <1>2, <3>2
  <2> QED BY <2>3, <2>4
<1>14. Map' = [Map EXCEPT ![k] = v]
  <2>1. PICK kk, vv : kk = k /\ vv = v
    OBVIOUS
  <2>2. Map' = [Map EXCEPT ![kk] = vv]
    BY <1>1, <1>8, <1>13, <2>1, MapPut
  <2> QED BY <2>1, <2>2
<1>15. Full = {}
  BY <1>1 DEF Full
<1>16. AT!Put(t)
  BY <1>1, <1>2, <1>9, <1>14, <1>15, PutStep DEF k, v
<1> QED BY <1>16 DEF AbsStep

\* Every step is one of the abstract table or none.
LEMMA StepRefines ==
  ASSUME IInv, OnceInv, \A t \in Threads : FindInv(t) /\ RefInv(t), [Next]_vars,
         IInv', Looks', \A t \in Threads : RefInv(t)'
  PROVE  AT!Next \/ Stutter
<1>1. Looks
  BY MapLooks
<1>2. ASSUME NEW t \in Threads, CallInsert(t) \/ CallQuery(t) \/ Step(t)
      PROVE  AT!Next \/ Stutter
  <2>1. AbsStep(t) \/ Stutter
    <3>1. CASE CallInsert(t) \/ CallQuery(t)
      BY <1>1, <3>1, CallRefines
    <3>2. CASE ScanHit(t) \/ QueryMiss(t)
      <4>1. CASE IsInsert(t)
        <5>1. ScanHit(t)
          BY <3>2, <4>1 DEF QueryMiss
        <5> QED BY <4>1, <5>1, QuietRefines
      <4>2. CASE ~IsInsert(t)
        BY <1>1, <3>2, <4>2, QueryRefines
      <4> QED BY <4>1, <4>2
    <3>3. CASE ScanMiss(t) \/ Lock(t) \/ LoadBuckets(t) \/ Compare(t)
      BY <3>3, QuietRefines
    <3>4. CASE Search(t) \/ EndInsert(t)
      BY <1>1, <3>4, InsertRefines
    <3>5. CASE Write(t) \/ Grow(t)
      BY <1>1, <3>5, FillRefines
    <3>6. CASE Publish(t)
      <4>1. pos[t] \in Nat /\ Span(nAvailBuckets) \in Nat
        BY Counts DEF IInv, ArgInv
      <4>2. CASE pos[t] <= Span(nAvailBuckets)
        BY <1>1, <3>6, <4>2, PutRefines
      <4>3. CASE pos[t] > Span(nAvailBuckets)
        BY <1>1, <3>6, <4>3, HiddenPublishRefines
      <4> QED BY <4>1, <4>2, <4>3
    <3>7. CASE Store(t)
      BY <1>1, <3>7, PutRefines
    <3>8. CASE Expose(t)
      <4>1. PlaceInv(t)'
        BY DEF IInv
      <4> QED BY <1>1, <3>8, <4>1, ExposeRefines
    <3> QED BY <1>2, <3>1, <3>2, <3>3, <3>4, <3>5, <3>6, <3>7, <3>8 DEF Step
  <2> QED BY <2>1 DEF AbsStep, AT!Next
<1>3. CASE UNCHANGED vars
  <2>1. /\ entry' = entry /\ nAvailBuckets' = nAvailBuckets /\ maxBTBuckets' = maxBTBuckets
        /\ UNCHANGED <<sink, at, arg, due, ret>>
    BY <1>3 DEF vars, shared
  <2>2. Map' = Map /\ Full' = Full
    BY <2>1, TableUntouched
  <2> QED BY <2>1, <2>2 DEF Stutter, Busy
<1> QED
  BY <1>2, <1>3 DEF Next

\* At first the table maps no key and refuses none.
LEMMA InitRefines == Init => AT!Init /\ \A t \in Threads : RefInv(t)
<1> SUFFICES ASSUME Init PROVE AT!Init /\ \A t \in Threads : RefInv(t)
  OBVIOUS
<1>1. IInv /\ Looks
  BY InitIInv, InitOnce, MapLooks
<1>2. ASSUME NEW k \in Keys PROVE Places(k) = {} /\ Stops(k) # {}
  <2>1. \A x \in DOMAIN entry : entry[x].isOccupied = FALSE
    BY DEF Init, Empty
  <2>2. Span(nAvailBuckets) \in Nat /\ nAvailBuckets \in Nat
    BY <1>1, Counts DEF IInv
  <2>3. ASSUME NEW p \in 1 .. Span(nAvailBuckets) PROVE Slot(k, p) \in DOMAIN entry
    <3>1. p \in Nat \ {0} /\ p <= Span(nAvailBuckets) /\ Before(nAvailBuckets) \in Nat
      BY <1>1, <2>2, Counts DEF IInv
    <3> QED BY <1>1, <2>2, <3>1, KnownSlots DEF IInv
  <2>4. 1 \in 1 .. Span(nAvailBuckets)
    <3>1. ChainSize \in Nat \ {0} /\ Before(nAvailBuckets) \in Nat
      BY <1>1, Counts, TableAssumption DEF IInv
    <3> QED BY <3>1 DEF Span
  <2>5. Places(k) = {}
    BY <2>1, <2>3 DEF Places, Holds
  <2>6. 1 \in Stops(k)
    BY <2>1, <2>3, <2>4 DEF Stops
  <2> QED BY <2>5, <2>6
<1>3. Map = [k \in Keys |-> None]
  BY <1>2 DEF Map
<1>4. Full = {} /\ Busy = {}
  BY <1>2 DEF Full, Busy, Init
<1>5. AT!Init
  BY <1>3, <1>4 DEF AT!Init, Full, Busy, Init
<1>6. \A t \in Threads : RefInv(t)
  BY DEF Init, RefInv
<1> QED BY <1>5, <1>6

\* The table implements the abstract map: for every number of threads, keys
\* and buckets, what callers see is a map with atomic updates that loses no
\* key and refuses one only when it is full.
THEOREM TableRefines == Spec => Refines
<1> DEFINE AllFind == \A t \in Threads : FindInv(t)
           AllRef == \A t \in Threads : RefInv(t)
<1>1. Init => AT!Init /\ AllFind /\ AllRef
  BY InitFind, InitRefines
<1>2. IInv /\ OnceInv /\ AllFind /\ AllRef /\ [Next]_vars => AllFind' /\ AllRef'
  BY NextFind, NextRef
<1>3. IInv /\ OnceInv /\ AllFind /\ AllRef /\ [Next]_vars /\ IInv' /\ Looks' /\ AllRef'
        => [AT!Next]_<<Map, Full, sink, Busy, arg, due, ret>>
  <2> SUFFICES ASSUME IInv, OnceInv, AllFind, AllRef, [Next]_vars, IInv', Looks', AllRef'
               PROVE  AT!Next \/ Stutter
    BY DEF Stutter
  <2> QED BY StepRefines
<1>4. [AT!Next]_<<Map, Full, sink, Busy, arg, due, ret>> => [AT!Next]_(AT!vars)
  BY DEF AT!vars, Full, Busy
<1> HIDE DEF AllFind, AllRef
<1>5. Spec => []OnceInv
  BY InitOnce, NextOnce, SpecIInv, PTL DEF Spec
<1>6. Spec => [](AllFind /\ AllRef)
  BY <1>1, <1>2, <1>5, SpecIInv, PTL DEF Spec
<1>7. Spec => [][AT!Next]_(AT!vars)
  BY <1>3, <1>4, <1>5, <1>6, SpecIInv, MapLooks, PTL DEF Spec
<1> QED
  BY <1>1, <1>7, PTL DEF Spec, Refines, AT!Spec
=============================================================================
