--------------------------- MODULE DispatchTable ----------------------------
(***************************************************************************)
(* ThreadSafeChainedDispatchTable                                          *)
(* (src/include/kernel_register/kernel_dispatch_table.hh), the hash table  *)
(* in which threads look up a kernel by its key and insert the ones they   *)
(* generate.                                                               *)
(*                                                                         *)
(* A key belongs to one chain of the main table; the backup table, a list  *)
(* of buckets that double in size, is common to all chains.  A query is    *)
(* lock-free.  An insert first looks for its key without the lock and      *)
(* replaces the value there; otherwise it looks again with the lock held   *)
(* and fills the first free slot.                                          *)
(*                                                                         *)
(* A slot is <<chain, place>>, with TableSize for the chain of the backup  *)
(* table, whose buckets are numbered through.  Every atomic access that    *)
(* another thread can tell apart is a step.  The flag of a slot orders its *)
(* key (release, acquire); a relaxed load of a value may be older than the *)
(* last store, which no property here depends on.                          *)
(***************************************************************************)
EXTENDS Integers, FiniteSets

CONSTANTS
  Threads,
  Keys, Values,
  KeyOf,          \* the key each value (a kernel) carries
  Hash,           \* hash_key
  TableSize, ChainSize,
  BaseSize,       \* baseBucketSize, 128
  BucketLimits,   \* maxBTBuckets, 128
  Calls,          \* bound: calls by all threads
  None            \* nullptr

ASSUME TableAssumption ==
  /\ KeyOf \in [Values -> Keys]
  /\ Hash \in [Keys -> 0 .. TableSize - 1]
  /\ TableSize \in Nat \ {0} /\ ChainSize \in Nat \ {0} /\ BaseSize \in Nat \ {0}
  /\ BucketLimits \subseteq Nat \ {0}
  /\ Calls \in Nat
  /\ None \notin Threads \cup Keys \cup Values

VARIABLES
  entry,           \* the allocated slots: key, value, isOccupied
  maxBTBuckets, nAvailBuckets, nextBucketSize,
  mtx,             \* who holds the lock
  sink,            \* storedKernelWatcher: values to free in the end
  at, calls,       \* where each thread is, and how many calls are left
  arg,             \* arg[t]: the key and value of its call, None for a query's
  pos, n,          \* the place it has come to, and the buckets it knows of
  due,             \* due[t]: its key was there when its call began
  ret              \* ret[t]: what its last call returned

shared == <<entry, maxBTBuckets, nAvailBuckets, nextBucketSize, mtx, sink>>
vars == <<shared, at, calls, arg, pos, n, due, ret>>

Empty == [key |-> None, value |-> None, isOccupied |-> FALSE]
Backup == TableSize

----------------------------------------------------------------------------
(* The order in which a key's slots are searched.                          *)

\* Entries in the first b buckets: bucket b has baseBucketSize << b.
Before(b) == BaseSize * (2 ^ b - 1)
Span(b) == ChainSize + Before(b)
Slot(k, p) == IF p <= ChainSize THEN <<Hash[k], p>> ELSE <<Backup, p - ChainSize>>
Holds(s, k) == entry[s].isOccupied /\ entry[s].key = k
Places(k) == {p \in 1 .. Span(nAvailBuckets) : Holds(Slot(k, p), k)}

Init ==
  /\ maxBTBuckets \in BucketLimits
  /\ entry = [s \in (0 .. TableSize - 1) \X (1 .. ChainSize)
                    \cup {Backup} \X (1 .. BaseSize) |-> Empty]
  /\ nAvailBuckets = 1
  /\ nextBucketSize = 2 * BaseSize
  /\ mtx = None
  /\ sink = {}
  /\ at = [t \in Threads |-> "idle"]
  /\ calls = Calls
  /\ arg = [t \in Threads |-> [key |-> None, value |-> None]]
  /\ pos = [t \in Threads |-> 1]
  /\ n = [t \in Threads |-> 0]
  /\ due = [t \in Threads |-> FALSE]
  /\ ret = [t \in Threads |-> None]

Goto(t, to) == at' = [at EXCEPT ![t] = to]
Call(t, k, v) ==
  /\ at[t] = "idle"
  /\ calls > 0
  /\ calls' = calls - 1
  /\ arg' = [arg EXCEPT ![t] = [key |-> k, value |-> v]]
  /\ due' = [due EXCEPT ![t] = Places(k) # {}]
  /\ Goto(t, "scan")
  /\ UNCHANGED <<shared, pos, n, ret>>

CallInsert(t) == \E v \in Values : Call(t, KeyOf[v], v)
CallQuery(t) == \E k \in Keys : Call(t, k, None)
IsInsert(t) == arg[t].value # None
Here(t) == Slot(arg[t].key, pos[t])

Return(t, v) ==
  /\ ret' = [ret EXCEPT ![t] = v]
  /\ pos' = [pos EXCEPT ![t] = 1]
  /\ n' = [n EXCEPT ![t] = 0]
  /\ Goto(t, "idle")

----------------------------------------------------------------------------
(* The search without the lock.                                            *)

ScanHit(t) ==
  /\ at[t] = "scan"
  /\ pos[t] <= Span(n[t])
  /\ Holds(Here(t), arg[t].key)
  /\ IF IsInsert(t) THEN Goto(t, "compare") /\ UNCHANGED <<pos, n, ret>>
                    ELSE Return(t, entry[Here(t)].value)
  /\ UNCHANGED <<shared, calls, arg, due>>

ScanMiss(t) ==
  /\ at[t] = "scan"
  /\ pos[t] <= Span(n[t])
  /\ ~Holds(Here(t), arg[t].key)
  /\ pos' = [pos EXCEPT ![t] = @ + 1]
  /\ UNCHANGED <<shared, at, calls, arg, n, due, ret>>

\* Mutant: the lock does not exclude.
LockShared(t) ==
  /\ at[t] = "scan"
  /\ IsInsert(t)
  /\ pos[t] > Span(n[t])
  /\ mtx' = t
  /\ Goto(t, "search")
  /\ UNCHANGED <<entry, maxBTBuckets, nAvailBuckets, nextBucketSize, sink,
                 calls, arg, pos, n, due, ret>>

\* An insert does not look into the backup table before it has the lock.
Lock(t) ==
  /\ at[t] = "scan"
  /\ IsInsert(t)
  /\ pos[t] > Span(n[t])
  /\ mtx = None
  /\ mtx' = t
  /\ Goto(t, "search")
  /\ UNCHANGED <<entry, maxBTBuckets, nAvailBuckets, nextBucketSize, sink,
                 calls, arg, pos, n, due, ret>>

\* Mutant: the loop over the buckets runs up to their count.
LoadBucketsAndOne(t) ==
  /\ at[t] = "scan"
  /\ ~IsInsert(t)
  /\ n[t] = 0
  /\ pos[t] > Span(0)
  /\ n' = [n EXCEPT ![t] = nAvailBuckets + 1]
  /\ UNCHANGED <<shared, at, calls, arg, pos, due, ret>>

LoadBuckets(t) ==
  /\ at[t] = "scan"
  /\ ~IsInsert(t)
  /\ n[t] = 0
  /\ pos[t] > Span(0)
  /\ n' = [n EXCEPT ![t] = nAvailBuckets]
  /\ UNCHANGED <<shared, at, calls, arg, pos, due, ret>>

\* Mutant: a query that finds nothing in the chain gives up.
QueryMissInChain(t) ==
  /\ at[t] = "scan"
  /\ ~IsInsert(t)
  /\ pos[t] > ChainSize
  /\ Return(t, None)
  /\ UNCHANGED <<shared, calls, arg, due>>

QueryMiss(t) ==
  /\ at[t] = "scan"
  /\ ~IsInsert(t)
  /\ n[t] > 0
  /\ pos[t] > Span(n[t])
  /\ Return(t, None)
  /\ UNCHANGED <<shared, calls, arg, due>>

----------------------------------------------------------------------------
(* With the lock held no flag and no key changes: the search is one step.  *)

\* Mutant: the second look is for a free place only.
FreePlaces(k) ==
  {p \in 1 .. Span(nAvailBuckets) : ~entry[Slot(k, p)].isOccupied}

\* The places that are free or have the key; the insert takes the first.
Stops(k) ==
  {p \in 1 .. Span(nAvailBuckets) : LET e == entry[Slot(k, p)] IN ~e.isOccupied \/ e.key = k}

\* Mutant: one bucket more than there is room for.
CanGrowPastLimit == nAvailBuckets <= maxBTBuckets
CanGrow == nAvailBuckets < maxBTBuckets

Search(t) ==
  /\ at[t] = "search"
  /\ LET k == arg[t].key
     IN  \/ \E p \in Stops(k) :
              /\ \A q \in Stops(k) : p <= q
              /\ pos' = [pos EXCEPT ![t] = p]
              /\ Goto(t, IF entry[Slot(k, p)].isOccupied THEN "compare" ELSE "write")
              /\ UNCHANGED <<mtx, n, ret>>
         \/ /\ Stops(k) = {}
            /\ CanGrow
            /\ pos' = [pos EXCEPT ![t] = Span(nAvailBuckets) + 1]
            /\ Goto(t, "grow")
            /\ UNCHANGED <<mtx, n, ret>>
         \/ /\ Stops(k) = {}
            /\ ~CanGrow
            /\ Return(t, None)
            /\ mtx' = None
  /\ UNCHANGED <<entry, maxBTBuckets, nAvailBuckets, nextBucketSize, sink,
                 calls, arg, due>>

\* An entry that is not yet marked occupied.
Fresh(t) == [key |-> arg[t].key, value |-> arg[t].value, isOccupied |-> FALSE]

Write(t) ==
  /\ at[t] = "write"
  /\ sink' = sink \cup {arg[t].value}
  /\ entry' = [entry EXCEPT ![Here(t)] = Fresh(t)]
  /\ Goto(t, "publish")
  /\ UNCHANGED <<maxBTBuckets, nAvailBuckets, nextBucketSize, mtx,
                 calls, arg, pos, n, due, ret>>

\* The entries of a new bucket.
NewSlots == {Backup} \X (Before(nAvailBuckets) + 1 .. Before(nAvailBuckets) + nextBucketSize)

Grow(t) ==
  /\ at[t] = "grow"
  /\ sink' = sink \cup {arg[t].value}
  /\ entry' = [s \in DOMAIN entry \cup NewSlots |->
                 IF s = Here(t) THEN Fresh(t) ELSE IF s \in NewSlots THEN Empty ELSE entry[s]]
  /\ Goto(t, "publish")
  /\ UNCHANGED <<maxBTBuckets, nAvailBuckets, nextBucketSize, mtx,
                 calls, arg, pos, n, due, ret>>

Publish(t) ==
  /\ at[t] = "publish"
  /\ entry' = [entry EXCEPT ![Here(t)].isOccupied = TRUE]
  /\ Goto(t, IF pos[t] > Span(nAvailBuckets) THEN "expose" ELSE "filled")
  /\ UNCHANGED <<maxBTBuckets, nAvailBuckets, nextBucketSize, mtx, sink,
                 calls, arg, pos, n, due, ret>>

\* Mutant: the count of the buckets is not raised.
ExposeSizeOnly(t) ==
  /\ at[t] = "expose"
  /\ nextBucketSize' = 2 * nextBucketSize
  /\ Goto(t, "filled")
  /\ UNCHANGED <<entry, maxBTBuckets, nAvailBuckets, mtx, sink,
                 calls, arg, pos, n, due, ret>>

\* Queries come to see the new bucket.
Expose(t) ==
  /\ at[t] = "expose"
  /\ nextBucketSize' = 2 * nextBucketSize
  /\ nAvailBuckets' = nAvailBuckets + 1
  /\ Goto(t, "filled")
  /\ UNCHANGED <<entry, maxBTBuckets, mtx, sink,
                 calls, arg, pos, n, due, ret>>

----------------------------------------------------------------------------
(* Replacing the value of a key that is there, with or without the lock.   *)

\* Mutant: the value that is replaced goes to the sink.
CompareSinksReplaced(t) ==
  /\ at[t] = "compare"
  /\ \/ /\ entry[Here(t)].value = arg[t].value
        /\ Goto(t, "return")
        /\ UNCHANGED sink
     \/ /\ entry[Here(t)].value # arg[t].value
        /\ sink' = sink \cup {entry[Here(t)].value}
        /\ Goto(t, "store")
  /\ UNCHANGED <<entry, maxBTBuckets, nAvailBuckets, nextBucketSize, mtx,
                 calls, arg, pos, n, due, ret>>

\* The value to be stored goes to the sink first, not the one it replaces.
Compare(t) ==
  /\ at[t] = "compare"
  /\ \/ /\ entry[Here(t)].value = arg[t].value
        /\ Goto(t, "return")
        /\ UNCHANGED sink
     \/ /\ entry[Here(t)].value # arg[t].value
        /\ sink' = sink \cup {arg[t].value}
        /\ Goto(t, "store")
  /\ UNCHANGED <<entry, maxBTBuckets, nAvailBuckets, nextBucketSize, mtx,
                 calls, arg, pos, n, due, ret>>

Store(t) ==
  /\ at[t] = "store"
  /\ entry' = [entry EXCEPT ![Here(t)].value = arg[t].value]
  /\ Goto(t, "return")
  /\ UNCHANGED <<maxBTBuckets, nAvailBuckets, nextBucketSize, mtx, sink,
                 calls, arg, pos, n, due, ret>>

\* Mutant: the lock is not given back.
EndInsertKeepsLock(t) ==
  /\ at[t] \in {"return", "filled"}
  /\ Return(t, IF mtx = t THEN entry[Here(t)].value ELSE arg[t].value)
  /\ UNCHANGED <<shared, calls, arg, due>>

\* Without the lock the argument is returned, with it what the slot holds,
\* be it a slot replaced ("return") or one that was free ("filled").
EndInsert(t) ==
  /\ at[t] \in {"return", "filled"}
  /\ Return(t, IF mtx = t THEN entry[Here(t)].value ELSE arg[t].value)
  /\ mtx' = IF mtx = t THEN None ELSE mtx
  /\ UNCHANGED <<entry, maxBTBuckets, nAvailBuckets, nextBucketSize, sink,
                 calls, arg, due>>

----------------------------------------------------------------------------
Step(t) ==
  \/ ScanHit(t) \/ ScanMiss(t) \/ Lock(t) \/ LoadBuckets(t) \/ QueryMiss(t)
  \/ Search(t) \/ Write(t) \/ Grow(t) \/ Publish(t) \/ Expose(t)
  \/ Compare(t) \/ Store(t) \/ EndInsert(t)

Next == \E t \in Threads : CallInsert(t) \/ CallQuery(t) \/ Step(t)

Spec == Init /\ [][Next]_vars

\* A thread inside a call keeps running.
FairSpec == Spec /\ \A t \in Threads : WF_vars(Step(t))

----------------------------------------------------------------------------
(* Properties.                                                             *)

\* Every field keeps its type, and no more buckets than maxBTBuckets are ever
\* in use.
TypeOK ==
  /\ maxBTBuckets \in BucketLimits
  /\ nAvailBuckets \in 1 .. maxBTBuckets
  /\ \A s \in DOMAIN entry :
       entry[s] \in [key : Keys \cup {None}, value : Values \cup {None}, isOccupied : BOOLEAN]
  /\ nextBucketSize \in Nat
  /\ mtx \in Threads \cup {None}
  /\ sink \subseteq Values
  /\ at \in [Threads -> {"idle", "scan", "search", "write", "grow", "publish", "expose",
                         "compare", "store", "return", "filled"}]
  /\ calls \in 0 .. Calls
  /\ arg \in [Threads -> [key : Keys \cup {None}, value : Values \cup {None}]]
  /\ pos \in [Threads -> Nat] /\ n \in [Threads -> Nat]
  /\ due \in [Threads -> BOOLEAN]
  /\ ret \in [Threads -> Values \cup {None}]

\* A key has one slot in the main and the backup table together, however many
\* threads insert it at once: the second look, with the lock held, finds what
\* came in after the first.
KeyOnce ==
  \A s, r \in DOMAIN entry :
    entry[s].isOccupied /\ entry[r].isOccupied /\ entry[s].key = entry[r].key => s = r

\* Nobody reads outside an allocated bucket: the size a reader computes from
\* the number of a bucket is that with which the bucket was made, and the
\* count is raised after the bucket is there.
ReadsAllocated ==
  \A t \in Threads :
    at[t] \in {"scan", "compare", "store", "write"} /\ pos[t] <= Span(n[t])
      => Here(t) \in DOMAIN entry

\* A value that a caller was given, or can find, is for the key asked for and
\* in the sink, so that it lives until the table is torn down and is freed
\* then, also when another value has replaced it.
HandedOutIsKept ==
  /\ \A t \in Threads : ret[t] # None => ret[t] \in sink
  /\ \A t \in Threads : at[t] = "idle" /\ ret[t] # None => KeyOf[ret[t]] = arg[t].key
  /\ \A s \in DOMAIN entry : entry[s].isOccupied =>
       entry[s].value \in sink /\ KeyOf[entry[s].value] = entry[s].key

\* A query that begins when its key is there finds a value, wherever in the
\* chain or in which bucket the key is and however the backup table grows
\* meanwhile.
QueryFinds ==
  \A t \in Threads :
    at[t] = "idle" /\ due[t] /\ arg[t].key # None /\ arg[t].value = None => ret[t] # None

\* An occupied slot keeps its key and stays occupied: keys are read without
\* the lock.
KeysStay ==
  [][\A s \in DOMAIN entry :
       entry[s].isOccupied => entry'[s].isOccupied /\ entry'[s].key = entry[s].key]_vars

\* Every call returns; queries never wait for the lock.
CallsReturn == \A t \in Threads : at[t] # "idle" ~> at[t] = "idle"

----------------------------------------------------------------------------
(* What the table promises, without slots, buckets and lock.               *)

Map == [k \in Keys |->
          IF Places(k) = {} THEN None ELSE entry[Slot(k, CHOOSE p \in Places(k) : TRUE)].value]

AT == INSTANCE AbstractTable WITH
        map <- Map,
        full <- {k \in Keys : Stops(k) = {} /\ ~CanGrow},
        busy <- {t \in Threads : at[t] # "idle"}

\* The table is a map of keys to values with atomic updates, from which keys
\* never go, that refuses a key only when it is full and then always: the
\* implementation with a lock-free search and a table that grows under the
\* readers refines AbstractTable.
Refines == AT!Spec

\* "It is guaranteed table[i].value.load = value here. This is because we are
\* inside a lock and all the stores to table[i].value are serialized"
\* (kernel_dispatch_table.hh:266-268): an insert that finds its key in the chain
\* when it looks again with the lock held, and so replaces the value there,
\* returns its own value.
InsertReturnsItsValue ==
  \A t \in Threads :
    at[t] = "return" /\ mtx = t /\ pos[t] <= ChainSize => entry[Here(t)].value = arg[t].value
=============================================================================
