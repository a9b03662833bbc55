------------------------ MODULE KernelRegisterProofs ------------------------
(***************************************************************************)
(* Proofs about KernelRegister, for any threads, keys, routines, data      *)
(* types and number of kernels.                                            *)
(*                                                                         *)
(* A kernel is a raw pointer, and who is to delete it is nowhere written   *)
(* down: it follows from the sink, from the counts of the second tiers and *)
(* from the registrations under way.  The inductive invariant says it.  A  *)
(* kernel that was made is undeleted as long as the sink has it, or some   *)
(* thread counts it, or some thread is registering it (Owners); two        *)
(* threads never count the same one; a count is the number of the thread's *)
(* slots that hold the kernel, and zero once the sink has it (Counts);     *)
(* nobody but the thread that registers a kernel has a count of it         *)
(* (Registrations), and each slot receives it at most once, because each   *)
(* data type is visited once.                                              *)
(***************************************************************************)
EXTENDS KernelRegister, FiniteSetTheorems, TLAPS

----------------------------------------------------------------------------
(* The inductive invariant.                                                *)

\* The number of slots of a thread's storage that hold kernel k.
Count(f, k) == Cardinality({x \in Slots : f[x] = k})

Registering(t, k) == at[t] \in {"register", "empty", "empty only"} /\ cur[t] = k

Typed ==
  /\ made \in 0 .. MaxKernels
  /\ keyOf \in [Ids -> Keys \cup {None}]
  /\ valid \in [Ids -> BOOLEAN]
  /\ freed \in [Ids -> Nat]
  /\ first \in [Types -> [Keys -> Ids \cup {None}]]
  /\ value \in [Types -> [Keys -> Ids \cup {None}]]
  /\ refused \in [Types -> SUBSET Keys]
  /\ sink \subseteq Ids
  /\ slot \in [Threads -> [Slots -> Ids \cup {None}]]
  /\ tracked \in [Threads -> [Ids -> Nat]]
  /\ at \in [Threads -> {"idle", "generate", "register", "empty", "empty only", "again",
                         "run", "gone"}]
  /\ asked \in KeySets
  /\ call \in [Threads -> [key : Keys \cup {None}, dtype : Types \cup {None}]]
  /\ cur \in [Threads -> Ids \cup {None}]
  /\ todo \in [Threads -> 0 .. Len(DTypes)]
  /\ hndl \in [Threads -> Ids \cup {None}]
  /\ down \in BOOLEAN

\* What the place of a thread says about its call.
Calls ==
  \A t \in Threads :
    /\ at[t] \notin {"idle", "gone"} => call[t].key \in Keys /\ call[t].dtype \in Types
    /\ at[t] \in {"register", "empty", "empty only"} => cur[t] # None
    /\ at[t] # "register" => todo[t] = 0
    /\ at[t] # "run" => hndl[t] = None
    /\ down => at[t] = "gone"

\* What was not made yet is nowhere, and in the end the sink is empty.
Made ==
  /\ down => sink = {}
  /\ \A k \in Ids : k > made => k \notin sink /\ freed[k] = 0
  /\ \A t \in Threads : cur[t] # None => cur[t] <= made
  /\ \A t \in Threads, k \in Ids : k > made => tracked[t][k] = 0
  /\ \A t \in Threads, x \in Slots : slot[t][x] # None => slot[t][x] <= made

\* The tables hold kernels of their key, and the sink has what they hold.
Tables ==
  \A d \in Types, key \in Keys :
    /\ value[d][key] # None => keyOf[value[d][key]] = key
    /\ ~down /\ value[d][key] # None => value[d][key] \in sink
    /\ ~down /\ first[d][key] # None => first[d][key] \in sink

\* A kernel that is being registered is one thread's alone; that thread has it
\* in slots of the data types it has done only.
Registrations ==
  \A t \in Threads, k \in Ids : Registering(t, k) =>
    /\ keyOf[k] = call[t].key
    /\ \A s \in Threads : s # t => ~Registering(s, k) /\ tracked[s][k] = 0
    /\ at[t] # "register" => k \notin sink /\ tracked[t][k] = 0
    /\ todo[t] > 0 => k \in sink \/ tracked[t][k] > 0
    /\ \A i \in DOMAIN DTypes : i > todo[t] => slot[t][<<Kind(t), DTypes[i]>>] # k

\* A count is the number of slots, until a table has the kernel.
Counts ==
  \A t \in Threads, k \in Ids :
    tracked[t][k] = IF at[t] # "gone" /\ (k \in sink => at[t] = "register" /\ cur[t] = k)
                    THEN Count(slot[t], k) ELSE 0

Owned(k) == k \in sink \/ \E t \in Threads : tracked[t][k] > 0 \/ Registering(t, k)

\* Deleted once is what nobody owns, and what is owned is not deleted.
Owners ==
  /\ \A s, t \in Threads, k \in Ids : tracked[s][k] > 0 /\ tracked[t][k] > 0 => s = t
  /\ \A k \in Ids : k <= made => freed[k] = IF Owned(k) THEN 0 ELSE 1

\* A call runs a kernel of its key that is valid and has an owner.
Handles ==
  \A t \in Threads : hndl[t] # None =>
    /\ valid[hndl[t]] /\ keyOf[hndl[t]] = call[t].key
    /\ hndl[t] \in sink \/ tracked[t][hndl[t]] > 0

IInv ==
  /\ Typed /\ Calls /\ Made /\ Tables
  /\ Registrations /\ Counts /\ Owners /\ Handles

----------------------------------------------------------------------------
(* Data types, slots and the number of slots that hold a kernel.           *)

\* The data types are those of the generator's list, each at one place of it.
LEMMA DataTypes ==
  /\ Len(DTypes) \in Nat /\ Len(DTypes) > 0
  /\ DOMAIN DTypes = 1 .. Len(DTypes)
  /\ \A i \in 1 .. Len(DTypes) : DTypes[i] \in Types
  /\ \A i, j \in 1 .. Len(DTypes) : DTypes[i] = DTypes[j] => i = j
  /\ IsFiniteSet(Types)
<1>1. /\ Len(DTypes) \in Nat /\ Len(DTypes) > 0
      /\ DOMAIN DTypes = 1 .. Len(DTypes)
      /\ \A i, j \in 1 .. Len(DTypes) : DTypes[i] = DTypes[j] => i = j
  BY RegisterAssumption
<1>2. Types = {DTypes[i] : i \in 1 .. Len(DTypes)}
  BY <1>1 DEF Types
<1>3. \A i \in 1 .. Len(DTypes) : DTypes[i] \in Types
  BY <1>2
<1>4. IsFiniteSet(1 .. Len(DTypes))
  BY <1>1, FS_Interval
<1>5. IsFiniteSet(Types)
  <2>1. DTypes \in [1 .. Len(DTypes) -> Types]
    BY <1>1, <1>3, RegisterAssumption
  <2>2. DTypes \in Surjection(1 .. Len(DTypes), Types)
    BY <2>1, <1>2 DEF Surjection
  <2> QED BY <2>2, <1>4, FS_Surjection
<1> QED
  BY <1>1, <1>3, <1>5

\* A routine and a data type name a slot; there are finitely many.
LEMMA SlotSet ==
  /\ \A key \in Keys, d \in Types : <<KindOf[key], d>> \in Slots
  /\ IsFiniteSet(Slots)
<1>1. \A key \in Keys, d \in Types : <<KindOf[key], d>> \in Slots
  BY DEF Slots, Kinds
<1>2. Kinds \subseteq {"gemm", "pack_b", "gemm_quant"}
  BY RegisterAssumption DEF Kinds
<1>3. IsFiniteSet({"gemm", "pack_b", "gemm_quant"})
  <2>1. IsFiniteSet({}) BY FS_EmptySet
  <2>2. IsFiniteSet({} \cup {"gemm"}) BY <2>1, FS_AddElement
  <2>3. IsFiniteSet(({} \cup {"gemm"}) \cup {"pack_b"}) BY <2>2, FS_AddElement
  <2>4. IsFiniteSet((({} \cup {"gemm"}) \cup {"pack_b"}) \cup {"gemm_quant"})
    BY <2>3, FS_AddElement
  <2>5. (({} \cup {"gemm"}) \cup {"pack_b"}) \cup {"gemm_quant"}
        = {"gemm", "pack_b", "gemm_quant"}
    OBVIOUS
  <2> QED BY <2>4, <2>5
<1>4. IsFiniteSet(Kinds)
  BY <1>2, <1>3, FS_Subset
<1>5. IsFiniteSet(Slots)
  BY <1>4, DataTypes, FS_Product DEF Slots
<1> QED
  BY <1>1, <1>5

\* The count of a kernel is zero exactly when no slot holds it.
LEMMA CountZero ==
  ASSUME NEW f, NEW k
  PROVE  /\ Count(f, k) \in Nat
         /\ Count(f, k) = 0 <=> \A x \in Slots : f[x] # k
<1> DEFINE S == {x \in Slots : f[x] = k}
<1>1. IsFiniteSet(S)
  BY SlotSet, FS_Subset, S \subseteq Slots
<1>2. Cardinality(S) \in Nat /\ (Cardinality(S) = 0 <=> S = {})
  BY <1>1, FS_CardinalityType, FS_EmptySet
<1> QED
  BY <1>2 DEF Count

\* Writing kernel k into a slot adds one to the count of k, takes one off that
\* of the kernel that was there, and leaves the others alone.
LEMMA InsertCounts ==
  ASSUME NEW t \in Threads, NEW x \in Slots, NEW k, NEW j,
         slot[t][x] # k, slot'[t][x] = k, \A y \in Slots : y # x => slot'[t][y] = slot[t][y]
  PROVE  Count(slot'[t], j) =
           IF j = k THEN Count(slot[t], j) + 1
           ELSE IF j = slot[t][x] THEN Count(slot[t], j) - 1 ELSE Count(slot[t], j)
<1> DEFINE In(h, i) == {y \in Slots : h[y] = i}
<1>1. \A h, i : IsFiniteSet(In(h, i))
  <2> TAKE h, i
  <2> QED BY SlotSet, FS_Subset, In(h, i) \subseteq Slots
<1>2. Count(slot'[t], k) = Count(slot[t], k) + 1
  <2>1. In(slot'[t], k) = In(slot[t], k) \cup {x} /\ x \notin In(slot[t], k)
    OBVIOUS
  <2>2. Cardinality(In(slot[t], k) \cup {x}) = Cardinality(In(slot[t], k)) + 1
    <3> HIDE DEF In
    <3> QED BY <1>1, <2>1, FS_AddElement
  <2> QED BY <2>1, <2>2 DEF Count
<1>3. Count(slot'[t], slot[t][x]) = Count(slot[t], slot[t][x]) - 1
  <2>1. In(slot'[t], slot[t][x]) = In(slot[t], slot[t][x]) \ {x} /\ x \in In(slot[t], slot[t][x])
    OBVIOUS
  <2>2. Cardinality(In(slot[t], slot[t][x]) \ {x}) = Cardinality(In(slot[t], slot[t][x])) - 1
    <3> HIDE DEF In
    <3> QED BY <1>1, <2>1, FS_RemoveElement
  <2> QED BY <2>1, <2>2 DEF Count
<1>4. j # k /\ j # slot[t][x] => Count(slot'[t], j) = Count(slot[t], j)
  <2> HAVE j # k /\ j # slot[t][x]
  <2>1. In(slot'[t], j) = In(slot[t], j)
    OBVIOUS
  <2> QED BY <2>1 DEF Count
<1> QED
  BY <1>2, <1>3, <1>4

\* nullptr is no kernel.
LEMMA IdFacts ==
  /\ MaxKernels \in Nat /\ None \notin Int
  /\ None \notin Ids
  /\ Ids = 1 .. MaxKernels
BY RegisterAssumption DEF Ids

----------------------------------------------------------------------------
(* The invariant holds at the start, and every action keeps it.            *)

\* At the start there is no kernel.
LEMMA InitIInv == Init => IInv
<1> SUFFICES ASSUME Init PROVE IInv
  OBVIOUS
<1> USE IdFacts DEF Init
<1>1. Typed
  <2>1. valid \in [Ids -> BOOLEAN]
    OBVIOUS
  <2>2. /\ made \in 0 .. MaxKernels
        /\ keyOf \in [Ids -> Keys \cup {None}]
        /\ freed \in [Ids -> Nat]
        /\ todo \in [Threads -> 0 .. Len(DTypes)]
    BY DataTypes
  <2>3. call \in [Threads -> [key : Keys \cup {None}, dtype : Types \cup {None}]]
    BY DEF NoCall
  <2>4. /\ first \in [Types -> [Keys -> Ids \cup {None}]]
        /\ value \in [Types -> [Keys -> Ids \cup {None}]]
        /\ refused \in [Types -> SUBSET Keys]
        /\ slot \in [Threads -> [Slots -> Ids \cup {None}]]
        /\ tracked \in [Threads -> [Ids -> Nat]]
    OBVIOUS
  <2> QED BY <2>1, <2>2, <2>3, <2>4 DEF Typed
<1>2. Calls
  BY DEF Calls
<1>3. Made
  BY DEF Made
<1>4. Tables
  BY DEF Tables
<1>5. Registrations
  BY DEF Registrations, Registering
<1>6. Counts
  <2> SUFFICES ASSUME NEW t \in Threads, NEW k \in Ids
               PROVE  Count(slot[t], k) = 0 /\ tracked[t][k] = 0
    BY DEF Counts
  <2>1. \A x \in Slots : slot[t][x] # k
    OBVIOUS
  <2> QED BY <2>1, CountZero
<1>7. Owners
  BY DEF Owners
<1>8. Handles
  BY DEF Handles
<1> QED
  BY <1>1, <1>2, <1>3, <1>4, <1>5, <1>6, <1>7, <1>8 DEF IInv

\* What a lookup finds is a kernel of the key that has an owner.
LEMMA FindOwned ==
  ASSUME IInv, NEW t \in Threads, at[t] # "gone", at[t] # "register",
         NEW key \in Keys, NEW d \in Types, NEW same \in BOOLEAN,
         Find(t, key, d, same) # None
  PROVE  LET k == Find(t, key, d, same)
         IN  /\ k \in Ids /\ keyOf[k] = key
             /\ k \in sink \/ tracked[t][k] > 0
<1> DEFINE x == <<KindOf[key], d>>
<1>1. x \in Slots
  BY SlotSet
<1>2. ~down
  BY DEF IInv, Calls
<1>3. CASE value[d][key] # None
  BY <1>2, <1>3 DEF Find, IInv, Tables, Typed
<1>4. CASE value[d][key] = None
  <2>1. Find(t, key, d, same) = slot[t][x] /\ slot[t][x] # None /\ keyOf[slot[t][x]] = key
    BY <1>4 DEF Find, Match
  <2>2. slot[t][x] \in Ids
    <3> HIDE DEF x
    <3>1. slot[t] \in [Slots -> Ids \cup {None}]
      BY DEF IInv, Typed
    <3> QED BY <1>1, <2>1, <3>1
  <2>3. slot[t][x] \notin sink => tracked[t][slot[t][x]] > 0
    BY <1>1, <2>2, CountZero DEF IInv, Counts
  <2> QED BY <2>1, <2>2, <2>3
<1> QED
  BY <1>3, <1>4

\* The owners do not change where the kernels, the tiers and the registrations
\* do not.
LEMMA SameOwners ==
  ASSUME IInv, UNCHANGED <<objects, tier1, tier2, down>>,
         Typed', Calls', Handles',
         \A s \in Threads : cur'[s] # None => cur[s] = cur'[s],
         \A s \in Threads, k \in Ids : Registering(s, k)' <=> Registering(s, k),
         \A s \in Threads : at[s] = "register" <=> at'[s] = "register",
         \A s \in Threads : at[s] = "gone" <=> at'[s] = "gone",
         \A s \in Threads, k \in Ids : Registering(s, k) =>
           at[s] = at'[s] /\ todo'[s] = todo[s] /\ call'[s] = call[s]
  PROVE  IInv'
<1>1. Made'
  BY DEF IInv, Made, objects, tier1, tier2
<1>2. Tables'
  BY DEF IInv, Tables, objects, tier1
<1>3. Registrations'
  BY DEF IInv, Registrations, objects, tier1, tier2, Kind
<1>4. Counts'
  <2> SUFFICES ASSUME NEW s \in Threads, NEW k \in Ids
               PROVE  (tracked[s][k] = IF at[s] # "gone" /\ (k \in sink => at[s] = "register" /\ cur[s] = k)
                    THEN Count(slot[s], k) ELSE 0)'
    BY DEF Counts
  <2>1. (at[s] = "register" /\ cur[s] = k) <=> (at'[s] = "register" /\ cur'[s] = k)
    BY DEF Registering
  <2>2. slot'[s] = slot[s] /\ tracked' = tracked /\ sink' = sink
    BY DEF tier1, tier2
  <2> QED BY <2>1, <2>2 DEF IInv, Counts, Count
<1>5. Owners'
  <2>1. \A k \in Ids : Owned(k)' <=> Owned(k)
    BY DEF Owned, tier1, tier2
  <2> QED BY <2>1 DEF IInv, Owners, objects, tier1, tier2
<1> QED
  BY <1>1, <1>2, <1>3, <1>4, <1>5 DEF IInv

\* The first lookup of a call.
LEMMA LookupStep ==
  ASSUME IInv, NEW t \in Threads, Lookup(t)
  PROVE  IInv'
<1>0. PICK key \in asked, d \in Types, same \in BOOLEAN :
        /\ call' = [call EXCEPT ![t] = [key |-> key, dtype |-> d]]
        /\ \/ /\ Find(t, key, d, same) # None
              /\ Ready(t, Find(t, key, d, same))
           \/ /\ Find(t, key, d, same) = None
              /\ Goto(t, "generate") /\ UNCHANGED hndl
  BY DEF Lookup
<1>1. key \in Keys
  BY RegisterAssumption DEF IInv, Typed
<1>2. at[t] = "idle" /\ UNCHANGED <<objects, tier1, tier2, cur, todo, down>>
  BY DEF Lookup
<1>3. /\ at' \in {[at EXCEPT ![t] = "run"], [at EXCEPT ![t] = "generate"]}
      /\ at' # [at EXCEPT ![t] = "run"] => hndl' = hndl
  BY <1>0 DEF Ready, Goto
<1>4. hndl' \in {hndl, [hndl EXCEPT ![t] = Find(t, key, d, same)], [hndl EXCEPT ![t] = None]}
  BY <1>0 DEF Ready
<1>5. Find(t, key, d, same) # None =>
        /\ Find(t, key, d, same) \in Ids /\ keyOf[Find(t, key, d, same)] = key
        /\ Find(t, key, d, same) \in sink \/ tracked[t][Find(t, key, d, same)] > 0
  BY <1>1, <1>2, FindOwned
<1>6. hndl'[t] # None =>
        /\ hndl'[t] = Find(t, key, d, same) /\ hndl'[t] \in Ids
        /\ valid[hndl'[t]] /\ at'[t] = "run"
  BY <1>0, <1>2, <1>5 DEF Ready, Goto, IInv, Calls, Typed
<1>7. Typed'
  <2>1. UNCHANGED <<objects, tier1, tier2, cur, todo, down>>
    BY <1>2
  <2>2. call' \in [Threads -> [key : Keys \cup {None}, dtype : Types \cup {None}]]
    BY <1>0, <1>1 DEF IInv, Typed
  <2>3. hndl' \in [Threads -> Ids \cup {None}]
    BY <1>4, <1>5 DEF IInv, Typed
  <2>4. at' \in [Threads -> {"idle", "generate", "register", "empty", "empty only",
                             "again", "run", "gone"}]
    BY <1>3 DEF IInv, Typed
  <2> QED BY <2>1, <2>2, <2>3, <2>4 DEF IInv, Typed, objects, tier1, tier2
<1>8. Calls'
  BY <1>0, <1>1, <1>2, <1>3, <1>4, <1>6 DEF IInv, Calls, Typed
<1>9. Handles'
  <2> SUFFICES ASSUME NEW s \in Threads, hndl'[s] # None
               PROVE  /\ valid'[hndl'[s]] /\ keyOf'[hndl'[s]] = call'[s].key
                      /\ hndl'[s] \in sink' \/ tracked'[s][hndl'[s]] > 0
    BY DEF Handles
  <2>1. UNCHANGED <<valid, keyOf, sink, tracked>>
    BY <1>2 DEF objects, tier1, tier2
  <2>2. CASE s = t
    <3>1. call'[t].key = key
      BY <1>0 DEF IInv, Typed
    <3> QED BY <1>5, <1>6, <2>1, <2>2, <3>1
  <2>3. CASE s # t
    <3>1. hndl'[s] = hndl[s] /\ call'[s] = call[s]
      BY <1>0, <1>4, <2>3 DEF IInv, Typed
    <3> QED BY <2>1, <3>1 DEF IInv, Handles
  <2> QED BY <2>2, <2>3
<1> QED
  <2>1. /\ \A s \in Threads : s # t => at'[s] = at[s] /\ call'[s] = call[s]
        /\ at'[t] \in {"run", "generate"}
    BY <1>0, <1>3 DEF IInv, Typed
  <2>2. cur' = cur /\ todo' = todo /\ at[t] = "idle"
    BY <1>2
  <2> QED BY <1>2, <1>7, <1>8, <1>9, <2>1, <2>2, SameOwners DEF Registering

\* The lookup after a registration.
LEMMA LookAgainStep ==
  ASSUME IInv, NEW t \in Threads, LookAgain(t)
  PROVE  IInv'
<1> DEFINE key == call[t].key
           d == call[t].dtype
<1>0. PICK same \in BOOLEAN : Ready(t, Find(t, key, d, same))
  BY DEF LookAgain
<1>1. at[t] = "again" /\ UNCHANGED <<objects, tier1, tier2, call, cur, todo, down>>
  BY DEF LookAgain
<1>2. key \in Keys /\ d \in Types
  BY <1>1 DEF IInv, Calls
<1> DEFINE k == Find(t, key, d, same)
<1>3. k # None => k \in Ids /\ keyOf[k] = key /\ (k \in sink \/ tracked[t][k] > 0)
  BY <1>1, <1>2, FindOwned
<1> HIDE DEF k
<1>4. at' = [at EXCEPT ![t] = "run"] /\ hndl' \in {[hndl EXCEPT ![t] = k], [hndl EXCEPT ![t] = None]}
  BY <1>0 DEF Ready, Goto, k
<1>5. hndl'[t] # None => hndl'[t] = k /\ k \in Ids /\ valid[k]
  BY <1>0, <1>3 DEF Ready, IInv, Typed, k
<1>6. Typed'
  BY <1>1, <1>3, <1>4 DEF IInv, Typed, objects, tier1, tier2
<1>7. Calls'
  BY <1>1, <1>2, <1>4 DEF IInv, Calls, Typed
<1>8. Handles'
  <2> SUFFICES ASSUME NEW s \in Threads, hndl'[s] # None
               PROVE  /\ valid'[hndl'[s]] /\ keyOf'[hndl'[s]] = call'[s].key
                      /\ hndl'[s] \in sink' \/ tracked'[s][hndl'[s]] > 0
    BY DEF Handles
  <2>1. UNCHANGED <<valid, keyOf, sink, tracked, call>>
    BY <1>1 DEF objects, tier1, tier2
  <2>2. CASE s = t
    BY <1>3, <1>5, <2>1, <2>2
  <2>3. CASE s # t
    BY <1>4, <2>1, <2>3 DEF IInv, Typed, Handles
  <2> QED BY <2>2, <2>3
<1> QED
  BY <1>1, <1>4, <1>6, <1>7, <1>8, SameOwners DEF IInv, Typed, Registering

\* The end of a call.
LEMMA ExecuteStep ==
  ASSUME IInv, NEW t \in Threads, Execute(t)
  PROVE  IInv'
<1> USE DEF Execute, Goto
<1>1. Typed'
  BY DEF IInv, Typed, objects, tier1, tier2, NoCall
<1>2. Calls'
  BY DEF IInv, Calls, Typed
<1>3. Handles'
  BY DEF IInv, Handles, Typed, objects, tier1, tier2
<1> QED
  BY <1>1, <1>2, <1>3, SameOwners DEF IInv, Typed, Registering

\* A kernel that was turned away.
LEMMA UnfitStep ==
  ASSUME IInv, NEW t \in Threads, Unfit(t)
  PROVE  IInv'
<1> USE DEF Unfit, Goto
<1>1. Typed'
  BY DEF IInv, Typed, objects, tier1, tier2
<1>2. Calls'
  BY DEF IInv, Calls, Typed
<1>3. Handles'
  BY DEF IInv, Handles, objects, tier1, tier2
<1> QED
  BY <1>1, <1>2, <1>3, SameOwners DEF IInv, Typed, Registering

\* A kernel is made: nobody has it but the thread that is to register it.
LEMMA GenerateStep ==
  ASSUME IInv, NEW t \in Threads, Generate(t) \/ NoGenerator(t)
  PROVE  IInv'
<1>0. PICK n \in Ids :
        /\ n = made + 1 /\ made' = n /\ made \in Nat
        /\ \A k \in Ids : k \in Nat /\ (k <= n <=> k <= made \/ k = n)
  <2>1. made < MaxKernels /\ made' = made + 1
    BY DEF Generate, NoGenerator, New
  <2>2. made \in 0 .. MaxKernels
    BY DEF IInv, Typed
  <2>3. made + 1 \in Ids
    BY <2>1, <2>2, IdFacts
  <2> QED BY <2>1, <2>2, <2>3, IdFacts
<1>1. /\ at[t] = "generate"
      /\ keyOf' = [keyOf EXCEPT ![n] = call[t].key]
      /\ cur' = [cur EXCEPT ![t] = n]
      /\ UNCHANGED <<freed, first, value, refused, sink, slot, tracked, asked, call, todo,
                     hndl, down>>
  BY <1>0 DEF Generate, NoGenerator, New, tier1, tier2
<1>valid. valid' \in [Ids -> BOOLEAN] /\ \A k \in Ids : k # n => valid'[k] = valid[k]
  BY <1>0 DEF Generate, NoGenerator, New, IInv, Typed
<1>at. \/ at' = [at EXCEPT ![t] = "register"]
       \/ at' = [at EXCEPT ![t] = "empty"]
       \/ at' = [at EXCEPT ![t] = "empty only"]
  BY DEF Generate, NoGenerator, Goto
<1>2. /\ n \notin sink /\ freed[n] = 0
      /\ \A s \in Threads : tracked[s][n] = 0 /\ cur[s] # n
      /\ \A s \in Threads, x \in Slots : slot[s][x] # n
  <2>1. n \notin sink /\ freed[n] = 0 /\ \A s \in Threads : tracked[s][n] = 0
    BY <1>0 DEF IInv, Made
  <2>2. ~(n <= made)
    BY <1>0, IdFacts
  <2>3. \A s \in Threads : cur[s] # n
    BY <2>2, <1>0, IdFacts DEF IInv, Made
  <2>4. \A s \in Threads, x \in Slots : slot[s][x] # n
    BY <2>2, <1>0, IdFacts DEF IInv, Made
  <2> QED BY <2>1, <2>3, <2>4
<1>3. call[t].key \in Keys /\ call[t].dtype \in Types /\ todo[t] = 0 /\ hndl[t] = None /\ ~down
  BY <1>1 DEF IInv, Calls
<1>4. /\ cur'[t] = n /\ at'[t] \in {"register", "empty", "empty only"}
      /\ \A s \in Threads : s # t => cur'[s] = cur[s] /\ at'[s] = at[s]
      /\ keyOf'[n] = call[t].key
      /\ \A k \in Ids : k # n => keyOf'[k] = keyOf[k] /\ valid'[k] = valid[k]
  BY <1>0, <1>1, <1>valid, <1>at DEF IInv, Typed
<1>5. Typed'
  <2>1. made' \in 0 .. MaxKernels
    BY <1>0, IdFacts
  <2>2. keyOf' \in [Ids -> Keys \cup {None}]
    BY <1>1, <1>3 DEF IInv, Typed
  <2>3. cur' \in [Threads -> Ids \cup {None}]
    BY <1>1 DEF IInv, Typed
  <2>4. at' \in [Threads -> {"idle", "generate", "register", "empty", "empty only",
                             "again", "run", "gone"}]
    BY <1>at DEF IInv, Typed
  <2> QED BY <1>1, <1>valid, <2>1, <2>2, <2>3, <2>4 DEF IInv, Typed
<1>6. Calls'
  <2> SUFFICES ASSUME NEW s \in Threads
               PROVE  (/\ at[s] \notin {"idle", "gone"} => call[s].key \in Keys /\ call[s].dtype \in Types
                       /\ at[s] \in {"register", "empty", "empty only"} => cur[s] # None
                       /\ at[s] # "register" => todo[s] = 0
                       /\ at[s] # "run" => hndl[s] = None
                       /\ down => at[s] = "gone")'
    BY DEF Calls
  <2>1. CASE s = t
    <3>1. at'[t] \in {"register", "empty", "empty only"}
      BY <1>4
    <3>2. at'[t] # "run" /\ at'[t] # "gone"
      BY <3>1
    <3>3. cur'[t] # None
      BY <1>0, <1>4, IdFacts
    <3> QED BY <1>1, <1>3, <2>1, <3>2, <3>3
  <2>2. CASE s # t
    BY <1>1, <1>4, <2>2 DEF IInv, Calls
  <2> QED BY <2>1, <2>2
<1>7. Made'
  <2>1. \A k \in Ids : k > made' => k > made
    BY <1>0, IdFacts
  <2>2. \A k \in Ids : k <= made => k <= made'
    BY <1>0, IdFacts
  <2>3. \A s \in Threads : cur'[s] # None => cur'[s] <= made'
    <3> TAKE s \in Threads
    <3>1. CASE s = t
      BY <1>0, <1>4, <3>1, IdFacts
    <3>2. CASE s # t
      BY <1>4, <2>2, <3>2 DEF IInv, Made, Typed
    <3> QED BY <3>1, <3>2
  <2>4. ASSUME NEW s \in Threads, NEW x \in Slots, slot[s][x] # None
        PROVE  slot[s][x] <= made'
    <3>1. slot[s] \in [Slots -> Ids \cup {None}]
      BY DEF IInv, Typed
    <3> QED BY <2>2, <2>4, <3>1 DEF IInv, Made
  <2> QED BY <1>1, <2>1, <2>3, <2>4 DEF IInv, Made
<1>8. Tables'
  <2> SUFFICES ASSUME NEW d \in Types, NEW key \in Keys
               PROVE  (/\ value[d][key] # None => keyOf[value[d][key]] = key
                       /\ ~down /\ value[d][key] # None => value[d][key] \in sink
                       /\ ~down /\ first[d][key] # None => first[d][key] \in sink)'
    BY DEF Tables
  <2>1. value[d] \in [Keys -> Ids \cup {None}]
    BY DEF IInv, Typed
  <2> QED BY <1>1, <1>2, <1>3, <1>4, <2>1 DEF IInv, Tables
<1>9. Registrations'
  <2> SUFFICES ASSUME NEW s \in Threads, NEW k \in Ids, Registering(s, k)'
               PROVE  /\ keyOf'[k] = call'[s].key
                      /\ \A r \in Threads : r # s => ~Registering(r, k)' /\ tracked'[r][k] = 0
                      /\ at'[s] # "register" => k \notin sink' /\ tracked'[s][k] = 0
                      /\ todo'[s] > 0 => k \in sink' \/ tracked'[s][k] > 0
                      /\ \A i \in DOMAIN DTypes : i > todo'[s] =>
                           slot'[s][<<Kind(s)', DTypes[i]>>] # k
    BY DEF Registrations
  <2>1. CASE s = t
    <3>1. k = n
      BY <1>4, <2>1 DEF Registering
    <3>2. Kind(t)' = Kind(t) /\ \A i \in DOMAIN DTypes : <<Kind(t), DTypes[i]>> \in Slots
      BY <1>1, <1>3, SlotSet, DataTypes DEF Kind
    <3>3. keyOf'[n] = call'[t].key /\ n \notin sink' /\ tracked'[t][n] = 0
      BY <1>1, <1>2, <1>4
    <3>4. \A r \in Threads : r # t => ~Registering(r, n)' /\ tracked'[r][n] = 0
      BY <1>1, <1>2, <1>4 DEF Registering
    <3>5. todo'[t] = 0
      BY <1>1, <1>3
    <3>6. \A i \in DOMAIN DTypes : slot'[t][<<Kind(t)', DTypes[i]>>] # n
      BY <1>1, <1>2, <3>2
    <3> QED BY <2>1, <3>1, <3>3, <3>4, <3>5, <3>6
  <2>2. CASE s # t
    <3>1. Registering(s, k) /\ k # n
      BY <1>2, <1>4, <2>2 DEF Registering
    <3>2. Kind(s)' = Kind(s)
      BY <1>1 DEF Kind
    <3>3. \A r \in Threads : Registering(r, k)' => Registering(r, k)
      BY <1>2, <1>4, <3>1 DEF Registering
    <3>4. keyOf'[k] = keyOf[k] /\ at'[s] = at[s]
      BY <1>4, <2>2, <3>1
    <3> QED BY <1>1, <2>2, <3>1, <3>2, <3>3, <3>4 DEF IInv, Registrations
  <2> QED BY <2>1, <2>2
<1>10. Counts'
  <2> SUFFICES ASSUME NEW s \in Threads, NEW k \in Ids
               PROVE  tracked'[s][k] =
                        IF at'[s] # "gone" /\ (k \in sink' => at'[s] = "register" /\ cur'[s] = k)
                        THEN Count(slot[s], k) ELSE 0
    BY <1>1 DEF Counts, Count
  <2>1. /\ at'[s] # "gone" <=> at[s] # "gone"
        /\ k \in sink => (at'[s] = "register" /\ cur'[s] = k <=> at[s] = "register" /\ cur[s] = k)
    <3>1. CASE s = t
      <4>1. at'[t] # "gone" /\ at[t] # "gone" /\ at[t] # "register"
        BY <1>1, <1>4
      <4> QED BY <1>2, <1>4, <3>1, <4>1
    <3>2. CASE s # t
      BY <1>4, <3>2
    <3> QED BY <3>1, <3>2
  <2> QED BY <1>1, <2>1 DEF IInv, Counts
<1>11. Owners'
  <2>1. ASSUME NEW k \in Ids, k <= made'
        PROVE  freed'[k] = IF Owned(k)' THEN 0 ELSE 1
    <3>1. CASE k = n
      BY <1>1, <1>2, <1>4, <3>1 DEF Owned, Registering
    <3>2. CASE k # n
      <4>1. Owned(k)' <=> Owned(k)
        BY <1>1, <1>4, <3>2 DEF Owned, Registering
      <4> QED BY <1>0, <1>1, <2>1, <3>2, <4>1 DEF IInv, Owners
    <3> QED BY <3>1, <3>2
  <2> QED BY <1>1, <2>1 DEF IInv, Owners
<1>12. Handles'
  <2> SUFFICES ASSUME NEW s \in Threads, hndl[s] # None
               PROVE  /\ valid'[hndl[s]] /\ keyOf'[hndl[s]] = call[s].key
                      /\ hndl[s] \in sink \/ tracked[s][hndl[s]] > 0
    BY <1>1 DEF Handles
  <2>1. hndl[s] \in Ids
    BY DEF IInv, Typed
  <2>2. hndl[s] # n
    BY <1>2, <2>1 DEF IInv, Handles
  <2> QED BY <1>4, <2>1, <2>2 DEF IInv, Handles
<1> QED
  BY <1>5, <1>6, <1>7, <1>8, <1>9, <1>10, <1>11, <1>12 DEF IInv

\* The number of kernels made, and the next data type of a registration.
LEMMA Bounds ==
  ASSUME IInv
  PROVE  /\ made \in Nat /\ made <= MaxKernels
         /\ \A k \in Ids : k \in Nat /\ (k > made <=> ~(k <= made))
         /\ \A t \in Threads : todo[t] \in Nat /\ todo[t] <= Len(DTypes)
         /\ \A t \in Threads : todo[t] < Len(DTypes) => DTypes[todo[t] + 1] \in Types
<1>1. made \in 0 .. MaxKernels /\ todo \in [Threads -> 0 .. Len(DTypes)]
  BY DEF IInv, Typed
<1>2. made \in Nat /\ made <= MaxKernels
  BY <1>1, IdFacts
<1>3. \A k \in Ids : k \in Nat /\ (k > made <=> ~(k <= made))
  BY <1>2, IdFacts
<1>4. \A t \in Threads : todo[t] \in Nat /\ todo[t] <= Len(DTypes)
  BY <1>1, DataTypes
<1>5. \A t \in Threads : todo[t] < Len(DTypes) => DTypes[todo[t] + 1] \in Types
  BY <1>4, DataTypes
<1> QED
  BY <1>2, <1>3, <1>4, <1>5

\* A registration under way, in the terms the next lemmas need.
LEMMA Registered ==
  ASSUME IInv, NEW t \in Threads, at[t] \in {"register", "empty", "empty only"}
  PROVE  /\ cur[t] \in Ids /\ cur[t] <= made /\ Registering(t, cur[t])
         /\ call[t].key \in Keys /\ call[t].dtype \in Types
         /\ keyOf[cur[t]] = call[t].key
         /\ \A s \in Threads : s # t => ~Registering(s, cur[t]) /\ tracked[s][cur[t]] = 0
         /\ \A s \in Threads, k \in Ids : s # t /\ Registering(s, k) => k # cur[t]
         /\ freed[cur[t]] = 0 /\ ~down /\ hndl[t] = None
<1>1. /\ cur[t] \in Ids /\ call[t].key \in Keys /\ call[t].dtype \in Types
      /\ ~down /\ hndl[t] = None
  BY DEF IInv, Typed, Calls
<1>2. cur[t] <= made
  BY <1>1, IdFacts DEF IInv, Made
<1>3. Registering(t, cur[t])
  BY DEF Registering
<1>4. /\ keyOf[cur[t]] = call[t].key
      /\ \A s \in Threads : s # t => ~Registering(s, cur[t]) /\ tracked[s][cur[t]] = 0
  BY <1>1, <1>3 DEF IInv, Registrations
<1>5. freed[cur[t]] = 0
  BY <1>1, <1>2, <1>3 DEF IInv, Owners, Owned
<1> QED
  BY <1>1, <1>2, <1>3, <1>4, <1>5

\* A table takes the kernel: what the tables and the sink are afterwards.
LEMMA AcceptedTables ==
  ASSUME IInv, NEW t \in Threads, at[t] \in {"register", "empty", "empty only"},
         NEW d \in Types, Accepted(d, cur[t]), UNCHANGED <<keyOf, down>>
  PROVE  /\ value' \in [Types -> [Keys -> Ids \cup {None}]]
         /\ first' \in [Types -> [Keys -> Ids \cup {None}]]
         /\ refused' \in [Types -> SUBSET Keys]
         /\ sink' = sink \cup {cur[t]}
         /\ Tables'
<1> DEFINE k == cur[t]
           key == call[t].key
<1>1. k \in Ids /\ key \in Keys /\ keyOf[k] = key /\ ~down
  BY Registered
<1>2. /\ value' = [value EXCEPT ![d][key] = k]
      /\ first' = [first EXCEPT ![d][key] = IF first[d][key] = None THEN k ELSE first[d][key]]
      /\ sink' = sink \cup {k} /\ refused' = refused
  BY <1>1 DEF Accepted
<1> HIDE DEF k, key
<1>3. /\ value[d] \in [Keys -> Ids \cup {None}] /\ first[d] \in [Keys -> Ids \cup {None}]
      /\ value \in [Types -> [Keys -> Ids \cup {None}]]
      /\ first \in [Types -> [Keys -> Ids \cup {None}]]
  BY DEF IInv, Typed
<1>4. PICK j \in Ids \cup {None} :
        first' = [first EXCEPT ![d] = [first[d] EXCEPT ![key] = j]] /\ j \in {first[d][key], k}
  BY <1>1, <1>2, <1>3
<1>5. value' = [value EXCEPT ![d] = [value[d] EXCEPT ![key] = k]]
  BY <1>2
<1>6. /\ value' \in [Types -> [Keys -> Ids \cup {None}]]
      /\ first' \in [Types -> [Keys -> Ids \cup {None}]]
  BY <1>1, <1>3, <1>4, <1>5
<1>7. \A e \in Types, i \in Keys :
        /\ value'[e][i] = value[e][i] \/ (i = key /\ value'[e][i] = k)
        /\ first'[e][i] = first[e][i] \/ first'[e][i] = k
  BY <1>1, <1>3, <1>4, <1>5
<1>8. Tables'
  <2> SUFFICES ASSUME NEW e \in Types, NEW i \in Keys
               PROVE  /\ value'[e][i] # None => keyOf[value'[e][i]] = i
                      /\ value'[e][i] # None => value'[e][i] \in sink'
                      /\ first'[e][i] # None => first'[e][i] \in sink'
    BY DEF Tables
  <2>1. /\ value[e][i] # None => keyOf[value[e][i]] = i
        /\ value[e][i] # None => value[e][i] \in sink
        /\ first[e][i] # None => first[e][i] \in sink
    BY <1>1 DEF IInv, Tables
  <2>2. sink' = sink \cup {k} /\ keyOf[k] = key
    BY <1>1, <1>2
  <2>3. /\ value'[e][i] = value[e][i] \/ (i = key /\ value'[e][i] = k)
        /\ first'[e][i] = first[e][i] \/ first'[e][i] = k
    BY <1>7
  <2>4. value'[e][i] # None => keyOf[value'[e][i]] = i
    BY <2>1, <2>2, <2>3
  <2>5. value'[e][i] # None => value'[e][i] \in sink'
    BY <2>1, <2>2, <2>3
  <2>6. first'[e][i] # None => first'[e][i] \in sink'
    BY <2>1, <2>2, <2>3
  <2> QED BY <2>4, <2>5, <2>6
<1> QED
  BY <1>2, <1>6, <1>8 DEF IInv, Typed, k

\* A table takes the kernel that a thread registers.
LEMMA AcceptStep ==
  ASSUME IInv, NEW t \in Threads, RegisterDType(t),
         Accepted(DTypes[todo[t] + 1], cur[t]), UNCHANGED <<freed, slot, tracked>>
  PROVE  IInv'
<1>0. /\ at[t] = "register" /\ todo[t] < Len(DTypes)
      /\ todo' = [todo EXCEPT ![t] = todo[t] + 1]
      /\ UNCHANGED <<made, keyOf, valid, asked, at, call, cur, hndl, down>>
  BY DEF RegisterDType
<1> DEFINE k == cur[t]
<1>1. /\ k \in Ids /\ k <= made /\ Registering(t, k)
      /\ \A s \in Threads : s # t => ~Registering(s, k) /\ tracked[s][k] = 0
  BY <1>0, Registered
<1>2. /\ value' \in [Types -> [Keys -> Ids \cup {None}]]
      /\ first' \in [Types -> [Keys -> Ids \cup {None}]]
      /\ refused' \in [Types -> SUBSET Keys]
      /\ sink' = sink \cup {k}
      /\ Tables'
  <2>1. DTypes[todo[t] + 1] \in Types
    BY <1>0, Bounds
  <2> QED BY <1>0, <2>1, AcceptedTables
<1>3. /\ todo[t] \in Nat /\ todo'[t] = todo[t] + 1
      /\ \A s \in Threads : s # t => todo'[s] = todo[s]
      /\ todo' \in [Threads -> 0 .. Len(DTypes)]
  <2>1. todo \in [Threads -> 0 .. Len(DTypes)] /\ Len(DTypes) \in Nat
    BY DataTypes DEF IInv, Typed
  <2>2. todo[t] + 1 \in 0 .. Len(DTypes)
    BY <1>0, <2>1
  <2> QED BY <1>0, <2>1, <2>2
<1>4. \A s \in Threads, j \in Ids : Registering(s, j)' <=> Registering(s, j)
  BY <1>0 DEF Registering
<1> HIDE DEF k
<1>5. Typed'
  BY <1>0, <1>1, <1>2, <1>3 DEF IInv, Typed
<1>6. Calls'
  BY <1>0, <1>3 DEF IInv, Calls
<1>7. Made'
  <2>1. \A j \in Ids : j > made => j # k
    BY <1>1, Bounds
  <2>2. ~down'
    BY <1>0, Registered
  <2> QED BY <1>0, <1>2, <2>1, <2>2 DEF IInv, Made
<1>8. Registrations'
  <2> SUFFICES ASSUME NEW s \in Threads, NEW j \in Ids, Registering(s, j)
               PROVE  /\ at[s] # "register" => j \notin sink' /\ tracked[s][j] = 0
                      /\ todo'[s] > 0 => j \in sink' \/ tracked[s][j] > 0
                      /\ \A i \in DOMAIN DTypes : i > todo'[s] =>
                           slot[s][<<Kind(s), DTypes[i]>>] # j
    BY <1>0, <1>4 DEF Registrations, IInv, Kind
  <2>1. CASE s = t
    <3>1. j = k
      BY <2>1 DEF Registering, k
    <3>2. \A i \in DOMAIN DTypes : i > todo'[t] => i > todo[t]
      BY <1>3, DataTypes
    <3> QED BY <1>0, <1>2, <2>1, <3>1, <3>2 DEF IInv, Registrations
  <2>2. CASE s # t
    BY <1>1, <1>2, <1>3, <2>2 DEF IInv, Registrations
  <2> QED BY <2>1, <2>2
<1>9. Counts'
  <2> SUFFICES ASSUME NEW s \in Threads, NEW j \in Ids
               PROVE  tracked[s][j] =
                        IF at[s] # "gone" /\ (j \in sink' => at[s] = "register" /\ cur[s] = j)
                        THEN Count(slot[s], j) ELSE 0
    BY <1>0 DEF Counts, Count
  <2>1. CASE j # k
    BY <1>2, <2>1 DEF IInv, Counts
  <2>2. CASE j = k /\ s = t
    BY <1>0, <1>2, <2>2 DEF IInv, Counts, k
  <2>3. CASE j = k /\ s # t
    BY <1>1, <1>2, <2>3 DEF Registering
  <2> QED BY <2>1, <2>2, <2>3
<1>10. Owners'
  <2>1. \A j \in Ids : Owned(j)' <=> Owned(j)
    BY <1>0, <1>1, <1>2, <1>4 DEF Owned
  <2> QED BY <1>0, <2>1 DEF IInv, Owners
<1>11. Handles'
  BY <1>0, <1>2 DEF IInv, Handles
<1> QED
  BY <1>2, <1>5, <1>6, <1>7, <1>8, <1>9, <1>10, <1>11 DEF IInv

\* No table takes the kernel: the thread's slot does, and the kernel that was in
\* it loses one of its references, its last one or not.
LEMMA RefuseStep ==
  ASSUME IInv, NEW t \in Threads, RegisterDType(t),
         Refused(DTypes[todo[t] + 1], cur[t]),
         InsertAndGet(t, <<Kind(t), DTypes[todo[t] + 1]>>, cur[t])
  PROVE  IInv'
<1>0. /\ at[t] = "register" /\ todo[t] < Len(DTypes)
      /\ todo' = [todo EXCEPT ![t] = todo[t] + 1]
      /\ UNCHANGED <<made, keyOf, valid, asked, at, call, cur, hndl, down>>
  BY DEF RegisterDType
<1> DEFINE k == cur[t]
           d == DTypes[todo[t] + 1]
           x == <<Kind(t), d>>
           old == slot[t][x]
           Lost(j) == j = old /\ tracked[t][j] > 0
<1>1. /\ k \in Ids /\ k <= made /\ Registering(t, k) /\ keyOf[k] = call[t].key
      /\ call[t].key \in Keys /\ hndl[t] = None
      /\ \A s \in Threads : s # t => ~Registering(s, k) /\ tracked[s][k] = 0
      /\ \A s \in Threads, j \in Ids : s # t /\ Registering(s, j) => j # k
  BY <1>0, Registered
<1>2. d \in Types /\ x \in Slots
  BY <1>0, <1>1, Bounds, SlotSet DEF Kind
<1>3. /\ todo[t] \in Nat /\ todo'[t] = todo[t] + 1
      /\ \A s \in Threads : s # t => todo'[s] = todo[s]
      /\ todo' \in [Threads -> 0 .. Len(DTypes)]
  <2>1. todo \in [Threads -> 0 .. Len(DTypes)] /\ Len(DTypes) \in Nat
    BY DataTypes DEF IInv, Typed
  <2>2. todo[t] + 1 \in 0 .. Len(DTypes)
    BY <1>0, <2>1
  <2> QED BY <1>0, <2>1, <2>2
<1>4. old # k
  <2>1. todo[t] + 1 \in DOMAIN DTypes /\ todo[t] + 1 > todo[t]
    BY <1>0, <1>3, DataTypes
  <2> QED BY <1>1, <2>1 DEF IInv, Registrations
<1>5. /\ refused' \in [Types -> SUBSET Keys]
      /\ UNCHANGED <<first, value, sink>>
  BY <1>1, <1>2 DEF Refused, IInv, Typed
<1>6. \A s \in Threads, j \in Ids : Registering(s, j)' <=> Registering(s, j)
  BY <1>0 DEF Registering
<1>7. /\ slot' = [slot EXCEPT ![t] = [slot[t] EXCEPT ![x] = k]]
      /\ tracked' = [tracked EXCEPT ![t] = [j \in Ids |->
           IF j = k THEN tracked[t][j] + 1 ELSE IF Lost(j) THEN tracked[t][j] - 1 ELSE tracked[t][j]]]
      /\ freed' = [j \in Ids |->
           IF Lost(j) /\ tracked[t][j] = 1 THEN freed[j] + 1 ELSE freed[j]]
  BY <1>4 DEF InsertAndGet
<1> HIDE DEF k, d, x, old
<1>8. /\ slot[t] \in [Slots -> Ids \cup {None}] /\ tracked[t] \in [Ids -> Nat]
      /\ slot \in [Threads -> [Slots -> Ids \cup {None}]] /\ freed \in [Ids -> Nat]
      /\ tracked \in [Threads -> [Ids -> Nat]] /\ old \in Ids \cup {None}
  <2>1. /\ slot[t] \in [Slots -> Ids \cup {None}] /\ tracked[t] \in [Ids -> Nat]
        /\ slot \in [Threads -> [Slots -> Ids \cup {None}]] /\ freed \in [Ids -> Nat]
        /\ tracked \in [Threads -> [Ids -> Nat]]
    BY DEF IInv, Typed
  <2> QED BY <1>2, <2>1 DEF old
<1>9. /\ slot'[t] = [slot[t] EXCEPT ![x] = k]
      /\ \A s \in Threads : s # t => slot'[s] = slot[s] /\ tracked'[s] = tracked[s]
      /\ tracked'[t][k] = tracked[t][k] + 1 /\ tracked'[t][k] > 0 /\ freed'[k] = freed[k]
      /\ \A j \in Ids : j # k /\ ~Lost(j) => tracked'[t][j] = tracked[t][j] /\ freed'[j] = freed[j]
  BY <1>1, <1>4, <1>7, <1>8
<1>10. \A j \in Ids : Lost(j) =>
         /\ j # k /\ tracked[t][j] \in Nat /\ tracked[t][j] > 0
         /\ tracked'[t][j] = tracked[t][j] - 1
         /\ freed'[j] = IF tracked[t][j] = 1 THEN freed[j] + 1 ELSE freed[j]
  BY <1>1, <1>4, <1>7, <1>8
<1>11. Typed'
  <2>1. slot' \in [Threads -> [Slots -> Ids \cup {None}]]
    BY <1>1, <1>2, <1>7, <1>8
  <2>2. freed' \in [Ids -> Nat]
    BY <1>7, <1>8
  <2>3. tracked' \in [Threads -> [Ids -> Nat]]
    <3>1. \A j \in Ids : (IF j = k THEN tracked[t][j] + 1
              ELSE IF Lost(j) THEN tracked[t][j] - 1 ELSE tracked[t][j]) \in Nat
      BY <1>8
    <3> QED BY <1>7, <1>8, <3>1
  <2> QED BY <1>0, <1>3, <1>5, <2>1, <2>2, <2>3 DEF IInv, Typed
<1>12. Calls'
  BY <1>0, <1>3 DEF IInv, Calls
<1>13. Made'
  <2>1. \A j \in Ids : j > made => j # k /\ ~Lost(j)
    BY <1>1, Bounds DEF IInv, Made
  <2>2. \A s \in Threads, j \in Ids : j > made => tracked'[s][j] = 0
    BY <1>9, <2>1 DEF IInv, Made
  <2>3. ASSUME NEW s \in Threads, NEW y \in Slots, slot'[s][y] # None
        PROVE  slot'[s][y] <= made
    <3>1. slot'[s][y] = slot[s][y] \/ slot'[s][y] = k
      BY <1>2, <1>8, <1>9
    <3> QED BY <1>1, <2>3, <3>1 DEF IInv, Made
  <2>4. \A j \in Ids : j > made => freed'[j] = 0
    BY <1>9, <2>1 DEF IInv, Made
  <2> QED BY <1>0, <1>5, <2>2, <2>3, <2>4 DEF IInv, Made
<1>14. Tables'
  BY <1>0, <1>5 DEF IInv, Tables
<1>15. Registrations'
  <2> SUFFICES ASSUME NEW s \in Threads, NEW j \in Ids, Registering(s, j)
               PROVE  /\ \A r \in Threads : r # s => tracked'[r][j] = 0
                      /\ at[s] # "register" => tracked'[s][j] = 0
                      /\ todo'[s] > 0 => j \in sink \/ tracked'[s][j] > 0
                      /\ \A i \in DOMAIN DTypes : i > todo'[s] =>
                           slot'[s][<<Kind(s), DTypes[i]>>] # j
    BY <1>0, <1>5, <1>6 DEF Registrations, IInv, Kind
  <2>1. CASE s = t
    <3>1. j = k
      BY <2>1 DEF Registering, k
    <3>2. \A r \in Threads : r # t => tracked'[r][k] = 0
      BY <1>1, <1>9
    <3>3. ASSUME NEW i \in DOMAIN DTypes, i > todo'[t]
          PROVE  slot'[t][<<Kind(t), DTypes[i]>>] # k
      <4>1. i > todo[t] /\ i # todo[t] + 1 /\ todo[t] + 1 \in DOMAIN DTypes
        BY <1>0, <1>3, <3>3, DataTypes
      <4>2. DTypes[i] # d
        BY <4>1, RegisterAssumption DEF d
      <4>3. <<Kind(t), DTypes[i]>> # x
        BY <4>2 DEF x
      <4>4. <<Kind(t), DTypes[i]>> \in Slots
        BY <1>1, SlotSet, DataTypes DEF Kind
      <4>5. slot[t][<<Kind(t), DTypes[i]>>] # k
        BY <1>1, <4>1 DEF IInv, Registrations
      <4> QED BY <1>8, <1>9, <4>3, <4>4, <4>5
    <3> QED BY <1>0, <1>9, <2>1, <3>1, <3>2, <3>3
  <2>2. CASE s # t
    <3>1. j # k
      BY <1>1, <2>2
    <3>2. /\ \A r \in Threads : r # s => tracked[r][j] = 0
          /\ at[s] # "register" => tracked[s][j] = 0
          /\ todo[s] > 0 => j \in sink \/ tracked[s][j] > 0
          /\ \A i \in DOMAIN DTypes : i > todo[s] => slot[s][<<Kind(s), DTypes[i]>>] # j
      BY DEF IInv, Registrations
    <3>3. ~Lost(j)
      BY <2>2, <3>2
    <3>4. \A r \in Threads : tracked'[r][j] = tracked[r][j]
      BY <1>9, <3>1, <3>3
    <3> QED BY <1>3, <1>9, <2>2, <3>2, <3>4
  <2> QED BY <2>1, <2>2
<1>16. Counts'
  <2> SUFFICES ASSUME NEW s \in Threads, NEW j \in Ids
               PROVE  tracked'[s][j] =
                        IF at[s] # "gone" /\ (j \in sink => at[s] = "register" /\ cur[s] = j)
                        THEN Count(slot'[s], j) ELSE 0
    BY <1>0, <1>5 DEF Counts, Count
  <2>0. tracked[s][j] =
          IF at[s] # "gone" /\ (j \in sink => at[s] = "register" /\ cur[s] = j)
          THEN Count(slot[s], j) ELSE 0
    BY DEF IInv, Counts
  <2>1. CASE s # t
    BY <1>9, <2>0, <2>1
  <2>2. CASE s = t
    <3>0. Count(slot'[t], j) =
            IF j = k THEN Count(slot[t], j) + 1
            ELSE IF j = old THEN Count(slot[t], j) - 1 ELSE Count(slot[t], j)
      <4>1. /\ slot[t][x] # k /\ slot[t][x] = old
            /\ slot'[t][x] = k
            /\ \A y \in Slots : y # x => slot'[t][y] = slot[t][y]
        BY <1>2, <1>4, <1>8, <1>9 DEF old
      <4> QED BY <1>2, <4>1, InsertCounts
    <3>1. CASE j = k
      BY <1>0, <1>9, <2>0, <2>2, <3>0, <3>1 DEF k
    <3>2. CASE j # k /\ j = old
      <4>1. CASE j \in sink
        BY <1>9, <2>0, <2>2, <3>2, <4>1 DEF k
      <4>2. CASE j \notin sink
        <5>1. tracked[t][j] = Count(slot[t], j)
          BY <1>0, <2>0, <2>2, <4>2
        <5>2. tracked[t][j] > 0
          BY <1>2, <5>1, <3>2, CountZero DEF old
        <5>3. tracked'[t][j] = tracked[t][j] - 1
          BY <1>10, <3>2, <5>2
        <5> QED BY <1>0, <2>2, <3>0, <3>2, <4>2, <5>1, <5>3
      <4> QED BY <4>1, <4>2
    <3>3. CASE j # k /\ j # old
      BY <1>9, <2>0, <2>2, <3>0, <3>3
    <3> QED BY <3>1, <3>2, <3>3
  <2> QED BY <2>1, <2>2
<1>17. Owners'
  <2>0. \A r, s \in Threads, j \in Ids : tracked[r][j] > 0 /\ tracked[s][j] > 0 => r = s
    BY DEF IInv, Owners
  <2>1. ASSUME NEW r \in Threads, NEW s \in Threads, NEW j \in Ids, r # s,
               tracked'[r][j] > 0, tracked'[s][j] > 0
        PROVE  FALSE
    <3>1. CASE j = k
      BY <1>1, <1>9, <2>1, <3>1
    <3>2. CASE j # k
      <4>1. tracked'[t][j] > 0 => tracked[t][j] > 0
        BY <1>8, <1>9, <1>10, <3>2
      <4> QED BY <1>9, <2>0, <2>1, <4>1
    <3> QED BY <3>1, <3>2
  <2>2. ASSUME NEW j \in Ids, j <= made
        PROVE  freed'[j] = IF Owned(j)' THEN 0 ELSE 1
    <3>0. freed[j] = IF Owned(j) THEN 0 ELSE 1
      BY <2>2 DEF IInv, Owners
    <3>1. CASE j = k
      BY <1>1, <1>6, <1>9, <3>0, <3>1 DEF Owned
    <3>2. CASE j # k /\ ~Lost(j)
      <4>1. \A r \in Threads : tracked'[r][j] = tracked[r][j]
        BY <1>9, <3>2
      <4>2. Owned(j)' <=> Owned(j)
        BY <1>5, <1>6, <4>1 DEF Owned
      <4> QED BY <1>9, <3>0, <3>2, <4>2
    <3>3. CASE Lost(j)
      <4>1. freed[j] = 0
        BY <3>0, <3>3 DEF Owned
      <4>2. CASE tracked[t][j] = 1
        <5>1. freed'[j] = 1 /\ tracked'[t][j] = 0
          BY <1>10, <3>3, <4>1, <4>2
        <5>2. j \notin sink
          BY <1>10, <3>3 DEF IInv, Counts, k
        <5>3. \A r \in Threads : ~(tracked'[r][j] > 0)
          BY <1>9, <2>0, <3>3, <5>1
        <5>4. \A r \in Threads : ~Registering(r, j)
          <6> TAKE r \in Threads
          <6>1. CASE r = t
            BY <1>10, <3>3, <6>1 DEF Registering, k
          <6>2. CASE r # t
            BY <1>10, <3>3, <6>2 DEF IInv, Registrations
          <6> QED BY <6>1, <6>2
        <5> QED BY <1>5, <1>6, <5>1, <5>2, <5>3, <5>4 DEF Owned
      <4>3. CASE tracked[t][j] # 1
        <5>1. freed'[j] = 0 /\ tracked'[t][j] > 0
          BY <1>10, <3>3, <4>1, <4>3
        <5> QED BY <5>1 DEF Owned
      <4> QED BY <4>2, <4>3
    <3> QED BY <1>10, <3>1, <3>2, <3>3
  <2> QED BY <1>0, <2>1, <2>2 DEF Owners
<1>18. Handles'
  BY <1>0, <1>1, <1>5, <1>9 DEF IInv, Handles
<1> QED
  BY <1>11, <1>12, <1>13, <1>14, <1>15, <1>16, <1>17, <1>18 DEF IInv

\* The end of a registration: the sink has the kernel, or the thread counts it.
LEMMA EndRegisterStep ==
  ASSUME IInv, NEW t \in Threads, EndRegister(t)
  PROVE  IInv'
<1> DEFINE k == cur[t]
<1>0. /\ at[t] = "register" /\ todo[t] = Len(DTypes)
      /\ tracked' = IF k \in sink THEN [tracked EXCEPT ![t][k] = 0] ELSE tracked
      /\ todo' = [todo EXCEPT ![t] = 0] /\ at' = [at EXCEPT ![t] = "again"]
      /\ UNCHANGED <<made, keyOf, valid, freed, first, value, refused, sink, slot, asked,
                     call, cur, hndl, down>>
  BY DEF EndRegister, Goto, objects, tier1
<1>1. /\ k \in Ids /\ k <= made /\ Registering(t, k)
      /\ call[t].key \in Keys /\ call[t].dtype \in Types /\ hndl[t] = None /\ ~down
      /\ \A s \in Threads : s # t => ~Registering(s, k) /\ tracked[s][k] = 0
  BY <1>0, Registered
<1>2. k \in sink \/ tracked[t][k] > 0
  BY <1>0, <1>1, DataTypes DEF IInv, Registrations
<1> HIDE DEF k
<1>3. /\ at'[t] = "again" /\ todo'[t] = 0
      /\ \A s \in Threads : s # t => at'[s] = at[s] /\ todo'[s] = todo[s]
      /\ todo' \in [Threads -> 0 .. Len(DTypes)]
  <2>1. /\ todo \in [Threads -> 0 .. Len(DTypes)]
        /\ at \in [Threads -> {"idle", "generate", "register", "empty", "empty only", "again",
                                "run", "gone"}]
    BY DEF IInv, Typed
  <2>2. 0 \in 0 .. Len(DTypes)
    BY DataTypes
  <2> QED BY <1>0, <2>1, <2>2
<1>4. /\ tracked' \in [Threads -> [Ids -> Nat]]
      /\ \A s \in Threads, j \in Ids : s # t \/ j # k => tracked'[s][j] = tracked[s][j]
      /\ k \in sink => tracked'[t][k] = 0
      /\ k \notin sink => tracked' = tracked
  BY <1>0, <1>1 DEF IInv, Typed
<1>5. \A s \in Threads, j \in Ids : Registering(s, j)' <=> s # t /\ Registering(s, j)
  BY <1>0, <1>3 DEF Registering
<1>6. Typed'
  BY <1>0, <1>3, <1>4 DEF IInv, Typed
<1>7. Calls'
  BY <1>0, <1>1, <1>3 DEF IInv, Calls
<1>8. Made'
  BY <1>0, <1>1, <1>4, Bounds DEF IInv, Made
<1>9. Tables'
  BY <1>0 DEF IInv, Tables
<1>10. Registrations'
  <2> SUFFICES ASSUME NEW s \in Threads, NEW j \in Ids, s # t, Registering(s, j)
               PROVE  /\ keyOf[j] = call[s].key
                      /\ \A r \in Threads : r # s => ~Registering(r, j)' /\ tracked'[r][j] = 0
                      /\ at[s] # "register" => j \notin sink /\ tracked'[s][j] = 0
                      /\ todo[s] > 0 => j \in sink \/ tracked'[s][j] > 0
                      /\ \A i \in DOMAIN DTypes : i > todo[s] =>
                           slot[s][<<Kind(s), DTypes[i]>>] # j
    BY <1>0, <1>3, <1>5 DEF Registrations, Kind
  <2>1. j # k
    BY <1>1
  <2> QED BY <1>4, <1>5, <2>1 DEF IInv, Registrations
<1>11. Counts'
  <2> SUFFICES ASSUME NEW s \in Threads, NEW j \in Ids
               PROVE  tracked'[s][j] =
                        IF at'[s] # "gone" /\ (j \in sink => at'[s] = "register" /\ cur[s] = j)
                        THEN Count(slot[s], j) ELSE 0
    <3>1. slot' = slot /\ sink' = sink /\ cur' = cur
      BY <1>0
    <3> QED BY <3>1 DEF Counts, Count
  <2>0. tracked[s][j] =
          IF at[s] # "gone" /\ (j \in sink => at[s] = "register" /\ cur[s] = j)
          THEN Count(slot[s], j) ELSE 0
    BY DEF IInv, Counts
  <2>1. CASE s # t
    BY <1>3, <1>4, <2>0, <2>1
  <2>2. CASE s = t /\ j = k
    BY <1>0, <1>3, <1>4, <2>0, <2>2
  <2>3. CASE s = t /\ j # k
    BY <1>0, <1>3, <1>4, <2>0, <2>3 DEF k
  <2> QED BY <2>1, <2>2, <2>3
<1>12. Owners'
  <2>1. ASSUME NEW j \in Ids PROVE Owned(j)' <=> Owned(j)
    <3>1. CASE j = k
      BY <1>0, <1>1, <1>2, <1>4, <3>1 DEF Owned
    <3>2. CASE j # k
      <4>1. ~Registering(t, j)
        BY <3>2 DEF Registering, k
      <4> QED BY <1>0, <1>4, <1>5, <3>2, <4>1 DEF Owned
    <3> QED BY <3>1, <3>2
  <2>2. \A s \in Threads, j \in Ids : tracked'[s][j] > 0 => tracked[s][j] > 0
    BY <1>4
  <2> QED BY <1>0, <2>1, <2>2 DEF IInv, Owners
<1>13. Handles'
  BY <1>0, <1>1, <1>4 DEF IInv, Handles, Typed
<1> QED
  BY <1>6, <1>7, <1>8, <1>9, <1>10, <1>11, <1>12, <1>13 DEF IInv

\* An empty kernel goes to the sink or is deleted at once.
LEMMA RegisterEmptyStep ==
  ASSUME IInv, NEW t \in Threads, RegisterEmpty(t)
  PROVE  IInv'
<1> DEFINE k == cur[t]
           d == call[t].dtype
<1>0. /\ at[t] \in {"empty", "empty only"} /\ at[t] # "register"
      /\ cur' = [cur EXCEPT ![t] = None]
      /\ \/ at' = [at EXCEPT ![t] = "again"] /\ hndl' = hndl
         \/ at' = [at EXCEPT ![t] = "run"] /\ hndl' = [hndl EXCEPT ![t] = None]
      /\ UNCHANGED <<made, keyOf, valid, slot, tracked, asked, call, todo, down>>
  BY DEF RegisterEmpty, Goto, Ready, tier2
<1>1. /\ k \in Ids /\ k <= made /\ Registering(t, k) /\ keyOf[k] = call[t].key
      /\ call[t].key \in Keys /\ d \in Types /\ hndl[t] = None /\ ~down /\ freed[k] = 0
      /\ \A s \in Threads : s # t => ~Registering(s, k) /\ tracked[s][k] = 0
  BY <1>0, Registered
<1>2. k \notin sink /\ \A s \in Threads : tracked[s][k] = 0
  <2>1. at[t] # "register"
    BY <1>0
  <2>2. k \notin sink /\ tracked[t][k] = 0
    BY <1>1, <2>1 DEF IInv, Registrations
  <2> QED BY <1>1, <2>2
<1>3. /\ value' \in [Types -> [Keys -> Ids \cup {None}]]
      /\ first' \in [Types -> [Keys -> Ids \cup {None}]]
      /\ refused' \in [Types -> SUBSET Keys]
      /\ Tables'
      /\ \/ sink' = sink \cup {k} /\ freed' = freed
         \/ sink' = sink /\ freed' = [freed EXCEPT ![k] = freed[k] + 1]
  <2>1. CASE Accepted(d, k) /\ UNCHANGED freed
    BY <1>0, <1>1, <2>1, AcceptedTables
  <2>2. CASE Refused(d, k) /\ freed' = [freed EXCEPT ![k] = freed[k] + 1]
    <3>1. UNCHANGED <<first, value, sink>>
      BY <2>2 DEF Refused
    <3>2. refused' \in [Types -> SUBSET Keys]
      BY <1>1, <2>2 DEF Refused, IInv, Typed
    <3> QED BY <1>0, <2>2, <3>1, <3>2 DEF IInv, Typed, Tables
  <2> QED BY <2>1, <2>2 DEF RegisterEmpty
<1> HIDE DEF k, d
<1>same. UNCHANGED <<made, keyOf, valid, slot, tracked, asked, call, todo, down>>
  BY <1>0
<1>4. /\ at'[t] \in {"again", "run"} /\ cur'[t] = None /\ hndl'[t] = None
      /\ \A s \in Threads : s # t => at'[s] = at[s] /\ cur'[s] = cur[s] /\ hndl'[s] = hndl[s]
      /\ hndl' \in [Threads -> Ids \cup {None}] /\ cur' \in [Threads -> Ids \cup {None}]
      /\ at' \in [Threads -> {"idle", "generate", "register", "empty", "empty only", "again",
                               "run", "gone"}]
  BY <1>0, <1>1 DEF IInv, Typed
<1>5. \A s \in Threads, j \in Ids : Registering(s, j)' <=> s # t /\ Registering(s, j)
  BY <1>4 DEF Registering
<1>6. /\ sink' \subseteq Ids /\ sink \subseteq sink'
      /\ \A j \in Ids : j # k => (j \in sink' <=> j \in sink) /\ freed'[j] = freed[j]
      /\ freed' \in [Ids -> Nat]
      /\ \/ k \in sink' /\ freed'[k] = 0
         \/ k \notin sink' /\ freed'[k] = 1
  <2>1. sink \subseteq Ids /\ freed \in [Ids -> Nat]
    BY DEF IInv, Typed
  <2> QED BY <1>1, <1>2, <1>3, <2>1
<1>7. Typed'
  BY <1>0, <1>3, <1>4, <1>6 DEF IInv, Typed
<1>8. Calls'
  <2> SUFFICES ASSUME NEW s \in Threads
               PROVE  (/\ at[s] \notin {"idle", "gone"} => call[s].key \in Keys /\ call[s].dtype \in Types
                       /\ at[s] \in {"register", "empty", "empty only"} => cur[s] # None
                       /\ at[s] # "register" => todo[s] = 0
                       /\ at[s] # "run" => hndl[s] = None
                       /\ down => at[s] = "gone")'
    BY DEF Calls
  <2>1. CASE s = t
    <3>1. at'[t] # "register" /\ at'[t] # "empty" /\ at'[t] # "empty only"
      BY <1>4
    <3>2. todo[t] = 0
      BY <1>0 DEF IInv, Calls
    <3> QED BY <1>0, <1>1, <1>4, <2>1, <3>1, <3>2 DEF d
  <2>2. CASE s # t
    BY <1>0, <1>4, <2>2 DEF IInv, Calls
  <2> QED BY <2>1, <2>2
<1>9. Made'
  <2>1. \A j \in Ids : j > made => j # k
    BY <1>1, Bounds
  <2>2. \A s \in Threads : cur'[s] # None => cur'[s] <= made
    BY <1>4 DEF IInv, Made
  <2>3. ~down'
    BY <1>0, <1>1
  <2> QED BY <1>0, <1>6, <2>1, <2>2, <2>3 DEF IInv, Made
<1>10. Registrations'
  <2> SUFFICES ASSUME NEW s \in Threads, NEW j \in Ids, s # t, Registering(s, j)
               PROVE  /\ keyOf[j] = call[s].key
                      /\ \A r \in Threads : r # s => ~Registering(r, j)' /\ tracked[r][j] = 0
                      /\ at[s] # "register" => j \notin sink' /\ tracked[s][j] = 0
                      /\ todo[s] > 0 => j \in sink' \/ tracked[s][j] > 0
                      /\ \A i \in DOMAIN DTypes : i > todo[s] =>
                           slot[s][<<Kind(s), DTypes[i]>>] # j
    <3>1. \A r \in Threads : r # t => at'[r] = at[r]
      BY <1>4
    <3>2. keyOf' = keyOf /\ call' = call /\ tracked' = tracked /\ todo' = todo /\ slot' = slot
      BY <1>same
    <3> QED BY <1>5, <3>1, <3>2 DEF Registrations, Kind
  <2>1. j # k
    BY <1>1
  <2> QED BY <1>5, <1>6, <2>1 DEF IInv, Registrations
<1>11. Counts'
  <2> SUFFICES ASSUME NEW s \in Threads, NEW j \in Ids
               PROVE  tracked[s][j] =
                        IF at'[s] # "gone" /\ (j \in sink' => at'[s] = "register" /\ cur'[s] = j)
                        THEN Count(slot[s], j) ELSE 0
    BY <1>same DEF Counts, Count
  <2>0. tracked[s][j] =
          IF at[s] # "gone" /\ (j \in sink => at[s] = "register" /\ cur[s] = j)
          THEN Count(slot[s], j) ELSE 0
    BY DEF IInv, Counts
  <2>t. s = t => /\ at'[s] # "gone" /\ at'[s] # "register"
                 /\ at[s] # "gone" /\ at[s] # "register"
    BY <1>0, <1>4
  <2>1. CASE j # k /\ s # t
    BY <1>4, <1>6, <2>0, <2>1
  <2>2. CASE j # k /\ s = t
    BY <1>6, <2>0, <2>t, <2>2
  <2>3. CASE j = k
    <3>1. tracked[s][k] = 0 /\ k \notin sink
      BY <1>2
    <3>2. ~(at'[s] = "register" /\ cur'[s] = k)
      BY <1>1, <1>4, <2>t DEF Registering
    <3>3. at'[s] = "gone" <=> at[s] = "gone"
      BY <1>4, <2>t
    <3> QED BY <2>0, <2>3, <3>1, <3>2, <3>3
  <2> QED BY <2>1, <2>2, <2>3
<1>12. Owners'
  <2>1. ASSUME NEW j \in Ids, j <= made
        PROVE  freed'[j] = IF Owned(j)' THEN 0 ELSE 1
    <3>1. CASE j = k
      <4>1. Owned(j)' <=> j \in sink'
        BY <1>same, <1>1, <1>2, <1>5, <3>1 DEF Owned
      <4> QED BY <1>6, <3>1, <4>1
    <3>2. CASE j # k
      <4>1. ~Registering(t, j)
        BY <3>2 DEF Registering, k
      <4>2. Owned(j)' <=> Owned(j)
        BY <1>0, <1>5, <1>6, <3>2, <4>1 DEF Owned
      <4> QED BY <1>6, <2>1, <3>2, <4>2 DEF IInv, Owners
    <3> QED BY <3>1, <3>2
  <2> QED BY <1>0, <2>1 DEF IInv, Owners
<1>13. Handles'
  BY <1>same, <1>4, <1>6 DEF IInv, Handles
<1> QED
  BY <1>3, <1>7, <1>8, <1>9, <1>10, <1>11, <1>12, <1>13 DEF IInv

\* A thread that ends deletes what it counts, and nobody else owns that.
LEMMA ExitStep ==
  ASSUME IInv, NEW t \in Threads, Exit(t)
  PROVE  IInv'
<1>0. /\ at[t] = "idle" /\ at' = [at EXCEPT ![t] = "gone"]
      /\ freed' = [j \in Ids |-> IF tracked[t][j] > 0 THEN freed[j] + 1 ELSE freed[j]]
      /\ tracked' = [tracked EXCEPT ![t] = [j \in Ids |-> 0]]
  BY DEF Exit, Goto
<1>same. UNCHANGED <<made, keyOf, valid, first, value, refused, sink, slot, asked, call, cur,
                     todo, hndl, down>>
  BY DEF Exit, tier1
<1>1. /\ at \in [Threads -> {"idle", "generate", "register", "empty", "empty only", "again",
                              "run", "gone"}]
      /\ freed \in [Ids -> Nat] /\ tracked \in [Threads -> [Ids -> Nat]]
  BY DEF IInv, Typed
<1>2. /\ at'[t] = "gone" /\ \A s \in Threads : s # t => at'[s] = at[s] /\ tracked'[s] = tracked[s]
      /\ \A j \in Ids : tracked'[t][j] = 0
      /\ \A j \in Ids : freed'[j] = IF tracked[t][j] > 0 THEN freed[j] + 1 ELSE freed[j]
  BY <1>0, <1>1
<1>3. \A s \in Threads, j \in Ids : Registering(s, j)' <=> Registering(s, j)
  BY <1>0, <1>2, <1>same DEF Registering
<1>4. ASSUME NEW j \in Ids, tracked[t][j] > 0
      PROVE  /\ j \notin sink
             /\ \A s \in Threads : s # t => ~(tracked[s][j] > 0)
             /\ \A s \in Threads : ~Registering(s, j)
  <2>1. at[t] # "register"
    BY <1>0
  <2>2. j \notin sink
    BY <1>4, <2>1 DEF IInv, Counts
  <2>3. \A s \in Threads : s # t => ~(tracked[s][j] > 0)
    BY <1>4 DEF IInv, Owners
  <2>4. ~Registering(t, j)
    BY <1>0 DEF Registering
  <2>5. \A s \in Threads : s # t => ~Registering(s, j)
    BY <1>4 DEF IInv, Registrations
  <2> QED BY <2>2, <2>3, <2>4, <2>5
<1>5. Typed'
  <2>1. at' \in [Threads -> {"idle", "generate", "register", "empty", "empty only", "again",
                             "run", "gone"}]
    BY <1>0, <1>1
  <2>2. freed' \in [Ids -> Nat]
    <3>1. tracked[t] \in [Ids -> Nat]
      BY <1>1
    <3>2. freed' = [j \in Ids |-> IF tracked[t][j] > 0 THEN freed[j] + 1 ELSE freed[j]]
      BY <1>0
    <3>3. freed \in [Ids -> Nat]
      BY <1>1
    <3>4. \A j \in Ids : freed'[j] \in Nat
      BY <3>1, <3>2, <3>3
    <3> QED BY <3>2, <3>4
  <2>3. tracked' \in [Threads -> [Ids -> Nat]]
    BY <1>0, <1>1
  <2> QED BY <1>same, <2>1, <2>2, <2>3 DEF IInv, Typed
<1>6. Calls'
  BY <1>0, <1>2, <1>same DEF IInv, Calls
<1>7. Made'
  <2>1. \A j \in Ids : j > made => ~(tracked[t][j] > 0)
    BY DEF IInv, Made
  <2> QED BY <1>2, <1>same, <2>1 DEF IInv, Made
<1>8. Tables'
  BY <1>same DEF IInv, Tables
<1>9. Registrations'
  <2> SUFFICES ASSUME NEW s \in Threads, NEW j \in Ids, Registering(s, j)
               PROVE  /\ keyOf[j] = call[s].key
                      /\ \A r \in Threads : r # s => ~Registering(r, j) /\ tracked'[r][j] = 0
                      /\ at'[s] # "register" => j \notin sink /\ tracked'[s][j] = 0
                      /\ todo[s] > 0 => j \in sink \/ tracked'[s][j] > 0
                      /\ \A i \in DOMAIN DTypes : i > todo[s] =>
                           slot[s][<<Kind(s), DTypes[i]>>] # j
    BY <1>3, <1>same DEF Registrations, Kind
  <2>1. s # t
    BY <1>0 DEF Registering
  <2>2. \A r \in Threads : tracked[r][j] = 0 => tracked'[r][j] = 0
    BY <1>2
  <2> QED BY <1>2, <2>1, <2>2 DEF IInv, Registrations
<1>10. Counts'
  <2> SUFFICES ASSUME NEW s \in Threads, NEW j \in Ids
               PROVE  tracked'[s][j] =
                        IF at'[s] # "gone" /\ (j \in sink => at'[s] = "register" /\ cur[s] = j)
                        THEN Count(slot[s], j) ELSE 0
    BY <1>same DEF Counts, Count
  <2> QED BY <1>2 DEF IInv, Counts
<1>11. Owners'
  <2>1. ASSUME NEW j \in Ids, j <= made
        PROVE  freed'[j] = IF Owned(j)' THEN 0 ELSE 1
    <3>0. freed[j] = IF Owned(j) THEN 0 ELSE 1
      BY <2>1 DEF IInv, Owners
    <3>1. CASE tracked[t][j] > 0
      <4>1. Owned(j) /\ freed'[j] = 1
        BY <1>2, <3>0, <3>1 DEF Owned
      <4>2. \A s \in Threads : ~(tracked'[s][j] > 0)
        BY <1>2, <1>4, <3>1
      <4>3. ~Owned(j)'
        BY <1>3, <1>4, <1>same, <3>1, <4>2 DEF Owned
      <4> QED BY <4>1, <4>3
    <3>2. CASE ~(tracked[t][j] > 0)
      <4>1. Owned(j)' <=> Owned(j)
        BY <1>2, <1>3, <1>same, <3>2 DEF Owned
      <4> QED BY <1>2, <3>0, <3>2, <4>1
    <3> QED BY <3>1, <3>2
  <2>2. \A s \in Threads, j \in Ids : tracked'[s][j] > 0 => tracked[s][j] > 0
    BY <1>2
  <2> QED BY <1>same, <2>1, <2>2 DEF IInv, Owners
<1>12. Handles'
  <2>1. hndl[t] = None
    BY <1>0 DEF IInv, Calls
  <2> QED BY <1>2, <1>same, <2>1 DEF IInv, Handles
<1> QED
  BY <1>5, <1>6, <1>7, <1>8, <1>9, <1>10, <1>11, <1>12 DEF IInv

\* Once all threads have ended the sink is all that is left.
LEMMA TeardownStep ==
  ASSUME IInv, Teardown
  PROVE  IInv'
<1>0. ~down /\ (\A t \in Threads : at[t] = "gone") /\ sink' = {} /\ down' = TRUE
  BY DEF Teardown
<1>same. UNCHANGED <<made, keyOf, valid, first, value, refused, slot, tracked, asked,
                     at, call, cur, todo, hndl>>
  BY DEF Teardown, tier2
<1>1. Values \subseteq sink
  <2>1. \A d \in Types, key \in Keys : value[d][key] # None => value[d][key] \in sink
    BY <1>0 DEF IInv, Tables
  <2> QED BY <2>1 DEF Values
<1>2. freed \in [Ids -> Nat] /\ sink \subseteq Ids
  BY DEF IInv, Typed
<1>3. /\ freed' \in [Ids -> Nat]
      /\ \A j \in Ids : freed'[j] = IF j \in sink THEN freed[j] + 1 ELSE freed[j]
  <2>1. freed' = [j \in Ids |-> freed[j] + (IF j \in Values THEN 1 ELSE 0)
                                         + (IF j \in Cleanup THEN 1 ELSE 0)]
    BY DEF Teardown
  <2>2. \A j \in Ids : j \in Cleanup <=> j \in sink /\ j \notin Values
    BY DEF Cleanup
  <2> QED BY <1>1, <1>2, <2>1, <2>2
<1>4. \A t \in Threads, j \in Ids : ~Registering(t, j) /\ ~Registering(t, j)' /\ tracked[t][j] = 0
  BY <1>0, <1>same DEF Registering, IInv, Counts
<1>5. Typed'
  BY <1>0, <1>3, <1>same DEF IInv, Typed
<1>6. Calls'
  BY <1>0, <1>same DEF IInv, Calls
<1>7. Made'
  <2>1. \A j \in Ids : j > made => freed'[j] = 0 /\ j \notin sink'
    BY <1>0, <1>3 DEF IInv, Made
  <2> QED BY <1>0, <1>same, <2>1 DEF IInv, Made
<1>8. Tables'
  BY <1>0, <1>same DEF IInv, Tables
<1>9. Registrations'
  BY <1>4 DEF Registrations
<1>10. Counts'
  BY <1>0, <1>4, <1>same DEF Counts
<1>11. Owners'
  <2>1. ASSUME NEW j \in Ids, j <= made
        PROVE  freed'[j] = IF Owned(j)' THEN 0 ELSE 1
    <3>1. freed[j] = IF Owned(j) THEN 0 ELSE 1
      BY <2>1 DEF IInv, Owners
    <3>2. Owned(j) <=> j \in sink
      BY <1>4 DEF Owned
    <3>3. ~Owned(j)'
      BY <1>0, <1>4, <1>same DEF Owned
    <3> QED BY <1>3, <3>1, <3>2, <3>3
  <2> QED BY <1>same, <2>1 DEF IInv, Owners
<1>12. Handles'
  <2>1. \A t \in Threads : hndl[t] = None
    BY <1>0 DEF IInv, Calls
  <2> QED BY <1>same, <2>1 DEF Handles
<1> QED
  BY <1>5, <1>6, <1>7, <1>8, <1>9, <1>10, <1>11, <1>12 DEF IInv

----------------------------------------------------------------------------
(* The theorems.                                                           *)

\* A step of the specification keeps the invariant.
LEMMA NextIInv == IInv /\ [Next]_vars => IInv'
<1> SUFFICES ASSUME IInv, [Next]_vars PROVE IInv'
  OBVIOUS
<1>1. CASE Teardown
  BY <1>1, TeardownStep
<1>2. ASSUME NEW t \in Threads, Lookup(t) PROVE IInv'
  BY <1>2, LookupStep
<1>3. ASSUME NEW t \in Threads, Exit(t) PROVE IInv'
  BY <1>3, ExitStep
<1>4. ASSUME NEW t \in Threads, Step(t) PROVE IInv'
  <2>1. CASE Generate(t) \/ NoGenerator(t)
    BY <2>1, GenerateStep
  <2>2. CASE Unfit(t)
    BY <2>2, UnfitStep
  <2>3. CASE RegisterDType(t)
    <3>1. \/ Accepted(DTypes[todo[t] + 1], cur[t]) /\ UNCHANGED <<freed, slot, tracked>>
          \/ /\ Refused(DTypes[todo[t] + 1], cur[t])
             /\ InsertAndGet(t, <<Kind(t), DTypes[todo[t] + 1]>>, cur[t])
      BY <2>3 DEF RegisterDType
    <3> QED BY <2>3, <3>1, AcceptStep, RefuseStep
  <2>4. CASE EndRegister(t)
    BY <2>4, EndRegisterStep
  <2>5. CASE RegisterEmpty(t)
    BY <2>5, RegisterEmptyStep
  <2>6. CASE LookAgain(t)
    BY <2>6, LookAgainStep
  <2>7. CASE Execute(t)
    BY <2>7, ExecuteStep
  <2> QED BY <1>4, <2>1, <2>2, <2>3, <2>4, <2>5, <2>6, <2>7 DEF Step
<1>5. CASE UNCHANGED vars
  <2>1. UNCHANGED <<made, keyOf, valid, freed, first, value, refused, sink, slot, tracked, asked,
                    at, call, cur, todo, hndl, down>>
    BY <1>5 DEF vars, objects, tier1, tier2
  <2>2. Typed' /\ Calls' /\ Made' /\ Tables'
    BY <2>1 DEF IInv, Typed, Calls, Made, Tables
  <2>3. \A t \in Threads, k \in Ids : Registering(t, k)' <=> Registering(t, k)
    BY <2>1 DEF Registering
  <2>4. Registrations'
    BY <2>1, <2>3 DEF IInv, Registrations, Kind
  <2>5. Counts'
    BY <2>1 DEF IInv, Counts, Count
  <2>6. Owners'
    <3>1. \A k \in Ids : Owned(k)' <=> Owned(k)
      BY <2>1, <2>3 DEF Owned
    <3> QED BY <2>1, <3>1 DEF IInv, Owners
  <2>7. Handles'
    BY <2>1 DEF IInv, Handles
  <2> QED BY <2>2, <2>4, <2>5, <2>6, <2>7 DEF IInv
<1> QED
  BY <1>1, <1>2, <1>3, <1>4, <1>5 DEF Next

\* The register's inductive invariant: every kernel has the owners it should.
THEOREM RegisterOwners == Spec => []IInv
BY InitIInv, NextIInv, PTL DEF Spec

\* The register's fields keep their types, and a call's handle is a valid
\* kernel of the key it asked for.
THEOREM RegisterTypes == Spec => []TypeOK
<1>1. IInv => TypeOK
  BY DEF IInv, Typed, Handles, TypeOK
<1> QED
  BY <1>1, RegisterOwners, PTL

\* No table entry, slot or running call holds a kernel that was deleted, however
\* many threads register, replace and run kernels of whatever keys.
THEOREM RegisterNoDangling == Spec => []NoDangling
<1>1. IInv => NoDangling
  <2> SUFFICES ASSUME IInv, NEW k \in Pointers, k # None PROVE freed[k] = 0
    BY DEF NoDangling
  <2>1. k \in Ids /\ k <= made /\ Owned(k)
    <3>1. CASE ~down /\ \E d \in Types, key \in Keys : k = first[d][key] \/ k = value[d][key]
      <4>1. k \in sink
        BY <3>1 DEF IInv, Tables
      <4>2. k \in Ids
        BY <4>1 DEF IInv, Typed
      <4> QED BY <4>1, <4>2, Bounds DEF IInv, Made, Owned
    <3>2. CASE \E t \in Threads : k = hndl[t]
      <4>1. PICK t \in Threads : k = hndl[t]
        BY <3>2
      <4>2. k \in Ids /\ (k \in sink \/ tracked[t][k] > 0)
        BY <4>1 DEF IInv, Typed, Handles
      <4> QED BY <4>2, Bounds DEF IInv, Made, Owned
    <3>3. CASE \E t \in Threads, x \in Slots : at[t] # "gone" /\ k = slot[t][x]
      <4>1. PICK t \in Threads, x \in Slots : at[t] # "gone" /\ k = slot[t][x]
        BY <3>3
      <4>2. slot[t] \in [Slots -> Ids \cup {None}]
        BY DEF IInv, Typed
      <4>3. k \in Ids
        BY <4>1, <4>2
      <4>4. k \in sink \/ tracked[t][k] > 0
        BY <4>1, <4>3, CountZero DEF IInv, Counts
      <4> QED BY <4>3, <4>4, Bounds DEF IInv, Made, Owned
    <3> QED BY <3>1, <3>2, <3>3 DEF Pointers, Values
  <2> QED BY <2>1 DEF IInv, Owners
<1> QED
  BY <1>1, RegisterOwners, PTL

\* A kernel is deleted at most once, and all of them are when the register goes.
THEOREM RegisterFreedOnce == Spec => []FreedOnce
<1>1. IInv => FreedOnce
  <2> SUFFICES ASSUME IInv PROVE FreedOnce
    OBVIOUS
  <2>1. \A k \in Ids : freed[k] <= 1
    BY Bounds DEF IInv, Made, Owners
  <2>2. ASSUME down, NEW k \in 1 .. made PROVE freed[k] = 1
    <3>1. k \in Ids /\ k <= made
      BY Bounds, IdFacts
    <3>2. ~Owned(k)
      <4>1. \A t \in Threads : at[t] = "gone"
        BY <2>2 DEF IInv, Calls
      <4>2. \A t \in Threads : tracked[t][k] = 0 /\ ~Registering(t, k)
        BY <3>1, <4>1 DEF IInv, Counts, Registering
      <4>3. sink = {}
        BY <2>2 DEF IInv, Made
      <4> QED BY <4>2, <4>3 DEF Owned
    <3> QED BY <3>1, <3>2 DEF IInv, Owners
  <2> QED BY <2>1, <2>2 DEF FreedOnce
<1> QED
  BY <1>1, RegisterOwners, PTL
=============================================================================
