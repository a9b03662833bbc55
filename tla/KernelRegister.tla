--------------------------- MODULE KernelRegister ---------------------------
(***************************************************************************)
(* The life of a kernel (src/include/kernel_register/kernel_register.hh,   *)
(* kernel_fallback_storage.hh and the lookups of                           *)
(* src/frame/bindings/c_wrappers/capi_kernel_frame_wrappers.cc).           *)
(*                                                                         *)
(* A call looks for a kernel of its key in the first tier, a dispatch      *)
(* table per routine and data type common to all threads; then in the      *)
(* second, one slot per routine and data type of the thread.  It generates *)
(* one that is missing, registers it for every data type the generator     *)
(* serves, looks again, and runs what it found.  Kernels are owned through *)
(* raw pointers: by the sink, if a table took them, or else by a count in  *)
(* the thread's second tier.                                               *)
(*                                                                         *)
(* A table is what DispatchTable promises of it: an insert is one step,    *)
(* keys stay, and a key that a full table refused once it refuses forever. *)
(* The entry of a key points at the key inside the first kernel inserted.  *)
(***************************************************************************)
EXTENDS Integers, Sequences, FiniteSets

CONSTANTS
  Threads, Keys,
  KindOf,         \* the kernelRoutineType whose tables a key belongs in
  KeySets,        \* the keys a program may ask for
  DTypes,         \* getKernelDatatypes of a generator, in order
  MaxKernels,     \* bound: kernels made, generated and empty
  None            \* nullptr

Ids == 1 .. MaxKernels
Kinds == {KindOf[key] : key \in Keys}
Types == {DTypes[i] : i \in DOMAIN DTypes}
Slots == Kinds \X Types

ASSUME RegisterAssumption ==
  /\ KindOf \in [Keys -> {"gemm", "pack_b", "gemm_quant"}]
  /\ KeySets \subseteq SUBSET Keys
  /\ DTypes \in Seq(STRING) /\ DTypes # <<>>
  /\ \A i, j \in DOMAIN DTypes : DTypes[i] = DTypes[j] => i = j
  /\ MaxKernels \in Nat
  /\ None \notin Int

VARIABLES
  made, keyOf, valid,   \* how many kernels there are; the key and isValid of each
  freed,                \* freed[k]: how often kernel k was deleted
  first, value,         \* vecKDTs: the kernel an entry has its key from, and its value
  refused,              \* the keys that the tables of a data type have no room for
  sink,                 \* storedKernelWatcher
  slot, tracked,        \* each thread's storage_ and trackedKernels_
  asked,                \* the keys this program asks for
  at, call,             \* where each thread is, and the lookup it is about
  cur, todo,            \* the kernel it registers, and the data types it has done
  hndl,                 \* dlp_kernel_hndl.kernel_base
  down                  \* the singleton has been destroyed

objects == <<made, keyOf, valid, freed>>
tier1 == <<first, value, refused, sink>>
tier2 == <<slot, tracked, asked>>
vars == <<objects, tier1, tier2, at, call, cur, todo, hndl, down>>

NoCall == [key |-> None, dtype |-> None]

Init ==
  /\ made = 0
  /\ keyOf = [k \in Ids |-> None]
  /\ valid = [k \in Ids |-> FALSE]
  /\ freed = [k \in Ids |-> 0]
  /\ first = [d \in Types |-> [key \in Keys |-> None]]
  /\ value = [d \in Types |-> [key \in Keys |-> None]]
  /\ refused = [d \in Types |-> {}]
  /\ sink = {}
  /\ slot = [t \in Threads |-> [x \in Slots |-> None]]
  /\ tracked = [t \in Threads |-> [k \in Ids |-> 0]]
  /\ asked \in KeySets
  /\ at = [t \in Threads |-> "idle"]
  /\ call = [t \in Threads |-> NoCall]
  /\ cur = [t \in Threads |-> None]
  /\ todo = [t \in Threads |-> 0]
  /\ hndl = [t \in Threads |-> None]
  /\ down = FALSE

Goto(t, to) == at' = [at EXCEPT ![t] = to]
Kind(t) == KindOf[call[t].key]

----------------------------------------------------------------------------
(* The lookups.                                                            *)

\* The key of a quant kernel is compared with what getKernelInfo returns, the
\* base of its key alone, and the memory behind it: either answer may come out.
Match(k, key, same) ==
  k # None /\ keyOf[k] = key /\ (KindOf[key] = "gemm_quant" => same)

\* getKernel, and getKernelFallback for the routines that have it.  The second
\* tier is the thread's own: looking in both is one step.
Find(t, key, d, same) ==
  LET k == slot[t][<<KindOf[key], d>>]
  IN  IF value[d][key] # None THEN value[d][key]
      ELSE IF KindOf[key] # "pack_b" /\ Match(k, key, same) THEN k ELSE None

\* Mutant: a kernel that is not valid is handed out.
ReadyInvalid(t, k) ==
  /\ hndl' = [hndl EXCEPT ![t] = k]
  /\ Goto(t, "run")

\* The handle of the call: a kernel that was found and is not an empty one.
Ready(t, k) ==
  /\ hndl' = [hndl EXCEPT ![t] = IF k # None /\ valid[k] THEN k ELSE None]
  /\ Goto(t, "run")

Lookup(t) ==
  /\ at[t] = "idle"
  /\ \E key \in asked, d \in Types, same \in BOOLEAN :
       LET k == Find(t, key, d, same)
       IN  /\ call' = [call EXCEPT ![t] = [key |-> key, dtype |-> d]]
           /\ \/ k # None /\ Ready(t, k)
              \/ k = None /\ Goto(t, "generate") /\ UNCHANGED hndl
  /\ UNCHANGED <<objects, tier1, tier2, cur, todo, down>>

LookAgain(t) ==
  /\ at[t] = "again"
  /\ \E same \in BOOLEAN : Ready(t, Find(t, call[t].key, call[t].dtype, same))
  /\ UNCHANGED <<objects, tier1, tier2, call, cur, todo, down>>

\* dlp_execute_kernel and its kin, and the end of the call.
Execute(t) ==
  /\ at[t] = "run"
  /\ hndl' = [hndl EXCEPT ![t] = None]
  /\ call' = [call EXCEPT ![t] = NoCall]
  /\ cur' = [cur EXCEPT ![t] = None]
  /\ Goto(t, "idle")
  /\ UNCHANGED <<objects, tier1, tier2, todo, down>>

----------------------------------------------------------------------------
(* Generating a kernel.                                                    *)

New(t, ok) ==
  /\ made < MaxKernels
  /\ made' = made + 1
  /\ keyOf' = [keyOf EXCEPT ![made + 1] = call[t].key]
  /\ valid' = [valid EXCEPT ![made + 1] = ok]
  /\ cur' = [cur EXCEPT ![t] = made + 1]

\* The generator makes a kernel, or there is none to register.
Generate(t) ==
  /\ at[t] = "generate"
  /\ New(t, TRUE)
  /\ Goto(t, "register")
  /\ UNCHANGED <<freed, tier1, tier2, call, todo, hndl, down>>

\* registerKernel turns the kernel away before it takes it over: the machine
\* lacks a feature, or no data type is served.  Nobody else has seen it.
Unfit(t) ==
  /\ at[t] = "generate"
  /\ Goto(t, "again")
  /\ UNCHANGED <<objects, tier1, tier2, call, cur, todo, hndl, down>>

\* Without a generator an empty kernel is registered and nothing returned;
\* the gemm routine has its adapter find out.
NoGenerator(t) ==
  /\ at[t] = "generate"
  /\ New(t, FALSE)
  /\ \/ Goto(t, "empty")
     \/ Kind(t) # "gemm" /\ Goto(t, "empty only")
  /\ UNCHANGED <<freed, tier1, tier2, call, todo, hndl, down>>

----------------------------------------------------------------------------
(* The two tiers.                                                          *)

Accepted(d, k) ==
  /\ value[d][keyOf[k]] # None \/ keyOf[k] \notin refused[d]
  /\ value' = [value EXCEPT ![d][keyOf[k]] = k]
  /\ first' = [first EXCEPT ![d][keyOf[k]] = IF @ = None THEN k ELSE @]
  /\ sink' = sink \cup {k}
  /\ UNCHANGED refused

Refused(d, k) ==
  /\ value[d][keyOf[k]] = None
  /\ refused' = [refused EXCEPT ![d] = @ \cup {keyOf[k]}]
  /\ UNCHANGED <<first, value, sink>>

\* Mutant: the kernel that is replaced is freed at once.
InsertAndGetFrees(t, x, k) ==
  LET old == slot[t][x]
  IN  /\ slot' = [slot EXCEPT ![t][x] = k]
      /\ tracked' = [tracked EXCEPT ![t] = [id \in Ids |->
           IF id = k THEN @[id] + 1 ELSE IF id = old THEN 0 ELSE @[id]]]
      /\ freed' = [id \in Ids |->
           IF id = old /\ old # k /\ tracked[t][id] > 0 THEN freed[id] + 1 ELSE freed[id]]

\* The slot's kernel loses a reference, and is deleted with its last one.
InsertAndGet(t, x, k) ==
  LET old == slot[t][x]
      Lost(id) == id = old /\ old # k /\ tracked[t][id] > 0
  IN  /\ slot' = [slot EXCEPT ![t][x] = k]
      /\ tracked' = [tracked EXCEPT ![t] = [id \in Ids |->
           IF id = k THEN @[id] + 1 ELSE IF Lost(id) THEN @[id] - 1 ELSE @[id]]]
      /\ freed' = [id \in Ids |->
           IF Lost(id) /\ tracked[t][id] = 1 THEN freed[id] + 1 ELSE freed[id]]

\* registerKernel, one data type.
RegisterDType(t) ==
  /\ at[t] = "register"
  /\ todo[t] < Len(DTypes)
  /\ LET d == DTypes[todo[t] + 1]
     IN  \/ Accepted(d, cur[t]) /\ UNCHANGED <<freed, slot, tracked>>
         \/ Refused(d, cur[t]) /\ InsertAndGet(t, <<Kind(t), d>>, cur[t])
  /\ todo' = [todo EXCEPT ![t] = @ + 1]
  /\ UNCHANGED <<made, keyOf, valid, asked, at, call, cur, hndl, down>>

\* A kernel that some table took is no longer the second tier's to free.
\* (Every data type has a slot, so that one of the tiers has the kernel.)
EndRegister(t) ==
  /\ at[t] = "register"
  /\ todo[t] = Len(DTypes)
  /\ tracked' = IF cur[t] \in sink THEN [tracked EXCEPT ![t][cur[t]] = 0] ELSE tracked
  /\ todo' = [todo EXCEPT ![t] = 0]
  /\ Goto(t, "again")
  /\ UNCHANGED <<objects, tier1, slot, asked, call, cur, hndl, down>>

\* Mutant: an empty kernel that the table refuses is forgotten.
RegisterEmptyLeaks(t) ==
  /\ at[t] \in {"empty", "empty only"}
  /\ Accepted(call[t].dtype, cur[t]) \/ Refused(call[t].dtype, cur[t])
  /\ IF at[t] = "empty" THEN Goto(t, "again") /\ UNCHANGED hndl ELSE Ready(t, None)
  /\ cur' = [cur EXCEPT ![t] = None]
  /\ UNCHANGED <<objects, tier2, call, todo, down>>

\* registerEmptyGemmKernel and its kin: first tier only, for one data type.
RegisterEmpty(t) ==
  /\ at[t] \in {"empty", "empty only"}
  /\ \/ Accepted(call[t].dtype, cur[t]) /\ UNCHANGED freed
     \/ Refused(call[t].dtype, cur[t]) /\ freed' = [freed EXCEPT ![cur[t]] = @ + 1]
  /\ IF at[t] = "empty" THEN Goto(t, "again") /\ UNCHANGED hndl ELSE Ready(t, None)
  /\ cur' = [cur EXCEPT ![t] = None]
  /\ UNCHANGED <<made, keyOf, valid, tier2, call, todo, down>>

----------------------------------------------------------------------------
(* The end.                                                                *)

\* ~ThreadLocalFallbackKernelStorage
Exit(t) ==
  /\ at[t] = "idle"
  /\ freed' = [id \in Ids |-> IF tracked[t][id] > 0 THEN freed[id] + 1 ELSE freed[id]]
  /\ tracked' = [tracked EXCEPT ![t] = [id \in Ids |-> 0]]
  /\ Goto(t, "gone")
  /\ UNCHANGED <<made, keyOf, valid, tier1, slot, asked, call, cur, todo, hndl, down>>

\* The values of the tables, each once.
Values == {value[d][key] : d \in Types, key \in Keys} \ {None}

\* storedKernelWatcher::cleanup
Cleanup == sink \ Values

\* ~kernelRegister, when every thread has ended.
Teardown ==
  /\ ~down
  /\ \A t \in Threads : at[t] = "gone"
  /\ freed' = [id \in Ids |-> freed[id] + (IF id \in Values THEN 1 ELSE 0)
                                        + (IF id \in Cleanup THEN 1 ELSE 0)]
  /\ sink' = {}
  /\ down' = TRUE
  /\ UNCHANGED <<made, keyOf, valid, first, value, refused, tier2,
                 at, call, cur, todo, hndl>>

----------------------------------------------------------------------------
Step(t) ==
  \/ Generate(t) \/ Unfit(t) \/ NoGenerator(t) \/ RegisterDType(t) \/ EndRegister(t)
  \/ RegisterEmpty(t) \/ LookAgain(t) \/ Execute(t)

Next == Teardown \/ \E t \in Threads : Lookup(t) \/ Step(t) \/ Exit(t)

Spec == Init /\ [][Next]_vars

----------------------------------------------------------------------------
(* Properties.                                                             *)

\* Every field keeps its type; a handle is a kernel that can run, never the
\* empty one that stands for a failed generation.
TypeOK ==
  /\ made \in 0 .. MaxKernels
  /\ keyOf \in [Ids -> Keys \cup {None}]
  /\ valid \in [Ids -> BOOLEAN]
  /\ freed \in [Ids -> Nat]
  /\ first \in [Types -> [Keys -> Ids \cup {None}]]
  /\ value \in [Types -> [Keys -> Ids \cup {None}]]
  /\ refused \in [Types -> SUBSET Keys]
  /\ sink \subseteq Ids
  /\ slot \in [Threads -> [Slots -> Ids \cup {None}]]
  /\ tracked \in [Threads -> [Ids -> Nat]]
  /\ at \in [Threads -> {"idle", "generate", "register", "empty", "empty only", "again",
                         "run", "gone"}]
  /\ asked \in KeySets
  /\ call \in [Threads -> [key : Keys \cup {None}, dtype : Types \cup {None}]]
  /\ cur \in [Threads -> Ids \cup {None}]
  /\ todo \in [Threads -> 0 .. Len(DTypes)]
  /\ hndl \in [Threads -> Ids \cup {None}]
  /\ \A t \in Threads : hndl[t] # None => valid[hndl[t]] /\ keyOf[hndl[t]] = call[t].key
  /\ down \in BOOLEAN

\* The pointers that may still be followed: a table's, for the key and for the
\* value, those of the slots, and the handle of a call that is running.
Pointers ==
  (IF down THEN {} ELSE {first[d][key] : d \in Types, key \in Keys} \cup Values)
  \cup {hndl[t] : t \in Threads}
  \cup {slot[t][x] : t \in {s \in Threads : at[s] # "gone"}, x \in Slots}

\* No pointer that may be followed points at a kernel that was deleted: not
\* the one a slot or a table keeps when it was replaced in another one's slot,
\* nor the key of an entry whose value is another kernel by now, nor a kernel
\* that one thread runs and another one replaces.
NoDangling == \A k \in Pointers \ {None} : freed[k] = 0

\* Whatever mixture of tables and slots took a kernel, and whoever replaced
\* it, it is deleted once, and by the end every one is.
FreedOnce ==
  /\ \A k \in Ids : freed[k] <= 1
  /\ down => \A k \in 1 .. made : freed[k] = 1

\* "The fallback is guaranteed to work at this point."
\* (capi_kernel_frame_wrappers.cc:249, :805): where the first tier does not
\* have the kernel that was registered, the second does.
FallbackWorks ==
  [][\A t \in Threads :
       at[t] = "again" /\ at'[t] = "run" /\ cur[t] # None /\ Kind(t) # "pack_b"
         /\ value[call[t].dtype][call[t].key] = None
         => hndl'[t] # None]_vars
=============================================================================
