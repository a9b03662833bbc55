--------------------------- MODULE ThreadRuntime ---------------------------
(***************************************************************************)
(* The threading configuration of the library                              *)
(* (classic/frame/runtime/dlp_runtime.c).                                  *)
(*                                                                         *)
(* Application threads call the setters and the resolution                 *)
(* dlp_rntm_init_from_global, which every GEMM entry point and every       *)
(* getter starts with.  Three atomics are shared by all threads; one       *)
(* record is thread local.  Each action holds at most one access to a      *)
(* shared atomic, so every interleaving the code admits is a behaviour.    *)
(* The atomics are sequentially consistent here.                           *)
(*                                                                         *)
(* "Unset" is -1 throughout, as in the code.                               *)
(***************************************************************************)
EXTENDS Integers

CONSTANTS
  Threads,      \* application threads that call into the library
  NtArgs,       \* arguments of dlp_thread_set_num_threads_*
  WaysArgs,     \* arguments <<jc, ic>> of dlp_thread_set_ways_*
  Builds,       \* process environments: [openmp, ic, jc, nt] (see Init)
  OmpCounts,    \* what omp_get_max_threads() may answer
  NumCores,     \* dlp_get_num_cores(), or 1 in a single-thread build
  Half,         \* 2^31: int32_t is -Half .. Half-1
  MaxCalls      \* bound: library calls per thread

\* The setters take md_t and cast to int32_t (dlp_runtime.c:496); that the ways
\* fit is what the comment at dlp_runtime.c:75-79 demands of the callers.
ASSUME RuntimeAssumption ==
  /\ Half \in Nat \ {0}
  /\ NtArgs \subseteq Int
  /\ WaysArgs \subseteq (-Half .. Half - 1) \X (-Half .. Half - 1)
  /\ Builds \subseteq [openmp : BOOLEAN, ic : Int, jc : Int, nt : Int]
  /\ OmpCounts \subseteq Nat \ {0}
  /\ NumCores \in Nat \ {0}
  /\ MaxCalls \in Nat

VARIABLES
  env,                \* the process's build and environment variables
  once,               \* pthread_once: has dlp_init_threading run?
  lib_packed_ways,    \* atomic int64_t
  lib_num_threads,    \* atomic int64_t
  lib_ext_mt_ctr_var, \* atomic: does OpenMP control threading?
  tl,                 \* dlp_tl_rntm of each thread
  tlInit,             \* dlp_init_tl_rntm of each thread
  pc,                 \* where each thread is in its call
  call,               \* the call's arguments: [op, jc, ic, nt]
  lnt,                \* lib_nt, loaded before the ways
  res,                \* the configuration the last resolution returned
  calls               \* library calls made so far

vars == <<env, once, lib_packed_ways, lib_num_threads, lib_ext_mt_ctr_var,
          tl, tlInit, pc, call, lnt, res, calls>>
shared == <<once, lib_packed_ways, lib_num_threads, lib_ext_mt_ctr_var>>

----------------------------------------------------------------------------
(* Integer widths: two int32_t in one int64_t.                             *)

W == 2 * Half                     \* 2^32
Signed(u) == IF u >= Half THEN u - W ELSE u
Int32(v) == Signed(v % W)         \* the C cast (int32_t)v

\* Mutant: the low half is added without its cast to uint32_t.
PackSignExtended(ic, jc) == jc * W + ic

dlp_pack_ways(ic, jc) ==
  LET u == (jc % W) * W + (ic % W)
  IN  IF u >= W * Half THEN u - W * W ELSE u

UnpackIc(packed) == Signed((packed % (W * W)) % W)
UnpackJc(packed) == Signed((packed % (W * W)) \div W)

----------------------------------------------------------------------------
(* A configuration: thread count, or ways, or nothing.                     *)

Config == [nt : Int, ic : Int, jc : Int]
Unset == [nt |-> -1, ic |-> -1, jc |-> -1]
Count(n) == [nt |-> n, ic |-> -1, jc |-> -1]
Ways(ic, jc) == [nt |-> -1, ic |-> ic, jc |-> jc]

AtLeastOne(w) == IF w <= 0 THEN 1 ELSE w
NormArg(v) == IF v <= 0 THEN -1 ELSE v

\* Mutant: a thread count is kept beside the ways.
SourceConfigKeepsCount(nt, ic, jc) ==
  IF jc > 0 \/ ic > 0
  THEN [nt |-> nt, ic |-> AtLeastOne(ic), jc |-> AtLeastOne(jc)]
  ELSE IF nt > 0 THEN Count(nt)
  ELSE Unset

\* What one source contributes: ways win over the count, a missing way is 1.
SourceConfig(nt, ic, jc) ==
  IF jc > 0 \/ ic > 0 THEN Ways(AtLeastOne(ic), AtLeastOne(jc))
  ELSE IF nt > 0 THEN Count(nt)
  ELSE Unset

EnvConfig == SourceConfig(env.nt, env.ic, env.jc)

LocalConfig(t) ==
  IF tl[t].ext THEN Unset ELSE SourceConfig(tl[t].nt, tl[t].ic, tl[t].jc)

NoResult == [nt |-> 0, ic |-> 0, jc |-> 0, ext |-> FALSE, team |-> FALSE]

Init ==
  /\ env \in Builds
  /\ once = FALSE
  /\ lib_packed_ways = -1
  /\ lib_num_threads = -1
  /\ lib_ext_mt_ctr_var = FALSE
  /\ tl = [t \in Threads |-> [nt |-> -1, ic |-> -1, jc |-> -1, ext |-> TRUE]]
  /\ tlInit = [t \in Threads |-> TRUE]
  /\ pc = [t \in Threads |-> "idle"]
  /\ call = [t \in Threads |-> [op |-> "get", jc |-> -1, ic |-> -1, nt |-> -1]]
  /\ lnt = [t \in Threads |-> -1]
  /\ res = [t \in Threads |-> NoResult]
  /\ calls = [t \in Threads |-> 0]

----------------------------------------------------------------------------
(* A thread enters the library with one of the API functions.              *)

Enter(t, op, jc, ic, nt) ==
  /\ pc[t] = "idle"
  /\ calls[t] < MaxCalls
  /\ calls' = [calls EXCEPT ![t] = @ + 1]
  /\ call' = [call EXCEPT ![t] = [op |-> op, jc |-> NormArg(jc),
                                  ic |-> NormArg(ic), nt |-> NormArg(nt)]]
  /\ res' = [res EXCEPT ![t] = NoResult]
  /\ pc' = [pc EXCEPT ![t] = "once"]
  /\ UNCHANGED <<env, shared, tl, tlInit, lnt>>

GetActive(t) == Enter(t, "get", -1, -1, -1)
SetNumThreads(t, op, nt) == Enter(t, op, -1, -1, nt)
SetWays(t, op, ways) == Enter(t, op, ways[1], ways[2], -1)

----------------------------------------------------------------------------
(* dlp_init_threading_once.  Callers of pthread_once wait for the routine  *)
(* and touch the atomics only after it, so the routine is one step.        *)

dlp_init_threading(t) ==
  /\ pc[t] = "once"
  /\ ~once
  /\ once' = TRUE
  /\ \/ /\ EnvConfig # Unset
        /\ lib_num_threads' = EnvConfig.nt
        /\ lib_packed_ways' = dlp_pack_ways(Int32(EnvConfig.ic), Int32(EnvConfig.jc))
        /\ lib_ext_mt_ctr_var' = FALSE
     \/ /\ EnvConfig = Unset
        /\ env.openmp
        /\ lib_num_threads' \in OmpCounts \cup {1}  \* 1 if no team can be made
        /\ lib_packed_ways' = dlp_pack_ways(-1, -1)
        /\ lib_ext_mt_ctr_var' = TRUE
     \/ /\ EnvConfig = Unset
        /\ ~env.openmp
        /\ lib_num_threads' = NumCores
        /\ lib_packed_ways' = dlp_pack_ways(-1, -1)
        /\ lib_ext_mt_ctr_var' = FALSE
  /\ UNCHANGED <<env, tl, tlInit, pc, call, lnt, res, calls>>

FirstStep(op) ==
  CASE op = "get" -> "ext1"
    [] op = "setLibWays" -> "storeWays"
    [] op = "setLibNt" -> "storeNt"
    [] op \in {"setLocalWays", "setLocalNt"} -> "local"

\* Mutant: the call does not wait for pthread_once.
InitThreadLocalEarly(t) ==
  /\ pc[t] = "once"
  /\ tl' = IF tlInit[t] THEN [tl EXCEPT ![t].ext = lib_ext_mt_ctr_var] ELSE tl
  /\ tlInit' = [tlInit EXCEPT ![t] = FALSE]
  /\ pc' = [pc EXCEPT ![t] = FirstStep(call[t].op)]
  /\ UNCHANGED <<env, shared, call, lnt, res, calls>>

\* The per-thread half of dlp_init_threading_once, then the call proper.
InitThreadLocal(t) ==
  /\ pc[t] = "once"
  /\ once
  /\ tl' = IF tlInit[t] THEN [tl EXCEPT ![t].ext = lib_ext_mt_ctr_var] ELSE tl
  /\ tlInit' = [tlInit EXCEPT ![t] = FALSE]
  /\ pc' = [pc EXCEPT ![t] = FirstStep(call[t].op)]
  /\ UNCHANGED <<env, shared, call, lnt, res, calls>>

----------------------------------------------------------------------------
(* The library setters: two or three separate atomic stores.               *)

Goto(t, from, to) ==
  /\ pc[t] = from
  /\ pc' = [pc EXCEPT ![t] = to]

StoreWays(t) ==
  /\ Goto(t, "storeWays", "unsetNt")
  /\ lib_packed_ways' = dlp_pack_ways(Int32(call[t].ic), Int32(call[t].jc))
  /\ UNCHANGED <<env, once, lib_num_threads, lib_ext_mt_ctr_var, tl, tlInit,
                 call, lnt, res, calls>>

UnsetNumThreads(t) ==
  /\ Goto(t, "unsetNt", "clearExt")
  /\ lib_num_threads' = -1
  /\ UNCHANGED <<env, once, lib_packed_ways, lib_ext_mt_ctr_var, tl, tlInit,
                 call, lnt, res, calls>>

StoreNumThreads(t) ==
  /\ Goto(t, "storeNt", "clearExt")
  /\ lib_num_threads' = call[t].nt
  /\ UNCHANGED <<env, once, lib_packed_ways, lib_ext_mt_ctr_var, tl, tlInit,
                 call, lnt, res, calls>>

ClearExternalControl(t) ==
  /\ Goto(t, "clearExt", "idle")
  /\ lib_ext_mt_ctr_var' = FALSE
  /\ UNCHANGED <<env, once, lib_packed_ways, lib_num_threads, tl, tlInit,
                 call, lnt, res, calls>>

\* Mutant: a local setter leaves OpenMP in control of its thread.
SetLocalKeepsExternal(t) ==
  /\ Goto(t, "local", "idle")
  /\ tl' = [tl EXCEPT ![t] =
              IF call[t].op = "setLocalWays"
              THEN [nt |-> -1, ic |-> call[t].ic, jc |-> call[t].jc, ext |-> @.ext]
              ELSE [nt |-> call[t].nt, ic |-> @.ic, jc |-> @.jc, ext |-> @.ext]]
  /\ UNCHANGED <<env, shared, tlInit, call, lnt, res, calls>>

(* The local setters write only the caller's record.                       *)

SetLocal(t) ==
  /\ Goto(t, "local", "idle")
  /\ tl' = [tl EXCEPT ![t] =
              IF call[t].op = "setLocalWays"
              THEN [nt |-> -1, ic |-> call[t].ic, jc |-> call[t].jc, ext |-> FALSE]
              ELSE [nt |-> call[t].nt, ic |-> @.ic, jc |-> @.jc, ext |-> FALSE]]
  /\ UNCHANGED <<env, shared, tlInit, call, lnt, res, calls>>

----------------------------------------------------------------------------
(* dlp_update_threading_priority_order, one shared access per action.      *)

SingleThread == Ways(1, 1)

\* Store the outcome.  Inside a parallel region whose level cannot nest, an
\* OpenMP build falls back to one thread whatever the source said.
Return(t, cfg, ext) ==
  \E team \in (IF env.openmp THEN BOOLEAN ELSE {TRUE}) :
    LET out == IF team THEN cfg ELSE SingleThread
    IN  res' = [res EXCEPT ![t] = [nt |-> out.nt, ic |-> out.ic, jc |-> out.jc,
                                   ext |-> ext, team |-> team]]

\* Priority 1, and the load of the flag that guards priority 2.
CheckLocal(t) ==
  /\ pc[t] = "ext1"
  /\ \/ /\ LocalConfig(t) # Unset
        /\ Return(t, LocalConfig(t), FALSE)
        /\ pc' = [pc EXCEPT ![t] = "idle"]
     \/ /\ LocalConfig(t) = Unset
        /\ pc' = [pc EXCEPT ![t] = IF lib_ext_mt_ctr_var THEN "ext2" ELSE "loadNt"]
        /\ UNCHANGED res
  /\ UNCHANGED <<env, shared, tl, tlInit, call, lnt, calls>>

LoadNumThreads(t) ==
  /\ Goto(t, "loadNt", "loadWays")
  /\ lnt' = [lnt EXCEPT ![t] = lib_num_threads]
  /\ UNCHANGED <<env, shared, tl, tlInit, call, res, calls>>

\* Mutant: an empty library setting is taken for a torn one and read again.
LoadWaysRetries(t) ==
  LET cfg == SourceConfig(lnt[t], UnpackIc(lib_packed_ways), UnpackJc(lib_packed_ways))
  IN  /\ pc[t] = "loadWays"
      /\ \/ /\ cfg # Unset
            /\ Return(t, cfg, FALSE)
            /\ pc' = [pc EXCEPT ![t] = "idle"]
         \/ /\ cfg = Unset
            /\ pc' = [pc EXCEPT ![t] = "ext1"]
            /\ UNCHANGED res
      /\ UNCHANGED <<env, shared, tl, tlInit, call, lnt, calls>>

\* Priority 2.
LoadWays(t) ==
  LET cfg == SourceConfig(lnt[t], UnpackIc(lib_packed_ways), UnpackJc(lib_packed_ways))
  IN  /\ pc[t] = "loadWays"
      /\ \/ /\ cfg # Unset
            /\ Return(t, cfg, FALSE)
            /\ pc' = [pc EXCEPT ![t] = "idle"]
         \/ /\ cfg = Unset
            /\ pc' = [pc EXCEPT ![t] = "ext2"]
            /\ UNCHANGED res
      /\ UNCHANGED <<env, shared, tl, tlInit, call, lnt, calls>>

\* Mutant: priority 3 is skipped.
CheckEnvSkipped(t) ==
  /\ Goto(t, "ext2", "fallback")
  /\ UNCHANGED <<env, shared, tl, tlInit, call, lnt, res, calls>>

\* Priority 3: the flag is loaded a second time.
CheckEnv(t) ==
  /\ pc[t] = "ext2"
  /\ \/ /\ ~lib_ext_mt_ctr_var
        /\ EnvConfig # Unset
        /\ Return(t, EnvConfig, FALSE)
        /\ pc' = [pc EXCEPT ![t] = "idle"]
     \/ /\ lib_ext_mt_ctr_var \/ EnvConfig = Unset
        /\ pc' = [pc EXCEPT ![t] = "fallback"]
        /\ UNCHANGED res
  /\ UNCHANGED <<env, shared, tl, tlInit, call, lnt, calls>>

\* Priority 4: OpenMP takes over, for this thread and for the library.
TakeOpenMP(t) ==
  /\ Goto(t, "fallback", "idle")
  /\ env.openmp
  /\ tl' = [tl EXCEPT ![t].ext = TRUE]
  /\ lib_ext_mt_ctr_var' = TRUE
  /\ \E n \in OmpCounts : Return(t, Count(n), TRUE)
  /\ UNCHANGED <<env, once, lib_packed_ways, lib_num_threads, tlInit, call,
                 lnt, calls>>

\* Priority 5: the default of a build without OpenMP.
TakeCores(t) ==
  /\ Goto(t, "fallback", "idle")
  /\ ~env.openmp
  /\ Return(t, Count(NumCores), FALSE)
  /\ UNCHANGED <<env, shared, tl, tlInit, call, lnt, calls>>

----------------------------------------------------------------------------
Call(t) ==
  \/ GetActive(t)
  \/ \E op \in {"setLibNt", "setLocalNt"}, n \in NtArgs : SetNumThreads(t, op, n)
  \/ \E op \in {"setLibWays", "setLocalWays"}, w \in WaysArgs : SetWays(t, op, w)

Step(t) ==
  \/ dlp_init_threading(t) \/ InitThreadLocal(t)
  \/ StoreWays(t) \/ UnsetNumThreads(t) \/ StoreNumThreads(t)
  \/ ClearExternalControl(t) \/ SetLocal(t)
  \/ CheckLocal(t) \/ LoadNumThreads(t) \/ LoadWays(t) \/ CheckEnv(t)
  \/ TakeOpenMP(t) \/ TakeCores(t)

Next == \E t \in Threads : Call(t) \/ Step(t)

\* A thread inside the library keeps running; calling is the caller's choice.
Fairness == \A t \in Threads : WF_vars(Step(t))

Spec == Init /\ [][Next]_vars
FairSpec == Spec /\ Fairness

----------------------------------------------------------------------------
(* Properties.                                                             *)

Pcs == {"idle", "once", "local", "storeWays", "unsetNt", "storeNt", "clearExt",
        "ext1", "loadNt", "loadWays", "ext2", "fallback"}
Ops == {"get", "setLibNt", "setLibWays", "setLocalNt", "setLocalWays"}

\* Every variable of the runtime keeps its C type; a running call past
\* dlp_init_threading_once finds the library initialised.
TypeOK ==
  /\ env \in Builds
  /\ once \in BOOLEAN
  /\ lib_packed_ways \in Int
  /\ lib_num_threads \in Int
  /\ lib_ext_mt_ctr_var \in BOOLEAN
  /\ tl \in [Threads -> [nt : Int, ic : Int, jc : Int, ext : BOOLEAN]]
  /\ tlInit \in [Threads -> BOOLEAN]
  /\ pc \in [Threads -> Pcs]
  /\ call \in [Threads -> [op : Ops, jc : Int, ic : Int, nt : Int]]
  /\ lnt \in [Threads -> Int]
  /\ res \in [Threads -> [nt : Int, ic : Int, jc : Int, ext : BOOLEAN, team : BOOLEAN]]
  /\ calls \in [Threads -> Nat]
  /\ \A t \in Threads : pc[t] \notin {"idle", "once"} => once

Returned(t) == res[t] # NoResult
Resolved(t) == [nt |-> res[t].nt, ic |-> res[t].ic, jc |-> res[t].jc]

\* However the loads of dlp_update_threading_priority_order interleave with
\* the stores of the setters, the rntm a caller receives names a positive
\* thread count or two positive ways, never both and never neither: what the
\* *_get_threading heuristics take for granted.
ModesExclusive ==
  \A t \in Threads : Returned(t) =>
    \/ res[t].nt > 0 /\ res[t].ic = -1 /\ res[t].jc = -1
    \/ res[t].nt = -1 /\ res[t].ic > 0 /\ res[t].jc > 0

\* What was said by some caller, by the environment, by OpenMP or by default.
OfferedConfigs ==
  {SourceConfig(-1, w[2], w[1]) : w \in WaysArgs}
    \cup {SourceConfig(n, -1, -1) : n \in NtArgs}
    \cup {Count(n) : n \in OmpCounts} \cup {Count(1)}
    \cup {EnvConfig, Count(NumCores), SingleThread}

\* No resolution returns a configuration nobody asked for: the two ways of a
\* result come from one dlp_thread_set_ways_* call (they are packed into one
\* atomic for that purpose), and packing loses no sign and no bit.
NoTornConfig ==
  \A t \in Threads : Returned(t) => Resolved(t) \in OfferedConfigs

\* A thread that configured itself with a *_local setter gets exactly that,
\* whatever the other threads, the library setting and OpenMP do: the
\* thread-local flag is never set to "external" over a live local setting.
LocalSettingWins ==
  \A t \in Threads :
    LET mine == SourceConfig(tl[t].nt, tl[t].ic, tl[t].jc)
    IN  Returned(t) /\ res[t].team /\ mine # Unset => Resolved(t) = mine

\* OpenMP holds control of the library only in an OpenMP build and only when
\* the DLP_* environment variables configure nothing: with them set, no
\* sequence of set and unset calls ever hands control over.
EnvKeepsControl ==
  lib_ext_mt_ctr_var => env.openmp /\ EnvConfig = Unset

\* Every call into the runtime returns.
CallsReturn == \A t \in Threads : pc[t] # "idle" ~> pc[t] = "idle"

\* "Even in worst case it will be a delayed update" (dlp_runtime.c:313-314):
\* when nobody is inside the library any more and the last call of some
\* thread configured the library, the library's setting is in force.  (Meant
\* for instances in which no caller unsets the library's setting.)
LibrarySettingTakesEffect ==
  (\A t \in Threads : pc[t] = "idle") =>
    ((\E t \in Threads : calls[t] > 0 /\ call[t].op = "setLibNt")
       => ~lib_ext_mt_ctr_var)
=============================================================================
