----------------------- MODULE ThreadRuntimeProofs -----------------------
(***************************************************************************)
(* Proofs about ThreadRuntime for any set of threads, any arguments of the *)
(* setters, any environment and any number of calls.                       *)
(***************************************************************************)
EXTENDS ThreadRuntime, TLAPS

----------------------------------------------------------------------------
(* The integer conversions.                                                *)

\* The word size is a positive integer.
LEMMA WordType == W \in Nat \ {0}
  BY RuntimeAssumption DEF W

\* (int32_t)v is an integer.
LEMMA Int32Type == ASSUME NEW v \in Int PROVE Int32(v) \in Int
<1>1. v % W \in Int
  BY WordType
<1> QED
  BY <1>1, WordType, RuntimeAssumption DEF Int32, Signed

\* Packing two ways gives an integer.
LEMMA PackType == ASSUME NEW ic \in Int, NEW jc \in Int
                  PROVE  dlp_pack_ways(ic, jc) \in Int
<1>1. ic % W \in Int /\ jc % W \in Int
  BY WordType
<1>2. W * W \in Int /\ W * Half \in Int /\ (jc % W) * W \in Int
  BY <1>1, WordType, RuntimeAssumption
<1> QED
  BY <1>1, <1>2 DEF dlp_pack_ways

\* Unpacking an int64_t gives integers.
LEMMA UnpackType == ASSUME NEW p \in Int
                    PROVE  UnpackIc(p) \in Int /\ UnpackJc(p) \in Int
<1>1. W * W \in Nat \ {0}
  BY WordType
<1>2. p % (W * W) \in Int
  BY <1>1
<1>3. (p % (W * W)) % W \in Int /\ (p % (W * W)) \div W \in Int
  BY <1>2, WordType
<1> QED
  BY <1>3, WordType, RuntimeAssumption DEF UnpackIc, UnpackJc, Signed

----------------------------------------------------------------------------
(* Configurations.                                                         *)

\* A configuration in exactly one of the two modes.
OneMode(c) == \/ c.nt > 0 /\ c.ic = -1 /\ c.jc = -1
              \/ c.nt = -1 /\ c.ic > 0 /\ c.jc > 0

\* What a source contributes is unset or in exactly one mode.
LEMMA SourceConfigMode ==
  ASSUME NEW nt \in Int, NEW ic \in Int, NEW jc \in Int
  PROVE  /\ SourceConfig(nt, ic, jc) \in Config
         /\ SourceConfig(nt, ic, jc) # Unset => OneMode(SourceConfig(nt, ic, jc))
  BY DEF SourceConfig, Ways, Count, Unset, Config, OneMode, AtLeastOne

\* The environment's configuration is unset or in exactly one mode.
LEMMA EnvConfigMode ==
  ASSUME env \in Builds
  PROVE  EnvConfig \in Config /\ (EnvConfig # Unset => OneMode(EnvConfig))
  BY SourceConfigMode, RuntimeAssumption DEF EnvConfig

\* A configuration in one mode is not the initial, empty result.
LEMMA ReturnMode ==
  ASSUME NEW t \in Threads, NEW cfg \in Config, NEW ext \in BOOLEAN,
         TypeOK, OneMode(cfg), Return(t, cfg, ext)
  PROVE  /\ res' \in [Threads -> [nt : Int, ic : Int, jc : Int,
                                  ext : BOOLEAN, team : BOOLEAN]]
         /\ OneMode(res'[t])
         /\ \A u \in Threads \ {t} : res'[u] = res[u]
         /\ res'[t].team => /\ res'[t].nt = cfg.nt
                            /\ res'[t].ic = cfg.ic
                            /\ res'[t].jc = cfg.jc
<1>1. PICK team \in BOOLEAN :
        LET out == IF team THEN cfg ELSE SingleThread
        IN  res' = [res EXCEPT ![t] = [nt |-> out.nt, ic |-> out.ic, jc |-> out.jc,
                                       ext |-> ext, team |-> team]]
  BY Zenon DEF Return
<1>2. SingleThread \in Config /\ OneMode(SingleThread)
  BY DEF SingleThread, Ways, Config, OneMode
<1> QED
  BY <1>1, <1>2 DEF TypeOK, OneMode, Config

----------------------------------------------------------------------------
(* The inductive invariant.                                                *)

Mine(t) == SourceConfig(tl[t].nt, tl[t].ic, tl[t].jc)
PastLocal == {"loadNt", "loadWays", "ext2", "fallback"}

\* While a call runs it has no result yet, and its thread is initialised once
\* it is past dlp_init_threading_once.
CallInv(t) ==
  /\ pc[t] # "idle" => res[t] = NoResult
  /\ pc[t] \notin {"idle", "once"} => ~tlInit[t]

\* A thread whose record says "external" has no live local setting, and
\* neither has one that went past priority 1.
LocalInv(t) ==
  /\ tlInit[t] \/ tl[t].ext \/ pc[t] \in PastLocal => Mine(t) = Unset
  /\ Returned(t) /\ res[t].team /\ Mine(t) # Unset => Resolved(t) = Mine(t)

\* Only an unconfigured environment lets a call reach priority 4.
FallbackInv(t) == pc[t] = "fallback" => EnvConfig = Unset

IInv ==
  /\ TypeOK
  /\ ModesExclusive
  /\ EnvKeepsControl
  /\ \A t \in Threads : CallInv(t) /\ LocalInv(t) /\ FallbackInv(t)

\* The initial state satisfies the invariant.
LEMMA InitIInv == Init => IInv
<1> SUFFICES ASSUME Init PROVE IInv
  OBVIOUS
<1>1. TypeOK
  <2>1. tl \in [Threads -> [nt : Int, ic : Int, jc : Int, ext : BOOLEAN]]
    BY DEF Init
  <2>2. /\ pc \in [Threads -> Pcs]
        /\ call \in [Threads -> [op : Ops, jc : Int, ic : Int, nt : Int]]
    BY DEF Init, Pcs, Ops
  <2>3. res \in [Threads -> [nt : Int, ic : Int, jc : Int, ext : BOOLEAN, team : BOOLEAN]]
    BY DEF Init, NoResult
  <2>4. /\ lib_packed_ways \in Int /\ lib_num_threads \in Int
        /\ lnt \in [Threads -> Int] /\ calls \in [Threads -> Nat]
    BY DEF Init
  <2>5. /\ env \in Builds /\ once \in BOOLEAN /\ lib_ext_mt_ctr_var \in BOOLEAN
        /\ tlInit \in [Threads -> BOOLEAN]
        /\ \A t \in Threads : pc[t] \notin {"idle", "once"} => once
    BY DEF Init
  <2> QED
    BY <2>1, <2>2, <2>3, <2>4, <2>5 DEF TypeOK
<1>2. ModesExclusive /\ EnvKeepsControl
  BY DEF Init, ModesExclusive, EnvKeepsControl, Returned
<1>3. ASSUME NEW t \in Threads
      PROVE  CallInv(t) /\ LocalInv(t) /\ FallbackInv(t)
  BY DEF Init, CallInv, LocalInv, FallbackInv, Mine, SourceConfig, Unset,
         Returned, PastLocal
<1> QED
  BY <1>1, <1>2, <1>3 DEF IInv

\* A step of one thread keeps the other threads' share of the invariant when
\* it leaves their local state and the environment alone.
LEMMA OtherThreads ==
  ASSUME IInv, env' = env, NEW t \in Threads, NEW u \in Threads, u # t,
         pc'[u] = pc[u], res'[u] = res[u], tl'[u] = tl[u], tlInit'[u] = tlInit[u]
  PROVE  CallInv(u)' /\ LocalInv(u)' /\ FallbackInv(u)'
<1>1. Mine(u)' = Mine(u) /\ EnvConfig' = EnvConfig
  BY DEF Mine, EnvConfig
<1> QED
  BY <1>1 DEF IInv, CallInv, LocalInv, FallbackInv, Returned, Resolved

\* Entering the library: the result is cleared, nothing else moves.
LEMMA EnterIInv ==
  ASSUME IInv, NEW t \in Threads, NEW op \in Ops,
         NEW jc \in Int, NEW ic \in Int, NEW nt \in Int, Enter(t, op, jc, ic, nt)
  PROVE  IInv'
<1>1. TypeOK'
  BY DEF IInv, Enter, TypeOK, NormArg, Pcs, Ops, NoResult, shared
<1>2. ModesExclusive'
  BY DEF IInv, Enter, ModesExclusive, Returned, TypeOK
<1>3. EnvKeepsControl'
  BY DEF IInv, Enter, EnvKeepsControl, EnvConfig, shared
<1>4. CallInv(t)' /\ LocalInv(t)' /\ FallbackInv(t)'
  BY DEF IInv, Enter, CallInv, LocalInv, FallbackInv, Returned, Mine, PastLocal,
         TypeOK, NoResult
<1>5. ASSUME NEW u \in Threads, u # t
      PROVE  CallInv(u)' /\ LocalInv(u)' /\ FallbackInv(u)'
  <2>1. pc'[u] = pc[u] /\ res'[u] = res[u] /\ tl'[u] = tl[u] /\ tlInit'[u] = tlInit[u]
        /\ env' = env
    BY <1>5 DEF IInv, Enter, TypeOK
  <2> QED
    BY <1>5, <2>1, OtherThreads
<1> QED
  BY <1>1, <1>2, <1>3, <1>4, <1>5 DEF IInv

\* The one-time initialisation.
LEMMA InitThreadingIInv ==
  ASSUME IInv, NEW t \in Threads, dlp_init_threading(t)
  PROVE  IInv'
<1>0. EnvConfig \in Config /\ Int32(EnvConfig.ic) \in Int /\ Int32(EnvConfig.jc) \in Int
  BY EnvConfigMode, Int32Type DEF IInv, TypeOK, Config
<1>1. TypeOK'
  <2>1. lib_num_threads' \in Int /\ lib_packed_ways' \in Int
    <3>1. dlp_pack_ways(-1, -1) \in Int
          /\ dlp_pack_ways(Int32(EnvConfig.ic), Int32(EnvConfig.jc)) \in Int
      BY <1>0, PackType
    <3>2. EnvConfig.nt \in Int /\ NumCores \in Int /\ OmpCounts \cup {1} \subseteq Int
      BY <1>0, RuntimeAssumption DEF Config
    <3> QED
      BY <3>1, <3>2 DEF dlp_init_threading
  <2>2. lib_ext_mt_ctr_var' \in BOOLEAN
    BY Zenon DEF dlp_init_threading
  <2> QED
    BY <2>1, <2>2 DEF IInv, dlp_init_threading, TypeOK
<1>2. ModesExclusive' /\ EnvKeepsControl'
  BY DEF IInv, dlp_init_threading, ModesExclusive, Returned, EnvKeepsControl, EnvConfig
<1>3. ASSUME NEW u \in Threads PROVE CallInv(u)' /\ LocalInv(u)' /\ FallbackInv(u)'
  BY DEF IInv, dlp_init_threading, CallInv, LocalInv, FallbackInv, Returned, Resolved,
         Mine, EnvConfig
<1> QED
  BY <1>1, <1>2, <1>3 DEF IInv

\* The thread-local half of the initialisation.
LEMMA InitThreadLocalIInv ==
  ASSUME IInv, NEW t \in Threads, InitThreadLocal(t)
  PROVE  IInv'
<1>1. FirstStep(call[t].op) \in Pcs \ ({"idle", "once"} \cup PastLocal)
  <2>1. call[t].op \in Ops
    BY DEF IInv, TypeOK
  <2> QED
    BY <2>1 DEF FirstStep, Pcs, Ops, PastLocal
<1>2. TypeOK'
  BY <1>1 DEF IInv, InitThreadLocal, TypeOK, shared
<1>3. ModesExclusive' /\ EnvKeepsControl'
  BY DEF IInv, InitThreadLocal, ModesExclusive, Returned, EnvKeepsControl, EnvConfig, shared
<1>4. CallInv(t)' /\ LocalInv(t)' /\ FallbackInv(t)'
  <2>1. Mine(t)' = Mine(t) /\ (tlInit[t] \/ tl'[t].ext => Mine(t) = Unset)
    BY DEF IInv, InitThreadLocal, LocalInv, Mine, TypeOK
  <2> QED
    BY <1>1, <2>1 DEF IInv, InitThreadLocal, CallInv, LocalInv, FallbackInv, Returned,
       Resolved, PastLocal, TypeOK
<1>5. ASSUME NEW u \in Threads, u # t
      PROVE  CallInv(u)' /\ LocalInv(u)' /\ FallbackInv(u)'
  <2>1. pc'[u] = pc[u] /\ res'[u] = res[u] /\ tl'[u] = tl[u] /\ tlInit'[u] = tlInit[u]
        /\ env' = env
    BY <1>5 DEF IInv, InitThreadLocal, TypeOK
  <2> QED
    BY <1>5, <2>1, OtherThreads
<1> QED
  BY <1>2, <1>3, <1>4, <1>5 DEF IInv

\* The stores of the library setters.
LEMMA LibrarySetterIInv ==
  ASSUME IInv, NEW t \in Threads,
         \/ StoreWays(t) \/ UnsetNumThreads(t)
         \/ StoreNumThreads(t) \/ ClearExternalControl(t)
  PROVE  IInv'
<1> DEFINE A == \/ StoreWays(t) \/ UnsetNumThreads(t)
                \/ StoreNumThreads(t) \/ ClearExternalControl(t)
<1>1. /\ UNCHANGED <<env, once, tl, tlInit, call, lnt, res, calls>>
      /\ pc[t] \in {"storeWays", "unsetNt", "storeNt", "clearExt"}
      /\ \E to \in {"unsetNt", "clearExt", "idle"} : pc' = [pc EXCEPT ![t] = to]
      /\ lib_ext_mt_ctr_var' = lib_ext_mt_ctr_var \/ lib_ext_mt_ctr_var' = FALSE
  BY DEF StoreWays, UnsetNumThreads, StoreNumThreads, ClearExternalControl, Goto
<1>2. lib_num_threads' \in Int /\ lib_packed_ways' \in Int
  <2>1. call[t].ic \in Int /\ call[t].jc \in Int /\ call[t].nt \in Int
    BY DEF IInv, TypeOK
  <2>2. dlp_pack_ways(Int32(call[t].ic), Int32(call[t].jc)) \in Int
    BY <2>1, Int32Type, PackType
  <2> QED
    BY <2>1, <2>2 DEF IInv, TypeOK, StoreWays, UnsetNumThreads, StoreNumThreads,
       ClearExternalControl
<1>3. lib_ext_mt_ctr_var' \in BOOLEAN
  BY <1>1, Zenon DEF IInv, TypeOK
<1>4. PICK to \in {"unsetNt", "clearExt", "idle"} : pc' = [pc EXCEPT ![t] = to]
  BY <1>1
<1>5. TypeOK'
  BY <1>1, <1>2, <1>3, <1>4 DEF IInv, TypeOK, Pcs
<1>6. ModesExclusive'
  BY <1>1 DEF IInv, ModesExclusive, Returned
<1>7. EnvKeepsControl'
  <2>1. EnvConfig' = EnvConfig /\ env' = env
    BY <1>1 DEF EnvConfig
  <2> QED
    BY <1>1, <2>1 DEF IInv, EnvKeepsControl
<1>8. CallInv(t)' /\ LocalInv(t)' /\ FallbackInv(t)'
  BY <1>1, <1>4 DEF IInv, CallInv, LocalInv, FallbackInv, Returned, Resolved, Mine,
     PastLocal, TypeOK
<1>9. ASSUME NEW u \in Threads, u # t
      PROVE  CallInv(u)' /\ LocalInv(u)' /\ FallbackInv(u)'
  <2>1. pc'[u] = pc[u] /\ res'[u] = res[u] /\ tl'[u] = tl[u] /\ tlInit'[u] = tlInit[u]
        /\ env' = env
    BY <1>1, <1>4, <1>9 DEF IInv, TypeOK
  <2> QED
    BY <1>9, <2>1, OtherThreads
<1> QED
  BY <1>5, <1>6, <1>7, <1>8, <1>9 DEF IInv

\* The local setters.
LEMMA SetLocalIInv ==
  ASSUME IInv, NEW t \in Threads, SetLocal(t)
  PROVE  IInv'
<1>1. tl' \in [Threads -> [nt : Int, ic : Int, jc : Int, ext : BOOLEAN]]
      /\ tl'[t].ext = FALSE
  <2>1. call[t].ic \in Int /\ call[t].jc \in Int /\ call[t].nt \in Int
        /\ tl[t].ic \in Int /\ tl[t].jc \in Int
    BY DEF IInv, TypeOK
  <2>2. CASE call[t].op = "setLocalWays"
    BY <2>1, <2>2 DEF IInv, TypeOK, SetLocal
  <2>3. CASE call[t].op # "setLocalWays"
    BY <2>1, <2>3 DEF IInv, TypeOK, SetLocal
  <2> QED
    BY <2>2, <2>3
<1>2. TypeOK'
  BY <1>1 DEF IInv, SetLocal, Goto, TypeOK, Pcs, shared
<1>3. ModesExclusive' /\ EnvKeepsControl'
  BY DEF IInv, SetLocal, ModesExclusive, Returned, EnvKeepsControl, EnvConfig, shared
<1>4. CallInv(t)' /\ LocalInv(t)' /\ FallbackInv(t)'
  <2>1. res'[t] = NoResult /\ ~tlInit'[t] /\ pc'[t] = "idle"
    BY DEF IInv, SetLocal, Goto, CallInv, TypeOK
  <2> QED
    BY <1>1, <2>1 DEF CallInv, LocalInv, FallbackInv, Returned, PastLocal
<1>5. ASSUME NEW u \in Threads, u # t
      PROVE  CallInv(u)' /\ LocalInv(u)' /\ FallbackInv(u)'
  <2>1. pc'[u] = pc[u] /\ res'[u] = res[u] /\ tl'[u] = tl[u] /\ tlInit'[u] = tlInit[u]
        /\ env' = env
    BY <1>5 DEF IInv, SetLocal, Goto, TypeOK
  <2> QED
    BY <1>5, <2>1, OtherThreads
<1> QED
  BY <1>2, <1>3, <1>4, <1>5 DEF IInv

\* A resolution that returns: a source in one mode, which is the thread's own
\* if the thread has one.
LEMMA ReturnIInv ==
  ASSUME IInv, NEW t \in Threads, NEW cfg \in Config, NEW ext \in BOOLEAN,
         OneMode(cfg), Mine(t) # Unset => cfg = Mine(t),
         Return(t, cfg, ext), pc[t] \notin {"idle", "once"},
         pc' = [pc EXCEPT ![t] = "idle"],
         UNCHANGED <<env, once, lib_packed_ways, lib_num_threads, tlInit, call, lnt, calls>>,
         \/ UNCHANGED <<tl, lib_ext_mt_ctr_var>>
         \/ /\ Mine(t) = Unset /\ env.openmp /\ EnvConfig = Unset
            /\ tl' = [tl EXCEPT ![t].ext = TRUE] /\ lib_ext_mt_ctr_var' = TRUE
  PROVE  IInv'
<1>1. /\ res' \in [Threads -> [nt : Int, ic : Int, jc : Int, ext : BOOLEAN, team : BOOLEAN]]
      /\ OneMode(res'[t])
      /\ \A u \in Threads \ {t} : res'[u] = res[u]
      /\ res'[t].team => res'[t].nt = cfg.nt /\ res'[t].ic = cfg.ic /\ res'[t].jc = cfg.jc
  BY ReturnMode DEF IInv
<1>2. /\ tl' \in [Threads -> [nt : Int, ic : Int, jc : Int, ext : BOOLEAN]]
      /\ \A u \in Threads \ {t} : tl'[u] = tl[u]
      /\ tl'[t].nt = tl[t].nt /\ tl'[t].ic = tl[t].ic /\ tl'[t].jc = tl[t].jc
      /\ tl'[t].ext => Mine(t) = Unset
  <2>1. CASE tl' = tl
    BY <2>1 DEF IInv, TypeOK, LocalInv
  <2>2. CASE tl' = [tl EXCEPT ![t].ext = TRUE] /\ Mine(t) = Unset
    <3> DEFINE r == [tl[t] EXCEPT !.ext = TRUE]
    <3>1. tl[t] \in [nt : Int, ic : Int, jc : Int, ext : BOOLEAN]
      BY DEF IInv, TypeOK
    <3>2. /\ r \in [nt : Int, ic : Int, jc : Int, ext : BOOLEAN]
          /\ r.nt = tl[t].nt /\ r.ic = tl[t].ic /\ r.jc = tl[t].jc
      BY <3>1
    <3> HIDE DEF r
    <3>3. tl' = [tl EXCEPT ![t] = r]
      BY <2>2, Zenon DEF r
    <3> QED
      BY <2>2, <3>2, <3>3 DEF IInv, TypeOK
  <2> QED
    BY <2>1, <2>2
<1>3. Mine(t)' = Mine(t) /\ EnvConfig' = EnvConfig /\ env' = env
  BY <1>2 DEF Mine, EnvConfig
<1>4. TypeOK'
  <2>1. lib_ext_mt_ctr_var' \in BOOLEAN
    BY Zenon DEF IInv, TypeOK
  <2> QED
    BY <1>1, <1>2, <2>1 DEF IInv, TypeOK, Pcs
<1>5. ModesExclusive'
  BY <1>1 DEF IInv, ModesExclusive, OneMode, Returned
<1>6. EnvKeepsControl'
  BY <1>3 DEF IInv, EnvKeepsControl
<1>7. CallInv(t)' /\ LocalInv(t)' /\ FallbackInv(t)'
  <2>1. pc'[t] = "idle" /\ ~tlInit'[t]
    BY DEF IInv, TypeOK, CallInv
  <2>2. res'[t].team /\ Mine(t) # Unset => Resolved(t)' = Mine(t)
    BY <1>1 DEF Resolved, Config
  <2> QED
    BY <1>2, <1>3, <2>1, <2>2 DEF CallInv, LocalInv, FallbackInv, PastLocal
<1>8. ASSUME NEW u \in Threads, u # t
      PROVE  CallInv(u)' /\ LocalInv(u)' /\ FallbackInv(u)'
  <2>1. pc'[u] = pc[u] /\ res'[u] = res[u] /\ tl'[u] = tl[u] /\ tlInit'[u] = tlInit[u]
    BY <1>1, <1>2, <1>8 DEF IInv, TypeOK
  <2> QED
    BY <1>3, <1>8, <2>1, OtherThreads
<1> QED
  BY <1>4, <1>5, <1>6, <1>7, <1>8 DEF IInv

\* A resolution that moves on to the next source.
LEMMA MoveOnIInv ==
  ASSUME IInv, NEW t \in Threads, NEW to \in PastLocal,
         Mine(t) = Unset, to = "fallback" => EnvConfig = Unset,
         pc[t] \notin {"idle", "once"}, pc' = [pc EXCEPT ![t] = to],
         lnt' \in [Threads -> Int],
         UNCHANGED <<env, once, lib_packed_ways, lib_num_threads, lib_ext_mt_ctr_var,
                     tl, tlInit, call, res, calls>>
  PROVE  IInv'
<1>1. TypeOK'
  BY DEF IInv, TypeOK, Pcs, PastLocal
<1>2. ModesExclusive' /\ EnvKeepsControl'
  BY DEF IInv, ModesExclusive, Returned, EnvKeepsControl, EnvConfig
<1>3. CallInv(t)' /\ LocalInv(t)' /\ FallbackInv(t)'
  BY DEF IInv, TypeOK, CallInv, LocalInv, FallbackInv, Mine, EnvConfig, Returned
<1>4. ASSUME NEW u \in Threads, u # t
      PROVE  CallInv(u)' /\ LocalInv(u)' /\ FallbackInv(u)'
  <2>1. pc'[u] = pc[u]
    BY <1>4 DEF IInv, TypeOK
  <2> QED
    BY <1>4, <2>1, OtherThreads
<1> QED
  BY <1>1, <1>2, <1>3, <1>4 DEF IInv

\* The five sources of dlp_update_threading_priority_order.
LEMMA ResolveIInv ==
  ASSUME IInv, NEW t \in Threads,
         \/ CheckLocal(t) \/ LoadNumThreads(t) \/ LoadWays(t) \/ CheckEnv(t)
         \/ TakeOpenMP(t) \/ TakeCores(t)
  PROVE  IInv'
<1>0. Mine(t) \in Config /\ (Mine(t) # Unset => OneMode(Mine(t)))
  BY SourceConfigMode DEF IInv, TypeOK, Mine
<1>1. CASE CheckLocal(t)
  <2>1. LocalConfig(t) = IF tl[t].ext THEN Unset ELSE Mine(t)
    BY DEF LocalConfig, Mine
  <2>2. LocalConfig(t) = Mine(t)
    BY <2>1 DEF IInv, LocalInv
  <2>3. CASE LocalConfig(t) # Unset
    BY <1>0, <1>1, <2>2, <2>3, ReturnIInv DEF CheckLocal, shared
  <2>4. CASE LocalConfig(t) = Unset
    <3>1. PICK to \in PastLocal \ {"fallback"} : pc' = [pc EXCEPT ![t] = to]
      BY <1>1, <2>4 DEF CheckLocal, PastLocal
    <3>2. lnt' \in [Threads -> Int]
      BY <1>1 DEF CheckLocal, IInv, TypeOK
    <3> QED
      BY <1>1, <2>2, <2>4, <3>1, <3>2, MoveOnIInv DEF CheckLocal, shared
  <2> QED
    BY <2>3, <2>4
<1>2. CASE LoadNumThreads(t)
  <2>1. lnt' \in [Threads -> Int]
    BY <1>2 DEF LoadNumThreads, IInv, TypeOK
  <2>2. Mine(t) = Unset
    BY <1>2 DEF LoadNumThreads, Goto, IInv, LocalInv, PastLocal
  <2> QED
    BY <1>2, <2>1, <2>2, MoveOnIInv DEF LoadNumThreads, Goto, PastLocal, shared
<1>3. CASE LoadWays(t)
  <2> DEFINE cfg == SourceConfig(lnt[t], UnpackIc(lib_packed_ways), UnpackJc(lib_packed_ways))
  <2>1. cfg \in Config /\ (cfg # Unset => OneMode(cfg))
    BY UnpackType, SourceConfigMode DEF IInv, TypeOK
  <2>2. Mine(t) = Unset
    BY <1>3 DEF LoadWays, IInv, LocalInv, PastLocal
  <2>3. lnt' \in [Threads -> Int]
    BY <1>3 DEF LoadWays, IInv, TypeOK
  <2>4. CASE cfg # Unset
    BY <1>3, <2>1, <2>2, <2>4, ReturnIInv DEF LoadWays, shared
  <2>5. CASE cfg = Unset
    BY <1>3, <2>2, <2>3, <2>5, MoveOnIInv DEF LoadWays, PastLocal, shared
  <2> QED
    BY <2>4, <2>5
<1>4. CASE CheckEnv(t)
  <2>1. EnvConfig \in Config /\ (EnvConfig # Unset => OneMode(EnvConfig))
    BY EnvConfigMode DEF IInv, TypeOK
  <2>2. Mine(t) = Unset
    BY <1>4 DEF CheckEnv, IInv, LocalInv, PastLocal
  <2>3. lnt' \in [Threads -> Int]
    BY <1>4 DEF CheckEnv, IInv, TypeOK
  <2>4. CASE ~lib_ext_mt_ctr_var /\ EnvConfig # Unset
    BY <1>4, <2>1, <2>2, <2>4, ReturnIInv DEF CheckEnv, shared
  <2>5. CASE lib_ext_mt_ctr_var \/ EnvConfig = Unset
    <3>1. EnvConfig = Unset
      BY <2>5 DEF IInv, EnvKeepsControl
    <3> QED
      BY <1>4, <2>2, <2>3, <2>5, <3>1, MoveOnIInv DEF CheckEnv, PastLocal, shared
  <2> QED
    BY <2>4, <2>5
<1>5. CASE TakeOpenMP(t)
  <2>1. PICK n \in OmpCounts : Return(t, Count(n), TRUE)
    BY <1>5 DEF TakeOpenMP
  <2>2. Count(n) \in Config /\ OneMode(Count(n))
    BY RuntimeAssumption DEF Count, Config, OneMode
  <2>3. Mine(t) = Unset /\ EnvConfig = Unset
    BY <1>5 DEF TakeOpenMP, Goto, IInv, LocalInv, FallbackInv, PastLocal
  <2> QED
    BY <1>5, <2>1, <2>2, <2>3, ReturnIInv DEF TakeOpenMP, Goto
<1>6. CASE TakeCores(t)
  <2>1. Count(NumCores) \in Config /\ OneMode(Count(NumCores))
    BY RuntimeAssumption DEF Count, Config, OneMode
  <2>2. Mine(t) = Unset
    BY <1>6 DEF TakeCores, Goto, IInv, LocalInv, PastLocal
  <2> QED
    BY <1>6, <2>1, <2>2, ReturnIInv DEF TakeCores, Goto, shared
<1> QED
  BY <1>1, <1>2, <1>3, <1>4, <1>5, <1>6

----------------------------------------------------------------------------
\* Every step keeps the invariant.
LEMMA NextIInv == IInv /\ [Next]_vars => IInv'
<1> SUFFICES ASSUME IInv, [Next]_vars PROVE IInv'
  OBVIOUS
<1>1. CASE UNCHANGED vars
  BY <1>1 DEF vars, IInv, TypeOK, ModesExclusive, EnvKeepsControl, EnvConfig, CallInv,
     LocalInv, FallbackInv, Mine, Returned, Resolved
<1>2. ASSUME NEW t \in Threads, Call(t) PROVE IInv'
  <2>1. CASE GetActive(t)
    BY <2>1, EnterIInv DEF GetActive, Ops
  <2>2. CASE \E op \in {"setLibNt", "setLocalNt"}, n \in NtArgs : SetNumThreads(t, op, n)
    BY <2>2, EnterIInv, RuntimeAssumption DEF SetNumThreads, Ops
  <2>3. CASE \E op \in {"setLibWays", "setLocalWays"}, w \in WaysArgs : SetWays(t, op, w)
    BY <2>3, EnterIInv, RuntimeAssumption DEF SetWays, Ops
  <2> QED
    BY <1>2, <2>1, <2>2, <2>3 DEF Call
<1>3. ASSUME NEW t \in Threads, Step(t) PROVE IInv'
  BY <1>3, InitThreadingIInv, InitThreadLocalIInv, LibrarySetterIInv, SetLocalIInv,
     ResolveIInv DEF Step
<1> QED
  BY <1>1, <1>2, <1>3 DEF Next

\* The inductive invariant holds in every reachable state.
LEMMA SpecIInv == Spec => []IInv
  BY InitIInv, NextIInv, PTL DEF Spec

\* The runtime's variables keep their types (dlp_runtime.c as a whole).
THEOREM RuntimeTypeCorrect == Spec => []TypeOK
<1>1. IInv => TypeOK
  BY DEF IInv
<1> QED
  BY <1>1, SpecIInv, PTL

\* Whatever the interleaving of the setters' stores with the resolution's
\* loads, dlp_update_threading_priority_order yields a count or ways, never a
\* mixture.
THEOREM ResolutionModesExclusive == Spec => []ModesExclusive
<1>1. IInv => ModesExclusive
  BY DEF IInv
<1> QED
  BY <1>1, SpecIInv, PTL

\* A live thread-local setting is what its thread resolves to.
THEOREM ResolutionLocalWins == Spec => []LocalSettingWins
<1>1. IInv => LocalSettingWins
  BY DEF IInv, LocalInv, LocalSettingWins, Mine
<1> QED
  BY <1>1, SpecIInv, PTL

\* A configured environment is never overruled by OpenMP, however often the
\* library's setting is set and unset.
THEOREM EnvironmentKeepsControl == Spec => []EnvKeepsControl
<1>1. IInv => EnvKeepsControl
  BY DEF IInv
<1> QED
  BY <1>1, SpecIInv, PTL

----------------------------------------------------------------------------
(* No configuration is put together from two.  The two ways are stored and *)
(* loaded as one int64_t, so it comes down to packing losing nothing.      *)

\* Quotient and remainder of an integer, negative ones included.
LEMMA DivModInt ==
  ASSUME NEW x \in Int, NEW d \in Nat \ {0}
  PROVE  /\ x \div d \in Int /\ x % d \in Nat
         /\ x % d < d /\ x = (x \div d) * d + (x % d)
<1> DEFINE q == x \div d
           r == x % d
<1>1. q \in Int /\ r \in Int /\ 0 <= r /\ r < d /\ x = d * q + r
  OBVIOUS
<1> HIDE DEF q, r
<1>2. r \in Nat /\ x = q * d + r
  BY <1>1
<1> QED
  BY <1>1, <1>2 DEF q, r

\* Quotient and remainder are determined by what they satisfy.
LEMMA DivUniqueInt ==
  ASSUME NEW q \in Int, NEW d \in Nat \ {0}, NEW r \in Nat, r < d
  PROVE  (q * d + r) \div d = q /\ (q * d + r) % d = r
<1> DEFINE x == q * d + r
           p == x \div d
           e == x % d
<1>1. x \in Int
  OBVIOUS
<1>2. p \in Int /\ e \in Nat /\ e < d /\ x = p * d + e
  BY <1>1, DivModInt
<1>3. q * d + r = p * d + e
  BY <1>2
<1> HIDE DEF x, p, e
<1>4. (q - p) * d = e - r
  BY <1>2, <1>3
<1>5. q - p < 1
  BY <1>2, <1>4
<1>6. q - p > -1
  BY <1>2, <1>4
<1>7. q = p
  BY <1>2, <1>5, <1>6
<1>8. e = r
  BY <1>2, <1>4, <1>7
<1> QED
  BY <1>7, <1>8 DEF p, e, x

\* The values of an int32_t.
Words == -Half .. Half - 1

\* The cast to unsigned and back keeps an int32_t.
LEMMA SignedBack ==
  ASSUME NEW v \in Words
  PROVE  v % W \in Nat /\ v % W < W /\ Signed(v % W) = v
<1>0. Half \in Nat \ {0} /\ W = 2 * Half /\ W \in Nat \ {0} /\ v \in Int
      /\ -Half <= v /\ v < Half
  BY RuntimeAssumption DEF W, Words
<1>1. CASE v >= 0
  <2>1. v \in Nat /\ v < W /\ 0 * W + v = v
    BY <1>0, <1>1
  <2>2. (0 * W + v) % W = v
    BY <1>0, <2>1, DivUniqueInt
  <2>3. v % W = v
    BY <2>1, <2>2
  <2> QED BY <1>0, <2>1, <2>3 DEF Signed
<1>2. CASE v < 0
  <2> DEFINE r == v + W
  <2>1. r \in Nat /\ r < W /\ (-1) * W + r = v /\ r >= Half
    BY <1>0, <1>2
  <2> HIDE DEF r
  <2>2. ((-1) * W + r) % W = r
    BY <1>0, <2>1, DivUniqueInt
  <2>3. v % W = r
    BY <2>1, <2>2
  <2>4. r - W = v
    BY <1>0 DEF r
  <2> QED BY <1>0, <2>1, <2>3, <2>4 DEF Signed
<1> QED BY <1>0, <1>1, <1>2

\* Two int32_t come out of the int64_t as they went in.
LEMMA PackUnpack ==
  ASSUME NEW ic \in Words, NEW jc \in Words
  PROVE  UnpackIc(dlp_pack_ways(ic, jc)) = ic /\ UnpackJc(dlp_pack_ways(ic, jc)) = jc
<1> DEFINE a == ic % W
           b == jc % W
           u == b * W + a
           p == dlp_pack_ways(ic, jc)
<1>1. a \in Nat /\ a < W /\ Signed(a) = ic /\ b \in Nat /\ b < W /\ Signed(b) = jc
  BY SignedBack
<1>2. p = IF u >= W * Half THEN u - W * W ELSE u
  BY DEF dlp_pack_ways
<1>w. W \in Nat \ {0} /\ Half \in Nat
  BY WordType, RuntimeAssumption
<1> HIDE DEF a, b, p
<1>3. u \div W = b /\ u % W = a
  BY <1>1, <1>w, DivUniqueInt
<1>4. u \in Nat /\ u < W * W
  <2>1. b + 1 <= W /\ W - (b + 1) \in Nat
    BY <1>1, <1>w
  <2>2. (W - (b + 1)) * W \in Nat
    BY <1>w, <2>1
  <2>3. (W - (b + 1)) * W = W * W - (b * W + W)
    BY <1>1, <1>w
  <2>4. b * W \in Nat /\ W * W \in Nat
    BY <1>1, <1>w
  <2> QED BY <1>1, <1>w, <2>2, <2>3, <2>4
<1>5. W * W \in Nat \ {0}
  BY <1>w
<1> HIDE DEF u
<1>6. p % (W * W) = u
  <2> DEFINE d == W * W
  <2>1. d \in Nat \ {0} /\ u < d
    BY <1>4, <1>5
  <2>2. p = u \/ p = u - d
    BY <1>2
  <2> HIDE DEF d
  <2>3. (0 * d + u) % d = u /\ ((-1) * d + u) % d = u
    BY <1>4, <2>1, DivUniqueInt
  <2>4. 0 * d + u = u /\ (-1) * d + u = u - d
    BY <1>4, <2>1
  <2>5. p % d = u
    BY <2>2, <2>3, <2>4
  <2> QED BY <2>5 DEF d
<1>7. UnpackIc(p) = Signed(a) /\ UnpackJc(p) = Signed(b)
  BY <1>3, <1>6 DEF UnpackIc, UnpackJc
<1> QED BY <1>1, <1>7 DEF p

\* "ic_ways and jc_ways MUST fit in int32_t" (dlp_runtime.c:76): of the
\* setters' arguments RuntimeAssumption says so, here the environment's are to.
WaysFit == \A b \in Builds : b.ic \in Words /\ b.jc \in Words

\* A pair of ways some caller gave in one call, or none; a count somebody gave.
GivenWays(ic, jc) ==
  \/ ic = -1 /\ jc = -1
  \/ \E w \in WaysArgs : ic = NormArg(w[2]) /\ jc = NormArg(w[1])
GivenCount(n) ==
  \/ n = -1 \/ n = EnvConfig.nt \/ n \in OmpCounts \cup {1, NumCores}
  \/ \E m \in NtArgs : n = NormArg(m)

\* What a caller's arguments, the thread's record and the library's atomics
\* hold was given in one piece.
GivenInv ==
  /\ GivenCount(lib_num_threads)
  /\ \/ GivenWays(UnpackIc(lib_packed_ways), UnpackJc(lib_packed_ways))
     \/ UnpackIc(lib_packed_ways) = EnvConfig.ic /\ UnpackJc(lib_packed_ways) = EnvConfig.jc
  /\ \A t \in Threads :
       /\ GivenCount(lnt[t]) /\ GivenCount(call[t].nt) /\ GivenCount(tl[t].nt)
       /\ GivenWays(call[t].ic, call[t].jc) /\ GivenWays(tl[t].ic, tl[t].jc)
  /\ NoTornConfig

\* Counts and ways that were given make a configuration that was.
LEMMA GivenOffered ==
  ASSUME env \in Builds, NEW n \in Int, NEW ic \in Int, NEW jc \in Int, GivenCount(n),
         GivenWays(ic, jc) \/ (ic = EnvConfig.ic /\ jc = EnvConfig.jc),
         SourceConfig(n, ic, jc) # Unset
  PROVE  SourceConfig(n, ic, jc) \in OfferedConfigs
<1>0. EnvConfig \in Config /\ (EnvConfig # Unset => OneMode(EnvConfig))
  BY EnvConfigMode
<1>1. CASE ~(jc > 0 \/ ic > 0)
  <2>1. n > 0 /\ SourceConfig(n, ic, jc) = Count(n)
    BY <1>1 DEF SourceConfig
  <2>2. CASE n = EnvConfig.nt
    <3>1. EnvConfig # Unset
      BY <2>1, <2>2 DEF Unset
    <3>2. EnvConfig.ic = -1 /\ EnvConfig.jc = -1
      BY <1>0, <2>1, <2>2, <3>1 DEF OneMode
    <3>3. Count(n) = EnvConfig
      BY <1>0, <2>2, <3>2 DEF Count, Config
    <3> QED BY <2>1, <3>3 DEF OfferedConfigs
  <2>3. CASE n \in OmpCounts \cup {1, NumCores}
    BY <2>1, <2>3 DEF OfferedConfigs
  <2>4. ASSUME NEW m \in NtArgs, n = NormArg(m) PROVE Count(n) \in OfferedConfigs
    <3>1. m \in Int /\ m = n
      BY <2>1, <2>4, RuntimeAssumption DEF NormArg
    <3>2. SourceConfig(m, -1, -1) = Count(n)
      BY <2>1, <3>1 DEF SourceConfig
    <3>3. SourceConfig(m, -1, -1) \in {SourceConfig(x, -1, -1) : x \in NtArgs}
      OBVIOUS
    <3> QED BY <3>2, <3>3 DEF OfferedConfigs
  <2> QED BY <2>1, <2>2, <2>3, <2>4 DEF GivenCount
<1>2. CASE jc > 0 \/ ic > 0
  <2>1. SourceConfig(n, ic, jc) = Ways(AtLeastOne(ic), AtLeastOne(jc))
    BY <1>2 DEF SourceConfig
  <2>2. CASE ic = EnvConfig.ic /\ jc = EnvConfig.jc
    <3>1. EnvConfig # Unset
      BY <1>2, <2>2 DEF Unset
    <3>2. EnvConfig.nt = -1 /\ ic > 0 /\ jc > 0
      BY <1>0, <1>2, <2>2, <3>1 DEF OneMode
    <3>3. Ways(AtLeastOne(ic), AtLeastOne(jc)) = EnvConfig
      BY <1>0, <2>2, <3>2 DEF Ways, AtLeastOne, Config
    <3> QED BY <2>1, <3>3 DEF OfferedConfigs
  <2>3. CASE GivenWays(ic, jc)
    <3>1. PICK w \in WaysArgs : ic = NormArg(w[2]) /\ jc = NormArg(w[1])
      BY <1>2, <2>3 DEF GivenWays
    <3>2. w[1] \in Int /\ w[2] \in Int
      BY RuntimeAssumption
    <3>3. SourceConfig(-1, w[2], w[1]) = Ways(AtLeastOne(ic), AtLeastOne(jc))
      BY <1>2, <3>1, <3>2 DEF SourceConfig, NormArg, AtLeastOne
    <3>4. SourceConfig(-1, w[2], w[1]) \in {SourceConfig(-1, x[2], x[1]) : x \in WaysArgs}
      OBVIOUS
    <3> QED BY <2>1, <3>3, <3>4 DEF OfferedConfigs
  <2> QED BY <2>2, <2>3
<1> QED BY <1>1, <1>2

\* A resolution that returns an offered configuration keeps NoTornConfig.
LEMMA ReturnOffered ==
  ASSUME IInv, NoTornConfig, env' = env, NEW t \in Threads, NEW cfg \in Config, NEW ext \in BOOLEAN,
         cfg \in OfferedConfigs, Return(t, cfg, ext)
  PROVE  NoTornConfig'
<1>0. res \in [Threads -> [nt : Int, ic : Int, jc : Int, ext : BOOLEAN, team : BOOLEAN]]
  BY DEF IInv, TypeOK
<1>1. PICK team \in BOOLEAN :
        LET out == IF team THEN cfg ELSE SingleThread
        IN  res' = [res EXCEPT ![t] = [nt |-> out.nt, ic |-> out.ic, jc |-> out.jc,
                                       ext |-> ext, team |-> team]]
  BY Zenon DEF Return
<1>2. OfferedConfigs' = OfferedConfigs
  BY DEF OfferedConfigs, EnvConfig
<1>3. SingleThread \in OfferedConfigs /\ SingleThread \in Config
  BY DEF OfferedConfigs, SingleThread, Ways, Config
<1>4. Resolved(t)' \in OfferedConfigs
  <2> DEFINE out == IF team THEN cfg ELSE SingleThread
  <2>1. out \in Config /\ out \in OfferedConfigs
    BY <1>3
  <2>2. res'[t] = [nt |-> out.nt, ic |-> out.ic, jc |-> out.jc, ext |-> ext, team |-> team]
    BY <1>0, <1>1
  <2> HIDE DEF out
  <2>3. Resolved(t)' = [nt |-> out.nt, ic |-> out.ic, jc |-> out.jc]
    BY <2>2 DEF Resolved
  <2>4. [nt |-> out.nt, ic |-> out.ic, jc |-> out.jc] = out
    BY <2>1 DEF Config
  <2> QED BY <2>1, <2>3, <2>4
<1>5. ASSUME NEW u \in Threads, u # t
      PROVE  (Returned(u)' <=> Returned(u)) /\ Resolved(u)' = Resolved(u)
  <2>1. res'[u] = res[u]
    BY <1>0, <1>1, <1>5
  <2> QED BY <2>1 DEF Returned, Resolved
<1> QED BY <1>2, <1>4, <1>5 DEF NoTornConfig

\* The initial value of lib_packed_ways is two unset ways.
LEMMA UnsetPacked == UnpackIc(-1) = -1 /\ UnpackJc(-1) = -1
<1>0. Half \in Nat \ {0} /\ W = 2 * Half /\ W \in Nat \ {0}
  BY RuntimeAssumption DEF W
<1>1. -1 \in Words
  BY <1>0 DEF Words
<1>2. (-1) % W = W - 1
  <2> DEFINE r == W - 1
  <2>1. r \in Nat /\ r < W /\ (-1) * W + r = -1
    BY <1>0
  <2> HIDE DEF r
  <2>2. ((-1) * W + r) % W = r
    BY <1>0, <2>1, DivUniqueInt
  <2> QED BY <2>1, <2>2 DEF r
<1>3. (W - 1) * W + (W - 1) = W * W - 1
  BY <1>0
<1>4. W * W - 1 >= W * Half
  <2>1. W * W = W * Half + W * Half /\ W * Half \in Nat /\ W * Half >= 1
    BY <1>0
  <2> QED BY <1>0, <2>1
<1>5. W * W \in Nat
  BY <1>0
<1>6. dlp_pack_ways(-1, -1) = -1
  <2> DEFINE u == ((-1) % W) * W + ((-1) % W)
  <2>1. u = W * W - 1
    BY <1>2, <1>3
  <2>2. dlp_pack_ways(-1, -1) = IF u >= W * Half THEN u - W * W ELSE u
    BY DEF dlp_pack_ways
  <2> HIDE DEF u
  <2>3. dlp_pack_ways(-1, -1) = u - W * W
    BY <1>4, <2>1, <2>2
  <2> QED BY <1>5, <2>1, <2>3
<1> QED BY <1>1, <1>6, PackUnpack

\* (int32_t)v is v for an int32_t.
LEMMA Int32Same == ASSUME NEW v \in Words PROVE Int32(v) = v
  BY SignedBack DEF Int32

\* A caller's ways, normalised, still fit.
LEMMA GivenFit ==
  ASSUME NEW ic, NEW jc, GivenWays(ic, jc)
  PROVE  ic \in Words /\ jc \in Words
<1>0. Half \in Nat \ {0}
  BY RuntimeAssumption
<1>1. CASE ic = -1 /\ jc = -1
  BY <1>0, <1>1 DEF Words
<1>2. ASSUME NEW w \in WaysArgs, ic = NormArg(w[2]), jc = NormArg(w[1])
      PROVE  ic \in Words /\ jc \in Words
  <2>1. w[1] \in Words /\ w[2] \in Words
    BY RuntimeAssumption DEF Words
  <2> QED BY <1>0, <1>2, <2>1 DEF NormArg, Words
<1> QED BY <1>1, <1>2 DEF GivenWays

\* So do the environment's.
LEMMA EnvFit ==
  ASSUME WaysFit, env \in Builds
  PROVE  EnvConfig.ic \in Words /\ EnvConfig.jc \in Words
<1>0. Half \in Nat \ {0}
  BY RuntimeAssumption
<1>1. env.ic \in Words /\ env.jc \in Words /\ env.nt \in Int
  BY RuntimeAssumption DEF WaysFit
<1>2. env.ic \in Int /\ env.jc \in Int /\ -Half <= env.ic /\ env.ic < Half
      /\ -Half <= env.jc /\ env.jc < Half
  BY <1>0, <1>1 DEF Words
<1>3. CASE env.jc > 0 \/ env.ic > 0
  <2>1. EnvConfig.ic = AtLeastOne(env.ic) /\ EnvConfig.jc = AtLeastOne(env.jc)
    BY <1>3 DEF EnvConfig, SourceConfig, Ways
  <2>2. AtLeastOne(env.ic) \in Words /\ AtLeastOne(env.jc) \in Words
    BY <1>0, <1>2, <1>3 DEF AtLeastOne, Words
  <2> QED BY <2>1, <2>2
<1>4. CASE ~(env.jc > 0 \/ env.ic > 0)
  <2>1. EnvConfig.ic = -1 /\ EnvConfig.jc = -1
    BY <1>4 DEF EnvConfig, SourceConfig, Count, Unset
  <2> QED BY <1>0, <2>1 DEF Words
<1> QED BY <1>3, <1>4

\* At first nothing is given.
LEMMA InitGiven == Init => GivenInv
<1> SUFFICES ASSUME Init PROVE GivenInv
  OBVIOUS
<1>1. lib_num_threads = -1 /\ lib_packed_ways = -1
  BY DEF Init
<1>2. ASSUME NEW t \in Threads
      PROVE  /\ lnt[t] = -1 /\ call[t].nt = -1 /\ tl[t].nt = -1 /\ call[t].ic = -1
             /\ call[t].jc = -1 /\ tl[t].ic = -1 /\ tl[t].jc = -1 /\ ~Returned(t)
  BY DEF Init, Returned
<1>3. GivenCount(-1) /\ GivenWays(-1, -1)
  BY DEF GivenCount, GivenWays
<1>4. NoTornConfig
  BY <1>2 DEF NoTornConfig
<1> QED BY <1>1, <1>2, <1>3, <1>4, UnsetPacked DEF GivenInv

\* A step that leaves the environment, and moves what was given only.
LEMMA GivenKept ==
  ASSUME IInv, GivenInv, env' = env, NoTornConfig',
         GivenCount(lib_num_threads'),
         \/ GivenWays(UnpackIc(lib_packed_ways'), UnpackJc(lib_packed_ways'))
         \/ UnpackIc(lib_packed_ways') = EnvConfig.ic /\ UnpackJc(lib_packed_ways') = EnvConfig.jc,
         \A t \in Threads :
           /\ GivenCount(lnt'[t]) /\ GivenCount(call'[t].nt) /\ GivenCount(tl'[t].nt)
           /\ GivenWays(call'[t].ic, call'[t].jc) /\ GivenWays(tl'[t].ic, tl'[t].jc)
  PROVE  GivenInv'
<1>1. EnvConfig' = EnvConfig
  BY DEF EnvConfig
<1> QED BY <1>1 DEF GivenInv, GivenCount, GivenWays

\* A step that returns nothing keeps NoTornConfig.
LEMMA NothingReturned ==
  ASSUME NoTornConfig, env' = env, \A t \in Threads : res'[t] = res[t] \/ res'[t] = NoResult
  PROVE  NoTornConfig'
<1>1. OfferedConfigs' = OfferedConfigs
  BY DEF OfferedConfigs, EnvConfig
<1> QED BY <1>1 DEF NoTornConfig, Returned, Resolved

\* Entering the library: the arguments are a count or a pair of ways.
LEMMA EnterGiven ==
  ASSUME IInv, GivenInv, NEW t \in Threads, NEW op, NEW jc, NEW ic, NEW nt,
         Enter(t, op, jc, ic, nt), GivenCount(NormArg(nt)),
         GivenWays(NormArg(ic), NormArg(jc))
  PROVE  GivenInv'
<1>0. call \in [Threads -> [op : Ops, jc : Int, ic : Int, nt : Int]]
      /\ res \in [Threads -> [nt : Int, ic : Int, jc : Int, ext : BOOLEAN, team : BOOLEAN]]
  BY DEF IInv, TypeOK
<1>1. /\ UNCHANGED <<env, lib_packed_ways, lib_num_threads, tl, lnt>>
      /\ call' = [call EXCEPT ![t] = [op |-> op, jc |-> NormArg(jc),
                                      ic |-> NormArg(ic), nt |-> NormArg(nt)]]
      /\ res' = [res EXCEPT ![t] = NoResult]
  BY DEF Enter, shared
<1>2. ASSUME NEW u \in Threads
      PROVE  GivenCount(call'[u].nt) /\ GivenWays(call'[u].ic, call'[u].jc)
             /\ (res'[u] = res[u] \/ res'[u] = NoResult)
  <2>1. CASE u = t
    BY <1>0, <1>1, <2>1
  <2>2. CASE u # t
    BY <1>0, <1>1, <2>2 DEF GivenInv
  <2> QED BY <2>1, <2>2
<1>3. NoTornConfig'
  BY <1>1, <1>2, NothingReturned DEF GivenInv
<1> QED BY <1>1, <1>2, <1>3, GivenKept DEF GivenInv

\* The steps of a call.
LEMMA StepGiven ==
  ASSUME WaysFit, IInv, GivenInv, NEW t \in Threads, Step(t)
  PROVE  GivenInv'
<1>0. /\ env \in Builds
      /\ tl \in [Threads -> [nt : Int, ic : Int, jc : Int, ext : BOOLEAN]]
      /\ call \in [Threads -> [op : Ops, jc : Int, ic : Int, nt : Int]]
      /\ lnt \in [Threads -> Int] /\ lib_packed_ways \in Int /\ lib_num_threads \in Int
      /\ res \in [Threads -> [nt : Int, ic : Int, jc : Int, ext : BOOLEAN, team : BOOLEAN]]
  BY DEF IInv, TypeOK
<1>1. /\ GivenCount(lib_num_threads) /\ NoTornConfig
      /\ \/ GivenWays(UnpackIc(lib_packed_ways), UnpackJc(lib_packed_ways))
         \/ UnpackIc(lib_packed_ways) = EnvConfig.ic /\ UnpackJc(lib_packed_ways) = EnvConfig.jc
      /\ \A u \in Threads :
           /\ GivenCount(lnt[u]) /\ GivenCount(call[u].nt) /\ GivenCount(tl[u].nt)
           /\ GivenWays(call[u].ic, call[u].jc) /\ GivenWays(tl[u].ic, tl[u].jc)
  BY DEF GivenInv
<1>2. env' = env
  BY DEF Step, dlp_init_threading, InitThreadLocal, StoreWays, UnsetNumThreads, StoreNumThreads,
         ClearExternalControl, SetLocal, CheckLocal, LoadNumThreads, LoadWays, CheckEnv,
         TakeOpenMP, TakeCores
<1>3. EnvConfig \in Config /\ (EnvConfig # Unset => EnvConfig \in OfferedConfigs)
  <2>1. EnvConfig \in Config
    BY <1>0, EnvConfigMode
  <2> QED BY <2>1 DEF OfferedConfigs
<1>4. CASE dlp_init_threading(t)
  <2>1. UNCHANGED <<tl, call, lnt, res>>
    BY <1>4 DEF dlp_init_threading
  <2>2. GivenCount(lib_num_threads')
    BY <1>4 DEF dlp_init_threading, GivenCount
  <2>3. \/ lib_packed_ways' = dlp_pack_ways(Int32(EnvConfig.ic), Int32(EnvConfig.jc))
        \/ lib_packed_ways' = dlp_pack_ways(-1, -1)
    BY <1>4 DEF dlp_init_threading
  <2>4. EnvConfig.ic \in Words /\ EnvConfig.jc \in Words /\ -1 \in Words
    BY <1>0, EnvFit, GivenFit DEF GivenWays
  <2>5. \/ GivenWays(UnpackIc(lib_packed_ways'), UnpackJc(lib_packed_ways'))
        \/ UnpackIc(lib_packed_ways') = EnvConfig.ic /\ UnpackJc(lib_packed_ways') = EnvConfig.jc
    BY <2>3, <2>4, Int32Same, PackUnpack DEF GivenWays
  <2>6. NoTornConfig'
    BY <1>1, <1>2, <2>1, NothingReturned
  <2> QED BY <1>1, <1>2, <2>1, <2>2, <2>5, <2>6, GivenKept
<1>5. CASE StoreWays(t)
  <2>1. UNCHANGED <<tl, call, lnt, res, lib_num_threads>>
        /\ lib_packed_ways' = dlp_pack_ways(Int32(call[t].ic), Int32(call[t].jc))
    BY <1>5 DEF StoreWays
  <2>2. call[t].ic \in Words /\ call[t].jc \in Words
    BY <1>1, GivenFit
  <2>3. UnpackIc(lib_packed_ways') = call[t].ic /\ UnpackJc(lib_packed_ways') = call[t].jc
    BY <2>1, <2>2, Int32Same, PackUnpack
  <2>4. GivenWays(UnpackIc(lib_packed_ways'), UnpackJc(lib_packed_ways'))
    BY <1>1, <2>3
  <2>5. NoTornConfig'
    BY <1>1, <1>2, <2>1, NothingReturned
  <2> QED BY <1>1, <1>2, <2>1, <2>4, <2>5, GivenKept
<1>6. CASE UnsetNumThreads(t) \/ StoreNumThreads(t) \/ ClearExternalControl(t)
  <2>1. UNCHANGED <<tl, call, lnt, res, lib_packed_ways>>
        /\ lib_num_threads' \in {-1, call[t].nt, lib_num_threads}
    BY <1>6 DEF UnsetNumThreads, StoreNumThreads, ClearExternalControl
  <2>2. GivenCount(lib_num_threads')
    BY <1>1, <2>1 DEF GivenCount
  <2>3. NoTornConfig'
    BY <1>1, <1>2, <2>1, NothingReturned
  <2> QED BY <1>1, <1>2, <2>1, <2>2, <2>3, GivenKept
<1>7. CASE SetLocal(t)
  <2>1. UNCHANGED <<call, lnt, res, lib_packed_ways, lib_num_threads>>
    BY <1>7 DEF SetLocal, shared
  <2>2. CASE call[t].op = "setLocalWays"
    <3>1. tl' = [tl EXCEPT ![t] = [nt |-> -1, ic |-> call[t].ic, jc |-> call[t].jc, ext |-> FALSE]]
      BY <1>7, <2>2 DEF SetLocal
    <3>2. ASSUME NEW u \in Threads
          PROVE  GivenCount(tl'[u].nt) /\ GivenWays(tl'[u].ic, tl'[u].jc)
      <4>1. CASE u = t
        <5>1. tl'[u].nt = -1 /\ tl'[u].ic = call[t].ic /\ tl'[u].jc = call[t].jc
          BY <1>0, <3>1, <4>1
        <5> QED BY <1>1, <5>1 DEF GivenCount
      <4>2. CASE u # t
        <5>1. tl'[u] = tl[u]
          BY <1>0, <3>1, <4>2
        <5> QED BY <1>1, <5>1
      <4> QED BY <4>1, <4>2
    <3>3. NoTornConfig'
      BY <1>1, <1>2, <2>1, NothingReturned
    <3> QED BY <1>1, <1>2, <2>1, <3>2, <3>3, GivenKept
  <2>3. CASE call[t].op # "setLocalWays"
    <3>1. tl' = [tl EXCEPT ![t] = [nt |-> call[t].nt, ic |-> tl[t].ic, jc |-> tl[t].jc,
                                   ext |-> FALSE]]
      BY <1>7, <2>3 DEF SetLocal
    <3>2. ASSUME NEW u \in Threads
          PROVE  GivenCount(tl'[u].nt) /\ GivenWays(tl'[u].ic, tl'[u].jc)
      <4>1. CASE u = t
        <5>1. tl'[u].nt = call[t].nt /\ tl'[u].ic = tl[t].ic /\ tl'[u].jc = tl[t].jc
          BY <1>0, <3>1, <4>1
        <5> QED BY <1>1, <5>1
      <4>2. CASE u # t
        <5>1. tl'[u] = tl[u]
          BY <1>0, <3>1, <4>2
        <5> QED BY <1>1, <5>1
      <4> QED BY <4>1, <4>2
    <3>3. NoTornConfig'
      BY <1>1, <1>2, <2>1, NothingReturned
    <3> QED BY <1>1, <1>2, <2>1, <3>2, <3>3, GivenKept
  <2> QED BY <2>2, <2>3
<1>8. CASE InitThreadLocal(t) \/ TakeOpenMP(t)
  <2>1. UNCHANGED <<call, lnt, lib_packed_ways, lib_num_threads>>
    BY <1>8 DEF InitThreadLocal, TakeOpenMP, shared
  <2>2. \A u \in Threads : tl'[u].nt = tl[u].nt /\ tl'[u].ic = tl[u].ic /\ tl'[u].jc = tl[u].jc
    <3>1. tl' = tl \/ \E e \in BOOLEAN : tl' = [tl EXCEPT ![t].ext = e]
      <4>1. lib_ext_mt_ctr_var \in BOOLEAN
        BY DEF IInv, TypeOK
      <4> QED BY <1>8, <4>1, Zenon DEF InitThreadLocal, TakeOpenMP
    <3> QED BY <1>0, <3>1
  <2>3. NoTornConfig'
    <3>1. CASE InitThreadLocal(t)
      BY <1>1, <1>2, <3>1, NothingReturned DEF InitThreadLocal
    <3>2. CASE TakeOpenMP(t)
      <4>1. PICK n \in OmpCounts : Return(t, Count(n), TRUE)
        BY <3>2 DEF TakeOpenMP
      <4>2. Count(n) \in Config /\ Count(n) \in OfferedConfigs
        BY RuntimeAssumption DEF Count, Config, OfferedConfigs
      <4> QED BY <1>1, <1>2, <4>1, <4>2, ReturnOffered
    <3> QED BY <1>8, <3>1, <3>2
  <2> QED BY <1>1, <1>2, <2>1, <2>2, <2>3, GivenKept
<1>9. CASE CheckLocal(t) \/ LoadWays(t) \/ CheckEnv(t) \/ TakeCores(t)
  <2>1. UNCHANGED <<tl, call, lnt, lib_packed_ways, lib_num_threads>>
    BY <1>9 DEF CheckLocal, LoadWays, CheckEnv, TakeCores, shared
  <2> DEFINE mine == SourceConfig(tl[t].nt, tl[t].ic, tl[t].jc)
             library == SourceConfig(lnt[t], UnpackIc(lib_packed_ways), UnpackJc(lib_packed_ways))
  <2>2. mine \in Config /\ (mine # Unset => mine \in OfferedConfigs)
    <3>1. tl[t].nt \in Int /\ tl[t].ic \in Int /\ tl[t].jc \in Int
      BY <1>0
    <3> QED BY <1>0, <1>1, <3>1, SourceConfigMode, GivenOffered
  <2>3. library \in Config /\ (library # Unset => library \in OfferedConfigs)
    <3>1. lnt[t] \in Int /\ UnpackIc(lib_packed_ways) \in Int /\ UnpackJc(lib_packed_ways) \in Int
      BY <1>0, UnpackType
    <3> QED BY <1>0, <1>1, <3>1, SourceConfigMode, GivenOffered
  <2>4. Count(NumCores) \in Config /\ Count(NumCores) \in OfferedConfigs
    BY RuntimeAssumption DEF Count, Config, OfferedConfigs
  <2>5. res' = res \/ \E c \in Config : c \in OfferedConfigs /\ Return(t, c, FALSE)
    <3>1. CASE CheckLocal(t)
      <4>1. LocalConfig(t) # Unset => LocalConfig(t) = mine
        BY DEF LocalConfig
      <4> HIDE DEF mine, library
      <4> QED BY <2>2, <3>1, <4>1 DEF CheckLocal
    <3>2. CASE LoadWays(t)
      <4>1. res' = res \/ (library # Unset /\ Return(t, library, FALSE))
        BY <3>2 DEF LoadWays
      <4> HIDE DEF mine, library
      <4> QED BY <2>3, <4>1
    <3>3. CASE CheckEnv(t)
      BY <1>3, <3>3 DEF CheckEnv
    <3>4. CASE TakeCores(t)
      BY <2>4, <3>4 DEF TakeCores
    <3> QED BY <1>9, <3>1, <3>2, <3>3, <3>4
  <2>6. NoTornConfig'
    <3>1. CASE res' = res
      BY <1>1, <1>2, <3>1, NothingReturned
    <3>2. ASSUME NEW c \in Config, c \in OfferedConfigs, Return(t, c, FALSE)
          PROVE  NoTornConfig'
      BY <1>1, <1>2, <3>2, ReturnOffered
    <3> QED BY <2>5, <3>1, <3>2
  <2> QED BY <1>1, <1>2, <2>1, <2>6, GivenKept
<1>10. CASE LoadNumThreads(t)
  <2>1. UNCHANGED <<tl, call, res, lib_packed_ways, lib_num_threads>>
        /\ lnt' = [lnt EXCEPT ![t] = lib_num_threads]
    BY <1>10 DEF LoadNumThreads, shared
  <2>2. \A u \in Threads : lnt'[u] \in {lnt[u], lib_num_threads}
    BY <1>0, <2>1
  <2>3. \A u \in Threads : GivenCount(lnt'[u])
    BY <1>1, <2>2
  <2>4. NoTornConfig'
    BY <1>1, <1>2, <2>1, NothingReturned
  <2> QED BY <1>1, <1>2, <2>1, <2>3, <2>4, GivenKept
<1> QED
  BY <1>4, <1>5, <1>6, <1>7, <1>8, <1>9, <1>10 DEF Step

\* Every step moves what was given in one piece.
LEMMA NextGiven ==
  ASSUME WaysFit, IInv, GivenInv, [Next]_vars
  PROVE  GivenInv'
<1>1. CASE UNCHANGED vars
  <2>1. /\ UNCHANGED <<env, tl, call, lnt, lib_packed_ways, lib_num_threads>>
        /\ res' = res
    BY <1>1 DEF vars
  <2>2. NoTornConfig'
    BY <2>1, NothingReturned DEF GivenInv
  <2> QED BY <2>1, <2>2, GivenKept DEF GivenInv
<1>2. ASSUME NEW t \in Threads, Call(t) PROVE GivenInv'
  <2>0. NormArg(-1) = -1 /\ GivenCount(-1) /\ GivenWays(-1, -1)
    BY DEF NormArg, GivenCount, GivenWays
  <2>1. CASE GetActive(t)
    BY <2>0, <2>1, EnterGiven DEF GetActive
  <2>2. CASE \E op \in {"setLibNt", "setLocalNt"}, n \in NtArgs : SetNumThreads(t, op, n)
    <3>1. PICK op \in {"setLibNt", "setLocalNt"}, n \in NtArgs : SetNumThreads(t, op, n)
      BY <2>2
    <3>2. GivenCount(NormArg(n))
      BY DEF GivenCount
    <3> QED BY <2>0, <3>1, <3>2, EnterGiven DEF SetNumThreads
  <2>3. CASE \E op \in {"setLibWays", "setLocalWays"}, w \in WaysArgs : SetWays(t, op, w)
    <3>1. PICK op \in {"setLibWays", "setLocalWays"}, w \in WaysArgs : SetWays(t, op, w)
      BY <2>3
    <3>2. GivenWays(NormArg(w[2]), NormArg(w[1]))
      BY DEF GivenWays
    <3> QED BY <2>0, <3>1, <3>2, EnterGiven DEF SetWays
  <2> QED
    BY <1>2, <2>1, <2>2, <2>3 DEF Call
<1>3. ASSUME NEW t \in Threads, Step(t) PROVE GivenInv'
  BY <1>3, StepGiven
<1> QED
  BY <1>1, <1>2, <1>3 DEF Next

\* As long as the ways fit in int32_t, no resolution returns a configuration
\* that nobody gave: ways are never mixed from two setters, and none is cut.
THEOREM ResolutionNotTorn ==
  ASSUME WaysFit
  PROVE  Spec => []NoTornConfig
<1>1. GivenInv => NoTornConfig
  BY DEF GivenInv
<1>2. IInv /\ GivenInv /\ [Next]_vars => GivenInv'
  BY NextGiven
<1>3. Spec => []GivenInv
  BY <1>2, InitGiven, SpecIInv, PTL DEF Spec
<1> QED
  BY <1>1, <1>3, PTL
=============================================================================
