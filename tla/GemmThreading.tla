--------------------------- MODULE GemmThreading ---------------------------
(***************************************************************************)
(* From a GEMM call to the tile of C each thread computes: the OpenMP      *)
(* thread decorators (classic/frame/threading/                             *)
(* dlp_gemm_thread_decor_openmp.c) up to the loop ranges of the drivers.   *)
(*                                                                         *)
(* The decorator splits the thread count, decides whether thread ids are   *)
(* spread over the cores, sets up one communicator per jc team and forks.  *)
(* Nothing the threads do up to their loop ranges depends on the others,   *)
(* so the fork gives all of them their place in one step.                  *)
(***************************************************************************)
EXTENDS Integers, FiniteSetsExt, TaskRange, ThreadFactors

CONSTANTS
  Problems,  \* records of m, n, k and the block sizes MR, NR, MC, KC
  Rntms,     \* what dlp_rntm_init_from_global returned: [nt, ic, jc]
  GemvMR     \* rows per block of the n = 1 path

ASSUME ThreadingAssumption ==
  /\ \A p \in Problems : p \in [m : Nat \ {0}, n : Nat \ {0}, k : Nat \ {0},
                                MR : Nat \ {0}, NR : Nat \ {0},
                                MC : Nat \ {0}, KC : Nat \ {0}]
  /\ Rntms \subseteq [nt : Int, ic : Int, jc : Int]
  /\ GemvMR \in Nat \ {0}

Apis == {"s32", "bf16", "f16", "f32f16", "f32", "eltwise"}

VARIABLES
  stage,     \* "called", "planned", "forked"
  req,       \* the call: [api, p, r, reordered], the last being mtag_b once it
             \* is reconciled and picked, and the host: can_spread
  plan,      \* n_threads, ic_ways, jc_ways
  tid_distr, \* "DEFAULT" or "STRIDE2"
  tids       \* thread.tid of each OpenMP thread of the team

vars == <<stage, req, plan, tid_distr, tids>>

Init ==
  /\ stage = "called"
  /\ req \in [api : Apis, p : Problems, r : Rntms, reordered : BOOLEAN, can_spread : BOOLEAN]
  /\ plan = Split(1, 1, 1)
  /\ tid_distr = "DEFAULT"
  /\ tids = [t \in {} |-> 0]

----------------------------------------------------------------------------
\* Few tiles for the threads, or a small rest in the second round.
dlp_gemm_get_tid_distr_type(p, nt, can_spread) ==
  LET blks == mr_blks(p) * nr_blks(p)
  IN  IF /\ can_spread
         /\ \/ blks <= nt \div 2
            \/ /\ blks > nt /\ blks \div nt <= 2
               /\ blks % nt > 4 /\ blks % nt < nt \div 2
      THEN "STRIDE2" ELSE "DEFAULT"

\* The data types whose threading function reduces a prime count.
PrimeReduced == {"bf16", "f16", "f32f16"}

PlanAs(apis, split) ==
  /\ stage = "called"
  /\ req.api \in apis
  /\ stage' = "planned"
  /\ plan' = split
  /\ tid_distr' = IF req.api = "eltwise" THEN "DEFAULT"
                  ELSE dlp_gemm_get_tid_distr_type(req.p, plan'.nt, req.can_spread)
  /\ UNCHANGED <<req, tids>>

\* Each data type has a decorator with a threading function of its own.
Plan ==
  \/ PlanAs({"s32"} \cup PrimeReduced,
            PanelGetThreading(req.r, req.p, req.api \in PrimeReduced))
  \/ PlanAs({"f32"}, dlp_gemm_f32f32f32of32_get_threading(req.r, req.p))
  \/ PlanAs({"eltwise"}, dlp_gemm_eltwise_ops_get_threading(req.r, req.p))

\* Mutant: the odd half begins one later when the team is odd.
ModifyTidRoundedUp(tid, n_threads, distr) ==
  IF distr = "STRIDE2" /\ tid < (n_threads \div 2) * 2
  THEN tid \div 2 + (tid % 2) * ((n_threads + 1) \div 2)
  ELSE tid

\* Neighbouring cores get ids half a team apart; the odd one out keeps its id.
dlp_gemm_modify_tid_on_distr_type(tid, n_threads, distr) ==
  IF distr = "STRIDE2" /\ tid < (n_threads \div 2) * 2
  THEN tid \div 2 + (tid % 2) * (n_threads \div 2)
  ELSE tid

Fork ==
  /\ stage = "planned"
  /\ stage' = "forked"
  /\ tids' = [t \in 0 .. plan.nt - 1 |->
                IF req.reordered
                THEN dlp_gemm_modify_tid_on_distr_type(t, plan.nt, tid_distr)
                ELSE t]
  /\ UNCHANGED <<req, plan, tid_distr>>

Next == Plan \/ Fork

Spec == Init /\ [][Next]_vars

----------------------------------------------------------------------------
(* The ranges a thread computes in its driver.                             *)

Whole(n) == Span(0, n)

\* One dimension is 1: the other is shared by thread id alone, by as many
\* threads as its ways name, or by all if they name one.
GemvRows(tid) ==
  dlp_thread_task_range(IF plan.ic = 1 THEN plan.nt ELSE plan.ic, tid, req.p.m, GemvMR, FALSE)
GemvCols(tid) ==
  dlp_thread_task_range(IF plan.jc = 1 THEN plan.nt ELSE plan.jc, tid, req.p.n, req.p.NR, FALSE)

IsGemv == req.api # "eltwise" /\ (req.p.m = 1 \/ req.p.n = 1)

IcRange(tid) ==
  IF IsGemv THEN IF req.p.n = 1 THEN GemvRows(tid) ELSE Whole(req.p.m)
  ELSE dlp_thread_task_range(plan.ic, ic_work_id(tid, plan.ic), req.p.m, req.p.MR, FALSE)

JcRange(tid) ==
  IF IsGemv THEN IF req.p.n = 1 THEN Whole(req.p.n) ELSE GemvCols(tid)
  ELSE dlp_thread_task_range(plan.jc, jc_work_id(tid, plan.ic), req.p.n, req.p.NR, FALSE)

----------------------------------------------------------------------------
(* Properties.                                                             *)

Team == DOMAIN tids

\* The split is a split: no heuristic leaves a team that is not ic_ways x
\* jc_ways (which the drivers, the communicators and the barriers all rely
\* on), and a GEMM with a thread count idles fewer than low_freq_thres threads.
TeamFactorised ==
  stage # "called" =>
    /\ plan.ic \in Nat \ {0} /\ plan.jc \in Nat \ {0}
    /\ plan.nt = plan.ic * plan.jc
    /\ req.r.ic <= 0 /\ req.r.jc <= 0 /\ req.r.nt > 0 =>
         /\ plan.nt <= req.r.nt
         /\ req.api # "eltwise" => req.r.nt - plan.nt < low_freq_thres

\* Every element of C is computed by one thread and by no other, on the GEMM
\* path and on the GEMV path, also when there are more threads than blocks and
\* when the thread ids are spread.
EveryElementOnce ==
  stage = "forked" =>
    \A i \in 0 .. req.p.m - 1, j \in 0 .. req.p.n - 1 :
      Cardinality({t \in Team : i \in Indices(IcRange(tids[t]))
                                /\ j \in Indices(JcRange(tids[t]))}) = 1

\* Each of the jc_ways communicators, set up for ic_ways threads, is used by
\* exactly that many, one of them its chief: with fewer the barrier would wait
\* for ever, with more it would open early.
CommsFilled ==
  stage = "forked" =>
    /\ \A t \in Team : jc_work_id(tids[t], plan.ic) < plan.jc
    /\ \A g \in 0 .. plan.jc - 1 :
         LET members == {t \in Team : jc_work_id(tids[t], plan.ic) = g}
         IN  /\ Cardinality(members) = plan.ic
             /\ {ic_work_id(tids[t], plan.ic) : t \in members} = 0 .. plan.ic - 1

\* Tiles begin at block boundaries, so that no micro-panel of A or B is cut
\* between two threads, and "load is balanced as equally as possible": two
\* threads differ by one block at most, besides the fringe.
TilesBalanced ==
  stage = "forked" /\ ~IsGemv =>
    \A t, u \in Team :
      LET Blocks(r, bf) == (r.end - r.start) \div bf
          it == IcRange(tids[t])  iu == IcRange(tids[u])
          jt == JcRange(tids[t])  ju == JcRange(tids[u])
      IN  /\ it.start % req.p.MR = 0 /\ jt.start % req.p.NR = 0
          /\ Blocks(it, req.p.MR) <= Blocks(iu, req.p.MR) + 1
          /\ Blocks(jt, req.p.NR) <= Blocks(ju, req.p.NR) + 1

\* The panel heuristics only ever trade one split for a better one: the blocks
\* and panels per thread never exceed those of dlp_thread_partition_2x2.
HeuristicNeverHurts ==
  stage # "called" /\ req.api \in {"s32", "bf16", "f16", "f32f16"}
    /\ req.r.ic <= 0 /\ req.r.jc <= 0 /\ req.r.nt > 1
    /\ req.p.m > req.p.MR /\ req.p.n > req.p.NR
  => PanelWork(plan, req.p) <= PanelWork(Partition(req.r.nt, req.p), req.p)
=============================================================================
