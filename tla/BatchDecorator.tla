--------------------------- MODULE BatchDecorator ---------------------------
(***************************************************************************)
(* The OpenMP decorators of the batch GEMMs                                *)
(* (classic/frame/threading/dlp_gemm_thread_decor_openmp.c).               *)
(*                                                                         *)
(* A batch is group_size GEMMs of one shape.  The threads are cut into     *)
(* teams that run GEMMs in parallel; a team runs its share of the group    *)
(* one GEMM after the other.                                               *)
(*                                                                         *)
(* The variants with 4-bit weights (HAS_MC_LOGIC) replace B's tag by one   *)
(* picked from the shape.  The caller passes the address of one tag; each  *)
(* thread stores mtag_b[i] for its GEMM i and passes *mtag_b, that is      *)
(* mtag_b[0], to the driver.  Both accesses are plain; they are a step     *)
(* each here.                                                              *)
(*                                                                         *)
(* A driver is reduced to what the batch can get wrong: whether it meets   *)
(* its jc team at the barrier, which it does if it packs B.                *)
(***************************************************************************)
EXTENDS Integers, FiniteSetsExt, TaskRange, ThreadFactors

CONSTANT Requests   \* calls: api, variant, shape, team size, group size, B's tag

Tags == {"UNPACKED", "PACK", "PACK_KC", "REORDERED"}

ASSUME BatchAssumption ==
  \A r \in Requests :
    /\ r.api \in {"s32", "bf16", "f32"}
    /\ r.mc \in BOOLEAN          \* HAS_MC_LOGIC
    /\ r.p \in [m : Nat \ {0}, n : Nat \ {0}, k : Nat \ {0}, MR : Nat \ {0},
                NR : Nat \ {0}, MC : Nat \ {0}, KC : Nat \ {0}]
    /\ r.nt \in {-1} \cup (Nat \ {0})
    /\ r.group_size \in Nat
    /\ r.mtag_b \in Tags
    /\ r.pack_b \in BOOLEAN      \* f32: the shape is above the packing thresholds

VARIABLES
  stage,    \* "called", "planned", "forked"
  req,      \* the call
  plan,     \* n_threads, n_gemms_in_parallel, n_threads_per_gemm, ic_ways, jc_ways
  mtag_b,   \* mtag_b[0], the tag the caller passed the address of
  picked,   \* mtag_b_mp
  at, i,    \* where each thread is, and its GEMM
  used,     \* used[t][g]: the tag thread t ran GEMM g with, "none" before
  arrived,  \* arrivals so far at each communicator's barrier
  round     \* the barrier round each thread waits for

vars == <<stage, req, plan, mtag_b, picked, at, i, used, arrived, round>>

----------------------------------------------------------------------------
(* batch_dlp_gemm_*_get_threading.                                         *)

BatchPlan(gemms, s) ==
  [nt |-> gemms * s.ic * s.jc, gemms |-> gemms, per |-> s.nt, ic |-> s.ic, jc |-> s.jc]

\* <<n_gemms_in_parallel, n_threads_per_gemm>>.  A count of -1 (the caller set
\* ways) gives -1 GEMMs of -1 / -1 threads.
dlp_calculate_n_threads_per_gemm(nt, group_size) ==
  LET gemms == IF group_size <= 0 \/ nt = 1 THEN 1 ELSE Min({nt, group_size})
  IN  <<gemms, IF group_size <= 0 \/ nt <= 1 THEN 1 ELSE nt \div gemms>>

BatchSplit(api, per, p) ==
  LET s == Partition(per, p)
  IN  IF p.n <= p.NR THEN Split(per, per, 1)
      ELSE IF p.m <= p.MR THEN Split(per, 1, per)
      ELSE IF api # "f32" THEN PartitionByPanels(per, p)
      ELSE IF mr_blks(p) >= s.ic /\ nr_blks(p) >= s.jc
      THEN dlp_gemm_adjust_ic_jc_ways(s, p)
      ELSE s

batch_get_threading(r) ==
  LET share == dlp_calculate_n_threads_per_gemm(r.nt, r.group_size)
  IN  IF share[2] > 1 THEN BatchPlan(share[1], BatchSplit(r.api, share[2], r.p))
      ELSE BatchPlan(Max({share[1], 1}), Split(1, 1, 1))

----------------------------------------------------------------------------
(* B's tag.                                                                *)

\* Widen the weights into a packed panel, or unpack them in the kernel.
dlp_mtag_b_pick(p, ic_ways, jc_ways, jit_only) ==
  LET m_ic == p.m \div ic_ways
      n_jc == p.n \div jc_ways
      fits == m_ic <= 4 * p.MC /\ n_jc \in 1024 .. 10 * 1024 /\ p.k <= 8
  IN  IF (m_ic < p.MC \/ fits) /\ ~jit_only THEN "UNPACKED" ELSE "PACK_KC"

\* Only f32 lets the thresholds decide.
reconcile_packab(r) ==
  IF r.api = "f32" /\ r.pack_b /\ r.mtag_b = "UNPACKED" THEN "PACK" ELSE r.mtag_b

\* The tag for which a driver packs B, together with its jc team.
Packs(tag) == tag = (IF req.mc THEN "PACK_KC" ELSE "PACK")

----------------------------------------------------------------------------
(* The place of OpenMP thread t.                                           *)

Team == DOMAIN at
\* Mutant: threads are dealt to the GEMMs in turn.
DealtInTurn(t) == t % plan.gemms
TeamIndex(t) == t \div plan.per
Tid(t) == t % plan.per
\* Mutant: a team's communicators begin at its own number.
CommOfTeamNumber(t) == TeamIndex(t) + jc_work_id(Tid(t), plan.ic)
Comm(t) == TeamIndex(t) * plan.jc + jc_work_id(Tid(t), plan.ic)
\* Mutant: a communicator is set up for all threads of the GEMM.
AllOfTheGemm == plan.per
CommThreads == plan.ic
GemmRange(t) == dlp_thread_task_range(plan.gemms, TeamIndex(t), req.group_size, 1, FALSE)

Init ==
  /\ stage = "called"
  /\ req \in Requests
  /\ plan = BatchPlan(1, Split(1, 1, 1))
  /\ mtag_b = req.mtag_b
  /\ picked = "UNPACKED"
  /\ at = [t \in {} |-> ""]
  /\ i = [t \in {} |-> 0]
  /\ used = [t \in {} |-> <<>>]
  /\ arrived = [c \in {} |-> 0]
  /\ round = [t \in {} |-> 0]

\* The jit-only post-operations never get here: the batch API refuses them.
Plan ==
  /\ stage = "called"
  /\ stage' = "planned"
  /\ plan' = batch_get_threading(req)
  /\ mtag_b' = reconcile_packab(req)
  /\ picked' = IF req.mc THEN dlp_mtag_b_pick(req.p, plan'.ic, plan'.jc, FALSE) ELSE "UNPACKED"
  /\ UNCHANGED <<req, at, i, used, arrived, round>>

Fork ==
  /\ stage = "planned"
  /\ stage' = "forked"
  /\ at' = [t \in 0 .. plan.nt - 1 |-> "loop"]
  /\ i' = [t \in 0 .. plan.nt - 1 |-> GemmRange(t).start]
  /\ used' = [t \in 0 .. plan.nt - 1 |-> [g \in 0 .. req.group_size - 1 |-> "none"]]
  /\ arrived' = [c \in 0 .. plan.gemms * plan.jc - 1 |-> 0]
  /\ round' = [t \in 0 .. plan.nt - 1 |-> 0]
  /\ UNCHANGED <<req, plan, mtag_b, picked>>

Goto(t, to) == at' = [at EXCEPT ![t] = to]

\* mtag_b[i] = mtag_b_mp.  For i > 0 that is not the tag the driver is given.
StoreTag(t) ==
  /\ at[t] = "loop"
  /\ req.mc
  /\ i[t] < GemmRange(t).end
  /\ mtag_b' = IF i[t] = 0 THEN picked ELSE mtag_b
  /\ Goto(t, "call")
  /\ UNCHANGED <<stage, req, plan, picked, i, used, arrived, round>>

\* The driver is called with *mtag_b, and meets its team if it packs.
CallDriver(t) ==
  /\ at[t] = IF req.mc THEN "call" ELSE "loop"
  /\ i[t] < GemmRange(t).end
  /\ used' = [used EXCEPT ![t][i[t]] = mtag_b]
  /\ \/ /\ Packs(mtag_b)
        /\ arrived' = [arrived EXCEPT ![Comm(t)] = @ + 1]
        /\ round' = [round EXCEPT ![t] = (arrived[Comm(t)] \div CommThreads) + 1]
        /\ Goto(t, "wait")
        /\ UNCHANGED i
     \/ /\ ~Packs(mtag_b)
        /\ i' = [i EXCEPT ![t] = @ + 1]
        /\ Goto(t, "loop")
        /\ UNCHANGED <<arrived, round>>
  /\ UNCHANGED <<stage, req, plan, mtag_b, picked>>

LeaveDriver(t) ==
  /\ at[t] = "wait"
  /\ arrived[Comm(t)] >= round[t] * CommThreads
  /\ i' = [i EXCEPT ![t] = @ + 1]
  /\ Goto(t, "loop")
  /\ UNCHANGED <<stage, req, plan, mtag_b, picked, used, arrived, round>>

----------------------------------------------------------------------------
Step(t) == StoreTag(t) \/ CallDriver(t) \/ LeaveDriver(t)

Next == Plan \/ Fork \/ \E t \in Team : Step(t)

MaxThreads == Max({Max({r.nt, 1}) : r \in Requests})

\* The threads of the parallel region keep running.
Fairness == \A t \in 0 .. MaxThreads - 1 : WF_vars(t \in Team /\ Step(t))

Spec == Init /\ [][Next]_vars
FairSpec == Spec /\ Fairness

----------------------------------------------------------------------------
(* Properties.                                                             *)

\* Every GEMM of the group is run by one whole team, of ids 0 .. ic*jc-1, and
\* every communicator of the array is that of ic_ways threads: for no count,
\* group size and shape do leftover threads join a GEMM or a barrier.  A team
\* of several threads has one GEMM, so no communicator outlives a driver call.
BatchShared ==
  stage = "forked" =>
    /\ plan.nt <= Max({req.nt, 1})
    /\ \A g \in 0 .. req.group_size - 1 :
         LET members == {t \in Team : g \in Indices(GemmRange(t))}
         IN  /\ Cardinality(members) = plan.ic * plan.jc
             /\ {Tid(t) : t \in members} = 0 .. plan.ic * plan.jc - 1
    /\ \A t \in Team : Comm(t) \in DOMAIN arrived
    /\ plan.per > 1 => \A t \in Team : Cardinality(Indices(GemmRange(t))) = 1
    /\ \A c \in DOMAIN arrived : Cardinality({t \in Team : Comm(t) = c}) = CommThreads

JcTeam(t) == {u \in Team : TeamIndex(u) = TeamIndex(t)
                           /\ jc_work_id(Tid(u), plan.ic) = jc_work_id(Tid(t), plan.ic)}

\* Nobody leaves the barrier of a GEMM before its jc team is in that GEMM,
\* whatever the other teams of the batch do at the same time.
MeetsTeam ==
  stage = "forked" =>
    \A t \in Team, g \in 0 .. req.group_size - 1 :
      g < i[t] /\ Packs(used[t][g]) => \A u \in JcTeam(t) : used[u][g] # "none"

\* The parallel region ends: no thread waits for one that is not coming.
BatchFinishes ==
  stage = "forked" ~> (stage = "forked" /\ \A t \in Team : i[t] = GemmRange(t).end)

\* "compute mtag_b once before the parallel region"
\* (dlp_gemm_thread_decor_openmp.c:1404-1405), so that "all threads in work
\* group" wait for each other (dlp_gemm_bf16s4.c:265): the threads of a jc team
\* run a GEMM with one tag.
TeamAgrees ==
  stage = "forked" =>
    \A t \in Team, g \in 0 .. req.group_size - 1 : \A u \in JcTeam(t) :
      used[t][g] # "none" /\ used[u][g] # "none" => used[t][g] = used[u][g]
=============================================================================
