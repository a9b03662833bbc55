----------------------------- MODULE TeamProofs -----------------------------
(***************************************************************************)
(* What the threads of a GEMM rest on: the decorators give each of them    *)
(* its share of C, and dlp_atomic_barrier keeps them in step.              *)
(*                                                                         *)
(* The decorators share C exactly, for every problem, runtime and host.    *)
(* The argument: the threading functions return a factorisation            *)
(* (SharingProofs), so the thread ids 0 .. nt-1 are the places of an       *)
(* ic_ways x jc_ways grid; spreading the ids over the cores permutes them; *)
(* and along each side of the grid the task ranges give every iteration to *)
(* one work id.                                                            *)
(*                                                                         *)
(* dlp_atomic_barrier is a barrier for a team of any finite size and for   *)
(* any number of rounds.  The argument: let g be the number of rounds      *)
(* completed.  Every thread has passed g rounds, except the ones that      *)
(* still spin with a stale sense: those have passed g - 1.  The counter    *)
(* counts exactly the threads that wait in round g + 1, so the increment   *)
(* that reaches n_threads is made when all the others wait, and the reset  *)
(* races with nobody.                                                      *)
(***************************************************************************)
EXTENDS GemmThreading, AtomicBarrier, SharingProofs

----------------------------------------------------------------------------
(* The thread ids of a team.                                               *)

\* Ids half a team apart: dlp_gemm_modify_tid_on_distr_type permutes the team,
\* of an even or odd number of threads.
LEMMA SpreadSeats ==
  ASSUME NEW n \in Nat \ {0}, NEW distr
  PROVE  Seating([t \in 0 .. n - 1 |-> dlp_gemm_modify_tid_on_distr_type(t, n, distr)], n)
<1> DEFINE M(t) == dlp_gemm_modify_tid_on_distr_type(t, n, distr)
           f == [t \in 0 .. n - 1 |-> M(t)]
           h == n \div 2
<1>1. h \in Nat /\ (n = 2 * h \/ n = 2 * h + 1)
  <2>1. h \in Nat /\ n % 2 \in Nat /\ n % 2 < 2 /\ n = h * 2 + (n % 2)
    BY DivMod
  <2> HIDE DEF h
  <2> QED BY <2>1
<1>2. CASE distr # "STRIDE2"
  <2>1. \A t : M(t) = t
    BY <1>2 DEF dlp_gemm_modify_tid_on_distr_type
  <2> HIDE DEF M
  <2>2. f \in [0 .. n - 1 -> 0 .. n - 1]
    BY <2>1
  <2>3. ASSUME NEW x \in 0 .. n - 1
        PROVE  \E t \in 0 .. n - 1 : \A u \in 0 .. n - 1 : f[u] = x <=> u = t
    BY <2>1
  <2>4. Seating(f, n)
    BY <2>2, <2>3 DEF Seating
  <2> QED BY <2>4 DEF M
<1>3. CASE distr = "STRIDE2"
  <2>1. ASSUME NEW t \in 0 .. n - 1
        PROVE  /\ t >= 2 * h => M(t) = t
               /\ \A y \in Nat : t < 2 * h /\ t = 2 * y => M(t) = y
               /\ \A y \in Nat : t < 2 * h /\ t = 2 * y + 1 => M(t) = y + h
    <3>1. t >= 2 * h => M(t) = t
      <4>1. t >= 2 * h => ~(t < (n \div 2) * 2)
        BY <1>1
      <4> QED BY <4>1 DEF dlp_gemm_modify_tid_on_distr_type
    <3>2. t < 2 * h => M(t) = t \div 2 + (t % 2) * h
      <4>1. t < 2 * h => t < (n \div 2) * 2
        BY <1>1
      <4> QED BY <1>3, <4>1 DEF dlp_gemm_modify_tid_on_distr_type
    <3> HIDE DEF M, h
    <3>3. ASSUME NEW y \in Nat, t < 2 * h, t = 2 * y PROVE M(t) = y
      <4>1. t \div 2 = y /\ t % 2 = 0
        BY <3>3
      <4> QED BY <1>1, <3>2, <3>3, <4>1
    <3>4. ASSUME NEW y \in Nat, t < 2 * h, t = 2 * y + 1 PROVE M(t) = y + h
      <4>1. t \div 2 = y /\ t % 2 = 1
        BY <3>4
      <4> QED BY <1>1, <3>2, <3>4, <4>1
    <3> QED BY <3>1, <3>3, <3>4
  <2>2. ASSUME NEW t \in 0 .. n - 1
        PROVE  t >= 2 * h \/ \E y \in Nat : y < h /\ (t = 2 * y \/ t = 2 * y + 1)
    <3>1. PICK y : y = t \div 2
      OBVIOUS
    <3>2. y \in Nat /\ (t = 2 * y \/ t = 2 * y + 1)
      BY <3>1
    <3> HIDE DEF h
    <3>3. t < 2 * h => y < h
      BY <1>1, <3>2
    <3> QED BY <1>1, <3>2, <3>3
  <2> HIDE DEF M, h
  <2>3. \A t \in 0 .. n - 1 :
          \/ t >= 2 * h /\ M(t) = t
          \/ \E y \in Nat : y < h /\ t = 2 * y /\ M(t) = y
          \/ \E y \in Nat : y < h /\ t = 2 * y + 1 /\ M(t) = y + h
    <3> SUFFICES ASSUME NEW t \in 0 .. n - 1
                 PROVE  \/ t >= 2 * h /\ M(t) = t
                        \/ \E y \in Nat : y < h /\ t = 2 * y /\ M(t) = y
                        \/ \E y \in Nat : y < h /\ t = 2 * y + 1 /\ M(t) = y + h
      OBVIOUS
    <3>1. CASE t >= 2 * h
      BY <2>1, <3>1
    <3>2. CASE ~(t >= 2 * h)
      <4>1. PICK y \in Nat : y < h /\ (t = 2 * y \/ t = 2 * y + 1)
        BY <2>2, <3>2
      <4>2. CASE t = 2 * y
        <5>1. t < 2 * h
          BY <1>1, <4>1, <4>2
        <5> QED BY <2>1, <4>1, <4>2, <5>1
      <4>3. CASE t = 2 * y + 1
        <5>1. t < 2 * h
          BY <1>1, <4>1, <4>3
        <5> QED BY <2>1, <4>1, <4>3, <5>1
      <4> QED BY <4>1, <4>2, <4>3
    <3> QED BY <3>1, <3>2
  <2>4. f \in [0 .. n - 1 -> 0 .. n - 1]
    <3>1. \A t \in 0 .. n - 1 : M(t) \in 0 .. n - 1
      BY <1>1, <2>3
    <3> QED BY <3>1
  <2>5. ASSUME NEW x \in 0 .. n - 1
        PROVE  \E t \in 0 .. n - 1 : \A u \in 0 .. n - 1 : f[u] = x <=> u = t
    <3>1. CASE x < h
      <4>1. 2 * x \in 0 .. n - 1 /\ M(2 * x) = x
        <5>1. 2 * x \in 0 .. n - 1 /\ 2 * x < 2 * h /\ x \in Nat
          BY <1>1, <3>1
        <5> QED BY <2>1, <5>1
      <4>2. \A u \in 0 .. n - 1 : M(u) = x => u = 2 * x
        BY <1>1, <2>3, <3>1
      <4> QED BY <4>1, <4>2
    <3>2. CASE x >= h /\ x < 2 * h
      <4> DEFINE y == x - h
      <4>1. 2 * y + 1 \in 0 .. n - 1 /\ M(2 * y + 1) = x
        <5>1. 2 * y + 1 \in 0 .. n - 1 /\ 2 * y + 1 < 2 * h /\ y \in Nat /\ y + h = x
          BY <1>1, <3>2
        <5> QED BY <2>1, <5>1
      <4>2. \A u \in 0 .. n - 1 : M(u) = x => u = 2 * y + 1
        BY <1>1, <2>3, <3>2
      <4> QED BY <4>1, <4>2
    <3>3. CASE x >= 2 * h
      <4>1. M(x) = x
        BY <2>1, <3>3
      <4>2. \A u \in 0 .. n - 1 : M(u) = x => u = x
        BY <1>1, <2>3, <3>3
      <4> QED BY <4>1, <4>2
    <3> QED BY <1>1, <3>1, <3>2, <3>3
  <2>6. Seating(f, n)
    BY <2>4, <2>5 DEF Seating
  <2> QED BY <2>6 DEF M
<1> QED BY <1>2, <1>3

\* One thread has a given id.
LEMMA OneSeat ==
  ASSUME NEW n \in Nat \ {0}, NEW f, Seating(f, n), NEW x \in 0 .. n - 1
  PROVE  Cardinality({t \in DOMAIN f : f[t] = x}) = 1
<1>1. PICK t \in 0 .. n - 1 : \A u \in 0 .. n - 1 : f[u] = x <=> u = t
  BY DEF Seating
<1>2. DOMAIN f = 0 .. n - 1
  BY DEF Seating
<1>3. {u \in DOMAIN f : f[u] = x} = {t}
  BY <1>1, <1>2
<1> QED BY <1>3, FS_Singleton

----------------------------------------------------------------------------
(* The inductive invariant.                                                *)

\* The call is one the constants describe.
Asked ==
  /\ req \in [api : Apis, p : Problems, r : Rntms, reordered : BOOLEAN, can_spread : BOOLEAN]
  /\ IsProblem(req.p) /\ req.r \in [nt : Int, ic : Int, jc : Int]

\* What was planned is a split.
Planned == stage # "called" => IsSplit(plan)

\* The team is seated.
Seated == stage = "forked" => Seating(tids, plan.nt)

ThreadingInv == Asked /\ Planned /\ Seated /\ TeamFactorised /\ HeuristicNeverHurts

\* The invariant holds at first.
LEMMA InitInv == Init => ThreadingInv
<1> SUFFICES ASSUME Init PROVE ThreadingInv
  OBVIOUS
<1>1. stage = "called"
  BY DEF Init
<1>2. req \in [api : Apis, p : Problems, r : Rntms, reordered : BOOLEAN, can_spread : BOOLEAN]
  BY DEF Init
<1>3. req.p \in Problems /\ req.r \in Rntms
  BY <1>2
<1>4. IsProblem(req.p) /\ req.r \in [nt : Int, ic : Int, jc : Int]
  BY <1>3, ThreadingAssumption DEF IsProblem
<1>5. Asked
  BY <1>2, <1>4 DEF Asked
<1>6. Planned /\ Seated /\ TeamFactorised /\ HeuristicNeverHurts
  BY <1>1 DEF Planned, Seated, TeamFactorised, HeuristicNeverHurts
<1> QED BY <1>5, <1>6 DEF ThreadingInv

\* A plan that the threading functions' lemmas allow keeps the invariant.
LEMMA PlanKeeps ==
  ASSUME Asked, UNCHANGED <<req, tids>>, stage' = "planned", IsSplit(plan'),
         req.r.ic <= 0 /\ req.r.jc <= 0 /\ req.r.nt > 0 =>
           /\ plan'.nt <= req.r.nt
           /\ req.api # "eltwise" => req.r.nt - plan'.nt < low_freq_thres,
         HeuristicNeverHurts'
  PROVE  ThreadingInv'
<1>1. Asked'
  BY DEF Asked
<1>2. Planned' /\ Seated'
  BY DEF Planned, Seated
<1>3. req' = req
  OBVIOUS
<1>4. plan'.ic \in Nat \ {0} /\ plan'.jc \in Nat \ {0} /\ plan'.nt = plan'.ic * plan'.jc
  BY DEF IsSplit
<1>5. TeamFactorised'
  BY <1>3, <1>4 DEF TeamFactorised
<1> QED BY <1>1, <1>2, <1>5 DEF ThreadingInv

\* Planning keeps it, for each of the data types.
LEMMA PlanInv == ASSUME ThreadingInv, Plan PROVE ThreadingInv'
<1> DEFINE red == req.api \in PrimeReduced
           sp == PanelGetThreading(req.r, req.p, red)
           sf == dlp_gemm_f32f32f32of32_get_threading(req.r, req.p)
           se == dlp_gemm_eltwise_ops_get_threading(req.r, req.p)
<1>0. Asked /\ IsProblem(req.p) /\ req.r \in [nt : Int, ic : Int, jc : Int]
  BY DEF ThreadingInv, Asked
<1>1. CASE PlanAs({"s32"} \cup PrimeReduced, sp)
  <2>1. stage' = "planned" /\ plan' = sp /\ UNCHANGED <<req, tids>>
    BY <1>1 DEF PlanAs
  <2>2. red \in BOOLEAN
    OBVIOUS
  <2> HIDE DEF red
  <2>3. /\ IsSplit(sp)
        /\ req.r.ic <= 0 /\ req.r.jc <= 0 /\ req.r.nt > 0 =>
             sp.nt <= req.r.nt /\ req.r.nt - sp.nt < low_freq_thres
        /\ req.r.ic <= 0 /\ req.r.jc <= 0 /\ req.r.nt > 1
             /\ req.p.m > req.p.MR /\ req.p.n > req.p.NR =>
               PanelWork(sp, req.p) <= PanelWork(Partition(req.r.nt, req.p), req.p)
    BY <1>0, <2>2, PanelThreading
  <2> HIDE DEF sp
  <2>4. HeuristicNeverHurts'
    BY <2>1, <2>3 DEF HeuristicNeverHurts
  <2> QED BY <1>0, <2>1, <2>3, <2>4, PlanKeeps
<1>2. CASE PlanAs({"f32"}, sf)
  <2>1. stage' = "planned" /\ plan' = sf /\ UNCHANGED <<req, tids>> /\ req.api = "f32"
    BY <1>2 DEF PlanAs
  <2>2. /\ IsSplit(sf)
        /\ req.r.ic <= 0 /\ req.r.jc <= 0 /\ req.r.nt > 0 =>
             sf.nt <= req.r.nt /\ req.r.nt - sf.nt < low_freq_thres
    BY <1>0, F32Threading
  <2> HIDE DEF sf
  <2>3. req'.api = "f32"
    BY <2>1
  <2>4. HeuristicNeverHurts'
    BY <2>3 DEF HeuristicNeverHurts
  <2> QED BY <1>0, <2>1, <2>2, <2>4, PlanKeeps
<1>3. CASE PlanAs({"eltwise"}, se)
  <2>1. stage' = "planned" /\ plan' = se /\ UNCHANGED <<req, tids>> /\ req.api = "eltwise"
    BY <1>3 DEF PlanAs
  <2>2. /\ IsSplit(se)
        /\ req.r.ic <= 0 /\ req.r.jc <= 0 /\ req.r.nt > 0 => se.nt <= req.r.nt
    BY <1>0, EltwiseThreading
  <2> HIDE DEF se
  <2>3. req'.api = "eltwise"
    BY <2>1
  <2>4. HeuristicNeverHurts'
    BY <2>3 DEF HeuristicNeverHurts
  <2> QED BY <1>0, <2>1, <2>2, <2>4, PlanKeeps
<1> QED BY <1>1, <1>2, <1>3 DEF Plan

\* So does the fork.
LEMMA ForkInv == ASSUME ThreadingInv, Fork PROVE ThreadingInv'
<1>1. stage = "planned" /\ stage' = "forked" /\ UNCHANGED <<req, plan, tid_distr>>
  BY DEF Fork
<1>2. IsSplit(plan)
  BY <1>1 DEF ThreadingInv, Planned
<1>3. plan.nt \in Nat \ {0}
  BY <1>2 DEF IsSplit
<1> DEFINE M(t) == dlp_gemm_modify_tid_on_distr_type(t, plan.nt, tid_distr)
<1>4. tids' = [t \in 0 .. plan.nt - 1 |-> IF req.reordered THEN M(t) ELSE t]
  BY DEF Fork
<1>5. Seating(tids', plan.nt)
  <2>1. CASE req.reordered
    <3>1. tids' = [t \in 0 .. plan.nt - 1 |-> M(t)]
      BY <1>4, <2>1
    <3> QED BY <1>3, <3>1, SpreadSeats
  <2>2. CASE ~req.reordered
    <3>1. tids' = [t \in 0 .. plan.nt - 1 |-> t]
      BY <1>4, <2>2
    <3> QED BY <1>3, <3>1 DEF Seating
  <2> QED BY <2>1, <2>2
<1>6. Seated'
  BY <1>1, <1>5 DEF Seated
<1>7. Asked' /\ Planned'
  BY <1>1, <1>2 DEF ThreadingInv, Asked, Planned
<1>8. TeamFactorised'
  BY <1>1 DEF ThreadingInv, TeamFactorised
<1>9. HeuristicNeverHurts'
  BY <1>1 DEF ThreadingInv, HeuristicNeverHurts
<1> QED BY <1>6, <1>7, <1>8, <1>9 DEF ThreadingInv

\* What every decorator hands to the drivers: a factorised team of the asked
\* size, seated by a permutation.
THEOREM ThreadingInvariant == Spec => []ThreadingInv
<1>1. Init => ThreadingInv
  BY InitInv
<1>2. ThreadingInv /\ [Next]_vars => ThreadingInv'
  <2> SUFFICES ASSUME ThreadingInv, [Next]_vars PROVE ThreadingInv'
    OBVIOUS
  <2>1. CASE Plan
    BY <2>1, PlanInv
  <2>2. CASE Fork
    BY <2>2, ForkInv
  <2>3. CASE UNCHANGED vars
    <3>1. UNCHANGED <<stage, req, plan, tids>>
      BY <2>3 DEF vars
    <3> QED BY <3>1 DEF ThreadingInv, Asked, Planned, Seated, TeamFactorised, HeuristicNeverHurts
  <2> QED BY <2>1, <2>2, <2>3 DEF Next
<1> QED BY <1>1, <1>2, PTL DEF Spec

\* Whatever heuristic ran, the team is ic_ways x jc_ways and few threads idle.
THEOREM ThreadingTeamFactorised == Spec => []TeamFactorised
<1>1. ThreadingInv => TeamFactorised
  BY DEF ThreadingInv
<1> QED BY <1>1, ThreadingInvariant, PTL

\* The panel heuristics never leave more work to a thread than
\* dlp_thread_partition_2x2 alone.
THEOREM ThreadingHeuristicNeverHurts == Spec => []HeuristicNeverHurts
<1>1. ThreadingInv => HeuristicNeverHurts
  BY DEF ThreadingInv
<1> QED BY <1>1, ThreadingInvariant, PTL

----------------------------------------------------------------------------
(* What the drivers make of it.                                            *)

\* The team and its split once it is forked.
LEMMA Forked ==
  ASSUME ThreadingInv, stage = "forked"
  PROVE  /\ plan.nt \in Nat \ {0} /\ plan.ic \in Nat \ {0} /\ plan.jc \in Nat \ {0}
         /\ plan.nt = plan.ic * plan.jc /\ plan.ic <= plan.nt /\ plan.jc <= plan.nt
         /\ Seating(tids, plan.nt) /\ Team = 0 .. plan.nt - 1
         /\ \A t \in Team : tids[t] \in 0 .. plan.nt - 1
         /\ IsProblem(req.p)
<1>1. stage # "called"
  OBVIOUS
<1>2. IsSplit(plan) /\ Seating(tids, plan.nt) /\ IsProblem(req.p)
  BY <1>1 DEF ThreadingInv, Planned, Seated, Asked
<1>3. /\ plan.nt \in Nat \ {0} /\ plan.ic \in Nat \ {0} /\ plan.jc \in Nat \ {0}
      /\ plan.nt = plan.ic * plan.jc
  BY <1>2 DEF IsSplit
<1>4. plan.ic <= plan.nt /\ plan.jc <= plan.nt
  BY <1>3, WaysBelow
<1>5. Team = 0 .. plan.nt - 1 /\ \A t \in Team : tids[t] \in 0 .. plan.nt - 1
  BY <1>2 DEF Seating, Team
<1> QED BY <1>2, <1>3, <1>4, <1>5

\* Of the thread ids, x alone has the element in its tile of the grid.
OwnsTile(x, a, b, m, n, mb, nb, i, j) ==
  \A y \in 0 .. a * b - 1 :
    (/\ i \in Indices(dlp_thread_task_range(a, ic_work_id(y, a), m, mb, FALSE))
     /\ j \in Indices(dlp_thread_task_range(b, jc_work_id(y, a), n, nb, FALSE)))
    <=> y = x

\* Of nt thread ids, x alone has the iteration in its range.
OwnsLine(x, nt, W, n, bf, c) ==
  \A y \in 0 .. nt - 1 : c \in Indices(dlp_thread_task_range(W, y, n, bf, FALSE)) <=> y = x

\* On the GEMM path an element of C belongs to the thread at one place.
LEMMA GridOwner ==
  ASSUME NEW a \in Nat \ {0}, NEW b \in Nat \ {0}, NEW m \in Nat, NEW n \in Nat,
         NEW mb \in Nat \ {0}, NEW nb \in Nat \ {0},
         NEW i \in 0 .. m - 1, NEW j \in 0 .. n - 1
  PROVE  \E x \in 0 .. a * b - 1 : OwnsTile(x, a, b, m, n, mb, nb, i, j)
<1> DEFINE P(v) == i \in Indices(dlp_thread_task_range(a, v, m, mb, FALSE))
           Q(v) == j \in Indices(dlp_thread_task_range(b, v, n, nb, FALSE))
<1>1. PICK u \in 0 .. a - 1 : \A v \in Nat : P(v) <=> v = u
  <2>1. PICK u \in 0 .. a - 1 : Owns(a, u, m, mb, i)
    BY OneOwner
  <2> QED BY <2>1 DEF Owns
<1>2. PICK g \in 0 .. b - 1 : \A v \in Nat : Q(v) <=> v = g
  <2>1. PICK g \in 0 .. b - 1 : Owns(b, g, n, nb, j)
    BY OneOwner
  <2> QED BY <2>1 DEF Owns
<1> HIDE DEF P, Q
<1>3. PICK x : x = TidAt(g, u, a)
  OBVIOUS
<1>4. /\ x \in 0 .. a * b - 1
      /\ ic_work_id(x, a) = u /\ jc_work_id(x, a) = g
  <2>1. Taken(g, u, a, b)
    BY TidOfPlace
  <2> QED BY <1>3, <2>1 DEF Taken
<1>5. ASSUME NEW y \in 0 .. a * b - 1
      PROVE  (P(ic_work_id(y, a)) /\ Q(jc_work_id(y, a))) <=> y = x
  <2>1. /\ ic_work_id(y, a) \in 0 .. a - 1 /\ jc_work_id(y, a) \in 0 .. b - 1
        /\ y = jc_work_id(y, a) * a + ic_work_id(y, a)
    BY PlaceOfTid
  <2>2. ic_work_id(y, a) \in Nat /\ jc_work_id(y, a) \in Nat
    BY <2>1
  <2>3. P(ic_work_id(y, a)) <=> ic_work_id(y, a) = u
    BY <1>1, <2>2
  <2>4. Q(jc_work_id(y, a)) <=> jc_work_id(y, a) = g
    BY <1>2, <2>2
  <2> QED BY <1>3, <1>4, <2>1, <2>3, <2>4 DEF TidAt
<1>6. OwnsTile(x, a, b, m, n, mb, nb, i, j)
  BY <1>5 DEF OwnsTile, P, Q
<1> QED BY <1>4, <1>6

\* On the GEMV path it belongs to one thread id below the ways.
LEMMA LineOwner ==
  ASSUME NEW W \in Nat \ {0}, NEW nt \in Nat \ {0}, W <= nt,
         NEW n \in Nat, NEW bf \in Nat \ {0}, NEW c \in 0 .. n - 1
  PROVE  \E x \in 0 .. nt - 1 : OwnsLine(x, nt, W, n, bf, c)
<1> DEFINE P(v) == c \in Indices(dlp_thread_task_range(W, v, n, bf, FALSE))
<1>1. PICK u \in 0 .. W - 1 : \A v \in Nat : P(v) <=> v = u
  <2>1. PICK u \in 0 .. W - 1 : Owns(W, u, n, bf, c)
    BY OneOwner
  <2> QED BY <2>1 DEF Owns
<1> HIDE DEF P
<1>2. u \in 0 .. nt - 1 /\ \A y \in 0 .. nt - 1 : P(y) <=> y = u
  BY <1>1
<1> QED BY <1>2 DEF P, OwnsLine

\* An element of C belongs to one thread id.
LEMMA ElementOwner ==
  ASSUME ThreadingInv, stage = "forked",
         NEW i \in 0 .. req.p.m - 1, NEW j \in 0 .. req.p.n - 1
  PROVE  \E x \in 0 .. plan.nt - 1 : \A y \in 0 .. plan.nt - 1 :
           (i \in Indices(IcRange(y)) /\ j \in Indices(JcRange(y))) <=> y = x
<1>0. PICK m, n, ic, jc, nt, MR, NR :
        /\ m = req.p.m /\ n = req.p.n /\ ic = plan.ic /\ jc = plan.jc /\ nt = plan.nt
        /\ MR = req.p.MR /\ NR = req.p.NR
  OBVIOUS
<1>1. /\ nt \in Nat \ {0} /\ ic \in Nat \ {0} /\ jc \in Nat \ {0} /\ nt = ic * jc
      /\ ic <= nt /\ jc <= nt
      /\ m \in Nat \ {0} /\ n \in Nat \ {0} /\ MR \in Nat \ {0} /\ NR \in Nat \ {0}
  BY <1>0, Forked DEF IsProblem
<1>2. m \in Nat /\ n \in Nat /\ i \in 0 .. m - 1 /\ j \in 0 .. n - 1 /\ GemvMR \in Nat \ {0}
  BY <1>0, <1>1, ThreadingAssumption
<1>3. i \in Indices(Whole(m)) /\ j \in Indices(Whole(n))
  BY <1>2 DEF Indices, Whole, Span
<1> DEFINE Goal == \E x \in 0 .. nt - 1 : \A y \in 0 .. nt - 1 :
                     (i \in Indices(IcRange(y)) /\ j \in Indices(JcRange(y))) <=> y = x
<1>4. CASE ~IsGemv
  <2>1. \A y : /\ IcRange(y) = dlp_thread_task_range(ic, ic_work_id(y, ic), m, MR, FALSE)
               /\ JcRange(y) = dlp_thread_task_range(jc, jc_work_id(y, ic), n, NR, FALSE)
    BY <1>0, <1>4 DEF IcRange, JcRange
  <2>2. PICK x \in 0 .. ic * jc - 1 : OwnsTile(x, ic, jc, m, n, MR, NR, i, j)
    BY <1>1, <1>2, GridOwner
  <2>3. Goal
    BY <1>1, <2>1, <2>2 DEF OwnsTile
  <2> QED BY <1>0, <2>3
<1>5. CASE IsGemv /\ n = 1
  <2>1. PICK W : W = IF ic = 1 THEN nt ELSE ic
    OBVIOUS
  <2>2. W \in Nat \ {0} /\ W <= nt
    BY <1>1, <2>1
  <2>3. \A y : /\ IcRange(y) = dlp_thread_task_range(W, y, m, GemvMR, FALSE)
               /\ JcRange(y) = Whole(n)
    BY <1>0, <1>5, <2>1 DEF IcRange, JcRange, GemvRows
  <2>4. PICK x \in 0 .. nt - 1 : OwnsLine(x, nt, W, m, GemvMR, i)
    BY <1>1, <1>2, <2>2, LineOwner
  <2>5. Goal
    BY <1>3, <2>3, <2>4 DEF OwnsLine
  <2> QED BY <1>0, <2>5
<1>6. CASE IsGemv /\ n # 1
  <2>1. PICK W : W = IF jc = 1 THEN nt ELSE jc
    OBVIOUS
  <2>2. W \in Nat \ {0} /\ W <= nt
    BY <1>1, <2>1
  <2>3. \A y : /\ JcRange(y) = dlp_thread_task_range(W, y, n, NR, FALSE)
               /\ IcRange(y) = Whole(m)
    BY <1>0, <1>6, <2>1 DEF IcRange, JcRange, GemvCols
  <2>4. PICK x \in 0 .. nt - 1 : OwnsLine(x, nt, W, n, NR, j)
    BY <1>1, <1>2, <2>2, LineOwner
  <2>5. Goal
    BY <1>3, <2>3, <2>4 DEF OwnsLine
  <2> QED BY <1>0, <2>5
<1> QED BY <1>4, <1>5, <1>6

\* C is computed exactly: one thread for each element, for every data type,
\* split and host, on the GEMM path and on the GEMV path.
THEOREM ThreadingEveryElementOnce == Spec => []EveryElementOnce
<1>1. ThreadingInv => EveryElementOnce
  <2> SUFFICES ASSUME ThreadingInv, stage = "forked",
                      NEW i \in 0 .. req.p.m - 1, NEW j \in 0 .. req.p.n - 1
               PROVE  Cardinality({t \in Team : i \in Indices(IcRange(tids[t]))
                                                /\ j \in Indices(JcRange(tids[t]))}) = 1
    BY DEF EveryElementOnce
  <2>1. /\ plan.nt \in Nat \ {0} /\ Seating(tids, plan.nt)
        /\ \A t \in Team : tids[t] \in 0 .. plan.nt - 1
    BY Forked
  <2>2. PICK x \in 0 .. plan.nt - 1 : \A y \in 0 .. plan.nt - 1 :
          (i \in Indices(IcRange(y)) /\ j \in Indices(JcRange(y))) <=> y = x
    BY ElementOwner
  <2>3. {t \in Team : i \in Indices(IcRange(tids[t])) /\ j \in Indices(JcRange(tids[t]))}
          = {t \in DOMAIN tids : tids[t] = x}
    BY <2>1, <2>2 DEF Team
  <2>4. Cardinality({t \in DOMAIN tids : tids[t] = x}) = 1
    BY <2>1, OneSeat
  <2> QED BY <2>3, <2>4
<1> QED BY <1>1, ThreadingInvariant, PTL

\* Every communicator is used by exactly the threads it was set up for, one of
\* them its chief: no barrier of the drivers can hang or open early.
THEOREM ThreadingCommsFilled == Spec => []CommsFilled
<1>1. ThreadingInv => CommsFilled
  <2> SUFFICES ASSUME ThreadingInv, stage = "forked" PROVE CommsFilled
    BY DEF CommsFilled
  <2>0. PICK a, b : a = plan.ic /\ b = plan.jc
    OBVIOUS
  <2>1. /\ a \in Nat \ {0} /\ b \in Nat \ {0}
        /\ Seating(tids, a * b) /\ Team = 0 .. a * b - 1
        /\ \A t \in Team : tids[t] \in 0 .. a * b - 1
    BY <2>0, Forked
  <2>2. ASSUME NEW t \in Team PROVE jc_work_id(tids[t], plan.ic) < plan.jc
    <3>1. tids[t] \in 0 .. a * b - 1
      BY <2>1
    <3>2. jc_work_id(tids[t], a) \in 0 .. b - 1
      BY <2>1, <3>1, PlaceOfTid
    <3> QED BY <2>0, <2>1, <3>2
  <2>3. PICK f : f = tids
    OBVIOUS
  <2>4. ASSUME NEW g \in 0 .. b - 1
        PROVE  LET members == {t \in Team : jc_work_id(tids[t], plan.ic) = g}
               IN  /\ Cardinality(members) = plan.ic
                   /\ {ic_work_id(tids[t], plan.ic) : t \in members} = 0 .. plan.ic - 1
    <3>1. /\ Cardinality(Members(f, a, b, g)) = a
          /\ {ic_work_id(f[t], a) : t \in Members(f, a, b, g)} = 0 .. a - 1
      <4>1. ColumnFull(f, a, b, g)
        BY <2>1, <2>3, Column
      <4> QED BY <4>1 DEF ColumnFull
    <3>2. Members(f, a, b, g) = {t \in Team : jc_work_id(tids[t], plan.ic) = g}
      BY <2>0, <2>1, <2>3 DEF Members
    <3> QED BY <2>0, <2>3, <3>1, <3>2
  <2> QED BY <2>0, <2>2, <2>4 DEF CommsFilled
<1> QED BY <1>1, ThreadingInvariant, PTL

\* No micro-panel is cut between two threads, and no thread has more than one
\* block more than another.
THEOREM ThreadingTilesBalanced == Spec => []TilesBalanced
<1>1. ThreadingInv => TilesBalanced
  <2> SUFFICES ASSUME ThreadingInv, stage = "forked", ~IsGemv, NEW t \in Team, NEW u \in Team
               PROVE  LET Blocks(r, bf) == (r.end - r.start) \div bf
                          it == IcRange(tids[t])  iu == IcRange(tids[u])
                          jt == JcRange(tids[t])  ju == JcRange(tids[u])
                      IN  /\ it.start % req.p.MR = 0 /\ jt.start % req.p.NR = 0
                          /\ Blocks(it, req.p.MR) <= Blocks(iu, req.p.MR) + 1
                          /\ Blocks(jt, req.p.NR) <= Blocks(ju, req.p.NR) + 1
    BY DEF TilesBalanced
  <2>0. PICK m, n, a, b, MR, NR : /\ m = req.p.m /\ n = req.p.n /\ a = plan.ic /\ b = plan.jc
                                  /\ MR = req.p.MR /\ NR = req.p.NR
    OBVIOUS
  <2>1. /\ a \in Nat \ {0} /\ b \in Nat \ {0} /\ plan.nt = a * b
        /\ \A y \in Team : tids[y] \in 0 .. a * b - 1
        /\ m \in Nat /\ n \in Nat /\ MR \in Nat \ {0} /\ NR \in Nat \ {0}
    BY <2>0, Forked DEF IsProblem
  <2>2. ASSUME NEW y \in Team
        PROVE  /\ IcRange(tids[y]).start % MR = 0
               /\ JcRange(tids[y]).start % NR = 0
               /\ (IcRange(tids[y]).end - IcRange(tids[y]).start) \div MR
                    \in {Each(a, m, MR), Each(a, m, MR) + 1}
               /\ (JcRange(tids[y]).end - JcRange(tids[y]).start) \div NR
                    \in {Each(b, n, NR), Each(b, n, NR) + 1}
    <3>1. PICK v, w : v = ic_work_id(tids[y], a) /\ w = jc_work_id(tids[y], a)
      OBVIOUS
    <3>2. v \in 0 .. a - 1 /\ w \in 0 .. b - 1
      BY <2>1, <3>1, PlaceOfTid
    <3>3. IcRange(tids[y]) = dlp_thread_task_range(a, v, m, MR, FALSE)
      BY <2>0, <3>1 DEF IcRange
    <3>4. JcRange(tids[y]) = dlp_thread_task_range(b, w, n, NR, FALSE)
      BY <2>0, <3>1 DEF JcRange
    <3>5. RangesAligned(a, m, MR) /\ RangesAligned(b, n, NR)
      BY <2>1, TaskRangesAligned
    <3>6. /\ dlp_thread_task_range(a, v, m, MR, FALSE).start % MR = 0
          /\ dlp_thread_task_range(b, w, n, NR, FALSE).start % NR = 0
      BY <3>2, <3>5 DEF RangesAligned
    <3>7. (dlp_thread_task_range(a, v, m, MR, FALSE).end
             - dlp_thread_task_range(a, v, m, MR, FALSE).start) \div MR
            \in {Each(a, m, MR), Each(a, m, MR) + 1}
      BY <2>1, <3>2, BlocksEach
    <3>8. (dlp_thread_task_range(b, w, n, NR, FALSE).end
             - dlp_thread_task_range(b, w, n, NR, FALSE).start) \div NR
            \in {Each(b, n, NR), Each(b, n, NR) + 1}
      BY <2>1, <3>2, BlocksEach
    <3> QED BY <3>3, <3>4, <3>6, <3>7, <3>8
  <2>3. Each(a, m, MR) \in Nat /\ Each(b, n, NR) \in Nat
    BY <2>1, BlockCounts
  <2>4. \A x, y, q \in Int : x \in {q, q + 1} /\ y \in {q, q + 1} => x <= y + 1
    OBVIOUS
  <2>5. (IcRange(tids[t]).end - IcRange(tids[t]).start) \div MR
          <= (IcRange(tids[u]).end - IcRange(tids[u]).start) \div MR + 1
    BY <2>2, <2>3, <2>4
  <2>6. (JcRange(tids[t]).end - JcRange(tids[t]).start) \div NR
          <= (JcRange(tids[u]).end - JcRange(tids[u]).start) \div NR + 1
    BY <2>2, <2>3, <2>4
  <2> QED BY <2>0, <2>2, <2>5, <2>6
<1> QED BY <1>1, ThreadingInvariant, PTL

----------------------------------------------------------------------------
(* The barrier.                                                            *)

\* The threads that wait for the current round to complete.
Waiting == {t \in team : pc[t] = "spin" /\ orig_sense[t] = barrier_sense}
Closing == {t \in team : pc[t] \in {"reset", "flip"}}

\* Where a thread may be when g rounds are complete.
ThreadInv(t, g) ==
  /\ pc[t] \in {"inc", "reset", "flip"} => orig_sense[t] = barrier_sense
  /\ pc[t] = "spin" /\ orig_sense[t] # barrier_sense => passed[t] + 1 = g
  /\ pc[t] # "spin" \/ orig_sense[t] = barrier_sense => passed[t] = g
  /\ pc[t] = "alone" => n_threads = 1
  /\ pc[t] \notin {"out", "alone"} => n_threads # 1

CounterInv ==
  /\ Closing = {} => /\ barrier_threads_arrived = Cardinality(Waiting)
                     /\ Waiting # team
  /\ \A t \in Closing : /\ team = Waiting \cup {t}
                        /\ pc[t] = "flip" => barrier_threads_arrived = 0

RoundInv(g) == CounterInv /\ \A t \in team : ThreadInv(t, g)

BarrierInv == TypeOK /\ \E g \in Nat : RoundInv(g)

----------------------------------------------------------------------------
\* A team is finite, so its size is a positive number.
LEMMA TeamSize ==
  ASSUME TypeOK
  PROVE  /\ IsFiniteSet(team) /\ n_threads \in Nat \ {0}
         /\ IsFiniteSet(Waiting) /\ Cardinality(Waiting) \in Nat
<1>1. IsFiniteSet(team)
  BY BarrierAssumption, FS_Subset DEF TypeOK
<1>2. IsFiniteSet(Waiting)
  BY <1>1, FS_Subset DEF Waiting
<1>3. Cardinality(team) \in Nat /\ Cardinality(Waiting) \in Nat
  BY <1>1, <1>2, FS_CardinalityType
<1>4. Cardinality(team) # 0
  BY <1>1, FS_EmptySet DEF TypeOK
<1> QED
  BY <1>1, <1>2, <1>3, <1>4 DEF n_threads

\* A team of one consists of its only member.
LEMMA TeamOfOne ==
  ASSUME TypeOK, n_threads = 1, NEW t \in team
  PROVE  team = {t}
  BY TeamSize, FS_Singleton DEF n_threads

\* One more thread waits: the counter reaches n_threads exactly when that
\* thread is the last of its team.
LEMMA LastArrival ==
  ASSUME TypeOK, NEW t \in team, t \notin Waiting
  PROVE  /\ Cardinality(Waiting \cup {t}) = Cardinality(Waiting) + 1
         /\ Cardinality(Waiting) + 1 = n_threads <=> team = Waiting \cup {t}
<1>1. IsFiniteSet(team) /\ IsFiniteSet(Waiting) /\ Waiting \cup {t} \subseteq team
  BY TeamSize DEF Waiting
<1>2. Cardinality(Waiting \cup {t}) = Cardinality(Waiting) + 1
  BY <1>1, FS_AddElement
<1>3. ASSUME Cardinality(Waiting) + 1 = n_threads PROVE team = Waiting \cup {t}
  BY <1>1, <1>2, <1>3, FS_Subset DEF n_threads
<1> QED
  BY <1>2, <1>3 DEF n_threads

\* The initial state satisfies the invariant.
LEMMA BarrierBegins == BarrierInit => BarrierInv
<1> SUFFICES ASSUME BarrierInit PROVE BarrierInv
  OBVIOUS
<1>1. TypeOK
  BY DEF BarrierInit, TypeOK, Pcs
<1>2. Waiting = {} /\ Closing = {} /\ team # {}
  <2>1. \A t \in team : t \in Threads /\ pc[t] = "out"
    BY DEF BarrierInit
  <2> QED
    BY <2>1 DEF BarrierInit, Waiting, Closing
<1>3. CounterInv
  BY <1>2, FS_EmptySet DEF CounterInv, BarrierInit
<1>4. \A t \in team : ThreadInv(t, 0)
  BY DEF BarrierInit, ThreadInv
<1> QED
  BY <1>1, <1>3, <1>4 DEF BarrierInv, RoundInv

----------------------------------------------------------------------------
\* The type invariant is inductive by itself.
LEMMA BarrierTypesKept == TypeOK /\ [BarrierNext]_barrier_vars => TypeOK'
<1> SUFFICES ASSUME TypeOK, [BarrierNext]_barrier_vars PROVE TypeOK'
  OBVIOUS
<1>1. ASSUME NEW t \in team, LoadSense(t) PROVE TypeOK'
  <2>1. t \in Threads
    BY DEF TypeOK
  <2>2. CASE n_threads = 1
    BY <1>1, <2>1, <2>2 DEF LoadSense, TypeOK, Pcs
  <2>3. CASE n_threads # 1
    BY <1>1, <2>1, <2>3 DEF LoadSense, TypeOK, Pcs
  <2> QED
    BY <2>2, <2>3
<1>2. ASSUME NEW t \in team, ReturnAlone(t) PROVE TypeOK'
  BY <1>2 DEF ReturnAlone, TypeOK, Pcs
<1>3. ASSUME NEW t \in team, Increment(t) PROVE TypeOK'
  BY <1>3 DEF Increment, TypeOK, Pcs
<1>4. ASSUME NEW t \in team, ResetCounter(t) PROVE TypeOK'
  BY <1>4 DEF ResetCounter, TypeOK, Pcs
<1>5. ASSUME NEW t \in team, FlipSense(t) PROVE TypeOK'
  BY <1>5 DEF FlipSense, TypeOK, Pcs
<1>6. ASSUME NEW t \in team, SpinExit(t) PROVE TypeOK'
  BY <1>6 DEF SpinExit, TypeOK, Pcs
<1>7. CASE UNCHANGED barrier_vars
  BY <1>7 DEF barrier_vars, TypeOK
<1> QED
  BY <1>1, <1>2, <1>3, <1>4, <1>5, <1>6, <1>7 DEF BarrierNext, Inside

\* A call begins: a thread that had passed g rounds is now in round g + 1.
LEMMA LoadSenseInv ==
  ASSUME TypeOK, NEW g \in Nat, RoundInv(g), NEW t \in team, LoadSense(t)
  PROVE  RoundInv(g)'
<1>1. t \in Threads /\ n_threads' = n_threads /\ team' = team
      /\ barrier_sense' = barrier_sense /\ passed' = passed
      /\ pc[t] = "out" /\ barrier_threads_arrived' = barrier_threads_arrived
  BY DEF TypeOK, LoadSense, n_threads
<1>2. \A u \in team : u # t => pc'[u] = pc[u] /\ orig_sense'[u] = orig_sense[u]
  BY <1>1 DEF TypeOK, LoadSense
<1>3. \/ n_threads = 1 /\ pc'[t] = "alone"
      \/ n_threads # 1 /\ pc'[t] = "inc" /\ orig_sense'[t] = barrier_sense
  BY <1>1 DEF TypeOK, LoadSense
<1>4. Waiting' = Waiting /\ Closing' = Closing
  BY <1>1, <1>2, <1>3 DEF Waiting, Closing
<1>5. CounterInv'
  <2>1. \A u \in Closing : u # t
    BY <1>1 DEF Closing
  <2> QED
    BY <1>1, <1>2, <1>4, <2>1 DEF CounterInv, RoundInv, Closing
<1>6. ASSUME NEW u \in team PROVE ThreadInv(u, g)'
  <2>1. CASE u = t
    BY <1>1, <1>3, <2>1 DEF ThreadInv, RoundInv
  <2>2. CASE u # t
    BY <1>1, <1>2, <2>2 DEF ThreadInv, RoundInv
  <2> QED
    BY <2>1, <2>2
<1> QED
  BY <1>1, <1>5, <1>6 DEF RoundInv

\* A team of one completes a round by itself.
LEMMA ReturnAloneInv ==
  ASSUME TypeOK, NEW g \in Nat, RoundInv(g), NEW t \in team, ReturnAlone(t)
  PROVE  RoundInv(g + 1)'
<1>1. t \in Threads /\ n_threads' = n_threads /\ team' = team /\ pc[t] = "alone"
      /\ barrier_sense' = barrier_sense /\ orig_sense' = orig_sense
      /\ pc'[t] = "out" /\ passed'[t] = passed[t] + 1
      /\ barrier_threads_arrived' = barrier_threads_arrived
  BY DEF TypeOK, ReturnAlone, n_threads
<1>2. n_threads = 1 /\ passed[t] = g
  BY <1>1 DEF RoundInv, ThreadInv
<1>3. team = {t}
  BY <1>2, TeamOfOne
<1>4. Waiting = {} /\ Closing = {} /\ Waiting' = {} /\ Closing' = {}
  BY <1>1, <1>3 DEF Waiting, Closing
<1>5. CounterInv'
  BY <1>1, <1>4 DEF CounterInv, RoundInv
<1>6. ThreadInv(t, g + 1)'
  BY <1>1, <1>2 DEF ThreadInv
<1> QED
  BY <1>1, <1>3, <1>5, <1>6 DEF RoundInv

\* An arrival: the counter follows, and its last value closes the round.
LEMMA IncrementInv ==
  ASSUME TypeOK, NEW g \in Nat, RoundInv(g), NEW t \in team, Increment(t)
  PROVE  RoundInv(g)'
<1>1. t \in Threads /\ n_threads' = n_threads /\ team' = team /\ pc[t] = "inc"
      /\ barrier_sense' = barrier_sense /\ orig_sense' = orig_sense /\ passed' = passed
      /\ barrier_threads_arrived' = barrier_threads_arrived + 1
  BY DEF TypeOK, Increment, n_threads
<1>2. \A u \in team : u # t => pc'[u] = pc[u]
  BY <1>1 DEF TypeOK, Increment
<1>3. t \notin Waiting /\ t \notin Closing /\ orig_sense[t] = barrier_sense /\ passed[t] = g
      /\ n_threads # 1
  BY <1>1 DEF Waiting, Closing, RoundInv, ThreadInv
<1>4. Closing = {} /\ barrier_threads_arrived = Cardinality(Waiting)
  <2>1. ASSUME NEW u \in Closing PROVE FALSE
    BY <1>3, <2>1 DEF RoundInv, CounterInv
  <2> QED
    BY <2>1 DEF RoundInv, CounterInv
<1>5. Cardinality(Waiting) \in Nat /\ n_threads \in Nat
  BY TeamSize
<1>6. CASE barrier_threads_arrived + 1 = n_threads
  <2>1. pc'[t] = "reset" /\ team = Waiting \cup {t}
    BY <1>1, <1>3, <1>4, <1>6, LastArrival DEF Increment, TypeOK
  <2>2. Waiting' = Waiting /\ Closing' = {t}
    BY <1>1, <1>2, <1>3, <1>4, <2>1 DEF Waiting, Closing
  <2>3. CounterInv'
    BY <1>1, <2>1, <2>2 DEF CounterInv
  <2>4. \A u \in team : ThreadInv(u, g)'
    BY <1>1, <1>2, <1>3, <2>1 DEF RoundInv, ThreadInv
  <2> QED
    BY <1>1, <2>3, <2>4 DEF RoundInv
<1>7. CASE barrier_threads_arrived + 1 # n_threads
  <2>1. pc'[t] = "spin"
    BY <1>1, <1>7 DEF Increment, TypeOK
  <2>2. Waiting' = Waiting \cup {t} /\ Closing' = {}
    BY <1>1, <1>2, <1>3, <1>4, <2>1 DEF Waiting, Closing
  <2>3. Cardinality(Waiting \cup {t}) = Cardinality(Waiting) + 1 /\ team # Waiting \cup {t}
    BY <1>3, <1>4, <1>7, LastArrival
  <2>4. CounterInv'
    BY <1>1, <1>4, <2>2, <2>3 DEF CounterInv
  <2>5. \A u \in team : ThreadInv(u, g)'
    BY <1>1, <1>2, <1>3, <2>1 DEF RoundInv, ThreadInv
  <2> QED
    BY <1>1, <2>4, <2>5 DEF RoundInv
<1> QED
  BY <1>6, <1>7

\* The plain store of the closing thread.
LEMMA ResetCounterInv ==
  ASSUME TypeOK, NEW g \in Nat, RoundInv(g), NEW t \in team, ResetCounter(t)
  PROVE  RoundInv(g)'
<1>1. t \in Threads /\ n_threads' = n_threads /\ team' = team /\ pc[t] = "reset"
      /\ pc'[t] = "flip" /\ barrier_threads_arrived' = 0
      /\ barrier_sense' = barrier_sense /\ orig_sense' = orig_sense /\ passed' = passed
  BY DEF TypeOK, ResetCounter, n_threads
<1>2. \A u \in team : u # t => pc'[u] = pc[u]
  BY <1>1 DEF TypeOK, ResetCounter
<1>3. Waiting' = Waiting /\ Closing' = Closing /\ t \in Closing
  BY <1>1, <1>2 DEF Waiting, Closing
<1>4. CounterInv'
  BY <1>1, <1>3 DEF CounterInv, RoundInv
<1>5. \A u \in team : ThreadInv(u, g)'
  BY <1>1, <1>2 DEF RoundInv, ThreadInv
<1> QED
  BY <1>1, <1>4, <1>5 DEF RoundInv

\* The flip completes round g + 1: all who waited now hold a stale sense.
LEMMA FlipSenseInv ==
  ASSUME TypeOK, NEW g \in Nat, RoundInv(g), NEW t \in team, FlipSense(t)
  PROVE  RoundInv(g + 1)'
<1>1. t \in Threads /\ n_threads' = n_threads /\ team' = team /\ pc[t] = "flip"
      /\ pc'[t] = "out" /\ passed'[t] = passed[t] + 1
      /\ barrier_threads_arrived' = barrier_threads_arrived
      /\ barrier_sense' # barrier_sense /\ orig_sense' = orig_sense
  BY DEF TypeOK, FlipSense, n_threads
<1>2. \A u \in team : u # t => pc'[u] = pc[u] /\ passed'[u] = passed[u]
  BY <1>1 DEF TypeOK, FlipSense
<1>3. team = Waiting \cup {t} /\ barrier_threads_arrived = 0 /\ passed[t] = g /\ n_threads # 1
  BY <1>1 DEF Closing, RoundInv, CounterInv, ThreadInv
<1>4. \A u \in team : u # t => /\ pc[u] = "spin" /\ orig_sense[u] = barrier_sense
                              /\ passed[u] = g
  BY <1>3 DEF Waiting, RoundInv, ThreadInv
<1>5. Waiting' = {} /\ Closing' = {}
  BY <1>1, <1>2, <1>4 DEF Waiting, Closing
<1>6. CounterInv'
  BY <1>1, <1>3, <1>5, FS_EmptySet DEF CounterInv
<1>7. \A u \in team : ThreadInv(u, g + 1)'
  BY <1>1, <1>2, <1>3, <1>4 DEF ThreadInv
<1> QED
  BY <1>1, <1>6, <1>7 DEF RoundInv

\* A spinning thread leaves; it was not one of those who wait.
LEMMA SpinExitInv ==
  ASSUME TypeOK, NEW g \in Nat, RoundInv(g), NEW t \in team, SpinExit(t)
  PROVE  RoundInv(g)'
<1>1. t \in Threads /\ n_threads' = n_threads /\ team' = team /\ pc[t] = "spin"
      /\ pc'[t] = "out" /\ passed'[t] = passed[t] + 1 /\ orig_sense[t] # barrier_sense
      /\ barrier_threads_arrived' = barrier_threads_arrived
      /\ barrier_sense' = barrier_sense /\ orig_sense' = orig_sense
  BY DEF TypeOK, SpinExit, n_threads
<1>2. \A u \in team : u # t => pc'[u] = pc[u] /\ passed'[u] = passed[u]
  BY <1>1 DEF TypeOK, SpinExit
<1>3. Waiting' = Waiting /\ Closing' = Closing
  BY <1>1, <1>2 DEF Waiting, Closing
<1>4. CounterInv'
  <2>1. \A u \in Closing : u # t
    BY <1>1 DEF Closing
  <2> QED
    BY <1>1, <1>2, <1>3, <2>1 DEF CounterInv, RoundInv, Closing
<1>5. \A u \in team : ThreadInv(u, g)'
  BY <1>1, <1>2 DEF RoundInv, ThreadInv
<1> QED
  BY <1>1, <1>4, <1>5 DEF RoundInv

----------------------------------------------------------------------------
\* Every step keeps the invariant, for the same or for the next round.
LEMMA BarrierKept == BarrierInv /\ [BarrierNext]_barrier_vars => BarrierInv'
<1> SUFFICES ASSUME BarrierInv, [BarrierNext]_barrier_vars PROVE BarrierInv'
  OBVIOUS
<1>1. TypeOK /\ TypeOK'
  BY BarrierTypesKept DEF BarrierInv
<1>2. PICK g \in Nat : RoundInv(g)
  BY DEF BarrierInv
<1>3. CASE UNCHANGED barrier_vars
  <2>1. RoundInv(g)'
    BY <1>2, <1>3 DEF barrier_vars, RoundInv, CounterInv, ThreadInv, Waiting, Closing, n_threads
  <2> QED
    BY <1>1, <2>1 DEF BarrierInv
<1>4. ASSUME NEW t \in team, LoadSense(t) \/ Inside(t) PROVE BarrierInv'
  <2>1. g + 1 \in Nat /\ (RoundInv(g)' \/ RoundInv(g + 1)')
    BY <1>1, <1>2, <1>4, LoadSenseInv, ReturnAloneInv, IncrementInv, ResetCounterInv,
       FlipSenseInv, SpinExitInv DEF Inside
  <2> QED
    BY <1>1, <2>1 DEF BarrierInv
<1> QED
  BY <1>3, <1>4 DEF BarrierNext

\* The inductive invariant holds in every reachable state.
LEMMA BarrierInvariant == BarrierSpec => []BarrierInv
  BY BarrierBegins, BarrierKept, PTL DEF BarrierSpec

\* The barrier's state keeps its types.
THEOREM BarrierTypeCorrect == BarrierSpec => []TypeOK
<1>1. BarrierInv => TypeOK
  BY DEF BarrierInv
<1> QED
  BY <1>1, BarrierInvariant, PTL

\* What the invariant says of two threads of the team.
LEMMA RoundGap ==
  ASSUME BarrierInv, NEW t \in team, NEW u \in team
  PROVE  /\ passed[t] <= entered[u]
         /\ t # u /\ pc[t] \in {"reset", "flip"} =>
              pc[u] = "spin" /\ orig_sense[u] = barrier_sense
<1>1. PICK g \in Nat : RoundInv(g)
  BY DEF BarrierInv
<1>2. t \in Threads /\ u \in Threads /\ passed[t] \in Nat /\ passed[u] \in Nat
      /\ entered[u] = passed[u] + (IF pc[u] = "out" THEN 0 ELSE 1)
  BY DEF BarrierInv, TypeOK
<1>3. passed[t] <= g /\ g <= entered[u]
  BY <1>1, <1>2 DEF RoundInv, ThreadInv
<1>4. t # u /\ pc[t] \in {"reset", "flip"} => u \in Waiting
  BY <1>1 DEF RoundInv, CounterInv, Closing
<1> QED
  BY <1>2, <1>3, <1>4 DEF Waiting, BarrierInv, TypeOK

\* Nobody returns from its k-th call of dlp_atomic_barrier before everybody
\* in the team has made a k-th call, for every team and every k.
THEOREM BarrierNoEarlyExit == BarrierSpec => []NoEarlyExit
<1>1. BarrierInv => NoEarlyExit
  BY RoundGap DEF NoEarlyExit
<1> QED
  BY <1>1, BarrierInvariant, PTL

\* The plain store that resets the counter (line 121) races with nobody.
THEOREM BarrierResetRaceFree == BarrierSpec => []ResetRacesWithNobody
<1>1. BarrierInv => ResetRacesWithNobody
  BY RoundGap DEF ResetRacesWithNobody
<1> QED
  BY <1>1, BarrierInvariant, PTL

\* A step of the atomic barrier is a step of the abstract one, or none.
LEMMA BarrierStepRefines ==
  ASSUME BarrierInv, BarrierNext
  PROVE  AB!Next \/ UNCHANGED <<team, entered, passed>>
<1>1. PICK t \in team : LoadSense(t) \/ Inside(t)
  BY DEF BarrierNext
<1>2. t \in Threads /\ TypeOK
  BY DEF BarrierInv, TypeOK
<1>3. CASE LoadSense(t)
  <2>1. entered[t] = passed[t]
    BY <1>2, <1>3 DEF LoadSense, TypeOK
  <2>2. AB!Arrive(t)
    BY <1>3, <2>1 DEF LoadSense, AB!Arrive
  <2> QED
    BY <2>2 DEF AB!Next
<1>4. CASE Increment(t) \/ ResetCounter(t)
  BY <1>4 DEF Increment, ResetCounter
<1>5. CASE ReturnAlone(t) \/ FlipSense(t) \/ SpinExit(t)
  <2>1. passed' = [passed EXCEPT ![t] = @ + 1] /\ UNCHANGED <<team, entered>>
        /\ passed[t] < entered[t]
    BY <1>2, <1>5 DEF ReturnAlone, FlipSense, SpinExit, TypeOK
  <2>2. ASSUME NEW u \in team PROVE entered[t] <= entered[u]
    <3>1. PICK g \in Nat : RoundInv(g)
      BY DEF BarrierInv
    <3>2. CASE ReturnAlone(t)
      BY <1>2, <3>1, <3>2, TeamOfOne DEF ReturnAlone, RoundInv, ThreadInv, TypeOK
    <3>3. CASE FlipSense(t)
      <4>1. u = t \/ (pc[u] = "spin" /\ orig_sense[u] = barrier_sense)
        BY <3>3, RoundGap DEF FlipSense
      <4> QED
        BY <1>2, <3>1, <3>3, <4>1 DEF FlipSense, RoundInv, ThreadInv, TypeOK
    <3>4. CASE SpinExit(t)
      <4>1. entered[t] = g /\ g <= entered[u]
        BY <1>2, <3>1, <3>4 DEF SpinExit, RoundInv, ThreadInv, TypeOK
      <4> QED
        BY <4>1
    <3> QED
      BY <1>5, <3>2, <3>3, <3>4
  <2> QED
    BY <2>1, <2>2 DEF AB!Next, AB!Leave
<1> QED
  BY <1>1, <1>3, <1>4, <1>5 DEF Inside

\* dlp_atomic_barrier implements the abstract barrier.
THEOREM BarrierRefinement == BarrierSpec => ImplementsBarrier
<1>1. BarrierInit => AB!Init
  BY DEF BarrierInit, AB!Init
<1>2. BarrierInv /\ [BarrierNext]_barrier_vars => [AB!Next]_<<team, entered, passed>>
  BY BarrierStepRefines DEF barrier_vars
<1> QED
  BY <1>1, <1>2, BarrierInvariant, PTL DEF BarrierSpec, ImplementsBarrier, AB!Spec
=============================================================================
