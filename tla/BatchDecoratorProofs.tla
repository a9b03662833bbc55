----------------------- MODULE BatchDecoratorProofs -----------------------
(***************************************************************************)
(* The batch decorators hand every GEMM to one whole team, and no driver   *)
(* leaves its barrier before its jc team is in the same GEMM, for every    *)
(* thread count, group size and shape.                                     *)
(*                                                                         *)
(* The argument: a team has several threads only if there are more threads *)
(* than GEMMs, and then there are as many teams as GEMMs.  So a thread of  *)
(* such a team calls one driver, and arrives at its communicator's barrier *)
(* once at most: the arrivals count the threads that pack, and there are   *)
(* ic_ways of them only if everyone does.                                  *)
(***************************************************************************)
EXTENDS BatchDecorator, SharingProofs

----------------------------------------------------------------------------
(* The plan.                                                               *)

\* The plan of a call of nt threads for group_size GEMMs.
IsBatchPlan(q, nt, group_size) ==
  /\ q.gemms \in Nat \ {0} /\ q.ic \in Nat \ {0} /\ q.jc \in Nat \ {0}
  /\ q.per = q.ic * q.jc
  /\ q.nt = q.gemms * q.per
  /\ q.nt <= nt \/ q.nt = 1
  /\ q.per > 1 => q.gemms = group_size

\* The split of a team's threads.
LEMMA BatchSplitIs ==
  ASSUME NEW api, NEW per \in Nat \ {0}, NEW p, IsProblem(p)
  PROVE  IsSplit(BatchSplit(api, per, p)) /\ BatchSplit(api, per, p).nt = per
<1> DEFINE s == Partition(per, p)
           b == BatchSplit(api, per, p)
<1>1. \/ b = Split(per, per, 1) \/ b = Split(per, 1, per)
      \/ b = PartitionByPanels(per, p) \/ b = dlp_gemm_adjust_ic_jc_ways(s, p) \/ b = s
  BY DEF BatchSplit
<1>2. IsSplit(s) /\ s.nt = per
  BY PartitionSplit
<1>3. IsSplit(PartitionByPanels(per, p)) /\ PartitionByPanels(per, p).nt = per
  BY ByPanelsKeeps
<1> HIDE DEF s, b
<1>4. IsSplit(dlp_gemm_adjust_ic_jc_ways(s, p)) /\ dlp_gemm_adjust_ic_jc_ways(s, p).nt = per
  BY <1>2, AdjustF32Keeps
<1>5. /\ IsSplit(Split(per, per, 1)) /\ Split(per, per, 1).nt = per
      /\ IsSplit(Split(per, 1, per)) /\ Split(per, 1, per).nt = per
  <2>1. per * 1 = per /\ 1 * per = per
    OBVIOUS
  <2> QED BY <2>1 DEF IsSplit, Split
<1> QED BY <1>1, <1>2, <1>3, <1>4, <1>5 DEF b

\* A plan from a number of teams and the split of each.
LEMMA BatchPlanIs ==
  ASSUME NEW gemms \in Nat \ {0}, NEW s, IsSplit(s), NEW nt, NEW group_size,
         gemms * s.nt <= nt \/ gemms * s.nt = 1, s.nt > 1 => gemms = group_size
  PROVE  IsBatchPlan(BatchPlan(gemms, s), nt, group_size)
<1> DEFINE q == BatchPlan(gemms, s)
<1>1. s.ic \in Nat \ {0} /\ s.jc \in Nat \ {0} /\ s.nt = s.ic * s.jc
  BY DEF IsSplit
<1>2. /\ q.gemms = gemms /\ q.ic = s.ic /\ q.jc = s.jc /\ q.per = s.nt
      /\ q.nt = gemms * s.ic * s.jc
  BY DEF BatchPlan
<1>3. gemms * s.ic * s.jc = gemms * (s.ic * s.jc)
  BY <1>1
<1> HIDE DEF q
<1>4. q.nt = gemms * s.nt
  BY <1>1, <1>2, <1>3
<1> QED BY <1>1, <1>2, <1>4 DEF IsBatchPlan, q

\* The batch threading functions return a plan: no team is larger than the
\* threads there are, and teams of several threads are as many as the GEMMs.
LEMMA BatchThreading ==
  ASSUME NEW r, IsProblem(r.p), r.nt \in {-1} \cup (Nat \ {0}), r.group_size \in Nat
  PROVE  IsBatchPlan(batch_get_threading(r), r.nt, r.group_size)
<1>0. PICK nt, gs : nt = r.nt /\ gs = r.group_size
  OBVIOUS
<1> DEFINE share == dlp_calculate_n_threads_per_gemm(nt, gs)
           gemms == IF gs <= 0 \/ nt = 1 THEN 1 ELSE Min({nt, gs})
           per == IF gs <= 0 \/ nt <= 1 THEN 1 ELSE nt \div gemms
           one == BatchPlan(Max({gemms, 1}), Split(1, 1, 1))
           many == BatchPlan(gemms, BatchSplit(r.api, per, r.p))
<1>1. batch_get_threading(r) = IF per > 1 THEN many ELSE one
  <2>1. share = <<gemms, per>>
    BY DEF dlp_calculate_n_threads_per_gemm
  <2>2. share[1] = gemms /\ share[2] = per
    BY <2>1
  <2>3. batch_get_threading(r) =
          IF share[2] > 1 THEN BatchPlan(share[1], BatchSplit(r.api, share[2], r.p))
          ELSE BatchPlan(Max({share[1], 1}), Split(1, 1, 1))
    BY <1>0 DEF batch_get_threading
  <2> HIDE DEF gemms, per, share
  <2> QED BY <2>2, <2>3
<1>2. nt \in {-1} \cup (Nat \ {0}) /\ gs \in Nat /\ nt \in Int
  BY <1>0
<1>2i. nt \in Int /\ gs \in Int /\ 1 \in Int
  BY <1>2
<1>3. IsSplit(Split(1, 1, 1)) /\ Split(1, 1, 1).nt = 1
  <2>1. 1 * 1 = 1
    OBVIOUS
  <2> QED BY <2>1 DEF IsSplit, Split
<1>4. CASE gs <= 0 \/ nt <= 1
  <2>1. per = 1
    BY <1>4
  <2>2. gemms = 1 \/ gemms = -1
    <3>1. CASE gs <= 0 \/ nt = 1
      BY <3>1
    <3>2. CASE ~(gs <= 0 \/ nt = 1)
      <4>1. nt = -1 /\ gs > 0 /\ gemms = Min({nt, gs})
        BY <1>2, <1>4, <3>2
      <4>2. Min({nt, gs}) \in {nt, gs} /\ Min({nt, gs}) <= nt
        BY <1>2i, Pairs
      <4> QED BY <1>2, <4>1, <4>2
    <3> QED BY <3>1, <3>2
  <2> HIDE DEF gemms, per
  <2>3. Max({gemms, 1}) = 1
    <3>1. gemms \in Int /\ gemms <= 1
      BY <2>2
    <3>2. Max({gemms, 1}) \in {gemms, 1} /\ Max({gemms, 1}) >= 1
      BY <1>2i, <3>1, Pairs
    <3> QED BY <3>1, <3>2
  <2>4. 1 * 1 = 1 /\ 1 \in Nat \ {0}
    OBVIOUS
  <2>5. IsBatchPlan(BatchPlan(1, Split(1, 1, 1)), nt, gs)
    BY <1>3, <2>4, BatchPlanIs
  <2>6. batch_get_threading(r) = one /\ one = BatchPlan(1, Split(1, 1, 1))
    BY <1>1, <2>1, <2>3
  <2> QED BY <1>0, <2>5, <2>6
<1>5. CASE ~(gs <= 0 \/ nt <= 1)
  <2>1. nt \in Nat \ {0} /\ gs \in Nat \ {0} /\ nt > 1
    BY <1>2, <1>5
  <2>2. gemms = Min({nt, gs}) /\ per = nt \div gemms
    BY <1>5, <2>1
  <2>3. gemms \in {nt, gs} /\ gemms <= nt /\ gemms \in Nat \ {0}
    <3>1. Min({nt, gs}) \in {nt, gs} /\ Min({nt, gs}) <= nt
      BY <1>2i, Pairs
    <3> HIDE DEF gemms
    <3> QED BY <2>1, <2>2, <3>1
  <2> HIDE DEF gemms, per
  <2>4. per \in Nat \ {0} /\ gemms * per <= nt
    BY <2>1, <2>2, <2>3, QuotientIs
  <2>5. CASE per > 1
    <3>1. gemms = gs
      <4>1. gemms * per = per * gemms /\ per * gemms >= 2 * gemms
        BY <2>3, <2>4, <2>5, TimesMonotone
      <4>2. gemms # nt
        <5> DEFINE pg == per * gemms
        <5>1. pg >= 2 * gemms /\ pg <= nt /\ pg \in Nat
          BY <2>3, <2>4, <4>1
        <5> HIDE DEF pg
        <5> QED BY <2>1, <2>3, <5>1
      <4> QED BY <2>3, <4>2
    <3>2. IsSplit(BatchSplit(r.api, per, r.p)) /\ BatchSplit(r.api, per, r.p).nt = per
      BY <2>4, BatchSplitIs
    <3>3. PICK s : s = BatchSplit(r.api, per, r.p)
      OBVIOUS
    <3>4. IsBatchPlan(BatchPlan(gemms, s), nt, gs)
      BY <2>3, <2>4, <3>1, <3>2, <3>3, BatchPlanIs
    <3>5. batch_get_threading(r) = BatchPlan(gemms, s)
      BY <1>1, <2>5, <3>3
    <3> QED BY <1>0, <3>4, <3>5
  <2>6. CASE ~(per > 1)
    <3>1. Max({gemms, 1}) = gemms
      <4>0. gemms \in Int
        BY <2>3
      <4>1. Max({gemms, 1}) \in {gemms, 1} /\ Max({gemms, 1}) >= gemms
        BY <1>2i, <4>0, Pairs
      <4> QED BY <2>3, <4>1
    <3>2. gemms * 1 = gemms
      BY <2>3
    <3>3. IsBatchPlan(BatchPlan(gemms, Split(1, 1, 1)), nt, gs)
      BY <1>3, <2>3, <3>2, BatchPlanIs
    <3>4. batch_get_threading(r) = one /\ one = BatchPlan(gemms, Split(1, 1, 1))
      BY <1>1, <2>6, <3>1
    <3> QED BY <1>0, <3>3, <3>4
  <2> QED BY <2>5, <2>6
<1> QED BY <1>4, <1>5

----------------------------------------------------------------------------
(* The places of the threads.                                              *)

\* Thread t of G teams of a x b threads, its place in its team, and the
\* communicators of the teams one after the other.
CommAt(t, a, b, G, per) ==
  /\ t \div per \in 0 .. G - 1 /\ t % per \in 0 .. per - 1
  /\ (t % per) \div a \in 0 .. b - 1
  /\ (t \div per) * b + (t % per) \div a = t \div a
  /\ t \div a \in 0 .. G * b - 1

\* The communicators of the teams follow each other: thread t uses t / ic_ways.
LEMMA CommPlace ==
  ASSUME NEW a \in Nat \ {0}, NEW b \in Nat \ {0}, NEW G \in Nat \ {0}, NEW per, per = a * b,
         NEW t \in 0 .. G * per - 1
  PROVE  CommAt(t, a, b, G, per)
<1>0. per \in Nat \ {0} /\ G * b \in Nat \ {0} /\ G * per = per * G
  BY WaysBelow
<1>1. PICK T, r : T = t \div per /\ r = t % per
  OBVIOUS
<1>2. T \in 0 .. G - 1 /\ r \in 0 .. per - 1 /\ t = T * per + r
  <2>1. t \in 0 .. per * G - 1
    BY <1>0
  <2>2. /\ ic_work_id(t, per) \in 0 .. per - 1 /\ jc_work_id(t, per) \in 0 .. G - 1
        /\ t = jc_work_id(t, per) * per + ic_work_id(t, per)
    BY <1>0, <2>1, PlaceOfTid
  <2> QED BY <1>1, <2>2 DEF ic_work_id, jc_work_id
<1>3. PICK g, u : g = r \div a /\ u = r % a
  OBVIOUS
<1>4. g \in 0 .. b - 1 /\ u \in 0 .. a - 1 /\ r = g * a + u
  <2>1. r \in 0 .. a * b - 1
    BY <1>2
  <2>2. /\ ic_work_id(r, a) \in 0 .. a - 1 /\ jc_work_id(r, a) \in 0 .. b - 1
        /\ r = jc_work_id(r, a) * a + ic_work_id(r, a)
    BY <2>1, PlaceOfTid
  <2> QED BY <1>3, <2>2 DEF ic_work_id, jc_work_id
<1>5. PICK c : c = T * b + g
  OBVIOUS
<1>6. c \in Nat /\ t = c * a + u
  <2>1. T * per = (T * b) * a
    BY <1>2
  <2>2. c * a = (T * b) * a + g * a
    BY <1>2, <1>4, <1>5
  <2>3. c \in Nat
    BY <1>2, <1>4, <1>5
  <2> DEFINE x == (T * b) * a
             y == g * a
  <2>4. x \in Nat /\ y \in Nat /\ t = x + r /\ r = y + u /\ c * a = x + y
    BY <1>2, <1>4, <2>1, <2>2
  <2> HIDE DEF x, y
  <2>5. t = c * a + u
    BY <1>4, <2>4
  <2> QED BY <2>3, <2>5
<1>7. t \div a = c
  <2>1. (c * a + u) \div a = c
    BY <1>4, <1>6, DivUnique
  <2> QED BY <1>6, <2>1
<1>8. c \in 0 .. G * b - 1
  <2>1. (T + 1) * b <= G * b /\ (T + 1) * b = T * b + b
    BY <1>2, TimesMonotone
  <2> DEFINE x == T * b
             y == G * b
  <2>2. x \in Nat /\ y \in Nat /\ x + b <= y /\ c = x + g
    BY <1>2, <1>5, <2>1
  <2> HIDE DEF x, y
  <2>3. c \in 0 .. y - 1
    BY <1>4, <1>6, <2>2
  <2> QED BY <2>3 DEF y
<1> QED BY <1>1, <1>2, <1>3, <1>4, <1>5, <1>7, <1>8 DEF CommAt

\* The identity seats a team.
LEMMA SelfSeated ==
  ASSUME NEW m \in Nat \ {0}
  PROVE  Seating([t \in 0 .. m - 1 |-> t], m)
  BY DEF Seating

\* The numbers below m whose quotient by a is g.
Row(a, m, g) == {t \in 0 .. m - 1 : t \div a = g}
RowFull(a, b, m, g) ==
  Cardinality(Row(a, m, g)) = a /\ {t % a : t \in Row(a, m, g)} = 0 .. a - 1

\* As many consecutive threads have a quotient as the divisor says, and each
\* remainder is that of one of them.
LEMMA RowOf ==
  ASSUME NEW a \in Nat \ {0}, NEW b \in Nat \ {0}, NEW m, m = b * a, NEW g \in 0 .. b - 1
  PROVE  RowFull(a, b, m, g)
<1>0. PICK f : f = [t \in 0 .. m - 1 |-> t]
  OBVIOUS
<1>1. m \in Nat \ {0} /\ m = a * b
  BY WaysBelow
<1>2. Seating(f, a * b)
  BY <1>0, <1>1, SelfSeated
<1>3. /\ Cardinality(Members(f, a, b, g)) = a
      /\ {ic_work_id(f[t], a) : t \in Members(f, a, b, g)} = 0 .. a - 1
  <2>1. ColumnFull(f, a, b, g)
    BY <1>2, Column
  <2> QED BY <2>1 DEF ColumnFull
<1>4. Members(f, a, b, g) = Row(a, m, g)
  BY <1>0, <1>1 DEF Members, jc_work_id, Row
<1>5. \A t \in Members(f, a, b, g) : ic_work_id(f[t], a) = t % a
  BY <1>0, <1>4 DEF ic_work_id, Row
<1>6. {ic_work_id(f[t], a) : t \in Members(f, a, b, g)} = {t % a : t \in Members(f, a, b, g)}
  BY <1>5
<1> QED BY <1>3, <1>4, <1>6 DEF RowFull

\* As many ranges as iterations: work id w has iteration w.
LEMMA OneEach ==
  ASSUME NEW m \in Nat \ {0}, NEW w \in 0 .. m - 1
  PROVE  LET R == dlp_thread_task_range(m, w, m, 1, FALSE) IN R.start = w /\ R.end = w + 1
<1> DEFINE R == dlp_thread_task_range(m, w, m, 1, FALSE)
<1>1. m \div 1 = m /\ m % 1 = 0
  OBVIOUS
<1>2. m \div m = 1 /\ m % m = 0
  <2>1. (1 * m + 0) \div m = 1 /\ (1 * m + 0) % m = 0
    BY DivUnique
  <2>2. 1 * m + 0 = m
    OBVIOUS
  <2> QED BY <2>1, <2>2
<1>3. Each(m, m, 1) = 1 /\ Over(m, m, 1) = 0
  BY <1>1, <1>2 DEF Each, Over
<1>4. /\ R.start = HighBlocks(1, 0, w) * 1
      /\ R.end = HighBlocks(1, 0, w + 1) * 1 + (IF w = m - 1 THEN 0 ELSE 0)
  <2>1. PICK bf \in Nat \ {0} : bf = 1
    OBVIOUS
  <2>2. LET q == Each(m, m, bf)
            r == Over(m, m, bf)
            Q == dlp_thread_task_range(m, w, m, bf, FALSE)
        IN  /\ Q.start = HighBlocks(q, r, w) * bf
            /\ Q.end = HighBlocks(q, r, w + 1) * bf + (IF w = m - 1 THEN m % bf ELSE 0)
    BY HighRange
  <2> QED BY <1>1, <1>3, <2>1, <2>2
<1>5. HighBlocks(1, 0, w) = w /\ HighBlocks(1, 0, w + 1) = w + 1
  BY DEF HighBlocks
<1> HIDE DEF R
<1>6. R.start = w /\ R.end = w + 1
  BY <1>4, <1>5
<1> QED BY <1>6 DEF R

----------------------------------------------------------------------------
(* The inductive invariant.                                                *)

\* The call is one the constants describe.
Asked ==
  /\ IsProblem(req.p) /\ req.nt \in {-1} \cup (Nat \ {0}) /\ req.group_size \in Nat
  /\ req.mtag_b \in Tags /\ mtag_b \in Tags /\ picked \in Tags

\* What was planned is a plan.
Planned == stage # "called" => IsBatchPlan(plan, req.nt, req.group_size)

\* The team is that of the plan, and there is none before the fork.
Fields ==
  /\ stage # "forked" => Team = {}
  /\ stage = "forked" =>
       /\ at \in [0 .. plan.nt - 1 -> {"loop", "call", "wait"}]
       /\ i \in [0 .. plan.nt - 1 -> Nat]
       /\ used \in [0 .. plan.nt - 1 -> [0 .. req.group_size - 1 -> Tags \cup {"none"}]]
       /\ round \in [0 .. plan.nt - 1 -> Nat]
       /\ arrived \in [0 .. plan.gemms * plan.jc - 1 -> Nat]

\* The one GEMM of thread t of a team of several threads: it is not begun,
\* waited for with the team, or done.
OneGemm(t, w) ==
  /\ i[t] \in {w, w + 1}
  /\ at[t] # "wait" /\ i[t] = w => used[t][w] = "none"
  /\ at[t] = "wait" => i[t] = w /\ Packs(used[t][w]) /\ round[t] = 1
  /\ \A g \in 0 .. req.group_size - 1 : g # w => used[t][g] = "none"
  /\ i[t] = w + 1 /\ Packs(used[t][w]) => arrived[Comm(t)] >= plan.ic

\* The threads that arrived at the barrier of communicator c.
Came(c) == {u \in Team : Comm(u) = c /\ Packs(used[u][TeamIndex(u)])}

Meeting ==
  stage = "forked" /\ plan.per > 1 =>
    /\ \A t \in Team : OneGemm(t, TeamIndex(t))
    /\ \A c \in DOMAIN arrived : arrived[c] = Cardinality(Came(c))

IInv == Asked /\ Planned /\ Fields /\ Meeting

\* The numbers of a plan.
LEMMA PlanNumbers ==
  ASSUME IInv, stage = "forked"
  PROVE  /\ plan.gemms \in Nat \ {0} /\ plan.ic \in Nat \ {0} /\ plan.jc \in Nat \ {0}
         /\ plan.per = plan.ic * plan.jc /\ plan.per \in Nat \ {0}
         /\ plan.nt = plan.gemms * plan.per /\ plan.nt \in Nat \ {0}
         /\ plan.nt <= req.nt \/ plan.nt = 1
         /\ plan.per > 1 => plan.gemms = req.group_size
         /\ req.group_size \in Nat /\ req.nt \in Int
         /\ Team = 0 .. plan.nt - 1
         /\ DOMAIN arrived = 0 .. plan.gemms * plan.jc - 1
<1>1. IsBatchPlan(plan, req.nt, req.group_size)
  BY DEF IInv, Planned
<1>2. Team = 0 .. plan.nt - 1 /\ DOMAIN arrived = 0 .. plan.gemms * plan.jc - 1
  BY DEF IInv, Fields, Team
<1>3. req.group_size \in Nat /\ req.nt \in Int
  BY DEF IInv, Asked
<1>4. /\ plan.gemms \in Nat \ {0} /\ plan.ic \in Nat \ {0} /\ plan.jc \in Nat \ {0}
      /\ plan.per = plan.ic * plan.jc
      /\ plan.nt = plan.gemms * plan.per
      /\ plan.nt <= req.nt \/ plan.nt = 1
      /\ plan.per > 1 => plan.gemms = req.group_size
  BY <1>1 DEF IsBatchPlan
<1>5. plan.per \in Nat \ {0}
  BY <1>4, WaysBelow
<1>6. plan.nt \in Nat \ {0}
  BY <1>4, <1>5, WaysBelow
<1> QED BY <1>2, <1>3, <1>4, <1>5, <1>6

\* The place of a thread.
LEMMA Placed ==
  ASSUME IInv, stage = "forked", NEW t \in Team
  PROVE  /\ TeamIndex(t) \in 0 .. plan.gemms - 1
         /\ Comm(t) = t \div plan.ic
         /\ Comm(t) \in DOMAIN arrived
<1>0. PICK a, b, G, per : a = plan.ic /\ b = plan.jc /\ G = plan.gemms /\ per = plan.per
  OBVIOUS
<1>1. /\ a \in Nat \ {0} /\ b \in Nat \ {0} /\ G \in Nat \ {0} /\ per = a * b
      /\ t \in 0 .. G * per - 1 /\ DOMAIN arrived = 0 .. G * b - 1
  BY <1>0, PlanNumbers
<1>2. /\ t \div per \in 0 .. G - 1
      /\ (t \div per) * b + (t % per) \div a = t \div a
      /\ t \div a \in 0 .. G * b - 1
  <2>1. CommAt(t, a, b, G, per)
    BY <1>1, CommPlace
  <2> QED BY <2>1 DEF CommAt
<1>3. TeamIndex(t) = t \div per /\ Comm(t) = (t \div per) * b + (t % per) \div a
  BY <1>0 DEF TeamIndex, Comm, Tid, jc_work_id
<1> QED BY <1>0, <1>1, <1>2, <1>3

\* A communicator is that of ic_ways threads.
LEMMA CommSize ==
  ASSUME IInv, stage = "forked", NEW c \in DOMAIN arrived
  PROVE  Cardinality({t \in Team : Comm(t) = c}) = plan.ic
<1>0. PICK a, b, m : a = plan.ic /\ b = plan.gemms * plan.jc /\ m = plan.nt
  OBVIOUS
<1>1. a \in Nat \ {0} /\ b \in Nat \ {0} /\ m = b * a /\ Team = 0 .. m - 1 /\ c \in 0 .. b - 1
  <2>1. /\ plan.gemms \in Nat \ {0} /\ plan.ic \in Nat \ {0} /\ plan.jc \in Nat \ {0}
        /\ plan.per = plan.ic * plan.jc /\ plan.nt = plan.gemms * plan.per
        /\ Team = 0 .. plan.nt - 1 /\ DOMAIN arrived = 0 .. plan.gemms * plan.jc - 1
    BY PlanNumbers
  <2>2. plan.gemms * plan.jc \in Nat \ {0}
    BY <2>1, WaysBelow
  <2>3. plan.gemms * (plan.ic * plan.jc) = (plan.gemms * plan.jc) * plan.ic
    BY <2>1
  <2> QED BY <1>0, <2>1, <2>2, <2>3
<1>2. Cardinality(Row(a, m, c)) = a
  <2>1. RowFull(a, b, m, c)
    BY <1>1, RowOf
  <2> QED BY <2>1 DEF RowFull
<1>3. \A t \in Team : Comm(t) = t \div a
  BY <1>0, Placed
<1>4. {t \in Team : Comm(t) = c} = Row(a, m, c)
  BY <1>1, <1>3 DEF Row
<1> QED BY <1>0, <1>2, <1>4

\* The range of a thread whose team has several threads is one GEMM.
LEMMA OneGemmEach ==
  ASSUME IInv, stage = "forked", plan.per > 1, NEW t \in Team
  PROVE  /\ TeamIndex(t) \in 0 .. req.group_size - 1
         /\ GemmRange(t).start = TeamIndex(t) /\ GemmRange(t).end = TeamIndex(t) + 1
<1>0. PICK m, w : m = req.group_size /\ w = TeamIndex(t)
  OBVIOUS
<1>1. plan.gemms = m /\ m \in Nat \ {0} /\ w \in 0 .. m - 1
  BY <1>0, PlanNumbers, Placed
<1>2. LET R == dlp_thread_task_range(m, w, m, 1, FALSE) IN R.start = w /\ R.end = w + 1
  BY <1>1, OneEach
<1>3. GemmRange(t) = dlp_thread_task_range(m, w, m, 1, FALSE)
  BY <1>0, <1>1 DEF GemmRange
<1> QED BY <1>0, <1>1, <1>2, <1>3

\* A GEMM is run by the threads of one team.
LEMMA TeamOfGemm ==
  ASSUME IInv, stage = "forked", NEW g \in 0 .. req.group_size - 1
  PROVE  LET members == {t \in Team : g \in Indices(GemmRange(t))}
         IN  /\ Cardinality(members) = plan.ic * plan.jc
             /\ {Tid(t) : t \in members} = 0 .. plan.ic * plan.jc - 1
<1>0. PICK a, b, m, gs : a = plan.per /\ b = plan.gemms /\ m = plan.nt /\ gs = req.group_size
  OBVIOUS
<1>1. /\ a \in Nat \ {0} /\ b \in Nat \ {0} /\ m = b * a /\ Team = 0 .. m - 1
      /\ gs \in Nat /\ g \in 0 .. gs - 1 /\ a = plan.ic * plan.jc
  BY <1>0, PlanNumbers
<1>2. PICK w \in 0 .. b - 1 : Owns(b, w, gs, 1, g)
  <2>1. PICK bf \in Nat \ {0} : bf = 1
    OBVIOUS
  <2>2. \E w \in 0 .. b - 1 : Owns(b, w, gs, bf, g)
    BY <1>1, OneOwner
  <2> QED BY <2>1, <2>2
<1>3. \A t \in Team : g \in Indices(GemmRange(t)) <=> t \div a = w
  <2> SUFFICES ASSUME NEW t \in Team PROVE g \in Indices(GemmRange(t)) <=> t \div a = w
    OBVIOUS
  <2>1. TeamIndex(t) \in Nat /\ TeamIndex(t) = t \div a
    BY <1>0, <1>1, Placed DEF TeamIndex
  <2>2. GemmRange(t) = dlp_thread_task_range(b, TeamIndex(t), gs, 1, FALSE)
    BY <1>0 DEF GemmRange
  <2> QED BY <1>2, <2>1, <2>2 DEF Owns
<1>4. Cardinality(Row(a, m, w)) = a /\ {t % a : t \in Row(a, m, w)} = 0 .. a - 1
  <2>1. RowFull(a, b, m, w)
    BY <1>1, RowOf
  <2> QED BY <2>1 DEF RowFull
<1>5. {t \in Team : g \in Indices(GemmRange(t))} = Row(a, m, w)
  BY <1>1, <1>3 DEF Row
<1>6. {Tid(t) : t \in {t \in Team : g \in Indices(GemmRange(t))}} = {t % a : t \in Row(a, m, w)}
  BY <1>0, <1>5 DEF Tid
<1> QED BY <1>1, <1>4, <1>5, <1>6

\* What the invariant says of the sharing.
LEMMA SharedInv == IInv => BatchShared
<1> SUFFICES ASSUME IInv, stage = "forked" PROVE BatchShared
  BY DEF BatchShared
<1>1. plan.nt <= Max({req.nt, 1})
  <2>0. PICK x : x = req.nt
    OBVIOUS
  <2>1. x \in Int /\ 1 \in Int /\ plan.nt \in Nat /\ (plan.nt <= x \/ plan.nt = 1)
    BY <2>0, PlanNumbers
  <2>2. Max({x, 1}) \in {x, 1} /\ Max({x, 1}) >= x /\ Max({x, 1}) >= 1
    BY <2>1, Pairs
  <2>3. plan.nt <= Max({x, 1})
    BY <2>1, <2>2
  <2> QED BY <2>0, <2>3
<1>2. \A g \in 0 .. req.group_size - 1 :
        LET members == {t \in Team : g \in Indices(GemmRange(t))}
        IN  /\ Cardinality(members) = plan.ic * plan.jc
            /\ {Tid(t) : t \in members} = 0 .. plan.ic * plan.jc - 1
  BY TeamOfGemm
<1>3. \A t \in Team : Comm(t) \in DOMAIN arrived
  BY Placed
<1>4. ASSUME plan.per > 1, NEW t \in Team PROVE Cardinality(Indices(GemmRange(t))) = 1
  <2>1. PICK w : w = TeamIndex(t)
    OBVIOUS
  <2>2. w \in Nat /\ GemmRange(t).start = w /\ GemmRange(t).end = w + 1
    BY <1>4, <2>1, OneGemmEach, PlanNumbers
  <2>3. Indices(GemmRange(t)) = {w}
    BY <2>2 DEF Indices
  <2> QED BY <2>3, FS_Singleton
<1>5. \A c \in DOMAIN arrived : Cardinality({t \in Team : Comm(t) = c}) = CommThreads
  BY CommSize DEF CommThreads
<1> QED BY <1>1, <1>2, <1>3, <1>4, <1>5 DEF BatchShared

----------------------------------------------------------------------------
(* Arrivals.                                                               *)

\* Those who came are threads of the communicator; when they are ic_ways of
\* them, everyone did.
LEMMA CameBound ==
  ASSUME IInv, stage = "forked", NEW c \in DOMAIN arrived
  PROVE  /\ IsFiniteSet({t \in Team : Comm(t) = c}) /\ IsFiniteSet(Came(c))
         /\ Cardinality(Came(c)) \in Nat
         /\ Cardinality(Came(c)) <= plan.ic
         /\ Cardinality(Came(c)) = plan.ic => \A t \in Team : Comm(t) = c => t \in Came(c)
<1> DEFINE S == {t \in Team : Comm(t) = c}
<1>1. IsFiniteSet(Team)
  BY PlanNumbers, FS_Interval
<1>2. S \in SUBSET Team /\ Came(c) \in SUBSET S
  BY DEF Came
<1>3. Cardinality(S) = plan.ic
  BY CommSize
<1>4. IsFiniteSet(S)
  BY <1>1, <1>2, FS_Subset
<1>5. IsFiniteSet(Came(c)) /\ Cardinality(Came(c)) <= plan.ic
      /\ (Cardinality(Came(c)) = plan.ic => S = Came(c))
  BY <1>2, <1>3, <1>4, FS_Subset
<1>6. Cardinality(Came(c)) \in Nat
  BY <1>5, FS_CardinalityType
<1>7. \A t \in Team : Comm(t) = c => t \in S
  OBVIOUS
<1> HIDE DEF S
<1> QED BY <1>4, <1>5, <1>6, <1>7 DEF S

\* Before a thread comes there is room for it.
LEMMA Room ==
  ASSUME IInv, stage = "forked", NEW t \in Team, t \notin Came(Comm(t))
  PROVE  Cardinality(Came(Comm(t))) < plan.ic
<1>0. Comm(t) \in DOMAIN arrived
  BY Placed
<1>1. PICK c \in DOMAIN arrived : c = Comm(t)
  BY <1>0
<1>2. /\ Cardinality(Came(c)) \in Nat /\ Cardinality(Came(c)) <= plan.ic
      /\ Cardinality(Came(c)) = plan.ic => \A u \in Team : Comm(u) = c => u \in Came(c)
  BY CameBound
<1>3. plan.ic \in Nat
  BY PlanNumbers
<1>4. Cardinality(Came(c)) # plan.ic
  BY <1>1, <1>2
<1>5. Cardinality(Came(c)) < plan.ic
  BY <1>2, <1>3, <1>4
<1> QED BY <1>1, <1>5

\* What the invariant says of the barriers.
LEMMA MeetsInv == IInv => MeetsTeam
<1> SUFFICES ASSUME IInv, stage = "forked", NEW t \in Team, NEW g \in 0 .. req.group_size - 1,
                    g < i[t], Packs(used[t][g]), NEW u \in JcTeam(t)
             PROVE  used[u][g] # "none"
  BY DEF MeetsTeam
<1>0. used[t][g] # "none"
  BY DEF Packs
<1>1. u \in Team /\ TeamIndex(u) = TeamIndex(t) /\ Comm(u) = Comm(t)
  BY DEF JcTeam, Comm
<1>2. CASE plan.per = 1
  <2>1. t \in Nat /\ u \in Nat
    BY <1>1, PlanNumbers
  <2>2. TeamIndex(t) = t /\ TeamIndex(u) = u
    BY <1>2, <2>1 DEF TeamIndex
  <2> QED BY <1>0, <1>1, <2>2
<1>3. CASE plan.per # 1
  <2>0. plan.per > 1
    BY <1>3, PlanNumbers
  <2>1. OneGemm(t, TeamIndex(t)) /\ \A c \in DOMAIN arrived : arrived[c] = Cardinality(Came(c))
    BY <2>0 DEF IInv, Meeting
  <2>2. g = TeamIndex(t)
    BY <1>0, <2>1 DEF OneGemm
  <2>3. i[t] \in {g, g + 1} /\ g \in Nat
    BY <2>1, <2>2 DEF OneGemm
  <2>4. i[t] = g + 1
    BY <2>3
  <2>5. arrived[Comm(t)] >= plan.ic
    BY <2>1, <2>2, <2>4 DEF OneGemm
  <2>6. Comm(t) \in DOMAIN arrived
    BY Placed
  <2>7. PICK c \in DOMAIN arrived : c = Comm(t)
    BY <2>6
  <2>8. Cardinality(Came(c)) = plan.ic
    <3>1. Cardinality(Came(c)) \in Nat /\ Cardinality(Came(c)) <= plan.ic
      BY CameBound
    <3>2. Cardinality(Came(c)) >= plan.ic /\ plan.ic \in Nat
      BY <2>1, <2>5, <2>7, PlanNumbers
    <3> QED BY <3>1, <3>2
  <2>9. u \in Came(c)
    BY <1>1, <2>7, <2>8, CameBound
  <2>10. Packs(used[u][TeamIndex(u)])
    BY <2>9 DEF Came
  <2> QED BY <1>1, <2>2, <2>10 DEF Packs
<1> QED BY <1>2, <1>3

----------------------------------------------------------------------------
(* Every step keeps the invariant.                                         *)

\* It holds at first.
LEMMA InitInv == Init => IInv
<1> SUFFICES ASSUME Init PROVE IInv
  OBVIOUS
<1>1. stage = "called" /\ req \in Requests /\ Team = {} /\ mtag_b = req.mtag_b
      /\ picked = "UNPACKED"
  BY DEF Init, Team
<1>2. /\ IsProblem(req.p) /\ req.nt \in {-1} \cup (Nat \ {0}) /\ req.group_size \in Nat
      /\ req.mtag_b \in Tags
  BY <1>1, BatchAssumption DEF IsProblem
<1>3. Asked
  BY <1>1, <1>2 DEF Asked, Tags
<1> QED BY <1>1, <1>3 DEF IInv, Planned, Fields, Meeting

\* The plan.
LEMMA PlanInv == ASSUME IInv, Plan PROVE IInv'
<1>1. /\ stage' = "planned" /\ plan' = batch_get_threading(req)
      /\ mtag_b' = reconcile_packab(req)
      /\ UNCHANGED <<req, at, i, used, arrived, round>>
  BY DEF Plan
<1>2. IsProblem(req.p) /\ req.nt \in {-1} \cup (Nat \ {0}) /\ req.group_size \in Nat
  BY DEF IInv, Asked
<1>3. IsBatchPlan(batch_get_threading(req), req.nt, req.group_size)
  BY <1>2, BatchThreading
<1>4. Planned'
  BY <1>1, <1>3 DEF Planned
<1>5. Asked'
  <2>1. mtag_b' \in Tags
    BY <1>1 DEF IInv, Asked, reconcile_packab, Tags
  <2>2. picked' \in Tags
    BY DEF Plan, dlp_mtag_b_pick, Tags
  <2> QED BY <1>1, <2>1, <2>2 DEF IInv, Asked
<1>6. stage = "called"
  BY DEF Plan
<1>7. Fields' /\ Meeting'
  BY <1>1, <1>6 DEF IInv, Fields, Meeting, Team
<1> QED BY <1>4, <1>5, <1>7 DEF IInv

\* The fork: nobody has begun.
LEMMA ForkInv == ASSUME IInv, Fork PROVE IInv'
<1>1. /\ stage = "planned" /\ stage' = "forked"
      /\ at' = [t \in 0 .. plan.nt - 1 |-> "loop"]
      /\ i' = [t \in 0 .. plan.nt - 1 |-> GemmRange(t).start]
      /\ used' = [t \in 0 .. plan.nt - 1 |-> [g \in 0 .. req.group_size - 1 |-> "none"]]
      /\ arrived' = [c \in 0 .. plan.gemms * plan.jc - 1 |-> 0]
      /\ round' = [t \in 0 .. plan.nt - 1 |-> 0]
      /\ req' = req /\ plan' = plan /\ mtag_b' = mtag_b /\ picked' = picked
  BY DEF Fork
<1>2. Asked' /\ Planned'
  BY <1>1 DEF IInv, Asked, Planned
<1>3. IsBatchPlan(plan, req.nt, req.group_size) /\ req.group_size \in Nat
  BY <1>1 DEF IInv, Planned, Asked
<1>0. PICK a, b, G, per, gs : /\ a = plan.ic /\ b = plan.jc /\ G = plan.gemms /\ per = plan.per
                              /\ gs = req.group_size
  OBVIOUS
<1>4. /\ a \in Nat \ {0} /\ b \in Nat \ {0} /\ G \in Nat \ {0} /\ per = a * b
      /\ plan.nt = G * per /\ gs \in Nat /\ (per > 1 => G = gs)
  BY <1>0, <1>3 DEF IsBatchPlan
<1>5. ASSUME NEW t \in 0 .. plan.nt - 1
      PROVE  /\ GemmRange(t).start \in Nat
             /\ per > 1 => GemmRange(t).start = TeamIndex(t) /\ TeamIndex(t) \in 0 .. gs - 1
  <2>1. PICK w : w = TeamIndex(t)
    OBVIOUS
  <2>2. w \in 0 .. G - 1
    <3>1. CommAt(t, a, b, G, per)
      BY <1>4, CommPlace
    <3> QED BY <1>0, <2>1, <3>1 DEF CommAt, TeamIndex
  <2>3. GemmRange(t) = dlp_thread_task_range(G, w, gs, 1, FALSE)
    BY <1>0, <2>1 DEF GemmRange
  <2>4. GemmRange(t).start \in Nat
    <3>1. PICK bf \in Nat \ {0} : bf = 1
      OBVIOUS
    <3>2. dlp_thread_task_range(G, w, gs, bf, FALSE).start \in Nat
      BY <1>4, <2>2, RangeWithin
    <3> QED BY <2>3, <3>1, <3>2
  <2>5. ASSUME per > 1 PROVE GemmRange(t).start = w /\ w \in 0 .. gs - 1
    <3>1. G = gs /\ gs \in Nat \ {0}
      BY <1>4, <2>5
    <3>2. dlp_thread_task_range(gs, w, gs, 1, FALSE).start = w
      BY <2>2, <3>1, OneEach
    <3> QED BY <2>2, <2>3, <3>1, <3>2
  <2> QED BY <2>1, <2>4, <2>5
<1>6. Team' = 0 .. plan.nt - 1
  BY <1>1 DEF Team
<1>7. Fields'
  <2>1. at' \in [0 .. plan.nt - 1 -> {"loop", "call", "wait"}]
    BY <1>1
  <2>2. i' \in [0 .. plan.nt - 1 -> Nat]
    BY <1>1, <1>5
  <2>3. used' \in [0 .. plan.nt - 1 -> [0 .. req.group_size - 1 -> Tags \cup {"none"}]]
    BY <1>1
  <2>4. round' \in [0 .. plan.nt - 1 -> Nat] /\ arrived' \in [0 .. plan.gemms * plan.jc - 1 -> Nat]
    BY <1>1
  <2> QED BY <1>1, <2>1, <2>2, <2>3, <2>4 DEF Fields
<1>8. Meeting'
  <2> SUFFICES ASSUME plan.per > 1
               PROVE  /\ \A t \in Team' : OneGemm(t, TeamIndex(t))'
                      /\ \A c \in DOMAIN arrived' : arrived'[c] = Cardinality(Came(c)')
    BY <1>1 DEF Meeting
  <2>1. ASSUME NEW t \in 0 .. plan.nt - 1
        PROVE  /\ TeamIndex(t)' = TeamIndex(t) /\ TeamIndex(t) \in 0 .. req.group_size - 1
               /\ at'[t] = "loop" /\ i'[t] = TeamIndex(t) /\ TeamIndex(t) \in Nat
               /\ \A g \in 0 .. req.group_size - 1 : used'[t][g] = "none"
    <3>1. TeamIndex(t) \in 0 .. gs - 1 /\ GemmRange(t).start = TeamIndex(t)
      BY <1>0, <1>5
    <3>2. TeamIndex(t)' = TeamIndex(t)
      BY <1>1 DEF TeamIndex
    <3>3. TeamIndex(t) \in Nat
      BY <1>4, <3>1
    <3> QED BY <1>0, <1>1, <3>1, <3>2, <3>3
  <2>2. ASSUME NEW t \in Team' PROVE OneGemm(t, TeamIndex(t))'
    <3>1. t \in 0 .. plan.nt - 1
      BY <1>6
    <3>2. PICK w : w = TeamIndex(t)
      OBVIOUS
    <3>3. /\ w \in 0 .. req.group_size - 1 /\ w \in Nat /\ at'[t] = "loop" /\ i'[t] = w
          /\ \A g \in 0 .. req.group_size - 1 : used'[t][g] = "none"
      BY <2>1, <3>1, <3>2
    <3>4. i'[t] # w + 1 /\ at'[t] # "wait"
      BY <3>3
    <3>5. OneGemm(t, w)'
      BY <1>1, <3>3, <3>4 DEF OneGemm
    <3> QED BY <2>1, <3>1, <3>2, <3>5
  <2>3. ASSUME NEW c PROVE Came(c)' = {}
    <3>1. \A u \in Team' : used'[u][TeamIndex(u)'] = "none"
      BY <1>6, <2>1
    <3> QED BY <3>1 DEF Came, Packs
  <2>4. \A c \in DOMAIN arrived' : arrived'[c] = 0
    BY <1>1
  <2>5. Cardinality({}) = 0
    BY FS_EmptySet
  <2> QED BY <2>2, <2>3, <2>4, <2>5
<1> QED BY <1>2, <1>7, <1>8 DEF IInv

\* What all steps of a thread leave alone: the places do not move.
LEMMA StepFrame ==
  ASSUME IInv, NEW t \in Team, Step(t)
  PROVE  /\ stage = "forked" /\ stage' = "forked" /\ req' = req /\ plan' = plan /\ picked' = picked
         /\ Team' = Team /\ Asked' /\ Planned'
         /\ \A u : TeamIndex(u)' = TeamIndex(u) /\ Comm(u)' = Comm(u)
         /\ t \in 0 .. plan.nt - 1
<1>1. stage = "forked"
  BY DEF IInv, Fields
<1>2. stage' = stage /\ req' = req /\ plan' = plan /\ picked' = picked
  BY DEF Step, StoreTag, CallDriver, LeaveDriver
<1>3. mtag_b' = mtag_b \/ mtag_b' = picked
  BY DEF Step, StoreTag, CallDriver, LeaveDriver
<1>4. Asked' /\ Planned'
  BY <1>2, <1>3 DEF IInv, Asked, Planned
<1>5. at' = [at EXCEPT ![t] = at'[t]]
  <2>1. at \in [0 .. plan.nt - 1 -> {"loop", "call", "wait"}]
    BY <1>1 DEF IInv, Fields
  <2>2. CASE StoreTag(t)
    BY <2>1, <2>2 DEF StoreTag, Goto, Team
  <2>3. CASE CallDriver(t)
    BY <2>1, <2>3 DEF CallDriver, Goto, Team
  <2>4. CASE LeaveDriver(t)
    BY <2>1, <2>4 DEF LeaveDriver, Goto, Team
  <2> QED BY <2>2, <2>3, <2>4 DEF Step
<1>6. Team' = Team
  BY <1>5 DEF Team
<1>7. \A u : TeamIndex(u)' = TeamIndex(u) /\ Comm(u)' = Comm(u)
  BY <1>2 DEF TeamIndex, Comm, Tid
<1>8. t \in 0 .. plan.nt - 1
  BY <1>1, PlanNumbers
<1> QED BY <1>1, <1>2, <1>4, <1>6, <1>7, <1>8

\* The state of another thread.
LEMMA OthersKeep ==
  ASSUME req' = req, plan' = plan, NEW u, NEW w, OneGemm(u, w), Comm(u)' = Comm(u),
         at'[u] = at[u], i'[u] = i[u], used'[u] = used[u], round'[u] = round[u],
         arrived[Comm(u)] >= plan.ic => arrived'[Comm(u)] >= plan.ic
  PROVE  OneGemm(u, w)'
  BY DEF OneGemm, Packs

\* Storing a tag.
LEMMA StoreTagInv == ASSUME IInv, NEW t \in Team, StoreTag(t) PROVE IInv'
<1>0. Step(t)
  BY DEF Step
<1>1. /\ stage = "forked" /\ stage' = "forked" /\ req' = req /\ plan' = plan
      /\ Team' = Team /\ Asked' /\ Planned'
      /\ \A u : TeamIndex(u)' = TeamIndex(u) /\ Comm(u)' = Comm(u)
      /\ t \in 0 .. plan.nt - 1
  BY <1>0, StepFrame
<1>2. /\ at \in [0 .. plan.nt - 1 -> {"loop", "call", "wait"}]
      /\ i \in [0 .. plan.nt - 1 -> Nat]
      /\ used \in [0 .. plan.nt - 1 -> [0 .. req.group_size - 1 -> Tags \cup {"none"}]]
      /\ round \in [0 .. plan.nt - 1 -> Nat]
      /\ arrived \in [0 .. plan.gemms * plan.jc - 1 -> Nat]
  BY <1>1 DEF IInv, Fields
<1>3. /\ at[t] = "loop" /\ at' = [at EXCEPT ![t] = "call"]
      /\ i' = i /\ used' = used /\ arrived' = arrived /\ round' = round
  BY DEF StoreTag, Goto
<1>4. at' \in [0 .. plan.nt - 1 -> {"loop", "call", "wait"}]
  BY <1>2, <1>3
<1>5. Fields'
  BY <1>1, <1>2, <1>3, <1>4 DEF Fields
<1>6. Meeting'
  <2> SUFFICES ASSUME plan.per > 1
               PROVE  /\ \A u \in Team : OneGemm(u, TeamIndex(u))'
                      /\ \A c \in DOMAIN arrived' : arrived'[c] = Cardinality(Came(c)')
    BY <1>1 DEF Meeting
  <2>1. /\ \A u \in Team : OneGemm(u, TeamIndex(u))
        /\ \A c \in DOMAIN arrived : arrived[c] = Cardinality(Came(c))
    BY <1>1 DEF IInv, Meeting
  <2>2. ASSUME NEW u \in Team PROVE OneGemm(u, TeamIndex(u))'
    <3>1. PICK w : w = TeamIndex(u)
      OBVIOUS
    <3>2. OneGemm(u, w) /\ Comm(u)' = Comm(u)
      BY <1>1, <2>1, <3>1
    <3>3. CASE u = t
      <4>1. at'[t] = "call"
        BY <1>2, <1>3, <1>1
      <4>2. OneGemm(u, w)'
        BY <1>1, <1>3, <3>2, <3>3, <4>1 DEF OneGemm, Packs
      <4> QED BY <1>1, <3>1, <4>2
    <3>4. CASE u # t
      <4>1. at'[u] = at[u]
        BY <1>2, <1>3, <3>4 DEF Team
      <4>2. OneGemm(u, w)'
        BY <1>1, <1>3, <3>2, <4>1, OthersKeep
      <4> QED BY <1>1, <3>1, <4>2
    <3> QED BY <3>3, <3>4
  <2>3. \A c : Came(c)' = Came(c)
    BY <1>1, <1>3 DEF Came, Packs
  <2> QED BY <1>3, <2>1, <2>2, <2>3
<1> QED BY <1>1, <1>5, <1>6 DEF IInv

\* Leaving the driver: the barrier is open.
LEMMA LeaveDriverInv == ASSUME IInv, NEW t \in Team, LeaveDriver(t) PROVE IInv'
<1>0. Step(t)
  BY DEF Step
<1>1. /\ stage = "forked" /\ stage' = "forked" /\ req' = req /\ plan' = plan
      /\ Team' = Team /\ Asked' /\ Planned'
      /\ \A u : TeamIndex(u)' = TeamIndex(u) /\ Comm(u)' = Comm(u)
      /\ t \in 0 .. plan.nt - 1
  BY <1>0, StepFrame
<1>2. /\ at \in [0 .. plan.nt - 1 -> {"loop", "call", "wait"}]
      /\ i \in [0 .. plan.nt - 1 -> Nat]
      /\ used \in [0 .. plan.nt - 1 -> [0 .. req.group_size - 1 -> Tags \cup {"none"}]]
      /\ round \in [0 .. plan.nt - 1 -> Nat]
      /\ arrived \in [0 .. plan.gemms * plan.jc - 1 -> Nat]
  BY <1>1 DEF IInv, Fields
<1>3. /\ at[t] = "wait" /\ at' = [at EXCEPT ![t] = "loop"] /\ i' = [i EXCEPT ![t] = @ + 1]
      /\ used' = used /\ arrived' = arrived /\ round' = round
      /\ arrived[Comm(t)] >= round[t] * plan.ic
  BY DEF LeaveDriver, Goto, CommThreads
<1>4. /\ at' \in [0 .. plan.nt - 1 -> {"loop", "call", "wait"}]
      /\ at'[t] = "loop" /\ \A u \in Team : u # t => at'[u] = at[u]
  BY <1>1, <1>2, <1>3 DEF Team
<1>5. /\ i' \in [0 .. plan.nt - 1 -> Nat]
      /\ i'[t] = i[t] + 1 /\ \A u \in Team : u # t => i'[u] = i[u]
  BY <1>1, <1>2, <1>3 DEF Team
<1>6. Fields'
  BY <1>1, <1>2, <1>3, <1>4, <1>5 DEF Fields
<1>7. Meeting'
  <2> SUFFICES ASSUME plan.per > 1
               PROVE  /\ \A u \in Team : OneGemm(u, TeamIndex(u))'
                      /\ \A c \in DOMAIN arrived' : arrived'[c] = Cardinality(Came(c)')
    BY <1>1 DEF Meeting
  <2>1. /\ \A u \in Team : OneGemm(u, TeamIndex(u))
        /\ \A c \in DOMAIN arrived : arrived[c] = Cardinality(Came(c))
    BY <1>1 DEF IInv, Meeting
  <2>2. ASSUME NEW u \in Team PROVE OneGemm(u, TeamIndex(u))'
    <3>1. PICK w : w = TeamIndex(u)
      OBVIOUS
    <3>2. OneGemm(u, w) /\ Comm(u)' = Comm(u)
      BY <1>1, <2>1, <3>1
    <3>3. CASE u = t
      <4>1. i[t] = w /\ Packs(used[t][w]) /\ round[t] = 1 /\ w \in Nat
        BY <1>1, <1>2, <1>3, <3>2, <3>3 DEF OneGemm
      <4>2. i'[t] = w + 1 /\ i'[t] # w
        BY <1>5, <4>1
      <4>3. arrived[Comm(t)] >= plan.ic
        <5>1. 1 * plan.ic = plan.ic
          BY <1>1, PlanNumbers
        <5> QED BY <1>3, <4>1, <5>1
      <4>4. \A g \in 0 .. req.group_size - 1 : g # w => used[t][g] = "none"
        BY <3>2, <3>3 DEF OneGemm
      <4>5. OneGemm(t, w)'
        BY <1>1, <1>3, <1>4, <4>2, <4>3, <4>4 DEF OneGemm
      <4> QED BY <1>1, <3>1, <3>3, <4>5
    <3>4. CASE u # t
      <4>1. OneGemm(u, w)'
        BY <1>1, <1>3, <1>4, <1>5, <3>2, <3>4, OthersKeep
      <4> QED BY <1>1, <3>1, <4>1
    <3> QED BY <3>3, <3>4
  <2>3. \A c : Came(c)' = Came(c)
    BY <1>1, <1>3 DEF Came, Packs
  <2> QED BY <1>3, <2>1, <2>2, <2>3
<1> QED BY <1>1, <1>6, <1>7 DEF IInv

\* Calling the driver: a thread that packs arrives, one that does not is done.
LEMMA CallDriverInv == ASSUME IInv, NEW t \in Team, CallDriver(t) PROVE IInv'
<1>0. Step(t)
  BY DEF Step
<1>1. /\ stage = "forked" /\ stage' = "forked" /\ req' = req /\ plan' = plan
      /\ Team' = Team /\ Asked' /\ Planned'
      /\ \A u : TeamIndex(u)' = TeamIndex(u) /\ Comm(u)' = Comm(u)
      /\ t \in 0 .. plan.nt - 1
  BY <1>0, StepFrame
<1>2. /\ at \in [0 .. plan.nt - 1 -> {"loop", "call", "wait"}]
      /\ i \in [0 .. plan.nt - 1 -> Nat]
      /\ used \in [0 .. plan.nt - 1 -> [0 .. req.group_size - 1 -> Tags \cup {"none"}]]
      /\ round \in [0 .. plan.nt - 1 -> Nat]
      /\ arrived \in [0 .. plan.gemms * plan.jc - 1 -> Nat]
  BY <1>1 DEF IInv, Fields
<1>3. /\ at[t] # "wait" /\ i[t] < GemmRange(t).end
      /\ used' = [used EXCEPT ![t][i[t]] = mtag_b]
  BY DEF CallDriver
<1>4. mtag_b \in Tags /\ mtag_b # "none"
  BY DEF IInv, Asked, Tags
<1>5. /\ used' \in [0 .. plan.nt - 1 -> [0 .. req.group_size - 1 -> Tags \cup {"none"}]]
      /\ \A u \in Team : u # t => used'[u] = used[u]
      /\ \A g \in 0 .. req.group_size - 1 : used'[t][g] = IF g = i[t] THEN mtag_b ELSE used[t][g]
  <2>0. Team = 0 .. plan.nt - 1
    BY <1>1, PlanNumbers
  <2>1. \A u \in Team : u # t => used'[u] = used[u]
    BY <1>2, <1>3, <2>0
  <2>2. used'[t] = [used[t] EXCEPT ![i[t]] = mtag_b]
    BY <1>1, <1>2, <1>3
  <2>3. used[t] \in [0 .. req.group_size - 1 -> Tags \cup {"none"}]
    BY <1>1, <1>2
  <2>4. used'[t] \in [0 .. req.group_size - 1 -> Tags \cup {"none"}]
    BY <1>4, <2>2, <2>3
  <2>5. \A g \in 0 .. req.group_size - 1 : used'[t][g] = IF g = i[t] THEN mtag_b ELSE used[t][g]
    BY <2>2, <2>3
  <2>6. used' = [u \in 0 .. plan.nt - 1 |-> used'[u]]
    BY <1>2, <1>3
  <2>7. used' \in [0 .. plan.nt - 1 -> [0 .. req.group_size - 1 -> Tags \cup {"none"}]]
    BY <1>2, <2>0, <2>1, <2>4, <2>6
  <2> QED BY <2>1, <2>5, <2>7
<1>6. plan.per > 1 =>
        /\ \A u \in Team : OneGemm(u, TeamIndex(u))
        /\ \A c \in DOMAIN arrived : arrived[c] = Cardinality(Came(c))
  BY <1>1 DEF IInv, Meeting
<1>7. ASSUME plan.per > 1
      PROVE  /\ TeamIndex(t) \in 0 .. req.group_size - 1 /\ TeamIndex(t) \in Nat
             /\ i[t] = TeamIndex(t) /\ used[t][TeamIndex(t)] = "none"
             /\ used'[t][TeamIndex(t)] = mtag_b
             /\ \A g \in 0 .. req.group_size - 1 : g # TeamIndex(t) => used'[t][g] = "none"
  <2>1. PICK w : w = TeamIndex(t)
    OBVIOUS
  <2>2. w \in 0 .. req.group_size - 1 /\ GemmRange(t).end = w + 1 /\ w \in Nat
    BY <1>1, <1>7, <2>1, OneGemmEach, PlanNumbers
  <2>3. OneGemm(t, w)
    BY <1>6, <1>7, <2>1
  <2>4. i[t] = w
    BY <1>3, <2>2, <2>3 DEF OneGemm
  <2>5. used[t][w] = "none"
    BY <1>3, <2>3, <2>4 DEF OneGemm
  <2>6. \A g \in 0 .. req.group_size - 1 : g # w => used[t][g] = "none"
    BY <2>3 DEF OneGemm
  <2> QED BY <1>5, <2>1, <2>2, <2>4, <2>5, <2>6
<1>8. CASE ~Packs(mtag_b)
  <2>1. /\ i' = [i EXCEPT ![t] = @ + 1] /\ at' = [at EXCEPT ![t] = "loop"]
        /\ arrived' = arrived /\ round' = round
    BY <1>8 DEF CallDriver, Goto
  <2>2. /\ at' \in [0 .. plan.nt - 1 -> {"loop", "call", "wait"}]
        /\ at'[t] = "loop" /\ \A u \in Team : u # t => at'[u] = at[u]
    BY <1>1, <1>2, <2>1 DEF Team
  <2>3. /\ i' \in [0 .. plan.nt - 1 -> Nat]
        /\ i'[t] = i[t] + 1 /\ \A u \in Team : u # t => i'[u] = i[u]
    BY <1>1, <1>2, <2>1 DEF Team
  <2>4. Fields'
    BY <1>1, <1>2, <1>5, <2>1, <2>2, <2>3 DEF Fields
  <2>5. Meeting'
    <3> SUFFICES ASSUME plan.per > 1
                 PROVE  /\ \A u \in Team : OneGemm(u, TeamIndex(u))'
                        /\ \A c \in DOMAIN arrived' : arrived'[c] = Cardinality(Came(c)')
      BY <1>1 DEF Meeting
    <3>1. ASSUME NEW u \in Team PROVE OneGemm(u, TeamIndex(u))'
      <4>1. PICK w : w = TeamIndex(u)
        OBVIOUS
      <4>2. OneGemm(u, w) /\ Comm(u)' = Comm(u)
        BY <1>1, <1>6, <4>1
      <4>3. CASE u = t
        <5>1. /\ w \in Nat /\ i'[t] = w + 1 /\ i'[t] # w /\ used'[t][w] = mtag_b
              /\ \A g \in 0 .. req.group_size - 1 : g # w => used'[t][g] = "none"
          BY <1>7, <2>3, <4>1, <4>3
        <5>2. ~Packs(used[t][w])'
          BY <1>1, <1>8, <5>1 DEF Packs
        <5>3. OneGemm(t, w)'
          BY <1>1, <2>2, <5>1, <5>2 DEF OneGemm
        <5> QED BY <1>1, <4>1, <4>3, <5>3
      <4>4. CASE u # t
        <5>1. OneGemm(u, w)'
          BY <1>1, <1>5, <2>1, <2>2, <2>3, <4>2, <4>4, OthersKeep
        <5> QED BY <1>1, <4>1, <5>1
      <4> QED BY <4>3, <4>4
    <3>2. ASSUME NEW c PROVE Came(c)' = Came(c)
      <4>1. ~Packs(used[t][TeamIndex(t)])
        BY <1>7 DEF Packs
      <4>2. ~Packs(used[t][TeamIndex(t)])'
        BY <1>1, <1>7, <1>8 DEF Packs
      <4>3. \A u \in Team : Packs(used[u][TeamIndex(u)])' <=> Packs(used[u][TeamIndex(u)])
        <5> SUFFICES ASSUME NEW u \in Team
                     PROVE  Packs(used[u][TeamIndex(u)])' <=> Packs(used[u][TeamIndex(u)])
          OBVIOUS
        <5>1. CASE u = t
          BY <4>1, <4>2, <5>1
        <5>2. CASE u # t
          BY <1>1, <1>5, <5>2 DEF Packs
        <5> QED BY <5>1, <5>2
      <4> QED BY <1>1, <4>3 DEF Came
    <3> QED BY <1>6, <2>1, <3>1, <3>2
  <2> QED BY <1>1, <2>4, <2>5 DEF IInv
<1>9. CASE Packs(mtag_b)
  <2> DEFINE c0 == Comm(t)
  <2>1. /\ i' = i /\ at' = [at EXCEPT ![t] = "wait"]
        /\ arrived' = [arrived EXCEPT ![c0] = @ + 1]
        /\ round' = [round EXCEPT ![t] = (arrived[c0] \div plan.ic) + 1]
    BY <1>9 DEF CallDriver, Goto, CommThreads
  <2>2. /\ at' \in [0 .. plan.nt - 1 -> {"loop", "call", "wait"}]
        /\ at'[t] = "wait" /\ \A u \in Team : u # t => at'[u] = at[u]
    BY <1>1, <1>2, <2>1 DEF Team
  <2>3. c0 \in DOMAIN arrived /\ plan.ic \in Nat \ {0}
    BY <1>1, Placed, PlanNumbers
  <2> HIDE DEF c0
  <2>4. /\ arrived' \in [0 .. plan.gemms * plan.jc - 1 -> Nat]
        /\ DOMAIN arrived' = DOMAIN arrived
        /\ arrived[c0] \in Nat
        /\ \A c \in DOMAIN arrived : arrived'[c] = IF c = c0 THEN arrived[c] + 1 ELSE arrived[c]
    BY <1>2, <2>1, <2>3
  <2>5. arrived[c0] \div plan.ic \in Nat
    BY <2>3, <2>4, DivMod
  <2>6. /\ round' \in [0 .. plan.nt - 1 -> Nat]
        /\ round'[t] = (arrived[c0] \div plan.ic) + 1
        /\ \A u \in Team : u # t => round'[u] = round[u]
    <3>1. (arrived[c0] \div plan.ic) + 1 \in Nat
      BY <2>5
    <3>2. Team = 0 .. plan.nt - 1
      BY <1>1, PlanNumbers
    <3> QED BY <1>1, <1>2, <2>1, <3>1, <3>2
  <2>7. Fields'
    BY <1>1, <1>2, <1>5, <2>1, <2>2, <2>4, <2>6 DEF Fields
  <2>8. Meeting'
    <3> SUFFICES ASSUME plan.per > 1
                 PROVE  /\ \A u \in Team : OneGemm(u, TeamIndex(u))'
                        /\ \A c \in DOMAIN arrived' : arrived'[c] = Cardinality(Came(c)')
      BY <1>1 DEF Meeting
    <3>1. ~Packs(used[t][TeamIndex(t)])
      BY <1>7 DEF Packs
    <3>2. Packs(used[t][TeamIndex(t)])'
      BY <1>1, <1>7, <1>9 DEF Packs
    <3>3. t \notin Came(c0)
      BY <3>1 DEF Came
    <3>4. arrived[c0] < plan.ic
      <4>1. Cardinality(Came(c0)) < plan.ic
        BY <1>1, <3>3, Room DEF c0
      <4> QED BY <1>6, <2>3, <4>1
    <3>5. round'[t] = 1
      <4>1. PICK x, d : x = arrived[c0] /\ d = plan.ic
        OBVIOUS
      <4>2. (0 * d + x) \div d = 0
        <5>1. 0 \in Nat /\ d \in Nat \ {0} /\ x \in Nat /\ x < d
          BY <2>3, <2>4, <3>4, <4>1
        <5> QED BY <5>1, DivUnique
      <4>3. 0 * d + x = x
        BY <2>3, <2>4, <4>1
      <4> QED BY <2>6, <4>1, <4>2, <4>3
    <3>6. \A u \in Team : u # t =>
            (Packs(used[u][TeamIndex(u)])' <=> Packs(used[u][TeamIndex(u)]))
      BY <1>1, <1>5 DEF Packs
    <3>7. ASSUME NEW c \in DOMAIN arrived, c # c0 PROVE Came(c)' = Came(c)
      BY <1>1, <3>6, <3>7 DEF Came, c0
    <3>8. Came(c0)' = Came(c0) \cup {t}
      <4>1. PICK c : c = c0
        OBVIOUS
      <4>2. c0' = c0
        BY <1>1 DEF c0
      <4>3. Came(c)' = Came(c) \cup {t}
        BY <1>1, <3>2, <3>6, <4>1 DEF Came, c0
      <4> QED BY <4>1, <4>2, <4>3
    <3>9. ASSUME NEW c \in DOMAIN arrived PROVE arrived'[c] = Cardinality(Came(c)')
      <4>1. CASE c # c0
        BY <1>6, <2>4, <3>7, <4>1
      <4>2. CASE c = c0
        <5>1. IsFiniteSet(Came(c)) /\ t \notin Came(c) /\ arrived[c] = Cardinality(Came(c))
          BY <1>1, <1>6, <3>3, <4>2, CameBound
        <5>2. Cardinality(Came(c) \cup {t}) = Cardinality(Came(c)) + 1
          BY <5>1, FS_AddElement
        <5>3. Came(c)' = Came(c) \cup {t}
          BY <1>1, <3>2, <3>6, <4>2 DEF Came, c0
        <5> QED BY <2>4, <4>2, <5>1, <5>2, <5>3
      <4> QED BY <4>1, <4>2
    <3>10. ASSUME NEW u \in Team PROVE OneGemm(u, TeamIndex(u))'
      <4>1. PICK w : w = TeamIndex(u)
        OBVIOUS
      <4>2. OneGemm(u, w) /\ Comm(u)' = Comm(u)
        BY <1>1, <1>6, <4>1
      <4>3. CASE u = t
        <5>1. /\ w \in Nat /\ i'[t] = w /\ i'[t] # w + 1 /\ used'[t][w] = mtag_b
              /\ \A g \in 0 .. req.group_size - 1 : g # w => used'[t][g] = "none"
          BY <1>7, <2>1, <4>1, <4>3
        <5>2. Packs(used[t][w])'
          BY <1>1, <1>9, <5>1 DEF Packs
        <5>3. OneGemm(t, w)'
          BY <1>1, <2>2, <3>5, <5>1, <5>2 DEF OneGemm
        <5> QED BY <1>1, <4>1, <4>3, <5>3
      <4>4. CASE u # t
        <5>1. arrived[Comm(u)] >= plan.ic => arrived'[Comm(u)] >= plan.ic
          <6>1. Comm(u) \in DOMAIN arrived /\ arrived[Comm(u)] \in Nat /\ plan.ic \in Nat
            BY <1>1, <1>2, Placed, PlanNumbers
          <6>2. arrived'[Comm(u)] = arrived[Comm(u)] + 1 \/ arrived'[Comm(u)] = arrived[Comm(u)]
            BY <2>4, <6>1
          <6> QED BY <6>1, <6>2
        <5>2. OneGemm(u, w)'
          BY <1>1, <1>5, <2>1, <2>2, <2>6, <4>2, <4>4, <5>1, OthersKeep
        <5> QED BY <1>1, <4>1, <5>2
      <4> QED BY <4>3, <4>4
    <3> QED BY <2>4, <3>9, <3>10
  <2> QED BY <1>1, <2>7, <2>8 DEF IInv
<1> QED BY <1>8, <1>9

\* What the batch decorators keep: the plan, the team, and for a team of several
\* threads the count of those who came to each barrier.
THEOREM BatchInvariant == Spec => []IInv
<1>1. Init => IInv
  BY InitInv
<1>2. IInv /\ [Next]_vars => IInv'
  <2> SUFFICES ASSUME IInv, [Next]_vars PROVE IInv'
    OBVIOUS
  <2>1. CASE Plan
    BY <2>1, PlanInv
  <2>2. CASE Fork
    BY <2>2, ForkInv
  <2>3. CASE \E t \in Team : Step(t)
    <3>1. PICK t \in Team : Step(t)
      BY <2>3
    <3>2. StoreTag(t) => IInv'
      BY StoreTagInv
    <3>3. CallDriver(t) => IInv'
      BY CallDriverInv
    <3>4. LeaveDriver(t) => IInv'
      BY LeaveDriverInv
    <3> QED BY <3>1, <3>2, <3>3, <3>4 DEF Step
  <2>4. CASE UNCHANGED vars
    <3>1. UNCHANGED <<stage, req, plan, mtag_b, picked, at, i, used, arrived, round>>
      BY <2>4 DEF vars
    <3>2. Asked' /\ Planned' /\ Fields'
      BY <3>1 DEF IInv, Asked, Planned, Fields, Team
    <3>3. \A u : TeamIndex(u)' = TeamIndex(u) /\ Comm(u)' = Comm(u)
      BY <3>1 DEF TeamIndex, Comm, Tid
    <3>4. Meeting'
      BY <3>1, <3>3 DEF IInv, Meeting, OneGemm, Came, Packs, Team
    <3> QED BY <3>2, <3>4 DEF IInv
  <2> QED BY <2>1, <2>2, <2>3, <2>4 DEF Next
<1> QED BY <1>1, <1>2, PTL DEF Spec

\* Every GEMM of a batch is run by one whole team, and every communicator is
\* used by the number of threads it was set up for.
THEOREM BatchTeamsShare == Spec => []BatchShared
  BY BatchInvariant, SharedInv, PTL

\* No driver of a batch leaves its barrier before its jc team is in the GEMM,
\* even when the threads read the picked tag while another stores it.
THEOREM BatchMeetsTeam == Spec => []MeetsTeam
  BY BatchInvariant, MeetsInv, PTL
=============================================================================
