--------------------------- MODULE ThreadFactors ---------------------------
(***************************************************************************)
(* How a thread count is split into ic_ways x jc_ways                      *)
(* (classic/frame/threading/dlp_gemm_thread_utils.c and the heuristics of  *)
(* dlp_gemm_thread_decor_openmp.c).                                        *)
(*                                                                         *)
(* Everything here is a function of its arguments.  A split is a record    *)
(* [nt, ic, jc]; a problem p is a record of the dimensions m, n, k and the *)
(* block sizes MR, NR, MC, KC of its kernel; r is the dlp_rntm_t, a thread *)
(* count or ways (see ThreadRuntime).                                      *)
(***************************************************************************)
EXTENDS Integers, FiniteSetsExt

CeilDiv(a, b) == (a + b - 1) \div b
Abs(x) == IF x < 0 THEN -x ELSE x
Split(nt, ic, jc) == [nt |-> nt, ic |-> ic, jc |-> jc]

----------------------------------------------------------------------------
(* Prime factors, smallest first.                                          *)

Sqrt(n) == Max({s \in 0 .. n : s * s <= n})

\* The divisors the search tries: primes below 11, then everything.
Trials(sqrt_n) == ({2, 3, 5, 7} \cup 11 .. sqrt_n) \cap 2 .. sqrt_n

\* One call of dlp_next_prime_factor on the state [n, f]: the factor, and the
\* state it leaves.
NextPrimeFactor(st, sqrt_n) ==
  LET hits == {d \in Trials(sqrt_n) : d >= st.f /\ st.n % d = 0}
  IN  IF hits = {}
      THEN [factor |-> st.n, n |-> 1, f |-> sqrt_n + 1]
      ELSE [factor |-> Min(hits), n |-> st.n \div Min(hits), f |-> Min(hits)]

dlp_is_prime(n) == n >= 2 /\ NextPrimeFactor([n |-> n, f |-> 2], Sqrt(n)).factor = n

\* The greedy assignment of the factors of n_thread to the side with more
\* work; p is the next factor.  There are fewer than n_thread of them.
GreedyFactors(n_thread, work1, work2) ==
  LET sqrt_n == Sqrt(n_thread)
      loop[i \in 0 .. n_thread] ==
        IF i = 0
        THEN [p |-> NextPrimeFactor([n |-> n_thread, f |-> 2], sqrt_n),
              w1 |-> work1, w2 |-> work2, t1 |-> 1, t2 |-> 1]
        ELSE LET s == loop[i - 1]
                 f1 == IF s.w1 > s.w2 THEN s.p.factor ELSE 1
                 f2 == IF s.w1 > s.w2 THEN 1 ELSE s.p.factor
             IN  IF s.p.factor <= 1 THEN s
                 ELSE [p |-> NextPrimeFactor(s.p, sqrt_n),
                       w1 |-> s.w1 \div f1, w2 |-> s.w2 \div f2,
                       t1 |-> s.t1 * f1, t2 |-> s.t2 * f2]
  IN  loop[n_thread]

\* One factor of 2 may change sides after the greedy assignment g.
Rebalance(g) ==
  IF /\ g.w1 > g.w2 /\ g.t2 % 2 = 0
     /\ Abs(g.w1 \div 2 - g.w2 * 2) < g.w1 - g.w2
  THEN <<g.t1 * 2, g.t2 \div 2>>
  ELSE IF /\ g.w1 < g.w2 /\ g.t1 % 2 = 0
          /\ Abs(g.w2 \div 2 - g.w1 * 2) < g.w2 - g.w1
  THEN <<g.t1 \div 2, g.t2 * 2>>
  ELSE <<g.t1, g.t2>>

\* <<nt1, nt2>> with nt1 / nt2 close to work1 / work2.
dlp_thread_partition_2x2(n_thread, work1, work2) ==
  IF n_thread < 4
  THEN IF work1 >= work2 THEN <<n_thread, 1>> ELSE <<1, n_thread>>
  ELSE Rebalance(GreedyFactors(n_thread, work1, work2))

----------------------------------------------------------------------------
(* Moving to a neighbouring factorisation.                                 *)

\* The divisor of nt above part_nt, and the one below.
dlp_next_factor(nt, part_nt) ==
  IF part_nt = nt THEN part_nt ELSE Min({d \in part_nt + 1 .. nt : nt % d = 0})
\* Mutant: the search below does not test divisibility.
PrevNumber(nt, part_nt) == IF part_nt = 1 THEN part_nt ELSE part_nt - 1
dlp_prev_factor(nt, part_nt) ==
  IF part_nt = 1 THEN part_nt ELSE Max({d \in 1 .. part_nt - 1 : nt % d = 0})

MoreIc(s) == [s EXCEPT !.ic = dlp_next_factor(s.nt, @), !.jc = dlp_prev_factor(s.nt, @)]
MoreJc(s) == [s EXCEPT !.ic = dlp_prev_factor(s.nt, @), !.jc = dlp_next_factor(s.nt, @)]

mr_blks(p) == CeilDiv(p.m, p.MR)
nr_blks(p) == CeilDiv(p.n, p.NR)

\* Blocks of A and panels of B per thread.
PanelWork(s, p) == CeilDiv(mr_blks(p), s.ic) + CeilDiv(nr_blks(p), s.jc)

\* Mutant: a candidate is taken without comparing the work.
AdjustWithoutComparing(s, p) ==
  LET move[i \in 0 .. 3] ==
        IF i = 0 THEN s
        ELSE LET x == move[i - 1]
             IN  IF nr_blks(p) % x.jc # 0 /\ x.ic < x.nt THEN MoreIc(x) ELSE x
  IN  move[3]

\* Up to three moves towards ic are looked at while the best split so far
\* leaves panels over; "looked" is the last candidate, "best" the choice.
dlp_gemm_pnl_wrk_heur_adjust_ic_jc_ways(s, p) ==
  LET move[i \in 0 .. 3] ==
        IF i = 0 THEN [looked |-> s, best |-> s]
        ELSE LET st == move[i - 1]
                 cand == MoreIc(st.looked)
             IN  IF nr_blks(p) % st.best.jc # 0 /\ st.looked.ic < st.looked.nt
                 THEN [looked |-> cand,
                       best |-> IF PanelWork(cand, p) < PanelWork(st.best, p)
                                THEN cand ELSE st.best]
                 ELSE st
  IN  move[3].best

Partition(nt, p) ==
  LET Ways(f) == Split(nt, f[1], f[2])
  IN  Ways(dlp_thread_partition_2x2(nt, p.m, p.n))

\* Where there are too few blocks of A for the ic teams nothing is adjusted.
PartitionByPanels(nt, p) ==
  LET Adjust(s) ==
        IF mr_blks(p) >= s.ic THEN dlp_gemm_pnl_wrk_heur_adjust_ic_jc_ways(s, p) ELSE s
  IN  Adjust(Partition(nt, p))

\* A prime count has only two splits: try one thread less.
dlp_gemm_pnl_wrk_heur_adjust_threading_for_prime_nt(nt, s, p) ==
  LET Better(reduced) == IF PanelWork(reduced, p) < PanelWork(s, p) THEN reduced ELSE s
  IN  Better(PartitionByPanels(nt - 1, p))

----------------------------------------------------------------------------
(* The f32 heuristic weighs elements, cache blocks and panels.             *)

m_boost == 5

CanIncreaseJc(s, p) ==
  LET up == MoreJc(s)
      m_ic == p.m \div s.ic   m_prev_ic == p.m \div up.ic
      n_jc == p.n \div s.jc   n_next_jc == p.n \div up.jc
  IN  /\ s.ic > 1 /\ s.jc < s.nt
      /\ \/ n_next_jc + m_prev_ic < m_ic + n_jc
         \/ /\ m_prev_ic <= p.MC \/ m_ic > p.MC
            /\ n_jc > p.NR /\ n_next_jc = p.NR

CanIncreaseIcByWork(s, p) ==
  LET up == MoreIc(s)
      m_ic == p.m \div s.ic   m_next_ic == p.m \div up.ic
      n_jc == p.n \div s.jc   n_prev_jc == p.n \div up.jc
      k_blks == p.k \div p.KC
  IN  \/ m_next_ic + n_prev_jc <= m_ic + n_jc
      \/ m_ic > p.MC /\ m_next_ic <= p.MC /\ m_next_ic >= p.MR /\ k_blks > 4
      \/ p.m > m_boost * p.n /\ m_ic >= p.MC * 2 /\ k_blks > 4
      \/ /\ n_jc % p.NR # 0 /\ n_prev_jc % p.NR = 0
         /\ ~(CanIncreaseJc(s, p) /\ (p.n \div MoreJc(s).jc) % p.NR = 0)

CanIncreaseIcByPanels(s, p) ==
  /\ nr_blks(p) % s.jc # 0 \/ (p.m > m_boost * p.n /\ nr_blks(p) % MoreIc(s).jc = 0)
  /\ PanelWork(MoreIc(s), p) < PanelWork(s, p)

dlp_gemm_adjust_ic_jc_ways(s, p) ==
  LET once == MoreIc(s)
      twice == MoreIc(once)
      jcUp == MoreJc(s)
      icAllowed == s.ic < s.nt /\ s.jc > 1
      byWork == CanIncreaseIcByWork(s, p)
      byPanels == ~byWork /\ CanIncreaseIcByPanels(s, p)
      again == nr_blks(p) % once.jc # 0 /\ PanelWork(twice, p) < PanelWork(once, p)
  IN  IF icAllowed /\ byPanels /\ again THEN twice
      ELSE IF icAllowed /\ (byWork \/ byPanels) THEN once
      ELSE IF /\ CanIncreaseJc(s, p)
              /\ \/ p.m >= p.n /\ jcUp.ic >= jcUp.jc
                 \/ p.m < p.n /\ jcUp.ic <= jcUp.jc
      THEN jcUp
      ELSE s

----------------------------------------------------------------------------
(* The *_get_threading functions.                                          *)

low_freq_thres == 6

\* The frame they share.  The caller's ways are taken as they are; a count is
\* given to one dimension when the other has a single block, or to one block
\* per thread when that wastes few threads, or else split as chosen.
GetThreading(r, p, chosen) ==
  LET nt == r.nt
      mr == mr_blks(p)
  IN  IF r.ic > 0 \/ r.jc > 0
      THEN LET ic == Max({r.ic, 1})  jc == Max({r.jc, 1}) IN Split(jc * ic, ic, jc)
      ELSE IF nt <= 1 THEN Split(1, 1, 1)
      ELSE IF p.n <= p.NR THEN Split(nt, nt, 1)
      ELSE IF p.m <= p.MR THEN Split(nt, 1, nt)
      ELSE IF /\ p.n % p.NR = 0 /\ mr * nr_blks(p) <= nt
              /\ nt - (nt \div mr) * mr < low_freq_thres
      THEN Split(mr * (nt \div mr), mr, nt \div mr)
      ELSE chosen

\* The panel heuristic; "reduce" also tries one thread less for a prime count.
PartitionOrReduce(nt, p, reduce) ==
  LET Reduce(s) ==
        IF reduce /\ dlp_is_prime(nt)
        THEN dlp_gemm_pnl_wrk_heur_adjust_threading_for_prime_nt(nt, s, p) ELSE s
  IN  Reduce(PartitionByPanels(nt, p))

PartitionF32(nt, p) ==
  LET s == Partition(nt, p)
  IN  IF mr_blks(p) >= s.ic THEN dlp_gemm_adjust_ic_jc_ways(s, p) ELSE s

\* The functions of s32 and of bf16, f16 and f32f16 (three copies of one text)
\* differ in "reduce" only.
PanelGetThreading(r, p, reduce) == GetThreading(r, p, PartitionOrReduce(r.nt, p, reduce))
dlp_gemm_f32f32f32of32_get_threading(r, p) == GetThreading(r, p, PartitionF32(r.nt, p))

\* Element-wise operations take no more teams than there are blocks.
dlp_gemm_eltwise_ops_get_threading(r, p) ==
  LET nt == r.nt
      mr == mr_blks(p)
      nr == nr_blks(p)
      ByIc(ic) == LET jc == Min({nt \div ic, nr}) IN Split(ic * jc, ic, jc)
      ByJc(jc) == LET ic == Min({nt \div jc, mr}) IN Split(ic * jc, ic, jc)
      s == Partition(nt, p)
  IN  IF r.ic > 0 \/ r.jc > 0
      THEN LET ic == Max({r.ic, 1})  jc == Max({r.jc, 1}) IN Split(jc * ic, ic, jc)
      ELSE IF nt <= 1 THEN Split(1, 1, 1)
      ELSE IF p.n <= p.NR THEN Split(Min({mr, nt}), Min({mr, nt}), 1)
      ELSE IF p.m <= p.MR THEN Split(Min({nr, nt}), 1, Min({nr, nt}))
      ELSE IF mr >= nt THEN Split(nt, nt, 1)
      ELSE IF mr >= (3 * nt) \div 4 THEN ByIc(mr)
      ELSE IF mr < s.ic /\ nr < s.jc THEN Split(mr * nr, mr, nr)
      ELSE IF mr < s.ic THEN ByIc(mr)
      ELSE IF nr < s.jc THEN ByJc(nr)
      ELSE s
=============================================================================
