----------------------------- MODULE TaskRange -----------------------------
(***************************************************************************)
(* How the threads of a GEMM share a loop                                  *)
(* (classic/include/threading/dlp_gemm_thread_utils.h).                    *)
(*                                                                         *)
(* A loop of n iterations is cut into n_way ranges of whole blocks of bf;  *)
(* the fringe n % bf goes to the last range, or to the first when          *)
(* handle_edge_low is set.  A range is a record of its bounds, the end     *)
(* excluded.                                                               *)
(***************************************************************************)
EXTENDS Integers

Span(start, end) == [start |-> start, end |-> end]
Indices(r) == r.start .. r.end - 1

----------------------------------------------------------------------------
\* Mutant: the blocks left over all go to the last range.
RestToLast(n_way, work_id, n, bf) ==
  LET size == ((n \div bf) \div n_way) * bf
  IN  Span(work_id * size, IF work_id = n_way - 1 THEN n ELSE (work_id + 1) * size)

\* The larger ranges come first, the fringe ends the last one.
EdgeHigh(n_way, work_id, n, bf) ==
  LET whole == n \div bf
      n_bf_hi == whole \div n_way
      n_th_lo == whole % n_way
      n_bf_lo == n_bf_hi + (IF n_th_lo # 0 THEN 1 ELSE 0)
      hi_start == n_th_lo * (n_bf_lo * bf)
  IN  IF work_id < n_th_lo
      THEN Span(work_id * (n_bf_lo * bf), (work_id + 1) * (n_bf_lo * bf))
      ELSE Span(hi_start + (work_id - n_th_lo) * (n_bf_hi * bf),
                 hi_start + (work_id - n_th_lo + 1) * (n_bf_hi * bf)
                   + (IF work_id = n_way - 1 THEN n % bf ELSE 0))

\* The larger ranges come last, the fringe ends the first one.
EdgeLow(n_way, work_id, n, bf) ==
  LET whole == n \div bf
      left == n % bf
      n_bf_lo == whole \div n_way
      n_th_hi == whole % n_way
      n_th_lo == n_way - n_th_hi
      n_bf_hi == n_bf_lo + (IF n_th_hi # 0 THEN 1 ELSE 0)
      hi_start == n_th_lo * (n_bf_lo * bf) + left
  IN  IF work_id < n_th_lo
      THEN Span(work_id * (n_bf_lo * bf) + (IF work_id = 0 THEN 0 ELSE left),
                 (work_id + 1) * (n_bf_lo * bf) + left)
      ELSE Span(hi_start + (work_id - n_th_lo) * (n_bf_hi * bf),
                 hi_start + (work_id - n_th_lo + 1) * (n_bf_hi * bf))

\* Mutant: work ids beyond n_way are extrapolated.
TaskRangeUnguarded(n_way, work_id, n, bf, handle_edge_low) ==
  IF n_way = 1 THEN Span(0, n)
  ELSE IF handle_edge_low THEN EdgeLow(n_way, work_id, n, bf)
  ELSE EdgeHigh(n_way, work_id, n, bf)

\* A work id drawn from a wider pool than n_way owns nothing.
dlp_thread_task_range(n_way, work_id, n, bf, handle_edge_low) ==
  IF work_id < 0 \/ work_id >= n_way THEN Span(n, n)
  ELSE IF n_way = 1 THEN Span(0, n)
  ELSE IF handle_edge_low THEN EdgeLow(n_way, work_id, n, bf)
  ELSE EdgeHigh(n_way, work_id, n, bf)

----------------------------------------------------------------------------
\* The place of thread tid in its jc team and in its ic team.
jc_work_id(tid, ic_ways) == tid \div ic_ways
ic_work_id(tid, ic_ways) == tid % ic_ways

----------------------------------------------------------------------------
(* What the drivers expect of a sharing.                                   *)

\* The ranges of work ids 0 .. n_way-1 tile 0 .. n-1 in order, without a gap
\* or an overlap, however many threads there are for however few blocks.
RangesTile(n_way, n, bf, low) ==
  LET R(w) == dlp_thread_task_range(n_way, w, n, bf, low)
  IN  /\ R(0).start = 0
      /\ R(n_way - 1).end = n
      /\ \A w \in 0 .. n_way - 1 : R(w).start <= R(w).end
      /\ \A w \in 0 .. n_way - 2 : R(w).end = R(w + 1).start

\* With the fringe at the high end every range starts at a block boundary: a
\* packed or reordered panel is never cut inside a block.
RangesAligned(n_way, n, bf) ==
  \A w \in 0 .. n_way - 1 :
    dlp_thread_task_range(n_way, w, n, bf, FALSE).start % bf = 0
=============================================================================
