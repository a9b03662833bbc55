----------------------------- MODULE ShapeModel -----------------------------
(***************************************************************************)
(* How the decision engine of bf16 chooses the tile MR x NR of a GEMM over *)
(* a reordered B (src/include/decision_engine: de_shape_model.hh,          *)
(* de_backend_utils.hh, optimizer/de_optimizer.hh, the bf16 part of        *)
(* de_backend.hh).                                                         *)
(*                                                                         *)
(* A packed panel does not record its width.  Whoever packs or reads one   *)
(* runs this search again, and must come to the same NR.                   *)
(*                                                                         *)
(* c is the local context of a call: the block sizes, "mask" the names of  *)
(* those that are settled, and the hints of the application.               *)
(***************************************************************************)
EXTENDS ThreadFactors, Sequences

CONSTANTS
  isAnalyticalShapeModelArch, \* the model is used on this processor
  candidateTiles,             \* the tiles the search compares, in order
  streamingTile,              \* the tile for a B that streams from memory
  Streaming                   \* thresholds of that rule, and the processor's
                              \* coresPerCCD and l3BytesPerCCD

ASSUME ShapeModelAssumption ==
  /\ isAnalyticalShapeModelArch \in BOOLEAN
  /\ DOMAIN candidateTiles \subseteq Nat
  /\ \A t \in {candidateTiles[i] : i \in DOMAIN candidateTiles} \cup {streamingTile} :
       t \in [mr : Nat \ {0}, nr : Nat \ {0}]
  /\ Streaming \in [minRows : Nat, maxRows : Nat, minThreads : Nat, kAlign : Nat \ {0},
                    coresPerCCD : Nat, l3BytesPerCCD : Nat]

\* Over a reordered B the hints stand for the GEMM; the call's own rows and
\* threads are not read.
makeModelInput(n, k, c) ==
  [m |-> c.m_hint, n |-> n, k |-> k, mr |-> c.MR, nr |-> c.NR, frozen |-> c.mask,
   num_threads |-> c.nt_hint]

isEligible(in) ==
  /\ ~({"MR", "NR"} \subseteq in.frozen)
  /\ in.m > 1 /\ in.n > 1
  /\ in.num_threads > 0

canUseAnalyticalShapeModel(in) == isAnalyticalShapeModelArch /\ isEligible(in)

isCandidateAdmissible(in, tile) ==
  /\ "MR" \in in.frozen => tile.mr = in.mr
  /\ "NR" \in in.frozen => tile.nr = in.nr

\* A tile with the split of the threads it would run under, which is the one
\* the bf16 GEMM makes.
resolveWays(r, p) == PanelGetThreading(r, p, TRUE)
resolveShape(in, tile) ==
  [mr |-> tile.mr, nr |-> tile.nr,
   ways |-> resolveWays(Split(in.num_threads, 0, 0),
                        [m |-> in.m, n |-> in.n, MR |-> tile.mr, NR |-> tile.nr])]

\* The padded area of C the busiest thread computes.
costEval(in, s) ==
  (CeilDiv(CeilDiv(in.m, s.mr), s.ways.ic) * s.mr)
  * (CeilDiv(CeilDiv(in.n, s.nr), s.ways.jc) * s.nr)

\* The cheapest of the shapes, the first of several.
cheapest(in, shapes) ==
  LET cost == [i \in DOMAIN shapes |-> costEval(in, shapes[i])]
  IN  shapes[CHOOSE i \in DOMAIN shapes : \A j \in DOMAIN shapes :
               cost[i] < cost[j] \/ (cost[i] = cost[j] /\ i <= j)]

\* A die's share of B does not fit its L3.  An element of B takes two bytes.
isBStreamBound(in) ==
  /\ Streaming.coresPerCCD > 0 /\ Streaming.l3BytesPerCCD > 0
  /\ isCandidateAdmissible(in, streamingTile)
  /\ in.m > Streaming.minRows /\ in.m <= Streaming.maxRows
  /\ in.k % Streaming.kAlign = 0
  /\ in.num_threads >= Streaming.minThreads
  /\ in.num_threads % Streaming.coresPerCCD = 0
  /\ (2 * in.n * in.k) \div (in.num_threads \div Streaming.coresPerCCD)
       > Streaming.l3BytesPerCCD

\* The tiles that are compared, by their place in the list; when the stated
\* sizes admit none, the tile of the context.
sweepCandidates(in) ==
  LET admitted == {i \in DOMAIN candidateTiles : isCandidateAdmissible(in, candidateTiles[i])}
  IN  IF isBStreamBound(in) THEN <<streamingTile>>
      ELSE IF admitted = {} THEN <<[mr |-> in.mr, nr |-> in.nr]>>
      ELSE [i \in admitted |-> candidateTiles[i]]

Shapes(in, tiles) == [i \in DOMAIN tiles |-> resolveShape(in, tiles[i])]
proposeShape(in) == cheapest(in, Shapes(in, sweepCandidates(in)))

\* The tile of a GEMM; without the model it is the tile of the context, and no
\* split.
resolveGemmShape(n, k, c) ==
  LET in == makeModelInput(n, k, c) IN
  IF canUseAnalyticalShapeModel(in) THEN proposeShape(in)
  ELSE [mr |-> in.mr, nr |-> in.nr, ways |-> Split(0, 0, 0)]

\* The width of the panels of B, for whoever packs them and for the gemv.
reorderedPanelNR(n, k, c) == resolveGemmShape(n, k, c).nr
=============================================================================
