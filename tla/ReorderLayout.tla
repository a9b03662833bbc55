--------------------------- MODULE ReorderLayout ---------------------------
(***************************************************************************)
(* Where an element of B lies in a reordered buffer                        *)
(* (classic/include/gemm_utils/dlp_gemm_reorder_layout.h, the panel walk   *)
(* of dlp_gemm_utils.h).                                                   *)
(*                                                                         *)
(* B is cut into panels of KC x NC, stored down k first.  A panel is cut   *)
(* into chunks: NR columns wide, then the widest multiple of min_NR that   *)
(* fits, then a tail padded to min_NR.  In a chunk, k_factor rows are      *)
(* interleaved.  w is a blocking: a record with NR, NC and KC.             *)
(***************************************************************************)
EXTENDS Integers, TaskRange

CONSTANTS min_NR, k_factor

ASSUME LayoutAssumption == min_NR \in Nat \ {0} /\ k_factor \in Nat \ {0}

Least(a, b) == IF a <= b THEN a ELSE b
dlp_reorder_round_up(value, to) == ((value + to - 1) \div to) * to
RoundK(k) == dlp_reorder_round_up(k, k_factor)
RoundN(n) == dlp_reorder_round_up(n, min_NR)

----------------------------------------------------------------------------
(* Inside a panel of nc0 columns and kc0 rows.                             *)

\* The chunk of column i, as the walk over the chunks finds it.
Chunk(i, nc0, NR) ==
  LET fringe == (nc0 \div NR) * NR
      tail == fringe + ((nc0 - fringe) \div min_NR) * min_NR
  IN  IF i < fringe THEN [col_start |-> (i \div NR) * NR, slot |-> NR]
      ELSE IF i < tail THEN [col_start |-> fringe, slot |-> tail - fringe]
      ELSE [col_start |-> tail, slot |-> min_NR]

dlp_reorder_elem_offset(kr, i, slot) ==
  (kr \div k_factor) * (k_factor * slot) + i * k_factor + (kr % k_factor)

\* The chunks before it are full: they take as many columns as slots.
TileOffset(kr, i, nc0, kc0, NR) ==
  LET c == Chunk(i, nc0, NR)
  IN  c.col_start * RoundK(kc0) + dlp_reorder_elem_offset(kr, i - c.col_start, c.slot)

dlp_reorder_panel_elems(nc0, kc0) == RoundN(nc0) * RoundK(kc0)

dlp_reorder_ref_blocks_legal(NR, KC) ==
  NR > 0 /\ KC > 0 /\ NR % min_NR = 0 /\ KC % k_factor = 0

----------------------------------------------------------------------------
(* The panels a thread walks through, from column jc of its range.         *)

panel_start(jc, w) == (jc \div w.NC) * w.NC
panel_offset(jc, w) == jc - panel_start(jc, w)

\* Mutant: the block may run over the end of the panel it begins in.
WidthAcrossPanels(jc, end, w) == Least(end - jc, w.NC)
panel_width(jc, end, w) == Least(Least(end - jc, w.NC), w.NC - panel_offset(jc, w))

\* Mutant: the last panel is not padded.
UnpaddedWidth(jc, n, w) == Least(n - panel_start(jc, w), w.NC)
\* The padded width of the whole panel.
dlp_gemm_get_Bpanel_width_for_kmd_traversal(jc, n, w) ==
  LET last == (n \div w.NC) * w.NC
  IN  IF n % w.NC # 0 /\ jc >= last
      THEN n - last + (IF n % min_NR # 0 THEN min_NR - (n % min_NR) ELSE 0)
      ELSE w.NC

NextPanel(jc, w) == panel_start(jc, w) + w.NC

PanelBase(jc, pc, n, k, w) ==
  LET kc0 == Least(k - pc, w.KC)
  IN  panel_start(jc, w) * RoundK(k)
      + dlp_gemm_get_Bpanel_width_for_kmd_traversal(jc, n, w) * pc
      + panel_offset(jc, w) * RoundK(kc0)

\* The first rows of the panels below each other.
PanelRows(k, KC) == {pc \in 0 .. k - 1 : pc % KC = 0}
=============================================================================
