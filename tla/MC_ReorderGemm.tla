--------------------------- MODULE MC_ReorderGemm ---------------------------
(* ReorderGemm with widths an eighth of the code's (NR 64, 48 and 32 are   *)
(* 8, 6 and 4, min_NR 16 is 2), panels of 16 columns and 4 rows, and two   *)
(* cores to a die.                                                         *)
EXTENDS ReorderGemm

Blocks(MC, NC, KC, MR, NR) == [MC |-> MC, NC |-> NC, KC |-> KC, MR |-> MR, NR |-> NR]
Meta(b, m_hint, nt_hint) == [blocks |-> b, m_hint |-> m_hint, nt_hint |-> nt_hint]
Free == Blocks(0, 0, 0, 0, 0)
Tile(mr, nr) == [mr |-> mr, nr |-> nr]

MCDefaultBlocks == Blocks(48, 16, 4, 6, 8)
MCTiles == <<Tile(6, 8), Tile(8, 6)>>
MCStreamingTile == Tile(12, 4)
MCStreaming == [minRows |-> 6, maxRows |-> 20, minThreads |-> 4, kAlign |-> 2,
                coresPerCCD |-> 2, l3BytesPerCCD |-> 100]
MCProblems == {[n |-> 1, k |-> 3], [n |-> 7, k |-> 3], [n |-> 20, k |-> 5], [n |-> 21, k |-> 6]}
MCMetadata == {
  Meta(Free, 0, 0), Meta(Free, 8, 2), Meta(Free, 8, 4), Meta(Free, -1, 0),
  Meta(Blocks(0, 12, 0, 0, 6), 0, 0),   \* narrow panels
  Meta(Blocks(0, 0, 2, 0, 0), 8, 2),    \* low panels
  Meta(Blocks(0, 0, 2, 0, 0), 0, 0),
  Meta(Blocks(0, 10, 0, 0, 0), 0, 0),   \* panels no tile fits
  Meta(Blocks(0, 0, 0, 8, 0), 9, 2),    \* half a tile stated
  Meta(Blocks(0, 0, 0, 1, 0), 8, 2)}    \* a tile without a kernel
MCRuntimes == {Split(1, 0, 0), Split(2, 0, 0), Split(4, 0, 0), Split(-1, 2, 2)}
MCTiny == [k_thresh |-> 5, mnk |-> 1000]
=============================================================================
