------------------------- MODULE MC_GemmFiveLoop -------------------------
(***************************************************************************)
(* Instances of GemmFiveLoop for TLC.                                      *)
(***************************************************************************)
EXTENDS GemmFiveLoop

Shape(ic_ways, jc_ways, m, n, k, tag) ==
  [ic_ways |-> ic_ways, jc_ways |-> jc_ways, m |-> m, n |-> n, k |-> k,
   MR |-> 2, NR |-> 2, MC |-> 2, NC |-> 4, KC |-> 2, mtag_b |-> tag,
   downscale |-> tag # "UNPACKED"]

\* Fringes in every dimension; two panels of columns and two or three of k;
\* more threads than blocks of rows, and than blocks of columns (teams with
\* nothing to do); reordered panels that straddle the ranges of two teams, so
\* that the first block of the second team is cut short.
MCShapes ==
  {Shape(2, 1, 3, 5, 3, "PACK"), Shape(3, 1, 2, 7, 5, "PACK"),
   Shape(2, 2, 3, 2, 1, "PACK"), Shape(1, 2, 3, 9, 3, "PACK"),
   Shape(2, 2, 3, 7, 1, "PACK"), Shape(2, 2, 3, 11, 3, "PACK_KC"),
   Shape(1, 2, 3, 13, 3, "REORDERED"), Shape(2, 2, 5, 6, 3, "REORDERED"),
   Shape(2, 1, 2, 2, 2, "UNPACKED")}
=============================================================================
