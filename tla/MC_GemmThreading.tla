------------------------- MODULE MC_GemmThreading -------------------------
(***************************************************************************)
(* Instances of GemmThreading for TLC: shapes below, at and above the      *)
(* block sizes, thread counts that are prime, composite and more than      *)
(* there are blocks, and ways that fit no shape.                           *)
(***************************************************************************)
EXTENDS GemmThreading

Problem(m, n, k) == [m |-> m, n |-> n, k |-> k, MR |-> 2, NR |-> 3, MC |-> 4, KC |-> 1]
MCProblems == {Problem(m, n, k) : m \in {1, 2, 5, 11, 23}, n \in {1, 3, 6, 7, 13}, k \in {1, 5}}
MCRntms ==
  {[nt |-> nt, ic |-> -1, jc |-> -1] : nt \in (1 .. 13) \cup {16, 20, 24, 30}}
    \cup {[nt |-> -1, ic |-> ic, jc |-> jc] : ic \in {1, 4}, jc \in {1, 3}}
=============================================================================
