------------------------- MODULE MC_BatchDecorator -------------------------
(***************************************************************************)
(* Instances of BatchDecorator for TLC.                                    *)
(***************************************************************************)
EXTENDS BatchDecorator

Problem(m, n, k) == [m |-> m, n |-> n, k |-> k, MR |-> 6, NR |-> 64, MC |-> 12, KC |-> 4]
Request(api, mc, p, nt, group_size, tag) ==
  [api |-> api, mc |-> mc, p |-> p, nt |-> nt, group_size |-> group_size,
   mtag_b |-> tag, pack_b |-> TRUE]

\* One column panel (ic teams), one row panel (jc teams), both cut, and a
\* split that the panel heuristic changes.
Shapes == {Problem(24, 64, 8), Problem(6, 256, 8), Problem(24, 256, 16), Problem(40, 192, 16)}

\* Thread counts the group divides, leaves a rest of, exceeds; no count; an
\* empty group.  The 4-bit variants with one GEMM.
MCRequests ==
  {Request(api, FALSE, p, nt, gs, "PACK") :
     api \in {"s32", "f32"}, p \in Shapes, nt \in {-1, 1, 2, 3, 5}, gs \in 0 .. 3}
    \cup {Request("f32", FALSE, p, 4, 2, tag) : p \in Shapes, tag \in {"UNPACKED", "REORDERED"}}
    \cup {Request("s32", FALSE, p, nt, 2, "PACK") : p \in {Problem(128, 128, 16)}, nt \in {8, 9}}
    \cup {Request("bf16", TRUE, p, nt, 1, "REORDERED") :
            p \in {Problem(24, 64, 16), Problem(40, 2048, 4), Problem(24, 2048, 4)}, nt \in {1, 2, 4}}

\* Two GEMMs of a 4-bit variant, two threads each.
MCPickedRequests == {Request("bf16", TRUE, Problem(24, 64, 16), 4, 2, "REORDERED")}
=============================================================================
