-------------------------- MODULE MC_DispatchTable --------------------------
(* Three keys in a chain of one slot, one of them with two values, and a  *)
(* backup table of one entry that may or may not grow by a bucket of two:  *)
(* the third key grows the table or is refused.                            *)
EXTENDS DispatchTable

CONSTANTS a, b, c, va, va2, vb, vc

MCKeys == {a, b, c}
MCValues == {va, va2, vb, vc}
MCKeyOf == [v \in MCValues |-> IF v = vb THEN b ELSE IF v = vc THEN c ELSE a]
MCHash == [k \in MCKeys |-> 0]
=============================================================================
