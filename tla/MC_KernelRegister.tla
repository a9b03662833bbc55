------------------------- MODULE MC_KernelRegister --------------------------
(* KernelRegister with two threads that ask for two keys of one routine;   *)
(* threads and the keys of a routine are interchangeable.                  *)
EXTENDS KernelRegister, TLC

CONSTANTS g1, g2, p1, p2, q1, q2

MCKindOf == [key \in Keys |-> IF key \in {g1, g2} THEN "gemm"
                              ELSE IF key \in {p1, p2} THEN "pack_b" ELSE "gemm_quant"]
MCKeySets == {{g1, g2}, {p1, p2}, {q1, q2}}
QuantKeySets == {{q1}}
MCDTypes == <<"of32", "obf16">>
Interchangeable == UNION {Permutations(S) : S \in {Threads} \cup MCKeySets}
=============================================================================
