------------------------- MODULE MC_ThreadRuntime -------------------------
(***************************************************************************)
(* Instances of ThreadRuntime for TLC.  The ways are chosen so that a pair *)
(* put together from two calls is recognisable.                            *)
(***************************************************************************)
EXTENDS ThreadRuntime

Build(openmp, nt, jc, ic) == [openmp |-> openmp, nt |-> nt, jc |-> jc, ic |-> ic]

MCBuilds ==
  {Build(TRUE, -1, -1, -1), Build(FALSE, -1, -1, -1),
   Build(TRUE, 3, -1, -1), Build(TRUE, 3, 0, 2)}
MCWaysArgs == {<<2, 3>>, <<3, -1>>, <<0, -2>>}
MCNtArgs == {2, -1}
MCOmpCounts == {4}

\* The instance of the finding: one count, never unset again.
LostBuilds == {Build(TRUE, -1, -1, -1)}
LostWaysArgs == {}
LostNtArgs == {2}
=============================================================================
