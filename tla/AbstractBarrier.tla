-------------------------- MODULE AbstractBarrier --------------------------
(***************************************************************************)
(* What the GEMM drivers expect of dlp_atomic_barrier: a team of threads   *)
(* calls it again and again, and nobody returns from its k-th call before  *)
(* everybody in the team has made its k-th call.                           *)
(***************************************************************************)
EXTENDS Naturals

CONSTANTS Threads, MaxRounds  \* MaxRounds bounds the calls of each thread

VARIABLES team,     \* the threads that share the communicator
          entered,  \* calls begun by each thread
          passed    \* calls returned from by each thread

Init ==
  /\ team \in (SUBSET Threads) \ {{}}
  /\ entered = [t \in Threads |-> 0]
  /\ passed = [t \in Threads |-> 0]

Arrive(t) ==
  /\ entered[t] = passed[t]
  /\ entered[t] < MaxRounds
  /\ entered' = [entered EXCEPT ![t] = @ + 1]
  /\ UNCHANGED <<team, passed>>

Leave(t) ==
  /\ passed[t] < entered[t]
  /\ \A u \in team : entered[t] <= entered[u]
  /\ passed' = [passed EXCEPT ![t] = @ + 1]
  /\ UNCHANGED <<team, entered>>

Next == \E t \in team : Arrive(t) \/ Leave(t)

Spec == Init /\ [][Next]_<<team, entered, passed>>
=============================================================================
