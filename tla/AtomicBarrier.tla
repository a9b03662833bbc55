--------------------------- MODULE AtomicBarrier ---------------------------
(***************************************************************************)
(* The sense-reversing barrier of the GEMM thread teams                    *)
(* (dlp_atomic_barrier, classic/frame/threading/dlp_gemm_thread_utils.c).  *)
(*                                                                         *)
(* The threads of a team share one dlp_task_comm_t.  They use the same     *)
(* barrier over and over, and a fast thread may be back for the next round *)
(* while a slow one still spins in the last: that is what the sense bit is *)
(* for.  Every atomic access, and the plain store that resets the counter, *)
(* is a step of its own.                                                   *)
(***************************************************************************)
EXTENDS Naturals, FiniteSets

CONSTANTS
  Threads,    \* threads a team is drawn from
  MaxRounds   \* bound: barrier calls per thread

ASSUME BarrierAssumption == IsFiniteSet(Threads) /\ MaxRounds \in Nat

VARIABLES
  team,                     \* the threads of the communicator
  barrier_sense,            \* comm->barrier_sense
  barrier_threads_arrived,  \* comm->barrier_threads_arrived
  pc,                       \* where each thread is
  orig_sense,               \* each thread's local
  entered, passed           \* history: calls begun, calls returned from

barrier_vars == <<team, barrier_sense, barrier_threads_arrived, pc, orig_sense, entered, passed>>

n_threads == Cardinality(team)   \* comm->n_threads

\* dlp_task_comm_init, for any team.
BarrierInit ==
  /\ team \in (SUBSET Threads) \ {{}}
  /\ barrier_sense = 0
  /\ barrier_threads_arrived = 0
  /\ pc = [t \in Threads |-> "out"]
  /\ orig_sense = [t \in Threads |-> 0]
  /\ entered = [t \in Threads |-> 0]
  /\ passed = [t \in Threads |-> 0]

----------------------------------------------------------------------------
\* Mutant: the local is loaded once and kept over later rounds.
LoadSenseOnce(t) ==
  /\ pc[t] = "out"
  /\ entered[t] < MaxRounds
  /\ entered' = [entered EXCEPT ![t] = @ + 1]
  /\ pc' = [pc EXCEPT ![t] = IF n_threads = 1 THEN "alone" ELSE "inc"]
  /\ UNCHANGED <<team, barrier_sense, barrier_threads_arrived, orig_sense, passed>>

\* The call begins with the load of the sense; a team of one has nothing to
\* wait for and returns at its next step.
LoadSense(t) ==
  /\ pc[t] = "out"
  /\ entered[t] < MaxRounds
  /\ entered' = [entered EXCEPT ![t] = @ + 1]
  /\ IF n_threads = 1
     THEN /\ pc' = [pc EXCEPT ![t] = "alone"]
          /\ UNCHANGED orig_sense
     ELSE /\ pc' = [pc EXCEPT ![t] = "inc"]
          /\ orig_sense' = [orig_sense EXCEPT ![t] = barrier_sense]
  /\ UNCHANGED <<team, barrier_sense, barrier_threads_arrived, passed>>

ReturnAlone(t) ==
  /\ pc[t] = "alone"
  /\ pc' = [pc EXCEPT ![t] = "out"]
  /\ passed' = [passed EXCEPT ![t] = @ + 1]
  /\ UNCHANGED <<team, barrier_sense, barrier_threads_arrived, orig_sense, entered>>

\* Mutants: the count that closes a round is one too small, or compared with
\* the value before the increment.
IncrementClosingAt(t, count) ==
  /\ pc[t] = "inc"
  /\ barrier_threads_arrived' = barrier_threads_arrived + 1
  /\ pc' = [pc EXCEPT ![t] = IF barrier_threads_arrived = count THEN "reset" ELSE "spin"]
  /\ UNCHANGED <<team, barrier_sense, orig_sense, entered, passed>>
IncrementTooEarly(t) == IncrementClosingAt(t, n_threads - 2)
IncrementFetchedOld(t) == IncrementClosingAt(t, n_threads)

Increment(t) ==
  /\ pc[t] = "inc"
  /\ barrier_threads_arrived' = barrier_threads_arrived + 1
  /\ pc' = [pc EXCEPT ![t] =
              IF barrier_threads_arrived + 1 = n_threads THEN "reset" ELSE "spin"]
  /\ UNCHANGED <<team, barrier_sense, orig_sense, entered, passed>>

\* The last one to arrive: a plain store, then the flip that lets all go.
ResetCounter(t) ==
  /\ pc[t] = "reset"
  /\ barrier_threads_arrived' = 0
  /\ pc' = [pc EXCEPT ![t] = "flip"]
  /\ UNCHANGED <<team, barrier_sense, orig_sense, entered, passed>>

\* Mutant: the sense counts instead of alternating.
FlipSenseCounting(t) ==
  /\ pc[t] = "flip"
  /\ barrier_sense' = barrier_sense + 1
  /\ pc' = [pc EXCEPT ![t] = "out"]
  /\ passed' = [passed EXCEPT ![t] = @ + 1]
  /\ UNCHANGED <<team, barrier_threads_arrived, orig_sense, entered>>

FlipSense(t) ==
  /\ pc[t] = "flip"
  /\ barrier_sense' = 1 - barrier_sense
  /\ pc' = [pc EXCEPT ![t] = "out"]
  /\ passed' = [passed EXCEPT ![t] = @ + 1]
  /\ UNCHANGED <<team, barrier_threads_arrived, orig_sense, entered>>

\* Mutant: the spin loop is missing.
SpinExitAtOnce(t) ==
  /\ pc[t] = "spin"
  /\ pc' = [pc EXCEPT ![t] = "out"]
  /\ passed' = [passed EXCEPT ![t] = @ + 1]
  /\ UNCHANGED <<team, barrier_sense, barrier_threads_arrived, orig_sense, entered>>

\* The others spin until the sense differs from the one they loaded.
SpinExit(t) ==
  /\ pc[t] = "spin"
  /\ barrier_sense # orig_sense[t]
  /\ pc' = [pc EXCEPT ![t] = "out"]
  /\ passed' = [passed EXCEPT ![t] = @ + 1]
  /\ UNCHANGED <<team, barrier_sense, barrier_threads_arrived, orig_sense, entered>>

----------------------------------------------------------------------------
Inside(t) == ReturnAlone(t) \/ Increment(t) \/ ResetCounter(t) \/ FlipSense(t) \/ SpinExit(t)

BarrierNext == \E t \in team : LoadSense(t) \/ Inside(t)

\* A thread inside the barrier keeps running; when it comes back is up to the
\* driver between two barriers.
Fairness == \A t \in Threads : WF_barrier_vars(t \in team /\ Inside(t))

BarrierSpec == BarrierInit /\ [][BarrierNext]_barrier_vars
FairSpec == BarrierSpec /\ Fairness

----------------------------------------------------------------------------
(* Properties.                                                             *)

Pcs == {"out", "alone", "inc", "reset", "flip", "spin"}

\* The communicator and the threads' locals keep their types, and a call is
\* in progress exactly where the program counter says so.
TypeOK ==
  /\ team \in (SUBSET Threads) \ {{}}
  /\ barrier_sense \in {0, 1}
  /\ barrier_threads_arrived \in Nat
  /\ pc \in [Threads -> Pcs]
  /\ orig_sense \in [Threads -> {0, 1}]
  /\ entered \in [Threads -> Nat]
  /\ passed \in [Threads -> Nat]
  /\ \A t \in Threads : entered[t] = passed[t] + (IF pc[t] = "out" THEN 0 ELSE 1)

\* Nobody returns from its k-th call before everybody has made a k-th call:
\* what makes the packed panel complete before it is read, and read before it
\* is overwritten.
NoEarlyExit == \A t, u \in team : passed[t] <= entered[u]

\* The reset of line 121 is a plain store.  While it is pending nobody can be
\* about to increment the counter, so no arrival is lost.
ResetRacesWithNobody ==
  \A t, u \in team :
    t # u /\ pc[t] \in {"reset", "flip"} =>
      pc[u] = "spin" /\ orig_sense[u] = barrier_sense

\* dlp_atomic_barrier implements the barrier the drivers rely on.
AB == INSTANCE AbstractBarrier WITH team <- team, entered <- entered, passed <- passed
ImplementsBarrier == AB!Spec

\* Once everybody has made its k-th call, everybody returns from it, although
\* the fast ones may already be back in the barrier.
EveryoneReleased ==
  \A k \in 1 .. MaxRounds :
    (\A u \in team : entered[u] >= k) ~> (\A u \in team : passed[u] >= k)
=============================================================================
