--------------------------- MODULE MbarrierPhases ---------------------------
(***************************************************************************)
(* Warps of a CTA that synchronise through one mbarrier, as the kernels of *)
(* the interpreter do: per round every warp arrives once, the leader with  *)
(* the byte count of the copies it then issues (SYNCS.ARRIVE.A1TR and      *)
(* UTMALDG), the others with A1T0; then each polls SYNCS.PHASECHK with the *)
(* parity of its round.  The copies are made in pieces of any size.        *)
(***************************************************************************)
EXTENDS MbarrierOps, FiniteSets

CONSTANTS
    Threads,    \* the warps, each with uniform control flow
    Leader,     \* the one that issues the copies
    Total,      \* bytes copied per round
    MaxRounds   \* rounds the kernel runs

ASSUME PhasesAssumption ==
    /\ IsFiniteSet(Threads)
    /\ Leader \in Threads
    /\ Cardinality(Threads) < CountMod
    /\ Total \in Nat
    /\ MaxRounds \in Nat

VARIABLES
    bar,      \* the barrier's MbarrierState
    at,       \* where each warp is in its round
    todo,     \* bytes the leader still has to copy
    parity,   \* the parity each warp will test
    round,    \* rounds each warp has passed
    flips,    \* phases completed so far (history)
    trapped   \* a SYNCS operation faulted: the launch is over

vars == <<bar, at, todo, parity, round, flips, trapped>>

Init ==
    /\ bar = FromInitWord(InitWord(Cardinality(Threads)))
    /\ at = [t \in Threads |-> "arrive"]
    /\ todo = 0
    /\ parity = [t \in Threads |-> 0]
    /\ round = [t \in Threads |-> 0]
    /\ flips = 0
    /\ trapped = FALSE

\* One mbarrier_arrive by its handler; completion.completed is counted.
Apply(inc, k, c) ==
    /\ bar' = Arrived(bar, inc, k, c)
    /\ trapped' = ArriveTraps(bar, inc, k, c)
    /\ flips' = IF bar'.phase # bar.phase THEN flips + 1 ELSE flips

\* do_syncs, ARRIVE: A1T0 for a warp without copies to issue.
Arrive(t) ==
    /\ ~trapped
    /\ at[t] = "arrive" /\ round[t] < MaxRounds
    /\ Total > 0 => t # Leader
    /\ Apply(1, 0, FALSE)
    /\ at' = [at EXCEPT ![t] = "wait"]
    /\ UNCHANGED <<todo, parity, round>>

\* do_syncs, ARRIVE: A1TR with the bytes of the round's copies.
ArriveExpect ==
    /\ ~trapped
    /\ at[Leader] = "arrive" /\ round[Leader] < MaxRounds
    /\ Total > 0
    /\ Apply(1, Total, FALSE)
    /\ todo' = Total
    /\ at' = [at EXCEPT ![Leader] = "copy"]
    /\ UNCHANGED <<parity, round>>

\* do_utmaldg: k bytes land and complete their transaction.
Copy(k) ==
    /\ ~trapped
    /\ at[Leader] = "copy"
    /\ k \in 1 .. todo
    /\ Apply(0, k, TRUE)
    /\ todo' = todo - k
    /\ at' = IF todo = k THEN [at EXCEPT ![Leader] = "wait"] ELSE at
    /\ UNCHANGED <<parity, round>>

\* do_syncs, PHASECHK: a true predicate leaves the polling loop, a false one
\* branches back to it.
Poll(t) ==
    /\ ~trapped
    /\ at[t] = "wait"
    /\ trapped' = PhasechkTraps(bar)
    /\ IF ~PhasechkTraps(bar) /\ Phasechk(bar, parity[t])
         THEN /\ parity' = [parity EXCEPT ![t] = 1 - @]
              /\ round' = [round EXCEPT ![t] = @ + 1]
              /\ at' = [at EXCEPT ![t] = "arrive"]
         ELSE UNCHANGED <<parity, round, at>>
    /\ UNCHANGED <<bar, todo, flips>>

Step(t) ==
    \/ Arrive(t)
    \/ t = Leader /\ (ArriveExpect \/ \E k \in 1 .. todo : Copy(k))
    \/ Poll(t)

\* The kernel returned from every warp, or the launch faulted.
Over == (trapped \/ \A t \in Threads : round[t] = MaxRounds) /\ UNCHANGED vars

Next == (\E t \in Threads : Step(t)) \/ Over

Spec == Init /\ [][Next]_vars

\* Each warp is one pc-group throughout, so the round-robin scheduler serves
\* it again and again while it polls or has work.
FairSpec == Spec /\ \A t \in Threads : WF_vars(Step(t))

-----------------------------------------------------------------------------
(* Properties.                                                             *)

\* Type invariant.
TypeOK ==
    /\ bar \in State
    /\ at \in [Threads -> {"arrive", "copy", "wait"}]
    /\ todo \in 0 .. Total
    /\ parity \in [Threads -> {0, 1}]
    /\ round \in [Threads -> Nat]
    /\ flips \in Nat
    /\ trapped \in BOOLEAN

\* A kernel that keeps the protocol never faults: no arrival is counted
\* twice or into the wrong phase and no transaction underflows, in whatever
\* order arrivals, copies and polls of different rounds meet
\* (mbarrier_arrive).
NeverTraps == ~trapped /\ ~bar.corrupted /\ ~bar.locked

\* A warp leaves its poll only when every warp arrived in that round and
\* every byte of the round landed (mbarrier_phasechk on one parity bit).
PassesTogether ==
    [][\A t \in Threads : round'[t] > round[t] =>
         \A u \in Threads :
            \/ round[u] > round[t]
            \/ round[u] = round[t] /\ at[u] = "wait"]_vars

\* A warp owes its contribution until it arrived and, if it is the leader, its
\* copies landed.
Abstract ==
    INSTANCE PhaseBarrier WITH
        phase <- flips,
        owes  <- {t \in Threads : round[t] < flips \/ at[t] # "wait"},
        round <- round

\* The mbarrier of mbarrier.cpp, with its phase bit and counts, implements the
\* phased barrier: warps contribute once to a phase and pass it when it is over.
ImplementsPhaseBarrier == Abstract!Spec

\* Every warp finishes its rounds: the last contribution of a phase wakes
\* every poller, and none is left behind by a phase that flipped twice.
EveryRoundPasses == \A t \in Threads : <>(round[t] = MaxRounds)

=============================================================================
