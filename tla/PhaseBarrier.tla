---------------------------- MODULE PhaseBarrier ----------------------------
(***************************************************************************)
(* What a phased barrier promises its threads: a phase completes when      *)
(* every thread made its contribution to it, and a thread enters the next  *)
(* round only after the phase of its round completed.  Phases are counted  *)
(* without bound; there are no parities, counters or transaction bytes.    *)
(***************************************************************************)
EXTENDS Integers

CONSTANT Threads

VARIABLES
    phase,   \* phases completed so far
    owes,    \* threads whose contribution to the current phase is missing
    round    \* rounds each thread has passed

pbvars == <<phase, owes, round>>

Init ==
    /\ phase = 0
    /\ owes = Threads
    /\ round = [t \in Threads |-> 0]

\* The last contribution completes the phase.
Contribute(t) ==
    /\ t \in owes
    /\ round[t] = phase
    /\ IF owes = {t}
         THEN phase' = phase + 1 /\ owes' = Threads
         ELSE phase' = phase /\ owes' = owes \ {t}
    /\ UNCHANGED round

Pass(t) ==
    /\ round[t] < phase
    /\ round' = [round EXCEPT ![t] = @ + 1]
    /\ UNCHANGED <<phase, owes>>

Next == \E t \in Threads : Contribute(t) \/ Pass(t)

Spec == Init /\ [][Next]_pbvars

=============================================================================
