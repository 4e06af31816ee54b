------------------------------ MODULE SimtFair ------------------------------
(***************************************************************************)
(* Does the round-robin cursor of next_group give every runnable warp its  *)
(* turn?  SimtExec with a history variable that counts, per warp, the      *)
(* turns in a row in which it was runnable and another warp was picked,    *)
(* since the number of groups last changed.                                *)
(***************************************************************************)
EXTENDS SimtExec

VARIABLE steady

fairVars == <<vars, steady>>

Picked ==
    {h[1] : h \in {g \in Eligible : Rank(g) = rr % Cardinality(Eligible)}}

PassedOver(w) == outcome = "Running" /\ w \notin Picked /\ Live(w) # {}

HInit ==
    /\ Init
    /\ steady = [w \in WarpId |-> 0]

HNext ==
    /\ Next
    /\ steady' = [w \in WarpId |->
                    IF PassedOver(w) /\ Cardinality(Groups') = Cardinality(Groups)
                      THEN steady[w] + 1 ELSE 0]

HSpec == HInit /\ [][HNext]_fairVars

\* While the number of groups does not change, a runnable warp is passed
\* over by at most the other groups: the cursor is round robin between two
\* changes of the schedule (next_group).
SteadyRoundRobin ==
    outcome = "Running" =>
        \A w \in WarpId : Live(w) # {} => steady[w] < Cardinality(Groups)

=============================================================================
