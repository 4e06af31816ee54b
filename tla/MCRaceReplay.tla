---------------------------- MODULE MCRaceReplay ----------------------------
(* RaceReplay with the constants of MCRaceHistory.                         *)
EXTENDS RaceReplay, MCRaceHistory

\* A flag that orders lanes of one CTA or of both, data, barriers and fences.
MCFlags == {[ops |-> Flags("gpu"), kinds |-> {"barrier", "fence"}, events |-> 4],
            [ops |-> Flags("gpu") \cup Flags("cta"), kinds |-> {}, events |-> 3]}

=============================================================================
