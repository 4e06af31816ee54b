--------------------------- MODULE MCRaceHistory ---------------------------
(* Instances of RaceHistory: lanes are model values, flags and data are    *)
(* bytes of one allocation.                                                *)
EXTENDS RaceHistory, TLC

CONSTANTS a0, a1, b0, c0

\* Lanes a0 and a1 are one warp and b0 another warp of CTA 0; c0 is in CTA 1.
MCLane == {a0, a1, b0, c0}
MCWarpOf == (a0 :> 0 @@ a1 :> 0 @@ b0 :> 1 @@ c0 :> 2)
MCCtaOf == (a0 :> 0 @@ a1 :> 0 @@ b0 :> 0 @@ c0 :> 1)
MCSmOf == (a0 :> 0 @@ a1 :> 0 @@ b0 :> 0 @@ c0 :> 1)

\* The lanes of a warp may be exchanged: no operation and no property tells them
\* apart but by their warp.
MCSymmetry == Permutations({a0, a1})

MCPairSets == {{0, 1}}

\* What the theorem on NoFalseAlarm asks of the uses.
ASSUME AlarmAssumption == ScopesCompose

Plain(sp, id, lo, hi, w) ==
    [space |-> sp, alloc |-> id, lo |-> lo, hi |-> hi, is_write |-> w,
     is_atomic |-> FALSE, mem_order |-> "relaxed", scope |-> ""]

Atomic(lo, hi, o, s) ==
    [space |-> "global", alloc |-> 1, lo |-> lo, hi |-> hi, is_write |-> TRUE,
     is_atomic |-> TRUE, mem_order |-> o, scope |-> s]

Data == {Plain("global", 1, 0, 1, w) : w \in BOOLEAN}

\* Data at byte 0, a flag at byte 1 that is released and acquired.
Flags(s) == Data \cup {Atomic(1, 2, o, s) : o \in {"release", "acquire"}}

\* Ranges that overlap in part.
Ranges == {Plain("global", 1, 0, 3, w) : w \in BOOLEAN}
          \cup {Plain("global", 1, 1, 2, FALSE), Plain("global", 1, 2, 4, TRUE)}

\* Shared memory of the CTAs and a byte of global memory.
Spaces == {Plain("shared", 1, 0, 1, w) : w \in BOOLEAN}
          \cup {Plain("global", 1, 0, 1, TRUE)}

MCUses ==
    { [ops |-> Flags("gpu"), kinds |-> {"barrier"}, events |-> 4],
      [ops |-> Data \cup {Atomic(1, 2, "acq_rel", "gpu")}, kinds |-> {"barrier"},
       events |-> 4],
      [ops |-> Ranges, kinds |-> {}, events |-> 4],
      [ops |-> Spaces, kinds |-> CallKind, events |-> 4] }

=============================================================================
