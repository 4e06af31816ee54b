--------------------------- MODULE MCDebugSession ---------------------------
(* Kernels and breakpoints for DebugSession.                               *)
EXTENDS DebugSession, MCSimtExec

\* a loop around a barrier and a divergent region, with a way out
DebugLoop == Text(<<Ssy(0, 2), Branch({2}), Plain("BSYNC", 0),
                    Plain("BAR", 0), Branch({0}), Plain("EXIT", 0)>>, 6)

\* an early exit, a data instruction, one that only decodes, a bad word
DebugStops == Text(<<Guarded("EXIT", 0), Plain("DATA", 0), Branch({4}),
                     Plain("DATA", 7), Branch({0, 9}), Plain("BAD", 0)>>, 6)

MCDebugKernels == {DebugLoop, DebugStops}

\* "break pc 0 warp 0" and "break mnem EXIT" on lane 0
MCPoints ==
    {[kind |-> "pc", pc |-> 0, op |-> "", warps |-> Cta \X {0}, mask |-> Lane],
     [kind |-> "mnemonic", pc |-> 0, op |-> "EXIT", warps |-> WarpId,
      mask |-> {0}]}

MCJumps == {<<<<0, 0>>, 0, 0>>}
=============================================================================
