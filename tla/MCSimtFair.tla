----------------------------- MODULE MCSimtFair -----------------------------
(* Kernels for SimtFair: a divergent loop, and kernels that never diverge. *)
EXTENDS SimtFair, MCSimtExec

Ins(op, g, arg, t) == [op |-> op, guarded |-> g, arg |-> arg, targets |-> t]

\* Two blocks laid out so that a diverged group rejoins by a backward jump.
DivergentLoop == Text(<<Ins("BRA", TRUE, 0, {3}), Ins("BRA", TRUE, 0, {0}),
                        Ins("BRA", FALSE, 0, {0}), Ins("BRA", FALSE, 0, {1})>>, 4)

\* An if without else, and a loop around a barrier.
Forward == Text(<<Ins("BRA", TRUE, 0, {2}), Ins("DATA", FALSE, 0, {}),
                  Ins("BAR", FALSE, 0, {}), Ins("EXIT", TRUE, 0, {}),
                  Ins("EXIT", FALSE, 0, {})>>, 5)

Barriers == Text(<<Ins("DATA", FALSE, 0, {}), Ins("BAR", FALSE, 0, {}),
                   Ins("BAR", FALSE, 1, {}), Ins("BRA", FALSE, 0, {0})>>, 4)

FairKernels == MCKernels \cup {Barriers, Forward, DivergentLoop}
=============================================================================
