---------------------------- MODULE MCSimtExec ----------------------------
(* Small kernels for SimtExec: barriers, divergence, nesting, bad targets. *)
EXTENDS SimtExec

Plain(op, arg)      == [op |-> op, guarded |-> FALSE, arg |-> arg, targets |-> {}]
Guarded(op, arg)    == [op |-> op, guarded |-> TRUE, arg |-> arg, targets |-> {}]
Jump(t)             == [op |-> "BRA", guarded |-> FALSE, arg |-> 0, targets |-> t]
Branch(t)           == [op |-> "BRA", guarded |-> TRUE, arg |-> 0, targets |-> t]
Ssy(b, j)           == [op |-> "BSSY", guarded |-> FALSE, arg |-> b, targets |-> {j}]

Text(s, n) == [p \in 0 .. n - 1 |-> s[p + 1]]

\* if-then-else around a barrier-free body, then BAR, then EXIT
IfThenElse == Text(<<Ssy(0, 5), Branch({4}), Plain("DATA", 0), Jump({5}),
                     Plain("DATA", 0), Plain("BSYNC", 0),
                     Plain("BAR", 0), Plain("EXIT", 0)>>, 8)

\* a BAR in a divergent region and an early guarded EXIT
BarInBranch == Text(<<Ssy(0, 4), Branch({4}), Plain("BAR", 0),
                      Guarded("EXIT", 0), Plain("BSYNC", 0),
                      Plain("BAR", 1), Plain("EXIT", 0)>>, 7)

\* nested regions on two registers, exits inside the inner one
Nested == Text(<<Ssy(0, 6), Branch({6}), Ssy(1, 5), Branch({5}),
                 Guarded("EXIT", 0), Plain("BSYNC", 1), Plain("BSYNC", 0),
                 Plain("EXIT", 0)>>, 8)

\* a loop over two barriers in turn with a guarded way out
BarLoop == Text(<<Plain("BAR", 0), Plain("BAR", 1), Branch({0}),
                  Plain("EXIT", 0)>>, 4)

\* indirect branches, one target outside the text; a BSYNC without BSSY
Indirect == Text(<<Branch({1, 3, 9}), Guarded("BSYNC", 2),
                   [op |-> "BSSY", guarded |-> TRUE, arg |-> 0, targets |-> {2, 9}],
                   Plain("BAD", 0)>>, 4)

\* if-then-else on B0, each side with a region of its own on B1
Siblings == Text(<<Ssy(0, 12), Branch({8}),
                   Ssy(1, 6), Branch({6}), Plain("DATA", 0), Plain("DATA", 0),
                   Plain("BSYNC", 1), Jump({12}),
                   Ssy(1, 11), Branch({11}), Plain("DATA", 0), Plain("BSYNC", 1),
                   Plain("BSYNC", 0), Plain("EXIT", 0)>>, 14)

\* two regions left in opposite orders: nobody can complete
Crossed == Text(<<Ssy(0, 3), Ssy(1, 4), Branch({4}), Plain("BSYNC", 0),
                  Plain("BSYNC", 1), Plain("EXIT", 0)>>, 6)

MCKernels == {IfThenElse, BarInBranch, Nested, BarLoop, Indirect, Siblings,
              Crossed}
===========================================================================
