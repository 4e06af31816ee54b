---------------------------- MODULE MCParallelRun ----------------------------
(* Launches of three CTAs on one to three workers.  Bytes have two bits,   *)
(* addresses four, and sectors two bytes.                                  *)
EXTENDS ParallelRun

L(a, o, d) == [addr |-> a, off |-> o, data |-> d, cmp |-> 0]
I(op) == [op |-> op, len |-> 0, rmw |-> "add", lanes |-> <<>>]
Mem(op, n, lanes) == [op |-> op, len |-> n, rmw |-> "add", lanes |-> lanes]
Load(a, n) == Mem("load", n, <<L(a, 0, 0)>>)
Atom(rmw, n, lanes) == [op |-> "atomic", len |-> n, rmw |-> rmw, lanes |-> lanes]
BadLoad == Load(6, 1)

\* Accesses of one lane and of two, to one sector and to two.
Clean == {<<Load(0, 1), I("alu")>>, <<Mem("load", 1, <<L(1, 0, 0), L(3, -1, 0)>>)>>,
          <<I("alu")>>}
Faulty == {<<I("trap")>>, <<Load(0, 1), BadLoad>>, <<I("alu"), I("wait")>>,
           <<I("alu"), I("loop")>>}

\* Three requests to two sectors, so that every completion order is explored.
Seeded == [c \in Cta |-> IF c = 0 THEN <<Mem("load", 1, <<L(1, 0, 0), L(2, 0, 0)>>)>>
                         ELSE IF c = 1 THEN <<Load(0, 1)>> ELSE <<I("alu")>>]

\* Five lanes of three CTAs draw tickets from a counter of two bytes.
Counter == [c \in Cta |-> IF c = 2 THEN <<Atom("add", 2, <<L(2, 0, 1)>>)>>
                          ELSE <<Atom("add", 2, <<L(2, 0, 1), L(1, 1, 1)>>)>>]

\* One atomic per CTA at the same place, with operands that differ by CTA.
Reduce(rmw, n, at, data) == [c \in Cta |-> <<Atom(rmw, n, <<L(at, 0, data[c + 1])>>)>>]
Reductions ==
    {Reduce(rmw, 1, 2, d) : rmw \in AtomicOps \ {"inc", "dec", "cas"},
                            d \in {<<3, 1, 2>>, <<0, 2, 2>>}}
    \cup {Reduce(rmw, 2, 2, <<b, b, b>>) : rmw \in {"inc", "dec"}, b \in {6, 9}}
    \cup {Reduce("cas", 1, at, <<3, 1, 2>>) : at \in {2, 3}}

\* Instructions whose second lane may miss the buffer: past its end, misaligned,
\* below it, and around the end of the address word.
Wild == {L(2, 0, 1), L(6, 0, 1), L(1, 0, 1), L(0, -1, 1), L(15, 1, 1), L(14, 0, 1), L(8, 0, 1)}
WildPrograms ==
    {<<Mem(op, 2, <<L(0, 0, 7), l>>)>> : op \in {"load", "store", "atomic"}, l \in Wild}
    \cup {<<Atom("inc", 1, <<L(0, 0, 2)>>)>>, <<Atom("add", 4, <<L(0, 0, 2)>>)>>}
WildKernels ==
    {[c \in Cta |-> IF c = 0 THEN p ELSE <<Mem("store", 1, <<L(c + 3, 0, c)>>)>>] :
       p \in WildPrograms}

Buffer == <<1, 2, 3, 0, 0, 1>>

MCLaunches ==
    [prog: [Cta -> Clean], workers: 1..3, limit: {5, 2}, seed: {0}, fast: {FALSE},
     global: {Buffer}]
    \cup
    [prog: [Cta -> {<<Load(0, 1)>>, <<I("alu")>>}] \cup {Seeded}, workers: 1..3,
     limit: {5}, seed: {1}, fast: {FALSE}, global: {Buffer}]
    \cup
    [prog: {p \in [Cta -> Clean \cup Faulty] : \E c \in Cta : p[c] \in Faulty},
     workers: {1, 2}, limit: {4}, seed: {0}, fast: {FALSE}, global: {Buffer}]
    \cup
    [prog: {[c \in Cta |-> <<Load(0, 1)>>]}, workers: 1..3, limit: {4}, seed: {0},
     fast: {TRUE}, global: {Buffer}]
    \cup
    [prog: {Counter} \cup Reductions \cup WildKernels, workers: 1..3, limit: {5},
     seed: {0}, fast: {FALSE}, global: {Buffer}]
    \cup
    [prog: WildKernels, workers: {1}, limit: {5}, seed: {0}, fast: {FALSE}, global: {<<>>}]

\* Kernels whose CTAs trap after different numbers of instructions.
TrapLaunches ==
    [prog: [Cta -> {<<I("trap")>>, <<I("alu"), I("trap")>>}], workers: {3},
     limit: {4}, seed: {0}, fast: {FALSE}, global: {Buffer}]
=============================================================================
