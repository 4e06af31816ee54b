------------------------------ MODULE L2Events ------------------------------
(***************************************************************************)
(* The L2 event engine (l2_events.cpp): an access to global memory becomes *)
(* one request per sector it touches; draining completes every pending     *)
(* request once, in an order that is fixed without a seed and a            *)
(* permutation drawn from the generator with one.  An engine is used for   *)
(* one launch: all requests are issued, then it is drained once.           *)
(*                                                                         *)
(* A log is the set of the descriptors of the accesses; no two have the    *)
(* same CTA and ordinal.  A request is told by its number.                 *)
(***************************************************************************)
EXTENDS SequencesExt, Ordered

CONSTANT SectorBytes   \* 128

ASSUME SectorAssumption == SectorBytes \in Nat \ {0}

\* The sectors of the bytes of an access.
Sectors(addr, len) ==
    IF len = 0 THEN {} ELSE (addr \div SectorBytes)..((addr + len - 1) \div SectorBytes)

\* Mutant: the ordinal decides before the CTA.
InLogOrder_ordinal(d, e) ==
    d.ordinal < e.ordinal \/ (d.ordinal = e.ordinal /\ d.cta < e.cta)

\* The order in which the descriptors of a launch are given to the engine.
InLogOrder(d, e) ==
    d.cta < e.cta \/ (d.cta = e.cta /\ d.ordinal < e.ordinal)

\* The sectors of the accesses of a log, and their order: access by access, and
\* ascending for one access.
Touched(log) == UNION {{d} \X Sectors(d.addr, d.len) : d \in log}

IssuedBefore(log) ==
    {pair \in Touched(log) \X Touched(log) :
       LET p == pair[1]
           q == pair[2]
       IN  InLogOrder(p[1], q[1]) \/ (p[1] = q[1] /\ p[2] < q[2])}

\* issue_global for the accesses of a log, one after the other: the requests are
\* numbered from 1, one for each sector of an access.
issue_global(log) ==
    {[cta |-> p[1].cta, sm |-> p[1].sm, ordinal |-> p[1].ordinal, sector |-> p[2],
      request |-> Rank(Touched(log), IssuedBefore(log), p) + 1] : p \in Touched(log)}

\* The order of the requests themselves.
InTurn(requests) ==
    InOrder(requests, {p \in requests \X requests : p[1].request < p[2].request})

\* The order of completions without a seed.
CompletesBefore(r, q) ==
    \/ r.sector < q.sector
    \/ r.sector = q.sector /\ r.sm < q.sm
    \/ r.sector = q.sector /\ r.sm = q.sm /\ r.request < q.request

\* The orders in which the pending requests may complete.  The generator
\* behind a seed is not modelled: it yields some permutation.
Schedules(pending, seed) ==
    IF seed = 0
      THEN {InOrder(pending, {p \in pending \X pending : CompletesBefore(p[1], p[2])})}
      ELSE {s \in [1..Cardinality(pending) -> pending] :
              \A i, j \in DOMAIN s : s[i] = s[j] => i = j}

\* The events of requests; first is the number of the event before them.
L2Event(kind, first, requests) ==
    [n \in DOMAIN requests |->
       [kind |-> kind, id |-> first + n, parent |-> 0, cta |-> requests[n].cta,
        ordinal |-> requests[n].ordinal, sector |-> requests[n].sector,
        request |-> requests[n].request]]

\* Every pending request completes; the engine goes on counting its events.
drain_completions(issued, schedule) == L2Event("completion", issued, schedule)

=============================================================================
