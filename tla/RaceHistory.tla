----------------------------- MODULE RaceHistory -----------------------------
(***************************************************************************)
(* The race detector with the calls made to it in the order in which the   *)
(* accesses happen, and the happens-before order of those calls as         *)
(* race_detector.hpp defines it: program order of a lane and of a warp,    *)
(* barriers, releases read by acquires, and the kernel boundary.           *)
(***************************************************************************)
EXTENDS RaceDetector

CONSTANT BarrierSets   \* the sets of warps that meet at barriers

\* The warp that completes a barrier takes part in it.
ASSUME BarrierAssumption == {} \notin BarrierSets

Ctas == {CtaOf[a] : a \in Lane}

Init ==
    /\ clocks = [a \in Lane |-> Bottom]
    /\ release_clocks = {}
    /\ shadow = {}
    /\ generations = [id \in Alloc |-> 0]
    /\ reports = {}
    /\ executed = [c \in Ctas |-> 0]
    /\ use \in Uses
    /\ hist = <<>>

Accesses == {i \in 1..Len(hist) : hist[i].kind = "access"}

SinceLaunch ==
    {i \in 1..Len(hist) : \A j \in i..Len(hist) : hist[j].kind # "launch"}

\* A CTA whose end was announced makes no calls before the next launch.
Running(c) ==
    \A i \in SinceLaunch : hist[i].kind = "reclaim_cta" => hist[i].cta # c

\* A call belongs to a new instruction, or is made by a further lane of the
\* instruction that made the last call.
Instructions(a, o) ==
    {executed[CtaOf[a]] + 1} \cup
    {n \in {executed[CtaOf[a]]} :
        /\ hist # <<>>
        /\ hist[Len(hist)].kind = "access"
        /\ LET last == hist[Len(hist)].acc IN
             /\ WarpOf[last.actor] = WarpOf[a]
             /\ last.is_write = o.is_write /\ last.is_atomic = o.is_atomic
             /\ last.mem_order = o.mem_order /\ last.scope = o.scope
             /\ last.space = o.space
        /\ \A i \in Accesses : hist[i].acc.instruction = n => hist[i].acc.actor # a}

Called(e) ==
    /\ Len(hist) < use.events
    /\ e.kind \in use.kinds \cup {"access"}
    /\ UNCHANGED use
    /\ hist' = Append(hist, e)

Observe(a, o) ==
    /\ ~o.is_atomic
    /\ Running(CtaOf[a])
    /\ \E n \in Instructions(a, o) :
         /\ observe(MakeAccess(a, n, o))
         /\ executed' = [executed EXCEPT ![CtaOf[a]] = n]
         /\ Called([kind |-> "access", acc |-> MakeAccess(a, n, o)])

AtomicRmw(a, o) ==
    /\ o.is_atomic
    /\ Running(CtaOf[a])
    /\ \E n \in Instructions(a, o) :
         /\ atomic_rmw(MakeAccess(a, n, o))
         /\ executed' = [executed EXCEPT ![CtaOf[a]] = n]
         /\ Called([kind |-> "access", acc |-> MakeAccess(a, n, o)])

\* The warps are those of lanes of one CTA.
Meet(c, ws) == \A w \in ws : \E a \in Lane : WarpOf[a] = w /\ CtaOf[a] = c

Barrier(c, ws) ==
    /\ Running(c)
    /\ Meet(c, ws)
    /\ cta_barrier(ws)
    /\ Called([kind |-> "barrier", warps |-> ws])
    /\ UNCHANGED executed

Fence(w) ==
    /\ \A a \in LanesOf({w}) : Running(CtaOf[a])
    /\ fence
    /\ Called([kind |-> "fence", warps |-> {w}])
    /\ UNCHANGED executed

Launch ==
    /\ launch
    /\ Called([kind |-> "launch"])
    /\ UNCHANGED executed

ReclaimCta(c) ==
    /\ Running(c)
    /\ reclaim_cta(c)
    /\ Called([kind |-> "reclaim_cta", cta |-> c])
    /\ UNCHANGED executed

ReclaimAllocation(id) ==
    /\ reclaim_allocation(id)
    /\ Called([kind |-> "reclaim_allocation", id |-> id])
    /\ UNCHANGED executed

Next ==
    \/ \E a \in Lane, o \in use.ops : Observe(a, o) \/ AtomicRmw(a, o)
    \/ \E c \in Ctas, ws \in BarrierSets : Barrier(c, ws)
    \/ \E w \in Warps : Fence(w)
    \/ Launch
    \/ \E c \in Ctas : ReclaimCta(c)
    \/ \E id \in Alloc : ReclaimAllocation(id)

Spec == Init /\ [][Next]_vars

-----------------------------------------------------------------------------
(* Happens-before over the calls.                                          *)

Participants(e) ==
    CASE e.kind = "access" -> {WarpOf[e.acc.actor]}
      [] e.kind \in {"barrier", "fence"} -> e.warps
      [] OTHER -> {}

SameInstruction(d, e) ==
    /\ d.kind = "access" /\ e.kind = "access"
    /\ d.acc.instruction = e.acc.instruction

\* An acquire reads the releases made before it at its location, when the
\* scope of each of the two includes the lane of the other.
SynchronizesWith(d, e) ==
    /\ d.kind = "access" /\ e.kind = "access"
    /\ SyncOp(d.acc) /\ SyncOp(e.acc)
    /\ is_release_order(d.acc.mem_order) /\ is_acquire_order(e.acc.mem_order)
    /\ key_of(d.acc) = key_of(e.acc)
    /\ MorallyStrong(d.acc.scope, d.acc.actor, e.acc.scope, e.acc.actor)

DirectlyBefore(d, e) ==
    \/ "launch" \in {d.kind, e.kind}
    \/ Participants(d) \cap Participants(e) # {} /\ ~SameInstruction(d, e)
    \/ SynchronizesWith(d, e)

\* The transitive closure: j is in every set that holds what comes directly after
\* i and directly after its own members.
HappensBefore(h, i, j) ==
    \A S \in SUBSET ((i + 1)..Len(h)) :
        (\A k \in S \cup {i} : \A l \in (k + 1)..Len(h) :
             DirectlyBefore(h[k], h[l]) => l \in S) => j \in S

-----------------------------------------------------------------------------
(* The part of happens-before that clocks can carry, which are kept per    *)
(* lane: what one lane of a warp did reaches the other lanes by a barrier, *)
(* and happens_before itself compares the accesses of one warp by the      *)
(* numbers of their instructions.                                          *)

\* The calls that say something about lane a: a fence moves no epoch.
Acts(a, d) ==
    \/ d.kind = "access" /\ d.acc.actor = a
    \/ d.kind = "barrier" /\ WarpOf[a] \in d.warps

LaneBefore(d, e) ==
    \/ "launch" \in {d.kind, e.kind}
    \/ \E a \in Lane : Acts(a, d) /\ Acts(a, e)
    \/ SynchronizesWith(d, e)

Sealed(h, i, S) ==
    \A k \in S \cup {i} : \A l \in (k + 1)..Len(h) : LaneBefore(h[k], h[l]) => l \in S

LaneOrdered(h, i, j) == \A S \in SUBSET ((i + 1)..Len(h)) : Sealed(h, i, S) => j \in S

\* Program order of a warp.
WarpOrdered(h, i, j) ==
    /\ i < j
    /\ WarpOf[h[i].acc.actor] = WarpOf[h[j].acc.actor]
    /\ h[i].acc.instruction # h[j].acc.instruction

Ordered(h, i, j) == WarpOrdered(h, i, j) \/ LaneOrdered(h, i, j)

\* Where this is all of happens-before between accesses: the lanes of a warp meet
\* before one of them releases what the others did, and after one of them acquires
\* for the others.  So it is with one lane per warp, and with a barrier next to the
\* release or acquire of one thread.
WarpsMeetAtFlags ==
    \A k, l \in Accesses :
        k < l /\ SynchronizesWith(hist[k], hist[l]) =>
            \A i \in Accesses :
                /\ WarpOrdered(hist, i, k) => LaneOrdered(hist, i, k)
                /\ WarpOrdered(hist, l, i) => LaneOrdered(hist, l, i)

-----------------------------------------------------------------------------
(* Races, and what the shadow has to remember of a byte.                   *)

Conflict(x, y) ==
    /\ x.is_write \/ y.is_write
    /\ Domain(x) = Domain(y) /\ Overlap(x, y)
    /\ ~(x.is_atomic /\ y.is_atomic /\ SameRange(x, y))

\* Pairs of accesses of a history that race.
RacesOf(h) ==
    {p \in (1..Len(h)) \X (1..Len(h)) :
        /\ p[1] < p[2]
        /\ h[p[1]].kind = "access" /\ h[p[2]].kind = "access"
        /\ Conflict(h[p[1]].acc, h[p[2]].acc)
        /\ ~HappensBefore(h, p[1], p[2])}

\* The accesses to byte b of domain d that no launch or reclaim has forgotten.
Live(d, b) ==
    {i \in Accesses \cap SinceLaunch :
        /\ Domain(hist[i].acc) = d
        /\ hist[i].acc.lo <= b /\ b < hist[i].acc.hi
        /\ d[1] = "shared" => Running(d[2])
        /\ d[1] = "global" => d[3] = generations[d[2]]}

LastWrites(d, b) ==
    {i \in Live(d, b) : /\ hist[i].acc.is_write
                        /\ \A j \in Live(d, b) : hist[j].acc.is_write => j <= i}

LastReads(d, b) ==
    {i \in Live(d, b) : /\ ~hist[i].acc.is_write
                        /\ \A j \in Live(d, b) :
                             \/ hist[j].acc.is_write
                             \/ hist[j].acc.actor = hist[i].acc.actor
                             => j <= i}

-----------------------------------------------------------------------------
(* Properties.                                                             *)

\* race_detector.hpp: "two overlapping byte ranges with at least one write race
\* unless happens-before is provable".  No report names two accesses of one warp that
\* belong to different instructions, or two that program order of the lanes, barriers,
\* releases read by acquires and launches put one after the other; and none names two
\* that happen one before the other, if warps meet before their releases and after
\* their acquires.
NoFalseAlarm ==
    \A r \in reports : \A i, j \in Accesses :
        hist[i].acc = r.first /\ hist[j].acc = r.second =>
            /\ ~Ordered(hist, i, j) /\ ~Ordered(hist, j, i)
            /\ WarpsMeetAtFlags =>
                  ~HappensBefore(hist, i, j) /\ ~HappensBefore(hist, j, i)

\* The converse: a byte on which two accesses race is named by a report.  (The
\* detector keeps the last writer and the readers since, so of several races on
\* a byte it promises one.)
NoMissedRace ==
    \A p \in RacesOf(hist) :
        LET x == hist[p[1]].acc  y == hist[p[2]].acc IN
        \A b \in {b \in x.lo..(x.hi - 1) : y.lo <= b /\ b < y.hi} :
            \E r \in reports : /\ Domain(r.second) = Domain(x)
                               /\ r.key[2] <= b /\ b < r.key[3]

\* Where the first of these holds without exception: a release that an acq_rel
\* operation acquires is visible to whoever acquires the release of that operation.
ScopesCompose ==
    \A u \in Uses : \A o, p, q \in {x \in u.ops : x.is_atomic} :
        p.mem_order = "acq_rel" =>
            \A a, b, c \in Lane :
                /\ MorallyStrong(o.scope, a, p.scope, b)
                /\ MorallyStrong(p.scope, b, q.scope, c)
                => MorallyStrong(o.scope, a, q.scope, c)

\* Where the second does: the bytes of an atomic are accessed by equal atomics only
\* (two atomics exempt each other, and the detector keeps the second), and offsets
\* tell locations apart (a report has no allocation in its key).
AtomicsApart ==
    \A o, p \in use.ops :
        o.is_atomic /\ o.space = p.space /\ Overlap(o, p) => p.is_atomic /\ SameRange(o, p)

OffsetsTell ==
    /\ "reclaim_allocation" \notin use.kinds
    /\ \A o, p \in use.ops : o.space = "global" /\ p.space = "global" => o.alloc = p.alloc

IntervalsDisjoint ==
    /\ shadow \subseteq Interval
    /\ \A iv \in shadow : iv.lo < iv.hi
    /\ \A iv, jv \in shadow : iv.dom = jv.dom /\ Overlap(iv, jv) => iv = jv

\* Whatever order accesses cut the interval map in, no byte lies in two intervals
\* (the map of race_detector.cpp is keyed by the first byte only), and of every
\* byte it remembers the last write and each lane's last read since.
ShadowExact ==
    /\ IntervalsDisjoint
    /\ \A iv \in shadow : \A b \in iv.lo..(iv.hi - 1) :
          /\ {e.acc : e \in iv.writer} = {hist[i].acc : i \in LastWrites(iv.dom, b)}
          /\ {e.acc : e \in iv.readers} = {hist[i].acc : i \in LastReads(iv.dom, b)}
    /\ \A i \in Accesses : LET acc == hist[i].acc IN
          \A b \in acc.lo..(acc.hi - 1) :
             i \in Live(Domain(acc), b) =>
                \E iv \in shadow : iv.dom = Domain(acc) /\ iv.lo <= b /\ b < iv.hi

\* Every clock there is: of the lanes, the releases and the shadow entries.
Entries == UNION {iv.writer \cup iv.readers : iv \in shadow}

Known == {clocks[b] : b \in Lane} \cup {r.clock : r \in release_clocks}
             \cup {e.clock : e \in Entries}

\* Nobody knows more of a running lane than the lane itself.
NoClockAhead ==
    \A a \in Lane : Running(CtaOf[a]) => \A c \in Known : c[a] <= clocks[a][a]

\* A call by lane a itself.
CallBy(a, d) ==
    \/ d.kind = "access" /\ d.acc.actor = a
    \/ d.kind \in {"barrier", "fence"} /\ WarpOf[a] \in d.warps

\* The access acc is a call of lane a, or happens before one.
Learned(a, acc) ==
    \E i, k \in 1..Len(hist) :
        /\ hist[i].kind = "access" /\ hist[i].acc = acc
        /\ CallBy(a, hist[k])
        /\ i = k \/ HappensBefore(hist, i, k)

\* An epoch handed out by tick was never seen before, although lanes, launches and
\* CTAs restart at 0; the comparison of whole clocks in happens_before loses
\* nothing: whoever knows the epoch of an access knows everything its lane knew at
\* the access; and no clock claims too much: a lane knows the epoch of an access
\* only when the access happens before a call of the lane.
EpochsExact ==
    /\ NoClockAhead
    /\ \A e \in Entries : \A a \in Lane :
         e.clock[e.acc.actor] <= clocks[a][e.acc.actor] => Learned(a, e.acc)
    /\ \A e \in Entries : \A c \in Known :
         e.clock[e.acc.actor] <= c[e.acc.actor] => dominates(c, e.clock)

=============================================================================
