---------------------------- MODULE RaceDetector ----------------------------
(***************************************************************************)
(* The data-race detector (race_detector.cpp, hb_clock.cpp): one vector    *)
(* clock per lane, a map of shadow intervals that remember the last writer *)
(* and the readers since, and the release records of atomics.  `hist' is   *)
(* no state of the detector: it is the sequence of calls made so far, from *)
(* which the happens-before order that the detector approximates is        *)
(* defined (module RaceHistory).                                           *)
(***************************************************************************)
EXTENDS Integers, Sequences, FiniteSets

CONSTANTS
    Lane,        \* the actors (RaceActor)
    WarpOf,      \* lane |-> its warp, unique over the launch
    CtaOf,       \* lane |-> its CTA
    SmOf,        \* lane |-> its SM
    Alloc,       \* global allocation ids
    Uses         \* the uses made of the detector: the operations that lanes
                 \* perform, the other kinds of calls, a bound on the calls

Space == {"shared", "global"}

Order == {"relaxed", "acquire", "release", "acq_rel", "mmio"}

KnownScope == {"", "nosco", "cta", "sm", "vc", "gpu", "sys"}

Scope == KnownScope \cup {"other"}

Op == [space: Space, alloc: Alloc, lo: Nat, hi: Nat, is_write: BOOLEAN,
       is_atomic: BOOLEAN, mem_order: Order, scope: Scope]

CallKind == {"barrier", "fence", "launch", "reclaim_cta", "reclaim_allocation"}

ASSUME RaceAssumption ==
    /\ WarpOf \in [Lane -> Nat]
    /\ CtaOf \in [Lane -> Nat]
    /\ SmOf \in [Lane -> Nat]
    /\ \A a, b \in Lane : WarpOf[a] = WarpOf[b] => CtaOf[a] = CtaOf[b]
    /\ Uses \subseteq [ops: SUBSET Op, kinds: SUBSET CallKind, events: Nat]
    /\ \A u \in Uses : \A o \in u.ops :
         o.lo < o.hi /\ (o.is_atomic => o.is_write)

VARIABLES
    clocks,          \* lane |-> its vector clock
    release_clocks,  \* the release records, with the location they were made at
    shadow,          \* the shadow intervals of all domains
    generations,     \* allocation |-> generation
    reports,         \* the reports, one per key
    executed,        \* per CTA: the last instruction number among its accesses
    use,             \* the use made of the detector
    hist             \* the calls so far

detector == <<clocks, release_clocks, shadow, generations, reports>>

vars == <<detector, executed, use, hist>>

Warps == {WarpOf[a] : a \in Lane}

LanesOf(ws) == {a \in Lane : WarpOf[a] \in ws}

-----------------------------------------------------------------------------
(* Vector clocks: an absent entry of the sparse map is epoch 0.            *)

Clock == [Lane -> Nat]

Bottom == [a \in Lane |-> 0]

tick(c, a) == [c EXCEPT ![a] = @ + 1]

\* The least clock that knows everything some clock of S knows.
MergeAll(c, S) ==
    [a \in Lane |-> CHOOSE n \in {d[a] : d \in S \cup {c}} :
                        \A d \in S \cup {c} : d[a] <= n]

dominates(c, d) == \A a \in Lane : d[a] <= c[a]

-----------------------------------------------------------------------------
(* Accesses.  The key of a shadow domain is the CTA for shared memory, the *)
(* allocation and its generation for global memory.                        *)

Access == [actor: Lane, instruction: Nat, space: Space, domain: Alloc \cup Nat,
           generation: Nat, lo: Nat, hi: Nat, is_write: BOOLEAN,
           is_atomic: BOOLEAN, mem_order: Order, scope: Scope]

MakeAccess(a, n, o) ==
    [actor |-> a, instruction |-> n, space |-> o.space,
     domain |-> IF o.space = "shared" THEN CtaOf[a] ELSE o.alloc,
     generation |-> IF o.space = "shared" THEN 0 ELSE generations[o.alloc],
     lo |-> o.lo, hi |-> o.hi, is_write |-> o.is_write,
     is_atomic |-> o.is_atomic, mem_order |-> o.mem_order, scope |-> o.scope]

Domain(acc) == <<acc.space, acc.domain, acc.generation>>

Overlap(x, y) == x.lo < y.hi /\ y.lo < x.hi

SameRange(x, y) == x.lo = y.lo /\ x.hi = y.hi

is_release_order(o) == o \in {"release", "acq_rel"}

is_acquire_order(o) == o \in {"acquire", "acq_rel"}

classify_order_scope(o, s) ==
    \/ o = "relaxed"
    \/ o \in {"acquire", "release", "acq_rel"} /\ s \in KnownScope

SyncOp(acc) == acc.is_atomic /\ classify_order_scope(acc.mem_order, acc.scope)

key_of(acc) == <<Domain(acc), acc.lo, acc.hi>>

scope_visible(s, op, other) ==
    \/ s \in {"sys", "gpu", "vc"}
    \/ s = "sm" /\ SmOf[op] = SmOf[other]
    \/ s \in {"cta", "nosco"} /\ CtaOf[op] = CtaOf[other]

MorallyStrong(s1, a1, s2, a2) ==
    scope_visible(s1, a1, a2) /\ scope_visible(s2, a2, a1)

\* Mutant: program order of the CTA instead of the warp.
happens_before_cta(prior, priorClock, current, currentClock) ==
    IF CtaOf[prior.actor] = CtaOf[current.actor]
    THEN prior.instruction < current.instruction
    ELSE dominates(currentClock, priorClock)

happens_before(prior, priorClock, current, currentClock) ==
    IF WarpOf[prior.actor] = WarpOf[current.actor]
    THEN prior.instruction < current.instruction
    ELSE dominates(currentClock, priorClock)

-----------------------------------------------------------------------------
(* Shadow intervals.  writer holds at most one entry; an entry is an access*)
(* with the clock its lane had at the access.                              *)

Entry == [acc: Access, clock: Clock]

Interval == [dom: Space \X (Alloc \cup Nat) \X Nat, lo: Nat, hi: Nat,
             writer: SUBSET Entry, readers: SUBSET Entry]

Overlapped(acc) ==
    {iv \in shadow : iv.dom = Domain(acc) /\ Overlap(iv, acc)}

ob(iv, acc) == IF acc.lo < iv.lo THEN iv.lo ELSE acc.lo

oe(iv, acc) == IF iv.hi < acc.hi THEN iv.hi ELSE acc.hi

\* The entries of one interval that the new access races with.
check_interval(acc, clock, iv) ==
    {e \in iv.writer :
        /\ ~(e.acc.is_atomic /\ acc.is_atomic /\ SameRange(e.acc, acc))
        /\ ~happens_before(e.acc, e.clock, acc, clock)}
    \cup
    {e \in iv.readers :
        /\ acc.is_write
        /\ ~happens_before(e.acc, e.clock, acc, clock)
        \* a reader's report has the key of the writer's when both are one lane
        /\ \A w \in iv.writer : w.acc.actor = e.acc.actor =>
              \/ w.acc.is_atomic /\ acc.is_atomic /\ SameRange(w.acc, acc)
              \/ happens_before(w.acc, w.clock, acc, clock)}

dedup_key(first, second, iv) ==
    <<{first.actor, second.actor}, ob(iv, second), oe(iv, second), second.space>>

report(acc, clock) ==
    LET found == UNION { { [key |-> dedup_key(e.acc, acc, iv), first |-> e.acc,
                            second |-> acc] :
                             e \in check_interval(acc, clock, iv) } :
                         iv \in Overlapped(acc) }
    IN  {r \in found : \A old \in reports : old.key # r.key}

Heads(acc) == { [iv EXCEPT !.hi = ob(iv, acc)] :
                  iv \in {x \in Overlapped(acc) : x.lo < acc.lo} }

\* Mutant: the part of an interval behind the access forgets its readers.
Tails_unread(acc) == { [iv EXCEPT !.lo = oe(iv, acc), !.readers = {}] :
                         iv \in {x \in Overlapped(acc) : acc.hi < x.hi} }

Tails(acc) == { [iv EXCEPT !.lo = oe(iv, acc)] :
                  iv \in {x \in Overlapped(acc) : acc.hi < x.hi} }

Covered(acc, me) ==
    { [dom |-> iv.dom, lo |-> ob(iv, acc), hi |-> oe(iv, acc),
       writer  |-> IF acc.is_write THEN {me} ELSE iv.writer,
       readers |-> IF acc.is_write THEN {}
                   ELSE {r \in iv.readers : r.acc.actor # acc.actor} \cup {me}] :
      iv \in Overlapped(acc) }

\* The parts of the access that no interval covered.
Gaps(acc, me) ==
    { [dom |-> Domain(acc), lo |-> g[1], hi |-> g[2],
       writer  |-> IF acc.is_write THEN {me} ELSE {},
       readers |-> IF acc.is_write THEN {} ELSE {me}] :
      g \in {g \in ({acc.lo} \cup {oe(iv, acc) : iv \in Overlapped(acc)})
                   \X ({acc.hi} \cup {ob(iv, acc) : iv \in Overlapped(acc)}) :
               /\ g[1] < g[2]
               /\ \A iv \in Overlapped(acc) : g[2] <= iv.lo \/ iv.hi <= g[1]} }

Split(acc, me) ==
    (shadow \ Overlapped(acc))
        \cup Heads(acc) \cup Tails(acc) \cup Covered(acc, me) \cup Gaps(acc, me)

-----------------------------------------------------------------------------
(* The operations.                                                         *)

\* observe: the effect of an access on the shadow and the reports.
Record(acc, clock) ==
    /\ reports' = reports \cup report(acc, clock)
    /\ shadow' = Split(acc, [acc |-> acc, clock |-> clock])
    /\ UNCHANGED generations

observe(acc) ==
    LET clock == tick(clocks[acc.actor], acc.actor) IN
    /\ Record(acc, clock)
    /\ clocks' = [clocks EXCEPT ![acc.actor] = clock]
    /\ UNCHANGED release_clocks

\* The releases an acquire of acc by its lane may read.
VisibleReleases(acc, records) ==
    {r \in records :
        /\ r.key = key_of(acc)
        /\ MorallyStrong(r.scope, r.actor, acc.scope, acc.actor)}

atomic_rmw(acc) ==
    LET a     == acc.actor
        clock == tick(clocks[a], a)
        released ==
            IF SyncOp(acc) /\ is_release_order(acc.mem_order)
            THEN release_clocks \cup {[key |-> key_of(acc), actor |-> a,
                                       scope |-> acc.scope, clock |-> clock]}
            ELSE release_clocks
        acquired ==
            IF SyncOp(acc) /\ is_acquire_order(acc.mem_order)
            THEN {r.clock : r \in VisibleReleases(acc, released)}
            ELSE {}
    IN  /\ Record(acc, clock)
        /\ release_clocks' = released
        /\ clocks' = [clocks EXCEPT ![a] = MergeAll(clock, acquired)]

\* Mutant: a barrier orders the lanes of each warp among themselves only.
cta_barrier_warp(ws) ==
    /\ clocks' = [a \in Lane |->
                    IF WarpOf[a] \in ws
                    THEN MergeAll(clocks[a], {clocks[b] : b \in LanesOf({WarpOf[a]})})
                    ELSE clocks[a]]
    /\ UNCHANGED <<release_clocks, shadow, generations, reports>>

\* cta_barrier and named_barrier: the lanes of the warps share what they know.
cta_barrier(ws) ==
    /\ clocks' = [a \in Lane |->
                    IF WarpOf[a] \in ws
                    THEN MergeAll(clocks[a], {clocks[b] : b \in LanesOf(ws)})
                    ELSE clocks[a]]
    /\ UNCHANGED <<release_clocks, shadow, generations, reports>>

\* fence: materialises the clocks of the warp, which changes no epoch.
fence == UNCHANGED detector

\* Mutant: a launch resets the clocks and keeps the shadow of the last one.
launch_shadowed ==
    /\ clocks' = [a \in Lane |-> Bottom]
    /\ release_clocks' = {}
    /\ UNCHANGED <<shadow, generations, reports>>

launch ==
    /\ clocks' = [a \in Lane |-> Bottom]
    /\ release_clocks' = {}
    /\ shadow' = {}
    /\ UNCHANGED <<generations, reports>>

reclaim_cta(c) ==
    /\ shadow' = {iv \in shadow : ~(iv.dom[1] = "shared" /\ iv.dom[2] = c)}
    /\ clocks' = [a \in Lane |-> IF CtaOf[a] = c THEN Bottom ELSE clocks[a]]
    /\ release_clocks' =
          {r \in release_clocks : ~(r.key[1][1] = "shared" /\ r.key[1][2] = c)}
    /\ UNCHANGED <<generations, reports>>

reclaim_allocation(id) ==
    /\ generations' = [generations EXCEPT ![id] = @ + 1]
    /\ shadow' = {iv \in shadow : ~(iv.dom[1] = "global" /\ iv.dom[2] = id)}
    /\ release_clocks' =
          {r \in release_clocks : ~(r.key[1][1] = "global" /\ r.key[1][2] = id)}
    /\ UNCHANGED <<clocks, reports>>

=============================================================================
