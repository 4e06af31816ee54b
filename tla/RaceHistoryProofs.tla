------------------------- MODULE RaceHistoryProofs -------------------------
(***************************************************************************)
(* Proofs about the race detector for every number of lanes, warps, CTAs   *)
(* and allocations and every sequence of calls: epochs are exact, the      *)
(* shadow remembers the last write and the reads since of every byte, no   *)
(* alarm is false and no race is missed where the detector can tell.       *)
(***************************************************************************)
EXTENDS RaceHistory, WellFoundedInduction, SequenceTheorems, TLAPS

-----------------------------------------------------------------------------
(* Bounded sets of numbers have a greatest element.                        *)

LEMMA Least ==
    ASSUME NEW S, S \subseteq Nat, S # {}
    PROVE  \E x \in S : \A y \in S : x <= y
<1> DEFINE R == {p \in Nat \X Nat : p[1] < p[2]}
<1>1. IsWellFoundedOn(R, Nat)
  BY NatLessThanWellFounded DEF OpToRel
<1>2. PICK x \in S : \A y \in S : ~(<<y, x>> \in R)
  <2> HIDE DEF R
  <2>1. QED
    BY <1>1, WFMin
<1>3. ASSUME NEW y \in S PROVE x <= y
  <2>1. x \in Nat /\ y \in Nat /\ <<y, x>> \in Nat \X Nat
    OBVIOUS
  <2>2. ~(y < x)
    BY <1>2, <2>1
  <2>3. QED
    BY <2>1, <2>2
<1>4. QED
  BY <1>3

LEMMA Greatest ==
    ASSUME NEW S, S \subseteq Nat, S # {}, NEW n \in Nat, \A x \in S : x <= n
    PROVE  \E x \in S : \A y \in S : y <= x
<1> DEFINE U == {u \in Nat : \A x \in S : x <= u}
<1>1. U # {} /\ U \subseteq Nat
  OBVIOUS
<1>2. PICK u \in U : \A v \in U : u <= v
  <2> HIDE DEF U
  <2>1. QED
    BY <1>1, Least
<1>3. u \in Nat /\ \A x \in S : x \in Nat /\ x <= u
  OBVIOUS
<1>4. u \in S
  <2> SUFFICES ASSUME u \notin S PROVE FALSE
    OBVIOUS
  <2>1. \A x \in S : x \in Nat /\ x <= u - 1
    BY <1>3
  <2>2. PICK x : x \in S
    OBVIOUS
  <2>3. u - 1 \in Nat
    BY <1>3, <2>1, <2>2
  <2>4. u <= u - 1
    BY <1>2, <2>1, <2>3
  <2>5. QED
    BY <1>3, <2>4
<1>5. QED
  BY <1>3, <1>4

-----------------------------------------------------------------------------
(* Vector clocks.                                                          *)

\* No clock of K has an epoch above n.
Bounded(K, n) == \A c \in K : c \in Clock /\ \A a \in Lane : c[a] <= n

\* Some clock of K has the epoch n of lane a.
Attained(K, a, n) == \E c \in K : n = c[a]

\* The merged clock is a clock, an upper bound, and takes each epoch from one of
\* the merged.
LEMMA MergeProperties ==
    ASSUME NEW c, NEW S, NEW D, D = S \cup {c}, NEW n \in Nat, Bounded(D, n),
           NEW m, m = MergeAll(c, S)
    PROVE  /\ m \in Clock
           /\ \A d \in D : dominates(m, d)
           /\ \A a \in Lane : Attained(D, a, m[a])
<1> DEFINE T(a) == {d[a] : d \in S \cup {c}}
<1>1. ASSUME NEW a \in Lane
      PROVE  /\ m[a] \in T(a) /\ \A d \in S \cup {c} : d[a] <= m[a]
             /\ m[a] \in Nat
  <2>1. T(a) \subseteq Nat /\ T(a) # {} /\ \A x \in T(a) : x <= n
    BY DEF Bounded, Clock
  <2>2. \E x \in T(a) : \A y \in T(a) : y <= x
    <3> HIDE DEF T
    <3>1. QED
      BY <2>1, Greatest
  <2>3. \E x \in T(a) : \A d \in S \cup {c} : d[a] <= x
    BY <2>2
  <2>4. m[a] = CHOOSE x \in T(a) : \A d \in S \cup {c} : d[a] <= x
    BY DEF MergeAll
  <2> HIDE DEF T
  <2>5. m[a] \in T(a) /\ \A d \in S \cup {c} : d[a] <= m[a]
    BY <2>3, <2>4
  <2>6. QED
    BY <2>1, <2>5
<1>2. m = [a \in Lane |-> m[a]]
  BY DEF MergeAll
<1>3. m \in Clock
  BY <1>1, <1>2 DEF Clock
<1>4. \A d \in S \cup {c} : dominates(m, d)
  BY <1>1 DEF dominates
<1>5. \A a \in Lane : Attained(S \cup {c}, a, m[a])
  BY <1>1 DEF Attained
<1>6. QED
  BY <1>3, <1>4, <1>5

\* Whoever in K knows the epoch of an entry of E knows its whole clock.
Exact(E, K) ==
    \A e \in E : \A c \in K :
        e.clock[e.acc.actor] <= c[e.acc.actor] => dominates(c, e.clock)

Entered(E) ==
    \A e \in E : /\ e.acc.actor \in Lane /\ e.clock \in Clock
                 /\ e.clock[e.acc.actor] >= 1

LEMMA DominatesTransitive ==
    ASSUME NEW c \in Clock, NEW d \in Clock, NEW e \in Clock,
           dominates(c, d), dominates(d, e)
    PROVE  dominates(c, e)
<1>1. \A a \in Lane : c[a] \in Nat /\ d[a] \in Nat /\ e[a] \in Nat
  BY DEF Clock
<1>2. QED
  BY <1>1 DEF dominates

LEMMA MergeExact ==
    ASSUME NEW E, NEW K, NEW n \in Nat, Entered(E), Exact(E, K), Bounded(K, n),
           NEW c \in K, NEW S, S \subseteq K, NEW m, m = MergeAll(c, S)
    PROVE  /\ m \in Clock /\ \A a \in Lane : m[a] <= n
           /\ Exact(E, {m})
<1> DEFINE D == S \cup {c}
<1>1. D \subseteq K /\ Bounded(D, n) /\ D = S \cup {c}
  BY DEF Bounded
<1> HIDE DEF D
<1>2. /\ m \in Clock
      /\ \A d \in D : dominates(m, d)
      /\ \A a \in Lane : Attained(D, a, m[a])
  BY <1>1, MergeProperties
<1>3. \A a \in Lane : m[a] <= n
  BY <1>1, <1>2 DEF Bounded, Attained
<1>4. ASSUME NEW e \in E, e.clock[e.acc.actor] <= m[e.acc.actor]
      PROVE  dominates(m, e.clock)
  <2>1. e.acc.actor \in Lane /\ e.clock \in Clock
    BY DEF Entered
  <2>2. PICK d \in D : m[e.acc.actor] = d[e.acc.actor]
    BY <1>2, <2>1 DEF Attained
  <2>3. d \in K /\ d \in Clock /\ dominates(d, e.clock)
    BY <1>1, <1>4, <2>2 DEF Exact, Bounded
  <2>4. QED
    BY <1>2, <2>1, <2>3, DominatesTransitive
<1>5. QED
  BY <1>2, <1>3, <1>4 DEF Exact

-----------------------------------------------------------------------------
(* Types.                                                                  *)

Call ==
    [kind : {"access"}, acc : Access]
      \cup [kind : {"barrier", "fence"}, warps : BarrierSets \cup {{w} : w \in Warps}]
      \cup [kind : {"launch"}]
      \cup [kind : {"reclaim_cta"}, cta : Ctas]
      \cup [kind : {"reclaim_allocation"}, id : Alloc]

TypeInv ==
    /\ clocks \in [Lane -> Clock]
    /\ \A r \in release_clocks : r.clock \in Clock
    /\ shadow \subseteq Interval
    /\ generations \in [Alloc -> Nat]
    /\ executed \in [Ctas -> Nat]
    /\ use \in Uses
    /\ hist \in Seq(Call)

\* Lane a makes an access of instruction n.
Counts(a, n) == executed' = [executed EXCEPT ![CtaOf[a]] = n]

\* The parts a new access cuts the intervals into.
LEMMA SplitCases ==
    ASSUME NEW acc, NEW me, NEW x \in Split(acc, me)
    PROVE  \/ x \in shadow /\ x \notin Overlapped(acc)
           \/ \E iv \in Overlapped(acc) : iv.lo < acc.lo /\ x = [iv EXCEPT !.hi = ob(iv, acc)]
           \/ \E iv \in Overlapped(acc) : acc.hi < iv.hi /\ x = [iv EXCEPT !.lo = oe(iv, acc)]
           \/ \E iv \in Overlapped(acc) :
                x = [dom |-> iv.dom, lo |-> ob(iv, acc), hi |-> oe(iv, acc),
                     writer  |-> IF acc.is_write THEN {me} ELSE iv.writer,
                     readers |-> IF acc.is_write THEN {}
                                 ELSE {r \in iv.readers : r.acc.actor # acc.actor} \cup {me}]
           \/ x \in Gaps(acc, me)
BY DEF Split, Heads, Tails, Covered

\* What a part of the access that no interval covered is.
LEMMA GapShape ==
    ASSUME NEW acc, NEW me, NEW x \in Gaps(acc, me)
    PROVE  \E p \in {acc.lo} \cup {oe(iv, acc) : iv \in Overlapped(acc)},
              q \in {acc.hi} \cup {ob(iv, acc) : iv \in Overlapped(acc)} :
             /\ p < q
             /\ \A iv \in Overlapped(acc) : q <= iv.lo \/ iv.hi <= p
             /\ x = [dom |-> Domain(acc), lo |-> p, hi |-> q,
                     writer  |-> IF acc.is_write THEN {me} ELSE {},
                     readers |-> IF acc.is_write THEN {} ELSE {me}]
BY DEF Gaps

LEMMA BoundType ==
    ASSUME NEW iv \in Interval, NEW acc \in Access
    PROVE  ob(iv, acc) \in Nat /\ oe(iv, acc) \in Nat
BY DEF Interval, Access, ob, oe

LEMMA SplitType ==
    ASSUME shadow \subseteq Interval, NEW acc \in Access, NEW me \in Entry
    PROVE  Split(acc, me) \subseteq Interval
<1> SUFFICES ASSUME NEW x \in Split(acc, me) PROVE x \in Interval
  OBVIOUS
<1>1. Overlapped(acc) \subseteq Interval
  BY DEF Overlapped
<1>2. ASSUME NEW iv \in Interval
      PROVE  /\ [iv EXCEPT !.hi = ob(iv, acc)] \in Interval
             /\ [iv EXCEPT !.lo = oe(iv, acc)] \in Interval
  BY <1>2, BoundType DEF Interval
<1>3. ASSUME NEW iv \in Interval
      PROVE  [dom |-> iv.dom, lo |-> ob(iv, acc), hi |-> oe(iv, acc),
              writer  |-> IF acc.is_write THEN {me} ELSE iv.writer,
              readers |-> IF acc.is_write THEN {}
                          ELSE {r \in iv.readers : r.acc.actor # acc.actor} \cup {me}]
               \in Interval
  <2> DEFINE w == IF acc.is_write THEN {me} ELSE iv.writer
             s == IF acc.is_write THEN {}
                  ELSE {r \in iv.readers : r.acc.actor # acc.actor} \cup {me}
  <2>1. iv.writer \subseteq Entry /\ iv.readers \subseteq Entry
    BY DEF Interval
  <2>2. w \subseteq Entry /\ s \subseteq Entry
    BY <2>1
  <2>3. iv.dom \in Space \X (Alloc \cup Nat) \X Nat
    BY DEF Interval
  <2> HIDE DEF w, s
  <2>4. QED
    BY <2>2, <2>3, BoundType DEF Interval
<1>4. ASSUME x \in Gaps(acc, me) PROVE x \in Interval
  <2>1. PICK p \in {acc.lo} \cup {oe(iv, acc) : iv \in Overlapped(acc)},
             q \in {acc.hi} \cup {ob(iv, acc) : iv \in Overlapped(acc)} :
           x = [dom |-> Domain(acc), lo |-> p, hi |-> q,
                writer  |-> IF acc.is_write THEN {me} ELSE {},
                readers |-> IF acc.is_write THEN {} ELSE {me}]
    BY <1>4, GapShape
  <2>2. p \in Nat /\ q \in Nat
    <3>1. acc.lo \in Nat /\ acc.hi \in Nat
      BY DEF Access
    <3>2. QED
      BY <1>1, <3>1, BoundType
  <2>3. Domain(acc) \in Space \X (Alloc \cup Nat) \X Nat
    BY DEF Domain, Access
  <2> DEFINE w == IF acc.is_write THEN {me} ELSE {}
             s == IF acc.is_write THEN {} ELSE {me}
  <2>4. w \subseteq Entry /\ s \subseteq Entry
    OBVIOUS
  <2> HIDE DEF w, s
  <2>5. x = [dom |-> Domain(acc), lo |-> p, hi |-> q, writer |-> w, readers |-> s]
    BY <2>1 DEF w, s
  <2>6. QED
    BY <2>2, <2>3, <2>4, <2>5 DEF Interval
<1>5. QED
  BY <1>1, <1>2, <1>3, <1>4, SplitCases

\* An access brings no entry but its own.
LEMMA SplitEntries ==
    ASSUME shadow \subseteq Interval, NEW acc, NEW me, NEW x \in Split(acc, me)
    PROVE  \A e \in x.writer \cup x.readers : e = me \/ e \in Entries
<1>1. Overlapped(acc) \subseteq shadow
  BY DEF Overlapped
<1>2. ASSUME NEW iv \in shadow, NEW e \in iv.writer \cup iv.readers PROVE e \in Entries
  BY <1>2 DEF Entries
<1>4. CASE x \in shadow
  BY <1>2, <1>4
<1>5. CASE \/ \E iv \in Overlapped(acc) : x = [iv EXCEPT !.hi = ob(iv, acc)]
           \/ \E iv \in Overlapped(acc) : x = [iv EXCEPT !.lo = oe(iv, acc)]
  <2>1. PICK iv \in shadow : \/ x = [iv EXCEPT !.hi = ob(iv, acc)]
                             \/ x = [iv EXCEPT !.lo = oe(iv, acc)]
    BY <1>1, <1>5
  <2>2. x.writer = iv.writer /\ x.readers = iv.readers
    <3> DEFINE p == ob(iv, acc)
               q == oe(iv, acc)
    <3>1. x = [iv EXCEPT !.hi = p] \/ x = [iv EXCEPT !.lo = q]
      BY <2>1
    <3> HIDE DEF p, q
    <3>2. QED
      BY <3>1 DEF Interval
  <2>3. QED
    BY <1>2, <2>2
<1>6. ASSUME NEW iv \in Overlapped(acc),
             x = [dom |-> iv.dom, lo |-> ob(iv, acc), hi |-> oe(iv, acc),
                  writer  |-> IF acc.is_write THEN {me} ELSE iv.writer,
                  readers |-> IF acc.is_write THEN {}
                              ELSE {r \in iv.readers : r.acc.actor # acc.actor} \cup {me}]
      PROVE  \A e \in x.writer \cup x.readers : e = me \/ e \in Entries
  <2>1. /\ x.writer \subseteq {me} \cup iv.writer
        /\ x.readers \subseteq {me} \cup iv.readers
    BY <1>6
  <2>2. QED
    BY <1>1, <1>2, <2>1
<1>7. CASE x \in Gaps(acc, me)
  <2>1. x.writer \subseteq {me} /\ x.readers \subseteq {me}
    BY <1>7 DEF Gaps
  <2>2. QED
    BY <2>1
<1>8. QED
  BY <1>4, <1>5, <1>6, <1>7, SplitCases

LEMMA CtaCount ==
    ASSUME TypeInv, NEW a \in Lane
    PROVE  CtaOf[a] \in Ctas /\ executed[CtaOf[a]] \in Nat
BY DEF TypeInv, Ctas

\* The access of an operation.
LEMMA AccessType ==
    ASSUME TypeInv, NEW a \in Lane, NEW o \in use.ops, NEW k \in Instructions(a, o),
           NEW acc, acc = MakeAccess(a, k, o)
    PROVE  /\ acc \in Access /\ acc.actor = a /\ k \in Nat /\ acc.lo < acc.hi
           /\ acc.space = "shared" => acc.domain = CtaOf[a] /\ acc.generation = 0
           /\ acc.space = "global" => /\ acc.domain \in Alloc
                                      /\ acc.generation = generations[acc.domain]
           /\ tick(clocks[a], a) \in Clock
           /\ [kind |-> "access", acc |-> acc] \in Call
<1>1. o \in Op /\ o.lo < o.hi
  BY RaceAssumption DEF TypeInv
<1>2. k \in Nat
  BY CtaCount DEF Instructions
<1>3. CtaOf[a] \in Nat
  BY RaceAssumption
<1>4. o.alloc \in Alloc /\ generations[o.alloc] \in Nat /\ o.space \in {"shared", "global"}
  BY <1>1 DEF Op, Space, TypeInv
<1> DEFINE d == IF o.space = "shared" THEN CtaOf[a] ELSE o.alloc
           g == IF o.space = "shared" THEN 0 ELSE generations[o.alloc]
<1>5. d \in Alloc \cup Nat /\ g \in Nat
  BY <1>3, <1>4
<1>6. acc = [actor |-> a, instruction |-> k, space |-> o.space, domain |-> d,
             generation |-> g, lo |-> o.lo, hi |-> o.hi, is_write |-> o.is_write,
             is_atomic |-> o.is_atomic, mem_order |-> o.mem_order, scope |-> o.scope]
  BY DEF MakeAccess
<1>7. /\ o.space = "shared" => d = CtaOf[a] /\ g = 0
      /\ o.space = "global" => d \in Alloc /\ g = generations[d]
  BY <1>4
<1> HIDE DEF d, g
<1>8. acc \in Access
  BY <1>1, <1>2, <1>5, <1>6 DEF Op, Access
<1>9. tick(clocks[a], a) \in Clock
  <2>1. clocks[a] \in Clock
    BY DEF TypeInv
  <2>2. QED
    BY <2>1 DEF tick, Clock
<1>10. [kind |-> "access", acc |-> acc] \in Call
  BY <1>8 DEF Call
<1>11. QED
  BY <1>1, <1>2, <1>6, <1>7, <1>8, <1>9, <1>10

-----------------------------------------------------------------------------
(* The history grows by one call.                                          *)

LEMMA HistoryGrows ==
    ASSUME hist \in Seq(Call), NEW e \in Call, hist' = Append(hist, e), NEW z, z = Len(hist)
    PROVE  /\ z \in Nat /\ Len(hist') = z + 1 /\ hist' \in Seq(Call)
           /\ \A i \in 1 .. z : hist'[i] = hist[i]
           /\ hist'[z + 1] = e
           /\ 1 .. (z + 1) = (1 .. z) \cup {z + 1}
           /\ z + 1 \notin 1 .. z
BY AppendProperties

LEMMA SinceLaunchGrows ==
    ASSUME hist \in Seq(Call), NEW e \in Call, hist' = Append(hist, e)
    PROVE  SinceLaunch' = IF e.kind = "launch" THEN {} ELSE SinceLaunch \cup {Len(hist) + 1}
<1> DEFINE z == Len(hist)
<1>1. /\ z \in Nat /\ Len(hist') = z + 1
      /\ \A i \in 1 .. z : hist'[i] = hist[i]
      /\ hist'[z + 1] = e
      /\ 1 .. (z + 1) = (1 .. z) \cup {z + 1}
  BY HistoryGrows
<1> HIDE DEF z
<1>2. SinceLaunch' = {i \in 1 .. (z + 1) : \A j \in i .. (z + 1) : hist'[j].kind # "launch"}
  BY <1>1 DEF SinceLaunch, z
<1>3. SinceLaunch = {i \in 1 .. z : \A j \in i .. z : hist[j].kind # "launch"}
  BY DEF SinceLaunch, z
<1>4. ASSUME NEW i \in 1 .. (z + 1)
      PROVE  /\ i .. (z + 1) = (i .. z) \cup {z + 1}
             /\ i .. z \subseteq 1 .. z
             /\ i = z + 1 => i .. z = {}
  BY <1>1
<1>5. CASE e.kind = "launch"
  <2>1. \A i \in 1 .. (z + 1) : z + 1 \in i .. (z + 1) /\ hist'[z + 1].kind = "launch"
    BY <1>1, <1>5
  <2>2. SinceLaunch' = {}
    BY <1>2, <2>1
  <2>3. QED
    BY <1>5, <2>2
<1>6. CASE e.kind # "launch"
  <2>1. ASSUME NEW i \in 1 .. (z + 1)
        PROVE  i \in SinceLaunch' <=> \A j \in i .. z : hist[j].kind # "launch"
    BY <1>1, <1>2, <1>4, <1>6
  <2>2. SinceLaunch' = SinceLaunch \cup {z + 1}
    BY <1>1, <1>2, <1>3, <1>4, <2>1
  <2>3. QED
    BY <1>6, <2>2 DEF z
<1>7. QED
  BY <1>5, <1>6

\* A CTA runs on unless its end is announced; a launch starts all.
LEMMA RunningGrows ==
    ASSUME hist \in Seq(Call), NEW e \in Call, hist' = Append(hist, e), NEW c
    PROVE  Running(c)' <=> \/ e.kind = "launch"
                           \/ Running(c) /\ ~(e.kind = "reclaim_cta" /\ e.cta = c)
<1> DEFINE z == Len(hist)
<1>1. /\ z \in Nat /\ \A i \in 1 .. z : hist'[i] = hist[i]
      /\ hist'[z + 1] = e
  BY HistoryGrows
<1>2. SinceLaunch' = IF e.kind = "launch" THEN {} ELSE SinceLaunch \cup {z + 1}
  BY SinceLaunchGrows
<1> HIDE DEF z
<1>3. SinceLaunch \subseteq 1 .. z
  BY DEF SinceLaunch, z
<1>4. Running(c)' <=> \A i \in SinceLaunch' : hist'[i].kind = "reclaim_cta" => hist'[i].cta # c
  BY DEF Running
<1>5. Running(c) <=> \A i \in SinceLaunch : hist[i].kind = "reclaim_cta" => hist[i].cta # c
  BY DEF Running
<1>6. CASE e.kind = "launch"
  BY <1>2, <1>4, <1>6
<1>7. CASE e.kind # "launch"
  <2>1. \A i \in SinceLaunch : hist'[i] = hist[i]
    BY <1>1, <1>3
  <2>2. SinceLaunch' = SinceLaunch \cup {z + 1}
    BY <1>2, <1>7
  <2>3. QED
    BY <1>1, <1>4, <1>5, <1>7, <2>1, <2>2
<1>8. QED
  BY <1>6, <1>7

-----------------------------------------------------------------------------
(* Epochs.                                                                 *)

\* Entries carry an epoch their lane has ticked; no epoch is above the number of
\* calls, which is why merged clocks exist whatever the number of lanes.
EInv ==
    /\ Entered(Entries)
    /\ Bounded(Known, Len(hist))
    /\ Exact(Entries, Known)
    /\ NoClockAhead

LEMMA InKnown ==
    /\ \A b \in Lane : clocks[b] \in Known
    /\ \A r \in release_clocks : r.clock \in Known
    /\ \A e \in Entries : e.clock \in Known
BY DEF Known

LEMMA BoundedMore ==
    ASSUME NEW K, NEW n \in Nat, Bounded(K, n)
    PROVE  Bounded(K, n + 1)
<1>1. \A c \in K : c \in Clock /\ \A a \in Lane : c[a] \in Nat
  BY DEF Bounded, Clock
<1>2. QED
  BY <1>1 DEF Bounded

\* An access ticks the clock of its lane; no one knows the new epoch.
LEMMA TickExact ==
    ASSUME NEW E, NEW K, NEW n \in Nat, Entered(E), Bounded(K, n), Exact(E, K),
           NEW a \in Lane, NEW c \in K, \A d \in K : d[a] <= c[a],
           \A e \in E : e.clock \in K,
           NEW k, k = tick(c, a), NEW me, me.acc.actor = a, me.clock = k
    PROVE  /\ Entered(E \cup {me}) /\ Bounded(K \cup {k}, n + 1)
           /\ Exact(E \cup {me}, K \cup {k})
<1>1. c \in Clock /\ \A b \in Lane : c[b] \in Nat /\ c[b] <= n
  BY DEF Bounded, Clock
<1>2. k \in Clock /\ k[a] = c[a] + 1 /\ \A b \in Lane \ {a} : k[b] = c[b]
  BY <1>1 DEF tick, Clock
<1>3. Bounded(K \cup {k}, n + 1)
  <2>1. Bounded(K, n + 1)
    BY BoundedMore
  <2>2. \A b \in Lane : k[b] <= n + 1
    BY <1>1, <1>2
  <2>3. QED
    BY <1>2, <2>1, <2>2 DEF Bounded
<1>4. Entered(E \cup {me})
  <2>1. me.clock[me.acc.actor] >= 1
    BY <1>1, <1>2
  <2>2. QED
    BY <1>2, <2>1 DEF Entered
<1>5. dominates(k, c) /\ dominates(k, k)
  BY <1>1, <1>2 DEF dominates
<1>6. ASSUME NEW e \in E \cup {me}, NEW d \in K \cup {k},
             e.clock[e.acc.actor] <= d[e.acc.actor]
      PROVE  dominates(d, e.clock)
  <2>1. CASE e \in E /\ d \in K
    BY <1>6, <2>1 DEF Exact
  <2>2. CASE e \in E /\ d = k
    <3> DEFINE b == e.acc.actor
    <3>1. b \in Lane /\ e.clock \in Clock /\ e.clock \in K
      BY <2>2 DEF Entered
    <3>2. e.clock[b] <= c[b]
      BY <1>2, <1>6, <2>2, <3>1
    <3>3. dominates(c, e.clock)
      BY <2>2, <3>2 DEF Exact
    <3>4. QED
      BY <1>1, <1>2, <1>5, <2>2, <3>1, <3>3, DominatesTransitive
  <2>3. CASE e = me /\ d \in K
    <3>1. k[a] <= d[a] /\ d[a] <= c[a] /\ d[a] \in Nat
      BY <1>6, <2>3 DEF Bounded, Clock
    <3>2. QED
      BY <1>1, <1>2, <3>1
  <2>4. CASE e = me /\ d = k
    BY <1>5, <2>4
  <2>5. QED
    BY <2>1, <2>2, <2>3, <2>4
<1>7. QED
  BY <1>2, <1>3, <1>4, <1>6 DEF Exact

\* Fewer entries and clocks keep the invariant.
LEMMA ExactSubset ==
    ASSUME NEW E, NEW K, NEW F, NEW L, F \subseteq E, L \subseteq K, NEW n
    PROVE  /\ Exact(E, K) => Exact(F, L)
           /\ Entered(E) => Entered(F)
           /\ Bounded(K, n) => Bounded(L, n)
BY DEF Exact, Entered, Bounded

\* observe and atomic_rmw.
LEMMA AccessEpochs ==
    ASSUME TypeInv, EInv, NEW a \in Lane, Running(CtaOf[a]),
           NEW k, k = tick(clocks[a], a), NEW me, me.acc.actor = a, me.clock = k,
           NEW m, NEW S, S \subseteq Known \cup {k}, m = MergeAll(k, S) \/ m = k,
           clocks' = [clocks EXCEPT ![a] = m],
           \A r \in release_clocks' : r.clock \in Known \cup {k},
           Entries' \subseteq Entries \cup {me},
           Len(hist') = Len(hist) + 1, \A c : Running(c)' => Running(c)
    PROVE  EInv'
<1> DEFINE n == Len(hist)
           K == Known \cup {k}
           E == Entries \cup {me}
<1>1. /\ clocks \in [Lane -> Clock] /\ n \in Nat
      /\ Entered(Entries) /\ Bounded(Known, n) /\ Exact(Entries, Known)
      /\ \A b \in Lane : clocks[b] \in Known
      /\ \A e \in Entries : e.clock \in Known
      /\ \A b \in Lane : Running(CtaOf[b]) => \A c \in Known : c[b] <= clocks[b][b]
  BY InKnown DEF TypeInv, EInv, NoClockAhead
<1>2. /\ k \in Clock /\ k[a] = clocks[a][a] + 1
      /\ \A b \in Lane \ {a} : k[b] = clocks[a][b]
      /\ Entered(E) /\ Bounded(K, n + 1) /\ Exact(E, K)
  <2>1. clocks[a] \in Known /\ \A d \in Known : d[a] <= clocks[a][a]
    BY <1>1
  <2>2. Entered(E) /\ Bounded(K, n + 1) /\ Exact(E, K)
    <3> HIDE DEF n
    <3>1. QED
      BY <1>1, <2>1, TickExact
  <2>3. clocks[a] \in Clock
    BY <1>1
  <2>4. QED
    BY <2>2, <2>3 DEF tick, Clock
<1>3. n + 1 \in Nat /\ k \in K
  BY <1>1
<1> HIDE DEF n, K, E
<1>4. /\ m \in Clock /\ Bounded({m}, n + 1) /\ Exact(E, {m})
      /\ dominates(m, k)
      /\ \A b \in Lane : Attained(K, b, m[b])
  <2>1. CASE m = k
    <3>1. dominates(k, k)
      BY <1>2 DEF dominates, Clock
    <3>2. QED
      BY <1>2, <1>3, <2>1, <3>1, ExactSubset DEF Attained, Bounded, Exact
  <2>2. CASE m = MergeAll(k, S)
    <3> DEFINE D == S \cup {k}
    <3>1. S \subseteq K /\ D \subseteq K /\ D = S \cup {k} /\ k \in D
      BY <1>3 DEF K
    <3>2. m \in Clock /\ (\A b \in Lane : m[b] <= n + 1) /\ Exact(E, {m})
      BY <1>2, <1>3, <2>2, <3>1, MergeExact
    <3>3. Bounded(D, n + 1)
      BY <1>2, <3>1, ExactSubset
    <3> HIDE DEF D
    <3>4. (\A d \in D : dominates(m, d)) /\ \A b \in Lane : Attained(D, b, m[b])
      BY <1>3, <2>2, <3>1, <3>3, MergeProperties
    <3>5. \A b \in Lane : Attained(K, b, m[b])
      BY <3>1, <3>4 DEF Attained
    <3>6. QED
      BY <3>1, <3>2, <3>4, <3>5 DEF Bounded
  <2>3. QED
    BY <2>1, <2>2
<1> DEFINE L == K \cup {m}
<1>5. Exact(E, L) /\ Bounded(L, n + 1)
  BY <1>2, <1>4 DEF Exact, Bounded
<1>6. /\ \A b \in Lane : clocks'[b] = IF b = a THEN m ELSE clocks[b]
  BY <1>1
<1>7. Known' \subseteq L /\ Entries' \subseteq E
  <2>1. Entries' \subseteq E /\ \A e \in E : e.clock \in L
    BY <1>1, <1>3 DEF E, K
  <2>2. \A b \in Lane : clocks'[b] \in L
    BY <1>1, <1>6 DEF K
  <2>3. \A r \in release_clocks' : r.clock \in L
    BY DEF K
  <2> HIDE DEF L
  <2>4. QED
    BY <2>1, <2>2, <2>3 DEF Known
<1>8. ASSUME NEW b \in Lane, Running(CtaOf[b])', NEW c \in L
      PROVE  c[b] <= clocks'[b][b]
  <2>1. Running(CtaOf[b]) /\ \A d \in Known : d[b] <= clocks[b][b]
    BY <1>1, <1>8
  <2>2. \A d \in K : d[b] <= IF b = a THEN k[a] ELSE clocks[b][b]
    <3>1. ASSUME NEW d \in Known PROVE d[b] <= IF b = a THEN k[a] ELSE clocks[b][b]
      <4>1. d[b] \in Nat /\ clocks[b][b] \in Nat /\ d[b] <= clocks[b][b]
        BY <1>1, <2>1 DEF Bounded, Clock
      <4>2. QED
        BY <1>2, <4>1
    <3>2. k[b] <= IF b = a THEN k[a] ELSE clocks[b][b]
      <4>1. CASE b = a
        BY <1>2, <4>1 DEF Clock
      <4>2. CASE b # a
        BY <1>1, <1>2, <2>1, <4>2
      <4>3. QED
        BY <4>1, <4>2
    <3>3. QED
      BY <3>1, <3>2 DEF K
  <2>3. m[b] <= IF b = a THEN k[a] ELSE clocks[b][b]
    BY <1>4, <2>2 DEF Attained
  <2>4. c[b] <= IF b = a THEN k[a] ELSE clocks[b][b]
    BY <2>2, <2>3
  <2>5. CASE b # a
    BY <1>6, <2>4, <2>5
  <2>6. CASE b = a
    <3>1. k[a] <= m[a] /\ k[a] \in Nat /\ m[a] \in Nat /\ c[a] \in Nat
      BY <1>2, <1>4, <1>5 DEF dominates, Clock, Bounded
    <3>2. QED
      BY <1>6, <2>4, <2>6, <3>1
  <2>7. QED
    BY <2>5, <2>6
<1>9. NoClockAhead'
  BY <1>7, <1>8 DEF NoClockAhead
<1>10. Exact(Entries', Known') /\ Entered(Entries') /\ Bounded(Known', n + 1)
  <2> HIDE DEF L
  <2>1. QED
    BY <1>2, <1>5, <1>7, ExactSubset
<1>11. QED
  BY <1>9, <1>10 DEF EInv, n, Exact, Entered, Bounded

LEMMA RecordStep ==
    ASSUME TypeInv, EInv, NEW a \in Lane, NEW o \in use.ops, NEW i \in Instructions(a, o),
           Running(CtaOf[a]), NEW acc, acc = MakeAccess(a, i, o),
           NEW k, k = tick(clocks[a], a), Record(acc, k), Counts(a, i),
           Called([kind |-> "access", acc |-> acc]),
           NEW m, NEW S, S \subseteq Known \cup {k}, m = MergeAll(k, S) \/ m = k,
           clocks' = [clocks EXCEPT ![a] = m],
           \A r \in release_clocks' : r.clock \in Known \cup {k}
    PROVE  TypeInv' /\ EInv'
<1> DEFINE me == [acc |-> acc, clock |-> k]
           e == [kind |-> "access", acc |-> acc]
<1>1. /\ acc \in Access /\ acc.actor = a /\ i \in Nat /\ k \in Clock /\ e \in Call
  BY AccessType
<1>2. /\ me \in Entry /\ me.acc.actor = a /\ me.clock = k
  BY <1>1 DEF Entry
<1>3. /\ shadow' = Split(acc, me) /\ generations' = generations /\ use' = use
      /\ hist' = Append(hist, e)
  BY DEF Record, Called
<1>4. shadow \subseteq Interval /\ hist \in Seq(Call) /\ clocks \in [Lane -> Clock]
  BY DEF TypeInv
<1>5. shadow' \subseteq Interval
  BY <1>1, <1>2, <1>3, <1>4, SplitType
<1> HIDE DEF me
<1>6. Entries' \subseteq Entries \cup {me}
  <2>1. \A x \in shadow' : \A y \in x.writer \cup x.readers : y = me \/ y \in Entries
    BY <1>3, <1>4, SplitEntries
  <2>2. QED
    BY <2>1 DEF Entries
<1>7. Len(hist') = Len(hist) + 1 /\ hist' \in Seq(Call)
  BY <1>1, <1>3, <1>4, HistoryGrows
<1>8. \A c : Running(c)' => Running(c)
  <2>1. e.kind = "access"
    OBVIOUS
  <2> HIDE DEF e
  <2>2. QED
    BY <1>1, <1>3, <1>4, <2>1, RunningGrows
<1>9. EInv'
  BY <1>2, <1>6, <1>7, <1>8, AccessEpochs
<1>10. Bounded(Known', Len(hist'))
  BY <1>9 DEF EInv, Bounded
<1>11. clocks' \in [Lane -> Clock] /\ \A r \in release_clocks' : r.clock \in Clock
  <2>1. \A b \in Lane : clocks'[b] \in Clock
    BY <1>10 DEF Known, Bounded
  <2>2. \A r \in release_clocks' : r.clock \in Clock
    BY <1>10 DEF Known, Bounded
  <2>3. QED
    BY <1>4, <2>1, <2>2
<1>12. executed' \in [Ctas -> Nat]
  BY <1>1, CtaCount DEF Counts, TypeInv
<1>13. TypeInv'
  BY <1>1, <1>3, <1>5, <1>7, <1>11, <1>12 DEF TypeInv
<1>14. QED
  BY <1>9, <1>13

LEMMA ObserveStep ==
    ASSUME TypeInv, EInv, NEW a \in Lane, NEW o \in use.ops, Observe(a, o)
    PROVE  TypeInv' /\ EInv'
<1>1. PICK i \in Instructions(a, o) :
        /\ observe(MakeAccess(a, i, o)) /\ Counts(a, i)
        /\ Called([kind |-> "access", acc |-> MakeAccess(a, i, o)])
  BY DEF Observe, Counts
<1> DEFINE acc == MakeAccess(a, i, o)
           k == tick(clocks[a], a)
<1>2. acc.actor = a
  BY DEF MakeAccess
<1> HIDE DEF acc
<1>3. Record(acc, k) /\ clocks' = [clocks EXCEPT ![a] = k] /\ release_clocks' = release_clocks
  BY <1>1, <1>2 DEF observe, acc
<1>4. \A r \in release_clocks' : r.clock \in Known \cup {k}
  BY <1>3, InKnown
<1> HIDE DEF k
<1>5. {} \subseteq Known \cup {k} /\ Running(CtaOf[a])
  BY DEF Observe
<1>6. /\ acc = MakeAccess(a, i, o) /\ k = tick(clocks[a], a) /\ Counts(a, i)
      /\ Called([kind |-> "access", acc |-> acc])
  BY <1>1 DEF acc, k
<1> DEFINE S == {}
<1>7. S \subseteq Known \cup {k}
  OBVIOUS
<1> HIDE DEF S
<1>8. QED
  BY <1>3, <1>4, <1>5, <1>6, <1>7, RecordStep

LEMMA AtomicRmwStep ==
    ASSUME TypeInv, EInv, NEW a \in Lane, NEW o \in use.ops, AtomicRmw(a, o)
    PROVE  TypeInv' /\ EInv'
<1>1. PICK i \in Instructions(a, o) :
        /\ atomic_rmw(MakeAccess(a, i, o)) /\ Counts(a, i)
        /\ Called([kind |-> "access", acc |-> MakeAccess(a, i, o)])
  BY DEF AtomicRmw, Counts
<1> DEFINE acc == MakeAccess(a, i, o)
           k == tick(clocks[a], a)
           rec == [key |-> key_of(acc), actor |-> a, scope |-> acc.scope, clock |-> k]
           released == IF SyncOp(acc) /\ is_release_order(acc.mem_order)
                       THEN release_clocks \cup {rec} ELSE release_clocks
           S == IF SyncOp(acc) /\ is_acquire_order(acc.mem_order)
                THEN {r.clock : r \in VisibleReleases(acc, released)} ELSE {}
<1>2. acc.actor = a
  BY DEF MakeAccess
<1> HIDE DEF acc
<1>3. /\ Record(acc, k) /\ release_clocks' = released
      /\ clocks' = [clocks EXCEPT ![a] = MergeAll(k, S)]
  BY <1>1, <1>2 DEF atomic_rmw, acc
<1>4. \A r \in released : r.clock \in Known \cup {k}
  BY InKnown
<1> HIDE DEF released
<1>5. S \subseteq Known \cup {k}
  BY <1>4 DEF VisibleReleases
<1> HIDE DEF S, k
<1>6. \A r \in release_clocks' : r.clock \in Known \cup {k}
  BY <1>3, <1>4
<1>7. Running(CtaOf[a])
  BY DEF AtomicRmw
<1>8. /\ acc = MakeAccess(a, i, o) /\ k = tick(clocks[a], a) /\ Counts(a, i)
      /\ Called([kind |-> "access", acc |-> acc])
  BY <1>1 DEF acc, k
<1> DEFINE m == MergeAll(k, S)
<1>9. m = MergeAll(k, S) /\ clocks' = [clocks EXCEPT ![a] = m]
  BY <1>3
<1> HIDE DEF m
<1>10. QED
  BY <1>3, <1>5, <1>6, <1>7, <1>8, <1>9, RecordStep

\* The lanes of a barrier share what they know, and nobody learns of an epoch
\* that its lane has not reached.
LEMMA BarrierEpochs ==
    ASSUME TypeInv, EInv, NEW ws, cta_barrier(ws),
           Len(hist') = Len(hist) + 1, \A c : Running(c)' => Running(c)
    PROVE  EInv' /\ clocks' \in [Lane -> Clock]
<1> DEFINE n == Len(hist)
           S == {clocks[b] : b \in LanesOf(ws)}
           M(b) == MergeAll(clocks[b], S)
           K == Known
<1>1. /\ clocks \in [Lane -> Clock] /\ n \in Nat
      /\ Entered(Entries) /\ Bounded(K, n) /\ Exact(Entries, K)
      /\ \A b \in Lane : clocks[b] \in K
      /\ \A b \in Lane : Running(CtaOf[b]) => \A c \in K : c[b] <= clocks[b][b]
  BY InKnown DEF TypeInv, EInv, NoClockAhead
<1>2. S \subseteq K
  BY InKnown DEF LanesOf
<1>3. /\ clocks' = [b \in Lane |-> IF WarpOf[b] \in ws THEN M(b) ELSE clocks[b]]
      /\ shadow' = shadow /\ release_clocks' = release_clocks
  BY DEF cta_barrier
<1>4. Entries' = Entries
  BY <1>3 DEF Entries
<1> HIDE DEF S, n, K
<1>5. ASSUME NEW b \in Lane
      PROVE  /\ M(b) \in Clock /\ (\A a \in Lane : M(b)[a] <= n)
             /\ Exact(Entries, {M(b)})
             /\ clocks[b][b] <= M(b)[b]
             /\ \A a \in Lane : Attained(K, a, M(b)[a])
  <2> DEFINE m == M(b)
             D == S \cup {clocks[b]}
  <2>1. clocks[b] \in K /\ m = MergeAll(clocks[b], S) /\ D = S \cup {clocks[b]}
    BY <1>1
  <2> HIDE DEF M
  <2>2. m \in Clock /\ (\A a \in Lane : m[a] <= n) /\ Exact(Entries, {m})
    BY <1>1, <1>2, <2>1, MergeExact
  <2>3. D \subseteq K /\ clocks[b] \in D
    BY <1>2, <2>1
  <2> HIDE DEF m, D
  <2>4. Bounded(D, n)
    BY <1>1, <2>3, ExactSubset
  <2>5. (\A d \in D : dominates(m, d)) /\ \A a \in Lane : Attained(D, a, m[a])
    BY <1>1, <2>1, <2>4, MergeProperties
  <2>6. \A a \in Lane : Attained(K, a, m[a])
    BY <2>3, <2>5 DEF Attained
  <2>7. clocks[b][b] <= m[b]
    BY <2>3, <2>5 DEF dominates
  <2>8. QED
    BY <2>2, <2>6, <2>7 DEF m
<1> HIDE DEF M
<1> DEFINE L == K \cup {M(b) : b \in Lane}
<1>6. Exact(Entries, L) /\ Bounded(L, n)
  <2>1. Exact(Entries, L)
    BY <1>1, <1>5 DEF Exact
  <2>2. Bounded(L, n)
    BY <1>1, <1>5 DEF Bounded
  <2>3. QED
    BY <2>1, <2>2
<1>7. Known' \subseteq L
  <2>1. \A b \in Lane : clocks'[b] \in L
    BY <1>1, <1>3
  <2>2. \A r \in release_clocks' : r.clock \in L
    BY <1>3, InKnown DEF K
  <2>3. \A e \in Entries' : e.clock \in L
    BY <1>4, InKnown DEF K
  <2> HIDE DEF L
  <2>4. QED
    BY <2>1, <2>2, <2>3 DEF Known
<1>8. ASSUME NEW b \in Lane, Running(CtaOf[b])', NEW c \in L
      PROVE  c[b] <= clocks'[b][b]
  <2>1. \A d \in K : d[b] <= clocks[b][b]
    BY <1>1, <1>8
  <2>2. c[b] <= clocks[b][b]
    <3>1. CASE c \in K
      BY <2>1, <3>1
    <3>2. CASE c \in {M(x) : x \in Lane}
      <4>1. PICK x \in Lane : c = M(x)
        BY <3>2
      <4>2. QED
        BY <1>5, <2>1, <4>1 DEF Attained
    <3>3. QED
      BY <3>1, <3>2
  <2>3. clocks[b][b] <= clocks'[b][b] /\ clocks[b][b] \in Nat /\ clocks'[b][b] \in Nat
    <3>1. clocks[b] \in Clock /\ M(b) \in Clock /\ clocks[b][b] <= M(b)[b]
      BY <1>1, <1>5
    <3>2. clocks'[b] = M(b) \/ clocks'[b] = clocks[b]
      BY <1>3
    <3>3. QED
      BY <3>1, <3>2 DEF Clock
  <2>4. c[b] \in Nat
    BY <1>6 DEF Bounded, Clock
  <2>5. QED
    BY <2>2, <2>3, <2>4
<1>9. NoClockAhead'
  BY <1>7, <1>8 DEF NoClockAhead
<1>10. Exact(Entries', Known') /\ Entered(Entries') /\ Bounded(Known', n + 1)
  <2> HIDE DEF L
  <2>1. Bounded(L, n + 1)
    BY <1>1, <1>6, BoundedMore
  <2>2. QED
    BY <1>1, <1>4, <1>6, <1>7, <2>1, ExactSubset
<1>11. clocks' \in [Lane -> Clock]
  BY <1>1, <1>3, <1>5
<1>12. QED
  BY <1>9, <1>10, <1>11 DEF EInv, n, Exact, Entered, Bounded

\* Calls that forget: what is known afterwards was known before, or is nothing.
LEMMA ForgetEpochs ==
    ASSUME TypeInv, EInv, Len(hist') = Len(hist) + 1,
           Entries' \subseteq Entries, Known' \subseteq Known \cup {Bottom},
           \A b \in Lane : Running(CtaOf[b])' => Running(CtaOf[b]) /\ clocks'[b] = clocks[b]
    PROVE  EInv'
<1> DEFINE n == Len(hist)
           L == Known \cup {Bottom}
<1>1. /\ n \in Nat /\ Entered(Entries) /\ Bounded(Known, n) /\ Exact(Entries, Known)
      /\ \A b \in Lane : Running(CtaOf[b]) => \A c \in Known : c[b] <= clocks[b][b]
      /\ \A b \in Lane : clocks[b] \in Clock
  BY DEF TypeInv, EInv, NoClockAhead
<1>2. Bottom \in Clock /\ \A b \in Lane : Bottom[b] = 0
  BY DEF Bottom, Clock
<1> HIDE DEF n
<1>3. Bounded(L, n + 1)
  <2>1. Bounded(Known, n + 1)
    BY <1>1, BoundedMore
  <2>2. QED
    BY <1>1, <1>2, <2>1 DEF Bounded
<1>4. Exact(Entries, L)
  <2>1. ASSUME NEW e \in Entries PROVE ~(e.clock[e.acc.actor] <= Bottom[e.acc.actor])
    <3>1. /\ e.acc.actor \in Lane /\ e.clock \in Clock /\ e.clock[e.acc.actor] >= 1
      BY <1>1 DEF Entered
    <3>2. e.clock[e.acc.actor] \in Nat /\ Bottom[e.acc.actor] = 0
      BY <1>2, <3>1 DEF Clock
    <3>3. QED
      BY <3>1, <3>2
  <2>2. QED
    BY <1>1, <2>1 DEF Exact
<1>5. ASSUME NEW b \in Lane, Running(CtaOf[b])', NEW c \in L
      PROVE  c[b] <= clocks'[b][b]
  <2>1. clocks'[b] = clocks[b] /\ clocks[b][b] \in Nat
    BY <1>1, <1>5 DEF Clock
  <2>2. CASE c \in Known
    BY <1>1, <1>5, <2>1, <2>2
  <2>3. CASE c = Bottom
    BY <1>2, <2>1, <2>3
  <2>4. QED
    BY <2>2, <2>3
<1>6. NoClockAhead'
  BY <1>5 DEF NoClockAhead
<1>7. Exact(Entries', Known') /\ Entered(Entries') /\ Bounded(Known', n + 1)
  <2> HIDE DEF L
  <2>1. Known' \subseteq L
    BY DEF L
  <2>2. QED
    BY <1>1, <1>3, <1>4, <2>1, ExactSubset
<1>8. QED
  BY <1>6, <1>7 DEF EInv, n, Exact, Entered, Bounded

LEMMA BarrierStep ==
    ASSUME TypeInv, EInv, NEW c \in Ctas, NEW ws \in BarrierSets, Barrier(c, ws)
    PROVE  TypeInv' /\ EInv'
<1> DEFINE e == [kind |-> "barrier", warps |-> ws]
<1>1. e \in Call /\ e.kind = "barrier" /\ hist' = Append(hist, e) /\ hist \in Seq(Call)
  BY DEF Barrier, Called, Call, TypeInv
<1>2. cta_barrier(ws) /\ use' = use /\ executed' = executed
  BY DEF Barrier, Called
<1>3. shadow' = shadow /\ release_clocks' = release_clocks /\ generations' = generations
  BY <1>2 DEF cta_barrier
<1> HIDE DEF e
<1>4. Len(hist') = Len(hist) + 1 /\ hist' \in Seq(Call)
  BY <1>1, HistoryGrows
<1>5. \A d : Running(d)' => Running(d)
  BY <1>1, RunningGrows
<1>6. EInv' /\ clocks' \in [Lane -> Clock]
  BY <1>2, <1>4, <1>5, BarrierEpochs
<1>7. TypeInv'
  BY <1>2, <1>3, <1>4, <1>6 DEF TypeInv
<1>8. QED
  BY <1>6, <1>7

LEMMA FenceStep ==
    ASSUME TypeInv, EInv, NEW w \in Warps, Fence(w)
    PROVE  TypeInv' /\ EInv'
<1> DEFINE e == [kind |-> "fence", warps |-> {w}]
<1>1. e \in Call /\ e.kind = "fence" /\ hist' = Append(hist, e) /\ hist \in Seq(Call)
  BY DEF Fence, Called, Call, TypeInv
<1>2. UNCHANGED <<detector, use, executed>>
  BY DEF Fence, Called, fence
<1> HIDE DEF e
<1>3. Len(hist') = Len(hist) + 1 /\ hist' \in Seq(Call)
  BY <1>1, HistoryGrows
<1>4. \A d : Running(d)' => Running(d)
  BY <1>1, RunningGrows
<1>5. Entries' = Entries /\ Known' = Known
  BY <1>2 DEF detector, Entries, Known
<1>6. EInv'
  BY <1>2, <1>3, <1>4, <1>5, ForgetEpochs DEF detector
<1>7. QED
  BY <1>2, <1>3, <1>6 DEF TypeInv, detector

LEMMA LaunchStep ==
    ASSUME TypeInv, EInv, Launch
    PROVE  TypeInv' /\ EInv'
<1> DEFINE e == [kind |-> "launch"]
<1>1. e \in Call /\ hist' = Append(hist, e) /\ hist \in Seq(Call)
  BY DEF Launch, Called, Call, TypeInv
<1>2. /\ use' = use /\ executed' = executed /\ generations' = generations
      /\ clocks' = [a \in Lane |-> Bottom] /\ release_clocks' = {} /\ shadow' = {}
  BY DEF Launch, Called, launch
<1> HIDE DEF e
<1>3. Len(hist') = Len(hist) + 1 /\ hist' \in Seq(Call) /\ Len(hist) \in Nat
  BY <1>1, HistoryGrows
<1>4. Bottom \in Clock /\ \A b \in Lane : Bottom[b] = 0
  BY DEF Bottom, Clock
<1>5. Entries' = {} /\ Known' \subseteq {Bottom}
  BY <1>2 DEF Entries, Known
<1>6. NoClockAhead'
  BY <1>2, <1>4, <1>5 DEF NoClockAhead
<1>7. Bounded(Known', Len(hist')) /\ Exact(Entries', Known') /\ Entered(Entries')
  BY <1>3, <1>4, <1>5 DEF Bounded, Exact, Entered
<1>8. EInv'
  BY <1>6, <1>7 DEF EInv, Exact, Entered, Bounded
<1>9. QED
  BY <1>2, <1>3, <1>4, <1>8 DEF TypeInv

LEMMA ReclaimCtaStep ==
    ASSUME TypeInv, EInv, NEW c \in Ctas, ReclaimCta(c)
    PROVE  TypeInv' /\ EInv'
<1> DEFINE e == [kind |-> "reclaim_cta", cta |-> c]
<1>1. /\ e \in Call /\ e.kind = "reclaim_cta" /\ e.cta = c
      /\ hist' = Append(hist, e) /\ hist \in Seq(Call)
  BY DEF ReclaimCta, Called, Call, TypeInv
<1>2. /\ use' = use /\ executed' = executed /\ generations' = generations
      /\ clocks' = [a \in Lane |-> IF CtaOf[a] = c THEN Bottom ELSE clocks[a]]
      /\ release_clocks' \subseteq release_clocks /\ shadow' \subseteq shadow
  BY DEF ReclaimCta, Called, reclaim_cta
<1> HIDE DEF e
<1>3. Len(hist') = Len(hist) + 1 /\ hist' \in Seq(Call)
  BY <1>1, HistoryGrows
<1>4. \A d : Running(d)' => Running(d) /\ d # c
  BY <1>1, RunningGrows
<1>5. Entries' \subseteq Entries
  BY <1>2 DEF Entries
<1>6. Known' \subseteq Known \cup {Bottom}
  BY <1>2, <1>5, InKnown DEF Known
<1>7. \A b \in Lane : Running(CtaOf[b])' => Running(CtaOf[b]) /\ clocks'[b] = clocks[b]
  BY <1>2, <1>4
<1>8. EInv'
  BY <1>3, <1>5, <1>6, <1>7, ForgetEpochs
<1>9. clocks' \in [Lane -> Clock]
  BY <1>2 DEF TypeInv, Bottom, Clock
<1>10. QED
  BY <1>2, <1>3, <1>8, <1>9 DEF TypeInv

LEMMA ReclaimAllocationStep ==
    ASSUME TypeInv, EInv, NEW id \in Alloc, ReclaimAllocation(id)
    PROVE  TypeInv' /\ EInv'
<1> DEFINE e == [kind |-> "reclaim_allocation", id |-> id]
<1>1. /\ e \in Call /\ e.kind = "reclaim_allocation"
      /\ hist' = Append(hist, e) /\ hist \in Seq(Call)
  BY DEF ReclaimAllocation, Called, Call, TypeInv
<1>2. /\ use' = use /\ executed' = executed /\ clocks' = clocks
      /\ generations' = [generations EXCEPT ![id] = @ + 1]
      /\ release_clocks' \subseteq release_clocks /\ shadow' \subseteq shadow
  BY DEF ReclaimAllocation, Called, reclaim_allocation
<1> HIDE DEF e
<1>3. Len(hist') = Len(hist) + 1 /\ hist' \in Seq(Call)
  BY <1>1, HistoryGrows
<1>4. \A d : Running(d)' => Running(d)
  BY <1>1, RunningGrows
<1>5. Entries' \subseteq Entries
  BY <1>2 DEF Entries
<1>6. Known' \subseteq Known \cup {Bottom}
  BY <1>2, <1>5, InKnown DEF Known
<1>7. EInv'
  BY <1>2, <1>3, <1>4, <1>5, <1>6, ForgetEpochs
<1>8. generations' \in [Alloc -> Nat]
  BY <1>2 DEF TypeInv
<1>9. QED
  BY <1>2, <1>3, <1>7, <1>8 DEF TypeInv

LEMMA EpochsInductive ==
    ASSUME TypeInv, EInv, [Next]_vars
    PROVE  TypeInv' /\ EInv'
<1>1. CASE UNCHANGED vars
  BY <1>1 DEF vars, detector, TypeInv, EInv, Entered, Bounded, Exact, NoClockAhead,
              Known, Entries, Running, SinceLaunch
<1>2. CASE \E a \in Lane, o \in use.ops : Observe(a, o) \/ AtomicRmw(a, o)
  BY <1>2, ObserveStep, AtomicRmwStep
<1>3. CASE \E c \in Ctas, ws \in BarrierSets : Barrier(c, ws)
  BY <1>3, BarrierStep
<1>4. CASE \E w \in Warps : Fence(w)
  BY <1>4, FenceStep
<1>5. CASE Launch
  BY <1>5, LaunchStep
<1>6. CASE \E c \in Ctas : ReclaimCta(c)
  BY <1>6, ReclaimCtaStep
<1>7. CASE \E id \in Alloc : ReclaimAllocation(id)
  BY <1>7, ReclaimAllocationStep
<1>8. QED
  BY <1>1, <1>2, <1>3, <1>4, <1>5, <1>6, <1>7 DEF Next

LEMMA EpochsInitially ==
    ASSUME Init
    PROVE  TypeInv /\ EInv
<1>1. Bottom \in Clock /\ \A b \in Lane : Bottom[b] = 0
  BY DEF Bottom, Clock
<1>2. Entries = {} /\ Known \subseteq {Bottom} /\ Len(hist) = 0
  BY DEF Init, Entries, Known
<1>3. NoClockAhead
  BY <1>1, <1>2 DEF NoClockAhead, Init
<1>4. EInv
  BY <1>1, <1>2, <1>3 DEF EInv, Entered, Bounded, Exact
<1>5. QED
  BY <1>1, <1>4 DEF TypeInv, Init

\* Whatever the lanes, warps and CTAs and whatever calls they make, the detector
\* stays in its types.
THEOREM RaceHistoryType == Spec => [](TypeInv /\ EInv)
<1>1. Init => TypeInv /\ EInv
  BY EpochsInitially
<1>2. TypeInv /\ EInv /\ [Next]_vars => (TypeInv /\ EInv)'
  BY EpochsInductive
<1>3. QED
  BY <1>1, <1>2, PTL DEF Spec

-----------------------------------------------------------------------------
(* How an access cuts the intervals, byte by byte.                         *)

\* Byte b lies in the interval or access x.
In(x, b) == x.lo <= b /\ b < x.hi

HeadPart(iv, acc) == [iv EXCEPT !.hi = ob(iv, acc)]

TailPart(iv, acc) == [iv EXCEPT !.lo = oe(iv, acc)]

\* The writer and the readers of a byte after the access.
NextWriter(w, acc, me) == IF acc.is_write THEN {me} ELSE w

NextReaders(s, acc, me) ==
    IF acc.is_write THEN {} ELSE {r \in s : r.acc.actor # acc.actor} \cup {me}

CoveredPart(iv, acc, me) ==
    [dom |-> iv.dom, lo |-> ob(iv, acc), hi |-> oe(iv, acc),
     writer  |-> NextWriter(iv.writer, acc, me),
     readers |-> NextReaders(iv.readers, acc, me)]

Hits(acc, d, b) == d = Domain(acc) /\ In(acc, b)

\* The part of iv that byte b of it goes to.
Piece(iv, b, acc, me) ==
    IF iv \notin Overlapped(acc) THEN iv
    ELSE IF b < acc.lo THEN HeadPart(iv, acc)
    ELSE IF acc.hi <= b THEN TailPart(iv, acc)
    ELSE CoveredPart(iv, acc, me)

\* x is the part from p to q of the access, which no interval covered.
IsGap(x, p, q, acc, me) ==
    /\ p \in Nat /\ q \in Nat /\ acc.lo <= p /\ p < q /\ q <= acc.hi
    /\ p = acc.lo \/ \E iv \in Overlapped(acc) : p = iv.hi
    /\ q = acc.hi \/ \E iv \in Overlapped(acc) : q = iv.lo
    /\ \A iv \in Overlapped(acc) : q <= iv.lo \/ iv.hi <= p
    /\ x = [dom |-> Domain(acc), lo |-> p, hi |-> q,
            writer  |-> IF acc.is_write THEN {me} ELSE {},
            readers |-> IF acc.is_write THEN {} ELSE {me}]

LEMMA HeadShape ==
    ASSUME NEW iv \in Interval, NEW acc \in Access, iv.lo < acc.lo, NEW x, x = HeadPart(iv, acc)
    PROVE  /\ x.dom = iv.dom /\ x.lo = iv.lo /\ x.hi = acc.lo
           /\ x.writer = iv.writer /\ x.readers = iv.readers
<1> DEFINE p == ob(iv, acc)
<1>1. p = acc.lo
  BY DEF ob, Interval, Access
<1>2. x = [iv EXCEPT !.hi = p]
  BY DEF HeadPart
<1> HIDE DEF p
<1>3. QED
  BY <1>1, <1>2 DEF Interval

LEMMA TailShape ==
    ASSUME NEW iv \in Interval, NEW acc \in Access, acc.hi < iv.hi, NEW x, x = TailPart(iv, acc)
    PROVE  /\ x.dom = iv.dom /\ x.lo = acc.hi /\ x.hi = iv.hi
           /\ x.writer = iv.writer /\ x.readers = iv.readers
<1> DEFINE p == oe(iv, acc)
<1>1. p = acc.hi
  BY DEF oe, Interval, Access
<1>2. x = [iv EXCEPT !.lo = p]
  BY DEF TailPart
<1> HIDE DEF p
<1>3. QED
  BY <1>1, <1>2 DEF Interval

LEMMA CoveredShape ==
    ASSUME NEW iv \in Interval, NEW acc \in Access, NEW me, NEW x, x = CoveredPart(iv, acc, me)
    PROVE  /\ x.dom = iv.dom
           /\ x.lo = ob(iv, acc) /\ x.hi = oe(iv, acc)
           /\ x.writer = NextWriter(iv.writer, acc, me)
           /\ x.readers = NextReaders(iv.readers, acc, me)
           /\ \A b \in Nat : In(x, b) <=> In(iv, b) /\ In(acc, b)
<1>1. /\ x.dom = iv.dom
      /\ x.lo = ob(iv, acc) /\ x.hi = oe(iv, acc)
      /\ x.writer = NextWriter(iv.writer, acc, me)
      /\ x.readers = NextReaders(iv.readers, acc, me)
  BY DEF CoveredPart
<1>2. \A b \in Nat : (x.lo <= b /\ b < x.hi) <=>
                     (iv.lo <= b /\ b < iv.hi /\ acc.lo <= b /\ b < acc.hi)
  BY <1>1 DEF ob, oe, Interval, Access
<1>3. QED
  BY <1>1, <1>2 DEF In

LEMMA GapForm ==
    ASSUME shadow \subseteq Interval, NEW acc \in Access, acc.lo < acc.hi, NEW me,
           NEW x \in Gaps(acc, me)
    PROVE  \E p, q : IsGap(x, p, q, acc, me)
<1>1. PICK p \in {acc.lo} \cup {oe(iv, acc) : iv \in Overlapped(acc)},
           q \in {acc.hi} \cup {ob(iv, acc) : iv \in Overlapped(acc)} :
         /\ p < q
         /\ \A iv \in Overlapped(acc) : q <= iv.lo \/ iv.hi <= p
         /\ x = [dom |-> Domain(acc), lo |-> p, hi |-> q,
                 writer  |-> IF acc.is_write THEN {me} ELSE {},
                 readers |-> IF acc.is_write THEN {} ELSE {me}]
  BY GapShape
<1>2. ASSUME NEW iv \in Overlapped(acc)
      PROVE  /\ iv \in Interval /\ iv.lo < acc.hi /\ acc.lo < iv.hi
             /\ iv.lo \in Nat /\ iv.hi \in Nat
  BY DEF Overlapped, Overlap, Interval
<1>3. acc.lo \in Nat /\ acc.hi \in Nat
  BY DEF Access
<1>4. /\ q \in Nat /\ q <= acc.hi
      /\ (q = acc.hi \/ \E iv \in Overlapped(acc) : q = iv.lo \/ (q = acc.lo /\ iv.lo <= acc.lo))
  BY <1>2, <1>3 DEF ob
<1>5. /\ p \in Nat /\ acc.lo <= p
      /\ (p = acc.lo \/ \E iv \in Overlapped(acc) : p = iv.hi \/ p = acc.hi)
  BY <1>2, <1>3 DEF oe
<1>6. /\ p = acc.lo \/ \E iv \in Overlapped(acc) : p = iv.hi
      /\ q = acc.hi \/ \E iv \in Overlapped(acc) : q = iv.lo
  BY <1>1, <1>3, <1>4, <1>5
<1>7. QED
  BY <1>1, <1>4, <1>5, <1>6 DEF IsGap

\* A byte lies in one gap at most.
LEMMA GapUnique ==
    ASSUME shadow \subseteq Interval, \A iv \in shadow : iv.lo < iv.hi,
           NEW acc \in Access, NEW me, NEW b \in Nat,
           NEW x, NEW p, NEW q, IsGap(x, p, q, acc, me), p <= b, b < q,
           NEW y, NEW r, NEW s, IsGap(y, r, s, acc, me), r <= b, b < s
    PROVE  x = y
<1>1. ASSUME NEW iv \in Overlapped(acc) PROVE iv.lo \in Nat /\ iv.hi \in Nat /\ iv.lo < iv.hi
  BY DEF Overlapped, Interval
<1>2. /\ p \in Nat /\ q \in Nat /\ r \in Nat /\ s \in Nat /\ acc.lo \in Nat /\ acc.hi \in Nat
      /\ acc.lo <= p /\ acc.lo <= r /\ q <= acc.hi /\ s <= acc.hi
  BY DEF IsGap, Access
<1>3. ~(p < r)
  BY <1>1, <1>2 DEF IsGap
<1>4. ~(r < p)
  BY <1>1, <1>2 DEF IsGap
<1>5. ~(q < s)
  BY <1>1, <1>2 DEF IsGap
<1>6. ~(s < q)
  BY <1>1, <1>2 DEF IsGap
<1>7. p = r /\ q = s
  BY <1>2, <1>3, <1>4, <1>5, <1>6
<1>8. QED
  BY <1>7 DEF IsGap

LEMMA PieceShape ==
    ASSUME shadow \subseteq Interval, NEW acc \in Access, acc.lo < acc.hi, NEW me,
           NEW iv \in shadow, NEW b \in Nat, In(iv, b), NEW x, x = Piece(iv, b, acc, me)
    PROVE  /\ x \in Split(acc, me) /\ x.dom = iv.dom /\ In(x, b)
           /\ ~Hits(acc, iv.dom, b) => x.writer = iv.writer /\ x.readers = iv.readers
           /\ Hits(acc, iv.dom, b) => /\ x.writer = NextWriter(iv.writer, acc, me)
                     /\ x.readers = NextReaders(iv.readers, acc, me)
<1>1. /\ iv \in Interval /\ iv.lo \in Nat /\ iv.hi \in Nat /\ acc.lo \in Nat /\ acc.hi \in Nat
      /\ iv.lo <= b /\ b < iv.hi
  BY DEF Interval, Access, In
<1>2. iv \in Overlapped(acc) <=> iv.dom = Domain(acc) /\ iv.lo < acc.hi /\ acc.lo < iv.hi
  BY DEF Overlapped, Overlap
<1>3. CASE iv \notin Overlapped(acc)
  <2>1. x = iv /\ ~Hits(acc, iv.dom, b)
    BY <1>1, <1>2, <1>3 DEF Piece, In, Hits
  <2>2. QED
    BY <1>3, <2>1 DEF Split
<1>4. CASE iv \in Overlapped(acc) /\ b < acc.lo
  <2>1. x = HeadPart(iv, acc) /\ ~Hits(acc, iv.dom, b) /\ iv.lo < acc.lo
    BY <1>1, <1>4 DEF Piece, In, Hits
  <2>2. /\ x.dom = iv.dom /\ x.lo = iv.lo /\ x.hi = acc.lo
        /\ x.writer = iv.writer /\ x.readers = iv.readers
    BY <1>1, <2>1, HeadShape
  <2>3. x \in Heads(acc)
    BY <1>4, <2>1 DEF Heads, HeadPart
  <2>4. QED
    BY <1>1, <1>4, <2>1, <2>2, <2>3 DEF Split, In
<1>5. CASE iv \in Overlapped(acc) /\ acc.hi <= b
  <2>1. x = TailPart(iv, acc) /\ ~Hits(acc, iv.dom, b) /\ acc.hi < iv.hi
    BY <1>1, <1>5 DEF Piece, In, Hits
  <2>2. /\ x.dom = iv.dom /\ x.lo = acc.hi /\ x.hi = iv.hi
        /\ x.writer = iv.writer /\ x.readers = iv.readers
    BY <1>1, <2>1, TailShape
  <2>3. x \in Tails(acc)
    BY <1>5, <2>1 DEF Tails, TailPart
  <2>4. QED
    BY <1>1, <1>5, <2>1, <2>2, <2>3 DEF Split, In
<1>6. CASE iv \in Overlapped(acc) /\ acc.lo <= b /\ b < acc.hi
  <2>1. x = CoveredPart(iv, acc, me) /\ Hits(acc, iv.dom, b) /\ In(acc, b)
    BY <1>1, <1>2, <1>6 DEF Piece, In, Hits
  <2>2. /\ x.dom = iv.dom /\ In(x, b)
        /\ x.writer = NextWriter(iv.writer, acc, me)
        /\ x.readers = NextReaders(iv.readers, acc, me)
    BY <1>1, <2>1, CoveredShape
  <2>3. x \in Covered(acc, me)
    BY <1>6, <2>1 DEF Covered, CoveredPart, NextWriter, NextReaders
  <2>4. QED
    BY <2>1, <2>2, <2>3 DEF Split
<1>7. QED
  BY <1>1, <1>3, <1>4, <1>5, <1>6

\* Where the interval at a byte comes from.
LEMMA SplitAt ==
    ASSUME shadow \subseteq Interval, NEW acc \in Access, acc.lo < acc.hi, NEW me,
           NEW x \in Split(acc, me), NEW b \in Nat, In(x, b)
    PROVE  \/ \E iv \in shadow : iv.dom = x.dom /\ In(iv, b) /\ x = Piece(iv, b, acc, me)
           \/ /\ x.dom = Domain(acc) /\ In(acc, b)
              /\ \A iv \in shadow : ~(iv.dom = x.dom /\ In(iv, b))
              /\ \E p, q : IsGap(x, p, q, acc, me) /\ p <= b /\ b < q
<1>1. ASSUME NEW iv \in Overlapped(acc)
      PROVE  /\ iv \in shadow /\ iv \in Interval /\ iv.lo \in Nat /\ iv.hi \in Nat
             /\ iv.lo < acc.hi /\ acc.lo < iv.hi
  BY DEF Overlapped, Overlap, Interval
<1>2. acc.lo \in Nat /\ acc.hi \in Nat
  BY DEF Access
<1>3. CASE x \in shadow /\ x \notin Overlapped(acc)
  BY <1>3 DEF Piece
<1>4. ASSUME NEW iv \in Overlapped(acc), iv.lo < acc.lo, x = HeadPart(iv, acc)
      PROVE  \E jv \in shadow : jv.dom = x.dom /\ In(jv, b) /\ x = Piece(jv, b, acc, me)
  <2>1. x.dom = iv.dom /\ x.lo = iv.lo /\ x.hi = acc.lo
    BY <1>1, <1>4, HeadShape
  <2>2. In(iv, b) /\ b < acc.lo
    BY <1>1, <1>2, <2>1 DEF In
  <2>3. QED
    BY <1>1, <1>4, <2>1, <2>2 DEF Piece
<1>5. ASSUME NEW iv \in Overlapped(acc), acc.hi < iv.hi, x = TailPart(iv, acc)
      PROVE  \E jv \in shadow : jv.dom = x.dom /\ In(jv, b) /\ x = Piece(jv, b, acc, me)
  <2>1. x.dom = iv.dom /\ x.lo = acc.hi /\ x.hi = iv.hi
    BY <1>1, <1>5, TailShape
  <2>2. In(iv, b) /\ acc.hi <= b /\ ~(b < acc.lo)
    BY <1>1, <1>2, <2>1 DEF In
  <2>3. QED
    BY <1>1, <1>5, <2>1, <2>2 DEF Piece
<1>6. ASSUME NEW iv \in Overlapped(acc), x = CoveredPart(iv, acc, me)
      PROVE  \E jv \in shadow : jv.dom = x.dom /\ In(jv, b) /\ x = Piece(jv, b, acc, me)
  <2>1. x.dom = iv.dom /\ In(iv, b) /\ In(acc, b)
    BY <1>1, <1>6, CoveredShape
  <2>2. ~(b < acc.lo) /\ ~(acc.hi <= b)
    BY <1>2, <2>1 DEF In
  <2>3. QED
    BY <1>1, <1>6, <2>1, <2>2 DEF Piece
<1>7. CASE x \in Gaps(acc, me)
  <2>1. PICK p, q : IsGap(x, p, q, acc, me)
    BY <1>7, GapForm
  <2>2. x.dom = Domain(acc) /\ x.lo = p /\ x.hi = q
    BY <2>1 DEF IsGap
  <2>3. /\ p \in Nat /\ q \in Nat /\ acc.lo <= p /\ q <= acc.hi
        /\ \A iv \in Overlapped(acc) : q <= iv.lo \/ iv.hi <= p
    BY <2>1 DEF IsGap
  <2>4. p <= b /\ b < q
    BY <2>2 DEF In
  <2>5. In(acc, b)
    BY <1>2, <2>3, <2>4 DEF In
  <2>6. ASSUME NEW iv \in shadow, iv.dom = Domain(acc), In(iv, b) PROVE FALSE
    <3>1. iv.lo \in Nat /\ iv.hi \in Nat /\ iv.lo <= b /\ b < iv.hi
      BY <2>6 DEF Interval, In
    <3>2. iv \in Overlapped(acc)
      BY <1>2, <2>5, <2>6, <3>1 DEF In, Overlapped, Overlap
    <3>3. QED
      BY <2>3, <2>4, <3>1, <3>2
  <2>7. QED
    BY <2>1, <2>2, <2>4, <2>5, <2>6
<1>8. QED
  BY <1>3, <1>4, <1>5, <1>6, <1>7, SplitCases DEF HeadPart, TailPart, CoveredPart,
                                                    NextWriter, NextReaders

\* A byte of the access that no interval covered lies in a gap.
LEMMA GapExists ==
    ASSUME shadow \subseteq Interval, NEW acc \in Access, NEW me,
           NEW b \in Nat, In(acc, b),
           \A iv \in shadow : ~(iv.dom = Domain(acc) /\ In(iv, b))
    PROVE  \E x \in Split(acc, me) : x.dom = Domain(acc) /\ In(x, b)
<1> DEFINE O == Overlapped(acc)
           P == {acc.lo} \cup {iv.hi : iv \in {iv \in O : iv.hi <= b}}
           Q == {acc.hi} \cup {iv.lo : iv \in {iv \in O : b < iv.lo}}
<1>1. ASSUME NEW iv \in O
      PROVE  /\ iv \in shadow /\ iv.lo \in Nat /\ iv.hi \in Nat
             /\ iv.lo < acc.hi /\ acc.lo < iv.hi /\ (iv.hi <= b \/ b < iv.lo)
  BY DEF Overlapped, Overlap, Interval, In
<1>2. acc.lo \in Nat /\ acc.hi \in Nat /\ acc.lo <= b /\ b < acc.hi
  BY DEF Access, In
<1>3. PICK p \in P : \A y \in P : y <= p
  <2>1. P \subseteq Nat /\ P # {} /\ \A y \in P : y <= b
    BY <1>1, <1>2
  <2> HIDE DEF P
  <2>2. QED
    BY <2>1, Greatest
<1>4. PICK q \in Q : \A y \in Q : q <= y
  <2>1. Q \subseteq Nat /\ Q # {}
    BY <1>1, <1>2
  <2> HIDE DEF Q
  <2>2. QED
    BY <2>1, Least
<1>5. p \in Nat /\ q \in Nat /\ p <= b /\ b < q
  BY <1>1, <1>2
<1>6. \A iv \in O : q <= iv.lo \/ iv.hi <= p
  BY <1>1, <1>3, <1>4
<1>7. p \in {acc.lo} \cup {oe(iv, acc) : iv \in O}
  <2>1. ASSUME NEW iv \in O, iv.hi <= b PROVE oe(iv, acc) = iv.hi
    BY <1>1, <1>2, <2>1 DEF oe
  <2>2. QED
    BY <2>1
<1>8. q \in {acc.hi} \cup {ob(iv, acc) : iv \in O}
  <2>1. ASSUME NEW iv \in O, b < iv.lo PROVE ob(iv, acc) = iv.lo
    BY <1>1, <1>2, <2>1 DEF ob
  <2>2. QED
    BY <2>1
<1> DEFINE x == [dom |-> Domain(acc), lo |-> p, hi |-> q,
                 writer  |-> IF acc.is_write THEN {me} ELSE {},
                 readers |-> IF acc.is_write THEN {} ELSE {me}]
           g == <<p, q>>
<1>9. g \in ({acc.lo} \cup {oe(iv, acc) : iv \in O}) \X ({acc.hi} \cup {ob(iv, acc) : iv \in O})
      /\ g[1] = p /\ g[2] = q
  BY <1>7, <1>8
<1>10. p < q
  BY <1>5
<1> HIDE DEF P, Q
<1>11. x \in Gaps(acc, me)
  BY <1>6, <1>9, <1>10 DEF Gaps
<1>12. x.dom = Domain(acc) /\ In(x, b)
  BY <1>5 DEF In
<1>13. QED
  BY <1>11, <1>12 DEF Split

\* The parts are disjoint when the intervals were, and none is empty.
LEMMA SplitDisjoint ==
    ASSUME IntervalsDisjoint, NEW acc \in Access, acc.lo < acc.hi, NEW me \in Entry
    PROVE  /\ \A x \in Split(acc, me) : x.lo < x.hi
           /\ \A x, y \in Split(acc, me) : x.dom = y.dom /\ Overlap(x, y) => x = y
<1>1. shadow \subseteq Interval /\ \A iv \in shadow : iv.lo < iv.hi
  BY DEF IntervalsDisjoint
<1>2. Split(acc, me) \subseteq Interval
  BY <1>1, SplitType
<1>3. ASSUME NEW x \in Split(acc, me) PROVE x.lo < x.hi
  <2>1. CASE x \in shadow
    BY <1>1, <2>1
  <2>2. ASSUME NEW iv \in Overlapped(acc), iv.lo < acc.lo, x = HeadPart(iv, acc)
        PROVE  x.lo < x.hi
    BY <1>1, <2>2, HeadShape DEF Overlapped
  <2>3. ASSUME NEW iv \in Overlapped(acc), acc.hi < iv.hi, x = TailPart(iv, acc)
        PROVE  x.lo < x.hi
    BY <1>1, <2>3, TailShape DEF Overlapped
  <2>4. ASSUME NEW iv \in Overlapped(acc), x = CoveredPart(iv, acc, me)
        PROVE  x.lo < x.hi
    <3>1. iv \in Interval /\ iv.lo < acc.hi /\ acc.lo < iv.hi /\ iv.lo < iv.hi
      BY <1>1 DEF Overlapped, Overlap
    <3>2. x.lo = ob(iv, acc) /\ x.hi = oe(iv, acc)
      BY <2>4, <3>1, CoveredShape
    <3>3. QED
      BY <3>1, <3>2 DEF ob, oe, Interval, Access
  <2>5. CASE x \in Gaps(acc, me)
    BY <2>5 DEF Gaps
  <2>6. QED
    BY <2>1, <2>2, <2>3, <2>4, <2>5, SplitCases DEF HeadPart, TailPart, CoveredPart,
                                                    NextWriter, NextReaders
<1>4. ASSUME NEW x \in Split(acc, me), NEW y \in Split(acc, me), x.dom = y.dom,
             NEW b \in Nat, In(x, b), In(y, b)
      PROVE  x = y
  <2> DEFINE Old(z, iv) == iv.dom = z.dom /\ In(iv, b) /\ z = Piece(iv, b, acc, me)
             New(z, p, q) == IsGap(z, p, q, acc, me) /\ p <= b /\ b < q
             None0 == \A iv \in shadow : ~(iv.dom = x.dom /\ In(iv, b))
  <2>1. \A z \in {x, y} : \/ \E iv \in shadow : Old(z, iv)
                          \/ None0 /\ \E p, q : New(z, p, q)
    BY <1>1, <1>4, SplitAt
  <2>2. CASE None0
    <3>1. PICK p, q : New(x, p, q)
      BY <2>1, <2>2
    <3>2. PICK r, s : New(y, r, s)
      BY <1>4, <2>1, <2>2
    <3>3. QED
      BY <1>1, <3>1, <3>2, GapUnique
  <2>3. CASE ~None0
    <3>1. PICK iv \in shadow : Old(x, iv)
      BY <2>1, <2>3
    <3>2. PICK jv \in shadow : Old(y, jv)
      BY <2>1, <2>3
    <3>3. iv.lo \in Nat /\ iv.hi \in Nat /\ jv.lo \in Nat /\ jv.hi \in Nat
      BY <1>1 DEF Interval
    <3>4. iv.dom = jv.dom /\ Overlap(iv, jv)
      BY <1>4, <3>1, <3>2, <3>3 DEF Overlap, In
    <3>5. iv = jv
      BY <3>4 DEF IntervalsDisjoint
    <3>6. QED
      BY <3>1, <3>2, <3>5
  <2>4. QED
    BY <2>2, <2>3
<1>5. ASSUME NEW x \in Split(acc, me), NEW y \in Split(acc, me), x.dom = y.dom, Overlap(x, y)
      PROVE  x = y
  <2>1. /\ x.lo \in Nat /\ x.hi \in Nat /\ y.lo \in Nat /\ y.hi \in Nat
        /\ x.lo < y.hi /\ y.lo < x.hi /\ x.lo < x.hi /\ y.lo < y.hi
    BY <1>2, <1>3, <1>5 DEF Interval, Overlap
  <2> DEFINE b == IF x.lo < y.lo THEN y.lo ELSE x.lo
  <2>2. b \in Nat /\ In(x, b) /\ In(y, b)
    BY <2>1 DEF In
  <2> HIDE DEF b
  <2>3. QED
    BY <1>4, <1>5, <2>2
<1>6. QED
  BY <1>3, <1>5

-----------------------------------------------------------------------------
(* The last write and the reads since among the accesses L of a history h. *)

Writes(L, h) == {i \in L : h[i].acc.is_write /\ \A j \in L : h[j].acc.is_write => j <= i}

Reads(L, h) ==
    {i \in L : ~h[i].acc.is_write
               /\ \A j \in L : h[j].acc.is_write \/ h[j].acc.actor = h[i].acc.actor => j <= i}

AccessesOf(S, h) == {h[i].acc : i \in S}

EntryAccesses(S) == {e.acc : e \in S}

\* An interval remembers the last write of L and the reads since.
Remembers(iv, L, h) ==
    /\ EntryAccesses(iv.writer) = AccessesOf(Writes(L, h), h)
    /\ EntryAccesses(iv.readers) = AccessesOf(Reads(L, h), h)

Agree(L, g, h) == \A i \in L : g[i] = h[i]

Below(L, z) == \A i \in L : i \in Nat /\ i < z

LEMMA SameLast ==
    ASSUME NEW L, NEW h, NEW g, Agree(L, g, h), NEW iv, Remembers(iv, L, h)
    PROVE  Remembers(iv, L, g)
<1>1. Writes(L, g) = Writes(L, h) /\ Reads(L, g) = Reads(L, h)
  BY DEF Writes, Reads, Agree
<1>2. Writes(L, h) \subseteq L /\ Reads(L, h) \subseteq L
  BY DEF Writes, Reads
<1>3. QED
  BY <1>1, <1>2 DEF Remembers, AccessesOf, Agree

\* The writer and the readers after one more access.
LEMMA NextLast ==
    ASSUME NEW L, NEW z \in Nat, Below(L, z), NEW h, NEW g, Agree(L, g, h),
           NEW acc, g[z].acc = acc, NEW me, me.acc = acc,
           NEW iv, Remembers(iv, L, h), NEW x,
           x.writer = NextWriter(iv.writer, acc, me),
           x.readers = NextReaders(iv.readers, acc, me),
           NEW M, M = L \cup {z}
    PROVE  Remembers(x, M, g)
<1>1. ASSUME NEW i \in L PROVE i \in Nat /\ i < z /\ ~(z <= i) /\ i <= z
  <2>1. i \in Nat /\ i < z
    BY DEF Below
  <2>2. QED
    BY <2>1
<1>2. ASSUME NEW i \in L PROVE g[i] = h[i]
  BY DEF Agree
<1>3. CASE acc.is_write
  <2>1. Writes(M, g) = {z}
    <3>1. z \in Writes(M, g)
      BY <1>1, <1>3 DEF Writes
    <3>2. ASSUME NEW i \in Writes(M, g) PROVE i = z
      <4>1. i \in M /\ (g[z].acc.is_write => z <= i)
        BY <3>2 DEF Writes
      <4>2. QED
        BY <1>1, <1>3, <4>1
    <3>3. QED
      BY <3>1, <3>2
  <2>2. Reads(M, g) = {}
    <3>1. ASSUME NEW i \in Reads(M, g) PROVE FALSE
      <4>1. i \in M /\ ~g[i].acc.is_write /\ (g[z].acc.is_write => z <= i)
        BY <3>1 DEF Reads
      <4>2. QED
        BY <1>1, <1>3, <4>1
    <3>2. QED
      BY <3>1
  <2>3. x.writer = {me} /\ x.readers = {}
    BY <1>3 DEF NextWriter, NextReaders
  <2>4. /\ EntryAccesses({me}) = {acc} /\ EntryAccesses({}) = {}
        /\ AccessesOf({z}, g) = {acc} /\ AccessesOf({}, g) = {}
    BY DEF EntryAccesses, AccessesOf
  <2>5. QED
    BY <2>1, <2>2, <2>3, <2>4 DEF Remembers
<1>4. CASE ~acc.is_write
  <2>1. Writes(M, g) = Writes(L, h)
    BY <1>1, <1>2, <1>4 DEF Writes
  <2>2. Writes(L, h) \subseteq L /\ Reads(L, h) \subseteq L
    BY DEF Writes, Reads
  <2>3. AccessesOf(Writes(M, g), g) = AccessesOf(Writes(L, h), h)
    BY <1>2, <2>1, <2>2 DEF AccessesOf
  <2>4. Reads(M, g) = {i \in Reads(L, h) : h[i].acc.actor # acc.actor} \cup {z}
    <3>1. z \in Reads(M, g)
      BY <1>1, <1>4 DEF Reads
    <3>2. ASSUME NEW i \in L
          PROVE  i \in Reads(M, g) <=> i \in Reads(L, h) /\ h[i].acc.actor # acc.actor
      <4>1. i \in Reads(M, g) <=>
              /\ ~g[i].acc.is_write
              /\ \A j \in L : g[j].acc.is_write \/ g[j].acc.actor = g[i].acc.actor => j <= i
              /\ ~(g[z].acc.is_write \/ g[z].acc.actor = g[i].acc.actor)
        BY <1>1 DEF Reads
      <4>2. i \in Reads(L, h) <=>
              /\ ~h[i].acc.is_write
              /\ \A j \in L : h[j].acc.is_write \/ h[j].acc.actor = h[i].acc.actor => j <= i
        BY DEF Reads
      <4>3. QED
        BY <1>4, <1>2, <4>1, <4>2
    <3>3. Reads(M, g) \subseteq M
      BY DEF Reads
    <3>4. QED
      BY <2>2, <3>1, <3>2, <3>3
  <2>5. AccessesOf(Reads(M, g), g) =
          {y \in AccessesOf(Reads(L, h), h) : y.actor # acc.actor} \cup {acc}
    <3> DEFINE R == Reads(L, h)
    <3>1. R \subseteq L /\ Reads(M, g) = {i \in R : h[i].acc.actor # acc.actor} \cup {z}
      BY <2>2, <2>4
    <3> DEFINE Q == Reads(M, g)
               A == {y \in AccessesOf(R, h) : y.actor # acc.actor} \cup {acc}
    <3> HIDE DEF R, Q
    <3>2. \A i \in R : g[i].acc = h[i].acc
      BY <1>2, <3>1
    <3>3. Q = {i \in R : h[i].acc.actor # acc.actor} \cup {z}
      BY <3>1 DEF Q
    <3>4. ASSUME NEW i \in Q PROVE g[i].acc \in A
      BY <3>2, <3>3 DEF AccessesOf
    <3>5. ASSUME NEW y \in A PROVE \E i \in Q : y = g[i].acc
      BY <3>2, <3>3 DEF AccessesOf
    <3>6. AccessesOf(Q, g) = A
      <4> HIDE DEF A
      <4>1. QED
        BY <3>4, <3>5 DEF AccessesOf
    <3>7. QED
      BY <3>6 DEF Q, R
  <2>6. EntryAccesses(x.writer) = EntryAccesses(iv.writer)
    BY <1>4 DEF NextWriter
  <2>7. EntryAccesses(x.readers) =
          {y \in EntryAccesses(iv.readers) : y.actor # acc.actor} \cup {acc}
    BY <1>4 DEF NextReaders, EntryAccesses
  <2>8. QED
    BY <2>3, <2>5, <2>6, <2>7 DEF Remembers
<1>5. QED
  BY <1>3, <1>4

-----------------------------------------------------------------------------
(* The shadow.                                                             *)

ShadowDomain == Space \X (Alloc \cup Nat) \X Nat

Kept(d, b) == \E iv \in shadow : iv.dom = d /\ In(iv, b)

RInv ==
    /\ IntervalsDisjoint
    /\ \A iv \in shadow : \A b \in Nat :
          In(iv, b) => Remembers(iv, Live(iv.dom, b), hist)
    /\ \A d \in ShadowDomain : \A b \in Nat : Live(d, b) # {} => Kept(d, b)
    /\ \A i \in Accesses : hist[i].acc.space = "global" =>
          /\ hist[i].acc.domain \in Alloc
          /\ hist[i].acc.generation <= generations[hist[i].acc.domain]

LEMMA AccessInHistory ==
    ASSUME TypeInv, NEW i \in Accesses
    PROVE  /\ hist[i].acc \in Access /\ Domain(hist[i].acc) \in ShadowDomain
           /\ i \in 1 .. Len(hist) /\ i \in Nat
<1>1. i \in 1 .. Len(hist) /\ hist[i].kind = "access" /\ hist \in Seq(Call)
  BY DEF Accesses, TypeInv
<1>2. hist[i] \in Call
  BY <1>1
<1>3. hist[i].acc \in Access
  BY <1>1, <1>2 DEF Call
<1>4. QED
  BY <1>1, <1>3 DEF Access, Domain, ShadowDomain

LEMMA AccessesGrow ==
    ASSUME hist \in Seq(Call), NEW e \in Call, hist' = Append(hist, e)
    PROVE  Accesses' = IF e.kind = "access" THEN Accesses \cup {Len(hist) + 1} ELSE Accesses
<1> DEFINE z == Len(hist)
<1>1. /\ z \in Nat /\ Len(hist') = z + 1
      /\ \A i \in 1 .. z : hist'[i] = hist[i]
      /\ hist'[z + 1] = e
      /\ 1 .. (z + 1) = (1 .. z) \cup {z + 1}
      /\ z + 1 \notin 1 .. z
  BY HistoryGrows
<1> HIDE DEF z
<1>2. Accesses' = {i \in 1 .. (z + 1) : hist'[i].kind = "access"}
  BY <1>1 DEF Accesses
<1>3. Accesses = {i \in 1 .. z : hist[i].kind = "access"}
  BY DEF Accesses, z
<1>4. CASE e.kind = "access"
  <2>1. Accesses' = Accesses \cup {z + 1}
    BY <1>1, <1>2, <1>3, <1>4
  <2>2. QED
    BY <1>4, <2>1 DEF z
<1>5. CASE e.kind # "access"
  <2>1. Accesses' = Accesses
    BY <1>1, <1>2, <1>3, <1>5
  <2>2. QED
    BY <1>5, <2>1
<1>6. QED
  BY <1>4, <1>5

\* A byte remembers the access that hits it, as long as its domain lives.
LEMMA LiveAccess ==
    ASSUME TypeInv, NEW acc \in Access, NEW e, e = [kind |-> "access", acc |-> acc],
           hist' = Append(hist, e), generations' = generations,
           acc.space = "shared" => Running(acc.domain),
           acc.space = "global" => acc.generation = generations[acc.domain],
           NEW d, NEW b, NEW z, z = Len(hist) + 1
    PROVE  Live(d, b)' = IF Hits(acc, d, b) THEN Live(d, b) \cup {z} ELSE Live(d, b)
<1>1. hist \in Seq(Call) /\ e \in Call /\ e.kind = "access" /\ e.acc = acc
  BY DEF TypeInv, Call
<1>2. /\ Accesses' = Accesses \cup {z} /\ SinceLaunch' = SinceLaunch \cup {z}
  BY <1>1, AccessesGrow, SinceLaunchGrows
<1>3. /\ \A i \in Accesses : hist'[i] = hist[i] /\ i # z
      /\ hist'[z] = e /\ z \notin Accesses /\ z \notin SinceLaunch
  <2>1. Accesses \subseteq 1 .. Len(hist) /\ SinceLaunch \subseteq 1 .. Len(hist)
    BY DEF Accesses, SinceLaunch
  <2>2. QED
    BY <1>1, <2>1, HistoryGrows
<1>4. \A c : Running(c)' <=> Running(c)
  BY <1>1, RunningGrows
<1> DEFINE OK == /\ d[1] = "shared" => Running(d[2])
                 /\ d[1] = "global" => d[3] = generations[d[2]]
<1>5. Live(d, b) = {i \in Accesses \cap SinceLaunch :
                      Domain(hist[i].acc) = d /\ In(hist[i].acc, b) /\ OK}
  BY DEF Live, In
<1>6. Live(d, b)' = {i \in Accesses' \cap SinceLaunch' :
                      Domain(hist'[i].acc) = d /\ In(hist'[i].acc, b) /\ OK}
  BY <1>4 DEF Live, In
<1>7. d = Domain(acc) => OK
  <2>1. d = Domain(acc) => d[1] = acc.space /\ d[2] = acc.domain /\ d[3] = acc.generation
    BY DEF Domain
  <2>2. QED
    BY <2>1
<1> DEFINE J == Accesses \cap SinceLaunch
<1> HIDE DEF OK
<1>8. Accesses' \cap SinceLaunch' = J \cup {z} /\ z \notin J
  BY <1>2, <1>3
<1>9. ASSUME NEW i \in J
      PROVE  i \in Live(d, b)' <=> i \in Live(d, b)
  BY <1>3, <1>5, <1>6, <1>8
<1>10. z \in Live(d, b)' <=> Hits(acc, d, b)
  BY <1>1, <1>3, <1>6, <1>7, <1>8 DEF Hits
<1>11. Live(d, b) \subseteq J /\ Live(d, b)' \subseteq J \cup {z}
  BY <1>5, <1>6, <1>8
<1> HIDE DEF J
<1>12. CASE Hits(acc, d, b)
  <2>1. Live(d, b)' = Live(d, b) \cup {z}
    BY <1>8, <1>9, <1>10, <1>11, <1>12
  <2>2. QED
    BY <1>12, <2>1
<1>13. CASE ~Hits(acc, d, b)
  <2>1. Live(d, b)' = Live(d, b)
    BY <1>8, <1>9, <1>10, <1>11, <1>13
  <2>2. QED
    BY <1>13, <2>1
<1>14. QED
  BY <1>12, <1>13

LEMMA LiveInHistory ==
    ASSUME TypeInv, NEW d, NEW b
    PROVE  /\ Live(d, b) \subseteq Nat /\ Live(d, b) \subseteq 1 .. Len(hist)
           /\ \A i \in Live(d, b) : i < Len(hist) + 1
<1>1. hist \in Seq(Call) /\ Len(hist) \in Nat
  BY DEF TypeInv
<1>2. Live(d, b) \subseteq 1 .. Len(hist)
  BY DEF Live, Accesses
<1>3. QED
  BY <1>1, <1>2

\* The shadow part of observe and atomic_rmw.
LEMMA RecordShadow ==
    ASSUME TypeInv, RInv, NEW acc \in Access, acc.lo < acc.hi,
           NEW me \in Entry, me.acc = acc, shadow' = Split(acc, me),
           NEW e, e = [kind |-> "access", acc |-> acc],
           hist' = Append(hist, e), generations' = generations,
           acc.space = "shared" => Running(acc.domain),
           acc.space = "global" => /\ acc.domain \in Alloc
                                   /\ acc.generation = generations[acc.domain]
    PROVE  RInv'
<1> DEFINE z == Len(hist) + 1
<1>1. /\ hist \in Seq(Call) /\ e \in Call /\ e.kind = "access" /\ e.acc = acc
      /\ generations \in [Alloc -> Nat]
  BY DEF TypeInv, Call
<1>2. /\ z \in Nat /\ hist'[z] = e /\ \A i \in 1 .. Len(hist) : hist'[i] = hist[i]
  BY <1>1, HistoryGrows
<1>3. shadow \subseteq Interval /\ IntervalsDisjoint
  BY DEF RInv, IntervalsDisjoint
<1>4. IntervalsDisjoint'
  <2>1. shadow' \subseteq Interval
    BY <1>3, SplitType
  <2>2. /\ \A x \in shadow' : x.lo < x.hi
        /\ \A x, y \in shadow' : x.dom = y.dom /\ Overlap(x, y) => x = y
    BY <1>3, SplitDisjoint
  <2>3. QED
    BY <2>1, <2>2 DEF IntervalsDisjoint
<1>5. ASSUME NEW d, NEW b
      PROVE  Live(d, b)' = IF Hits(acc, d, b) THEN Live(d, b) \cup {z} ELSE Live(d, b)
  BY LiveAccess
<1> HIDE DEF z
<1>6. ASSUME NEW d, NEW b
      PROVE  /\ Live(d, b) \subseteq Nat
             /\ \A i \in Live(d, b) : i < z /\ hist'[i] = hist[i]
  BY <1>2, LiveInHistory DEF z
<1>7. acc.is_write \in BOOLEAN
  BY DEF Access
<1>8. ASSUME NEW x \in shadow', NEW b \in Nat, In(x, b)
      PROVE  Remembers(x, Live(x.dom, b)', hist')
  <2>1. x \in Split(acc, me)
    OBVIOUS
  <2>2. ASSUME NEW iv \in shadow, iv.dom = x.dom, In(iv, b), x = Piece(iv, b, acc, me)
        PROVE  Remembers(x, Live(x.dom, b)', hist')
    <3> DEFINE L == Live(x.dom, b)
    <3>1. Remembers(iv, L, hist)
      BY <2>2 DEF RInv
    <3>2. L \subseteq Nat /\ \A i \in L : i < z /\ hist'[i] = hist[i]
      BY <1>6
    <3>3. Live(x.dom, b)' = IF Hits(acc, x.dom, b) THEN L \cup {z} ELSE L
      BY <1>5
    <3>4. /\ ~Hits(acc, iv.dom, b) => x.writer = iv.writer /\ x.readers = iv.readers
          /\ Hits(acc, iv.dom, b) => /\ x.writer = NextWriter(iv.writer, acc, me)
                                     /\ x.readers = NextReaders(iv.readers, acc, me)
      BY <1>3, <2>2, PieceShape
    <3> HIDE DEF L
    <3>5. CASE Hits(acc, x.dom, b)
      <4>1. hist'[z].acc = acc
        BY <1>1, <1>2
      <4>2. x.writer = NextWriter(iv.writer, acc, me) /\ x.readers = NextReaders(iv.readers, acc, me)
        BY <2>2, <3>4, <3>5
      <4> DEFINE g == hist'
      <4>3. Below(L, z) /\ Agree(L, g, hist) /\ g[z].acc = acc
        BY <3>2, <4>1 DEF Below, Agree
      <4> DEFINE M == L \cup {z}
      <4>4. M = L \cup {z}
        OBVIOUS
      <4> HIDE DEF g, M
      <4>5. Remembers(x, M, g)
        BY <1>2, <3>1, <4>2, <4>3, <4>4, NextLast
      <4>6. QED
        BY <3>3, <3>5, <4>4, <4>5 DEF g
    <3>6. CASE ~Hits(acc, x.dom, b)
      <4>1. Remembers(iv, L, hist')
        BY <3>1, <3>2, SameLast DEF Agree
      <4>2. x.writer = iv.writer /\ x.readers = iv.readers /\ Live(x.dom, b)' = L
        BY <2>2, <3>3, <3>4, <3>6
      <4>3. QED
        BY <4>1, <4>2 DEF Remembers
    <3>7. QED
      BY <3>5, <3>6
  <2>3. ASSUME x.dom = Domain(acc), In(acc, b),
               \A iv \in shadow : ~(iv.dom = x.dom /\ In(iv, b)),
               NEW p, NEW q, IsGap(x, p, q, acc, me)
        PROVE  Remembers(x, Live(x.dom, b)', hist')
    <3>1. x.dom \in ShadowDomain
      BY <2>3 DEF Domain, Access, ShadowDomain
    <3>2. Live(x.dom, b) = {}
      BY <2>3, <3>1 DEF RInv, Kept
    <3>3. Live(x.dom, b)' = {} \cup {z}
      BY <1>5, <2>3, <3>2 DEF Hits
    <3> DEFINE iv == [writer |-> {}, readers |-> {}]
    <3>4. Remembers(iv, {}, hist)
      BY DEF Remembers, EntryAccesses, AccessesOf, Writes, Reads
    <3>5. /\ x.writer = NextWriter(iv.writer, acc, me)
          /\ x.readers = NextReaders(iv.readers, acc, me)
      BY <2>3 DEF IsGap, NextWriter, NextReaders
    <3>6. hist'[z].acc = acc
      BY <1>1, <1>2
    <3> HIDE DEF iv
    <3> DEFINE L == {}
               g == hist'
    <3>7. Below(L, z) /\ Agree(L, g, hist) /\ g[z].acc = acc
      BY <3>6 DEF Below, Agree
    <3>8. Remembers(iv, L, hist) /\ Live(x.dom, b)' = L \cup {z}
      BY <3>3, <3>4
    <3> HIDE DEF L, g
    <3> DEFINE M == L \cup {z}
    <3>9. M = L \cup {z}
      OBVIOUS
    <3> HIDE DEF M
    <3>10. Remembers(x, M, g)
      BY <1>2, <3>5, <3>7, <3>8, <3>9, NextLast
    <3>11. QED
      BY <3>8, <3>9, <3>10 DEF g
  <2>4. QED
    BY <1>3, <1>8, <2>1, <2>2, <2>3, SplitAt
<1>9. ASSUME NEW d \in ShadowDomain, NEW b \in Nat, Live(d, b)' # {}
      PROVE  Kept(d, b)'
  <2>1. CASE Kept(d, b)
    <3>1. PICK iv \in shadow : iv.dom = d /\ In(iv, b)
      BY <2>1 DEF Kept
    <3> DEFINE x == Piece(iv, b, acc, me)
    <3>2. x = Piece(iv, b, acc, me)
      OBVIOUS
    <3> HIDE DEF x
    <3>3. x \in Split(acc, me) /\ x.dom = iv.dom /\ In(x, b)
      BY <1>3, <3>1, <3>2, PieceShape
    <3>4. QED
      BY <3>1, <3>3 DEF Kept
  <2>2. CASE ~Kept(d, b)
    <3>1. Live(d, b) = {}
      BY <2>2 DEF RInv
    <3>2. Hits(acc, d, b)
      BY <1>5, <1>9, <3>1
    <3>3. In(acc, b) /\ \A iv \in shadow : ~(iv.dom = Domain(acc) /\ In(iv, b))
      BY <2>2, <3>2 DEF Kept, Hits
    <3>4. \E x \in Split(acc, me) : x.dom = Domain(acc) /\ In(x, b)
      BY <1>3, <3>3, GapExists
    <3>5. QED
      BY <3>2, <3>4 DEF Kept, Hits
  <2>3. QED
    BY <2>1, <2>2
<1>10. ASSUME NEW i \in Accesses', hist'[i].acc.space = "global"
       PROVE  /\ hist'[i].acc.domain \in Alloc
              /\ hist'[i].acc.generation <= generations'[hist'[i].acc.domain]
  <2>1. Accesses' = Accesses \cup {z}
    BY <1>1, AccessesGrow DEF z
  <2>2. CASE i \in Accesses
    <3>1. hist'[i] = hist[i]
      BY <1>2, <2>2, AccessInHistory
    <3>2. QED
      BY <1>10, <2>2, <3>1 DEF RInv
  <2>3. CASE i = z
    <3>1. hist'[i].acc = acc /\ acc.space = "global"
      BY <1>1, <1>2, <1>10, <2>3
    <3>2. acc.domain \in Alloc /\ acc.generation = generations[acc.domain]
      BY <3>1
    <3>3. generations[acc.domain] \in Nat
      BY <1>1, <3>2
    <3>4. acc.generation <= generations[acc.domain]
      BY <3>2, <3>3
    <3>5. QED
      BY <3>1, <3>2, <3>4
  <2>4. QED
    BY <2>1, <2>2, <2>3
<1>11. QED
  BY <1>4, <1>8, <1>9, <1>10 DEF RInv, In, Remembers, EntryAccesses

\* Which accesses live on after a call that is no access and no launch.
LEMMA LiveOther ==
    ASSUME TypeInv, NEW e \in Call, e.kind \notin {"access", "launch"},
           hist' = Append(hist, e), NEW d, NEW b
    PROVE  Live(d, b)' = {i \in Accesses \cap SinceLaunch :
                             /\ Domain(hist[i].acc) = d /\ In(hist[i].acc, b)
                             /\ d[1] = "shared" => Running(d[2])'
                             /\ d[1] = "global" => d[3] = generations'[d[2]]}
<1> DEFINE z == Len(hist) + 1
           J == Accesses \cap SinceLaunch
<1>1. hist \in Seq(Call)
  BY DEF TypeInv
<1>2. /\ Accesses' = Accesses /\ SinceLaunch' = SinceLaunch \cup {z}
  BY <1>1, AccessesGrow, SinceLaunchGrows
<1>3. Accesses \subseteq 1 .. Len(hist)
  BY DEF Accesses
<1>4. (\A i \in Accesses : hist'[i] = hist[i]) /\ z \notin Accesses
  BY <1>1, <1>3, HistoryGrows
<1> HIDE DEF z
<1>5. Accesses' \cap SinceLaunch' = J
  BY <1>2, <1>4
<1>6. \A i \in J : hist'[i] = hist[i]
  BY <1>4
<1>7. Live(d, b)' = {i \in Accesses' \cap SinceLaunch' :
                        /\ Domain(hist'[i].acc) = d /\ In(hist'[i].acc, b)
                        /\ d[1] = "shared" => Running(d[2])'
                        /\ d[1] = "global" => d[3] = generations'[d[2]]}
  BY DEF Live, In
<1> HIDE DEF J
<1>8. QED
  BY <1>5, <1>6, <1>7 DEF J

\* Calls that forget the domains of F and touch no other.
LEMMA ForgetShadow ==
    ASSUME TypeInv, RInv, NEW e \in Call, e.kind # "access", hist' = Append(hist, e),
           NEW F, shadow' = {iv \in shadow : iv.dom \notin F},
           \A d \in ShadowDomain : \A b \in Nat :
              Live(d, b)' = IF d \in F THEN {} ELSE Live(d, b),
           \A i \in Accesses : hist[i].acc.space = "global" =>
              hist[i].acc.generation <= generations'[hist[i].acc.domain]
    PROVE  RInv'
<1>1. hist \in Seq(Call) /\ shadow \subseteq Interval
  BY DEF TypeInv
<1>2. Accesses' = Accesses
  BY <1>1, AccessesGrow
<1>3. \A i \in 1 .. Len(hist) : hist'[i] = hist[i]
  BY <1>1, HistoryGrows
<1>4. IntervalsDisjoint'
  BY DEF RInv, IntervalsDisjoint
<1>5. ASSUME NEW iv \in shadow', NEW b \in Nat, In(iv, b)
      PROVE  Remembers(iv, Live(iv.dom, b)', hist')
  <2> DEFINE L == Live(iv.dom, b)
             g == hist'
  <2>1. iv \in shadow /\ iv.dom \notin F /\ iv.dom \in ShadowDomain
    BY <1>1 DEF Interval, ShadowDomain
  <2>2. Live(iv.dom, b)' = L
    BY <2>1
  <2>3. Remembers(iv, L, hist)
    BY <1>5, <2>1 DEF RInv
  <2>4. Agree(L, g, hist)
    BY <1>3, LiveInHistory DEF Agree
  <2> HIDE DEF L, g
  <2>5. Remembers(iv, L, g)
    BY <2>3, <2>4, SameLast
  <2>6. QED
    BY <2>2, <2>5 DEF g
<1>6. ASSUME NEW d \in ShadowDomain, NEW b \in Nat, Live(d, b)' # {}
      PROVE  Kept(d, b)'
  <2>1. d \notin F /\ Live(d, b) # {}
    BY <1>6
  <2>2. Kept(d, b)
    BY <2>1 DEF RInv
  <2>3. QED
    BY <2>1, <2>2 DEF Kept
<1>7. ASSUME NEW i \in Accesses', hist'[i].acc.space = "global"
      PROVE  /\ hist'[i].acc.domain \in Alloc
             /\ hist'[i].acc.generation <= generations'[hist'[i].acc.domain]
  <2>1. i \in Accesses /\ hist'[i] = hist[i]
    BY <1>2, <1>3, AccessInHistory
  <2>2. hist[i].acc.space = "global"
    BY <1>7, <2>1
  <2>3. QED
    BY <2>1, <2>2 DEF RInv
<1>8. QED
  BY <1>4, <1>5, <1>6, <1>7 DEF RInv, In, Remembers, EntryAccesses

\* Calls after which the same accesses live.
LEMMA QuietShadow ==
    ASSUME TypeInv, RInv, NEW e \in Call, e.kind \in {"barrier", "fence"},
           hist' = Append(hist, e), shadow' = shadow, generations' = generations
    PROVE  RInv'
<1>1. hist \in Seq(Call)
  BY DEF TypeInv
<1>2. \A c : Running(c)' <=> Running(c)
  BY <1>1, RunningGrows
<1>3. ASSUME NEW d \in ShadowDomain, NEW b \in Nat PROVE Live(d, b)' = Live(d, b)
  <2>1. Live(d, b)' = {i \in Accesses \cap SinceLaunch :
                          /\ Domain(hist[i].acc) = d /\ In(hist[i].acc, b)
                          /\ d[1] = "shared" => Running(d[2])'
                          /\ d[1] = "global" => d[3] = generations'[d[2]]}
    BY LiveOther
  <2>2. QED
    BY <1>2, <2>1 DEF Live, In
<1> DEFINE F == {}
<1>4. shadow' = {iv \in shadow : iv.dom \notin F}
  OBVIOUS
<1>5. \A d \in ShadowDomain : \A b \in Nat :
         Live(d, b)' = IF d \in F THEN {} ELSE Live(d, b)
  BY <1>3
<1>6. \A i \in Accesses : hist[i].acc.space = "global" =>
         hist[i].acc.generation <= generations'[hist[i].acc.domain]
  BY DEF RInv
<1> HIDE DEF F
<1>7. QED
  BY <1>4, <1>5, <1>6, ForgetShadow

LEMMA LaunchShadow ==
    ASSUME TypeInv, RInv, Launch
    PROVE  RInv'
<1> DEFINE e == [kind |-> "launch"]
           F == ShadowDomain
<1>1. /\ e \in Call /\ e.kind = "launch" /\ hist' = Append(hist, e) /\ hist \in Seq(Call)
      /\ shadow \subseteq Interval
  BY DEF Launch, Called, Call, TypeInv
<1>2. shadow' = {} /\ generations' = generations
  BY DEF Launch, launch
<1> HIDE DEF e
<1>3. SinceLaunch' = {}
  BY <1>1, SinceLaunchGrows
<1>4. \A d, b : Live(d, b)' = {}
  BY <1>3 DEF Live
<1>5. shadow' = {iv \in shadow : iv.dom \notin F}
  BY <1>1, <1>2 DEF Interval, ShadowDomain
<1>6. \A d \in ShadowDomain : \A b \in Nat :
         Live(d, b)' = IF d \in F THEN {} ELSE Live(d, b)
  BY <1>4
<1>7. \A i \in Accesses : hist[i].acc.space = "global" =>
         hist[i].acc.generation <= generations'[hist[i].acc.domain]
  BY <1>2 DEF RInv
<1> HIDE DEF F
<1>8. QED
  BY <1>1, <1>5, <1>6, <1>7, ForgetShadow

LEMMA ReclaimCtaShadow ==
    ASSUME TypeInv, RInv, NEW c \in Ctas, ReclaimCta(c)
    PROVE  RInv'
<1> DEFINE e == [kind |-> "reclaim_cta", cta |-> c]
           F == {d \in ShadowDomain : d[1] = "shared" /\ d[2] = c}
<1>1. /\ e \in Call /\ e.kind = "reclaim_cta" /\ e.cta = c
      /\ hist' = Append(hist, e) /\ hist \in Seq(Call) /\ shadow \subseteq Interval
  BY DEF ReclaimCta, Called, Call, TypeInv
<1>2. /\ shadow' = {iv \in shadow : ~(iv.dom[1] = "shared" /\ iv.dom[2] = c)}
      /\ generations' = generations
  BY DEF ReclaimCta, reclaim_cta
<1> HIDE DEF e
<1>3. \A x : Running(x)' <=> Running(x) /\ x # c
  BY <1>1, RunningGrows
<1>4. shadow' = {iv \in shadow : iv.dom \notin F}
  <2>1. \A iv \in shadow : iv.dom \in ShadowDomain
    BY <1>1 DEF Interval, ShadowDomain
  <2>2. QED
    BY <1>2, <2>1
<1>5. ASSUME NEW d \in ShadowDomain, NEW b \in Nat
      PROVE  Live(d, b)' = IF d \in F THEN {} ELSE Live(d, b)
  <2>1. Live(d, b)' = {i \in Accesses \cap SinceLaunch :
                          /\ Domain(hist[i].acc) = d /\ In(hist[i].acc, b)
                          /\ d[1] = "shared" => Running(d[2])'
                          /\ d[1] = "global" => d[3] = generations'[d[2]]}
    BY <1>1, LiveOther
  <2>2. CASE d \in F
    <3>1. d[1] = "shared" /\ ~Running(d[2])'
      BY <1>3, <2>2
    <3>2. QED
      BY <2>1, <2>2, <3>1
  <2>3. CASE d \notin F
    <3>1. d[1] = "shared" => (Running(d[2])' <=> Running(d[2]))
      BY <1>3, <2>3
    <3>2. Live(d, b)' = Live(d, b)
      BY <1>2, <2>1, <3>1 DEF Live, In
    <3>3. QED
      BY <2>3, <3>2
  <2>4. QED
    BY <2>2, <2>3
<1>6. \A i \in Accesses : hist[i].acc.space = "global" =>
         hist[i].acc.generation <= generations'[hist[i].acc.domain]
  BY <1>2 DEF RInv
<1> HIDE DEF F
<1>7. QED
  BY <1>1, <1>4, <1>5, <1>6, ForgetShadow

\* The generation that makes an allocation's accesses stale: none of the accesses
\* made so far belongs to the new one.
LEMMA ReclaimAllocationShadow ==
    ASSUME TypeInv, RInv, NEW id \in Alloc, ReclaimAllocation(id)
    PROVE  RInv'
<1> DEFINE e == [kind |-> "reclaim_allocation", id |-> id]
           F == {d \in ShadowDomain : d[1] = "global" /\ d[2] = id}
<1>1. /\ e \in Call /\ e.kind = "reclaim_allocation"
      /\ hist' = Append(hist, e) /\ hist \in Seq(Call) /\ shadow \subseteq Interval
      /\ generations \in [Alloc -> Nat]
  BY DEF ReclaimAllocation, Called, Call, TypeInv
<1>2. /\ shadow' = {iv \in shadow : ~(iv.dom[1] = "global" /\ iv.dom[2] = id)}
      /\ generations' = [generations EXCEPT ![id] = @ + 1]
  BY DEF ReclaimAllocation, reclaim_allocation
<1> HIDE DEF e
<1>3. \A x : Running(x)' <=> Running(x)
  BY <1>1, RunningGrows
<1>4. shadow' = {iv \in shadow : iv.dom \notin F}
  <2>1. \A iv \in shadow : iv.dom \in ShadowDomain
    BY <1>1 DEF Interval, ShadowDomain
  <2>2. QED
    BY <1>2, <2>1
<1>5. /\ generations'[id] = generations[id] + 1 /\ generations[id] \in Nat
      /\ \A x \in Alloc \ {id} : generations'[x] = generations[x]
  BY <1>1, <1>2
<1>6. ASSUME NEW i \in Accesses, hist[i].acc.space = "global"
      PROVE  /\ hist[i].acc.domain \in Alloc /\ hist[i].acc.generation \in Nat
             /\ hist[i].acc.generation <= generations[hist[i].acc.domain]
             /\ hist[i].acc.generation <= generations'[hist[i].acc.domain]
             /\ hist[i].acc.domain = id => hist[i].acc.generation # generations'[id]
  <2>1. /\ hist[i].acc.domain \in Alloc
        /\ hist[i].acc.generation <= generations[hist[i].acc.domain]
    BY <1>6 DEF RInv
  <2>2. hist[i].acc.generation \in Nat
    BY AccessInHistory DEF Access
  <2>3. generations[hist[i].acc.domain] \in Nat
    BY <1>1, <2>1
  <2> DEFINE g == hist[i].acc.generation
             x == hist[i].acc.domain
  <2>4. g \in Nat /\ x \in Alloc /\ g <= generations[x] /\ generations[x] \in Nat
    BY <2>1, <2>2, <2>3
  <2> HIDE DEF g, x
  <2>5. g <= generations'[x] /\ (x = id => g # generations'[id])
    BY <1>5, <2>4
  <2>6. QED
    BY <2>4, <2>5 DEF g, x
<1>7. ASSUME NEW d \in ShadowDomain, NEW b \in Nat
      PROVE  Live(d, b)' = IF d \in F THEN {} ELSE Live(d, b)
  <2>1. Live(d, b)' = {i \in Accesses \cap SinceLaunch :
                          /\ Domain(hist[i].acc) = d /\ In(hist[i].acc, b)
                          /\ d[1] = "shared" => Running(d[2])'
                          /\ d[1] = "global" => d[3] = generations'[d[2]]}
    BY <1>1, LiveOther
  <2>2. ASSUME NEW i \in Accesses, Domain(hist[i].acc) = d, d[1] = "global"
        PROVE  /\ d[2] \in Alloc
               /\ d[2] = id => d[3] # generations'[d[2]]
               /\ d[2] # id => generations'[d[2]] = generations[d[2]]
    <3>1. /\ hist[i].acc.space = "global" /\ hist[i].acc.domain = d[2]
          /\ hist[i].acc.generation = d[3]
      BY <2>2 DEF Domain
    <3>2. d[2] \in Alloc /\ (d[2] = id => d[3] # generations'[id])
      BY <1>6, <3>1
    <3>3. QED
      BY <1>5, <3>2
  <2>3. CASE d \in F
    <3>1. d[1] = "global" /\ d[2] = id
      BY <2>3
    <3>2. Live(d, b)' = {}
      BY <2>1, <2>2, <3>1
    <3>3. QED
      BY <2>3, <3>2
  <2>4. CASE d \notin F
    <3>1. ~(d[1] = "global" /\ d[2] = id)
      BY <2>4
    <3>2. Live(d, b)' = Live(d, b)
      BY <1>3, <2>1, <2>2, <3>1 DEF Live, In
    <3>3. QED
      BY <2>4, <3>2
  <2>5. QED
    BY <2>3, <2>4
<1> HIDE DEF F
<1>8. QED
  BY <1>1, <1>4, <1>6, <1>7, ForgetShadow

LEMMA AccessShadow ==
    ASSUME TypeInv, RInv, NEW a \in Lane, NEW o \in use.ops, NEW i \in Instructions(a, o),
           Running(CtaOf[a]), NEW acc, acc = MakeAccess(a, i, o),
           NEW k, k = tick(clocks[a], a), Record(acc, k),
           Called([kind |-> "access", acc |-> acc])
    PROVE  RInv'
<1> DEFINE e == [kind |-> "access", acc |-> acc]
           me == [acc |-> acc, clock |-> k]
<1>1. /\ acc \in Access /\ acc.lo < acc.hi /\ k \in Clock
      /\ acc.space = "shared" => acc.domain = CtaOf[a]
      /\ acc.space = "global" => /\ acc.domain \in Alloc
                                 /\ acc.generation = generations[acc.domain]
  BY AccessType
<1>2. /\ me \in Entry /\ me.acc = acc /\ e = [kind |-> "access", acc |-> acc]
  BY <1>1 DEF Entry
<1>3. /\ shadow' = Split(acc, me) /\ generations' = generations
      /\ hist' = Append(hist, e)
  BY DEF Record, Called
<1>4. acc.space = "shared" => Running(acc.domain)
  BY <1>1
<1> HIDE DEF e, me
<1>5. QED
  BY <1>1, <1>2, <1>3, <1>4, RecordShadow

LEMMA ShadowInductive ==
    ASSUME TypeInv, RInv, [Next]_vars
    PROVE  RInv'
<1>1. CASE UNCHANGED vars
  <2>1. shadow' = shadow /\ hist' = hist /\ generations' = generations
    BY <1>1 DEF vars, detector
  <2>2. Accesses' = Accesses /\ \A d, b : Live(d, b)' = Live(d, b)
    BY <2>1 DEF Accesses, Live, SinceLaunch, Running
  <2>3. QED
    BY <2>1, <2>2 DEF RInv, IntervalsDisjoint, Kept, Remembers, In, EntryAccesses
<1>2. ASSUME NEW a \in Lane, NEW o \in use.ops, Observe(a, o) PROVE RInv'
  <2>1. PICK i \in Instructions(a, o) :
          /\ observe(MakeAccess(a, i, o))
          /\ Called([kind |-> "access", acc |-> MakeAccess(a, i, o)])
    BY <1>2 DEF Observe
  <2> DEFINE acc == MakeAccess(a, i, o)
             k == tick(clocks[a], a)
  <2>2. acc.actor = a
    BY DEF MakeAccess
  <2>3. acc = MakeAccess(a, i, o) /\ k = tick(clocks[a], a)
    OBVIOUS
  <2> HIDE DEF acc
  <2>4. Record(acc, k) /\ Called([kind |-> "access", acc |-> acc])
    BY <2>1, <2>2 DEF observe, acc
  <2>5. Running(CtaOf[a])
    BY <1>2 DEF Observe
  <2> HIDE DEF k
  <2>6. QED
    BY <2>3, <2>4, <2>5, AccessShadow
<1>3. ASSUME NEW a \in Lane, NEW o \in use.ops, AtomicRmw(a, o) PROVE RInv'
  <2>1. PICK i \in Instructions(a, o) :
          /\ atomic_rmw(MakeAccess(a, i, o))
          /\ Called([kind |-> "access", acc |-> MakeAccess(a, i, o)])
    BY <1>3 DEF AtomicRmw
  <2> DEFINE acc == MakeAccess(a, i, o)
             k == tick(clocks[a], a)
  <2>2. acc.actor = a
    BY DEF MakeAccess
  <2>3. acc = MakeAccess(a, i, o) /\ k = tick(clocks[a], a)
    OBVIOUS
  <2> HIDE DEF acc
  <2>4. Record(acc, k) /\ Called([kind |-> "access", acc |-> acc])
    BY <2>1, <2>2 DEF atomic_rmw, acc
  <2>5. Running(CtaOf[a])
    BY <1>3 DEF AtomicRmw
  <2> HIDE DEF k
  <2>6. QED
    BY <2>3, <2>4, <2>5, AccessShadow
<1>4. ASSUME NEW c \in Ctas, NEW ws \in BarrierSets, Barrier(c, ws) PROVE RInv'
  <2> DEFINE e == [kind |-> "barrier", warps |-> ws]
  <2>1. e \in Call /\ e.kind \in {"barrier", "fence"} /\ hist' = Append(hist, e)
    BY <1>4 DEF Barrier, Called, Call
  <2>2. shadow' = shadow /\ generations' = generations
    BY <1>4 DEF Barrier, cta_barrier
  <2> HIDE DEF e
  <2>3. QED
    BY <2>1, <2>2, QuietShadow
<1>5. ASSUME NEW w \in Warps, Fence(w) PROVE RInv'
  <2> DEFINE e == [kind |-> "fence", warps |-> {w}]
  <2>1. e \in Call /\ e.kind \in {"barrier", "fence"} /\ hist' = Append(hist, e)
    BY <1>5 DEF Fence, Called, Call
  <2>2. shadow' = shadow /\ generations' = generations
    BY <1>5 DEF Fence, fence, detector
  <2> HIDE DEF e
  <2>3. QED
    BY <2>1, <2>2, QuietShadow
<1>6. QED
  BY <1>1, <1>2, <1>3, <1>4, <1>5, LaunchShadow, ReclaimCtaShadow,
     ReclaimAllocationShadow DEF Next

LEMMA ShadowAlways == Spec => []RInv
<1>1. Init => RInv
  <2> SUFFICES ASSUME Init PROVE RInv
    OBVIOUS
  <2>1. shadow = {} /\ hist = <<>> /\ Accesses = {}
    BY DEF Init, Accesses
  <2>2. \A d, b : Live(d, b) = {}
    BY <2>1 DEF Live
  <2>3. QED
    BY <2>1, <2>2 DEF RInv, IntervalsDisjoint
<1>2. TypeInv /\ EInv /\ RInv /\ [Next]_vars => RInv'
  BY ShadowInductive
<1>3. QED
  BY <1>1, <1>2, RaceHistoryType, PTL DEF Spec

\* Every byte that a live access touched lies in exactly one shadow interval, and
\* that interval holds its last write and each lane's last read since: for any
\* number of accesses and any way in which they cut the intervals.
THEOREM ShadowIsExact == Spec => []ShadowExact
<1>1. TypeInv /\ RInv => ShadowExact
  <2> SUFFICES ASSUME TypeInv, RInv PROVE ShadowExact
    OBVIOUS
  <2>1. ASSUME NEW iv \in shadow, NEW b \in iv.lo .. (iv.hi - 1)
        PROVE  /\ {e.acc : e \in iv.writer} = {hist[i].acc : i \in LastWrites(iv.dom, b)}
               /\ {e.acc : e \in iv.readers} = {hist[i].acc : i \in LastReads(iv.dom, b)}
    <3>1. iv.lo \in Nat /\ iv.hi \in Nat
      BY DEF TypeInv, Interval
    <3>2. b \in Nat /\ In(iv, b)
      BY <2>1, <3>1 DEF In
    <3>3. Remembers(iv, Live(iv.dom, b), hist)
      BY <3>2 DEF RInv
    <3>4. /\ Writes(Live(iv.dom, b), hist) = LastWrites(iv.dom, b)
          /\ Reads(Live(iv.dom, b), hist) = LastReads(iv.dom, b)
      BY DEF Writes, Reads, LastWrites, LastReads
    <3>5. QED
      BY <3>3, <3>4 DEF Remembers, EntryAccesses, AccessesOf
  <2>2. ASSUME NEW i \in Accesses, NEW b \in hist[i].acc.lo .. (hist[i].acc.hi - 1),
               i \in Live(Domain(hist[i].acc), b)
        PROVE  \E iv \in shadow : iv.dom = Domain(hist[i].acc) /\ iv.lo <= b /\ b < iv.hi
    <3>1. hist[i].acc \in Access /\ Domain(hist[i].acc) \in ShadowDomain
      BY AccessInHistory
    <3>2. b \in Nat
      BY <3>1 DEF Access
    <3>3. Kept(Domain(hist[i].acc), b)
      BY <2>2, <3>1, <3>2 DEF RInv
    <3>4. QED
      BY <3>3 DEF Kept, In
  <2>3. IntervalsDisjoint
    BY DEF RInv
  <2>4. QED
    BY <2>1, <2>2, <2>3 DEF ShadowExact
<1>2. QED
  BY <1>1, RaceHistoryType, ShadowAlways, PTL

-----------------------------------------------------------------------------
(* What clocks know, in terms of the order of the calls.                   *)

Closed(h, i, S) ==
    \A k \in S \cup {i} : \A l \in (k + 1) .. Len(h) : DirectlyBefore(h[k], h[l]) => l \in S

LEMMA ClosedForm ==
    ASSUME NEW h, NEW i, NEW j
    PROVE  HappensBefore(h, i, j) <=>
             \A S \in SUBSET ((i + 1) .. Len(h)) : Closed(h, i, S) => j \in S
BY DEF HappensBefore, Closed

\* A further call takes nothing from the order, and comes after what comes
\* directly before it.
LEMMA OrderGrows ==
    ASSUME NEW h \in Seq(Call), NEW e \in Call, NEW g, g = Append(h, e),
           NEW i \in 1 .. Len(h), NEW k \in 1 .. Len(h)
    PROVE  /\ HappensBefore(h, i, k) => HappensBefore(g, i, k)
           /\ (i = k \/ HappensBefore(h, i, k)) /\ DirectlyBefore(h[k], e)
                => HappensBefore(g, i, Len(h) + 1)
<1> DEFINE z == Len(h)
<1>1. /\ z \in Nat /\ Len(g) = z + 1 /\ g[z + 1] = e
      /\ \A x \in 1 .. z : g[x] = h[x]
  BY AppendProperties
<1>2. z = Len(h) /\ i \in 1 .. z /\ k \in 1 .. z
  OBVIOUS
<1> HIDE DEF z
<1>3. ASSUME NEW S \in SUBSET ((i + 1) .. (z + 1)), Closed(g, i, S)
      PROVE  /\ HappensBefore(h, i, k) => k \in S
             /\ (i = k \/ HappensBefore(h, i, k)) /\ DirectlyBefore(h[k], e) => z + 1 \in S
  <2> DEFINE T == S \cap (1 .. z)
  <2>1. T \in SUBSET ((i + 1) .. z)
    BY <1>1, <1>2
  <2>2. Closed(h, i, T)
    <3> SUFFICES ASSUME NEW x \in T \cup {i}, NEW y \in (x + 1) .. z,
                        DirectlyBefore(h[x], h[y])
                 PROVE  y \in T
      BY <1>2 DEF Closed
    <3>1. x \in 1 .. z /\ y \in 1 .. z /\ y \in (x + 1) .. (z + 1) /\ x \in S \cup {i}
      BY <1>1, <1>2
    <3>2. g[x] = h[x] /\ g[y] = h[y]
      BY <1>1, <3>1
    <3>3. y \in S
      BY <1>1, <1>3, <3>1, <3>2 DEF Closed
    <3>4. QED
      BY <3>1, <3>3
  <2>3. HappensBefore(h, i, k) => k \in S
    BY <1>2, <2>1, <2>2, ClosedForm
  <2>4. (i = k \/ HappensBefore(h, i, k)) /\ DirectlyBefore(h[k], e) => z + 1 \in S
    <3> SUFFICES ASSUME k \in S \cup {i}, DirectlyBefore(h[k], e) PROVE z + 1 \in S
      BY <2>3
    <3>1. z + 1 \in (k + 1) .. (z + 1) /\ g[k] = h[k]
      BY <1>1, <1>2
    <3>2. QED
      BY <1>1, <1>3, <3>1 DEF Closed
  <2>5. QED
    BY <2>3, <2>4
<1>4. QED
  BY <1>1, <1>2, <1>3, ClosedForm

\* The access acc is call k of h or happens before it.
Reaches(h, acc, k) ==
    \E i \in 1 .. Len(h) : /\ h[i].kind = "access" /\ h[i].acc = acc
                           /\ i = k \/ HappensBefore(h, i, k)

LEMMA ReachesGrows ==
    ASSUME NEW h \in Seq(Call), NEW e \in Call, NEW g, g = Append(h, e),
           NEW acc, NEW k \in 1 .. Len(h), Reaches(h, acc, k)
    PROVE  /\ Reaches(g, acc, k)
           /\ DirectlyBefore(h[k], e) => Reaches(g, acc, Len(h) + 1)
<1>1. PICK i \in 1 .. Len(h) : /\ h[i].kind = "access" /\ h[i].acc = acc
                               /\ i = k \/ HappensBefore(h, i, k)
  BY DEF Reaches
<1>2. /\ HappensBefore(h, i, k) => HappensBefore(g, i, k)
      /\ (i = k \/ HappensBefore(h, i, k)) /\ DirectlyBefore(h[k], e)
           => HappensBefore(g, i, Len(h) + 1)
  BY OrderGrows
<1>3. Len(g) = Len(h) + 1 /\ Len(h) \in Nat /\ g[i] = h[i]
  BY AppendProperties
<1>4. i \in 1 .. Len(g)
  BY <1>3
<1>5. QED
  BY <1>1, <1>2, <1>3, <1>4 DEF Reaches

LEMMA ReachesNew ==
    ASSUME NEW h \in Seq(Call), NEW e \in Call, NEW g, g = Append(h, e),
           e.kind = "access"
    PROVE  Reaches(g, e.acc, Len(h) + 1)
<1>1. Len(g) = Len(h) + 1 /\ Len(h) \in Nat /\ g[Len(h) + 1] = e
  BY AppendProperties
<1>2. Len(h) + 1 \in 1 .. Len(g)
  BY <1>1
<1>3. QED
  BY <1>1, <1>2 DEF Reaches

\* Lane a made a call that acc reaches; the release of r is one that acc reaches.
LaneLearned(h, a, acc) == \E k \in 1 .. Len(h) : CallBy(a, h[k]) /\ Reaches(h, acc, k)

IsRelease(d, r) ==
    /\ d.kind = "access" /\ SyncOp(d.acc) /\ is_release_order(d.acc.mem_order)
    /\ key_of(d.acc) = r.key /\ d.acc.scope = r.scope /\ d.acc.actor = r.actor

Published(h, r, acc) == \E k \in 1 .. Len(h) : IsRelease(h[k], r) /\ Reaches(h, acc, k)

LEMMA LearnedGrows ==
    ASSUME NEW h \in Seq(Call), NEW e \in Call, NEW g, g = Append(h, e), NEW acc
    PROVE  /\ \A a : LaneLearned(h, a, acc) => LaneLearned(g, a, acc)
           /\ \A r : Published(h, r, acc) => Published(g, r, acc)
<1>1. Len(g) = Len(h) + 1 /\ Len(h) \in Nat /\ \A k \in 1 .. Len(h) : g[k] = h[k]
  BY AppendProperties
<1>2. \A k \in 1 .. Len(h) : k \in 1 .. Len(g)
  BY <1>1
<1>3. \A k \in 1 .. Len(h) : Reaches(h, acc, k) => Reaches(g, acc, k)
  BY ReachesGrows
<1>4. QED
  BY <1>1, <1>2, <1>3 DEF LaneLearned, Published

Knows(c, e) == e.clock[e.acc.actor] <= c[e.acc.actor]

LInv ==
    /\ \A i \in Accesses :
          hist[i].acc.instruction <= executed[CtaOf[hist[i].acc.actor]]
    /\ \A e \in Entries : \A a \in Lane :
          Knows(clocks[a], e) => LaneLearned(hist, a, e.acc)
    /\ \A e \in Entries : \A r \in release_clocks :
          Knows(r.clock, e) => Published(hist, r, e.acc)

\* The acquire acc reads the release of record r.
Reads_from(r, acc) ==
    /\ SyncOp(acc) /\ is_acquire_order(acc.mem_order) /\ r.key = key_of(acc)
    /\ MorallyStrong(r.scope, r.actor, acc.scope, acc.actor)

\* The calls of a lane come directly before its next access.
LEMMA ProgramOrder ==
    ASSUME TypeInv, LInv, NEW a \in Lane, NEW o, NEW n \in Instructions(a, o),
           NEW e, e.kind = "access", e.acc.actor = a, e.acc.instruction = n,
           NEW k \in 1 .. Len(hist), CallBy(a, hist[k])
    PROVE  DirectlyBefore(hist[k], e)
<1> DEFINE d == hist[k]
<1>1. Participants(e) = {WarpOf[a]}
  BY DEF Participants
<1>2. CASE d.kind = "access" /\ d.acc.actor = a
  <2>1. k \in Accesses
    BY <1>2 DEF Accesses
  <2>2. /\ d.acc.instruction <= executed[CtaOf[a]] /\ d.acc.instruction \in Nat
        /\ executed[CtaOf[a]] \in Nat
    BY <1>2, <2>1, AccessInHistory, CtaCount DEF LInv, Access
  <2>3. d.acc.instruction # n
    BY <1>2, <2>1, <2>2 DEF Instructions
  <2>4. Participants(d) = {WarpOf[a]}
    BY <1>2 DEF Participants
  <2>5. QED
    BY <1>1, <2>3, <2>4 DEF DirectlyBefore, SameInstruction
<1>3. CASE d.kind \in {"barrier", "fence"} /\ WarpOf[a] \in d.warps
  <2>1. Participants(d) = d.warps
    BY <1>3 DEF Participants
  <2>2. QED
    BY <1>1, <1>3, <2>1 DEF DirectlyBefore, SameInstruction
<1>4. QED
  BY <1>2, <1>3 DEF CallBy

\* The access of lane a, with the clock k it ticks to.
LEMMA AccessReaches ==
    ASSUME TypeInv, EInv, LInv, NEW a \in Lane, NEW o, NEW n \in Instructions(a, o),
           Running(CtaOf[a]), NEW k, k = tick(clocks[a], a),
           NEW e \in Call, e.kind = "access", e.acc.actor = a, e.acc.instruction = n,
           NEW g, g = Append(hist, e), NEW x \in Entries, Knows(k, x)
    PROVE  Reaches(g, x.acc, Len(hist) + 1)
<1> DEFINE b == x.acc.actor
<1>1. clocks[a] \in Clock /\ hist \in Seq(Call) /\ b \in Lane /\ x.clock \in Known
  BY InKnown DEF TypeInv, EInv, Entered
<1>2. k[a] = clocks[a][a] + 1 /\ \A c \in Lane \ {a} : k[c] = clocks[a][c]
  BY <1>1 DEF tick, Clock
<1>3. Knows(clocks[a], x)
  <2>1. CASE b = a
    BY <1>1, <2>1 DEF Knows, EInv, NoClockAhead
  <2>2. CASE b # a
    BY <1>1, <1>2, <2>2 DEF Knows
  <2>3. QED
    BY <2>1, <2>2
<1>4. PICK j \in 1 .. Len(hist) : CallBy(a, hist[j]) /\ Reaches(hist, x.acc, j)
  BY <1>3 DEF LInv, LaneLearned
<1>5. DirectlyBefore(hist[j], e)
  BY <1>4, ProgramOrder
<1>6. QED
  BY <1>1, <1>4, <1>5, ReachesGrows

\* A release comes directly before an acquire that reads it.
LEMMA ReleaseReaches ==
    ASSUME TypeInv, LInv, NEW e \in Call, e.kind = "access", NEW g, g = Append(hist, e),
           NEW x \in Entries, NEW r \in release_clocks, Knows(r.clock, x),
           Reads_from(r, e.acc)
    PROVE  Reaches(g, x.acc, Len(hist) + 1)
<1>1. PICK j \in 1 .. Len(hist) : IsRelease(hist[j], r) /\ Reaches(hist, x.acc, j)
  BY DEF LInv, Published
<1>2. SynchronizesWith(hist[j], e)
  BY <1>1 DEF SynchronizesWith, IsRelease, Reads_from
<1>3. DirectlyBefore(hist[j], e) /\ hist \in Seq(Call)
  BY <1>2 DEF DirectlyBefore, TypeInv
<1>4. QED
  BY <1>1, <1>3, ReachesGrows

\* Where the clocks come from that an access merges, and the new release records.
Sources(S, k, acc) ==
    \A d \in S : d = k \/ \E r \in release_clocks : r.clock = d /\ Reads_from(r, acc)

Merged(m, k, S) == m = MergeAll(k, S) \/ m = k

LEMMA AccessLearns ==
    ASSUME TypeInv, EInv, LInv, NEW a \in Lane, NEW o \in use.ops,
           NEW n \in Instructions(a, o), Running(CtaOf[a]), NEW acc, acc = MakeAccess(a, n, o),
           NEW k, k = tick(clocks[a], a), Record(acc, k), Counts(a, n),
           NEW e, e = [kind |-> "access", acc |-> acc], Called(e),
           NEW m, NEW S, Sources(S, k, acc), Merged(m, k, S),
           clocks' = [clocks EXCEPT ![a] = m],
           \A r \in release_clocks' : r \in release_clocks \/ (r.clock = k /\ IsRelease(e, r))
    PROVE  LInv'
<1> DEFINE me == [acc |-> acc, clock |-> k]
           z == Len(hist)
           K == Known \cup {k}
<1>1. /\ acc \in Access /\ acc.actor = a /\ n \in Nat /\ k \in Clock /\ e \in Call
  BY AccessType
<1>2. acc.instruction = n
  BY DEF MakeAccess
<1>3. /\ shadow' = Split(acc, me) /\ hist' = Append(hist, e)
  BY DEF Record, Called
<1>4. /\ shadow \subseteq Interval /\ hist \in Seq(Call) /\ clocks \in [Lane -> Clock]
      /\ executed \in [Ctas -> Nat]
  BY DEF TypeInv
<1>5. me.acc = acc /\ me.clock = k /\ e.kind = "access" /\ e.acc = acc /\ z = Len(hist)
  OBVIOUS
<1> HIDE DEF me, z
<1>6. Entries' \subseteq Entries \cup {me}
  <2>1. \A x \in shadow' : \A y \in x.writer \cup x.readers : y = me \/ y \in Entries
    BY <1>3, <1>4, SplitEntries
  <2>2. QED
    BY <2>1 DEF Entries
<1>7. /\ z \in Nat /\ Len(hist') = z + 1 /\ hist'[z + 1] = e
      /\ \A i \in 1 .. z : hist'[i] = hist[i]
      /\ 1 .. (z + 1) = (1 .. z) \cup {z + 1}
  BY <1>1, <1>3, <1>4, <1>5, HistoryGrows
<1>8. \A x \in Entries : Knows(k, x) => Reaches(hist', x.acc, z + 1)
  BY <1>1, <1>2, <1>3, <1>5, AccessReaches
<1>9. Reaches(hist', acc, z + 1)
  BY <1>1, <1>3, <1>4, <1>5, ReachesNew
<1>10. \A x \in Entries : Knows(m, x) => Reaches(hist', x.acc, z + 1)
  <2> SUFFICES ASSUME NEW x \in Entries, Knows(m, x) PROVE Reaches(hist', x.acc, z + 1)
    OBVIOUS
  <2>1. CASE m = k
    BY <1>8, <2>1
  <2>2. CASE m = MergeAll(k, S)
    <3> DEFINE D == S \cup {k}
    <3>1. clocks[a] \in Known /\ \A d \in Known : d[a] <= clocks[a][a]
      BY InKnown DEF EInv, NoClockAhead
    <3>2. Bounded(K, z + 1)
      <4>1. Bounded(Known, z)
        BY <1>5 DEF EInv
      <4>2. Bounded(Known, z + 1)
        BY <1>7, <4>1, BoundedMore
      <4>3. \A b \in Lane : k[b] <= z + 1
        <5>1. \A b \in Lane : clocks[a][b] \in Nat /\ clocks[a][b] <= z
          BY <1>4, <3>1, <4>1 DEF Bounded, Clock
        <5>2. k[a] = clocks[a][a] + 1 /\ \A b \in Lane \ {a} : k[b] = clocks[a][b]
          BY <1>4 DEF tick, Clock
        <5>3. QED
          BY <1>7, <5>1, <5>2
      <4>4. QED
        BY <1>1, <4>2, <4>3 DEF Bounded
    <3>3. D \subseteq K
      BY InKnown DEF Sources
    <3>4. D = S \cup {k} /\ Bounded(D, z + 1) /\ z + 1 \in Nat
      BY <1>7, <3>2, <3>3 DEF Bounded
    <3> HIDE DEF D, K
    <3>5. \A b \in Lane : Attained(D, b, m[b])
      BY <2>2, <3>4, MergeProperties
    <3>6. x.acc.actor \in Lane
      BY DEF EInv, Entered
    <3>7. PICK d \in D : m[x.acc.actor] = d[x.acc.actor]
      BY <3>5, <3>6 DEF Attained
    <3>8. Knows(d, x)
      BY <3>7 DEF Knows
    <3>9. CASE d = k
      BY <1>8, <3>8, <3>9
    <3>10. CASE d \in S /\ d # k
      <4>1. PICK r \in release_clocks : r.clock = d /\ Reads_from(r, acc)
        BY <3>10 DEF Sources
      <4>2. QED
        BY <1>1, <1>3, <1>5, <3>8, <4>1, ReleaseReaches
    <3>11. QED
      BY <3>4, <3>9, <3>10
  <2>3. QED
    BY <2>1, <2>2 DEF Merged
<1>11. ASSUME NEW c \in Known PROVE ~Knows(c, me)
  <2>1. c[a] <= clocks[a][a] /\ c[a] \in Nat /\ clocks[a][a] \in Nat
    BY <1>4 DEF EInv, NoClockAhead, Bounded, Clock
  <2>2. k[a] = clocks[a][a] + 1
    BY <1>4 DEF tick, Clock
  <2>3. QED
    BY <1>1, <1>5, <2>1, <2>2 DEF Knows
<1>12. /\ \A x \in Entries : \A b \in Lane :
            Knows(clocks[b], x) => LaneLearned(hist', b, x.acc)
       /\ \A x \in Entries : \A r \in release_clocks :
            Knows(r.clock, x) => Published(hist', r, x.acc)
  BY <1>1, <1>3, <1>4, LearnedGrows DEF LInv
<1>13. z + 1 \in 1 .. Len(hist')
  BY <1>7
<1>14. ASSUME NEW x \in Entries', NEW b \in Lane, Knows(clocks'[b], x)
       PROVE  LaneLearned(hist', b, x.acc)
  <2>1. CASE b = a
    <3>1. clocks'[b] = m
      BY <1>4, <2>1
    <3>2. Reaches(hist', x.acc, z + 1)
      BY <1>5, <1>6, <1>9, <1>10, <1>14, <3>1
    <3>3. CallBy(b, hist'[z + 1])
      BY <1>1, <1>5, <1>7, <2>1 DEF CallBy
    <3>4. QED
      BY <1>13, <3>2, <3>3 DEF LaneLearned
  <2>2. CASE b # a
    <3>1. clocks'[b] = clocks[b] /\ clocks[b] \in Known
      BY <1>4, <2>2, InKnown
    <3>2. x \in Entries
      BY <1>6, <1>11, <1>14, <3>1
    <3>3. QED
      BY <1>12, <1>14, <3>1, <3>2
  <2>3. QED
    BY <2>1, <2>2
<1>15. ASSUME NEW x \in Entries', NEW r \in release_clocks', Knows(r.clock, x)
       PROVE  Published(hist', r, x.acc)
  <2>1. CASE r \in release_clocks
    <3>1. x \in Entries
      BY <1>6, <1>11, <1>15, <2>1, InKnown
    <3>2. QED
      BY <1>12, <1>15, <2>1, <3>1
  <2>2. CASE r.clock = k /\ IsRelease(e, r)
    <3>1. Reaches(hist', x.acc, z + 1)
      BY <1>5, <1>6, <1>8, <1>9, <1>15, <2>2
    <3>2. QED
      BY <1>7, <1>13, <2>2, <3>1 DEF Published
  <2>3. QED
    BY <2>1, <2>2
<1>16. \A i \in Accesses' :
        hist'[i].acc.instruction <= executed'[CtaOf[hist'[i].acc.actor]]
  <2> SUFFICES ASSUME NEW i \in Accesses'
               PROVE  hist'[i].acc.instruction <= executed'[CtaOf[hist'[i].acc.actor]]
    OBVIOUS
  <2>1. /\ n = executed[CtaOf[a]] \/ n = executed[CtaOf[a]] + 1
        /\ CtaOf[a] \in Ctas /\ executed[CtaOf[a]] \in Nat
        /\ executed'[CtaOf[a]] = n
        /\ \A c \in Ctas \ {CtaOf[a]} : executed'[c] = executed[c]
    BY <1>4, CtaCount DEF Instructions, Counts
  <2>2. Accesses' = Accesses \cup {z + 1}
    BY <1>1, <1>3, <1>4, <1>5, AccessesGrow
  <2>3. CASE i = z + 1
    BY <1>1, <1>2, <1>5, <1>7, <2>1, <2>3
  <2>4. CASE i \in Accesses
    <3> DEFINE c == CtaOf[hist[i].acc.actor]
    <3>1. /\ hist[i].acc.instruction \in Nat /\ hist[i].acc.instruction <= executed[c]
          /\ hist'[i] = hist[i] /\ c \in Ctas /\ executed[c] \in Nat
      BY <1>5, <1>7, <2>4, AccessInHistory, CtaCount DEF LInv, Access
    <3> HIDE DEF c
    <3>2. CASE c = CtaOf[a]
      BY <2>1, <3>1, <3>2 DEF c
    <3>3. CASE c # CtaOf[a]
      BY <2>1, <3>1, <3>3 DEF c
    <3>4. QED
      BY <3>2, <3>3
  <2>5. QED
    BY <2>2, <2>3, <2>4
<1>17. QED
  BY <1>14, <1>15, <1>16 DEF LInv, Knows, LaneLearned, Published, Reaches, HappensBefore

LEMMA ObserveLearns ==
    ASSUME TypeInv, EInv, LInv, NEW a \in Lane, NEW o \in use.ops, Observe(a, o)
    PROVE  LInv'
<1>1. PICK n \in Instructions(a, o) :
        /\ observe(MakeAccess(a, n, o)) /\ Counts(a, n)
        /\ Called([kind |-> "access", acc |-> MakeAccess(a, n, o)])
  BY DEF Observe, Counts
<1> DEFINE acc == MakeAccess(a, n, o)
           k == tick(clocks[a], a)
           e == [kind |-> "access", acc |-> acc]
           S == {}
<1>2. acc.actor = a
  BY DEF MakeAccess
<1>3. acc = MakeAccess(a, n, o) /\ Counts(a, n) /\ Called(e) /\ Running(CtaOf[a])
  BY <1>1 DEF Observe
<1> HIDE DEF acc
<1>4. /\ Record(acc, k) /\ clocks' = [clocks EXCEPT ![a] = k]
      /\ release_clocks' = release_clocks
  BY <1>1, <1>2 DEF observe, acc
<1>5. /\ k = tick(clocks[a], a) /\ e = [kind |-> "access", acc |-> acc]
      /\ Sources(S, k, acc) /\ Merged(k, k, S)
  BY DEF Sources, Merged
<1>6. \A r \in release_clocks' : r \in release_clocks \/ (r.clock = k /\ IsRelease(e, r))
  BY <1>4
<1> HIDE DEF k, e, S
<1>7. QED
  BY <1>3, <1>4, <1>5, <1>6, AccessLearns

LEMMA AtomicRmwLearns ==
    ASSUME TypeInv, EInv, LInv, NEW a \in Lane, NEW o \in use.ops, AtomicRmw(a, o)
    PROVE  LInv'
<1>1. PICK n \in Instructions(a, o) :
        /\ atomic_rmw(MakeAccess(a, n, o)) /\ Counts(a, n)
        /\ Called([kind |-> "access", acc |-> MakeAccess(a, n, o)])
  BY DEF AtomicRmw, Counts
<1> DEFINE acc == MakeAccess(a, n, o)
           k == tick(clocks[a], a)
           e == [kind |-> "access", acc |-> acc]
           rec == [key |-> key_of(acc), actor |-> a, scope |-> acc.scope, clock |-> k]
           released == IF SyncOp(acc) /\ is_release_order(acc.mem_order)
                       THEN release_clocks \cup {rec} ELSE release_clocks
           S == IF SyncOp(acc) /\ is_acquire_order(acc.mem_order)
                THEN {r.clock : r \in VisibleReleases(acc, released)} ELSE {}
           m == MergeAll(k, S)
<1>2. acc.actor = a
  BY DEF MakeAccess
<1>3. acc = MakeAccess(a, n, o) /\ Counts(a, n) /\ Called(e) /\ Running(CtaOf[a])
  BY <1>1 DEF AtomicRmw
<1> HIDE DEF acc
<1>4. /\ Record(acc, k) /\ release_clocks' = released
      /\ clocks' = [clocks EXCEPT ![a] = m]
  BY <1>1, <1>2 DEF atomic_rmw, acc
<1>5. k = tick(clocks[a], a) /\ e = [kind |-> "access", acc |-> acc]
  OBVIOUS
<1> HIDE DEF k
<1>6. /\ rec.clock = k /\ rec.key = key_of(acc) /\ rec.scope = acc.scope /\ rec.actor = a
      /\ e.kind = "access" /\ e.acc = acc
  OBVIOUS
<1> HIDE DEF rec, e
<1>7. \A r \in released : \/ r \in release_clocks
                          \/ r.clock = k /\ IsRelease(e, r)
  BY <1>2, <1>6 DEF IsRelease
<1> HIDE DEF released
<1>8. Sources(S, k, acc)
  <2> SUFFICES ASSUME NEW d \in S, d # k
               PROVE  \E r \in release_clocks : r.clock = d /\ Reads_from(r, acc)
    BY DEF Sources
  <2>1. PICK r \in VisibleReleases(acc, released) :
           r.clock = d /\ SyncOp(acc) /\ is_acquire_order(acc.mem_order)
    OBVIOUS
  <2>2. r \in released /\ Reads_from(r, acc)
    BY <2>1 DEF VisibleReleases, Reads_from
  <2>3. QED
    BY <1>7, <2>1, <2>2
<1>9. m = MergeAll(k, S)
  OBVIOUS
<1> HIDE DEF S, m
<1>10. \A r \in release_clocks' : r \in release_clocks \/ (r.clock = k /\ IsRelease(e, r))
  BY <1>4, <1>7
<1>11. Merged(m, k, S)
  BY <1>9 DEF Merged
<1>12. clocks' = [clocks EXCEPT ![a] = m] /\ Record(acc, k)
  BY <1>4
<1>13. QED
  BY <1>3, <1>5, <1>8, <1>10, <1>11, <1>12, AccessLearns, ZenonT(60)

\* A barrier comes directly after the calls of the lanes it merges.
LEMMA BarrierLearns ==
    ASSUME TypeInv, EInv, LInv, NEW c \in Ctas, NEW ws \in BarrierSets, Barrier(c, ws)
    PROVE  LInv'
<1> DEFINE e == [kind |-> "barrier", warps |-> ws]
           z == Len(hist)
           S == {clocks[b] : b \in LanesOf(ws)}
<1>1. /\ e \in Call /\ e.kind = "barrier" /\ e.warps = ws /\ hist' = Append(hist, e)
      /\ hist \in Seq(Call) /\ executed' = executed /\ clocks \in [Lane -> Clock]
  BY DEF Barrier, Called, Call, TypeInv
<1>2. /\ clocks' = [b \in Lane |-> IF WarpOf[b] \in ws THEN MergeAll(clocks[b], S)
                                                      ELSE clocks[b]]
      /\ shadow' = shadow /\ release_clocks' = release_clocks
  BY DEF Barrier, cta_barrier
<1>3. z = Len(hist) /\ S \subseteq Known
  BY InKnown DEF LanesOf
<1> HIDE DEF e, z
<1>4. /\ z \in Nat /\ Len(hist') = z + 1 /\ hist'[z + 1] = e
      /\ \A i \in 1 .. z : hist'[i] = hist[i]
  BY <1>1, <1>3, HistoryGrows
<1>5. Entries' = Entries /\ Accesses' = Accesses
  BY <1>1, <1>2, AccessesGrow DEF Entries
<1>6. /\ \A x \in Entries : \A b \in Lane :
           Knows(clocks[b], x) => LaneLearned(hist', b, x.acc)
      /\ \A x \in Entries : \A r \in release_clocks :
           Knows(r.clock, x) => Published(hist', r, x.acc)
  BY <1>1, LearnedGrows DEF LInv
<1>7. ASSUME NEW x \in Entries, NEW b \in Lane, WarpOf[b] \in ws, Knows(clocks[b], x)
      PROVE  Reaches(hist', x.acc, z + 1)
  <2>1. PICK j \in 1 .. z : CallBy(b, hist[j]) /\ Reaches(hist, x.acc, j)
    BY <1>3, <1>7 DEF LInv, LaneLearned
  <2>2. Participants(e) = ws
    BY <1>1 DEF Participants
  <2>3. WarpOf[b] \in Participants(hist[j])
    BY <2>1 DEF CallBy, Participants
  <2>4. DirectlyBefore(hist[j], e)
    BY <1>1, <1>7, <2>2, <2>3 DEF DirectlyBefore, SameInstruction
  <2>5. QED
    BY <1>1, <1>3, <2>1, <2>4, ReachesGrows
<1>8. ASSUME NEW x \in Entries, NEW b \in Lane, Knows(clocks'[b], x)
      PROVE  LaneLearned(hist', b, x.acc)
  <2>1. CASE WarpOf[b] \notin ws
    BY <1>2, <1>6, <1>8, <2>1
  <2>2. CASE WarpOf[b] \in ws
    <3> DEFINE m == clocks'[b]
               D == S \cup {clocks[b]}
    <3>1. m = MergeAll(clocks[b], S) /\ D = S \cup {clocks[b]} /\ clocks[b] \in Known
      BY <1>2, <2>2, InKnown
    <3>2. Bounded(D, z)
      BY <1>3, <3>1 DEF EInv, Bounded
    <3>3. x.acc.actor \in Lane
      BY DEF EInv, Entered
    <3>4. \A d \in D : \E f \in Lane : WarpOf[f] \in ws /\ d = clocks[f]
      BY <2>2 DEF LanesOf
    <3> HIDE DEF m, D, S
    <3>5. \A l \in Lane : Attained(D, l, m[l])
      BY <1>4, <3>1, <3>2, MergeProperties
    <3>6. PICK d \in D : m[x.acc.actor] = d[x.acc.actor]
      BY <3>3, <3>5 DEF Attained
    <3>7. PICK f \in Lane : WarpOf[f] \in ws /\ d = clocks[f]
      BY <3>4
    <3>8. Knows(clocks[f], x)
      BY <1>8, <3>6, <3>7 DEF Knows, m
    <3>9. Reaches(hist', x.acc, z + 1)
      BY <1>7, <3>7, <3>8
    <3>10. CallBy(b, hist'[z + 1]) /\ z + 1 \in 1 .. Len(hist')
      BY <1>1, <1>4, <2>2 DEF CallBy
    <3>11. QED
      BY <3>9, <3>10 DEF LaneLearned
  <2>3. QED
    BY <2>1, <2>2
<1>9. \A i \in Accesses' :
        hist'[i].acc.instruction <= executed'[CtaOf[hist'[i].acc.actor]]
  <2>1. \A i \in Accesses : i \in 1 .. z
    BY <1>3, AccessInHistory
  <2>2. QED
    BY <1>1, <1>4, <1>5, <2>1 DEF LInv
<1>10. \A x \in Entries' : \A b \in Lane :
         Knows(clocks'[b], x) => LaneLearned(hist', b, x.acc)
  BY <1>5, <1>8
<1>11. \A x \in Entries' : \A r \in release_clocks' :
         Knows(r.clock, x) => Published(hist', r, x.acc)
  BY <1>2, <1>5, <1>6
<1>12. QED
  BY <1>9, <1>10, <1>11 DEF LInv, Knows, LaneLearned, Published, Reaches, HappensBefore

\* Calls by which nobody learns anything.
LEMMA QuietLearns ==
    ASSUME TypeInv, EInv, LInv, NEW e \in Call, hist' = Append(hist, e),
           e.kind # "access", executed' = executed,
           Entries' \subseteq Entries, release_clocks' \subseteq release_clocks,
           \A a \in Lane : clocks'[a] = clocks[a] \/ clocks'[a] = Bottom
    PROVE  LInv'
<1> DEFINE z == Len(hist)
<1>1. hist \in Seq(Call) /\ z = Len(hist)
  BY DEF TypeInv
<1> HIDE DEF z
<1>2. /\ z \in Nat /\ Len(hist') = z + 1 /\ \A i \in 1 .. z : hist'[i] = hist[i]
  BY <1>1, HistoryGrows
<1>3. Accesses' = Accesses
  BY <1>1, AccessesGrow
<1>4. /\ \A x \in Entries : \A b \in Lane :
           Knows(clocks[b], x) => LaneLearned(hist', b, x.acc)
      /\ \A x \in Entries : \A r \in release_clocks :
           Knows(r.clock, x) => Published(hist', r, x.acc)
  BY <1>1, LearnedGrows DEF LInv
<1>5. ASSUME NEW x \in Entries PROVE ~Knows(Bottom, x)
  <2>1. x.acc.actor \in Lane /\ x.clock \in Clock /\ x.clock[x.acc.actor] >= 1
    BY DEF EInv, Entered
  <2>2. x.clock[x.acc.actor] \in Nat /\ Bottom[x.acc.actor] = 0
    BY <2>1 DEF Clock, Bottom
  <2>3. QED
    BY <2>1, <2>2 DEF Knows
<1>6. \A x \in Entries' : \A b \in Lane :
        Knows(clocks'[b], x) => LaneLearned(hist', b, x.acc)
  BY <1>4, <1>5
<1>7. \A x \in Entries' : \A r \in release_clocks' :
        Knows(r.clock, x) => Published(hist', r, x.acc)
  BY <1>4
<1>8. \A i \in Accesses' :
        hist'[i].acc.instruction <= executed'[CtaOf[hist'[i].acc.actor]]
  <2>1. \A i \in Accesses : i \in 1 .. z
    BY <1>1, AccessInHistory
  <2>2. QED
    BY <1>2, <1>3, <2>1 DEF LInv
<1>9. QED
  BY <1>6, <1>7, <1>8 DEF LInv, Knows, LaneLearned, Published, Reaches, HappensBefore

LEMMA LearnedInductive ==
    ASSUME TypeInv, EInv, LInv, [Next]_vars
    PROVE  LInv'
<1>1. CASE UNCHANGED vars
  <2>1. /\ hist' = hist /\ executed' = executed /\ clocks' = clocks
        /\ release_clocks' = release_clocks /\ shadow' = shadow
    BY <1>1 DEF vars, detector
  <2>2. Entries' = Entries /\ Accesses' = Accesses
    BY <2>1 DEF Entries, Accesses
  <2>3. \A i \in Accesses' :
        hist'[i].acc.instruction <= executed'[CtaOf[hist'[i].acc.actor]]
    BY <2>1, <2>2 DEF LInv
  <2>4. \A x \in Entries' : \A b \in Lane :
          Knows(clocks'[b], x) => LaneLearned(hist', b, x.acc)
    BY <2>1, <2>2 DEF LInv
  <2>5. \A x \in Entries' : \A r \in release_clocks' :
          Knows(r.clock, x) => Published(hist', r, x.acc)
    BY <2>1, <2>2 DEF LInv
  <2>6. QED
    BY <2>3, <2>4, <2>5 DEF LInv, Knows, LaneLearned, Published, Reaches, HappensBefore
<1>2. ASSUME NEW w \in Warps, Fence(w) PROVE LInv'
  <2> DEFINE e == [kind |-> "fence", warps |-> {w}]
  <2>1. e \in Call /\ e.kind # "access" /\ hist' = Append(hist, e)
    BY <1>2 DEF Fence, Called, Call
  <2>2. /\ executed' = executed /\ release_clocks' = release_clocks /\ clocks' = clocks
        /\ Entries' = Entries
    BY <1>2 DEF Fence, fence, detector, Entries
  <2> HIDE DEF e
  <2>3. QED
    BY <2>1, <2>2, QuietLearns
<1>3. CASE Launch
  <2> DEFINE e == [kind |-> "launch"]
  <2>1. e \in Call /\ e.kind # "access" /\ hist' = Append(hist, e)
    BY <1>3 DEF Launch, Called, Call
  <2>2. /\ executed' = executed /\ release_clocks' = {} /\ Entries' = {}
        /\ \A a \in Lane : clocks'[a] = Bottom
    BY <1>3 DEF Launch, launch, Entries
  <2> HIDE DEF e
  <2>3. QED
    BY <2>1, <2>2, QuietLearns
<1>4. ASSUME NEW c \in Ctas, ReclaimCta(c) PROVE LInv'
  <2> DEFINE e == [kind |-> "reclaim_cta", cta |-> c]
  <2>1. e \in Call /\ e.kind # "access" /\ hist' = Append(hist, e)
    BY <1>4 DEF ReclaimCta, Called, Call
  <2>2. /\ executed' = executed /\ release_clocks' \subseteq release_clocks
        /\ shadow' \subseteq shadow
        /\ \A a \in Lane : clocks'[a] = clocks[a] \/ clocks'[a] = Bottom
    BY <1>4 DEF ReclaimCta, reclaim_cta
  <2>3. Entries' \subseteq Entries
    BY <2>2 DEF Entries
  <2> HIDE DEF e
  <2>4. QED
    BY <2>1, <2>2, <2>3, QuietLearns
<1>5. ASSUME NEW id \in Alloc, ReclaimAllocation(id) PROVE LInv'
  <2> DEFINE e == [kind |-> "reclaim_allocation", id |-> id]
  <2>1. e \in Call /\ e.kind # "access" /\ hist' = Append(hist, e)
    BY <1>5 DEF ReclaimAllocation, Called, Call
  <2>2. /\ executed' = executed /\ release_clocks' \subseteq release_clocks
        /\ shadow' \subseteq shadow /\ clocks' = clocks
    BY <1>5 DEF ReclaimAllocation, reclaim_allocation
  <2>3. Entries' \subseteq Entries
    BY <2>2 DEF Entries
  <2> HIDE DEF e
  <2>4. QED
    BY <2>1, <2>2, <2>3, QuietLearns
<1>6. QED
  BY <1>1, <1>2, <1>3, <1>4, <1>5, ObserveLearns, AtomicRmwLearns, BarrierLearns DEF Next

LEMMA LearnedAlways == Spec => []LInv
<1>1. Init => LInv
  BY DEF Init, LInv, Accesses, Entries
<1>2. TypeInv /\ EInv /\ LInv /\ [Next]_vars => LInv'
  BY LearnedInductive
<1>3. QED
  BY <1>1, <1>2, RaceHistoryType, PTL DEF Spec

\* tick never hands out an epoch that somebody already knows, the comparison of
\* whole clocks in happens_before answers as the comparison of epochs would, and
\* what a lane's clock knows did happen before one of its calls: for every set of
\* lanes, allocations and barriers and histories of any length.
THEOREM EpochsAreExact == Spec => []EpochsExact
<1>1. TypeInv /\ EInv /\ LInv => EpochsExact
  <2> SUFFICES ASSUME TypeInv, EInv, LInv PROVE EpochsExact
    OBVIOUS
  <2>1. ASSUME NEW e \in Entries, NEW a \in Lane,
               e.clock[e.acc.actor] <= clocks[a][e.acc.actor]
        PROVE  Learned(a, e.acc)
    <3>1. LaneLearned(hist, a, e.acc)
      BY <2>1 DEF LInv, Knows
    <3>2. QED
      BY <3>1 DEF LaneLearned, Reaches, Learned
  <2>2. QED
    BY <2>1 DEF EInv, EpochsExact, Exact
<1>2. QED
  BY <1>1, RaceHistoryType, LearnedAlways, PTL

-----------------------------------------------------------------------------
(* No race is dismissed.                                                   *)

\* An access never occurs twice: a lane makes one access per instruction.
UInv == \A i, j \in Accesses : hist[i].acc = hist[j].acc => i = j

LEMMA AccessDistinct ==
    ASSUME TypeInv, LInv, UInv, NEW a \in Lane, NEW o \in use.ops,
           NEW n \in Instructions(a, o), NEW acc, acc = MakeAccess(a, n, o),
           NEW e, e = [kind |-> "access", acc |-> acc], Called(e)
    PROVE  UInv'
<1> DEFINE z == Len(hist)
<1>1. acc \in Access /\ acc.actor = a /\ acc.instruction = n /\ n \in Nat /\ e \in Call
  BY AccessType DEF MakeAccess
<1>2. /\ hist' = Append(hist, e) /\ hist \in Seq(Call) /\ executed[CtaOf[a]] \in Nat
      /\ z = Len(hist) /\ e.kind = "access" /\ e.acc = acc
  BY CtaCount DEF Called, TypeInv
<1> HIDE DEF z
<1>3. /\ z \in Nat /\ hist'[z + 1] = e /\ \A i \in 1 .. z : hist'[i] = hist[i]
  BY <1>1, <1>2, HistoryGrows
<1>4. Accesses' = Accesses \cup {z + 1}
  BY <1>1, <1>2, AccessesGrow
<1>5. ASSUME NEW i \in Accesses PROVE hist[i].acc # acc /\ hist'[i] = hist[i]
  <2>1. i \in 1 .. z /\ hist[i].acc.instruction \in Nat
    BY <1>2, AccessInHistory DEF Access
  <2>2. hist[i].acc.actor = a => hist[i].acc.instruction <= executed[CtaOf[a]]
    BY DEF LInv
  <2>3. CASE n = executed[CtaOf[a]] + 1
    BY <1>1, <1>2, <1>3, <2>1, <2>2, <2>3
  <2>4. CASE n = executed[CtaOf[a]] /\ n # executed[CtaOf[a]] + 1
    BY <1>1, <1>2, <1>3, <2>1, <2>4 DEF Instructions
  <2>5. QED
    BY <1>2, <2>3, <2>4 DEF Instructions
<1>6. ASSUME NEW i \in Accesses', NEW j \in Accesses', hist'[i].acc = hist'[j].acc
      PROVE  i = j
  <2>1. CASE i \in Accesses /\ j \in Accesses
    <3>1. hist[i].acc = hist[j].acc
      BY <1>5, <1>6, <2>1
    <3>2. QED
      BY <2>1, <3>1 DEF UInv
  <2>2. CASE i = z + 1 \/ j = z + 1
    BY <1>2, <1>3, <1>4, <1>5, <1>6, <2>2, ZenonT(60)
  <2>3. QED
    BY <1>4, <2>1, <2>2
<1>7. QED
  BY <1>6 DEF UInv

LEMMA QuietDistinct ==
    ASSUME TypeInv, UInv, NEW e \in Call, hist' = Append(hist, e), e.kind # "access"
    PROVE  UInv'
<1>1. hist \in Seq(Call)
  BY DEF TypeInv
<1>2. Accesses' = Accesses
  BY <1>1, AccessesGrow
<1>3. \A i \in Accesses : hist'[i] = hist[i]
  BY <1>1, AccessInHistory, HistoryGrows
<1>4. ASSUME NEW i \in Accesses', NEW j \in Accesses', hist'[i].acc = hist'[j].acc
      PROVE  i = j
  <2>1. hist[i].acc = hist[j].acc /\ i \in Accesses /\ j \in Accesses
    BY <1>2, <1>3, <1>4
  <2>2. QED
    BY <2>1 DEF UInv
<1>5. QED
  BY <1>4 DEF UInv

\* The warps of a barrier have lanes; a fence is one warp's.
HasWarps(d) ==
    /\ d.kind = "barrier" => d.warps \subseteq Warps
    /\ d.kind = "fence" => \E w \in Warps : d.warps = {w}

\* A call that makes no access.
Quiet(e) ==
    /\ Called(e) /\ HasWarps(e)
    /\ reports' = reports
    /\ e.kind # "reclaim_allocation" => generations' = generations

\* Every step is a call to the detector: an access, or one by which it forgets or
\* its lanes learn.
LEMMA StepIsCall ==
    ASSUME TypeInv, Next
    PROVE  \/ \E a \in Lane, o \in use.ops : \E n \in Instructions(a, o) :
                /\ Running(CtaOf[a]) /\ Record(MakeAccess(a, n, o), tick(clocks[a], a))
                /\ Called([kind |-> "access", acc |-> MakeAccess(a, n, o)])
                /\ Counts(a, n)
           \/ \E e \in Call : hist' = Append(hist, e) /\ e.kind # "access" /\ Quiet(e)
<1>1. ASSUME NEW a \in Lane, NEW o \in use.ops, Observe(a, o) \/ AtomicRmw(a, o)
      PROVE  \E n \in Instructions(a, o) :
                /\ Running(CtaOf[a]) /\ Record(MakeAccess(a, n, o), tick(clocks[a], a))
                /\ Called([kind |-> "access", acc |-> MakeAccess(a, n, o)])
                /\ Counts(a, n)
  <2>1. \A n : MakeAccess(a, n, o).actor = a
    BY DEF MakeAccess
  <2>2. \A x : x.actor = a /\ (observe(x) \/ atomic_rmw(x)) => Record(x, tick(clocks[a], a))
    BY DEF observe, atomic_rmw
  <2>3. QED
    BY <1>1, <2>1, <2>2 DEF Observe, AtomicRmw, Counts
<1>2. ASSUME NEW c \in Ctas, NEW ws \in BarrierSets, Barrier(c, ws)
      PROVE  \E e \in Call : hist' = Append(hist, e) /\ e.kind # "access" /\ Quiet(e)
  <2>1. [kind |-> "barrier", warps |-> ws] \in Call
    BY DEF Call
  <2>2. ws \subseteq Warps
    BY <1>2 DEF Barrier, Meet, Warps
  <2>3. QED
    BY <1>2, <2>1, <2>2 DEF Barrier, Called, cta_barrier, HasWarps, Quiet
<1>3. ASSUME NEW w \in Warps, Fence(w)
      PROVE  \E e \in Call : hist' = Append(hist, e) /\ e.kind # "access" /\ Quiet(e)
  <2>1. [kind |-> "fence", warps |-> {w}] \in Call
    BY DEF Call
  <2>2. QED
    BY <1>3, <2>1 DEF Fence, Called, fence, detector, HasWarps, Quiet
<1>4. CASE Launch
  <2>1. [kind |-> "launch"] \in Call
    BY DEF Call
  <2>2. QED
    BY <1>4, <2>1 DEF Launch, Called, launch, HasWarps, Quiet
<1>5. ASSUME NEW c \in Ctas, ReclaimCta(c)
      PROVE  \E e \in Call : hist' = Append(hist, e) /\ e.kind # "access" /\ Quiet(e)
  <2>1. [kind |-> "reclaim_cta", cta |-> c] \in Call
    BY DEF Call
  <2>2. QED
    BY <1>5, <2>1 DEF ReclaimCta, Called, reclaim_cta, HasWarps, Quiet
<1>6. ASSUME NEW id \in Alloc, ReclaimAllocation(id)
      PROVE  \E e \in Call : hist' = Append(hist, e) /\ e.kind # "access" /\ Quiet(e)
  <2>1. [kind |-> "reclaim_allocation", id |-> id] \in Call
    BY DEF Call
  <2>2. QED
    BY <1>6, <2>1 DEF ReclaimAllocation, Called, reclaim_allocation, HasWarps, Quiet
<1>7. CASE \E a \in Lane, o \in use.ops : Observe(a, o) \/ AtomicRmw(a, o)
  BY <1>1, <1>7
<1>8. QED
  BY <1>2, <1>3, <1>4, <1>5, <1>6, <1>7 DEF Next

LEMMA DistinctInductive ==
    ASSUME TypeInv, LInv, UInv, [Next]_vars
    PROVE  UInv'
<1>1. CASE UNCHANGED vars
  <2>1. hist' = hist /\ Accesses' = Accesses
    BY <1>1 DEF vars, Accesses
  <2>2. QED
    BY <2>1 DEF UInv
<1>2. ASSUME NEW a \in Lane, NEW o \in use.ops, NEW n \in Instructions(a, o),
             Called([kind |-> "access", acc |-> MakeAccess(a, n, o)])
      PROVE  UInv'
  <2> DEFINE acc == MakeAccess(a, n, o)
             e == [kind |-> "access", acc |-> acc]
  <2>1. acc = MakeAccess(a, n, o) /\ e = [kind |-> "access", acc |-> acc] /\ Called(e)
    BY <1>2
  <2> HIDE DEF acc, e
  <2>2. QED
    BY <2>1, AccessDistinct
<1>3. ASSUME NEW e \in Call, hist' = Append(hist, e), e.kind # "access" PROVE UInv'
  BY <1>3, QuietDistinct
<1>4. QED
  BY <1>1, <1>2, <1>3, StepIsCall

LEMMA DistinctAlways == Spec => []UInv
<1>1. Init => UInv
  BY DEF Init, UInv, Accesses
<1>2. TypeInv /\ LInv /\ UInv /\ [Next]_vars => UInv'
  BY DistinctInductive
<1>3. QED
  BY <1>1, <1>2, RaceHistoryType, LearnedAlways, PTL DEF Spec

\* What the bytes of a domain last saw: the last write and each lane's last read
\* since.
LastOn(d, b) == LastWrites(d, b) \cup LastReads(d, b)

\* A report of R names the lanes of accesses x and y and byte b.
Reported(R, x, y, b) ==
    \E r \in R : /\ r.key[1] = {x.actor, y.actor}
                 /\ r.key[2] <= b /\ b < r.key[3]
                 /\ r.key[4] = y.space

\* The access acc is call z of the history after the step: whatever last access of
\* one of its bytes it conflicts with happens before it or is reported with it.
Noticed(acc, z) ==
    \A b \in acc.lo .. (acc.hi - 1) : \A i \in LastOn(Domain(acc), b) :
        Conflict(hist[i].acc, acc) =>
            HappensBefore(hist', i, z) \/ Reported(reports', hist[i].acc, acc, b)

\* A step that makes an access dismisses no race of it.
RaceNoticed ==
    LET z == Len(hist') IN
    hist'[z].kind = "access" => Noticed(hist'[z].acc, z)

\* The detector takes an access for ordered only when it is.
LEMMA OrderedTruly ==
    ASSUME TypeInv, EInv, LInv, UInv, NEW a \in Lane, NEW o \in use.ops,
           NEW n \in Instructions(a, o), Running(CtaOf[a]),
           NEW acc, acc = MakeAccess(a, n, o), NEW k, k = tick(clocks[a], a),
           NEW e, e = [kind |-> "access", acc |-> acc], Called(e),
           NEW x \in Entries, NEW i \in Accesses, x.acc = hist[i].acc,
           happens_before(x.acc, x.clock, acc, k)
    PROVE  HappensBefore(hist', i, Len(hist) + 1)
<1>1. /\ acc.actor = a /\ acc.instruction = n /\ n \in Nat /\ e \in Call
      /\ e.kind = "access" /\ e.acc = acc
  BY AccessType DEF MakeAccess
<1>2. /\ hist' = Append(hist, e) /\ hist \in Seq(Call) /\ i \in 1 .. Len(hist)
      /\ hist[i].kind = "access" /\ hist[i].acc \in Access
  BY AccessInHistory DEF Called, TypeInv, Accesses
<1>3. CASE WarpOf[x.acc.actor] = WarpOf[a]
  <2>1. hist[i].acc.instruction < n /\ hist[i].acc.instruction \in Nat
    BY <1>1, <1>2, <1>3 DEF happens_before, Access
  <2>2. Participants(hist[i]) = {WarpOf[a]} /\ Participants(e) = {WarpOf[a]}
    BY <1>1, <1>2, <1>3 DEF Participants
  <2>3. ~SameInstruction(hist[i], e)
    BY <1>1, <2>1 DEF SameInstruction
  <2>4. DirectlyBefore(hist[i], e)
    BY <2>2, <2>3 DEF DirectlyBefore
  <2>5. QED
    BY <1>1, <1>2, <2>4, OrderGrows
<1>4. CASE WarpOf[x.acc.actor] # WarpOf[a]
  <2>1. dominates(k, x.clock) /\ x.acc.actor \in Lane
    BY <1>1, <1>4 DEF happens_before, EInv, Entered
  <2>2. Knows(k, x)
    BY <2>1 DEF dominates, Knows
  <2>3. Reaches(hist', x.acc, Len(hist) + 1)
    BY <1>1, <1>2, <2>2, AccessReaches
  <2>4. PICK j \in 1 .. Len(hist') : /\ hist'[j].kind = "access" /\ hist'[j].acc = x.acc
                                     /\ \/ j = Len(hist) + 1
                                        \/ HappensBefore(hist', j, Len(hist) + 1)
    BY <2>3 DEF Reaches
  <2>5. /\ Len(hist') = Len(hist) + 1 /\ hist'[Len(hist) + 1] = e /\ Len(hist) \in Nat
        /\ \A l \in 1 .. Len(hist) : hist'[l] = hist[l]
    BY <1>1, <1>2, AppendProperties
  <2>6. j # Len(hist) + 1
    BY <1>1, <1>4, <2>4, <2>5
  <2>7. j \in 1 .. Len(hist)
    BY <2>5, <2>6
  <2>8. j \in Accesses /\ hist[j].acc = hist[i].acc
    BY <2>4, <2>5, <2>7 DEF Accesses
  <2>9. QED
    BY <2>4, <2>6, <2>8 DEF UInv
<1>5. QED
  BY <1>3, <1>4

\* What check_interval returns is reported, now or before.
LEMMA FoundIsReported ==
    ASSUME NEW acc, NEW k, Record(acc, k), NEW iv \in Overlapped(acc),
           NEW y \in check_interval(acc, k, iv)
    PROVE  \E r \in reports' : r.key = dedup_key(y.acc, acc, iv)
<1> DEFINE new == [key |-> dedup_key(y.acc, acc, iv), first |-> y.acc, second |-> acc]
           found == UNION { { [key |-> dedup_key(x.acc, acc, jv), first |-> x.acc,
                               second |-> acc] : x \in check_interval(acc, k, jv) } :
                            jv \in Overlapped(acc) }
<1>1. new \in found
  OBVIOUS
<1>2. new.key = dedup_key(y.acc, acc, iv)
  OBVIOUS
<1>3. report(acc, k) = {r \in found : \A old \in reports : old.key # r.key}
  BY DEF report
<1>4. reports' = reports \cup report(acc, k)
  BY DEF Record
<1> HIDE DEF new, found
<1>5. QED
  BY <1>1, <1>2, <1>3, <1>4

LEMMA AccessNoticed ==
    ASSUME TypeInv, EInv, LInv, RInv, UInv, NEW a \in Lane, NEW o \in use.ops,
           NEW n \in Instructions(a, o), Running(CtaOf[a]),
           NEW acc, acc = MakeAccess(a, n, o), NEW k, k = tick(clocks[a], a),
           Record(acc, k), NEW e, e = [kind |-> "access", acc |-> acc], Called(e)
    PROVE  RaceNoticed
<1> DEFINE z == Len(hist)
<1>1. /\ acc \in Access /\ e \in Call /\ e.acc = acc /\ z = Len(hist)
  BY AccessType
<1>2. /\ hist' = Append(hist, e) /\ hist \in Seq(Call) /\ shadow \subseteq Interval
      /\ Domain(acc) \in ShadowDomain
  BY <1>1 DEF Called, TypeInv, Domain, ShadowDomain, Access
<1> HIDE DEF z
<1>3. Len(hist') = z + 1 /\ hist'[z + 1] = e /\ z \in Nat
  BY <1>1, <1>2, HistoryGrows
<1>4. ASSUME NEW b \in acc.lo .. (acc.hi - 1), NEW i \in LastOn(Domain(acc), b),
             Conflict(hist[i].acc, acc), ~HappensBefore(hist', i, z + 1)
      PROVE  Reported(reports', hist[i].acc, acc, b)
  <2>1. b \in Nat /\ acc.lo <= b /\ b < acc.hi /\ acc.lo \in Nat /\ acc.hi \in Nat
    BY <1>1 DEF Access
  <2>2. i \in Live(Domain(acc), b) /\ i \in Accesses
    BY DEF LastOn, LastWrites, LastReads, Live
  <2>3. PICK iv \in shadow : iv.dom = Domain(acc) /\ iv.lo <= b /\ b < iv.hi
    BY <1>2, <2>1, <2>2 DEF RInv, Kept, In
  <2>4. iv.lo \in Nat /\ iv.hi \in Nat
    BY <1>2, <2>3 DEF Interval
  <2>5. iv \in Overlapped(acc)
    BY <2>1, <2>3, <2>4 DEF Overlapped, Overlap
  <2>6. Remembers(iv, Live(Domain(acc), b), hist)
    BY <2>1, <2>3 DEF RInv, In
  <2>7. /\ Writes(Live(Domain(acc), b), hist) = LastWrites(Domain(acc), b)
        /\ Reads(Live(Domain(acc), b), hist) = LastReads(Domain(acc), b)
    BY DEF Writes, Reads, LastWrites, LastReads
  <2>8. PICK x : /\ x.acc = hist[i].acc
                 /\ \/ x \in iv.writer
                    \/ x \in iv.readers /\ ~hist[i].acc.is_write
    <3>1. CASE i \in LastWrites(Domain(acc), b)
      BY <2>6, <2>7, <3>1 DEF Remembers, EntryAccesses, AccessesOf
    <3>2. CASE i \in LastReads(Domain(acc), b)
      <4>1. ~hist[i].acc.is_write
        BY <3>2 DEF LastReads
      <4>2. \E x \in iv.readers : x.acc = hist[i].acc
        BY <2>6, <2>7, <3>2 DEF Remembers, EntryAccesses, AccessesOf
      <4>3. QED
        BY <4>1, <4>2
    <3>3. QED
      BY <3>1, <3>2 DEF LastOn
  <2>9. x \in Entries
    BY <2>3, <2>8 DEF Entries
  <2>10. ~happens_before(x.acc, x.clock, acc, k)
    BY <1>1, <1>4, <2>2, <2>8, <2>9, OrderedTruly
  <2>11. ~(x.acc.is_atomic /\ acc.is_atomic /\ SameRange(x.acc, acc))
    BY <1>4, <2>8 DEF Conflict
  <2>12. \E y \in check_interval(acc, k, iv) : y.acc.actor = x.acc.actor
    <3>1. CASE x \in iv.writer
      BY <2>10, <2>11, <3>1 DEF check_interval
    <3>2. CASE x \in iv.readers /\ ~hist[i].acc.is_write
      <4>1. acc.is_write
        BY <1>4, <3>2 DEF Conflict
      <4>2. CASE \A w \in iv.writer : w.acc.actor = x.acc.actor =>
                    \/ w.acc.is_atomic /\ acc.is_atomic /\ SameRange(w.acc, acc)
                    \/ happens_before(w.acc, w.clock, acc, k)
        BY <2>10, <3>2, <4>1, <4>2 DEF check_interval
      <4>3. ASSUME NEW w \in iv.writer, w.acc.actor = x.acc.actor,
                   ~(w.acc.is_atomic /\ acc.is_atomic /\ SameRange(w.acc, acc)),
                   ~happens_before(w.acc, w.clock, acc, k)
            PROVE  \E y \in check_interval(acc, k, iv) : y.acc.actor = x.acc.actor
        BY <4>3 DEF check_interval
      <4>4. QED
        BY <4>2, <4>3
    <3>3. QED
      BY <2>8, <3>1, <3>2
  <2>13. PICK y \in check_interval(acc, k, iv) : y.acc.actor = x.acc.actor
    BY <2>12
  <2>14. PICK r \in reports' : r.key = dedup_key(y.acc, acc, iv)
    BY <2>5, FoundIsReported
  <2>15. ob(iv, acc) <= b /\ b < oe(iv, acc)
    BY <2>1, <2>3, <2>4 DEF ob, oe
  <2>16. /\ r.key[1] = {hist[i].acc.actor, acc.actor} /\ r.key[2] = ob(iv, acc)
         /\ r.key[3] = oe(iv, acc) /\ r.key[4] = acc.space
    BY <2>8, <2>13, <2>14 DEF dedup_key
  <2>17. QED
    BY <2>15, <2>16 DEF Reported
<1>5. Noticed(acc, z + 1)
  BY <1>4 DEF Noticed
<1>6. QED
  BY <1>1, <1>3, <1>5 DEF RaceNoticed

LEMMA StepNoticed ==
    ASSUME TypeInv, EInv, LInv, RInv, UInv, Next
    PROVE  RaceNoticed
<1>1. ASSUME NEW a \in Lane, NEW o \in use.ops, NEW n \in Instructions(a, o),
             Running(CtaOf[a]), Record(MakeAccess(a, n, o), tick(clocks[a], a)),
             Called([kind |-> "access", acc |-> MakeAccess(a, n, o)])
      PROVE  RaceNoticed
  <2> DEFINE acc == MakeAccess(a, n, o)
             k == tick(clocks[a], a)
             e == [kind |-> "access", acc |-> acc]
  <2>1. /\ acc = MakeAccess(a, n, o) /\ k = tick(clocks[a], a) /\ Record(acc, k)
        /\ e = [kind |-> "access", acc |-> acc] /\ Called(e)
    BY <1>1
  <2> HIDE DEF acc, k, e
  <2>2. QED
    BY <1>1, <2>1, AccessNoticed
<1>2. ASSUME NEW e \in Call, hist' = Append(hist, e), e.kind # "access"
      PROVE  RaceNoticed
  <2>1. hist'[Len(hist')].kind # "access"
    BY <1>2, AppendProperties DEF TypeInv
  <2>2. QED
    BY <2>1 DEF RaceNoticed
<1>3. QED
  BY <1>1, <1>2, StepIsCall

\* observe and atomic_rmw dismiss no race: for every set of lanes and warps, every
\* use of barriers, releases and acquires and a history of any length, an access
\* that conflicts with a last access of one of its bytes is reported on that byte
\* unless the two are ordered by happens-before.
THEOREM NoRaceDismissed == Spec => [][RaceNoticed]_vars
<1>1. TypeInv /\ EInv /\ LInv /\ RInv /\ UInv /\ [Next]_vars => [RaceNoticed]_vars
  BY StepNoticed
<1>2. QED
  BY <1>1, RaceHistoryType, LearnedAlways, ShadowAlways, DistinctAlways, PTL DEF Spec

-----------------------------------------------------------------------------
(* No alarm is false.                                                      *)

Heard(h, i, k) == i = k \/ LaneOrdered(h, i, k)

\* A release whose location no reclaim has forgotten.
LiveRelease(d) ==
    /\ d.kind = "access" /\ SyncOp(d.acc) /\ is_release_order(d.acc.mem_order)
    /\ d.acc.space = "shared" => Running(d.acc.domain)
    /\ d.acc.space = "global" => d.acc.generation = generations[d.acc.domain]

\* Whoever may read lane a's operation of scope s may read record r.
AsVisible(s, a, r) ==
    \A o \in use.ops : \A b \in Lane :
        o.is_atomic /\ MorallyStrong(s, a, o.scope, b)
            => MorallyStrong(r.scope, r.actor, o.scope, b)

\* A record at the location of acc that tells of x all who may read acc.
Carried(acc, x) ==
    \E r \in release_clocks : /\ r.key = key_of(acc) /\ Knows(r.clock, x)
                              /\ AsVisible(acc.scope, acc.actor, r)

\* Nothing gets lost: whoever has heard of an access knows its epoch.
KInv ==
    /\ \A x \in Entries : \A i \in Accesses : hist[i].acc = x.acc =>
          \A k \in 1 .. Len(hist) : Heard(hist, i, k) =>
             /\ \A a \in Lane : Running(CtaOf[a]) /\ Acts(a, hist[k]) => Knows(clocks[a], x)
             /\ LiveRelease(hist[k]) => Carried(hist[k].acc, x)
    /\ \A r \in release_clocks :
          r.actor \in Lane /\ \E o \in use.ops : o.is_atomic /\ o.scope = r.scope

\* The access acc belongs to instruction n of CTA c.
OfInstruction(acc, c, n) == CtaOf[acc.actor] = c /\ acc.instruction = n

\* A lane makes one access per instruction, the accesses of an instruction follow
\* each other, and atomics write.
BInv ==
    /\ \A i, j \in Accesses :
          /\ hist[i].acc.actor = hist[j].acc.actor
          /\ hist[i].acc.instruction = hist[j].acc.instruction
          => i = j
    /\ Len(hist) \in Accesses =>
          LET last == hist[Len(hist)].acc IN
          /\ last.instruction = executed[CtaOf[last.actor]]
          /\ \A i \in Accesses :
                OfInstruction(hist[i].acc, CtaOf[last.actor], last.instruction) =>
                \A k \in i .. Len(hist) :
                   /\ k \in Accesses /\ hist[k].acc.is_write = last.is_write
                   /\ OfInstruction(hist[k].acc, CtaOf[last.actor], last.instruction)
    /\ \A i \in Accesses : hist[i].acc.is_atomic => hist[i].acc.is_write

\* A report names two accesses that the order leaves unordered.
AInv ==
    \A r \in reports : \E i, j \in Accesses :
        /\ i < j /\ hist[i].acc = r.first /\ hist[j].acc = r.second
        /\ ~Ordered(hist, i, j)

\* A further call orders nothing among the earlier ones, and comes after what
\* comes directly before it, and nothing else.
LEMMA LaneOrderGrows ==
    ASSUME NEW h \in Seq(Call), NEW e \in Call, NEW g, g = Append(h, e),
           NEW i \in 1 .. Len(h)
    PROVE  /\ \A k \in 1 .. Len(h) : LaneOrdered(g, i, k) => LaneOrdered(h, i, k)
           /\ LaneOrdered(g, i, Len(h) + 1) =>
                \E k \in 1 .. Len(h) : Heard(h, i, k) /\ LaneBefore(h[k], e)
<1> DEFINE z == Len(h)
<1>1. /\ z \in Nat /\ Len(g) = z + 1 /\ g[z + 1] = e
      /\ \A x \in 1 .. z : g[x] = h[x]
  BY AppendProperties
<1>2. z = Len(h) /\ i \in 1 .. z
  OBVIOUS
<1> HIDE DEF z
<1>3. ASSUME NEW k \in 1 .. z, LaneOrdered(g, i, k), NEW S \in SUBSET ((i + 1) .. z),
             Sealed(h, i, S)
      PROVE  k \in S
  <2> DEFINE T == S \cup {z + 1}
  <2>1. T \in SUBSET ((i + 1) .. (z + 1))
    <3>1. \A x \in (i + 1) .. z : x \in (i + 1) .. (z + 1)
      BY <1>1, <1>2
    <3>2. z + 1 \in (i + 1) .. (z + 1)
      BY <1>1, <1>2
    <3>3. QED
      BY <3>1, <3>2
  <2>2. Sealed(g, i, T)
    <3> SUFFICES ASSUME NEW x \in T \cup {i}, NEW y \in (x + 1) .. (z + 1),
                        LaneBefore(g[x], g[y]), y # z + 1
                 PROVE  y \in T
      BY <1>1 DEF Sealed
    <3>1. x \in S \cup {i} /\ x \in 1 .. z /\ y \in 1 .. z /\ y \in (x + 1) .. z
      BY <1>1, <1>2
    <3>2. g[x] = h[x] /\ g[y] = h[y]
      BY <1>1, <3>1
    <3>3. QED
      BY <1>2, <1>3, <3>1, <3>2 DEF Sealed
  <2>3. k \in T
    BY <1>1, <1>3, <2>1, <2>2 DEF LaneOrdered
  <2>4. QED
    BY <1>1, <2>3
<1>4. ASSUME LaneOrdered(g, i, z + 1)
      PROVE  \E k \in 1 .. z : Heard(h, i, k) /\ LaneBefore(h[k], e)
  <2> SUFFICES ASSUME \A k \in 1 .. z : ~(Heard(h, i, k) /\ LaneBefore(h[k], e))
               PROVE  FALSE
    OBVIOUS
  <2> DEFINE T == {k \in (i + 1) .. z : LaneOrdered(h, i, k)}
  <2>1. T \in SUBSET ((i + 1) .. (z + 1)) /\ z + 1 \notin T
    BY <1>1, <1>2
  <2>2. ASSUME NEW x \in T \cup {i}, NEW y \in (x + 1) .. z, LaneBefore(h[x], h[y])
        PROVE  y \in T
    <3>1. x \in 1 .. z /\ y \in (i + 1) .. z
      BY <1>1, <1>2
    <3>2. ASSUME NEW S \in SUBSET ((i + 1) .. z), Sealed(h, i, S) PROVE y \in S
      <4>1. x \in S \cup {i}
        BY <1>2, <3>2 DEF LaneOrdered
      <4>2. QED
        BY <1>2, <2>2, <3>2, <4>1 DEF Sealed
    <3>3. QED
      BY <1>2, <3>1, <3>2 DEF LaneOrdered
  <2>3. \A x \in T \cup {i} : x \in 1 .. z /\ Heard(h, i, x)
    BY <1>1, <1>2 DEF Heard
  <2> HIDE DEF T
  <2>4. Sealed(g, i, T)
    <3> SUFFICES ASSUME NEW x \in T \cup {i}, NEW y \in (x + 1) .. (z + 1),
                        LaneBefore(g[x], g[y])
                 PROVE  y \in T
      BY <1>1 DEF Sealed
    <3>1. x \in 1 .. z /\ Heard(h, i, x) /\ g[x] = h[x]
      BY <1>1, <2>3
    <3>2. y # z + 1
      BY <1>1, <3>1
    <3>3. y \in (x + 1) .. z /\ y \in 1 .. z
      BY <1>1, <3>1, <3>2
    <3>4. QED
      BY <1>1, <2>2, <3>1, <3>3
  <2>5. QED
    BY <1>1, <1>4, <2>1, <2>4 DEF LaneOrdered
<1>5. QED
  BY <1>2, <1>3, <1>4 DEF LaneOrdered

LEMMA LaneOrderForward ==
    ASSUME NEW h, Len(h) \in Nat, NEW i \in Nat, NEW j, LaneOrdered(h, i, j)
    PROVE  j \in (i + 1) .. Len(h)
<1> DEFINE S == (i + 1) .. Len(h)
<1>1. ASSUME NEW k \in S \cup {i}, NEW l \in (k + 1) .. Len(h) PROVE l \in S
  OBVIOUS
<1> HIDE DEF S
<1>2. Sealed(h, i, S)
  BY <1>1 DEF Sealed
<1>3. QED
  BY <1>2 DEF LaneOrdered, S

-----------------------------------------------------------------------------
(* The accesses of an instruction.                                         *)

LEMMA AccessBurst ==
    ASSUME TypeInv, LInv, BInv, NEW a \in Lane, NEW o \in use.ops,
           NEW n \in Instructions(a, o), NEW acc, acc = MakeAccess(a, n, o),
           NEW e, e = [kind |-> "access", acc |-> acc], Called(e), Counts(a, n)
    PROVE  BInv'
<1> DEFINE z == Len(hist)
<1>1. /\ acc \in Access /\ acc.actor = a /\ acc.instruction = n /\ n \in Nat /\ e \in Call
      /\ acc.is_write = o.is_write
  BY AccessType DEF MakeAccess
<1>2. /\ hist' = Append(hist, e) /\ hist \in Seq(Call) /\ executed[CtaOf[a]] \in Nat
      /\ z = Len(hist) /\ e.kind = "access" /\ e.acc = acc
  BY CtaCount DEF Called, TypeInv
<1> HIDE DEF z
<1>3. /\ z \in Nat /\ Len(hist') = z + 1 /\ hist'[z + 1] = e
      /\ \A i \in 1 .. z : hist'[i] = hist[i]
  BY <1>1, <1>2, HistoryGrows
<1>4. Accesses' = Accesses \cup {z + 1}
  BY <1>1, <1>2, AccessesGrow
<1>5. ASSUME NEW i \in Accesses
      PROVE  /\ i \in 1 .. z /\ hist'[i] = hist[i] /\ hist[i].acc.instruction \in Nat
             /\ CtaOf[hist[i].acc.actor] = CtaOf[a] =>
                  hist[i].acc.instruction <= executed[CtaOf[a]]
             /\ ~(hist[i].acc.actor = a /\ hist[i].acc.instruction = n)
  <2>1. i \in 1 .. z /\ hist[i].acc.instruction \in Nat /\ hist'[i] = hist[i]
    BY <1>2, <1>3, AccessInHistory DEF Access
  <2>2. CtaOf[hist[i].acc.actor] = CtaOf[a] => hist[i].acc.instruction <= executed[CtaOf[a]]
    BY DEF LInv
  <2>3. CASE n = executed[CtaOf[a]] + 1
    BY <1>2, <2>1, <2>2, <2>3
  <2>4. CASE n = executed[CtaOf[a]] /\ n # executed[CtaOf[a]] + 1
    BY <2>1, <2>2, <2>4 DEF Instructions
  <2>5. QED
    BY <2>3, <2>4 DEF Instructions
<1>6. ASSUME NEW i \in Accesses', NEW j \in Accesses',
             hist'[i].acc.actor = hist'[j].acc.actor,
             hist'[i].acc.instruction = hist'[j].acc.instruction
      PROVE  i = j
  <2>1. CASE i \in Accesses /\ j \in Accesses
    <3>1. /\ hist[i].acc.actor = hist[j].acc.actor
          /\ hist[i].acc.instruction = hist[j].acc.instruction
      BY <1>5, <1>6, <2>1
    <3>2. QED
      BY <2>1, <3>1 DEF BInv
  <2>2. CASE i = z + 1 \/ j = z + 1
    BY <1>1, <1>2, <1>3, <1>4, <1>5, <1>6, <2>2
  <2>3. QED
    BY <1>4, <2>1, <2>2
<1>7. ASSUME NEW i \in Accesses', OfInstruction(hist'[i].acc, CtaOf[a], n),
             NEW k \in i .. (z + 1)
      PROVE  /\ k \in Accesses' /\ OfInstruction(hist'[k].acc, CtaOf[a], n)
             /\ hist'[k].acc.is_write = acc.is_write
  <2>1. CASE k = z + 1
    BY <1>1, <1>2, <1>3, <1>4, <2>1 DEF OfInstruction
  <2>2. CASE k # z + 1
    <3>1. i \in Accesses /\ k \in i .. z /\ OfInstruction(hist[i].acc, CtaOf[a], n)
      BY <1>3, <1>4, <1>5, <1>7, <2>2
    <3>2. n = executed[CtaOf[a]] /\ n # executed[CtaOf[a]] + 1
      BY <1>2, <1>5, <3>1 DEF Instructions, OfInstruction
    <3>3. /\ hist[z].kind = "access" /\ hist[z].acc.is_write = o.is_write /\ z \in 1 .. z
          /\ WarpOf[hist[z].acc.actor] = WarpOf[a]
      <4>1. z \in 1 .. z
        BY <1>3, <1>5, <3>1
      <4>2. QED
        BY <1>2, <3>2, <4>1 DEF Instructions
    <3>4. Len(hist) \in Accesses
      BY <1>2, <3>3 DEF Accesses
    <3>5. CtaOf[hist[z].acc.actor] = CtaOf[a]
      BY <1>2, <3>3, <3>4, AccessInHistory, RaceAssumption DEF Access
    <3>6. /\ k \in Accesses /\ OfInstruction(hist[k].acc, CtaOf[a], n)
          /\ hist[k].acc.is_write = hist[z].acc.is_write
      BY <1>2, <3>1, <3>2, <3>4, <3>5 DEF BInv
    <3>7. QED
      BY <1>1, <1>4, <1>5, <3>3, <3>6
  <2>3. QED
    BY <2>1, <2>2
<1>8. /\ hist'[Len(hist')].acc = acc /\ Len(hist') = z + 1
      /\ executed'[CtaOf[acc.actor]] = n
  BY <1>1, <1>2, <1>3, CtaCount DEF Counts, TypeInv
<1>9. acc.is_atomic => acc.is_write
  BY RaceAssumption DEF MakeAccess, TypeInv
<1>10. \A i \in Accesses' : hist'[i].acc.is_atomic => hist'[i].acc.is_write
  BY <1>2, <1>3, <1>4, <1>5, <1>9 DEF BInv
<1>11. QED
  BY <1>1, <1>6, <1>7, <1>8, <1>10 DEF BInv

LEMMA QuietBurst ==
    ASSUME TypeInv, BInv, NEW e \in Call, hist' = Append(hist, e), e.kind # "access"
    PROVE  BInv'
<1>1. hist \in Seq(Call)
  BY DEF TypeInv
<1>2. Accesses' = Accesses /\ Len(hist') = Len(hist) + 1 /\ Len(hist) \in Nat
  BY <1>1, AccessesGrow, HistoryGrows
<1>3. \A i \in Accesses : hist'[i] = hist[i] /\ i # Len(hist')
  BY <1>1, <1>2, AccessInHistory, HistoryGrows
<1>4. ASSUME NEW i \in Accesses', NEW j \in Accesses',
             hist'[i].acc.actor = hist'[j].acc.actor,
             hist'[i].acc.instruction = hist'[j].acc.instruction
      PROVE  i = j
  <2>1. /\ i \in Accesses /\ j \in Accesses
        /\ hist[i].acc.actor = hist[j].acc.actor
        /\ hist[i].acc.instruction = hist[j].acc.instruction
    BY <1>2, <1>3, <1>4
  <2>2. QED
    BY <2>1 DEF BInv
<1>5. \A i \in Accesses' : hist'[i].acc.is_atomic => hist'[i].acc.is_write
  BY <1>2, <1>3 DEF BInv
<1>6. Len(hist') \notin Accesses'
  BY <1>2, <1>3
<1>7. QED
  BY <1>4, <1>5, <1>6 DEF BInv

LEMMA BurstInductive ==
    ASSUME TypeInv, LInv, BInv, [Next]_vars
    PROVE  BInv'
<1>1. CASE UNCHANGED vars
  <2>1. hist' = hist /\ Accesses' = Accesses /\ executed' = executed
    BY <1>1 DEF vars, Accesses
  <2>2. QED
    BY <2>1 DEF BInv
<1>2. ASSUME NEW a \in Lane, NEW o \in use.ops, NEW n \in Instructions(a, o),
             Called([kind |-> "access", acc |-> MakeAccess(a, n, o)]), Counts(a, n)
      PROVE  BInv'
  <2> DEFINE acc == MakeAccess(a, n, o)
             e == [kind |-> "access", acc |-> acc]
  <2>1. acc = MakeAccess(a, n, o) /\ e = [kind |-> "access", acc |-> acc] /\ Called(e)
    BY <1>2
  <2> HIDE DEF acc, e
  <2>2. QED
    BY <1>2, <2>1, AccessBurst
<1>3. ASSUME NEW e \in Call, hist' = Append(hist, e), e.kind # "access" PROVE BInv'
  BY <1>3, QuietBurst
<1>4. QED
  BY <1>1, <1>2, <1>3, StepIsCall

LEMMA BurstAlways == Spec => []BInv
<1>1. Init => BInv
  BY DEF Init, BInv, Accesses
<1>2. TypeInv /\ LInv /\ BInv /\ [Next]_vars => BInv'
  BY BurstInductive
<1>3. QED
  BY <1>1, <1>2, RaceHistoryType, LearnedAlways, PTL DEF Spec

\* Calls i to z of h are accesses of one instruction.
OneInstruction(h, i, z) ==
    /\ \A k \in i .. z : h[k].kind = "access"
    /\ \A k, l \in i .. z : h[k].acc.actor = h[l].acc.actor => k = l

\* Within an instruction only synchronization orders accesses, and it keeps to one
\* location.
LEMMA BurstOrder ==
    ASSUME NEW h, NEW z \in Nat, z = Len(h), NEW i \in 1 .. z, OneInstruction(h, i, z),
           LaneOrdered(h, i, z)
    PROVE  /\ key_of(h[i].acc) = key_of(h[z].acc)
           /\ h[i].acc.is_atomic /\ h[z].acc.is_atomic
<1> DEFINE key == key_of(h[i].acc)
           S == {k \in (i + 1) .. z : /\ h[i].acc.is_atomic /\ h[k].acc.is_atomic
                                      /\ key_of(h[k].acc) = key}
<1>1. ASSUME NEW k \in S \cup {i}, NEW l \in (k + 1) .. z, LaneBefore(h[k], h[l])
      PROVE  l \in S
  <2>1. k \in i .. z /\ l \in i .. z /\ l \in (i + 1) .. z /\ k # l
    OBVIOUS
  <2>2. h[k].kind = "access" /\ h[l].kind = "access" /\ h[k].acc.actor # h[l].acc.actor
    BY <2>1 DEF OneInstruction
  <2>3. SynchronizesWith(h[k], h[l])
    BY <1>1, <2>2 DEF LaneBefore, Acts
  <2>4. /\ key_of(h[k].acc) = key_of(h[l].acc)
        /\ h[k].acc.is_atomic /\ h[l].acc.is_atomic
    BY <2>3 DEF SynchronizesWith, SyncOp
  <2>5. QED
    BY <2>1, <2>4
<1>2. S \in SUBSET ((i + 1) .. z)
  OBVIOUS
<1>3. z \in S => /\ key_of(h[z].acc) = key
                 /\ h[i].acc.is_atomic /\ h[z].acc.is_atomic
  OBVIOUS
<1> HIDE DEF S
<1>4. Sealed(h, i, S)
  BY <1>1 DEF Sealed
<1>5. z \in S
  BY <1>2, <1>4 DEF LaneOrdered
<1>6. QED
  BY <1>3, <1>5

-----------------------------------------------------------------------------
(* Whoever has heard of an access knows it.                                *)

\* What the shadow holds of a byte is what the history says of it.
LEMMA EntryAt ==
    ASSUME RInv, NEW iv \in shadow, NEW b \in Nat, In(iv, b), NEW x
    PROVE  /\ x \in iv.writer => \E i \in LastWrites(iv.dom, b) : hist[i].acc = x.acc
           /\ x \in iv.readers => \E i \in LastReads(iv.dom, b) : hist[i].acc = x.acc
<1> DEFINE L == Live(iv.dom, b)
<1>1. Remembers(iv, L, hist)
  BY DEF RInv
<1>2. Writes(L, hist) = LastWrites(iv.dom, b) /\ Reads(L, hist) = LastReads(iv.dom, b)
  BY DEF Writes, Reads, LastWrites, LastReads
<1> HIDE DEF L
<1>3. x \in iv.writer => x.acc \in AccessesOf(Writes(L, hist), hist)
  BY <1>1 DEF Remembers, EntryAccesses
<1>4. x \in iv.readers => x.acc \in AccessesOf(Reads(L, hist), hist)
  BY <1>1 DEF Remembers, EntryAccesses
<1>5. QED
  BY <1>2, <1>3, <1>4 DEF AccessesOf

LEMMA EntrySince ==
    ASSUME TypeInv, RInv, UInv, NEW x \in Entries, NEW i \in Accesses, hist[i].acc = x.acc
    PROVE  i \in SinceLaunch
<1>1. PICK iv \in shadow : x \in iv.writer \cup iv.readers
  BY DEF Entries
<1>2. iv.lo \in Nat /\ In(iv, iv.lo)
  BY DEF RInv, IntervalsDisjoint, Interval, In
<1>3. \E j \in Live(iv.dom, iv.lo) : hist[j].acc = x.acc
  BY <1>1, <1>2, EntryAt DEF LastWrites, LastReads
<1>4. PICK j \in Accesses \cap SinceLaunch : hist[j].acc = x.acc
  BY <1>3 DEF Live
<1>5. QED
  BY <1>4 DEF UInv

\* How an access comes to be after another: its lane knew, or it reads a release.
LEMMA HearsOf ==
    ASSUME TypeInv, RInv, UInv, KInv, NEW a \in Lane, NEW o \in use.ops,
           NEW n \in Instructions(a, o), Running(CtaOf[a]), NEW acc, acc = MakeAccess(a, n, o),
           NEW e, e = [kind |-> "access", acc |-> acc], NEW g, g = Append(hist, e),
           NEW x \in Entries, NEW i \in Accesses, hist[i].acc = x.acc,
           LaneOrdered(g, i, Len(hist) + 1)
    PROVE  \/ Knows(clocks[a], x)
           \/ \E k \in 1 .. Len(hist) : /\ Heard(hist, i, k) /\ SynchronizesWith(hist[k], e)
                                        /\ Carried(hist[k].acc, x)
<1>1. /\ acc.actor = a /\ e \in Call /\ hist \in Seq(Call) /\ Len(hist) \in Nat
      /\ acc.space = "shared" => acc.domain = CtaOf[a] /\ acc.generation = 0
      /\ acc.space = "global" => /\ acc.domain \in Alloc
                                 /\ acc.generation = generations[acc.domain]
      /\ e.kind = "access" /\ e.acc = acc
  BY AccessType DEF TypeInv
<1>2. i \in 1 .. Len(hist) /\ i \in SinceLaunch /\ i \in Nat
  BY AccessInHistory, EntrySince
<1>3. PICK k \in 1 .. Len(hist) : Heard(hist, i, k) /\ LaneBefore(hist[k], e)
  BY <1>1, <1>2, LaneOrderGrows
<1>4. k \in i .. Len(hist)
  <2>1. LaneOrdered(hist, i, k) => k \in (i + 1) .. Len(hist)
    BY <1>1, <1>2, LaneOrderForward
  <2>2. QED
    BY <1>1, <1>2, <1>3, <2>1 DEF Heard
<1>5. hist[k].kind # "launch"
  BY <1>2, <1>4 DEF SinceLaunch
<1>6. /\ \A b \in Lane : Running(CtaOf[b]) /\ Acts(b, hist[k]) => Knows(clocks[b], x)
      /\ LiveRelease(hist[k]) => Carried(hist[k].acc, x)
  BY <1>3 DEF KInv
<1>7. CASE \E b \in Lane : Acts(b, hist[k]) /\ Acts(b, e)
  <2>1. Acts(a, hist[k])
    BY <1>1, <1>7 DEF Acts
  <2>2. QED
    BY <1>6, <2>1
<1>8. CASE SynchronizesWith(hist[k], e)
  <2> DEFINE d == hist[k].acc
  <2>1. /\ hist[k].kind = "access" /\ SyncOp(d) /\ is_release_order(d.mem_order)
        /\ key_of(d) = key_of(acc)
    BY <1>1, <1>8 DEF SynchronizesWith
  <2>2. d.space = acc.space /\ d.domain = acc.domain /\ d.generation = acc.generation
    BY <2>1 DEF key_of, Domain
  <2>3. LiveRelease(hist[k])
    BY <1>1, <2>1, <2>2 DEF LiveRelease
  <2>4. QED
    BY <1>3, <1>6, <1>8, <2>3
<1>9. QED
  BY <1>1, <1>3, <1>5, <1>7, <1>8 DEF LaneBefore

\* The record that tells an acquire of what it has heard.
LEMMA ReadsRecord ==
    ASSUME NEW a \in Lane, NEW o \in use.ops, NEW n, NEW acc, acc = MakeAccess(a, n, o),
           NEW e, e = [kind |-> "access", acc |-> acc],
           NEW d, SynchronizesWith(d, e), NEW x, Carried(d.acc, x)
    PROVE  \E r \in release_clocks : Reads_from(r, acc) /\ Knows(r.clock, x)
<1>1. /\ acc.actor = a /\ acc.scope = o.scope /\ acc.is_atomic = o.is_atomic
      /\ e.kind = "access" /\ e.acc = acc
  BY DEF MakeAccess
<1>2. PICK r \in release_clocks : /\ r.key = key_of(d.acc) /\ Knows(r.clock, x)
                                  /\ AsVisible(d.acc.scope, d.acc.actor, r)
  BY DEF Carried
<1>3. /\ SyncOp(acc) /\ is_acquire_order(acc.mem_order) /\ key_of(d.acc) = key_of(acc)
      /\ MorallyStrong(d.acc.scope, d.acc.actor, o.scope, a)
  BY <1>1 DEF SynchronizesWith
<1>4. MorallyStrong(r.scope, r.actor, o.scope, a)
  BY <1>1, <1>2, <1>3 DEF AsVisible, SyncOp
<1>5. QED
  BY <1>1, <1>2, <1>3, <1>4 DEF Reads_from

\* The clock m of an access of acc takes in all releases it may read.
TakesIn(m, acc) ==
    \A r \in release_clocks : Reads_from(r, acc) => r.clock \in Clock /\ dominates(m, r.clock)

\* The records after an access of acc with clock k.
Publishes(acc, k) ==
    /\ release_clocks \subseteq release_clocks'
    /\ SyncOp(acc) /\ is_release_order(acc.mem_order) =>
          \E r \in release_clocks' : /\ r.key = key_of(acc) /\ r.actor = acc.actor
                                     /\ r.scope = acc.scope /\ r.clock = k
    /\ \A r \in release_clocks' :
          r \in release_clocks \/ (r.actor = acc.actor /\ r.scope = acc.scope /\ acc.is_atomic)

LEMMA KnowsMore ==
    ASSUME NEW x, x.acc.actor \in Lane, x.clock \in Clock, NEW c \in Clock, NEW d \in Clock,
           dominates(d, c), Knows(c, x)
    PROVE  Knows(d, x)
<1> DEFINE b == x.acc.actor
<1>1. x.clock[b] \in Nat /\ c[b] \in Nat /\ d[b] \in Nat /\ c[b] <= d[b] /\ x.clock[b] <= c[b]
  BY DEF dominates, Knows, Clock
<1>2. QED
  BY <1>1 DEF Knows

\* What an access has heard of, its lane knows afterwards, and so does a record that
\* its release is as visible as.
LEMMA AccessInformed ==
    ASSUME ScopesCompose, TypeInv, EInv, RInv, UInv, KInv, NEW a \in Lane, NEW o \in use.ops,
           NEW n \in Instructions(a, o), Running(CtaOf[a]), NEW acc, acc = MakeAccess(a, n, o),
           NEW k, k = tick(clocks[a], a), NEW e, e = [kind |-> "access", acc |-> acc],
           Called(e), NEW m \in Clock, dominates(m, k), TakesIn(m, acc), Publishes(acc, k),
           NEW x \in Entries, NEW i \in Accesses, hist[i].acc = x.acc,
           LaneOrdered(hist', i, Len(hist) + 1)
    PROVE  /\ Knows(m, x)
           /\ SyncOp(acc) /\ is_release_order(acc.mem_order) => Carried(acc, x)'
<1>1. /\ acc.actor = a /\ acc.scope = o.scope /\ acc.is_atomic = o.is_atomic
      /\ acc.mem_order = o.mem_order /\ k \in Clock /\ e.kind = "access" /\ e.acc = acc
  BY AccessType DEF MakeAccess
<1>2. hist' = Append(hist, e) /\ use' = use /\ clocks[a] \in Clock
  BY DEF Called, TypeInv
<1>3. x.acc.actor \in Lane /\ x.clock \in Clock
  BY DEF EInv, Entered
<1>4. CASE Knows(clocks[a], x)
  <2>1. dominates(k, clocks[a])
    BY <1>2 DEF dominates, tick, Clock
  <2>2. Knows(k, x) /\ Knows(m, x)
    BY <1>1, <1>2, <1>3, <1>4, <2>1, KnowsMore
  <2>3. ASSUME SyncOp(acc), is_release_order(acc.mem_order) PROVE Carried(acc, x)'
    <3>1. PICK r \in release_clocks' : /\ r.key = key_of(acc) /\ r.actor = acc.actor
                                       /\ r.scope = acc.scope /\ r.clock = k
      BY <2>3 DEF Publishes
    <3>2. AsVisible(acc.scope, acc.actor, r)'
      BY <3>1 DEF AsVisible
    <3>3. Knows(r.clock, x)
      BY <2>2, <3>1
    <3>4. QED
      BY <3>1, <3>2, <3>3 DEF Carried, Knows
  <2>4. QED
    BY <2>2, <2>3
<1>5. ASSUME NEW j \in 1 .. Len(hist), SynchronizesWith(hist[j], e), Carried(hist[j].acc, x)
      PROVE  /\ Knows(m, x)
             /\ SyncOp(acc) /\ is_release_order(acc.mem_order) => Carried(acc, x)'
  <2> DEFINE d == hist[j]
  <2>0. SynchronizesWith(d, e) /\ Carried(d.acc, x)
    BY <1>5
  <2> HIDE DEF d
  <2>1. PICK r \in release_clocks : Reads_from(r, acc) /\ Knows(r.clock, x)
    BY <2>0, ReadsRecord
  <2>2. Knows(m, x)
    BY <1>3, <2>1, KnowsMore DEF TakesIn
  <2>3. ASSUME SyncOp(acc), is_release_order(acc.mem_order) PROVE Carried(acc, x)'
    <3>1. o.mem_order = "acq_rel" /\ o.is_atomic
      BY <1>1, <2>1, <2>3 DEF Reads_from, SyncOp, is_release_order, is_acquire_order
    <3>2. PICK p \in use.ops : p.is_atomic /\ p.scope = r.scope /\ r.actor \in Lane
      BY DEF KInv
    <3>3. MorallyStrong(p.scope, r.actor, o.scope, a) /\ r.key = key_of(acc)
      BY <1>1, <2>1, <3>2 DEF Reads_from
    <3>4. ASSUME NEW q \in use.ops, NEW b \in Lane, q.is_atomic,
                 MorallyStrong(o.scope, a, q.scope, b)
          PROVE  MorallyStrong(p.scope, r.actor, q.scope, b)
      <4>1. use \in Uses
        BY DEF TypeInv
      <4>2. QED
        BY <3>1, <3>2, <3>3, <3>4, <4>1 DEF ScopesCompose
    <3>5. AsVisible(acc.scope, acc.actor, r)'
      BY <1>1, <1>2, <3>2, <3>4 DEF AsVisible
    <3>6. r \in release_clocks'
      BY DEF Publishes
    <3>7. QED
      BY <2>1, <3>3, <3>5, <3>6 DEF Carried, Knows
  <2>4. QED
    BY <2>2, <2>3
<1>6. QED
  BY <1>2, <1>4, <1>5, HearsOf

LEMMA CarriedStays ==
    ASSUME NEW acc, NEW x, Carried(acc, x), use' = use,
           \A r \in release_clocks : r.key = key_of(acc) => r \in release_clocks'
    PROVE  Carried(acc, x)'
<1>1. PICK r \in release_clocks : /\ r.key = key_of(acc) /\ Knows(r.clock, x)
                                  /\ AsVisible(acc.scope, acc.actor, r)
  BY DEF Carried
<1>2. AsVisible(acc.scope, acc.actor, r)'
  BY <1>1 DEF AsVisible
<1>3. QED
  BY <1>1, <1>2 DEF Carried, Knows

\* What the invariant says of call k and an entry x that it has heard of.
Told(k, x) ==
    /\ \A a \in Lane : Running(CtaOf[a]) /\ Acts(a, hist[k]) => Knows(clocks[a], x)
    /\ LiveRelease(hist[k]) => Carried(hist[k].acc, x)

LEMMA AccessHears ==
    ASSUME ScopesCompose, TypeInv, EInv, LInv, RInv, UInv, KInv, NEW a \in Lane,
           NEW o \in use.ops, NEW n \in Instructions(a, o), Running(CtaOf[a]),
           NEW acc, acc = MakeAccess(a, n, o), NEW k, k = tick(clocks[a], a), Record(acc, k),
           NEW e, e = [kind |-> "access", acc |-> acc],
           Called(e), NEW m \in Clock, dominates(m, k), TakesIn(m, acc), Publishes(acc, k),
           clocks' = [clocks EXCEPT ![a] = m]
    PROVE  KInv'
<1> DEFINE me == [acc |-> acc, clock |-> k]
<1>0. PICK z : z = Len(hist)
  OBVIOUS
<1>1. /\ acc \in Access /\ acc.actor = a /\ n \in Nat /\ k \in Clock /\ e \in Call
      /\ acc.scope = o.scope /\ acc.is_atomic = o.is_atomic
  BY AccessType DEF MakeAccess
<1>2. /\ shadow' = Split(acc, me) /\ hist' = Append(hist, e) /\ use' = use
      /\ generations' = generations
  BY DEF Record, Called
<1>3. /\ shadow \subseteq Interval /\ hist \in Seq(Call) /\ clocks \in [Lane -> Clock]
  BY DEF TypeInv
<1>4. me.acc = acc /\ me.clock = k /\ e.kind = "access" /\ e.acc = acc /\ z = Len(hist)
  BY <1>0
<1> HIDE DEF me
<1>5. Entries' \subseteq Entries \cup {me}
  <2>1. \A x \in shadow' : \A y \in x.writer \cup x.readers : y = me \/ y \in Entries
    BY <1>2, <1>3, SplitEntries
  <2>2. QED
    BY <2>1 DEF Entries
<1>6. /\ z \in Nat /\ Len(hist') = z + 1 /\ hist'[z + 1] = e
      /\ \A i \in 1 .. z : hist'[i] = hist[i]
      /\ 1 .. (z + 1) = (1 .. z) \cup {z + 1}
  BY <1>1, <1>2, <1>3, <1>4, HistoryGrows
<1>7. Accesses' = Accesses \cup {z + 1} /\ Accesses \subseteq 1 .. z
  BY <1>1, <1>2, <1>3, <1>4, AccessesGrow DEF Accesses
<1>8. \A i \in Accesses : hist[i].acc # acc
  <2>1. UInv'
    BY AccessDistinct
  <2>2. ASSUME NEW i \in Accesses, hist[i].acc = acc PROVE FALSE
    <3>1. i \in Accesses' /\ z + 1 \in Accesses' /\ i # z + 1
      BY <1>6, <1>7
    <3>2. hist'[i].acc = hist'[z + 1].acc
      BY <1>4, <1>6, <1>7, <2>2
    <3>3. QED
      BY <2>1, <3>1, <3>2 DEF UInv
  <2>3. QED
    BY <2>2
<1>9. \A c : Running(c)' <=> Running(c)
  BY <1>1, <1>2, <1>3, <1>4, RunningGrows
<1>10. \A d : LiveRelease(d)' <=> LiveRelease(d)
  BY <1>2, <1>9 DEF LiveRelease
<1>11. \A b \in Lane : clocks'[b] = IF b = a THEN m ELSE clocks[b]
  BY <1>3
<1>12. m[a] \in Nat /\ k[a] \in Nat /\ k[a] <= m[a] /\ Knows(m, me) /\ Knows(k, me)
  BY <1>1, <1>4 DEF dominates, Clock, Knows
<1>13. ASSUME NEW x \in Entries, Knows(clocks[a], x) PROVE Knows(m, x)
  <2>1. x.acc.actor \in Lane /\ x.clock \in Clock /\ clocks[a] \in Clock
    BY <1>3 DEF EInv, Entered
  <2>2. dominates(k, clocks[a])
    BY <2>1 DEF dominates, tick, Clock
  <2>3. Knows(k, x)
    BY <1>1, <1>13, <2>1, <2>2, KnowsMore
  <2>4. QED
    BY <1>1, <2>1, <2>3, KnowsMore
<1>14. ASSUME NEW x \in Entries, Knows(m, x),
              SyncOp(acc) /\ is_release_order(acc.mem_order) => Carried(acc, x)'
       PROVE  Told(z + 1, x)'
  <2>1. \A b \in Lane : Acts(b, e) => b = a
    BY <1>1, <1>4 DEF Acts
  <2>2. \A b \in Lane : Acts(b, e) => Knows(clocks'[b], x)
    BY <1>11, <1>14, <2>1
  <2>3. LiveRelease(e) => Carried(acc, x)'
    BY <1>4, <1>14 DEF LiveRelease
  <2>4. \A b \in Lane : (Running(CtaOf[b]) /\ Acts(b, hist[z + 1]))' => Knows(clocks[b], x)'
    BY <1>6, <2>2 DEF Acts, Knows
  <2>5. LiveRelease(hist[z + 1])' => Carried(hist[z + 1].acc, x)'
    BY <1>4, <1>6, <1>10, <2>3
  <2>6. QED
    BY <2>4, <2>5 DEF Told
<1>15. ASSUME NEW x \in Entries, NEW j \in 1 .. z, Told(j, x) PROVE Told(j, x)'
  <2>1. ASSUME NEW b \in Lane, Running(CtaOf[b]), Acts(b, hist[j]) PROVE Knows(clocks'[b], x)
    <3>1. Knows(clocks[b], x)
      BY <1>15, <2>1 DEF Told
    <3>2. QED
      BY <1>11, <1>13, <3>1
  <2>2. ASSUME LiveRelease(hist[j]) PROVE Carried(hist[j].acc, x)'
    <3> DEFINE d == hist[j].acc
    <3>1. Carried(d, x)
      BY <1>15, <2>2 DEF Told
    <3>2. \A r \in release_clocks : r.key = key_of(d) => r \in release_clocks'
      BY DEF Publishes
    <3>3. hist'[j].acc = d
      BY <1>6
    <3>4. QED
      BY <1>2, <1>6, <3>1, <3>2, CarriedStays DEF Carried, AsVisible, Knows
  <2>3. hist'[j] = hist[j]
    BY <1>6
  <2>4. \A b \in Lane : (Running(CtaOf[b]) /\ Acts(b, hist[j]))' => Knows(clocks[b], x)'
    BY <1>9, <2>1, <2>3 DEF Acts, Knows
  <2>5. LiveRelease(hist[j])' => Carried(hist[j].acc, x)'
    BY <1>10, <2>2, <2>3
  <2>6. QED
    BY <2>4, <2>5 DEF Told
<1>16. ASSUME NEW x \in Entries, NEW i \in Accesses, hist[i].acc = x.acc,
              NEW j \in 1 .. (z + 1), Heard(hist', i, j)
       PROVE  Told(j, x)'
  <2>1. i \in 1 .. z
    BY <1>7
  <2>2. CASE j = z + 1
    <3>1. LaneOrdered(hist', i, Len(hist) + 1)
      BY <1>4, <1>6, <1>16, <2>1, <2>2 DEF Heard
    <3>2. /\ Knows(m, x)
          /\ SyncOp(acc) /\ is_release_order(acc.mem_order) => Carried(acc, x)'
      BY <1>16, <3>1, AccessInformed
    <3>3. QED
      BY <1>14, <2>2, <3>2
  <2>3. CASE j \in 1 .. z
    <3>1. Heard(hist, i, j)
      BY <1>1, <1>2, <1>3, <1>4, <1>16, <2>1, <2>3, LaneOrderGrows DEF Heard
    <3>2. Told(j, x)
      BY <1>4, <1>16, <2>3, <3>1 DEF KInv, Told
    <3>3. QED
      BY <1>15, <2>3, <3>2
  <2>4. QED
    BY <1>6, <2>2, <2>3
<1>17. ASSUME NEW j \in 1 .. (z + 1), Heard(hist', z + 1, j) PROVE Told(j, me)'
  <2>1. j = z + 1
    <3>1. LaneOrdered(hist', z + 1, j) => j \in (z + 2) .. (z + 1)
      BY <1>6, LaneOrderForward
    <3>2. QED
      BY <1>6, <1>17, <3>1 DEF Heard
  <2>2. \A b \in Lane : Acts(b, e) => Knows(clocks'[b], me)
    BY <1>1, <1>4, <1>11, <1>12 DEF Acts
  <2>3. LiveRelease(e) => Carried(acc, me)'
    <3> SUFFICES ASSUME SyncOp(acc), is_release_order(acc.mem_order) PROVE Carried(acc, me)'
      BY <1>4 DEF LiveRelease
    <3>1. PICK r \in release_clocks' : /\ r.key = key_of(acc) /\ r.actor = acc.actor
                                       /\ r.scope = acc.scope /\ r.clock = k
      BY DEF Publishes
    <3>2. AsVisible(acc.scope, acc.actor, r)'
      BY <3>1 DEF AsVisible
    <3>3. Knows(r.clock, me)
      BY <1>12, <3>1
    <3>4. QED
      BY <3>1, <3>2, <3>3 DEF Carried, Knows
  <2>4. \A b \in Lane : (Running(CtaOf[b]) /\ Acts(b, hist[z + 1]))' => Knows(clocks[b], me)'
    BY <1>6, <2>2 DEF Acts, Knows
  <2>5. LiveRelease(hist[z + 1])' => Carried(hist[z + 1].acc, me)'
    BY <1>4, <1>6, <1>10, <2>3
  <2>6. QED
    BY <2>1, <2>4, <2>5 DEF Told
<1>18. ASSUME NEW x \in Entries', NEW i \in Accesses', hist'[i].acc = x.acc,
              NEW j \in 1 .. (z + 1), Heard(hist', i, j)
       PROVE  Told(j, x)'
  <2>1. CASE i \in Accesses
    <3>1. hist'[i] = hist[i]
      BY <1>6, <1>7, <2>1
    <3>2. x \in Entries
      BY <1>4, <1>5, <1>8, <1>18, <2>1, <3>1
    <3>3. QED
      BY <1>16, <1>18, <2>1, <3>1, <3>2
  <2>2. CASE i = z + 1
    <3>1. x.acc = acc
      BY <1>4, <1>6, <1>18, <2>2
    <3>2. x = me
      <4> SUFFICES ASSUME x \in Entries PROVE FALSE
        BY <1>5
      <4>1. PICK iv \in shadow : x \in iv.writer \cup iv.readers
        BY DEF Entries
      <4>2. iv.lo \in Nat /\ In(iv, iv.lo)
        BY DEF RInv, IntervalsDisjoint, Interval, In
      <4>3. \E l \in Accesses : hist[l].acc = x.acc
        BY <4>1, <4>2, EntryAt DEF LastWrites, LastReads, Live
      <4>4. QED
        BY <1>8, <3>1, <4>3
    <3>3. QED
      BY <1>17, <1>18, <2>2, <3>2
  <2>3. QED
    BY <1>7, <2>1, <2>2
<1>19. \A r \in release_clocks' :
          r.actor \in Lane /\ \E p \in use'.ops : p.is_atomic /\ p.scope = r.scope
  BY <1>1, <1>2 DEF KInv, Publishes
<1>20. QED
  BY <1>6, <1>18, <1>19 DEF KInv, Told

LEMMA ObserveHears ==
    ASSUME ScopesCompose, TypeInv, EInv, LInv, RInv, UInv, KInv, NEW a \in Lane,
           NEW o \in use.ops, Observe(a, o)
    PROVE  KInv'
<1>1. PICK n \in Instructions(a, o) :
        /\ observe(MakeAccess(a, n, o)) /\ Counts(a, n)
        /\ Called([kind |-> "access", acc |-> MakeAccess(a, n, o)])
  BY DEF Observe, Counts
<1> DEFINE acc == MakeAccess(a, n, o)
           k == tick(clocks[a], a)
           e == [kind |-> "access", acc |-> acc]
<1>2. acc.actor = a /\ acc.is_atomic = o.is_atomic
  BY DEF MakeAccess
<1>3. acc = MakeAccess(a, n, o) /\ Called(e) /\ Running(CtaOf[a]) /\ ~o.is_atomic
  BY <1>1 DEF Observe
<1> HIDE DEF acc
<1>4. /\ Record(acc, k) /\ clocks' = [clocks EXCEPT ![a] = k]
      /\ release_clocks' = release_clocks
  BY <1>1, <1>2 DEF observe, acc
<1>5. /\ k = tick(clocks[a], a) /\ e = [kind |-> "access", acc |-> acc]
  OBVIOUS
<1>6. k \in Clock
  BY <1>3, AccessType
<1> HIDE DEF k, e
<1>7. dominates(k, k)
  BY <1>6 DEF dominates, Clock
<1>8. ~SyncOp(acc)
  BY <1>2, <1>3 DEF SyncOp
<1>9. TakesIn(k, acc) /\ Publishes(acc, k)
  BY <1>4, <1>8 DEF TakesIn, Publishes, Reads_from
<1>10. QED
  BY <1>3, <1>4, <1>5, <1>6, <1>7, <1>9, AccessHears

LEMMA TickBounded ==
    ASSUME TypeInv, EInv, NEW a \in Lane, NEW k, k = tick(clocks[a], a)
    PROVE  Bounded(Known \cup {k}, Len(hist) + 1) /\ Len(hist) + 1 \in Nat
<1> DEFINE n == Len(hist)
<1>1. n \in Nat /\ Bounded(Known, n) /\ clocks[a] \in Known
  BY InKnown DEF TypeInv, EInv
<1> HIDE DEF n
<1>2. clocks[a] \in Clock /\ \A b \in Lane : clocks[a][b] \in Nat /\ clocks[a][b] <= n
  BY <1>1 DEF Bounded, Clock
<1>3. k \in Clock /\ \A b \in Lane : k[b] <= n + 1
  BY <1>1, <1>2 DEF tick, Clock
<1>4. Bounded(Known, n + 1)
  BY <1>1, BoundedMore
<1>5. QED
  BY <1>1, <1>3, <1>4 DEF Bounded, n

LEMMA AtomicRmwHears ==
    ASSUME ScopesCompose, TypeInv, EInv, LInv, RInv, UInv, KInv, NEW a \in Lane,
           NEW o \in use.ops, AtomicRmw(a, o)
    PROVE  KInv'
<1>1. PICK n \in Instructions(a, o) :
        /\ atomic_rmw(MakeAccess(a, n, o)) /\ Counts(a, n)
        /\ Called([kind |-> "access", acc |-> MakeAccess(a, n, o)])
  BY DEF AtomicRmw, Counts
<1> DEFINE acc == MakeAccess(a, n, o)
           k == tick(clocks[a], a)
           e == [kind |-> "access", acc |-> acc]
           rec == [key |-> key_of(acc), actor |-> a, scope |-> acc.scope, clock |-> k]
           released == IF SyncOp(acc) /\ is_release_order(acc.mem_order)
                       THEN release_clocks \cup {rec} ELSE release_clocks
           S == IF SyncOp(acc) /\ is_acquire_order(acc.mem_order)
                THEN {r.clock : r \in VisibleReleases(acc, released)} ELSE {}
           m == MergeAll(k, S)
           D == S \cup {k}
<1>2. acc.actor = a /\ acc.is_atomic
  BY DEF MakeAccess, AtomicRmw
<1>3. acc = MakeAccess(a, n, o) /\ Called(e) /\ Running(CtaOf[a])
  BY <1>1 DEF AtomicRmw
<1> HIDE DEF acc
<1>4. /\ Record(acc, k) /\ release_clocks' = released
      /\ clocks' = [clocks EXCEPT ![a] = m]
  BY <1>1, <1>2 DEF atomic_rmw, acc
<1>5. k = tick(clocks[a], a) /\ e = [kind |-> "access", acc |-> acc]
  OBVIOUS
<1>6. Bounded(Known \cup {k}, Len(hist) + 1) /\ Len(hist) + 1 \in Nat
  BY TickBounded
<1> HIDE DEF k
<1>7. /\ rec.clock = k /\ rec.key = key_of(acc) /\ rec.scope = acc.scope /\ rec.actor = a
  OBVIOUS
<1> HIDE DEF rec, e
<1>8. Publishes(acc, k)
  BY <1>2, <1>4, <1>7 DEF Publishes
<1>9. \A r \in released : r.clock \in Known \cup {k}
  BY <1>7, InKnown
<1>10. release_clocks \subseteq released
  OBVIOUS
<1> HIDE DEF released
<1>11. D \subseteq Known \cup {k}
  BY <1>9 DEF VisibleReleases
<1>12. \A r \in release_clocks : Reads_from(r, acc) => r.clock \in D
  BY <1>10 DEF Reads_from, VisibleReleases
<1>13. m = MergeAll(k, S) /\ D = S \cup {k} /\ k \in D
  OBVIOUS
<1> HIDE DEF S, m, D
<1>14. Bounded(D, Len(hist) + 1)
  BY <1>6, <1>11 DEF Bounded
<1>15. m \in Clock /\ \A d \in D : dominates(m, d)
  BY <1>6, <1>13, <1>14, MergeProperties
<1>16. TakesIn(m, acc)
  BY <1>12, <1>14, <1>15 DEF TakesIn, Bounded
<1>17. dominates(m, k)
  BY <1>13, <1>15
<1>18. Record(acc, k) /\ clocks' = [clocks EXCEPT ![a] = m]
  BY <1>4
<1>19. QED
  BY <1>3, <1>5, <1>8, <1>15, <1>16, <1>17, <1>18, AccessHears

\* A call that is no access: lanes forget nothing, its participants share what
\* they know, and the records of live locations stay.
ClocksGrow ==
    \A b \in Lane : Running(CtaOf[b])' =>
        /\ Running(CtaOf[b]) /\ clocks[b] \in Clock /\ clocks'[b] \in Clock
        /\ dominates(clocks'[b], clocks[b])

Shares(e) ==
    \A f, b \in Lane : Acts(f, e) /\ Acts(b, e) =>
        /\ Running(CtaOf[f]) /\ clocks[f] \in Clock /\ clocks'[b] \in Clock
        /\ dominates(clocks'[b], clocks[f])

RecordsStay ==
    /\ release_clocks' \subseteq release_clocks
    /\ \A d \in {hist[j] : j \in 1 .. Len(hist)} : LiveRelease(d)' =>
          LiveRelease(d) /\ \A r \in release_clocks : r.key = key_of(d.acc) => r \in release_clocks'

LEMMA QuietHears ==
    ASSUME TypeInv, EInv, RInv, UInv, KInv, NEW e \in Call, hist' = Append(hist, e),
           e.kind # "access", e.kind # "launch", use' = use, Entries' \subseteq Entries,
           ClocksGrow, Shares(e), RecordsStay
    PROVE  KInv'
<1>0. PICK z : z = Len(hist)
  OBVIOUS
<1>1. hist \in Seq(Call)
  BY DEF TypeInv
<1>2. /\ z \in Nat /\ Len(hist') = z + 1 /\ hist'[z + 1] = e
      /\ \A i \in 1 .. z : hist'[i] = hist[i]
      /\ 1 .. (z + 1) = (1 .. z) \cup {z + 1}
  BY <1>0, <1>1, HistoryGrows
<1>3. Accesses' = Accesses /\ Accesses \subseteq 1 .. z
  BY <1>0, <1>1, AccessesGrow DEF Accesses
<1>4. ASSUME NEW x \in Entries, NEW j \in 1 .. z, Told(j, x) PROVE Told(j, x)'
  <2>1. x.acc.actor \in Lane /\ x.clock \in Clock
    BY DEF EInv, Entered
  <2>2. ASSUME NEW b \in Lane, Running(CtaOf[b])', Acts(b, hist[j]) PROVE Knows(clocks'[b], x)
    <3>1. Knows(clocks[b], x)
      BY <1>4, <2>2 DEF Told, ClocksGrow
    <3>2. QED
      BY <2>1, <2>2, <3>1, KnowsMore DEF ClocksGrow
  <2>3. ASSUME NEW d, d = hist[j], LiveRelease(d)' PROVE Carried(d.acc, x)'
    <3>1. /\ LiveRelease(d)
          /\ \A r \in release_clocks : r.key = key_of(d.acc) => r \in release_clocks'
      BY <1>0, <2>3 DEF RecordsStay
    <3>2. Carried(d.acc, x)
      BY <1>4, <2>3, <3>1 DEF Told
    <3> DEFINE y == d.acc
    <3>3. Carried(y, x) /\ \A r \in release_clocks : r.key = key_of(y) => r \in release_clocks'
      BY <3>1, <3>2
    <3> HIDE DEF y
    <3>4. Carried(y, x)'
      BY <3>3, CarriedStays
    <3>5. QED
      BY <3>4 DEF y
  <2>4. hist'[j] = hist[j]
    BY <1>2
  <2>5. \A b \in Lane : (Running(CtaOf[b]) /\ Acts(b, hist[j]))' => Knows(clocks[b], x)'
    BY <2>2, <2>4 DEF Acts, Knows
  <2>6. LiveRelease(hist[j])' => Carried(hist[j].acc, x)'
    BY <2>3, <2>4
  <2>7. QED
    BY <2>5, <2>6 DEF Told
<1>5. ASSUME NEW x \in Entries, NEW i \in Accesses, hist[i].acc = x.acc,
             LaneOrdered(hist', i, z + 1)
      PROVE  Told(z + 1, x)'
  <2>1. i \in 1 .. z /\ i \in SinceLaunch /\ i \in Nat
    BY <1>2, <1>3, <1>5, EntrySince
  <2>2. PICK j \in 1 .. z : Heard(hist, i, j) /\ LaneBefore(hist[j], e)
    BY <1>0, <1>1, <1>5, <2>1, LaneOrderGrows
  <2>3. j \in i .. Len(hist)
    <3>1. LaneOrdered(hist, i, j) => j \in (i + 1) .. Len(hist)
      BY <1>0, <1>2, <2>1, LaneOrderForward
    <3>2. QED
      BY <1>0, <1>2, <2>1, <2>2, <3>1 DEF Heard
  <2>4. hist[j].kind # "launch"
    BY <2>1, <2>3 DEF SinceLaunch
  <2>5. PICK f \in Lane : Acts(f, hist[j]) /\ Acts(f, e)
    BY <2>2, <2>4 DEF LaneBefore, SynchronizesWith
  <2>6. x.acc.actor \in Lane /\ x.clock \in Clock
    BY DEF EInv, Entered
  <2>7. ASSUME NEW b \in Lane, Acts(b, e) PROVE Knows(clocks'[b], x)
    <3>1. /\ Running(CtaOf[f]) /\ clocks[f] \in Clock /\ clocks'[b] \in Clock
          /\ dominates(clocks'[b], clocks[f])
      BY <2>5, <2>7 DEF Shares
    <3>2. Knows(clocks[f], x)
      BY <1>0, <1>5, <2>2, <2>5, <3>1 DEF KInv
    <3>3. QED
      BY <2>6, <3>1, <3>2, KnowsMore
  <2>8. \A b \in Lane : (Running(CtaOf[b]) /\ Acts(b, hist[z + 1]))' => Knows(clocks[b], x)'
    BY <1>2, <2>7 DEF Acts, Knows
  <2>9. ~LiveRelease(hist[z + 1])'
    BY <1>2 DEF LiveRelease
  <2>10. QED
    BY <2>8, <2>9 DEF Told
<1>6. ASSUME NEW x \in Entries', NEW i \in Accesses', hist'[i].acc = x.acc,
             NEW j \in 1 .. (z + 1), Heard(hist', i, j)
      PROVE  Told(j, x)'
  <2>1. x \in Entries /\ i \in Accesses /\ hist[i].acc = x.acc /\ i \in 1 .. z
    BY <1>2, <1>3, <1>6
  <2>2. CASE j = z + 1
    <3>1. LaneOrdered(hist', i, z + 1)
      BY <1>2, <1>6, <2>1, <2>2 DEF Heard
    <3>2. QED
      BY <1>5, <2>1, <2>2, <3>1
  <2>3. CASE j \in 1 .. z
    <3>1. Heard(hist, i, j)
      BY <1>0, <1>1, <1>6, <2>1, <2>3, LaneOrderGrows DEF Heard
    <3>2. Told(j, x)
      BY <1>0, <2>1, <2>3, <3>1 DEF KInv, Told
    <3>3. QED
      BY <1>4, <2>1, <2>3, <3>2
  <2>4. QED
    BY <1>2, <2>2, <2>3
<1>7. \A r \in release_clocks' :
          r.actor \in Lane /\ \E p \in use'.ops : p.is_atomic /\ p.scope = r.scope
  BY DEF KInv, RecordsStay
<1>8. QED
  BY <1>2, <1>6, <1>7 DEF KInv, Told

LEMMA BarrierHears ==
    ASSUME TypeInv, EInv, RInv, UInv, KInv, NEW c \in Ctas, NEW ws \in BarrierSets,
           Barrier(c, ws)
    PROVE  KInv'
<1> DEFINE e == [kind |-> "barrier", warps |-> ws]
           n == Len(hist)
           S == {clocks[b] : b \in LanesOf(ws)}
<1>1. /\ e \in Call /\ e.kind = "barrier" /\ e.warps = ws /\ hist' = Append(hist, e)
      /\ hist \in Seq(Call) /\ use' = use /\ clocks \in [Lane -> Clock]
  BY DEF Barrier, Called, Call, TypeInv
<1>2. /\ clocks' = [b \in Lane |-> IF WarpOf[b] \in ws THEN MergeAll(clocks[b], S)
                                                      ELSE clocks[b]]
      /\ shadow' = shadow /\ release_clocks' = release_clocks /\ generations' = generations
  BY DEF Barrier, cta_barrier
<1>3. /\ S \subseteq Known /\ n \in Nat /\ Bounded(Known, n)
      /\ \A f \in Lane : WarpOf[f] \in ws => clocks[f] \in S
  BY InKnown DEF LanesOf, EInv, TypeInv
<1> HIDE DEF e, n, S
<1>4. ASSUME NEW b \in Lane, WarpOf[b] \in ws
      PROVE  clocks'[b] \in Clock /\ \A d \in S \cup {clocks[b]} : dominates(clocks'[b], d)
  <2> DEFINE D == S \cup {clocks[b]}
             m == clocks'[b]
  <2>1. m = MergeAll(clocks[b], S) /\ D = S \cup {clocks[b]}
    BY <1>2, <1>4
  <2>2. Bounded(D, n)
    BY <1>3, InKnown DEF Bounded
  <2> HIDE DEF D, m
  <2>3. m \in Clock /\ \A d \in D : dominates(m, d)
    BY <1>3, <2>1, <2>2, MergeProperties
  <2>4. QED
    BY <2>3 DEF D, m
<1>5. \A d : Running(d)' <=> Running(d)
  BY <1>1, RunningGrows
<1>6. ClocksGrow
  <2> SUFFICES ASSUME NEW b \in Lane
               PROVE  /\ clocks[b] \in Clock /\ clocks'[b] \in Clock
                      /\ dominates(clocks'[b], clocks[b])
    BY <1>5 DEF ClocksGrow
  <2>1. CASE WarpOf[b] \in ws
    BY <1>1, <1>4, <2>1
  <2>2. CASE WarpOf[b] \notin ws
    BY <1>1, <1>2, <2>2 DEF dominates, Clock
  <2>3. QED
    BY <2>1, <2>2
<1>7. Shares(e)
  <2> SUFFICES ASSUME NEW f \in Lane, NEW b \in Lane, Acts(f, e), Acts(b, e)
               PROVE  /\ Running(CtaOf[f]) /\ clocks[f] \in Clock /\ clocks'[b] \in Clock
                      /\ dominates(clocks'[b], clocks[f])
    BY DEF Shares
  <2>1. WarpOf[f] \in ws /\ WarpOf[b] \in ws
    BY <1>1 DEF Acts
  <2>2. PICK l \in Lane : WarpOf[l] = WarpOf[f] /\ CtaOf[l] = c
    BY <2>1 DEF Barrier, Meet
  <2>3. Running(CtaOf[f])
    BY <2>2, RaceAssumption DEF Barrier
  <2>4. QED
    BY <1>1, <1>3, <1>4, <2>1, <2>3
<1>8. RecordsStay
  <2>1. \A d : LiveRelease(d)' <=> LiveRelease(d)
    BY <1>2, <1>5 DEF LiveRelease
  <2>2. QED
    BY <1>2, <2>1 DEF RecordsStay
<1>9. Entries' \subseteq Entries
  BY <1>2 DEF Entries
<1>10. QED
  BY <1>1, <1>6, <1>7, <1>8, <1>9, QuietHears

LEMMA FenceHears ==
    ASSUME TypeInv, EInv, RInv, UInv, KInv, NEW w \in Warps, Fence(w)
    PROVE  KInv'
<1> DEFINE e == [kind |-> "fence", warps |-> {w}]
<1>1. /\ e \in Call /\ e.kind = "fence" /\ hist' = Append(hist, e)
      /\ hist \in Seq(Call) /\ use' = use /\ clocks \in [Lane -> Clock]
  BY DEF Fence, Called, Call, TypeInv
<1>2. /\ clocks' = clocks /\ shadow' = shadow /\ release_clocks' = release_clocks
      /\ generations' = generations
  BY DEF Fence, fence, detector
<1> HIDE DEF e
<1>3. \A d : Running(d)' <=> Running(d)
  BY <1>1, RunningGrows
<1>4. ClocksGrow
  BY <1>1, <1>2, <1>3 DEF ClocksGrow, dominates, Clock
<1>5. Shares(e)
  BY <1>1 DEF Shares, Acts
<1>6. RecordsStay
  <2>1. \A d : LiveRelease(d)' <=> LiveRelease(d)
    BY <1>2, <1>3 DEF LiveRelease
  <2>2. QED
    BY <1>2, <2>1 DEF RecordsStay
<1>7. Entries' \subseteq Entries
  BY <1>2 DEF Entries
<1>8. QED
  BY <1>1, <1>4, <1>5, <1>6, <1>7, QuietHears

LEMMA ReclaimCtaHears ==
    ASSUME TypeInv, EInv, RInv, UInv, KInv, NEW c \in Ctas, ReclaimCta(c)
    PROVE  KInv'
<1> DEFINE e == [kind |-> "reclaim_cta", cta |-> c]
<1>1. /\ e \in Call /\ e.kind = "reclaim_cta" /\ e.cta = c /\ hist' = Append(hist, e)
      /\ hist \in Seq(Call) /\ use' = use /\ clocks \in [Lane -> Clock]
  BY DEF ReclaimCta, Called, Call, TypeInv
<1>2. /\ clocks' = [a \in Lane |-> IF CtaOf[a] = c THEN Bottom ELSE clocks[a]]
      /\ shadow' \subseteq shadow /\ generations' = generations
      /\ release_clocks' =
            {r \in release_clocks : ~(r.key[1][1] = "shared" /\ r.key[1][2] = c)}
  BY DEF ReclaimCta, reclaim_cta
<1> HIDE DEF e
<1>3. \A d : Running(d)' <=> Running(d) /\ d # c
  BY <1>1, RunningGrows
<1>4. ClocksGrow
  <2> SUFFICES ASSUME NEW b \in Lane, CtaOf[b] # c
               PROVE  /\ clocks[b] \in Clock /\ clocks'[b] \in Clock
                      /\ dominates(clocks'[b], clocks[b])
    BY <1>3 DEF ClocksGrow
  <2>1. clocks'[b] = clocks[b] /\ clocks[b] \in Clock
    BY <1>1, <1>2
  <2>2. QED
    BY <2>1 DEF dominates, Clock
<1>5. Shares(e)
  BY <1>1 DEF Shares, Acts
<1>6. ASSUME NEW d, LiveRelease(d)', NEW r \in release_clocks, r.key = key_of(d.acc)
      PROVE  LiveRelease(d) /\ r \in release_clocks'
  <2>1. LiveRelease(d) /\ (d.acc.space = "shared" => d.acc.domain # c)
    BY <1>2, <1>3, <1>6 DEF LiveRelease
  <2>2. r.key[1][1] = d.acc.space /\ r.key[1][2] = d.acc.domain
    BY <1>6 DEF key_of, Domain
  <2>3. QED
    BY <1>2, <2>1, <2>2
<1>7. RecordsStay
  <2>1. \A d : LiveRelease(d)' => LiveRelease(d)
    BY <1>2, <1>3 DEF LiveRelease
  <2>2. QED
    BY <1>2, <1>6, <2>1 DEF RecordsStay
<1>8. Entries' \subseteq Entries
  BY <1>2 DEF Entries
<1>9. QED
  BY <1>1, <1>4, <1>5, <1>7, <1>8, QuietHears

LEMMA ReclaimAllocationHears ==
    ASSUME TypeInv, EInv, RInv, UInv, KInv, NEW id \in Alloc, ReclaimAllocation(id)
    PROVE  KInv'
<1> DEFINE e == [kind |-> "reclaim_allocation", id |-> id]
<1>1. /\ e \in Call /\ e.kind = "reclaim_allocation" /\ hist' = Append(hist, e)
      /\ hist \in Seq(Call) /\ use' = use /\ clocks \in [Lane -> Clock]
      /\ generations \in [Alloc -> Nat]
  BY DEF ReclaimAllocation, Called, Call, TypeInv
<1>2. /\ clocks' = clocks /\ shadow' \subseteq shadow
      /\ generations' = [generations EXCEPT ![id] = @ + 1]
      /\ release_clocks' =
            {r \in release_clocks : ~(r.key[1][1] = "global" /\ r.key[1][2] = id)}
  BY DEF ReclaimAllocation, reclaim_allocation
<1> HIDE DEF e
<1>3. \A d : Running(d)' <=> Running(d)
  BY <1>1, RunningGrows
<1>4. ClocksGrow
  BY <1>1, <1>2, <1>3 DEF ClocksGrow, dominates, Clock
<1>5. Shares(e)
  BY <1>1 DEF Shares, Acts
<1>6. ASSUME NEW j \in 1 .. Len(hist), NEW d, d = hist[j], LiveRelease(d)'
      PROVE  LiveRelease(d) /\ ~(d.acc.space = "global" /\ d.acc.domain = id)
  <2>1. j \in Accesses
    BY <1>6 DEF LiveRelease, Accesses
  <2>2. d.acc.space = "global" =>
          /\ d.acc.domain \in Alloc /\ d.acc.generation \in Nat
          /\ d.acc.generation <= generations[d.acc.domain]
          /\ d.acc.generation = generations'[d.acc.domain]
    BY <1>6, <2>1, AccessInHistory DEF RInv, Access, LiveRelease
  <2>3. d.acc.space = "global" =>
          d.acc.domain # id /\ d.acc.generation = generations[d.acc.domain]
    BY <1>1, <1>2, <2>2
  <2>4. QED
    BY <1>3, <1>6, <2>3 DEF LiveRelease
<1>7. RecordsStay
  <2> SUFFICES ASSUME NEW j \in 1 .. Len(hist), NEW d, d = hist[j], LiveRelease(d)'
               PROVE  /\ LiveRelease(d)
                      /\ \A r \in release_clocks : r.key = key_of(d.acc) => r \in release_clocks'
    BY <1>2 DEF RecordsStay
  <2>1. LiveRelease(d) /\ ~(d.acc.space = "global" /\ d.acc.domain = id)
    BY <1>6
  <2>2. \A r : r.key = key_of(d.acc) =>
                 r.key[1][1] = d.acc.space /\ r.key[1][2] = d.acc.domain
    BY DEF key_of, Domain
  <2>3. QED
    BY <1>2, <2>1, <2>2
<1>8. Entries' \subseteq Entries
  BY <1>2 DEF Entries
<1>9. QED
  BY <1>1, <1>4, <1>5, <1>7, <1>8, QuietHears

LEMMA HeardInductive ==
    ASSUME ScopesCompose, TypeInv, EInv, LInv, RInv, UInv, KInv, [Next]_vars
    PROVE  KInv'
<1>1. CASE UNCHANGED vars
  BY <1>1 DEF vars, detector, KInv, Entries, Accesses, Heard, LaneOrdered, Sealed, Running,
              SinceLaunch, Acts, Knows, LiveRelease, Carried, AsVisible
<1>2. CASE Launch
  <2>1. Entries' = {} /\ release_clocks' = {}
    BY <1>2 DEF Launch, launch, Entries
  <2>2. QED
    BY <2>1 DEF KInv
<1>3. QED
  BY <1>1, <1>2, ObserveHears, AtomicRmwHears, BarrierHears, FenceHears, ReclaimCtaHears,
     ReclaimAllocationHears DEF Next

LEMMA HeardAlways == Spec => [](ScopesCompose => KInv)
<1>1. Init => KInv
  BY DEF Init, KInv, Entries
<1>2. ASSUME TypeInv, EInv, LInv, RInv, UInv, ScopesCompose => KInv, [Next]_vars
      PROVE  (ScopesCompose => KInv)'
  <2>1. ScopesCompose' <=> ScopesCompose
    BY DEF ScopesCompose
  <2>2. QED
    BY <1>2, <2>1, HeardInductive
<1>3. QED
  BY <1>1, <1>2, RaceHistoryType, LearnedAlways, ShadowAlways, DistinctAlways, PTL DEF Spec

-----------------------------------------------------------------------------
(* Reports.                                                                *)

\* The byte of interval iv and access acc that both have.
LEMMA CommonByte ==
    ASSUME NEW acc \in Access, NEW iv \in Interval, iv.lo < iv.hi, acc.lo < acc.hi,
           Overlap(iv, acc)
    PROVE  \E b \in Nat : In(iv, b) /\ In(acc, b)
<1>1. iv.lo \in Nat /\ iv.hi \in Nat /\ acc.lo \in Nat /\ acc.hi \in Nat
  BY DEF Interval, Access
<1>2. CASE acc.lo < iv.lo
  <2>1. In(iv, iv.lo) /\ In(acc, iv.lo)
    BY <1>1, <1>2 DEF In, Overlap
  <2>2. QED
    BY <1>1, <2>1
<1>3. CASE ~(acc.lo < iv.lo)
  <2>1. In(iv, acc.lo) /\ In(acc, acc.lo)
    BY <1>1, <1>3 DEF In, Overlap
  <2>2. QED
    BY <1>1, <2>1
<1>4. QED
  BY <1>2, <1>3

\* An entry that a release at the location of acc has passed is in no interval of
\* acc, unless it is that release.
LEMMA PassedByRelease ==
    ASSUME TypeInv, BInv, NEW acc, NEW b, In(acc, b), NEW i \in Accesses, NEW j \in Accesses,
           i <= j, key_of(hist[j].acc) = key_of(acc), hist[j].acc.is_atomic,
           i \in LastOn(Domain(acc), b)
    PROVE  i = j /\ i \in LastWrites(Domain(acc), b)
<1> DEFINE d == Domain(acc)
<1>1. i \in Live(d, b) /\ i \in Nat /\ j \in 1 .. Len(hist) /\ j \in Nat /\ Len(hist) \in Nat
  BY AccessInHistory DEF LastOn, LastWrites, LastReads, TypeInv
<1>2. /\ Domain(hist[j].acc) = d /\ hist[j].acc.lo = acc.lo /\ hist[j].acc.hi = acc.hi
      /\ hist[j].acc.is_write
  BY DEF key_of, BInv
<1>3. /\ i \in SinceLaunch /\ (d[1] = "shared" => Running(d[2]))
      /\ d[1] = "global" => d[3] = generations[d[2]]
  BY <1>1 DEF Live
<1>4. \A l \in j .. Len(hist) : l \in i .. Len(hist)
  BY <1>1
<1>5. j \in SinceLaunch
  BY <1>1, <1>3, <1>4 DEF SinceLaunch
<1>6. j \in Live(d, b)
  BY <1>2, <1>3, <1>5 DEF Live, In
<1>7. i \in LastWrites(d, b) => j <= i
  BY <1>2, <1>6 DEF LastWrites
<1>8. i \in LastReads(d, b) => j <= i /\ ~hist[i].acc.is_write
  BY <1>2, <1>6 DEF LastReads
<1>9. i = j
  BY <1>1, <1>7, <1>8 DEF LastOn
<1>10. QED
  BY <1>2, <1>8, <1>9 DEF LastOn

\* An access reports no access that comes before it.
LEMMA AlarmIsTrue ==
    ASSUME ScopesCompose, TypeInv, EInv, LInv, RInv, UInv, KInv, BInv, NEW a \in Lane,
           NEW o \in use.ops, NEW n \in Instructions(a, o), Running(CtaOf[a]),
           NEW acc, acc = MakeAccess(a, n, o), NEW k, k = tick(clocks[a], a),
           NEW e, e = [kind |-> "access", acc |-> acc], Called(e), Counts(a, n),
           NEW iv \in Overlapped(acc), NEW x \in check_interval(acc, k, iv)
    PROVE  \E i \in Accesses : /\ hist[i].acc = x.acc
                               /\ ~Ordered(hist', i, Len(hist) + 1)
<1>0. PICK z : z = Len(hist)
  OBVIOUS
<1>1. /\ acc \in Access /\ acc.actor = a /\ acc.instruction = n /\ n \in Nat /\ e \in Call
      /\ acc.lo < acc.hi /\ e.kind = "access" /\ e.acc = acc /\ k \in Clock
  BY AccessType DEF MakeAccess
<1>2. /\ hist' = Append(hist, e) /\ hist \in Seq(Call) /\ executed[CtaOf[a]] \in Nat
      /\ clocks[a] \in Clock
  BY CtaCount DEF Called, TypeInv
<1>3. /\ z \in Nat /\ Len(hist') = z + 1 /\ hist'[z + 1] = e
      /\ \A j \in 1 .. z : hist'[j] = hist[j]
  BY <1>0, <1>1, <1>2, HistoryGrows
<1>4. /\ iv \in shadow /\ iv \in Interval /\ iv.dom = Domain(acc) /\ Overlap(iv, acc)
      /\ iv.lo < iv.hi
  BY DEF Overlapped, RInv, IntervalsDisjoint
<1>5. PICK b \in Nat : In(iv, b) /\ In(acc, b)
  BY <1>1, <1>4, CommonByte
<1>6. /\ \/ /\ x \in iv.writer
            /\ ~(x.acc.is_atomic /\ acc.is_atomic /\ SameRange(x.acc, acc))
         \/ x \in iv.readers /\ acc.is_write
      /\ ~happens_before(x.acc, x.clock, acc, k)
  BY DEF check_interval
<1>7. PICK i \in LastOn(Domain(acc), b) :
         /\ hist[i].acc = x.acc
         /\ \/ acc.is_write /\ i \in LastReads(Domain(acc), b)
            \/ ~(x.acc.is_atomic /\ acc.is_atomic /\ SameRange(x.acc, acc))
  <2>1. CASE x \in iv.readers /\ acc.is_write
    <3>1. PICK i \in LastReads(Domain(acc), b) : hist[i].acc = x.acc
      BY <1>4, <1>5, <2>1, EntryAt
    <3>2. QED
      BY <2>1, <3>1 DEF LastOn
  <2>2. CASE x \in iv.writer /\ ~(x.acc.is_atomic /\ acc.is_atomic /\ SameRange(x.acc, acc))
    <3>1. PICK i \in LastWrites(Domain(acc), b) : hist[i].acc = x.acc
      BY <1>4, <1>5, <2>2, EntryAt
    <3>2. QED
      BY <2>2, <3>1 DEF LastOn
  <2>3. QED
    BY <1>6, <2>1, <2>2
<1>8. /\ i \in Accesses /\ i \in 1 .. z /\ x \in Entries /\ hist[i].acc \in Access
      /\ hist'[i] = hist[i]
  <2>1. i \in Accesses
    BY DEF LastOn, LastWrites, LastReads, Live
  <2>2. x \in Entries
    BY <1>4, <1>6 DEF Entries
  <2>3. QED
    BY <1>0, <1>3, <2>1, <2>2, AccessInHistory
<1> SUFFICES ASSUME Ordered(hist', i, z + 1) PROVE FALSE
  BY <1>0, <1>7, <1>8
<1>9. CASE WarpOf[x.acc.actor] = WarpOf[a]
  <2>0. CtaOf[hist[i].acc.actor] = CtaOf[a]
    BY <1>7, <1>8, <1>9, RaceAssumption DEF Access
  <2>1. ~(hist[i].acc.instruction < n) /\ hist[i].acc.instruction <= executed[CtaOf[a]]
        /\ hist[i].acc.instruction \in Nat
    BY <1>1, <1>6, <1>7, <1>8, <1>9, <2>0 DEF happens_before, LInv, Access
  <2>2. hist[i].acc.instruction = n
    BY <1>2, <2>1, SMTT(30) DEF Instructions
  <2>15. LaneOrdered(hist', i, z + 1)
    BY <1>1, <1>3, <1>8, <2>2 DEF Ordered, WarpOrdered
  <2>3. BInv'
    BY AccessBurst
  <2>4. Accesses' = Accesses \cup {z + 1}
    BY <1>0, <1>1, <1>2, AccessesGrow
  <2>5. ASSUME NEW j \in i .. (z + 1)
        PROVE  /\ j \in Accesses' /\ OfInstruction(hist'[j].acc, CtaOf[a], n)
               /\ hist'[j].acc.is_write = acc.is_write
    BY <1>1, <1>3, <1>8, <2>0, <2>2, <2>3, <2>4 DEF BInv, OfInstruction
  <2>6. OneInstruction(hist', i, z + 1)
    <3>1. \A j \in i .. (z + 1) : hist'[j].kind = "access"
      BY <2>5 DEF Accesses
    <3>2. \A j, l \in i .. (z + 1) : hist'[j].acc.actor = hist'[l].acc.actor => j = l
      BY <2>3, <2>5 DEF BInv, OfInstruction
    <3>3. QED
      BY <3>1, <3>2 DEF OneInstruction
  <2>7. z + 1 \in Nat /\ z + 1 = Len(hist') /\ i \in 1 .. (z + 1)
    BY <1>3, <1>8
  <2> DEFINE h == hist'
             y == z + 1
  <2>8. y \in Nat /\ y = Len(h) /\ i \in 1 .. y /\ OneInstruction(h, i, y)
        /\ LaneOrdered(h, i, y)
    BY <2>6, <2>7, <2>15
  <2> HIDE DEF h, y
  <2>9. /\ key_of(h[i].acc) = key_of(h[y].acc)
        /\ h[i].acc.is_atomic /\ h[y].acc.is_atomic
    BY <2>8, BurstOrder
  <2>10. key_of(x.acc) = key_of(acc) /\ x.acc.is_atomic /\ acc.is_atomic
    BY <1>1, <1>3, <1>7, <1>8, <2>9 DEF h, y
  <2>11. SameRange(x.acc, acc)
    BY <2>10 DEF key_of, SameRange
  <2>12. i \in i .. (z + 1)
    BY <1>3, <1>8
  <2>13. hist[i].acc.is_write = acc.is_write
    BY <1>8, <2>5, <2>12
  <2>14. QED
    BY <1>7, <2>10, <2>11, <2>13 DEF LastReads
<1>10. CASE WarpOf[x.acc.actor] # WarpOf[a]
  <2>1. ~dominates(k, x.clock)
    BY <1>1, <1>6, <1>10 DEF happens_before
  <2>2. ~Knows(clocks[a], x)
    <3> SUFFICES ASSUME Knows(clocks[a], x) PROVE FALSE
      OBVIOUS
    <3>1. dominates(clocks[a], x.clock) /\ x.clock \in Clock
      BY <1>8, InKnown DEF EInv, Exact, Knows, Entered
    <3>2. dominates(k, clocks[a])
      BY <1>2 DEF dominates, tick, Clock
    <3>3. QED
      BY <1>1, <1>2, <2>1, <3>1, <3>2, DominatesTransitive
  <2>3. LaneOrdered(hist', i, Len(hist) + 1)
    BY <1>0, <1>1, <1>3, <1>7, <1>8, <1>10 DEF Ordered, WarpOrdered
  <2>4. PICK j \in 1 .. Len(hist) : Heard(hist, i, j) /\ SynchronizesWith(hist[j], e)
    BY <1>2, <1>7, <1>8, <2>2, <2>3, HearsOf
  <2>5. /\ j \in Accesses /\ key_of(hist[j].acc) = key_of(acc) /\ hist[j].acc.is_atomic
        /\ acc.is_atomic
    BY <1>1, <2>4 DEF SynchronizesWith, Accesses, SyncOp
  <2>6. i <= j
    <3>1. LaneOrdered(hist, i, j) => j \in (i + 1) .. Len(hist)
      BY <1>0, <1>3, <1>8, LaneOrderForward
    <3>2. QED
      BY <1>3, <1>8, <2>4, <3>1 DEF Heard
  <2>7. i = j /\ i \in LastWrites(Domain(acc), b)
    BY <1>5, <1>7, <1>8, <2>5, <2>6, PassedByRelease
  <2>8. SameRange(x.acc, acc) /\ x.acc.is_atomic
    BY <1>7, <2>5, <2>7 DEF key_of, SameRange
  <2>9. QED
    BY <1>7, <2>5, <2>7, <2>8 DEF LastReads, LastWrites
<1>11. QED
  BY <1>9, <1>10

LEMMA AlarmsInductive ==
    ASSUME ScopesCompose, TypeInv, EInv, LInv, RInv, UInv, KInv, BInv, AInv, [Next]_vars
    PROVE  AInv'
<1>1. CASE UNCHANGED vars
  BY <1>1 DEF vars, detector, AInv, Accesses
<1>2. ASSUME NEW e \in Call, hist' = Append(hist, e), NEW r \in reports
      PROVE  \E i, j \in Accesses' :
                /\ i < j /\ hist'[i].acc = r.first /\ hist'[j].acc = r.second
                /\ ~Ordered(hist', i, j)
  <2>1. PICK i \in Accesses, j \in Accesses :
           /\ i < j /\ hist[i].acc = r.first /\ hist[j].acc = r.second
           /\ ~Ordered(hist, i, j)
    BY DEF AInv
  <2>2. hist \in Seq(Call) /\ i \in 1 .. Len(hist) /\ j \in 1 .. Len(hist)
    BY AccessInHistory DEF TypeInv
  <2>3. hist'[i] = hist[i] /\ hist'[j] = hist[j]
    BY <1>2, <2>2, HistoryGrows
  <2>4. i \in Accesses' /\ j \in Accesses'
    BY <1>2, <2>2, AccessesGrow
  <2>5. ~Ordered(hist', i, j)
    BY <1>2, <2>1, <2>2, <2>3, LaneOrderGrows DEF Ordered, WarpOrdered
  <2>6. QED
    BY <2>1, <2>3, <2>4, <2>5
<1>3. ASSUME NEW a \in Lane, NEW o \in use.ops, NEW n \in Instructions(a, o),
             Running(CtaOf[a]), Record(MakeAccess(a, n, o), tick(clocks[a], a)),
             Called([kind |-> "access", acc |-> MakeAccess(a, n, o)]), Counts(a, n)
      PROVE  AInv'
  <2> DEFINE acc == MakeAccess(a, n, o)
             k == tick(clocks[a], a)
             e == [kind |-> "access", acc |-> acc]
  <2>1. /\ acc = MakeAccess(a, n, o) /\ k = tick(clocks[a], a) /\ Record(acc, k)
        /\ e = [kind |-> "access", acc |-> acc] /\ Called(e)
    BY <1>3
  <2>2. acc \in Access /\ e \in Call /\ e.kind = "access" /\ e.acc = acc
    BY AccessType
  <2> HIDE DEF acc, k, e
  <2>3. hist \in Seq(Call) /\ hist' = Append(hist, e)
    BY <2>1 DEF TypeInv, Called
  <2>4. PICK z : z = Len(hist)
    OBVIOUS
  <2>5. z \in Nat /\ hist'[z + 1] = e /\ \A i \in 1 .. z : hist'[i] = hist[i]
    BY <2>2, <2>3, <2>4, HistoryGrows
  <2>6. Accesses' = Accesses \cup {z + 1}
    BY <2>2, <2>3, <2>4, AccessesGrow
  <2>7. ASSUME NEW r \in reports', r \notin reports
        PROVE  \E i, j \in Accesses' :
                  /\ i < j /\ hist'[i].acc = r.first /\ hist'[j].acc = r.second
                  /\ ~Ordered(hist', i, j)
    <3>1. r \in report(acc, k)
      BY <2>1, <2>7 DEF Record
    <3>2. PICK iv \in Overlapped(acc) : \E x \in check_interval(acc, k, iv) :
             r.first = x.acc /\ r.second = acc
      BY <3>1 DEF report
    <3> PICK x \in check_interval(acc, k, iv) : r.first = x.acc /\ r.second = acc
      BY <3>2
    <3>3. PICK i \in Accesses : /\ hist[i].acc = x.acc
                                /\ ~Ordered(hist', i, Len(hist) + 1)
      BY <1>3, <2>1, AlarmIsTrue
    <3>4. i \in 1 .. z /\ i < z + 1
      BY <2>4, <2>5, AccessInHistory
    <3>5. QED
      BY <2>2, <2>4, <2>5, <2>6, <3>3, <3>4
  <2>8. QED
    BY <1>2, <2>2, <2>3, <2>7 DEF AInv
<1>4. ASSUME NEW e \in Call, hist' = Append(hist, e), Quiet(e)
      PROVE  AInv'
  BY <1>2, <1>4 DEF AInv, Quiet
<1>5. QED
  BY <1>1, <1>3, <1>4, StepIsCall

LEMMA AlarmsAlways == Spec => [](ScopesCompose => AInv)
<1>1. Init => AInv
  BY DEF Init, AInv
<1>2. ASSUME TypeInv, EInv, LInv, RInv, UInv, BInv, ScopesCompose => KInv,
             ScopesCompose => AInv, [Next]_vars
      PROVE  (ScopesCompose => AInv)'
  <2>1. ScopesCompose' <=> ScopesCompose
    BY DEF ScopesCompose
  <2>2. QED
    BY <1>2, <2>1, AlarmsInductive
<1>3. QED
  BY <1>1, <1>2, RaceHistoryType, LearnedAlways, ShadowAlways, DistinctAlways, BurstAlways,
     HeardAlways, PTL DEF Spec

\* What comes next in the order of the lanes.
LEMMA LaneOrderedNext ==
    ASSUME NEW h, Len(h) \in Nat, NEW i \in 1 .. Len(h), NEW k \in i .. Len(h),
           k = i \/ LaneOrdered(h, i, k), NEW l \in (k + 1) .. Len(h)
    PROVE  /\ LaneBefore(h[k], h[l]) => LaneOrdered(h, i, l)
           /\ LaneOrdered(h, k, l) => LaneOrdered(h, i, l)
<1>1. ASSUME NEW S \in SUBSET ((i + 1) .. Len(h)), Sealed(h, i, S) PROVE k \in S \cup {i}
  BY <1>1 DEF LaneOrdered
<1>2. ASSUME LaneBefore(h[k], h[l]) PROVE LaneOrdered(h, i, l)
  BY <1>1, <1>2 DEF LaneOrdered, Sealed
<1>3. ASSUME LaneOrdered(h, k, l) PROVE LaneOrdered(h, i, l)
  <2> SUFFICES ASSUME NEW S \in SUBSET ((i + 1) .. Len(h)), Sealed(h, i, S) PROVE l \in S
    BY DEF LaneOrdered
  <2> DEFINE T == S \cap ((k + 1) .. Len(h))
  <2>1. T \in SUBSET ((k + 1) .. Len(h))
    OBVIOUS
  <2>2. ASSUME NEW x \in T \cup {k}, NEW y \in (x + 1) .. Len(h), LaneBefore(h[x], h[y])
        PROVE  y \in T
    <3>1. x \in S \cup {i} /\ y \in (k + 1) .. Len(h)
      BY <1>1
    <3>2. QED
      BY <2>2, <3>1 DEF Sealed
  <2> HIDE DEF T
  <2>3. l \in T
    BY <1>3, <2>1, <2>2 DEF LaneOrdered, Sealed
  <2>4. QED
    BY <2>3 DEF T
<1>4. QED
  BY <1>2, <1>3

WInv == \A k \in 1 .. Len(hist) : HasWarps(hist[k])

LEMMA WarpsAlways == Spec => []WInv
<1>1. Init => WInv
  BY DEF Init, WInv
<1>2. ASSUME TypeInv, WInv, [Next]_vars PROVE WInv'
  <2>1. CASE UNCHANGED vars
    BY <1>2, <2>1 DEF WInv, vars
  <2>2. ASSUME NEW e \in Call, hist' = Append(hist, e),
               HasWarps(e)
        PROVE  WInv'
    BY <1>2, <2>2, HistoryGrows DEF WInv, TypeInv
  <2>3. ASSUME NEW a \in Lane, NEW o \in use.ops, NEW n \in Instructions(a, o),
               Called([kind |-> "access", acc |-> MakeAccess(a, n, o)])
        PROVE  WInv'
    <3> DEFINE e == [kind |-> "access", acc |-> MakeAccess(a, n, o)]
    <3>1. e \in Call /\ hist' = Append(hist, e)
      BY <1>2, <2>3, AccessType DEF Called
    <3>2. HasWarps(e)
      BY DEF HasWarps
    <3> HIDE DEF e
    <3>3. QED
      BY <2>2, <3>1, <3>2
  <2>4. ASSUME NEW e \in Call, hist' = Append(hist, e), Quiet(e) PROVE WInv'
    BY <2>2, <2>4 DEF Quiet
  <2>5. QED
    BY <1>2, <2>1, <2>3, <2>4, StepIsCall
<1>3. QED
  BY <1>1, <1>2, RaceHistoryType, PTL DEF Spec

\* Accesses i and j of one CTA are numbered in their order, and nothing but accesses
\* comes between two of one instruction.
InOrder(h, i, j) ==
    /\ h[i].acc.instruction <= h[j].acc.instruction
    /\ h[i].acc.instruction = h[j].acc.instruction =>
          \A k \in i .. j : h[k].kind = "access"

OInv ==
    \A i, j \in Accesses :
        i < j /\ CtaOf[hist[i].acc.actor] = CtaOf[hist[j].acc.actor] => InOrder(hist, i, j)

LEMMA AccessInOrder ==
    ASSUME hist \in Seq(Call), OInv, NEW a \in Lane, NEW o, NEW n \in Instructions(a, o),
           NEW m \in Nat, m = executed[CtaOf[a]], NEW e \in Call, e.kind = "access",
           e.acc.actor = a, e.acc.instruction = n, hist' = Append(hist, e),
           \A i \in Accesses :
              CtaOf[hist[i].acc.actor] = CtaOf[a] => hist[i].acc.instruction \in 0 .. m
    PROVE  OInv'
<1>1. PICK z : z = Len(hist)
  OBVIOUS
<1>2. /\ z \in Nat /\ hist'[z + 1] = e
      /\ \A i \in 1 .. z : hist'[i] = hist[i]
      /\ Accesses' = Accesses \cup {z + 1} /\ z + 1 \notin Accesses
      /\ \A i \in Accesses : i \in 1 .. z
  BY <1>1, HistoryGrows, AccessesGrow DEF Accesses
<1>3. ASSUME NEW i \in Accesses, NEW j \in Accesses, i < j,
             CtaOf[hist'[i].acc.actor] = CtaOf[hist'[j].acc.actor]
      PROVE  InOrder(hist', i, j)
  <2>1. /\ hist'[i] = hist[i] /\ hist'[j] = hist[j]
        /\ \A k \in i .. j : hist'[k] = hist[k]
    <3>1. i \in 1 .. z /\ j \in 1 .. z
      BY <1>2
    <3>2. \A k \in i .. j : k \in 1 .. z
      BY <1>2, <3>1
    <3>3. QED
      BY <1>2, <3>1, <3>2
  <2>2. InOrder(hist, i, j)
    BY <1>3, <2>1 DEF OInv
  <2>3. QED
    BY <2>1, <2>2 DEF InOrder
<1>4. ASSUME NEW i \in Accesses, CtaOf[hist'[i].acc.actor] = CtaOf[a]
      PROVE  InOrder(hist', i, z + 1)
  <2>1. /\ i \in 1 .. z /\ hist'[i] = hist[i] /\ hist[i].acc.instruction \in 0 .. m
        /\ hist[i].kind = "access"
    BY <1>2, <1>4 DEF Accesses
  <2>2. n \in {m, m + 1}
    BY DEF Instructions
  <2>3. ASSUME hist[i].acc.instruction = n PROVE \A k \in i .. z : hist[k].kind = "access"
    <3>1. n = m /\ n # m + 1
      BY <2>1, <2>2, <2>3
    <3>2. hist[z].kind = "access" /\ WarpOf[hist[z].acc.actor] = WarpOf[a]
      BY <1>1, <3>1 DEF Instructions
    <3>3. z \in Accesses /\ z \in 1 .. z /\ hist[z].acc.actor \in Lane
      <4>1. z \in 1 .. z
        BY <1>2, <2>1
      <4>2. hist[z] \in Call
        BY <1>1, <4>1
      <4>3. QED
        BY <1>1, <3>2, <4>1, <4>2 DEF Accesses, Call, Access
    <3>4. CtaOf[hist[z].acc.actor] = CtaOf[a]
      BY <3>2, <3>3, RaceAssumption
    <3>5. CASE i = z
      BY <1>2, <2>1, <3>5
    <3>6. CASE i # z
      <4>1. i < z
        BY <1>2, <2>1, <3>6
      <4>2. InOrder(hist, i, z)
        BY <1>4, <2>1, <3>3, <3>4, <4>1 DEF OInv
      <4>3. hist[z].acc.instruction \in 0 .. m
        BY <3>3, <3>4
      <4>4. hist[i].acc.instruction = hist[z].acc.instruction
        BY <2>3, <3>1, <4>2, <4>3 DEF InOrder
      <4>5. QED
        BY <4>2, <4>4 DEF InOrder
    <3>7. QED
      BY <3>5, <3>6
  <2>4. ASSUME hist[i].acc.instruction = n PROVE \A k \in i .. (z + 1) : hist'[k].kind = "access"
    <3> SUFFICES ASSUME NEW k \in i .. (z + 1) PROVE hist'[k].kind = "access"
      OBVIOUS
    <3>1. CASE k = z + 1
      BY <1>2, <3>1
    <3>2. CASE k # z + 1
      <4>1. k \in i .. z /\ k \in 1 .. z
        BY <1>2, <2>1, <3>2
      <4>2. QED
        BY <1>2, <2>3, <2>4, <4>1
    <3>3. QED
      BY <3>1, <3>2
  <2>5. hist'[z + 1].acc.instruction = n /\ hist'[i].acc.instruction <= n
    BY <1>2, <2>1, <2>2
  <2>6. QED
    BY <2>1, <2>4, <2>5 DEF InOrder
<1>5. ASSUME NEW i \in Accesses', NEW j \in Accesses', i < j,
             CtaOf[hist'[i].acc.actor] = CtaOf[hist'[j].acc.actor]
      PROVE  InOrder(hist', i, j)
  <2>1. i \in Accesses
    BY <1>2, <1>5
  <2>2. CASE j \in Accesses
    BY <1>3, <1>5, <2>1, <2>2
  <2>3. CASE j = z + 1
    BY <1>2, <1>4, <1>5, <2>1, <2>3
  <2>4. QED
    BY <1>2, <2>2, <2>3
<1>6. QED
  BY <1>5 DEF OInv

LEMMA QuietInOrder ==
    ASSUME hist \in Seq(Call), OInv, NEW e \in Call, e.kind # "access",
           hist' = Append(hist, e)
    PROVE  OInv'
<1>1. Accesses' = Accesses /\ \A i \in Accesses : i \in 1 .. Len(hist)
  BY AccessesGrow DEF Accesses
<1>2. \A i \in 1 .. Len(hist) : hist'[i] = hist[i]
  BY HistoryGrows
<1>3. ASSUME NEW i \in Accesses', NEW j \in Accesses', i < j,
             CtaOf[hist'[i].acc.actor] = CtaOf[hist'[j].acc.actor]
      PROVE  InOrder(hist', i, j)
  <2>1. /\ i \in Accesses /\ j \in Accesses /\ hist'[i] = hist[i] /\ hist'[j] = hist[j]
        /\ \A k \in i .. j : hist'[k] = hist[k]
    BY <1>1, <1>2
  <2>2. InOrder(hist, i, j)
    BY <1>3, <2>1 DEF OInv
  <2>3. QED
    BY <2>1, <2>2 DEF InOrder
<1>4. QED
  BY <1>3 DEF OInv

LEMMA OrderAlways == Spec => []OInv
<1>1. Init => OInv
  BY DEF Init, OInv, Accesses
<1>2. ASSUME TypeInv, LInv, OInv, [Next]_vars PROVE OInv'
  <2>1. CASE UNCHANGED vars
    <3>1. hist' = hist /\ Accesses' = Accesses
      BY <2>1 DEF vars, Accesses
    <3>2. QED
      BY <1>2, <3>1 DEF OInv
  <2>2. ASSUME NEW a \in Lane, NEW o \in use.ops, NEW n \in Instructions(a, o),
               Called([kind |-> "access", acc |-> MakeAccess(a, n, o)])
        PROVE  OInv'
    <3> DEFINE acc == MakeAccess(a, n, o)
               e == [kind |-> "access", acc |-> acc]
    <3>1. /\ acc.instruction = n /\ acc.actor = a /\ e.kind = "access" /\ e.acc = acc
      BY DEF MakeAccess
    <3>2. e \in Call /\ hist' = Append(hist, e)
      BY <1>2, <2>2, AccessType DEF Called
    <3>3. hist \in Seq(Call) /\ executed[CtaOf[a]] \in Nat
      BY <1>2, CtaCount DEF TypeInv
    <3>4. ASSUME NEW i \in Accesses, CtaOf[hist[i].acc.actor] = CtaOf[a]
          PROVE  hist[i].acc.instruction \in 0 .. executed[CtaOf[a]]
      <4>1. hist[i].acc.instruction \in Nat
        BY <1>2, AccessInHistory DEF Access
      <4>2. hist[i].acc.instruction <= executed[CtaOf[a]]
        BY <1>2, <3>4 DEF LInv
      <4>3. QED
        BY <3>3, <4>1, <4>2
    <3> HIDE DEF acc, e
    <3>5. QED
      BY <1>2, <3>1, <3>2, <3>3, <3>4, AccessInOrder
  <2>3. ASSUME NEW e \in Call, hist' = Append(hist, e), e.kind # "access" PROVE OInv'
    BY <1>2, <2>3, QuietInOrder DEF TypeInv
  <2>4. QED
    BY <1>2, <2>1, <2>2, <2>3, StepIsCall
<1>3. QED
  BY <1>1, <1>2, RaceHistoryType, LearnedAlways, PTL DEF Spec

\* What the execution of a warp is like.
WarpHistory == hist \in Seq(Call) /\ WInv /\ OInv

LEMMA AccessAt ==
    ASSUME WarpHistory, NEW i \in Accesses
    PROVE  /\ i \in 1 .. Len(hist) /\ i \in Nat /\ Len(hist) \in Nat
           /\ hist[i].kind = "access" /\ hist[i].acc.actor \in Lane
           /\ hist[i].acc.instruction \in Nat
<1>1. hist \in Seq(Call) /\ i \in 1 .. Len(hist) /\ hist[i].kind = "access"
  BY DEF WarpHistory, Accesses
<1>2. hist[i] \in Call
  BY <1>1
<1>3. QED
  BY <1>1, <1>2 DEF Call, Access

\* Program order of a warp goes up.
LEMMA WarpNumbers ==
    ASSUME WarpHistory, NEW i \in Accesses, NEW j \in Accesses, i < j,
           WarpOf[hist[i].acc.actor] = WarpOf[hist[j].acc.actor]
    PROVE  /\ InOrder(hist, i, j)
           /\ WarpOrdered(hist, i, j) <=> hist[i].acc.instruction < hist[j].acc.instruction
<1>1. /\ hist[i].acc.actor \in Lane /\ hist[j].acc.actor \in Lane
      /\ hist[i].acc.instruction \in Nat /\ hist[j].acc.instruction \in Nat
  BY AccessAt
<1>2. InOrder(hist, i, j)
  BY <1>1, RaceAssumption DEF WarpHistory, OInv
<1>3. QED
  BY <1>1, <1>2 DEF InOrder, WarpOrdered

LEMMA WarpOrderedNext ==
    ASSUME WarpHistory, NEW i \in Accesses, NEW k \in Accesses, NEW j \in Accesses,
           i = k \/ (i < k /\ WarpOf[hist[i].acc.actor] = WarpOf[hist[k].acc.actor]),
           WarpOrdered(hist, k, j)
    PROVE  WarpOrdered(hist, i, j)
<1>1. /\ i \in Nat /\ k \in Nat /\ j \in Nat /\ hist[i].acc.instruction \in Nat
      /\ hist[k].acc.instruction \in Nat /\ hist[j].acc.instruction \in Nat
  BY AccessAt
<1>2. k < j /\ WarpOf[hist[k].acc.actor] = WarpOf[hist[j].acc.actor]
  BY DEF WarpOrdered
<1>3. hist[k].acc.instruction < hist[j].acc.instruction
  BY <1>2, WarpNumbers
<1>4. CASE i = k
  BY <1>4
<1>5. CASE i # k
  <2>1. hist[i].acc.instruction <= hist[k].acc.instruction
    BY <1>5, WarpNumbers DEF InOrder
  <2>2. QED
    BY <1>1, <1>2, <1>3, <1>5, <2>1 DEF WarpOrdered
<1>6. QED
  BY <1>4, <1>5

\* What reaches a lane reaches the later instructions of its warp, if the lanes of
\* the warp meet after an acquire.
LEMMA WarpCarries ==
    ASSUME WarpHistory, WarpsMeetAtFlags, NEW i \in Accesses, NEW x \in Accesses,
           LaneOrdered(hist, i, x), NEW y \in Accesses, WarpOrdered(hist, x, y)
    PROVE  Ordered(hist, i, y)
<1> DEFINE Carries(l) == \A q \in Accesses : WarpOrdered(hist, l, q) => Ordered(hist, i, q)
           S == {l \in (i + 1) .. Len(hist) :
                   LaneOrdered(hist, i, l) /\ (l \in Accesses => Carries(l))}
<1>1. /\ i \in 1 .. Len(hist) /\ Len(hist) \in Nat
      /\ hist[i].kind = "access" /\ hist[i].acc.actor \in Lane
  BY AccessAt
<1>2. ASSUME NEW k \in S \cup {i}, NEW l \in (k + 1) .. Len(hist),
             LaneBefore(hist[k], hist[l])
      PROVE  l \in S
  <2>1. /\ k \in i .. Len(hist) /\ l \in (i + 1) .. Len(hist) /\ k < l
        /\ k = i \/ (LaneOrdered(hist, i, k) /\ (k \in Accesses => Carries(k)))
        /\ k \in 1 .. Len(hist)
    BY <1>1
  <2>2. LaneOrdered(hist, i, l)
    BY <1>1, <1>2, <2>1, LaneOrderedNext
  <2>3. ASSUME l \in Accesses, NEW q \in Accesses, WarpOrdered(hist, l, q)
        PROVE  Ordered(hist, i, q)
    <3>1. /\ hist[l].kind = "access" /\ hist[l].acc.actor \in Lane
          /\ hist[q].kind = "access" /\ hist[q].acc.actor \in Lane
          /\ l < q /\ WarpOf[hist[l].acc.actor] = WarpOf[hist[q].acc.actor]
          /\ l \in 1 .. Len(hist) /\ q \in 1 .. Len(hist)
      BY <2>3, AccessAt DEF WarpOrdered
    <3>2. q \in (k + 1) .. Len(hist) /\ q \in (l + 1) .. Len(hist)
      BY <1>1, <2>1, <3>1
    <3>3. LaneBefore(hist[k], hist[q]) => LaneOrdered(hist, i, q)
      BY <1>1, <2>1, <3>2, LaneOrderedNext
    <3>4. CASE hist[k].kind = "launch"
      BY <3>3, <3>4 DEF LaneBefore, Ordered
    <3>5. CASE \E a \in Lane : Acts(a, hist[k]) /\ Acts(a, hist[l])
      <4>1. Acts(hist[l].acc.actor, hist[k])
        BY <3>1, <3>5 DEF Acts
      <4>2. CASE hist[k].kind = "barrier"
        <5>1. Acts(hist[q].acc.actor, hist[k]) /\ Acts(hist[q].acc.actor, hist[q])
          BY <3>1, <4>1, <4>2 DEF Acts
        <5>2. QED
          BY <3>1, <3>3, <5>1 DEF LaneBefore, Ordered
      <4>3. CASE hist[k].kind = "access"
        <5>1. k \in Accesses /\ hist[k].acc.actor = hist[l].acc.actor
          BY <2>1, <4>1, <4>3 DEF Acts, Accesses
        <5>2. WarpOrdered(hist, k, q)
          BY <2>1, <2>3, <5>1, WarpOrderedNext
        <5>3. QED
          BY <2>1, <5>1, <5>2 DEF Ordered
      <4>4. QED
        BY <4>1, <4>2, <4>3 DEF Acts
    <3>6. CASE SynchronizesWith(hist[k], hist[l])
      <4>1. k \in Accesses
        BY <2>1, <3>6 DEF SynchronizesWith, Accesses
      <4>2. LaneOrdered(hist, l, q)
        BY <2>1, <2>3, <3>6, <4>1 DEF WarpsMeetAtFlags
      <4>3. l \in i .. Len(hist)
        BY <1>1, <2>1
      <4>4. LaneOrdered(hist, i, q)
        BY <1>1, <2>2, <3>2, <4>2, <4>3, LaneOrderedNext
      <4>5. QED
        BY <4>4 DEF Ordered
    <3>7. QED
      BY <1>2, <3>1, <3>4, <3>5, <3>6 DEF LaneBefore
  <2>4. QED
    BY <2>1, <2>2, <2>3
<1>3. x \in S => Carries(x)
  OBVIOUS
<1>4. S \in SUBSET ((i + 1) .. Len(hist))
  OBVIOUS
<1> HIDE DEF S
<1>5. Sealed(hist, i, S)
  BY <1>2 DEF Sealed
<1>6. x \in S
  BY <1>4, <1>5 DEF LaneOrdered
<1>7. QED
  BY <1>3, <1>6

\* Where the order of access i is known: at calls of its own warp, and at calls that
\* the lanes' order puts after it.
Near(i, l) ==
    \/ l = i
    \/ LaneOrdered(hist, i, l)
    \/ l \in Accesses /\ WarpOrdered(hist, i, l)

\* Call k hands program order on to call l.
Passed(k, l) ==
    \/ hist[k].kind = "launch"
    \/ Participants(hist[k]) \cap Participants(hist[l]) # {}

LEMMA NearNext ==
    ASSUME WarpHistory, WarpsMeetAtFlags, NEW i \in Accesses,
           NEW k \in i .. Len(hist), Near(i, k), hist[k].kind # "fence",
           NEW l \in (k + 1) .. Len(hist), hist[l].kind # "fence",
           \/ Passed(k, l) /\ ~SameInstruction(hist[k], hist[l])
           \/ hist[l].kind = "launch"
           \/ SynchronizesWith(hist[k], hist[l])
    PROVE  Near(i, l)
<1>1. /\ i \in 1 .. Len(hist) /\ Len(hist) \in Nat
      /\ hist[i].kind = "access" /\ hist[i].acc.actor \in Lane
  BY AccessAt
<1>2. /\ i \in i .. Len(hist) /\ l \in (i + 1) .. Len(hist) /\ i < l
      /\ k \in 1 .. Len(hist) /\ l \in 1 .. Len(hist) /\ k < l /\ i <= k
  BY <1>1
<1>3. /\ LaneBefore(hist[i], hist[l]) => Near(i, l)
      /\ (k = i \/ LaneOrdered(hist, i, k)) /\ LaneBefore(hist[k], hist[l]) => Near(i, l)
  BY <1>1, <1>2, LaneOrderedNext DEF Near
<1>4. CASE hist[l].kind = "launch"
  BY <1>3, <1>4 DEF LaneBefore
<1>5. CASE SynchronizesWith(hist[k], hist[l])
  <2>1. k \in Accesses /\ l \in Accesses /\ LaneBefore(hist[k], hist[l])
    BY <1>2, <1>5 DEF SynchronizesWith, Accesses, LaneBefore
  <2>2. CASE WarpOrdered(hist, i, k)
    BY <1>2, <1>3, <1>5, <2>1, <2>2 DEF WarpsMeetAtFlags
  <2>3. QED
    BY <1>3, <2>1, <2>2 DEF Near
<1>6. CASE hist[k].kind = "launch"
  BY <1>1, <1>3, <1>6 DEF Near, Accesses, LaneBefore
<1>7. CASE /\ Participants(hist[k]) \cap Participants(hist[l]) # {}
           /\ ~SameInstruction(hist[k], hist[l])
  <2>1. PICK w : w \in Participants(hist[k]) /\ w \in Participants(hist[l])
    BY <1>7
  <2>2. HasWarps(hist[k]) /\ HasWarps(hist[l])
    BY <1>2 DEF WarpHistory, WInv
  <2>3. /\ \/ hist[k].kind = "access" /\ WarpOf[hist[k].acc.actor] = w
           \/ hist[k].kind = "barrier" /\ w \in hist[k].warps /\ w \in Warps
        /\ \/ hist[l].kind = "access" /\ WarpOf[hist[l].acc.actor] = w
           \/ hist[l].kind = "barrier" /\ w \in hist[l].warps /\ w \in Warps
    BY <2>1, <2>2 DEF Participants, HasWarps
  <2>4. /\ hist[k].kind = "access" => k \in Accesses /\ hist[k].acc.actor \in Lane
        /\ hist[l].kind = "access" => l \in Accesses /\ hist[l].acc.actor \in Lane
    <3>1. /\ hist[k].kind = "access" => k \in Accesses
          /\ hist[l].kind = "access" => l \in Accesses
      BY <1>2 DEF Accesses
    <3>2. QED
      BY <3>1, AccessAt
  <2>5. CASE hist[k].kind = "barrier"
    <3>1. k = i \/ LaneOrdered(hist, i, k)
      BY <2>5 DEF Near, Accesses
    <3>2. PICK a \in Lane : WarpOf[a] = w /\ Acts(a, hist[l])
      <4>1. CASE hist[l].kind = "access"
        BY <2>3, <2>4, <4>1 DEF Acts
      <4>2. CASE hist[l].kind # "access"
        BY <2>3, <4>2 DEF Acts, Warps
      <4>3. QED
        BY <4>1, <4>2
    <3>3. Acts(a, hist[k])
      BY <2>3, <2>5, <3>2 DEF Acts
    <3>4. QED
      BY <1>3, <3>1, <3>2, <3>3 DEF LaneBefore
  <2>6. CASE hist[k].kind = "access" /\ hist[l].kind = "barrier"
    <3>1. CASE WarpOrdered(hist, i, k)
      <4>1. WarpOf[hist[i].acc.actor] = w
        BY <2>3, <2>6, <3>1 DEF WarpOrdered
      <4>2. Acts(hist[i].acc.actor, hist[i]) /\ Acts(hist[i].acc.actor, hist[l])
        BY <1>1, <2>3, <2>6, <4>1 DEF Acts
      <4>3. QED
        BY <1>1, <1>3, <4>2 DEF LaneBefore
    <3>2. CASE ~WarpOrdered(hist, i, k)
      <4>1. Acts(hist[k].acc.actor, hist[k]) /\ Acts(hist[k].acc.actor, hist[l])
        BY <2>3, <2>6 DEF Acts
      <4>2. QED
        BY <1>3, <2>4, <2>6, <3>2, <4>1 DEF Near, LaneBefore
    <3>3. QED
      BY <3>1, <3>2
  <2>7. CASE hist[k].kind = "access" /\ hist[l].kind = "access"
    <3>1. /\ k \in Accesses /\ l \in Accesses
          /\ hist[k].acc.instruction # hist[l].acc.instruction
      BY <1>7, <2>4, <2>7 DEF SameInstruction
    <3>2. WarpOrdered(hist, k, l)
      BY <1>2, <2>3, <2>7, <3>1 DEF WarpOrdered
    <3>3. CASE LaneOrdered(hist, i, k)
      BY <3>1, <3>2, <3>3, WarpCarries DEF Near, Ordered
    <3>4. CASE k = i \/ WarpOrdered(hist, i, k)
      <4>1. i = k \/ (i < k /\ WarpOf[hist[i].acc.actor] = WarpOf[hist[k].acc.actor])
        BY <3>4 DEF WarpOrdered
      <4>2. QED
        BY <3>1, <3>2, <4>1, WarpOrderedNext DEF Near
    <3>5. QED
      BY <3>3, <3>4 DEF Near
  <2>8. QED
    BY <2>3, <2>5, <2>6, <2>7
<1>8. QED
  BY <1>4, <1>5, <1>6, <1>7 DEF Passed

\* If warps meet at their releases and acquires, the order of the lanes and the program
\* order of each warp are all of happens-before among accesses.
LEMMA OrderCarried ==
    ASSUME WarpHistory, WarpsMeetAtFlags, NEW i \in Accesses, NEW j \in Accesses,
           HappensBefore(hist, i, j)
    PROVE  Ordered(hist, i, j)
<1> DEFINE From(k) == Near(i, k) /\ hist[k].kind # "fence"
           T == {l \in (i + 1) .. Len(hist) :
                   IF hist[l].kind = "fence"
                   THEN \E k \in i .. (l - 1) : From(k) /\ Passed(k, l)
                   ELSE Near(i, l)}
<1>1. /\ i \in 1 .. Len(hist) /\ Len(hist) \in Nat /\ hist[i].kind = "access"
      /\ hist[j].kind = "access"
  BY AccessAt
<1>2. \A l \in T : hist[l].kind # "fence" => Near(i, l)
  OBVIOUS
<1>3. \A l \in T : hist[l].kind = "fence" => \E k \in i .. (l - 1) : From(k) /\ Passed(k, l)
  OBVIOUS
<1>4. \A l \in (i + 1) .. Len(hist) : hist[l].kind # "fence" /\ Near(i, l) => l \in T
  OBVIOUS
<1>5. \A l \in (i + 1) .. Len(hist) : \A k \in i .. (l - 1) :
         hist[l].kind = "fence" /\ From(k) /\ Passed(k, l) => l \in T
  OBVIOUS
<1>6. T \in SUBSET ((i + 1) .. Len(hist))
  OBVIOUS
<1> HIDE DEF T
<1>7. ASSUME NEW k \in i .. Len(hist), From(k), NEW l \in (k + 1) .. Len(hist),
             \/ Passed(k, l) /\ ~SameInstruction(hist[k], hist[l])
             \/ hist[l].kind = "launch"
             \/ SynchronizesWith(hist[k], hist[l])
      PROVE  l \in T
  <2>1. l \in (i + 1) .. Len(hist) /\ k \in i .. (l - 1)
    BY <1>1
  <2>2. CASE hist[l].kind = "fence"
    BY <1>5, <1>7, <2>1, <2>2 DEF SynchronizesWith
  <2>3. CASE hist[l].kind # "fence"
    <3>1. Near(i, l)
      BY <1>7, <2>3, NearNext
    <3>2. QED
      BY <1>4, <2>1, <2>3, <3>1
  <2>4. QED
    BY <2>2, <2>3
<1>8. ASSUME NEW x \in T \cup {i}, NEW y \in (x + 1) .. Len(hist),
             DirectlyBefore(hist[x], hist[y])
      PROVE  y \in T
  <2>1. /\ x \in i .. Len(hist) /\ x \in 1 .. Len(hist) /\ y \in 1 .. Len(hist) /\ x < y
        /\ x \in Int /\ y \in Int /\ i \in Int
    BY <1>1, <1>6
  <2>2. CASE hist[x].kind # "fence"
    <3>1. From(x)
      BY <1>2, <2>2 DEF Near
    <3>2. \/ Passed(x, y) /\ ~SameInstruction(hist[x], hist[y])
          \/ hist[y].kind = "launch"
          \/ SynchronizesWith(hist[x], hist[y])
      BY <1>8 DEF DirectlyBefore, Passed, SameInstruction
    <3> HIDE DEF From
    <3>3. QED
      BY <1>7, <2>1, <3>1, <3>2
  <2>3. CASE hist[x].kind = "fence"
    <3>1. PICK k \in i .. (x - 1) : From(k) /\ Passed(k, x)
      BY <1>1, <1>3, <2>3
    <3>2. k \in i .. Len(hist) /\ y \in (k + 1) .. Len(hist) /\ k < x
      BY <1>1, <2>1
    <3>3. CASE hist[y].kind = "launch"
      BY <1>7, <3>1, <3>2, <3>3
    <3>4. CASE hist[y].kind # "launch"
      <4>1. HasWarps(hist[x])
        BY <2>1 DEF WarpHistory, WInv
      <4>2. PICK w : Participants(hist[x]) = {w}
        BY <2>3, <4>1 DEF HasWarps, Participants
      <4>3. w \in Participants(hist[y])
        BY <1>8, <2>3, <3>4, <4>2 DEF DirectlyBefore, SynchronizesWith
      <4>4. Passed(k, y)
        BY <3>1, <4>2, <4>3 DEF Passed
      <4>5. ASSUME SameInstruction(hist[k], hist[y]) PROVE FALSE
        <5>1. /\ k \in Accesses /\ y \in Accesses /\ k < y
              /\ hist[k].acc.instruction = hist[y].acc.instruction
          BY <1>1, <2>1, <3>2, <4>5 DEF SameInstruction, Accesses
        <5>2. WarpOf[hist[k].acc.actor] = w /\ WarpOf[hist[y].acc.actor] = w
          BY <3>1, <4>2, <4>3, <4>5 DEF SameInstruction, Participants, Passed
        <5>3. InOrder(hist, k, y)
          BY <5>1, <5>2, WarpNumbers
        <5>4. x \in k .. y
          BY <2>1, <3>2
        <5>5. QED
          BY <2>3, <5>1, <5>3, <5>4 DEF InOrder
      <4>6. QED
        BY <1>7, <3>1, <3>2, <4>4, <4>5
    <3>5. QED
      BY <3>3, <3>4
  <2>4. QED
    BY <2>2, <2>3
<1>9. Closed(hist, i, T)
  BY <1>8 DEF Closed
<1>10. j \in T
  BY <1>6, <1>9, ClosedForm
<1>11. Near(i, j) /\ j # i
  BY <1>1, <1>2, <1>6, <1>10
<1>12. QED
  BY <1>11 DEF Near, Ordered

LEMMA AlarmsUnordered ==
    ASSUME WarpHistory,
           \A r \in reports : \A i, j \in Accesses :
              hist[i].acc = r.first /\ hist[j].acc = r.second =>
                 ~Ordered(hist, i, j) /\ ~Ordered(hist, j, i)
    PROVE  NoFalseAlarm
BY OrderCarried DEF NoFalseAlarm

\* observe and atomic_rmw report no two accesses that program order of a warp, or
\* program order of its lanes with barriers, releases acquired and launches, puts one
\* after the other, whatever the warps are; and no two of which one happens before the
\* other, if warps meet at their releases and acquires.  The condition is that releases
\* acquired by an acq_rel operation reach whoever acquires from it.
THEOREM NoFalseAlarms == Spec => [](ScopesCompose => NoFalseAlarm)
<1>1. ASSUME TypeInv, UInv, WInv, OInv, AInv PROVE NoFalseAlarm
  <2> SUFFICES ASSUME NEW r \in reports, NEW i \in Accesses, NEW j \in Accesses,
                      hist[i].acc = r.first, hist[j].acc = r.second
               PROVE  ~Ordered(hist, i, j) /\ ~Ordered(hist, j, i)
    BY <1>1, AlarmsUnordered DEF WarpHistory, TypeInv
  <2>1. i < j /\ ~Ordered(hist, i, j)
    BY <1>1 DEF AInv, UInv
  <2>2. i \in Nat /\ j \in Nat /\ Len(hist) \in Nat
    BY <1>1, AccessInHistory DEF TypeInv
  <2>3. LaneOrdered(hist, j, i) => i \in (j + 1) .. Len(hist)
    BY <2>2, LaneOrderForward
  <2>4. QED
    BY <2>1, <2>2, <2>3 DEF Ordered, WarpOrdered
<1>2. QED
  BY <1>1, RaceHistoryType, DistinctAlways, WarpsAlways, OrderAlways, AlarmsAlways, PTL

-----------------------------------------------------------------------------
(* No race is missed.                                                      *)

LEMMA HappensBeforeTransitive ==
    ASSUME NEW h, Len(h) \in Nat, NEW i \in 1 .. Len(h), NEW k \in 1 .. Len(h), NEW j,
           i <= k, HappensBefore(h, i, k), HappensBefore(h, k, j)
    PROVE  HappensBefore(h, i, j)
<1> SUFFICES ASSUME NEW S \in SUBSET ((i + 1) .. Len(h)), Closed(h, i, S) PROVE j \in S
  BY ClosedForm
<1> DEFINE T == S \cap ((k + 1) .. Len(h))
<1>1. k \in S
  BY ClosedForm
<1>2. Closed(h, k, T)
  BY <1>1 DEF Closed
<1>3. j \in T
  BY <1>2, ClosedForm
<1>4. QED
  BY <1>3

LEMMA DirectlyHappens ==
    ASSUME NEW h, Len(h) \in Nat, NEW i \in 1 .. Len(h), NEW j \in (i + 1) .. Len(h),
           DirectlyBefore(h[i], h[j])
    PROVE  HappensBefore(h, i, j)
BY DEF HappensBefore

\* acc was made from an operation of the use, in the first generation of the
\* allocation if offsets tell locations apart.
MadeFrom(acc) ==
    \E o \in use.ops :
        /\ acc.space = o.space /\ acc.lo = o.lo /\ acc.hi = o.hi
        /\ acc.is_atomic = o.is_atomic
        /\ acc.space = "shared" => acc.domain = CtaOf[acc.actor] /\ acc.generation = 0
        /\ acc.space = "global" => /\ acc.domain = o.alloc
                                   /\ OffsetsTell => acc.generation = 0

\* Accesses are made from operations, and reports from accesses.
DInv ==
    /\ \A i \in Accesses : MadeFrom(hist[i].acc)
    /\ \A r \in reports : /\ r.key[1] = {r.first.actor, r.second.actor}
                          /\ r.key[4] = r.second.space
                          /\ \E i \in Accesses : hist[i].acc = r.second
    /\ OffsetsTell => \A id \in Alloc : generations[id] = 0

\* A report on byte b of domain d.
Listed(d, b) ==
    \E r \in reports : Domain(r.second) = d /\ r.key[2] <= b /\ b < r.key[3]

\* Of two accesses to a byte that conflict, one happens before the other or the
\* byte is reported.
MInv ==
    \A i, j \in Accesses : \A b \in Nat :
        /\ i < j /\ Conflict(hist[i].acc, hist[j].acc)
        /\ In(hist[i].acc, b) /\ In(hist[j].acc, b)
        => HappensBefore(hist, i, j) \/ Listed(Domain(hist[i].acc), b)

\* Two accesses of which offsets, or their CTA, say that they share a location.
LEMMA SameHome ==
    ASSUME OffsetsTell, NEW x, NEW y, MadeFrom(x), MadeFrom(y), x.space = y.space,
           x.space \in Space, x.space = "shared" => CtaOf[x.actor] = CtaOf[y.actor]
    PROVE  Domain(x) = Domain(y)
<1>1. CASE x.space = "shared"
  BY <1>1 DEF MadeFrom, Domain
<1>2. CASE x.space = "global"
  BY <1>2 DEF MadeFrom, Domain, OffsetsTell
<1>3. QED
  BY <1>1, <1>2 DEF Space

LEMMA AccessDomain ==
    ASSUME TypeInv, DInv, NEW a \in Lane, NEW o \in use.ops, NEW n \in Instructions(a, o),
           NEW acc, acc = MakeAccess(a, n, o), NEW k, Record(acc, k),
           NEW e, e = [kind |-> "access", acc |-> acc], Called(e)
    PROVE  DInv' /\ MadeFrom(acc)
<1>1. /\ acc \in Access /\ e \in Call /\ e.kind = "access" /\ e.acc = acc /\ acc.actor = a
  BY AccessType
<1>2. hist \in Seq(Call) /\ hist' = Append(hist, e) /\ use' = use
      /\ generations' = generations
  BY DEF TypeInv, Called, Record
<1>3. PICK z : z = Len(hist)
  OBVIOUS
<1>4. z \in Nat /\ hist'[z + 1] = e /\ \A i \in 1 .. z : hist'[i] = hist[i]
  BY <1>1, <1>2, <1>3, HistoryGrows
<1>5. Accesses' = Accesses \cup {z + 1}
  BY <1>1, <1>2, <1>3, AccessesGrow
<1>6. \A i \in Accesses : hist'[i] = hist[i]
  BY <1>3, <1>4, AccessInHistory
<1>7. OffsetsTell' <=> OffsetsTell
  BY <1>2 DEF OffsetsTell
<1>8. o \in Op /\ o.alloc \in Alloc
  BY RaceAssumption DEF TypeInv, Op
<1>9. MadeFrom(acc)
  <2>1. /\ acc.space = o.space /\ acc.lo = o.lo /\ acc.hi = o.hi
        /\ acc.is_atomic = o.is_atomic
        /\ acc.space = "shared" => acc.domain = CtaOf[acc.actor] /\ acc.generation = 0
        /\ acc.space = "global" => /\ acc.domain = o.alloc
                                   /\ acc.generation = generations[o.alloc]
    BY <1>8 DEF MakeAccess, Op, Space
  <2>2. OffsetsTell => generations[o.alloc] = 0
    BY <1>8 DEF DInv
  <2>3. QED
    BY <2>1, <2>2 DEF MadeFrom
<1>10. \A x : MadeFrom(x)' <=> MadeFrom(x)
  BY <1>2, <1>7 DEF MadeFrom
<1>11. (\A i \in Accesses : MadeFrom(hist[i].acc))'
  BY <1>1, <1>4, <1>5, <1>6, <1>9, <1>10 DEF DInv
<1>12. ASSUME NEW r \in reports'
       PROVE  /\ r.key[1] = {r.first.actor, r.second.actor}
              /\ r.key[4] = r.second.space
              /\ \E i \in Accesses' : hist'[i].acc = r.second
  <2>1. CASE r \in reports
    BY <1>5, <1>6, <2>1 DEF DInv
  <2>2. CASE r \notin reports
    <3>1. r \in report(acc, k)
      BY <2>2 DEF Record
    <3>2. PICK iv \in Overlapped(acc) : \E x \in check_interval(acc, k, iv) :
             r = [key |-> dedup_key(x.acc, acc, iv), first |-> x.acc, second |-> acc]
      BY <3>1 DEF report
    <3>3. r.second = acc /\ \E x : r.key = dedup_key(x, acc, iv) /\ r.first = x
      BY <3>2
    <3>4. QED
      BY <1>1, <1>4, <1>5, <3>3 DEF dedup_key
  <2>3. QED
    BY <2>1, <2>2
<1>13. (OffsetsTell => \A id \in Alloc : generations[id] = 0)'
  BY <1>2, <1>7 DEF DInv
<1>14. QED
  BY <1>9, <1>11, <1>12, <1>13 DEF DInv

\* A conflicting access that is no longer the last one on a byte was superseded by
\* one that conflicts as well and that it happens before, unless that was reported.
LEMMA Superseded ==
    ASSUME AtomicsApart, TypeInv, BInv, DInv, MInv, NEW acc \in Access, MadeFrom(acc),
           NEW b \in Nat, In(acc, b), NEW i \in Live(Domain(acc), b),
           Conflict(hist[i].acc, acc), i \notin LastOn(Domain(acc), b)
    PROVE  \E w \in LastOn(Domain(acc), b) :
              /\ i < w /\ Conflict(hist[w].acc, acc)
              /\ HappensBefore(hist, i, w) \/ Listed(Domain(acc), b)
<1> DEFINE d == Domain(acc)
           L == Live(d, b)
           x == hist[i].acc
<1>1. /\ L \subseteq 1 .. Len(hist) /\ L \subseteq Nat /\ Len(hist) \in Nat
      /\ L \subseteq Accesses
  <2>1. L \subseteq 1 .. Len(hist) /\ L \subseteq Nat
    BY LiveInHistory
  <2>2. L \subseteq Accesses
    BY DEF Live
  <2>3. QED
    BY <2>1, <2>2 DEF TypeInv
<1>2. \A j \in L : Domain(hist[j].acc) = d /\ In(hist[j].acc, b) /\ hist[j].acc \in Access
  BY <1>1, AccessInHistory DEF Live, In
<1>3. ASSUME NEW y, NEW y2, y \in Access, y2 \in Access, In(y, b), In(y2, b) PROVE Overlap(y, y2)
  <2>1. y.lo \in Nat /\ y.hi \in Nat /\ y2.lo \in Nat /\ y2.hi \in Nat
    BY <1>3 DEF Access
  <2>2. QED
    BY <1>3, <2>1 DEF In, Overlap
<1>4. ~x.is_atomic /\ ~acc.is_atomic
  <2>1. MadeFrom(x) /\ x.space = acc.space
    BY <1>1, <1>2 DEF DInv, Domain
  <2>2. PICK o \in use.ops : /\ x.space = o.space /\ x.lo = o.lo /\ x.hi = o.hi
                             /\ x.is_atomic = o.is_atomic
    BY <2>1 DEF MadeFrom
  <2>3. PICK p \in use.ops : /\ acc.space = p.space /\ acc.lo = p.lo /\ acc.hi = p.hi
                             /\ acc.is_atomic = p.is_atomic
    BY DEF MadeFrom
  <2>4. Overlap(o, p) /\ Overlap(p, o) /\ o.space = p.space
    BY <1>2, <1>3, <2>1, <2>2, <2>3 DEF Overlap
  <2>5. x.is_atomic \/ acc.is_atomic =>
           x.is_atomic /\ acc.is_atomic /\ SameRange(x, acc)
    BY <2>2, <2>3, <2>4 DEF AtomicsApart, SameRange
  <2>6. QED
    BY <2>5 DEF Conflict
<1>5. \A w \in L : acc.is_write \/ hist[w].acc.is_write => Conflict(hist[w].acc, acc)
  BY <1>2, <1>3, <1>4 DEF Conflict
<1>6. \A w \in L : hist[w].acc.is_write => Conflict(x, hist[w].acc)
  BY <1>2, <1>3, <1>4 DEF Conflict
<1>7. CASE \E w \in L : hist[w].acc.is_write /\ i < w
  <2> DEFINE W == {w \in L : hist[w].acc.is_write}
  <2>1. W \subseteq Nat /\ W # {} /\ \A w \in W : w <= Len(hist)
    BY <1>1, <1>7
  <2> HIDE DEF W
  <2>2. PICK w \in W : \A v \in W : v <= w
    BY <1>1, <2>1, Greatest
  <2>3. w \in L /\ hist[w].acc.is_write /\ i < w
    BY <1>1, <1>7, <2>2 DEF W
  <2>4. w \in LastWrites(d, b)
    BY <2>2, <2>3 DEF LastWrites, W
  <2>5. HappensBefore(hist, i, w) \/ Listed(d, b)
    BY <1>1, <1>2, <1>6, <2>3 DEF MInv
  <2>6. QED
    BY <1>5, <2>3, <2>4, <2>5 DEF LastOn
<1>8. CASE ~\E w \in L : hist[w].acc.is_write /\ i < w
  <2>1. i \in Nat /\ \A w \in L : hist[w].acc.is_write => w <= i
    BY <1>1, <1>8
  <2>2. ~x.is_write
    BY <2>1 DEF LastOn, LastWrites
  <2>3. acc.is_write
    BY <2>2 DEF Conflict
  <2> DEFINE R == {j \in L : ~hist[j].acc.is_write /\ hist[j].acc.actor = x.actor}
  <2>4. i \in R /\ R \subseteq Nat /\ R # {} /\ \A j \in R : j <= Len(hist)
    BY <1>1, <2>2
  <2> HIDE DEF R
  <2>5. PICK r \in R : \A j \in R : j <= r
    BY <1>1, <2>4, Greatest
  <2>6. r \in L /\ ~hist[r].acc.is_write /\ hist[r].acc.actor = x.actor /\ i <= r
    BY <2>4, <2>5 DEF R
  <2>7. ASSUME NEW j \in L, hist[j].acc.is_write \/ hist[j].acc.actor = x.actor
        PROVE  j <= r
    <3>1. CASE hist[j].acc.is_write
      BY <1>1, <2>1, <2>6, <3>1
    <3>2. CASE ~hist[j].acc.is_write
      BY <2>5, <2>7, <3>2 DEF R
    <3>3. QED
      BY <3>1, <3>2
  <2>8. r \in LastReads(d, b)
    BY <2>6, <2>7 DEF LastReads
  <2>9. i < r
    BY <1>1, <2>6, <2>8 DEF LastOn
  <2>10. hist[i].kind = "access" /\ hist[r].kind = "access" /\ r \in (i + 1) .. Len(hist)
    BY <1>1, <2>6, <2>9 DEF Accesses
  <2>11. ~SameInstruction(hist[i], hist[r])
    BY <1>1, <2>6, <2>9 DEF SameInstruction, BInv
  <2>12. DirectlyBefore(hist[i], hist[r])
    BY <2>6, <2>10, <2>11 DEF DirectlyBefore, Participants
  <2>13. HappensBefore(hist, i, r)
    BY <1>1, <2>10, <2>12, DirectlyHappens
  <2>14. QED
    BY <1>5, <2>3, <2>6, <2>8, <2>9, <2>13 DEF LastOn
<1>9. QED
  BY <1>7, <1>8

\* What a launch or a reclaim has forgotten happens before every later access.
LEMMA ForgottenIsOrdered ==
    ASSUME TypeInv, NEW a \in Lane, NEW o \in use.ops, NEW n \in Instructions(a, o),
           Running(CtaOf[a]), NEW acc, acc = MakeAccess(a, n, o),
           NEW e, e = [kind |-> "access", acc |-> acc], Called(e), NEW b, NEW i \in Accesses,
           Domain(hist[i].acc) = Domain(acc), In(hist[i].acc, b),
           ~HappensBefore(hist', i, Len(hist) + 1)
    PROVE  i \in Live(Domain(acc), b)
<1>1. /\ acc \in Access /\ e \in Call /\ e.kind = "access"
      /\ acc.space = "shared" => acc.domain = CtaOf[a]
      /\ acc.space = "global" => acc.generation = generations[acc.domain]
  BY AccessType
<1>2. hist \in Seq(Call) /\ hist' = Append(hist, e) /\ i \in 1 .. Len(hist) /\ Len(hist) \in Nat
      /\ hist[i].kind = "access"
  BY AccessInHistory DEF Called, TypeInv, Accesses
<1>3. ASSUME NEW k \in i .. Len(hist), hist[k].kind = "launch" PROVE FALSE
  <2>1. k \in 1 .. Len(hist) /\ k \in (i + 1) .. Len(hist)
    BY <1>2, <1>3
  <2>2. DirectlyBefore(hist[i], hist[k]) /\ DirectlyBefore(hist[k], e)
    BY <1>3 DEF DirectlyBefore
  <2>3. HappensBefore(hist, i, k)
    BY <1>2, <2>1, <2>2, DirectlyHappens
  <2>4. HappensBefore(hist', i, Len(hist) + 1) \/ i = k
    <3>1. PICK h : h = hist' /\ h = Append(hist, e)
      BY <1>2
    <3>2. HappensBefore(h, i, k) /\ HappensBefore(h, k, Len(hist) + 1)
      <4>1. HappensBefore(h, i, k)
        BY <1>1, <1>2, <2>1, <2>3, <3>1, OrderGrows
      <4>2. HappensBefore(h, k, Len(hist) + 1)
        BY <1>1, <1>2, <2>1, <2>2, <3>1, OrderGrows
      <4>3. QED
        BY <4>1, <4>2
    <3>3. Len(h) = Len(hist) + 1
      BY <1>1, <1>2, <3>1, HistoryGrows
    <3>4. HappensBefore(h, i, Len(hist) + 1)
      BY <1>2, <2>1, <3>2, <3>3, HappensBeforeTransitive
    <3>5. QED
      BY <3>1, <3>4
  <2>5. QED
    BY <1>2, <2>1, <2>4
<1>4. i \in SinceLaunch
  BY <1>2, <1>3 DEF SinceLaunch
<1>5. /\ Domain(acc)[1] = "shared" => Running(Domain(acc)[2])
      /\ Domain(acc)[1] = "global" => Domain(acc)[3] = generations[Domain(acc)[2]]
  BY <1>1 DEF Domain
<1>6. QED
  BY <1>4, <1>5 DEF Live, In

LEMMA AccessListed ==
    ASSUME OffsetsTell, AtomicsApart, TypeInv, EInv, LInv, RInv, UInv, BInv, DInv, MInv,
           NEW a \in Lane, NEW o \in use.ops, NEW n \in Instructions(a, o), Running(CtaOf[a]),
           NEW acc, acc = MakeAccess(a, n, o), NEW k, k = tick(clocks[a], a), Record(acc, k),
           NEW e, e = [kind |-> "access", acc |-> acc], Called(e)
    PROVE  MInv'
<1> DEFINE d == Domain(acc)
<1>1. /\ acc \in Access /\ e \in Call /\ e.kind = "access" /\ e.acc = acc /\ acc.actor = a
      /\ acc.space = "shared" => acc.domain = CtaOf[a]
  BY AccessType
<1>2. /\ hist \in Seq(Call) /\ hist' = Append(hist, e) /\ use' = use
      /\ reports \subseteq reports'
  BY DEF TypeInv, Called, Record
<1>3. PICK z : z = Len(hist)
  OBVIOUS
<1>4. /\ z \in Nat /\ Len(hist') = z + 1 /\ hist'[z + 1] = e
      /\ \A i \in 1 .. z : hist'[i] = hist[i]
  BY <1>1, <1>2, <1>3, HistoryGrows
<1>5. Accesses' = Accesses \cup {z + 1}
  BY <1>1, <1>2, <1>3, AccessesGrow
<1>6. \A i \in Accesses : /\ hist'[i] = hist[i] /\ i \in 1 .. z /\ hist[i].acc \in Access
                          /\ hist[i].kind = "access"
  BY <1>3, <1>4, AccessInHistory DEF Accesses
<1>7. DInv' /\ MadeFrom(acc)
  BY AccessDomain
<1>8. \A b : \A c : Listed(c, b) => Listed(c, b)'
  BY <1>2 DEF Listed
<1>9. ASSUME NEW b \in Nat, In(acc, b), NEW i \in LastOn(d, b), Conflict(hist[i].acc, acc),
             ~HappensBefore(hist', i, z + 1)
      PROVE  Listed(d, b)'
  <2>1. i \in Accesses /\ Domain(hist[i].acc) = d
    BY DEF LastOn, LastWrites, LastReads, Live
  <2>2. b \in acc.lo .. (acc.hi - 1)
    BY <1>1, <1>9 DEF In, Access
  <2>3. RaceNoticed
    BY AccessNoticed
  <2>4. Noticed(acc, z + 1)
    BY <1>1, <1>4, <2>3 DEF RaceNoticed
  <2>5. Reported(reports', hist[i].acc, acc, b)
    BY <1>9, <2>2, <2>4 DEF Noticed
  <2>6. PICK r \in reports' : /\ r.key[1] = {hist[i].acc.actor, acc.actor}
                              /\ r.key[2] <= b /\ b < r.key[3]
                              /\ r.key[4] = acc.space
    BY <2>5 DEF Reported
  <2>7. /\ r.second.actor \in {hist[i].acc.actor, acc.actor} /\ r.second.space = acc.space
        /\ \E j \in Accesses' : hist'[j].acc = r.second
    BY <1>7, <2>6 DEF DInv
  <2>8. MadeFrom(r.second)
    <3>1. PICK j \in Accesses' : hist'[j].acc = r.second
      BY <2>7
    <3>2. MadeFrom(hist[j].acc)'
      BY <1>7, <3>1 DEF DInv
    <3>3. OffsetsTell' <=> OffsetsTell
      BY <1>2 DEF OffsetsTell
    <3>4. QED
      BY <1>2, <3>1, <3>2, <3>3, ZenonT(60) DEF MadeFrom
  <2>9. acc.space = "shared" => CtaOf[r.second.actor] = CtaOf[acc.actor]
    <3>1. MadeFrom(hist[i].acc) /\ hist[i].acc.space = acc.space
          /\ hist[i].acc.domain = acc.domain
      BY <2>1 DEF DInv, Domain
    <3>2. acc.space = "shared" => CtaOf[hist[i].acc.actor] = CtaOf[acc.actor]
      BY <1>1, <3>1 DEF MadeFrom
    <3>3. QED
      BY <2>7, <3>2
  <2>10. acc.space \in Space
    BY <1>1 DEF Access
  <2>11. Domain(r.second) = d
    BY <1>7, <2>7, <2>8, <2>9, <2>10, SameHome
  <2>12. QED
    BY <2>6, <2>11 DEF Listed
<1>10. ASSUME NEW i \in Accesses, NEW b \in Nat, Conflict(hist[i].acc, acc),
              In(hist[i].acc, b), In(acc, b), ~HappensBefore(hist', i, z + 1)
       PROVE  Listed(d, b)'
  <2>1. Domain(hist[i].acc) = d
    BY <1>10 DEF Conflict
  <2>2. i \in Live(d, b)
    BY <1>3, <1>10, <2>1, ForgottenIsOrdered
  <2>3. CASE i \in LastOn(d, b)
    BY <1>9, <1>10, <2>1, <2>3
  <2>4. CASE i \notin LastOn(d, b)
    <3>1. PICK w \in LastOn(d, b) : /\ i < w /\ Conflict(hist[w].acc, acc)
                                    /\ HappensBefore(hist, i, w) \/ Listed(d, b)
      BY <1>1, <1>7, <1>10, <2>2, <2>4, Superseded
    <3>2. w \in Accesses /\ w \in 1 .. z /\ i \in 1 .. z
      BY <1>6 DEF LastOn, LastWrites, LastReads, Live
    <3>3. CASE Listed(d, b)
      BY <1>8, <2>1, <3>3
    <3>4. CASE HappensBefore(hist, i, w)
      <4>1. PICK h : h = hist' /\ h = Append(hist, e)
        BY <1>2
      <4>2. HappensBefore(h, i, w)
        BY <1>1, <1>2, <1>3, <3>2, <3>4, <4>1, OrderGrows
      <4>3. Len(h) = z + 1 /\ i \in 1 .. Len(h) /\ w \in 1 .. Len(h) /\ Len(h) \in Nat
        BY <1>4, <3>2, <4>1
      <4>4. i <= w
        BY <3>1, <3>2
      <4>5. ~HappensBefore(h, w, z + 1)
        BY <1>10, <4>1, <4>2, <4>3, <4>4, HappensBeforeTransitive
      <4>6. QED
        BY <1>9, <1>10, <2>1, <3>1, <4>1, <4>5
    <3>5. QED
      BY <3>1, <3>3, <3>4
  <2>5. QED
    BY <2>3, <2>4
<1>11. ASSUME NEW i \in Accesses', NEW j \in Accesses', NEW b \in Nat, i < j,
              Conflict(hist'[i].acc, hist'[j].acc), In(hist'[i].acc, b), In(hist'[j].acc, b),
              ~HappensBefore(hist', i, j)
       PROVE  Listed(Domain(hist[i].acc), b)' /\ hist'[i] = hist[i]
  <2>1. i \in Accesses
    BY <1>4, <1>5, <1>6, <1>11
  <2>2. CASE j = z + 1
    <3>1. /\ hist'[i] = hist[i] /\ Conflict(hist[i].acc, acc)
          /\ In(hist[i].acc, b) /\ In(acc, b) /\ ~HappensBefore(hist', i, z + 1)
      BY <1>1, <1>4, <1>6, <1>11, <2>1, <2>2
    <3>2. Listed(d, b)'
      BY <1>10, <2>1, <3>1
    <3>3. Domain(hist'[i].acc) = d
      BY <3>1 DEF Conflict
    <3>4. QED
      BY <3>1, <3>2, <3>3 DEF Listed
  <2>3. CASE j \in Accesses
    <3>1. ~HappensBefore(hist, i, j)
      <4>1. PICK h : h = hist' /\ h = Append(hist, e)
        BY <1>2
      <4>2. ~HappensBefore(h, i, j) /\ i \in 1 .. z /\ j \in 1 .. z
        BY <1>6, <1>11, <2>1, <2>3, <4>1
      <4>3. QED
        BY <1>1, <1>2, <1>3, <4>1, <4>2, OrderGrows
    <3>2. Listed(Domain(hist[i].acc), b)
      BY <1>6, <1>11, <2>1, <2>3, <3>1 DEF MInv
    <3>3. QED
      BY <1>6, <1>8, <2>1, <3>2
  <2>4. QED
    BY <1>5, <2>2, <2>3
<1>12. QED
  BY <1>11 DEF MInv

LEMMA QuietListed ==
    ASSUME TypeInv, DInv, NEW e \in Call, hist' = Append(hist, e), e.kind # "access",
           Quiet(e)
    PROVE  DInv' /\ (MInv => MInv')
<1>1. hist \in Seq(Call) /\ Len(hist) \in Nat /\ use' = use /\ reports' = reports
  BY DEF TypeInv, Quiet, Called
<1>2. Accesses' = Accesses
  BY <1>1, AccessesGrow
<1>3. \A i \in Accesses : hist'[i] = hist[i] /\ i \in 1 .. Len(hist)
  BY <1>1, AccessInHistory, HistoryGrows
<1>4. OffsetsTell' <=> OffsetsTell
  BY <1>1 DEF OffsetsTell
<1>5. OffsetsTell => generations' = generations
  BY DEF OffsetsTell, Quiet, Called
<1>6. (\A i \in Accesses : MadeFrom(hist[i].acc))'
  BY <1>1, <1>2, <1>3, <1>4 DEF DInv, MadeFrom
<1>7. \A r \in reports' : /\ r.key[1] = {r.first.actor, r.second.actor}
                          /\ r.key[4] = r.second.space
                          /\ \E i \in Accesses' : hist'[i].acc = r.second
  BY <1>1, <1>2, <1>3 DEF DInv
<1>8. DInv'
  BY <1>4, <1>5, <1>6, <1>7 DEF DInv
<1>9. ASSUME NEW i \in Accesses, NEW j \in Accesses, HappensBefore(hist, i, j)
      PROVE  HappensBefore(hist', i, j)
  <2>1. PICK h : h = hist' /\ h = Append(hist, e)
    OBVIOUS
  <2>2. i \in 1 .. Len(hist) /\ j \in 1 .. Len(hist)
    BY <1>3
  <2>3. HappensBefore(h, i, j)
    BY <1>1, <1>9, <2>1, <2>2, OrderGrows
  <2>4. QED
    BY <2>1, <2>3
<1>10. ASSUME MInv, NEW i \in Accesses', NEW j \in Accesses', NEW b \in Nat, i < j,
              Conflict(hist'[i].acc, hist'[j].acc), In(hist'[i].acc, b), In(hist'[j].acc, b)
       PROVE  HappensBefore(hist', i, j) \/ Listed(Domain(hist[i].acc), b)'
  <2>1. HappensBefore(hist, i, j) \/ Listed(Domain(hist[i].acc), b)
    BY <1>2, <1>3, <1>10 DEF MInv
  <2>2. Listed(Domain(hist[i].acc), b) => Listed(Domain(hist[i].acc), b)'
    BY <1>1, <1>2, <1>3 DEF Listed
  <2>3. QED
    BY <1>2, <1>9, <2>1, <2>2
<1>11. MInv => MInv'
  BY <1>10 DEF MInv
<1>12. QED
  BY <1>8, <1>11

LEMMA MissedInductive ==
    ASSUME TypeInv, EInv, LInv, RInv, UInv, BInv, DInv, OffsetsTell /\ AtomicsApart => MInv,
           [Next]_vars
    PROVE  DInv' /\ (OffsetsTell /\ AtomicsApart => MInv)'
<1>1. CASE UNCHANGED vars
  BY <1>1 DEF vars, detector, DInv, MInv, MadeFrom, OffsetsTell, AtomicsApart, Accesses,
              Listed
<1>2. ASSUME use' = use
      PROVE  (OffsetsTell' <=> OffsetsTell) /\ (AtomicsApart' <=> AtomicsApart)
  BY <1>2 DEF OffsetsTell, AtomicsApart
<1>3. ASSUME NEW a \in Lane, NEW o \in use.ops, NEW n \in Instructions(a, o),
             Running(CtaOf[a]), Record(MakeAccess(a, n, o), tick(clocks[a], a)),
             Called([kind |-> "access", acc |-> MakeAccess(a, n, o)])
      PROVE  DInv' /\ (OffsetsTell /\ AtomicsApart => MInv)'
  <2> DEFINE acc == MakeAccess(a, n, o)
             k == tick(clocks[a], a)
             e == [kind |-> "access", acc |-> acc]
  <2>1. /\ acc = MakeAccess(a, n, o) /\ k = tick(clocks[a], a) /\ Record(acc, k)
        /\ e = [kind |-> "access", acc |-> acc] /\ Called(e) /\ use' = use
    BY <1>3 DEF Called
  <2> HIDE DEF acc, k, e
  <2>2. DInv'
    BY <2>1, AccessDomain
  <2>3. OffsetsTell /\ AtomicsApart => MInv'
    BY <1>3, <2>1, AccessListed
  <2>4. QED
    BY <1>2, <2>1, <2>2, <2>3
<1>4. ASSUME NEW e \in Call, hist' = Append(hist, e), e.kind # "access", Quiet(e)
      PROVE  DInv' /\ (OffsetsTell /\ AtomicsApart => MInv)'
  <2>1. use' = use
    BY <1>4 DEF Quiet, Called
  <2>2. QED
    BY <1>2, <1>4, <2>1, QuietListed
<1>5. QED
  BY <1>1, <1>3, <1>4, StepIsCall

\* Every race is listed on every byte the two accesses share, whatever the warps
\* and the synchronization, where atomics share their bytes with equal atomics only
\* and offsets tell locations apart.
THEOREM NoMissedRaces == Spec => [](AtomicsApart /\ OffsetsTell => NoMissedRace)
<1>1. ASSUME Init PROVE DInv /\ MInv
  <2>1. Accesses = {} /\ reports = {} /\ \A id \in Alloc : generations[id] = 0
    BY <1>1 DEF Init, Accesses
  <2>2. QED
    BY <2>1 DEF DInv, MInv
<1>2. ASSUME TypeInv, MInv PROVE NoMissedRace
  <2> SUFFICES ASSUME NEW p \in RacesOf(hist),
                      NEW b \in hist[p[1]].acc.lo .. (hist[p[1]].acc.hi - 1),
                      hist[p[2]].acc.lo <= b, b < hist[p[2]].acc.hi
               PROVE  \E r \in reports : /\ Domain(r.second) = Domain(hist[p[1]].acc)
                                         /\ r.key[2] <= b /\ b < r.key[3]
    BY DEF NoMissedRace
  <2>1. /\ p[1] \in Accesses /\ p[2] \in Accesses /\ p[1] < p[2]
        /\ Conflict(hist[p[1]].acc, hist[p[2]].acc) /\ ~HappensBefore(hist, p[1], p[2])
    BY DEF RacesOf, Accesses
  <2>2. hist[p[1]].acc.lo \in Nat /\ hist[p[1]].acc.hi \in Nat
    BY <1>2, <2>1, AccessInHistory DEF Access
  <2>3. b \in Nat /\ In(hist[p[1]].acc, b) /\ In(hist[p[2]].acc, b)
    BY <2>2 DEF In
  <2>4. Listed(Domain(hist[p[1]].acc), b)
    BY <1>2, <2>1, <2>3 DEF MInv
  <2>5. QED
    BY <2>4 DEF Listed
<1>3. Spec => [](DInv /\ (OffsetsTell /\ AtomicsApart => MInv))
  <2>1. ASSUME TypeInv, EInv, LInv, RInv, UInv, BInv,
               DInv /\ (OffsetsTell /\ AtomicsApart => MInv), [Next]_vars
        PROVE  (DInv /\ (OffsetsTell /\ AtomicsApart => MInv))'
    BY <2>1, MissedInductive
  <2>2. QED
    BY <1>1, <2>1, RaceHistoryType, LearnedAlways, ShadowAlways, DistinctAlways, BurstAlways,
       PTL DEF Spec
<1>4. QED
  BY <1>2, <1>3, RaceHistoryType, PTL

=============================================================================
