-------------------------- MODULE RaceReplayProofs --------------------------
(***************************************************************************)
(* The replay of the sorted log is itself a run of the detector: the calls *)
(* of RaceHistory made in the order of the log.                            *)
(***************************************************************************)
EXTENDS RaceReplay, RaceHistoryProofs, FiniteSetTheorems

-----------------------------------------------------------------------------
(* The replay as a behaviour of RaceHistory.                               *)

\* The events replayed so far.
Log == [k \in DOMAIN replayed |-> hist[replayed[k]]]

\* The accesses of CTA c among the first n events of h, and their last instruction.
AccessOf(h, k, c) == h[k].kind = "access" /\ CtaOf[h[k].acc.actor] = c

Number(h, n, c, m) ==
    /\ m \in Nat
    /\ \A k \in 1..n : AccessOf(h, k, c) => h[k].acc.instruction \in 0..m
    /\ m = 0 \/ \E k \in 1..n : AccessOf(h, k, c) /\ h[k].acc.instruction = m

Numbering(f, h) == f \in [Ctas -> Nat] /\ \A c \in Ctas : Number(h, Len(h), c, f[c])

Counted == CHOOSE f : Numbering(f, Log)

Direct == INSTANCE RaceHistoryProofs WITH hist <- Log, executed <- Counted

LEMMA SameObserve == ASSUME NEW acc, observe(acc) PROVE Direct!observe(acc)
BY DEF observe, Direct!observe, Record, Direct!Record, report, Direct!report, Split, Direct!Split,
   tick, Direct!tick, Heads, Direct!Heads, Tails, Direct!Tails, Covered, Direct!Covered,
   Gaps, Direct!Gaps, Overlapped, Direct!Overlapped, ob, Direct!ob, oe, Direct!oe, Domain, Direct!Domain,
   Overlap, Direct!Overlap, check_interval, Direct!check_interval, dedup_key, Direct!dedup_key,
   happens_before, Direct!happens_before, SameRange, Direct!SameRange, dominates, Direct!dominates

LEMMA SameAtomicRmw == ASSUME NEW acc, atomic_rmw(acc) PROVE Direct!atomic_rmw(acc)
BY DEF atomic_rmw, Direct!atomic_rmw, Record, Direct!Record, report, Direct!report,
       Split, Direct!Split, tick, Direct!tick, Heads, Direct!Heads, Tails, Direct!Tails,
       Covered, Direct!Covered, Gaps, Direct!Gaps, Overlapped, Direct!Overlapped,
       ob, Direct!ob, oe, Direct!oe, Domain, Direct!Domain, Overlap, Direct!Overlap,
       check_interval, Direct!check_interval, dedup_key, Direct!dedup_key,
       happens_before, Direct!happens_before, SameRange, Direct!SameRange,
       dominates, Direct!dominates, SyncOp, Direct!SyncOp, key_of, Direct!key_of,
       classify_order_scope, Direct!classify_order_scope, KnownScope, Direct!KnownScope,
       is_release_order, Direct!is_release_order, is_acquire_order, Direct!is_acquire_order,
       VisibleReleases, Direct!VisibleReleases, MorallyStrong, Direct!MorallyStrong,
       scope_visible, Direct!scope_visible, MergeAll, Direct!MergeAll

LEMMA SameBarrier == ASSUME NEW ws, cta_barrier(ws) PROVE Direct!cta_barrier(ws)
BY DEF cta_barrier, Direct!cta_barrier, MergeAll, Direct!MergeAll, LanesOf, Direct!LanesOf

LEMMA SameFence == fence => Direct!fence
BY DEF fence, Direct!fence, detector, Direct!detector

-----------------------------------------------------------------------------
(* The execution.                                                          *)

\* What an event of the log is.
Eventful(e) ==
    /\ e.kind \in use.kinds \cup {"access"}
    /\ \/ \E a \in Lane, o \in use.ops, n \in Nat :
            e = [kind |-> "access", acc |-> MakeAccess(a, n, o)]
       \/ \E c \in Ctas, ws \in BarrierSets :
            Meet(c, ws) /\ e = [kind |-> "barrier", warps |-> ws]
       \/ \E w \in Warps : e = [kind |-> "fence", warps |-> {w}]

\* The access at i continues the instruction of the access before it.
GoesOn(h, i) ==
    LET last == h[i - 1].acc  acc == h[i].acc IN
    /\ i - 1 \in 1..Len(h) /\ h[i - 1].kind = "access"
    /\ WarpOf[last.actor] = WarpOf[acc.actor]
    /\ last.is_write = acc.is_write /\ last.is_atomic = acc.is_atomic
    /\ last.mem_order = acc.mem_order /\ last.scope = acc.scope
    /\ last.space = acc.space
    /\ \A k \in 1..(i - 1) :
         h[k].kind = "access" /\ h[k].acc.instruction = acc.instruction =>
            h[k].acc.actor # acc.actor

\* The access at i has the number of a new instruction, or goes on with the last.
Follows(h, i) ==
    \E m : /\ Number(h, i - 1, CtaOf[h[i].acc.actor], m)
           /\ \/ h[i].acc.instruction = m + 1
              \/ h[i].acc.instruction = m /\ GoesOn(h, i)

HistInv ==
    /\ hist \in Seq(Call) /\ use \in Uses /\ Len(hist) <= use.events
    /\ generations \in [Alloc -> Nat]
    /\ \A i \in 1..Len(hist) : Eventful(hist[i])
    /\ Numbering(executed, hist)
    /\ \A i \in Accesses : Follows(hist, i)

ReplayInv ==
    /\ replayed \in Seq(1..Len(hist))
    /\ \A k, l \in 1..Len(replayed) : k < l => Earlier(replayed[k], replayed[l])
    /\ \A k \in 1..Len(replayed), i \in Remaining : Earlier(replayed[k], i)
    /\ ~joined => replayed = <<>>

\* An event belongs to one CTA.
LEMMA EventCta ==
    ASSUME NEW e, Eventful(e)
    PROVE  /\ CtaOfEvent(e) \in Ctas /\ CtaOfEvent(e) \in Nat
           /\ e.kind \in {"access", "barrier", "fence"}
           /\ \A a \in Lane : WarpOf[a] \in Participants(e) => CtaOf[a] = CtaOfEvent(e)
           /\ \A w \in Participants(e) : \E a \in Lane : WarpOf[a] = w
           /\ e.kind = "access" => /\ e.acc.actor \in Lane
                                   /\ CtaOf[e.acc.actor] = CtaOfEvent(e)
<1>1. e.kind \in {"access", "barrier", "fence"}
  BY DEF Eventful
<1>2. /\ Participants(e) # {}
      /\ \A w \in Participants(e) : \E a \in Lane : WarpOf[a] = w
      /\ \A a, b \in Lane : WarpOf[a] \in Participants(e) /\ WarpOf[b] \in Participants(e)
                              => CtaOf[a] = CtaOf[b]
      /\ e.kind = "access" => e.acc.actor \in Lane /\ WarpOf[e.acc.actor] \in Participants(e)
  <2>1. CASE \E a \in Lane, o \in use.ops, n \in Nat :
               e = [kind |-> "access", acc |-> MakeAccess(a, n, o)]
    <3>1. e.kind = "access" /\ e.acc.actor \in Lane
      BY <2>1 DEF MakeAccess
    <3>2. Participants(e) = {WarpOf[e.acc.actor]}
      BY <3>1 DEF Participants
    <3>3. QED
      BY <3>1, <3>2, RaceAssumption
  <2>2. CASE \E c \in Ctas, ws \in BarrierSets :
               Meet(c, ws) /\ e = [kind |-> "barrier", warps |-> ws]
    <3>1. PICK c \in Ctas, ws \in BarrierSets :
               Meet(c, ws) /\ e = [kind |-> "barrier", warps |-> ws]
      BY <2>2
    <3>2. Participants(e) = ws /\ e.kind # "access"
      BY <3>1 DEF Participants
    <3>3. \A a \in Lane : WarpOf[a] \in ws => CtaOf[a] = c
      BY <3>1, RaceAssumption DEF Meet
    <3>4. QED
      BY <3>1, <3>2, <3>3, BarrierAssumption DEF Meet
  <2>3. CASE \E w \in Warps : e = [kind |-> "fence", warps |-> {w}]
    <3>1. PICK w \in Warps : e = [kind |-> "fence", warps |-> {w}]
      BY <2>3
    <3>2. Participants(e) = {w} /\ e.kind # "access"
      BY <3>1 DEF Participants
    <3>3. QED
      BY <3>2, RaceAssumption DEF Warps
  <2>4. QED
    BY <2>1, <2>2, <2>3 DEF Eventful
<1>3. PICK a \in Lane : WarpOf[a] \in Participants(e) /\ CtaOfEvent(e) = CtaOf[a]
  BY <1>2 DEF CtaOfEvent
<1>4. CtaOf[a] \in Ctas /\ CtaOf[a] \in Nat
  BY RaceAssumption DEF Ctas
<1>5. QED
  BY <1>1, <1>2, <1>3, <1>4

\* The order of the sorted log.
LEMMA EarlierOrder ==
    ASSUME HistInv, NEW i \in 1..Len(hist), NEW j \in 1..Len(hist)
    PROVE  /\ i # j => Earlier(i, j) \/ Earlier(j, i)
           /\ Earlier(i, j) => ~Earlier(j, i) /\ i # j
           /\ CtaOfEvent(hist[i]) = CtaOfEvent(hist[j]) => (Earlier(i, j) <=> i < j)
<1>1. /\ CtaOfEvent(hist[i]) \in Nat /\ CtaOfEvent(hist[j]) \in Nat
      /\ i \in Nat /\ j \in Nat
  BY EventCta DEF HistInv
<1>2. QED
  BY <1>1 DEF Earlier

LEMMA NumberSame ==
    ASSUME NEW h, NEW g, NEW n \in Nat, \A k \in 1..n : g[k] = h[k], NEW c, NEW m,
           Number(h, n, c, m)
    PROVE  Number(g, n, c, m)
BY DEF Number, AccessOf

\* One more event.
LEMMA NumberGrows ==
    ASSUME NEW h, NEW n \in Nat, NEW c, NEW m, Number(h, n, c, m)
    PROVE  /\ ~AccessOf(h, n + 1, c) => Number(h, n + 1, c, m)
           /\ AccessOf(h, n + 1, c) /\ h[n + 1].acc.instruction \in {m, m + 1}
                => Number(h, n + 1, c, h[n + 1].acc.instruction)
<1>1. 1..(n + 1) = (1..n) \cup {n + 1}
  OBVIOUS
<1>2. m \in Nat
  BY DEF Number
<1>3. ~AccessOf(h, n + 1, c) => Number(h, n + 1, c, m)
  BY <1>1 DEF Number
<1>4. ASSUME AccessOf(h, n + 1, c), h[n + 1].acc.instruction \in {m, m + 1}
      PROVE  Number(h, n + 1, c, h[n + 1].acc.instruction)
  <2> DEFINE p == h[n + 1].acc.instruction
  <2>1. p \in Nat /\ m <= p
    BY <1>2, <1>4
  <2>2. \A k \in 1..n : AccessOf(h, k, c) => h[k].acc.instruction \in 0..p
    BY <1>2, <1>4 DEF Number
  <2>3. QED
    BY <1>1, <1>4, <2>1, <2>2 DEF Number
<1>5. QED
  BY <1>3, <1>4

LEMMA FollowsSame ==
    ASSUME NEW h, NEW g, Len(h) \in Nat, Len(g) \in Nat, Len(h) <= Len(g),
           \A k \in 1..Len(h) : g[k] = h[k], NEW i \in 1..Len(h), Follows(h, i)
    PROVE  Follows(g, i)
<1>1. PICK m : /\ Number(h, i - 1, CtaOf[h[i].acc.actor], m)
               /\ \/ h[i].acc.instruction = m + 1
                  \/ h[i].acc.instruction = m /\ GoesOn(h, i)
  BY DEF Follows
<1>2. i - 1 \in Nat /\ g[i] = h[i] /\ \A k \in 1..(i - 1) : g[k] = h[k]
  OBVIOUS
<1>3. Number(g, i - 1, CtaOf[g[i].acc.actor], m)
  BY <1>1, <1>2, NumberSame
<1>4. GoesOn(h, i) => GoesOn(g, i)
  <2> SUFFICES ASSUME GoesOn(h, i) PROVE GoesOn(g, i)
    OBVIOUS
  <2>1. i - 1 \in 1..Len(h) /\ i - 1 \in 1..Len(g) /\ g[i - 1] = h[i - 1]
    BY DEF GoesOn
  <2>2. QED
    BY <1>2, <2>1 DEF GoesOn
<1>5. QED
  BY <1>1, <1>2, <1>3, <1>4 DEF Follows

\* Appending an event, once its number is right.
LEMMA LoggedStep ==
    ASSUME HistInv, NEW e \in Call, Logged(e), Eventful(e), Numbering(executed', hist'),
           e.kind = "access" => Follows(hist', Len(hist) + 1)
    PROVE  HistInv'
<1>1. PICK z : z = Len(hist)
  OBVIOUS
<1>2. /\ hist \in Seq(Call) /\ hist' = Append(hist, e) /\ use' = use
      /\ z < use.events /\ e.kind \in use.kinds \cup {"access"}
      /\ generations' = generations
  BY <1>1 DEF HistInv, Logged, Called, detector
<1>3. /\ z \in Nat /\ Len(hist') = z + 1 /\ hist' \in Seq(Call)
      /\ \A i \in 1..z : hist'[i] = hist[i]
      /\ hist'[z + 1] = e
      /\ 1..(z + 1) = (1..z) \cup {z + 1}
  BY <1>1, <1>2, HistoryGrows
<1>4. use.events \in Nat
  BY RaceAssumption DEF HistInv
<1>5. \A i \in 1..Len(hist') : Eventful(hist[i])'
  <2> SUFFICES ASSUME NEW i \in 1..Len(hist') PROVE Eventful(hist[i])'
    OBVIOUS
  <2>1. i = z + 1 => hist'[i] = e
    BY <1>3
  <2>2. i # z + 1 => i \in 1..Len(hist) /\ hist'[i] = hist[i]
    BY <1>1, <1>3
  <2>3. Eventful(hist'[i])
    BY <2>1, <2>2 DEF HistInv
  <2>4. PICK x : x = hist'[i]
    OBVIOUS
  <2>5. \A a, o, n : MakeAccess(a, n, o)' = MakeAccess(a, n, o)
    BY <1>2 DEF MakeAccess
  <2>6. Eventful(x)'
    BY <1>2, <2>3, <2>4, <2>5, Zenon DEF Eventful
  <2>7. QED
    BY <2>4, <2>6, Zenon DEF Eventful
<1>6. \A i \in Accesses' : Follows(hist', i)
  <2> SUFFICES ASSUME NEW i \in Accesses' PROVE Follows(hist', i)
    OBVIOUS
  <2>1. CASE i = z + 1
    BY <1>1, <1>3, <2>1 DEF Accesses
  <2>2. CASE i # z + 1
    <3>1. i \in 1..z /\ i \in Accesses
      BY <1>1, <1>3, <2>2 DEF Accesses
    <3>2. Follows(hist, i)
      BY <3>1 DEF HistInv
    <3>3. Len(hist) \in Nat /\ Len(hist') \in Nat /\ Len(hist) <= Len(hist')
      BY <1>1, <1>3
    <3>4. QED
      BY <1>1, <1>3, <3>1, <3>2, <3>3, FollowsSame
  <2>3. QED
    BY <2>1, <2>2
<1>7. use' \in Uses /\ Len(hist') <= use'.events
  BY <1>2, <1>3, <1>4 DEF HistInv
<1>8. \A i \in Accesses' : Follows(hist, i)'
  BY <1>6 DEF Follows, Number, AccessOf, GoesOn
<1>9. Numbering(executed, hist)'
  BY DEF Numbering, Number, AccessOf
<1>10. QED
  BY <1>2, <1>3, <1>5, <1>7, <1>8, <1>9 DEF HistInv

LEMMA FollowsNumber ==
    ASSUME NEW h, NEW i, NEW c, c = CtaOf[h[i].acc.actor], NEW k, k = i - 1, NEW m,
           Number(h, k, c, m),
           \/ h[i].acc.instruction = m + 1
           \/ h[i].acc.instruction = m /\ GoesOn(h, i)
    PROVE  Follows(h, i)
BY DEF Follows

LEMMA AccessMade ==
    ASSUME HistInv, NEW a \in Lane, NEW o \in use.ops, NEW n \in Nat
    PROVE  MakeAccess(a, n, o) \in Access
<1> DEFINE d == IF o.space = "shared" THEN CtaOf[a] ELSE o.alloc
           g == IF o.space = "shared" THEN 0 ELSE generations[o.alloc]
<1>1. o \in Op
  BY RaceAssumption DEF HistInv
<1>2. d \in Alloc \cup Nat /\ g \in Nat
  BY <1>1, RaceAssumption DEF Op, HistInv
<1>3. MakeAccess(a, n, o)
        = [actor |-> a, instruction |-> n, space |-> o.space, domain |-> d,
           generation |-> g, lo |-> o.lo, hi |-> o.hi, is_write |-> o.is_write,
           is_atomic |-> o.is_atomic, mem_order |-> o.mem_order, scope |-> o.scope]
  BY DEF MakeAccess
<1> HIDE DEF d, g
<1>4. QED
  BY <1>1, <1>2, <1>3 DEF Op, Access

LEMMA RecordLogged ==
    ASSUME HistInv, NEW a \in Lane, NEW o \in use.ops, record_race_access(a, o)
    PROVE  HistInv'
<1>1. PICK n \in Instructions(a, o) :
        /\ Logged([kind |-> "access", acc |-> MakeAccess(a, n, o)])
        /\ executed' = [executed EXCEPT ![CtaOf[a]] = n]
  BY DEF record_race_access
<1> DEFINE acc == MakeAccess(a, n, o)
           e == [kind |-> "access", acc |-> acc]
           c == CtaOf[a]
           m == executed[c]
<1>2. c \in Ctas /\ executed \in [Ctas -> Nat] /\ m \in Nat
  BY DEF HistInv, Numbering, Ctas
<1>3. n \in {m, m + 1} /\ n \in Nat
  BY <1>2 DEF Instructions
<1>4. o \in Op
  BY RaceAssumption DEF HistInv
<1>5. /\ acc.actor = a /\ acc.instruction = n
      /\ acc.is_write = o.is_write /\ acc.is_atomic = o.is_atomic
      /\ acc.mem_order = o.mem_order /\ acc.scope = o.scope /\ acc.space = o.space
  BY DEF MakeAccess
<1>6. acc \in Access
  BY <1>3, AccessMade
<1>7. Logged(e) /\ e.kind = "access" /\ e.acc = acc
  BY <1>1
<1>8. Eventful(e)
  BY <1>3 DEF Eventful
<1> HIDE DEF acc
<1>9. e \in Call
  BY <1>6 DEF Call
<1> HIDE DEF e
<1>10. PICK z : z = Len(hist)
  OBVIOUS
<1>11. hist \in Seq(Call) /\ hist' = Append(hist, e)
  BY <1>7 DEF HistInv, Logged, Called
<1>12. /\ z \in Nat /\ Len(hist') = z + 1
       /\ \A i \in 1..z : hist'[i] = hist[i]
       /\ hist'[z + 1] = e
       /\ 1..(z + 1) = (1..z) \cup {z + 1}
  BY <1>9, <1>10, <1>11, HistoryGrows
<1>13. \A d \in Ctas : Number(hist', z, d, executed[d])
  BY <1>10, <1>12, NumberSame DEF HistInv, Numbering
<1>14. Numbering(executed', hist')
  <2> SUFFICES ASSUME NEW d \in Ctas PROVE Number(hist', z + 1, d, executed'[d])
    BY <1>1, <1>2, <1>3, <1>12 DEF Numbering
  <2>1. CASE d = c
    <3>1. AccessOf(hist', z + 1, d) /\ hist'[z + 1].acc.instruction = n /\ executed'[d] = n
      BY <1>1, <1>2, <1>5, <1>7, <1>12, <2>1 DEF AccessOf
    <3>2. hist'[z + 1].acc.instruction \in {executed[d], executed[d] + 1}
      BY <1>3, <2>1, <3>1
    <3> HIDE DEF c, m
    <3>3. QED
      BY <1>12, <1>13, <3>1, <3>2, NumberGrows
  <2>2. CASE d # c
    <3>1. ~AccessOf(hist', z + 1, d) /\ executed'[d] = executed[d]
      BY <1>1, <1>2, <1>5, <1>7, <1>12, <2>2 DEF AccessOf
    <3>2. QED
      BY <1>12, <1>13, <3>1, NumberGrows
  <2>3. QED
    BY <2>1, <2>2
<1>15. Follows(hist', z + 1)
  <2>1. Number(hist', z, c, m) /\ z + 1 - 1 = z
    BY <1>2, <1>12, <1>13
  <2>2. hist'[z + 1].acc = acc /\ CtaOf[acc.actor] = c
    BY <1>5, <1>7, <1>12
  <2>3. CASE n = m + 1
    <3>1. hist'[z + 1].acc.instruction = m + 1 /\ z = (z + 1) - 1
      BY <1>5, <1>12, <2>2, <2>3
    <3>2. c = CtaOf[hist'[z + 1].acc.actor] /\ Number(hist', z, c, m)
      BY <2>1, <2>2
    <3> HIDE DEF c, m
    <3>3. QED
      BY <3>1, <3>2, FollowsNumber
  <2>4. CASE n = m /\ n # m + 1
    <3>1. /\ hist # <<>> /\ hist[z].kind = "access"
          /\ LET last == hist[z].acc IN
               /\ WarpOf[last.actor] = WarpOf[a]
               /\ last.is_write = o.is_write /\ last.is_atomic = o.is_atomic
               /\ last.mem_order = o.mem_order /\ last.scope = o.scope
               /\ last.space = o.space
          /\ \A i \in Accesses : hist[i].acc.instruction = n => hist[i].acc.actor # a
      BY <1>10, <2>4 DEF Instructions
    <3>2. z \in 1..z
      <4>1. z # 0
        <5>1. hist # <<>> /\ hist \in Seq(Call)
          BY <1>11, <3>1
        <5>2. Len(hist) \in Nat \ {0}
          BY <5>1, EmptySeq
        <5>3. QED
          BY <1>10, <5>2
      <4>2. QED
        BY <1>12, <4>1
    <3>3. \A k \in 1..z : hist'[k].kind = "access" /\ hist'[k].acc.instruction = n
                             => hist'[k].acc.actor # a
      BY <1>10, <1>12, <3>1 DEF Accesses
    <3>4. GoesOn(hist', z + 1)
      BY <1>5, <1>12, <2>1, <2>2, <3>1, <3>2, <3>3 DEF GoesOn
    <3>5. hist'[z + 1].acc.instruction = m /\ z = (z + 1) - 1
      BY <1>5, <1>12, <2>2, <2>4
    <3>6. c = CtaOf[hist'[z + 1].acc.actor] /\ Number(hist', z, c, m)
      BY <2>1, <2>2
    <3> HIDE DEF c, m
    <3>7. QED
      BY <3>4, <3>5, <3>6, FollowsNumber
  <2>5. QED
    BY <1>3, <2>3, <2>4
<1>16. QED
  BY <1>7, <1>8, <1>9, <1>10, <1>14, <1>15, LoggedStep

LEMMA QuietLogged ==
    ASSUME HistInv, NEW e \in Call, Logged(e), Eventful(e), e.kind # "access",
           executed' = executed
    PROVE  HistInv'
<1>1. PICK z : z = Len(hist)
  OBVIOUS
<1>2. hist \in Seq(Call) /\ hist' = Append(hist, e)
  BY DEF HistInv, Logged, Called
<1>3. /\ z \in Nat /\ Len(hist') = z + 1
      /\ \A i \in 1..z : hist'[i] = hist[i]
      /\ hist'[z + 1] = e
  BY <1>1, <1>2, HistoryGrows
<1>4. \A d \in Ctas : Number(hist', z, d, executed[d])
  BY <1>1, <1>3, NumberSame DEF HistInv, Numbering
<1>5. \A d : ~AccessOf(hist', z + 1, d)
  BY <1>3 DEF AccessOf
<1>6. \A d \in Ctas : Number(hist', z + 1, d, executed[d])
  BY <1>3, <1>4, <1>5, NumberGrows
<1>7. Numbering(executed', hist')
  BY <1>3, <1>6 DEF HistInv, Numbering
<1>8. QED
  BY <1>7, LoggedStep

LEMMA DispatchKeeps ==
    ASSUME NEW e, Dispatch(e)
    PROVE  generations' = generations
BY DEF Dispatch, observe, atomic_rmw, Record, cta_barrier, fence, detector

LEMMA ExecutionKept ==
    ASSUME HistInv, hist' = hist, use' = use, executed' = executed,
           generations' = generations
    PROVE  HistInv'
<1>1. \A i \in 1..Len(hist') : Eventful(hist[i])'
  <2> SUFFICES ASSUME NEW i \in 1..Len(hist') PROVE Eventful(hist[i])'
    OBVIOUS
  <2>1. PICK x : x = hist[i]
    OBVIOUS
  <2>2. Eventful(x) /\ x = hist'[i]
    BY <2>1 DEF HistInv
  <2>3. \A a, o, n : MakeAccess(a, n, o)' = MakeAccess(a, n, o)
    BY DEF MakeAccess
  <2>4. Eventful(x)'
    BY <2>2, <2>3, Zenon DEF Eventful
  <2>5. QED
    BY <2>2, <2>4, Zenon DEF Eventful
<1>2. Numbering(executed, hist)'
  BY DEF HistInv, Numbering, Number, AccessOf
<1>3. \A i \in Accesses' : Follows(hist, i)'
  <2> SUFFICES ASSUME NEW i \in Accesses PROVE Follows(hist, i)'
    BY DEF Accesses
  <2>1. Follows(hist, i)
    BY DEF HistInv
  <2>2. QED
    BY <2>1 DEF Follows, Number, AccessOf, GoesOn
<1>4. QED
  BY <1>1, <1>2, <1>3 DEF HistInv

LEMMA ExecutionStep ==
    ASSUME HistInv, [ReplayNext]_replayVars
    PROVE  HistInv'
<1>1. ASSUME NEW c \in Ctas, NEW ws \in BarrierSets, LogBarrier(c, ws) PROVE HistInv'
  <2> DEFINE e == [kind |-> "barrier", warps |-> ws]
  <2>1. Logged(e) /\ Meet(c, ws) /\ executed' = executed
    BY <1>1 DEF LogBarrier
  <2>2. Eventful(e)
    BY <2>1 DEF Eventful, Logged, Called
  <2>3. e \in Call /\ e.kind # "access"
    BY DEF Call
  <2> HIDE DEF e
  <2>4. QED
    BY <2>1, <2>2, <2>3, QuietLogged
<1>2. ASSUME NEW w \in Warps, LogFence(w) PROVE HistInv'
  <2> DEFINE e == [kind |-> "fence", warps |-> {w}]
  <2>1. Logged(e) /\ executed' = executed
    BY <1>2 DEF LogFence
  <2>2. Eventful(e)
    BY <2>1 DEF Eventful, Logged, Called
  <2>3. e \in Call /\ e.kind # "access"
    BY DEF Call
  <2> HIDE DEF e
  <2>4. QED
    BY <2>1, <2>2, <2>3, QuietLogged
<1>3. CASE Join
  BY <1>3, ExecutionKept DEF Join, vars, detector
<1>4. CASE replay_race_log
  BY <1>4, ExecutionKept, DispatchKeeps DEF replay_race_log
<1>5. CASE UNCHANGED replayVars
  BY <1>5, ExecutionKept DEF replayVars, vars, detector
<1>6. QED
  BY <1>1, <1>2, <1>3, <1>4, <1>5, RecordLogged DEF ReplayNext

LEMMA AppendReplayed ==
    ASSUME NEW S, replayed \in Seq(S), NEW j \in S, replayed' = Append(replayed, j),
           NEW n, n = Len(replayed)
    PROVE  /\ n \in Nat /\ replayed' \in Seq(S) /\ Len(replayed') = n + 1
           /\ \A k \in 1..n : replayed'[k] = replayed[k] /\ replayed[k] \in S
           /\ replayed'[n + 1] = j
           /\ 1..(n + 1) = (1..n) \cup {n + 1}
           /\ DOMAIN replayed = 1..n /\ DOMAIN replayed' = 1..(n + 1)
BY AppendProperties, ElementOfSeq

LEMMA ReplayStep ==
    ASSUME HistInv, ReplayInv, [ReplayNext]_replayVars
    PROVE  ReplayInv'
<1>1. CASE UNCHANGED <<hist, joined, replayed>>
  BY <1>1 DEF ReplayInv, Remaining, Earlier
<1>2. CASE Join
  BY <1>2 DEF Join, vars, ReplayInv, Remaining, Earlier
<1>3. ASSUME NEW e, Logged(e) PROVE ReplayInv'
  <2>1. replayed' = <<>>
    BY <1>3 DEF Logged, ReplayInv
  <2>2. replayed' \in Seq(1..Len(hist')) /\ Len(replayed') = 0
    BY <2>1, EmptySeq
  <2>3. QED
    BY <2>1, <2>2 DEF ReplayInv
<1>4. CASE replay_race_log
  <2>1. PICK j \in Remaining : /\ \A i \in Remaining \ {j} : Earlier(j, i)
                               /\ replayed' = Append(replayed, j)
                               /\ hist' = hist /\ joined' = joined /\ joined
    BY <1>4 DEF replay_race_log
  <2>2. PICK n : n = Len(replayed)
    OBVIOUS
  <2>3. j \in 1..Len(hist)
    BY DEF Remaining
  <2>4. /\ n \in Nat /\ replayed' \in Seq(1..Len(hist)) /\ Len(replayed') = n + 1
        /\ \A k \in 1..n : replayed'[k] = replayed[k] /\ replayed[k] \in 1..Len(hist)
        /\ replayed'[n + 1] = j
        /\ 1..(n + 1) = (1..n) \cup {n + 1}
        /\ DOMAIN replayed = 1..n /\ DOMAIN replayed' = 1..(n + 1)
    BY <2>1, <2>2, <2>3, AppendReplayed DEF ReplayInv
  <2>5. Remaining' = Remaining \ {j}
    BY <2>1, <2>4 DEF Remaining
  <2>6. \A k, l : Earlier(k, l)' <=> Earlier(k, l)
    BY <2>1 DEF Earlier
  <2>7. ASSUME NEW k \in 1..(n + 1), NEW l \in 1..(n + 1), k < l
        PROVE  Earlier(replayed'[k], replayed'[l])
    <3>1. k \in 1..n
      BY <2>4, <2>7
    <3>2. CASE l = n + 1
      BY <2>2, <2>4, <3>1, <3>2 DEF ReplayInv
    <3>3. CASE l \in 1..n
      BY <2>2, <2>4, <2>7, <3>1, <3>3 DEF ReplayInv
    <3>4. QED
      BY <2>4, <3>2, <3>3
  <2>8. ASSUME NEW k \in 1..(n + 1), NEW i \in Remaining'
        PROVE  Earlier(replayed'[k], i)
    <3>1. i \in Remaining \ {j}
      BY <2>5
    <3>2. CASE k = n + 1
      BY <2>1, <2>4, <3>1, <3>2
    <3>3. CASE k \in 1..n
      BY <2>2, <2>4, <3>1, <3>3 DEF ReplayInv
    <3>4. QED
      BY <2>4, <3>2, <3>3
  <2>9. QED
    <3>1. ASSUME NEW k \in 1..(n + 1), NEW l \in 1..(n + 1), k < l
          PROVE  Earlier(replayed[k], replayed[l])'
      <4>1. Earlier(replayed'[k], replayed'[l])
        BY <2>7, <3>1
      <4>2. QED
        BY <2>1, <4>1, Zenon DEF Earlier
    <3>2. ASSUME NEW k \in 1..(n + 1), NEW i \in Remaining'
          PROVE  Earlier(replayed[k], i)'
      <4>1. Earlier(replayed'[k], i)
        BY <2>8
      <4>2. QED
        BY <2>1, <4>1, Zenon DEF Earlier
    <3>3. QED
      BY <2>1, <2>4, <3>1, <3>2 DEF ReplayInv
<1>5. QED
  BY <1>1, <1>2, <1>3, <1>4 DEF ReplayNext, replayVars, vars, record_race_access,
                               LogBarrier, LogFence

-----------------------------------------------------------------------------
(* The log.                                                                *)

LEMMA LogIsSeq ==
    ASSUME HistInv, ReplayInv, NEW n, n = Len(replayed)
    PROVE  /\ n \in Nat /\ DOMAIN replayed = 1..n
           /\ Log \in Seq(Call) /\ Len(Log) = n
           /\ \A k \in 1..n : /\ replayed[k] \in 1..Len(hist) /\ replayed[k] \in Nat
                              /\ Log[k] = hist[replayed[k]]
<1>1. replayed \in Seq(1..Len(hist)) /\ hist \in Seq(Call)
  BY DEF ReplayInv, HistInv
<1>2. n \in Nat /\ DOMAIN replayed = 1..n /\ \A k \in 1..n : replayed[k] \in 1..Len(hist)
  BY <1>1, LenProperties, ElementOfSeq
<1>3. \A i \in 1..Len(hist) : hist[i] \in Call
  BY <1>1, ElementOfSeq
<1>4. Log \in [1..n -> Call]
  BY <1>2, <1>3 DEF Log
<1>5. Log \in Seq(Call) /\ Len(Log) = n
  BY <1>2, <1>4
<1>6. QED
  BY <1>2, <1>5 DEF Log

\* What is left of the log is behind what was replayed, CTA by CTA.
LEMMA ReplayOrder ==
    ASSUME HistInv, ReplayInv, NEW j \in Remaining,
           \A i \in Remaining \ {j} : Earlier(j, i), NEW n, n = Len(replayed)
    PROVE  /\ \A k \in 1..n : CtaOfEvent(Log[k]) = CtaOfEvent(hist[j]) => replayed[k] < j
           /\ \A i \in 1..(j - 1) : CtaOfEvent(hist[i]) = CtaOfEvent(hist[j]) =>
                 \E k \in 1..n : replayed[k] = i
<1>1. j \in 1..Len(hist) /\ Len(hist) \in Nat
  BY DEF Remaining, HistInv
<1>2. ASSUME NEW k \in 1..n, CtaOfEvent(Log[k]) = CtaOfEvent(hist[j]) PROVE replayed[k] < j
  <2>1. Log[k] = hist[replayed[k]] /\ replayed[k] \in 1..Len(hist)
    BY LogIsSeq
  <2>2. Earlier(replayed[k], j)
    BY DEF ReplayInv
  <2>3. QED
    BY <1>1, <1>2, <2>1, <2>2, EarlierOrder
<1>3. ASSUME NEW i \in 1..(j - 1), CtaOfEvent(hist[i]) = CtaOfEvent(hist[j])
      PROVE  \E k \in 1..n : replayed[k] = i
  <2>1. i \in 1..Len(hist) /\ i < j /\ i # j
    BY <1>1
  <2>2. Earlier(i, j) /\ ~Earlier(j, i)
    BY <1>1, <1>3, <2>1, EarlierOrder
  <2>3. i \notin Remaining
    BY <2>1, <2>2
  <2>4. QED
    BY <2>1, <2>3, LogIsSeq DEF Remaining
<1>4. QED
  BY <1>2, <1>3

\* Less was replayed than logged.
LEMMA RoomLeft ==
    ASSUME HistInv, ReplayInv, NEW j \in Remaining
    PROVE  Len(replayed) < Len(hist)
<1> DEFINE n == Len(replayed)
           N == Len(hist)
           T == (1..N) \ {j}
           f == [k \in 1..n |-> replayed[k]]
<1>1. /\ n \in Nat /\ N \in Nat /\ j \in 1..N
      /\ \A k \in 1..n : replayed[k] \in 1..N /\ replayed[k] # j
  BY LogIsSeq DEF Remaining, HistInv
<1>2. \A k, l \in 1..n : replayed[k] = replayed[l] => k = l
  <2> SUFFICES ASSUME NEW k \in 1..n, NEW l \in 1..n, k < l
               PROVE  replayed[k] # replayed[l]
    BY <1>1
  <2>1. Earlier(replayed[k], replayed[l])
    BY DEF ReplayInv
  <2>2. QED
    BY <1>1, <2>1, EarlierOrder
<1>3. f \in Injection(1..n, T)
  <2>1. f \in [1..n -> T]
    BY <1>1
  <2>2. \A k, l \in 1..n : f[k] = f[l] => k = l
    BY <1>2
  <2> HIDE DEF f, T, n
  <2>3. QED
    BY <2>1, <2>2 DEF Injection, IsInjective
<1>4. /\ IsFiniteSet(1..N) /\ Cardinality(1..N) = N /\ Cardinality(1..n) = n
  <2> HIDE DEF n, N
  <2>1. n \in Int /\ N \in Int /\ 1 \in Int
    BY <1>1
  <2>2. /\ IsFiniteSet(1..N)
        /\ Cardinality(1..N) = IF 1 > N THEN 0 ELSE N - 1 + 1
        /\ Cardinality(1..n) = IF 1 > n THEN 0 ELSE n - 1 + 1
    BY <2>1, FS_Interval
  <2>3. QED
    BY <1>1, <2>2
<1> HIDE DEF f, n, N
<1>5. IsFiniteSet(T) /\ Cardinality(T) = N - 1
  BY <1>1, <1>4, FS_RemoveElement
<1> HIDE DEF T
<1>6. Cardinality(1..n) <= Cardinality(T)
  BY <1>3, <1>5, FS_Injection
<1>7. QED
  BY <1>1, <1>4, <1>5, <1>6 DEF n, N

\* The numbers of a CTA in the log are those before its next event.
LEMMA LogNumber ==
    ASSUME HistInv, ReplayInv, NEW j \in Remaining,
           \A i \in Remaining \ {j} : Earlier(j, i), NEW n, n = Len(replayed),
           hist[j].kind = "access", NEW c, c = CtaOf[hist[j].acc.actor],
           NEW m, Number(hist, j - 1, c, m)
    PROVE  Number(Log, n, c, m)
<1>1. j \in 1..Len(hist) /\ Len(hist) \in Nat /\ n \in Nat
  BY LogIsSeq DEF Remaining, HistInv
<1>2. c = CtaOfEvent(hist[j])
  BY <1>1, EventCta DEF HistInv
<1>3. \A i \in 1..Len(hist) : AccessOf(hist, i, c) => CtaOfEvent(hist[i]) = c
  BY EventCta DEF HistInv, AccessOf
<1>4. ASSUME NEW k \in 1..n, AccessOf(Log, k, c) PROVE Log[k].acc.instruction \in 0..m
  <2>1. replayed[k] \in 1..Len(hist) /\ Log[k] = hist[replayed[k]]
    BY LogIsSeq
  <2>2. AccessOf(hist, replayed[k], c)
    BY <1>4, <2>1 DEF AccessOf
  <2>3. replayed[k] \in 1..(j - 1)
    BY <1>1, <1>2, <1>3, <2>1, <2>2, ReplayOrder
  <2>4. QED
    BY <2>1, <2>2, <2>3 DEF Number
<1>5. ASSUME m # 0
      PROVE  \E k \in 1..n : AccessOf(Log, k, c) /\ Log[k].acc.instruction = m
  <2>1. PICK i \in 1..(j - 1) : AccessOf(hist, i, c) /\ hist[i].acc.instruction = m
    BY <1>5 DEF Number
  <2>2. CtaOfEvent(hist[i]) = CtaOfEvent(hist[j])
    BY <1>1, <1>2, <1>3, <2>1
  <2>3. PICK k \in 1..n : replayed[k] = i
    BY <2>2, ReplayOrder
  <2>4. Log[k] = hist[i]
    BY <2>3, LogIsSeq
  <2>5. QED
    BY <2>1, <2>4 DEF AccessOf
<1>6. QED
  BY <1>4, <1>5 DEF Number

LEMMA NumberUnique ==
    ASSUME NEW h, NEW n, NEW c, NEW m, NEW p, Number(h, n, c, m), Number(h, n, c, p)
    PROVE  m = p
<1>1. m \in Nat /\ p \in Nat
  BY DEF Number
<1>2. m <= p
  BY <1>1 DEF Number
<1>3. p <= m
  BY <1>1 DEF Number
<1>4. QED
  BY <1>1, <1>2, <1>3

LEMMA NumberingUnique ==
    ASSUME NEW h, NEW f, NEW g, Numbering(f, h), Numbering(g, h)
    PROVE  f = g
<1>1. \A c \in Ctas : f[c] = g[c]
  BY NumberUnique DEF Numbering
<1>2. QED
  BY <1>1 DEF Numbering

\* The log grows by the event replayed, and by nothing else.
LEMMA LogGrows ==
    ASSUME HistInv, ReplayInv, NEW j \in Remaining, replayed' = Append(replayed, j),
           hist' = hist, NEW n, n = Len(replayed), NEW e, e = hist[j]
    PROVE  /\ Log' = Append(Log, e) /\ Len(Log') = n + 1
           /\ \A k \in 1..n : Log'[k] = Log[k]
           /\ Log'[n + 1] = e
<1>1. j \in 1..Len(hist) /\ e \in Call
  BY ElementOfSeq DEF Remaining, HistInv
<1>2. /\ n \in Nat /\ Log \in Seq(Call) /\ Len(Log) = n
      /\ \A k \in 1..n : Log[k] = hist[replayed[k]]
  BY LogIsSeq
<1>3. /\ \A k \in 1..n : replayed'[k] = replayed[k]
      /\ replayed'[n + 1] = j
      /\ 1..(n + 1) = (1..n) \cup {n + 1}
      /\ DOMAIN replayed' = 1..(n + 1)
  BY <1>1, AppendReplayed DEF ReplayInv
<1> DEFINE g == Append(Log, e)
<1>4. /\ g \in Seq(Call) /\ Len(g) = n + 1 /\ g[n + 1] = e
      /\ \A k \in 1..n : g[k] = Log[k]
  BY <1>1, <1>2, AppendProperties
<1>5. g \in [1..(n + 1) -> Call]
  BY <1>4, LenProperties
<1>6. \A k \in 1..(n + 1) : hist'[replayed'[k]] = g[k]
  BY <1>2, <1>3, <1>4
<1>7. Log' = [k \in 1..(n + 1) |-> hist'[replayed'[k]]]
  BY <1>3 DEF Log
<1> HIDE DEF g
<1>8. Log' = g
  BY <1>5, <1>6, <1>7
<1>9. QED
  BY <1>4, <1>8 DEF g

CInv == Numbering(Counted, Log)

LEMMA CountedIs ==
    ASSUME NEW f, NEW h, Numbering(f, h)
    PROVE  f = CHOOSE g : Numbering(g, h)
<1>1. Numbering(CHOOSE g : Numbering(g, h), h)
  OBVIOUS
<1>2. QED
  BY <1>1, NumberingUnique

LEMMA CountedNext ==
    ASSUME NEW f, Numbering(f, Log')
    PROVE  Counted' = f /\ CInv'
<1>1. Numbering(CHOOSE g : Numbering(g, Log'), Log')
  OBVIOUS
<1>2. Counted' = CHOOSE g : Numbering(g, Log')
  BY DEF Counted, Numbering, Number, AccessOf
<1>3. Numbering(Counted', Log')
  BY <1>1, <1>2
<1>4. Counted' = f
  BY <1>3, NumberingUnique
<1>5. CInv'
  BY <1>3 DEF CInv, Numbering, Number, AccessOf
<1>6. QED
  BY <1>4, <1>5

\* The next access has the number that the log gives it.
LEMMA AccessCounted ==
    ASSUME HistInv, ReplayInv, CInv, NEW j \in Remaining,
           \A i \in Remaining \ {j} : Earlier(j, i), hist[j].kind = "access",
           replayed' = Append(replayed, j), hist' = hist,
           NEW c, c = CtaOf[hist[j].acc.actor],
           NEW n, n = hist[j].acc.instruction
    PROVE  /\ \/ n = Counted[c] + 1
              \/ n = Counted[c] /\ GoesOn(hist, j)
           /\ Counted' = [Counted EXCEPT ![c] = n]
           /\ CInv'
<1>1. PICK z : z = Len(replayed)
  OBVIOUS
<1>2. j \in Accesses /\ j \in 1..Len(hist)
  BY DEF Accesses, Remaining
<1>3. PICK m : /\ Number(hist, j - 1, c, m)
               /\ n = m + 1 \/ (n = m /\ GoesOn(hist, j))
  BY <1>2 DEF HistInv, Follows
<1>4. z \in Nat /\ Len(Log) = z
  BY <1>1, LogIsSeq
<1>5. c \in Ctas
  BY <1>2, EventCta DEF HistInv
<1>6. Number(Log, z, c, m) /\ m \in Nat
  <2>1. Number(hist, j - 1, c, m) /\ z = Len(replayed)
    BY <1>1, <1>3
  <2>2. Number(Log, z, c, m)
    BY <2>1, LogNumber
  <2>3. QED
    BY <2>2 DEF Number
<1>7. Counted[c] = m /\ Counted \in [Ctas -> Nat]
  BY <1>4, <1>5, <1>6, NumberUnique DEF CInv, Numbering
<1>8. /\ Len(Log') = z + 1 /\ Log'[z + 1] = hist[j]
      /\ \A k \in 1..z : Log'[k] = Log[k]
  BY <1>1, LogGrows
<1> DEFINE f == [Counted EXCEPT ![c] = n]
<1>9. f \in [Ctas -> Nat] /\ f[c] = n /\ \A d \in Ctas : d # c => f[d] = Counted[d]
  BY <1>3, <1>5, <1>6, <1>7
<1> HIDE DEF f
<1>10. ASSUME NEW d \in Ctas PROVE Number(Log', z + 1, d, f[d])
  <2>1. Number(Log', z, d, Counted[d])
    BY <1>4, <1>8, NumberSame DEF CInv, Numbering
  <2>2. CASE d = c
    <3>1. AccessOf(Log', z + 1, d) /\ Log'[z + 1].acc.instruction = n
      BY <1>8, <2>2 DEF AccessOf
    <3>2. Log'[z + 1].acc.instruction \in {Counted[d], Counted[d] + 1}
      BY <1>3, <1>7, <2>2, <3>1
    <3>3. Number(Log', z + 1, d, n)
      BY <1>4, <2>1, <3>1, <3>2, NumberGrows
    <3>4. QED
      BY <1>9, <2>2, <3>3
  <2>3. CASE d # c
    <3>1. ~AccessOf(Log', z + 1, d)
      BY <1>8, <2>3 DEF AccessOf
    <3>2. QED
      BY <1>4, <1>9, <2>1, <2>3, <3>1, NumberGrows
  <2>4. QED
    BY <2>2, <2>3
<1>11. Numbering(f, Log')
  BY <1>8, <1>9, <1>10 DEF Numbering
<1>12. Counted' = f /\ CInv'
  BY <1>11, CountedNext
<1>14. QED
  BY <1>3, <1>7, <1>12 DEF f

\* No other event changes the numbers.
LEMMA QuietCounted ==
    ASSUME HistInv, ReplayInv, CInv, NEW j \in Remaining, hist[j].kind # "access",
           replayed' = Append(replayed, j), hist' = hist
    PROVE  Counted' = Counted /\ CInv'
<1>1. PICK z : z = Len(replayed)
  OBVIOUS
<1>2. z \in Nat /\ Len(Log) = z
  BY <1>1, LogIsSeq
<1>3. /\ Len(Log') = z + 1 /\ Log'[z + 1] = hist[j]
      /\ \A k \in 1..z : Log'[k] = Log[k]
  BY <1>1, LogGrows
<1>4. Counted \in [Ctas -> Nat]
  BY DEF CInv, Numbering
<1>5. ASSUME NEW d \in Ctas PROVE Number(Log', z + 1, d, Counted[d])
  <2>1. Number(Log', z, d, Counted[d])
    BY <1>2, <1>3, NumberSame DEF CInv, Numbering
  <2>2. ~AccessOf(Log', z + 1, d)
    BY <1>3 DEF AccessOf
  <2>3. QED
    BY <1>2, <2>1, <2>2, NumberGrows
<1>6. PICK f : f = Counted
  OBVIOUS
<1>7. Numbering(f, Log')
  BY <1>3, <1>4, <1>5, <1>6 DEF Numbering
<1>8. Counted' = f /\ CInv'
  BY <1>7, CountedNext
<1>9. QED
  BY <1>6, <1>8

LEMMA LogKept ==
    ASSUME CInv, Log' = Log
    PROVE  Counted' = Counted /\ CInv'
<1>1. PICK f : f = Counted
  OBVIOUS
<1>2. Numbering(f, Log')
  BY <1>1 DEF CInv
<1>3. Counted' = f /\ CInv'
  BY <1>2, CountedNext
<1>4. QED
  BY <1>1, <1>3

\* The event replayed is a call of the detector in the order of the log.
LEMMA DirectRunning ==
    ASSUME HistInv, ReplayInv
    PROVE  \A c : Direct!Running(c)
<1>1. ASSUME NEW k \in 1..Len(Log) PROVE Log[k].kind # "reclaim_cta"
  <2>1. Log[k] = hist[replayed[k]] /\ replayed[k] \in 1..Len(hist)
    BY LogIsSeq
  <2>2. QED
    BY <2>1, EventCta DEF HistInv
<1>2. QED
  BY <1>1 DEF Direct!Running, Direct!SinceLaunch

LEMMA DirectCalled ==
    ASSUME HistInv, ReplayInv, NEW j \in Remaining, replayed' = Append(replayed, j),
           hist' = hist, use' = use
    PROVE  Direct!Called(hist[j])
<1>1. PICK z : z = Len(replayed)
  OBVIOUS
<1>2. /\ z \in Nat /\ Len(Log) = z /\ z < Len(hist)
      /\ Len(hist) \in Nat /\ Len(hist) <= use.events /\ use.events \in Nat
  BY <1>1, LogIsSeq, RoomLeft, RaceAssumption DEF HistInv
<1>3. Log' = Append(Log, hist[j])
  BY <1>1, LogGrows
<1>4. hist[j].kind \in use.kinds \cup {"access"}
  BY DEF HistInv, Eventful, Remaining
<1>5. QED
  BY <1>2, <1>3, <1>4 DEF Direct!Called

LEMMA DirectAccess ==
    ASSUME HistInv, ReplayInv, CInv, NEW j \in Remaining,
           \A i \in Remaining \ {j} : Earlier(j, i), hist[j].kind = "access",
           replayed' = Append(replayed, j), hist' = hist, use' = use, Dispatch(hist[j])
    PROVE  /\ CInv'
           /\ \E a \in Lane, o \in use.ops : Direct!Observe(a, o) \/ Direct!AtomicRmw(a, o)
<1>1. PICK a \in Lane, o \in use.ops, n \in Nat :
        hist[j] = [kind |-> "access", acc |-> MakeAccess(a, n, o)]
  <2>1. Eventful(hist[j])
    BY DEF HistInv, Remaining
  <2>2. PICK e : e = hist[j]
    OBVIOUS
  <2>3. \A ws : e # [kind |-> "barrier", warps |-> ws]
    <3>1. e.kind = "access"
      BY <2>2
    <3>2. QED
      BY <3>1
  <2>4. \A ws : e # [kind |-> "fence", warps |-> ws]
    <3>1. e.kind = "access"
      BY <2>2
    <3>2. QED
      BY <3>1
  <2>5. Eventful(e)
    BY <2>1, <2>2
  <2>6. \E a \in Lane, o \in use.ops, n \in Nat :
           e = [kind |-> "access", acc |-> MakeAccess(a, n, o)]
    BY <2>3, <2>4, <2>5 DEF Eventful
  <2>7. QED
    BY <2>2, <2>6
<1> DEFINE acc == MakeAccess(a, n, o)
           c == CtaOf[a]
<1>2. /\ acc.actor = a /\ acc.instruction = n
      /\ acc.is_write = o.is_write /\ acc.is_atomic = o.is_atomic
      /\ acc.mem_order = o.mem_order /\ acc.scope = o.scope /\ acc.space = o.space
      /\ hist[j].acc = acc
  BY <1>1 DEF MakeAccess
<1>3. acc = Direct!MakeAccess(a, n, o)
  <2> HIDE DEF acc
  <2>1. acc = MakeAccess(a, n, o)
    BY DEF acc
  <2>2. QED
    BY <2>1 DEF MakeAccess, Direct!MakeAccess
<1>4. j \in 1..Len(hist) /\ j \in Accesses /\ Len(hist) \in Nat
  BY DEF Remaining, Accesses, HistInv
<1>5. c = CtaOfEvent(hist[j])
  BY <1>2, <1>4, EventCta DEF HistInv
<1> HIDE DEF acc
<1>6. PICK z : z = Len(replayed)
  OBVIOUS
<1>7. /\ z \in Nat /\ Len(Log) = z /\ Log \in Seq(Call)
      /\ \A k \in 1..z : /\ Log[k] = hist[replayed[k]]
                         /\ replayed[k] \in 1..Len(hist) /\ replayed[k] \in Nat
  BY <1>6, LogIsSeq
<1>8. /\ n = Counted[c] + 1 \/ (n = Counted[c] /\ GoesOn(hist, j))
      /\ Counted' = [Counted EXCEPT ![c] = n]
      /\ CInv'
  BY <1>2, AccessCounted
<1>9. n \in Direct!Instructions(a, o)
  <2>1. CASE n = Counted[c] /\ GoesOn(hist, j)
    <3>1. /\ j - 1 \in 1..Len(hist) /\ j - 1 \in 1..(j - 1)
          /\ hist[j - 1].kind = "access"
          /\ WarpOf[hist[j - 1].acc.actor] = WarpOf[a]
          /\ hist[j - 1].acc.is_write = o.is_write
          /\ hist[j - 1].acc.is_atomic = o.is_atomic
          /\ hist[j - 1].acc.mem_order = o.mem_order
          /\ hist[j - 1].acc.scope = o.scope
          /\ hist[j - 1].acc.space = o.space
          /\ \A k \in 1..(j - 1) :
               hist[k].kind = "access" /\ hist[k].acc.instruction = n
                 => hist[k].acc.actor # a
      BY <1>2, <1>4, <2>1 DEF GoesOn
    <3>2. CtaOfEvent(hist[j - 1]) = CtaOfEvent(hist[j])
      BY <1>5, <3>1, EventCta, RaceAssumption DEF HistInv
    <3>3. PICK k \in 1..z : replayed[k] = j - 1
      BY <1>6, <3>1, <3>2, ReplayOrder, SMTT(30)
    <3>4. k = z
      <4> SUFFICES ASSUME k # z PROVE FALSE
        OBVIOUS
      <4>1. z \in 1..z /\ k < z /\ z \in 1..Len(replayed) /\ k \in 1..Len(replayed)
        BY <1>6, <1>7
      <4>2. Earlier(j - 1, replayed[z]) /\ Earlier(replayed[z], j)
        BY <3>3, <4>1 DEF ReplayInv
      <4>3. PICK i \in 1..Len(hist) : i = replayed[z]
        BY <1>7, <4>1
      <4>4. CtaOfEvent(hist[i]) = CtaOfEvent(hist[j])
        <5>1. /\ CtaOfEvent(hist[i]) \in Nat /\ CtaOfEvent(hist[j]) \in Nat
              /\ CtaOfEvent(hist[j - 1]) \in Nat
          BY <1>4, <3>1, <4>3, EventCta DEF HistInv
        <5>2. QED
          BY <3>2, <4>2, <4>3, <5>1 DEF Earlier
      <4>5. j - 1 < i /\ i < j
        BY <1>4, <3>1, <3>2, <4>2, <4>3, <4>4, EarlierOrder
      <4>6. QED
        BY <1>4, <4>3, <4>5
    <3>5. Log[Len(Log)] = hist[j - 1] /\ Log # <<>>
      BY <1>7, <3>3, <3>4, EmptySeq
    <3>6. ASSUME NEW i \in Direct!Accesses, Log[i].acc.instruction = n
          PROVE  Log[i].acc.actor # a
      <4> SUFFICES ASSUME Log[i].acc.actor = a PROVE FALSE
        OBVIOUS
      <4>1. i \in 1..z /\ Log[i].kind = "access"
        BY <1>7 DEF Direct!Accesses
      <4>2. Log[i] = hist[replayed[i]] /\ replayed[i] \in 1..Len(hist)
        BY <1>7, <4>1
      <4>3. CtaOfEvent(Log[i]) = CtaOfEvent(hist[j])
        BY <1>5, <4>1, <4>2, EventCta DEF HistInv
      <4>4. replayed[i] \in 1..(j - 1)
        BY <1>4, <1>6, <4>1, <4>2, <4>3, ReplayOrder, SMTT(30)
      <4>5. QED
        BY <3>1, <3>6, <4>1, <4>2, <4>4
    <3>7. QED
      BY <1>8, <2>1, <3>1, <3>5, <3>6 DEF Direct!Instructions
  <2>2. CASE n = Counted[c] + 1
    BY <2>2 DEF Direct!Instructions
  <2>3. QED
    BY <1>8, <2>1, <2>2
<1>10. Direct!Called([kind |-> "access", acc |-> Direct!MakeAccess(a, n, o)])
  BY <1>1, <1>3, DirectCalled DEF acc
<1>11. Direct!Running(CtaOf[a])
  BY DirectRunning
<1>12. CASE ~o.is_atomic
  <2>1. observe(acc)
    BY <1>1, <1>2, <1>12 DEF Dispatch
  <2>2. Direct!observe(Direct!MakeAccess(a, n, o))
    BY <1>3, <2>1, SameObserve
  <2>3. Direct!Observe(a, o)
    BY <1>8, <1>9, <1>10, <1>11, <1>12, <2>2 DEF Direct!Observe
  <2>4. QED
    BY <1>8, <2>3
<1>13. CASE o.is_atomic
  <2>1. atomic_rmw(acc)
    BY <1>1, <1>2, <1>13 DEF Dispatch
  <2>2. Direct!atomic_rmw(Direct!MakeAccess(a, n, o))
    BY <1>3, <2>1, SameAtomicRmw
  <2>3. Direct!AtomicRmw(a, o)
    BY <1>8, <1>9, <1>10, <1>11, <1>13, <2>2 DEF Direct!AtomicRmw
  <2>4. QED
    BY <1>8, <2>3
<1>14. QED
  BY <1>12, <1>13

LEMMA DirectQuiet ==
    ASSUME HistInv, ReplayInv, CInv, NEW j \in Remaining, hist[j].kind # "access",
           replayed' = Append(replayed, j), hist' = hist, use' = use, Dispatch(hist[j])
    PROVE  /\ CInv'
           /\ \/ \E c \in Ctas, ws \in BarrierSets : Direct!Barrier(c, ws)
              \/ \E w \in Warps : Direct!Fence(w)
<1>1. Counted' = Counted /\ CInv'
  BY QuietCounted
<1>2. PICK e : e = hist[j]
  OBVIOUS
<1>3. Direct!Called(e) /\ Dispatch(e) /\ e.kind # "access"
  BY <1>2, DirectCalled
<1>4. Eventful(e)
  BY <1>2 DEF HistInv, Remaining
<1>5. \A acc : e # [kind |-> "access", acc |-> acc]
  BY <1>3
<1>6. CASE \E c \in Ctas, ws \in BarrierSets :
             Meet(c, ws) /\ e = [kind |-> "barrier", warps |-> ws]
  <2>1. PICK c \in Ctas, ws \in BarrierSets :
               Meet(c, ws) /\ e = [kind |-> "barrier", warps |-> ws]
    BY <1>6
  <2>2. e.kind = "barrier" /\ e.warps = ws
    BY <2>1
  <2>3. Direct!cta_barrier(ws)
    BY <1>3, <2>2, SameBarrier DEF Dispatch
  <2>4. Direct!Meet(c, ws) /\ Direct!Running(c)
    BY <2>1, DirectRunning DEF Meet, Direct!Meet
  <2>5. Direct!Barrier(c, ws)
    BY <1>1, <1>3, <2>1, <2>3, <2>4 DEF Direct!Barrier
  <2>6. QED
    BY <1>1, <2>5
<1>7. CASE \E w \in Warps : e = [kind |-> "fence", warps |-> {w}]
  <2>1. PICK w \in Warps : e = [kind |-> "fence", warps |-> {w}]
    BY <1>7
  <2>2. Direct!fence
    <3>1. e.kind = "fence"
      BY <2>1
    <3>2. QED
      BY <1>3, <3>1, SameFence DEF Dispatch
  <2>3. Direct!Fence(w)
    BY <1>1, <1>3, <2>1, <2>2, DirectRunning DEF Direct!Fence
  <2>4. QED
    BY <1>1, <2>3
<1>8. QED
  BY <1>4, <1>5, <1>6, <1>7 DEF Eventful

LEMMA DirectStep ==
    ASSUME HistInv, ReplayInv, CInv, [ReplayNext]_replayVars
    PROVE  CInv' /\ [Direct!Next]_(Direct!vars)
<1>1. CASE replay_race_log
  <2>1. PICK j \in Remaining : /\ \A i \in Remaining \ {j} : Earlier(j, i)
                               /\ Dispatch(hist[j])
                               /\ replayed' = Append(replayed, j)
                               /\ hist' = hist /\ use' = use
    BY <1>1 DEF replay_race_log
  <2>2. CASE hist[j].kind = "access"
    <3>1. CInv' /\ \E a \in Lane, o \in use.ops : Direct!Observe(a, o) \/ Direct!AtomicRmw(a, o)
      BY <2>1, <2>2, DirectAccess
    <3>2. QED
      BY <3>1 DEF Direct!Next
  <2>3. CASE hist[j].kind # "access"
    <3>1. /\ CInv'
          /\ \/ \E c \in Ctas, ws \in BarrierSets : Direct!Barrier(c, ws)
             \/ \E w \in Warps : Direct!Fence(w)
      BY <2>1, <2>3, DirectQuiet
    <3>2. Direct!Ctas = Ctas /\ Direct!Warps = Warps
      BY DEF Ctas, Direct!Ctas, Warps, Direct!Warps
    <3>3. QED
      BY <3>1, <3>2 DEF Direct!Next
  <2>4. QED
    BY <2>2, <2>3
<1>2. ASSUME UNCHANGED <<detector, use>>, Log' = Log
      PROVE  CInv' /\ [Direct!Next]_(Direct!vars)
  <2>1. CInv' /\ Counted' = Counted
    BY <1>2, LogKept
  <2>2. UNCHANGED (Direct!detector)
    BY <1>2 DEF detector, Direct!detector
  <2>3. QED
    BY <1>2, <2>1, <2>2 DEF Direct!vars
<1>3. CASE Join
  BY <1>2, <1>3 DEF Join, vars, Log
<1>4. CASE UNCHANGED replayVars
  BY <1>2, <1>4 DEF replayVars, vars, Log
<1>5. ASSUME NEW e, Logged(e) PROVE UNCHANGED <<detector, use>> /\ Log' = Log
  <2>1. replayed = <<>> /\ replayed' = <<>> /\ DOMAIN <<>> = {}
    BY <1>5 DEF Logged, ReplayInv
  <2>2. Log' = Log
    BY <2>1 DEF Log
  <2>3. QED
    BY <1>5, <2>2 DEF Logged, Called
<1>6. QED
  BY <1>1, <1>2, <1>3, <1>4, <1>5 DEF ReplayNext, record_race_access, LogBarrier, LogFence

LEMMA DirectInit ==
    ASSUME ReplayInit
    PROVE  HistInv /\ ReplayInv /\ CInv /\ Direct!Init
<1>1. replayed = <<>> /\ hist = <<>> /\ Len(<<>>) = 0 /\ DOMAIN <<>> = {} /\ 1..0 = {}
  BY DEF ReplayInit, Init
<1>2. Log = <<>>
  BY <1>1 DEF Log
<1>3. PICK f : f = [c \in Ctas |-> 0]
  OBVIOUS
<1>4. Numbering(f, <<>>)
  BY <1>1, <1>3 DEF Numbering, Number
<1>5. HistInv
  <2>1. use \in Uses /\ use.events \in Nat /\ <<>> \in Seq(Call)
    BY RaceAssumption DEF ReplayInit, Init
  <2>2. executed = f /\ generations \in [Alloc -> Nat]
    BY <1>3 DEF ReplayInit, Init
  <2>3. QED
    BY <1>1, <1>4, <2>1, <2>2 DEF HistInv, Accesses
<1>6. ReplayInv
  BY <1>1 DEF ReplayInv
<1>7. CInv /\ Counted = f
  BY <1>2, <1>4, CountedIs DEF CInv, Counted
<1>8. Direct!Init
  <2>1. Direct!Ctas = Ctas /\ Direct!Bottom = Bottom
    BY DEF Ctas, Direct!Ctas, Bottom, Direct!Bottom
  <2>2. QED
    BY <1>2, <1>3, <1>7, <2>1 DEF ReplayInit, Init, Direct!Init
<1>9. QED
  BY <1>5, <1>6, <1>7, <1>8

\* Whatever order the workers execute in, what the detector sees of the sorted log
\* is a sequence of calls that RaceHistory allows: each CTA's events in their order,
\* its instructions numbered one after the other.
THEOREM ReplayIsARun == ReplaySpec => Direct!Spec
<1>1. HistInv /\ ReplayInv /\ CInv /\ [ReplayNext]_replayVars
        => (HistInv /\ ReplayInv /\ CInv)' /\ [Direct!Next]_(Direct!vars)
  BY ExecutionStep, ReplayStep, DirectStep
<1>2. ReplayInit => HistInv /\ ReplayInv /\ CInv /\ Direct!Init
  BY DirectInit
<1>3. QED
  BY <1>1, <1>2, PTL DEF ReplaySpec, Direct!Spec

-----------------------------------------------------------------------------
(* The order of the execution and the order of the log.                    *)

LEMMA SameOrder ==
    /\ \A d, e : DirectlyBefore(d, e) <=> Direct!DirectlyBefore(d, e)
    /\ \A d, e : LaneBefore(d, e) <=> Direct!LaneBefore(d, e)
    /\ \A h, i, j : HappensBefore(h, i, j) <=> Direct!HappensBefore(h, i, j)
    /\ \A h, i, j : Ordered(h, i, j) <=> Direct!Ordered(h, i, j)
<1>1. \A d, e : SynchronizesWith(d, e) <=> Direct!SynchronizesWith(d, e)
  BY DEF SynchronizesWith, Direct!SynchronizesWith,
         SyncOp, Direct!SyncOp, key_of, Direct!key_of, Domain, Direct!Domain,
         classify_order_scope, Direct!classify_order_scope, KnownScope, Direct!KnownScope,
         is_release_order, Direct!is_release_order, is_acquire_order, Direct!is_acquire_order,
         MorallyStrong, Direct!MorallyStrong, scope_visible, Direct!scope_visible
<1>2. \A d, e : DirectlyBefore(d, e) <=> Direct!DirectlyBefore(d, e)
  BY <1>1 DEF DirectlyBefore, Direct!DirectlyBefore, Participants, Direct!Participants,
         SameInstruction, Direct!SameInstruction
<1>3. \A d, e : LaneBefore(d, e) <=> Direct!LaneBefore(d, e)
  BY <1>1 DEF LaneBefore, Direct!LaneBefore, Acts, Direct!Acts
<1>4. \A h, i, j : HappensBefore(h, i, j) <=> Direct!HappensBefore(h, i, j)
  BY <1>2, Zenon DEF HappensBefore, Direct!HappensBefore
<1>5. \A h, i, S : Sealed(h, i, S) <=> Direct!Sealed(h, i, S)
  BY <1>3, Zenon DEF Sealed, Direct!Sealed
<1>6. \A h, i, j : LaneOrdered(h, i, j) <=> Direct!LaneOrdered(h, i, j)
  BY <1>5, Zenon DEF LaneOrdered, Direct!LaneOrdered
<1>7. \A h, i, j : Ordered(h, i, j) <=> Direct!Ordered(h, i, j)
  BY <1>6, Zenon DEF Ordered, Direct!Ordered, WarpOrdered, Direct!WarpOrdered
<1>8. QED
  BY <1>2, <1>3, <1>4, <1>7

\* What comes directly after an event belongs to its CTA, or acquires what it released.
LEMMA EdgeCta ==
    ASSUME HistInv, NEW i \in 1..Len(hist), NEW j \in 1..Len(hist),
           DirectlyBefore(hist[i], hist[j]) \/ LaneBefore(hist[i], hist[j])
    PROVE  \/ CtaOfEvent(hist[i]) = CtaOfEvent(hist[j])
           \/ /\ i \in Accesses /\ j \in Accesses
              /\ SynchronizesWith(hist[i], hist[j])
<1>1. PICK d, e : d = hist[i] /\ e = hist[j]
  OBVIOUS
<1>2. Eventful(d) /\ Eventful(e)
  BY <1>1 DEF HistInv
<1>3. /\ d.kind \in {"access", "barrier", "fence"} /\ e.kind \in {"access", "barrier", "fence"}
      /\ \A a \in Lane : WarpOf[a] \in Participants(d) => CtaOf[a] = CtaOfEvent(d)
      /\ \A a \in Lane : WarpOf[a] \in Participants(e) => CtaOf[a] = CtaOfEvent(e)
      /\ \A w \in Participants(d) : \E a \in Lane : WarpOf[a] = w
  BY <1>2, EventCta
<1>4. CASE Participants(d) \cap Participants(e) # {}
  BY <1>1, <1>3, <1>4
<1>5. CASE SynchronizesWith(d, e)
  BY <1>1, <1>5 DEF SynchronizesWith, Accesses
<1>6. CASE \E a \in Lane : Acts(a, d) /\ Acts(a, e)
  <2>1. PICK a \in Lane : Acts(a, d) /\ Acts(a, e)
    BY <1>6
  <2>2. WarpOf[a] \in Participants(d) /\ WarpOf[a] \in Participants(e)
    BY <2>1 DEF Acts, Participants
  <2>3. QED
    BY <1>1, <1>3, <2>2
<1>7. QED
  BY <1>1, <1>3, <1>4, <1>5, <1>6 DEF DirectlyBefore, LaneBefore

\* The log keeps what the execution orders, and adds nothing to it.
LEMMA EdgeLogged ==
    ASSUME HistInv, ReleasesInCtaOrder, NEW i \in 1..Len(hist), NEW j \in 1..Len(hist),
           i < j, LaneBefore(hist[i], hist[j])
    PROVE  Earlier(i, j)
<1>1. CtaOfEvent(hist[i]) \in Nat /\ CtaOfEvent(hist[j]) \in Nat
  BY EventCta DEF HistInv
<1>2. CtaOfEvent(hist[i]) <= CtaOfEvent(hist[j])
  BY <1>1, EdgeCta DEF ReleasesInCtaOrder
<1>3. QED
  BY <1>1, <1>2 DEF Earlier

LEMMA EdgeExecuted ==
    ASSUME HistInv, AcquiresInCtaOrder, NEW i \in 1..Len(hist), NEW j \in 1..Len(hist),
           Earlier(i, j), DirectlyBefore(hist[i], hist[j])
    PROVE  i < j
<1>1. CtaOfEvent(hist[i]) \in Nat /\ CtaOfEvent(hist[j]) \in Nat
  BY EventCta DEF HistInv
<1>2. CASE CtaOfEvent(hist[i]) = CtaOfEvent(hist[j])
  BY <1>1, <1>2 DEF Earlier
<1>3. CASE CtaOfEvent(hist[i]) # CtaOfEvent(hist[j])
  BY <1>3, EdgeCta DEF Earlier, AcquiresInCtaOrder
<1>4. QED
  BY <1>2, <1>3

LEMMA BeforeIsForward ==
    ASSUME HistInv, NEW i \in 1..Len(hist), NEW j, HappensBefore(hist, i, j)
    PROVE  j \in (i + 1)..Len(hist)
<1> DEFINE S == (i + 1)..Len(hist)
<1>1. Len(hist) \in Nat
  BY DEF HistInv
<1>2. Closed(hist, i, S)
  BY <1>1 DEF Closed
<1>3. QED
  BY <1>2, ClosedForm

\* The positions of the log.
LEMMA LogOnce ==
    ASSUME HistInv, ReplayInv, NEW k \in 1..Len(replayed), NEW l \in 1..Len(replayed)
    PROVE  /\ k < l <=> Earlier(replayed[k], replayed[l])
           /\ k = l <=> replayed[k] = replayed[l]
<1>1. /\ k \in Nat /\ l \in Nat
      /\ replayed[k] \in 1..Len(hist) /\ replayed[l] \in 1..Len(hist)
  BY LogIsSeq
<1>2. /\ k < l => Earlier(replayed[k], replayed[l])
      /\ l < k => Earlier(replayed[l], replayed[k])
  BY DEF ReplayInv
<1>3. QED
  BY <1>1, <1>2, EarlierOrder

\* What is before a replayed event in the log is replayed.
LEMMA LoggedFirst ==
    ASSUME HistInv, ReplayInv, NEW q \in 1..Len(replayed), NEW x \in 1..Len(hist),
           Earlier(x, replayed[q])
    PROVE  \E p \in 1..Len(replayed) : replayed[p] = x /\ p < q
<1>1. DOMAIN replayed = 1..Len(replayed) /\ replayed[q] \in 1..Len(hist)
  BY LogIsSeq
<1>2. x \notin Remaining
  <2> SUFFICES ASSUME x \in Remaining PROVE FALSE
    OBVIOUS
  <2>1. Earlier(replayed[q], x)
    BY DEF ReplayInv
  <2>2. QED
    BY <1>1, <2>1, EarlierOrder
<1>3. PICK p \in 1..Len(replayed) : replayed[p] = x
  BY <1>1, <1>2 DEF Remaining
<1>4. QED
  BY <1>3, LogOnce

LEMMA LoggedBefore ==
    ASSUME HistInv, ReplayInv, ReleasesInCtaOrder,
           NEW k \in 1..Len(replayed), NEW l \in 1..Len(replayed),
           LaneOrdered(hist, replayed[k], replayed[l])
    PROVE  LaneOrdered(Log, k, l)
<1> DEFINE n == Len(replayed)
           N == Len(hist)
<1>1. /\ n \in Nat /\ Len(Log) = n /\ N \in Nat
      /\ \A q \in 1..n : /\ replayed[q] \in 1..N /\ replayed[q] \in Nat
                         /\ Log[q] = hist[replayed[q]]
  BY LogIsSeq DEF HistInv
<1> SUFFICES ASSUME NEW S \in SUBSET ((k + 1)..Len(Log)), Sealed(Log, k, S) PROVE l \in S
  BY DEF LaneOrdered
<1> DEFINE T == {m \in (replayed[k] + 1)..N : \A q \in 1..n : replayed[q] = m => q \in S}
<1>2. ASSUME NEW x \in T \cup {replayed[k]}, NEW y \in (x + 1)..N,
             LaneBefore(hist[x], hist[y])
      PROVE  y \in T
  <2>1. /\ x \in 1..N /\ y \in 1..N /\ x < y /\ y \in (replayed[k] + 1)..N
        /\ x \in Nat /\ y \in Nat
    BY <1>1
  <2>2. Earlier(x, y)
    BY <1>2, <2>1, EdgeLogged
  <2>3. ASSUME NEW q \in 1..n, replayed[q] = y PROVE q \in S
    <3>1. PICK p \in 1..n : replayed[p] = x /\ p < q
      BY <2>1, <2>2, <2>3, LoggedFirst
    <3>2. p \in S \cup {k}
      BY <3>1, LogOnce
    <3>3. LaneBefore(Log[p], Log[q])
      BY <1>1, <1>2, <2>3, <3>1
    <3>4. q \in (p + 1)..Len(Log)
      BY <1>1, <3>1
    <3>5. QED
      BY <3>2, <3>3, <3>4 DEF Sealed
  <2>4. QED
    BY <2>1, <2>3
<1>3. Sealed(hist, replayed[k], T)
  BY <1>2 DEF Sealed
<1>4. T \in SUBSET ((replayed[k] + 1)..N)
  OBVIOUS
<1>5. replayed[l] \in T
  <2> HIDE DEF T
  <2> QED
    BY <1>3, <1>4 DEF LaneOrdered
<1>6. QED
  BY <1>5

LEMMA ExecutedBefore ==
    ASSUME HistInv, ReplayInv, AcquiresInCtaOrder,
           NEW k \in 1..Len(replayed), NEW l \in 1..Len(replayed), HappensBefore(Log, k, l)
    PROVE  HappensBefore(hist, replayed[k], replayed[l])
<1> DEFINE n == Len(replayed)
           N == Len(hist)
<1>1. /\ n \in Nat /\ Len(Log) = n /\ N \in Nat
      /\ \A q \in 1..n : /\ replayed[q] \in 1..N /\ replayed[q] \in Nat
                         /\ Log[q] = hist[replayed[q]]
  BY LogIsSeq DEF HistInv
<1> SUFFICES ASSUME NEW T \in SUBSET ((replayed[k] + 1)..N), Closed(hist, replayed[k], T)
             PROVE  replayed[l] \in T
  BY ClosedForm
<1> DEFINE S == {q \in (k + 1)..n : replayed[q] \in T}
<1>2. ASSUME NEW p \in S \cup {k}, NEW q \in (p + 1)..n, DirectlyBefore(Log[p], Log[q])
      PROVE  q \in S
  <2>1. /\ p \in 1..n /\ q \in 1..n /\ p < q /\ q \in (k + 1)..n
        /\ replayed[p] \in T \cup {replayed[k]}
    BY <1>1
  <2>2. DirectlyBefore(hist[replayed[p]], hist[replayed[q]])
    BY <1>1, <1>2, <2>1
  <2>3. replayed[p] \in 1..N /\ replayed[q] \in 1..N /\ Earlier(replayed[p], replayed[q])
    BY <1>1, <2>1, LogOnce
  <2>4. replayed[p] < replayed[q]
    BY <2>2, <2>3, EdgeExecuted
  <2>5. replayed[q] \in (replayed[p] + 1)..N
    BY <1>1, <2>1, <2>4
  <2>6. QED
    BY <2>1, <2>2, <2>5 DEF Closed
<1>3. Closed(Log, k, S)
  BY <1>1, <1>2 DEF Closed
<1>4. l \in S
  BY <1>1, <1>3, ClosedForm
<1>5. QED
  BY <1>4

-----------------------------------------------------------------------------
(* What the reports say of the execution.                                  *)

\* A lane makes one access per instruction of its CTA.
LEMMA ExecutedOnce ==
    ASSUME HistInv, NEW i \in Accesses, NEW j \in Accesses, hist[i].acc = hist[j].acc
    PROVE  i = j
<1>1. Len(hist) \in Nat /\ i \in 1..Len(hist) /\ j \in 1..Len(hist)
  BY DEF HistInv, Accesses
<1>2. ASSUME NEW x \in Accesses, NEW y \in Accesses, x < y PROVE hist[x].acc # hist[y].acc
  <2> DEFINE c == CtaOf[hist[y].acc.actor]
  <2> SUFFICES ASSUME hist[x].acc = hist[y].acc PROVE FALSE
    OBVIOUS
  <2>1. PICK m : /\ Number(hist, y - 1, c, m)
                 /\ \/ hist[y].acc.instruction = m + 1
                    \/ hist[y].acc.instruction = m /\ GoesOn(hist, y)
    BY DEF HistInv, Follows
  <2>2. x \in 1..(y - 1) /\ AccessOf(hist, x, c) /\ hist[x].kind = "access"
    BY <1>1, <1>2 DEF Accesses, AccessOf
  <2>3. hist[x].acc.instruction \in 0..m /\ m \in Nat
    BY <2>1, <2>2 DEF Number
  <2>4. hist[y].acc.instruction = m /\ GoesOn(hist, y)
    BY <2>1, <2>3
  <2>5. QED
    BY <2>2, <2>4 DEF GoesOn
<1>3. i \in Nat /\ j \in Nat
  BY <1>1
<1>4. QED
  BY <1>2, <1>3

\* A position of the log with an access of the execution.
LEMMA LoggedAt ==
    ASSUME HistInv, ReplayInv, NEW k \in Direct!Accesses
    PROVE  /\ k \in 1..Len(replayed) /\ k \in Nat
           /\ replayed[k] \in Accesses /\ Log[k] = hist[replayed[k]]
<1>1. k \in 1..Len(Log) /\ Log[k].kind = "access"
  BY DEF Direct!Accesses
<1>2. PICK n : n = Len(replayed)
  OBVIOUS
<1>3. k \in 1..n /\ n \in Nat /\ replayed[k] \in 1..Len(hist) /\ Log[k] = hist[replayed[k]]
  BY <1>1, <1>2, LogIsSeq
<1>4. QED
  BY <1>1, <1>2, <1>3 DEF Accesses

\* The execution is one of warps that execute their instructions one after the other.
LEMMA OrderRecorded ==
    ASSUME HistInv, OInv, [ReplayNext]_replayVars
    PROVE  OInv'
<1>1. hist \in Seq(Call)
  BY DEF HistInv
<1>2. CASE hist' = hist
  BY <1>2 DEF OInv, Accesses, InOrder
<1>3. ASSUME NEW a \in Lane, NEW o \in use.ops, record_race_access(a, o) PROVE OInv'
  <2>1. PICK n \in Instructions(a, o) :
          Called([kind |-> "access", acc |-> MakeAccess(a, n, o)])
    BY <1>3 DEF record_race_access, Logged
  <2> DEFINE e == [kind |-> "access", acc |-> MakeAccess(a, n, o)]
             c == CtaOf[a]
             m == executed[c]
  <2>2. /\ e.kind = "access" /\ e.acc.actor = a /\ e.acc.instruction = n
        /\ hist' = Append(hist, e)
    BY <2>1 DEF MakeAccess, Called
  <2>3. c \in Ctas /\ m \in Nat /\ n \in Nat
    BY DEF HistInv, Numbering, Ctas, Instructions
  <2>4. MakeAccess(a, n, o) \in Access
    BY <2>3, AccessMade
  <2>5. e \in Call
    BY <2>4 DEF Call
  <2>6. \A i \in Accesses : CtaOf[hist[i].acc.actor] = c => hist[i].acc.instruction \in 0..m
    BY <2>3 DEF HistInv, Numbering, Number, AccessOf, Accesses
  <2> HIDE DEF e
  <2>7. QED
    BY <1>1, <2>2, <2>3, <2>5, <2>6, AccessInOrder
<1>4. ASSUME NEW e \in Call, Called(e), e.kind # "access" PROVE OInv'
  BY <1>1, <1>4, QuietInOrder DEF Called
<1>5. ASSUME NEW c \in Ctas, NEW ws \in BarrierSets, LogBarrier(c, ws) PROVE OInv'
  <2>1. [kind |-> "barrier", warps |-> ws] \in Call
    BY DEF Call
  <2>2. QED
    BY <1>4, <1>5, <2>1 DEF LogBarrier, Logged
<1>6. ASSUME NEW w \in Warps, LogFence(w) PROVE OInv'
  <2>1. [kind |-> "fence", warps |-> {w}] \in Call
    BY DEF Call
  <2>2. QED
    BY <1>4, <1>6, <2>1 DEF LogFence, Logged
<1>7. QED
  BY <1>2, <1>3, <1>5, <1>6
  DEF ReplayNext, Join, replay_race_log, replayVars, vars

LEMMA ExecutionOfWarps == HistInv /\ OInv => WarpHistory
<1> SUFFICES ASSUME HistInv, OInv, NEW k \in 1..Len(hist) PROVE HasWarps(hist[k])
  BY DEF WarpHistory, WInv, HistInv
<1>1. Eventful(hist[k])
  BY DEF HistInv
<1>2. \A c \in Ctas, ws \in BarrierSets : Meet(c, ws) => ws \subseteq Warps
  BY DEF Meet, Warps
<1>3. CASE \E a \in Lane, o \in use.ops, n \in Nat :
             hist[k] = [kind |-> "access", acc |-> MakeAccess(a, n, o)]
  BY <1>3 DEF HasWarps
<1>4. CASE \E c \in Ctas, ws \in BarrierSets :
              Meet(c, ws) /\ hist[k] = [kind |-> "barrier", warps |-> ws]
  BY <1>2, <1>4 DEF HasWarps
<1>5. CASE \E w \in Warps : hist[k] = [kind |-> "fence", warps |-> {w}]
  BY <1>5 DEF HasWarps
<1>6. QED
  BY <1>1, <1>3, <1>4, <1>5 DEF Eventful

LEMMA TrueAlarm ==
    ASSUME HistInv, OInv, ReplayInv, ReleasesInCtaOrder, Direct!AInv, Direct!NoFalseAlarm
    PROVE  NoFalseAlarm
<1> SUFFICES ASSUME NEW r \in reports, NEW i \in Accesses, NEW j \in Accesses,
                    hist[i].acc = r.first, hist[j].acc = r.second
             PROVE  ~Ordered(hist, i, j) /\ ~Ordered(hist, j, i)
  BY ExecutionOfWarps, AlarmsUnordered
<1>1. PICK k \in Direct!Accesses, l \in Direct!Accesses :
        Log[k].acc = r.first /\ Log[l].acc = r.second
  BY DEF Direct!AInv
<1>2. /\ k \in 1..Len(replayed) /\ l \in 1..Len(replayed)
      /\ replayed[k] \in Accesses /\ hist[replayed[k]].acc = r.first
      /\ replayed[l] \in Accesses /\ hist[replayed[l]].acc = r.second
      /\ Log[k] = hist[replayed[k]] /\ Log[l] = hist[replayed[l]]
  BY <1>1, LoggedAt
<1>3. replayed[k] = i /\ replayed[l] = j
  BY <1>2, ExecutedOnce
<1>4. ~Direct!Ordered(Log, k, l) /\ ~Direct!Ordered(Log, l, k)
  BY <1>1 DEF Direct!NoFalseAlarm
<1>5. ~Ordered(Log, k, l) /\ ~Ordered(Log, l, k)
  BY <1>4, SameOrder
<1>6. ASSUME NEW u \in 1..Len(replayed), NEW v \in 1..Len(replayed),
             replayed[u] \in Accesses, replayed[v] \in Accesses,
             Log[u] = hist[replayed[u]], Log[v] = hist[replayed[v]],
             Ordered(hist, replayed[u], replayed[v])
      PROVE  Ordered(Log, u, v)
  <2>1. CASE LaneOrdered(hist, replayed[u], replayed[v])
    BY <2>1, LoggedBefore DEF Ordered
  <2>2. CASE WarpOrdered(hist, replayed[u], replayed[v])
    <3>1. /\ replayed[u] \in 1..Len(hist) /\ replayed[v] \in 1..Len(hist)
          /\ replayed[u] < replayed[v]
      BY <1>6, <2>2 DEF WarpOrdered, Accesses
    <3>2. /\ Eventful(hist[replayed[u]]) /\ hist[replayed[u]].kind = "access"
          /\ Eventful(hist[replayed[v]]) /\ hist[replayed[v]].kind = "access"
      BY <1>6 DEF HistInv, Accesses
    <3>3. CtaOfEvent(hist[replayed[u]]) = CtaOfEvent(hist[replayed[v]])
      <4>1. \A q \in {u, v} :
               /\ hist[replayed[q]].acc.actor \in Lane
               /\ CtaOf[hist[replayed[q]].acc.actor] = CtaOfEvent(hist[replayed[q]])
        BY <3>2, EventCta
      <4>2. QED
        BY <2>2, <4>1, RaceAssumption DEF WarpOrdered
    <3>4. u < v
      BY <3>1, <3>3, EarlierOrder, LogOnce
    <3>5. QED
      BY <1>6, <2>2, <3>4 DEF WarpOrdered, Ordered
  <2>3. QED
    BY <1>6, <2>1, <2>2 DEF Ordered
<1>7. QED
  BY <1>2, <1>3, <1>5, <1>6

LEMMA NothingMissed ==
    ASSUME HistInv, ReplayInv, AcquiresInCtaOrder, Finished, Direct!NoMissedRace
    PROVE  NoMissedRace
<1> SUFFICES ASSUME NEW p \in RacesOf(hist),
                    NEW b \in hist[p[1]].acc.lo..(hist[p[1]].acc.hi - 1),
                    hist[p[2]].acc.lo <= b, b < hist[p[2]].acc.hi
             PROVE  \E r \in reports : /\ Domain(r.second) = Domain(hist[p[1]].acc)
                                       /\ r.key[2] <= b /\ b < r.key[3]
  BY DEF NoMissedRace
<1> DEFINE i == p[1]
           j == p[2]
           x == hist[i].acc
           y == hist[j].acc
           n == Len(replayed)
<1>1. /\ i \in 1..Len(hist) /\ j \in 1..Len(hist) /\ i < j
      /\ hist[i].kind = "access" /\ hist[j].kind = "access"
      /\ Conflict(x, y) /\ ~HappensBefore(hist, i, j)
  BY DEF RacesOf
<1>2. PICK k \in 1..n, l \in 1..n : replayed[k] = i /\ replayed[l] = j
  <2>1. DOMAIN replayed = 1..n
    BY LogIsSeq
  <2>2. \A m \in 1..Len(hist) : \E k \in 1..n : replayed[k] = m
    BY <2>1 DEF Finished, Remaining
  <2>3. QED
    BY <1>1, <2>2
<1>3. /\ n \in Nat /\ Len(Log) = n /\ Log[k] = hist[i] /\ Log[l] = hist[j]
      /\ k \in Nat /\ l \in Nat /\ k # l
  BY <1>1, <1>2, LogIsSeq
<1>4. ~HappensBefore(Log, k, l)
  BY <1>1, <1>2, ExecutedBefore
<1>5. ~HappensBefore(Log, l, k)
  <2> SUFFICES ASSUME HappensBefore(Log, l, k) PROVE FALSE
    OBVIOUS
  <2>1. HappensBefore(hist, j, i)
    BY <1>2, ExecutedBefore
  <2>2. i \in (j + 1)..Len(hist)
    BY <1>1, <2>1, BeforeIsForward
  <2>3. QED
    BY <1>1, <2>2
<1>6. /\ Direct!Conflict(x, y) /\ Direct!Conflict(y, x)
      /\ Domain(x) = Domain(y)
      /\ \A acc : Direct!Domain(acc) = Domain(acc)
  <2>1. \A u, v : Conflict(u, v) => Direct!Conflict(u, v) /\ Direct!Conflict(v, u)
                                    /\ Domain(u) = Domain(v)
    BY DEF Conflict, Direct!Conflict, Domain, Direct!Domain, Overlap, Direct!Overlap,
           SameRange, Direct!SameRange
  <2>2. \A acc : Direct!Domain(acc) = Domain(acc)
    BY DEF Domain, Direct!Domain
  <2>3. QED
    BY <1>1, <2>1, <2>2
<1>7. \A u, v : ~HappensBefore(Log, u, v) => ~Direct!HappensBefore(Log, u, v)
  BY SameOrder
<1>8. x.lo \in Nat /\ x.hi \in Nat /\ y.lo \in Nat /\ y.hi \in Nat
  <2>1. hist[i] \in Call /\ hist[j] \in Call
    BY <1>1, ElementOfSeq DEF HistInv
  <2>2. x \in Access /\ y \in Access
    BY <1>1, <2>1 DEF Call
  <2>3. QED
    BY <2>2 DEF Access
<1>9. b \in Nat /\ b \in x.lo..(x.hi - 1) /\ b \in y.lo..(y.hi - 1) /\ x.lo <= b /\ b < x.hi
  <2>1. b \in x.lo..(x.hi - 1) /\ y.lo <= b /\ b < y.hi
    OBVIOUS
  <2> HIDE DEF x, y
  <2>2. QED
    BY <1>8, <2>1
<1> HIDE DEF x, y
<1>10. Log[k].acc = x /\ Log[l].acc = y
  BY <1>3 DEF x, y
<1>11. CASE k < l
  <2>1. PICK q : q = <<k, l>>
    OBVIOUS
  <2>2. q \in Direct!RacesOf(Log) /\ q[1] = k /\ q[2] = l
    BY <1>1, <1>3, <1>4, <1>6, <1>7, <1>10, <1>11, <2>1 DEF Direct!RacesOf
  <2>3. \E r \in reports : /\ Direct!Domain(r.second) = Direct!Domain(x)
                           /\ r.key[2] <= b /\ b < r.key[3]
    BY <1>9, <1>10, <2>2 DEF Direct!NoMissedRace, y
  <2>4. QED
    BY <1>6, <2>3 DEF x
<1>12. CASE l < k
  <2>1. PICK q : q = <<l, k>>
    OBVIOUS
  <2>2. q \in Direct!RacesOf(Log) /\ q[1] = l /\ q[2] = k
    BY <1>1, <1>3, <1>5, <1>6, <1>7, <1>10, <1>12, <2>1 DEF Direct!RacesOf
  <2>3. \E r \in reports : /\ Direct!Domain(r.second) = Direct!Domain(y)
                           /\ r.key[2] <= b /\ b < r.key[3]
    BY <1>9, <1>10, <2>2 DEF Direct!NoMissedRace
  <2>4. QED
    BY <1>6, <2>3 DEF x
<1>13. QED
  BY <1>3, <1>11, <1>12

\* replay_race_log reports of the execution what the detector would report of calls
\* made as the accesses happen: no report names accesses that the execution ordered,
\* unless a CTA acquired what a later CTA released, and once the log is replayed every
\* byte with a race has a report, unless a CTA acquired at a flag before an earlier CTA
\* released it.  The conditions are those of NoFalseAlarms and NoMissedRaces.
THEOREM ReplayIsExact ==
    ReplaySpec => [](ScopesCompose /\ AtomicsApart /\ OffsetsTell => ReplayExact)
<1> DEFINE D == /\ ScopesCompose => Direct!NoFalseAlarm /\ Direct!AInv
                /\ AtomicsApart /\ OffsetsTell => Direct!NoMissedRace
<1>1. HistInv /\ ReplayInv /\ CInv /\ OInv /\ [ReplayNext]_replayVars
        => (HistInv /\ ReplayInv /\ CInv /\ OInv)'
  BY ExecutionStep, ReplayStep, DirectStep, OrderRecorded
<1>2. ReplayInit => HistInv /\ ReplayInv /\ CInv /\ OInv
  <2>1. ReplayInit => OInv
    BY DEF ReplayInit, Init, OInv, Accesses
  <2>2. QED
    BY <2>1, DirectInit
<1>3. ReplaySpec => [](HistInv /\ ReplayInv /\ OInv)
  BY <1>1, <1>2, PTL DEF ReplaySpec
<1>4. /\ ScopesCompose <=> Direct!ScopesCompose
      /\ AtomicsApart <=> Direct!AtomicsApart
      /\ OffsetsTell <=> Direct!OffsetsTell
  <2>1. ScopesCompose <=> Direct!ScopesCompose
    BY DEF ScopesCompose, Direct!ScopesCompose, MorallyStrong, Direct!MorallyStrong,
           scope_visible, Direct!scope_visible
  <2>2. AtomicsApart <=> Direct!AtomicsApart
    BY DEF AtomicsApart, Direct!AtomicsApart, Overlap, Direct!Overlap, SameRange,
           Direct!SameRange
  <2>3. OffsetsTell <=> Direct!OffsetsTell
    BY DEF OffsetsTell, Direct!OffsetsTell
  <2>4. QED
    BY <2>1, <2>2, <2>3
<1>5. /\ Direct!ScopesCompose => Direct!NoFalseAlarm
      /\ Direct!ScopesCompose => Direct!AInv
      /\ Direct!AtomicsApart /\ Direct!OffsetsTell => Direct!NoMissedRace
      => D
  BY <1>4
<1>6. ReplaySpec => []D
  <2>1. Direct!Spec => [](Direct!ScopesCompose => Direct!NoFalseAlarm)
    BY RaceAssumption, BarrierAssumption, Direct!NoFalseAlarms
    DEF Op, Direct!Op, CallKind, Direct!CallKind, Space, Direct!Space, Order, Direct!Order,
        Scope, Direct!Scope, KnownScope, Direct!KnownScope
  <2>2. Direct!Spec => [](Direct!ScopesCompose => Direct!AInv)
    BY RaceAssumption, BarrierAssumption, Direct!AlarmsAlways
    DEF Op, Direct!Op, CallKind, Direct!CallKind, Space, Direct!Space, Order, Direct!Order,
        Scope, Direct!Scope, KnownScope, Direct!KnownScope
  <2>3. Direct!Spec => [](Direct!AtomicsApart /\ Direct!OffsetsTell => Direct!NoMissedRace)
    BY RaceAssumption, BarrierAssumption, Direct!NoMissedRaces
    DEF Op, Direct!Op, CallKind, Direct!CallKind, Space, Direct!Space, Order, Direct!Order,
        Scope, Direct!Scope, KnownScope, Direct!KnownScope
  <2> HIDE DEF D
  <2>4. QED
    BY <1>5, <2>1, <2>2, <2>3, ReplayIsARun, PTL
<1>7. HistInv /\ ReplayInv /\ OInv /\ D
        => (ScopesCompose /\ AtomicsApart /\ OffsetsTell => ReplayExact)
  BY TrueAlarm, NothingMissed DEF ReplayExact
<1> HIDE DEF D
<1>8. QED
  BY <1>3, <1>6, <1>7, PTL

=============================================================================
