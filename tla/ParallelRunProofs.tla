------------------------- MODULE ParallelRunProofs -------------------------
(***************************************************************************)
(* Proofs about launches on worker threads, for every grid, every number   *)
(* of workers, all programs, buffers and limits.                           *)
(***************************************************************************)
EXTENDS ParallelRun, FiniteSetTheorems, SequenceTheorems, WellFoundedInduction, TLAPS

-----------------------------------------------------------------------------
(* Ranks and orders.                                                       *)

StrictOrder(S, R) ==
    /\ \A x \in S : <<x, x>> \notin R
    /\ \A x, y, z \in S : <<x, y>> \in R /\ <<y, z>> \in R => <<x, z>> \in R
    /\ \A x, y \in S : x = y \/ <<x, y>> \in R \/ <<y, x>> \in R

LEMMA RankRange ==
    ASSUME NEW S, IsFiniteSet(S), NEW R, StrictOrder(S, R), NEW x \in S
    PROVE  Rank(S, R, x) \in 0..(Cardinality(S) - 1)
<1> DEFINE B == {y \in S : <<y, x>> \in R}
<1>1. B \subseteq S /\ x \notin B
  BY DEF StrictOrder
<1>2. IsFiniteSet(B) /\ Cardinality(B) <= Cardinality(S) /\ (Cardinality(S) = Cardinality(B) => S = B)
  BY <1>1, FS_Subset
<1>3. Cardinality(B) \in Nat /\ Cardinality(S) \in Nat
  BY <1>2, FS_CardinalityType
<1> QED  BY <1>1, <1>2, <1>3 DEF Rank

LEMMA RankGrows ==
    ASSUME NEW S, IsFiniteSet(S), NEW R, StrictOrder(S, R),
           NEW x \in S, NEW y \in S, <<x, y>> \in R
    PROVE  Rank(S, R, x) < Rank(S, R, y)
<1> DEFINE B == {z \in S : <<z, x>> \in R}
           C == {z \in S : <<z, y>> \in R}
<1>1. B \subseteq C /\ x \in C /\ x \notin B
  BY DEF StrictOrder
<1>2. IsFiniteSet(C)
  BY FS_Subset
<1>3. IsFiniteSet(B) /\ Cardinality(B) <= Cardinality(C) /\ (Cardinality(C) = Cardinality(B) => C = B)
  BY <1>1, <1>2, FS_Subset
<1>4. Cardinality(B) \in Nat /\ Cardinality(C) \in Nat
  BY <1>2, <1>3, FS_CardinalityType
<1> QED  BY <1>1, <1>3, <1>4 DEF Rank

LEMMA RankOnto ==
    ASSUME NEW S, IsFiniteSet(S), NEW R, StrictOrder(S, R),
           NEW n \in 0..(Cardinality(S) - 1)
    PROVE  \E x \in S : Rank(S, R, x) = n
<1> DEFINE T == 0..(Cardinality(S) - 1)
           f == [x \in S |-> Rank(S, R, x)]
<1>1. Cardinality(S) \in Nat
  BY FS_CardinalityType
<1>2. IsFiniteSet(T) /\ Cardinality(T) = Cardinality(S)
  BY <1>1, FS_Interval
<1>3. f \in [S -> T]
  BY RankRange
<1>4. \A x, y \in S : f[x] = f[y] => x = y
  <2> SUFFICES ASSUME NEW x \in S, NEW y \in S, x # y  PROVE  f[x] # f[y]
    OBVIOUS
  <2>1. <<x, y>> \in R \/ <<y, x>> \in R
    BY DEF StrictOrder
  <2>2. Rank(S, R, x) \in Nat /\ Rank(S, R, y) \in Nat
    BY RankRange
  <2>3. <<x, y>> \in R => Rank(S, R, x) < Rank(S, R, y)
    BY RankGrows
  <2>4. <<y, x>> \in R => Rank(S, R, y) < Rank(S, R, x)
    BY RankGrows
  <2> QED  BY <2>1, <2>2, <2>3, <2>4
<1>5. f \in Injection(S, T)
  BY <1>3, <1>4 DEF Injection, IsInjective
<1>6. f \in Surjection(S, T)
  BY <1>2, <1>5, FS_Injection
<1>7. PICK x \in S : f[x] = n
  BY <1>6 DEF Surjection
<1> QED  BY <1>7

\* The sequence runs through the set once, in the order.
LEMMA InOrderFacts ==
    ASSUME NEW S, IsFiniteSet(S), NEW R, StrictOrder(S, R)
    PROVE  /\ Cardinality(S) \in Nat
           /\ InOrder(S, R) \in [1..Cardinality(S) -> S]
           /\ \A n \in 1..Cardinality(S) : Rank(S, R, InOrder(S, R)[n]) = n - 1
           /\ \A x \in S : /\ Rank(S, R, x) + 1 \in 1..Cardinality(S)
                           /\ InOrder(S, R)[Rank(S, R, x) + 1] = x
           /\ \A i, j \in 1..Cardinality(S) :
                i < j => <<InOrder(S, R)[i], InOrder(S, R)[j]>> \in R
<1> DEFINE s == InOrder(S, R)
           N == Cardinality(S)
<1>1. N \in Nat
  BY FS_CardinalityType
<1>2. \A n \in 1..N : s[n] \in S /\ Rank(S, R, s[n]) = n - 1
  <2> SUFFICES ASSUME NEW n \in 1..N  PROVE  s[n] \in S /\ Rank(S, R, s[n]) = n - 1
    OBVIOUS
  <2>1. n - 1 \in 0..(N - 1)
    BY <1>1
  <2>2. \E x \in S : Rank(S, R, x) = n - 1
    BY <2>1, RankOnto
  <2>3. s[n] = CHOOSE x \in S : Rank(S, R, x) = n - 1
    BY DEF InOrder
  <2> QED  BY <2>2, <2>3
<1>3. s \in [1..N -> S]
  BY <1>2 DEF InOrder
<1>4. \A x, y \in S : Rank(S, R, x) = Rank(S, R, y) => x = y
  <2> SUFFICES ASSUME NEW x \in S, NEW y \in S, x # y  PROVE  Rank(S, R, x) # Rank(S, R, y)
    OBVIOUS
  <2>1. <<x, y>> \in R \/ <<y, x>> \in R
    BY DEF StrictOrder
  <2>2. Rank(S, R, x) \in Nat /\ Rank(S, R, y) \in Nat
    BY RankRange
  <2>3. <<x, y>> \in R => Rank(S, R, x) < Rank(S, R, y)
    BY RankGrows
  <2>4. <<y, x>> \in R => Rank(S, R, y) < Rank(S, R, x)
    BY RankGrows
  <2> QED  BY <2>1, <2>2, <2>3, <2>4
<1> HIDE DEF s
<1>5. \A x \in S : Rank(S, R, x) + 1 \in 1..N /\ s[Rank(S, R, x) + 1] = x
  <2> SUFFICES ASSUME NEW x \in S
               PROVE  Rank(S, R, x) + 1 \in 1..N /\ s[Rank(S, R, x) + 1] = x
    OBVIOUS
  <2>1. Rank(S, R, x) \in 0..(N - 1)
    BY RankRange
  <2>2. Rank(S, R, x) + 1 \in 1..N /\ (Rank(S, R, x) + 1) - 1 = Rank(S, R, x)
    BY <1>1, <2>1
  <2>3. s[Rank(S, R, x) + 1] \in S /\ Rank(S, R, s[Rank(S, R, x) + 1]) = Rank(S, R, x)
    BY <1>2, <2>2
  <2> QED  BY <1>4, <2>2, <2>3
<1>6. \A i, j \in 1..N : i < j => <<s[i], s[j]>> \in R
  <2> SUFFICES ASSUME NEW i \in 1..N, NEW j \in 1..N, i < j, <<s[i], s[j]>> \notin R
               PROVE  FALSE
    OBVIOUS
  <2>1. s[i] \in S /\ s[j] \in S /\ Rank(S, R, s[i]) = i - 1 /\ Rank(S, R, s[j]) = j - 1
    BY <1>2
  <2>2. s[i] # s[j]
    BY <1>1, <2>1
  <2>3. <<s[j], s[i]>> \in R
    BY <2>1, <2>2 DEF StrictOrder
  <2>4. Rank(S, R, s[j]) < Rank(S, R, s[i])
    BY <2>1, <2>3, RankGrows
  <2> QED  BY <1>1, <2>1, <2>4
<1> QED  BY <1>1, <1>2, <1>3, <1>5, <1>6 DEF s

LEMMA Least ==
    ASSUME NEW S, S \subseteq Nat, S # {}
    PROVE  \E x \in S : \A y \in S : x <= y
<1> DEFINE R == {p \in Nat \X Nat : p[1] < p[2]}
<1>1. IsWellFoundedOn(R, Nat)
  BY NatLessThanWellFounded DEF OpToRel
<1>2. PICK x \in S : \A y \in S : ~(<<y, x>> \in R)
  <2> HIDE DEF R
  <2>1. QED
    BY <1>1, WFMin
<1>3. ASSUME NEW y \in S PROVE x <= y
  <2>1. x \in Nat /\ y \in Nat /\ <<y, x>> \in Nat \X Nat
    OBVIOUS
  <2>2. ~(y < x)
    BY <1>2, <2>1
  <2>3. QED
    BY <2>1, <2>2
<1>4. QED
  BY <1>3

LEMMA Largest ==
    ASSUME NEW k \in Nat, NEW S, S \subseteq 1..k, S # {}
    PROVE  \E x \in S : \A y \in S : x >= y
<1> DEFINE T == {k - y : y \in S}
<1>1. T \subseteq Nat /\ T # {}
  <2>1. \A y \in S : y \in 1..k
    OBVIOUS
  <2>2. T \subseteq Nat
    BY <2>1
  <2>3. T # {}
    OBVIOUS
  <2> QED  BY <2>2, <2>3
<1>2. PICK z \in T : \A y \in T : z <= y
  <2> HIDE DEF T
  <2> QED  BY <1>1, Least
<1>3. PICK x \in S : z = k - x
  OBVIOUS
<1>4. ASSUME NEW y \in S  PROVE x >= y
  <2>1. k - y \in T /\ y \in Nat /\ x \in Nat
    OBVIOUS
  <2>2. z <= k - y
    BY <1>2, <2>1
  <2> QED  BY <1>3, <2>1, <2>2
<1> QED  BY <1>4

-----------------------------------------------------------------------------
(* The invariants.                                                         *)

IssueEvents ==
    [kind: {"issue"}, id: Nat, parent: {0}, cta: Cta, ordinal: {0}, sector: {0}, request: {0}]

Descriptors ==
    [cta: Cta, sm: Nat, addr: 0..(AddrWords - 1), len: Widths, op: Instruction, lane: Lane,
     ordinal: Nat]

AccessType ==
    /\ access = [w \in Worker |-> access[w]]
    /\ \A w \in Worker :
         /\ access[w] = [cta |-> access[w].cta, lane |-> access[w].lane,
                         cur |-> access[w].cur]
         /\ access[w].cta \in Cta /\ access[w].lane \in Nat

BufferType ==
    /\ DOMAIN global = DOMAIN launch.global
    /\ global = [i \in DOMAIN global |-> global[i]]

TypeOK ==
    /\ launch \in Launches
    /\ pc \in [Cta -> Nat \ {0}]
    /\ waiting \subseteq Cta
    /\ thread \in [Worker -> {"new", "running", "ended"}]
    /\ rr \in [Worker -> Nat]
    /\ executed \in [Worker -> Nat]
    /\ fault \in [Worker -> Fault \cup {NoFault}]
    /\ memory_events \in [Worker -> Seq(IssueEvents)]
    /\ l2_log \in [Worker -> Seq(Descriptors)]
    /\ BufferType
    /\ global_mutex \in Worker \cup {Nobody}
    /\ AccessType
    /\ DOMAIN returned = Cta

\* A worker is in one memory instruction of a CTA of its own that can go on.
InInstruction(w) ==
    /\ thread[w] = "running"
    /\ access[w].cta \in Owned(w) /\ access[w].cta \notin waiting
    /\ ~Finished(access[w].cta)
    /\ Current(w).op \in MemoryOps
    /\ access[w].lane \in 1..Len(Current(w).lanes)

\* What ended a worker; the CTA of a fault has not finished and will not.
Ending(w) ==
    /\ fault[w] # NoFault =>
         /\ thread[w] = "ended"
         /\ IF fault[w].kind = "internal" THEN launch.fast
            ELSE fault[w].cta \in Owned(w) /\ ~Finished(fault[w].cta)
    /\ thread[w] = "ended" /\ fault[w] = NoFault => \A c \in Owned(w) : Finished(c)

\* No CTA passes an instruction that ends its worker, waits for ever or jumps back.
Within(c) ==
    /\ pc[c] <= Len(launch.prog[c]) + 1
    /\ \A n \in DOMAIN launch.prog[c] :
         launch.prog[c][n].op \in {"trap", "wait", "loop"} => pc[c] <= n
    /\ c \in waiting => ~Finished(c) /\ launch.prog[c][pc[c]].op = "wait"

AllNew == \A w \in Worker : thread[w] = "new"
AllEnded == \A w \in Worker : thread[w] = "ended"

ControlOK ==
    /\ \A w \in Worker : access[w] = NoAccess \/ InInstruction(w)
    /\ \A w \in Worker : Ending(w)
    /\ \A c \in Cta : Within(c)
    /\ result # NoResult => AllNew \/ AllEnded

\* Only the worker that holds the mutex is between the two halves of an atomic, and
\* what it has read is what the buffer holds.
MutexOK ==
    \A w \in Worker : access[w].cur # NoValue =>
        /\ global_mutex = w
        /\ Current(w).op = "atomic"
        /\ Effective(LaneOf(w)) # Overflow
        /\ CanAtomic(global, Effective(LaneOf(w)), Current(w).len, Current(w).rmw)
        /\ access[w].cur = Value(global, Effective(LaneOf(w)), Current(w).len)

\* A worker whose CTAs neither wait nor jump back has executed what they have passed.
Straight(c) ==
    \A n \in DOMAIN launch.prog[c] : launch.prog[c][n].op \notin {"wait", "loop"}

PassedBy(w) == UNION {{c} \X (1..(pc[c] - 1)) : c \in Owned(w)}

CountOK ==
    \A w \in Worker : (\A c \in Owned(w) : Straight(c)) =>
        executed[w] = Cardinality(PassedBy(w))

\* The places of accesses that are done.
OwnerOf(c) == c % launch.workers

Passed(p) ==
    \/ p[2] < pc[p[1]]
    \/ /\ p[2] = pc[p[1]]
       /\ access[OwnerOf(p[1])].cta = p[1] /\ p[3] < access[OwnerOf(p[1])].lane

\* With a buffer every access that is done lies in it, and a worker faults on memory
\* at one that does not.
WildOK ==
    launch.global # <<>> =>
        /\ \A p \in Places : Passed(p) => Inside(AccessAt(p))
        /\ \A w \in Worker : fault[w] # NoFault /\ fault[w].kind = "memory" =>
             \E a \in Accesses : ~Inside(a)

-----------------------------------------------------------------------------
(* The state of a launch.                                                  *)

\* What the assumption says of the launch at hand.
LEMMA LaunchFacts ==
    ASSUME launch \in Launches
    PROVE  /\ launch.prog \in [Cta -> Seq(Instruction) \ {<<>>}]
           /\ \A c \in Cta : \A n \in DOMAIN launch.prog[c] :
                /\ launch.prog[c][n] \in Instruction
                /\ launch.prog[c][n].lanes \in Seq(Lane)
                /\ launch.prog[c][n].op \in MemoryOps =>
                     launch.prog[c][n].len \in Widths /\ launch.prog[c][n].lanes # <<>>
           /\ \A c \in Cta : Len(launch.prog[c]) \in Nat \ {0}
           /\ launch.workers \in 1..MaxWorkers /\ launch.workers \in Nat \ {0}
           /\ launch.limit \in Nat /\ launch.seed \in Nat /\ launch.fast \in BOOLEAN
           /\ launch.global \in Seq(0..(ByteBase - 1))
           /\ Len(launch.global) < AddrWords \div 2
           /\ GlobalBase + Len(launch.global) <= AddrWords
<1>1. \A c \in Cta : \A n \in DOMAIN launch.prog[c] :
         /\ launch.prog[c][n] \in Instruction
         /\ launch.prog[c][n].lanes \in Seq(Lane)
  <2> SUFFICES ASSUME NEW c \in Cta, NEW n \in DOMAIN launch.prog[c]
               PROVE  /\ launch.prog[c][n] \in Instruction
                      /\ launch.prog[c][n].lanes \in Seq(Lane)
    OBVIOUS
  <2>1. launch.prog[c] \in Seq(Instruction)
    BY ParallelAssumption
  <2>2. launch.prog[c][n] \in Instruction
    BY <2>1
  <2>3. \A i \in Instruction : i.lanes \in Seq(Lane)
    BY DEF Instruction
  <2> QED  BY <2>2, <2>3
<1>2. \A c \in Cta : Len(launch.prog[c]) \in Nat \ {0}
  BY ParallelAssumption
<1> QED  BY <1>1, <1>2, ParallelAssumption

\* Every CTA has one owner.
LEMMA Owners ==
    ASSUME launch \in Launches
    PROVE  /\ \A c \in Cta : OwnerOf(c) \in Worker /\ c \in Owned(OwnerOf(c))
           /\ \A w \in Worker : \A c \in Owned(w) : c \in Cta /\ OwnerOf(c) = w
           /\ \A w \in Worker : w \in Nat /\ w # Nobody
<1>1. launch.workers \in Nat \ {0}
  BY LaunchFacts
<1>2. \A c \in Cta : c % launch.workers \in 0..(launch.workers - 1)
  BY <1>1, ParallelAssumption DEF Cta
<1>3. Nobody \notin Nat
  BY ParallelAssumption
<1> QED  BY <1>1, <1>2, <1>3 DEF OwnerOf, Owned, Worker

LEMMA FiniteCtas ==
    /\ IsFiniteSet(Cta) /\ Cardinality(Cta) = NumCtas /\ NumCtas \in Nat
    /\ \A w : IsFiniteSet(Owned(w)) /\ IsFiniteSet(Groups(w))
<1>1. IsFiniteSet(Cta) /\ Cardinality(Cta) = NumCtas /\ NumCtas \in Nat
  BY FS_Interval, ParallelAssumption DEF Cta
<1>2. \A w : Owned(w) \subseteq Cta /\ Groups(w) \subseteq Cta
  BY DEF Owned, Groups
<1> QED  BY <1>1, <1>2, FS_Subset

LEMMA InitType == Init => TypeOK
<1> SUFFICES ASSUME Init  PROVE TypeOK
  OBVIOUS
<1>1. launch \in Launches /\ 0 \in Cta
  BY ParallelAssumption DEF Init, Cta
<1>2. launch.global = [i \in DOMAIN launch.global |-> launch.global[i]]
  BY <1>1, LaunchFacts
<1>3. <<>> \in Seq(IssueEvents) /\ <<>> \in Seq(Descriptors)
  OBVIOUS
<1>4. BufferType
  BY <1>2 DEF Init, BufferType
<1>5. AccessType
  BY <1>1 DEF Init, AccessType, NoAccess
<1> QED  BY <1>1, <1>3, <1>4, <1>5 DEF Init, TypeOK

\* A step of a worker that changes the access of one worker to the record r.
LEMMA AccessStep ==
    ASSUME AccessType, NEW w \in Worker, NEW c \in Cta, NEW n \in Nat, NEW v,
           launch' = launch,
           access' = [access EXCEPT ![w] = [cta |-> c, lane |-> n, cur |-> v]]
    PROVE  AccessType' /\ access'[w] = [cta |-> c, lane |-> n, cur |-> v]
           /\ \A u \in Worker : u # w => access'[u] = access[u]
BY DEF AccessType, Worker

\* checked_add is the sum in integers or the mark of an overflow.
LEMMA EffectiveSum ==
    ASSUME NEW l \in Lane
    PROVE  /\ l.addr + l.off \in Int
           /\ Effective(l) # Overflow =>
                Effective(l) = l.addr + l.off /\ Effective(l) \in 0..(AddrWords - 1)
           /\ Effective(l) = Overflow => l.addr + l.off < 0 \/ l.addr + l.off >= AddrWords
<1>1. AddrWords \in Nat \ {0}
  BY MemoryAssumption
<1>2. l.addr \in Int /\ l.off \in Int
  BY <1>1 DEF Lane
<1> QED  BY <1>1, <1>2 DEF Effective, checked_add, Overflow

\* The instruction and the lane a worker is in, and its place in the program.
Here(w) == <<access[w].cta, pc[access[w].cta], access[w].lane>>

LEMMA LaneFacts ==
    ASSUME TypeOK, ControlOK, NEW w \in Worker, access[w] # NoAccess
    PROVE  /\ InInstruction(w) /\ fault[w] = NoFault
           /\ access[w].cta \in Cta /\ access[w].cta \in Owned(w)
           /\ pc[access[w].cta] \in DOMAIN launch.prog[access[w].cta]
           /\ pc[access[w].cta] \in Nat \ {0}
           /\ Current(w) \in Instruction /\ Current(w).op \in MemoryOps
           /\ Current(w).len \in Widths /\ Current(w).lanes \in Seq(Lane)
           /\ access[w].lane \in 1..Len(Current(w).lanes) /\ Len(Current(w).lanes) \in Nat
           /\ access[w].lane \in Nat
           /\ LaneOf(w) \in Lane
           /\ Here(w) \in Places
           /\ AccessAt(Here(w)) = [op |-> Current(w), lane |-> LaneOf(w)]
<1> DEFINE c == access[w].cta
<1>1. InInstruction(w)
  BY DEF ControlOK
<1>2. fault[w] = NoFault
  <2>1. thread[w] = "running" /\ Ending(w)
    BY <1>1 DEF ControlOK, InInstruction
  <2> QED  BY <2>1 DEF Ending
<1>3. c \in Cta /\ access[w].lane \in Nat
  BY DEF TypeOK, AccessType
<1>4. pc[c] \in Nat \ {0}
  BY <1>3 DEF TypeOK
<1>5. launch.prog[c] \in Seq(Instruction) /\ Len(launch.prog[c]) \in Nat
  BY <1>3, LaunchFacts DEF TypeOK
<1>6. pc[c] \in DOMAIN launch.prog[c]
  BY <1>1, <1>4, <1>5 DEF InInstruction, Finished
<1>7. /\ Current(w) \in Instruction /\ Current(w).op \in MemoryOps
      /\ Current(w).len \in Widths /\ Current(w).lanes \in Seq(Lane)
  BY <1>1, <1>3, <1>6, LaunchFacts DEF TypeOK, InInstruction, Current
<1>8. access[w].lane \in 1..Len(Current(w).lanes) /\ Len(Current(w).lanes) \in Nat
  BY <1>1, <1>7 DEF InInstruction
<1>9. LaneOf(w) \in Lane
  BY <1>7, <1>8 DEF LaneOf
<1>10. Here(w) \in Places
  <2> DEFINE p == launch.prog[c]
             N == {n \in DOMAIN p : p[n].op \in MemoryOps}
  <2>1. pc[c] \in N
    BY <1>6, <1>7 DEF Current
  <2>2. access[w].lane \in DOMAIN p[pc[c]].lanes
    <3>1. DOMAIN Current(w).lanes = 1..Len(Current(w).lanes)
      BY <1>7
    <3> QED  BY <1>8, <3>1 DEF Current
  <2>3. Here(w) \in {<<c, pc[c], k>> : k \in DOMAIN p[pc[c]].lanes}
    BY <2>2 DEF Here
  <2>4. Here(w) \in UNION {{<<c, n, k>> : k \in DOMAIN p[n].lanes} : n \in N}
    BY <2>1, <2>3
  <2> QED  BY <1>3, <2>4 DEF Places
<1>11. AccessAt(Here(w)) = [op |-> Current(w), lane |-> LaneOf(w)]
  BY DEF AccessAt, Here, Current, LaneOf
<1> QED  BY <1>1, <1>2, <1>3, <1>4, <1>6, <1>7, <1>8, <1>9, <1>10, <1>11 DEF InInstruction

LEMMA DescriptorType ==
    ASSUME TypeOK, ControlOK, NEW w \in Worker, access[w] # NoAccess,
           Effective(LaneOf(w)) # Overflow
    PROVE  Descriptor(w) \in Descriptors
<1>1. Effective(LaneOf(w)) \in 0..(AddrWords - 1)
  BY LaneFacts, EffectiveSum
<1>2. access[w].cta \in Cta /\ access[w].cta % NumSms \in Nat
  BY LaneFacts, ParallelAssumption DEF Cta
<1>3. Cardinality({k \in DOMAIN l2_log[w] : l2_log[w][k].cta = access[w].cta}) \in Nat
  <2>1. l2_log[w] \in Seq(Descriptors)
    BY DEF TypeOK
  <2>2. IsFiniteSet(DOMAIN l2_log[w])
    BY <2>1, FS_Interval
  <2> QED  BY <2>2, FS_Subset, FS_CardinalityType
<1> QED  BY <1>1, <1>2, <1>3, LaneFacts DEF Descriptor, Descriptors

LEMMA RecordType ==
    ASSUME TypeOK, ControlOK, NEW w \in Worker, access[w] # NoAccess,
           Effective(LaneOf(w)) # Overflow, Record(w)
    PROVE  /\ l2_log' \in [Worker -> Seq(Descriptors)]
           /\ l2_log'[w] = Append(l2_log[w], Descriptor(w))
           /\ \A u \in Worker : u # w => l2_log'[u] = l2_log[u]
<1>1. Descriptor(w) \in Descriptors
  BY DescriptorType
<1> QED  BY <1>1 DEF TypeOK, Record

LEMMA EndsType ==
    ASSUME TypeOK, NEW w \in Worker, NEW c \in Cta,
           NEW kind \in {"internal", "limit", "trap", "deadlock", "memory"}, Ends(w, kind, c)
    PROVE  /\ thread' \in [Worker -> {"new", "running", "ended"}]
           /\ fault' \in [Worker -> Fault \cup {NoFault}]
           /\ thread'[w] = "ended" /\ fault'[w] = [kind |-> kind, cta |-> c]
           /\ fault'[w] # NoFault
           /\ \A u \in Worker : u # w => thread'[u] = thread[u] /\ fault'[u] = fault[u]
<1>1. [kind |-> kind, cta |-> c] \in Fault
  BY DEF Fault
<1>2. [kind |-> kind, cta |-> c] # NoFault
  BY <1>1, ParallelAssumption
<1> QED  BY <1>1, <1>2 DEF TypeOK, Ends

\* What ends the handling of a lane: the next lane, or the instruction retires.
LEMMA NextLaneType ==
    ASSUME TypeOK, ControlOK, NEW w \in Worker, access[w] # NoAccess, launch' = launch,
           NextLane(w)
    PROVE  /\ pc' \in [Cta -> Nat \ {0}] /\ executed' \in [Worker -> Nat]
           /\ memory_events' \in [Worker -> Seq(IssueEvents)]
           /\ thread' = thread /\ fault' = fault
           /\ AccessType'
           /\ \A u \in Worker : u # w => access'[u] = access[u]
           /\ \/ /\ access[w].lane < Len(Current(w).lanes)
                 /\ access'[w] = [cta |-> access[w].cta, lane |-> access[w].lane + 1,
                                  cur |-> NoValue]
                 /\ pc' = pc /\ executed' = executed
              \/ /\ access[w].lane = Len(Current(w).lanes)
                 /\ access'[w] = NoAccess
                 /\ pc' = [pc EXCEPT ![access[w].cta] = @ + 1]
                 /\ executed' = [executed EXCEPT ![w] = @ + 1]
<1> DEFINE c == access[w].cta
           r == [cta |-> c, lane |-> access[w].lane + 1, cur |-> NoValue]
<1>1. /\ c \in Cta /\ access[w].lane \in Nat /\ Len(Current(w).lanes) \in Nat
      /\ access[w].lane <= Len(Current(w).lanes)
  BY LaneFacts
<1>2. AccessType /\ access[w] = [cta |-> c, lane |-> access[w].lane, cur |-> access[w].cur]
  BY DEF TypeOK, AccessType
<1>3. 0 \in Cta
  BY ParallelAssumption DEF Cta
<1>4. CASE access[w].lane < Len(Current(w).lanes)
  <2>1. access' = [access EXCEPT ![w] = [cta |-> c, lane |-> @.lane + 1, cur |-> NoValue]]
        /\ UNCHANGED <<pc, memory_events, executed, thread, fault>>
    BY <1>4 DEF NextLane
  <2>2. access = [u \in Worker |-> access[u]]
    BY <1>2 DEF AccessType
  <2>3. access' = [access EXCEPT ![w] = r]
    BY <2>1, <2>2
  <2>4. access[w].lane + 1 \in Nat
    BY <1>1
  <2>5. AccessType' /\ access'[w] = r /\ \A u \in Worker : u # w => access'[u] = access[u]
    BY <1>1, <1>2, <2>3, <2>4, AccessStep
  <2> QED  BY <1>4, <2>1, <2>5 DEF TypeOK
<1>5. CASE ~(access[w].lane < Len(Current(w).lanes))
  <2>1. /\ access' = [access EXCEPT ![w] = NoAccess]
        /\ pc' = [pc EXCEPT ![c] = @ + 1]
        /\ memory_events' = [memory_events EXCEPT ![w] = Append(@, IssueEvent(w, c))]
        /\ executed' = [executed EXCEPT ![w] = @ + 1]
        /\ UNCHANGED <<thread, fault>>
    BY <1>5 DEF NextLane, Retire
  <2>2. AccessType' /\ access'[w] = NoAccess /\ \A u \in Worker : u # w => access'[u] = access[u]
    BY <1>2, <1>3, <2>1, AccessStep DEF NoAccess
  <2>3. memory_events[w] \in Seq(IssueEvents)
    BY DEF TypeOK
  <2>4. IssueEvent(w, c) \in IssueEvents
    BY <1>1, <2>3 DEF IssueEvent, IssueEvents
  <2>5. memory_events' \in [Worker -> Seq(IssueEvents)]
    BY <2>1, <2>3, <2>4 DEF TypeOK
  <2>6. pc' \in [Cta -> Nat \ {0}] /\ executed' \in [Worker -> Nat]
    BY <1>1, <2>1, SMTT(30) DEF TypeOK
  <2>7. access[w].lane = Len(Current(w).lanes)
    BY <1>1, <1>5
  <2>8. /\ access[w].lane = Len(Current(w).lanes)
        /\ access'[w] = NoAccess
        /\ pc' = [pc EXCEPT ![access[w].cta] = @ + 1]
        /\ executed' = [executed EXCEPT ![w] = @ + 1]
    BY <2>1, <2>2, <2>7
  <2>9. thread' = thread /\ fault' = fault
    BY <2>1
  <2> QED  BY <2>2, <2>5, <2>6, <2>8, <2>9
<1> QED  BY <1>4, <1>5

LEMMA LaneFaultsType ==
    ASSUME TypeOK, ControlOK, NEW w \in Worker, access[w] # NoAccess, launch' = launch,
           LaneFaults(w)
    PROVE  /\ UNCHANGED <<pc, memory_events, executed>>
           /\ thread' \in [Worker -> {"new", "running", "ended"}]
           /\ fault' \in [Worker -> Fault \cup {NoFault}]
           /\ thread'[w] = "ended" /\ fault'[w] = [kind |-> "memory", cta |-> access[w].cta]
           /\ fault'[w] # NoFault
           /\ \A u \in Worker : u # w => thread'[u] = thread[u] /\ fault'[u] = fault[u]
           /\ AccessType' /\ access'[w] = NoAccess
           /\ \A u \in Worker : u # w => access'[u] = access[u]
<1>1. access[w].cta \in Cta /\ 0 \in Cta
  BY LaneFacts, ParallelAssumption DEF Cta
<1>2. Ends(w, "memory", access[w].cta)
  BY DEF LaneFaults
<1>3. access' = [access EXCEPT ![w] = NoAccess] /\ UNCHANGED <<pc, memory_events, executed>>
  BY DEF LaneFaults
<1>4. AccessType' /\ access'[w] = NoAccess /\ \A u \in Worker : u # w => access'[u] = access[u]
  BY <1>1, <1>3, AccessStep DEF NoAccess, TypeOK
<1> QED  BY <1>1, <1>2, <1>3, <1>4, EndsType

LEMMA PutBuffer ==
    ASSUME BufferType, launch' = launch, NEW off, NEW len, NEW v,
           global' = Put(global, off, len, v) \/ global' = global
    PROVE  BufferType'
BY DEF BufferType, Put

\* All but the result.
State == <<launch, memory, pc, waiting, thread, rr, executed, fault, memory_events, l2_log>>

LEMMA TypeUnchanged == ASSUME TypeOK, UNCHANGED State PROVE TypeOK'
BY DEF TypeOK, State, memory, BufferType, AccessType, Worker

\* A worker outside an instruction starts or ends.
LEMMA TypeControl ==
    ASSUME TypeOK, UNCHANGED <<control, memory, pc, executed, memory_events, l2_log>>,
           thread' \in [Worker -> {"new", "running", "ended"}],
           fault' \in [Worker -> Fault \cup {NoFault}]
    PROVE  TypeOK'
BY DEF TypeOK, control, memory, BufferType, AccessType, Worker

LEMMA TypeExecute ==
    ASSUME TypeOK, NEW w \in Worker, Execute(w)
    PROVE  TypeOK'
<1> USE DEF TypeOK
<1>1. PICK c \in Cta : /\ Picked(w, c)
                       /\ LET i == launch.prog[c][pc[c]]
                          IN \/ /\ i.op = "alu"
                                /\ pc' = [pc EXCEPT ![c] = @ + 1]
                                /\ Retire(w)
                                /\ UNCHANGED <<waiting, access>>
                             \/ /\ i.op \in MemoryOps
                                /\ access' = [access EXCEPT ![w] = [cta |-> c, lane |-> 1, cur |-> NoValue]]
                                /\ UNCHANGED <<pc, waiting, executed, thread, fault>>
                             \/ /\ i.op = "trap"
                                /\ Ends(w, "trap", c)
                                /\ UNCHANGED <<pc, waiting, executed, access>>
                             \/ /\ i.op = "wait"
                                /\ waiting' = waiting \cup {c}
                                /\ Retire(w)
                                /\ UNCHANGED <<pc, access>>
                             \/ /\ i.op = "loop"
                                /\ pc' = [pc EXCEPT ![c] = 1]
                                /\ Retire(w)
                                /\ UNCHANGED <<waiting, access>>
  BY DEF Execute
<1>2. /\ UNCHANGED <<launch, result, global, global_mutex, returned, memory_events, l2_log>>
      /\ rr' = [rr EXCEPT ![w] = ((@ % Cardinality(Groups(w))) + 1) % Cardinality(Groups(w))]
  BY DEF Execute
<1>3. Cardinality(Groups(w)) \in Nat \ {0}
  <2>1. c \in Groups(w)
    BY <1>1 DEF Picked
  <2> QED  BY <2>1, FiniteCtas, FS_CardinalityType, FS_EmptySet
<1>4. rr' \in [Worker -> Nat]
  <2>1. ((rr[w] % Cardinality(Groups(w))) + 1) % Cardinality(Groups(w)) \in Nat
    BY <1>3
  <2> QED  BY <1>2, <2>1
<1>5. Worker' = Worker /\ launch' = launch
  BY <1>2 DEF Worker
<1>6. BufferType'
  BY <1>2 DEF BufferType
<1>7. AccessType'
  <2>1. CASE access' = access
    BY <1>5, <2>1 DEF AccessType
  <2>2. CASE access' = [access EXCEPT ![w] = [cta |-> c, lane |-> 1, cur |-> NoValue]]
    BY <1>5, <2>2, AccessStep
  <2> QED  BY <1>1, <2>1, <2>2
<1>8. pc' \in [Cta -> Nat \ {0}] /\ waiting' \subseteq Cta
  <2>1. \/ pc' = pc \/ pc' = [pc EXCEPT ![c] = @ + 1] \/ pc' = [pc EXCEPT ![c] = 1]
    BY <1>1
  <2>2. waiting' = waiting \/ waiting' = waiting \cup {c}
    BY <1>1
  <2>3. pc[c] + 1 \in Nat \ {0}
    OBVIOUS
  <2> QED  BY <2>1, <2>2, <2>3
<1>9. executed' \in [Worker -> Nat]
  BY <1>1 DEF Retire
<1>10. /\ thread' \in [Worker -> {"new", "running", "ended"}]
       /\ fault' \in [Worker -> Fault \cup {NoFault}]
  <2>1. CASE thread' = thread /\ fault' = fault
    BY <2>1
  <2>2. CASE Ends(w, "trap", c)
    BY <2>2, EndsType
  <2> QED  BY <1>1, <2>1, <2>2 DEF Retire
<1> QED  BY <1>2, <1>4, <1>5, <1>6, <1>7, <1>8, <1>9, <1>10

\* A worker in an instruction: what each action leaves of the types.
LEMMA TypeLanes ==
    ASSUME TypeOK, ControlOK, MutexOK, NEW w \in Worker,
           AddressOverflows(w) \/ LoadLane(w) \/ StoreLane(w) \/ AtomicReads(w) \/ AtomicWrites(w)
    PROVE  TypeOK'
<1>1. access[w] # NoAccess /\ launch' = launch /\ Worker' = Worker
  BY DEF AddressOverflows, LoadLane, StoreLane, AtomicReads, AtomicWrites, At, control, Worker
<1>2. rr' = rr /\ waiting' = waiting
  BY DEF AddressOverflows, LoadLane, StoreLane, AtomicReads, AtomicWrites, control
<1>3. ASSUME NextLane(w) \/ LaneFaults(w)
      PROVE  /\ pc' \in [Cta -> Nat \ {0}] /\ executed' \in [Worker -> Nat]
             /\ memory_events' \in [Worker -> Seq(IssueEvents)] /\ AccessType'
             /\ thread' \in [Worker -> {"new", "running", "ended"}]
             /\ fault' \in [Worker -> Fault \cup {NoFault}]
  BY <1>1, <1>3, NextLaneType, LaneFaultsType DEF TypeOK
<1>4. ASSUME Effective(LaneOf(w)) # Overflow, Record(w) \/ l2_log' = l2_log
      PROVE  l2_log' \in [Worker -> Seq(Descriptors)]
  BY <1>1, <1>4, RecordType DEF TypeOK
<1>5. CASE AddressOverflows(w)
  <2>1. LaneFaults(w) /\ UNCHANGED <<global, global_mutex, returned, l2_log>>
    BY <1>5 DEF AddressOverflows
  <2>2. BufferType'
    BY <1>1, <2>1 DEF TypeOK, BufferType
  <2> QED  BY <1>1, <1>2, <1>3, <2>1, <2>2 DEF TypeOK
<1>6. CASE LoadLane(w)
  <2>1. /\ NextLane(w) \/ (LaneFaults(w) /\ Record(w) /\ Effective(LaneOf(w)) # Overflow)
        /\ UNCHANGED <<global, global_mutex, returned>>
    BY <1>6 DEF LoadLane
  <2>2. l2_log' \in [Worker -> Seq(Descriptors)]
    BY <1>4, <1>6 DEF LoadLane
  <2>3. BufferType'
    BY <1>1, <2>1 DEF TypeOK, BufferType
  <2> QED  BY <1>1, <1>2, <1>3, <2>1, <2>2, <2>3 DEF TypeOK
<1>7. CASE StoreLane(w)
  <2>1. /\ NextLane(w) \/ LaneFaults(w)
        /\ UNCHANGED <<global_mutex, returned>>
    BY <1>7 DEF StoreLane
  <2>2. l2_log' \in [Worker -> Seq(Descriptors)]
    BY <1>4, <1>7 DEF StoreLane
  <2>3. BufferType'
    BY <1>1, <1>7, PutBuffer DEF StoreLane, TypeOK
  <2> QED  BY <1>1, <1>2, <1>3, <2>1, <2>2, <2>3 DEF TypeOK
<1>8. CASE AtomicReads(w)
  <2>1. UNCHANGED <<global, returned, l2_log>>
    BY <1>8 DEF AtomicReads
  <2>2. BufferType'
    BY <1>1, <2>1 DEF TypeOK, BufferType
  <2>3. CASE LaneFaults(w) /\ UNCHANGED global_mutex
    BY <1>1, <1>2, <1>3, <2>1, <2>2, <2>3 DEF TypeOK
  <2>4. CASE ~(LaneFaults(w) /\ UNCHANGED global_mutex)
    <3> DEFINE v == Value(global, Effective(LaneOf(w)), Current(w).len)
    <3>1. /\ global_mutex' = w
          /\ access' = [access EXCEPT ![w] = [cta |-> @.cta, lane |-> @.lane, cur |-> v]]
          /\ UNCHANGED <<pc, memory_events, executed, thread, fault>>
      BY <1>8, <2>4 DEF AtomicReads
    <3> HIDE DEF v
    <3>2. AccessType /\ access = [u \in Worker |-> access[u]]
          /\ access[w].cta \in Cta /\ access[w].lane \in Nat
      BY DEF TypeOK, AccessType
    <3>3. access' = [access EXCEPT ![w] = [cta |-> access[w].cta, lane |-> access[w].lane, cur |-> v]]
      BY <3>1, <3>2
    <3>4. AccessType'
      BY <1>1, <3>2, <3>3, AccessStep
    <3> QED  BY <1>1, <1>2, <2>1, <2>2, <3>1, <3>4 DEF TypeOK
  <2> QED  BY <2>3, <2>4
<1>9. CASE AtomicWrites(w)
  <2>1. NextLane(w) /\ Record(w) /\ global_mutex' = Nobody /\ DOMAIN returned' = DOMAIN returned
    BY <1>9 DEF AtomicWrites
  <2>2. BufferType'
    BY <1>1, <1>9, PutBuffer DEF AtomicWrites, TypeOK
  <2>3. Effective(LaneOf(w)) # Overflow
    BY <1>9 DEF AtomicWrites, MutexOK
  <2>4. l2_log' \in [Worker -> Seq(Descriptors)]
    BY <1>4, <2>1, <2>3
  <2> QED  BY <1>1, <1>2, <1>3, <2>1, <2>2, <2>4 DEF TypeOK
<1> QED  BY <1>5, <1>6, <1>7, <1>8, <1>9

LEMMA MinIn ==
    ASSUME NEW S, S \subseteq Nat, S # {}
    PROVE  Min(S) \in S
<1>1. \E x \in S : \A y \in S : x <= y
  BY Least
<1> QED  BY <1>1 DEF Min

\* Only these actions change the result; nothing else changes with it.
Result == Refused \/ RunResult \/ MergeFault \/ MergeClean

LEMMA TypeStep ==
    ASSUME TypeOK, ControlOK, MutexOK, [Next]_vars
    PROVE  TypeOK'
<1>1. CASE UNCHANGED vars
  BY <1>1, TypeUnchanged DEF vars, control, State
<1>2. CASE Result
  <2>1. Untouched
    BY <1>2 DEF Result, Refused, RunResult, MergeFault, MergeClean
  <2> QED  BY <2>1, TypeUnchanged DEF Untouched, State
<1>3. ASSUME NEW w \in Worker, Step(w)  PROVE TypeOK'
  <2>1. CASE StartWorker(w)
    <3>1. 0 \in Cta
      BY ParallelAssumption DEF Cta
    <3>2. CASE Ends(w, "internal", 0)
      BY <2>1, <3>1, <3>2, EndsType, TypeControl DEF StartWorker
    <3>3. CASE thread' = [thread EXCEPT ![w] = "running"] /\ UNCHANGED fault
      BY <2>1, <3>3, TypeControl DEF StartWorker, TypeOK
    <3> QED  BY <2>1, <3>2, <3>3 DEF StartWorker
  <2>2. CASE LimitReached(w)
    BY <2>2, EndsType, TypeControl DEF LimitReached
  <2>3. CASE EndWorker(w)
    <3>1. CASE Owned(w) \cap waiting = {}
      BY <2>3, <3>1, TypeControl DEF EndWorker, TypeOK
    <3>2. CASE Owned(w) \cap waiting # {}
      <4>1. Owned(w) \cap waiting \subseteq Cta /\ Cta \subseteq Nat
        BY ParallelAssumption DEF Owned, Cta
      <4>2. Min(Owned(w) \cap waiting) \in Cta
        BY <3>2, <4>1, MinIn
      <4> QED  BY <2>3, <3>2, <4>2, EndsType, TypeControl DEF EndWorker
    <3> QED  BY <3>1, <3>2
  <2> QED  BY <1>3, <2>1, <2>2, <2>3, TypeExecute, TypeLanes DEF Step
<1> QED  BY <1>1, <1>2, <1>3 DEF Next, Done, Result

\* A worker takes a step only before the result, and changes neither it nor the launch.
LEMMA StepResult ==
    ASSUME TypeOK, ControlOK, NEW w \in Worker, Step(w)
    PROVE  result = NoResult /\ result' = result /\ launch' = launch /\ Worker' = Worker
<1>1. result' = result /\ launch' = launch
  BY DEF Step, StartWorker, LimitReached, Execute, EndWorker, AddressOverflows, LoadLane,
         StoreLane, AtomicReads, AtomicWrites, control
<1>2. StartWorker(w) \/ thread[w] = "running"
  BY DEF Step, LimitReached, Execute, EndWorker, AddressOverflows, LoadLane,
         StoreLane, AtomicReads, AtomicWrites, At, Looping
<1>3. result = NoResult
  BY <1>2 DEF StartWorker, ControlOK, AllNew, AllEnded
<1> QED  BY <1>1, <1>3 DEF Worker

\* A step of w moves no CTA but those of C, and leaves the other workers alone.
OthersKept(w, C) ==
    /\ \A u \in Worker : u # w =>
         access'[u] = access[u] /\ thread'[u] = thread[u] /\ fault'[u] = fault[u]
    /\ \A d \in Cta \ C : pc'[d] = pc[d] /\ (d \in waiting' <=> d \in waiting)

\* A step keeps the invariant if it does for w and the CTAs it moves.
LEMMA ControlFrame ==
    ASSUME TypeOK, TypeOK', ControlOK, NEW w \in Worker, NEW C, C \subseteq Owned(w),
           launch' = launch, result' = NoResult, OthersKept(w, C),
           access'[w] = NoAccess \/ InInstruction(w)', Ending(w)', \A c \in C : Within(c)'
    PROVE  ControlOK'
<1> USE DEF OthersKept
<1>1. Worker' = Worker /\ \A u : Owned(u)' = Owned(u)
  BY DEF Worker, Owned
<1>2. \A u \in Worker : u # w => \A d \in Owned(u) : d \in Cta \ C
  BY Owners DEF TypeOK
<1>3. \A d \in Cta \ C : Within(d)' /\ (Finished(d)' <=> Finished(d))
  <2> SUFFICES ASSUME NEW d \in Cta \ C  PROVE Within(d)' /\ (Finished(d)' <=> Finished(d))
    OBVIOUS
  <2>1. Within(d) /\ pc'[d] = pc[d] /\ (d \in waiting' <=> d \in waiting)
    BY DEF ControlOK
  <2> QED  BY <2>1 DEF Within, Finished
<1>4. ASSUME NEW u \in Worker, u # w
      PROVE  (access'[u] = NoAccess \/ InInstruction(u)') /\ Ending(u)'
  <2>1. access'[u] = access[u] /\ thread'[u] = thread[u] /\ fault'[u] = fault[u]
    BY <1>4
  <2>2. (access[u] = NoAccess \/ InInstruction(u)) /\ Ending(u)
    BY DEF ControlOK
  <2>3. ASSUME InInstruction(u)  PROVE InInstruction(u)'
    <3>1. access[u].cta \in Cta \ C
      BY <1>2, <1>4, <2>3 DEF InInstruction
    <3>2. pc'[access[u].cta] = pc[access[u].cta]
          /\ (access[u].cta \in waiting' <=> access[u].cta \in waiting)
      BY <1>3, <3>1
    <3>3. Current(u)' = Current(u)
      BY <2>1, <3>2 DEF Current
    <3> QED  BY <1>1, <2>1, <2>3, <3>2, <3>3 DEF InInstruction, Finished
  <2>4. Ending(u)'
    <3>1. \A d \in Owned(u) : Finished(d)' <=> Finished(d)
      BY <1>2, <1>3, <1>4
    <3> QED  BY <1>1, <2>1, <2>2, <3>1 DEF Ending
  <2> QED  BY <2>1, <2>2, <2>3, <2>4
<1>5. \A u \in Worker' : (access'[u] = NoAccess \/ InInstruction(u)') /\ Ending(u)'
  BY <1>1, <1>4
<1>6. \A c \in Cta : Within(c)'
  BY <1>3
<1>7. NoAccess' = NoAccess
  BY DEF NoAccess
<1> QED  BY <1>5, <1>6, <1>7 DEF ControlOK

\* The two ways of using it.
LEMMA ControlFrameNone ==
    ASSUME TypeOK, TypeOK', ControlOK, NEW w \in Worker,
           launch' = launch, result' = NoResult, OthersKept(w, {}),
           access'[w] = NoAccess \/ InInstruction(w)', Ending(w)'
    PROVE  ControlOK'
BY ControlFrame

LEMMA ControlFrameOne ==
    ASSUME TypeOK, TypeOK', ControlOK, NEW w \in Worker, NEW c, c \in Owned(w),
           launch' = launch, result' = NoResult, OthersKept(w, {c}),
           access'[w] = NoAccess \/ InInstruction(w)', Ending(w)', Within(c)'
    PROVE  ControlOK'
<1>1. {c} \subseteq Owned(w) /\ \A d \in {c} : Within(d)'
  OBVIOUS
<1> QED  BY <1>1, ControlFrame

LEMMA PickedFacts ==
    ASSUME TypeOK, ControlOK, NEW w \in Worker, NEW c \in Cta, Picked(w, c), Looping(w)
    PROVE  /\ c \in Owned(w) /\ ~Finished(c) /\ c \notin waiting /\ Within(c)
           /\ pc[c] \in DOMAIN launch.prog[c] /\ pc[c] \in Nat \ {0}
           /\ launch.prog[c] \in Seq(Instruction) /\ Len(launch.prog[c]) \in Nat
           /\ pc[c] <= Len(launch.prog[c])
           /\ thread[w] = "running" /\ fault[w] = NoFault /\ access[w] = NoAccess
<1>1. c \in Owned(w) /\ ~Finished(c) /\ c \notin waiting /\ Within(c)
  BY DEF Picked, Groups, ControlOK
<1>2. launch.prog[c] \in Seq(Instruction) /\ Len(launch.prog[c]) \in Nat
  BY LaunchFacts DEF TypeOK
<1>3. pc[c] \in Nat \ {0}
  BY DEF TypeOK
<1>4. thread[w] = "running" /\ access[w] = NoAccess /\ Ending(w)
  BY DEF Looping, ControlOK
<1>5. fault[w] = NoFault
  BY <1>4 DEF Ending
<1> QED  BY <1>1, <1>2, <1>3, <1>4, <1>5 DEF Finished

\* A CTA that moves on from an instruction that is no trap, wait or loop.
LEMMA WithinNext ==
    ASSUME TypeOK, NEW c \in Cta, Within(c), ~Finished(c), c \notin waiting',
           launch.prog[c][pc[c]].op \notin {"trap", "wait", "loop"},
           launch' = launch, pc' = [pc EXCEPT ![c] = @ + 1]
    PROVE  Within(c)'
<1>1. Len(launch.prog[c]) \in Nat /\ pc[c] \in Nat \ {0} /\ pc'[c] = pc[c] + 1
  BY LaunchFacts DEF TypeOK
<1>2. pc'[c] <= Len(launch.prog[c]) + 1
  BY <1>1 DEF Finished
<1>3. ASSUME NEW n \in DOMAIN launch.prog[c], launch.prog[c][n].op \in {"trap", "wait", "loop"}
      PROVE  pc'[c] <= n
  <2>1. n \in Nat /\ n # pc[c]
    BY <1>3, LaunchFacts DEF TypeOK
  <2>2. pc[c] <= n
    BY <1>3 DEF Within
  <2> QED  BY <1>1, <2>1, <2>2
<1> QED  BY <1>2, <1>3 DEF Within

LEMMA ControlExecute ==
    ASSUME TypeOK, TypeOK', ControlOK, NEW w \in Worker, Execute(w),
           result' = NoResult, launch' = launch
    PROVE  ControlOK'
<1>1. PICK c \in Cta : /\ Picked(w, c)
                       /\ LET i == launch.prog[c][pc[c]]
                          IN \/ /\ i.op = "alu"
                                /\ pc' = [pc EXCEPT ![c] = @ + 1]
                                /\ Retire(w)
                                /\ UNCHANGED <<waiting, access>>
                             \/ /\ i.op \in MemoryOps
                                /\ access' = [access EXCEPT ![w] = [cta |-> c, lane |-> 1, cur |-> NoValue]]
                                /\ UNCHANGED <<pc, waiting, executed, thread, fault>>
                             \/ /\ i.op = "trap"
                                /\ Ends(w, "trap", c)
                                /\ UNCHANGED <<pc, waiting, executed, access>>
                             \/ /\ i.op = "wait"
                                /\ waiting' = waiting \cup {c}
                                /\ Retire(w)
                                /\ UNCHANGED <<pc, access>>
                             \/ /\ i.op = "loop"
                                /\ pc' = [pc EXCEPT ![c] = 1]
                                /\ Retire(w)
                                /\ UNCHANGED <<waiting, access>>
  BY DEF Execute
<1> DEFINE i == launch.prog[c][pc[c]]
<1>2. Looping(w)
  BY DEF Execute
<1>3. /\ c \in Owned(w) /\ ~Finished(c) /\ c \notin waiting /\ Within(c)
      /\ pc[c] \in DOMAIN launch.prog[c] /\ pc[c] \in Nat \ {0}
      /\ Len(launch.prog[c]) \in Nat /\ pc[c] <= Len(launch.prog[c])
      /\ thread[w] = "running" /\ fault[w] = NoFault /\ access[w] = NoAccess
  BY <1>1, <1>2, PickedFacts
<1>4. NoAccess' = NoAccess
  BY DEF NoAccess
<1>5. CASE i.op = "alu" /\ pc' = [pc EXCEPT ![c] = @ + 1] /\ Retire(w) /\ UNCHANGED <<waiting, access>>
  <2>1. Within(c)'
    BY <1>3, <1>5, WithinNext
  <2>2. Ending(w)'
    BY <1>3, <1>5 DEF Ending, Retire
  <2>3. OthersKept(w, {c}) /\ access'[w] = NoAccess
    BY <1>3, <1>5 DEF TypeOK, Retire, OthersKept
  <2> QED  BY <1>3, <2>1, <2>2, <2>3, ControlFrameOne
<1>6. CASE /\ i.op \in MemoryOps
           /\ access' = [access EXCEPT ![w] = [cta |-> c, lane |-> 1, cur |-> NoValue]]
           /\ UNCHANGED <<pc, waiting, executed, thread, fault>>
  <2>1. access'[w] = [cta |-> c, lane |-> 1, cur |-> NoValue]
        /\ \A u \in Worker : u # w => access'[u] = access[u]
    BY <1>6 DEF TypeOK, AccessType
  <2>2. 1 \in 1..Len(i.lanes)
    <3>1. i.lanes \in Seq(Lane) /\ i.lanes # <<>>
      BY <1>3, <1>6, LaunchFacts DEF TypeOK
    <3> QED  BY <3>1
  <2>3. Current(w)' = i
    BY <1>6, <2>1 DEF Current
  <2>4. Owned(w)' = Owned(w) /\ (Finished(c)' <=> Finished(c))
    BY <1>6 DEF Owned, Finished
  <2>5. InInstruction(w)'
    BY <1>3, <1>6, <2>1, <2>2, <2>3, <2>4 DEF InInstruction, Finished
  <2>6. Ending(w)'
    BY <1>3, <1>6 DEF Ending
  <2>7. OthersKept(w, {})
    BY <1>6, <2>1 DEF OthersKept
  <2> QED  BY <2>5, <2>6, <2>7, ControlFrameNone
<1>7. CASE i.op = "trap" /\ Ends(w, "trap", c) /\ UNCHANGED <<pc, waiting, executed, access>>
  <2>1. /\ thread'[w] = "ended" /\ fault'[w] = [kind |-> "trap", cta |-> c] /\ fault'[w] # NoFault
        /\ \A u \in Worker : u # w => thread'[u] = thread[u] /\ fault'[u] = fault[u]
    BY <1>7, EndsType
  <2>2. Ending(w)'
    BY <1>3, <1>7, <2>1 DEF Ending, Owned, Finished
  <2>3. OthersKept(w, {}) /\ access'[w] = NoAccess
    BY <1>3, <1>7, <2>1 DEF OthersKept
  <2> QED  BY <2>2, <2>3, ControlFrameNone
<1>8. CASE i.op = "wait" /\ waiting' = waiting \cup {c} /\ Retire(w) /\ UNCHANGED <<pc, access>>
  <2>1. Within(c)'
    BY <1>3, <1>8 DEF Within, Finished
  <2>2. thread' = thread /\ fault' = fault /\ access' = access /\ pc' = pc
    BY <1>8 DEF Retire
  <2>3. Ending(w)'
    BY <1>3, <2>2 DEF Ending
  <2>4. OthersKept(w, {c}) /\ access'[w] = NoAccess
    BY <1>3, <1>8, <2>2 DEF OthersKept
  <2> QED  BY <1>3, <2>1, <2>3, <2>4, ControlFrameOne
<1>9. CASE i.op = "loop" /\ pc' = [pc EXCEPT ![c] = 1] /\ Retire(w) /\ UNCHANGED <<waiting, access>>
  <2>1. pc'[c] = 1 /\ \A d \in Cta \ {c} : pc'[d] = pc[d]
    BY <1>9 DEF TypeOK
  <2>2. Within(c)'
    <3>1. \A n \in DOMAIN launch.prog[c] : 1 <= n
      BY LaunchFacts DEF TypeOK
    <3>2. 1 <= Len(launch.prog[c]) + 1
      BY <1>3
    <3> QED  BY <1>3, <1>9, <2>1, <3>1, <3>2 DEF Within
  <2>3. thread' = thread /\ fault' = fault /\ access' = access
    BY <1>9 DEF Retire
  <2>4. Ending(w)'
    BY <1>3, <2>3 DEF Ending
  <2>5. OthersKept(w, {c}) /\ access'[w] = NoAccess
    BY <1>3, <1>9, <2>1, <2>3 DEF OthersKept
  <2> QED  BY <1>3, <2>2, <2>4, <2>5, ControlFrameOne
<1> QED  BY <1>1, <1>5, <1>6, <1>7, <1>8, <1>9

\* What a worker in an instruction does to it: the next lane, a fault, or the first
\* half of an atomic.
LEMMA LaneCases ==
    ASSUME NEW w \in Worker,
           AddressOverflows(w) \/ LoadLane(w) \/ StoreLane(w) \/ AtomicReads(w) \/ AtomicWrites(w)
    PROVE  /\ access[w] # NoAccess
           /\ UNCHANGED control
           /\ \/ NextLane(w) \/ LaneFaults(w)
              \/ /\ access' = [access EXCEPT
                      ![w] = [cta |-> @.cta, lane |-> @.lane,
                              cur |-> Value(global, Effective(LaneOf(w)), Current(w).len)]]
                 /\ UNCHANGED <<pc, memory_events, executed, thread, fault>>
BY DEF AddressOverflows, LoadLane, StoreLane, AtomicReads, AtomicWrites, At

LEMMA ControlLanes ==
    ASSUME TypeOK, TypeOK', ControlOK, NEW w \in Worker, result' = NoResult,
           AddressOverflows(w) \/ LoadLane(w) \/ StoreLane(w) \/ AtomicReads(w) \/ AtomicWrites(w)
    PROVE  ControlOK'
<1> SUFFICES ASSUME NEW c, c = access[w].cta  PROVE ControlOK'
  OBVIOUS
<1>1. access[w] # NoAccess /\ launch' = launch /\ waiting' = waiting
  BY LaneCases DEF control
<1>2. /\ InInstruction(w) /\ fault[w] = NoFault /\ c \in Cta /\ c \in Owned(w)
      /\ thread[w] = "running" /\ c \notin waiting /\ ~Finished(c)
      /\ pc[c] \in Nat \ {0} /\ access[w].lane \in 1..Len(Current(w).lanes)
      /\ Current(w).op \in MemoryOps /\ Len(Current(w).lanes) \in Nat /\ access[w].lane \in Nat
  <2>1. InInstruction(w) /\ fault[w] = NoFault
    BY <1>1, LaneFacts
  <2> QED  BY <1>1, <2>1, LaneFacts DEF InInstruction
<1>3. Within(c)
  BY <1>2 DEF ControlOK
<1>4. NoAccess' = NoAccess /\ Owned(w)' = Owned(w)
  BY <1>1 DEF NoAccess, Owned
<1>5. CASE NextLane(w)
  <2>1. /\ thread' = thread /\ fault' = fault
        /\ \A u \in Worker : u # w => access'[u] = access[u]
        /\ \/ /\ access[w].lane < Len(Current(w).lanes)
              /\ access'[w] = [cta |-> access[w].cta, lane |-> access[w].lane + 1,
                               cur |-> NoValue]
              /\ pc' = pc /\ executed' = executed
           \/ /\ access[w].lane = Len(Current(w).lanes)
              /\ access'[w] = NoAccess
              /\ pc' = [pc EXCEPT ![access[w].cta] = @ + 1]
              /\ executed' = [executed EXCEPT ![w] = @ + 1]
    BY <1>1, <1>5, NextLaneType
  <2>2. Ending(w)'
    BY <1>2, <2>1 DEF Ending
  <2>3. CASE /\ access[w].lane < Len(Current(w).lanes)
             /\ access'[w] = [cta |-> access[w].cta, lane |-> access[w].lane + 1, cur |-> NoValue]
             /\ pc' = pc
    <3>1. Current(w)' = Current(w)
      BY <1>1, <2>3 DEF Current
    <3>2. InInstruction(w)'
      BY <1>1, <1>2, <1>4, <2>1, <2>3, <3>1 DEF InInstruction, Finished
    <3>3. OthersKept(w, {})
      BY <1>1, <2>1, <2>3 DEF OthersKept
    <3> QED  BY <1>1, <2>2, <3>2, <3>3, ControlFrameNone
  <2>4. CASE access'[w] = NoAccess /\ pc' = [pc EXCEPT ![c] = @ + 1]
    <3>1. launch.prog[c][pc[c]].op \notin {"trap", "wait", "loop"}
      BY <1>2 DEF MemoryOps, Current
    <3>2. Within(c)'
      BY <1>1, <1>2, <1>3, <2>4, <3>1, WithinNext
    <3>3. OthersKept(w, {c})
      BY <1>1, <2>1, <2>4 DEF TypeOK, OthersKept
    <3> QED  BY <1>1, <1>2, <2>2, <2>4, <3>2, <3>3, ControlFrameOne
  <2> QED  BY <2>1, <2>3, <2>4
<1>6. CASE LaneFaults(w)
  <2>1. /\ pc' = pc
        /\ thread'[w] = "ended" /\ fault'[w] = [kind |-> "memory", cta |-> c]
        /\ \A u \in Worker : u # w => thread'[u] = thread[u] /\ fault'[u] = fault[u]
        /\ access'[w] = NoAccess
        /\ \A u \in Worker : u # w => access'[u] = access[u]
        /\ fault'[w] # NoFault
    BY <1>1, <1>6, LaneFaultsType
  <2>2. Ending(w)'
    BY <1>1, <1>2, <2>1 DEF Ending, Owned, Finished
  <2>3. OthersKept(w, {})
    BY <1>1, <2>1 DEF OthersKept
  <2> QED  BY <1>1, <2>1, <2>2, <2>3, ControlFrameNone
<1>7. CASE /\ access' = [access EXCEPT
                  ![w] = [cta |-> @.cta, lane |-> @.lane,
                          cur |-> Value(global, Effective(LaneOf(w)), Current(w).len)]]
           /\ UNCHANGED <<pc, memory_events, executed, thread, fault>>
  <2>1. /\ access'[w].cta = c /\ access'[w].lane = access[w].lane
        /\ \A u \in Worker : u # w => access'[u] = access[u]
    BY <1>7 DEF TypeOK, AccessType
  <2>2. Current(w)' = Current(w)
    BY <1>1, <1>7, <2>1 DEF Current
  <2>3. InInstruction(w)'
    BY <1>1, <1>2, <1>4, <1>7, <2>1, <2>2 DEF InInstruction, Finished
  <2>4. Ending(w)'
    BY <1>2, <1>7 DEF Ending
  <2>5. OthersKept(w, {})
    BY <1>1, <1>7, <2>1 DEF OthersKept
  <2> QED  BY <1>1, <2>3, <2>4, <2>5, ControlFrameNone
<1> QED  BY <1>5, <1>6, <1>7, LaneCases

LEMMA ControlStep ==
    ASSUME TypeOK, TypeOK', ControlOK, [Next]_vars
    PROVE  ControlOK'
<1> USE DEF TypeOK
<1>1. CASE UNCHANGED State
  <2>1. Worker' = Worker /\ NoAccess' = NoAccess
    BY <1>1 DEF State, Worker, NoAccess
  <2>2. /\ \A w \in Worker' : access'[w] = NoAccess' \/ InInstruction(w)'
        /\ \A w \in Worker' : Ending(w)'
        /\ \A c \in Cta : Within(c)'
    BY <1>1, <2>1 DEF State, memory, ControlOK, InInstruction, Ending, Within, Owned,
                      Finished, Current
  <2>3. result' # NoResult => (AllNew \/ AllEnded)'
    <3>1. CASE UNCHANGED vars \/ Done \/ (\E w \in Worker : Step(w))
      <4>1. result' = result
        BY <3>1, StepResult DEF vars, control, Done
      <4> QED  BY <1>1, <2>1, <4>1 DEF ControlOK, AllNew, AllEnded, State
    <3>2. CASE Result
      <4>1. AllNew \/ AllEnded
        BY <3>2 DEF Result, Refused, RunResult, MergeFault, MergeClean, Joined, AllNew, AllEnded
      <4> QED  BY <1>1, <2>1, <4>1 DEF AllNew, AllEnded, State
    <3> QED  BY <3>1, <3>2 DEF Next, Result
  <2> QED  BY <2>2, <2>3 DEF ControlOK
<1>2. ASSUME NEW w \in Worker, Step(w)  PROVE ControlOK'
  <2>1. result' = NoResult /\ launch' = launch /\ Ending(w)
        /\ (access[w] = NoAccess \/ InInstruction(w))
    BY <1>2, StepResult DEF ControlOK
  <2>2. ASSUME UNCHANGED <<pc, waiting, memory>>, access[w] = NoAccess, Ending(w)',
               \A u \in Worker : u # w => thread'[u] = thread[u] /\ fault'[u] = fault[u]
        PROVE  ControlOK'
    <3>1. OthersKept(w, {}) /\ access'[w] = NoAccess
      BY <2>2 DEF OthersKept, memory
    <3> QED  BY <2>1, <2>2, <3>1, ControlFrameNone
  <2>3. CASE StartWorker(w)
    <3>1. thread[w] = "new" /\ fault[w] = NoFault /\ access[w] = NoAccess
      BY <2>1, <2>3 DEF StartWorker, Ending, InInstruction
    <3>2. UNCHANGED <<pc, waiting, memory>>
      BY <2>3 DEF StartWorker, control
    <3>3. CASE thread' = [thread EXCEPT ![w] = "running"] /\ UNCHANGED fault
      BY <2>2, <3>1, <3>2, <3>3 DEF Ending
    <3>4. CASE launch.fast /\ Ends(w, "internal", 0)
      <4>1. 0 \in Cta
        BY ParallelAssumption DEF Cta
      <4>2. /\ thread'[w] = "ended" /\ fault'[w] = [kind |-> "internal", cta |-> 0]
            /\ fault'[w] # NoFault
            /\ \A u \in Worker : u # w => thread'[u] = thread[u] /\ fault'[u] = fault[u]
        BY <3>4, <4>1, EndsType
      <4> QED  BY <2>1, <2>2, <3>1, <3>2, <3>4, <4>2 DEF Ending
    <3> QED  BY <2>3, <3>3, <3>4 DEF StartWorker
  <2>4. CASE LimitReached(w)
    <3>1. PICK c \in Cta : Picked(w, c) /\ Ends(w, "limit", c)
      BY <2>4 DEF LimitReached
    <3>2. UNCHANGED <<pc, waiting, memory>> /\ Looping(w)
      BY <2>4 DEF LimitReached, control
    <3>3. /\ thread'[w] = "ended" /\ fault'[w] = [kind |-> "limit", cta |-> c]
          /\ fault'[w] # NoFault
          /\ \A u \in Worker : u # w => thread'[u] = thread[u] /\ fault'[u] = fault[u]
      BY <3>1, EndsType
    <3>4. c \in Owned(w) /\ ~Finished(c) /\ access[w] = NoAccess
      BY <3>1, <3>2, PickedFacts
    <3>5. Ending(w)'
      BY <2>1, <3>2, <3>3, <3>4 DEF Ending, Owned, Finished
    <3> QED  BY <2>2, <3>2, <3>3, <3>4, <3>5
  <2>5. CASE EndWorker(w)
    <3>1. UNCHANGED <<pc, waiting, memory>> /\ access[w] = NoAccess /\ Groups(w) = {}
          /\ thread[w] = "running" /\ fault[w] = NoFault
      BY <2>1, <2>5 DEF EndWorker, control, Looping, Ending
    <3>2. CASE Owned(w) \cap waiting = {}
      <4>1. thread' = [thread EXCEPT ![w] = "ended"] /\ UNCHANGED fault
        BY <2>5, <3>2 DEF EndWorker
      <4>2. \A c \in Owned(w) : Finished(c)
        BY <3>1, <3>2 DEF Groups
      <4>3. Ending(w)'
        BY <2>1, <3>1, <4>1, <4>2 DEF Ending, Owned, Finished
      <4> QED  BY <2>2, <3>1, <4>1, <4>3
    <3>3. CASE Owned(w) \cap waiting # {}
      <4> DEFINE c == Min(Owned(w) \cap waiting)
      <4>1. Owned(w) \cap waiting \subseteq Cta /\ Cta \subseteq Nat
        BY ParallelAssumption DEF Owned, Cta
      <4>2. c \in Owned(w) \cap waiting /\ c \in Cta
        BY <3>3, <4>1, MinIn
      <4>3. Ends(w, "deadlock", c)
        BY <2>5, <3>3 DEF EndWorker
      <4>4. ~Finished(c)
        BY <4>2 DEF ControlOK, Within
      <4> SUFFICES ASSUME NEW d, d = c  PROVE ControlOK'
        OBVIOUS
      <4>5. d \in Owned(w) /\ d \in Cta /\ ~Finished(d) /\ Ends(w, "deadlock", d)
        BY <4>2, <4>3, <4>4
      <4> HIDE DEF c
      <4>6. /\ thread'[w] = "ended" /\ fault'[w] = [kind |-> "deadlock", cta |-> d]
            /\ fault'[w] # NoFault
            /\ \A u \in Worker : u # w => thread'[u] = thread[u] /\ fault'[u] = fault[u]
        BY <4>5, EndsType
      <4>7. Ending(w)'
        BY <2>1, <3>1, <4>5, <4>6 DEF Ending, Owned, Finished
      <4> QED  BY <2>2, <3>1, <4>6, <4>7
    <3> QED  BY <3>2, <3>3
  <2> QED  BY <1>2, <2>1, <2>3, <2>4, <2>5, ControlExecute, ControlLanes DEF Step
<1>3. CASE ~(\E w \in Worker : Step(w))
  <2>1. UNCHANGED State
    BY <1>3 DEF Next, Done, vars, control, State, Refused, RunResult, MergeFault, MergeClean, Untouched
  <2> QED  BY <1>1, <2>1
<1> QED  BY <1>2, <1>3

\* A step of w leaves the other workers and their CTAs alone.
OthersAlone(w) ==
    /\ OthersKept(w, Owned(w))
    /\ \A u \in Worker : u # w => executed'[u] = executed[u] /\ l2_log'[u] = l2_log[u]

LEMMA StepKeeps ==
    ASSUME TypeOK, ControlOK, NEW w \in Worker, Step(w)
    PROVE  OthersAlone(w)
<1> USE DEF TypeOK
<1>1. CASE StartWorker(w) \/ LimitReached(w) \/ EndWorker(w)
  BY <1>1 DEF StartWorker, LimitReached, EndWorker, Ends, control, memory, OthersAlone, OthersKept
<1>2. CASE Execute(w)
  <2>1. PICK c \in Cta : /\ Picked(w, c)
                         /\ pc' = pc \/ pc' = [pc EXCEPT ![c] = @ + 1] \/ pc' = [pc EXCEPT ![c] = 1]
                         /\ waiting' = waiting \/ waiting' = waiting \cup {c}
                         /\ access' = access \/ access' = [access EXCEPT ![w] = [cta |-> c, lane |-> 1, cur |-> NoValue]]
                         /\ Retire(w) \/ Ends(w, "trap", c) \/ UNCHANGED <<executed, thread, fault>>
                         /\ Retire(w) \/ executed' = executed
    BY <1>2 DEF Execute
  <2>2. c \in Owned(w) /\ l2_log' = l2_log
    BY <1>2, <2>1 DEF Picked, Groups, Execute
  <2>3. \A d \in Cta \ Owned(w) : pc'[d] = pc[d] /\ (d \in waiting' <=> d \in waiting)
    BY <2>1, <2>2
  <2>4. \A u \in Worker : u # w => access'[u] = access[u]
    BY <2>1 DEF AccessType
  <2>5. \A u \in Worker : u # w => thread'[u] = thread[u] /\ fault'[u] = fault[u]
                                   /\ executed'[u] = executed[u]
    BY <2>1 DEF Retire, Ends
  <2> QED  BY <2>2, <2>3, <2>4, <2>5 DEF OthersAlone, OthersKept
<1>3. CASE AddressOverflows(w) \/ LoadLane(w) \/ StoreLane(w) \/ AtomicReads(w) \/ AtomicWrites(w)
  <2>1. access[w] # NoAccess /\ waiting' = waiting
    BY <1>3, LaneCases DEF control
  <2>2. access[w].cta \in Owned(w) /\ launch' = launch
    BY <1>3, <2>1, LaneFacts, LaneCases DEF control
  <2>3. \A u \in Worker : u # w => l2_log'[u] = l2_log[u]
    BY <1>3 DEF AddressOverflows, LoadLane, StoreLane, AtomicReads, AtomicWrites, Record
  <2>4. CASE NextLane(w)
    <3>1. /\ thread' = thread /\ fault' = fault
          /\ \A u \in Worker : u # w => access'[u] = access[u]
          /\ \/ pc' = pc /\ executed' = executed
             \/ /\ pc' = [pc EXCEPT ![access[w].cta] = @ + 1]
                /\ executed' = [executed EXCEPT ![w] = @ + 1]
      BY <2>1, <2>2, <2>4, NextLaneType
    <3> QED  BY <2>1, <2>2, <2>3, <3>1 DEF OthersAlone, OthersKept
  <2>5. CASE LaneFaults(w)
    BY <2>1, <2>2, <2>3, <2>5, LaneFaultsType DEF OthersAlone, OthersKept
  <2>6. CASE /\ access' = [access EXCEPT
                  ![w] = [cta |-> @.cta, lane |-> @.lane,
                          cur |-> Value(global, Effective(LaneOf(w)), Current(w).len)]]
             /\ UNCHANGED <<pc, memory_events, executed, thread, fault>>
    BY <2>1, <2>3, <2>6 DEF OthersAlone, OthersKept, AccessType
  <2> QED  BY <1>3, <2>4, <2>5, <2>6, LaneCases
<1> QED  BY <1>1, <1>2, <1>3 DEF Step

\* The other workers, when w changes the buffer only with the mutex free or its own.
LEMMA MutexOthers ==
    ASSUME TypeOK, ControlOK, MutexOK, NEW w \in Worker, Step(w),
           \/ UNCHANGED <<global, global_mutex>>
           \/ Unlocked
           \/ access[w].cur # NoValue,
           NEW u \in Worker, u # w, access'[u].cur # NoValue
    PROVE  /\ global_mutex = u /\ UNCHANGED <<global, global_mutex>>
           /\ access'[u] = access[u] /\ Current(u)' = Current(u) /\ LaneOf(u)' = LaneOf(u)
<1>1. access'[u] = access[u] /\ launch' = launch
  BY StepKeeps, StepResult DEF OthersAlone, OthersKept
<1>2. global_mutex = u
  BY <1>1 DEF MutexOK
<1>3. ~Unlocked /\ access[w].cur = NoValue
  BY <1>2, Owners DEF TypeOK, MutexOK, Unlocked
<1>4. access[u] # NoAccess
  BY <1>1 DEF NoAccess
<1>5. access[u].cta \in Cta /\ access[u].cta \in Owned(u)
  BY <1>4, LaneFacts
<1>6. access[u].cta \notin Owned(w)
  BY <1>5, Owners DEF TypeOK
<1>7. pc'[access[u].cta] = pc[access[u].cta]
  BY <1>5, <1>6, StepKeeps DEF OthersAlone, OthersKept
<1>8. Current(u)' = Current(u)
  BY <1>1, <1>7 DEF Current
<1> QED  BY <1>1, <1>2, <1>3, <1>8 DEF LaneOf

LEMMA MutexStep ==
    ASSUME TypeOK, ControlOK, MutexOK, [Next]_vars
    PROVE  MutexOK'
<1>1. ASSUME NEW w \in Worker, Step(w),
             \/ UNCHANGED <<global, global_mutex>> \/ Unlocked \/ access[w].cur # NoValue,
             access'[w].cur = NoValue
      PROVE  MutexOK'
  <2> SUFFICES ASSUME NEW u \in Worker, access'[u].cur # NoValue
               PROVE  /\ global_mutex' = u
                      /\ Current(u)'.op = "atomic"
                      /\ Effective(LaneOf(u)') # Overflow
                      /\ CanAtomic(global', Effective(LaneOf(u)'), Current(u)'.len, Current(u)'.rmw)
                      /\ access'[u].cur = Value(global', Effective(LaneOf(u)'), Current(u)'.len)
    BY <1>1, StepResult DEF MutexOK
  <2>1. u # w
    BY <1>1
  <2>2. /\ global_mutex = u /\ UNCHANGED <<global, global_mutex>>
        /\ access'[u] = access[u] /\ Current(u)' = Current(u) /\ LaneOf(u)' = LaneOf(u)
    BY <1>1, <2>1, MutexOthers
  <2> QED  BY <2>2 DEF MutexOK
<1>2. ASSUME NEW w \in Worker, Step(w)  PROVE MutexOK'
  <2>1. CASE StartWorker(w) \/ LimitReached(w) \/ EndWorker(w)
    <3>1. UNCHANGED <<global, global_mutex>> /\ access' = access
      BY <2>1 DEF StartWorker, LimitReached, EndWorker, memory
    <3>2. access[w] = NoAccess
      BY <2>1 DEF StartWorker, LimitReached, EndWorker, Looping, ControlOK, InInstruction
    <3> QED  BY <1>1, <1>2, <3>1, <3>2 DEF NoAccess
  <2>2. CASE Execute(w)
    <3>1. access[w] = NoAccess /\ UNCHANGED <<global, global_mutex>>
      BY <2>2 DEF Execute, Looping
    <3>2. PICK c \in Cta :
            access' = access \/ access' = [access EXCEPT ![w] = [cta |-> c, lane |-> 1, cur |-> NoValue]]
      BY <2>2 DEF Execute
    <3>3. access'[w].cur = NoValue
      BY <3>1, <3>2 DEF NoAccess, TypeOK, AccessType
    <3> QED  BY <1>1, <1>2, <3>1, <3>3
  <2>3. CASE AddressOverflows(w) \/ LoadLane(w) \/ StoreLane(w) \/ AtomicReads(w) \/ AtomicWrites(w)
    <3>1. access[w] # NoAccess /\ launch' = launch
      BY <2>3, LaneCases DEF control
    <3>2. \/ UNCHANGED <<global, global_mutex>> \/ Unlocked \/ access[w].cur # NoValue
      BY <2>3 DEF AddressOverflows, StoreLane, LoadLane, AtomicReads, AtomicWrites
    <3>3. CASE NextLane(w) \/ LaneFaults(w)
      <4>1. access'[w].cur = NoValue
        <5>1. CASE NextLane(w)
          <6>1. \/ access'[w] = [cta |-> access[w].cta, lane |-> access[w].lane + 1, cur |-> NoValue]
                \/ access'[w] = NoAccess
            BY <3>1, <5>1, NextLaneType
          <6> QED  BY <6>1 DEF NoAccess
        <5>2. CASE LaneFaults(w)
          <6>1. access'[w] = NoAccess
            BY <3>1, <5>2, LaneFaultsType
          <6> QED  BY <6>1 DEF NoAccess
        <5> QED  BY <3>3, <5>1, <5>2
      <4> QED  BY <1>1, <1>2, <3>2, <4>1
    <3>4. CASE ~(NextLane(w) \/ LaneFaults(w))
      <4>1. /\ AtomicReads(w)
            /\ CanAtomic(global, Effective(LaneOf(w)), Current(w).len, Current(w).rmw)
            /\ global_mutex' = w /\ pc' = pc /\ global' = global /\ Unlocked
            /\ Current(w).op = "atomic" /\ Effective(LaneOf(w)) # Overflow
            /\ access' = [access EXCEPT
                 ![w] = [cta |-> @.cta, lane |-> @.lane,
                         cur |-> Value(global, Effective(LaneOf(w)), Current(w).len)]]
        BY <2>3, <3>4 DEF AddressOverflows, StoreLane, LoadLane, AtomicReads, AtomicWrites, At
      <4> DEFINE v == Value(global, Effective(LaneOf(w)), Current(w).len)
      <4>2. access'[w].cta = access[w].cta /\ access'[w].lane = access[w].lane /\ access'[w].cur = v
        <5> HIDE DEF v
        <5>1. access' = [access EXCEPT ![w] = [cta |-> @.cta, lane |-> @.lane, cur |-> v]]
          BY <4>1 DEF v
        <5> QED  BY <5>1 DEF TypeOK, AccessType
      <4>3. Current(w)' = Current(w) /\ LaneOf(w)' = LaneOf(w)
        BY <3>1, <4>1, <4>2 DEF Current, LaneOf
      <4>4. \A u \in Worker : u # w => access'[u].cur = NoValue
        <5> SUFFICES ASSUME NEW u \in Worker, u # w, access'[u].cur # NoValue  PROVE FALSE
          OBVIOUS
        <5>1. global_mutex = u
          BY <1>2, <4>1, MutexOthers
        <5> QED  BY <4>1, <5>1, Owners DEF Unlocked, TypeOK
      <4>5. Worker' = Worker
        BY <3>1 DEF Worker
      <4> SUFFICES ASSUME NEW u \in Worker, access'[u].cur # NoValue
                   PROVE  /\ global_mutex' = u
                          /\ Current(u)'.op = "atomic"
                          /\ Effective(LaneOf(u)') # Overflow
                          /\ CanAtomic(global', Effective(LaneOf(u)'), Current(u)'.len, Current(u)'.rmw)
                          /\ access'[u].cur = Value(global', Effective(LaneOf(u)'), Current(u)'.len)
        BY <4>5 DEF MutexOK
      <4>6. u = w
        BY <4>4
      <4> QED  BY <4>1, <4>2, <4>3, <4>6
    <3> QED  BY <3>3, <3>4
  <2> QED  BY <1>2, <2>1, <2>2, <2>3 DEF Step
<1>3. CASE ~(\E w \in Worker : Step(w))
  <2>1. UNCHANGED State
    BY <1>3 DEF Next, Done, vars, control, State, Refused, RunResult, MergeFault, MergeClean, Untouched
  <2> QED  BY <2>1 DEF State, memory, MutexOK, Worker, Current, LaneOf
<1> QED  BY <1>2, <1>3

LEMMA InitControl == ASSUME Init, TypeOK PROVE ControlOK /\ MutexOK
<1>1. \A w \in Worker : access[w] = NoAccess /\ Ending(w) /\ thread[w] = "new"
  BY DEF Init, Ending
<1>2. \A c \in Cta : Within(c)
  <2> SUFFICES ASSUME NEW c \in Cta  PROVE Within(c)
    OBVIOUS
  <2>1. pc[c] = 1 /\ c \notin waiting /\ launch.prog[c] \in Seq(Instruction)
        /\ Len(launch.prog[c]) \in Nat
    BY LaunchFacts DEF Init
  <2>2. \A n \in DOMAIN launch.prog[c] : 1 <= n
    BY <2>1
  <2>3. 1 <= Len(launch.prog[c]) + 1
    BY <2>1
  <2> QED  BY <2>1, <2>2, <2>3 DEF Within
<1> QED  BY <1>1, <1>2 DEF ControlOK, MutexOK, AllNew, NoAccess

IndInv == TypeOK /\ ControlOK /\ MutexOK

LEMMA IndInit == Init => IndInv
BY InitType, InitControl DEF IndInv

LEMMA IndStep == IndInv /\ [Next]_vars => IndInv'
<1> SUFFICES ASSUME IndInv, [Next]_vars  PROVE IndInv'
  OBVIOUS
<1>1. TypeOK /\ ControlOK /\ MutexOK
  BY DEF IndInv
<1>2. TypeOK'
  BY <1>1, TypeStep
<1> QED  BY <1>1, <1>2, ControlStep, MutexStep DEF IndInv

\* The variables stay in their types, and a worker is in one instruction of a CTA of
\* its own; only the worker that holds the mutex of the buffer is between the two
\* halves of an atomic, and nobody changes the bytes it has read meanwhile
\* (mem_ldst_atom_core).
THEOREM AtomicsAreAtomic == FairSpec => [](TypeOK /\ ControlOK /\ MutexOK)
<1>1. FairSpec => []IndInv
  BY IndInit, IndStep, PTL DEF FairSpec
<1>2. IndInv => TypeOK /\ ControlOK /\ MutexOK
  BY DEF IndInv
<1> QED  BY <1>1, <1>2, PTL

-----------------------------------------------------------------------------
(* The dynamic instructions.                                               *)

LEMMA FiniteImage ==
    ASSUME NEW S, IsFiniteSet(S), NEW f, DOMAIN f = S
    PROVE  IsFiniteSet({f[x] : x \in S})
<1> DEFINE T == {f[x] : x \in S}
           g == [x \in S |-> f[x]]
<1>1. g \in Surjection(S, T)
  BY DEF Surjection
<1> HIDE DEF g
<1>2. IsFiniteSet(T)
  BY <1>1, FS_Surjection
<1> QED  BY <1>2

LEMMA FiniteUnion ==
    ASSUME NEW S, IsFiniteSet(S), NEW f, DOMAIN f = S, \A x \in S : IsFiniteSet(f[x])
    PROVE  IsFiniteSet(UNION {f[x] : x \in S})
<1>1. IsFiniteSet({f[x] : x \in S})
  BY FiniteImage
<1> DEFINE T == {f[x] : x \in S}
<1>2. \A t \in T : IsFiniteSet(t)
  OBVIOUS
<1> HIDE DEF T
<1>3. IsFiniteSet(UNION T)
  BY <1>1, <1>2, FS_UNION DEF T
<1> QED  BY <1>3 DEF T

\* What Total counts, for the elements of S.
Blocks(S, f) == UNION {{x} \X (1..f[x]) : x \in S}

LEMMA FiniteBlocks ==
    ASSUME NEW S, IsFiniteSet(S), NEW f, \A x \in S : f[x] \in Nat
    PROVE  IsFiniteSet(Blocks(S, f))
<1> DEFINE g == [x \in S |-> {x} \X (1..f[x])]
<1>1. ASSUME NEW x \in S  PROVE IsFiniteSet(g[x])
  <2>1. IsFiniteSet({x}) /\ IsFiniteSet(1..f[x])
    <3>1. 1 \in Int /\ f[x] \in Int
      OBVIOUS
    <3>2. IsFiniteSet(1..f[x])
      BY <3>1, FS_Interval
    <3> QED  BY <3>2, FS_Singleton
  <2> QED  BY <2>1, FS_Product
<1>2. IsFiniteSet(UNION {g[x] : x \in S})
  <2>1. DOMAIN g = S
    OBVIOUS
  <2> HIDE DEF g
  <2> QED  BY <1>1, <2>1, FiniteUnion
<1>3. UNION {g[x] : x \in S} = Blocks(S, f)
  BY DEF Blocks
<1> QED  BY <1>2, <1>3

\* The sum over parts of a set is the sum over the set.
LEMMA TotalOfParts ==
    ASSUME NEW W, IsFiniteSet(W), NEW part, NEW count, DOMAIN count = W,
           \A w \in W : IsFiniteSet(part[w]) /\ count[w] = Cardinality(part[w]),
           \A v, w \in W : v # w => part[v] \cap part[w] = {}
    PROVE  Total(count) = Cardinality(UNION {part[w] : w \in W})
<1> DEFINE B == Blocks(W, count)
           U == UNION {part[w] : w \in W}
           g == [w \in W |-> CHOOSE b \in Bijection(1..count[w], part[w]) : TRUE]
           h == [p \in B |-> g[p[1]][p[2]]]
<1>1. \A w \in W : count[w] \in Nat
  BY FS_CardinalityType
<1>2. ASSUME NEW w \in W  PROVE g[w] \in Bijection(1..count[w], part[w])
  <2>1. ExistsBijection(1..count[w], part[w])
    BY FS_CardinalityType
  <2> QED  BY <2>1 DEF ExistsBijection
<1>3. \A p \in B : p = <<p[1], p[2]>> /\ p[1] \in W /\ p[2] \in 1..count[p[1]]
  BY DEF Blocks
<1>4. \A w \in W : \A n \in 1..count[w] : <<w, n>> \in B
  BY DEF Blocks
<1> HIDE DEF B, g
<1>5. ASSUME NEW w \in W
      PROVE  /\ \A n \in 1..count[w] : g[w][n] \in part[w]
             /\ \A m, n \in 1..count[w] : g[w][m] = g[w][n] => m = n
             /\ \A y \in part[w] : \E n \in 1..count[w] : g[w][n] = y
  <2>1. g[w] \in Bijection(1..count[w], part[w])
    BY <1>2
  <2>2. g[w] \in [1..count[w] -> part[w]]
    BY <2>1 DEF Bijection, Injection
  <2>3. \A m, n \in 1..count[w] : g[w][m] = g[w][n] => m = n
    BY <2>1, <2>2 DEF Bijection, Injection, IsInjective
  <2>4. \A y \in part[w] : \E n \in 1..count[w] : g[w][n] = y
    BY <2>1 DEF Bijection, Surjection
  <2> QED  BY <2>2, <2>3, <2>4
<1>6. h \in [B -> U]
  BY <1>3, <1>5
<1>7. ASSUME NEW p \in B, NEW q \in B, h[p] = h[q]  PROVE p = q
  <2>1. h[p] \in part[p[1]] /\ h[q] \in part[q[1]] /\ p[1] \in W /\ q[1] \in W
    BY <1>3, <1>5
  <2>2. p[1] = q[1]
    BY <1>7, <2>1
  <2>3. g[p[1]][p[2]] = g[p[1]][q[2]]
    BY <1>7, <2>2
  <2>4. p[2] \in 1..count[p[1]] /\ q[2] \in 1..count[p[1]]
    BY <1>3, <2>2
  <2>5. p[2] = q[2]
    BY <1>5, <2>1, <2>3, <2>4
  <2> QED  BY <1>3, <2>2, <2>5
<1>8. ASSUME NEW y \in U  PROVE \E p \in B : h[p] = y
  <2>1. PICK w \in W : y \in part[w]
    OBVIOUS
  <2>2. PICK n \in 1..count[w] : g[w][n] = y
    BY <1>5, <2>1
  <2>3. <<w, n>> \in B /\ h[<<w, n>>] = y
    BY <1>4, <2>2
  <2> QED  BY <2>3
<1>9. h \in Bijection(B, U)
  BY <1>6, <1>7, <1>8 DEF Bijection, Injection, Surjection, IsInjective
<1>10. IsFiniteSet(B)
  BY <1>1, FiniteBlocks DEF B
<1>11. Cardinality(U) = Cardinality(B)
  <2>1. ExistsBijection(B, U)
    BY <1>9 DEF ExistsBijection
  <2> HIDE DEF U
  <2> QED  BY <1>10, <2>1, FS_Bijection
<1>12. Total(count) = Cardinality(B)
  BY DEF Total, B, Blocks
<1> QED  BY <1>11, <1>12

\* A worker has executed what its CTAs have passed, unless one waits or jumps back,
\* and a worker that has not started has passed nothing.
NewOK ==
    \A w \in Worker : thread[w] = "new" => \A c \in Owned(w) : pc[c] = 1

PassedCount == [c \in Cta |-> pc[c] - 1]

LEMMA PassedBlocks ==
    ASSUME TypeOK, NEW w
    PROVE  /\ PassedBy(w) = Blocks(Owned(w), PassedCount)
           /\ IsFiniteSet(PassedBy(w))
           /\ \A c \in Cta : PassedCount[c] \in Nat
<1>1. \A c \in Cta : PassedCount[c] = pc[c] - 1 /\ PassedCount[c] \in Nat
  BY DEF PassedCount, TypeOK
<1>2. Owned(w) \subseteq Cta /\ IsFiniteSet(Owned(w))
  BY FiniteCtas DEF Owned
<1>3. PassedBy(w) = Blocks(Owned(w), PassedCount)
  BY <1>1, <1>2 DEF PassedBy, Blocks
<1>4. IsFiniteSet(Blocks(Owned(w), PassedCount))
  BY <1>1, <1>2, FiniteBlocks
<1> QED  BY <1>1, <1>3, <1>4

\* A CTA of the worker passes an instruction.
LEMMA PassedOneMore ==
    ASSUME TypeOK, NEW w \in Worker, NEW c \in Owned(w), launch' = launch,
           pc' = [pc EXCEPT ![c] = @ + 1]
    PROVE  Cardinality(PassedBy(w)') = Cardinality(PassedBy(w)) + 1
<1>1. c \in Cta /\ pc[c] \in Nat \ {0} /\ Owned(w)' = Owned(w) /\ Owned(w) \subseteq Cta
  BY DEF Owned, TypeOK
<1>2. pc'[c] = pc[c] + 1 /\ \A d \in Cta : d # c => pc'[d] = pc[d]
  BY <1>1 DEF TypeOK
<1>3. \A d, n : <<d, n>> \in PassedBy(w) <=> d \in Owned(w) /\ n \in 1..(pc[d] - 1)
  BY DEF PassedBy
<1>4. \A d, n : <<d, n>> \in PassedBy(w)' <=> d \in Owned(w) /\ n \in 1..(pc'[d] - 1)
  BY <1>1 DEF PassedBy
<1>5. /\ \A p \in PassedBy(w) : p = <<p[1], p[2]>>
      /\ \A p \in PassedBy(w)' : p = <<p[1], p[2]>>
  BY DEF PassedBy
<1>6. \A n : n \in 1..(pc'[c] - 1) <=> n \in 1..(pc[c] - 1) \/ n = pc[c]
  BY <1>1, <1>2
<1>7. PassedBy(w)' = PassedBy(w) \cup {<<c, pc[c]>>}
  <2>1. \A d, n : <<d, n>> \in PassedBy(w)' <=> <<d, n>> \in PassedBy(w) \/ <<d, n>> = <<c, pc[c]>>
    BY <1>1, <1>2, <1>3, <1>4, <1>6
  <2> QED  BY <1>5, <2>1
<1>8. <<c, pc[c]>> \notin PassedBy(w)
  BY <1>1, <1>3
<1> QED  BY <1>7, <1>8, PassedBlocks, FS_AddElement

LEMMA InitCount == ASSUME Init, TypeOK PROVE CountOK /\ NewOK
<1>1. NewOK
  BY DEF Init, NewOK, Owned
<1>2. ASSUME NEW w \in Worker  PROVE executed[w] = Cardinality(PassedBy(w))
  <2>1. PassedBy(w) = {}
    BY DEF Init, PassedBy, Owned
  <2> QED  BY <1>2, <2>1, FS_EmptySet DEF Init
<1> QED  BY <1>1, <1>2 DEF CountOK

LEMMA CountExecute ==
    ASSUME TypeOK, ControlOK, CountOK, NEW w \in Worker, Execute(w),
           \A c \in Owned(w) : Straight(c)
    PROVE  executed'[w] = Cardinality(PassedBy(w)')
<1>1. PICK c \in Cta : /\ Picked(w, c)
                       /\ LET i == launch.prog[c][pc[c]]
                          IN \/ /\ i.op = "alu"
                                /\ pc' = [pc EXCEPT ![c] = @ + 1]
                                /\ Retire(w)
                             \/ UNCHANGED <<pc, executed>>
                             \/ i.op \in {"wait", "loop"}
  BY DEF Execute
<1>2. launch' = launch /\ Looping(w)
  BY DEF Execute
<1>3. c \in Owned(w) /\ pc[c] \in DOMAIN launch.prog[c]
  BY <1>1, <1>2, PickedFacts
<1>4. executed[w] = Cardinality(PassedBy(w))
  BY DEF CountOK
<1>5. CASE pc' = [pc EXCEPT ![c] = @ + 1] /\ Retire(w)
  <2>1. executed'[w] = executed[w] + 1
    BY <1>5 DEF Retire, TypeOK
  <2> QED  BY <1>2, <1>3, <1>4, <1>5, <2>1, PassedOneMore
<1>6. CASE UNCHANGED <<pc, executed>>
  BY <1>2, <1>4, <1>6 DEF PassedBy, Owned
<1>7. launch.prog[c][pc[c]].op \notin {"wait", "loop"}
  BY <1>3 DEF Straight
<1> QED  BY <1>1, <1>5, <1>6, <1>7

LEMMA CountLanes ==
    ASSUME TypeOK, ControlOK, CountOK, NEW w \in Worker,
           AddressOverflows(w) \/ LoadLane(w) \/ StoreLane(w) \/ AtomicReads(w) \/ AtomicWrites(w),
           \A c \in Owned(w) : Straight(c)
    PROVE  executed'[w] = Cardinality(PassedBy(w)')
<1>1. access[w] # NoAccess /\ launch' = launch
  BY LaneCases DEF control
<1>2. access[w].cta \in Owned(w) /\ executed[w] = Cardinality(PassedBy(w))
  BY <1>1, LaneFacts DEF CountOK
<1>3. \/ UNCHANGED <<pc, executed>>
      \/ /\ pc' = [pc EXCEPT ![access[w].cta] = @ + 1]
         /\ executed' = [executed EXCEPT ![w] = @ + 1]
  BY <1>1, LaneCases, NextLaneType, LaneFaultsType
<1>4. CASE UNCHANGED <<pc, executed>>
  BY <1>1, <1>2, <1>4 DEF PassedBy, Owned
<1>5. CASE /\ pc' = [pc EXCEPT ![access[w].cta] = @ + 1]
           /\ executed' = [executed EXCEPT ![w] = @ + 1]
  <2>1. executed'[w] = executed[w] + 1
    BY <1>5 DEF TypeOK
  <2>2. Cardinality(PassedBy(w)') = Cardinality(PassedBy(w)) + 1
    <3> SUFFICES ASSUME NEW c, c = access[w].cta
                 PROVE  Cardinality(PassedBy(w)') = Cardinality(PassedBy(w)) + 1
      OBVIOUS
    <3> QED  BY <1>1, <1>2, <1>5, PassedOneMore
  <2> QED  BY <1>2, <2>1, <2>2
<1> QED  BY <1>3, <1>4, <1>5

LEMMA CountStep ==
    ASSUME IndInv, CountOK, NewOK, [Next]_vars
    PROVE  CountOK' /\ NewOK'
<1> USE DEF IndInv
<1>1. CASE UNCHANGED State
  BY <1>1 DEF State, CountOK, NewOK, Worker, Owned, Straight, PassedBy
<1>2. ASSUME NEW w \in Worker, Step(w)  PROVE CountOK' /\ NewOK'
  <2>1. launch' = launch /\ Worker' = Worker /\ \A u : Owned(u)' = Owned(u)
    BY <1>2, StepResult DEF Owned
  <2>2. ASSUME NEW u \in Worker, u # w
        PROVE  /\ \A c \in Owned(u) : pc'[c] = pc[c]
               /\ executed'[u] = executed[u] /\ thread'[u] = thread[u]
    <3>1. OthersAlone(w)
      BY <1>2, StepKeeps
    <3>2. \A c \in Owned(u) : c \in Cta \ Owned(w)
      BY <2>2, Owners DEF TypeOK
    <3> QED  BY <2>2, <3>1, <3>2 DEF OthersAlone, OthersKept
  <2>3. thread'[w] # "new"
    <3>1. thread[w] = "running" \/ StartWorker(w)
      BY <1>2 DEF Step, LimitReached, Execute, EndWorker, AddressOverflows, LoadLane,
                  StoreLane, AtomicReads, AtomicWrites, At, Looping
    <3>2. ASSUME NEW kind, NEW c, Ends(w, kind, c)  PROVE thread'[w] # "new"
      BY <3>2 DEF Ends, TypeOK
    <3>3. CASE StartWorker(w)
      BY <3>2, <3>3 DEF StartWorker, TypeOK
    <3>4. CASE LimitReached(w) \/ EndWorker(w)
      BY <3>1, <3>2, <3>3, <3>4 DEF LimitReached, EndWorker, TypeOK
    <3>5. CASE Execute(w)
      <4>1. PICK c \in Cta : thread' = thread \/ Ends(w, "trap", c)
        BY <3>5 DEF Execute, Retire
      <4> QED  BY <3>1, <3>2, <3>3, <4>1
    <3>6. CASE NextLane(w) \/ LaneFaults(w) \/ UNCHANGED <<pc, memory_events, executed, thread, fault>>
      BY <3>1, <3>2, <3>3, <3>6 DEF NextLane, LaneFaults, Retire
    <3> QED  BY <1>2, <3>3, <3>4, <3>5, <3>6, LaneCases DEF Step
  <2>4. NewOK'
    BY <2>1, <2>2, <2>3 DEF NewOK
  <2>5. ASSUME \A c \in Owned(w) : Straight(c)  PROVE executed'[w] = Cardinality(PassedBy(w)')
    <3>1. CASE StartWorker(w) \/ LimitReached(w) \/ EndWorker(w)
      <4>1. pc' = pc /\ executed' = executed
        BY <3>1 DEF StartWorker, LimitReached, EndWorker
      <4>2. executed[w] = Cardinality(PassedBy(w))
        BY <2>5 DEF CountOK
      <4> QED  BY <2>1, <4>1, <4>2 DEF PassedBy
    <3> QED  BY <1>2, <2>5, <3>1, CountExecute, CountLanes DEF Step
  <2>6. ASSUME NEW u \in Worker, u # w, \A c \in Owned(u) : Straight(c)
        PROVE  executed'[u] = Cardinality(PassedBy(u)')
    <3>1. PassedBy(u)' = PassedBy(u)
      BY <2>1, <2>2, <2>6 DEF PassedBy
    <3> QED  BY <2>2, <2>6, <3>1 DEF CountOK
  <2>7. \A c : Straight(c)' <=> Straight(c)
    BY <2>1 DEF Straight
  <2>8. CountOK'
    BY <2>1, <2>5, <2>6, <2>7 DEF CountOK
  <2> QED  BY <2>4, <2>8
<1>3. CASE ~(\E w \in Worker : Step(w))
  <2>1. UNCHANGED State
    BY <1>3 DEF Next, Done, vars, control, State, Refused, RunResult, MergeFault, MergeClean, Untouched
  <2> QED  BY <1>1, <2>1
<1> QED  BY <1>2, <1>3

-----------------------------------------------------------------------------
(* The merged result.                                                      *)

\* The result is set once, and nothing happens after it.
LEMMA Frozen ==
    ASSUME IndInv, [Next]_vars, result # NoResult
    PROVE  UNCHANGED vars
<1>1. ~Result
  BY DEF Result, Refused, RunResult, MergeFault, MergeClean, Joined
<1>2. ~(\E w \in Worker : Step(w))
  BY StepResult DEF IndInv
<1> QED  BY <1>1, <1>2 DEF Next, Done, Result

\* A step that sets the result changes nothing else.
LEMMA SetsResult ==
    ASSUME IndInv, [Next]_vars, result' # NoResult, result = NoResult
    PROVE  Result /\ UNCHANGED State
<1>1. ~(\E w \in Worker : Step(w))
  BY StepResult DEF IndInv
<1>2. Result
  BY <1>1 DEF Next, Done, Result, vars, control
<1>3. Untouched
  BY <1>2 DEF Result, Refused, RunResult, MergeFault, MergeClean
<1> QED  BY <1>2, <1>3 DEF Untouched, State

LEMMA WinnerFaulted ==
    ASSUME TypeOK, Faulted # {}
    PROVE  Winner \in Faulted
<1> DEFINE E == {executed[w] : w \in Faulted}
<1>1. Faulted \subseteq Nat /\ \A w \in Faulted : w \in Worker /\ executed[w] \in Nat
  BY Owners DEF Faulted, TypeOK
<1>2. PICK e \in E : \A f \in E : e <= f
  <2>1. E \subseteq Nat /\ E # {}
    BY <1>1
  <2> HIDE DEF E
  <2> QED  BY <2>1, Least
<1> DEFINE F == {w \in Faulted : executed[w] = e}
<1>3. PICK w \in F : \A v \in F : w <= v
  <2>1. F \subseteq Nat /\ F # {}
    BY <1>1, <1>2
  <2> HIDE DEF F
  <2> QED  BY <2>1, Least
<1>4. \A v \in Faulted : executed[w] < executed[v] \/ (executed[w] = executed[v] /\ w <= v)
  <2> SUFFICES ASSUME NEW v \in Faulted
               PROVE  executed[w] < executed[v] \/ (executed[w] = executed[v] /\ w <= v)
    OBVIOUS
  <2>1. executed[w] = e /\ executed[w] \in Nat /\ executed[v] \in Nat /\ e <= executed[v]
    BY <1>1, <1>2, <1>3
  <2>2. executed[v] = e => w <= v
    BY <1>3
  <2> QED  BY <2>1, <2>2
<1>5. w \in Faulted
  BY <1>3
<1> QED  BY <1>4, <1>5 DEF Winner

\* The CTAs of all workers in order.
LEMMA AllCtasInOrder ==
    ASSUME launch \in Launches
    PROVE  CtasOf(Worker) = [n \in 1..NumCtas |-> n - 1]
<1> DEFINE R == {p \in Cta \X Cta : p[1] < p[2]}
<1>1. UNION {Owned(w) : w \in Worker} = Cta
  BY Owners DEF Owned
<1>2. CtasOf(Worker) = InOrder(Cta, R)
  BY <1>1 DEF CtasOf
<1>3. IsFiniteSet(Cta) /\ Cardinality(Cta) = NumCtas /\ NumCtas \in Nat /\ Cta \subseteq Nat
  BY FiniteCtas, ParallelAssumption DEF Cta
<1>4. StrictOrder(Cta, R)
  BY <1>3 DEF StrictOrder
<1>5. \A c \in Cta : Rank(Cta, R, c) = c
  <2> SUFFICES ASSUME NEW c \in Cta  PROVE Rank(Cta, R, c) = c
    OBVIOUS
  <2>1. {d \in Cta : <<d, c>> \in R} = 0..(c - 1)
    BY <1>3 DEF Cta
  <2>2. c \in Nat /\ c - 1 \in Int /\ 0 \in Int
    BY <1>3
  <2>3. Cardinality(0..(c - 1)) = c
    BY <2>2, FS_Interval
  <2> QED  BY <2>1, <2>3 DEF Rank
<1> HIDE DEF R
<1>6. /\ InOrder(Cta, R) \in [1..NumCtas -> Cta]
      /\ \A c \in Cta : InOrder(Cta, R)[c + 1] = c
  BY <1>3, <1>4, <1>5, InOrderFacts
<1>7. \A n \in 1..NumCtas : n - 1 \in Cta /\ (n - 1) + 1 = n
  BY <1>3 DEF Cta
<1>8. \A n \in 1..NumCtas : InOrder(Cta, R)[n] = n - 1
  BY <1>6, <1>7
<1> QED  BY <1>2, <1>6, <1>8

\* In a run that ended without a fault every CTA has passed all its instructions, and
\* no program waits, jumps back or traps.
LEMMA CleanEnd ==
    ASSUME IndInv, AllEnded, \A w \in Worker : fault[w] = NoFault
    PROVE  /\ AllFinished
           /\ \A c \in Cta : Straight(c) /\ pc[c] = Len(launch.prog[c]) + 1
<1> USE DEF IndInv
<1>1. ASSUME NEW c \in Cta  PROVE Finished(c) /\ Straight(c) /\ pc[c] = Len(launch.prog[c]) + 1
  <2>1. OwnerOf(c) \in Worker /\ c \in Owned(OwnerOf(c))
    BY Owners DEF TypeOK
  <2>2. Finished(c)
    <3>1. Ending(OwnerOf(c)) /\ thread[OwnerOf(c)] = "ended" /\ fault[OwnerOf(c)] = NoFault
      BY <2>1 DEF ControlOK, AllEnded
    <3> QED  BY <2>1, <3>1 DEF Ending
  <2>3. Within(c) /\ pc[c] \in Nat /\ launch.prog[c] \in Seq(Instruction)
        /\ Len(launch.prog[c]) \in Nat
    BY LaunchFacts DEF ControlOK, TypeOK
  <2>4. pc[c] = Len(launch.prog[c]) + 1
    BY <2>2, <2>3 DEF Within, Finished
  <2>5. \A n \in DOMAIN launch.prog[c] : ~(pc[c] <= n)
    BY <2>3, <2>4
  <2>6. Straight(c)
    BY <2>3, <2>5 DEF Straight, Within
  <2> QED  BY <2>2, <2>4, <2>6
<1> QED  BY <1>1 DEF AllFinished

LEMMA CleanCount ==
    ASSUME IndInv, CountOK, AllEnded, \A w \in Worker : fault[w] = NoFault
    PROVE  /\ Total(executed) = Total([c \in Cta |-> Len(launch.prog[c])])
           /\ launch.workers = 1 => executed[0] = Total([c \in Cta |-> Len(launch.prog[c])])
<1> USE DEF IndInv
<1> DEFINE length == [c \in Cta |-> Len(launch.prog[c])]
           part == [w \in Worker |-> PassedBy(w)]
<1>1. \A c \in Cta : pc[c] = Len(launch.prog[c]) + 1 /\ Len(launch.prog[c]) \in Nat /\ Straight(c)
  BY CleanEnd, LaunchFacts DEF TypeOK
<1>2. \A w \in Worker : executed[w] = Cardinality(PassedBy(w)) /\ IsFiniteSet(PassedBy(w))
  <2> SUFFICES ASSUME NEW w \in Worker
               PROVE  executed[w] = Cardinality(PassedBy(w)) /\ IsFiniteSet(PassedBy(w))
    OBVIOUS
  <2>1. \A c \in Owned(w) : Straight(c)
    BY <1>1 DEF Owned
  <2> QED  BY <2>1, PassedBlocks DEF CountOK
<1>3. \A w : PassedBy(w) = UNION {{c} \X (1..length[c]) : c \in Owned(w)}
  BY <1>1 DEF PassedBy, Owned
<1>4. \A v, w \in Worker : v # w => part[v] \cap part[w] = {}
  <2> SUFFICES ASSUME NEW v \in Worker, NEW w \in Worker, NEW p \in PassedBy(v), p \in PassedBy(w)
               PROVE  v = w
    OBVIOUS
  <2>1. p[1] \in Owned(v) /\ p[1] \in Owned(w)
    BY DEF PassedBy
  <2> QED  BY <2>1, Owners DEF TypeOK
<1>5. IsFiniteSet(Worker)
  <2>1. launch.workers \in Nat
    BY LaunchFacts DEF TypeOK
  <2> QED  BY <2>1, FS_Interval DEF Worker
<1>6. Total(executed) = Cardinality(UNION {part[w] : w \in Worker})
  <2>1. DOMAIN executed = Worker
    BY DEF TypeOK
  <2>2. \A w \in Worker : IsFiniteSet(part[w]) /\ executed[w] = Cardinality(part[w])
    BY <1>2
  <2> HIDE DEF part
  <2> QED  BY <1>4, <1>5, <2>1, <2>2, TotalOfParts
<1>7. UNION {part[w] : w \in Worker} = UNION {{c} \X (1..length[c]) : c \in Cta}
  <2>1. \A c \in Cta : OwnerOf(c) \in Worker /\ c \in Owned(OwnerOf(c))
    BY Owners DEF TypeOK
  <2>2. \A w : Owned(w) \subseteq Cta
    BY DEF Owned
  <2> HIDE DEF length
  <2> QED  BY <1>3, <2>1, <2>2
<1>8. Total(length) = Cardinality(UNION {{c} \X (1..length[c]) : c \in Cta})
  BY DEF Total
<1>9. ASSUME launch.workers = 1  PROVE executed[0] = Total(length)
  <2>1. 0 \in Worker /\ Owned(0) = Cta
    <3>1. Worker = {0}
      BY <1>9 DEF Worker
    <3> QED  BY <3>1, Owners DEF TypeOK, Owned
  <2> HIDE DEF length
  <2> QED  BY <1>2, <1>3, <1>8, <2>1
<1> QED  BY <1>6, <1>7, <1>8, <1>9

LEMMA InitClean == Init => CleanIffAllRan
BY DEF Init, CleanIffAllRan

LEMMA CleanStep ==
    ASSUME IndInv, CountOK, NewOK, CleanIffAllRan, [Next]_vars
    PROVE  CleanIffAllRan'
<1> USE DEF IndInv
<1>1. CASE result # NoResult
  BY <1>1, Frozen DEF vars, control, CleanIffAllRan, AllFinished, Finished, Worker
<1>2. CASE result' = NoResult
  BY <1>2 DEF CleanIffAllRan
<1>3. CASE result = NoResult /\ result' # NoResult
  <2>1. Result /\ UNCHANGED State
    BY <1>3, SetsResult
  <2> DEFINE NoFaults == \A w \in Worker : fault[w] = NoFault
             length == [c \in Cta |-> Len(launch.prog[c])]
  <2>2. /\ AllFinished' <=> AllFinished
        /\ (\A w \in Worker' : fault'[w] = NoFault) <=> NoFaults
        /\ launch' = launch
    BY <2>1 DEF State, AllFinished, Finished, Worker
  <2>3. AllFinished /\ ~launch.fast => NoFaults
    <3> SUFFICES ASSUME AllFinished, NEW w \in Worker, fault[w] # NoFault  PROVE launch.fast
      OBVIOUS
    <3>1. Ending(w)
      BY DEF ControlOK
    <3>2. \A c \in Owned(w) : Finished(c)
      BY DEF AllFinished, Owned
    <3> QED  BY <3>1, <3>2 DEF Ending
  <2>4. CASE Refused
    <3>1. result'.fault = [kind |-> "internal", cta |-> 0] /\ launch.fast /\ AllNew
      BY <2>4 DEF Refused, AllNew
    <3>2. result'.fault # NoFault
      <4>1. [kind |-> "internal", cta |-> 0] \in Fault
        BY ParallelAssumption DEF Fault, Cta
      <4> QED  BY <3>1, <4>1, ParallelAssumption
    <3>3. ~AllFinished
      <4>1. 0 \in Cta
        BY ParallelAssumption DEF Cta
      <4>2. pc[0] = 1
        BY <3>1, <4>1, Owners DEF NewOK, AllNew, TypeOK
      <4>3. Len(launch.prog[0]) \in Nat \ {0}
        BY <4>1, LaunchFacts DEF TypeOK
      <4>4. ~Finished(0)
        BY <4>2, <4>3 DEF Finished
      <4> QED  BY <4>1, <4>4 DEF AllFinished
    <3> QED  BY <2>2, <3>2, <3>3 DEF CleanIffAllRan
  <2>5. CASE ~Refused
    <3>1. RunResult \/ MergeFault \/ MergeClean
      BY <2>1, <2>5 DEF Result
    <3>2. AllEnded
      BY <3>1 DEF RunResult, MergeFault, MergeClean, Joined, AllEnded
    <3>3. NoFaults => /\ AllFinished
                      /\ Total(executed) = Total(length)
                      /\ launch.workers = 1 => executed[0] = Total(length)
      BY <3>2, CleanEnd, CleanCount
    <3>4. launch \in Launches /\ launch.workers \in Nat \ {0}
      BY LaunchFacts DEF TypeOK
    <3>5. CtasOf(Worker) = [n \in 1..NumCtas |-> n - 1]
      BY <3>4, AllCtasInOrder
    <3> HIDE DEF length
    <3>6. /\ result'.fault = NoFault <=> NoFaults
          /\ NoFaults => result'.ctas = CtasOf(Worker) /\ result'.dynamic = Total(length)
      <4>1. CASE RunResult
        <5>1. result'.fault = fault[0] /\ result'.ctas = CtasOf({0}) /\ result'.dynamic = executed[0]
              /\ launch.workers = 1
          BY <4>1 DEF RunResult
        <5>2. Worker = {0}
          BY <5>1 DEF Worker
        <5> QED  BY <3>3, <5>1, <5>2
      <4>2. CASE MergeFault
        <5>1. Winner \in Faulted
          BY <4>2, WinnerFaulted DEF MergeFault
        <5>2. result'.fault = fault[Winner]
          BY <4>2 DEF MergeFault
        <5> QED  BY <5>1, <5>2 DEF Faulted
      <4>3. CASE MergeClean
        <5>1. /\ result'.fault = NoFault /\ result'.ctas = CtasOf(Worker)
              /\ result'.dynamic = Total(executed)
          BY <4>3 DEF MergeClean
        <5>2. NoFaults
          BY <4>3 DEF MergeClean, Faulted
        <5> QED  BY <3>3, <5>1, <5>2
      <4> QED  BY <3>1, <4>1, <4>2, <4>3
    <3>7. /\ result'.fault = NoFault <=> AllFinished /\ NoFaults
          /\ AllFinished /\ ~launch.fast => result'.fault = NoFault
          /\ result'.fault = NoFault =>
               result'.ctas = [n \in 1..NumCtas |-> n - 1] /\ result'.dynamic = Total(length)
      BY <2>3, <3>3, <3>5, <3>6
    <3> QED  BY <2>2, <3>7 DEF CleanIffAllRan, length
  <2> QED  BY <2>4, <2>5
<1> QED  BY <1>1, <1>2, <1>3

\* A launch is reported clean exactly when every CTA ran to its end, for any number
\* of workers and any interleaving; its result then holds every CTA in order and
\* counts every instruction once (run_result_parallel).
THEOREM CleanIsComplete == FairSpec => []CleanIffAllRan
<1> DEFINE Inv == IndInv /\ CountOK /\ NewOK /\ CleanIffAllRan
<1>1. Init => Inv
  BY IndInit, InitCount, InitClean DEF IndInv
<1>2. Inv /\ [Next]_vars => Inv'
  BY IndStep, CountStep, CleanStep
<1>3. Inv => CleanIffAllRan
  OBVIOUS
<1> QED  BY <1>1, <1>2, <1>3, PTL DEF FairSpec

-----------------------------------------------------------------------------
(* Which accesses the memory service accepts.                              *)

LEMMA BufferLength ==
    ASSUME TypeOK
    PROVE  /\ Len(global) = Len(launch.global) /\ Len(global) \in Nat
           /\ DOMAIN global = 1..Len(global)
           /\ global = <<>> <=> launch.global = <<>>
<1> DEFINE n == Len(launch.global)
           X == {global[i] : i \in 1..n}
<1>1. n \in Nat /\ DOMAIN launch.global = 1..n /\ launch.global \in Seq(0..(ByteBase - 1))
  BY LaunchFacts DEF TypeOK
<1>2. global \in [1..n -> X]
  BY <1>1 DEF TypeOK, BufferType
<1>3. global \in Seq(X) /\ DOMAIN global = 1..n
  BY <1>1, <1>2
<1> HIDE DEF X
<1>4. Len(global) = n
  BY <1>1, <1>3
<1> QED  BY <1>1, <1>3, <1>4

LEMMA NaturalAlignment ==
    ASSUME NEW n \in Widths
    PROVE  natural_alignment(n) = n /\ Min({n, 16}) = n /\ n \in Nat \ {0}
<1> DEFINE S == {m \in {1, 2, 4, 8, 16} : m = 1 \/ m <= n}
<1>1. n \in S /\ \A m \in S : m \in Nat /\ m <= n
  BY DEF Widths
<1>2. \A m \in S : (\A k \in S : m >= k) => m = n
  BY <1>1 DEF Widths
<1>3. \E m \in S : \A k \in S : m >= k
  BY <1>1
<1>4. Max(S) = n
  <2> HIDE DEF S
  <2> QED  BY <1>2, <1>3 DEF Max
<1>5. natural_alignment(n) = n
  BY <1>4 DEF natural_alignment
<1>6. Min({n, 16}) = n
  <2>1. \A k \in {n, 16} : n <= k
    BY DEF Widths
  <2>2. \A k \in {n, 16} : (\A m \in {n, 16} : k <= m) => k = n
    BY DEF Widths
  <2> QED  BY <2>1, <2>2 DEF Min
<1> QED  BY <1>5, <1>6 DEF Widths

\* The distance of an address from itself less a whole word is the address.
LEMMA WrapOnce ==
    ASSUME NEW A \in Nat \ {0}, NEW x \in 0..(A - 1)
    PROVE  x % A = x /\ (x - A) % A = x
<1> DEFINE q == (x - A) \div A
           r == (x - A) % A
<1>1. x % A = x
  OBVIOUS
<1>2. q \in Int /\ r \in 0..(A - 1) /\ x - A = A * q + r
  OBVIOUS
<1> HIDE DEF q, r
<1>3. q = -1
  <2>1. q >= 0 => A * q >= 0
    BY <1>2
  <2>2. q <= -2 => A * q <= A * (-2)
    BY <1>2
  <2> QED  BY <1>2, <2>1, <2>2
<1>4. r = x
  BY <1>2, <1>3
<1> QED  BY <1>1, <1>4 DEF r

\* The offset of ldg and stg is the address, if the address is not refused.
LEMMA GlobalOffset ==
    ASSUME TypeOK, NEW x \in 0..(AddrWords - 1), NEW n \in Widths
    PROVE  InGlobal(global, x, n) <=> x + n <= Len(global) /\ x % n = 0
<1> DEFINE A == AddrWords
           s == Signed(x, A)
           target == checked_add(GlobalBase, s)
           off == (target - GlobalBase) % A
<1>1. A \in Nat \ {0} /\ GlobalBase \in 1..(A - 1) /\ x \in Nat /\ n \in Nat \ {0}
  <2>1. n \in Nat \ {0}
    BY DEF Widths
  <2> QED  BY <2>1, MemoryAssumption
<1>2. Len(global) \in Nat /\ Len(global) < A \div 2 /\ GlobalBase + Len(global) <= A
  BY BufferLength, LaunchFacts DEF TypeOK
<1>3. s = x \/ s = x - A
  BY <1>1 DEF Signed
<1>4. x < A \div 2 => s = x
  BY <1>1 DEF Signed
<1>5. target # Overflow => off = x
  <2>1. target # Overflow => target = GlobalBase + s
    BY DEF checked_add
  <2>2. target # Overflow => target - GlobalBase = s
    BY <1>1, <1>3, <2>1
  <2>3. x % A = x /\ (x - A) % A = x
    BY <1>1, WrapOnce
  <2> HIDE DEF target, s
  <2> QED  BY <1>3, <2>2, <2>3
<1>6. x + n <= Len(global) => target # Overflow
  <2> SUFFICES ASSUME x + n <= Len(global)  PROVE target # Overflow
    OBVIOUS
  <2>1. s = x
    BY <1>1, <1>2, <1>4
  <2>2. GlobalBase + x \in 0..(A - 1)
    BY <1>1, <1>2
  <2>3. target = GlobalBase + x
    BY <2>1, <2>2 DEF checked_add
  <2> QED  BY <1>1, <2>3 DEF Overflow
<1>7. natural_alignment(n) = n /\ Min({n, 16}) = n
  BY NaturalAlignment
<1>8. InGlobal(global, x, n) <=>
        target # Overflow /\ off % n = 0 /\ off <= Len(global) /\ n <= Len(global) - off
  BY <1>7 DEF InGlobal, InBuffer
<1> HIDE DEF target, off
<1> QED  BY <1>1, <1>2, <1>5, <1>6, <1>8

\* The checks of the handlers accept the accesses that lie in the buffer, no more and
\* no less.
Accepted(i, l) ==
    /\ Effective(l) # Overflow
    /\ i.op = "atomic" => CanAtomic(global, Effective(l), i.len, i.rmw)
    /\ i.op # "atomic" => CanLoadStore(global, Effective(l), i.len)

LEMMA AcceptsInside ==
    ASSUME TypeOK, launch.global # <<>>, NEW i \in Instruction, NEW l \in Lane, i.len \in Widths
    PROVE  Accepted(i, l) <=> Inside([op |-> i, lane |-> l])
<1> DEFINE x == l.addr + l.off
           a == [op |-> i, lane |-> l]
<1>1. First(a) = x /\ x \in Int /\ i.len \in Nat \ {0}
  BY EffectiveSum, NaturalAlignment DEF First
<1>2. Len(global) = Len(launch.global) /\ Len(global) \in Nat /\ global # <<>>
  BY BufferLength
<1>3. Len(global) < AddrWords
  <2>1. AddrWords \in Nat \ {0} /\ Len(global) < AddrWords \div 2
    BY <1>2, MemoryAssumption, LaunchFacts DEF TypeOK
  <2> QED  BY <1>2, <2>1
<1>4. CASE Effective(l) = Overflow
  <2>1. x < 0 \/ x >= AddrWords
    BY <1>4, EffectiveSum
  <2>2. ~(x >= 0 /\ x + i.len <= Len(launch.global))
    BY <1>1, <1>2, <1>3, <2>1, MemoryAssumption
  <2> QED  BY <1>1, <1>4, <2>2 DEF Accepted, Inside
<1>5. CASE Effective(l) # Overflow
  <2>1. Effective(l) = x /\ x \in 0..(AddrWords - 1)
    BY <1>5, EffectiveSum
  <2>2. CASE i.op # "atomic"
    <3>1. Accepted(i, l) <=> x + i.len <= Len(global) /\ x % i.len = 0
      BY <1>2, <1>5, <2>1, <2>2, GlobalOffset DEF Accepted, CanLoadStore
    <3> QED  BY <1>1, <1>2, <2>1, <2>2, <3>1 DEF Inside
  <2>3. CASE i.op = "atomic"
    <3>1. natural_alignment(i.len) = i.len
      BY NaturalAlignment
    <3>2. InBuffer(global, x, i.len) <=> x + i.len <= Len(global)
      BY <1>1, <1>2, <2>1 DEF InBuffer
    <3>3. Accepted(i, l) <=>
            /\ i.len \in AtomicWidths /\ x + i.len <= Len(global) /\ x % i.len = 0
            /\ i.rmw \in {"inc", "dec"} => i.len = IncWidth
      BY <1>2, <1>5, <2>1, <2>3, <3>1, <3>2 DEF Accepted, CanAtomic
    <3>4. x >= 0
      BY <2>1, MemoryAssumption
    <3> QED  BY <1>1, <1>2, <2>3, <3>3, <3>4 DEF Inside
  <2> QED  BY <2>2, <2>3
<1> QED  BY <1>4, <1>5

-----------------------------------------------------------------------------
(* The accesses that are done.                                             *)

LEMMA PlaceFacts ==
    ASSUME launch \in Launches, NEW p \in Places
    PROVE  /\ p = <<p[1], p[2], p[3]>>
           /\ p[1] \in Cta /\ p[1] \in Nat
           /\ p[2] \in DOMAIN launch.prog[p[1]] /\ p[2] \in Nat \ {0}
           /\ p[2] <= Len(launch.prog[p[1]])
           /\ launch.prog[p[1]][p[2]] \in Instruction
           /\ launch.prog[p[1]][p[2]].op \in MemoryOps
           /\ launch.prog[p[1]][p[2]].len \in Widths
           /\ p[3] \in 1..Len(launch.prog[p[1]][p[2]].lanes) /\ p[3] \in Nat \ {0}
           /\ launch.prog[p[1]][p[2]].lanes[p[3]] \in Lane
<1>0. PICK c \in Cta : \E n \in DOMAIN launch.prog[c] : \E k \in DOMAIN launch.prog[c][n].lanes :
         p = <<c, n, k>> /\ launch.prog[c][n].op \in MemoryOps
  BY DEF Places
<1>1. PICK n \in DOMAIN launch.prog[c] : \E k \in DOMAIN launch.prog[c][n].lanes :
         p = <<c, n, k>> /\ launch.prog[c][n].op \in MemoryOps
  BY <1>0
<1>k. PICK k \in DOMAIN launch.prog[c][n].lanes : p = <<c, n, k>>
  BY <1>1
<1>2. launch.prog[c] \in Seq(Instruction) /\ launch.prog[c][n] \in Instruction
      /\ launch.prog[c][n].lanes \in Seq(Lane) /\ launch.prog[c][n].len \in Widths
  BY <1>1, LaunchFacts
<1>3. n \in Nat \ {0} /\ n <= Len(launch.prog[c])
  BY <1>2
<1>4. k \in 1..Len(launch.prog[c][n].lanes) /\ k \in Nat \ {0} /\ launch.prog[c][n].lanes[k] \in Lane
  BY <1>2
<1>5. c \in Nat
  BY ParallelAssumption DEF Cta
<1> QED  BY <1>1, <1>k, <1>2, <1>3, <1>4, <1>5

LEMMA PlacesKept ==
    ASSUME launch' = launch
    PROVE  /\ Places' = Places /\ Accesses' = Accesses
           /\ \A p : AccessAt(p)' = AccessAt(p)
           /\ \A a : Inside(a)' <=> Inside(a)
BY DEF Places, Accesses, AccessAt, Inside

\* A step of w and the places of the CTAs of other workers.
LEMMA PassedOther ==
    ASSUME TypeOK, ControlOK, NEW w \in Worker, Step(w), NEW p \in Places, OwnerOf(p[1]) # w
    PROVE  Passed(p)' <=> Passed(p)
<1>1. launch' = launch /\ OthersAlone(w)
  BY StepResult, StepKeeps
<1>2. p[1] \in Cta /\ OwnerOf(p[1]) \in Worker /\ OwnerOf(p[1])' = OwnerOf(p[1])
  BY <1>1, PlaceFacts, Owners DEF TypeOK, OwnerOf
<1>3. p[1] \in Cta \ Owned(w)
  BY <1>2, Owners DEF TypeOK
<1>4. pc'[p[1]] = pc[p[1]] /\ access'[OwnerOf(p[1])] = access[OwnerOf(p[1])]
  BY <1>1, <1>2, <1>3 DEF OthersAlone, OthersKept
<1> QED  BY <1>2, <1>4 DEF Passed

\* The places of the CTAs of w when a lane of it is done.
LEMMA PassedNextLane ==
    ASSUME TypeOK, ControlOK, NEW w \in Worker, access[w] # NoAccess, NextLane(w),
           launch' = launch, NEW p \in Places, OwnerOf(p[1]) = w
    PROVE  Passed(p)' <=> Passed(p) \/ p = Here(w)
<1> DEFINE c == access[w].cta
<1>1. /\ c \in Cta /\ pc[c] \in Nat \ {0} /\ access[w].lane \in Nat
      /\ Len(Current(w).lanes) \in Nat /\ OwnerOf(p[1])' = w
  BY LaneFacts DEF OwnerOf
<1>2. /\ p = <<p[1], p[2], p[3]>> /\ p[1] \in Cta /\ p[2] \in Nat \ {0} /\ p[3] \in Nat \ {0}
      /\ p[3] <= Len(launch.prog[p[1]][p[2]].lanes)
  BY PlaceFacts DEF TypeOK
<1>3. Passed(p) <=> p[2] < pc[p[1]] \/ (p[2] = pc[p[1]] /\ c = p[1] /\ p[3] < access[w].lane)
  BY DEF Passed
<1>4. Passed(p)' <=> p[2] < pc'[p[1]]
                     \/ (p[2] = pc'[p[1]] /\ access'[w].cta = p[1] /\ p[3] < access'[w].lane)
  BY <1>1 DEF Passed
<1>5. p = Here(w) <=> p[1] = c /\ p[2] = pc[c] /\ p[3] = access[w].lane
  BY <1>2 DEF Here
<1>6. pc[p[1]] \in Nat
  BY <1>2 DEF TypeOK
<1>7. CASE /\ access'[w] = [cta |-> c, lane |-> access[w].lane + 1, cur |-> NoValue]
           /\ pc' = pc
  <2>1. access'[w].cta = c /\ access'[w].lane = access[w].lane + 1
    BY <1>7
  <2> QED  BY <1>1, <1>2, <1>3, <1>4, <1>5, <1>7, <2>1
<1>8. CASE /\ access[w].lane = Len(Current(w).lanes)
           /\ access'[w] = NoAccess
           /\ pc' = [pc EXCEPT ![c] = @ + 1]
  <2>1. access'[w].lane = 0
    BY <1>8 DEF NoAccess
  <2>2. Passed(p)' <=> p[2] < pc'[p[1]]
    BY <1>2, <1>4, <2>1
  <2>3. CASE p[1] # c
    <3>1. pc'[p[1]] = pc[p[1]]
      BY <1>2, <1>8, <2>3 DEF TypeOK
    <3> QED  BY <1>3, <1>5, <2>2, <2>3, <3>1
  <2>4. CASE p[1] = c
    <3>1. pc'[p[1]] = pc[c] + 1
      BY <1>1, <1>8, <2>4 DEF TypeOK
    <3>2. p[2] = pc[c] => p[3] <= access[w].lane
      BY <1>2, <1>8, <2>4 DEF Current
    <3> QED  BY <1>1, <1>2, <1>3, <1>5, <2>2, <2>4, <3>1, <3>2
  <2> QED  BY <2>3, <2>4
<1> QED  BY <1>7, <1>8, NextLaneType

\* The places of the CTAs of w when it takes any other step.
LEMMA PassedNoLane ==
    ASSUME TypeOK, ControlOK, NEW w \in Worker, Step(w), ~(access[w] # NoAccess /\ NextLane(w)),
           NEW p \in Places, OwnerOf(p[1]) = w
    PROVE  /\ Passed(p)' => Passed(p)
           /\ Straight(p[1]) /\ fault'[w] = NoFault => (Passed(p)' <=> Passed(p))
<1>1. launch' = launch /\ OwnerOf(p[1])' = w
  BY StepResult DEF OwnerOf
<1>2. /\ p[1] \in Cta /\ p[2] \in Nat \ {0} /\ p[3] \in Nat \ {0}
      /\ p[2] \in DOMAIN launch.prog[p[1]] /\ launch.prog[p[1]][p[2]].op \in MemoryOps
  BY PlaceFacts DEF TypeOK
<1>3. Passed(p) <=> p[2] < pc[p[1]]
                    \/ (p[2] = pc[p[1]] /\ access[w].cta = p[1] /\ p[3] < access[w].lane)
  BY DEF Passed
<1>4. Passed(p)' <=> p[2] < pc'[p[1]]
                     \/ (p[2] = pc'[p[1]] /\ access'[w].cta = p[1] /\ p[3] < access'[w].lane)
  BY <1>1 DEF Passed
<1>5. pc[p[1]] \in Nat \ {0}
  BY <1>2 DEF TypeOK
<1>6. CASE pc' = pc /\ access'[w].cta = access[w].cta /\ access'[w].lane = access[w].lane
  BY <1>3, <1>4, <1>6
<1>7. CASE StartWorker(w) \/ LimitReached(w) \/ EndWorker(w)
  <2>1. pc' = pc /\ access' = access
    BY <1>7 DEF StartWorker, LimitReached, EndWorker, memory
  <2> QED  BY <1>6, <2>1
<1>8. CASE Execute(w)
  <2>1. PICK c \in Cta : /\ Picked(w, c)
                         /\ LET i == launch.prog[c][pc[c]]
                            IN \/ i.op = "alu" /\ pc' = [pc EXCEPT ![c] = @ + 1] /\ access' = access
                               \/ /\ access' = [access EXCEPT ![w] = [cta |-> c, lane |-> 1, cur |-> NoValue]]
                                  /\ pc' = pc
                               \/ pc' = pc /\ access' = access
                               \/ i.op = "loop" /\ pc' = [pc EXCEPT ![c] = 1] /\ access' = access
    BY <1>8 DEF Execute
  <2>2. Looping(w) /\ access[w] = NoAccess
    BY <1>8 DEF Execute, Looping
  <2>3. access[w].lane = 0
    BY <2>2 DEF NoAccess
  <2>4. Passed(p) <=> p[2] < pc[p[1]]
    BY <1>2, <1>3, <2>3
  <2>5. pc[c] \in DOMAIN launch.prog[c] /\ pc[c] \in Nat \ {0}
    BY <2>1, <2>2, PickedFacts
  <2>6. CASE launch.prog[c][pc[c]].op = "alu" /\ pc' = [pc EXCEPT ![c] = @ + 1] /\ access' = access
    <3>1. Passed(p)' <=> p[2] < pc'[p[1]]
      BY <1>2, <1>4, <2>3, <2>6
    <3>2. CASE p[1] = c
      <4>1. pc'[p[1]] = pc[c] + 1
        BY <2>6, <3>2 DEF TypeOK
      <4>2. p[2] # pc[c]
        BY <1>2, <2>6, <3>2 DEF MemoryOps
      <4> QED  BY <1>2, <2>4, <2>5, <3>1, <3>2, <4>1, <4>2
    <3>3. CASE p[1] # c
      <4>1. pc'[p[1]] = pc[p[1]]
        BY <1>2, <2>6, <3>3 DEF TypeOK
      <4> QED  BY <2>4, <3>1, <4>1
    <3> QED  BY <3>2, <3>3
  <2>7. CASE access' = [access EXCEPT ![w] = [cta |-> c, lane |-> 1, cur |-> NoValue]] /\ pc' = pc
    <3>1. access'[w].lane = 1
      BY <2>7 DEF TypeOK, AccessType
    <3> QED  BY <1>2, <1>4, <2>4, <2>7, <3>1
  <2>8. CASE pc' = pc /\ access' = access
    BY <1>6, <2>8
  <2>9. CASE launch.prog[c][pc[c]].op = "loop" /\ pc' = [pc EXCEPT ![c] = 1] /\ access' = access
    <3>1. Passed(p)' <=> p[2] < pc'[p[1]]
      BY <1>2, <1>4, <2>3, <2>9
    <3>2. CASE p[1] = c
      <4>1. pc'[p[1]] = 1
        BY <2>9, <3>2 DEF TypeOK
      <4>2. ~Straight(p[1])
        BY <2>5, <2>9, <3>2 DEF Straight
      <4> QED  BY <1>2, <3>1, <4>1, <4>2
    <3>3. CASE p[1] # c
      <4>1. pc'[p[1]] = pc[p[1]]
        BY <1>2, <2>9, <3>3 DEF TypeOK
      <4> QED  BY <2>4, <3>1, <4>1
    <3> QED  BY <3>2, <3>3
  <2> QED  BY <2>1, <2>6, <2>7, <2>8, <2>9
<1>9. CASE AddressOverflows(w) \/ LoadLane(w) \/ StoreLane(w) \/ AtomicReads(w) \/ AtomicWrites(w)
  <2>1. access[w] # NoAccess
    BY <1>9, LaneCases
  <2>2. CASE LaneFaults(w)
    <3>1. pc' = pc /\ access'[w] = NoAccess /\ fault'[w] # NoFault
      BY <1>1, <2>1, <2>2, LaneFaultsType
    <3>2. access'[w].lane = 0
      BY <3>1 DEF NoAccess
    <3> QED  BY <1>2, <1>3, <1>4, <3>1, <3>2
  <2>3. CASE /\ access' = [access EXCEPT
                  ![w] = [cta |-> @.cta, lane |-> @.lane,
                          cur |-> Value(global, Effective(LaneOf(w)), Current(w).len)]]
             /\ pc' = pc
    <3>1. access'[w].cta = access[w].cta /\ access'[w].lane = access[w].lane
      BY <2>3 DEF TypeOK, AccessType
    <3> QED  BY <1>6, <2>3, <3>1
  <2> QED  BY <1>9, <2>1, <2>2, <2>3, LaneCases
<1> QED  BY <1>7, <1>8, <1>9 DEF Step

\* A worker that goes on to the next lane has done an access that was accepted and
\* records it; one that faults on memory was refused.
LEMMA LaneVerdict ==
    ASSUME IndInv, NEW w \in Worker,
           AddressOverflows(w) \/ LoadLane(w) \/ StoreLane(w) \/ AtomicReads(w) \/ AtomicWrites(w)
    PROVE  \/ NextLane(w) /\ Accepted(Current(w), LaneOf(w)) /\ Record(w)
           \/ LaneFaults(w) /\ ~NextLane(w) /\ ~Accepted(Current(w), LaneOf(w))
           \/ AtomicReads(w) /\ ~NextLane(w) /\ UNCHANGED <<thread, fault, l2_log>>
<1> USE DEF IndInv
<1>1. access[w] # NoAccess /\ launch' = launch
  BY LaneCases DEF control
<1>2. thread[w] = "running" /\ access[w].lane \in Nat \ {0}
  BY <1>1, LaneFacts DEF InInstruction
<1>3. LaneFaults(w) => ~NextLane(w)
  <2> SUFFICES ASSUME LaneFaults(w), NextLane(w)  PROVE FALSE
    OBVIOUS
  <2>1. thread'[w] = "ended" /\ thread' = thread
    BY <1>1, LaneFaultsType, NextLaneType
  <2> QED  BY <1>2, <2>1
<1>4. CASE AddressOverflows(w)
  BY <1>3, <1>4 DEF AddressOverflows, Accepted
<1>5. CASE LoadLane(w)
  BY <1>3, <1>5 DEF LoadLane, Accepted, At
<1>6. CASE StoreLane(w)
  BY <1>3, <1>6 DEF StoreLane, Accepted, At
<1>7. CASE AtomicReads(w)
  <2>1. CASE ~CanAtomic(global, Effective(LaneOf(w)), Current(w).len, Current(w).rmw)
    BY <1>3, <1>7, <2>1 DEF AtomicReads, Accepted, At
  <2>2. CASE CanAtomic(global, Effective(LaneOf(w)), Current(w).len, Current(w).rmw)
    <3> DEFINE v == Value(global, Effective(LaneOf(w)), Current(w).len)
    <3>1. /\ access' = [access EXCEPT ![w] = [cta |-> @.cta, lane |-> @.lane, cur |-> v]]
          /\ UNCHANGED <<pc, thread, fault, l2_log>>
      BY <1>7, <2>2 DEF AtomicReads
    <3> HIDE DEF v
    <3>2. access'[w].lane = access[w].lane
      BY <3>1 DEF TypeOK, AccessType
    <3>3. ~NextLane(w)
      <4> SUFFICES ASSUME NextLane(w)  PROVE FALSE
        OBVIOUS
      <4>1. \/ access'[w] = [cta |-> access[w].cta, lane |-> access[w].lane + 1, cur |-> NoValue]
            \/ access'[w] = NoAccess
        BY <1>1, NextLaneType
      <4>2. access'[w].lane = access[w].lane + 1 \/ access'[w].lane = 0
        BY <4>1 DEF NoAccess
      <4> QED  BY <1>2, <3>2, <4>2
    <3> QED  BY <1>7, <3>1, <3>3
  <2> QED  BY <2>1, <2>2
<1>8. CASE AtomicWrites(w)
  <2>1. NextLane(w) /\ Record(w) /\ Current(w).op = "atomic" /\ access[w].cur # NoValue
    BY <1>8 DEF AtomicWrites, At
  <2> QED  BY <2>1 DEF MutexOK, Accepted
<1> QED  BY <1>4, <1>5, <1>6, <1>7, <1>8

\* Where the worker is lies in the buffer exactly if the access is accepted.
LEMMA HereInside ==
    ASSUME IndInv, NEW w \in Worker, access[w] # NoAccess, launch.global # <<>>
    PROVE  /\ Here(w) \in Places
           /\ Accepted(Current(w), LaneOf(w)) <=> Inside(AccessAt(Here(w)))
<1> USE DEF IndInv
<1>1. /\ Current(w) \in Instruction /\ LaneOf(w) \in Lane /\ Current(w).len \in Widths
      /\ Here(w) \in Places /\ AccessAt(Here(w)) = [op |-> Current(w), lane |-> LaneOf(w)]
  BY LaneFacts
<1>2. Accepted(Current(w), LaneOf(w)) <=> Inside([op |-> Current(w), lane |-> LaneOf(w)])
  BY <1>1, AcceptsInside
<1> QED  BY <1>1, <1>2

LEMMA InitWild == ASSUME Init, TypeOK PROVE WildOK
<1>1. ASSUME NEW p \in Places  PROVE ~Passed(p)
  <2>1. p[1] \in Cta /\ p[2] \in Nat \ {0} /\ p[3] \in Nat \ {0} /\ OwnerOf(p[1]) \in Worker
    BY PlaceFacts, Owners DEF TypeOK
  <2>2. pc[p[1]] = 1 /\ access[OwnerOf(p[1])].lane = 0
    BY <2>1 DEF Init, NoAccess
  <2> QED  BY <2>1, <2>2 DEF Passed
<1>2. \A w \in Worker : fault[w] = NoFault
  BY DEF Init
<1> QED  BY <1>1, <1>2 DEF WildOK

LEMMA WildStep ==
    ASSUME IndInv, WildOK, [Next]_vars
    PROVE  WildOK'
<1> USE DEF IndInv
<1>1. CASE UNCHANGED State
  <2>1. launch' = launch /\ Worker' = Worker /\ fault' = fault
    BY <1>1 DEF State, Worker
  <2>2. \A p \in Places : Passed(p)' <=> Passed(p)
    BY <1>1 DEF Passed, State, memory, OwnerOf
  <2> QED  BY <2>1, <2>2, PlacesKept DEF WildOK
<1>2. ASSUME NEW w \in Worker, Step(w), launch.global # <<>>  PROVE WildOK'
  <2>1. launch' = launch /\ Worker' = Worker
    BY <1>2, StepResult
  <2>2. ASSUME NEW p \in Places, Passed(p)'  PROVE Inside(AccessAt(p))
    <3>1. CASE Passed(p)
      BY <1>2, <3>1 DEF WildOK
    <3>2. CASE ~Passed(p)
      <4>1. OwnerOf(p[1]) = w
        BY <1>2, <2>2, <3>2, PassedOther
      <4>2. access[w] # NoAccess /\ NextLane(w)
        BY <1>2, <2>2, <3>2, <4>1, PassedNoLane
      <4>3. p = Here(w)
        BY <2>1, <2>2, <3>2, <4>1, <4>2, PassedNextLane
      <4>4. AddressOverflows(w) \/ LoadLane(w) \/ StoreLane(w) \/ AtomicReads(w) \/ AtomicWrites(w)
        <5>1. access[w] # NoAccess
          BY <4>2
        <5> QED  BY <1>2, <5>1 DEF Step, StartWorker, LimitReached, Execute, EndWorker, Looping,
                                   ControlOK, InInstruction
      <4>5. Accepted(Current(w), LaneOf(w))
        BY <4>2, <4>4, LaneVerdict
      <4> QED  BY <1>2, <4>2, <4>3, <4>5, HereInside
    <3> QED  BY <3>1, <3>2
  <2>3. ASSUME NEW u \in Worker, fault'[u] # NoFault, fault'[u].kind = "memory"
        PROVE  \E a \in Accesses : ~Inside(a)
    <3>1. CASE fault'[u] = fault[u]
      BY <1>2, <2>3, <3>1 DEF WildOK
    <3>2. CASE fault'[u] # fault[u]
      <4>1. u = w
        BY <1>2, <3>2, StepKeeps DEF OthersAlone, OthersKept
      <4>2. AddressOverflows(w) \/ LoadLane(w) \/ StoreLane(w) \/ AtomicReads(w) \/ AtomicWrites(w)
        <5> SUFFICES ASSUME StartWorker(w) \/ LimitReached(w) \/ Execute(w) \/ EndWorker(w)
                     PROVE  FALSE
          BY <1>2 DEF Step
        <5>1. fault' = fault
              \/ \E kind \in {"internal", "limit", "trap", "deadlock"} : \E c :
                   fault' = [fault EXCEPT ![w] = [kind |-> kind, cta |-> c]]
          BY DEF StartWorker, LimitReached, Execute, EndWorker, Ends, Retire
        <5> QED  BY <2>3, <3>2, <4>1, <5>1 DEF TypeOK
      <4>3. access[w] # NoAccess
        BY <4>2, LaneCases
      <4>4. LaneFaults(w) /\ ~Accepted(Current(w), LaneOf(w))
        <5>1. NextLane(w) => fault' = fault
          BY DEF NextLane, Retire
        <5> QED  BY <3>2, <4>1, <4>2, <5>1, LaneVerdict
      <4>5. Here(w) \in Places /\ ~Inside(AccessAt(Here(w)))
        BY <1>2, <4>3, <4>4, HereInside
      <4> QED  BY <4>5 DEF Accesses
    <3> QED  BY <3>1, <3>2
  <2> QED  BY <2>1, <2>2, <2>3, PlacesKept DEF WildOK
<1>3. CASE ~(\E w \in Worker : Step(w))
  <2>1. UNCHANGED State
    BY <1>3 DEF Next, Done, vars, control, State, Refused, RunResult, MergeFault, MergeClean, Untouched
  <2> QED  BY <1>1, <2>1
<1>4. CASE launch.global = <<>>
  <2>1. launch' = launch
    BY StepResult DEF Next, Done, vars, control, Refused, RunResult, MergeFault, MergeClean, Untouched
  <2> QED  BY <1>4, <2>1 DEF WildOK
<1> QED  BY <1>2, <1>3, <1>4

\* A launch with a buffer ends clean only if every access of its programs lies in the
\* buffer, and faults on memory only if one does not: whatever the addresses,
\* displacements and widths, the checks of ldg, stg and atom_global let no wrapped,
\* negative or misaligned address through.
THEOREM WildAccessesFault == FairSpec => []WildAccessFaults
<1> DEFINE Inv == IndInv /\ CountOK /\ NewOK /\ CleanIffAllRan /\ WildOK
<1>1. Init => Inv
  BY IndInit, InitCount, InitClean, InitWild DEF IndInv
<1>2. Inv /\ [Next]_vars => Inv'
  BY IndStep, CountStep, CleanStep, WildStep
<1>3. Inv => WildAccessFaults
  <2> SUFFICES ASSUME Inv, result # NoResult, launch.global # <<>>
               PROVE  /\ result.fault = NoFault => \A a \in Accesses : Inside(a)
                      /\ \A w \in Faulted : fault[w].kind = "memory" =>
                           \E a \in Accesses : ~Inside(a)
    BY DEF WildAccessFaults
  <2>1. ASSUME result.fault = NoFault, NEW a \in Accesses  PROVE Inside(a)
    <3>1. PICK p \in Places : a = AccessAt(p)
      BY <2>1 DEF Accesses
    <3>2. Finished(p[1]) /\ p[2] <= Len(launch.prog[p[1]]) /\ p[2] \in Nat
          /\ p[1] \in Cta
      BY <2>1, PlaceFacts DEF CleanIffAllRan, AllFinished, IndInv, TypeOK
    <3>3. p[2] < pc[p[1]]
      <4>1. pc[p[1]] \in Nat /\ Len(launch.prog[p[1]]) \in Nat
        BY <3>2, LaunchFacts DEF IndInv, TypeOK
      <4> QED  BY <3>2, <4>1 DEF Finished
    <3>4. Passed(p)
      BY <3>3 DEF Passed
    <3> QED  BY <3>1, <3>4 DEF WildOK
  <2>2. ASSUME NEW w \in Faulted, fault[w].kind = "memory"  PROVE \E a \in Accesses : ~Inside(a)
    BY <2>2 DEF WildOK, Faulted
  <2> QED  BY <2>1, <2>2
<1> QED  BY <1>1, <1>2, <1>3, PTL DEF FairSpec

-----------------------------------------------------------------------------
(* The trace and the bytes of the buffer.                                  *)

\* f[n] holds the bytes after the first n accesses of the log.
Replays(f, log) ==
    f = [n \in 0..Len(log) |-> IF n = 0 THEN launch.global ELSE After(f[n - 1], log[n])]

LEMMA ReplayUnique ==
    ASSUME NEW f, NEW g, NEW log, Len(log) \in Nat, Replays(f, log), Replays(g, log)
    PROVE  f = g
<1> DEFINE D == {n \in 0..Len(log) : f[n] # g[n]}
<1>1. /\ \A n \in 0..Len(log) : f[n] = IF n = 0 THEN launch.global ELSE After(f[n - 1], log[n])
      /\ \A n \in 0..Len(log) : g[n] = IF n = 0 THEN launch.global ELSE After(g[n - 1], log[n])
      /\ f = [n \in 0..Len(log) |-> f[n]] /\ g = [n \in 0..Len(log) |-> g[n]]
  BY DEF Replays
<1>2. D = {}
  <2> SUFFICES ASSUME D # {}  PROVE FALSE
    OBVIOUS
  <2>1. PICK n \in D : \A m \in D : n <= m
    <3>1. D \subseteq Nat
      OBVIOUS
    <3> HIDE DEF D
    <3> QED  BY <3>1, Least
  <2>2. n # 0
    BY <1>1
  <2>3. n - 1 \in 0..Len(log) /\ n - 1 \notin D
    BY <2>1, <2>2
  <2>4. f[n - 1] = g[n - 1]
    BY <2>3
  <2> QED  BY <1>1, <2>2, <2>4
<1> QED  BY <1>1, <1>2

LEMMA ReplayedIs ==
    ASSUME NEW f, NEW log, Len(log) \in Nat, Replays(f, log)
    PROVE  Replayed(log) = f[Len(log)]
<1> DEFINE g == CHOOSE h : Replays(h, log)
<1>1. Replayed(log) = g[Len(log)]
  BY DEF Replayed, Replays
<1>2. Replays(g, log)
  OBVIOUS
<1> HIDE DEF g
<1>3. g = f
  BY <1>2, ReplayUnique
<1> QED  BY <1>1, <1>3

LEMMA ReplayOneMore ==
    ASSUME NEW S, NEW log \in Seq(S), NEW d \in S, NEW f, Replays(f, log)
    PROVE  \E g : Replays(g, Append(log, d)) /\ g[Len(log) + 1] = After(f[Len(log)], d)
<1> DEFINE n == Len(log)
           more == Append(log, d)
           g == [k \in 0..(n + 1) |-> IF k = n + 1 THEN After(f[n], d) ELSE f[k]]
<1>1. n \in Nat /\ Len(more) = n + 1 /\ more[n + 1] = d /\ \A k \in 1..n : more[k] = log[k]
  OBVIOUS
<1>2. \A k \in 0..n : f[k] = IF k = 0 THEN launch.global ELSE After(f[k - 1], log[k])
  BY DEF Replays
<1>3. ASSUME NEW k \in 0..(n + 1)
      PROVE  g[k] = IF k = 0 THEN launch.global ELSE After(g[k - 1], more[k])
  <2>1. CASE k = n + 1
    <3>1. k # 0 /\ k - 1 \in 0..(n + 1) /\ k - 1 = n /\ n # n + 1
      BY <1>1, <2>1
    <3>2. g[k - 1] = f[n] /\ g[k] = After(f[n], d)
      BY <2>1, <3>1
    <3> QED  BY <1>1, <2>1, <3>1, <3>2
  <2>2. CASE k # n + 1
    <3>1. k \in 0..n /\ g[k] = f[k]
      BY <1>1, <2>2
    <3>2. k # 0 => k \in 1..n /\ k - 1 \in 0..(n + 1) /\ k - 1 # n + 1
      BY <1>1, <3>1
    <3>3. k # 0 => g[k - 1] = f[k - 1] /\ more[k] = log[k]
      BY <1>1, <3>2
    <3> QED  BY <1>2, <3>1, <3>3
  <2> QED  BY <2>1, <2>2
<1>4. g = [k \in 0..(n + 1) |-> g[k]] /\ n + 1 \in 0..(n + 1)
  BY <1>1
<1>5. g[n + 1] = After(f[n], d)
  BY <1>4
<1> HIDE DEF g, more
<1>6. Replays(g, more)
  BY <1>1, <1>3, <1>4 DEF Replays
<1> QED  BY <1>5, <1>6 DEF more

\* With one worker: the bytes after all the accesses of its log are those of the buffer.
Replayable(log, bytes) == \E f : Replays(f, log) /\ f[Len(log)] = bytes

ReplayOK == launch.workers = 1 => Replayable(l2_log[0], global)

LEMMA InitReplay == ASSUME Init PROVE ReplayOK
<1> SUFFICES ASSUME launch.workers = 1  PROVE Replayable(<<>>, launch.global)
  BY DEF Init, ReplayOK, Worker
<1> DEFINE f == [n \in 0..0 |-> launch.global]
<1>1. Replays(f, <<>>) /\ f[Len(<<>>)] = launch.global
  BY DEF Replays
<1> QED  BY <1>1 DEF Replayable

LEMMA ReplayStep ==
    ASSUME IndInv, ReplayOK, [Next]_vars
    PROVE  ReplayOK'
<1> USE DEF IndInv
<1>0. launch' = launch
  BY StepResult DEF Next, Done, vars, control, Refused, RunResult, MergeFault, MergeClean, Untouched
<1>1. CASE UNCHANGED <<l2_log, global>>
  BY <1>0, <1>1 DEF ReplayOK, Replayable, Replays
<1>2. ASSUME NEW w \in Worker, Step(w), launch.workers = 1  PROVE ReplayOK'
  <2>1. w = 0 /\ 0 \in Worker
    BY <1>2 DEF Worker
  <2>2. ASSUME access[w] # NoAccess, Record(w), Effective(LaneOf(w)) # Overflow,
               global' = After(global, Descriptor(w))
        PROVE  ReplayOK'
    <3>1. l2_log[0] \in Seq(Descriptors) /\ Descriptor(w) \in Descriptors
          /\ l2_log'[0] = Append(l2_log[0], Descriptor(w))
          /\ Len(l2_log'[0]) = Len(l2_log[0]) + 1
      <4>1. l2_log[0] \in Seq(Descriptors) /\ Descriptor(w) \in Descriptors
        BY <2>1, <2>2, DescriptorType DEF TypeOK
      <4>2. l2_log'[0] = Append(l2_log[0], Descriptor(w))
        BY <2>1, <2>2, RecordType
      <4> QED  BY <4>1, <4>2
    <3>2. PICK f : Replays(f, l2_log[0]) /\ f[Len(l2_log[0])] = global
      BY <1>2 DEF ReplayOK, Replayable
    <3>3. PICK g : /\ Replays(g, Append(l2_log[0], Descriptor(w)))
                   /\ g[Len(l2_log[0]) + 1] = After(f[Len(l2_log[0])], Descriptor(w))
      BY <3>1, <3>2, ReplayOneMore
    <3>4. Replays(g, l2_log'[0]) /\ g[Len(l2_log'[0])] = global'
      BY <2>2, <3>1, <3>2, <3>3
    <3> QED  BY <1>0, <3>4 DEF ReplayOK, Replayable, Replays
  <2>3. CASE StartWorker(w) \/ LimitReached(w) \/ EndWorker(w) \/ Execute(w)
    <3>1. UNCHANGED <<l2_log, global>>
      BY <2>3 DEF StartWorker, LimitReached, EndWorker, Execute, memory
    <3> QED  BY <1>1, <3>1
  <2>4. CASE AddressOverflows(w) \/ AtomicReads(w)
    BY <1>1, <2>4 DEF AddressOverflows, AtomicReads
  <2>5. Descriptor(w).op = Current(w) /\ Descriptor(w).lane = LaneOf(w)
        /\ Descriptor(w).addr = Effective(LaneOf(w)) /\ Descriptor(w).len = Current(w).len
    BY DEF Descriptor
  <2>6. CASE LoadLane(w)
    <3>1. /\ access[w] # NoAccess /\ Record(w) /\ Effective(LaneOf(w)) # Overflow
          /\ global' = global /\ Current(w).op = "load"
      BY <2>6 DEF LoadLane, At
    <3>2. After(global, Descriptor(w)) = global
      BY <2>5, <3>1 DEF After
    <3> QED  BY <2>2, <3>1, <3>2
  <2>7. CASE StoreLane(w)
    <3>1. CASE LaneFaults(w) /\ UNCHANGED <<global, l2_log>>
      BY <1>1, <3>1
    <3>2. CASE ~(LaneFaults(w) /\ UNCHANGED <<global, l2_log>>)
      <4>1. /\ access[w] # NoAccess /\ Record(w) /\ Effective(LaneOf(w)) # Overflow
            /\ global' = Put(global, Effective(LaneOf(w)), Current(w).len, LaneOf(w).data)
            /\ Current(w).op = "store"
        BY <2>7, <3>2 DEF StoreLane, At
      <4>2. After(global, Descriptor(w)) =
              Put(global, Effective(LaneOf(w)), Current(w).len, LaneOf(w).data)
        BY <2>5, <4>1 DEF After
      <4> QED  BY <2>2, <4>1, <4>2
    <3> QED  BY <3>1, <3>2
  <2>8. CASE AtomicWrites(w)
    <3>1. /\ access[w] # NoAccess /\ Record(w) /\ Current(w).op = "atomic"
          /\ access[w].cur # NoValue
          /\ global' = Put(global, Effective(LaneOf(w)), Current(w).len,
                           apply_atomic(Current(w).rmw, Current(w).len, access[w].cur,
                                        LaneOf(w).data, LaneOf(w).cmp))
      BY <2>8 DEF AtomicWrites, At
    <3>2. Effective(LaneOf(w)) # Overflow
          /\ access[w].cur = Value(global, Effective(LaneOf(w)), Current(w).len)
      BY <3>1 DEF MutexOK
    <3>3. After(global, Descriptor(w)) =
            Put(global, Effective(LaneOf(w)), Current(w).len,
                apply_atomic(Current(w).rmw, Current(w).len,
                             Value(global, Effective(LaneOf(w)), Current(w).len),
                             LaneOf(w).data, LaneOf(w).cmp))
      BY <2>5, <3>1 DEF After
    <3> QED  BY <2>2, <3>1, <3>2, <3>3
  <2> QED  BY <1>2, <2>3, <2>4, <2>6, <2>7, <2>8 DEF Step
<1>3. CASE ~(\E w \in Worker : Step(w))
  <2>1. UNCHANGED State
    BY <1>3 DEF Next, Done, vars, control, State, Refused, RunResult, MergeFault, MergeClean, Untouched
  <2> QED  BY <1>1, <2>1 DEF State, memory
<1>4. CASE launch.workers # 1
  BY <1>0, <1>4 DEF ReplayOK
<1> QED  BY <1>2, <1>3, <1>4

\* On one worker the recorded accesses, replayed in their order, give the bytes of the
\* buffer at any moment, after any fault and inside any instruction
\* (mem_ldst_atom_core records what it commits).
THEOREM TraceIsCommitted == FairSpec => []TraceMatchesMemory
<1> DEFINE Inv == IndInv /\ ReplayOK
<1>1. Init => Inv
  BY IndInit, InitReplay
<1>2. Inv /\ [Next]_vars => Inv'
  BY IndStep, ReplayStep
<1>3. Inv => TraceMatchesMemory
  <2> SUFFICES ASSUME Inv, launch.workers = 1  PROVE global = Replayed(l2_log[0])
    BY DEF TraceMatchesMemory
  <2>1. Len(l2_log[0]) \in Nat
    BY DEF IndInv, TypeOK, Worker
  <2>2. PICK f : Replays(f, l2_log[0]) /\ f[Len(l2_log[0])] = global
    BY DEF ReplayOK, Replayable
  <2> QED  BY <2>1, <2>2, ReplayedIs
<1> QED  BY <1>1, <1>2, <1>3, PTL DEF FairSpec

-----------------------------------------------------------------------------
(* The events of a result.                                                 *)

\* f[i] is the concatenation of the first i sequences.
Flattens(f, seqs, m) ==
    f = [i \in 1..m |-> IF i = 1 THEN seqs[i] ELSE f[i - 1] \o seqs[i]]

LEMMA FlattensExist ==
    ASSUME NEW seqs, NEW N \in Nat
    PROVE  \A m \in 1..N : \E f : Flattens(f, seqs, m)
<1> DEFINE T == {m \in 1..N : ~ \E f : Flattens(f, seqs, m)}
<1> SUFFICES ASSUME T # {}  PROVE FALSE
  OBVIOUS
<1>1. PICK m \in T : \A k \in T : m <= k
  <2>1. T \subseteq Nat
    OBVIOUS
  <2> HIDE DEF T
  <2> QED  BY <2>1, Least
<1>2. m \in 1..N /\ ~ \E f : Flattens(f, seqs, m)
  OBVIOUS
<1>3. CASE m = 1
  <2> DEFINE f == [i \in 1..1 |-> seqs[1]]
  <2>1. Flattens(f, seqs, 1)
    BY DEF Flattens
  <2> QED  BY <1>2, <1>3, <2>1
<1>4. CASE m # 1
  <2>1. m - 1 \in 1..N /\ m - 1 \notin T
    BY <1>1, <1>2, <1>4
  <2>2. PICK f : Flattens(f, seqs, m - 1)
    BY <2>1
  <2> DEFINE g == [i \in 1..m |-> IF i = m THEN f[m - 1] \o seqs[m] ELSE f[i]]
  <2>3. \A i \in 1..(m - 1) : f[i] = IF i = 1 THEN seqs[i] ELSE f[i - 1] \o seqs[i]
    BY <2>2 DEF Flattens
  <2>4. ASSUME NEW i \in 1..m
        PROVE  g[i] = IF i = 1 THEN seqs[i] ELSE g[i - 1] \o seqs[i]
    <3>1. CASE i = m
      <4>1. i # 1 /\ i - 1 \in 1..m /\ i - 1 # m
        BY <1>2, <1>4, <3>1
      <4> QED  BY <3>1, <4>1
    <3>2. CASE i # m
      <4>1. i \in 1..(m - 1) /\ (i # 1 => i - 1 \in 1..m /\ i - 1 # m)
        BY <1>2, <3>2
      <4> QED  BY <2>3, <3>2, <4>1
    <3> QED  BY <3>1, <3>2
  <2>5. g = [i \in 1..m |-> g[i]]
    OBVIOUS
  <2> HIDE DEF g
  <2>6. Flattens(g, seqs, m)
    BY <2>4, <2>5 DEF Flattens
  <2> QED  BY <1>2, <2>6
<1> QED  BY <1>3, <1>4

Parts(f, seqs, N, X) ==
    /\ FlattenSeq(seqs) = f[N]
    /\ \A i \in 1..N : /\ f[i] \in Seq(X)
                       /\ f[i] = IF i = 1 THEN seqs[i] ELSE f[i - 1] \o seqs[i]

LEMMA FlattenParts ==
    ASSUME NEW X, NEW N \in Nat \ {0}, NEW seqs \in [1..N -> Seq(X)]
    PROVE  \E f : Parts(f, seqs, N, X)
<1> DEFINE f == CHOOSE g : Flattens(g, seqs, N)
<1>1. Len(seqs) = N
  OBVIOUS
<1>2. FlattenSeq(seqs) = f[N]
  BY <1>1 DEF FlattenSeq, Flattens
<1>3. Flattens(f, seqs, N)
  <2>1. \A m \in 1..N : \E g : Flattens(g, seqs, m)
    BY FlattensExist
  <2>2. \E g : Flattens(g, seqs, N)
    BY <2>1
  <2> QED  BY <2>2
<1> HIDE DEF f
<1>4. \A i \in 1..N : f[i] = IF i = 1 THEN seqs[i] ELSE f[i - 1] \o seqs[i]
  BY <1>3 DEF Flattens
<1> DEFINE T == {i \in 1..N : f[i] \notin Seq(X)}
<1>5. T = {}
  <2> SUFFICES ASSUME T # {}  PROVE FALSE
    OBVIOUS
  <2>1. PICK i \in T : \A k \in T : i <= k
    <3>1. T \subseteq Nat
      OBVIOUS
    <3> HIDE DEF T
    <3> QED  BY <3>1, Least
  <2>2. seqs[i] \in Seq(X)
    OBVIOUS
  <2>3. i # 1
    BY <1>4, <2>2
  <2>4. i - 1 \in 1..N /\ i - 1 \notin T
    BY <2>1, <2>3
  <2>5. f[i - 1] \in Seq(X)
    BY <2>4
  <2>6. f[i] = f[i - 1] \o seqs[i]
    BY <1>4, <2>3
  <2>7. f[i] \in Seq(X)
    BY <2>2, <2>5, <2>6, ConcatProperties
  <2> QED  BY <2>7
<1>6. Parts(f, seqs, N, X)
  BY <1>2, <1>4, <1>5 DEF Parts
<1> QED  BY <1>6

LEMMA FlattenType ==
    ASSUME NEW X, NEW N \in Nat \ {0}, NEW seqs \in [1..N -> Seq(X)]
    PROVE  FlattenSeq(seqs) \in Seq(X)
<1>1. PICK f : Parts(f, seqs, N, X)
  BY FlattenParts
<1> QED  BY <1>1 DEF Parts

\* Every element of a part is one of the whole.
Holds(whole, part) == \A j \in DOMAIN part : \E i \in DOMAIN whole : whole[i] = part[j]

LEMMA FlattenHas ==
    ASSUME NEW X, NEW N \in Nat \ {0}, NEW seqs \in [1..N -> Seq(X)], NEW m \in 1..N
    PROVE  Holds(FlattenSeq(seqs), seqs[m])
<1> SUFFICES ASSUME NEW j \in DOMAIN seqs[m]
             PROVE  \E i \in DOMAIN FlattenSeq(seqs) : FlattenSeq(seqs)[i] = seqs[m][j]
  BY DEF Holds
<1>1. PICK f : Parts(f, seqs, N, X)
  BY FlattenParts
<1>2. /\ FlattenSeq(seqs) = f[N]
      /\ \A i \in 1..N : /\ f[i] \in Seq(X)
                         /\ f[i] = IF i = 1 THEN seqs[i] ELSE f[i - 1] \o seqs[i]
  BY <1>1 DEF Parts
<1> DEFINE Has(i) == \E h \in DOMAIN f[i] : f[i][h] = seqs[m][j]
           T == {i \in m..N : ~Has(i)}
<1>3. ASSUME NEW i \in 1..N, i # 1
      PROVE  /\ i - 1 \in 1..N
             /\ DOMAIN f[i] = 1..(Len(f[i - 1]) + Len(seqs[i]))
             /\ \A h \in DOMAIN f[i - 1] : h \in DOMAIN f[i] /\ f[i][h] = f[i - 1][h]
             /\ \A h \in DOMAIN seqs[i] : /\ Len(f[i - 1]) + h \in DOMAIN f[i]
                                          /\ f[i][Len(f[i - 1]) + h] = seqs[i][h]
  <2>1. i - 1 \in 1..N
    BY <1>3
  <2> DEFINE a == f[i - 1]
             b == seqs[i]
  <2>2. a \in Seq(X) /\ b \in Seq(X) /\ f[i] = a \o b
    BY <1>2, <1>3, <2>1
  <2> HIDE DEF a, b
  <2>3. /\ a \o b \in Seq(X) /\ Len(a \o b) = Len(a) + Len(b)
        /\ \A h \in 1..(Len(a) + Len(b)) :
             (a \o b)[h] = IF h <= Len(a) THEN a[h] ELSE b[h - Len(a)]
    BY <2>2, ConcatProperties, Zenon
  <2>4. /\ Len(a) \in Nat /\ Len(b) \in Nat /\ DOMAIN a = 1..Len(a) /\ DOMAIN b = 1..Len(b)
        /\ DOMAIN f[i] = 1..(Len(a) + Len(b))
    BY <2>2, <2>3
  <2>5. \A h \in DOMAIN a : h \in DOMAIN f[i] /\ f[i][h] = a[h]
    BY <2>2, <2>3, <2>4
  <2>6. \A h \in DOMAIN b : Len(a) + h \in DOMAIN f[i] /\ f[i][Len(a) + h] = b[h]
    <3> SUFFICES ASSUME NEW h \in DOMAIN b
                 PROVE  Len(a) + h \in DOMAIN f[i] /\ f[i][Len(a) + h] = b[h]
      OBVIOUS
    <3>1. /\ Len(a) + h \in 1..(Len(a) + Len(b)) /\ ~(Len(a) + h <= Len(a))
          /\ (Len(a) + h) - Len(a) = h
      BY <2>4
    <3> QED  BY <2>2, <2>3, <2>4, <3>1
  <2> QED  BY <2>1, <2>4, <2>5, <2>6 DEF a, b
<1>4. T = {}
  <2> SUFFICES ASSUME T # {}  PROVE FALSE
    OBVIOUS
  <2>1. PICK i \in T : \A k \in T : i <= k
    <3>1. T \subseteq Nat
      OBVIOUS
    <3> HIDE DEF T
    <3> QED  BY <3>1, Least
  <2>2. i \in 1..N /\ m <= i /\ ~Has(i)
    OBVIOUS
  <2>3. CASE i = m /\ i = 1
    <3>1. f[i] = seqs[m]
      BY <1>2, <2>2, <2>3
    <3> QED  BY <2>2, <3>1
  <2>4. CASE i = m /\ i # 1
    <3>1. \A h \in DOMAIN seqs[i] : /\ Len(f[i - 1]) + h \in DOMAIN f[i]
                                    /\ f[i][Len(f[i - 1]) + h] = seqs[i][h]
      BY <1>3, <2>2, <2>4
    <3>2. j \in DOMAIN seqs[i] /\ seqs[i][j] = seqs[m][j]
      BY <2>4
    <3>3. \E h \in DOMAIN f[i] : f[i][h] = seqs[m][j]
      BY <3>1, <3>2, Zenon
    <3> QED  BY <2>2, <3>3
  <2>5. CASE i # m
    <3>1. i # 1 /\ i - 1 \in m..N /\ ~(i <= i - 1)
      BY <2>2, <2>5
    <3>2. i - 1 \notin T
      <4> HIDE DEF T
      <4> QED  BY <2>1, <3>1
    <3>3. Has(i - 1)
      BY <3>1, <3>2
    <3>4. PICK h \in DOMAIN f[i - 1] : f[i - 1][h] = seqs[m][j]
      BY <3>3
    <3>5. h \in DOMAIN f[i] /\ f[i][h] = f[i - 1][h]
      BY <1>3, <2>2, <3>1
    <3> QED  BY <2>2, <3>4, <3>5
  <2> QED  BY <2>3, <2>4, <2>5
<1>5. N \in m..N
  OBVIOUS
<1>6. Has(N)
  BY <1>4, <1>5
<1> QED  BY <1>2, <1>6

LEMMA IssuedType ==
    ASSUME TypeOK
    PROVE  AllIssued \in Seq(IssueEvents)
<1>1. launch.workers \in Nat \ {0}
  BY LaunchFacts DEF TypeOK
<1>2. \A n \in 1..launch.workers : n - 1 \in Worker
  BY <1>1 DEF Worker
<1>3. [n \in 1..launch.workers |-> memory_events[n - 1]] \in [1..launch.workers -> Seq(IssueEvents)]
  BY <1>2 DEF TypeOK
<1> QED  BY <1>1, <1>3, FlattenType DEF AllIssued

LEMMA IssuedHas ==
    ASSUME TypeOK, NEW w \in Worker, NEW i \in DOMAIN memory_events[w]
    PROVE  \E j \in DOMAIN AllIssued : AllIssued[j] = memory_events[w][i]
<1> DEFINE N == launch.workers
           seqs == [n \in 1..N |-> memory_events[n - 1]]
<1>1. N \in Nat \ {0} /\ w \in Nat /\ w + 1 \in 1..N
  BY LaunchFacts DEF TypeOK, Worker
<1>2. \A n \in 1..N : n - 1 \in Worker
  BY <1>1 DEF Worker
<1>3. seqs \in [1..N -> Seq(IssueEvents)]
  BY <1>2 DEF TypeOK
<1>4. seqs[w + 1] = memory_events[w]
  <2>1. (w + 1) - 1 = w
    BY <1>1
  <2> QED  BY <1>1, <2>1
<1>5. AllIssued = FlattenSeq(seqs)
  BY DEF AllIssued
<1> HIDE DEF N, seqs
<1>6. PICK m \in 1..N : m = w + 1
  BY <1>1
<1>7. Holds(FlattenSeq(seqs), seqs[m])
  BY <1>1, <1>3, FlattenHas
<1> QED  BY <1>4, <1>5, <1>6, <1>7 DEF Holds

Requests == [cta: Nat, sm: Nat, ordinal: Nat, sector: Int, request: Nat]

\* The events before they are renumbered: those of the workers, one for each request,
\* and one for each completion.
Stream(all, issued, k, n, t, s) ==
    /\ k \in Nat /\ DOMAIN all = 1..(k + n + n)
    /\ \A i \in 1..k : all[i] = issued[i] /\ all[i] \in IssueEvents
    /\ \A m \in 1..n : all[k + m] = L2Event("request", 0, t)[m]
    /\ \A m \in 1..n : all[k + n + m] = L2Event("completion", n, s)[m]

LEMMA StreamShape ==
    ASSUME NEW issued \in Seq(IssueEvents), NEW n \in Nat, NEW R,
           NEW t \in [1..n -> R], NEW s \in [1..n -> R], NEW k, k = Len(issued),
           NEW all, all = issued \o (L2Event("request", 0, t) \o drain_completions(n, s))
    PROVE  Stream(all, issued, k, n, t, s)
<1> DEFINE E == L2Event("request", 0, t)
           C == L2Event("completion", n, s)
<1>1. k \in Nat /\ \A i \in 1..k : issued[i] \in IssueEvents
  OBVIOUS
<1>2. DOMAIN t = 1..n /\ DOMAIN s = 1..n
  OBVIOUS
<1> DEFINE X == {E[m] : m \in 1..n} \cup {C[m] : m \in 1..n} \cup IssueEvents
<1>3. E \in [1..n -> X] /\ C \in [1..n -> X]
  BY <1>2 DEF L2Event
<1> HIDE DEF E, C
<1>4. \A i \in 1..k : issued[i] \in X
  BY <1>1
<1> HIDE DEF X
<1>5. E \in Seq(X) /\ C \in Seq(X) /\ Len(E) = n /\ Len(C) = n
  BY <1>3
<1>6. issued \in Seq(X)
  BY <1>1, <1>4
<1>7. /\ E \o C \in Seq(X) /\ Len(E \o C) = n + n
      /\ \A m \in 1..n : (E \o C)[m] = E[m] /\ (E \o C)[n + m] = C[m]
  <2>1. /\ E \o C \in Seq(X) /\ Len(E \o C) = n + n
        /\ \A i \in 1..(n + n) : (E \o C)[i] = IF i <= n THEN E[i] ELSE C[i - n]
    <3>1. /\ E \o C \in Seq(X) /\ Len(E \o C) = Len(E) + Len(C)
          /\ \A i \in 1..(Len(E) + Len(C)) :
               (E \o C)[i] = IF i <= Len(E) THEN E[i] ELSE C[i - Len(E)]
      <4>1. E \in Seq(X) /\ C \in Seq(X)
        BY <1>5
      <4> QED  BY <4>1, ConcatProperties, Zenon
    <3>2. Len(E) = n /\ Len(C) = n
      BY <1>5
    <3> QED  BY <3>1, <3>2, Zenon
  <2>2. \A m \in 1..n : /\ m \in 1..(n + n) /\ m <= n
                        /\ n + m \in 1..(n + n) /\ ~(n + m <= n) /\ (n + m) - n = m
    OBVIOUS
  <2> QED  BY <2>1, <2>2
<1>8. all = issued \o (E \o C)
  BY DEF E, C, drain_completions
<1> DEFINE F == E \o C
<1> HIDE DEF F
<1>9. F \in Seq(X) /\ Len(F) = n + n /\ \A m \in 1..n : F[m] = E[m] /\ F[n + m] = C[m]
  BY <1>7 DEF F
<1>10. all = issued \o F
  BY <1>8 DEF F
<1>11. /\ Len(all) = k + (n + n) /\ all \in Seq(X)
       /\ \A i \in 1..k : all[i] = issued[i]
       /\ \A m \in 1..(n + n) : all[k + m] = F[m]
  <2>1. /\ all \in Seq(X) /\ Len(all) = k + (n + n)
        /\ \A i \in 1..(k + (n + n)) : all[i] = IF i <= k THEN issued[i] ELSE F[i - k]
    <3>1. /\ issued \o F \in Seq(X) /\ Len(issued \o F) = Len(issued) + Len(F)
          /\ \A i \in 1..(Len(issued) + Len(F)) :
               (issued \o F)[i] = IF i <= Len(issued) THEN issued[i] ELSE F[i - Len(issued)]
      <4>1. issued \in Seq(X) /\ F \in Seq(X)
        BY <1>6, <1>9
      <4> QED  BY <4>1, ConcatProperties, Zenon
    <3>2. Len(issued) = k /\ Len(F) = n + n
      BY <1>9
    <3> QED  BY <1>10, <3>1, <3>2, Zenon
  <2>2. \A i \in 1..k : i \in 1..(k + (n + n)) /\ i <= k
    BY <1>1
  <2>3. \A m \in 1..(n + n) : k + m \in 1..(k + (n + n)) /\ ~(k + m <= k) /\ (k + m) - k = m
    BY <1>1
  <2> QED  BY <2>1, <2>2, <2>3, ZenonT(60)
<1>12. DOMAIN all = 1..(k + n + n)
  BY <1>1, <1>11
<1>13. \A m \in 1..n : all[k + m] = E[m]
  <2> SUFFICES ASSUME NEW m \in 1..n  PROVE all[k + m] = E[m]
    OBVIOUS
  <2>1. m \in 1..(n + n)
    OBVIOUS
  <2> QED  BY <1>9, <1>11, <2>1
<1>14. \A m \in 1..n : all[k + n + m] = C[m]
  <2> SUFFICES ASSUME NEW m \in 1..n  PROVE all[k + n + m] = C[m]
    OBVIOUS
  <2>1. n + m \in 1..(n + n) /\ k + (n + m) = k + n + m
    BY <1>1
  <2>2. all[k + (n + m)] = F[n + m]
    BY <1>11, <2>1
  <2> QED  BY <1>9, <2>1, <2>2
<1> QED  BY <1>1, <1>11, <1>12, <1>13, <1>14 DEF E, C, Stream

\* The events of a result: k issue events, n requests in the order t, their n
\* completions in the order s, numbered in this order; requests and completions have
\* one parent, which is none or an issue event.
EventShape(ev, k, n, t, s) ==
    /\ DOMAIN ev = 1..(k + n + n)
    /\ \A i \in 1..k : ev[i].kind = "issue"
    /\ \A m \in 1..n :
         /\ ev[k + m].kind = "request" /\ ev[k + m].cta = t[m].cta
         /\ ev[k + m].ordinal = t[m].ordinal /\ ev[k + m].sector = t[m].sector
         /\ ev[k + m].request = t[m].request
    /\ \A m \in 1..n :
         /\ ev[k + n + m].kind = "completion"
         /\ ev[k + n + m].sector = s[m].sector /\ ev[k + n + m].request = s[m].request
    /\ \A i, j \in (k + 1)..(k + n + n) : ev[i].parent = ev[j].parent
    /\ \A i \in 1..(k + n + n) : ev[i].id = i
    /\ \A i \in (k + 1)..(k + n + n) : ev[i].parent \in 0..k

\* An event of the engine, and what it is of.
EngineEvent(e) ==
    /\ e = [kind |-> e.kind, id |-> e.id, parent |-> e.parent, cta |-> e.cta,
            ordinal |-> e.ordinal, sector |-> e.sector, request |-> e.request]
    /\ e.parent = 0 /\ e.id \in Nat \ {0}

EventOf(e, kind, r) ==
    /\ EngineEvent(e) /\ e.kind = kind /\ e.cta = r.cta /\ e.ordinal = r.ordinal
    /\ e.sector = r.sector /\ e.request = r.request

LEMMA EngineEvents ==
    ASSUME NEW kind, NEW first \in Nat, NEW n \in Nat, NEW t, DOMAIN t = 1..n, NEW m \in 1..n,
           NEW e, e = L2Event(kind, first, t)[m]
    PROVE  EventOf(e, kind, t[m])
<1>1. e = [kind |-> kind, id |-> first + m, parent |-> 0, cta |-> t[m].cta,
           ordinal |-> t[m].ordinal, sector |-> t[m].sector, request |-> t[m].request]
  BY DEF L2Event
<1>2. first + m \in Nat \ {0}
  OBVIOUS
<1>3. EngineEvent(e)
  BY <1>1, <1>2 DEF EngineEvent
<1> QED  BY <1>1, <1>3 DEF EventOf

LEMMA ResultShape ==
    ASSUME NEW issued \in Seq(IssueEvents), NEW n \in Nat, NEW R,
           NEW t \in [1..n -> R], NEW s \in [1..n -> R], NEW k, k = Len(issued),
           NEW ev, ev = normalize_memory_event_ids(
                          issued \o (L2Event("request", 0, t) \o drain_completions(n, s)))
    PROVE  /\ EventShape(ev, k, n, t, s)
           /\ (\E j \in 1..k : issued[j].id = 0) =>
                \A i \in (k + 1)..(k + n + n) : ev[i].parent # 0
<1> SUFFICES ASSUME NEW all,
                    all = issued \o (L2Event("request", 0, t) \o drain_completions(n, s))
             PROVE  /\ EventShape(ev, k, n, t, s)
                    /\ (\E j \in 1..k : issued[j].id = 0) =>
                         \A i \in (k + 1)..(k + n + n) : ev[i].parent # 0
  OBVIOUS
<1>1. /\ k \in Nat /\ DOMAIN all = 1..(k + n + n)
      /\ \A i \in 1..k : all[i] = issued[i] /\ all[i] \in IssueEvents
      /\ \A m \in 1..n : all[k + m] = L2Event("request", 0, t)[m]
      /\ \A m \in 1..n : all[k + n + m] = L2Event("completion", n, s)[m]
  <2>1. Stream(all, issued, k, n, t, s)
    BY StreamShape
  <2> QED  BY <2>1 DEF Stream
<1>2. DOMAIN t = 1..n /\ DOMAIN s = 1..n
  OBVIOUS
<1>3. \A m \in 1..n : EventOf(all[k + m], "request", t[m])
  <2> SUFFICES ASSUME NEW m \in 1..n  PROVE EventOf(all[k + m], "request", t[m])
    OBVIOUS
  <2>1. all[k + m] = L2Event("request", 0, t)[m] /\ 0 \in Nat
    BY <1>1
  <2> QED  BY <1>2, <2>1, EngineEvents
<1>4. \A m \in 1..n : EventOf(all[k + n + m], "completion", s[m])
  <2> SUFFICES ASSUME NEW m \in 1..n  PROVE EventOf(all[k + n + m], "completion", s[m])
    OBVIOUS
  <2>1. all[k + n + m] = L2Event("completion", n, s)[m]
    BY <1>1
  <2> QED  BY <1>2, <2>1, EngineEvents
<1>5. \A i \in (k + 1)..(k + n + n) : EngineEvent(all[i])
  <2> SUFFICES ASSUME NEW i \in (k + 1)..(k + n + n)  PROVE EngineEvent(all[i])
    OBVIOUS
  <2>1. CASE i <= k + n
    <3>1. i - k \in 1..n /\ k + (i - k) = i
      BY <1>1, <2>1
    <3> QED  BY <1>3, <3>1 DEF EventOf
  <2>2. CASE ~(i <= k + n)
    <3>1. i - (k + n) \in 1..n /\ k + n + (i - (k + n)) = i
      BY <1>1, <2>2
    <3> QED  BY <1>4, <3>1 DEF EventOf
  <2> QED  BY <2>1, <2>2
<1> DEFINE earlier(i) == {j \in 1..(i - 1) : all[j].id = all[i].parent}
           num(i) == [all[i] EXCEPT !.id = i,
                                    !.parent = IF earlier(i) = {} THEN @ ELSE Max(earlier(i))]
           Z == {j \in 1..k : all[j].id = 0}
<1>6. ev = [i \in DOMAIN all |-> num(i)]
  BY DEF normalize_memory_event_ids
<1>7. DOMAIN ev = 1..(k + n + n) /\ \A i \in 1..(k + n + n) : ev[i] = num(i)
  BY <1>1, <1>6
<1>8. \A i \in (k + 1)..(k + n + n) : earlier(i) = Z
  <2> SUFFICES ASSUME NEW i \in (k + 1)..(k + n + n)  PROVE earlier(i) = Z
    OBVIOUS
  <2>1. all[i].parent = 0
    BY <1>5 DEF EngineEvent
  <2>2. ASSUME NEW j \in 1..(i - 1), all[j].id = 0  PROVE j \in 1..k
    <3> SUFFICES ASSUME j \notin 1..k  PROVE FALSE
      OBVIOUS
    <3>1. j \in (k + 1)..(k + n + n)
      BY <1>1
    <3> QED  BY <1>5, <2>2, <3>1 DEF EngineEvent
  <2>3. \A j \in 1..k : j \in 1..(i - 1)
    BY <1>1
  <2> QED  BY <2>1, <2>2, <2>3
<1>9. ASSUME NEW i \in (k + 1)..(k + n + n)
      PROVE  /\ ev[i].kind = all[i].kind /\ ev[i].cta = all[i].cta
             /\ ev[i].ordinal = all[i].ordinal /\ ev[i].sector = all[i].sector
             /\ ev[i].request = all[i].request /\ ev[i].id = i
             /\ ev[i].parent = IF Z = {} THEN 0 ELSE Max(Z)
  <2> DEFINE e == all[i]
             par == IF earlier(i) = {} THEN e.parent ELSE Max(earlier(i))
  <2>1. EngineEvent(e) /\ earlier(i) = Z /\ i \in 1..(k + n + n)
    <3>1. EngineEvent(e)
      BY <1>5
    <3>2. earlier(i) = Z
      BY <1>8
    <3>3. i \in 1..(k + n + n)
      BY <1>1
    <3> HIDE DEF earlier, Z, e
    <3> QED  BY <3>1, <3>2, <3>3
  <2>2. par = IF Z = {} THEN 0 ELSE Max(Z)
    BY <2>1 DEF EngineEvent
  <2>3. ev[i] = [e EXCEPT !.id = i, !.parent = par]
    BY <1>7, <2>1 DEF EngineEvent
  <2> HIDE DEF par, e, Z
  <2>4. ev[i] = [kind |-> e.kind, id |-> i, parent |-> par, cta |-> e.cta,
                 ordinal |-> e.ordinal, sector |-> e.sector, request |-> e.request]
    BY <2>1, <2>3 DEF EngineEvent
  <2>5. /\ ev[i].kind = e.kind /\ ev[i].cta = e.cta /\ ev[i].ordinal = e.ordinal
        /\ ev[i].sector = e.sector /\ ev[i].request = e.request /\ ev[i].parent = par
        /\ ev[i].id = i
    BY <2>4
  <2>6. e = all[i]
    BY DEF e
  <2> QED  BY <2>2, <2>5, <2>6, Zenon
<1>10. ASSUME NEW i \in 1..k  PROVE ev[i].kind = "issue" /\ ev[i].id = i
  <2>1. all[i] \in IssueEvents /\ i \in 1..(k + n + n)
    BY <1>1
  <2>2. all[i].kind = "issue"
    BY <2>1 DEF IssueEvents
  <2>3. ev[i] = num(i)
    BY <1>7, <2>1
  <2> DEFINE par == IF earlier(i) = {} THEN all[i].parent ELSE Max(earlier(i))
  <2>4. ev[i] = [all[i] EXCEPT !.id = i, !.parent = par]
    BY <2>1, <2>3 DEF IssueEvents
  <2> HIDE DEF par
  <2> QED  BY <2>1, <2>2, <2>4 DEF IssueEvents
<1>11. Z \subseteq 1..k /\ Z = {j \in 1..k : issued[j].id = 0}
  BY <1>1
<1> HIDE DEF Z
<1>12. Z # {} => Max(Z) \in 1..k
  BY <1>1, <1>11, Largest DEF Max
<1>13. \A i, j \in (k + 1)..(k + n + n) : ev[i].parent = ev[j].parent
  BY <1>9
<1>14. \A i \in (k + 1)..(k + n + n) : ev[i].parent \in 0..k /\ (Z # {} => ev[i].parent # 0)
  BY <1>1, <1>9, <1>12
<1>15. \A i \in 1..(k + n + n) : ev[i].id = i
  <2> SUFFICES ASSUME NEW i \in 1..(k + n + n)  PROVE ev[i].id = i
    OBVIOUS
  <2>1. i \in 1..k \/ i \in (k + 1)..(k + n + n)
    BY <1>1
  <2> QED  BY <1>9, <1>10, <2>1
<1>16. \A m \in 1..n :
         /\ ev[k + m].kind = "request" /\ ev[k + m].cta = t[m].cta
         /\ ev[k + m].ordinal = t[m].ordinal /\ ev[k + m].sector = t[m].sector
         /\ ev[k + m].request = t[m].request
  <2> SUFFICES ASSUME NEW m \in 1..n
               PROVE  /\ ev[k + m].kind = "request" /\ ev[k + m].cta = t[m].cta
                      /\ ev[k + m].ordinal = t[m].ordinal /\ ev[k + m].sector = t[m].sector
                      /\ ev[k + m].request = t[m].request
    OBVIOUS
  <2>1. k + m \in (k + 1)..(k + n + n)
    BY <1>1
  <2>2. /\ ev[k + m].kind = all[k + m].kind /\ ev[k + m].cta = all[k + m].cta
        /\ ev[k + m].ordinal = all[k + m].ordinal /\ ev[k + m].sector = all[k + m].sector
        /\ ev[k + m].request = all[k + m].request
    BY <1>9, <2>1
  <2> QED  BY <1>3, <2>2 DEF EventOf
<1>17. \A m \in 1..n :
         /\ ev[k + n + m].kind = "completion"
         /\ ev[k + n + m].sector = s[m].sector /\ ev[k + n + m].request = s[m].request
  <2> SUFFICES ASSUME NEW m \in 1..n
               PROVE  /\ ev[k + n + m].kind = "completion"
                      /\ ev[k + n + m].sector = s[m].sector
                      /\ ev[k + n + m].request = s[m].request
    OBVIOUS
  <2>1. k + n + m \in (k + 1)..(k + n + n)
    BY <1>1
  <2>2. /\ ev[k + n + m].kind = all[k + n + m].kind
        /\ ev[k + n + m].sector = all[k + n + m].sector
        /\ ev[k + n + m].request = all[k + n + m].request
    BY <1>9, <2>1
  <2> QED  BY <1>4, <2>2 DEF EventOf
<1>18. EventShape(ev, k, n, t, s)
  BY <1>7, <1>10, <1>13, <1>16, <1>17, <1>14, <1>15 DEF EventShape
<1> QED  BY <1>11, <1>14, <1>18

\* What the requests and completions of the shape are.
RequestsOf(ev) == {i \in DOMAIN ev : ev[i].kind = "request"}
CompletionsOf(ev) == {i \in DOMAIN ev : ev[i].kind = "completion"}

LEMMA ShapeKinds ==
    ASSUME NEW ev, NEW k \in Nat, NEW n \in Nat, NEW t, NEW s, EventShape(ev, k, n, t, s)
    PROVE  /\ RequestsOf(ev) = (k + 1)..(k + n)
           /\ CompletionsOf(ev) = (k + n + 1)..(k + n + n)
<1>1. DOMAIN ev = 1..(k + n + n)
  BY DEF EventShape
<1>2. \A i \in 1..k : ev[i].kind = "issue"
  BY DEF EventShape
<1>3. \A i \in (k + 1)..(k + n) : ev[i].kind = "request"
  <2> SUFFICES ASSUME NEW i \in (k + 1)..(k + n)  PROVE ev[i].kind = "request"
    OBVIOUS
  <2>1. i - k \in 1..n /\ k + (i - k) = i
    OBVIOUS
  <2> QED  BY <2>1 DEF EventShape
<1>4. \A i \in (k + n + 1)..(k + n + n) : ev[i].kind = "completion"
  <2> SUFFICES ASSUME NEW i \in (k + n + 1)..(k + n + n)  PROVE ev[i].kind = "completion"
    OBVIOUS
  <2>1. i - (k + n) \in 1..n /\ k + n + (i - (k + n)) = i
    OBVIOUS
  <2> QED  BY <2>1 DEF EventShape
<1>5. \A i : /\ i \in (k + 1)..(k + n) => i \in 1..(k + n + n)
             /\ i \in (k + n + 1)..(k + n + n) => i \in 1..(k + n + n)
             /\ i \in 1..(k + n + n) => \/ i \in 1..k
                                        \/ i \in (k + 1)..(k + n)
                                        \/ i \in (k + n + 1)..(k + n + n)
  OBVIOUS
<1> QED  BY <1>1, <1>2, <1>3, <1>4, <1>5 DEF RequestsOf, CompletionsOf

\* RequestsComplete for a sequence of events; the requests of a clean run also have
\* a parent.
Complete(ev) ==
    /\ \A i, j \in DOMAIN ev : ev[i].id = ev[j].id => i = j
    /\ \A i, j \in RequestsOf(ev) : ev[i].request = ev[j].request => i = j
    /\ \A i \in RequestsOf(ev) :
         /\ Cardinality({j \in CompletionsOf(ev) : ev[j].request = ev[i].request}) = 1
         /\ ev[i].parent # 0 =>
              \E l \in DOMAIN ev : l < i /\ ev[l].kind = "issue" /\ ev[l].id = ev[i].parent
    /\ \A j \in CompletionsOf(ev) : \E i \in RequestsOf(ev) :
         /\ i < j /\ ev[i].request = ev[j].request
         /\ ev[i].parent = ev[j].parent /\ ev[i].sector = ev[j].sector

Parented(ev) == \A i \in RequestsOf(ev) : ev[i].parent # 0

\* s runs through R once.
Permutes(s, n, R) ==
    /\ s \in [1..n -> R]
    /\ \A r \in R : \E m \in 1..n : s[m] = r
    /\ \A l, m \in 1..n : s[l] = s[m] => l = m

Numbered(R) == \A q, r \in R : q.request = r.request => q = r

LEMMA ShapeComplete ==
    ASSUME NEW ev, NEW k \in Nat, NEW n \in Nat, NEW R, NEW t, NEW s, EventShape(ev, k, n, t, s),
           Permutes(t, n, R), Permutes(s, n, R), Numbered(R)
    PROVE  Complete(ev)
<1> DEFINE Q == (k + 1)..(k + n)
           C == (k + n + 1)..(k + n + n)
<1>1. RequestsOf(ev) = Q /\ CompletionsOf(ev) = C
  BY ShapeKinds
<1>2. ASSUME NEW i \in Q  PROVE \E m \in 1..n : i = k + m
  <2>1. i - k \in 1..n /\ i = k + (i - k)
    OBVIOUS
  <2> QED  BY <2>1
<1>3. ASSUME NEW j \in C  PROVE \E m \in 1..n : j = k + n + m
  <2>1. j - (k + n) \in 1..n /\ j = k + n + (j - (k + n))
    OBVIOUS
  <2> QED  BY <2>1
<1>4. \A m \in 1..n : k + m \in Q /\ k + n + m \in C
  OBVIOUS
<1> HIDE DEF Q, C
<1>5. \A m \in 1..n : t[m] \in R /\ ev[k + m].request = t[m].request
                      /\ ev[k + m].sector = t[m].sector
  BY DEF EventShape, Permutes
<1>6. \A m \in 1..n : s[m] \in R /\ ev[k + n + m].request = s[m].request
                      /\ ev[k + n + m].sector = s[m].sector
  BY DEF EventShape, Permutes
<1>7. ASSUME NEW i \in Q  PROVE Cardinality({j \in C : ev[j].request = ev[i].request}) = 1
  <2>1. PICK l \in 1..n : i = k + l
    BY <1>2
  <2>2. PICK m \in 1..n : s[m] = t[l]
    BY <1>5 DEF Permutes
  <2>3. k + n + m \in C /\ ev[k + n + m].request = ev[i].request
    BY <1>4, <1>5, <1>6, <2>1, <2>2
  <2>4. ASSUME NEW j \in C, ev[j].request = ev[i].request  PROVE j = k + n + m
    <3>1. PICK h \in 1..n : j = k + n + h
      BY <1>3
    <3>2. s[h].request = s[m].request /\ s[h] \in R /\ s[m] \in R
      BY <1>5, <1>6, <2>1, <2>2, <2>4, <3>1
    <3>3. h = m
      BY <3>2 DEF Numbered, Permutes
    <3> QED  BY <3>1, <3>3
  <2>5. {j \in C : ev[j].request = ev[i].request} = {k + n + m}
    BY <2>3, <2>4
  <2> QED  BY <2>5, FS_Singleton
<1>8. ASSUME NEW j \in C
      PROVE  \E i \in Q : /\ i < j /\ ev[i].request = ev[j].request
                          /\ ev[i].parent = ev[j].parent /\ ev[i].sector = ev[j].sector
  <2>1. PICK h \in 1..n : j = k + n + h
    BY <1>3
  <2>2. PICK m \in 1..n : t[m] = s[h]
    BY <1>6 DEF Permutes
  <2>3. k + m \in Q /\ k + m < j
    BY <1>4, <2>1
  <2>4. ev[k + m].request = ev[j].request /\ ev[k + m].sector = ev[j].sector
    BY <1>5, <1>6, <2>1, <2>2
  <2>5. k + m \in (k + 1)..(k + n + n) /\ j \in (k + 1)..(k + n + n)
    BY <2>1
  <2>6. ev[k + m].parent = ev[j].parent
    BY <2>5 DEF EventShape
  <2> QED  BY <2>3, <2>4, <2>6
<1>9. DOMAIN ev = 1..(k + n + n) /\ \A i \in 1..(k + n + n) : ev[i].id = i
  BY DEF EventShape
<1>10. ASSUME NEW i \in Q, NEW j \in Q, ev[i].request = ev[j].request  PROVE i = j
  <2>1. PICK l \in 1..n : i = k + l
    BY <1>2
  <2>2. PICK m \in 1..n : j = k + m
    BY <1>2
  <2>3. t[l] = t[m]
    BY <1>5, <1>10, <2>1, <2>2 DEF Numbered
  <2> QED  BY <2>1, <2>2, <2>3 DEF Permutes
<1>11. ASSUME NEW i \in Q, ev[i].parent # 0
       PROVE  \E l \in DOMAIN ev : l < i /\ ev[l].kind = "issue" /\ ev[l].id = ev[i].parent
  <2>1. PICK m \in 1..n : i = k + m
    BY <1>2
  <2>2. i \in (k + 1)..(k + n + n)
    BY <2>1
  <2>3. ev[i].parent \in 0..k
    BY <2>2 DEF EventShape
  <2> DEFINE l == ev[i].parent
  <2>4. l \in 1..k /\ l \in 1..(k + n + n) /\ l < i
    BY <1>11, <2>2, <2>3
  <2>5. ev[l].kind = "issue" /\ ev[l].id = l
    BY <2>4 DEF EventShape
  <2> QED  BY <1>9, <2>4, <2>5
<1> QED  BY <1>1, <1>7, <1>8, <1>9, <1>10, <1>11 DEF Complete

-----------------------------------------------------------------------------
(* The log and the requests of the engine.                                 *)

\* The accesses of a CTA are numbered from 0 in the log of its owner.
NumberedOK ==
    \A w \in Worker : \A k \in DOMAIN l2_log[w] :
        /\ l2_log[w][k].cta \in Owned(w)
        /\ l2_log[w][k].ordinal = Cardinality({j \in 1..(k - 1) : l2_log[w][j].cta = l2_log[w][k].cta})

LEMMA InitNumbered == Init => NumberedOK
BY DEF Init, NumberedOK

LEMMA StepLogs ==
    ASSUME IndInv, NEW w \in Worker, Step(w)
    PROVE  \/ l2_log' = l2_log
           \/ access[w] # NoAccess /\ Effective(LaneOf(w)) # Overflow /\ Record(w)
<1>1. CASE AtomicWrites(w)
  BY <1>1 DEF AtomicWrites, At, IndInv, MutexOK
<1>2. CASE ~AtomicWrites(w)
  BY <1>2 DEF Step, StartWorker, LimitReached, Execute, EndWorker, AddressOverflows, LoadLane,
              StoreLane, AtomicReads, At
<1> QED  BY <1>1, <1>2

LEMMA NumberedStep ==
    ASSUME IndInv, NumberedOK, [Next]_vars
    PROVE  NumberedOK'
<1> USE DEF IndInv
<1>1. CASE UNCHANGED <<launch, l2_log>>
  BY <1>1, ZenonT(60) DEF NumberedOK, Worker, Owned
<1>2. CASE \E w \in Worker : Step(w)
  <2>1. PICK w \in Worker : Step(w)
    BY <1>2
  <2>2. launch' = launch /\ Worker' = Worker /\ \A u : Owned(u)' = Owned(u)
    BY <2>1, StepResult DEF Owned
  <2>3. CASE l2_log' = l2_log
    BY <1>1, <2>2, <2>3
  <2>4. CASE access[w] # NoAccess /\ Effective(LaneOf(w)) # Overflow /\ Record(w)
    <3> DEFINE L == l2_log[w]
               d == Descriptor(w)
               n == Len(L)
    <3>1. L \in Seq(Descriptors) /\ n \in Nat
      BY DEF TypeOK
    <3>2. l2_log' = [l2_log EXCEPT ![w] = Append(L, d)] /\ l2_log \in [Worker -> Seq(Descriptors)]
      BY <2>4 DEF Record, TypeOK
    <3>3. d.cta = access[w].cta /\ d.cta \in Owned(w)
          /\ d.ordinal = Cardinality({j \in DOMAIN L : L[j].cta = d.cta})
      BY <2>4 DEF Descriptor, ControlOK, InInstruction
    <3> HIDE DEF d
    <3>4. d \in Descriptors
      BY <2>4, DescriptorType DEF d
    <3>5. DOMAIN l2_log'[w] = 1..(n + 1) /\ \A j \in 1..n : l2_log'[w][j] = L[j]
      BY <3>1, <3>2, <3>4
    <3>6. l2_log'[w][n + 1] = d
      BY <3>1, <3>2, <3>4
    <3> HIDE DEF L
    <3> SUFFICES ASSUME NEW u \in Worker, NEW k \in DOMAIN l2_log'[u]
                 PROVE  /\ l2_log'[u][k].cta \in Owned(u)
                        /\ l2_log'[u][k].ordinal =
                             Cardinality({j \in 1..(k - 1) : l2_log'[u][j].cta = l2_log'[u][k].cta})
      BY <2>2 DEF NumberedOK
    <3>7. CASE u # w
      <4>1. l2_log'[u] = l2_log[u]
        BY <3>2, <3>7
      <4> QED  BY <4>1 DEF NumberedOK
    <3>8. CASE u = w /\ k <= n
      <4>1. k \in 1..n /\ \A j \in 1..(k - 1) : j \in 1..n
        BY <3>1, <3>5, <3>8
      <4>2. l2_log'[w][k] = L[k] /\ \A j \in 1..(k - 1) : l2_log'[w][j] = L[j]
        BY <3>5, <4>1
      <4>3. {j \in 1..(k - 1) : l2_log'[w][j].cta = l2_log'[w][k].cta}
              = {j \in 1..(k - 1) : L[j].cta = L[k].cta}
        BY <4>2
      <4>4. k \in DOMAIN l2_log[w] /\ L = l2_log[w]
        BY <3>1, <4>1 DEF L
      <4>5. L[k].cta \in Owned(w) /\ L[k].ordinal = Cardinality({j \in 1..(k - 1) : L[j].cta = L[k].cta})
        BY <4>4 DEF NumberedOK
      <4> QED  BY <3>8, <4>2, <4>3, <4>5
    <3>9. CASE u = w /\ ~(k <= n)
      <4>1. k = n + 1 /\ 1..(k - 1) = 1..n /\ DOMAIN L = 1..n
        BY <3>1, <3>5, <3>9
      <4>2. l2_log'[w][k] = d
        BY <3>6, <4>1
      <4>3. {j \in 1..(k - 1) : l2_log'[w][j].cta = l2_log'[w][k].cta}
              = {j \in DOMAIN L : L[j].cta = d.cta}
        BY <3>5, <4>1, <4>2
      <4> QED  BY <3>3, <3>9, <4>2, <4>3
    <3> QED  BY <3>7, <3>8, <3>9
  <2> QED  BY <2>1, <2>3, <2>4, StepLogs
<1>3. CASE ~(\E w \in Worker : Step(w))
  <2>1. UNCHANGED <<launch, l2_log>>
    BY <1>3 DEF Next, Done, vars, control, Refused, RunResult, MergeFault, MergeClean, Untouched
  <2> QED  BY <1>1, <2>1
<1> QED  BY <1>2, <1>3

\* A log the engine can take as a set.
GoodLog(log) ==
    /\ IsFiniteSet(log) /\ log \subseteq Descriptors
    /\ \A d, e \in log : d.cta = e.cta /\ d.ordinal = e.ordinal => d = e

LEMMA LogIsGood ==
    ASSUME TypeOK, NumberedOK, NEW W, W \subseteq Worker
    PROVE  GoodLog(LogOf(W))
<1>1. \A w \in W : l2_log[w] \in Seq(Descriptors) /\ DOMAIN l2_log[w] = 1..Len(l2_log[w])
                   /\ Len(l2_log[w]) \in Nat
  BY DEF TypeOK
<1>2. LogOf(W) = UNION {{l2_log[w][k] : k \in DOMAIN l2_log[w]} : w \in W}
  BY DEF LogOf, Range
<1>3. IsFiniteSet(LogOf(W))
  <2> DEFINE f == [w \in W |-> {l2_log[w][k] : k \in DOMAIN l2_log[w]}]
  <2>1. IsFiniteSet(W)
    <3>1. launch.workers \in Nat
      BY LaunchFacts DEF TypeOK
    <3>2. IsFiniteSet(Worker)
      BY <3>1, FS_Interval DEF Worker
    <3> QED  BY <3>2, FS_Subset
  <2>2. ASSUME NEW w \in W  PROVE IsFiniteSet(f[w])
    <3>1. IsFiniteSet(DOMAIN l2_log[w])
      BY <1>1, FS_Interval
    <3>2. IsFiniteSet({l2_log[w][k] : k \in DOMAIN l2_log[w]})
      BY <3>1, FiniteImage
    <3> QED  BY <3>2
  <2>3. UNION {f[w] : w \in W} = LogOf(W)
    BY <1>2
  <2> HIDE DEF f
  <2>4. DOMAIN f = W
    BY DEF f
  <2> QED  BY <2>1, <2>2, <2>3, <2>4, FiniteUnion
<1>4. LogOf(W) \subseteq Descriptors
  BY <1>1, <1>2
<1>5. ASSUME NEW w \in W, NEW j \in DOMAIN l2_log[w], NEW k \in DOMAIN l2_log[w], j < k,
             l2_log[w][j].cta = l2_log[w][k].cta
      PROVE  l2_log[w][j].ordinal < l2_log[w][k].ordinal
  <2> DEFINE c == l2_log[w][k].cta
             J == {i \in 1..(j - 1) : l2_log[w][i].cta = c}
             K == {i \in 1..(k - 1) : l2_log[w][i].cta = c}
  <2>1. j \in Nat /\ k \in Nat
    BY <1>1
  <2>2. l2_log[w][j].ordinal = Cardinality(J) /\ l2_log[w][k].ordinal = Cardinality(K)
    BY <1>5 DEF NumberedOK
  <2>3. J \subseteq K /\ j \in K /\ j \notin J
    BY <1>1, <1>5, <2>1
  <2>4. IsFiniteSet(K)
    <3>1. IsFiniteSet(1..(k - 1))
      BY <2>1, FS_Interval
    <3> QED  BY <3>1, FS_Subset
  <2> HIDE DEF J, K
  <2>5. IsFiniteSet(J) /\ Cardinality(J) <= Cardinality(K) /\ (Cardinality(K) = Cardinality(J) => K = J)
    BY <2>3, <2>4, FS_Subset
  <2>6. Cardinality(J) \in Nat /\ Cardinality(K) \in Nat
    BY <2>4, <2>5, FS_CardinalityType
  <2> QED  BY <2>2, <2>3, <2>5, <2>6
<1>6. ASSUME NEW d \in LogOf(W), NEW e \in LogOf(W), d.cta = e.cta, d.ordinal = e.ordinal
      PROVE  d = e
  <2>1. PICK v \in W : \E j \in DOMAIN l2_log[v] : d = l2_log[v][j]
    BY <1>2
  <2>2. PICK j \in DOMAIN l2_log[v] : d = l2_log[v][j]
    BY <2>1
  <2>3. PICK w \in W : \E k \in DOMAIN l2_log[w] : e = l2_log[w][k]
    BY <1>2
  <2>4. PICK k \in DOMAIN l2_log[w] : e = l2_log[w][k]
    BY <2>3
  <2>5. v = w
    BY <1>6, <2>2, <2>4, ZenonT(60) DEF NumberedOK, Owned
  <2>6. j \in Nat /\ k \in Nat /\ d.ordinal \in Nat
    <3>1. d \in Descriptors
      BY <1>4
    <3>2. j \in 1..Len(l2_log[v]) /\ k \in 1..Len(l2_log[w])
      BY <1>1
    <3> QED  BY <3>1, <3>2 DEF Descriptors
  <2>7. ~(j < k) /\ ~(k < j)
    BY <1>5, <1>6, <2>2, <2>4, <2>5, <2>6
  <2> QED  BY <2>2, <2>4, <2>5, <2>6, <2>7
<1> QED  BY <1>3, <1>4, <1>6 DEF GoodLog

LEMMA SectorFacts ==
    ASSUME NEW d \in Descriptors
    PROVE  IsFiniteSet(Sectors(d.addr, d.len)) /\ Sectors(d.addr, d.len) \subseteq Int
<1>1. d.addr \in Nat /\ d.len \in Nat \ {0}
  BY MemoryAssumption DEF Descriptors, Widths
<1>2. SectorBytes \in Nat \ {0}
  BY SectorAssumption
<1> DEFINE a == d.addr \div SectorBytes
           b == (d.addr + d.len - 1) \div SectorBytes
<1>3. a \in Int /\ b \in Int
  BY <1>1, <1>2
<1>4. Sectors(d.addr, d.len) = a..b
  BY <1>1 DEF Sectors
<1> HIDE DEF a, b
<1> QED  BY <1>3, <1>4, FS_Interval

\* The sectors of a log: a finite set, in a strict order.
LEMMA TouchedFacts ==
    ASSUME NEW log, GoodLog(log)
    PROVE  /\ IsFiniteSet(Touched(log))
           /\ \A p \in Touched(log) :
                /\ p = <<p[1], p[2]>> /\ p[1] \in log /\ p[2] \in Sectors(p[1].addr, p[1].len)
                /\ p[1] \in Descriptors /\ p[2] \in Int
           /\ \A d \in log : \A x \in Sectors(d.addr, d.len) : <<d, x>> \in Touched(log)
<1>1. IsFiniteSet(Touched(log))
  <2> DEFINE f == [d \in log |-> {d} \X Sectors(d.addr, d.len)]
  <2>1. \A d \in log : IsFiniteSet(f[d])
    <3> SUFFICES ASSUME NEW d \in log  PROVE IsFiniteSet({d} \X Sectors(d.addr, d.len))
      OBVIOUS
    <3>1. IsFiniteSet(Sectors(d.addr, d.len))
      BY SectorFacts DEF GoodLog
    <3> QED  BY <3>1, FS_Singleton, FS_Product
  <2>2. Touched(log) = UNION {f[d] : d \in log}
    BY DEF Touched
  <2>3. DOMAIN f = log
    OBVIOUS
  <2> HIDE DEF f
  <2> QED  BY <2>1, <2>2, <2>3, FiniteUnion DEF GoodLog
<1>2. ASSUME NEW p \in Touched(log)
      PROVE  /\ p = <<p[1], p[2]>> /\ p[1] \in log /\ p[2] \in Sectors(p[1].addr, p[1].len)
             /\ p[1] \in Descriptors /\ p[2] \in Int
  <2>1. PICK d \in log : p \in {d} \X Sectors(d.addr, d.len)
    BY DEF Touched
  <2>2. p = <<p[1], p[2]>> /\ p[1] = d /\ p[2] \in Sectors(d.addr, d.len)
    BY <2>1
  <2> QED  BY <2>2, SectorFacts DEF GoodLog
<1>3. ASSUME NEW d \in log, NEW x \in Sectors(d.addr, d.len)  PROVE <<d, x>> \in Touched(log)
  BY DEF Touched
<1> QED  BY <1>1, <1>2, <1>3

LEMMA IssuedOrder ==
    ASSUME NEW log, GoodLog(log)
    PROVE  StrictOrder(Touched(log), IssuedBefore(log))
<1> DEFINE before(p, q) == InLogOrder(p[1], q[1]) \/ (p[1] = q[1] /\ p[2] < q[2])
<1>1. \A p, q \in Touched(log) : <<p, q>> \in IssuedBefore(log) <=> before(p, q)
  BY DEF IssuedBefore
<1>2. \A p \in Touched(log) : /\ p[1].cta \in Int /\ p[1].ordinal \in Int /\ p[2] \in Int
                              /\ p[1] \in log /\ p = <<p[1], p[2]>>
  BY TouchedFacts, ParallelAssumption DEF Descriptors, Cta
<1>3. \A p, q \in Touched(log) :
         p[1].cta = q[1].cta /\ p[1].ordinal = q[1].ordinal => p[1] = q[1]
  BY <1>2 DEF GoodLog
<1>4. \A p \in Touched(log) : ~before(p, p)
  BY <1>2 DEF InLogOrder
<1>5. ASSUME NEW p \in Touched(log), NEW q \in Touched(log), NEW r \in Touched(log),
             before(p, q), before(q, r)
      PROVE  before(p, r)
  BY <1>2, <1>5 DEF InLogOrder
<1>6. ASSUME NEW p \in Touched(log), NEW q \in Touched(log), ~before(p, q), ~before(q, p)
      PROVE  p = q
  <2>1. p[1].cta = q[1].cta /\ p[1].ordinal = q[1].ordinal
    BY <1>2, <1>6 DEF InLogOrder
  <2>2. p[1] = q[1]
    BY <1>3, <2>1
  <2>3. p[2] = q[2]
    BY <1>2, <1>6, <2>2
  <2> QED  BY <1>2, <2>2, <2>3
<1> HIDE DEF before
<1> QED  BY <1>1, <1>4, <1>5, <1>6 DEF StrictOrder

\* The request of a sector.
RequestOf(log, p) ==
    [cta |-> p[1].cta, sm |-> p[1].sm, ordinal |-> p[1].ordinal, sector |-> p[2],
     request |-> Rank(Touched(log), IssuedBefore(log), p) + 1]

LEMMA RequestFacts ==
    ASSUME NEW log, GoodLog(log)
    PROVE  /\ IsFiniteSet(issue_global(log)) /\ issue_global(log) \subseteq Requests
           /\ Numbered(issue_global(log))
           /\ \A p \in Touched(log) : RequestOf(log, p) \in issue_global(log)
           /\ \A r \in issue_global(log) : \E p \in Touched(log) : r = RequestOf(log, p)
           /\ \A p, q \in Touched(log) :
                RequestOf(log, p).request < RequestOf(log, q).request
                  => <<p, q>> \in IssuedBefore(log)
<1> DEFINE T == Touched(log)
           B == IssuedBefore(log)
           f == [p \in T |-> RequestOf(log, p)]
<1>1. IsFiniteSet(T) /\ StrictOrder(T, B)
  BY TouchedFacts, IssuedOrder
<1>2. issue_global(log) = {f[p] : p \in T}
  BY DEF issue_global, RequestOf
<1>3. \A p \in T : Rank(T, B, p) \in Nat
  BY <1>1, RankRange
<1>4. \A p, q \in T : \/ p = q
                      \/ <<p, q>> \in B /\ Rank(T, B, p) < Rank(T, B, q)
                      \/ <<q, p>> \in B /\ Rank(T, B, q) < Rank(T, B, p)
  BY <1>1, RankGrows DEF StrictOrder
<1>5. \A p \in T : RequestOf(log, p).request = Rank(T, B, p) + 1 /\ f[p] = RequestOf(log, p)
  BY DEF RequestOf
<1>6. \A p \in T : RequestOf(log, p) \in Requests
  BY <1>3, TouchedFacts, ParallelAssumption DEF RequestOf, Requests, Descriptors, Cta
<1>7. DOMAIN f = T
  OBVIOUS
<1> HIDE DEF T, B, f
<1>8. ASSUME NEW p \in T, NEW q \in T
      PROVE  /\ RequestOf(log, p).request = RequestOf(log, q).request => p = q
             /\ RequestOf(log, p).request < RequestOf(log, q).request => <<p, q>> \in B
  <2> DEFINE x == Rank(T, B, p)
             y == Rank(T, B, q)
  <2>1. x \in Nat /\ y \in Nat
    BY <1>3
  <2>2. RequestOf(log, p).request = x + 1 /\ RequestOf(log, q).request = y + 1
    BY <1>5
  <2>3. p = q \/ (<<p, q>> \in B /\ x < y) \/ (<<q, p>> \in B /\ y < x)
    BY <1>4, Zenon
  <2>4. p = q => x = y
    OBVIOUS
  <2> HIDE DEF x, y
  <2> QED  BY <2>1, <2>2, <2>3, <2>4
<1>9. \A p, q \in T : RequestOf(log, p).request < RequestOf(log, q).request => <<p, q>> \in B
  BY <1>8
<1>10. IsFiniteSet({f[p] : p \in T})
  BY <1>1, <1>7, FiniteImage
<1>11. Numbered({f[p] : p \in T})
  <2> SUFFICES ASSUME NEW p \in T, NEW q \in T, f[p].request = f[q].request
               PROVE  f[p] = f[q]
    BY DEF Numbered
  <2>1. RequestOf(log, p).request = RequestOf(log, q).request
    BY <1>5
  <2> QED  BY <1>8, <2>1
<1> QED  BY <1>2, <1>5, <1>6, <1>9, <1>10, <1>11 DEF T, B

\* Both orders of the requests run through them once.
LEMMA OrderPermutes ==
    ASSUME NEW R, IsFiniteSet(R), NEW B, StrictOrder(R, B)
    PROVE  Permutes(InOrder(R, B), Cardinality(R), R)
<1>1. /\ Cardinality(R) \in Nat
      /\ InOrder(R, B) \in [1..Cardinality(R) -> R]
      /\ \A n \in 1..Cardinality(R) : Rank(R, B, InOrder(R, B)[n]) = n - 1
      /\ \A x \in R : /\ Rank(R, B, x) + 1 \in 1..Cardinality(R)
                      /\ InOrder(R, B)[Rank(R, B, x) + 1] = x
  BY InOrderFacts
<1>2. \A l, m \in 1..Cardinality(R) : InOrder(R, B)[l] = InOrder(R, B)[m] => l = m
  <2> SUFFICES ASSUME NEW l \in 1..Cardinality(R), NEW m \in 1..Cardinality(R),
                      InOrder(R, B)[l] = InOrder(R, B)[m]
               PROVE  l = m
    OBVIOUS
  <2>1. l - 1 = m - 1
    BY <1>1
  <2> QED  BY <1>1, <2>1
<1> QED  BY <1>1, <1>2 DEF Permutes

LEMMA TurnPermutes ==
    ASSUME NEW R, IsFiniteSet(R), R \subseteq Requests, Numbered(R)
    PROVE  /\ Permutes(InTurn(R), Cardinality(R), R)
           /\ \A i, j \in 1..Cardinality(R) :
                i < j => InTurn(R)[i].request < InTurn(R)[j].request
<1> DEFINE B == {p \in R \X R : p[1].request < p[2].request}
<1>1. \A r \in R : r.request \in Nat
  BY DEF Requests
<1>2. \A q, r \in R : <<q, r>> \in B <=> q.request < r.request
  OBVIOUS
<1> HIDE DEF B
<1>3. StrictOrder(R, B)
  BY <1>1, <1>2 DEF StrictOrder, Numbered
<1>4. InTurn(R) = InOrder(R, B)
  BY DEF InTurn, B
<1>5. Permutes(InOrder(R, B), Cardinality(R), R)
  BY <1>3, OrderPermutes
<1>6. \A i, j \in 1..Cardinality(R) :
         i < j => <<InOrder(R, B)[i], InOrder(R, B)[j]>> \in B
  BY <1>3, InOrderFacts
<1>7. \A i \in 1..Cardinality(R) : InOrder(R, B)[i] \in R
  BY <1>5 DEF Permutes
<1> QED  BY <1>2, <1>4, <1>5, <1>6, <1>7

LEMMA SchedulePermutes ==
    ASSUME NEW R, IsFiniteSet(R), R \subseteq Requests, Numbered(R), NEW seed,
           NEW s \in Schedules(R, seed)
    PROVE  Permutes(s, Cardinality(R), R)
<1>1. CASE seed = 0
  <2> DEFINE B == {p \in R \X R : CompletesBefore(p[1], p[2])}
  <2>1. \A r \in R : r.request \in Int /\ r.sector \in Int /\ r.sm \in Int
    BY DEF Requests
  <2>2. \A q, r \in R : <<q, r>> \in B <=> CompletesBefore(q, r)
    OBVIOUS
  <2>3. s = InOrder(R, B)
    BY <1>1 DEF Schedules
  <2> HIDE DEF B
  <2>4. \A r \in R : ~CompletesBefore(r, r)
    BY <2>1 DEF CompletesBefore
  <2>5. \A p, q, r \in R : CompletesBefore(p, q) /\ CompletesBefore(q, r) => CompletesBefore(p, r)
    BY <2>1 DEF CompletesBefore
  <2>6. \A q, r \in R : q = r \/ CompletesBefore(q, r) \/ CompletesBefore(r, q)
    BY <2>1 DEF CompletesBefore, Numbered
  <2>7. StrictOrder(R, B)
    BY <2>2, <2>4, <2>5, <2>6 DEF StrictOrder
  <2> QED  BY <2>3, <2>7, OrderPermutes
<1>2. CASE seed # 0
  <2> DEFINE n == Cardinality(R)
  <2>1. s \in [1..n -> R] /\ \A i, j \in 1..n : s[i] = s[j] => i = j
    BY <1>2 DEF Schedules
  <2>2. n \in Nat /\ IsFiniteSet(1..n) /\ Cardinality(1..n) = Cardinality(R)
    BY FS_CardinalityType, FS_Interval
  <2>3. s \in Injection(1..n, R)
    BY <2>1 DEF Injection, IsInjective
  <2>4. s \in Surjection(1..n, R)
    BY <2>2, <2>3, FS_Injection
  <2>5. \A r \in R : \E m \in 1..n : s[m] = r
    BY <2>4 DEF Surjection
  <2> QED  BY <2>1, <2>5 DEF Permutes
<1> QED  BY <1>1, <1>2

-----------------------------------------------------------------------------
(* The events of a result.                                                 *)

\* The events of a result with the requests of a log.
Traces(ev, log) ==
    \E k \in Nat : \E s :
      /\ EventShape(ev, k, Cardinality(issue_global(log)), InTurn(issue_global(log)), s)
      /\ Permutes(s, Cardinality(issue_global(log)), issue_global(log))

LEMMA EngineTraces ==
    ASSUME NEW log, GoodLog(log), NEW issued \in Seq(IssueEvents), NEW l2 \in L2Streams(log),
           NEW ev, ev = normalize_memory_event_ids(issued \o l2)
    PROVE  /\ Traces(ev, log)
           /\ (\E j \in DOMAIN issued : issued[j].id = 0) => Parented(ev)
<1> DEFINE R == issue_global(log)
           n == Cardinality(R)
           t == InTurn(R)
<1>1. IsFiniteSet(R) /\ R \subseteq Requests /\ Numbered(R)
  BY RequestFacts
<1>2. PICK s \in Schedules(R, launch.seed) :
         l2 = L2Event("request", 0, t) \o drain_completions(n, s)
  BY DEF L2Streams
<1> HIDE DEF R
<1>3. Permutes(t, n, R) /\ Permutes(s, n, R)
  BY <1>1, TurnPermutes, SchedulePermutes
<1>4. n \in Nat
  BY <1>1, FS_CardinalityType
<1>5. Len(issued) \in Nat
  OBVIOUS
<1>6. ev = normalize_memory_event_ids(
              issued \o (L2Event("request", 0, t) \o drain_completions(n, s)))
  BY <1>2
<1> HIDE DEF n, t
<1> DEFINE k == Len(issued)
<1>7. /\ EventShape(ev, k, n, t, s)
      /\ (\E j \in 1..k : issued[j].id = 0) =>
           \A i \in (k + 1)..(k + n + n) : ev[i].parent # 0
  <2>1. t \in [1..n -> R] /\ s \in [1..n -> R]
    BY <1>3 DEF Permutes
  <2> QED  BY <1>4, <1>6, <2>1, ResultShape
<1>8. DOMAIN issued = 1..k
  OBVIOUS
<1>9. RequestsOf(ev) = (k + 1)..(k + n)
  BY <1>4, <1>5, <1>7, ShapeKinds
<1> HIDE DEF k
<1>10. Traces(ev, log)
  BY <1>3, <1>5, <1>7 DEF Traces, R, n, t, k
<1>11. ASSUME \E j \in DOMAIN issued : issued[j].id = 0  PROVE Parented(ev)
  <2> SUFFICES ASSUME NEW i \in RequestsOf(ev)  PROVE ev[i].parent # 0
    BY DEF Parented
  <2>1. k \in Nat
    BY <1>5 DEF k
  <2>2. i \in (k + 1)..(k + n + n)
    BY <1>4, <1>9, <2>1
  <2> QED  BY <1>7, <1>8, <1>11, <2>2
<1> QED  BY <1>10, <1>11

\* Without accesses there is no request.
LEMMA NoRequests ==
    ASSUME NEW log, log = {}, GoodLog(log), NEW ev, Traces(ev, log)
    PROVE  Parented(ev)
<1>1. issue_global(log) = {}
  BY DEF issue_global, Touched
<1>2. Cardinality(issue_global(log)) = 0
  BY <1>1, FS_EmptySet
<1>3. PICK k \in Nat : \E s :
         EventShape(ev, k, Cardinality(issue_global(log)), InTurn(issue_global(log)), s)
  BY DEF Traces
<1>4. PICK s : EventShape(ev, k, 0, InTurn(issue_global(log)), s)
  BY <1>2, <1>3
<1>5. RequestsOf(ev) = (k + 1)..(k + 0)
  BY <1>4, ShapeKinds
<1>6. RequestsOf(ev) = {}
  BY <1>5
<1> QED  BY <1>6 DEF Parented

LEMMA TraceComplete ==
    ASSUME NEW log, GoodLog(log), NEW ev, Traces(ev, log)
    PROVE  Complete(ev)
<1> DEFINE R == issue_global(log)
           n == Cardinality(R)
           t == InTurn(R)
<1>1. PICK k \in Nat : \E s : EventShape(ev, k, n, t, s) /\ Permutes(s, n, R)
  BY DEF Traces
<1>2. PICK s : EventShape(ev, k, n, t, s) /\ Permutes(s, n, R)
  BY <1>1
<1>3. IsFiniteSet(R) /\ R \subseteq Requests /\ Numbered(R)
  BY RequestFacts
<1> HIDE DEF R
<1>4. Permutes(t, n, R) /\ n \in Nat
  BY <1>3, TurnPermutes, FS_CardinalityType
<1> HIDE DEF n, t
<1> QED  BY <1>2, <1>3, <1>4, ShapeComplete

\* The counter of a worker starts at 0.
Counted(issued) == \A i \in DOMAIN issued : issued[i].id = i - 1

LEMMA IssueComplete ==
    ASSUME NEW ev \in Seq(IssueEvents), Counted(ev)
    PROVE  Complete(ev)
<1>1. \A i \in DOMAIN ev : ev[i].kind = "issue"
  <2> SUFFICES ASSUME NEW i \in DOMAIN ev  PROVE ev[i].kind = "issue"
    OBVIOUS
  <2>1. ev[i] \in IssueEvents
    OBVIOUS
  <2> QED  BY <2>1 DEF IssueEvents
<1>2. RequestsOf(ev) = {} /\ CompletionsOf(ev) = {}
  BY <1>1 DEF RequestsOf, CompletionsOf
<1>3. \A i, j \in DOMAIN ev : ev[i].id = ev[j].id => i = j
  <2> SUFFICES ASSUME NEW i \in DOMAIN ev, NEW j \in DOMAIN ev, ev[i].id = ev[j].id
               PROVE  i = j
    OBVIOUS
  <2>1. i \in Nat /\ j \in Nat
    OBVIOUS
  <2>2. i - 1 = j - 1
    BY DEF Counted
  <2> QED  BY <2>1, <2>2
<1> QED  BY <1>2, <1>3 DEF Complete

\* A worker counts its issue events, and has one after the first memory instruction
\* it has executed.
IssuedOK ==
    \A w \in Worker :
      /\ Counted(memory_events[w])
      /\ l2_log[w] # <<>> /\ fault[w] = NoFault =>
           memory_events[w] # <<>> \/ access[w] # NoAccess

LEMMA InitIssued == Init => IssuedOK
BY DEF Init, IssuedOK, Counted

LEMMA StepIssues ==
    ASSUME IndInv, NEW w \in Worker, Step(w)
    PROVE  /\ fault[w] = NoFault
           /\ \A u \in Worker : u # w => /\ memory_events'[u] = memory_events[u]
                                       /\ l2_log'[u] = l2_log[u] /\ fault'[u] = fault[u]
                                       /\ access'[u] = access[u]
           /\ \/ /\ memory_events'[w] = memory_events[w]
                 /\ \/ fault'[w] # NoFault \/ access'[w] # NoAccess
                    \/ access[w] = NoAccess /\ l2_log' = l2_log
              \/ \E c \in Cta : memory_events'[w] = Append(memory_events[w], IssueEvent(w, c))
<1> USE DEF IndInv
<1>1. \A u \in Worker : u # w => /\ l2_log'[u] = l2_log[u] /\ fault'[u] = fault[u]
                               /\ access'[u] = access[u]
  BY StepKeeps DEF OthersAlone, OthersKept
<1>2. fault[w] = NoFault
  <2>1. thread[w] # "ended"
    BY DEF Step, StartWorker, LimitReached, Execute, EndWorker, AddressOverflows, LoadLane,
           StoreLane, AtomicReads, AtomicWrites, At, Looping
  <2> QED  BY <2>1 DEF ControlOK, Ending
<1>3. CASE StartWorker(w) \/ LimitReached(w) \/ EndWorker(w)
  <2>1. UNCHANGED <<access, l2_log, memory_events>>
    BY <1>3 DEF StartWorker, LimitReached, EndWorker, memory
  <2> QED  BY <1>1, <1>2, <2>1
<1>4. CASE Execute(w)
  <2>1. UNCHANGED <<l2_log, memory_events>> /\ access[w] = NoAccess
    BY <1>4 DEF Execute, Looping
  <2> QED  BY <1>1, <1>2, <2>1
<1>5. CASE AddressOverflows(w) \/ LoadLane(w) \/ StoreLane(w) \/ AtomicReads(w) \/ AtomicWrites(w)
  <2>1. access[w] # NoAccess /\ launch' = launch
    BY <1>5, LaneCases DEF control
  <2>2. /\ access[w].lane \in 1..Len(Current(w).lanes) /\ Len(Current(w).lanes) \in Nat
        /\ access[w].cta \in Cta
    BY <2>1, LaneFacts
  <2>3. CASE NextLane(w)
    <3>1. CASE access[w].lane < Len(Current(w).lanes)
      <4>1. memory_events' = memory_events
        BY <2>3, <3>1 DEF NextLane
      <4>2. access'[w] = [cta |-> access[w].cta, lane |-> access[w].lane + 1, cur |-> NoValue]
        BY <2>1, <2>2, <2>3, <3>1, NextLaneType
      <4>3. access'[w] # NoAccess
        <5>1. access'[w].lane = access[w].lane + 1 /\ NoAccess.lane = 0
          BY <4>2 DEF NoAccess
        <5> QED  BY <2>2, <5>1
      <4> QED  BY <1>1, <1>2, <4>1, <4>3
    <3>2. CASE ~(access[w].lane < Len(Current(w).lanes))
      <4>1. memory_events' = [memory_events EXCEPT ![w] = Append(@, IssueEvent(w, access[w].cta))]
        BY <2>3, <3>2 DEF NextLane
      <4>2. /\ memory_events'[w] = Append(memory_events[w], IssueEvent(w, access[w].cta))
            /\ \A u \in Worker : u # w => memory_events'[u] = memory_events[u]
        BY <4>1 DEF TypeOK
      <4> QED  BY <1>1, <1>2, <2>2, <4>2
    <3> QED  BY <3>1, <3>2
  <2>4. CASE LaneFaults(w)
    <3>1. memory_events' = memory_events /\ fault'[w] # NoFault
      BY <2>1, <2>4, LaneFaultsType
    <3> QED  BY <1>1, <1>2, <3>1
  <2>5. CASE /\ access' = [access EXCEPT
                  ![w] = [cta |-> @.cta, lane |-> @.lane,
                          cur |-> Value(global, Effective(LaneOf(w)), Current(w).len)]]
             /\ UNCHANGED <<pc, memory_events, executed, thread, fault>>
    <3>1. access'[w].lane = access[w].lane /\ NoAccess.lane = 0
      BY <2>5 DEF TypeOK, AccessType, NoAccess
    <3>2. access'[w] # NoAccess
      BY <2>2, <3>1
    <3> QED  BY <1>1, <1>2, <2>5, <3>2
  <2> QED  BY <1>5, <2>3, <2>4, <2>5, LaneCases
<1> QED  BY <1>3, <1>4, <1>5 DEF Step

LEMMA IssuedStep ==
    ASSUME IndInv, IssuedOK, [Next]_vars
    PROVE  IssuedOK'
<1> USE DEF IndInv
<1>1. CASE \E w \in Worker : Step(w)
  <2>1. PICK w \in Worker : Step(w)
    BY <1>1
  <2>2. Worker' = Worker
    BY <2>1, StepResult
  <2>3. /\ fault[w] = NoFault
        /\ \A u \in Worker : u # w => /\ memory_events'[u] = memory_events[u]
                                    /\ l2_log'[u] = l2_log[u] /\ fault'[u] = fault[u]
                                    /\ access'[u] = access[u]
        /\ \/ /\ memory_events'[w] = memory_events[w]
              /\ \/ fault'[w] # NoFault \/ access'[w] # NoAccess
                 \/ access[w] = NoAccess /\ l2_log' = l2_log
           \/ \E c \in Cta : memory_events'[w] = Append(memory_events[w], IssueEvent(w, c))
    BY <2>1, StepIssues
  <2> SUFFICES ASSUME NEW u \in Worker
               PROVE  /\ Counted(memory_events'[u])
                      /\ l2_log'[u] # <<>> /\ fault'[u] = NoFault =>
                           memory_events'[u] # <<>> \/ access'[u] # NoAccess
    BY <2>2 DEF IssuedOK, Counted
  <2>4. /\ Counted(memory_events[u])
        /\ l2_log[u] # <<>> /\ fault[u] = NoFault =>
             memory_events[u] # <<>> \/ access[u] # NoAccess
    BY DEF IssuedOK
  <2>5. CASE u # w
    BY <2>3, <2>4, <2>5
  <2>6. CASE u = w /\ memory_events'[w] = memory_events[w]
                   /\ \/ fault'[w] # NoFault \/ access'[w] # NoAccess
                      \/ access[w] = NoAccess /\ l2_log' = l2_log
    BY <2>3, <2>4, <2>6
  <2>7. CASE u = w /\ \E c \in Cta : memory_events'[w] = Append(memory_events[w], IssueEvent(w, c))
    <3> DEFINE E == memory_events[w]
    <3>1. E \in Seq(IssueEvents)
      BY DEF TypeOK
    <3>2. PICK e : memory_events'[w] = Append(E, e) /\ e.id = Len(E)
      BY <2>7 DEF IssueEvent
    <3>3. Counted(E)
      BY <2>4, <2>7
    <3> HIDE DEF E
    <3>4. /\ DOMAIN Append(E, e) = 1..(Len(E) + 1) /\ Len(E) \in Nat /\ DOMAIN E = 1..Len(E)
          /\ \A i \in 1..Len(E) : Append(E, e)[i] = E[i]
          /\ Append(E, e)[Len(E) + 1] = e
      BY <3>1
    <3>5. ASSUME NEW i \in 1..(Len(E) + 1)  PROVE Append(E, e)[i].id = i - 1
      <4>1. CASE i \in 1..Len(E)
        BY <3>3, <3>4, <4>1 DEF Counted
      <4>2. CASE i = Len(E) + 1
        BY <3>2, <3>4, <4>2
      <4> QED  BY <3>4, <4>1, <4>2
    <3>6. Counted(memory_events'[w])
      BY <3>2, <3>4, <3>5 DEF Counted
    <3>7. memory_events'[w] # <<>>
      BY <3>2, <3>4
    <3> QED  BY <2>7, <3>6, <3>7
  <2> QED  BY <2>3, <2>5, <2>6, <2>7
<1>2. CASE ~(\E w \in Worker : Step(w))
  <2>1. UNCHANGED <<launch, memory_events, l2_log, fault, access>>
    BY <1>2 DEF Next, Done, vars, control, memory, Refused, RunResult, MergeFault, MergeClean, Untouched
  <2> QED  BY <2>1 DEF IssuedOK, Counted, Worker
<1> QED  BY <1>1, <1>2

\* The workers that have ended without a fault have an issue event if one of them has
\* a request.
LEMMA IssuedFirst ==
    ASSUME IndInv, IssuedOK, NEW w \in Worker, thread[w] = "ended", fault[w] = NoFault,
           l2_log[w] # <<>>
    PROVE  1 \in DOMAIN memory_events[w] /\ memory_events[w][1].id = 0
<1>1. access[w] = NoAccess
  BY DEF IndInv, ControlOK, InInstruction
<1>2. memory_events[w] # <<>> /\ memory_events[w] \in Seq(IssueEvents)
  BY <1>1 DEF IssuedOK, IndInv, TypeOK
<1>3. 1 \in DOMAIN memory_events[w]
  BY <1>2
<1> QED  BY <1>3 DEF IssuedOK, Counted

\* What the events of a result are: of a clean run, or of one worker, those of the
\* engine, and every request of a clean one has a parent; else only issue events.
ResultEvents ==
    result # NoResult =>
      \/ /\ result.events \in Seq(IssueEvents) /\ Counted(result.events)
         /\ result.fault # NoFault
      \/ /\ Traces(result.events, LogOf(Worker))
         /\ result.fault = NoFault => Parented(result.events)

LEMMA EventsStep ==
    ASSUME IndInv, NumberedOK, IssuedOK, ResultEvents, [Next]_vars
    PROVE  ResultEvents'
<1> USE DEF IndInv
<1> SUFFICES ASSUME result' # NoResult  PROVE ResultEvents'
  BY DEF ResultEvents
<1>1. CASE result # NoResult
  <2>1. UNCHANGED vars
    BY <1>1, Frozen
  <2>2. UNCHANGED <<result, l2_log, launch>>
    BY <2>1 DEF vars, control
  <2>3. LogOf(Worker)' = LogOf(Worker)
    BY <2>2 DEF LogOf, Worker
  <2> QED  BY <1>1, <2>2, <2>3 DEF ResultEvents
<1>2. CASE result = NoResult
  <2>1. Result /\ UNCHANGED State
    BY <1>2, SetsResult
  <2>2. UNCHANGED <<l2_log, launch>>
    BY <2>1 DEF State
  <2>3. LogOf(Worker)' = LogOf(Worker)
    BY <2>2 DEF LogOf, Worker
  <2>4. GoodLog(LogOf(Worker))
    BY LogIsGood
  <2>5. NoFault \notin Fault
    BY ParallelAssumption
  <2>6. CASE Refused
    <3>1. result'.events = <<>> /\ result'.fault = [kind |-> "internal", cta |-> 0]
      BY <2>6 DEF Refused
    <3>2. result'.fault \in Fault
      BY <3>1, ParallelAssumption DEF Fault, Cta
    <3>3. Counted(<<>>) /\ <<>> \in Seq(IssueEvents)
      BY DEF Counted
    <3> QED  BY <2>5, <3>1, <3>2, <3>3 DEF ResultEvents
  <2>7. CASE MergeFault
    <3>1. Faulted # {} /\ result'.events = memory_events[Winner] /\ result'.fault = fault[Winner]
      BY <2>7 DEF MergeFault
    <3>2. Winner \in Worker /\ fault[Winner] # NoFault
      BY <3>1, WinnerFaulted DEF Faulted
    <3>3. memory_events[Winner] \in Seq(IssueEvents) /\ Counted(memory_events[Winner])
      BY <3>2 DEF TypeOK, IssuedOK
    <3> QED  BY <3>1, <3>2, <3>3 DEF ResultEvents
  <2>8. CASE RunResult
    <3>1. launch.workers = 1
      BY <2>8 DEF RunResult
    <3>2. Worker = {0}
      BY <3>1 DEF Worker
    <3>3. memory_events[0] \in Seq(IssueEvents)
      BY <3>2 DEF TypeOK
    <3>4. PICK l2 \in L2Streams(LogOf({0})) :
             result'.events = normalize_memory_event_ids(memory_events[0] \o l2)
      BY <2>8 DEF RunResult
    <3>5. /\ Traces(result'.events, LogOf(Worker))
          /\ (\E j \in DOMAIN memory_events[0] : memory_events[0][j].id = 0) =>
               Parented(result'.events)
      BY <2>4, <3>2, <3>3, <3>4, EngineTraces
    <3>6. result'.fault = fault[0] /\ thread[0] = "ended"
      BY <2>8, <3>2 DEF RunResult, Joined
    <3>7. ASSUME result'.fault = NoFault  PROVE Parented(result'.events)
      <4>1. CASE l2_log[0] = <<>>
        <5>1. LogOf(Worker) = {}
          BY <3>2, <4>1 DEF LogOf, Range
        <5> QED  BY <2>4, <3>5, <5>1, NoRequests
      <4>2. CASE l2_log[0] # <<>>
        <5>1. 1 \in DOMAIN memory_events[0] /\ memory_events[0][1].id = 0
          BY <3>2, <3>6, <3>7, <4>2, IssuedFirst
        <5> QED  BY <3>5, <5>1
      <4> QED  BY <4>1, <4>2
    <3> QED  BY <2>3, <3>5, <3>7 DEF ResultEvents
  <2>9. CASE MergeClean
    <3>1. PICK l2 \in L2Streams(LogOf(Worker)) :
             result'.events = normalize_memory_event_ids(AllIssued \o l2)
      BY <2>9 DEF MergeClean
    <3>2. AllIssued \in Seq(IssueEvents)
      BY IssuedType
    <3>3. /\ Traces(result'.events, LogOf(Worker))
          /\ (\E j \in DOMAIN AllIssued : AllIssued[j].id = 0) => Parented(result'.events)
      BY <2>4, <3>1, <3>2, EngineTraces
    <3>4. \A w \in Worker : thread[w] = "ended" /\ fault[w] = NoFault
      BY <2>9 DEF MergeClean, Joined, Faulted
    <3>5. CASE \A w \in Worker : l2_log[w] = <<>>
      <4>1. LogOf(Worker) = {}
        BY <3>5 DEF LogOf, Range
      <4>2. Parented(result'.events)
        BY <2>4, <3>3, <4>1, NoRequests
      <4> QED  BY <2>3, <3>3, <4>2 DEF ResultEvents
    <3>6. CASE \E w \in Worker : l2_log[w] # <<>>
      <4>1. PICK w \in Worker : l2_log[w] # <<>>
        BY <3>6
      <4>2. 1 \in DOMAIN memory_events[w] /\ memory_events[w][1].id = 0
        BY <3>4, <4>1, IssuedFirst
      <4>3. PICK j \in DOMAIN AllIssued : AllIssued[j] = memory_events[w][1]
        BY <4>2, IssuedHas
      <4>4. Parented(result'.events)
        BY <3>3, <4>2, <4>3
      <4> QED  BY <2>3, <3>3, <4>4 DEF ResultEvents
    <3> QED  BY <3>5, <3>6
  <2> QED  BY <2>1, <2>6, <2>7, <2>8, <2>9 DEF Result
<1> QED  BY <1>1, <1>2

\* RequestsComplete for every grid, worker count, program, log and seed, with all the
\* orders in which the generator may draw: the counters of the workers and of the
\* engine collide, yet no two events of a result share a number; no request of the
\* engine is lost, drained twice or answered under another parent, every completion
\* follows the request it answers, and a request of a clean run names an issue event
\* before it (issue_global, drain_completions, normalize_memory_event_ids).
THEOREM RequestsAreComplete == FairSpec => []RequestsComplete
<1> DEFINE Inv == IndInv /\ NumberedOK /\ IssuedOK /\ ResultEvents
<1>1. Init => Inv
  BY IndInit, InitNumbered, InitIssued DEF Init, ResultEvents
<1>2. Inv /\ [Next]_vars => Inv'
  BY IndStep, NumberedStep, IssuedStep, EventsStep
<1>3. Inv => RequestsComplete
  <2> SUFFICES ASSUME Inv, result # NoResult
               PROVE  /\ Complete(result.events)
                      /\ result.fault = NoFault => Parented(result.events)
    BY DEF RequestsComplete, Complete, Parented, RequestsOf, CompletionsOf
  <2>1. GoodLog(LogOf(Worker))
    BY LogIsGood DEF IndInv
  <2>2. CASE /\ result.events \in Seq(IssueEvents) /\ Counted(result.events)
             /\ result.fault # NoFault
    BY <2>2, IssueComplete
  <2>3. CASE /\ Traces(result.events, LogOf(Worker))
             /\ result.fault = NoFault => Parented(result.events)
    BY <2>1, <2>3, TraceComplete
  <2> QED  BY <2>2, <2>3 DEF ResultEvents
<1> QED  BY <1>1, <1>2, <1>3, PTL DEF FairSpec

-----------------------------------------------------------------------------
(* The log and the programs.                                               *)

\* The descriptor of the access at a place: its address in plain integers, its number
\* in the order of the program.
Expected(p) ==
    [cta |-> p[1], sm |-> p[1] % NumSms, addr |-> First(AccessAt(p)),
     len |-> AccessAt(p).op.len, op |-> AccessAt(p).op, lane |-> AccessAt(p).lane,
     ordinal |-> Ordinal(p)]

LoggedOf(w, c) == {k \in DOMAIN l2_log[w] : l2_log[w][k].cta = c}
PassedIn(c) == {p \in Places : p[1] = c /\ Passed(p)}

\* The log holds the accesses a CTA has done, and no others.
LoggedOK(w, c) ==
    /\ \A k \in LoggedOf(w, c) : \E p \in PassedIn(c) : l2_log[w][k] = Expected(p)
    /\ \A p \in PassedIn(c) : \E k \in LoggedOf(w, c) : l2_log[w][k] = Expected(p)
    /\ Cardinality(LoggedOf(w, c)) = Cardinality(PassedIn(c))

\* ... if its worker has not faulted and it neither waits nor jumps back.
LogOK ==
    \A w \in Worker : fault[w] = NoFault =>
        \A c \in Owned(w) : Straight(c) => LoggedOK(w, c)

LEMMA FinitePlaces ==
    ASSUME launch \in Launches
    PROVE  IsFiniteSet(Places)
<1> DEFINE Ops(c) == {n \in DOMAIN launch.prog[c] : launch.prog[c][n].op \in MemoryOps}
           In(c, n) == {<<c, n, k>> : k \in DOMAIN launch.prog[c][n].lanes}
<1>1. ASSUME NEW c \in Cta  PROVE IsFiniteSet(UNION {In(c, n) : n \in Ops(c)})
  <2>1. launch.prog[c] \in Seq(Instruction)
    BY LaunchFacts
  <2>2. IsFiniteSet(DOMAIN launch.prog[c])
    BY <2>1, FS_Interval
  <2>3. IsFiniteSet(Ops(c))
    BY <2>2, FS_Subset
  <2>4. ASSUME NEW n \in Ops(c)  PROVE IsFiniteSet(In(c, n))
    <3> DEFINE K == DOMAIN launch.prog[c][n].lanes
               g == [k \in K |-> <<c, n, k>>]
    <3>1. launch.prog[c][n].lanes \in Seq(Lane)
      BY LaunchFacts
    <3>2. IsFiniteSet(K)
      BY <3>1, FS_Interval
    <3>3. DOMAIN g = K /\ In(c, n) = {g[k] : k \in K}
      OBVIOUS
    <3> HIDE DEF g, K
    <3> QED  BY <3>2, <3>3, FiniteImage
  <2> DEFINE f == [n \in Ops(c) |-> In(c, n)]
  <2>5. DOMAIN f = Ops(c) /\ \A n \in Ops(c) : IsFiniteSet(f[n])
    BY <2>4
  <2>6. UNION {In(c, n) : n \in Ops(c)} = UNION {f[n] : n \in Ops(c)}
    <3> HIDE DEF Ops, In
    <3> QED  BY DEF f
  <2> HIDE DEF f, Ops
  <2> QED  BY <2>3, <2>5, <2>6, FiniteUnion
<1> DEFINE h == [c \in Cta |-> UNION {In(c, n) : n \in Ops(c)}]
<1>2. DOMAIN h = Cta /\ \A c \in Cta : IsFiniteSet(h[c])
  BY <1>1
<1>3. Places = UNION {h[c] : c \in Cta}
  BY DEF Places
<1> HIDE DEF h
<1> QED  BY <1>2, <1>3, FiniteCtas, FiniteUnion

LEMMA ExpectedKept ==
    ASSUME launch' = launch
    PROVE  \A p : Expected(p)' = Expected(p)
<1>1. Places' = Places /\ \A p : AccessAt(p)' = AccessAt(p)
  BY PlacesKept
<1> QED  BY <1>1 DEF Expected, Ordinal, First

LEMMA LoggedSame ==
    ASSUME launch' = launch, NEW w, NEW c, LoggedOK(w, c), l2_log'[w] = l2_log[w],
           PassedIn(c)' = PassedIn(c)
    PROVE  LoggedOK(w, c)'
<1>1. LoggedOf(w, c)' = LoggedOf(w, c)
  BY DEF LoggedOf
<1>2. \A p : Expected(p)' = Expected(p)
  BY ExpectedKept
<1> QED  BY <1>1, <1>2 DEF LoggedOK

\* The lane a worker is in: what comes before it is what is done.
LEMMA HereOrdinal ==
    ASSUME TypeOK, ControlOK, NEW w \in Worker, access[w] # NoAccess
    PROVE  /\ Here(w) \notin PassedIn(access[w].cta)
           /\ Ordinal(Here(w)) = Cardinality(PassedIn(access[w].cta))
<1> DEFINE c == access[w].cta
           h == Here(w)
<1>1. c \in Owned(w) /\ c \in Cta /\ pc[c] \in Nat /\ access[w].lane \in Nat
  BY LaneFacts
<1>2. OwnerOf(c) = w
  BY <1>1, Owners DEF TypeOK
<1>3. h[1] = c /\ h[2] = pc[c] /\ h[3] = access[w].lane
  BY DEF Here
<1>4. \A q \in Places : q[1] = c => (Passed(q) <=> InCta(q, h))
  BY <1>2, <1>3 DEF Passed, InCta
<1>5. \A q \in Places : InCta(q, h) => q[1] = c
  BY <1>3 DEF InCta
<1>6. PassedIn(c) = {q \in Places : InCta(q, h)}
  BY <1>4, <1>5 DEF PassedIn
<1>7. ~InCta(h, h)
  BY <1>1, <1>3 DEF InCta
<1> QED  BY <1>6, <1>7 DEF Ordinal

LEMMA LoggedOneMore ==
    ASSUME IndInv, NEW w \in Worker, access[w] # NoAccess, Effective(LaneOf(w)) # Overflow,
           launch' = launch, NEW c, c = access[w].cta, LoggedOK(w, c),
           Record(w), NextLane(w)
    PROVE  LoggedOK(w, c)'
<1> USE DEF IndInv
<1> DEFINE h == Here(w)
           L == l2_log[w]
           n == Len(L)
           d == Descriptor(w)
<1>1. L \in Seq(Descriptors) /\ n \in Nat /\ DOMAIN L = 1..n
  BY DEF TypeOK
<1>2. l2_log'[w] = Append(L, d) /\ d \in Descriptors
  BY RecordType, DescriptorType
<1>3. /\ h \in Places /\ h[1] = c /\ c \in Cta /\ OwnerOf(c) = w
      /\ AccessAt(h) = [op |-> Current(w), lane |-> LaneOf(w)] /\ LaneOf(w) \in Lane
  BY LaneFacts, Owners DEF Here, TypeOK
<1>4. h \notin PassedIn(c) /\ Ordinal(h) = Cardinality(PassedIn(c))
  BY HereOrdinal
<1>5. d = Expected(h)
  <2>1. d.ordinal = Cardinality(LoggedOf(w, c))
    BY DEF Descriptor, LoggedOf
  <2>2. d.ordinal = Ordinal(h)
    BY <1>4, <2>1 DEF LoggedOK
  <2>3. Effective(LaneOf(w)) = First(AccessAt(h))
    BY <1>3, EffectiveSum DEF First
  <2>4. d = [cta |-> c, sm |-> c % NumSms, addr |-> Effective(LaneOf(w)),
             len |-> Current(w).len, op |-> Current(w), lane |-> LaneOf(w),
             ordinal |-> d.ordinal]
    BY DEF Descriptor
  <2> HIDE DEF d, h
  <2> QED  BY <1>3, <2>2, <2>3, <2>4 DEF Expected
<1>6. d.cta = c
  BY DEF Descriptor
<1>7. \A p : Expected(p)' = Expected(p)
  BY ExpectedKept
<1>8. PassedIn(c)' = PassedIn(c) \cup {h}
  <2>1. Places' = Places
    BY PlacesKept
  <2>2. \A p \in Places : p[1] = c => (Passed(p)' <=> Passed(p) \/ p = h)
    BY <1>3, PassedNextLane
  <2> HIDE DEF h
  <2> QED  BY <1>3, <2>1, <2>2 DEF PassedIn
<1> HIDE DEF d, h, L
<1>9. /\ l2_log'[w][n + 1] = d /\ DOMAIN l2_log'[w] = 1..(n + 1)
      /\ \A k \in 1..n : l2_log'[w][k] = L[k]
  BY <1>1, <1>2
<1>10. LoggedOf(w, c)' = LoggedOf(w, c) \cup {n + 1} /\ n + 1 \notin LoggedOf(w, c)
  <2>1. LoggedOf(w, c) = {k \in 1..n : L[k].cta = c}
    BY <1>1 DEF LoggedOf, L
  <2>2. LoggedOf(w, c)' = {k \in 1..(n + 1) : l2_log'[w][k].cta = c}
    BY <1>9 DEF LoggedOf
  <2>3. \A k : k \in 1..(n + 1) <=> k \in 1..n \/ k = n + 1
    BY <1>1
  <2>4. n + 1 \notin 1..n
    BY <1>1
  <2> HIDE DEF n
  <2> QED  BY <1>6, <1>9, <2>1, <2>2, <2>3, <2>4
<1>11. \A k \in LoggedOf(w, c) : l2_log'[w][k] = l2_log[w][k]
  BY <1>1, <1>9 DEF LoggedOf, L
<1>12. \A k \in LoggedOf(w, c)' : \E p \in PassedIn(c)' : l2_log'[w][k] = Expected(p)
  BY <1>5, <1>8, <1>9, <1>10, <1>11 DEF LoggedOK
<1>13. \A p \in PassedIn(c)' : \E k \in LoggedOf(w, c)' : l2_log'[w][k] = Expected(p)
  BY <1>5, <1>8, <1>9, <1>10, <1>11 DEF LoggedOK
<1>14. Cardinality(LoggedOf(w, c)') = Cardinality(PassedIn(c)')
  <2>1. IsFiniteSet(LoggedOf(w, c)) /\ IsFiniteSet(PassedIn(c))
    <3>1. LoggedOf(w, c) \subseteq 1..n
      BY <1>1 DEF LoggedOf, L
    <3>3. IsFiniteSet(1..n)
      <4>1. n \in Nat
        BY <1>1
      <4> HIDE DEF n
      <4> QED  BY <4>1, FS_Interval
    <3>2. IsFiniteSet(Places) /\ PassedIn(c) \subseteq Places
      BY FinitePlaces DEF TypeOK, PassedIn
    <3> QED  BY <3>1, <3>2, <3>3, FS_Subset
  <2>2. Cardinality(LoggedOf(w, c)') = Cardinality(LoggedOf(w, c)) + 1
    BY <1>10, <2>1, FS_AddElement
  <2>3. Cardinality(PassedIn(c)') = Cardinality(PassedIn(c)) + 1
    BY <1>4, <1>8, <2>1, FS_AddElement
  <2> QED  BY <2>2, <2>3 DEF LoggedOK
<1> QED  BY <1>7, <1>12, <1>13, <1>14 DEF LoggedOK

LEMMA InitLog == ASSUME Init, TypeOK PROVE LogOK
<1> SUFFICES ASSUME NEW w \in Worker, NEW c \in Owned(w)  PROVE LoggedOK(w, c)
  BY DEF LogOK
<1>1. LoggedOf(w, c) = {}
  BY DEF Init, LoggedOf
<1>2. ASSUME NEW p \in Places  PROVE ~Passed(p)
  <2>1. p[1] \in Cta /\ OwnerOf(p[1]) \in Worker /\ p[2] \in Nat \ {0} /\ p[3] \in Nat \ {0}
    BY PlaceFacts, Owners DEF TypeOK
  <2>2. pc[p[1]] = 1 /\ access[OwnerOf(p[1])].lane = 0
    BY <2>1 DEF Init, NoAccess
  <2> QED  BY <2>1, <2>2 DEF Passed
<1>3. PassedIn(c) = {}
  BY <1>2 DEF PassedIn
<1> QED  BY <1>1, <1>3 DEF LoggedOK

LEMMA LogStep ==
    ASSUME IndInv, LogOK, [Next]_vars
    PROVE  LogOK'
<1> USE DEF IndInv
<1>1. CASE UNCHANGED State
  <2>1. launch' = launch /\ Worker' = Worker /\ fault' = fault /\ l2_log' = l2_log
    BY <1>1 DEF State, Worker
  <2>2. \A c : PassedIn(c)' = PassedIn(c)
    <3>1. \A p \in Places : Passed(p)' <=> Passed(p)
      BY <1>1 DEF Passed, State, memory, OwnerOf
    <3> QED  BY <2>1, <3>1, PlacesKept DEF PassedIn
  <2> SUFFICES ASSUME NEW w \in Worker, fault[w] = NoFault, NEW c \in Owned(w), Straight(c)
               PROVE  LoggedOK(w, c)'
    BY <2>1 DEF LogOK, Owned, Straight
  <2>3. LoggedOK(w, c)
    BY DEF LogOK
  <2> QED  BY <2>1, <2>2, <2>3, LoggedSame
<1>2. ASSUME NEW w \in Worker, Step(w)  PROVE LogOK'
  <2>1. launch' = launch /\ Worker' = Worker /\ Places' = Places
    BY <1>2, StepResult, PlacesKept
  <2>2. \A u \in Worker : u # w => l2_log'[u] = l2_log[u] /\ fault'[u] = fault[u]
    BY <1>2, StepKeeps DEF OthersAlone, OthersKept
  <2>3. fault[w] = NoFault
    <3>1. thread[w] # "ended"
      BY <1>2 DEF Step, StartWorker, LimitReached, Execute, EndWorker, AddressOverflows,
                  LoadLane, StoreLane, AtomicReads, AtomicWrites, At, Looping
    <3> QED  BY <3>1 DEF ControlOK, Ending
  <2> SUFFICES ASSUME NEW u \in Worker, fault'[u] = NoFault, NEW c \in Owned(u), Straight(c)
               PROVE  LoggedOK(u, c)'
    BY <2>1 DEF LogOK, Owned, Straight
  <2>4. OwnerOf(c) = u /\ c \in Cta
    BY Owners DEF TypeOK
  <2>5. LoggedOK(u, c)
    BY <2>2, <2>3 DEF LogOK
  <2>6. CASE u # w
    <3>1. \A p \in Places : p[1] = c => (Passed(p)' <=> Passed(p))
      BY <1>2, <2>4, <2>6, PassedOther
    <3>2. PassedIn(c)' = PassedIn(c)
      BY <2>1, <3>1 DEF PassedIn
    <3> QED  BY <2>1, <2>2, <2>5, <2>6, <3>2, LoggedSame
  <2>7. CASE u = w /\ ~(access[w] # NoAccess /\ NextLane(w))
    <3>1. \A p \in Places : p[1] = c => (Passed(p)' <=> Passed(p))
      BY <1>2, <2>4, <2>7, PassedNoLane
    <3>2. PassedIn(c)' = PassedIn(c)
      BY <2>1, <3>1 DEF PassedIn
    <3>3. l2_log' = l2_log
      <4>1. CASE AddressOverflows(w) \/ LoadLane(w) \/ StoreLane(w) \/ AtomicReads(w) \/ AtomicWrites(w)
        <5>1. access[w] # NoAccess
          BY <4>1, LaneCases
        <5>2. ~LaneFaults(w)
          <6>1. fault'[w] # NoFault \/ ~LaneFaults(w)
            BY <2>1, <5>1, LaneFaultsType
          <6> QED  BY <2>7, <6>1
        <5> QED  BY <2>7, <4>1, <5>1, <5>2, LaneVerdict
      <4>2. CASE StartWorker(w) \/ LimitReached(w) \/ Execute(w) \/ EndWorker(w)
        BY <4>2 DEF StartWorker, LimitReached, Execute, EndWorker
      <4> QED  BY <1>2, <4>1, <4>2 DEF Step
    <3> QED  BY <2>1, <2>5, <2>7, <3>2, <3>3, LoggedSame
  <2>8. CASE u = w /\ access[w] # NoAccess /\ NextLane(w)
    <3>1. AddressOverflows(w) \/ LoadLane(w) \/ StoreLane(w) \/ AtomicReads(w) \/ AtomicWrites(w)
      BY <1>2, <2>8 DEF Step, StartWorker, LimitReached, Execute, EndWorker, Looping,
                        ControlOK, InInstruction
    <3>2. Accepted(Current(w), LaneOf(w)) /\ Record(w)
      BY <2>8, <3>1, LaneVerdict
    <3>3. Effective(LaneOf(w)) # Overflow
      BY <3>2 DEF Accepted
    <3>4. CASE c = access[w].cta
      BY <2>1, <2>5, <2>8, <3>2, <3>3, <3>4, LoggedOneMore
    <3>5. CASE c # access[w].cta
      <4> DEFINE L == l2_log[w]
                 d == Descriptor(w)
      <4>1. L \in Seq(Descriptors) /\ l2_log'[w] = Append(L, d) /\ d \in Descriptors
        BY <2>8, <3>2, <3>3, RecordType, DescriptorType DEF TypeOK
      <4>2. d.cta = access[w].cta
        BY DEF Descriptor
      <4> HIDE DEF d
      <4>3. LoggedOf(w, c)' = LoggedOf(w, c) /\ \A k \in LoggedOf(w, c) : l2_log'[w][k] = l2_log[w][k]
        BY <3>5, <4>1, <4>2 DEF LoggedOf
      <4>4. \A p \in Places : p[1] = c => (Passed(p)' <=> Passed(p))
        <5> SUFFICES ASSUME NEW p \in Places, p[1] = c  PROVE Passed(p)' <=> Passed(p)
          OBVIOUS
        <5>1. p # Here(w)
          BY <3>5 DEF Here
        <5> QED  BY <2>1, <2>4, <2>8, <5>1, PassedNextLane
      <4>5. PassedIn(c)' = PassedIn(c)
        BY <2>1, <4>4 DEF PassedIn
      <4>6. \A p : Expected(p)' = Expected(p)
        BY <2>1, ExpectedKept
      <4> QED  BY <2>5, <2>8, <4>3, <4>5, <4>6 DEF LoggedOK
    <3> QED  BY <3>4, <3>5
  <2> QED  BY <2>6, <2>7, <2>8
<1>3. CASE ~(\E w \in Worker : Step(w))
  <2>1. UNCHANGED State
    BY <1>3 DEF Next, Done, vars, control, State, Refused, RunResult, MergeFault, MergeClean, Untouched
  <2> QED  BY <1>1, <2>1
<1> QED  BY <1>2, <1>3

\* The log of a clean launch is that of its programs.
LEMMA CleanLog ==
    ASSUME IndInv, LogOK, NumberedOK, AllFinished, \A w \in Worker : fault[w] = NoFault
    PROVE  LogOf(Worker) = {Expected(p) : p \in Places}
<1> USE DEF IndInv
<1>1. LogOf(Worker) = UNION {{l2_log[w][k] : k \in DOMAIN l2_log[w]} : w \in Worker}
  BY DEF LogOf, Range
<1>2. ASSUME NEW c \in Cta  PROVE Straight(c) /\ pc[c] > Len(launch.prog[c])
  <2>1. Within(c) /\ pc[c] \in Nat /\ Finished(c)
    BY DEF ControlOK, TypeOK, AllFinished
  <2>2. launch.prog[c] \in Seq(Instruction) /\ Len(launch.prog[c]) \in Nat
    BY LaunchFacts DEF TypeOK
  <2>3. \A n \in DOMAIN launch.prog[c] : n \in Nat /\ n <= Len(launch.prog[c])
    BY <2>2
  <2> QED  BY <2>1, <2>2, <2>3 DEF Within, Finished, Straight
<1>3. ASSUME NEW p \in Places
      PROVE  p[1] \in Cta /\ p \in PassedIn(p[1])
  <2>1. p[1] \in Cta /\ p[2] \in Nat /\ p[2] <= Len(launch.prog[p[1]])
    BY PlaceFacts DEF TypeOK
  <2>2. pc[p[1]] \in Nat /\ Len(launch.prog[p[1]]) \in Nat
    BY <2>1, LaunchFacts DEF TypeOK
  <2>3. p[2] < pc[p[1]]
    BY <1>2, <2>1, <2>2
  <2> QED  BY <2>1, <2>3 DEF PassedIn, Passed
<1>4. ASSUME NEW w \in Worker, NEW k \in DOMAIN l2_log[w]
      PROVE  \E p \in Places : l2_log[w][k] = Expected(p)
  <2> DEFINE c == l2_log[w][k].cta
  <2>1. c \in Owned(w) /\ c \in Cta
    BY DEF NumberedOK, Owned
  <2>2. LoggedOK(w, c)
    BY <1>2, <2>1 DEF LogOK
  <2>3. k \in LoggedOf(w, c)
    BY DEF LoggedOf
  <2> HIDE DEF c
  <2> QED  BY <2>2, <2>3 DEF LoggedOK, PassedIn
<1>5. ASSUME NEW p \in Places
      PROVE  \E w \in Worker : \E k \in DOMAIN l2_log[w] : l2_log[w][k] = Expected(p)
  <2> DEFINE c == p[1]
             w == OwnerOf(c)
  <2>1. c \in Cta /\ p \in PassedIn(c)
    BY <1>3
  <2>2. w \in Worker /\ c \in Owned(w)
    BY <2>1, Owners DEF TypeOK
  <2>3. LoggedOK(w, c)
    BY <1>2, <2>1, <2>2 DEF LogOK
  <2> HIDE DEF c, w
  <2> QED  BY <2>1, <2>2, <2>3 DEF LoggedOK, LoggedOf
<1> QED  BY <1>1, <1>4, <1>5

\* The key of an event, and of a sector of the log.
Key(ev, i) == <<ev[i].cta, ev[i].ordinal, ev[i].sector>>
KeyOf(p) == <<p[1].cta, p[1].ordinal, p[2]>>

LEMMA TraceKeys ==
    ASSUME NEW log, GoodLog(log), NEW ev, Traces(ev, log)
    PROVE  /\ {Key(ev, i) : i \in RequestsOf(ev)} = {KeyOf(p) : p \in Touched(log)}
           /\ \A i, j \in RequestsOf(ev) : i < j => KeyBefore(Key(ev, i), Key(ev, j))
<1> DEFINE R == issue_global(log)
           n == Cardinality(R)
           t == InTurn(R)
<1>1. PICK k \in Nat : \E s : EventShape(ev, k, n, t, s) /\ Permutes(s, n, R)
  BY DEF Traces
<1>2. PICK s : EventShape(ev, k, n, t, s) /\ Permutes(s, n, R)
  BY <1>1
<1>3. /\ IsFiniteSet(R) /\ R \subseteq Requests /\ Numbered(R)
      /\ \A p \in Touched(log) : RequestOf(log, p) \in R
      /\ \A r \in R : \E p \in Touched(log) : r = RequestOf(log, p)
      /\ \A p, q \in Touched(log) :
           RequestOf(log, p).request < RequestOf(log, q).request => <<p, q>> \in IssuedBefore(log)
  BY RequestFacts
<1> HIDE DEF R
<1>4. /\ Permutes(t, n, R) /\ n \in Nat
      /\ \A i, j \in 1..n : i < j => t[i].request < t[j].request
  BY <1>3, TurnPermutes, FS_CardinalityType
<1> HIDE DEF n, t
<1>5. RequestsOf(ev) = (k + 1)..(k + n)
  <2>1. EventShape(ev, k, n, t, s) /\ n \in Nat
    BY <1>2, <1>4
  <2> QED  BY ONLY <2>1, k \in Nat, ShapeKinds
<1>6. ASSUME NEW m \in 1..n
      PROVE  /\ k + m \in RequestsOf(ev)
             /\ \E p \in Touched(log) : t[m] = RequestOf(log, p) /\ Key(ev, k + m) = KeyOf(p)
  <2>1. k + m \in RequestsOf(ev)
    BY <1>4, <1>5
  <2>2. t[m] \in R
    BY <1>4 DEF Permutes
  <2>3. PICK p \in Touched(log) : t[m] = RequestOf(log, p)
    BY <1>3, <2>2
  <2>4. ev[k + m].cta = t[m].cta /\ ev[k + m].ordinal = t[m].ordinal /\ ev[k + m].sector = t[m].sector
    BY <1>2 DEF EventShape
  <2>5. Key(ev, k + m) = KeyOf(p)
    BY <2>3, <2>4 DEF Key, KeyOf, RequestOf
  <2> QED  BY <2>1, <2>3, <2>5
<1>7. ASSUME NEW i \in RequestsOf(ev)  PROVE \E m \in 1..n : i = k + m
  <2>1. i - k \in 1..n /\ i = k + (i - k)
    BY <1>4, <1>5
  <2> QED  BY <2>1
<1>8. ASSUME NEW p \in Touched(log)  PROVE \E i \in RequestsOf(ev) : Key(ev, i) = KeyOf(p)
  <2>1. PICK m \in 1..n : t[m] = RequestOf(log, p)
    BY <1>3, <1>4 DEF Permutes
  <2>2. ev[k + m].cta = t[m].cta /\ ev[k + m].ordinal = t[m].ordinal /\ ev[k + m].sector = t[m].sector
    BY <1>2 DEF EventShape
  <2>3. Key(ev, k + m) = KeyOf(p)
    BY <2>1, <2>2 DEF Key, KeyOf, RequestOf
  <2> QED  BY <1>6, <2>3
<1>9. \A i \in RequestsOf(ev) : \E p \in Touched(log) : Key(ev, i) = KeyOf(p)
  BY <1>6, <1>7
<1>10. ASSUME NEW i \in RequestsOf(ev), NEW j \in RequestsOf(ev), i < j
       PROVE  KeyBefore(Key(ev, i), Key(ev, j))
  <2>1. PICK l \in 1..n : i = k + l
    BY <1>7
  <2>2. PICK m \in 1..n : j = k + m
    BY <1>7
  <2>3. l < m
    BY <1>4, <1>10, <2>1, <2>2
  <2>4. PICK p \in Touched(log) : t[l] = RequestOf(log, p) /\ Key(ev, i) = KeyOf(p)
    BY <1>6, <2>1
  <2>5. PICK q \in Touched(log) : t[m] = RequestOf(log, q) /\ Key(ev, j) = KeyOf(q)
    BY <1>6, <2>2
  <2>6. t[l].request < t[m].request
    BY <1>4, <2>3
  <2>7. <<p, q>> \in IssuedBefore(log)
    BY <1>3, <2>4, <2>5, <2>6
  <2>8. InLogOrder(p[1], q[1]) \/ (p[1] = q[1] /\ p[2] < q[2])
    BY <2>7 DEF IssuedBefore
  <2>9. KeyBefore(KeyOf(p), KeyOf(q))
    BY <2>8 DEF KeyBefore, KeyOf, InLogOrder
  <2> QED  BY <2>4, <2>5, <2>9
<1> QED  BY <1>8, <1>9, <1>10

\* The keys of the log of a clean launch are those of the programs.
LEMMA CleanKeys ==
    ASSUME NEW log, GoodLog(log), log = {Expected(p) : p \in Places}
    PROVE  {KeyOf(q) : q \in Touched(log)} = UNION {KeysOf(p) : p \in Places}
<1>1. ASSUME NEW q \in Touched(log)
      PROVE  \E p \in Places : KeyOf(q) \in KeysOf(p)
  <2>1. q[1] \in log /\ q[2] \in Sectors(q[1].addr, q[1].len)
    BY TouchedFacts
  <2>2. PICK p \in Places : q[1] = Expected(p)
    BY <2>1
  <2>3. q[1].cta = p[1] /\ q[1].ordinal = Ordinal(p) /\ q[1].addr = First(AccessAt(p))
        /\ q[1].len = AccessAt(p).op.len
    BY <2>2 DEF Expected
  <2>4. KeyOf(q) = <<p[1], Ordinal(p), q[2]>> /\ q[2] \in Sectors(First(AccessAt(p)), AccessAt(p).op.len)
    BY <2>1, <2>3 DEF KeyOf
  <2>5. KeyOf(q) \in KeysOf(p)
    BY <2>4 DEF KeysOf
  <2> QED  BY <2>5
<1>2. ASSUME NEW p \in Places, NEW x \in KeysOf(p)
      PROVE  \E q \in Touched(log) : x = KeyOf(q)
  <2> DEFINE d == Expected(p)
  <2>1. PICK y \in Sectors(First(AccessAt(p)), AccessAt(p).op.len) : x = <<p[1], Ordinal(p), y>>
    BY DEF KeysOf
  <2>2. d \in log
    OBVIOUS
  <2>3. d.cta = p[1] /\ d.ordinal = Ordinal(p) /\ d.addr = First(AccessAt(p))
        /\ d.len = AccessAt(p).op.len
    BY DEF Expected
  <2> HIDE DEF d
  <2>4. <<d, y>> \in Touched(log)
    <3>1. y \in Sectors(d.addr, d.len)
      BY <2>1, <2>3
    <3> QED  BY <2>2, <3>1, TouchedFacts
  <2>5. x = KeyOf(<<d, y>>)
    BY <2>1, <2>3 DEF KeyOf
  <2> QED  BY <2>4, <2>5
<1>3. {KeyOf(q) : q \in Touched(log)} \subseteq UNION {KeysOf(p) : p \in Places}
  BY <1>1, Zenon
<1>4. UNION {KeysOf(p) : p \in Places} \subseteq {KeyOf(q) : q \in Touched(log)}
  <2> SUFFICES ASSUME NEW x \in UNION {KeysOf(p) : p \in Places}
               PROVE  x \in {KeyOf(q) : q \in Touched(log)}
    BY Zenon
  <2>1. PICK p \in Places : x \in KeysOf(p)
    OBVIOUS
  <2>2. PICK q \in Touched(log) : x = KeyOf(q)
    BY <1>2, <2>1
  <2> QED  BY <2>2
<1> QED  BY <1>3, <1>4, Zenon

\* L2TraceOrder for every grid, worker count, program, buffer and interleaving: the
\* requests of a clean run are those of the programs, CTA by CTA and in the order of
\* each program, although every worker logs only what its own CTAs do and in the
\* order in which the threads got there (record_l2_access, run_result_parallel).
THEOREM TraceIsOrdered == FairSpec => []L2TraceOrder
<1> DEFINE Inv == /\ IndInv /\ CountOK /\ NewOK /\ CleanIffAllRan
                  /\ NumberedOK /\ IssuedOK /\ ResultEvents /\ LogOK
<1>1. Init => Inv
  <2> SUFFICES ASSUME Init  PROVE Inv
    OBVIOUS
  <2>1. IndInv /\ TypeOK /\ CleanIffAllRan /\ NumberedOK
    BY IndInit, InitClean, InitNumbered DEF IndInv
  <2>2. CountOK /\ NewOK
    BY <2>1, InitCount
  <2>3. LogOK
    BY <2>1, InitLog
  <2>4. ResultEvents /\ IssuedOK
    BY InitIssued DEF Init, ResultEvents
  <2> QED  BY <2>1, <2>2, <2>3, <2>4
<1>2. Inv /\ [Next]_vars => Inv'
  BY IndStep, CountStep, CleanStep, NumberedStep, IssuedStep, EventsStep, LogStep
<1>3. Inv => L2TraceOrder
  <2> SUFFICES ASSUME Inv, result # NoResult, result.fault = NoFault
               PROVE  /\ {Key(result.events, i) : i \in RequestsOf(result.events)}
                           = UNION {KeysOf(p) : p \in Places}
                      /\ \A i, j \in RequestsOf(result.events) :
                           i < j => KeyBefore(Key(result.events, i), Key(result.events, j))
    BY DEF L2TraceOrder, Key, RequestsOf
  <2> DEFINE log == LogOf(Worker)
  <2>1. GoodLog(log)
    BY LogIsGood DEF IndInv
  <2>2. AllFinished /\ \A w \in Worker : fault[w] = NoFault
    BY DEF CleanIffAllRan
  <2>3. log = {Expected(p) : p \in Places}
    BY <2>2, CleanLog
  <2>4. Traces(result.events, log)
    BY DEF ResultEvents
  <2> HIDE DEF log
  <2>5. {KeyOf(q) : q \in Touched(log)} = UNION {KeysOf(p) : p \in Places}
    BY <2>1, <2>3, CleanKeys
  <2>6. /\ {Key(result.events, i) : i \in RequestsOf(result.events)} = {KeyOf(p) : p \in Touched(log)}
        /\ \A i, j \in RequestsOf(result.events) :
             i < j => KeyBefore(Key(result.events, i), Key(result.events, j))
    BY <2>1, <2>4, TraceKeys
  <2> QED  BY <2>5, <2>6
<1> QED  BY <1>1, <1>2, <1>3, PTL DEF FairSpec

=============================================================================
