--------------------------- MODULE SimtExecProofs ---------------------------
(***************************************************************************)
(* Proofs about SimtExec and SimtFair for every number of CTAs, threads,   *)
(* lanes and barriers, every set of kernels and every instruction limit.   *)
(***************************************************************************)
EXTENDS SimtFair, FiniteSetTheorems, TLAPS

-----------------------------------------------------------------------------
(* The schedule is finite, so a nonempty one has a cursor.                 *)

LEMMA IndexSetsFinite ==
    /\ IsFiniteSet(WarpId)
    /\ IsFiniteSet(Lane)
    /\ IsFiniteSet(WarpId \X Lane)
<1>1. NumCtas - 1 \in Int /\ NumWarps - 1 \in Int /\ WarpSize - 1 \in Int
  BY ConstantsAssumption
<1>2. IsFiniteSet(Cta) /\ IsFiniteSet(Warp) /\ IsFiniteSet(Lane)
  BY <1>1, FS_Interval DEF Cta, Warp, Lane
<1>3. IsFiniteSet(WarpId)
  BY <1>2, FS_Product DEF WarpId
<1>4. QED
  BY <1>2, <1>3, FS_Product

LEMMA GroupsFinite ==
    ASSUME TypeOK
    PROVE  IsFiniteSet(Groups)
<1> DEFINE D == WarpId \X Lane
           f == [d \in D |-> <<d[1], pc[d[1]][d[2]]>>]
           T == {f[d] : d \in D}
<1>1. IsFiniteSet(D)
  BY IndexSetsFinite
<1>2. f \in Surjection(D, T)
  BY DEF Surjection
<1>3. IsFiniteSet(T)
  BY <1>1, <1>2, FS_Surjection
<1>4. Groups \subseteq T
  <2> SUFFICES ASSUME NEW w \in WarpId, NEW l \in Live(w)
               PROVE  <<w, pc[w][l]>> \in T
    BY DEF Groups
  <2>1. l \in Lane
    BY DEF TypeOK, Live
  <2>2. <<w, l>> \in D /\ f[<<w, l>>] = <<w, pc[w][l]>>
    BY <2>1
  <2>3. QED
    BY <2>2
<1>5. QED
  BY <1>3, <1>4, FS_Subset

LEMMA EligibleFinite ==
    ASSUME TypeOK
    PROVE  IsFiniteSet(Eligible)
BY GroupsFinite, FS_Subset DEF Eligible

LEMMA CursorType ==
    ASSUME TypeOK, NEW g \in Eligible
    PROVE  (Rank(g) + 1) % Cardinality(Eligible) \in Nat
<1>1. Cardinality(Eligible) \in Nat /\ Cardinality(Eligible) # 0
  BY EligibleFinite, FS_CardinalityType, FS_EmptySet
<1>2. IsFiniteSet({h \in Eligible : Before(h, g)})
  BY EligibleFinite, FS_Subset
<1>3. Rank(g) \in Nat
  BY <1>2, FS_CardinalityType DEF Rank
<1>4. QED
  BY <1>1, <1>3

-----------------------------------------------------------------------------
(* The inductive invariant.  Neither CleanCompletion nor SleepersAccounted *)
(* is inductive alone: that a sleeping lane is still owed a wake-up needs  *)
(* the exact contents of the sync entries and of the arrival lists.        *)

IInv ==
    /\ TypeOK
    /\ SleepersAccounted
    /\ SyncEntriesExact
    /\ BarrierArrivalsExact
    /\ CleanCompletion

LEMMA InitIInv == Init => IInv
<1> SUFFICES ASSUME Init PROVE IInv
  OBVIOUS
<1>1. TypeOK
  BY ConstantsAssumption
  DEF Init, TypeOK, Absent, Outcome, None
<1>2. SleepersAccounted
  BY DEF Init, SleepersAccounted, Absent
<1>3. SyncEntriesExact
  BY DEF Init, SyncEntriesExact
<1>4. BarrierArrivalsExact
  <2>1. \A b \in Barrier : b # None
    BY ConstantsAssumption DEF Barrier, None
  <2>2. \A c \in Cta, i \in Warp : <<c, i>> \in WarpId
    BY DEF WarpId
  <2>3. QED
    BY <2>1, <2>2 DEF Init, BarrierArrivalsExact
<1>5. CleanCompletion
  BY DEF Init, CleanCompletion
<1>6. QED
  BY <1>1, <1>2, <1>3, <1>4, <1>5 DEF IInv

\* What every handler may rely on: the picked group is a nonempty set of
\* runnable lanes of a warp that waits at no barrier.
LEMMA GroupFacts ==
    ASSUME IInv, NEW g \in Groups
    PROVE  /\ g[1] \in WarpId
           /\ g[2] \in Int
           /\ g = <<g[1], g[2]>>
           /\ waiting[g[1]] = None
           /\ Mask(g) \subseteq active[g[1]]
           /\ Mask(g) \subseteq Lane
           /\ Mask(g) # {}
           /\ Mask(g) \cap exited[g[1]] = {}
<1>0. PICK w \in WarpId \ done : g \in {<<w, pc[w][l]>> : l \in Live(w)}
  BY DEF Groups
<1>1. PICK l \in Live(w) : g = <<w, pc[w][l]>>
  BY <1>0
<1>2. g[1] = w /\ g[2] = pc[w][l]
  BY <1>1
<1>3. l \in active[w] /\ l \in Lane /\ pc[w][l] \in Int
  BY DEF IInv, TypeOK, Live
<1>4. waiting[w] = None
  BY <1>3 DEF IInv, BarrierArrivalsExact
<1>5. l \in Mask(g)
  BY <1>2 DEF Mask
<1>6. QED
  BY <1>1, <1>2, <1>3, <1>4, <1>5 DEF IInv, TypeOK, Mask, Live

\* The scheduler's own variables.
LEMMA NextGroupFacts ==
    ASSUME IInv, NEW g \in Groups, NextGroup(g)
    PROVE  /\ kernel' \in Kernels
           /\ rr' \in Nat
           /\ done' \in SUBSET WarpId
           /\ \A w \in done' : exited[w] = Lane
<1>1. rr' \in Nat
  BY CursorType DEF IInv, NextGroup
<1>2. QED
  BY <1>1 DEF IInv, TypeOK, NextGroup, ScanDone, CleanCompletion

LEMMA AdvancedType ==
    ASSUME IInv, NEW g \in Groups
    PROVE  Advanced(g) \in [Lane -> Int]
BY GroupFacts DEF Advanced, IInv, TypeOK

LEMMA InstType ==
    ASSUME IInv, NEW g \in Groups, g[2] \in DOMAIN kernel
    PROVE  /\ Inst(g) \in Instruction
           /\ Inst(g).op = "BAR" => Inst(g).arg \in Barrier
           /\ DOMAIN kernel \subseteq Nat
BY KernelsAssumption DEF IInv, TypeOK, Inst

LEMMA ExecMaskType ==
    ASSUME NEW g, NEW m \in ExecMasks(g)
    PROVE  m \subseteq Mask(g)
BY DEF ExecMasks

-----------------------------------------------------------------------------
(* Preservation, one lemma per kind of step.                               *)

\* Steps that leave the lane sets, the sync entries and the barriers alone.
LEMMA QuietStep ==
    ASSUME IInv,
           kernel' \in Kernels, rr' \in Nat, done' \in SUBSET WarpId,
           \A w \in done' : exited[w] = Lane,
           pc' \in [WarpId -> [Lane -> Int]],
           executed' \in 0 .. Limit, outcome' \in Outcome \ {"Done"},
           UNCHANGED <<active, exited, sync, waiting, arrived>>
    PROVE  IInv'
<1>1. TypeOK'
  BY DEF IInv, TypeOK
<1>2. SleepersAccounted'
  BY DEF IInv, SleepersAccounted
<1>3. SyncEntriesExact'
  BY DEF IInv, SyncEntriesExact
<1>4. BarrierArrivalsExact'
  BY DEF IInv, BarrierArrivalsExact
<1>5. CleanCompletion'
  BY DEF IInv, CleanCompletion
<1>6. QED
  BY <1>1, <1>2, <1>3, <1>4, <1>5 DEF IInv

LEMMA RetireType ==
    ASSUME IInv, executed < Limit, Retire \/ Fault
    PROVE  executed' \in 0 .. Limit /\ outcome' \in Outcome \ {"Done"}
BY ConstantsAssumption DEF IInv, TypeOK, Retire, Fault, Outcome

LEMMA FallthroughType ==
    ASSUME IInv, NEW g \in Groups, Fallthrough(g)
    PROVE  pc' \in [WarpId -> [Lane -> Int]]
BY GroupFacts, AdvancedType DEF IInv, TypeOK, Fallthrough

LEMMA SkipStep == ASSUME IInv, NEW g \in Groups, Skip(g) PROVE IInv'
<1>1. pc' \in [WarpId -> [Lane -> Int]]
  BY FallthroughType DEF Skip
<1>2. QED
  BY <1>1, NextGroupFacts, RetireType, QuietStep DEF Skip, Issue

LEMMA DataStep == ASSUME IInv, NEW g \in Groups, Data(g) PROVE IInv'
<1>1. pc' \in [WarpId -> [Lane -> Int]]
  BY FallthroughType DEF Data
<1>2. QED
  BY <1>1, NextGroupFacts, RetireType, QuietStep DEF Data, Issue

LEMMA InvalidStep ==
    ASSUME IInv, NEW g \in Groups, InvalidInstruction(g) PROVE IInv'
<1>1. pc' \in [WarpId -> [Lane -> Int]]
  BY DEF IInv, TypeOK, InvalidInstruction, lanes
<1>2. QED
  BY <1>1, NextGroupFacts, RetireType, QuietStep
  DEF InvalidInstruction, lanes

LEMMA LimitStep ==
    ASSUME IInv, NEW g \in Groups, LimitReached(g) PROVE IInv'
<1>1. pc' \in [WarpId -> [Lane -> Int]] /\ executed' \in 0 .. Limit
  BY DEF IInv, TypeOK, LimitReached, lanes
<1>2. outcome' \in Outcome \ {"Done"}
  BY DEF LimitReached, Outcome
<1>3. QED
  BY <1>1, <1>2, NextGroupFacts, QuietStep DEF LimitReached, lanes

LEMMA BraStep == ASSUME IInv, NEW g \in Groups, Bra(g) PROVE IInv'
<1>1. PICK m \in ExecMasks(g) : \E t \in [m -> Inst(g).targets] :
         LET bad   == {l \in m : t[l] \notin DOMAIN kernel}
             taken == {l \in m : \A b \in bad : l < b}
         IN /\ pc' = [pc EXCEPT ![g[1]] =
                        [l \in Lane |-> IF l \in taken THEN t[l]
                                        ELSE Advanced(g)[l]]]
            /\ IF bad = {} THEN Retire ELSE Fault
  BY DEF Bra
<1>2. PICK t \in [m -> Inst(g).targets] :
         LET bad   == {l \in m : t[l] \notin DOMAIN kernel}
             taken == {l \in m : \A b \in bad : l < b}
         IN /\ pc' = [pc EXCEPT ![g[1]] =
                        [l \in Lane |-> IF l \in taken THEN t[l]
                                        ELSE Advanced(g)[l]]]
            /\ IF bad = {} THEN Retire ELSE Fault
  BY <1>1
<1> DEFINE bad   == {l \in m : t[l] \notin DOMAIN kernel}
           taken == {l \in m : \A b \in bad : l < b}
           q     == [l \in Lane |-> IF l \in taken THEN t[l]
                                    ELSE Advanced(g)[l]]
<1>3. Inst(g).targets \subseteq Int
  BY InstType DEF Bra, Issue, Instruction
<1>4. q \in [Lane -> Int]
  BY <1>3, AdvancedType
<1>5. pc' = [pc EXCEPT ![g[1]] = q] /\ (Retire \/ Fault)
  BY <1>2
<1>6. pc' \in [WarpId -> [Lane -> Int]]
  <2> HIDE DEF q
  <2> QED BY <1>4, <1>5, GroupFacts DEF IInv, TypeOK
<1>7. QED
  BY <1>5, <1>6, NextGroupFacts, RetireType, QuietStep DEF Bra, Issue

\* The invariant of one warp, as a predicate of its lane sets and entries.
Owed(act, ex, stk) ==
    /\ act \cap ex = {}
    /\ \A l \in Lane \ (act \cup ex) : \E e \in stk : l \in e.arrived

Counted(stk, ex) ==
    \A e \in stk : /\ e.pending \cap e.arrived = {}
                   /\ e.pending \cup e.arrived = e.part \ ex

Uncompleted(stk) == \A e \in stk : e.pending # {}

OtherWarpsUnchanged(w) ==
    \A v \in WarpId \ {w} : active'[v] = active[v] /\ sync'[v] = sync[v]

\* A step of one warp w that waits at no barrier: what the warp's lanes and
\* entries look like afterwards is all that matters.
LEMMA WarpStep ==
    ASSUME IInv, NEW w \in WarpId, waiting[w] = None,
           kernel' \in Kernels, rr' \in Nat, done' \in SUBSET WarpId,
           \A v \in done' : exited[v] = Lane,
           executed' \in 0 .. Limit, outcome' \in Outcome \ {"Done"},
           pc' \in [WarpId -> [Lane -> Int]],
           active' \in [WarpId -> SUBSET Lane],
           exited' \in [WarpId -> SUBSET Lane],
           sync' \in [WarpId -> SUBSET SyncEntry],
           UNCHANGED <<waiting, arrived>>,
           OtherWarpsUnchanged(w),
           \A v \in WarpId \ {w} : exited'[v] = exited[v],
           exited[w] \subseteq exited'[w],
           Owed(active'[w], exited'[w], sync'[w]),
           Counted(sync'[w], exited'[w]),
           Uncompleted(sync'[w])
    PROVE  IInv'
<1>1. TypeOK'
  BY DEF IInv, TypeOK
<1>2. SleepersAccounted'
  <2> SUFFICES ASSUME NEW v \in WarpId
      PROVE /\ active'[v] \cap exited'[v] = {}
            /\ \A l \in Lane \ (active'[v] \cup exited'[v]) :
                  waiting'[v] # None \/ \E e \in sync'[v] : l \in e.arrived
    BY DEF SleepersAccounted
  <2>1. CASE v = w
    BY <2>1 DEF Owed
  <2>2. CASE v # w
    BY <2>2 DEF IInv, SleepersAccounted, OtherWarpsUnchanged
  <2>3. QED
    BY <2>1, <2>2
<1>3. SyncEntriesExact'
  <2> SUFFICES ASSUME NEW v \in WarpId, NEW e \in sync'[v]
      PROVE /\ e.pending # {}
            /\ e.pending \cap e.arrived = {}
            /\ e.pending \cup e.arrived = e.part \ exited'[v]
    BY DEF SyncEntriesExact
  <2>1. CASE v = w
    BY <2>1 DEF Counted, Uncompleted
  <2>2. CASE v # w
    BY <2>2 DEF IInv, SyncEntriesExact, OtherWarpsUnchanged
  <2>3. QED
    BY <2>1, <2>2
<1>4. BarrierArrivalsExact'
  BY DEF IInv, BarrierArrivalsExact, OtherWarpsUnchanged
<1>5. CleanCompletion'
  <2>1. \A v \in done' : exited'[v] = Lane
    <3> SUFFICES ASSUME NEW v \in done' PROVE exited'[v] = Lane
      OBVIOUS
    <3>1. v \in WarpId /\ exited[v] = Lane /\ exited'[v] \subseteq Lane
      OBVIOUS
    <3>2. QED
      BY <3>1
  <2>2. outcome' # "Done"
    OBVIOUS
  <2>3. QED
    BY <2>1, <2>2 DEF CleanCompletion
<1>6. QED
  BY <1>1, <1>2, <1>3, <1>4, <1>5 DEF IInv

LEMMA BssyStep == ASSUME IInv, NEW g \in Groups, Bssy(g) PROVE IInv'
<1> DEFINE w == g[1]
<1>1. PICK m \in ExecMasks(g), j \in Inst(g).targets :
         IF j \in DOMAIN kernel
           THEN /\ sync' = [sync EXCEPT ![g[1]] = @ \cup
                      {[at |-> executed, join |-> j, breg |-> Inst(g).arg,
                        part |-> m, pending |-> m, arrived |-> {}]}]
                /\ Retire
           ELSE Fault /\ UNCHANGED sync
  BY DEF Bssy
<1>2. pc' \in [WarpId -> [Lane -> Int]]
  BY FallthroughType DEF Bssy
<1>3. CASE j \notin DOMAIN kernel
  BY <1>1, <1>2, <1>3, NextGroupFacts, RetireType, QuietStep
  DEF Bssy, Issue
<1>4. CASE j \in DOMAIN kernel
  <2> DEFINE e0 == [at |-> executed, join |-> j, breg |-> Inst(g).arg,
                    part |-> m, pending |-> m, arrived |-> {}]
  <2>1. m \subseteq Mask(g) /\ m # {}
    BY GroupFacts, ExecMaskType DEF ExecMasks
  <2>2. /\ e0 \in SyncEntry
        /\ e0.pending = m /\ e0.part = m /\ e0.arrived = {}
    BY <2>1, <1>4, GroupFacts, InstType
    DEF SyncEntry, Instruction, Bssy, Issue, IInv, TypeOK
  <2>3. sync' = [sync EXCEPT ![w] = sync[w] \cup {e0}] /\ Retire
    BY <1>1, <1>4
  <2> HIDE DEF e0
  <2>4. /\ w \in WarpId /\ waiting[w] = None
        /\ active[w] \subseteq Lane /\ exited[w] \subseteq Lane
        /\ active[w] \cap exited[w] = {}
        /\ sync[w] \subseteq SyncEntry
    BY GroupFacts DEF IInv, TypeOK, SleepersAccounted
  <2>5. /\ active' = active /\ exited' = exited
        /\ UNCHANGED <<waiting, arrived>>
    BY DEF Bssy
  <2>6. /\ sync' \in [WarpId -> SUBSET SyncEntry]
        /\ sync'[w] = sync[w] \cup {e0}
        /\ OtherWarpsUnchanged(w)
    BY <2>2, <2>3, <2>4, <2>5 DEF IInv, TypeOK, OtherWarpsUnchanged
  <2>7. Owed(active'[w], exited'[w], sync'[w])
    BY <2>4, <2>5, <2>6 DEF IInv, SleepersAccounted, Owed
  <2>8. Counted(sync'[w], exited'[w]) /\ Uncompleted(sync'[w])
    <3> SUFFICES ASSUME NEW e \in sync'[w]
                 PROVE  /\ e.pending # {}
                        /\ e.pending \cap e.arrived = {}
                        /\ e.pending \cup e.arrived = e.part \ exited[w]
      BY <2>5 DEF Counted, Uncompleted
    <3>1. CASE e \in sync[w]
      BY <2>4, <3>1 DEF IInv, SyncEntriesExact
    <3>2. CASE e = e0
      BY <2>1, <2>2, <3>2, GroupFacts
    <3>3. QED
      BY <2>6, <3>1, <3>2
  <2>9. executed' \in 0 .. Limit /\ outcome' \in Outcome \ {"Done"}
    BY <2>3, RetireType DEF Bssy, Issue
  <2>10. NextGroup(g)
    BY DEF Bssy, Issue
  <2>11. /\ active' \in [WarpId -> SUBSET Lane]
         /\ exited' \in [WarpId -> SUBSET Lane]
    BY <2>5 DEF IInv, TypeOK
  <2> HIDE DEF w
  <2>12. QED
    BY <1>2, <2>4, <2>5, <2>6, <2>7, <2>8, <2>9, <2>10, <2>11,
       NextGroupFacts, WarpStep
<1>5. QED
  BY <1>3, <1>4

\* converge_completed_sync: it removes exactly the completed entries, and
\* every lane that slept in one of them runs again.
LEMMA ConvergeStep ==
    ASSUME IInv, NEW w \in WarpId,
           NEW stk \in SUBSET SyncEntry, NEW act \in SUBSET Lane,
           NEW ex \in SUBSET Lane, NEW pcs \in [Lane -> Int], NEW later,
           Converge(w, stk, act, ex, pcs, later),
           Owed(act, ex, stk), Counted(stk, ex)
    PROVE  /\ pc' \in [WarpId -> [Lane -> Int]]
           /\ active' \in [WarpId -> SUBSET Lane]
           /\ sync' \in [WarpId -> SUBSET SyncEntry]
           /\ OtherWarpsUnchanged(w)
           /\ Owed(active'[w], ex, sync'[w])
           /\ Counted(sync'[w], ex)
           /\ Uncompleted(sync'[w])
<1> DEFINE C == Completed(stk)
           R == (UNION {e.part : e \in C}) \ ex
<1>1. PICK last \in [R -> C] :
         /\ \A l \in R : l \in last[l].part
         /\ sync' = [sync EXCEPT ![w] = stk \ C]
         /\ active' = [active EXCEPT ![w] = act \cup R]
         /\ pc' = [pc EXCEPT ![w] =
                     [l \in Lane |-> IF l \in R THEN last[l].join + 1
                                     ELSE pcs[l]]]
  BY DEF Converge
<1> DEFINE q == [l \in Lane |-> IF l \in R THEN last[l].join + 1
                                ELSE pcs[l]]
<1>2. C \subseteq stk /\ \A e \in C : e.pending = {}
  BY DEF Completed
<1>3. R \subseteq Lane
  BY <1>2 DEF SyncEntry
<1>4. q \in [Lane -> Int]
  <2> SUFFICES ASSUME NEW l \in Lane
               PROVE  (IF l \in R THEN last[l].join + 1 ELSE pcs[l]) \in Int
    OBVIOUS
  <2>1. CASE l \in R
    <3>1. last[l] \in SyncEntry
      BY <1>2, <2>1
    <3>2. last[l].join \in Nat
      BY <3>1 DEF SyncEntry
    <3>3. QED
      BY <2>1, <3>2
  <2>2. QED
    BY <2>1
<1>5. pc' \in [WarpId -> [Lane -> Int]]
  <2>1. pc' = [pc EXCEPT ![w] = q]
    BY <1>1
  <2> HIDE DEF q
  <2>2. QED
    BY <1>4, <2>1 DEF IInv, TypeOK
<1>6. \A e \in stk \ C : e.pending # {}
  BY DEF Completed
<1> HIDE DEF C
<1>7. \A e \in C : e.arrived \subseteq R
  <2> SUFFICES ASSUME NEW e \in C PROVE e.arrived \subseteq R
    OBVIOUS
  <2>1. e.arrived = e.part \ ex
    BY <1>2 DEF Counted
  <2>2. QED
    BY <2>1
<1>8. R \cap ex = {}
  OBVIOUS
<1> HIDE DEF R, q
<1>9. /\ active' \in [WarpId -> SUBSET Lane]
      /\ active'[w] = act \cup R
      /\ sync' \in [WarpId -> SUBSET SyncEntry]
      /\ sync'[w] = stk \ C
      /\ OtherWarpsUnchanged(w)
  BY <1>1, <1>3 DEF IInv, TypeOK, OtherWarpsUnchanged
<1>10. \A l \in Lane \ (active'[w] \cup ex) :
          \E e \in sync'[w] : l \in e.arrived
  <2> SUFFICES ASSUME NEW l \in Lane \ (active'[w] \cup ex)
               PROVE  \E e \in sync'[w] : l \in e.arrived
    OBVIOUS
  <2>1. PICK e \in stk : l \in e.arrived
    BY <1>9 DEF Owed
  <2>2. e \notin C
    BY <1>7, <1>9, <2>1
  <2>3. QED
    BY <1>9, <2>1, <2>2
<1>11. Owed(active'[w], ex, sync'[w])
  BY <1>8, <1>9, <1>10 DEF Owed
<1>12. Counted(sync'[w], ex) /\ Uncompleted(sync'[w])
  BY <1>6, <1>9 DEF Counted, Uncompleted
<1>13. QED
  BY <1>5, <1>9, <1>11, <1>12

\* The whole of a step that ends in a convergence.
LEMMA ConvergedWarpStep ==
    ASSUME IInv, NEW g \in Groups, Issue(g), Retire,
           NEW stk \in SUBSET SyncEntry, NEW act \in SUBSET Lane,
           NEW ex \in SUBSET Lane, NEW later,
           Converge(g[1], stk, act, ex, Advanced(g), later),
           exited' = [exited EXCEPT ![g[1]] = ex],
           UNCHANGED <<waiting, arrived>>,
           exited[g[1]] \subseteq ex,
           Owed(act, ex, stk), Counted(stk, ex)
    PROVE  IInv'
<1>1. g[1] \in WarpId /\ waiting[g[1]] = None
  BY GroupFacts
<1>2. /\ exited' \in [WarpId -> SUBSET Lane]
      /\ exited'[g[1]] = ex
      /\ \A v \in WarpId \ {g[1]} : exited'[v] = exited[v]
  BY <1>1 DEF IInv, TypeOK
<1>3. executed' \in 0 .. Limit /\ outcome' \in Outcome \ {"Done"}
  BY RetireType DEF Issue
<1>4. /\ kernel' \in Kernels /\ rr' \in Nat /\ done' \in SUBSET WarpId
      /\ \A w \in done' : exited[w] = Lane
  BY NextGroupFacts DEF Issue
<1>5. Advanced(g) \in [Lane -> Int]
  BY AdvancedType
<1>6. /\ pc' \in [WarpId -> [Lane -> Int]]
      /\ active' \in [WarpId -> SUBSET Lane]
      /\ sync' \in [WarpId -> SUBSET SyncEntry]
      /\ OtherWarpsUnchanged(g[1])
      /\ Owed(active'[g[1]], ex, sync'[g[1]])
      /\ Counted(sync'[g[1]], ex)
      /\ Uncompleted(sync'[g[1]])
  BY <1>1, <1>5, ConvergeStep
<1>7. QED
  BY <1>1, <1>2, <1>3, <1>4, <1>6, WarpStep

LEMMA BsyncStep == ASSUME IInv, NEW g \in Groups, Bsync(g) PROVE IInv'
<1> DEFINE w == g[1]
<1>1. PICK m \in ExecMasks(g) :
         \/ /\ Fallthrough(g)
            /\ Fault
            /\ UNCHANGED <<active, sync>>
         \/ \E e \in TopEntry(w, Inst(g).arg) :
              LET stk == (sync[w] \ {e}) \cup {Arrive(e, m)}
              IN /\ Converge(w, stk, active[w] \ (m \cap e.pending),
                             exited[w], Advanced(g), StackOrder(stk))
                 /\ Retire
  BY DEF Bsync
<1>2. Issue(g) /\ UNCHANGED <<exited, waiting, arrived>>
  BY DEF Bsync
<1>3. CASE Fallthrough(g) /\ Fault /\ UNCHANGED <<active, sync>>
  <2>1. pc' \in [WarpId -> [Lane -> Int]]
    BY <1>3, FallthroughType
  <2>2. QED
    BY <1>2, <1>3, <2>1, NextGroupFacts, RetireType, QuietStep DEF Issue
<1>4. ASSUME NEW e \in TopEntry(w, Inst(g).arg), Retire,
             Converge(w, (sync[w] \ {e}) \cup {Arrive(e, m)},
                      active[w] \ (m \cap e.pending), exited[w], Advanced(g),
                      StackOrder((sync[w] \ {e}) \cup {Arrive(e, m)}))
      PROVE  IInv'
  <2> DEFINE ar  == Arrive(e, m)
             stk == (sync[w] \ {e}) \cup {ar}
             act == active[w] \ (m \cap e.pending)
             ex  == exited[w]
  <2>1. /\ w \in WarpId
        /\ active[w] \subseteq Lane /\ ex \subseteq Lane
        /\ active[w] \cap ex = {} /\ waiting[w] = None
        /\ sync[w] \subseteq SyncEntry
    BY GroupFacts DEF IInv, TypeOK, SleepersAccounted
  <2>2. e \in sync[w] /\ e \in SyncEntry
    BY <2>1 DEF TopEntry
  <2>3. m \subseteq Lane
    BY ExecMaskType, GroupFacts
  <2>4. /\ ar \in SyncEntry
        /\ ar.pending = e.pending \ m
        /\ ar.arrived = e.arrived \cup (m \cap e.pending)
        /\ ar.part = e.part
    BY <2>2, <2>3 DEF Arrive, SyncEntry
  <2> HIDE DEF ar
  <2>5. stk \in SUBSET SyncEntry /\ act \in SUBSET Lane
    BY <2>1, <2>4
  <2>6. Counted(stk, ex)
    <3> SUFFICES ASSUME NEW f \in stk
                 PROVE  /\ f.pending \cap f.arrived = {}
                        /\ f.pending \cup f.arrived = f.part \ ex
      BY DEF Counted
    <3>1. \A d \in sync[w] : /\ d.pending \cap d.arrived = {}
                             /\ d.pending \cup d.arrived = d.part \ ex
      BY <2>1 DEF IInv, SyncEntriesExact
    <3>2. CASE f = ar
      BY <2>2, <2>4, <3>1, <3>2
    <3>3. QED
      BY <3>1, <3>2
  <2>7. Owed(act, ex, stk)
    <3>1. act \cap ex = {}
      BY <2>1
    <3>2. ASSUME NEW l \in Lane \ (act \cup ex)
          PROVE  \E f \in stk : l \in f.arrived
      <4>1. CASE l \in active[w]
        BY <2>4, <4>1
      <4>2. CASE l \notin active[w]
        <5>1. PICK d \in sync[w] : l \in d.arrived
          BY <2>1, <4>2 DEF IInv, SleepersAccounted
        <5>2. CASE d = e
          BY <2>4, <5>1, <5>2
        <5>3. CASE d # e
          BY <5>1, <5>3
        <5>4. QED
          BY <5>2, <5>3
      <4>3. QED
        BY <4>1, <4>2
    <3>3. QED
      BY <3>1, <3>2 DEF Owed
  <2>8. Converge(g[1], stk, act, ex, Advanced(g), StackOrder(stk))
    BY <1>4 DEF ar
  <2>9. exited' = [exited EXCEPT ![g[1]] = ex]
    BY <1>2, <2>1 DEF IInv, TypeOK
  <2>10. ex \in SUBSET Lane /\ exited[g[1]] \subseteq ex
    BY <2>1
  <2> HIDE DEF stk, act, ex, w
  <2>11. QED
    BY <1>2, <1>4, <2>5, <2>6, <2>7, <2>8, <2>9, <2>10, ConvergedWarpStep
<1>5. QED
  BY <1>1, <1>3, <1>4

LEMMA ExitStep == ASSUME IInv, NEW g \in Groups, Exit(g) PROVE IInv'
<1> DEFINE w == g[1]
<1>1. PICK m \in ExecMasks(g) :
         LET stk == {Leave(e, m) : e \in sync[w]}
         IN /\ exited' = [exited EXCEPT ![w] = @ \cup m]
            /\ Converge(w, stk, active[w] \ m, exited[w] \cup m,
                        Advanced(g), ExitOrder(sync[w], stk))
  BY DEF Exit
<1>2. Issue(g) /\ Retire /\ UNCHANGED <<waiting, arrived>>
  BY DEF Exit
<1> DEFINE stk == {Leave(e, m) : e \in sync[w]}
           act == active[w] \ m
           ex  == exited[w] \cup m
           ord == ExitOrder(sync[w], stk)
<1>3. /\ w \in WarpId
      /\ active[w] \subseteq Lane /\ exited[w] \subseteq Lane
      /\ active[w] \cap exited[w] = {} /\ waiting[w] = None
      /\ sync[w] \subseteq SyncEntry
  BY GroupFacts DEF IInv, TypeOK, SleepersAccounted
<1>4. m \subseteq Lane
  BY ExecMaskType, GroupFacts
<1>5. \A e \in sync[w] :
         /\ Leave(e, m) \in SyncEntry
         /\ Leave(e, m).pending = e.pending \ m
         /\ Leave(e, m).arrived = e.arrived \ m
         /\ Leave(e, m).part = e.part
  BY <1>3 DEF Leave, SyncEntry
<1>6. stk \in SUBSET SyncEntry /\ act \in SUBSET Lane
  BY <1>3, <1>5
<1>7. Counted(stk, ex)
  <2> SUFFICES ASSUME NEW f \in stk
               PROVE  /\ f.pending \cap f.arrived = {}
                      /\ f.pending \cup f.arrived = f.part \ ex
    BY DEF Counted
  <2>1. PICK e \in sync[w] : f = Leave(e, m)
    OBVIOUS
  <2>2. /\ e.pending \cap e.arrived = {}
        /\ e.pending \cup e.arrived = e.part \ exited[w]
    BY <1>3 DEF IInv, SyncEntriesExact
  <2>3. /\ f.pending = e.pending \ m
        /\ f.arrived = e.arrived \ m
        /\ f.part = e.part
    BY <1>5, <2>1
  <2>4. QED
    BY <2>2, <2>3
<1>8. Owed(act, ex, stk)
  <2>1. act \cap ex = {}
    BY <1>3
  <2>2. ASSUME NEW l \in Lane \ (act \cup ex)
        PROVE  \E f \in stk : l \in f.arrived
    <3>1. PICK e \in sync[w] : l \in e.arrived
      BY <1>3 DEF IInv, SleepersAccounted
    <3>2. Leave(e, m) \in stk /\ l \in Leave(e, m).arrived
      BY <1>5, <3>1
    <3>3. QED
      BY <3>2
  <2>3. QED
    BY <2>1, <2>2 DEF Owed
<1>9. /\ Converge(g[1], stk, act, ex, Advanced(g), ord)
      /\ exited' = [exited EXCEPT ![g[1]] = ex]
  BY <1>1
<1>10. ex \in SUBSET Lane /\ exited[g[1]] \subseteq ex
  BY <1>3, <1>4
<1> HIDE DEF stk, act, ex, ord, w
<1>11. QED
  BY <1>2, <1>6, <1>7, <1>8, <1>9, <1>10, ConvergedWarpStep

LEMMA NoneIsNoBarrier == None \notin Barrier
BY ConstantsAssumption DEF Barrier, None

\* A release empties the arrival list and the wait flags it stands for, an
\* arrival adds to both.
LEMMA BarStep == ASSUME IInv, NEW g \in Groups, Bar(g) PROVE IInv'
<1> DEFINE w   == g[1]
           c   == w[1]
           b   == Inst(g).arg
           arr == arrived[c][b] \cup {w[2]}
<1>1. Issue(g) /\ Inst(g).op = "BAR" /\ Fallthrough(g) /\ Retire
      /\ UNCHANGED <<exited, sync>>
  BY DEF Bar
<1>2. /\ w \in WarpId /\ c \in Cta /\ w[2] \in Warp /\ w = <<c, w[2]>>
      /\ waiting[w] = None
  BY GroupFacts DEF WarpId
<1>3. b \in Barrier /\ b # None
  BY <1>1, InstType, NoneIsNoBarrier DEF Issue
<1>4. /\ pc' \in [WarpId -> [Lane -> Int]]
      /\ executed' \in 0 .. Limit /\ outcome' \in Outcome \ {"Done"}
      /\ kernel' \in Kernels /\ rr' \in Nat /\ done' \in SUBSET WarpId
      /\ \A v \in done' : exited[v] = Lane
  BY <1>1, FallthroughType, RetireType, NextGroupFacts DEF Issue
<1>5. CleanCompletion'
  BY <1>1, <1>4 DEF CleanCompletion
<1>6. SyncEntriesExact'
  BY <1>1 DEF IInv, SyncEntriesExact
<1>7. /\ active \in [WarpId -> SUBSET Lane]
      /\ exited \in [WarpId -> SUBSET Lane]
      /\ waiting \in [WarpId -> Barrier \cup {None}]
      /\ arrived \in [Cta -> [Barrier -> SUBSET Warp]]
  BY DEF IInv, TypeOK
<1>8. /\ \A d \in Cta : \A k \in Barrier :
            arrived[d][k] = {i \in Warp : waiting[<<d, i>>] = k}
      /\ \A v \in WarpId : waiting[v] # None => active[v] = {}
  BY DEF IInv, BarrierArrivalsExact
<1>9. \A v \in WarpId :
         /\ active[v] \cap exited[v] = {}
         /\ \A l \in Lane \ (active[v] \cup exited[v]) :
               waiting[v] # None \/ \E e \in sync[v] : l \in e.arrived
  BY DEF IInv, SleepersAccounted
<1>10. CASE Complete(arr)
  <2> DEFINE W == Woken(c, b)
  <2>1. /\ arrived' = [arrived EXCEPT ![c][b] = {}]
        /\ active' = [v \in WarpId |-> IF v \in W THEN Lane \ exited[v]
                                       ELSE active[v]]
        /\ waiting' = [v \in WarpId |-> IF v \in W THEN None ELSE waiting[v]]
    BY <1>10 DEF Bar
  <2>2. \A v \in WarpId : v \in W <=> v[1] = c /\ waiting[v] = b
    BY DEF Woken
  <2> HIDE DEF W
  <2>3. TypeOK'
    <3>1. /\ active' \in [WarpId -> SUBSET Lane]
          /\ waiting' \in [WarpId -> Barrier \cup {None}]
          /\ arrived' \in [Cta -> [Barrier -> SUBSET Warp]]
      BY <1>2, <1>3, <1>7, <2>1
    <3>2. QED
      BY <1>1, <1>4, <3>1 DEF IInv, TypeOK
  <2>4. SleepersAccounted'
    <3> SUFFICES ASSUME NEW v \in WarpId
        PROVE /\ active'[v] \cap exited[v] = {}
              /\ \A l \in Lane \ (active'[v] \cup exited[v]) :
                    waiting'[v] # None \/ \E e \in sync[v] : l \in e.arrived
      BY <1>1 DEF SleepersAccounted
    <3>1. CASE v \in W
      BY <2>1, <3>1
    <3>2. CASE v \notin W
      BY <1>9, <2>1, <3>2
    <3>3. QED
      BY <3>1, <3>2
  <2>5. BarrierArrivalsExact'
    <3>1. ASSUME NEW d \in Cta, NEW k \in Barrier
          PROVE  arrived'[d][k] = {i \in Warp : waiting'[<<d, i>>] = k}
      <4>1. \A i \in Warp : /\ <<d, i>> \in WarpId
                            /\ <<d, i>>[1] = d
        BY DEF WarpId
      <4>2. k # None
        BY NoneIsNoBarrier
      <4>3. CASE d = c /\ k = b
        <5>1. arrived'[d][k] = {}
          BY <1>2, <1>3, <1>7, <2>1, <4>3
        <5>2. \A i \in Warp : waiting'[<<d, i>>] # k
          BY <2>1, <2>2, <4>1, <4>2, <4>3
        <5>3. QED
          BY <5>1, <5>2
      <4>4. CASE ~(d = c /\ k = b)
        <5>1. arrived'[d][k] = arrived[d][k]
          BY <1>2, <1>3, <1>7, <2>1, <4>4
        <5>2. \A i \in Warp : waiting'[<<d, i>>] = k <=> waiting[<<d, i>>] = k
          BY <2>1, <2>2, <4>1, <4>2, <4>4
        <5>3. QED
          BY <1>8, <5>1, <5>2
      <4>5. QED
        BY <4>3, <4>4
    <3>2. \A v \in WarpId : waiting'[v] # None => active'[v] = {}
      BY <1>8, <2>1
    <3>3. QED
      BY <3>1, <3>2 DEF BarrierArrivalsExact
  <2>6. QED
    BY <1>5, <1>6, <2>3, <2>4, <2>5 DEF IInv
<1>11. CASE ~Complete(arr)
  <2>1. /\ arrived' = [arrived EXCEPT ![c][b] = arr]
        /\ active' = [active EXCEPT ![w] = @ \ Live(w)]
        /\ waiting' = [waiting EXCEPT ![w] = b]
    BY <1>11 DEF Bar
  <2>2. active[w] \ Live(w) = {}
    BY <1>2, <1>9 DEF Live
  <2>3. arr \in SUBSET Warp
    BY <1>2, <1>3, <1>7
  <2>4. TypeOK'
    <3>1. /\ active' \in [WarpId -> SUBSET Lane]
          /\ waiting' \in [WarpId -> Barrier \cup {None}]
          /\ arrived' \in [Cta -> [Barrier -> SUBSET Warp]]
      <4> HIDE DEF arr
      <4> QED BY <1>2, <1>3, <1>7, <2>1, <2>2, <2>3
    <3>2. QED
      BY <1>1, <1>4, <3>1 DEF IInv, TypeOK
  <2>5. /\ active'[w] = {} /\ waiting'[w] = b
        /\ \A v \in WarpId \ {w} : /\ active'[v] = active[v]
                                   /\ waiting'[v] = waiting[v]
    BY <1>2, <1>7, <2>1, <2>2
  <2>6. SleepersAccounted'
    BY <1>1, <1>3, <1>9, <2>5 DEF SleepersAccounted
  <2>7. BarrierArrivalsExact'
    <3>1. ASSUME NEW d \in Cta, NEW k \in Barrier
          PROVE  arrived'[d][k] = {i \in Warp : waiting'[<<d, i>>] = k}
      <4>1. \A i \in Warp : /\ <<d, i>> \in WarpId
                            /\ <<d, i>> = w <=> (d = c /\ i = w[2])
        BY <1>2 DEF WarpId
      <4>2. k # None
        BY NoneIsNoBarrier
      <4>3. CASE d = c /\ k = b
        <5>1. arrived'[d][k] = arr
          BY <1>2, <1>3, <1>7, <2>1, <4>3
        <5>2. \A i \in Warp : waiting'[<<d, i>>] = k
                                 <=> (waiting[<<d, i>>] = k \/ i = w[2])
          BY <1>2, <1>3, <2>5, <4>1, <4>3
        <5>3. QED
          BY <1>2, <1>8, <4>3, <5>1, <5>2
      <4>4. CASE ~(d = c /\ k = b)
        <5>1. arrived'[d][k] = arrived[d][k]
          BY <1>2, <1>3, <1>7, <2>1, <4>4
        <5>2. \A i \in Warp : waiting'[<<d, i>>] = k <=> waiting[<<d, i>>] = k
          BY <1>2, <2>5, <4>1, <4>2, <4>4
        <5>3. QED
          BY <1>8, <5>1, <5>2
      <4>5. QED
        BY <4>3, <4>4
    <3>2. \A v \in WarpId : waiting'[v] # None => active'[v] = {}
      BY <1>8, <2>5
    <3>3. QED
      BY <3>1, <3>2 DEF BarrierArrivalsExact
  <2>8. QED
    BY <1>5, <1>6, <2>4, <2>6, <2>7 DEF IInv
<1>12. QED
  BY <1>10, <1>11

LEMMA ClassifyStep == ASSUME IInv, Classify PROVE IInv'
<1>1. \A w \in WarpId \ done : Live(w) = {}
  <2> SUFFICES ASSUME NEW w \in WarpId \ done, NEW l \in Live(w)
               PROVE  FALSE
    OBVIOUS
  <2>1. <<w, pc[w][l]>> \in Groups
    BY DEF Groups
  <2>2. QED
    BY <2>1 DEF Classify
<1>2. /\ TerminalState \in Outcome
      /\ UNCHANGED <<kernel, pc, active, exited, sync, waiting, arrived,
                     rr, executed>>
      /\ done' = ScanDone /\ outcome' = TerminalState
  BY DEF Classify, TerminalState, Outcome, lanes
<1>3. TypeOK'
  BY <1>2 DEF IInv, TypeOK, ScanDone
<1>4. \A w \in done' : exited[w] = Lane
  BY <1>2 DEF IInv, CleanCompletion, ScanDone
<1>5. ASSUME TerminalState = "Done", NEW w \in WarpId
      PROVE  exited[w] = Lane
  <2>1. CASE w \in done
    BY <2>1 DEF IInv, CleanCompletion
  <2>2. CASE w \notin done
    <3>1. waiting[w] = None /\ ~SyncWait(w) /\ Live(w) = {}
      BY <1>1, <1>5, <2>2 DEF TerminalState
    <3>2. active[w] \cap exited[w] = {} /\ exited[w] \subseteq Lane
      BY DEF IInv, TypeOK, SleepersAccounted
    <3>3. active[w] = {}
      BY <3>1, <3>2 DEF Live
    <3>4. \A l \in Lane \ exited[w] : \E e \in sync[w] : l \in e.arrived
      BY <3>1, <3>3 DEF IInv, SleepersAccounted
    <3>5. QED
      BY <3>1, <3>2, <3>4 DEF SyncWait
  <2>3. QED
    BY <2>1, <2>2
<1>6. CleanCompletion'
  BY <1>2, <1>4, <1>5 DEF CleanCompletion
<1>7. SleepersAccounted' /\ SyncEntriesExact'
  BY <1>2 DEF IInv, SleepersAccounted, SyncEntriesExact
<1>8. BarrierArrivalsExact'
  BY <1>2 DEF IInv, BarrierArrivalsExact
<1>9. QED
  BY <1>3, <1>6, <1>7, <1>8 DEF IInv

LEMMA StutterStep == ASSUME IInv, UNCHANGED vars PROVE IInv'
BY DEF IInv, vars, TypeOK, SleepersAccounted, SyncEntriesExact,
       BarrierArrivalsExact, CleanCompletion

LEMMA NextIInv == IInv /\ [Next]_vars => IInv'
<1> SUFFICES ASSUME IInv, [Next]_vars PROVE IInv'
  OBVIOUS
<1>1. CASE UNCHANGED vars
  BY <1>1, StutterStep
<1>2. ASSUME NEW g \in Groups,
             \/ Skip(g) \/ InvalidInstruction(g) \/ Data(g) \/ Bra(g)
             \/ Bssy(g) \/ Bsync(g) \/ Exit(g) \/ Bar(g) \/ LimitReached(g)
      PROVE  IInv'
  BY <1>2, SkipStep, InvalidStep, DataStep, BraStep, BssyStep, BsyncStep,
     ExitStep, BarStep, LimitStep
<1>3. CASE Classify
  BY <1>3, ClassifyStep
<1>4. CASE Finished
  BY <1>4, StutterStep DEF Finished
<1>5. QED
  BY <1>1, <1>2, <1>3, <1>4 DEF Next

-----------------------------------------------------------------------------
(* The theorems.                                                           *)

\* The conjunction of the invariants below is inductive: every handler of
\* execute_group and the end-of-run classification preserve it.
THEOREM Invariance == Spec => []IInv
<1>1. Init => IInv
  BY InitIInv
<1>2. IInv /\ [Next]_vars => IInv'
  BY NextIInv
<1>3. QED
  BY <1>1, <1>2, PTL DEF Spec

\* Type correctness of the interpreter's scheduling state.
THEOREM TypeCorrect == Spec => []TypeOK
<1>1. IInv => TypeOK
  BY DEF IInv
<1>2. QED
  BY <1>1, Invariance, PTL

\* No lane is ever lost: whatever the kernel and the divergence, a lane that
\* does not run and did not exit is recorded in a sync entry of its warp or
\* its warp is recorded at a named barrier.
THEOREM NoLaneLost == Spec => []SleepersAccounted
<1>1. IInv => SleepersAccounted
  BY DEF IInv
<1>2. QED
  BY <1>1, Invariance, PTL

\* The counts of the sync stack are exact and no completed entry stays on it
\* (do_bssy, do_bsync, do_exit, converge_completed_sync).
THEOREM SyncStackExact == Spec => []SyncEntriesExact
<1>1. IInv => SyncEntriesExact
  BY DEF IInv
<1>2. QED
  BY <1>1, Invariance, PTL

\* The arrival lists of the named barriers are exact (do_bar).
THEOREM ArrivalsExact == Spec => []BarrierArrivalsExact
<1>1. IInv => BarrierArrivalsExact
  BY DEF IInv
<1>2. QED
  BY <1>1, Invariance, PTL

\* run_owned reports "done" only when every thread exited: terminal_state's
\* fall-through to a clean completion hides no stuck lane.
THEOREM DoneMeansExited == Spec => []CleanCompletion
<1>1. IInv => CleanCompletion
  BY DEF IInv
<1>2. QED
  BY <1>1, Invariance, PTL

\* The warps of a CTA leave a named barrier together: the count comparison
\* of do_bar is a comparison of sets, because the arrival list holds each
\* warp of the CTA at most once and only warps of that CTA.
THEOREM ReleaseTogether == Spec => BarrierReleasesTogether
<1> DEFINE Together(w) ==
       waiting[w] # None /\ waiting'[w] = None =>
         \E i \in Warp :
            /\ \E l \in Live(<<w[1], i>>) :
                  LET p == pc[<<w[1], i>>][l]
                  IN /\ p \in DOMAIN kernel
                     /\ kernel[p].op = "BAR"
                     /\ kernel[p].arg = waiting[w]
            /\ \A j \in Warp \ {i} : waiting[<<w[1], j>>] = waiting[w]
<1>1. ASSUME IInv, NEW g \in Groups, Bar(g), NEW w \in WarpId
      PROVE  Together(w)
  <2> DEFINE c   == g[1][1]
             b   == Inst(g).arg
             arr == arrived[c][b] \cup {g[1][2]}
  <2>1. /\ g[1] \in WarpId /\ c \in Cta /\ g[1][2] \in Warp
        /\ g[1] = <<c, g[1][2]>> /\ waiting[g[1]] = None
    BY <1>1, GroupFacts DEF WarpId
  <2>2. b \in Barrier /\ b # None
    BY <1>1, InstType, NoneIsNoBarrier DEF Bar, Issue
  <2>3. arrived[c][b] = {i \in Warp : waiting[<<c, i>>] = b}
    BY <1>1, <2>1, <2>2 DEF IInv, BarrierArrivalsExact
  <2>4. CASE ~Complete(arr)
    <3>1. waiting' = [waiting EXCEPT ![g[1]] = b]
      BY <1>1, <2>4 DEF Bar
    <3>2. QED
      BY <1>1, <2>1, <2>2, <3>1 DEF IInv, TypeOK
  <2>5. CASE Complete(arr)
    <3>1. waiting' = [v \in WarpId |-> IF v \in Woken(c, b) THEN None
                                                            ELSE waiting[v]]
      BY <1>1, <2>5 DEF Bar
    <3>2. arr \subseteq Warp
      BY <2>1, <2>3
    <3>3. IsFiniteSet(Warp) /\ Cardinality(Warp) = NumWarps
      BY ConstantsAssumption, FS_Interval DEF Warp
    <3> HIDE DEF arr
    <3>4. /\ IsFiniteSet(arr) /\ Cardinality(arr) <= Cardinality(Warp)
          /\ Cardinality(Warp) = Cardinality(arr) => Warp = arr
      BY <3>2, <3>3, FS_Subset
    <3>5. Cardinality(arr) \in Nat
      BY <3>4, FS_CardinalityType
    <3>6. arr = Warp
      BY <2>5, <3>3, <3>4, <3>5, ConstantsAssumption DEF Complete
    <3>7. \A j \in Warp \ {g[1][2]} : waiting[<<c, j>>] = b
      BY <2>3, <3>6 DEF arr
    <3>8. waiting[w] # None /\ waiting'[w] = None => w[1] = c /\ waiting[w] = b
      BY <1>1, <3>1 DEF Woken
    <3>9. PICK l \in Mask(g) : TRUE
      BY <1>1, GroupFacts
    <3>10. /\ l \in Live(<<c, g[1][2]>>)
           /\ pc[<<c, g[1][2]>>][l] = g[2]
      BY <2>1 DEF Mask
    <3>11. /\ g[2] \in DOMAIN kernel
           /\ kernel[g[2]].op = "BAR"
           /\ kernel[g[2]].arg = b
      BY <1>1 DEF Bar, Issue, Inst
    <3> HIDE DEF b, c
    <3>12. QED
      BY <2>1, <3>7, <3>8, <3>10, <3>11, SMTT(30)
  <2>6. QED
    BY <2>4, <2>5
<1>2. ASSUME IInv, [Next]_vars, NEW w \in WarpId
      PROVE  Together(w)
  <2>1. CASE UNCHANGED waiting
    BY <2>1
  <2>2. ASSUME NEW g \in Groups,
               \/ Skip(g) \/ InvalidInstruction(g) \/ Data(g) \/ Bra(g)
               \/ Bssy(g) \/ Bsync(g) \/ Exit(g) \/ LimitReached(g)
        PROVE  UNCHANGED waiting
    BY <2>2 DEF Skip, InvalidInstruction, Data, Bra, Bssy, Bsync, Exit,
                LimitReached
  <2>3. CASE UNCHANGED vars \/ Classify \/ Finished
    BY <2>1, <2>3 DEF vars, Classify, Finished
  <2> HIDE DEF Together
  <2>4. QED
    BY <1>1, <1>2, <2>1, <2>2, <2>3 DEF Next
<1>3. IInv /\ [Next]_vars => [\A w \in WarpId : Together(w)]_vars
  BY <1>2
<1>4. QED
  BY <1>3, Invariance, PTL DEF Spec, BarrierReleasesTogether

-----------------------------------------------------------------------------
(* Wake-ups.  Entries are told apart by their stamps: an entry pushed later *)
(* has a larger one, and none is reused.                                   *)

Stamped(S, n) == \A e \in S : e.at < n /\ \A f \in S : f.at = e.at => f = e

StampInv == \A w \in WarpId : Stamped(sync[w], executed)

LEMMA StampedLater ==
    ASSUME NEW S \in SUBSET SyncEntry, NEW n \in Nat, Stamped(S, n)
    PROVE  Stamped(S, n + 1)
<1>1. \A e \in S : e.at \in Nat
  BY DEF SyncEntry
<1>2. QED
  BY <1>1 DEF Stamped

\* A convergence on the entries stk of the warp of g.
LEMMA ConvergeStamps ==
    ASSUME IInv, StampInv, NEW g \in Groups, Retire,
           NEW stk \in SUBSET SyncEntry, NEW act, NEW ex, NEW later,
           Converge(g[1], stk, act, ex, Advanced(g), later),
           Stamped(stk, executed)
    PROVE  StampInv'
<1>1. g[1] \in WarpId /\ executed \in Nat /\ executed' = executed + 1
  BY GroupFacts DEF IInv, TypeOK, Retire
<1>2. sync' = [sync EXCEPT ![g[1]] = stk \ Completed(stk)]
  BY DEF Converge
<1>3. Stamped(stk, executed + 1)
  BY <1>1, StampedLater
<1>4. Stamped(stk \ Completed(stk), executed + 1)
  BY <1>3 DEF Stamped
<1>5. \A w \in WarpId : Stamped(sync[w], executed + 1)
  BY <1>1, StampedLater DEF StampInv, IInv, TypeOK
<1>6. \A w \in WarpId : sync'[w] = IF w = g[1] THEN stk \ Completed(stk) ELSE sync[w]
  BY <1>1, <1>2 DEF IInv, TypeOK
<1>7. \A w \in WarpId : Stamped(sync'[w], executed')
  BY <1>1, <1>4, <1>5, <1>6
<1>8. QED
  BY <1>7 DEF StampInv, Stamped

\* What a BSYNC does to the entries of its warp.
Swapped(S, e, a) == (S \ {e}) \cup {a}

LEMMA BsyncEntries ==
    ASSUME IInv, StampInv, NEW g \in Groups, NEW w, w = g[1], NEW m \in ExecMasks(g),
           NEW e \in TopEntry(w, Inst(g).arg),
           NEW a, a = Arrive(e, m), NEW stk, stk = Swapped(sync[w], e, a)
    PROVE  /\ e \in sync[w] /\ e \in SyncEntry /\ e.breg = Inst(g).arg
           /\ a.at = e.at /\ a.part = e.part /\ a.pending = e.pending \ m
           /\ m \subseteq Mask(g)
           /\ stk \in SUBSET SyncEntry /\ Stamped(stk, executed)
<1>1. w \in WarpId /\ sync[w] \subseteq SyncEntry
  BY GroupFacts DEF IInv, TypeOK
<1>2. e \in sync[w] /\ e \in SyncEntry /\ e.breg = Inst(g).arg
  BY <1>1 DEF TopEntry
<1>3. m \subseteq Mask(g) /\ m \subseteq Lane
  BY ExecMaskType, GroupFacts
<1>4. /\ a \in SyncEntry /\ a.at = e.at /\ a.part = e.part /\ a.pending = e.pending \ m
  BY <1>2, <1>3 DEF Arrive, SyncEntry
<1>5. Stamped(sync[w], executed)
  BY <1>1 DEF StampInv
<1>6. Stamped(stk, executed)
  BY <1>2, <1>4, <1>5 DEF Stamped, Swapped
<1>7. stk \in SUBSET SyncEntry
  BY <1>1, <1>4 DEF Swapped
<1>8. QED
  BY <1>2, <1>3, <1>4, <1>6, <1>7

\* What an EXIT does to them.
Left(S, m) == {Leave(e, m) : e \in S}

LEMMA ExitEntries ==
    ASSUME IInv, StampInv, NEW g \in Groups, NEW w, w = g[1], NEW m \in ExecMasks(g),
           NEW stk, stk = Left(sync[w], m)
    PROVE  /\ \A e \in sync[w] :
                /\ Leave(e, m).at = e.at /\ Leave(e, m).part = e.part
                /\ Leave(e, m).pending = e.pending \ m
           /\ m \subseteq Mask(g)
           /\ stk \in SUBSET SyncEntry /\ Stamped(stk, executed)
<1>1. w \in WarpId /\ sync[w] \subseteq SyncEntry
  BY GroupFacts DEF IInv, TypeOK
<1>2. m \subseteq Mask(g) /\ m \subseteq Lane
  BY ExecMaskType, GroupFacts
<1>3. ASSUME NEW e \in sync[w]
      PROVE  /\ Leave(e, m) \in SyncEntry
             /\ Leave(e, m).at = e.at /\ Leave(e, m).part = e.part
             /\ Leave(e, m).pending = e.pending \ m
  BY <1>1, <1>2 DEF Leave, SyncEntry
<1>4. Stamped(sync[w], executed)
  BY <1>1 DEF StampInv
<1>5. Stamped(stk, executed)
  <2>1. ASSUME NEW e \in sync[w], NEW f \in sync[w], Leave(f, m).at = Leave(e, m).at
        PROVE  Leave(f, m) = Leave(e, m)
    BY <1>3, <1>4, <2>1 DEF Stamped
  <2>2. \A e \in sync[w] : Leave(e, m).at < executed
    BY <1>3, <1>4 DEF Stamped
  <2>3. QED
    BY <2>1, <2>2 DEF Stamped, Left
<1>6. stk \in SUBSET SyncEntry
  BY <1>3 DEF Left
<1>7. QED
  BY <1>2, <1>3, <1>5, <1>6

LEMMA StampStep == IInv /\ StampInv /\ [Next]_vars => StampInv'
<1> SUFFICES ASSUME IInv, StampInv, [Next]_vars PROVE StampInv'
  OBVIOUS
<1>1. executed \in Nat /\ \A w \in WarpId : sync[w] \in SUBSET SyncEntry
  BY ConstantsAssumption DEF IInv, TypeOK
<1>2. ASSUME sync' = sync, executed' = executed \/ executed' = executed + 1
      PROVE  StampInv'
  <2>1. \A w \in WarpId : Stamped(sync[w], executed) /\ Stamped(sync[w], executed + 1)
    BY <1>1, StampedLater DEF StampInv
  <2>2. \A w \in WarpId : Stamped(sync'[w], executed')
    BY <1>2, <2>1
  <2>3. QED
    BY <2>2 DEF StampInv, Stamped
<1>3. ASSUME NEW g \in Groups,
             \/ Skip(g) \/ InvalidInstruction(g) \/ Data(g) \/ Bra(g)
             \/ Bar(g) \/ LimitReached(g)
      PROVE  StampInv'
  <2>1. sync' = sync /\ (executed' = executed \/ executed' = executed + 1)
    BY <1>3 DEF Skip, InvalidInstruction, Data, Bra, Bar, LimitReached, Retire, Fault
  <2>2. QED
    BY <1>2, <2>1
<1>4. ASSUME NEW g \in Groups, Bssy(g) PROVE StampInv'
  <2>1. PICK m \in ExecMasks(g), j \in Inst(g).targets :
          IF j \in DOMAIN kernel
            THEN /\ sync' = [sync EXCEPT ![g[1]] = @ \cup
                       {[at |-> executed, join |-> j, breg |-> Inst(g).arg,
                         part |-> m, pending |-> m, arrived |-> {}]}]
                 /\ Retire
            ELSE Fault /\ UNCHANGED sync
    BY <1>4 DEF Bssy
  <2>2. CASE j \notin DOMAIN kernel
    BY <1>2, <2>1, <2>2 DEF Fault
  <2>3. CASE j \in DOMAIN kernel
    <3> DEFINE x == [at |-> executed, join |-> j, breg |-> Inst(g).arg,
                     part |-> m, pending |-> m, arrived |-> {}]
    <3>1. x.at = executed
      OBVIOUS
    <3>2. /\ sync' = [sync EXCEPT ![g[1]] = sync[g[1]] \cup {x}]
          /\ executed' = executed + 1
      BY <2>1, <2>3 DEF Retire
    <3> HIDE DEF x
    <3>3. \A w \in WarpId : sync'[w] = IF w = g[1] THEN sync[w] \cup {x} ELSE sync[w]
      BY <3>2 DEF IInv, TypeOK
    <3>4. ASSUME NEW w \in WarpId
          PROVE  Stamped(sync[w], executed + 1) /\ Stamped(sync[w] \cup {x}, executed + 1)
      <4>1. Stamped(sync[w], executed) /\ \A e \in sync[w] : e.at \in Nat
        BY <1>1 DEF StampInv, SyncEntry
      <4>2. \A e \in sync[w] : e.at < executed + 1 /\ e.at # x.at
        BY <1>1, <3>1, <4>1 DEF Stamped
      <4>3. x.at < executed + 1
        BY <1>1, <3>1
      <4>4. QED
        BY <4>1, <4>2, <4>3 DEF Stamped
    <3>5. \A w \in WarpId : Stamped(sync'[w], executed')
      BY <3>2, <3>3, <3>4
    <3>6. QED
      BY <3>5 DEF StampInv, Stamped
  <2>4. QED
    BY <2>2, <2>3
<1>5. ASSUME NEW g \in Groups, Bsync(g) PROVE StampInv'
  <2>1. CASE UNCHANGED <<active, sync>> /\ Fault
    BY <1>2, <2>1 DEF Fault
  <2>2. ASSUME NEW m \in ExecMasks(g), NEW e \in TopEntry(g[1], Inst(g).arg), Retire,
               Converge(g[1], (sync[g[1]] \ {e}) \cup {Arrive(e, m)},
                        active[g[1]] \ (m \cap e.pending), exited[g[1]], Advanced(g),
                        StackOrder((sync[g[1]] \ {e}) \cup {Arrive(e, m)}))
        PROVE  StampInv'
    <3> DEFINE w == g[1]
               a == Arrive(e, m)
               stk == (sync[w] \ {e}) \cup {a}
               act == active[w] \ (m \cap e.pending)
               ex == exited[w]
               ord == StackOrder(stk)
    <3>1. w = g[1] /\ a = Arrive(e, m) /\ stk = Swapped(sync[w], e, a)
          /\ Converge(w, stk, act, ex, Advanced(g), ord)
      BY <2>2 DEF Swapped
    <3>2. e \in TopEntry(w, Inst(g).arg)
      OBVIOUS
    <3> HIDE DEF w, a, stk, act, ex, ord
    <3>3. stk \in SUBSET SyncEntry /\ Stamped(stk, executed)
      BY <3>1, <3>2, BsyncEntries
    <3>4. QED
      BY <2>2, <3>1, <3>3, ConvergeStamps
  <2>3. QED
    BY <1>5, <2>1, <2>2 DEF Bsync
<1>6. ASSUME NEW g \in Groups, Exit(g) PROVE StampInv'
  <2> DEFINE w == g[1]
  <2>1. PICK m \in ExecMasks(g) :
           Converge(w, {Leave(e, m) : e \in sync[w]}, active[w] \ m, exited[w] \cup m,
                    Advanced(g), ExitOrder(sync[w], {Leave(e, m) : e \in sync[w]}))
    BY <1>6 DEF Exit
  <2> DEFINE stk == {Leave(e, m) : e \in sync[w]}
             act == active[w] \ m
             ex == exited[w] \cup m
             ord == ExitOrder(sync[w], stk)
  <2>2. /\ w = g[1] /\ stk = Left(sync[w], m)
        /\ Converge(w, stk, act, ex, Advanced(g), ord)
    BY <2>1 DEF Left
  <2>3. Retire
    BY <1>6 DEF Exit
  <2> HIDE DEF w, stk, act, ex, ord
  <2>4. stk \in SUBSET SyncEntry /\ Stamped(stk, executed)
    BY <2>2, ExitEntries
  <2>5. QED
    BY <2>2, <2>3, <2>4, ConvergeStamps
<1>7. CASE UNCHANGED vars \/ Classify \/ Finished
  BY <1>2, <1>7 DEF vars, Classify, Finished
<1>8. QED
  BY <1>3, <1>4, <1>5, <1>6, <1>7 DEF Next

\* Why lane l of warp w, asleep in a BSYNC, may run again.
Due(w, l) ==
    \E e \in sync[w] :
       /\ l \in e.arrived
       /\ \A f \in sync'[w] : f.at # e.at
       /\ \A k \in e.pending \ exited'[w] :
             /\ pc[w][k] \in DOMAIN kernel
             /\ kernel[pc[w][k]].op = "BSYNC"
             /\ kernel[pc[w][k]].arg = e.breg

\* The completed entries of stk that resume lane l.
Wakers(stk, l, ex) == {f \in Completed(stk) : l \in f.part /\ l \notin ex}

\* A lane that a convergence adds to the running ones is a participant of an
\* entry with nobody pending, which leaves the stack.
LEMMA ConvergeWakes ==
    ASSUME IInv, NEW w \in WarpId, NEW stk, NEW act, NEW ex, NEW pcs, NEW later,
           Converge(w, stk, act, ex, pcs, later),
           NEW l, l \in active'[w], l \notin act
    PROVE  Wakers(stk, l, ex) # {} /\ sync'[w] = stk \ Completed(stk)
<1> DEFINE C == Completed(stk)
           R == (UNION {e.part : e \in C}) \ ex
<1>1. /\ sync' = [sync EXCEPT ![w] = stk \ C]
      /\ active' = [active EXCEPT ![w] = act \cup R]
  BY DEF Converge
<1>2. sync'[w] = stk \ C /\ active'[w] = act \cup R
  BY <1>1 DEF IInv, TypeOK
<1>3. PICK f \in C : l \in f.part /\ l \notin ex
  BY <1>2
<1>4. QED
  BY <1>2, <1>3 DEF Wakers

LEMMA BsyncDue ==
    ASSUME IInv, StampInv, NEW g \in Groups, Bsync(g), NEW v \in WarpId,
           NEW l \in Lane \ (active[v] \cup exited[v]), l \in active'[v]
    PROVE  Due(v, l)
<1>1. CASE UNCHANGED <<active, sync>>
  BY <1>1
<1>2. ASSUME NEW m \in ExecMasks(g), NEW e \in TopEntry(g[1], Inst(g).arg),
             Converge(g[1], (sync[g[1]] \ {e}) \cup {Arrive(e, m)},
                      active[g[1]] \ (m \cap e.pending), exited[g[1]], Advanced(g),
                      StackOrder((sync[g[1]] \ {e}) \cup {Arrive(e, m)}))
      PROVE  Due(v, l)
  <2> DEFINE w == g[1]
             a == Arrive(e, m)
             stk == (sync[w] \ {e}) \cup {a}
             act == active[w] \ (m \cap e.pending)
             ex == exited[w]
             ord == StackOrder(stk)
  <2>1. /\ w = g[1] /\ a = Arrive(e, m) /\ stk = Swapped(sync[w], e, a)
        /\ Converge(w, stk, act, ex, Advanced(g), ord)
    BY <1>2 DEF Swapped
  <2>2. e \in TopEntry(w, Inst(g).arg)
    OBVIOUS
  <2>3. w \in WarpId /\ Mask(g) \subseteq active[w] /\ act \subseteq active[w]
    BY GroupFacts
  <2>4. ex = exited[w]
    OBVIOUS
  <2> HIDE DEF w, a, stk, act, ex, ord
  <2>5. /\ e \in sync[w] /\ e.breg = Inst(g).arg
        /\ a.at = e.at /\ a.part = e.part /\ a.pending = e.pending \ m
        /\ m \subseteq Mask(g) /\ Stamped(stk, executed)
    BY <2>1, <2>2, BsyncEntries
  <2>6. v = w
    BY <2>1, <2>3 DEF Converge, IInv, TypeOK
  <2>7. l \notin act /\ l \notin active[w] /\ l \in active'[w] /\ l \notin exited[w]
    BY <2>3, <2>6
  <2>8. Wakers(stk, l, ex) # {} /\ sync'[w] = stk \ Completed(stk)
    BY <2>1, <2>3, <2>7, ConvergeWakes
  <2>9. PICK f \in stk : /\ f.pending = {} /\ l \in f.part /\ l \notin ex
                         /\ f \notin sync'[w]
    BY <2>8 DEF Wakers, Completed
  <2>10. \A x \in sync[w] : /\ x.pending # {}
                            /\ x.pending \cup x.arrived = x.part \ exited[w]
    BY <2>3 DEF IInv, SyncEntriesExact
  <2>11. f = a
    BY <2>1, <2>9, <2>10 DEF Swapped
  <2>12. e.pending \subseteq m /\ l \in e.part \ exited[w]
    BY <2>4, <2>5, <2>9, <2>11
  <2>13. l \in e.arrived
    BY <2>3, <2>5, <2>7, <2>10, <2>12
  <2>14. \A x \in sync'[w] : x.at # e.at
    BY <2>5, <2>8, <2>9, <2>11 DEF Stamped
  <2>15. ASSUME NEW k \in e.pending
         PROVE  /\ pc[w][k] \in DOMAIN kernel
                /\ kernel[pc[w][k]].op = "BSYNC"
                /\ kernel[pc[w][k]].arg = e.breg
    <3>1. pc[w][k] = g[2]
      BY <2>1, <2>5, <2>12 DEF Mask
    <3>2. g[2] \in DOMAIN kernel /\ kernel[g[2]].op = "BSYNC" /\ kernel[g[2]].arg = e.breg
      BY <2>5 DEF Bsync, Issue, Inst
    <3>3. QED
      BY <3>1, <3>2
  <2>16. QED
    BY <2>5, <2>6, <2>13, <2>14, <2>15 DEF Due
<1>3. QED
  BY <1>1, <1>2 DEF Bsync

LEMMA ExitDue ==
    ASSUME IInv, StampInv, NEW g \in Groups, Exit(g), NEW v \in WarpId,
           NEW l \in Lane \ (active[v] \cup exited[v]), l \in active'[v]
    PROVE  Due(v, l)
<1> DEFINE w == g[1]
<1>1. PICK m \in ExecMasks(g) :
         /\ exited' = [exited EXCEPT ![w] = @ \cup m]
         /\ Converge(w, {Leave(e, m) : e \in sync[w]}, active[w] \ m, exited[w] \cup m,
                     Advanced(g), ExitOrder(sync[w], {Leave(e, m) : e \in sync[w]}))
  BY DEF Exit
<1> DEFINE stk == {Leave(e, m) : e \in sync[w]}
           act == active[w] \ m
           ex == exited[w] \cup m
           ord == ExitOrder(sync[w], stk)
<1>2. /\ w = g[1] /\ stk = Left(sync[w], m)
      /\ Converge(w, stk, act, ex, Advanced(g), ord)
  BY <1>1 DEF Left
<1>3. w \in WarpId /\ act \subseteq active[w]
  BY GroupFacts
<1>4. ex = exited[w] \cup m /\ exited'[w] = exited[w] \cup m
  BY <1>1, <1>3 DEF IInv, TypeOK
<1> HIDE DEF w, stk, act, ex, ord
<1>5. /\ \A e \in sync[w] : /\ Leave(e, m).at = e.at /\ Leave(e, m).part = e.part
                            /\ Leave(e, m).pending = e.pending \ m
      /\ Stamped(stk, executed)
  BY <1>2, ExitEntries
<1>6. v = w
  BY <1>2, <1>3 DEF Converge, IInv, TypeOK
<1>7. l \notin act /\ l \notin active[w] /\ l \in active'[w]
  BY <1>3, <1>6
<1>8. Wakers(stk, l, ex) # {} /\ sync'[w] = stk \ Completed(stk)
  BY <1>2, <1>3, <1>7, ConvergeWakes
<1>9. PICK f \in stk : /\ f.pending = {} /\ l \in f.part /\ l \notin ex
                       /\ f \notin sync'[w]
  BY <1>8 DEF Wakers, Completed
<1>10. PICK e \in sync[w] : f = Leave(e, m)
  BY <1>2 DEF Left
<1>11. e.pending \cup e.arrived = e.part \ exited[w]
  BY <1>3 DEF IInv, SyncEntriesExact
<1>12. e.pending \subseteq m /\ l \in e.part /\ f.at = e.at
  BY <1>5, <1>9, <1>10
<1>13. l \in e.arrived
  BY <1>4, <1>9, <1>11, <1>12
<1>14. \A x \in sync'[w] : x.at # e.at
  BY <1>5, <1>8, <1>9, <1>12 DEF Stamped
<1>15. e.pending \ exited'[w] = {}
  BY <1>4, <1>12
<1>16. QED
  BY <1>6, <1>13, <1>14, <1>15 DEF Due

\* Nobody sleeping in a BSYNC is pulled off its path: do_bsync and do_exit
\* resume a lane only when the entry it arrived in has no pending lane left
\* that is still on its way.  The entry that completes is told from the
\* others on the stack by its stamp.
THEOREM WakeUpsAreDue == Spec => NoEarlyWakeup
<1> DEFINE Fine(w) == \A l \in Lane \ (active[w] \cup exited[w]) :
                         waiting[w] = None /\ l \in active'[w] => Due(w, l)
<1>1. ASSUME IInv, NEW g \in Groups, Bar(g), NEW w \in WarpId
      PROVE  Fine(w)
  <2> SUFFICES ASSUME waiting[w] = None PROVE active'[w] \subseteq active[w]
    OBVIOUS
  <2>1. Inst(g).arg # None
    BY <1>1, InstType, NoneIsNoBarrier DEF Bar, Issue
  <2>2. w \notin Woken(g[1][1], Inst(g).arg)
    BY <2>1 DEF Woken
  <2>3. QED
    BY <1>1, <2>2 DEF Bar, IInv, TypeOK
<1>2. ASSUME IInv, StampInv, [Next]_vars, NEW w \in WarpId
      PROVE  Fine(w)
  <2>1. CASE UNCHANGED active
    BY <2>1
  <2>2. ASSUME NEW g \in Groups,
               \/ Skip(g) \/ InvalidInstruction(g) \/ Data(g) \/ Bra(g)
               \/ Bssy(g) \/ LimitReached(g)
        PROVE  UNCHANGED active
    BY <2>2 DEF Skip, InvalidInstruction, Data, Bra, Bssy, LimitReached, lanes
  <2>3. ASSUME NEW g \in Groups, Bsync(g) \/ Exit(g)
        PROVE  Fine(w)
    BY <1>2, <2>3, BsyncDue, ExitDue
  <2>4. CASE UNCHANGED vars \/ Classify \/ Finished
    BY <2>1, <2>4 DEF vars, Classify, Finished, lanes
  <2> HIDE DEF Fine
  <2>5. QED
    BY <1>1, <1>2, <2>1, <2>2, <2>3, <2>4 DEF Next
<1>3. IInv /\ StampInv /\ [Next]_vars => [\A w \in WarpId : Fine(w)]_vars
  BY <1>2
<1>4. Init => StampInv
  BY DEF Init, StampInv, Stamped
<1>5. QED
  BY <1>3, <1>4, Invariance, StampStep, PTL DEF Spec, NoEarlyWakeup, Due

-----------------------------------------------------------------------------
(* The cursor of next_group is round robin between two changes of the      *)
(* number of groups (SimtFair).                                            *)
(*                                                                         *)
(* The groups of a warp are neighbours in scan order.  A step changes the  *)
(* groups of the warp it picked, or, when it releases a barrier, of that   *)
(* warp's CTA, where nobody else was runnable.  While the number of groups *)
(* stays the same, the groups of a warp that was passed over keep their    *)
(* places, and the cursor moves away from the end of them one by one.      *)

(* Groups as a set, without the done flags, which hide nothing.            *)

GroupSet(p, act, ex) == UNION {{<<w, p[w][l]>> : l \in act[w] \ ex[w]} : w \in WarpId}

Earlier(u, v) == u[1] < v[1] \/ (u[1] = v[1] /\ u[2] < v[2])

\* The groups of a warp, those of the warps before it, those of the warps
\* outside a set.
Of(G, w)    == {g \in G : g[1] = w}
Ahead(G, w) == {g \in G : Earlier(g[1], w)}
Off(G, B)   == {g \in G : g[1] \notin B}

\* Two functions on warps agree outside a set.
SameOff(p, q, B) == \A v \in WarpId \ B : p[v] = q[v]

LEMMA GroupSetMembers ==
    ASSUME NEW p, NEW act, NEW ex, NEW g
    PROVE  g \in GroupSet(p, act, ex) <=>
             \E w \in WarpId : \E l \in act[w] \ ex[w] : g = <<w, p[w][l]>>
BY DEF GroupSet

LEMMA GroupSetFinite ==
    ASSUME NEW p, NEW act \in [WarpId -> SUBSET Lane], NEW ex
    PROVE  IsFiniteSet(GroupSet(p, act, ex))
<1> DEFINE D == WarpId \X Lane
           f == [d \in D |-> <<d[1], p[d[1]][d[2]]>>]
           T == {f[d] : d \in D}
<1>1. IsFiniteSet(D)
  BY IndexSetsFinite
<1>2. f \in Surjection(D, T)
  BY DEF Surjection
<1>3. IsFiniteSet(T)
  BY <1>1, <1>2, FS_Surjection
<1>4. GroupSet(p, act, ex) \subseteq T
  <2> SUFFICES ASSUME NEW w \in WarpId, NEW l \in act[w] \ ex[w]
               PROVE  <<w, p[w][l]>> \in T
    BY DEF GroupSet
  <2>1. <<w, l>> \in D /\ f[<<w, l>>] = <<w, p[w][l]>>
    OBVIOUS
  <2>2. QED
    BY <2>1
<1>5. QED
  BY <1>3, <1>4, FS_Subset

LEMMA GroupSetOff ==
    ASSUME NEW p, NEW act, NEW ex, NEW q, NEW act2, NEW ex2, NEW B,
           SameOff(p, q, B), SameOff(act, act2, B), SameOff(ex, ex2, B)
    PROVE  Off(GroupSet(p, act, ex), B) = Off(GroupSet(q, act2, ex2), B)
<1>1. ASSUME NEW g, g[1] \notin B
      PROVE  g \in GroupSet(p, act, ex) <=> g \in GroupSet(q, act2, ex2)
  <2>1. ASSUME NEW w \in WarpId, NEW l, g = <<w, p[w][l]>> \/ g = <<w, q[w][l]>>
        PROVE  p[w] = q[w] /\ act[w] = act2[w] /\ ex[w] = ex2[w]
    BY <1>1, <2>1 DEF SameOff
  <2>2. QED
    BY <2>1, GroupSetMembers
<1>2. QED
  BY <1>1 DEF Off

\* done warps have no runnable lane.
LEMMA GroupsAreGroupSet == IInv => Groups = GroupSet(pc, active, exited)
<1> SUFFICES ASSUME IInv PROVE Groups = GroupSet(pc, active, exited)
  OBVIOUS
<1>1. \A w \in done : active[w] \ exited[w] = {}
  BY DEF IInv, CleanCompletion, TypeOK
<1>2. QED
  BY <1>1 DEF Groups, GroupSet, Live

-----------------------------------------------------------------------------
(* Counting.                                                               *)

LEMMA DisjointUnion ==
    ASSUME NEW S, IsFiniteSet(S), NEW T, IsFiniteSet(T), S \cap T = {},
           NEW U, U = S \cup T
    PROVE  Cardinality(U) = Cardinality(S) + Cardinality(T)
<1>1. Cardinality(S \cup T) = Cardinality(S) + Cardinality(T) - Cardinality(S \cap T)
  BY FS_Union
<1>2. Cardinality(S \cap T) = 0
  BY FS_EmptySet
<1>3. Cardinality(S) \in Nat /\ Cardinality(T) \in Nat
  BY FS_CardinalityType
<1>4. QED
  BY <1>1, <1>2, <1>3

LEMMA Counts ==
    ASSUME NEW G, IsFiniteSet(G), NEW w \in WarpId
    PROVE  /\ Cardinality(G) \in Nat
           /\ Cardinality(Ahead(G, w)) \in Nat /\ Cardinality(Of(G, w)) \in Nat
           /\ Cardinality(Ahead(G, w)) + Cardinality(Of(G, w)) <= Cardinality(G)
           /\ Of(G, w) # {} => Cardinality(Of(G, w)) > 0
<1>1. Ahead(G, w) \subseteq G /\ Of(G, w) \subseteq G
  BY DEF Ahead, Of
<1>2. /\ IsFiniteSet(Ahead(G, w)) /\ IsFiniteSet(Of(G, w))
      /\ Cardinality(Ahead(G, w)) \in Nat /\ Cardinality(Of(G, w)) \in Nat
      /\ Cardinality(G) \in Nat
  BY <1>1, FS_Subset, FS_CardinalityType
<1>3. ~Earlier(w, w)
  BY DEF Earlier, WarpId, Cta, Warp
<1>4. Ahead(G, w) \cap Of(G, w) = {}
  BY <1>3 DEF Ahead, Of
<1> DEFINE U == Ahead(G, w) \cup Of(G, w)
<1>5. Cardinality(U) = Cardinality(Ahead(G, w)) + Cardinality(Of(G, w))
  BY <1>2, <1>4, DisjointUnion
<1>6. U \subseteq G
  BY <1>1
<1> HIDE DEF U
<1>7. Cardinality(U) <= Cardinality(G)
  BY <1>6, FS_Subset
<1>8. Of(G, w) # {} => Cardinality(Of(G, w)) # 0
  BY <1>2, FS_EmptySet
<1>9. QED
  BY <1>2, <1>5, <1>7, <1>8

\* A change inside a block of warps that lies on one side of w, and leaves
\* the number of groups, leaves the place of the groups of w.
LEMMA BlockCounts ==
    ASSUME NEW G, IsFiniteSet(G), NEW H, IsFiniteSet(H), NEW w, NEW B, w \notin B,
           Off(G, B) = Off(H, B), Cardinality(G) = Cardinality(H),
           (\A u \in B : Earlier(u, w)) \/ (\A u \in B : ~Earlier(u, w))
    PROVE  /\ Of(G, w) = Of(H, w)
           /\ Cardinality(Ahead(G, w)) = Cardinality(Ahead(H, w))
<1>1. Of(G, w) = Of(H, w)
  BY DEF Of, Off
<1>2. CASE \A u \in B : ~Earlier(u, w)
  <2>1. Ahead(G, w) = Ahead(H, w)
    BY <1>2 DEF Ahead, Off
  <2>2. QED
    BY <1>1, <2>1
<1>3. CASE \A u \in B : Earlier(u, w)
  <2> DEFINE In(X) == X \ Off(X, B)
             Rest == Ahead(G, w) \cap Off(G, B)
  <2>1. Off(G, B) \subseteq G /\ Off(H, B) \subseteq H
    BY DEF Off
  <2>2. /\ Cardinality(In(G)) = Cardinality(G) - Cardinality(G \cap Off(G, B))
        /\ Cardinality(In(H)) = Cardinality(H) - Cardinality(H \cap Off(H, B))
        /\ IsFiniteSet(In(G)) /\ IsFiniteSet(In(H))
    BY FS_Difference
  <2>3. G \cap Off(G, B) = H \cap Off(H, B)
    BY <2>1
  <2>4. Cardinality(In(G)) = Cardinality(In(H))
    BY <2>2, <2>3
  <2>5. Ahead(G, w) = In(G) \cup Rest /\ In(G) \cap Rest = {}
    BY <1>3 DEF Ahead, Off
  <2>6. Ahead(H, w) = In(H) \cup Rest /\ In(H) \cap Rest = {}
    BY <1>3 DEF Ahead, Off
  <2>7. IsFiniteSet(Rest)
    BY <2>1, FS_Subset
  <2> HIDE DEF In, Rest
  <2>8. /\ Cardinality(Ahead(G, w)) = Cardinality(In(G)) + Cardinality(Rest)
        /\ Cardinality(Ahead(H, w)) = Cardinality(In(H)) + Cardinality(Rest)
    BY <2>2, <2>5, <2>6, <2>7, DisjointUnion
  <2>9. QED
    BY <1>1, <2>4, <2>8
<1>4. QED
  BY <1>2, <1>3

LEMMA EarlierOrder ==
    ASSUME NEW u \in WarpId, NEW v \in WarpId, NEW x \in WarpId
    PROVE  /\ ~Earlier(u, u)
           /\ u # v => Earlier(u, v) \/ Earlier(v, u)
           /\ ~(Earlier(u, v) /\ Earlier(v, u))
           /\ Earlier(u, v) /\ Earlier(v, x) => Earlier(u, x)
<1>1. /\ u[1] \in Int /\ u[2] \in Int /\ v[1] \in Int /\ v[2] \in Int
      /\ x[1] \in Int /\ x[2] \in Int
      /\ (u[1] = v[1] /\ u[2] = v[2] => u = v)
  BY DEF WarpId, Cta, Warp
<1>2. QED
  BY <1>1 DEF Earlier

\* The rank of a group that is not of w is outside the range of those of w.
LEMMA RankOutside ==
    ASSUME IInv, focus = WarpId, NEW g \in Groups, NEW w \in WarpId, g[1] # w
    PROVE  /\ Eligible = Groups
           /\ Rank(g) \in Nat /\ Rank(g) < Cardinality(Groups)
           /\ \/ Rank(g) < Cardinality(Ahead(Groups, w))
              \/ Rank(g) >= Cardinality(Ahead(Groups, w)) + Cardinality(Of(Groups, w))
<1> DEFINE R == {h \in Groups : Before(h, g)}
<1>1. \A h \in Groups : h[1] \in WarpId /\ h[2] \in Int
  BY GroupFacts
<1>2. Eligible = Groups
  BY <1>1 DEF Eligible
<1>3. Rank(g) = Cardinality(R)
  BY <1>2 DEF Rank
<1>4. IsFiniteSet(Groups)
  BY GroupsFinite DEF IInv
<1>5. \A h \in Groups : Before(h, g) <=> Earlier(h[1], g[1]) \/ (h[1] = g[1] /\ h[2] < g[2])
  BY DEF Before, Earlier
<1>6. g \notin R
  BY <1>1, <1>5, EarlierOrder
<1>7. R \subseteq Groups
  OBVIOUS
<1>8. \A h \in R : h[1] = g[1] \/ Earlier(h[1], g[1])
  BY <1>5
<1>9. \A h \in Groups : Earlier(h[1], g[1]) => h \in R
  BY <1>5
<1> HIDE DEF R
<1>10. IsFiniteSet(R) /\ Cardinality(R) \in Nat
  BY <1>4, <1>7, FS_Subset, FS_CardinalityType
<1> DEFINE T == R \cup {g}
<1>11. Cardinality(T) = Cardinality(R) + 1
  BY <1>6, <1>10, FS_AddElement
<1>12. T \subseteq Groups
  BY <1>7
<1> HIDE DEF T
<1>13. Cardinality(T) <= Cardinality(Groups)
  BY <1>4, <1>12, FS_Subset
<1>14. Cardinality(R) < Cardinality(Groups)
  BY <1>4, <1>10, <1>11, <1>13, FS_CardinalityType
<1>15. CASE Earlier(g[1], w)
  <2>1. T \subseteq Ahead(Groups, w)
    BY <1>1, <1>7, <1>8, <1>15, EarlierOrder DEF T, Ahead
  <2>2. Ahead(Groups, w) \subseteq Groups
    BY DEF Ahead
  <2>3. IsFiniteSet(Ahead(Groups, w)) /\ Cardinality(Ahead(Groups, w)) \in Nat
    BY <1>4, <2>2, FS_Subset, FS_CardinalityType
  <2>4. Cardinality(T) <= Cardinality(Ahead(Groups, w))
    BY <2>1, <2>3, FS_Subset
  <2>5. QED
    BY <1>2, <1>3, <1>10, <1>11, <1>14, <2>3, <2>4
<1>16. CASE Earlier(w, g[1])
  <2> DEFINE U == Ahead(Groups, w) \cup Of(Groups, w)
  <2>1. U \subseteq R
    BY <1>1, <1>9, <1>16, EarlierOrder DEF Ahead, Of
  <2>2. Ahead(Groups, w) \subseteq Groups /\ Of(Groups, w) \subseteq Groups
    BY DEF Ahead, Of
  <2>3. Ahead(Groups, w) \cap Of(Groups, w) = {}
    BY EarlierOrder DEF Ahead, Of
  <2>4. IsFiniteSet(Ahead(Groups, w)) /\ IsFiniteSet(Of(Groups, w))
    BY <1>4, <2>2, FS_Subset
  <2>5. Cardinality(U) = Cardinality(Ahead(Groups, w)) + Cardinality(Of(Groups, w))
    BY <2>3, <2>4, DisjointUnion
  <2> HIDE DEF U
  <2>6. Cardinality(U) <= Cardinality(R)
    BY <1>10, <2>1, FS_Subset
  <2>7. QED
    BY <1>2, <1>3, <1>10, <1>14, <2>5, <2>6
<1>17. QED
  BY <1>1, <1>15, <1>16, EarlierOrder

-----------------------------------------------------------------------------
(* How far the cursor is past the groups of a warp.                        *)

Dist(G, r, w) ==
    LET N == Cardinality(G)
        e == Cardinality(Ahead(G, w)) + Cardinality(Of(G, w))
    IN  IF r % N >= e THEN (r % N) - e ELSE (r % N) - e + N

LEMMA ModStep ==
    ASSUME NEW n \in Nat, NEW k \in Nat, k < n
    PROVE  /\ k % n = k
           /\ (k + 1) % n = IF k + 1 = n THEN 0 ELSE k + 1
OBVIOUS

LEMMA DistRange ==
    ASSUME NEW G, IsFiniteSet(G), NEW w \in WarpId, Of(G, w) # {}, NEW r \in Nat
    PROVE  Dist(G, r, w) \in Nat /\ Dist(G, r, w) < Cardinality(G)
<1> DEFINE N == Cardinality(G)
           F == Cardinality(Ahead(G, w))
           L == Cardinality(Of(G, w))
           k == r % N
<1>1. N \in Nat /\ F \in Nat /\ L \in Nat /\ F + L <= N /\ L > 0
  BY Counts
<1>2. Dist(G, r, w) = IF k >= F + L THEN k - (F + L) ELSE k - (F + L) + N
  BY DEF Dist
<1> HIDE DEF N, F, L
<1>3. k \in Nat /\ k < N
  BY <1>1
<1> HIDE DEF k
<1>4. QED
  BY <1>1, <1>2, <1>3 DEF N

\* Passing over w brings the cursor one group further.
LEMMA DistMoves ==
    ASSUME NEW G, IsFiniteSet(G), NEW H, NEW w \in WarpId, Of(G, w) # {},
           Of(G, w) = Of(H, w), Cardinality(Ahead(G, w)) = Cardinality(Ahead(H, w)),
           Cardinality(G) = Cardinality(H),
           NEW r \in Nat, NEW k \in Nat, k = r % Cardinality(G), k < Cardinality(G),
           \/ k < Cardinality(Ahead(G, w))
           \/ k >= Cardinality(Ahead(G, w)) + Cardinality(Of(G, w)),
           NEW s, s = (k + 1) % Cardinality(G)
    PROVE  Dist(H, s, w) = Dist(G, r, w) + 1
<1> DEFINE N == Cardinality(G)
           F == Cardinality(Ahead(G, w))
           L == Cardinality(Of(G, w))
<1>1. N \in Nat /\ F \in Nat /\ L \in Nat /\ F + L <= N /\ L > 0
  BY Counts
<1>2. Dist(G, r, w) = IF k >= F + L THEN k - (F + L) ELSE k - (F + L) + N
  BY DEF Dist
<1>3. Dist(H, s, w) = IF s % N >= F + L THEN (s % N) - (F + L) ELSE (s % N) - (F + L) + N
  BY DEF Dist
<1>4. k < N /\ s = (k + 1) % N /\ (k < F \/ k >= F + L)
  OBVIOUS
<1> HIDE DEF N, F, L
<1>5. s = IF k + 1 = N THEN 0 ELSE k + 1
  BY <1>1, <1>4, ModStep
<1>6. s \in Nat /\ s < N
  BY <1>1, <1>4, <1>5
<1>7. s % N = s
  BY <1>1, <1>6, ModStep
<1>8. QED
  BY <1>1, <1>2, <1>3, <1>4, <1>5, <1>7

-----------------------------------------------------------------------------
(* What a step leaves of the schedule of a warp that it passes over.       *)

\* Nothing changes outside B, and B lies on one side of w.
Block(B, w) ==
    /\ w \notin B
    /\ (\A u \in B : Earlier(u, w)) \/ (\A u \in B : ~Earlier(u, w))
    /\ SameOff(pc, pc', B) /\ SameOff(active, active', B) /\ SameOff(exited, exited', B)

LEMMA WarpBlock ==
    ASSUME IInv, NEW g \in Groups, NEW w, w # g[1],
           \/ Skip(g) \/ Data(g) \/ Bra(g) \/ Bssy(g) \/ Bsync(g) \/ Exit(g)
    PROVE  Block({g[1]}, w)
<1> DEFINE B == {g[1]}
<1>1. /\ pc \in [WarpId -> [Lane -> Int]]
      /\ active \in [WarpId -> SUBSET Lane]
      /\ exited \in [WarpId -> SUBSET Lane]
  BY DEF IInv, TypeOK
<1>2. SameOff(pc, pc', B)
  BY <1>1 DEF Skip, Data, Bra, Bssy, Bsync, Exit, Fallthrough, Converge, SameOff
<1>3. SameOff(active, active', B)
  BY <1>1 DEF Skip, Data, Bra, Bssy, Bsync, Exit, Converge, SameOff
<1>4. SameOff(exited, exited', B)
  BY <1>1 DEF Skip, Data, Bra, Bssy, Bsync, Exit, SameOff
<1>5. QED
  BY <1>2, <1>3, <1>4 DEF Block

\* A release changes the CTA of its warp, where all others were suspended.
LEMMA CtaBlock ==
    ASSUME IInv, NEW g \in Groups, NEW w \in WarpId, w # g[1], Live(w) # {}, Bar(g)
    PROVE  \E B : Block(B, w)
<1> DEFINE c   == g[1][1]
           b   == Inst(g).arg
           arr == arrived[c][b] \cup {g[1][2]}
<1>1. /\ pc \in [WarpId -> [Lane -> Int]]
      /\ active \in [WarpId -> SUBSET Lane]
      /\ exited \in [WarpId -> SUBSET Lane]
  BY DEF IInv, TypeOK
<1>2. /\ g[1] \in WarpId /\ c \in Cta /\ g[1][2] \in Warp /\ g[1] = <<c, g[1][2]>>
  BY GroupFacts DEF WarpId
<1>3. b \in Barrier /\ b # None
  BY InstType, NoneIsNoBarrier DEF Bar, Issue
<1>4. pc' = [pc EXCEPT ![g[1]] = Advanced(g)] /\ exited' = exited
  BY DEF Bar, Fallthrough
<1>5. CASE ~Complete(arr)
  <2>1. active' = [active EXCEPT ![g[1]] = @ \ Live(g[1])]
    BY <1>5 DEF Bar
  <2>2. Block({g[1]}, w)
    BY <1>1, <1>4, <2>1 DEF Block, SameOff
  <2>3. QED
    BY <2>2
<1>6. CASE Complete(arr)
  <2> DEFINE B == {v \in WarpId : v[1] = c}
  <2>1. arrived[c][b] = {i \in Warp : waiting[<<c, i>>] = b}
    BY <1>2, <1>3 DEF IInv, BarrierArrivalsExact
  <2>2. arr \subseteq Warp
    BY <1>2, <2>1
  <2>3. IsFiniteSet(Warp) /\ Cardinality(Warp) = NumWarps
    BY ConstantsAssumption, FS_Interval DEF Warp
  <2> HIDE DEF arr
  <2>4. /\ IsFiniteSet(arr) /\ Cardinality(arr) <= Cardinality(Warp)
        /\ Cardinality(Warp) = Cardinality(arr) => Warp = arr
    BY <2>2, <2>3, FS_Subset
  <2>5. arr = Warp
    BY <1>6, <2>3, <2>4, FS_CardinalityType, ConstantsAssumption DEF Complete
  <2>6. w \notin B
    <3> SUFFICES ASSUME w[1] = c PROVE FALSE
      OBVIOUS
    <3>1. w = <<c, w[2]>> /\ w[2] \in Warp /\ w[2] # g[1][2]
      BY <1>2 DEF WarpId
    <3>2. waiting[w] = b
      BY <2>1, <2>5, <3>1 DEF arr
    <3>3. active[w] = {}
      BY <1>3, <3>2 DEF IInv, BarrierArrivalsExact
    <3>4. QED
      BY <3>3 DEF Live
  <2>7. active' = [v \in WarpId |-> IF v \in Woken(c, b) THEN Lane \ exited[v]
                                                        ELSE active[v]]
    BY <1>6 DEF Bar, arr
  <2>8. SameOff(active, active', B)
    BY <2>7 DEF SameOff, Woken
  <2>9. SameOff(pc, pc', B) /\ SameOff(exited, exited', B)
    BY <1>1, <1>2, <1>4 DEF SameOff
  <2>10. w[1] \in Int /\ c \in Int /\ w[1] # c
    BY <1>2, <2>6 DEF WarpId, Cta
  <2>11. (\A u \in B : Earlier(u, w)) \/ (\A u \in B : ~Earlier(u, w))
    BY <2>10 DEF Earlier
  <2>12. Block(B, w)
    BY <2>6, <2>8, <2>9, <2>11 DEF Block
  <2>13. QED
    BY <2>12
<1>7. QED
  BY <1>5, <1>6

-----------------------------------------------------------------------------
(* The invariant: a warp has been passed over at most as often as the      *)
(* cursor is past the end of its groups.                                   *)

TurnInv ==
    /\ focus = WarpId
    /\ steady \in [WarpId -> Nat]
    /\ outcome = "Running" =>
         \A w \in WarpId : Live(w) # {} => steady[w] <= Dist(Groups, rr, w)

LEMMA OwnGroups ==
    ASSUME NEW p, NEW act, NEW ex, NEW w \in WarpId, act[w] \ ex[w] # {}
    PROVE  Of(GroupSet(p, act, ex), w) # {}
<1>1. PICK l \in act[w] \ ex[w] : TRUE
  OBVIOUS
<1> DEFINE g == <<w, p[w][l]>>
<1>2. g \in GroupSet(p, act, ex)
  BY GroupSetMembers
<1>3. g[1] = w
  OBVIOUS
<1> HIDE DEF g
<1>4. QED
  BY <1>2, <1>3 DEF Of

\* One warp in a step of the run loop that goes on.
LEMMA TurnOfWarp ==
    ASSUME IInv, IInv', TurnInv, NEW g \in Groups, NextGroup(g),
           \/ Skip(g) \/ Data(g) \/ Bra(g) \/ Bssy(g) \/ Bsync(g) \/ Exit(g) \/ Bar(g),
           NEW w \in WarpId, active'[w] \ exited'[w] # {},
           steady'[w] = IF PassedOver(w) /\ Cardinality(Groups') = Cardinality(Groups)
                          THEN steady[w] + 1 ELSE 0
    PROVE  steady'[w] <= Dist(Groups', rr', w)
<1> DEFINE G == Groups
           H == GroupSet(pc', active', exited')
           k == Rank(g)
           s == rr'
<1>1. Groups' = H
  BY GroupsAreGroupSet DEF IInv, TypeOK, CleanCompletion, GroupSet, Groups, Live
<1>2. G = GroupSet(pc, active, exited)
  BY GroupsAreGroupSet
<1>3. /\ active \in [WarpId -> SUBSET Lane] /\ active' \in [WarpId -> SUBSET Lane]
      /\ rr \in Nat /\ rr' \in Nat
  BY DEF IInv, TypeOK
<1>4. IsFiniteSet(G) /\ IsFiniteSet(H)
  BY <1>2, <1>3, GroupSetFinite
<1>5. Of(H, w) # {}
  BY OwnGroups
<1>6. CASE PassedOver(w) /\ Cardinality(Groups') = Cardinality(Groups)
  <2>1. steady'[w] = steady[w] + 1
    BY <1>6
  <2>2. Live(w) # {} /\ outcome = "Running"
    BY <1>6 DEF PassedOver
  <2>3. w # g[1]
    BY <1>6 DEF PassedOver, Picked, NextGroup
  <2>4. PICK B : Block(B, w)
    BY <2>2, <2>3, WarpBlock, CtaBlock
  <2>5. /\ Eligible = Groups /\ k \in Nat /\ k < Cardinality(G)
        /\ \/ k < Cardinality(Ahead(G, w))
           \/ k >= Cardinality(Ahead(G, w)) + Cardinality(Of(G, w))
    BY <2>3, RankOutside DEF TurnInv
  <2>6. k = rr % Cardinality(G) /\ s = (k + 1) % Cardinality(G)
    BY <2>5 DEF NextGroup
  <2>7. steady[w] <= Dist(G, rr, w) /\ steady[w] \in Nat
    BY <2>2 DEF TurnInv
  <2>8. Of(G, w) # {}
    BY <1>2, <2>2, OwnGroups DEF Live
  <2>9. Cardinality(G) = Cardinality(H)
    BY <1>1, <1>6
  <2>10. Off(G, B) = Off(H, B)
    BY <1>2, <2>4, GroupSetOff DEF Block
  <2> HIDE DEF G, H, k, s
  <2>11. /\ w \notin B
         /\ (\A u \in B : Earlier(u, w)) \/ (\A u \in B : ~Earlier(u, w))
    BY <2>4 DEF Block
  <2>12. Of(G, w) = Of(H, w) /\ Cardinality(Ahead(G, w)) = Cardinality(Ahead(H, w))
    BY <1>4, <2>9, <2>10, <2>11, BlockCounts
  <2>13. Dist(H, s, w) = Dist(G, rr, w) + 1
    BY <1>3, <1>4, <2>5, <2>6, <2>8, <2>9, <2>12, DistMoves
  <2>14. Dist(G, rr, w) \in Nat
    BY <1>3, <1>4, <2>8, DistRange
  <2>15. QED
    BY <1>1, <2>1, <2>7, <2>13, <2>14 DEF s
<1>7. CASE ~(PassedOver(w) /\ Cardinality(Groups') = Cardinality(Groups))
  <2>1. Dist(H, s, w) \in Nat
    BY <1>3, <1>4, <1>5, DistRange
  <2>2. QED
    BY <1>1, <1>7, <2>1
<1>8. QED
  BY <1>6, <1>7

LEMMA TurnStep == IInv /\ TurnInv /\ [HNext]_fairVars => TurnInv'
<1> SUFFICES ASSUME IInv, TurnInv, [HNext]_fairVars PROVE TurnInv'
  OBVIOUS
<1>1. CASE UNCHANGED fairVars
  BY <1>1 DEF fairVars, vars, TurnInv, Dist, Groups, Live, Of, Ahead
<1>2. CASE HNext
  <2>1. Next
    BY <1>2 DEF HNext
  <2>2. IInv'
    BY <2>1, NextIInv
  <2>3. focus' = WarpId
    BY <2>1 DEF TurnInv, Next, Skip, InvalidInstruction, Data, Bra, Bssy, Bsync, Exit,
                Bar, LimitReached, Classify, Finished, Issue, NextGroup, vars
  <2>4. \A w \in WarpId :
          steady'[w] = IF PassedOver(w) /\ Cardinality(Groups') = Cardinality(Groups)
                         THEN steady[w] + 1 ELSE 0
    BY <1>2 DEF HNext
  <2>5. steady' \in [WarpId -> Nat]
    BY <1>2 DEF HNext, TurnInv
  <2>6. ASSUME outcome' = "Running", NEW w \in WarpId, active'[w] \ exited'[w] # {}
        PROVE  steady'[w] <= Dist(Groups', rr', w)
    <3>1. PICK g \in Groups :
            \/ Skip(g) \/ Data(g) \/ Bra(g) \/ Bssy(g) \/ Bsync(g) \/ Exit(g) \/ Bar(g)
      BY <2>1, <2>6 DEF Next, InvalidInstruction, LimitReached, Classify, Finished,
                        Fault, TerminalState, vars
    <3>2. NextGroup(g)
      BY <3>1 DEF Skip, Data, Bra, Bssy, Bsync, Exit, Bar, Issue
    <3>3. QED
      BY <2>2, <2>4, <2>6, <3>1, <3>2, TurnOfWarp
  <2>7. QED
    BY <2>3, <2>5, <2>6 DEF TurnInv, Live, Dist, Of, Ahead
<1>3. QED
  BY <1>1, <1>2

\* next_group is fair while the schedule keeps its size: a runnable warp is
\* passed over fewer times in a row than there are groups, although
\* the cursor is a bare number and the groups under it are recomputed on
\* every turn.
THEOREM RoundRobin == HSpec => []SteadyRoundRobin
<1>1. HInit => IInv /\ TurnInv
  <2> SUFFICES ASSUME HInit PROVE IInv /\ TurnInv
    OBVIOUS
  <2>1. IInv
    BY InitIInv DEF HInit
  <2>2. focus = WarpId /\ rr \in Nat /\ steady = [w \in WarpId |-> 0]
    BY DEF HInit, Init
  <2>3. Groups = GroupSet(pc, active, exited) /\ active \in [WarpId -> SUBSET Lane]
    BY <2>1, GroupsAreGroupSet DEF IInv, TypeOK
  <2>4. ASSUME NEW w \in WarpId, Live(w) # {} PROVE Dist(Groups, rr, w) \in Nat
    BY <2>2, <2>3, <2>4, GroupSetFinite, OwnGroups, DistRange DEF Live
  <2>5. QED
    BY <2>1, <2>2, <2>4 DEF TurnInv
<1>2. IInv /\ TurnInv /\ [HNext]_fairVars => IInv' /\ TurnInv'
  <2>1. [HNext]_fairVars => [Next]_vars
    BY DEF HNext, fairVars
  <2>2. QED
    BY <2>1, NextIInv, TurnStep
<1>3. IInv /\ TurnInv => SteadyRoundRobin
  <2> SUFFICES ASSUME IInv, TurnInv, outcome = "Running", NEW w \in WarpId, Live(w) # {}
               PROVE  steady[w] < Cardinality(Groups)
    BY DEF SteadyRoundRobin
  <2>1. Groups = GroupSet(pc, active, exited) /\ active \in [WarpId -> SUBSET Lane]
        /\ rr \in Nat
    BY GroupsAreGroupSet DEF IInv, TypeOK
  <2>2. IsFiniteSet(Groups) /\ Of(Groups, w) # {}
    BY <2>1, GroupSetFinite, OwnGroups DEF Live
  <2>3. Dist(Groups, rr, w) \in Nat /\ Dist(Groups, rr, w) < Cardinality(Groups)
    BY <2>1, <2>2, DistRange
  <2>4. Cardinality(Groups) \in Nat
    BY <2>2, FS_CardinalityType
  <2>5. steady[w] \in Nat /\ steady[w] <= Dist(Groups, rr, w)
    BY DEF TurnInv
  <2>6. QED
    BY <2>3, <2>4, <2>5
<1>4. QED
  BY <1>1, <1>2, <1>3, PTL DEF HSpec

=============================================================================
