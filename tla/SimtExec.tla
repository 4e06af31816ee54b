------------------------------ MODULE SimtExec ------------------------------
(***************************************************************************)
(* The warp execution core of the semu SASS interpreter: one Interpreter   *)
(* instance (a single worker) running the CTAs it owns to completion.      *)
(*                                                                         *)
(* A step of Next is one turn of the loop of Interpreter::run_owned: scan  *)
(* the schedule, pick the next (cta, warp, pc) group round robin, check    *)
(* the instruction limit, execute the group.  Masks are sets of lanes, a   *)
(* pc is an instruction index (byte offset / 16), an invalid or misaligned *)
(* target is an index outside the kernel.  Predicate and address registers *)
(* are data: a guarded instruction executes on any subset of its group, an *)
(* indirect branch takes any of the listed targets.                        *)
(***************************************************************************)
EXTENDS Integers, FiniteSets

CONSTANTS
    NumCtas,      \* CTAs owned by this worker
    NThreads,     \* threads per CTA (env_.block product)
    WarpSize,     \* kLanesPerWarp
    NumBarriers,  \* named barriers b0 .. b(NumBarriers-1)
    Kernels,      \* the kernels a launch may run: pc -> instruction
    Limit         \* RunOptions::instruction_limit

Cta     == 0 .. NumCtas - 1
NumWarps == (NThreads + WarpSize - 1) \div WarpSize
Warp    == 0 .. NumWarps - 1
WarpId  == Cta \X Warp
Lane    == 0 .. WarpSize - 1
Barrier == 0 .. NumBarriers - 1
None    == -1      \* waiting_barrier of a warp that waits at no barrier

\* DATA stands for every handler that leaves the scheduling state alone,
\* BAD for a word without a unique decoding.
Instruction ==
    [op : {"BRA", "BSSY", "BSYNC", "EXIT", "BAR", "DATA", "BAD"},
     guarded : BOOLEAN,        \* guard_pred != PT
     arg     : Nat,            \* barReg of BSSY/BSYNC, barname of BAR
     targets : SUBSET Int]     \* BRA/JMP/BSSY: one; BRX/JMX: what Ra may hold

ASSUME ConstantsAssumption ==
    /\ NumCtas \in Nat \ {0}
    /\ NThreads \in Nat \ {0}
    /\ WarpSize \in Nat \ {0}
    /\ NumBarriers \in Nat
    /\ Limit \in Nat
    /\ NumWarps \in Nat \ {0}

ASSUME KernelsAssumption ==
    \A k \in Kernels :
        /\ DOMAIN k \subseteq Nat
        /\ \A p \in DOMAIN k :
              /\ k[p] \in Instruction
              /\ k[p].op = "BAR" => k[p].arg \in Barrier

\* WarpState::SyncEntry.  The vector sync_stack is a set of entries stamped
\* with the executed_ count of the BSSY that pushed them: its order.
SyncEntry ==
    [at : Nat, join : Nat, breg : Nat,
     part : SUBSET Lane, pending : SUBSET Lane, arrived : SUBSET Lane]

VARIABLES
    kernel,    \* the kernel of the launch, never changed
    pc,        \* ThreadState::pc
    active,    \* lanes with ThreadState::active
    exited,    \* lanes with ThreadState::exited
    sync,      \* WarpState::sync_stack
    waiting,   \* WarpState::waiting_barrier
    done,      \* warps with WarpState::done
    arrived,   \* CtaState::barriers[b].arrived
    focus,     \* the warps the schedule filter lets through: all, in a run
    rr,        \* the round-robin cursor rr_
    executed,  \* executed_
    outcome    \* how the run ended, "Running" until then

lanes == <<pc, active, exited>>
vars  == <<kernel, pc, active, exited, sync, waiting, done, arrived,
           focus, rr, executed, outcome>>

Outcome == {"Running", "Done", "BarrierDeadlock", "NoProgress",
            "Limit", "Fault"}

-----------------------------------------------------------------------------
(* Launch: the constructor.  Lanes past the thread count start exited.     *)

Absent(w) == {l \in Lane : w[2] * WarpSize + l >= NThreads}

Init ==
    /\ kernel \in Kernels
    /\ pc = [w \in WarpId |-> [l \in Lane |-> 0]]
    /\ active = [w \in WarpId |-> Lane \ Absent(w)]
    /\ exited = [w \in WarpId |-> Absent(w)]
    /\ sync = [w \in WarpId |-> {}]
    /\ waiting = [w \in WarpId |-> None]
    /\ done = {}
    /\ arrived = [c \in Cta |-> [b \in Barrier |-> {}]]
    /\ focus = WarpId
    /\ rr = 0
    /\ executed = 0
    /\ outcome = "Running"

-----------------------------------------------------------------------------
(* Scheduler: scan_schedule, next_group, terminal_state.                   *)

Live(w) == active[w] \ exited[w]

SyncWait(w) == \E e \in sync[w] : e.pending # {} \/ e.arrived # {}

\* Mutant: a warp without a runnable lane or a sync wait is finished.
ScanDone_NoLiveLane ==
    done \cup {w \in WarpId : Live(w) = {} /\ ~SyncWait(w)}

\* The scan marks a warp done once every lane of it exited.
ScanDone ==
    done \cup {w \in WarpId :
                  /\ Live(w) = {}
                  /\ waiting[w] = None
                  /\ ~SyncWait(w)
                  /\ exited[w] = Lane}

Groups == UNION {{<<w, pc[w][l]>> : l \in Live(w)} : w \in WarpId \ done}

\* Scan order: CTA, then warp, then pc (by_pc is an ordered map).
Before(g, h) ==
    \/ g[1][1] < h[1][1]
    \/ g[1][1] = h[1][1] /\ g[1][2] < h[1][2]
    \/ g[1] = h[1] /\ g[2] < h[2]

\* The groups that pass the schedule filter.
Eligible == {g \in Groups : g[1] \in focus}

Rank(g) == Cardinality({h \in Eligible : Before(h, g)})

Mask(g) == {l \in Live(g[1]) : pc[g[1]][l] = g[2]}

\* Mutant: the cursor stays on the group it picked.
NextGroup_CursorStays(g) ==
    /\ outcome = "Running"
    /\ g \in Eligible
    /\ Rank(g) = rr % Cardinality(Eligible)
    /\ rr' = Rank(g) % Cardinality(Eligible)
    /\ done' = ScanDone
    /\ UNCHANGED <<kernel, focus>>

\* next_group returned g: the cursor moved past it, done was refreshed.
NextGroup(g) ==
    /\ outcome = "Running"
    /\ g \in Eligible
    /\ Rank(g) = rr % Cardinality(Eligible)
    /\ rr' = (Rank(g) + 1) % Cardinality(Eligible)
    /\ done' = ScanDone
    /\ UNCHANGED <<kernel, focus>>

TerminalState ==
    IF \E w \in WarpId \ done : Live(w) = {} /\ waiting[w] # None
      THEN "BarrierDeadlock"
      ELSE IF \E w \in WarpId \ done :
                  Live(w) = {} /\ waiting[w] = None /\ SyncWait(w)
             THEN "NoProgress"
             ELSE "Done"

-----------------------------------------------------------------------------
(* execute_group: common parts.                                            *)

Inst(g) == kernel[g[2]]

\* Mutant: the limit admits one instruction more.
Issue_OffByOne(g) ==
    /\ NextGroup(g)
    /\ executed <= Limit
    /\ g[2] \in DOMAIN kernel

\* next_group picked g, the limit is not reached and the word decodes.
Issue(g) ==
    /\ NextGroup(g)
    /\ executed < Limit
    /\ g[2] \in DOMAIN kernel

\* The lanes that pass the guard.
ExecMasks(g) ==
    IF Inst(g).guarded THEN (SUBSET Mask(g)) \ {{}} ELSE {Mask(g)}

\* Every lane of the group moves past the instruction first.
Advanced(g) ==
    [l \in Lane |-> IF l \in Mask(g) THEN g[2] + 1 ELSE pc[g[1]][l]]

\* Mutant: retired instructions are not counted.
Retire_NotCounted == outcome' = "Running" /\ UNCHANGED executed

Retire == executed' = executed + 1 /\ outcome' = "Running"

Fault == outcome' = "Fault" /\ UNCHANGED executed

Fallthrough(g) == pc' = [pc EXCEPT ![g[1]] = Advanced(g)]

-----------------------------------------------------------------------------
(* Handlers.                                                               *)

\* Every lane of the group fails the guard: the instruction is skipped.
Skip(g) ==
    /\ Issue(g)
    /\ Inst(g).op # "BAD"
    /\ Inst(g).guarded
    /\ Fallthrough(g)
    /\ Retire
    /\ UNCHANGED <<active, exited, sync, waiting, arrived>>

\* Outside the text, or a word without a unique decoding.
InvalidInstruction(g) ==
    /\ NextGroup(g)
    /\ executed < Limit
    /\ g[2] \in DOMAIN kernel => Inst(g).op = "BAD"
    /\ Fault
    /\ UNCHANGED <<lanes, sync, waiting, arrived>>

Data(g) ==
    /\ Issue(g)
    /\ Inst(g).op = "DATA"
    /\ Fallthrough(g)
    /\ Retire \/ Fault
    /\ UNCHANGED <<active, exited, sync, waiting, arrived>>

\* do_bra: taken lanes jump in lane order; the first lane without a valid
\* target faults, the lanes before it have jumped.
Bra(g) ==
    /\ Issue(g)
    /\ Inst(g).op = "BRA"
    /\ \E m \in ExecMasks(g) : \E t \in [m -> Inst(g).targets] :
         LET bad   == {l \in m : t[l] \notin DOMAIN kernel}
             taken == {l \in m : \A b \in bad : l < b}
         IN /\ pc' = [pc EXCEPT ![g[1]] =
                        [l \in Lane |-> IF l \in taken THEN t[l]
                                        ELSE Advanced(g)[l]]]
            /\ IF bad = {} THEN Retire ELSE Fault
    /\ UNCHANGED <<active, exited, sync, waiting, arrived>>

Bssy(g) ==
    /\ Issue(g)
    /\ Inst(g).op = "BSSY"
    /\ Fallthrough(g)
    /\ \E m \in ExecMasks(g) : \E j \in Inst(g).targets :
         IF j \in DOMAIN kernel
           THEN /\ sync' = [sync EXCEPT ![g[1]] = @ \cup
                      {[at |-> executed, join |-> j, breg |-> Inst(g).arg,
                        part |-> m, pending |-> m, arrived |-> {}]}]
                /\ Retire
           ELSE /\ Fault
                /\ UNCHANGED sync
    /\ UNCHANGED <<active, exited, waiting, arrived>>

\* Mutant: an entry whose last pending lane left is never completed.
Completed_OnlyArrived(stk) ==
    {e \in stk : e.pending = {} /\ e.arrived = e.part}

Completed(stk) == {e \in stk : e.pending = {}}

\* converge_completed_sync: the participants of every completed entry resume
\* after the join; of several entries the one processed last sets the pc.
Converge(w, stk, act, ex, pcs, later) ==
    LET C == Completed(stk)
        R == (UNION {e.part : e \in C}) \ ex
    IN \E last \in [R -> C] :
         /\ \A l \in R : /\ l \in last[l].part
                         /\ \A e \in C : l \in e.part => <<e, last[l]>> \notin later
         /\ sync' = [sync EXCEPT ![w] = stk \ C]
         /\ active' = [active EXCEPT ![w] = act \cup R]
         /\ pc' = [pc EXCEPT ![w] =
                     [l \in Lane |-> IF l \in R THEN last[l].join + 1
                                     ELSE pcs[l]]]

\* find_if from the top of the stack: the youngest entry on this register,
\* whichever lanes pushed it.
TopEntry(w, b) ==
    {e \in sync[w] : e.breg = b /\ \A f \in sync[w] : f.breg = b => f.at <= e.at}

\* Entries are processed from the bottom of the stack.
StackOrder(stk) == {r \in stk \X stk : r[1].at > r[2].at}

\* Mutant: the arrival is not recorded.
Arrive_NotRecorded(e, m) == [e EXCEPT !.pending = @ \ m]

Arrive(e, m) == [e EXCEPT !.pending = @ \ m,
                          !.arrived = @ \cup (m \cap e.pending)]

Bsync(g) ==
    /\ Issue(g)
    /\ Inst(g).op = "BSYNC"
    /\ \E m \in ExecMasks(g) :
         \/ /\ TopEntry(g[1], Inst(g).arg) = {}
            /\ Fallthrough(g)
            /\ Fault
            /\ UNCHANGED <<active, sync>>
         \/ \E e \in TopEntry(g[1], Inst(g).arg) :
              LET stk == (sync[g[1]] \ {e}) \cup {Arrive(e, m)}
              IN /\ Converge(g[1], stk, active[g[1]] \ (m \cap e.pending),
                             exited[g[1]], Advanced(g), StackOrder(stk))
                 /\ Retire
    /\ UNCHANGED <<exited, waiting, arrived>>

\* Mutant: one exiting lane clears the whole pending mask.
Leave_AllPending(e, m) ==
    [e EXCEPT !.pending = IF @ \cap m = {} THEN @ ELSE {}, !.arrived = @ \ m]

Leave(e, m) == [e EXCEPT !.pending = @ \ m, !.arrived = @ \ m]

\* Lanes exit one by one, each followed by a convergence: an entry is
\* processed when the last of its pending lanes exits, entries that complete
\* together in stack order.
ExitOrder(old, stk) ==
    LET pend(e) == UNION {x.pending : x \in {y \in old : y.at = e.at}}
    IN {r \in stk \X stk :
          \/ \E l \in pend(r[1]) : \A k \in pend(r[2]) : k < l
          \/ /\ r[1].at > r[2].at
             /\ \A k \in pend(r[2]) : \E l \in pend(r[1]) : k <= l}

Exit(g) ==
    /\ Issue(g)
    /\ Inst(g).op = "EXIT"
    /\ \E m \in ExecMasks(g) :
         LET stk == {Leave(e, m) : e \in sync[g[1]]}
         IN /\ exited' = [exited EXCEPT ![g[1]] = @ \cup m]
            /\ Converge(g[1], stk, active[g[1]] \ m, exited[g[1]] \cup m,
                        Advanced(g), ExitOrder(sync[g[1]], stk))
    /\ Retire
    /\ UNCHANGED <<waiting, arrived>>

\* Mutant: the wake-up loop starts at the second warp.
Woken_NotFirst(c, b) ==
    {v \in WarpId : v[1] = c /\ v[2] # 0 /\ waiting[v] = b}

\* Mutant: a release reaches the warps of every CTA.
Woken_AnyCta(c, b) == {v \in WarpId : waiting[v] = b}

Woken(c, b) == {v \in WarpId : v[1] = c /\ waiting[v] = b}

Complete(arr) == Cardinality(arr) >= NumWarps

\* do_bar: the warp arrives as a whole, whichever lanes execute the BAR; the
\* last arrival resumes every lane of every waiting warp, the others suspend.
Bar(g) ==
    LET w   == g[1]
        c   == w[1]
        b   == Inst(g).arg
        arr == arrived[c][b] \cup {w[2]}
    IN /\ Issue(g)
       /\ Inst(g).op = "BAR"
       /\ Fallthrough(g)
       /\ IF Complete(arr)
            THEN /\ arrived' = [arrived EXCEPT ![c][b] = {}]
                 /\ active' = [v \in WarpId |-> IF v \in Woken(c, b)
                                                  THEN Lane \ exited[v]
                                                  ELSE active[v]]
                 /\ waiting' = [v \in WarpId |-> IF v \in Woken(c, b)
                                                   THEN None ELSE waiting[v]]
            ELSE /\ arrived' = [arrived EXCEPT ![c][b] = arr]
                 /\ active' = [active EXCEPT ![w] = @ \ Live(w)]
                 /\ waiting' = [waiting EXCEPT ![w] = b]
       /\ Retire
       /\ UNCHANGED <<exited, sync>>

-----------------------------------------------------------------------------
(* The ends of run_owned.                                                  *)

LimitReached(g) ==
    /\ NextGroup(g)
    /\ executed >= Limit
    /\ outcome' = "Limit"
    /\ UNCHANGED <<lanes, sync, waiting, arrived, executed>>

\* No group to run: classify why.
Classify ==
    /\ outcome = "Running"
    /\ Groups = {}
    /\ done' = ScanDone
    /\ outcome' = TerminalState
    /\ UNCHANGED <<kernel, lanes, sync, waiting, arrived, focus, rr,
                   executed>>

\* The result has been returned; nothing runs any more.
Finished == outcome # "Running" /\ UNCHANGED vars

Next ==
    \/ \E g \in Groups :
         \/ Skip(g)
         \/ InvalidInstruction(g)
         \/ Data(g)
         \/ Bra(g)
         \/ Bssy(g)
         \/ Bsync(g)
         \/ Exit(g)
         \/ Bar(g)
         \/ LimitReached(g)
    \/ Classify
    \/ Finished

Spec == Init /\ [][Next]_vars

\* The run is a loop on one host thread: it never stops by itself while it
\* can take a turn.
FairSpec == Spec /\ WF_vars(Next)

-----------------------------------------------------------------------------
(* Properties.                                                             *)

\* Type invariant: the ranges of the interpreter's scheduling state.
TypeOK ==
    /\ kernel \in Kernels
    /\ pc \in [WarpId -> [Lane -> Int]]
    /\ active \in [WarpId -> SUBSET Lane]
    /\ exited \in [WarpId -> SUBSET Lane]
    /\ sync \in [WarpId -> SUBSET SyncEntry]
    /\ waiting \in [WarpId -> Barrier \cup {None}]
    /\ done \in SUBSET WarpId
    /\ arrived \in [Cta -> [Barrier -> SUBSET Warp]]
    /\ rr \in Nat
    /\ executed \in 0 .. Limit
    /\ outcome \in Outcome

\* A lane that is neither running nor exited is one that something will
\* wake: it arrived in a sync entry of its warp, or its warp waits at a
\* named barrier.  The scheduler never looks at such lanes: one that nobody
\* owes a wake-up is lost without a trace.
SleepersAccounted ==
    \A w \in WarpId :
        /\ active[w] \cap exited[w] = {}
        /\ \A l \in Lane \ (active[w] \cup exited[w]) :
              waiting[w] # None \/ \E e \in sync[w] : l \in e.arrived

\* A launch reported done ran every thread to its EXIT: a stuck launch is a
\* fault, never a clean completion (run_owned, terminal_state), although the
\* classification only looks at flags and lists that the handlers maintain.
CleanCompletion ==
    /\ \A w \in done : exited[w] = Lane
    /\ outcome = "Done" => \A w \in WarpId : exited[w] = Lane

\* The lanes a sync entry still counts (pending or arrived) are exactly its
\* participants that did not exit, no lane is counted twice, and no completed
\* entry is ever left on the stack (do_bsync, do_exit,
\* converge_completed_sync).
SyncEntriesExact ==
    \A w \in WarpId : \A e \in sync[w] :
        /\ e.pending # {}
        /\ e.pending \cap e.arrived = {}
        /\ e.pending \cup e.arrived = e.part \ exited[w]

\* A named barrier's arrival list is exactly the set of warps suspended at
\* it, and a suspended warp has no runnable lane: no arrival survives its
\* release and no warp is counted at two barriers (do_bar).
BarrierArrivalsExact ==
    /\ \A c \in Cta : \A b \in Barrier :
          arrived[c][b] = {i \in Warp : waiting[<<c, i>>] = b}
    /\ \A w \in WarpId : waiting[w] # None => active[w] = {}

\* A warp leaves a named barrier only in a step in which every warp of its
\* CTA is at that barrier: one of them executes the BAR, all others are
\* suspended in it (do_bar).
BarrierReleasesTogether ==
    [][\A w \in WarpId :
         waiting[w] # None /\ waiting'[w] = None =>
           \E i \in Warp :
              /\ \E l \in Live(<<w[1], i>>) :
                    LET p == pc[<<w[1], i>>][l]
                    IN /\ p \in DOMAIN kernel
                       /\ kernel[p].op = "BAR"
                       /\ kernel[p].arg = waiting[w]
              /\ \A j \in Warp \ {i} : waiting[<<w[1], j>>] = waiting[w]]_vars

\* A lane that sleeps in a BSYNC (its warp waiting at no named barrier) is
\* woken only by a step that completes an entry it arrived in: every other
\* participant of that entry arrived before, exits, or is itself executing
\* the BSYNC in this very step; nobody is pulled off its path to the join
\* (do_bsync, do_exit).
NoEarlyWakeup ==
    [][\A w \in WarpId : \A l \in Lane \ (active[w] \cup exited[w]) :
         waiting[w] = None /\ l \in active'[w] =>
           \E e \in sync[w] :
              /\ l \in e.arrived
              /\ \A f \in sync'[w] : f.at # e.at
              /\ \A k \in e.pending \ exited'[w] :
                    /\ pc[w][k] \in DOMAIN kernel
                    /\ kernel[pc[w][k]].op = "BSYNC"
                    /\ kernel[pc[w][k]].arg = e.breg]_vars

\* Every launch ends: with a result, a fault or at the instruction limit
\* (run_owned).
Terminates == <>(outcome # "Running")

=============================================================================
