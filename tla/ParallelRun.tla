----------------------------- MODULE ParallelRun -----------------------------
(***************************************************************************)
(* A launch on several worker threads (run_result, run_result_parallel,    *)
(* run_owned).  Worker w owns the CTAs with cta % workers = w and runs     *)
(* them with the round-robin loop; it keeps the memory events it emits,    *)
(* and buffers L2 requests.  When all threads are joined the results are   *)
(* merged: the CTAs in order, or one fault; the L2 requests are sorted and *)
(* fed to one engine; and all events are renumbered.                       *)
(*                                                                         *)
(* The workers share the global buffer of one memory service.  A memory    *)
(* instruction accesses it lane by lane, each access under its mutex, and  *)
(* those of other workers may come in between (mem_ldst_atom_core).        *)
(*                                                                         *)
(* A CTA is abstracted to one warp: what happens inside a CTA is module    *)
(* SimtExec, the race log is module RaceReplay.  Registers are not         *)
(* modelled, but for the values that atomics return.                       *)
(***************************************************************************)
EXTENDS L2Events, MemoryService

CONSTANTS
    NumCtas,     \* CTAs of the grid
    NumSms,      \* simulated_sm_count
    MaxWorkers,  \* bound on the worker count
    Launches,    \* programs, options and global buffers of the launches
    NoFault,
    NoResult,
    NoValue,     \* the lane has not read
    Nobody       \* the mutex is free

Cta == 0 .. NumCtas - 1

\* alu and exit; load, store and atomic: one access for each active lane; trap:
\* any fault that is not of a memory access; wait: a barrier nobody else reaches;
\* loop: a jump to the first instruction.
Lane == [addr: 0..(AddrWords - 1), off: Int, data: Nat, cmp: Nat]

MemoryOps == {"load", "store", "atomic"}

Instruction == [op: {"alu", "trap", "wait", "loop"} \cup MemoryOps, len: Nat,
                rmw: AtomicOps, lanes: Seq(Lane)]

Launch == [prog: [Cta -> Seq(Instruction)], workers: 1..MaxWorkers, limit: Nat,
           seed: Nat, fast: BOOLEAN, global: Seq(0..(ByteBase - 1))]

Widths == {1, 2, 4, 8, 16}

Fault == [kind: {"internal", "limit", "trap", "deadlock", "memory"}, cta: Cta]

\* The worker is in no memory instruction.
NoAccess == [cta |-> 0, lane |-> 0, cur |-> NoValue]

\* A grid has a CTA and a program an instruction.  The widths are those of the
\* decoder; a memory instruction without an active lane is skipped before its
\* handler, so it is an alu here.  The allocator places the buffer in the address
\* space.
ASSUME ParallelAssumption ==
    /\ NumCtas \in Nat \ {0} /\ NumSms \in Nat \ {0} /\ MaxWorkers \in Nat
    /\ \A l \in Launches :
         /\ l.prog \in [Cta -> Seq(Instruction) \ {<<>>}]
         /\ \A c \in Cta : \A n \in DOMAIN l.prog[c] :
              l.prog[c][n].op \in MemoryOps =>
                l.prog[c][n].len \in Widths /\ l.prog[c][n].lanes # <<>>
         /\ l.workers \in 1..MaxWorkers /\ l.limit \in Nat /\ l.seed \in Nat
         /\ l.fast \in BOOLEAN
         /\ l.global \in Seq(0..(ByteBase - 1)) 
         /\ Len(l.global) < AddrWords \div 2 /\ GlobalBase + Len(l.global) <= AddrWords
    /\ NoFault \notin Fault /\ Nobody \notin Nat

VARIABLES
    launch,    \* the launch: programs, worker count, limit, seed, mode
    pc,        \* CTA |-> its next instruction
    waiting,   \* CTAs suspended at a barrier
    thread,    \* worker |-> not started, running or ended
    rr,        \* worker |-> round-robin cursor
    executed,  \* worker |-> its dynamic instructions
    fault,     \* worker |-> the fault that ended it, and the CTA it was in
    memory_events,  \* worker |-> its L1 issue events
    l2_log,    \* worker |-> its buffered L2 requests
    global,    \* the bytes of the global buffer
    global_mutex,   \* the worker that holds the mutex of the buffer, or Nobody
    access,    \* worker |-> the CTA and lane of its memory instruction
    returned,  \* CTA |-> the accesses of its atomics and the values they returned
    result     \* the merged result

control == <<launch, rr, waiting, result>>
memory  == <<global, global_mutex, access, returned>>

vars == <<control, memory, pc, thread, executed, fault, memory_events, l2_log>>

Worker == 0 .. launch.workers - 1

Init ==
    /\ launch \in Launches
    /\ pc = [c \in Cta |-> 1]
    /\ waiting = {}
    /\ thread = [w \in Worker |-> "new"]
    /\ rr = [w \in Worker |-> 0]
    /\ executed = [w \in Worker |-> 0]
    /\ fault = [w \in Worker |-> NoFault]
    /\ memory_events = [w \in Worker |-> <<>>]
    /\ l2_log = [w \in Worker |-> <<>>]
    /\ global = launch.global
    /\ global_mutex = Nobody
    /\ access = [w \in Worker |-> NoAccess]
    /\ returned = [c \in Cta |-> <<>>]
    /\ result = NoResult

-----------------------------------------------------------------------------
(* A worker.                                                               *)

Owned(w) == {c \in Cta : c % launch.workers = w}

Finished(c) == pc[c] > Len(launch.prog[c])

\* The CTAs of the worker that can go on, in the order of their numbers, and the
\* one the cursor is at.
Groups(w) == {c \in Owned(w) : ~Finished(c) /\ c \notin waiting}

Picked(w, c) ==
    /\ c \in Groups(w)
    /\ Cardinality({d \in Groups(w) : d < c}) = rr[w] % Cardinality(Groups(w))

Ends(w, kind, c) ==
    /\ thread' = [thread EXCEPT ![w] = "ended"]
    /\ fault' = [fault EXCEPT ![w] = [kind |-> kind, cta |-> c]]

Untouched == UNCHANGED <<launch, memory, pc, waiting, thread, rr, executed, fault,
                         memory_events, l2_log>>

\* At the head of the run loop.
Looping(w) == thread[w] = "running" /\ access[w] = NoAccess

\* Fast mode needs control of the rounding mode of the host, first in the calling
\* thread and then in each worker thread; the host may refuse it.
Refused ==
    /\ launch.fast /\ result = NoResult
    /\ \A w \in Worker : thread[w] = "new"
    /\ result' = [fault |-> [kind |-> "internal", cta |-> 0], dynamic |-> 0,
                  ctas |-> <<>>, events |-> <<>>]
    /\ Untouched

StartWorker(w) ==
    /\ thread[w] = "new" /\ result = NoResult
    /\ \/ thread' = [thread EXCEPT ![w] = "running"] /\ UNCHANGED fault
       \/ launch.fast /\ launch.workers > 1 /\ Ends(w, "internal", 0)
    /\ UNCHANGED <<control, memory, pc, executed, memory_events, l2_log>>

\* Mutant: the limit is compared although nothing is left to run.
LimitReached_first(w) ==
    /\ Looping(w)
    /\ executed[w] >= launch.limit
    /\ Ends(w, "limit", 0)
    /\ UNCHANGED <<control, memory, pc, executed, memory_events, l2_log>>

LimitReached(w) ==
    /\ Looping(w)
    /\ executed[w] >= launch.limit
    /\ \E c \in Cta : Picked(w, c) /\ Ends(w, "limit", c)
    /\ UNCHANGED <<control, memory, pc, executed, memory_events, l2_log>>

\* record_memory_event: the worker's issue counter starts at 0.
IssueEvent(w, c) ==
    [kind |-> "issue", id |-> Len(memory_events[w]), parent |-> 0, cta |-> c,
     ordinal |-> 0, sector |-> 0, request |-> 0]

\* Mutant: the instruction is not counted.
Retire_uncounted(w) == UNCHANGED <<executed, thread, fault>>

Retire(w) ==
    /\ executed' = [executed EXCEPT ![w] = @ + 1]
    /\ UNCHANGED <<thread, fault>>

\* execute_group on the group next_group picks; a memory instruction starts
\* with its first lane.
Execute(w) ==
    /\ Looping(w)
    /\ executed[w] < launch.limit
    /\ \E c \in Cta :
         LET i == launch.prog[c][pc[c]] IN
         /\ Picked(w, c)
         /\ \/ /\ i.op = "alu"
              /\ pc' = [pc EXCEPT ![c] = @ + 1]
              /\ Retire(w)
              /\ UNCHANGED <<waiting, access>>
           \/ /\ i.op \in MemoryOps
              /\ access' = [access EXCEPT ![w] = [cta |-> c, lane |-> 1, cur |-> NoValue]]
              /\ UNCHANGED <<pc, waiting, executed, thread, fault>>
           \/ /\ i.op = "trap"
              /\ Ends(w, "trap", c)
              /\ UNCHANGED <<pc, waiting, executed, access>>
           \/ /\ i.op = "wait"
              /\ waiting' = waiting \cup {c}
              /\ Retire(w)
              /\ UNCHANGED <<pc, access>>
           \/ /\ i.op = "loop"
              /\ pc' = [pc EXCEPT ![c] = 1]
              /\ Retire(w)
              /\ UNCHANGED <<waiting, access>>
    /\ rr' = [rr EXCEPT ![w] = ((@ % Cardinality(Groups(w))) + 1) % Cardinality(Groups(w))]
    /\ UNCHANGED <<launch, result, global, global_mutex, returned, memory_events, l2_log>>

\* No group is left: all CTAs are done, or some wait for ever.
EndWorker(w) ==
    /\ Looping(w)
    /\ Groups(w) = {}
    /\ IF Owned(w) \cap waiting = {}
         THEN thread' = [thread EXCEPT ![w] = "ended"] /\ UNCHANGED fault
         ELSE Ends(w, "deadlock", Min(Owned(w) \cap waiting))
    /\ UNCHANGED <<control, memory, pc, executed, memory_events, l2_log>>

-----------------------------------------------------------------------------
(* The lanes of a memory instruction.                                      *)

Current(w) == launch.prog[access[w].cta][pc[access[w].cta]]
LaneOf(w) == Current(w).lanes[access[w].lane]

At(w, op) == thread[w] = "running" /\ access[w] # NoAccess /\ Current(w).op = op

\* The address of a lane: register plus displacement.
Effective(l) == checked_add(l.addr, l.off)

\* record_l2_access: the request gets the next ordinal of its CTA.  op and lane
\* are history.
Descriptor(w) ==
    LET c == access[w].cta
    IN  [cta |-> c, sm |-> c % NumSms, addr |-> Effective(LaneOf(w)),
         len |-> Current(w).len, op |-> Current(w), lane |-> LaneOf(w),
         ordinal |-> Cardinality({k \in DOMAIN l2_log[w] : l2_log[w][k].cta = c})]

Record(w) == l2_log' = [l2_log EXCEPT ![w] = Append(@, Descriptor(w))]

\* After the last lane the issue event is recorded and the instruction retires.
NextLane(w) ==
    LET c == access[w].cta
    IN  IF access[w].lane < Len(Current(w).lanes)
          THEN /\ access' = [access EXCEPT ![w] = [cta |-> c, lane |-> @.lane + 1, cur |-> NoValue]]
               /\ UNCHANGED <<pc, memory_events, executed, thread, fault>>
          ELSE /\ access' = [access EXCEPT ![w] = NoAccess]
               /\ pc' = [pc EXCEPT ![c] = @ + 1]
               /\ memory_events' = [memory_events EXCEPT ![w] = Append(@, IssueEvent(w, c))]
               /\ Retire(w)

\* The lanes before this one keep their effects.
LaneFaults(w) ==
    /\ Ends(w, "memory", access[w].cta)
    /\ access' = [access EXCEPT ![w] = NoAccess]
    /\ UNCHANGED <<pc, memory_events, executed>>

AddressOverflows(w) ==
    /\ \E op \in MemoryOps : At(w, op)
    /\ access[w].cur = NoValue
    /\ Effective(LaneOf(w)) = Overflow
    /\ LaneFaults(w)
    /\ UNCHANGED <<control, global, global_mutex, returned, l2_log>>

\* Mutant: the mutex is not waited for.
Unlocked_always == TRUE

Unlocked == global_mutex = Nobody

\* A load is recorded before it is known to be good.
LoadLane(w) ==
    /\ At(w, "load")
    /\ Effective(LaneOf(w)) # Overflow
    /\ Unlocked
    /\ Record(w)
    /\ IF CanLoadStore(global, Effective(LaneOf(w)), Current(w).len)
         THEN NextLane(w) ELSE LaneFaults(w)
    /\ UNCHANGED <<control, global, global_mutex, returned>>

\* Mutant: a store is recorded like a load.
StoreLane_early(w) ==
    LET e == Effective(LaneOf(w)) IN
    /\ At(w, "store") /\ e # Overflow /\ Unlocked
    /\ Record(w)
    /\ IF CanLoadStore(global, e, Current(w).len)
         THEN /\ global' = Put(global, e, Current(w).len, LaneOf(w).data)
              /\ NextLane(w)
         ELSE LaneFaults(w) /\ UNCHANGED global
    /\ UNCHANGED <<control, global_mutex, returned>>

StoreLane(w) ==
    /\ At(w, "store")
    /\ Effective(LaneOf(w)) # Overflow
    /\ Unlocked
    /\ IF CanLoadStore(global, Effective(LaneOf(w)), Current(w).len)
         THEN /\ global' = Put(global, Effective(LaneOf(w)), Current(w).len, LaneOf(w).data)
              /\ Record(w)
              /\ NextLane(w)
         ELSE LaneFaults(w) /\ UNCHANGED <<global, l2_log>>
    /\ UNCHANGED <<control, global_mutex, returned>>

\* atom_global: the mutex is taken and the old value read.
AtomicReads(w) ==
    /\ At(w, "atomic")
    /\ access[w].cur = NoValue
    /\ Effective(LaneOf(w)) # Overflow
    /\ Unlocked
    /\ IF CanAtomic(global, Effective(LaneOf(w)), Current(w).len, Current(w).rmw)
         THEN /\ global_mutex' = w
              /\ access' = [access EXCEPT
                   ![w] = [cta |-> @.cta, lane |-> @.lane,
                           cur |-> Value(global, Effective(LaneOf(w)), Current(w).len)]]
              /\ UNCHANGED <<pc, memory_events, executed, thread, fault>>
         ELSE LaneFaults(w) /\ UNCHANGED global_mutex
    /\ UNCHANGED <<control, global, returned, l2_log>>

\* The new value is written and the mutex released; then the access is recorded.
AtomicWrites(w) ==
    LET l == LaneOf(w)
        i == Current(w)
        e == Effective(l)
    IN  /\ At(w, "atomic")
        /\ access[w].cur # NoValue
        /\ global' = Put(global, e, i.len,
                         apply_atomic(i.rmw, i.len, access[w].cur, l.data, l.cmp))
        /\ global_mutex' = Nobody
        /\ returned' = [returned EXCEPT
             ![access[w].cta] = Append(@, [addr |-> e, old |-> access[w].cur])]
        /\ Record(w)
        /\ NextLane(w)
        /\ UNCHANGED control

-----------------------------------------------------------------------------
(* The merge.                                                              *)

\* Mutant: the streams of the workers and the engine keep their own numbers.
normalize_memory_event_ids_kept(events) == events

\* normalize_memory_event_ids: the events are numbered from 1; a parent is
\* replaced by the new number of the last event that had it as its number.
normalize_memory_event_ids(events) ==
    LET earlier(i) == {j \in 1..(i - 1) : events[j].id = events[i].parent}
    IN  [i \in DOMAIN events |->
           [events[i] EXCEPT
              !.id = i,
              !.parent = IF earlier(i) = {} THEN @ ELSE Max(earlier(i))]]

\* The descriptors that workers have buffered.
LogOf(W) == UNION {Range(l2_log[w]) : w \in W}

\* The events of the engine after the requests of a log and one drain.
L2Streams(log) ==
    LET requests == issue_global(log)
    IN  {L2Event("request", 0, InTurn(requests)) \o drain_completions(Cardinality(requests), s) :
           s \in Schedules(requests, launch.seed)}

\* The issue events of all workers, worker by worker.
AllIssued == FlattenSeq([n \in 1..launch.workers |-> memory_events[n - 1]])

Faulted == {w \in Worker : fault[w] # NoFault}

\* No fault of the interpreter carries its CTA, so each compares as CTA 0 and
\* the number of instructions its worker has executed decides, then the order
\* of the workers.
Winner ==
    CHOOSE w \in Faulted : \A v \in Faulted :
        executed[w] < executed[v] \/ (executed[w] = executed[v] /\ w <= v)

CtasOf(S) ==
    LET ctas == UNION {Owned(w) : w \in S}
    IN  InOrder(ctas, {p \in ctas \X ctas : p[1] < p[2]})

Joined == (\A w \in Worker : thread[w] = "ended") /\ result = NoResult

\* One worker: its own engine is drained on every way out.
RunResult ==
    /\ Joined
    /\ launch.workers = 1
    /\ \E l2 \in L2Streams(LogOf({0})) :
         result' = [fault   |-> fault[0],
                    dynamic |-> executed[0],
                    ctas    |-> CtasOf({0}),
                    events  |-> normalize_memory_event_ids(memory_events[0] \o l2)]
    /\ Untouched

\* Several workers and a fault: the result of one worker; the buffered
\* requests are dropped.
MergeFault ==
    /\ Joined
    /\ launch.workers > 1
    /\ Faulted # {}
    /\ result' = [fault   |-> fault[Winner],
                  dynamic |-> executed[Winner],
                  ctas    |-> IF fault[Winner].kind = "internal"
                                THEN <<>> ELSE CtasOf({Winner}),
                  events  |-> memory_events[Winner]]
    /\ Untouched

MergeClean ==
    /\ Joined
    /\ launch.workers > 1
    /\ Faulted = {}
    /\ \E l2 \in L2Streams(LogOf(Worker)) :
         result' = [fault   |-> NoFault,
                    dynamic |-> Total(executed),
                    ctas    |-> CtasOf(Worker),
                    events  |-> normalize_memory_event_ids(AllIssued \o l2)]
    /\ Untouched

Done == result # NoResult /\ UNCHANGED vars

Step(w) ==
    \/ StartWorker(w) \/ LimitReached(w) \/ Execute(w) \/ EndWorker(w)
    \/ AddressOverflows(w) \/ LoadLane(w) \/ StoreLane(w)
    \/ AtomicReads(w) \/ AtomicWrites(w)

Next ==
    \/ \E w \in Worker : Step(w)
    \/ Refused \/ RunResult \/ MergeFault \/ MergeClean
    \/ Done

\* Every thread is scheduled by the host and gets the mutex in its turn, and the
\* caller joins them.
FairSpec ==
    /\ Init /\ [][Next]_vars
    /\ \A w \in 0..(MaxWorkers - 1) : WF_vars(w \in Worker /\ Step(w))
    /\ WF_vars(RunResult \/ MergeFault \/ MergeClean)

-----------------------------------------------------------------------------
(* Properties.                                                             *)

AllFinished == \A c \in Cta : Finished(c)

\* A launch is reported clean exactly when every CTA ran to its end: no fault of
\* a worker is lost in the merge, whichever worker met it, and a kernel of exactly
\* the limit's length is not faulted.  A clean result holds every CTA in order
\* and counts every instruction once, whatever the worker count.
CleanIffAllRan ==
    result # NoResult =>
      /\ result.fault = NoFault <=>
           AllFinished /\ \A w \in Worker : fault[w] = NoFault
      /\ AllFinished /\ ~launch.fast => result.fault = NoFault
      /\ result.fault = NoFault =>
           /\ result.ctas = [n \in 1..NumCtas |-> n - 1]
           /\ result.dynamic = Total([c \in Cta |-> Len(launch.prog[c])])

\* The places of accesses in the programs (CTA, instruction, lane), the accesses,
\* and their first bytes in plain integers.
Places ==
    UNION {UNION {{<<c, n, k>> : k \in DOMAIN launch.prog[c][n].lanes} :
                    n \in {n \in DOMAIN launch.prog[c] : launch.prog[c][n].op \in MemoryOps}} :
             c \in Cta}

AccessAt(p) == [op |-> launch.prog[p[1]][p[2]], lane |-> launch.prog[p[1]][p[2]].lanes[p[3]]]

Accesses == {AccessAt(p) : p \in Places}

First(a) == a.lane.addr + a.lane.off

\* The place p of an access comes before q in the same CTA; the number of places
\* before p.
InCta(p, q) == p[1] = q[1] /\ (p[2] < q[2] \/ (p[2] = q[2] /\ p[3] < q[3]))
Ordinal(p) == Cardinality({q \in Places : InCta(q, p)})

\* The CTA, the ordinal and a sector of an access.
KeysOf(p) ==
    {p[1]} \X {Ordinal(p)} \X Sectors(First(AccessAt(p)), AccessAt(p).op.len)

KeyBefore(k, l) ==
    k[1] < l[1] \/ (k[1] = l[1] /\ (k[2] < l[2] \/ (k[2] = l[2] /\ k[3] < l[3])))

\* "The L2 trace must be byte-for-byte deterministic and independent of host
\* thread scheduling" (run_result_parallel): the requests of a clean run are
\* those of the programs, CTA by CTA, whatever the interleaving of the workers
\* and their number.
L2TraceOrder ==
    result # NoResult /\ result.fault = NoFault =>
      LET ev       == result.events
          requests == {i \in DOMAIN ev : ev[i].kind = "request"}
          key(i)   == <<ev[i].cta, ev[i].ordinal, ev[i].sector>>
      IN  /\ {key(i) : i \in requests} = UNION {KeysOf(p) : p \in Places}
          /\ \A i, j \in requests : i < j => KeyBefore(key(i), key(j))

\* "Event ids are always globally unique" (normalize_memory_event_ids): in every
\* result the events have different numbers, whatever workers and engine they come
\* from, and so do the requests.  The parent of a request is an issue event before
\* it, or none if the launch faulted before it had one.  In every schedule a request
\* completes once, later, with the same parent: what the profiler relies on when it
\* joins the two.
RequestsComplete ==
    result # NoResult =>
      LET ev == result.events
          requests == {i \in DOMAIN ev : ev[i].kind = "request"}
          completions == {i \in DOMAIN ev : ev[i].kind = "completion"}
      IN  /\ \A i, j \in DOMAIN ev : ev[i].id = ev[j].id => i = j
          /\ \A i, j \in requests : ev[i].request = ev[j].request => i = j
          /\ \A i \in requests :
               /\ Cardinality({j \in completions : ev[j].request = ev[i].request}) = 1
               /\ \/ \E l \in DOMAIN ev :
                        l < i /\ ev[l].kind = "issue" /\ ev[l].id = ev[i].parent
                  \/ result.fault # NoFault /\ ev[i].parent = 0
          /\ \A j \in completions : \E i \in requests :
               /\ i < j /\ ev[i].request = ev[j].request
               /\ ev[i].parent = ev[j].parent /\ ev[i].sector = ev[j].sector

\* Every launch returns: an endless kernel runs into the limit of its worker,
\* and the other workers end on their own.
EveryRunEnds == <>(result # NoResult)

\* The bytes of an access in plain integers lie in the buffer, aligned, and the
\* operation exists for their number.
Inside(a) ==
    /\ First(a) >= 0 /\ First(a) + a.op.len <= Len(launch.global)
    /\ First(a) % a.op.len = 0
    /\ a.op.op = "atomic" =>
         a.op.len \in AtomicWidths /\ (a.op.rmw \in {"inc", "dec"} => a.op.len = IncWidth)

\* A launch with a buffer ends clean only if every access of its programs lies in
\* the buffer, and faults on memory only if one does not: no wrapped, negative or
\* misaligned address gets through the checks of a load, a store or an atomic
\* (checked_add, ldg, stg, atom_global).
WildAccessFaults ==
    result # NoResult /\ launch.global # <<>> =>
      /\ result.fault = NoFault => \A a \in Accesses : Inside(a)
      /\ \A w \in Faulted : fault[w].kind = "memory" => \E a \in Accesses : ~Inside(a)

\* The bytes g after a recorded access, and after those of a log in its order.
After(g, d) ==
    CASE d.op.op = "load"   -> g
      [] d.op.op = "store"  -> Put(g, d.addr, d.len, d.lane.data)
      [] d.op.op = "atomic" ->
           Put(g, d.addr, d.len, apply_atomic(d.op.rmw, d.len, Value(g, d.addr, d.len),
                                              d.lane.data, d.lane.cmp))

Replayed(log) ==
    LET bytes[n \in 0..Len(log)] ==
          IF n = 0 THEN launch.global ELSE After(bytes[n - 1], log[n])
    IN  bytes[Len(log)]

\* "the race detector and L2 trace represent COMMITTED memory accesses"
\* (mem_ldst_atom_core): on one worker, at any moment and also after a fault in
\* the middle of an instruction, the buffer holds what the recorded stores and
\* atomics say, no more and no less.
TraceMatchesMemory == launch.workers = 1 => global = Replayed(l2_log[0])

\* The atomics at an address, and the values they can leave there in some order.
AtomicsAt(addr) ==
    {p \in Places : AccessAt(p).op.op = "atomic" /\ First(AccessAt(p)) = addr}

\* Nothing else writes the bytes of these atomics.
Undisturbed(addr, i) ==
    \A a \in Accesses :
      a.op.op # "load" /\ First(a) < addr + i.len /\ addr < First(a) + a.op.len =>
        a.op.op = "atomic" /\ a.op.rmw = i.rmw /\ a.op.len = i.len /\ First(a) = addr

\* v is the value before n atomics with these operands; bounds and comparands are
\* the same for all.
Outcomes(op, words, v, data, cmp, n) ==
    LET sum == MapThenSumSet(LAMBDA a : data[a], DOMAIN data)
        all == {data[a] : a \in DOMAIN data}
        top == CHOOSE b \in all : TRUE
        signed == {Signed(b, words) : b \in all \cup {v}}
        bits == {Bits(b, words) : b \in all \cup {v}}
        odd(k) == Cardinality({a \in DOMAIN data : k \in Bits(data[a], words)}) % 2 = 1
    IN  CASE op = "add"  -> {(v + sum) % words}
          [] op = "max"  -> {Max(all \cup {v})}
          [] op = "min"  -> {Min(all \cup {v})}
          [] op = "smax" -> {Max(signed) % words}
          [] op = "smin" -> {Min(signed) % words}
          [] op = "and"  -> {Number({k \in UNION bits : \A b \in bits : k \in b})}
          [] op = "or"   -> {Number(UNION bits)}
          [] op = "xor"  -> {Number({k \in UNION bits : odd(k) # (k \in Bits(v, words))})}
          [] op = "exch" -> all
          [] op = "cas"  -> IF v = cmp THEN all ELSE {v}
          [] op = "inc"  -> {(v + n) % (top + 1)}
          [] op = "dec"  -> {(v - n) % (top + 1)}

\* "Race-free workloads must produce byte-identical results for any worker count"
\* (run_result_parallel): what the atomics of all CTAs leave at a place does not
\* depend on the order in which workers get there, and no update is lost.
AtomicsAddUp ==
    result # NoResult /\ result.fault = NoFault =>
      \A addr \in 0..(Len(global) - 1) :
        LET at   == AtomicsAt(addr)
            data == [p \in at |-> AccessAt(p).lane.data]
        IN  \A p \in at :
              LET i == AccessAt(p).op
              IN  Undisturbed(addr, i) =>
                    Value(global, addr, i.len) \in
                        Outcomes(i.rmw, ByteBase^i.len, Value(launch.global, addr, i.len),
                                 data, AccessAt(p).lane.cmp, Cardinality(at))

\* Counters: an atomic addition of 1 returns a number no other lane gets, in any
\* CTA and on any worker, also when other lanes fault (atom_global).
TicketsUnique ==
    LET counters == {addr \in 0..(Len(global) - 1) : \A a \in Accesses :
                       First(a) = addr =>
                         a.op.op = "atomic" /\ a.op.rmw = "add" /\ a.lane.data = 1}
        drawn    == UNION {{c} \X DOMAIN returned[c] : c \in Cta}
        ticket(p) == returned[p[1]][p[2]]
    IN  \A p, q \in drawn :
          ticket(p).addr \in counters /\ ticket(p) = ticket(q) => p = q

\* "the worker with the smallest (cta_id, dynamic-instruction) fault wins"
\* (run_result_parallel).
SmallestCtaWins ==
    result # NoResult /\ result.fault # NoFault =>
      \A w \in Faulted : result.fault.cta <= fault[w].cta

=============================================================================
