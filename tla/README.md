# A TLA+ verification project for semu

`semu` (under `src/semu`) is a functional emulator for NVIDIA SASS kernels of
the sm_120 family: it loads a cubin, decodes its 128-bit instructions and
executes a launch warp by warp, with optional race detection, cache-event
traces, a debugger and a profiler. This directory holds TLA+ models of the
parts of it whose correctness depends on the order of steps, the TLC runs that
check them, and the TLAPS proofs of the properties that matter most.

Contents: 1 inventory, 2 plan, 3 modules and their correspondence to the code,
4 runs, 5 bounds, 6 fairness, 7 proofs, 8 what is only model-checked,
9 disagreements found, 10 what is not modelled.

Paths below are relative to `src/semu` unless they start with `src/`;
`sm120/` is `src/interpreter/baseline/sm120/`.

## 1. Inventory

| part | state | operations | correct when |
|---|---|---|---|
| SIMT execution core (`sm120/core.cpp`, `control_flow.cpp`) | per lane pc, active, exited; per warp the stack of sync entries, the barrier it waits at, done; per CTA the arrival lists of named barriers; cursor, instruction count | one loop turn: scan, pick a pc-group, execute BRA/BRX/JMP/JMX, BSSY, BSYNC, EXIT, BAR or a data instruction; classify the end | no lane is lost, lanes reconverge, barriers release exactly their CTA, a stuck launch is never reported done, every runnable warp gets its turn |
| mbarrier (`tensor/mbarrier`) | expected, pending, bytes, phase, poison flags; its 64-bit word | arrive with arrivals and bytes, phase check, invalidate, encode, seed | a phase completes exactly when arrivals and bytes are drained; a waiter with one parity bit never passes early or misses a phase |
| asynchronous state of a CTA (`sm120/memory.cpp`, `tma.cpp`, `control_flow.cpp`) | barrier words, cached logical barriers, open group, group list, scoreboard counts | SYNCS (all forms), ARRIVES, LDGSTS, LDGDEPBAR, UTMACMDFLUSH, DEPBAR, UTMALDG, plain stores | the logical barrier and its word agree; group counts are backed by groups and retire in commit order |
| parallel workers (`core.cpp`, `run_result_parallel`) | a worker per host thread, its CTAs, its logs | run, join, merge, replay, choose a fault | the result does not depend on host scheduling |
| race detector (`memory/race_detector.cpp`, `core/hb_clock.cpp`) | vector clocks, last accesses, release clocks | observe access, barrier, atomic, fence | reports exactly the pairs without a happens-before path |
| context and launch (`context/`) | modules, banks, launch generation, shared views | load, launch, translate, validate, read/write/atomic | a stale or foreign address is refused |
| allocator and memory service (`memory/memory.cpp`, `memory_service.cpp`) | allocations with generations, windows | allocate, free, load, store, atomic, register, drain | no overlap, no access through a freed handle |
| L2 events, L1TEX, bank and global models (`memory/`) | event numbering; otherwise none | issue, complete, drain; count sectors and conflicts | every request completes once and keeps its parent; the trace does not depend on the workers |
| cluster topology (`exec/cluster.cpp`) | dimensions | rank, cluster id, CTA of a rank | the directions agree, with and without clusters |
| debugger session (`exec/debugger.cpp`) | breakpoints, focus, limit | step, continue, read and write state | runs past no breakpoint, never reports a blocked focus as the end, every continue returns |
| profiler, command line, loader, decoder, arithmetic handlers, generated tables | - | pure computation, parsing, printing | covered by the repository's golden tests |
| assembler (`src/assembler`), hardware debugger (`src/sassdbg`), launch probe (`src/launchprobe`) | - | separate tools | - |

How they interact. The context prepares memory and parameters and starts an
interpreter, alone or one per host thread. An interpreter owns a subset of the
CTAs and runs them in one loop (`run_owned`); instruction handlers change the
warp and CTA state in place, so one turn of the loop is atomic with respect to
everything else the interpreter owns. Workers share the memory service; race
and L2 events are logged per worker and replayed after the join. The debugger
drives the same loop one turn at a time with a filter on the schedule.

What is hard. Although one worker is sequential, the simulated warps and lanes
interleave in every way the kernel's control flow allows: divergent lanes of a
warp meet barriers separately, exit in the middle of a region, or share a
convergence register; arrivals and copies of several rounds meet on one
mbarrier; bookkeeping is kept in caches and lists beside the memory it
describes. The list of hazards, each at its line and with the properties that
would catch it, is in `PROJECT.json`.

## 2. Plan

The order was: what one worker does (`SimtExec`, `MbarrierPhases`, `CtaAsync`),
what several do together (`RaceDetector`, `RaceReplay`, `ParallelRun`), and the
layers around them (`Allocator`, `LaunchContext`, `DebugSession`). These are
built. How the modules are composed:

- `DebugSession` extends `SimtExec`: the debugger drives the interpreter.
- `ParallelRun` extends `L2Events` and `MemoryService`: workers share one buffer
  and feed one event engine.
- `LaunchContext` extends `Allocator` and `ClusterTopology`.
- `RaceHistory` calls the detector of `RaceDetector` as accesses happen,
  `RaceReplay` from a sorted log after they happened.
- `MbarrierPhases` and `CtaAsync` use the same operators, `MbarrierOps`;
  `PhaseBarrier` is the abstract specification of the former.

The proofs follow the same order: the scheduler, the mbarrier, the asynchronous
state of a CTA, the debugger, the launch, the race detector, the merge of the
workers, the replay of the race log.

Left: the values that atomics leave and return (`AtomicsAddUp`, `TicketsUnique`)
are sums over the bytes and lanes of a launch, which the prover cannot do
(section 8); constant banks and module loading in `LaunchContext`.

## 3. Modules

`SimtExec` is one interpreter running its CTAs. Variables name their fields:
`pc`, `active`, `exited` (ThreadState), `sync`, `waiting`, `done` (WarpState),
`arrived` (CtaState::barriers), `rr`, `executed` (Interpreter), `focus` (the
schedule filter, all warps unless a debugger sets it), `outcome` (how the run
ended) and `kernel` (constant during a run). A step is one turn of `run_owned`:
`NextGroup` picks the group at the cursor, and one of the actions `Skip` (nobody
passes the guard), `InvalidInstruction`, `Data`, `Bra`, `Bssy`, `Bsync`, `Exit`,
`Bar` or `LimitReached` executes it; when no group is left `Classify` is
`terminal_state` with the end of `run_owned`. Masks are sets of lanes; the sync
stack is a set of entries stamped with the instruction count of their BSSY,
which orders them; predicates and indirect targets are arbitrary. Each handler
is one action with everything it calls, `converge_completed_sync` included.
`SimtFair` adds a history variable that counts how often in a row a runnable
warp was passed over while the number of groups did not change.

`MbarrierOps` has the logical mbarrier as operators on its record: `Encode`,
`FromInitWord`, `Arrived`/`ArriveTraps` (mbarrier_arrive), `Phasechk`,
`Invalidate`. A word is the record of its bit fields; the widths are constants.
`PhaseBarrier` is the abstract promise: a phase number, who still owes a
contribution, and warps that pass a round only after its phase is over.
`MbarrierPhases` has warps use one mbarrier round after round as kernels do
(ARRIVE, ARRIVE with expected bytes, TMA copies in pieces, PHASECHK on a
parity), and implements `PhaseBarrier` with the number of completed phases as
its phase.

`CtaAsync` is the asynchronous state of one CTA under arbitrary instructions:
`word` and `entry` (the words in shared memory and `CtaState::mbarriers`),
`open`, `groups`, `count` (`async_open`, `async_groups`, `sb_group_count`) and
`fault`. `At` is `mbarrier_at` with its lazy seeding; there is an action per
instruction. Operands, comparison values and addresses are arbitrary, so every
misuse is included; addresses outside the shared window too.

`RaceDetector` has the calls of the detector on its state (`clocks`,
`release_clocks`, `shadow`, `generations`, `reports`): an access ticks the clock
of its lane, is compared with the writer and the readers of every shadow
interval it overlaps, and splits the intervals. `RaceHistory` makes the calls in
the order of execution, keeps them in `hist`, and defines happens-before over
`hist` with no clocks at all, as the transitive closure of what comes directly
before what (a call is in every set of calls that is closed under it); the
properties compare the two. Instructions are numbered per CTA, as its
interpreter counts them, and the lanes of one instruction make their accesses
one after the other. `RaceReplay` is how the interpreter really calls the
detector: events are logged while CTAs run, and when the workers are joined each
step replays the event that comes first, by CTA and ordinal, of those that
remain. `replayed` keeps their positions in `hist`.

`MemoryService` has the checks and effects of loads, stores and atomics on the
global buffer as operators, with addresses, bytes and sums in words of a fixed
width. `Ordered` puts a finite set into the order of a relation, as a sort does.
`L2Events` is the event engine: the buffered requests as a set that is sorted,
requests per sector, completions in order or in a seeded order. `ParallelRun` is
a launch on worker threads: which CTAs a worker owns, its loop with limit and
faults, memory instructions lane by lane under the mutex (an atomic is two
steps, `AtomicReads` and `AtomicWrites`, so that the mutex matters), the logs,
and the merge into a result or a fault. A CTA is one warp there; its inside is
`SimtExec`.

`Allocator` and `ClusterTopology` are operators on the allocator's record and
the topology. `LaunchContext` has host threads that create a Context (loading
the nonce source and exchanging it are two steps), allocate and free, launch
(from validation, window by window, to the backend and the guard that frees the
windows on every way out) and destroy it; while a backend runs it translates
shared addresses, keeps them, and uses kept ones, in any launch and any Context.

`DebugSession` drives `SimtExec` group by group. `Drive` is `drive_group`: the
limit, the filter, the veto before a group executes (breakpoints, instructions
that only decode), the step over a breakpoint that was stopped at, watchpoints
after it, and a focus that leaves nothing to run. Commands between the calls add
and remove breakpoints, change focus and limit, and move a pc. `told` and
`retold` are history.

The `MC` modules give the constants; the `*Proofs` modules the theorems.

## 4. Runs

| run | instance | shows |
|---|---|---|
| `simt` | 2 warps of 3 lanes (5 threads), 10 kernels, every predicate | lanes that sleep are owed a wake-up; sync entries and arrival lists are exact; done means exited; nobody is woken early; the cursor is round robin while the number of groups does not change |
| `simt_ctas` | 2 CTAs of 2 warps of 2 lanes, fair loop | a barrier releases its own CTA only, all of it; every launch ends |
| `mbarrier_phases` | 4 warps, 4 bytes, 4 rounds | no trap, no early pass, every round passes, refinement of `PhaseBarrier` |
| `cta_async` | a barrier in the window and an address outside, counts 0..2, 3 groups on 2 scoreboards | no missed completion, fresh phases, word and state agree, counts backed |
| `race_history` | 4 lanes in 3 warps and 2 CTAs, 4 calls, four uses of the detector | no false alarm, no missed race, the shadow remembers exactly what it should, epochs are never reused and a clock knows only what happens before |
| `race_replay` | the same lanes, flags within and between CTAs | the replayed log gives the same answers where flags follow the order of the log |
| `parallel` | 3 CTAs on 1 to 3 workers, 987 launches | no fault lost, a trace that does not depend on interleaving or worker count, events have distinct numbers, requests complete and name an issue event, wild addresses fault, memory is what the trace says, atomics neither lose an update nor return a number twice, every launch returns |
| `parallel_faults` | 3 workers, CTAs that trap | violation: section 9 |
| `launch` | 2 host threads, 32 addresses, kernels with and without clusters | disjoint and permanent allocations, windows that live exactly as long as their launch, a translation works only in its launch and stays inside its window, both cluster directions agree, events until the stop |
| `launch_local` | 1 host thread, a grid of 2 CTAs without clusters | violation: section 9 |
| `debug` | 2 warps, 3 threads, 2 kernels, 3 commands | the session ends only for the reason it gives, runs past no breakpoint, every continue returns |
| `debug_step_over` | the same | violation: section 9 |

Every property of a passing run has a mutant in `PROJECT.json`: a plausible
slip in a definition that models code, under which TLC finds the property
violated. The mutated definitions stand before the ones they replace.

## 5. Bounds

- `SimtExec`: two lanes diverge, a third makes "some but not all" exits and
  arrivals possible; two warps meet at a barrier, a warp can be missing; two
  CTAs show interference. A thread count that is no multiple of the warp size
  gives a partial warp. The kernels cover divergence, nesting, a convergence
  register shared by two regions, barriers in branches and loops, indirect and
  bad targets, an undecodable word and regions left in crossed order. `Limit`
  (26, and 16 with two CTAs) cuts a run where the code does, at its instruction
  limit.
- `MbarrierPhases`: four rounds are twice the period of the parity; four bytes
  are copied in every way of splitting them. The field widths are larger than
  the values.
- `CtaAsync`: `CountMod` 3 and `TxMod` 2 with up to 2 outstanding bytes let the
  fields wrap; `MaxTx` 2, `MaxGroups` 3 and `MaxOpen` 2 bound what the code does
  not. A kernel stores words that are fresh and words that are not. Three groups
  on two scoreboards and without one let the scoreboards compete for the list.
- `RaceHistory`, `RaceReplay`: `events` 4 is the length of the shortest
  handover (access, release, acquire, access) and of an access that overlaps
  three earlier ones. A warp of two lanes and a warp of one are in one CTA, a
  third warp in another: lanes of one warp, warps of one CTA and two CTAs meet.
  The two lanes of the warp are interchangeable (`SYMMETRY`): nothing tells
  them apart but their warp. The uses are separate (flags, acq_rel flags,
  ranges that overlap in part, calls that reclaim and launch) because their
  product would not finish. In the replay flags release and acquire between the
  CTAs in both directions, so both conditions of `ReplayExact` hold in some
  executions and fail in others; where they fail the run reaches the false and
  the missing reports of section 9. In the run of `RaceHistory` calls that
  reclaim an allocation appear, which `OffsetsTell` excludes: a race would be
  missed only after five calls, so four do not show it.
- `ParallelRun`: three CTAs on two workers give a worker two CTAs to interleave,
  on three the merge has three logs. Bytes have two bits (`ByteBase` 4),
  addresses four (`AddrWords` 16), and the buffer six bytes from `GlobalBase` 4,
  so that addresses and displacements wrap on both sides. Sectors have two
  bytes: accesses of two lanes fall in one or in two.
- `LaunchContext`: `WordBits` 5 with windows of 2 and 3 bytes lets the second
  launch run out of addresses; `NonceMax` 3, `GenerationMax` 2 and `DomainMax` 7
  stand for the largest 64-bit numbers and are all reached. `MaxTranslations` 1
  and `MaxCommits` 2 bound what a backend keeps and does; a single kept
  translation meets every later launch and Context. The two threads are
  symmetric: nothing compares them.
- `DebugSession`: three commands are enough to set a breakpoint, focus and
  change the limit; session limits 3 and 7 under the interpreter's `Limit` 7.

Deadlock is checked in `simt`, `simt_ctas`, `mbarrier_phases`, `parallel` and
`debug`, where a run models a whole execution and its end is an explicit
stuttering step or the caller may always go on. `CtaAsync` stops for good at a
fault, `RaceHistory` and `RaceReplay` at their last call, and in `LaunchContext`
the nonces run out: these runs do not check it.

## 6. Fairness

The run loop is a loop on one host thread that does nothing but take the next
turn: `SimtExec` assumes weak fairness of `Next` as a whole and nothing about
single warps, because the scheduler does not guarantee it (section 9).
`MbarrierPhases` assumes weak fairness of each warp: its warps have uniform
control flow, each is one pc-group for the whole run, the number of groups does
not change while all of them poll or work, and for that case `SteadyRoundRobin`
shows the cursor to be round robin. `ParallelRun` assumes weak fairness of each
worker and of the merge: workers are host threads that block only on the mutex,
which is held for one access, and the merge follows the joins. `DebugSession`
assumes it of `continue_run` alone, a loop on the caller's thread; a caller need
never call again. Nothing else assumes fairness.

## 7. Proofs

All proofs are for every value of the constants that satisfies the named
assumptions (`ConstantsAssumption`, `KernelsAssumption`, `FieldsAssumption`,
`PhasesAssumption`, `AsyncAssumption`, `SessionAssumption`,
`AllocatorAssumption`, `LaunchAssumption`, `RaceAssumption`,
`BarrierAssumption`, `MemoryAssumption`, `SectorAssumption`,
`ParallelAssumption`): any number of CTAs, warps, lanes and barriers, any
kernels, field widths, operands, address widths, threads, workers, breakpoints
and commands, grids and clusters, histories of any length. `LaunchAssumption`
asks of the launches what the code checks or fixes: dimensions that are
positive, a rank unit of the shared space that is a power of two and a multiple
of the window alignment, and the facts about powers of two that the masks use.

`SimtExecProofs`. `IInv` is the conjunction of `TypeOK`, `SleepersAccounted`,
`SyncEntriesExact`, `BarrierArrivalsExact` and `CleanCompletion`. None of them
is inductive alone: that a release loses no lane needs the arrival list to be
exactly the suspended warps; that a lane asleep in an entry is woken needs the
entry's masks to be exact; that a warp may be marked done needs every inactive
lane to be accounted for. There is a lemma per action; `WarpStep` and
`ConvergedWarpStep` carry the part common to the handlers that touch one warp.
`Invariance` yields `TypeCorrect`, `NoLaneLost`, `SyncStackExact`,
`ArrivalsExact` and `DoneMeansExited`; the action property `ReleaseTogether`
follows from the invariant before the step. `WakeUpsAreDue` is the other action
property, that nobody is woken early. It needs to tell the entries of a stack
apart, hence `StampInv`: no two entries of a warp carry the same stamp, and all
stamps are below the instruction count. `converge_completed_sync` runs in a
loop, modelled as the removal of all completed entries; `ConvergeWakes` says
whom that wakes.

`RoundRobin`, at the end of `SimtExecProofs`, is about `SimtFair`: the cursor
arithmetic of `next_group`. The inductive invariant `TurnInv` bounds the number
of times a runnable warp was passed over by `Dist`, how far the cursor has moved
on since the end of the warp's block of groups, modulo the number of groups.
`RankOutside` says that the groups of a warp are consecutive, so the group at
the cursor is before or behind the block; `BlockCounts` that a step of other
warps leaves the block where it was as long as the number of groups stays the
same, even if a barrier release replaces groups of several warps. So each turn
of somebody else adds one to both sides, and a distance is below the number of
groups.

`MbarrierPhasesProofs`. The invariant says that the pending count is the number
of warps that still have to arrive in the phase, the bytes are those left to
copy, the phase bit is the parity of the completed phases, and no warp is more
than one round behind. The last part is what makes one parity bit enough. From
it: `ProtocolNeverTraps`, `PassTogether`, and `Refinement`, which maps every
step to a contribution, a pass or a stutter of `PhaseBarrier`.

`CtaAsyncProofs`. `BarrierInv` adds the types of words and entries to the
soundness of every entry; `GroupInv` is needed because ARRIVES feeds a group's
bytes to a barrier. `ArrivedSound` is the core: whatever a single
mbarrier_arrive is given, its result is completed, waiting for something, or
unusable. `NoCompletionMissed` is the resulting theorem. `WordsMirrorStates`
rests on `MirrorInv`, which also says of a barrier without an entry that its
word is fresh, so that the entry seeded by `mbarrier_at` is mirrored at once.
`PhasesStartFresh` is the action property. `CountsStayBacked` counts the pairs
of a scoreboard and a number up to its count (`Counted`, `CountInv`): a DEPBAR
removes as many pairs as it pops groups.

`DebugSessionProofs`. `SIInv` is the interpreter's `IInv`, the types of the
session's state, the fact that the group being stepped over was stopped at
(`SuspendTold`), and `EndIsReal`. The lemmas of `SimtExecProofs` are reused: a
schedule filter, a veto and a moved pc do not disturb `IInv`. `EndsAreReal` and
`DebuggedCompletionIsClean` follow; `NoBreakpointPassed` is the action property,
and needs `SuspendTold`: a group is passed without a stop only because it is the
one stepped over.

`LaunchContextProofs`. `CInv` has three parts. `ContextsGood`: allocations lie
in order below the cursor, the generation equals the number of launches, and the
accesses of the running launch are its own. `NonceNamesContext`: all nonces in
use, in Contexts and in kept translations, are below the source, and equal
nonces mean the same Context, dead or alive. `Shape`: what the records are. The
second part is what a translation's nonce, generation and serial number need to
agree. From it: `AllocationsNeverOverlap`, `AllocationsStay` and
`TranslationsStayInLaunch`. `WInv` follows a launch through its stages: the
windows registered so far are those of the first CTAs in order, aligned and
disjoint, and the guard knows them all (`WindowsAreOfLaunch`,
`EventsStopAtSink`). `TInv` says of a kept translation of the running launch
that it is what `translate_shared` still returns. With the geometry of windows
it gives `TranslationsInsideTarget`, with the topology
`ClusterTranslationsValidate`.

The topology is proved there too, for every grid and every cluster shape that
divides it: `ClusterIsTile` (the cluster of a CTA is a box of the grid),
`CtaOfRank` and `RankOfCta` (the two directions are inverse). The lemmas are
about quotients and remainders, which the prover gets only in small steps.

`RaceHistoryProofs`. `EInv` says that no clock is ahead of its lane and that
clocks are closed: whoever knows an epoch knows the whole clock that went with
it. `RInv` says byte by byte what the interval map remembers; `SplitAt` and
`SplitDisjoint` are the core, that the pieces an access cuts are disjoint and
each byte lands in the right one. `LInv` connects clocks to the history: a lane
knows an access, or a release record does, only when the access happens before a
call of the lane, or before the release. It needs `OrderGrows`, that a new call
takes nothing from the order of the earlier ones. `ShadowIsExact` and
`EpochsAreExact` follow, and from all of them with `UInv` (no access occurs
twice) `NoRaceDismissed`: the detector takes a conflicting access for ordered
only when it is, and otherwise reports it on every byte. The two are compared
with the last accesses of the byte as the history defines them, not as the
detector stores them.

Two more theorems compare the reports with the order of the calls, for warps of
any number of lanes. `LaneOrdered` is happens-before with program order of a
lane instead of a warp, which is what clocks can follow, and `WarpOrdered` the
program order of a warp, which the detector decides by instruction numbers.
`KInv` is the converse of `LInv`: what comes before a call of a lane in the
order of lanes, the clock of the lane knows. It holds if scopes compose
(`ScopesCompose`: a release acquired by an acq_rel operation reaches whoever
acquires from that operation), because an atomic publishes its clock before it
acquires. `BInv` says that the accesses of an instruction follow each other, so
that comparing instruction numbers within a warp is comparing positions;
`AInv`, that the two accesses of a report are unordered. `NoFalseAlarms` is the
result: no report names two accesses in one of the two orders. The order that
the detector documents combines them and is larger: it also passes from a lane
to another lane of its warp and from there through a flag. `OrderCarried` shows
that it is no larger where `WarpsMeetAtFlags`: the lanes of a warp meet (at a
barrier, say) before one of them releases what the others did, and after one of
them acquires for the others; there `NoFalseAlarms` says the same of the
documented order. Its invariant `OInv` is that the instruction numbers of a CTA
never go back.
`NoMissedRaces` needs neither condition. Its invariant `MInv` says of any two
accesses to a byte that conflict, however far apart, that one happens before the
other or the byte is reported; `ForgottenIsOrdered` is the case in which the
detector no longer remembers the first. It needs that the accesses which
replaced the first conflict with it (`AtomicsApart`), and that a report on the
same offsets is a report on the same location (`OffsetsTell`, `DInv`).

`RaceReplayProofs`. `ReplayIsARun` is a refinement: the replay of the sorted log
is a behaviour of `RaceHistory`, with the log so far in the place of the history
and, in the place of the instruction counters, the numbers the log itself gives.
`HistInv` says what execution leaves: each access continues the numbers of its
CTA, or goes on with the instruction of the access before it. `ReplayInv` says
that what is replayed is in the order of the log and before all that remains.
With them the next event of the log is a call `RaceHistory` allows, whatever the
workers interleaved. `ReplayIsExact` carries the answers back from the log to
the execution, with flags between CTAs included. The log moves the events of
different CTAs past each other, so an order can be lost or gained at a flag, and
there are two conditions. `ReleasesInCtaOrder`: nobody acquires what a later CTA
released. Then every edge of the execution is one of the log (`EdgeLogged`,
`LoggedBefore`), and a report of the replay is a true alarm of the execution
(`TrueAlarm`). `AcquiresInCtaOrder`: nobody acquires at a flag before an earlier
CTA releases it there. Then every edge of the log is one of the execution
(`EdgeExecuted`, `ExecutedBefore`), and a race of the execution is one of the
log (`NothingMissed`). Each half of the theorem has its own condition and needs
nothing of the other's.

`ParallelRunProofs`. `TypeOK`, `ControlOK` and `MutexOK` say where a worker is:
in no memory instruction, or at a lane of one of its own CTAs, and the mutex is
held by the worker between the two halves of an atomic and by nobody else;
`AtomicsAreAtomic` is that the value an atomic read is still in the buffer when
it writes. `CountOK`: a worker whose CTAs neither wait nor jump back has
executed as many instructions as its CTAs have passed. With the end of every
thread it gives `CleanIsComplete`: a result is clean exactly when every CTA ran
to its end, and then it holds every CTA in order and the sum of the
instructions. `WildOK` says that the instructions executed so far passed their
checks (`WildAccessesFault`; the arithmetic of wrapped addresses is in
`AcceptsInside`). `ReplayOK` says that the buffer is what the log says
(`TraceIsCommitted`). `LogOK` and `NumberedOK` say that the log of a worker has
each access its CTAs have done once, with its ordinal in the CTA; the merged log
is then the same set for every interleaving and worker count, and sorting it
gives one sequence (`TraceIsOrdered`). `ResultEvents` describes the events of a
result: issue events, requests, the completions of a schedule, renumbered in
this order. `IssuedOK` adds that a worker numbers its issue events from 0, that
is, that the numbers of the streams collide, and that one that has logged a
request and ended without a fault has an issue event. With them
`RequestsAreComplete`: numbers are distinct, each request completes once, later,
with the same sector and parent, and the parent is an issue event before the
request. It is not always the issue event of the access itself (section 9).

## 8. Only model-checked

- Liveness (`Terminates`, `EveryRoundPasses`, `EveryRunEnds`,
  `ContinueReturns`), which is outside the reach of the prover.
- `AtomicsAddUp` and `TicketsUnique`. A value is a sum over the bytes of a word
  and an outcome a sum over lanes; that a sum of digits is the number put there
  is an induction over data. `TicketsUnique` is also not true for every value of
  the constants: a counter that wraps returns a number twice.

Proved only under conditions, which section 7 names and outside which they are
false (section 9): `NoFalseAlarm` (`ScopesCompose`; the documented order also
`WarpsMeetAtFlags`), `NoMissedRace` (`AtomicsApart`, `OffsetsTell`) and
`ReplayExact` (all of these, and `ReleasesInCtaOrder` for the absence of false
reports, `AcquiresInCtaOrder` for the absence of missed races). The number of
lanes of a warp is not restricted. `EpochsAreExact`, `NoRaceDismissed` and
`ReplayIsARun` hold without conditions.

## 9. Disagreements found

With a run and a finding in `PROJECT.json`:

- `parallel_faults`: faults carry no CTA, so the merge reports the worker with
  the fewest instructions, against "the worker with the smallest (cta_id,
  dynamic-instruction) fault wins" (`core.cpp:460`).
- `launch_local`: without clusters, the translation of a CTA's own window is
  refused when it is used, unless the CTA is at x = y = 0.
- `debug_step_over`: two warps at one breakpoint stop each other's
  `continue_run` for ever.

Seen while modelling; the models contain the behaviour and no property of a
passing run forbids it:

- BSYNC looks up its entry by register only. Two sides of an if/else that both
  use B1 end in a no-progress fault.
- A named barrier's release also resumes lanes asleep in a BSYNC.
- A warp that keeps diverging and rejoining keeps the cursor on itself.
- A plain store of an init word is not seen once any SYNCS named the address.
- DEPBAR.LE retires the youngest groups, against
  `src/notes/sm90/instr/depbar.md`; ARRIVES.TRANSCNT credits the newest group
  and leaves it on the list, against its comment ("Consume").
- The log replayed in CTA order: a release by a higher CTA is replayed after the
  acquire that read it, so ordered accesses are reported; a release by a lower
  CTA that came after the acquire is replayed before it, so a race is missed.
  The run `race_replay` reaches both; `ReplayExact` and `ReplayIsExact` say that
  these are the only two ways to go wrong (`ReleasesInCtaOrder`,
  `AcquiresInCtaOrder`).
- The clocks do not know program order between lanes of a warp: data written by
  lane 0 and released by lane 1 is reported when the acquirer reads it.
  `race_history` reaches it; `NoFalseAlarm` says that nothing else is reported
  wrongly (`WarpsMeetAtFlags`).
- The engine issues every L2 request with parent 0 (`core.cpp:624`, 1414), and
  the renumbering replaces 0 by the last earlier event that had number 0. That
  is the first issue event of the last worker that has one: all requests of a
  launch share a parent, whatever access they belong to, and every issue event
  after the first gets an earlier one as parent. Comments promise the issue
  event that missed (`l2_events.hpp:39`, `memory_events.hpp:16`). What
  `RequestsComplete` says of a parent is what is true of it.
- An acq_rel atomic publishes its clock before it acquires: a chain through
  different scopes is reported.
- Two atomics exempt each other and only the second is kept: a plain access
  ordered after it and not after the first is not reported.
- The key of a report has no allocation: a race at the same offsets of a second
  allocation is not listed.
- Loads are recorded in the L2 and race logs before they are known to be good;
  comments in `memory.cpp` say the logs hold committed accesses.
  `TraceMatchesMemory` is about stores and atomics.
- Load and store check alignment and bounds in different orders, so one bad
  address gives two kinds of fault.
- The instruction limit counts per worker, against byte-identical results for
  any worker count (`core.cpp:459`); a merged result drops `limit_reached`, and
  a merged fault the L2 events and the renumbering.
- `translate_shared` accepts alignments above 1024 that `validate_translation`
  refuses.
- The launch generation grows only with a backend; a vector holds the constant
  banks, so a reference from `constant_bank()` dangles after another kernel's
  first launch.
- A veto in the debugger has moved the cursor already, and `suspend_bp_`
  survives `write_pc`.

## 10. Not modelled

- Arithmetic handlers, floating point, tensor shapes and TMA address generation:
  data, covered by golden tests. `SimtExec` has them as one action that advances
  or faults.
- Decoder, renderer, cubin loader, command line, core utilities: parsing,
  printing and value types.
- Generated tables (`semu/generated`): about 170,000 of the 204,000 source lines
  and no logic. They are why the modelled share of the repository's lines is
  small; without them, and without the tools below, the models cover the
  scheduler, barriers, memory, race, launch and debugger code.
- L1TEX, shared-bank and global access models, sub-core map, profiler: pure
  counting that ends in reports and that execution never reads.
- Mock backend: used by tests only; `LaunchContext` has an arbitrary backend.
- Assembler, hardware debugger and launch probe: separate tools, sequential
  text processing or around devices and drivers that are not in the repository.
- LDGSTS logs two accesses per lane, a read of global and a write of shared
  memory: they are two instructions in `RaceHistory`. The lanes of one
  instruction are logged without an event of another CTA in between, which the
  sort would establish anyway.
- Within the modelled parts: register contents, the bytes of a copy, shared,
  local and constant windows of the memory service (the same checks on memory of
  one worker), constant banks and argument bytes, trace lines, debug reads and
  writes of registers and memory, and the text of reports.
