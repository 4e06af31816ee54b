------------------------- MODULE DebugSessionProofs -------------------------
(***************************************************************************)
(* What a debug session guarantees for every kernel, launch shape, set of  *)
(* breakpoints and sequence of commands: it keeps the interpreter's        *)
(* inductive invariant (SimtExecProofs), ends only for the reason it       *)
(* gives, and runs past no breakpoint.                                     *)
(***************************************************************************)
EXTENDS DebugSession, SimtExecProofs

Executes(g) ==
    \/ Skip(g) \/ InvalidInstruction(g) \/ Data(g) \/ Bra(g)
    \/ Bssy(g) \/ Bsync(g) \/ Exit(g) \/ Bar(g)

\* One group is stepped over at most, and it was stopped at.
SuspendTold == suspend = {} \/ \E g \in told : suspend = {g}

SessionState ==
    /\ focus \in SUBSET WarpId
    /\ limit \in Limits
    /\ breakpoints \subseteq Points
    /\ watching \in BOOLEAN
    /\ mode \in {"Idle", "Continue"}
    /\ reason \in Reason
    /\ commands \in 0 .. MaxCommands

SIInv == IInv /\ SessionState /\ SuspendTold /\ EndIsReal

-----------------------------------------------------------------------------
(* The interpreter's invariant.                                            *)

LEMMA EligibleInGroups == Eligible \subseteq Groups
BY DEF Eligible

\* Steps that move lanes at most and leave the end as it is.
LEMMA MovedStep ==
    ASSUME IInv,
           pc' \in [WarpId -> [Lane -> Int]],
           UNCHANGED <<kernel, active, exited, sync, waiting, done, arrived,
                       rr, executed, outcome>>
    PROVE  IInv'
<1>1. TypeOK'
  BY DEF IInv, TypeOK
<1>2. SleepersAccounted'
  BY DEF IInv, SleepersAccounted
<1>3. SyncEntriesExact'
  BY DEF IInv, SyncEntriesExact
<1>4. BarrierArrivalsExact'
  BY DEF IInv, BarrierArrivalsExact
<1>5. CleanCompletion'
  BY DEF IInv, CleanCompletion
<1>6. QED
  BY <1>1, <1>2, <1>3, <1>4, <1>5 DEF IInv

LEMMA ExecutesStep ==
    ASSUME IInv, NEW g \in Groups, Executes(g)
    PROVE  IInv'
BY SkipStep, InvalidStep, DataStep, BraStep, BssyStep, BsyncStep, ExitStep,
   BarStep DEF Executes

\* A group that executes retires or faults; only an instruction that decodes
\* retires.
LEMMA ExecutesFacts ==
    ASSUME NEW g \in Groups, Executes(g)
    PROVE  /\ outcome = "Running"
           /\ outcome' \in {"Running", "Fault"}
           /\ focus' = focus
           /\ executed' # executed => Decodes(g)
<1>1. CASE Skip(g)
  BY <1>1 DEF Skip, Issue, NextGroup, Retire, Decodes
<1>2. CASE InvalidInstruction(g)
  BY <1>2 DEF InvalidInstruction, NextGroup, Fault
<1>3. CASE Data(g)
  BY <1>3 DEF Data, Issue, NextGroup, Retire, Fault, Decodes
<1>4. CASE Bra(g)
  BY <1>4 DEF Bra, Issue, NextGroup, Retire, Fault, Decodes
<1>5. CASE Bssy(g)
  BY <1>5 DEF Bssy, Issue, NextGroup, Retire, Fault, Decodes
<1>6. CASE Bsync(g)
  BY <1>6 DEF Bsync, Issue, NextGroup, Retire, Fault, Decodes
<1>7. CASE Exit(g)
  BY <1>7 DEF Exit, Issue, NextGroup, Retire, Decodes
<1>8. CASE Bar(g)
  BY <1>8 DEF Bar, Issue, NextGroup, Retire, Decodes
<1>9. QED
  BY <1>1, <1>2, <1>3, <1>4, <1>5, <1>6, <1>7, <1>8 DEF Executes

-----------------------------------------------------------------------------
(* Preservation, one lemma per kind of step.                               *)

LEMMA SInitInv == SInit => SIInv
<1> SUFFICES ASSUME SInit PROVE SIInv
  OBVIOUS
<1>1. IInv
  BY InitIInv DEF SInit
<1>2. SessionState
  <2>1. commands \in 0 .. MaxCommands
    BY SessionAssumption DEF SInit
  <2>2. QED
    BY <2>1 DEF SInit, Init, SessionState, Reason, Outcome
<1>3. SuspendTold
  BY DEF SInit, SuspendTold
<1>4. EndIsReal
  BY DEF SInit, Init, EndIsReal
<1>5. QED
  BY <1>1, <1>2, <1>3, <1>4 DEF SIInv

\* What a drive reports is one of the stop reasons.
LEMMA ReturnedState ==
    ASSUME SIInv, NEW c, NEW r \in Reason, NEW g, Returned(c, r, g),
           UNCHANGED <<focus, config>>
    PROVE  SessionState'
BY DEF SIInv, SessionState, Returned, config

LEMMA AgainInv == ASSUME SIInv, NEW c, Again(c) PROVE SIInv'
<1>1. outcome \in Reason
  BY DEF SIInv, IInv, TypeOK, Reason
<1>2. SessionState'
  BY <1>1, ReturnedState DEF Again, vars
<1>3. IInv'
  BY StutterStep DEF SIInv, Again
<1>4. SuspendTold' /\ EndIsReal'
  BY DEF SIInv, Again, SuspendTold, EndIsReal, vars, config, Groups, Live
<1>5. QED
  BY <1>2, <1>3, <1>4 DEF SIInv

LEMMA AtLimitInv == ASSUME SIInv, NEW c, AtLimit(c) PROVE SIInv'
<1>1. SessionState'
  BY ReturnedState DEF AtLimit, Reason, Outcome
<1>2. IInv'
  <2>1. outcome' \in Outcome \ {"Done"}
    BY DEF AtLimit, Outcome
  <2>2. \A w \in done : exited[w] = Lane
    BY DEF SIInv, IInv, CleanCompletion
  <2>3. kernel \in Kernels /\ rr \in Nat /\ done \in SUBSET WarpId
        /\ pc \in [WarpId -> [Lane -> Int]] /\ executed \in 0 .. Limit
    BY DEF SIInv, IInv, TypeOK
  <2>4. UNCHANGED <<kernel, rr, done, pc, active, exited, sync, waiting,
                    arrived, executed>>
    BY DEF AtLimit, lanes
  <2>5. QED
    BY <2>1, <2>2, <2>3, <2>4, QuietStep DEF SIInv
<1>3. SuspendTold' /\ EndIsReal'
  BY DEF SIInv, AtLimit, SuspendTold, EndIsReal, config
<1>4. QED
  BY <1>1, <1>2, <1>3 DEF SIInv

LEMMA ScanDoneFacts ==
    ASSUME IInv
    PROVE  /\ ScanDone \in SUBSET WarpId
           /\ \A w \in ScanDone : exited[w] = Lane
BY DEF IInv, TypeOK, CleanCompletion, ScanDone

LEMMA BlockedInv == ASSUME SIInv, NEW c, Blocked(c) PROVE SIInv'
<1>1. SessionState'
  BY ReturnedState DEF Blocked, Reason, Outcome
<1>2. IInv'
  <2>1. outcome' \in Outcome \ {"Done"}
    BY DEF Blocked, Outcome
  <2>2. kernel \in Kernels /\ rr \in Nat
        /\ pc \in [WarpId -> [Lane -> Int]] /\ executed \in 0 .. Limit
    BY DEF SIInv, IInv, TypeOK
  <2>3. /\ UNCHANGED <<kernel, rr, pc, active, exited, sync, waiting,
                       arrived, executed>>
        /\ done' = ScanDone
    BY DEF Blocked, lanes
  <2>4. QED
    BY <2>1, <2>2, <2>3, ScanDoneFacts, QuietStep DEF SIInv
<1>3. SuspendTold' /\ EndIsReal'
  BY DEF SIInv, Blocked, SuspendTold, EndIsReal
<1>4. QED
  BY <1>1, <1>2, <1>3 DEF SIInv

\* No group comes into being when warps are marked done or a lane of a warp
\* without runnable lanes is moved.
LEMMA NoNewGroups ==
    ASSUME Groups = {}, done \subseteq done', UNCHANGED <<active, exited>>
    PROVE  Groups' = {}
<1>1. \A w \in WarpId \ done : Live(w) = {}
  <2> SUFFICES ASSUME NEW w \in WarpId \ done, NEW l \in Live(w)
               PROVE  FALSE
    OBVIOUS
  <2>1. <<w, pc[w][l]>> \in Groups
    BY DEF Groups
  <2>2. QED
    BY <2>1
<1>2. \A w \in WarpId \ done' : Live(w)' = {}
  BY <1>1 DEF Live
<1>3. QED
  BY <1>2 DEF Groups

LEMMA EndInv == ASSUME SIInv, NEW c, End(c) PROVE SIInv'
<1>1. IInv'
  BY ClassifyStep DEF SIInv, End
<1>2. outcome' \in {"Done", "BarrierDeadlock", "NoProgress"}
  BY DEF End, Classify, TerminalState
<1>3. SessionState'
  <2>1. outcome' \in Reason
    BY <1>2 DEF Reason, Outcome
  <2>2. QED
    BY <2>1, ReturnedState DEF End, Classify
<1>4. Groups' = {}
  BY NoNewGroups DEF End, Classify, ScanDone, lanes
<1>5. outcome' = "Done" => \A w \in WarpId : exited'[w] = Lane
  BY <1>1 DEF IInv, CleanCompletion
<1>6. SuspendTold' /\ EndIsReal'
  BY <1>2, <1>4, <1>5 DEF SIInv, End, SuspendTold, EndIsReal
<1>7. QED
  BY <1>1, <1>3, <1>6 DEF SIInv

\* A vetoed group leaves all but the cursor and the done marks alone.
LEMMA VetoedStep ==
    ASSUME SIInv, NEW g \in Eligible, Vetoed(g)
    PROVE  IInv' /\ EndIsReal' /\ UNCHANGED <<focus, config>>
<1>1. g \in Groups
  BY EligibleInGroups
<1>2. outcome' = "Running" /\ UNCHANGED <<focus, config>>
  BY DEF Vetoed, NextGroup
<1>3. IInv'
  <2>1. outcome' \in Outcome \ {"Done"}
    BY <1>2 DEF Outcome
  <2>2. pc \in [WarpId -> [Lane -> Int]] /\ executed \in 0 .. Limit
    BY DEF SIInv, IInv, TypeOK
  <2>3. UNCHANGED <<pc, active, exited, sync, waiting, arrived, executed>>
    BY DEF Vetoed, lanes
  <2>4. NextGroup(g)
    BY DEF Vetoed
  <2>5. QED
    BY <1>1, <2>1, <2>2, <2>3, <2>4, NextGroupFacts, QuietStep DEF SIInv
<1>4. QED
  BY <1>2, <1>3 DEF EndIsReal

LEMMA StopUnsupportedInv ==
    ASSUME SIInv, NEW c, NEW g \in Eligible, StopUnsupported(c, g)
    PROVE  SIInv'
<1>1. IInv' /\ EndIsReal' /\ UNCHANGED <<focus, config>>
  BY VetoedStep DEF StopUnsupported
<1>2. SessionState'
  BY <1>1, ReturnedState DEF StopUnsupported, Reason
<1>3. SuspendTold'
  BY DEF SIInv, StopUnsupported, SuspendTold
<1>4. QED
  BY <1>1, <1>2, <1>3 DEF SIInv

LEMMA StopBreakpointInv ==
    ASSUME SIInv, NEW g \in Eligible, StopBreakpoint(g)
    PROVE  SIInv'
<1>1. IInv' /\ EndIsReal' /\ UNCHANGED <<focus, config>>
  BY VetoedStep DEF StopBreakpoint
<1>2. SessionState'
  BY <1>1, ReturnedState DEF StopBreakpoint, Reason
<1>3. SuspendTold'
  BY DEF StopBreakpoint, SuspendTold
<1>4. QED
  BY <1>1, <1>2, <1>3 DEF SIInv

LEMMA ExecuteFacts ==
    ASSUME NEW c, NEW g, Execute(c, g)
    PROVE  /\ Executes(g)
           /\ UNCHANGED config
           /\ \E r \in {"Fault", "Stepped", "Watchpoint"} :
                 /\ Returned(c, r, {g})
                 /\ r = "Watchpoint" => c
BY DEF Execute, Executes

LEMMA ExecuteInv ==
    ASSUME SIInv, NEW c, NEW g \in Eligible, Execute(c, g)
    PROVE  SIInv'
<1>1. g \in Groups
  BY EligibleInGroups
<1>2. IInv'
  BY <1>1, ExecuteFacts, ExecutesStep DEF SIInv
<1>3. /\ outcome' \in {"Running", "Fault"}
      /\ focus' = focus
  BY <1>1, ExecuteFacts, ExecutesFacts
<1>4. PICK r \in {"Fault", "Stepped", "Watchpoint"} : Returned(c, r, {g})
  BY ExecuteFacts
<1>5. SessionState'
  <2>1. r \in Reason
    BY DEF Reason, Outcome
  <2>2. QED
    BY <1>3, <1>4, <2>1, ExecuteFacts, ReturnedState
<1>6. EndIsReal'
  BY <1>3 DEF EndIsReal
<1>7. SuspendTold'
  <2>1. \/ UNCHANGED <<suspend, told>>
        \/ suspend' = suspend \ {g} /\ told' = told \ {g}
    BY DEF Execute, Resumed
  <2>2. QED
    BY <2>1 DEF SIInv, SuspendTold
<1>8. QED
  BY <1>2, <1>5, <1>6, <1>7 DEF SIInv

LEMMA CommandInv == ASSUME SIInv, Command PROVE SIInv'
<1>1. /\ commands' \in 0 .. MaxCommands
      /\ UNCHANGED session
  BY SessionAssumption DEF Command, SIInv, SessionState
<1>2. SuspendTold'
  BY <1>1 DEF SIInv, SuspendTold, session
<1>3. mode' \in {"Idle", "Continue"} /\ reason' \in Reason
  BY <1>1 DEF SIInv, SessionState, session
<1>4. CASE UNCHANGED <<vars, limit>> /\ breakpoints' \subseteq Points
           /\ watching' \in BOOLEAN
  <2>1. IInv'
    BY <1>4, StutterStep DEF SIInv
  <2>2. SessionState'
    BY <1>1, <1>3, <1>4 DEF SIInv, SessionState, vars
  <2>3. EndIsReal'
    BY <1>4 DEF SIInv, EndIsReal, vars, Groups, Live
  <2>4. QED
    BY <1>2, <2>1, <2>2, <2>3 DEF SIInv
<1>5. ASSUME NEW ws \in SUBSET WarpId, SetFocus(ws) PROVE SIInv'
  <2>1. /\ UNCHANGED <<kernel, pc, active, exited, sync, waiting, done,
                       arrived, rr, executed, outcome>>
        /\ UNCHANGED <<limit, breakpoints, watching>>
        /\ focus' = ws
    BY <1>5 DEF SetFocus, lanes
  <2>2. IInv'
    <3>1. pc' \in [WarpId -> [Lane -> Int]]
      BY <2>1 DEF SIInv, IInv, TypeOK
    <3>2. QED
      BY <2>1, <3>1, MovedStep DEF SIInv
  <2>3. SessionState'
    BY <1>1, <1>3, <2>1 DEF SIInv, SessionState
  <2>4. EndIsReal'
    BY <2>1 DEF SIInv, EndIsReal, Groups, Live
  <2>5. QED
    BY <1>2, <2>2, <2>3, <2>4 DEF SIInv
<1>6. ASSUME NEW n \in Limits, SetInstructionLimit(n) PROVE SIInv'
  <2>1. /\ UNCHANGED <<kernel, pc, active, exited, sync, waiting, done,
                       arrived, focus, rr, executed>>
        /\ UNCHANGED <<breakpoints, watching>>
        /\ limit' = n
    BY <1>6 DEF SetInstructionLimit, lanes
  <2>2. \/ outcome' = outcome /\ (outcome = "Limit" => executed >= n)
        \/ outcome' = "Running"
    <3>1. executed \in Int /\ n \in Int
      BY SessionAssumption, ConstantsAssumption DEF SIInv, IInv, TypeOK
    <3>2. QED
      BY <1>6, <3>1 DEF SetInstructionLimit
  <2>3. IInv'
    <3>1. /\ kernel' \in Kernels /\ rr' \in Nat /\ done' \in SUBSET WarpId
          /\ pc' \in [WarpId -> [Lane -> Int]] /\ executed' \in 0 .. Limit
      BY <2>1 DEF SIInv, IInv, TypeOK
    <3>2. \A w \in done' : exited[w] = Lane
      BY <2>1 DEF SIInv, IInv, CleanCompletion
    <3>3. CASE outcome' = outcome
      BY <2>1, <3>1, <3>3, MovedStep DEF SIInv
    <3>4. CASE outcome' = "Running"
      <4>1. outcome' \in Outcome \ {"Done"}
        BY <3>4 DEF Outcome
      <4>2. QED
        BY <2>1, <3>1, <3>2, <4>1, QuietStep DEF SIInv
    <3>5. QED
      BY <2>2, <3>3, <3>4
  <2>4. SessionState'
    BY <1>1, <1>3, <2>1 DEF SIInv, SessionState
  <2>5. EndIsReal'
    <3>1. UNCHANGED <<Groups, exited, executed>>
      BY <2>1 DEF Groups, Live
    <3>2. QED
      BY <2>1, <2>2, <3>1 DEF SIInv, EndIsReal
  <2>6. QED
    BY <1>2, <2>3, <2>4, <2>5 DEF SIInv
<1>7. ASSUME NEW j \in Jumps, WritePc(j[1], j[2], j[3]) PROVE SIInv'
  <2>1. /\ UNCHANGED <<kernel, active, exited, sync, waiting, done, arrived,
                       focus, rr, executed, outcome>>
        /\ UNCHANGED <<limit, breakpoints, watching>>
        /\ pc' = [pc EXCEPT ![j[1]][j[2]] = j[3]]
    BY <1>7 DEF WritePc
  <2>2. IInv'
    <3>1. j[1] \in WarpId /\ j[2] \in Lane /\ j[3] \in Int
      BY SessionAssumption
    <3>2. pc' \in [WarpId -> [Lane -> Int]]
      BY <2>1, <3>1 DEF SIInv, IInv, TypeOK
    <3>3. QED
      BY <2>1, <3>2, MovedStep DEF SIInv
  <2>3. SessionState'
    BY <1>1, <1>3, <2>1 DEF SIInv, SessionState
  <2>4. Groups = {} => Groups' = {}
    BY <2>1, NoNewGroups
  <2>5. EndIsReal'
    BY <2>1, <2>4 DEF SIInv, EndIsReal
  <2>6. QED
    BY <1>2, <2>2, <2>3, <2>5 DEF SIInv
<1>8. ASSUME \/ \E bp \in Points \ breakpoints : AddBreakpoint(bp)
             \/ \E bp \in breakpoints : RemoveBreakpoint(bp)
             \/ breakpoints # {} /\ ClearBreakpoints
             \/ SetWatchpoints(~watching)
      PROVE  SIInv'
  BY <1>4, <1>8 DEF SIInv, SessionState, AddBreakpoint, RemoveBreakpoint,
                    ClearBreakpoints, SetWatchpoints
<1>9. QED
  BY <1>5, <1>6, <1>7, <1>8 DEF Command

LEMMA SNextInv == SIInv /\ [SNext]_svars => SIInv'
<1> SUFFICES ASSUME SIInv, [SNext]_svars PROVE SIInv'
  OBVIOUS
<1>1. ASSUME NEW c, Drive(c) PROVE SIInv'
  BY <1>1, AgainInv, AtLimitInv, BlockedInv, EndInv, StopUnsupportedInv,
     ExecuteInv DEF Drive
<1>2. CASE Continue
  BY <1>1, <1>2, StopBreakpointInv DEF Continue
<1>3. CASE Command
  BY <1>3, CommandInv
<1>4. CASE UNCHANGED svars
  <2>1. UNCHANGED vars /\ UNCHANGED config /\ UNCHANGED session
    BY <1>4 DEF svars
  <2>2. IInv'
    BY <2>1, StutterStep DEF SIInv
  <2>3. SessionState' /\ SuspendTold' /\ EndIsReal'
    BY <2>1 DEF SIInv, SessionState, SuspendTold, EndIsReal, vars, config,
                session, Groups, Live
  <2>4. QED
    BY <2>2, <2>3 DEF SIInv
<1>5. QED
  BY <1>1, <1>2, <1>3, <1>4 DEF SNext

-----------------------------------------------------------------------------
(* The theorems.                                                           *)

\* Whatever a debugger does with a launch, the inductive invariant of the
\* interpreter and the session's own hold.
THEOREM SessionInvariance == SSpec => []SIInv
<1>1. SInit => SIInv
  BY SInitInv
<1>2. SIInv /\ [SNext]_svars => SIInv'
  BY SNextInv
<1>3. QED
  BY <1>1, <1>2, PTL DEF SSpec

\* Type correctness of the session (the state drive_group and the commands
\* keep between two calls).
THEOREM SessionTypeCorrect == SSpec => []SessionTypeOK
<1>1. SIInv => SessionTypeOK
  BY DEF SIInv, IInv, SessionState, SuspendTold, SessionTypeOK
<1>2. QED
  BY <1>1, SessionInvariance, PTL

\* Every end a session reports is real, whatever limits, focus, breakpoints
\* and moved pcs led to it (drive_group, set_instruction_limit).
THEOREM EndsAreReal == SSpec => []EndIsReal
<1>1. SIInv => EndIsReal
  BY DEF SIInv
<1>2. QED
  BY <1>1, SessionInvariance, PTL

\* Under a debugger too a warp marked done and a launch reported done ran
\* every thread to its EXIT (scan_schedule under a schedule filter).
THEOREM DebuggedCompletionIsClean == SSpec => []CleanCompletion
<1>1. SIInv => CleanCompletion
  BY DEF SIInv, IInv
<1>2. QED
  BY <1>1, SessionInvariance, PTL

\* A drive that does not execute leaves the instruction count alone.
LEMMA OnlyExecuteCounts ==
    ASSUME NEW c, Drive(c), executed' # executed
    PROVE  \E g \in Eligible : Execute(c, g)
BY DEF Drive, Again, AtLimit, Blocked, End, Classify, StopUnsupported,
       Vetoed, vars

LEMMA RunPassesNoBreakpoint ==
    ASSUME SIInv, [SNext]_svars, RanInContinue, NEW g \in at', Hit(g)
    PROVE  g \in told
<1>1. executed' # executed
  BY DEF RanInContinue
<1>2. PICK c \in BOOLEAN : Drive(c)
  <2>1. ~Command
    BY <1>1 DEF Command, AddBreakpoint, RemoveBreakpoint, ClearBreakpoints,
                SetWatchpoints, SetFocus, SetInstructionLimit, WritePc, vars
  <2>2. ~UNCHANGED svars
    BY <1>1 DEF svars, vars
  <2>3. ASSUME NEW h \in Eligible PROVE ~StopBreakpoint(h)
    BY <1>1 DEF StopBreakpoint, Vetoed
  <2>4. QED
    BY <2>1, <2>2, <2>3 DEF SNext, Continue
<1>3. PICK h \in Eligible : Execute(c, h)
  BY <1>1, <1>2, OnlyExecuteCounts
<1>4. PICK r \in {"Fault", "Stepped", "Watchpoint"} :
         Returned(c, r, {h}) /\ (r = "Watchpoint" => c)
  BY <1>3, ExecuteFacts
<1>5. g = h
  BY <1>4 DEF Returned
<1>6. c
  <2>1. mode = "Continue" => c
    BY <1>3 DEF Execute, Ready, Called
  <2>2. mode' = "Continue" => c
    BY <1>4 DEF Returned
  <2>3. reason' = "Watchpoint" => c
    BY <1>4 DEF Returned
  <2>4. QED
    BY <2>1, <2>2, <2>3 DEF RanInContinue
<1>7. Decodes(h) /\ ~Unsupported(h) /\ ~Breaks(c, h)
  BY <1>1, <1>3, EligibleInGroups, ExecuteFacts, ExecutesFacts DEF Execute
<1>8. h \in suspend
  BY <1>5, <1>6, <1>7 DEF Breaks, Bypassed
<1>9. QED
  BY <1>5, <1>8 DEF SIInv, SuspendTold

\* A continue_run executes no group with a matching breakpoint that it did
\* not stop at first, for every set of breakpoints and every interleaving
\* of stops, steps and commands (drive_group).
THEOREM NoBreakpointPassed == SSpec => StoppedBeforeRun
<1>1. SIInv /\ [SNext]_svars =>
         [RanInContinue => \A g \in at' : Hit(g) => g \in told]_svars
  BY RunPassesNoBreakpoint
<1>2. QED
  BY <1>1, SessionInvariance, PTL DEF SSpec, StoppedBeforeRun

=============================================================================
