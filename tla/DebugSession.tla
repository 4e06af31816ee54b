---------------------------- MODULE DebugSession ----------------------------
(***************************************************************************)
(* DebugSession: the debugger drives one interpreter group by group        *)
(* (Interpreter::step_group) under a schedule filter, and decides before   *)
(* each group whether to stop.  SimtExec is the interpreter; its focus is  *)
(* the filter, its outcome stands for done_ and terminal_fault_.  The      *)
(* interpreter's own Limit is never reached: the session has its limit.    *)
(*                                                                         *)
(* A step of Next is one drive_group, or one command of the caller between *)
(* two calls of step, step_n or continue_run.  Which bytes an instruction  *)
(* touches is data: one that executes may or may not hit a watchpoint.     *)
(* Ids of break- and watchpoints, register contents and memory are left    *)
(* out.                                                                    *)
(***************************************************************************)
EXTENDS SimtExec

CONSTANTS
    Limits,       \* instruction limits the caller may set
    Points,       \* breakpoints the caller may add
    DecodeOnly,   \* args of the DATA instructions that only decode
    Jumps,        \* <<warp, lane, pc>> the caller may give to write_pc
    MaxCommands   \* bound on the commands of the caller

\* A missing condition on CTA or warp is the set of all warps, a missing
\* lane mask the set of all lanes.
Breakpoint ==
    [kind : {"pc", "mnemonic"}, pc : Nat, op : STRING,
     warps : SUBSET WarpId, mask : SUBSET Lane]

ASSUME SessionAssumption ==
    /\ Limits # {} /\ Limits \subseteq 0 .. Limit
    /\ \A bp \in Points :
          /\ bp.kind \in {"pc", "mnemonic"}
          /\ bp.warps \subseteq WarpId
          /\ bp.mask \subseteq Lane
    /\ Jumps \subseteq WarpId \X Lane \X Nat
    /\ MaxCommands \in Nat

VARIABLES
    limit,        \* limit_
    breakpoints,  \* breakpoints_
    watching,     \* watchpoints_ is not empty
    suspend,      \* suspend_bp_: no group or one
    mode,         \* "Continue" between two turns of continue_run
    reason,       \* DebugStepInfo::reason of the last drive
    at,           \* the group that drive reported, if any
    commands,     \* commands so far
    told,         \* history: groups stopped at and not executed since
    retold        \* history: the last breakpoint stop was at one of these

config  == <<limit, breakpoints, watching, commands>>
session == <<suspend, mode, reason, at, told, retold>>
svars   == <<vars, config, session>>

Reason == Outcome \cup {"Stepped", "Breakpoint", "Watchpoint", "Unsupported",
                        "FocusBlocked"}

SInit ==
    /\ Init
    /\ limit \in Limits
    /\ breakpoints = {}
    /\ watching = FALSE
    /\ commands = 0
    /\ suspend = {}
    /\ mode = "Idle"
    /\ reason = "Running"
    /\ at = {}
    /\ told = {}
    /\ retold = FALSE

-----------------------------------------------------------------------------
(* The pre-exec veto.                                                      *)

Decodes(g) == g[2] \in DOMAIN kernel /\ Inst(g).op # "BAD"

Unsupported(g) ==
    Decodes(g) /\ Inst(g).op = "DATA" /\ Inst(g).arg \in DecodeOnly

Matches(bp, g) ==
    /\ g[1] \in bp.warps
    /\ IF bp.kind = "pc" THEN bp.pc = g[2] ELSE bp.op = Inst(g).op
    /\ Mask(g) \cap bp.mask # {}

Hit(g) == \E bp \in breakpoints : Matches(bp, g)

\* Mutant: the step-over identity is compared by pc only.
Bypassed_ByPc(g) == \E s \in suspend : s[2] = g[2]

Bypassed(g) == g \in suspend

Breaks(continue, g) ==
    continue /\ Decodes(g) /\ ~Unsupported(g) /\ ~Bypassed(g) /\ Hit(g)

-----------------------------------------------------------------------------
(* drive_group.                                                            *)

\* Mutant: a blocked focus keeps continue_run looping.
Returned_LoopsBlocked(continue, r, g) ==
    /\ reason' = r
    /\ at' = g
    /\ mode' = IF continue /\ r \in {"Stepped", "FocusBlocked"}
                 THEN "Continue" ELSE "Idle"

\* What the drive reports; continue_run goes on after a plain step only.
Returned(continue, r, g) ==
    /\ reason' = r
    /\ at' = g
    /\ mode' = IF continue /\ r = "Stepped" THEN "Continue" ELSE "Idle"

\* step and step_n drive without breakpoints, continue_run with them.
Called(continue) == mode = "Idle" \/ continue

\* The launch finished or a fault is latched: the same answer again.
Again(continue) ==
    /\ Called(continue)
    /\ outcome # "Running"
    /\ Returned(continue, outcome, {})
    /\ UNCHANGED <<vars, config, suspend, told, retold>>

AtLimit(continue) ==
    /\ Called(continue)
    /\ outcome = "Running"
    /\ executed >= limit
    /\ outcome' = "Limit"
    /\ Returned(continue, "Limit", {})
    /\ UNCHANGED <<kernel, lanes, sync, waiting, done, arrived, focus, rr,
                   executed, config, suspend, told, retold>>

Ready(continue) == Called(continue) /\ executed < limit

\* Only groups outside the focus can run: the session stays alive.
Blocked(continue) ==
    /\ Ready(continue)
    /\ outcome = "Running"
    /\ Eligible = {} /\ Groups # {}
    /\ done' = ScanDone
    /\ Returned(continue, "FocusBlocked", {})
    /\ UNCHANGED <<kernel, lanes, sync, waiting, arrived, focus, rr,
                   executed, outcome, config, suspend, told, retold>>

\* Nothing can run: done, deadlocked or stalled.
End(continue) ==
    /\ Ready(continue)
    /\ Classify
    /\ Returned(continue, outcome', {})
    /\ UNCHANGED <<config, suspend, told, retold>>

\* The group is picked, the cursor moves past it, and nothing executes.
Vetoed(g) ==
    /\ NextGroup(g)
    /\ UNCHANGED <<lanes, sync, waiting, arrived, executed, outcome, config>>

StopUnsupported(continue, g) ==
    /\ Ready(continue)
    /\ Vetoed(g)
    /\ Unsupported(g)
    /\ Returned(continue, "Unsupported", {g})
    /\ UNCHANGED <<suspend, told, retold>>

StopBreakpoint(g) ==
    /\ Ready(TRUE)
    /\ Vetoed(g)
    /\ Breaks(TRUE, g)
    /\ Returned(TRUE, "Breakpoint", {g})
    /\ suspend' = {g}
    /\ retold' = (g \in told)
    /\ told' = told \cup {g}

\* The step-over ends once its group executed.
Resumed(g) == suspend \ {g}

\* A committed access of a data instruction may hit a watchpoint.
Execute(continue, g) ==
    /\ Ready(continue)
    /\ ~Unsupported(g)
    /\ ~Breaks(continue, g)
    /\ \/ /\ \/ Skip(g)
             \/ InvalidInstruction(g)
             \/ Data(g)
             \/ Bra(g)
             \/ Bssy(g)
             \/ Bsync(g)
             \/ Exit(g)
             \/ Bar(g)
          /\ Returned(continue,
                      IF outcome' = "Fault" THEN "Fault" ELSE "Stepped", {g})
       \/ /\ continue /\ watching
          /\ Data(g) /\ outcome' = "Running"
          /\ Returned(continue, "Watchpoint", {g})
    /\ IF outcome' = "Fault"
         THEN UNCHANGED <<suspend, told>>
         ELSE suspend' = Resumed(g) /\ told' = told \ {g}
    /\ UNCHANGED <<config, retold>>

Drive(continue) ==
    \/ Again(continue)
    \/ AtLimit(continue)
    \/ Blocked(continue)
    \/ End(continue)
    \/ \E g \in Eligible : StopUnsupported(continue, g) \/ Execute(continue, g)

Continue == Drive(TRUE) \/ \E g \in Eligible : StopBreakpoint(g)

-----------------------------------------------------------------------------
(* Commands between two calls; the ones without effect are left out.       *)

AddBreakpoint(bp) ==
    /\ breakpoints' = breakpoints \cup {bp}
    /\ UNCHANGED <<vars, limit, watching>>

RemoveBreakpoint(bp) ==
    /\ breakpoints' = breakpoints \ {bp}
    /\ UNCHANGED <<vars, limit, watching>>

ClearBreakpoints ==
    /\ breakpoints' = {}
    /\ UNCHANGED <<vars, limit, watching>>

\* add_watchpoint, and removing or clearing the last one
SetWatchpoints(on) ==
    /\ watching' = on
    /\ UNCHANGED <<vars, limit, breakpoints>>

\* A target outside the launch is refused without effect.
SetFocus(ws) ==
    /\ focus' = ws
    /\ UNCHANGED <<kernel, lanes, sync, waiting, done, arrived, rr, executed,
                   outcome, limit, breakpoints, watching>>

\* Mutant: raising the limit leaves the latched stop.
SetInstructionLimit_Latched(n) ==
    /\ limit' = n
    /\ UNCHANGED <<vars, breakpoints, watching>>

SetInstructionLimit(n) ==
    /\ limit' = n
    /\ outcome' = IF outcome = "Limit" /\ executed < n THEN "Running"
                  ELSE outcome
    /\ UNCHANGED <<kernel, lanes, sync, waiting, done, arrived, focus, rr,
                   executed, breakpoints, watching>>

\* The lane may be running or not.
WritePc(w, l, p) ==
    /\ p \in DOMAIN kernel
    /\ pc' = [pc EXCEPT ![w][l] = p]
    /\ UNCHANGED <<kernel, active, exited, sync, waiting, done, arrived,
                   focus, rr, executed, outcome, limit, breakpoints, watching>>

Command ==
    /\ mode = "Idle"
    /\ commands < MaxCommands
    /\ commands' = commands + 1
    /\ \/ \E bp \in Points \ breakpoints : AddBreakpoint(bp)
       \/ \E bp \in breakpoints : RemoveBreakpoint(bp)
       \/ breakpoints # {} /\ ClearBreakpoints
       \/ SetWatchpoints(~watching)
       \/ \E ws \in ({WarpId} \cup {{w} : w \in WarpId}) \ {focus} : SetFocus(ws)
       \/ \E n \in Limits \ {limit} : SetInstructionLimit(n)
       \/ \E j \in Jumps : WritePc(j[1], j[2], j[3])
    /\ UNCHANGED session

SNext ==
    \/ Drive(FALSE)
    \/ Continue
    \/ Command

\* A continue_run is a loop on the caller's thread: once called it goes on
\* until it returns.
SSpec == SInit /\ [][SNext]_svars /\ WF_svars(mode = "Continue" /\ Continue)

-----------------------------------------------------------------------------
(* Properties.                                                             *)

\* Type invariant of the session; at most one group is being stepped over.
SessionTypeOK ==
    /\ TypeOK
    /\ focus \in SUBSET WarpId
    /\ limit \in Limits
    /\ breakpoints \subseteq Points
    /\ watching \in BOOLEAN
    /\ suspend = {} \/ \E g \in told : suspend = {g}
    /\ mode \in {"Idle", "Continue"}
    /\ reason \in Reason
    /\ commands \in 0 .. MaxCommands

\* The session ends for the reason it gives: a launch reported done,
\* deadlocked or stalled has no runnable lane left in any warp, the focused
\* one or not, a launch reported done ran every thread to its EXIT, and a
\* session suspended at the limit has used it up, whatever limits and focus
\* were set before and since (drive_group, terminal_state,
\* set_instruction_limit).
EndIsReal ==
    /\ outcome \in {"Done", "BarrierDeadlock", "NoProgress"} => Groups = {}
    /\ outcome = "Done" => \A w \in WarpId : exited[w] = Lane
    /\ outcome = "Limit" => executed >= limit

RanInContinue ==
    /\ executed' # executed
    /\ mode = "Continue" \/ mode' = "Continue" \/ reason' = "Watchpoint"

\* No breakpoint is run past: a group that matches a breakpoint executes in
\* a continue_run only after a stop at it since its warp last executed there
\* (suspend_bp_ of drive_group), although stops at other groups, steps,
\* changes of focus and edits of the breakpoint list may lie in between.
StoppedBeforeRun ==
    [][RanInContinue => \A g \in at' : Hit(g) => g \in told]_svars

\* "After a breakpoint stop the next continue steps over the matched word
\* once" (debugger.hpp): no breakpoint stop is at a group that was stopped
\* at before and did not execute since.
StepsOverOnce == ~retold

\* Every call of continue_run returns, at the instruction limit at the
\* latest, whatever the focus excludes.
ContinueReturns == mode = "Continue" ~> mode = "Idle"

=============================================================================
