----------------------------- MODULE RaceReplay -----------------------------
(***************************************************************************)
(* The race detector as the interpreter uses it.  Executing instructions   *)
(* only append events to a log, with their CTA and an ordinal of the CTA;  *)
(* when all workers are joined the log is sorted by CTA and ordinal and    *)
(* replayed into the detector.  `hist' is the order of execution; happens- *)
(* before is the order of what was executed, not of what is replayed.      *)
(***************************************************************************)
EXTENDS RaceHistory

VARIABLES
    joined,     \* the workers are joined, the log is being replayed
    replayed    \* the positions in `hist' of the events replayed, in that order

replayVars == <<vars, joined, replayed>>

CtaOfEvent(e) ==
    LET ws == Participants(e) IN CtaOf[CHOOSE a \in Lane : WarpOf[a] \in ws]

\* Mutant: later ordinals first.
Earlier_reversed(i, j) ==
    LET c == CtaOfEvent(hist[i])  d == CtaOfEvent(hist[j]) IN
    c < d \/ (c = d /\ j < i)

\* The log is ordered by CTA, and by ordinal within a CTA.
Earlier(i, j) ==
    LET c == CtaOfEvent(hist[i])  d == CtaOfEvent(hist[j]) IN
    c < d \/ (c = d /\ i < j)

Remaining == {i \in 1..Len(hist) : \A k \in DOMAIN replayed : replayed[k] # i}

ReplayInit == Init /\ joined = FALSE /\ replayed = <<>>

Logged(e) ==
    /\ ~joined
    /\ Called(e)
    /\ UNCHANGED <<detector, joined, replayed>>

\* record_race_access: a committed access of a lane is appended to the log.
record_race_access(a, o) ==
    \E n \in Instructions(a, o) :
        /\ Logged([kind |-> "access", acc |-> MakeAccess(a, n, o)])
        /\ executed' = [executed EXCEPT ![CtaOf[a]] = n]

\* The last warp of a CTA arrives at a barrier.
LogBarrier(c, ws) ==
    /\ Meet(c, ws)
    /\ Logged([kind |-> "barrier", warps |-> ws])
    /\ UNCHANGED executed

\* MEMBAR and FENCE.
LogFence(w) ==
    /\ Logged([kind |-> "fence", warps |-> {w}])
    /\ UNCHANGED executed

\* All threads have ended.
Join ==
    /\ ~joined
    /\ joined' = TRUE
    /\ UNCHANGED <<vars, replayed>>

\* The call of the detector that event e stands for.
Dispatch(e) ==
    \/ e.kind = "access" /\ ~e.acc.is_atomic /\ observe(e.acc)
    \/ e.kind = "access" /\ e.acc.is_atomic /\ atomic_rmw(e.acc)
    \/ e.kind = "barrier" /\ cta_barrier(e.warps)
    \/ e.kind = "fence" /\ fence

\* The next event of the sorted log.
replay_race_log ==
    /\ joined
    /\ \E j \in Remaining :
         /\ \A i \in Remaining \ {j} : Earlier(j, i)
         /\ Dispatch(hist[j])
         /\ replayed' = Append(replayed, j)
    /\ UNCHANGED <<executed, use, hist, joined>>

ReplayNext ==
    \/ \E a \in Lane, o \in use.ops : record_race_access(a, o)
    \/ \E c \in Ctas, ws \in BarrierSets : LogBarrier(c, ws)
    \/ \E w \in Warps : LogFence(w)
    \/ Join
    \/ replay_race_log

ReplaySpec == ReplayInit /\ [][ReplayNext]_replayVars

-----------------------------------------------------------------------------
Finished == joined /\ Remaining = {}

\* Where the log keeps what flags order: what an operation acquires was released by
\* its own CTA or by one before it in the log.
ReleasesInCtaOrder ==
    \A i, j \in Accesses :
        i < j /\ SynchronizesWith(hist[i], hist[j]) =>
            CtaOfEvent(hist[i]) <= CtaOfEvent(hist[j])

\* Where the log adds nothing: what a release of an earlier CTA reaches in the log was
\* not executed before it.
AcquiresInCtaOrder ==
    \A i, j \in Accesses :
        /\ SynchronizesWith(hist[i], hist[j])
        /\ CtaOfEvent(hist[i]) < CtaOfEvent(hist[j])
        => i < j

\* core.cpp: "cross-CTA/global races are always observed together".  No report of the
\* replay names accesses that the execution ordered, unless a CTA acquired what a later
\* CTA released; and once the log is replayed a byte with a race of the execution has a
\* report, unless a CTA acquired at a flag before an earlier CTA released it.
ReplayExact ==
    /\ ReleasesInCtaOrder => NoFalseAlarm
    /\ Finished /\ AcquiresInCtaOrder => NoMissedRace

=============================================================================
