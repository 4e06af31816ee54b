------------------------------- MODULE CtaAsync -------------------------------
(***************************************************************************)
(* The asynchronous state of one CTA (CtaState, "async / TMA / mbarrier    *)
(* state"): the barrier words in shared memory, the logical mbarriers kept *)
(* beside them, and the cp.async group bookkeeping.  One action per        *)
(* instruction that changes it; the operands, which any warp may supply at *)
(* any time, are arbitrary members of the operand sets.                    *)
(***************************************************************************)
EXTENDS MbarrierOps, FiniteSetsExt, SequencesExt

CONSTANTS
    Addrs,        \* shared byte offsets the instructions name
    Window,       \* those whose 8 bytes lie inside the shared window
    Words,        \* words SYNCS.EXCH and SYNCS.CAS write (ZeroWord too)
    Stored,       \* words plain STS writes
    Operands,     \* values of the register operand of SYNCS.ARRIVE
    Bytes,        \* bytes a copy moves
    Scoreboards,  \* SB0 .. SB5
    NoScoreboard, \* dst_wr_sb = 7
    NoEntry,      \* no logical mbarrier for the address
    MaxTx,        \* bound: outstanding bytes of a barrier
    MaxGroups,    \* bound: sealed groups
    MaxOpen       \* bound: bytes of the open group

ASSUME AsyncAssumption ==
    /\ Window \subseteq Addrs
    /\ Words \subseteq Word /\ Stored \subseteq Word
    /\ Operands \subseteq Nat /\ Bytes \subseteq Nat \ {0}
    /\ NoScoreboard \notin Scoreboards
    /\ NoEntry \notin State
    /\ {MaxTx, MaxGroups, MaxOpen} \subseteq Nat

VARIABLES
    word,    \* the 64-bit words in CtaState::shared
    entry,   \* CtaState::mbarriers
    open,    \* async_open.committed_bytes (0: no copy in it)
    groups,  \* async_groups: the committed bytes of each
    count,   \* sb_group_count
    fault,   \* the launch ended in a fault
    stored   \* history: barriers whose word was last written as data, by a
             \* plain store over a live barrier or as a word that is not fresh

vars == <<word, entry, open, groups, count, fault, stored>>
barriers == <<word, entry, stored>>
async == <<open, groups, count>>

Init ==
    /\ word = [a \in Window |-> ZeroWord]
    /\ entry = [a \in Addrs |-> NoEntry]
    /\ open = 0
    /\ groups = <<>>
    /\ count = [s \in Scoreboards |-> 0]
    /\ fault = FALSE
    /\ stored = {}

-----------------------------------------------------------------------------
(* The logical mbarriers.                                                  *)

\* mbarrier_at: the entry, or a new one seeded from a non-zero word.
At(a) ==
    IF entry[a] # NoEntry THEN entry[a]
    ELSE IF a \in Window /\ word[a] # ZeroWord THEN FromInitWord(word[a])
    ELSE Uninitialized

\* Mutant: the new state is not written back to shared memory.
Apply_NoMirror(a, inc, k, c) ==
    /\ entry' = [entry EXCEPT ![a] = Arrived(At(a), inc, k, c)]
    /\ fault' = ArriveTraps(At(a), inc, k, c)
    /\ UNCHANGED <<word, stored>>

\* mbarrier_arrive on the entry; if it does not trap, the word mirrors the
\* new state.
Apply(a, inc, k, c) ==
    /\ c \/ At(a).tx + k <= MaxTx
    /\ entry' = [entry EXCEPT ![a] = Arrived(At(a), inc, k, c)]
    /\ fault' = ArriveTraps(At(a), inc, k, c)
    /\ word' = IF a \in Window /\ ~fault'
                 THEN [word EXCEPT ![a] = Encode(entry'[a])]
                 ELSE word
    /\ stored' = IF fault' THEN stored ELSE stored \ {a}

\* do_syncs, ARRIVE, by parameter type.
A1TR(a, r) == Apply(a, 1, r, FALSE)
A1T0(a)    == Apply(a, 1, 0, FALSE)
A0T1(a)    == Apply(a, 0, 1, FALSE)
A0TR(a, r) == Apply(a, 0, r, FALSE)
A0TX(a, r) == Apply(a, 0, r, TRUE)
ART0(a, r) == Apply(a, r, 0, FALSE)

Arrive(a) ==
    /\ ~fault
    /\ \/ A1T0(a) \/ A0T1(a)
       \/ \E r \in Operands : A1TR(a, r) \/ A0TR(a, r) \/ A0TX(a, r) \/ ART0(a, r)
    /\ UNCHANGED async

\* do_syncs, PHASECHK; do_arrives, ARVCNT.  Only the fault is kept: the
\* predicate goes to a register.
PhaseCheck(a) ==
    /\ ~fault
    /\ entry' = [entry EXCEPT ![a] = At(a)]
    /\ fault' = PhasechkTraps(At(a))
    /\ UNCHANGED <<word, stored, async>>

\* do_syncs, LD and CCTL.WB: the entry is created, nothing else.
Touch(a) ==
    /\ ~fault
    /\ entry' = [entry EXCEPT ![a] = At(a)]
    /\ UNCHANGED <<word, stored, async, fault>>

\* do_syncs, CCTL.IV
CctlIv(a) ==
    /\ ~fault
    /\ entry' = [entry EXCEPT ![a] = Invalidate(At(a))]
    /\ UNCHANGED <<word, stored, async, fault>>

\* do_syncs, CCTL.IVALL: the entries there are.
CctlIvAll ==
    /\ ~fault
    /\ entry' = [a \in Addrs |-> IF entry[a] = NoEntry THEN NoEntry
                                 ELSE Invalidate(entry[a])]
    /\ UNCHANGED <<word, stored, async, fault>>

\* The word w is written and the logical state follows it.
Reseed(a, w) ==
    /\ word' = [word EXCEPT ![a] = w]
    /\ entry' = [entry EXCEPT ![a] = IF w = ZeroWord THEN NoEntry
                                     ELSE FromInitWord(w)]
    /\ stored' = IF FreshWord(w) THEN stored \ {a} ELSE stored \cup {a}

\* do_syncs, EXCH.64 (mbarrier.init)
Exch(a, w) ==
    /\ ~fault
    /\ IF a \in Window THEN Reseed(a, w) /\ UNCHANGED fault
                       ELSE fault' = TRUE /\ UNCHANGED barriers
    /\ UNCHANGED async

\* do_syncs, CAS.64: cmp is arbitrary, so the swap may happen or not.
Cas(a, w) ==
    /\ ~fault
    /\ IF a \in Window THEN (Reseed(a, w) \/ UNCHANGED barriers) /\ UNCHANGED fault
                       ELSE fault' = TRUE /\ UNCHANGED barriers
    /\ UNCHANGED async

\* do_sts to a barrier's 8 bytes: the logical state is not consulted.
Sts(a, w) ==
    /\ ~fault
    /\ IF a \in Window
         THEN /\ word' = [word EXCEPT ![a] = w]
              /\ stored' = IF entry[a] = NoEntry /\ FreshWord(w)
                             THEN stored \ {a} ELSE stored \cup {a}
              /\ UNCHANGED fault
         ELSE fault' = TRUE /\ UNCHANGED <<word, stored>>
    /\ UNCHANGED <<entry, async>>

\* do_utmaldg with an mbarrier operand: k bytes of the tile complete; on a
\* bad address the launch faults first.
Utmaldg(a, k) ==
    /\ ~fault
    /\ \/ Apply(a, 0, k, TRUE)
       \/ fault' = TRUE /\ UNCHANGED barriers
    /\ UNCHANGED async

-----------------------------------------------------------------------------
(* The cp.async groups.                                                    *)

\* do_ldgsts: k bytes, copied at once, join the open group; on a bad address
\* the launch faults before they are accounted.
Ldgsts(k) ==
    /\ ~fault
    /\ \/ open + k <= MaxOpen /\ open' = open + k /\ UNCHANGED fault
       \/ fault' = TRUE /\ UNCHANGED open
    /\ UNCHANGED <<barriers, groups, count>>

\* The open group is sealed, and counted on its scoreboard if it has one.
Seal(s) ==
    IF open > 0
      THEN /\ groups' = Append(groups, open)
           /\ count' = IF s \in Scoreboards THEN [count EXCEPT ![s] = @ + 1] ELSE count
           /\ open' = 0
      ELSE UNCHANGED async

\* do_ldgdepbar (cp.async.commit_group) and do_utmacmdflush
Commit(s) ==
    /\ ~fault
    /\ Len(groups) < MaxGroups
    /\ Seal(s)
    /\ UNCHANGED <<barriers, fault>>

\* Mutant: the count is set without comparing it first.
Drain_NoCompare(s, n) ==
    /\ groups' = IF count[s] > n THEN SubSeq(groups, 1, Len(groups) - (count[s] - n))
                               ELSE groups
    /\ count' = [count EXCEPT ![s] = n]

\* The scoreboard's excess over n is popped from the back of the list.
Drain(s, n) ==
    IF count[s] > n
      THEN LET left == Len(groups) - (count[s] - n)
           IN /\ groups' = IF left > 0 THEN SubSeq(groups, 1, left) ELSE <<>>
              /\ count' = [count EXCEPT ![s] = n]
      ELSE UNCHANGED <<groups, count>>

\* do_depbar, DEPBAR.LE SBs, n
DepbarLe(s, n) ==
    /\ ~fault
    /\ Drain(s, n)
    /\ UNCHANGED <<barriers, open, fault>>

\* do_depbar, DEPBAR {S} and DEPBAR.LE of an invalid scoreboard
DepbarAll ==
    /\ ~fault
    /\ groups' = <<>>
    /\ count' = [s \in Scoreboards |-> 0]
    /\ UNCHANGED <<barriers, open, fault>>

\* The bytes ARRIVES.TRANSCNT completes: the newest sealed group's, or the
\* open one's.
GroupBytes == IF groups # <<>> THEN Last(groups) ELSE open

\* do_arrives, TRANSCNT
Arrives(a) ==
    /\ ~fault
    /\ IF GroupBytes > 0
         THEN Apply(a, 0, GroupBytes, TRUE)
         ELSE entry' = [entry EXCEPT ![a] = At(a)] /\ UNCHANGED <<word, stored, fault>>
    /\ UNCHANGED async

\* do_syncs, FLUSH; an invalid ARRIVE parameter type and do_arrives, LEGACY,
\* after the entry is created.
Unsupported(a) ==
    /\ ~fault
    /\ fault' = TRUE
    /\ entry' \in {entry, [entry EXCEPT ![a] = At(a)]}
    /\ UNCHANGED <<word, stored, async>>

Next ==
    \/ \E a \in Addrs :
         \/ Arrive(a) \/ PhaseCheck(a) \/ Touch(a) \/ CctlIv(a) \/ Arrives(a)
         \/ Unsupported(a)
         \/ \E w \in Words : Exch(a, w) \/ Cas(a, w)
         \/ \E w \in Stored : Sts(a, w)
         \/ \E k \in Bytes : Utmaldg(a, k)
    \/ CctlIvAll
    \/ \E k \in Bytes : Ldgsts(k)
    \/ \E s \in Scoreboards \cup {NoScoreboard} : Commit(s)
    \/ \E s \in Scoreboards, n \in 0 .. MaxGroups : DepbarLe(s, n)
    \/ DepbarAll

Spec == Init /\ [][Next]_vars

-----------------------------------------------------------------------------
(* Properties.                                                             *)

\* The barrier still completes phases.
Usable(s) == s.initialized /\ ~s.invalid /\ ~s.corrupted /\ ~s.locked

\* No completion is missed: whatever the order of arrivals, expected and
\* completed bytes, a usable barrier that expects arrivals never rests with
\* nothing outstanding (mbarrier_arrive completes the phase in the same
\* operation), and it never waits for more arrivals than a phase has.
NoMissedCompletion ==
    \A a \in Addrs :
      entry[a] # NoEntry /\ Usable(entry[a]) /\ entry[a].expected > 0 =>
        /\ entry[a].pending <= entry[a].expected
        /\ entry[a].pending > 0 \/ entry[a].tx > 0

\* The word a kernel can load is the encoding of the logical state, after an
\* underflow and an invalidation too, unless it was last written as data (a
\* plain store over a live barrier, or a word whose arrive and tx fields
\* from_init_word ignores): the next arrival or completion on the barrier
\* writes the state over it.  The faulting operation alone is not mirrored.
WordMirrorsState ==
    ~fault => \A a \in Window \ stored :
                  entry[a] # NoEntry => word[a] = Encode(entry[a])

\* The groups the scoreboards count, numbered on each scoreboard: as many as
\* the sum of the counts.
Counted == UNION {{s} \X (1 .. count[s]) : s \in Scoreboards}

\* The scoreboards never count more groups than the list holds, although the
\* list is shared by the scoreboards and by uncounted groups: the pops of
\* DEPBAR.LE never run out of groups (do_depbar).
CountsBacked == Cardinality(Counted) <= Len(groups)

\* A barrier enters a phase fresh, by completion or by re-initialisation:
\* all arrivals to come and no bytes left over from the phase before.
PhaseStartsFresh ==
    [][\A a \in Addrs :
         entry[a] # NoEntry /\ entry'[a] # NoEntry
         /\ entry[a].initialized /\ entry'[a].phase # entry[a].phase =>
           entry'[a].pending = entry'[a].expected /\ entry'[a].tx = 0]_vars

=============================================================================
