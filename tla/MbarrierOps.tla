----------------------------- MODULE MbarrierOps -----------------------------
(***************************************************************************)
(* The logical mbarrier of semu/tensor/mbarrier: the state record and its  *)
(* operations as functions of it.  A 64-bit barrier word is the record of  *)
(* its bit fields; the count fields hold the negated value modulo the      *)
(* field's size.                                                           *)
(***************************************************************************)
EXTENDS Integers

CONSTANTS
    CountMod,   \* values of the 20-bit count fields (0x100000)
    TxMod       \* values of the 21-bit tx field (0x200000)

ASSUME FieldsAssumption == CountMod \in Nat \ {0} /\ TxMod \in Nat \ {0}

\* MbarrierState
State ==
    [initialized : BOOLEAN, invalid : BOOLEAN, corrupted : BOOLEAN,
     locked : BOOLEAN, expected : Nat, pending : Nat, tx : Nat,
     phase : {0, 1}]

Uninitialized ==
    [initialized |-> FALSE, invalid |-> FALSE, corrupted |-> FALSE,
     locked |-> FALSE, expected |-> 0, pending |-> 0, tx |-> 0, phase |-> 0]

\* The bit fields of the shared word.
Word ==
    [expected : 0 .. CountMod - 1, tx : 0 .. TxMod - 1, lock : BOOLEAN,
     arrive : 0 .. CountMod - 1, phase : {0, 1}]

ZeroWord ==
    [expected |-> 0, tx |-> 0, lock |-> FALSE, arrive |-> 0, phase |-> 0]

\* MbarrierState::encode
Encode(s) ==
    [expected |-> (CountMod - s.expected) % CountMod,
     tx       |-> (TxMod - s.tx) % TxMod,
     lock     |-> s.locked,
     arrive   |-> (CountMod - s.pending) % CountMod,
     phase    |-> s.phase]

\* MbarrierState::from_init_word: the arrive and tx fields are not read.
FromInitWord(w) ==
    LET n == (CountMod - w.expected) % CountMod
    IN [initialized |-> TRUE, invalid |-> FALSE, corrupted |-> FALSE,
        locked |-> w.lock, expected |-> n, pending |-> n, tx |-> 0,
        phase |-> w.phase]

\* A word with all its arrivals outstanding and no bytes: the words a seeded
\* state encodes to.
FreshWord(w) == w.tx = 0 /\ w.arrive = w.expected

\* The word mbarrier.init(n) writes; init(0) has the phase bit set.
InitWord(n) ==
    [expected |-> (CountMod - n) % CountMod, tx |-> 0, lock |-> FALSE,
     arrive |-> (CountMod - n) % CountMod, phase |-> IF n = 0 THEN 1 ELSE 0]

-----------------------------------------------------------------------------
(* mbarrier_arrive: inc arrivals and k transaction bytes, the bytes added  *)
(* (expect_tx) or, when c, subtracted (complete_tx).                       *)

Refused(s) == ~s.initialized \/ s.corrupted \/ s.invalid

Underflow(s, k, c) == c /\ k > s.tx

AfterTx(s, k, c) == IF c THEN s.tx - k ELSE s.tx + k

\* Mutant: the phase completes without waiting for the transaction bytes.
Settle_ArrivalsOnly(s) ==
    IF s.pending = 0
      THEN [s EXCEPT !.phase = 1 - @, !.pending = s.expected]
      ELSE s

\* Mutant: the arrival count is not reloaded.
Settle_NoReload(s) ==
    IF s.pending = 0 /\ s.tx = 0 THEN [s EXCEPT !.phase = 1 - @] ELSE s

\* The phase completes when arrivals and bytes have both drained.
Settle(s) ==
    IF s.pending = 0 /\ s.tx = 0
      THEN [s EXCEPT !.phase = 1 - @, !.pending = s.expected]
      ELSE s

\* The operation traps.
ArriveTraps(s, inc, k, c) ==
    \/ Refused(s)
    \/ ~s.locked /\ ~Underflow(s, k, c) /\ inc > s.pending

\* Mutant: bytes that complete a phase do not flip it.
Arrived_TxDoesNotSettle(s, inc, k, c) ==
    IF Refused(s) \/ s.locked THEN s
    ELSE IF Underflow(s, k, c) THEN [s EXCEPT !.tx = 0, !.corrupted = TRUE]
    ELSE IF inc > s.pending
           THEN [s EXCEPT !.tx = AfterTx(s, k, c), !.locked = TRUE]
    ELSE IF inc = 0 THEN [s EXCEPT !.tx = AfterTx(s, k, c)]
    ELSE Settle([s EXCEPT !.tx = AfterTx(s, k, c), !.pending = @ - inc])

\* The state afterwards: a refused or locked barrier does not change, an
\* underflow corrupts, an over-arrival locks (the bytes already applied).
Arrived(s, inc, k, c) ==
    IF Refused(s) \/ s.locked THEN s
    ELSE IF Underflow(s, k, c) THEN [s EXCEPT !.tx = 0, !.corrupted = TRUE]
    ELSE IF inc > s.pending
           THEN [s EXCEPT !.tx = AfterTx(s, k, c), !.locked = TRUE]
    ELSE Settle([s EXCEPT !.tx = AfterTx(s, k, c), !.pending = @ - inc])

-----------------------------------------------------------------------------
(* mbarrier_phasechk and mbarrier_invalidate.                              *)

PhasechkTraps(s) == ~s.initialized \/ s.corrupted

\* Mutant: the check compares for equality.
Phasechk_Inverted(s, parity) ==
    ~s.invalid /\ ~s.locked /\ s.phase = parity

\* The phase with this parity has completed.
Phasechk(s, parity) == ~s.invalid /\ ~s.locked /\ s.phase # parity

Invalidate(s) == [s EXCEPT !.invalid = TRUE]

=============================================================================
