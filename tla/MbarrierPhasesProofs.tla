------------------------ MODULE MbarrierPhasesProofs ------------------------
(***************************************************************************)
(* Proofs about MbarrierPhases for every finite set of warps, every byte   *)
(* count and every number of rounds.                                       *)
(***************************************************************************)
EXTENDS MbarrierPhases, FiniteSetTheorems, TLAPS

LEMMA ModSmall ==
    ASSUME NEW m \in Nat, NEW a \in Nat, a < m
    PROVE  a % m = a
OBVIOUS

\* A barrier on which no operation is refused.
Healthy == bar.initialized /\ ~bar.invalid /\ ~bar.corrupted /\ ~bar.locked

\* Warps whose arrival the current phase still misses.
Missing == {t \in Threads : round[t] < flips \/ at[t] = "arrive"}

Owes == {t \in Threads : round[t] < flips \/ at[t] # "wait"}

\* The inductive invariant.  The pending count of the barrier is the number
\* of missing warps, its bytes are the leader's, and no warp is more than one
\* round behind the phase: one parity bit tells the two rounds apart.
IInv ==
    /\ TypeOK
    /\ ~trapped
    /\ Healthy
    /\ bar.expected = Cardinality(Threads)
    /\ bar.pending = Cardinality(Missing)
    /\ bar.tx = todo
    /\ todo > 0 <=> at[Leader] = "copy"
    /\ \A t \in Threads : at[t] = "copy" => t = Leader
    /\ \A t \in Threads : \/ round[t] = flips
                          \/ round[t] + 1 = flips /\ at[t] = "wait"
    /\ bar.phase = flips % 2
    /\ \A t \in Threads : parity[t] = round[t] % 2

LEMMA InitIInv == Init => IInv
<1> SUFFICES ASSUME Init PROVE IInv
  OBVIOUS
<1> DEFINE n == Cardinality(Threads)
<1>1. n \in Nat /\ n # 0 /\ n < CountMod
  BY PhasesAssumption, FS_CardinalityType, FS_EmptySet
<1>2. CountMod - n \in Nat /\ CountMod - n < CountMod /\ CountMod \in Nat
  BY <1>1, FieldsAssumption
<1>3. (CountMod - n) % CountMod = CountMod - n
  BY <1>2, ModSmall
<1>4. CountMod - (CountMod - n) = n
  BY <1>1, FieldsAssumption
<1>5. (CountMod - (CountMod - n)) % CountMod = n
  BY <1>1, <1>2, <1>4, ModSmall
<1>6. bar = [initialized |-> TRUE, invalid |-> FALSE, corrupted |-> FALSE,
             locked |-> FALSE, expected |-> n, pending |-> n, tx |-> 0,
             phase |-> 0]
  BY <1>1, <1>3, <1>5 DEF Init, FromInitWord, InitWord
<1>7. Missing = Threads
  BY DEF Missing, Init
<1>8. TypeOK
  <2>1. bar \in State
    BY <1>1, <1>6 DEF State
  <2>2. trapped \in BOOLEAN
    BY DEF Init
  <2>3. todo \in 0 .. Total /\ flips \in Nat
    BY PhasesAssumption DEF Init
  <2>4. /\ at \in [Threads -> {"arrive", "copy", "wait"}]
        /\ parity \in [Threads -> {0, 1}]
        /\ round \in [Threads -> Nat]
    BY DEF Init
  <2>5. QED
    BY <2>1, <2>2, <2>3, <2>4 DEF TypeOK
<1>9. QED
  BY <1>1, <1>6, <1>7, <1>8, PhasesAssumption DEF Init, IInv, Healthy

\* What mbarrier_arrive does to a healthy barrier that it does not overrun.
LEMMA ApplyFacts ==
    ASSUME IInv, NEW inc \in Nat, NEW k \in Nat, NEW c \in BOOLEAN,
           inc <= bar.pending, c => k <= bar.tx, Apply(inc, k, c)
    PROVE  /\ trapped' = FALSE
           /\ bar' \in State
           /\ Healthy'
           /\ bar'.expected = bar.expected
           /\ bar.pending - inc = 0 /\ AfterTx(bar, k, c) = 0 =>
                 /\ flips' = flips + 1
                 /\ bar'.phase = 1 - bar.phase
                 /\ bar'.pending = bar.expected
                 /\ bar'.tx = 0
           /\ ~(bar.pending - inc = 0 /\ AfterTx(bar, k, c) = 0) =>
                 /\ flips' = flips
                 /\ bar'.phase = bar.phase
                 /\ bar'.pending = bar.pending - inc
                 /\ bar'.tx = AfterTx(bar, k, c)
<1>1. bar \in State /\ Healthy
  BY DEF IInv, TypeOK
<1>2. ~Refused(bar) /\ ~bar.locked /\ ~Underflow(bar, k, c)
  BY <1>1 DEF Refused, Underflow, Healthy, State
<1> DEFINE s == [bar EXCEPT !.tx = AfterTx(bar, k, c), !.pending = @ - inc]
<1>3. bar' = Settle(s) /\ trapped' = FALSE
  BY <1>1, <1>2 DEF Apply, Arrived, ArriveTraps, State
<1>4. /\ AfterTx(bar, k, c) \in Nat /\ bar.pending - inc \in Nat
      /\ bar.phase \in {0, 1}
  BY <1>1 DEF AfterTx, State
<1>5. /\ s \in State
      /\ s.pending = bar.pending - inc /\ s.tx = AfterTx(bar, k, c)
      /\ s.phase = bar.phase /\ s.expected = bar.expected
      /\ s.initialized = bar.initialized /\ s.invalid = bar.invalid
      /\ s.corrupted = bar.corrupted /\ s.locked = bar.locked
  BY <1>1, <1>4 DEF State
<1> HIDE DEF s
<1>6. CASE s.pending = 0 /\ s.tx = 0
  <2>1. bar' = [s EXCEPT !.phase = 1 - s.phase, !.pending = s.expected]
    BY <1>3, <1>6 DEF Settle
  <2>a. 1 - s.phase \in {0, 1} /\ s.expected \in Nat
    BY <1>4, <1>5 DEF State
  <2>b. bar' \in State
    BY <1>5, <2>1, <2>a DEF State
  <2>2. /\ bar'.phase = 1 - bar.phase
        /\ bar'.pending = bar.expected /\ bar'.tx = 0
        /\ bar'.expected = bar.expected
        /\ bar'.initialized = bar.initialized /\ bar'.invalid = bar.invalid
        /\ bar'.corrupted = bar.corrupted /\ bar'.locked = bar.locked
    BY <1>5, <1>6, <2>1 DEF State
  <2>3. flips' = flips + 1
    BY <1>4, <2>2 DEF Apply
  <2>4. QED
    BY <1>1, <1>3, <1>5, <1>6, <2>b, <2>2, <2>3 DEF Healthy
<1>7. CASE ~(s.pending = 0 /\ s.tx = 0)
  <2>1. bar' = s
    BY <1>3, <1>7 DEF Settle
  <2>2. flips' = flips
    BY <1>5, <2>1 DEF Apply
  <2>3. QED
    BY <1>1, <1>3, <1>5, <1>7, <2>1, <2>2 DEF Healthy
<1>8. QED
  BY <1>6, <1>7

LEMMA MissingFinite ==
    /\ IsFiniteSet(Missing)
    /\ Cardinality(Missing) \in Nat
    /\ Cardinality(Missing) = 0 <=> Missing = {}
    /\ \A t \in Missing :
          /\ Cardinality(Missing \ {t}) = Cardinality(Missing) - 1
          /\ Cardinality(Missing) # 0
<1>1. Missing \subseteq Threads /\ IsFiniteSet(Threads)
  BY PhasesAssumption DEF Missing
<1>2. IsFiniteSet(Missing)
  BY <1>1, FS_Subset
<1>3. QED
  BY <1>2, FS_CardinalityType, FS_EmptySet, FS_RemoveElement

-----------------------------------------------------------------------------
(* Preservation and simulation, one lemma per action.  Each says what the  *)
(* step does to the abstract state.                                        *)

LEMMA Facts ==
    ASSUME IInv
    PROVE  /\ bar.pending \in Nat /\ bar.tx \in Nat /\ bar.expected \in Nat
           /\ bar.phase \in {0, 1} /\ flips \in Nat /\ todo \in Nat
           /\ \A t \in Threads : round[t] \in Nat
           /\ Owes = Missing \cup (IF todo > 0 THEN {Leader} ELSE {})
<1>1. /\ bar.pending \in Nat /\ bar.tx \in Nat /\ bar.expected \in Nat
      /\ bar.phase \in {0, 1} /\ flips \in Nat /\ todo \in Nat
      /\ \A t \in Threads : round[t] \in Nat
  BY PhasesAssumption DEF IInv, TypeOK, State
<1>2. \A t \in Threads : at[t] \in {"arrive", "copy", "wait"}
  BY DEF IInv, TypeOK
<1>3. Owes = Missing \cup (IF todo > 0 THEN {Leader} ELSE {})
  BY <1>2, PhasesAssumption DEF IInv, Owes, Missing
<1>4. QED
  BY <1>1, <1>3

\* A step that ends the contribution of warp t to the current phase.
LEMMA ContributeStep ==
    ASSUME IInv, NEW t \in Threads, at[t] # "wait",
           NEW inc \in Nat, NEW k \in Nat, NEW c \in BOOLEAN,
           inc <= bar.pending, c => k <= bar.tx, Apply(inc, k, c),
           bar.pending - inc = Cardinality(Missing \ {t}),
           todo' = AfterTx(bar, k, c), todo' \in 0 .. Total,
           IF t = Leader THEN todo' = 0 ELSE todo' = todo,
           at' = [at EXCEPT ![t] = "wait"],
           UNCHANGED <<parity, round>>
    PROVE  IInv' /\ Abstract!Contribute(t)
<1>1. round[t] = flips /\ t \in Owes
  BY DEF IInv, Owes
<1>2. /\ at' \in [Threads -> {"arrive", "copy", "wait"}]
      /\ at'[t] = "wait" /\ \A u \in Threads \ {t} : at'[u] = at[u]
  BY DEF IInv, TypeOK
<1>3. IsFiniteSet(Missing \ {t})
  BY MissingFinite, FS_Subset
<1>4. Cardinality(Missing \ {t}) = 0 <=> Missing \ {t} = {}
  BY <1>3, FS_EmptySet
<1>5. Abstract!Contribute(t) <=>
         /\ IF Owes = {t} THEN flips' = flips + 1 /\ Owes' = Threads
                          ELSE flips' = flips /\ Owes' = Owes \ {t}
         /\ UNCHANGED round
  BY <1>1 DEF Abstract!Contribute, Owes
<1>6. /\ todo' > 0 <=> at'[Leader] = "copy"
      /\ \A u \in Threads : at'[u] = "copy" => u = Leader
  BY <1>2, Facts, PhasesAssumption DEF IInv
<1>a. Owes = {t} <=> Missing \ {t} = {} /\ todo' = 0
  <2>1. CASE t = Leader
    <3>1. Owes \ {t} = Missing \ {t}
      BY <2>1, Facts
    <3>2. QED
      BY <1>1, <2>1, <3>1
  <2>2. CASE t # Leader /\ todo > 0
    BY <2>2, Facts
  <2>3. CASE t # Leader /\ ~(todo > 0)
    <3>1. todo' = 0
      BY <2>3, Facts
    <3>2. Owes = Missing
      BY <2>3, Facts
    <3>3. QED
      BY <1>1, <3>1, <3>2
  <2>4. QED
    BY <2>1, <2>2, <2>3
<1>7. CASE Owes = {t}
  <2>1. /\ flips' = flips + 1 /\ trapped' = FALSE /\ bar' \in State /\ Healthy'
        /\ bar'.phase = 1 - bar.phase /\ bar'.pending = bar.expected
        /\ bar'.tx = todo' /\ bar'.expected = bar.expected
    BY <1>4, <1>7, <1>a, ApplyFacts
  <2>2. Owes = {t}
    BY <1>7
  <2>3. \A u \in Threads : round[u] = flips /\ at'[u] = "wait"
    <3> SUFFICES ASSUME NEW u \in Threads
                 PROVE  round[u] = flips /\ at'[u] = "wait"
      OBVIOUS
    <3>1. CASE u = t
      BY <1>1, <1>2, <3>1
    <3>2. CASE u # t
      <4>1. ~(round[u] < flips) /\ at[u] = "wait"
        BY <2>2, <3>2 DEF Owes
      <4>2. round[u] = flips
        BY <4>1, Facts DEF IInv
      <4>3. QED
        BY <1>2, <3>2, <4>1, <4>2
    <3>3. QED
      BY <3>1, <3>2
  <2>4. Missing' = Threads /\ Owes' = Threads
    BY <2>1, <2>3, Facts DEF Missing, Owes
  <2>5. TypeOK'
    <3>1. trapped' \in BOOLEAN
      BY <2>1
    <3>2. todo' \in 0 .. Total /\ flips' \in Nat
      BY <2>1, Facts, PhasesAssumption
    <3>3. parity' \in [Threads -> {0, 1}] /\ round' \in [Threads -> Nat]
      BY DEF IInv, TypeOK
    <3>4. QED
      BY <1>2, <2>1, <3>1, <3>2, <3>3 DEF TypeOK
  <2>6. (flips + 1) % 2 = 1 - (flips % 2)
    BY Facts
  <2>7. \A u \in Threads : round'[u] + 1 = flips' /\ parity'[u] = round'[u] % 2
    BY <2>1, <2>3 DEF IInv
  <2>8. IInv'
    BY <1>6, <2>1, <2>3, <2>4, <2>5, <2>6, <2>7, PhasesAssumption DEF IInv
  <2>9. QED
    BY <1>5, <2>1, <2>2, <2>4, <2>8
<1>8. CASE Owes # {t}
  <2>1. /\ flips' = flips /\ trapped' = FALSE /\ bar' \in State /\ Healthy'
        /\ bar'.phase = bar.phase /\ bar'.pending = bar.pending - inc
        /\ bar'.tx = todo' /\ bar'.expected = bar.expected
    BY <1>4, <1>8, <1>a, ApplyFacts
  <2>2. Owes # {t}
    BY <1>8
  <2>3. Missing' = Missing \ {t} /\ Owes' = Owes \ {t}
    BY <1>1, <1>2, <2>1, Facts DEF Missing, Owes
  <2>4. TypeOK'
    <3>1. trapped' \in BOOLEAN
      BY <2>1
    <3>2. todo' \in 0 .. Total /\ flips' \in Nat
      BY <2>1, Facts, PhasesAssumption
    <3>3. parity' \in [Threads -> {0, 1}] /\ round' \in [Threads -> Nat]
      BY DEF IInv, TypeOK
    <3>4. QED
      BY <1>2, <2>1, <3>1, <3>2, <3>3 DEF TypeOK
  <2>5. \A u \in Threads : \/ round'[u] = flips'
                           \/ round'[u] + 1 = flips' /\ at'[u] = "wait"
    BY <1>2, <2>1 DEF IInv
  <2>6. IInv'
    BY <1>6, <2>1, <2>3, <2>4, <2>5, PhasesAssumption DEF IInv
  <2>7. QED
    BY <1>5, <2>1, <2>2, <2>3, <2>6
<1>9. QED
  BY <1>7, <1>8

LEMMA ArriveStep ==
    ASSUME IInv, NEW t \in Threads, Arrive(t)
    PROVE  IInv' /\ Abstract!Contribute(t)
<1>1. /\ at[t] = "arrive" /\ Apply(1, 0, FALSE)
      /\ at' = [at EXCEPT ![t] = "wait"] /\ UNCHANGED <<todo, parity, round>>
  BY DEF Arrive
<1>2. t \in Missing /\ bar.pending = Cardinality(Missing)
  BY <1>1 DEF Missing, IInv
<1>3. 1 <= bar.pending /\ bar.pending - 1 = Cardinality(Missing \ {t})
  BY <1>2, MissingFinite
<1>4. AfterTx(bar, 0, FALSE) = todo' /\ todo' \in 0 .. Total
  BY <1>1, Facts DEF AfterTx, IInv, TypeOK
<1>5. IF t = Leader THEN todo' = 0 ELSE todo' = todo
  <2>1. todo \in Nat /\ (t = Leader => ~(todo > 0))
    BY <1>1, Facts DEF IInv
  <2>2. QED
    BY <1>1, <2>1
<1>6. QED
  BY <1>1, <1>3, <1>4, <1>5, ContributeStep

LEMMA ArriveExpectStep ==
    ASSUME IInv, ArriveExpect
    PROVE  IInv' /\ UNCHANGED <<flips, Owes, round>>
<1>1. /\ at[Leader] = "arrive" /\ Total > 0 /\ Apply(1, Total, FALSE)
      /\ todo' = Total /\ at' = [at EXCEPT ![Leader] = "copy"]
      /\ UNCHANGED <<parity, round>>
  BY DEF ArriveExpect
<1>2. Leader \in Missing /\ bar.pending = Cardinality(Missing)
  BY <1>1, PhasesAssumption DEF Missing, IInv
<1>3. 1 <= bar.pending /\ bar.pending - 1 = Cardinality(Missing \ {Leader})
  BY <1>2, MissingFinite
<1>4. AfterTx(bar, Total, FALSE) = Total /\ Total # 0 /\ Total \in Nat
  BY <1>1, Facts, PhasesAssumption DEF AfterTx, IInv
<1>5. /\ flips' = flips /\ trapped' = FALSE /\ bar' \in State /\ Healthy'
      /\ bar'.phase = bar.phase /\ bar'.pending = bar.pending - 1
      /\ bar'.tx = todo' /\ bar'.expected = bar.expected
  <2>1. 1 \in Nat /\ FALSE \in BOOLEAN
    OBVIOUS
  <2>2. ~(bar.pending - 1 = 0 /\ AfterTx(bar, Total, FALSE) = 0)
    BY <1>4
  <2>3. QED
    BY <1>1, <1>3, <1>4, <2>1, <2>2, ApplyFacts
<1>6. /\ at' \in [Threads -> {"arrive", "copy", "wait"}]
      /\ at'[Leader] = "copy"
      /\ \A u \in Threads \ {Leader} : at'[u] = at[u]
  BY <1>1, PhasesAssumption DEF IInv, TypeOK
<1>7. round[Leader] = flips
  BY <1>1, PhasesAssumption DEF IInv
<1>8. Missing' = Missing \ {Leader} /\ Owes' = Owes
  BY <1>1, <1>5, <1>6, <1>7, Facts, PhasesAssumption DEF Missing, Owes
<1>9. TypeOK'
  <2>1. trapped' \in BOOLEAN
    BY <1>5
  <2>2. todo' \in 0 .. Total /\ flips' \in Nat
    BY <1>1, <1>5, Facts, PhasesAssumption
  <2>3. parity' \in [Threads -> {0, 1}] /\ round' \in [Threads -> Nat]
    BY <1>1 DEF IInv, TypeOK
  <2>4. QED
    BY <1>5, <1>6, <2>1, <2>2, <2>3 DEF TypeOK
<1>10. \A u \in Threads :
          /\ at'[u] = "copy" => u = Leader
          /\ \/ round'[u] = flips'
             \/ round'[u] + 1 = flips' /\ at'[u] = "wait"
          /\ parity'[u] = round'[u] % 2
  BY <1>1, <1>5, <1>6, <1>7 DEF IInv
<1>11. bar'.phase = flips' % 2
  BY <1>5 DEF IInv
<1>12. IInv'
  BY <1>1, <1>3, <1>5, <1>6, <1>8, <1>9, <1>10, <1>11 DEF IInv
<1>13. QED
  BY <1>1, <1>5, <1>8, <1>12

LEMMA CopyStep ==
    ASSUME IInv, NEW k \in 1 .. todo, Copy(k)
    PROVE  IInv' /\ (Abstract!Contribute(Leader) \/ UNCHANGED <<flips, Owes, round>>)
<1>1. /\ at[Leader] = "copy" /\ Apply(0, k, TRUE) /\ todo' = todo - k
      /\ at' = IF todo = k THEN [at EXCEPT ![Leader] = "wait"] ELSE at
      /\ UNCHANGED <<parity, round>>
  BY DEF Copy
<1>2. /\ k \in Nat /\ k <= bar.tx /\ AfterTx(bar, k, TRUE) = todo'
      /\ todo' \in 0 .. Total /\ todo \in 0 .. Total
  BY <1>1, Facts, PhasesAssumption DEF AfterTx, IInv, TypeOK
<1>3. round[Leader] = flips /\ Leader \notin Missing
  BY <1>1, Facts, PhasesAssumption DEF IInv, Missing
<1>4. Missing \ {Leader} = Missing /\ bar.pending = Cardinality(Missing)
  BY <1>3 DEF IInv
<1>5. CASE todo = k
  <2>1. todo' = 0 /\ at' = [at EXCEPT ![Leader] = "wait"]
    BY <1>1, <1>2, <1>5
  <2>2. 0 <= bar.pending /\ bar.pending - 0 = Cardinality(Missing \ {Leader})
    BY <1>4, Facts
  <2>3. QED
    BY <1>1, <1>2, <2>1, <2>2, ContributeStep, PhasesAssumption
<1>6. CASE todo # k
  <2>a. todo - k > 0
    BY <1>2, <1>6, PhasesAssumption
  <2>b. at' = at
    BY <1>1, <1>6
  <2>c. todo' > 0 /\ todo' \in Nat
    BY <1>1, <1>2, <2>a
  <2>d. AfterTx(bar, k, TRUE) # 0
    BY <2>a DEF AfterTx, IInv
  <2>1. todo' > 0 /\ at' = at /\ AfterTx(bar, k, TRUE) # 0
    BY <2>b, <2>c, <2>d
  <2>2. 0 <= bar.pending /\ bar.pending - 0 = bar.pending
    BY Facts
  <2>3. /\ flips' = flips /\ trapped' = FALSE /\ bar' \in State /\ Healthy'
        /\ bar'.phase = bar.phase /\ bar'.pending = bar.pending
        /\ bar'.tx = todo' /\ bar'.expected = bar.expected
    BY <1>1, <1>2, <2>1, <2>2, ApplyFacts
  <2>4. Missing' = Missing /\ Owes' = Owes
    BY <1>1, <2>1, <2>3 DEF Missing, Owes
  <2>5. TypeOK'
    <3>1. trapped' \in BOOLEAN
      BY <2>3
    <3>2. QED
      BY <1>1, <1>2, <2>1, <2>3, <3>1 DEF IInv, TypeOK
  <2>6. IInv'
    BY <1>1, <2>1, <2>3, <2>4, <2>5 DEF IInv
  <2>7. QED
    BY <1>1, <2>3, <2>4, <2>6
<1>7. QED
  BY <1>5, <1>6

\* The parity bit is enough: a poll succeeds exactly in the round behind the
\* current phase.
LEMMA PollSucceeds ==
    ASSUME IInv, NEW t \in Threads
    PROVE  /\ ~PhasechkTraps(bar)
           /\ Phasechk(bar, parity[t]) <=> round[t] + 1 = flips
<1>1. /\ round[t] \in Nat /\ flips \in Nat
      /\ round[t] = flips \/ round[t] + 1 = flips
      /\ bar.phase = flips % 2 /\ parity[t] = round[t] % 2
  BY Facts DEF IInv
<1>2. flips % 2 # round[t] % 2 <=> round[t] + 1 = flips
  BY <1>1
<1>3. QED
  BY <1>1, <1>2 DEF IInv, Healthy, Phasechk, PhasechkTraps

LEMMA PollStep ==
    ASSUME IInv, NEW t \in Threads, Poll(t)
    PROVE  IInv' /\ (Abstract!Pass(t) \/ UNCHANGED <<flips, Owes, round>>)
<1>1. /\ at[t] = "wait" /\ trapped' = PhasechkTraps(bar)
      /\ UNCHANGED <<bar, todo, flips>>
  BY DEF Poll
<1>2. trapped' = FALSE /\ trapped' \in BOOLEAN
  BY <1>1 DEF IInv, Healthy, PhasechkTraps
<1>3. CASE round[t] + 1 # flips
  <2>1. UNCHANGED <<parity, round, at>>
    BY <1>3, PollSucceeds DEF Poll
  <2>2. Missing' = Missing /\ Owes' = Owes /\ Healthy'
    BY <1>1, <2>1 DEF Missing, Owes, Healthy, IInv
  <2>3. TypeOK'
    BY <1>1, <1>2, <2>1 DEF IInv, TypeOK
  <2>4. IInv'
    BY <1>1, <1>2, <2>1, <2>2, <2>3 DEF IInv
  <2>5. QED
    BY <1>1, <2>1, <2>2, <2>4
<1>4. CASE round[t] + 1 = flips
  <2>1. /\ parity' = [parity EXCEPT ![t] = 1 - @]
        /\ round' = [round EXCEPT ![t] = @ + 1]
        /\ at' = [at EXCEPT ![t] = "arrive"]
    BY <1>4, PollSucceeds DEF Poll
  <2>2. /\ round \in [Threads -> Nat] /\ parity \in [Threads -> {0, 1}]
        /\ at \in [Threads -> {"arrive", "copy", "wait"}]
    BY DEF IInv, TypeOK
  <2>3. /\ at' \in [Threads -> {"arrive", "copy", "wait"}]
        /\ parity' \in [Threads -> {0, 1}] /\ round' \in [Threads -> Nat]
        /\ at'[t] = "arrive" /\ round'[t] = flips
        /\ parity'[t] = 1 - parity[t]
        /\ \A u \in Threads \ {t} : /\ at'[u] = at[u]
                                    /\ round'[u] = round[u]
                                    /\ parity'[u] = parity[u]
    BY <1>4, <2>1, <2>2
  <2>4. round[t] < flips
    BY <1>4, Facts
  <2>5. Missing' = Missing /\ Owes' = Owes
    BY <1>1, <2>3, <2>4, Facts DEF Missing, Owes
  <2>6. TypeOK' /\ Healthy'
    BY <1>1, <1>2, <2>3 DEF IInv, TypeOK, Healthy
  <2>7. parity'[t] = round'[t] % 2
    <3>1. parity[t] = round[t] % 2 /\ round[t] \in Nat /\ flips = round[t] + 1
      BY <1>4, Facts DEF IInv
    <3>2. (round[t] + 1) % 2 = 1 - (round[t] % 2)
      BY <3>1
    <3>3. QED
      BY <2>3, <3>1, <3>2
  <2>8. at[t] # "copy" /\ at'[t] # "copy" /\ (at'[Leader] = "copy" <=> at[Leader] = "copy")
    BY <1>1, <2>3, PhasesAssumption
  <2>9. \A u \in Threads :
          /\ at'[u] = "copy" => u = Leader
          /\ \/ round'[u] = flips'
             \/ round'[u] + 1 = flips' /\ at'[u] = "wait"
          /\ parity'[u] = round'[u] % 2
    BY <1>1, <2>3, <2>7 DEF IInv
  <2>10. IInv'
    BY <1>1, <1>2, <2>5, <2>6, <2>8, <2>9 DEF IInv
  <2>11. Abstract!Pass(t)
    BY <1>1, <2>1, <2>4, <2>5 DEF Abstract!Pass, Owes
  <2>12. QED
    BY <2>10, <2>11
<1>5. QED
  BY <1>3, <1>4

-----------------------------------------------------------------------------
(* The theorems.                                                           *)

LEMMA AbstractSteps ==
    ASSUME IInv, [Next]_vars
    PROVE  IInv' /\ [Abstract!Next]_(Abstract!pbvars)
<1> DEFINE Same == UNCHANGED <<flips, Owes, round>>
<1>1. ASSUME NEW t \in Threads, Abstract!Contribute(t) \/ Abstract!Pass(t)
      PROVE  Abstract!Next
  BY <1>1 DEF Abstract!Next
<1>2. Same => UNCHANGED Abstract!pbvars
  BY DEF Abstract!pbvars, Owes
<1>3. CASE UNCHANGED vars
  <2>1. Same /\ Missing' = Missing /\ Healthy'
    BY <1>3 DEF vars, Owes, Missing, Healthy, IInv
  <2>2. IInv'
    BY <1>3, <2>1 DEF vars, IInv, TypeOK
  <2>3. QED
    BY <1>2, <2>1, <2>2
<1>4. CASE Over
  BY <1>3, <1>4 DEF Over
<1>5. ASSUME NEW t \in Threads, Step(t)
      PROVE  IInv' /\ [Abstract!Next]_(Abstract!pbvars)
  <2> HIDE DEF Same
  <2>1. CASE Arrive(t)
    BY <1>1, <2>1, ArriveStep
  <2>2. CASE ArriveExpect
    <3>1. IInv' /\ Same
      BY <2>2, ArriveExpectStep DEF Same
    <3>2. QED
      BY <1>2, <3>1
  <2>3. ASSUME NEW k \in 1 .. todo, Copy(k)
        PROVE  IInv' /\ [Abstract!Next]_(Abstract!pbvars)
    <3>1. IInv' /\ (Abstract!Contribute(Leader) \/ Same)
      BY <2>3, CopyStep DEF Same
    <3>2. QED
      BY <1>1, <1>2, <3>1, PhasesAssumption
  <2>4. CASE Poll(t)
    <3>1. IInv' /\ (Abstract!Pass(t) \/ Same)
      BY <2>4, PollStep DEF Same
    <3>2. QED
      BY <1>1, <1>2, <3>1
  <2>5. QED
    BY <1>5, <2>1, <2>2, <2>3, <2>4 DEF Step
<1>6. QED
  BY <1>3, <1>4, <1>5 DEF Next

\* The invariant that ties the barrier's counters to the warps is inductive.
THEOREM PhasesInvariance == Spec => []IInv
<1>1. Init => IInv
  BY InitIInv
<1>2. IInv /\ [Next]_vars => IInv'
  BY AbstractSteps
<1>3. QED
  BY <1>1, <1>2, PTL DEF Spec

\* A kernel that keeps the protocol never meets a fault of mbarrier_arrive or
\* mbarrier_phasechk, for any number of warps, bytes and rounds.
THEOREM ProtocolNeverTraps == Spec => []NeverTraps
<1>1. IInv => NeverTraps
  BY DEF IInv, Healthy, NeverTraps
<1>2. QED
  BY <1>1, PhasesInvariance, PTL

\* The counters and the parity bit of the mbarrier implement the unbounded
\* phased barrier.
THEOREM Refinement == Spec => ImplementsPhaseBarrier
<1>1. Init => Abstract!Init
  <2> SUFFICES ASSUME Init PROVE Abstract!Init
    OBVIOUS
  <2>1. Owes = Threads
    BY DEF Init, Owes
  <2>2. QED
    BY <2>1 DEF Init, Abstract!Init, Owes
<1>2. IInv /\ [Next]_vars => [Abstract!Next]_(Abstract!pbvars)
  BY AbstractSteps
<1>3. QED
  BY <1>1, <1>2, PhasesInvariance, PTL
  DEF Spec, ImplementsPhaseBarrier, Abstract!Spec

\* No warp leaves a round before every warp arrived in it and every byte of
\* it landed.
THEOREM PassTogether == Spec => PassesTogether
<1> DEFINE Together(t) ==
       round'[t] > round[t] =>
         \A u \in Threads : \/ round[u] > round[t]
                            \/ round[u] = round[t] /\ at[u] = "wait"
<1>1. ASSUME IInv, [Next]_vars, NEW t \in Threads PROVE Together(t)
  <2>1. CASE UNCHANGED round
    BY <2>1, Facts, <1>1
  <2>2. ASSUME NEW u \in Threads, Poll(u) PROVE Together(t)
    <3>1. CASE round[u] + 1 = flips
      <4>1. round' = [round EXCEPT ![u] = @ + 1]
        BY <1>1, <2>2, <3>1, PollSucceeds DEF Poll
      <4>2. CASE t = u
        BY <1>1, <3>1, <4>2, Facts DEF IInv
      <4>3. CASE t # u
        <5>1. round'[t] = round[t] /\ round[t] \in Nat
          BY <1>1, <4>1, <4>3, Facts DEF IInv, TypeOK
        <5>2. QED
          BY <5>1
      <4>4. QED
        BY <4>2, <4>3
    <3>2. CASE round[u] + 1 # flips
      BY <1>1, <2>1, <2>2, <3>2, PollSucceeds DEF Poll
    <3>3. QED
      BY <3>1, <3>2
  <2>3. ASSUME NEW u \in Threads,
               Arrive(u) \/ ArriveExpect \/ \E k \in 1 .. todo : Copy(k)
        PROVE  UNCHANGED round
    BY <2>3 DEF Arrive, ArriveExpect, Copy
  <2>4. CASE UNCHANGED vars \/ Over
    BY <2>1, <2>4 DEF vars, Over
  <2> HIDE DEF Together
  <2>5. QED
    BY <1>1, <2>1, <2>2, <2>3, <2>4 DEF Next, Step
<1>2. IInv /\ [Next]_vars => [\A t \in Threads : Together(t)]_vars
  BY <1>1
<1>3. QED
  BY <1>2, PhasesInvariance, PTL DEF Spec, PassesTogether

=============================================================================
