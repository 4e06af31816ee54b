---------------------------- MODULE CtaAsyncProofs ----------------------------
(***************************************************************************)
(* Proofs about the asynchronous state of a CTA, for every set of          *)
(* addresses, operands, scoreboards and every field width.                 *)
(***************************************************************************)
EXTENDS CtaAsync, FiniteSetTheorems, TLAPS

\* The remainders of the field arithmetic are field values.
LEMMA FieldRange ==
    ASSUME NEW m \in Nat \ {0}, NEW x \in Int
    PROVE  (m - x) % m \in 0 .. m - 1
  OBVIOUS

\* Encode yields a word.
LEMMA EncodeType ==
    ASSUME NEW s \in State
    PROVE  Encode(s) \in Word
  <1>1. s.expected \in Int /\ s.tx \in Int /\ s.pending \in Int
        /\ s.locked \in BOOLEAN /\ s.phase \in {0, 1}
    BY DEF State
  <1>2. (CountMod - s.expected) % CountMod \in 0 .. CountMod - 1
    BY <1>1, FieldRange, FieldsAssumption
  <1>3. (CountMod - s.pending) % CountMod \in 0 .. CountMod - 1
    BY <1>1, FieldRange, FieldsAssumption
  <1>4. (TxMod - s.tx) % TxMod \in 0 .. TxMod - 1
    BY <1>1, FieldRange, FieldsAssumption
  <1> QED  BY <1>1, <1>2, <1>3, <1>4 DEF Encode, Word

\* A seeded barrier is a state, and owes exactly the arrivals it expects.
LEMMA SeedType ==
    ASSUME NEW w \in Word
    PROVE  /\ FromInitWord(w) \in State
           /\ FromInitWord(w).pending = FromInitWord(w).expected
  <1>1. (CountMod - w.expected) % CountMod \in 0 .. CountMod - 1
    BY FieldRange, FieldsAssumption DEF Word
  <1>2. w.lock \in BOOLEAN /\ w.phase \in {0, 1}
    BY DEF Word
  <1> QED  BY <1>1, <1>2, FieldsAssumption DEF FromInitWord, State

\* What NoMissedCompletion says of one entry.
Sound(s) ==
    Usable(s) /\ s.expected > 0 =>
      s.pending <= s.expected /\ (s.pending > 0 \/ s.tx > 0)

\* A phase that has drained is completed, so the state at rest is sound.
LEMMA SettleSound ==
    ASSUME NEW s \in State, Usable(s) /\ s.expected > 0 => s.pending <= s.expected
    PROVE  Settle(s) \in State /\ Sound(Settle(s))
  <1>1. CASE s.pending = 0 /\ s.tx = 0
    <2>1. Settle(s) = [s EXCEPT !.phase = 1 - @, !.pending = s.expected]
      BY <1>1 DEF Settle
    <2>2. 1 - s.phase \in {0, 1} /\ s.expected \in Nat
      BY DEF State
    <2>3. Settle(s) \in State
      BY <2>1, <2>2 DEF State
    <2>4. Settle(s).pending = s.expected /\ Settle(s).expected = s.expected
      BY <2>1 DEF State
    <2> QED  BY <2>2, <2>3, <2>4 DEF Sound
  <1>2. CASE ~(s.pending = 0 /\ s.tx = 0)
    BY <1>2 DEF Settle, Sound, State
  <1> QED  BY <1>1, <1>2

\* mbarrier_arrive keeps the state well formed and sound.
LEMMA ArrivedSound ==
    ASSUME NEW s \in State, Sound(s),
           NEW inc \in Nat, NEW k \in Nat, NEW c \in BOOLEAN
    PROVE  Arrived(s, inc, k, c) \in State /\ Sound(Arrived(s, inc, k, c))
  <1>1. CASE Refused(s) \/ s.locked
    <2>1. Arrived(s, inc, k, c) = s
      BY <1>1 DEF Arrived
    <2> QED  BY <2>1
  <1>2. CASE ~(Refused(s) \/ s.locked) /\ Underflow(s, k, c)
    <2>1. Arrived(s, inc, k, c) = [s EXCEPT !.tx = 0, !.corrupted = TRUE]
      BY <1>2 DEF Arrived
    <2> DEFINE t == [s EXCEPT !.tx = 0]
    <2>2. t \in State /\ Arrived(s, inc, k, c) = [t EXCEPT !.corrupted = TRUE]
      BY <2>1 DEF State
    <2> HIDE DEF t
    <2>3. Arrived(s, inc, k, c) \in State
      BY <2>2 DEF State
    <2>4. Arrived(s, inc, k, c).corrupted
      BY <2>2 DEF State
    <2> QED  BY <2>3, <2>4 DEF Sound, Usable
  <1>3. CASE ~(Refused(s) \/ s.locked) /\ ~Underflow(s, k, c)
    <2>1. AfterTx(s, k, c) \in Nat
      BY <1>3 DEF AfterTx, Underflow, State
    <2>2. CASE inc > s.pending
      <3>1. Arrived(s, inc, k, c)
              = [s EXCEPT !.tx = AfterTx(s, k, c), !.locked = TRUE]
        BY <1>3, <2>2 DEF Arrived
      <3> QED  BY <2>1, <3>1 DEF State, Sound, Usable
    <2>3. CASE ~(inc > s.pending)
      <3> DEFINE n == [s EXCEPT !.tx = AfterTx(s, k, c), !.pending = @ - inc]
      <3>1. Arrived(s, inc, k, c) = Settle(n)
        BY <1>3, <2>3 DEF Arrived
      <3>2. s.pending - inc \in Nat /\ s.pending - inc <= s.pending
        BY <2>3 DEF State
      <3>3. n \in State
        BY <2>1, <3>2 DEF State
      <3>4. n.expected = s.expected /\ n.pending = s.pending - inc
            /\ (Usable(n) <=> Usable(s))
        BY DEF State, Usable
      <3>5. Usable(n) /\ n.expected > 0 => n.pending <= n.expected
        BY <3>2, <3>4 DEF Sound, State
      <3> QED  BY <3>1, <3>3, <3>5, SettleSound
    <2> QED  BY <2>2, <2>3
  <1> QED  BY <1>1, <1>2, <1>3

\* The inductive invariant: the words and entries are well formed, and every
\* entry is sound.
BarrierInv ==
    /\ word \in [Window -> Word]
    /\ entry \in [Addrs -> State \cup {NoEntry}]
    /\ \A a \in Addrs : entry[a] # NoEntry => Sound(entry[a])

\* mbarrier_at returns a sound state.
LEMMA AtSound ==
    ASSUME BarrierInv, NEW a \in Addrs
    PROVE  At(a) \in State /\ Sound(At(a))
  <1>1. CASE entry[a] # NoEntry
    BY <1>1 DEF At, BarrierInv
  <1>2. CASE entry[a] = NoEntry /\ a \in Window /\ word[a] # ZeroWord
    <2>1. At(a) = FromInitWord(word[a]) /\ word[a] \in Word
      BY <1>2 DEF At, BarrierInv
    <2>2. At(a) \in State /\ At(a).pending = At(a).expected
      BY <2>1, SeedType
    <2> QED  BY <2>2 DEF Sound, State
  <1>3. CASE entry[a] = NoEntry /\ ~(a \in Window /\ word[a] # ZeroWord)
    BY <1>3 DEF At, Uninitialized, State, Sound, Usable
  <1> QED  BY <1>1, <1>2, <1>3

\* Replacing one entry by a sound state preserves the invariant.
LEMMA PutSound ==
    ASSUME BarrierInv, NEW a \in Addrs, NEW s \in State, Sound(s),
           entry' = [entry EXCEPT ![a] = s], word' \in [Window -> Word]
    PROVE  BarrierInv'
  BY AsyncAssumption DEF BarrierInv

\* One mbarrier_arrive by a handler.
LEMMA ApplySound ==
    ASSUME BarrierInv, NEW a \in Addrs,
           NEW inc \in Nat, NEW k \in Nat, NEW c \in BOOLEAN, Apply(a, inc, k, c)
    PROVE  BarrierInv'
  <1> DEFINE n == Arrived(At(a), inc, k, c)
  <1>1. n \in State /\ Sound(n)
    BY AtSound, ArrivedSound
  <1>2. entry' = [entry EXCEPT ![a] = n]
    BY DEF Apply
  <1>3. entry'[a] = n
    BY <1>2 DEF BarrierInv
  <1>4. Encode(n) \in Word
    BY <1>1, EncodeType
  <1>5. word' \in [Window -> Word]
    BY <1>3, <1>4 DEF Apply, BarrierInv
  <1> QED  BY <1>1, <1>2, <1>5, PutSound

\* An exchange that writes a word.
LEMMA ReseedSound ==
    ASSUME BarrierInv, NEW a \in Window, NEW w \in Words, Reseed(a, w)
    PROVE  BarrierInv'
  <1>1. a \in Addrs /\ w \in Word
    BY AsyncAssumption
  <1>2. word' \in [Window -> Word]
    BY <1>1 DEF Reseed, BarrierInv
  <1>3. CASE w = ZeroWord
    <2>1. entry' = [entry EXCEPT ![a] = NoEntry]
      BY <1>3 DEF Reseed
    <2> QED  BY <1>1, <1>2, <2>1 DEF BarrierInv
  <1>4. CASE w # ZeroWord
    <2>1. entry' = [entry EXCEPT ![a] = FromInitWord(w)]
      BY <1>4 DEF Reseed
    <2>2. FromInitWord(w) \in State /\ Sound(FromInitWord(w))
      BY <1>1, SeedType DEF Sound, State
    <2> QED  BY <1>1, <1>2, <2>1, <2>2, PutSound
  <1> QED  BY <1>3, <1>4

\* The group bookkeeping holds numbers: what ARRIVES completes is one.
GroupInv ==
    /\ open \in Nat
    /\ groups \in Seq(Nat)
    /\ count \in [Scoreboards -> Nat]

\* Every instruction preserves the group bookkeeping.
LEMMA GroupStep ==
    ASSUME GroupInv, [Next]_vars
    PROVE  GroupInv'
  <1>a. ASSUME UNCHANGED async PROVE GroupInv'
    BY <1>a DEF async, GroupInv
  <1>1. ASSUME NEW a \in Addrs,
               \/ Arrive(a) \/ PhaseCheck(a) \/ Touch(a) \/ CctlIv(a)
               \/ Arrives(a) \/ Unsupported(a)
               \/ \E w \in Words : Exch(a, w) \/ Cas(a, w)
               \/ \E w \in Stored : Sts(a, w)
               \/ \E k \in Bytes : Utmaldg(a, k)
        PROVE  GroupInv'
    BY <1>1, <1>a DEF Arrive, PhaseCheck, Touch, CctlIv, Arrives, Unsupported,
                      Exch, Cas, Sts, Utmaldg
  <1>2. CASE CctlIvAll
    BY <1>2, <1>a DEF CctlIvAll
  <1>3. ASSUME NEW k \in Bytes, Ldgsts(k) PROVE GroupInv'
    <2>1. k \in Nat
      BY AsyncAssumption
    <2> QED  BY <1>3, <2>1 DEF Ldgsts, GroupInv
  <1>4. ASSUME NEW s \in Scoreboards \cup {NoScoreboard}, Commit(s)
        PROVE  GroupInv'
    <2>1. CASE open > 0
      <3>1. /\ open' = 0 /\ groups' = Append(groups, open)
            /\ count' = IF s \in Scoreboards THEN [count EXCEPT ![s] = @ + 1]
                       ELSE count
        BY <1>4, <2>1 DEF Commit, Seal
      <3>2. count' \in [Scoreboards -> Nat]
        BY <3>1 DEF GroupInv
      <3> QED  BY <3>1, <3>2 DEF GroupInv
    <2>2. CASE ~(open > 0)
      BY <1>4, <2>2, <1>a DEF Commit, Seal
    <2> QED  BY <2>1, <2>2
  <1>5. ASSUME NEW s \in Scoreboards, NEW n \in 0 .. MaxGroups, DepbarLe(s, n)
        PROVE  GroupInv'
    <2>1. n \in Nat
      BY AsyncAssumption
    <2>2. CASE count[s] > n
      <3> DEFINE left == Len(groups) - (count[s] - n)
      <3>1. left \in Int /\ left <= Len(groups)
        BY <2>1, <2>2 DEF GroupInv
      <3>2. left > 0 => SubSeq(groups, 1, left) \in Seq(Nat)
        BY <3>1 DEF GroupInv
      <3>3. groups' = IF left > 0 THEN SubSeq(groups, 1, left) ELSE <<>>
        BY <1>5, <2>2 DEF DepbarLe, Drain
      <3>4. groups' \in Seq(Nat)
        BY <3>2, <3>3
      <3> QED  BY <1>5, <2>1, <2>2, <3>4 DEF DepbarLe, Drain, GroupInv
    <2>3. CASE ~(count[s] > n)
      BY <1>5, <2>3, <1>a DEF DepbarLe, Drain, async
    <2> QED  BY <2>2, <2>3
  <1>6. CASE DepbarAll
    BY <1>6 DEF DepbarAll, GroupInv
  <1>7. CASE UNCHANGED vars
    BY <1>7, <1>a DEF vars, async
  <1> QED  BY <1>1, <1>2, <1>3, <1>4, <1>5, <1>6, <1>7 DEF Next

\* Every instruction preserves the barriers' invariant.
LEMMA BarrierStep ==
    ASSUME BarrierInv, GroupInv, [Next]_vars
    PROVE  BarrierInv'
  <1>a. ASSUME UNCHANGED barriers PROVE BarrierInv'
    BY <1>a DEF barriers, BarrierInv
  <1>b. ASSUME NEW a \in Addrs, NEW s \in State, Sound(s),
               entry' = [entry EXCEPT ![a] = s], word' = word
        PROVE  BarrierInv'
    BY <1>b, PutSound DEF BarrierInv
  <1>c. ASSUME NEW a \in Addrs PROVE At(a) \in State /\ Sound(At(a))
    BY <1>c, AtSound
  <1>d. ASSUME NEW s \in State
        PROVE  Invalidate(s) \in State /\ Sound(Invalidate(s))
    <2>1. Invalidate(s) \in State
      BY DEF Invalidate, State
    <2>2. Invalidate(s).invalid
      BY DEF Invalidate, State
    <2> QED  BY <2>1, <2>2 DEF Sound, Usable
  <1>1. ASSUME NEW a \in Addrs, Arrive(a) PROVE BarrierInv'
    <2>1. CASE A1T0(a) \/ A0T1(a)
      BY <2>1, ApplySound DEF A1T0, A0T1
    <2>2. ASSUME NEW r \in Operands,
                 A1TR(a, r) \/ A0TR(a, r) \/ A0TX(a, r) \/ ART0(a, r)
          PROVE  BarrierInv'
      <3>1. r \in Nat
        BY AsyncAssumption
      <3> QED  BY <2>2, <3>1, ApplySound DEF A1TR, A0TR, A0TX, ART0
    <2> QED  BY <1>1, <2>1, <2>2 DEF Arrive
  <1>2. ASSUME NEW a \in Addrs, PhaseCheck(a) \/ Touch(a) PROVE BarrierInv'
    BY <1>2, <1>b, <1>c DEF PhaseCheck, Touch
  <1>3. ASSUME NEW a \in Addrs, CctlIv(a) PROVE BarrierInv'
    BY <1>3, <1>b, <1>c, <1>d DEF CctlIv
  <1>4. ASSUME NEW a \in Addrs, Arrives(a) PROVE BarrierInv'
    <2>1. GroupBytes \in Nat
      BY DEF GroupBytes, Last, GroupInv
    <2>2. CASE GroupBytes > 0
      <3>1. Apply(a, 0, GroupBytes, TRUE)
        BY <1>4, <2>2 DEF Arrives
      <3> QED  BY <2>1, <3>1, ApplySound
    <2>3. CASE ~(GroupBytes > 0)
      BY <1>4, <2>3, <1>b, <1>c DEF Arrives
    <2> QED  BY <2>2, <2>3
  <1>5. ASSUME NEW a \in Addrs, Unsupported(a) PROVE BarrierInv'
    <2>1. CASE entry' = entry
      BY <1>5, <2>1, <1>a DEF Unsupported, barriers
    <2>2. CASE entry' = [entry EXCEPT ![a] = At(a)]
      BY <1>5, <2>2, <1>b, <1>c DEF Unsupported
    <2> QED  BY <1>5, <2>1, <2>2 DEF Unsupported
  <1>6. ASSUME NEW a \in Addrs, NEW w \in Words, Exch(a, w) \/ Cas(a, w)
        PROVE  BarrierInv'
    <2>1. CASE a \in Window /\ Reseed(a, w)
      BY <2>1, ReseedSound
    <2>2. CASE UNCHANGED barriers
      BY <2>2, <1>a
    <2> QED  BY <1>6, <2>1, <2>2 DEF Exch, Cas
  <1>7. ASSUME NEW a \in Addrs, NEW w \in Stored, Sts(a, w) PROVE BarrierInv'
    <2>1. w \in Word
      BY AsyncAssumption
    <2> QED  BY <1>7, <2>1 DEF Sts, BarrierInv
  <1>8. ASSUME NEW a \in Addrs, NEW k \in Bytes, Utmaldg(a, k) PROVE BarrierInv'
    <2>1. k \in Nat
      BY AsyncAssumption
    <2>2. CASE Apply(a, 0, k, TRUE)
      BY <2>1, <2>2, ApplySound
    <2> QED  BY <1>8, <2>2, <1>a DEF Utmaldg
  <1>9. CASE CctlIvAll
    <2>1. \A a \in Addrs : entry'[a] = IF entry[a] = NoEntry THEN NoEntry
                                       ELSE Invalidate(entry[a])
      BY <1>9 DEF CctlIvAll
    <2>2. \A a \in Addrs : entry'[a] \in State \cup {NoEntry}
                           /\ (entry'[a] # NoEntry => Sound(entry'[a]))
      BY <2>1, <1>d DEF BarrierInv
    <2>3. entry' \in [Addrs -> State \cup {NoEntry}]
      BY <1>9, <2>1, <2>2 DEF CctlIvAll
    <2> QED  BY <1>9, <2>2, <2>3 DEF CctlIvAll, BarrierInv
  <1>10. ASSUME NEW k \in Bytes, Ldgsts(k) PROVE BarrierInv'
    BY <1>10, <1>a DEF Ldgsts
  <1>11. ASSUME NEW s \in Scoreboards \cup {NoScoreboard}, Commit(s)
         PROVE  BarrierInv'
    BY <1>11, <1>a DEF Commit
  <1>12. ASSUME NEW s \in Scoreboards, NEW n \in 0 .. MaxGroups, DepbarLe(s, n)
         PROVE  BarrierInv'
    BY <1>12, <1>a DEF DepbarLe
  <1>13. CASE DepbarAll
    BY <1>13, <1>a DEF DepbarAll
  <1>14. CASE UNCHANGED vars
    BY <1>14, <1>a DEF vars, barriers
  <1> QED  BY <1>1, <1>2, <1>3, <1>4, <1>5, <1>6, <1>7, <1>8, <1>9, <1>10,
              <1>11, <1>12, <1>13, <1>14 DEF Next

\* The invariant is inductive: every SYNCS, ARRIVES, UTMALDG, LDGSTS, commit
\* and DEPBAR step, and a plain store to a barrier word, preserve it.
THEOREM AsyncInvariance == Spec => [](BarrierInv /\ GroupInv)
  <1>1. Init => BarrierInv /\ GroupInv
    <2>1. ZeroWord \in Word
      BY FieldsAssumption DEF ZeroWord, Word
    <2> QED  BY <2>1 DEF Init, BarrierInv, GroupInv
  <1>2. BarrierInv /\ GroupInv /\ [Next]_vars => BarrierInv' /\ GroupInv'
    BY BarrierStep, GroupStep
  <1> QED  BY <1>1, <1>2, PTL DEF Spec

\* No mbarrier_arrive leaves a drained phase uncompleted, whatever the order
\* of arrivals, expected and completed bytes, and re-initialisations.
THEOREM NoCompletionMissed == Spec => []NoMissedCompletion
  <1>1. BarrierInv => NoMissedCompletion
    BY DEF BarrierInv, NoMissedCompletion, Sound
  <1> QED  BY <1>1, AsyncInvariance, PTL

-----------------------------------------------------------------------------
(* The word in shared memory.                                              *)

\* Negating a field value twice gives it back.
LEMMA FieldInverse ==
    ASSUME NEW m \in Nat \ {0}, NEW x \in 0 .. m - 1
    PROVE  (m - ((m - x) % m)) % m = x
  <1>1. CASE x = 0
    <2>1. (m - x) % m = 0
      BY <1>1
    <2> QED  BY <1>1, <2>1
  <1>2. CASE x # 0
    <2>1. (m - x) % m = m - x
      BY <1>2
    <2>2. m - (m - x) = x
      OBVIOUS
    <2> QED  BY <2>1, <2>2
  <1> QED  BY <1>1, <1>2

\* from_init_word and encode are inverse on the fresh words.
LEMMA SeedMirrors ==
    ASSUME NEW w \in Word, FreshWord(w)
    PROVE  Encode(FromInitWord(w)) = w
  <1>1. /\ w.expected \in 0 .. CountMod - 1 /\ w.arrive = w.expected
        /\ w.tx = 0
    BY DEF Word, FreshWord
  <1>2. (CountMod - ((CountMod - w.expected) % CountMod)) % CountMod = w.expected
    BY <1>1, FieldInverse, FieldsAssumption
  <1>3. (TxMod - 0) % TxMod = 0
    BY FieldsAssumption
  <1>4. w = [expected |-> w.expected, tx |-> w.tx, lock |-> w.lock,
             arrive |-> w.arrive, phase |-> w.phase]
    BY DEF Word
  <1>5. Encode(FromInitWord(w))
          = [expected |-> w.expected, tx |-> 0, lock |-> w.lock,
             arrive |-> w.expected, phase |-> w.phase]
    BY <1>2, <1>3 DEF Encode, FromInitWord
  <1> QED  BY <1>1, <1>4, <1>5

\* The zero word is what a barrier never initialised encodes to.
LEMMA ZeroMirrors == ZeroWord \in Word /\ FreshWord(ZeroWord) /\ Encode(Uninitialized) = ZeroWord
  <1>1. (CountMod - 0) % CountMod = 0 /\ (TxMod - 0) % TxMod = 0
    BY FieldsAssumption
  <1>2. Encode(Uninitialized) = ZeroWord
    BY <1>1 DEF Encode, Uninitialized, ZeroWord
  <1> QED  BY <1>2, FieldsAssumption DEF ZeroWord, Word, FreshWord

\* Invalidation is not visible in the word.
LEMMA InvalidMirrors ==
    ASSUME NEW s \in State
    PROVE  Encode(Invalidate(s)) = Encode(s)
  <1>1. /\ Invalidate(s).expected = s.expected /\ Invalidate(s).tx = s.tx
        /\ Invalidate(s).locked = s.locked /\ Invalidate(s).pending = s.pending
        /\ Invalidate(s).phase = s.phase
    BY DEF Invalidate, State
  <1> QED  BY <1>1 DEF Encode

\* What holds of the word of address a: it mirrors the entry, or, before
\* there is one, is a word the entry will be seeded from exactly.
Mirror(a) ==
    IF entry[a] = NoEntry THEN FreshWord(word[a]) ELSE word[a] = Encode(entry[a])

MirrorInv == ~fault => \A a \in Window \ stored : Mirror(a)

\* mbarrier_at adds an entry the word already mirrors.
LEMMA AtMirrors ==
    ASSUME BarrierInv, NEW a \in Window, Mirror(a)
    PROVE  word[a] = Encode(At(a))
  <1>1. CASE entry[a] # NoEntry
    BY <1>1 DEF At, Mirror
  <1>2. CASE entry[a] = NoEntry /\ word[a] # ZeroWord
    BY <1>2, SeedMirrors DEF At, Mirror, BarrierInv
  <1>3. CASE entry[a] = NoEntry /\ word[a] = ZeroWord
    BY <1>3, ZeroMirrors DEF At
  <1> QED  BY <1>1, <1>2, <1>3

\* Every instruction keeps the words mirrored.
LEMMA MirrorStep ==
    ASSUME BarrierInv, GroupInv, MirrorInv, [Next]_vars
    PROVE  MirrorInv'
  <1> SUFFICES ASSUME ~fault', NEW b \in Window \ stored' PROVE Mirror(b)'
    BY DEF MirrorInv
  <1>w. b \in Addrs /\ b \in Window
    BY AsyncAssumption
  <1>a. ASSUME word'[b] = word[b], entry'[b] = entry[b], ~fault, b \notin stored
        PROVE  Mirror(b)'
    BY <1>a DEF MirrorInv, Mirror
  <1>b. ASSUME NEW a \in Addrs, entry' = [entry EXCEPT ![a] = At(a)],
               word' = word, stored' = stored, ~fault
        PROVE  Mirror(b)'
    <2>1. Mirror(b)
      BY <1>b DEF MirrorInv
    <2>2. CASE a = b
      <3>1. entry'[b] = At(b) /\ At(b) # NoEntry
        BY <1>b, <2>2, AtSound, AsyncAssumption DEF BarrierInv
      <3> QED  BY <1>b, <2>1, <3>1, AtMirrors DEF Mirror
    <2>3. CASE a # b
      BY <1>b, <2>3, <1>a, <1>w DEF BarrierInv
    <2> QED  BY <2>2, <2>3
  <1>c. ASSUME NEW a \in Addrs, NEW inc \in Nat, NEW k \in Nat,
               NEW c \in BOOLEAN, Apply(a, inc, k, c), ~fault
        PROVE  Mirror(b)'
    <2>1. Arrived(At(a), inc, k, c) \in State
      BY AtSound, ArrivedSound
    <2>2. CASE a = b
      <3>1. entry'[b] = Arrived(At(a), inc, k, c) /\ entry'[b] # NoEntry
        BY <1>c, <1>w, <2>1, <2>2, AsyncAssumption DEF Apply, BarrierInv
      <3>2. word'[b] = Encode(entry'[b])
        BY <1>c, <1>w, <2>2 DEF Apply, BarrierInv
      <3> QED  BY <3>1, <3>2 DEF Mirror
    <2>3. CASE a # b
      <3>1. entry'[b] = entry[b] /\ word'[b] = word[b] /\ b \notin stored
        BY <1>c, <1>w, <2>3 DEF Apply, BarrierInv
      <3> QED  BY <1>c, <3>1, <1>a
    <2> QED  BY <2>2, <2>3
  <1>d. ASSUME NEW a \in Window, NEW w \in Words, Reseed(a, w), ~fault
        PROVE  Mirror(b)'
    <2>1. w \in Word /\ a \in Addrs
      BY AsyncAssumption
    <2>2. CASE a = b
      <3>1. FreshWord(w) /\ word'[b] = w
        BY <1>d, <2>2 DEF Reseed, BarrierInv
      <3>2. entry'[b] = IF w = ZeroWord THEN NoEntry ELSE FromInitWord(w)
        BY <1>d, <2>1, <2>2 DEF Reseed, BarrierInv
      <3>3. FromInitWord(w) # NoEntry
        BY <2>1, SeedType, AsyncAssumption
      <3> QED  BY <2>1, <3>1, <3>2, <3>3, SeedMirrors DEF Mirror
    <2>3. CASE a # b
      <3>1. entry'[b] = entry[b] /\ word'[b] = word[b] /\ b \notin stored
        BY <1>d, <1>w, <2>1, <2>3 DEF Reseed, BarrierInv
      <3> QED  BY <1>d, <3>1, <1>a
    <2> QED  BY <2>2, <2>3
  <1>1. ASSUME NEW a \in Addrs, Arrive(a) PROVE Mirror(b)'
    <2>1. CASE A1T0(a) \/ A0T1(a)
      BY <1>1, <2>1, <1>c DEF A1T0, A0T1, Arrive
    <2>2. ASSUME NEW r \in Operands,
                 A1TR(a, r) \/ A0TR(a, r) \/ A0TX(a, r) \/ ART0(a, r)
          PROVE  Mirror(b)'
      <3>1. r \in Nat /\ ~fault
        BY <1>1, AsyncAssumption DEF Arrive
      <3> QED  BY <2>2, <3>1, <1>c DEF A1TR, A0TR, A0TX, ART0
    <2> QED  BY <1>1, <2>1, <2>2 DEF Arrive
  <1>2. ASSUME NEW a \in Addrs, PhaseCheck(a) \/ Touch(a) PROVE Mirror(b)'
    BY <1>2, <1>b DEF PhaseCheck, Touch
  <1>3. ASSUME NEW a \in Addrs, CctlIv(a) PROVE Mirror(b)'
    <2>1. /\ entry' = [entry EXCEPT ![a] = Invalidate(At(a))]
          /\ word' = word /\ stored' = stored /\ ~fault
      BY <1>3 DEF CctlIv
    <2>2. Mirror(b)
      BY <2>1 DEF MirrorInv
    <2>3. CASE a = b
      <3>1. At(b) \in State /\ Invalidate(At(b)) \in State
        BY <1>w, AtSound DEF Invalidate, State
      <3>2. entry'[b] = Invalidate(At(b)) /\ entry'[b] # NoEntry
        BY <2>1, <2>3, <3>1, AsyncAssumption DEF BarrierInv
      <3>3. word'[b] = Encode(At(b))
        BY <2>1, <2>2, AtMirrors
      <3> QED  BY <3>1, <3>2, <3>3, InvalidMirrors DEF Mirror
    <2>4. CASE a # b
      BY <2>1, <2>4, <1>a, <1>w DEF BarrierInv
    <2> QED  BY <2>3, <2>4
  <1>4. ASSUME NEW a \in Addrs, Arrives(a) PROVE Mirror(b)'
    <2>1. GroupBytes \in Nat
      BY DEF GroupBytes, Last, GroupInv
    <2>2. CASE GroupBytes > 0
      <3>1. Apply(a, 0, GroupBytes, TRUE) /\ ~fault
        BY <1>4, <2>2 DEF Arrives
      <3> QED  BY <2>1, <3>1, <1>c
    <2>3. CASE ~(GroupBytes > 0)
      BY <1>4, <2>3, <1>b DEF Arrives
    <2> QED  BY <2>2, <2>3
  <1>6. ASSUME NEW a \in Addrs, NEW w \in Words, Exch(a, w) \/ Cas(a, w)
        PROVE  Mirror(b)'
    <2>1. CASE a \in Window /\ Reseed(a, w)
      BY <1>6, <2>1, <1>d DEF Exch, Cas
    <2>2. CASE UNCHANGED barriers
      BY <1>6, <2>2, <1>a DEF barriers, Exch, Cas
    <2> QED  BY <1>6, <2>1, <2>2 DEF Exch, Cas
  <1>7. ASSUME NEW a \in Addrs, NEW w \in Stored, Sts(a, w) PROVE Mirror(b)'
    <2>1. /\ a \in Window /\ ~fault /\ entry' = entry
          /\ word' = [word EXCEPT ![a] = w]
          /\ stored' = IF entry[a] = NoEntry /\ FreshWord(w)
                         THEN stored \ {a} ELSE stored \cup {a}
      BY <1>7 DEF Sts
    <2>2. CASE a = b
      BY <2>1, <2>2 DEF Mirror, BarrierInv
    <2>3. CASE a # b
      BY <2>1, <2>3, <1>a DEF BarrierInv
    <2> QED  BY <2>2, <2>3
  <1>8. ASSUME NEW a \in Addrs, NEW k \in Bytes, Utmaldg(a, k) PROVE Mirror(b)'
    <2>1. k \in Nat
      BY AsyncAssumption
    <2> QED  BY <1>8, <2>1, <1>c DEF Utmaldg
  <1>9. CASE CctlIvAll
    <2>1. /\ entry'[b] = IF entry[b] = NoEntry THEN NoEntry
                         ELSE Invalidate(entry[b])
          /\ word' = word /\ stored' = stored /\ ~fault
      BY <1>9, <1>w DEF CctlIvAll
    <2>2. Mirror(b)
      BY <2>1 DEF MirrorInv
    <2>3. CASE entry[b] = NoEntry
      BY <2>1, <2>2, <2>3 DEF Mirror
    <2>4. CASE entry[b] # NoEntry
      <3>1. entry[b] \in State /\ Invalidate(entry[b]) \in State
        BY <1>w, <2>4 DEF BarrierInv, Invalidate, State
      <3>2. Invalidate(entry[b]) # NoEntry
        BY <3>1, AsyncAssumption
      <3> QED  BY <2>1, <2>2, <2>4, <3>1, <3>2, InvalidMirrors DEF Mirror
    <2> QED  BY <2>3, <2>4
  <1>10. CASE UNCHANGED barriers /\ ~fault
    BY <1>10, <1>a DEF barriers
  <1>11. CASE UNCHANGED vars
    BY <1>11, <1>a DEF vars
  <1>12. ASSUME NEW a \in Addrs, Unsupported(a) PROVE FALSE
    BY <1>12 DEF Unsupported
  <1>13. ASSUME \/ \E k \in Bytes : Ldgsts(k)
                \/ \E s \in Scoreboards \cup {NoScoreboard} : Commit(s)
                \/ \E s \in Scoreboards, n \in 0 .. MaxGroups : DepbarLe(s, n)
                \/ DepbarAll
         PROVE  UNCHANGED barriers /\ ~fault
    BY <1>13 DEF Ldgsts, Commit, DepbarLe, DepbarAll
  <1> QED  BY <1>1, <1>2, <1>3, <1>4, <1>6, <1>7, <1>8, <1>9, <1>10, <1>11,
              <1>12, <1>13 DEF Next

\* The word a kernel loads mirrors the logical barrier, for every set of
\* words instructions and plain stores write.
THEOREM WordsMirrorStates == Spec => []WordMirrorsState
  <1>1. Init => MirrorInv
    BY ZeroMirrors, AsyncAssumption DEF Init, MirrorInv, Mirror
  <1>2. BarrierInv /\ GroupInv /\ MirrorInv /\ [Next]_vars => MirrorInv'
    BY MirrorStep
  <1>3. MirrorInv => WordMirrorsState
    BY DEF MirrorInv, Mirror, WordMirrorsState
  <1> QED  BY <1>1, <1>2, <1>3, AsyncInvariance, PTL DEF Spec

-----------------------------------------------------------------------------
(* Phases.                                                                 *)

\* What PhaseStartsFresh says of one barrier, s before the step, t after it.
Fresh(s, t) == t.phase # s.phase => t.pending = t.expected /\ t.tx = 0

\* mbarrier_arrive leaves a phase only as it completes it.
LEMMA ArrivedFresh ==
    ASSUME NEW s \in State, NEW inc \in Nat, NEW k \in Nat, NEW c \in BOOLEAN
    PROVE  Fresh(s, Arrived(s, inc, k, c))
  <1>1. CASE Refused(s) \/ s.locked
    BY <1>1 DEF Arrived, Fresh
  <1>2. CASE ~(Refused(s) \/ s.locked) /\ Underflow(s, k, c)
    <2>1. Arrived(s, inc, k, c) = [s EXCEPT !.tx = 0, !.corrupted = TRUE]
      BY <1>2 DEF Arrived
    <2>2. Arrived(s, inc, k, c).phase = s.phase
      BY <2>1 DEF State
    <2> QED  BY <2>2 DEF Fresh
  <1>3. CASE ~(Refused(s) \/ s.locked) /\ ~Underflow(s, k, c) /\ inc > s.pending
    <2>1. Arrived(s, inc, k, c)
            = [s EXCEPT !.tx = AfterTx(s, k, c), !.locked = TRUE]
      BY <1>3 DEF Arrived
    <2>2. Arrived(s, inc, k, c).phase = s.phase
      BY <2>1 DEF State
    <2> QED  BY <2>2 DEF Fresh
  <1>4. CASE ~(Refused(s) \/ s.locked) /\ ~Underflow(s, k, c) /\ ~(inc > s.pending)
    <2> DEFINE n == [s EXCEPT !.tx = AfterTx(s, k, c), !.pending = @ - inc]
    <2>1. Arrived(s, inc, k, c) = Settle(n)
      BY <1>4 DEF Arrived
    <2>2. AfterTx(s, k, c) \in Nat /\ s.pending - inc \in Nat
      BY <1>4 DEF AfterTx, Underflow, State
    <2>3. n \in State /\ n.phase = s.phase
      BY <2>2 DEF State
    <2> HIDE DEF n
    <2>4. CASE n.pending = 0 /\ n.tx = 0
      <3>1. Settle(n) = [n EXCEPT !.phase = 1 - @, !.pending = n.expected]
        BY <2>4 DEF Settle
      <3>2. Settle(n).pending = n.expected /\ Settle(n).expected = n.expected
            /\ Settle(n).tx = 0
        BY <2>3, <2>4, <3>1 DEF State
      <3> QED  BY <2>1, <3>2 DEF Fresh
    <2>5. CASE ~(n.pending = 0 /\ n.tx = 0)
      BY <2>1, <2>3, <2>5 DEF Settle, Fresh
    <2> QED  BY <2>4, <2>5
  <1> QED  BY <1>1, <1>2, <1>3, <1>4

\* Every instruction that changes a barrier's phase starts the new one fresh.
LEMMA FreshStep ==
    ASSUME BarrierInv, GroupInv, [Next]_vars, NEW b \in Addrs,
           entry[b] # NoEntry, entry'[b] # NoEntry
    PROVE  Fresh(entry[b], entry'[b])
  <1>s. entry[b] \in State /\ At(b) = entry[b]
    BY DEF BarrierInv, At
  <1>a. ASSUME entry'[b] = entry[b] PROVE Fresh(entry[b], entry'[b])
    BY <1>a DEF Fresh
  <1>b. ASSUME NEW a \in Addrs, entry' = [entry EXCEPT ![a] = At(a)]
        PROVE  Fresh(entry[b], entry'[b])
    BY <1>b, <1>s, <1>a DEF BarrierInv
  <1>c. ASSUME NEW a \in Addrs, NEW inc \in Nat, NEW k \in Nat,
               NEW c \in BOOLEAN, Apply(a, inc, k, c)
        PROVE  Fresh(entry[b], entry'[b])
    <2>1. entry' = [entry EXCEPT ![a] = Arrived(At(a), inc, k, c)]
      BY <1>c DEF Apply
    <2>2. CASE a = b
      BY <1>s, <2>1, <2>2, ArrivedFresh DEF BarrierInv
    <2>3. CASE a # b
      BY <2>1, <2>3, <1>a DEF BarrierInv
    <2> QED  BY <2>2, <2>3
  <1>d. ASSUME NEW a \in Window, NEW w \in Words, Reseed(a, w)
        PROVE  Fresh(entry[b], entry'[b])
    <2>1. w \in Word /\ a \in Addrs
      BY AsyncAssumption
    <2>2. CASE a = b
      <3>1. entry'[b] = FromInitWord(w)
        BY <1>d, <2>1, <2>2 DEF Reseed, BarrierInv
      <3>2. FromInitWord(w).pending = FromInitWord(w).expected
            /\ FromInitWord(w).tx = 0
        BY DEF FromInitWord
      <3> QED  BY <3>1, <3>2 DEF Fresh
    <2>3. CASE a # b
      BY <1>d, <2>1, <2>3, <1>a DEF Reseed, BarrierInv
    <2> QED  BY <2>2, <2>3
  <1>e. ASSUME NEW s \in State PROVE Fresh(s, Invalidate(s))
    BY DEF Fresh, Invalidate, State
  <1>1. ASSUME NEW a \in Addrs, Arrive(a) PROVE Fresh(entry[b], entry'[b])
    <2>1. CASE A1T0(a) \/ A0T1(a)
      BY <2>1, <1>c DEF A1T0, A0T1
    <2>2. ASSUME NEW r \in Operands,
                 A1TR(a, r) \/ A0TR(a, r) \/ A0TX(a, r) \/ ART0(a, r)
          PROVE  Fresh(entry[b], entry'[b])
      <3>1. r \in Nat
        BY AsyncAssumption
      <3> QED  BY <2>2, <3>1, <1>c DEF A1TR, A0TR, A0TX, ART0
    <2> QED  BY <1>1, <2>1, <2>2 DEF Arrive
  <1>2. ASSUME NEW a \in Addrs, PhaseCheck(a) \/ Touch(a)
        PROVE  Fresh(entry[b], entry'[b])
    BY <1>2, <1>b DEF PhaseCheck, Touch
  <1>3. ASSUME NEW a \in Addrs, CctlIv(a) PROVE Fresh(entry[b], entry'[b])
    <2>1. entry' = [entry EXCEPT ![a] = Invalidate(At(a))]
      BY <1>3 DEF CctlIv
    <2>2. CASE a = b
      BY <1>s, <2>1, <2>2, <1>e DEF BarrierInv
    <2>3. CASE a # b
      BY <2>1, <2>3, <1>a DEF BarrierInv
    <2> QED  BY <2>2, <2>3
  <1>4. ASSUME NEW a \in Addrs, Arrives(a) PROVE Fresh(entry[b], entry'[b])
    <2>1. GroupBytes \in Nat
      BY DEF GroupBytes, Last, GroupInv
    <2> QED  BY <1>4, <2>1, <1>b, <1>c DEF Arrives
  <1>5. ASSUME NEW a \in Addrs, Unsupported(a) PROVE Fresh(entry[b], entry'[b])
    BY <1>5, <1>a, <1>b DEF Unsupported
  <1>6. ASSUME NEW a \in Addrs, NEW w \in Words, Exch(a, w) \/ Cas(a, w)
        PROVE  Fresh(entry[b], entry'[b])
    <2>1. CASE a \in Window /\ Reseed(a, w)
      BY <2>1, <1>d
    <2>2. CASE UNCHANGED barriers
      BY <2>2, <1>a DEF barriers
    <2> QED  BY <1>6, <2>1, <2>2 DEF Exch, Cas
  <1>7. ASSUME NEW a \in Addrs, NEW w \in Stored, Sts(a, w)
        PROVE  Fresh(entry[b], entry'[b])
    BY <1>7, <1>a DEF Sts
  <1>8. ASSUME NEW a \in Addrs, NEW k \in Bytes, Utmaldg(a, k)
        PROVE  Fresh(entry[b], entry'[b])
    <2>1. k \in Nat
      BY AsyncAssumption
    <2>2. CASE Apply(a, 0, k, TRUE)
      BY <2>1, <2>2, <1>c
    <2> QED  BY <1>8, <2>2, <1>a DEF Utmaldg, barriers
  <1>9. CASE CctlIvAll
    <2>1. entry'[b] = Invalidate(entry[b])
      BY <1>9 DEF CctlIvAll
    <2> QED  BY <2>1, <1>s, <1>e
  <1>10. ASSUME \/ \E k \in Bytes : Ldgsts(k)
                \/ \E s \in Scoreboards \cup {NoScoreboard} : Commit(s)
                \/ \E s \in Scoreboards, n \in 0 .. MaxGroups : DepbarLe(s, n)
                \/ DepbarAll
         PROVE  entry' = entry
    BY <1>10 DEF Ldgsts, Commit, DepbarLe, DepbarAll, barriers
  <1>11. CASE UNCHANGED vars
    BY <1>11, <1>a DEF vars
  <1> QED  BY <1>1, <1>2, <1>3, <1>4, <1>5, <1>6, <1>7, <1>8, <1>9, <1>10,
              <1>11, <1>a DEF Next

\* A barrier enters a phase with all its arrivals to come and no bytes left
\* over, whichever instruction changed the phase.
THEOREM PhasesStartFresh == Spec => PhaseStartsFresh
  <1>1. BarrierInv /\ GroupInv /\ [Next]_vars =>
          [\A a \in Addrs :
             entry[a] # NoEntry /\ entry'[a] # NoEntry
             /\ entry[a].initialized /\ entry'[a].phase # entry[a].phase =>
               entry'[a].pending = entry'[a].expected /\ entry'[a].tx = 0]_vars
    BY FreshStep DEF Fresh
  <1> QED  BY <1>1, AsyncInvariance, PTL DEF Spec, PhaseStartsFresh

-----------------------------------------------------------------------------
(* The groups the scoreboards count.                                       *)

\* The inductive form of CountsBacked: the counted groups are finitely many.
CountInv == IsFiniteSet(Counted) /\ Cardinality(Counted) <= Len(groups)

\* The groups counted on one scoreboard above n.
LEMMA AboveCount ==
    ASSUME NEW s, NEW n \in Nat, NEW m \in Nat, n <= m
    PROVE  IsFiniteSet({s} \X (n + 1 .. m))
           /\ Cardinality({s} \X (n + 1 .. m)) = m - n
  <1>1. IsFiniteSet({s}) /\ Cardinality({s}) = 1
    BY FS_Singleton
  <1>2. n + 1 \in Int /\ m \in Int
    OBVIOUS
  <1>3. /\ IsFiniteSet(n + 1 .. m)
        /\ Cardinality(n + 1 .. m) = IF n + 1 > m THEN 0 ELSE m - (n + 1) + 1
    BY <1>2, FS_Interval
  <1>4. Cardinality(n + 1 .. m) = m - n
    BY <1>3
  <1> DEFINE S == {s}
             T == n + 1 .. m
  <1>5. IsFiniteSet(S) /\ IsFiniteSet(T) /\ Cardinality(S) = 1
        /\ Cardinality(T) = m - n
    BY <1>1, <1>3, <1>4
  <1>6. IsFiniteSet(S \X T) /\ Cardinality(S \X T) = Cardinality(S) * Cardinality(T)
    <2> HIDE DEF S, T
    <2> QED  BY <1>5, FS_Product, Zenon
  <1>7. 1 * (m - n) = m - n
    OBVIOUS
  <1>8. Cardinality(S) * Cardinality(T) = m - n
    BY <1>5, <1>7
  <1> QED  BY <1>6, <1>8, Zenon

\* Every instruction keeps the counts backed by groups.
LEMMA CountStep ==
    ASSUME GroupInv, CountInv, [Next]_vars
    PROVE  CountInv'
  <1>t. Cardinality(Counted) \in Nat /\ Len(groups) \in Nat
    BY FS_CardinalityType DEF CountInv, GroupInv
  <1>a. ASSUME groups' = groups, count' = count PROVE CountInv'
    BY <1>a DEF CountInv, Counted
  <1>1. ASSUME NEW s \in Scoreboards \cup {NoScoreboard}, Commit(s)
        PROVE  CountInv'
    <2>1. CASE open > 0
      <3>1. /\ groups' = Append(groups, open)
            /\ count' = IF s \in Scoreboards THEN [count EXCEPT ![s] = @ + 1]
                       ELSE count
        BY <1>1, <2>1 DEF Commit, Seal
      <3>2. Len(groups') = Len(groups) + 1
        BY <3>1 DEF GroupInv
      <3>3. CASE s \in Scoreboards
        <4>1. /\ \A t \in Scoreboards : count'[t] = IF t = s THEN count[s] + 1
                                                    ELSE count[t]
              /\ \A t \in Scoreboards : count[t] \in Nat
          BY <3>1, <3>3 DEF GroupInv
        <4>2. Counted' = Counted \cup {<<s, count[s] + 1>>}
          BY <3>3, <4>1 DEF Counted
        <4>3. IsFiniteSet(Counted') /\ Cardinality(Counted') <= Cardinality(Counted) + 1
          BY <1>t, <4>2, FS_AddElement DEF CountInv
        <4>4. Cardinality(Counted') \in Nat
          BY <4>3, FS_CardinalityType
        <4> QED  BY <1>t, <3>2, <4>3, <4>4 DEF CountInv
      <3>4. CASE s \notin Scoreboards
        <4>1. Counted' = Counted
          BY <3>1, <3>4 DEF Counted
        <4> QED  BY <1>t, <3>2, <4>1 DEF CountInv
      <3> QED  BY <3>3, <3>4
    <2>2. CASE ~(open > 0)
      BY <1>1, <2>2, <1>a DEF Commit, Seal, async
    <2> QED  BY <2>1, <2>2
  <1>2. ASSUME NEW s \in Scoreboards, NEW n \in 0 .. MaxGroups, DepbarLe(s, n)
        PROVE  CountInv'
    <2>1. n \in Nat /\ count[s] \in Nat
      BY AsyncAssumption DEF GroupInv
    <2>2. CASE count[s] > n
      <3> DEFINE left == Len(groups) - (count[s] - n)
                 popped == {s} \X (n + 1 .. count[s])
      <3>1. /\ groups' = IF left > 0 THEN SubSeq(groups, 1, left) ELSE <<>>
            /\ count' = [count EXCEPT ![s] = n]
        BY <1>2, <2>2 DEF DepbarLe, Drain
      <3>2. /\ \A t \in Scoreboards : count'[t] = IF t = s THEN n ELSE count[t]
            /\ \A t \in Scoreboards : count[t] \in Nat
        BY <3>1 DEF GroupInv
      <3>3. popped \subseteq Counted
        BY <2>1 DEF Counted
      <3>4. Counted' = Counted \ popped
        BY <2>1, <2>2, <3>2 DEF Counted
      <3>5. IsFiniteSet(popped) /\ Cardinality(popped) = count[s] - n
        <4>1. n <= count[s]
          BY <2>1, <2>2
        <4> QED  BY <2>1, <4>1, AboveCount, Zenon
      <3>6. Counted \cap popped = popped
        BY <3>3
      <3> HIDE DEF popped
      <3>7. /\ IsFiniteSet(Counted')
            /\ Cardinality(Counted') = Cardinality(Counted) - (count[s] - n)
        <4>1. /\ IsFiniteSet(Counted \ popped)
              /\ Cardinality(Counted \ popped)
                   = Cardinality(Counted) - Cardinality(Counted \cap popped)
          BY FS_Difference, Zenon DEF CountInv
        <4> QED  BY <3>4, <3>5, <3>6, <4>1, Zenon
      <3>8. Cardinality(Counted') \in Nat
        BY <3>7, FS_CardinalityType
      <3>9. left \in Nat /\ Cardinality(Counted') <= left
        BY <1>t, <2>1, <3>7, <3>8 DEF CountInv
      <3>10. Len(groups') = left
        <4>1. CASE left > 0
          BY <1>t, <2>1, <2>2, <3>1, <3>9, <4>1 DEF GroupInv
        <4>2. CASE left = 0
          BY <3>1, <4>2
        <4> QED  BY <3>9, <4>1, <4>2
      <3> QED  BY <3>7, <3>9, <3>10 DEF CountInv
    <2>3. CASE ~(count[s] > n)
      BY <1>2, <2>3, <1>a DEF DepbarLe, Drain
    <2> QED  BY <2>2, <2>3
  <1>3. CASE DepbarAll
    <2>1. groups' = <<>> /\ \A t \in Scoreboards : count'[t] = 0
      BY <1>3 DEF DepbarAll
    <2>2. Counted' = {}
      BY <2>1 DEF Counted
    <2> QED  BY <2>1, <2>2, FS_EmptySet DEF CountInv
  <1>4. ASSUME NEW a \in Addrs,
               \/ Arrive(a) \/ PhaseCheck(a) \/ Touch(a) \/ CctlIv(a)
               \/ Arrives(a) \/ Unsupported(a)
               \/ \E w \in Words : Exch(a, w) \/ Cas(a, w)
               \/ \E w \in Stored : Sts(a, w)
               \/ \E k \in Bytes : Utmaldg(a, k)
        PROVE  groups' = groups /\ count' = count
    BY <1>4 DEF Arrive, PhaseCheck, Touch, CctlIv, Arrives, Unsupported,
                Exch, Cas, Sts, Utmaldg, async
  <1>5. ASSUME CctlIvAll \/ (\E k \in Bytes : Ldgsts(k)) \/ UNCHANGED vars
        PROVE  groups' = groups /\ count' = count
    BY <1>5 DEF CctlIvAll, Ldgsts, vars, async
  <1> QED  BY <1>1, <1>2, <1>3, <1>4, <1>5, <1>a DEF Next

\* However the scoreboards and uncounted groups share the list, the pops of
\* DEPBAR.LE never run out of groups, for every set of scoreboards.
THEOREM CountsStayBacked == Spec => []CountsBacked
  <1>1. Init => CountInv
    <2>1. ASSUME Init PROVE Counted = {} /\ groups = <<>>
      BY <2>1 DEF Init, Counted
    <2> QED  BY <2>1, FS_EmptySet DEF CountInv
  <1>2. GroupInv /\ CountInv /\ [Next]_vars => CountInv'
    BY CountStep
  <1>3. CountInv => CountsBacked
    BY DEF CountInv, CountsBacked
  <1> QED  BY <1>1, <1>2, <1>3, AsyncInvariance, PTL DEF Spec

=============================================================================
