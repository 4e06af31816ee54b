--------------------------- MODULE MemoryService ---------------------------
(***************************************************************************)
(* The global buffer of the memory service (memory_service.cpp): which     *)
(* accesses are accepted, in the arithmetic of address words, and what a   *)
(* load, a store and an atomic do to its bytes.  Values are little-endian. *)
(* The error of a refused access is not told apart (out of bounds or       *)
(* misaligned), and sign extension into registers is left out.             *)
(***************************************************************************)
EXTENDS Integers, Sequences, FiniteSetsExt

CONSTANTS
    ByteBase,      \* 256
    AddrWords,     \* 2^64
    GlobalBase,    \* global_base_
    AtomicWidths,  \* {1, 2, 4, 8}
    IncWidth       \* 4, the only width of inc and dec

ASSUME MemoryAssumption ==
    /\ ByteBase \in Nat \ {0, 1}
    /\ AddrWords \in Nat \ {0} /\ GlobalBase \in 1..(AddrWords - 1)
    /\ AtomicWidths \subseteq Nat \ {0} /\ IncWidth \in AtomicWidths

\* The number that the word v stands for as a signed integer.
Signed(v, words) == IF v >= words \div 2 THEN v - words ELSE v

Overflow == -1

\* Mutant: the sum wraps.
checked_add_wraps(base, offset) == (base + offset) % AddrWords

\* A sum outside the address word is refused.
checked_add(base, offset) ==
    IF base + offset \in 0..(AddrWords - 1) THEN base + offset ELSE Overflow

natural_alignment(bytes) == Max({n \in {1, 2, 4, 8, 16} : n = 1 \/ n <= bytes})

InBuffer(global, off, len) == off <= Len(global) /\ len <= Len(global) - off

\* ldg and stg: the address is a signed distance from the base of the buffer.
\* A target below the base wraps to an offset past any buffer.
InGlobal(global, addr, width) ==
    LET target == checked_add(GlobalBase, Signed(addr, AddrWords))
        off    == (target - GlobalBase) % AddrWords
    IN  /\ target # Overflow
        /\ off % natural_alignment(width) = 0
        /\ InBuffer(global, off, Min({width, 16}))

\* Without a buffer a load gives zeros and a store is discarded.
CanLoadStore(global, addr, width) == global = <<>> \/ InGlobal(global, addr, width)

\* atom_global takes the address as the offset.
CanAtomic(global, addr, width, op) ==
    /\ global # <<>>
    /\ width \in AtomicWidths
    /\ InBuffer(global, addr, width)
    /\ addr % natural_alignment(width) = 0
    /\ op \in {"inc", "dec"} => width = IncWidth

\* load_le and store_le of len bytes at an offset.
Value(global, off, len) ==
    MapThenSumSet(LAMBDA i : global[off + i] * ByteBase^(i - 1), 1..len)

Put(global, off, len, v) ==
    [i \in DOMAIN global |->
       IF i \in (off + 1)..(off + len) THEN (v \div ByteBase^(i - off - 1)) % ByteBase
                                       ELSE global[i]]

\* The positions of the ones of v in binary, and the number with ones there.
Bits(v, words) == {k \in 0..(words - 1) : 2^k < words /\ (v \div 2^k) % 2 = 1}
Number(bits) == MapThenSumSet(LAMBDA k : 2^k, bits)

AtomicOps == {"add", "min", "max", "and", "or", "xor", "exch", "inc", "dec", "cas",
              "smin", "smax"}

\* Mutant: signed operands are compared as unsigned ones.
apply_atomic_unsigned(op, width, a, b, c) ==
    LET A == Bits(a, ByteBase^width)
        B == Bits(b, ByteBase^width)
    IN
    [add |-> a + b, min |-> Min({a, b}), max |-> Max({a, b}),
     and |-> Number(A \cap B), or |-> Number(A \cup B),
     xor |-> Number((A \cup B) \ (A \cap B)), exch |-> b,
     inc |-> IF a >= b THEN 0 ELSE a + 1,
     dec |-> IF a = 0 \/ a > b THEN b ELSE a - 1,
     cas |-> IF a = c THEN b ELSE a,
     smin |-> Min({a, b}), smax |-> Max({a, b})][op]

\* a is the value in memory, b the operand and c the comparand; store_le keeps
\* the low bytes of the result.
apply_atomic(op, width, a, b, c) ==
    LET words == ByteBase^width
        A == Bits(a, words)
        B == Bits(b, words)
        sa == Signed(a, words)
        sb == Signed(b, words)
    IN  [add |-> a + b, min |-> Min({a, b}), max |-> Max({a, b}),
         and |-> Number(A \cap B), or |-> Number(A \cup B),
         xor |-> Number((A \cup B) \ (A \cap B)), exch |-> b,
         inc |-> IF a >= b THEN 0 ELSE a + 1,
         dec |-> IF a = 0 \/ a > b THEN b ELSE a - 1,
         cas |-> IF a = c THEN b ELSE a,
         smin |-> IF sb < sa THEN b ELSE a,
         smax |-> IF sa < sb THEN b ELSE a][op]

=============================================================================
