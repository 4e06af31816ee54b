------------------------------ MODULE Allocator ------------------------------
(***************************************************************************)
(* The device allocator (MemoryAllocator): a bump cursor over a virtual    *)
(* address space of 2^WordBits bytes, allocations that are never removed   *)
(* from the list, only marked dead, and lookups by base and by address.    *)
(* An allocation's number is its place in the list, as next_id_ starts at  *)
(* 1.  Bytes are not modelled.                                             *)
(***************************************************************************)
EXTENDS Integers, Sequences, FiniteSetsExt

CONSTANTS
    WordBits,     \* 64
    DefaultBase,  \* kDefaultBase
    MinAlign      \* 16

AddrMax == 2^WordBits - 1

Pow2 == {2^k : k \in 0..(WordBits - 1)}

ASSUME AllocatorAssumption ==
    /\ WordBits \in Nat \ {0}
    /\ DefaultBase \in 1..AddrMax
    /\ MinAlign \in Pow2
    /\ AddrMax \in Nat /\ Pow2 \subseteq Nat \ {0}
    /\ \A p, q \in Pow2 : p <= q => q % p = 0

Space == {"global", "shared"}

Allocation == [space: Space, base: Nat, size: Nat, alive: BOOLEAN]

AllocatorState == [allocs : Seq(Allocation), cursor : 0 .. AddrMax]

NewAllocator == [allocs |-> <<>>, cursor |-> DefaultBase]

\* The addition wraps; clearing the low bits of a sum rounds it down.
align_up(value, align) ==
    LET sum == (value + align - 1) % (AddrMax + 1)
    IN  IF align <= 1 THEN value ELSE sum - (sum % align)

eff_align(align) == IF align < MinAlign THEN MinAlign ELSE align

Start(m, align) == align_up(m.cursor, eff_align(align))

\* Mutant: the wrapped address is not noticed.
CanAllocate_wraps(m, size, align) ==
    /\ size # 0
    /\ align = 0 \/ align \in Pow2
    /\ size <= AddrMax - Start(m, align)

CanAllocate(m, size, align) ==
    /\ size # 0
    /\ align = 0 \/ align \in Pow2
    /\ Start(m, align) >= m.cursor
    /\ size <= AddrMax - Start(m, align)

\* Mutant: a dead allocation of the same size is used again.
allocate_reuse(m, space, size, align) ==
    LET dead == {i \in DOMAIN m.allocs : ~m.allocs[i].alive /\ m.allocs[i].size = size}
    IN  IF dead = {}
          THEN [allocs |-> Append(m.allocs, [space |-> space, base |-> Start(m, align),
                                             size |-> size, alive |-> TRUE]),
                cursor |-> Start(m, align) + size]
          ELSE [m EXCEPT !.allocs[Min(dead)].alive = TRUE]

allocate(m, space, size, align) ==
    [allocs |-> Append(m.allocs, [space |-> space, base |-> Start(m, align),
                                  size |-> size, alive |-> TRUE]),
     cursor |-> Start(m, align) + size]

\* free of a pointer that is no base, or of a dead allocation, is an error.
CanFree(m, base) ==
    \E i \in DOMAIN m.allocs : m.allocs[i].base = base /\ m.allocs[i].alive

\* free for each of the bases.
free(m, bases) ==
    [m EXCEPT !.allocs =
       [i \in DOMAIN @ |->
          IF @[i].base \in bases THEN [@[i] EXCEPT !.alive = FALSE] ELSE @[i]]]

\* The live allocation that holds va, or 0: the last base at or below va
\* decides, as the list is sorted.
find_containing(m, va) ==
    LET below == {i \in DOMAIN m.allocs : m.allocs[i].base <= va}
        i     == Max(below)
    IN  IF below # {} /\ m.allocs[i].alive /\ va < m.allocs[i].base + m.allocs[i].size
          THEN i ELSE 0

\* The number of the live allocation at base, or 0.
allocation_by_base(m, base) ==
    LET at == {i \in DOMAIN m.allocs : m.allocs[i].base = base /\ m.allocs[i].alive}
    IN  IF at = {} THEN 0 ELSE Min(at)

\* read_at, write_at and atomic_rmw reach the bytes of a live allocation.
CanAccess(m, id, offset, len) ==
    /\ id \in DOMAIN m.allocs
    /\ m.allocs[id].alive
    /\ offset <= m.allocs[id].size
    /\ len <= m.allocs[id].size - offset

=============================================================================
