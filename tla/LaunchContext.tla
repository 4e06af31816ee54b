---------------------------- MODULE LaunchContext ----------------------------
(***************************************************************************)
(* Contexts, launches and translated shared addresses (context.cpp).       *)
(*                                                                         *)
(* Several host threads each create a Context and launch kernels on it.  A *)
(* launch allocates one shared window per CTA, runs the backend, and a     *)
(* guard frees the windows on every way out.  While the backend runs it    *)
(* may translate shared addresses and use the translations; it may also    *)
(* keep them, and use them in a later launch or hand them to the backend   *)
(* of another Context.  A Context may be destroyed and another created in  *)
(* its place, with the same addresses and allocation numbers.              *)
(*                                                                         *)
(* Constant banks and argument bytes are not modelled.                     *)
(***************************************************************************)
EXTENDS Allocator, ClusterTopology

CONSTANTS
    Ctx,           \* host threads, each with at most one Context
    None,          \* no Context, no value
    Configs,       \* kernels and launch configurations
    Accesses,      \* access descriptors of the backend
    LogicalAddresses,
    HostSizes,     \* sizes of host allocations
    WindowAlign,   \* 1024
    RankUnit,      \* 2^24: the rank is above it in a distributed address
    MaxThreads,    \* 1024 threads of a block
    GenerationMax, \* UINT64_MAX of launch_count_
    NonceMax,      \* UINT64_MAX of the nonce source
    DomainMax,     \* UINT64_MAX of next_cta_domain_
    MaxTranslations,  \* bound on the translations that are kept
    MaxCommits        \* bound on the accesses of one launch

\* arg is a pointer argument or None; packed and need are the bytes of the
\* parameter buffer and of the parameters.
Config == [cluster: Dims \cup {NoCluster}, static_shared: Nat, extra: Nat,
           grid: Dims, block: Nat, arg: Nat \cup {None}, packed: Nat, need: Nat]

Access == [width: Nat, alignment: Nat, kind: {"load", "store", "atomic"}]

CtaView == [base : Nat, size : Nat]

Commit == [serial : Nat, launch : Nat, delivered : BOOLEAN, stop : BOOLEAN]

\* serial, launches and commits are history: the number of the Context and of its
\* running launch, whatever the nonce and the generation, and the accesses of the
\* launch.
ContextState ==
    [serial : Nat, backend : BOOLEAN, context_nonce : Nat, allocator : AllocatorState,
     next_cta_domain : Nat, launch_count : Nat, launches : Nat,
     active_topology : Topology, active_views : Seq(CtaView),
     event_stopped : BOOLEAN, commits : Seq(Commit)]

LaunchState == [config : Configs, views : Seq(CtaView), started : BOOLEAN]

ASSUME LaunchAssumption ==
    /\ \A g \in Configs :
         /\ g.static_shared \in Nat /\ g.extra \in Nat
         /\ g.grid \in Dims /\ g.cluster \in Dims \cup {NoCluster}
    /\ \A a \in Accesses : a.width \in Nat /\ a.alignment \in Nat
    /\ LogicalAddresses \subseteq Nat /\ HostSizes \subseteq Nat
    /\ WindowAlign \in Pow2 /\ RankUnit \in Pow2 /\ WindowAlign <= RankUnit
    /\ GenerationMax \in Nat /\ NonceMax \in Nat /\ DomainMax \in Nat
    /\ None \notin Nat /\ None \notin ContextState /\ None \notin LaunchState

VARIABLES
    next_nonce,       \* the process-wide nonce source
    claim,            \* thread |-> the nonce it has loaded and not yet claimed
    created,          \* history: the number of Contexts created so far
    context,          \* thread |-> its Context, or None
    launching,        \* thread |-> the launch it is in, or None
    translations      \* translations the backends have kept

vars == <<next_nonce, claim, created, context, launching, translations>>

NewContext(nonce, backend) ==
    [serial |-> created + 1, backend |-> backend, context_nonce |-> nonce,
     allocator |-> NewAllocator, next_cta_domain |-> 0, launch_count |-> 0,
     launches |-> 0, active_topology |-> Empty, active_views |-> <<>>,
     event_stopped |-> FALSE, commits |-> <<>>]

Init ==
    /\ next_nonce = 1
    /\ claim = [c \in Ctx |-> None]
    /\ created = 0
    /\ context = [c \in Ctx |-> None]
    /\ launching = [c \in Ctx |-> None]
    /\ translations = {}

-----------------------------------------------------------------------------
(* Creating a Context.                                                     *)

\* claim() loads the source; at the end of the nonces create fails.
LoadNonce(c) ==
    /\ context[c] = None /\ claim[c] = None
    /\ next_nonce # NonceMax
    /\ claim' = [claim EXCEPT ![c] = next_nonce]
    /\ UNCHANGED <<next_nonce, created, context, launching, translations>>

\* Mutant: the nonce is stored back without comparing.
Exchanged_store(c) == TRUE

\* compare_exchange_weak succeeds if the source still has the loaded value.
Exchanged(c) == next_nonce = claim[c]

Create(c) ==
    /\ claim[c] # None
    /\ Exchanged(c)
    /\ next_nonce' = claim[c] + 1
    /\ created' = created + 1
    /\ \E backend \in BOOLEAN :
         context' = [context EXCEPT ![c] = NewContext(claim[c], backend)]
    /\ claim' = [claim EXCEPT ![c] = None]
    /\ UNCHANGED <<launching, translations>>

\* The exchange failed, for a changed value or spuriously: load again.
RetryNonce(c) ==
    /\ claim[c] # None
    /\ claim' = [claim EXCEPT ![c] = None]
    /\ UNCHANGED <<next_nonce, created, context, launching, translations>>

Destroy(c) ==
    /\ context[c] # None /\ launching[c] = None
    /\ context' = [context EXCEPT ![c] = None]
    /\ UNCHANGED <<next_nonce, claim, created, launching, translations>>

-----------------------------------------------------------------------------
(* The host between launches.                                              *)

Idle(c) == context[c] # None /\ launching[c] = None

HostAllocate(c, size) ==
    /\ Idle(c)
    /\ CanAllocate(context[c].allocator, size, 0)
    /\ context' = [context EXCEPT ![c].allocator = allocate(@, "global", size, 0)]
    /\ UNCHANGED <<next_nonce, claim, created, launching, translations>>

\* Any address the host has seen, windows of earlier launches included.
HostFree(c, base) ==
    /\ Idle(c)
    /\ CanFree(context[c].allocator, base)
    /\ context' = [context EXCEPT ![c].allocator = free(@, {base})]
    /\ UNCHANGED <<next_nonce, claim, created, launching, translations>>

-----------------------------------------------------------------------------
(* A launch.                                                               *)

\* The argument of a pointer parameter lies in a live global allocation.
ValidArg(m, arg) ==
    arg # None => LET i == find_containing(m, arg)
                  IN  i # 0 /\ m.allocs[i].space = "global"

SharedSize(g) == g.static_shared + g.extra

Accepted(ctx, g) ==
    /\ ValidArg(ctx.allocator, g.arg)
    /\ ctx.launch_count # GenerationMax
    /\ g.packed >= g.need
    /\ g.extra <= AddrMax - g.static_shared
    /\ \A k \in Axis : g.grid[k] # 0
    /\ g.block \in 1..MaxThreads
    /\ CanBuild(g.cluster, g.grid)
    /\ SharedSize(g) > 0 => Volume(g.grid) <= DomainMax - ctx.next_cta_domain

\* A launch that is not accepted returns an error before anything is
\* allocated.  The guard is set up and the numbers of the windows' domains
\* are reserved.
Launch(c, g) ==
    /\ Idle(c)
    /\ Accepted(context[c], g)
    /\ launching' = [launching EXCEPT ![c] = [config |-> g, views |-> <<>>, started |-> FALSE]]
    /\ context' = [context EXCEPT
         ![c].next_cta_domain = @ + IF SharedSize(g) > 0 THEN Volume(g.grid) ELSE 0]
    /\ UNCHANGED <<next_nonce, claim, created, translations>>

Missing(c) ==
    /\ launching[c] # None
    /\ ~launching[c].started
    /\ SharedSize(launching[c].config) > 0
    /\ Len(launching[c].views) < Volume(launching[c].config.grid)

\* The window of the next CTA.
AllocateWindow(c) ==
    /\ Missing(c)
    /\ LET m    == context[c].allocator
           size == SharedSize(launching[c].config)
       IN  /\ CanAllocate(m, size, WindowAlign)
           /\ context' = [context EXCEPT
                ![c].allocator = allocate(m, "shared", size, WindowAlign)]
           /\ launching' = [launching EXCEPT
                ![c].views = Append(@, [base |-> Start(m, WindowAlign), size |-> size])]
    /\ UNCHANGED <<next_nonce, claim, created, translations>>

\* Mutant: the guard frees only the windows of a launch that reached the backend.
GuardBases_started(l) ==
    IF l.started THEN {l.views[i].base : i \in DOMAIN l.views} ELSE {}

GuardBases(l) == {l.views[i].base : i \in DOMAIN l.views}

\* ~LaunchGuard.
Return(c) ==
    /\ context' = [context EXCEPT
         ![c].active_topology = Empty, ![c].active_views = <<>>, ![c].commits = <<>>,
         ![c].allocator = free(@, GuardBases(launching[c]))]
    /\ launching' = [launching EXCEPT ![c] = None]
    /\ UNCHANGED <<next_nonce, claim, created, translations>>

\* The address space is exhausted at some window.
OutOfMemory(c) ==
    /\ Missing(c)
    /\ ~CanAllocate(context[c].allocator, SharedSize(launching[c].config), WindowAlign)
    /\ Return(c)

Prepared(c) == launching[c] # None /\ ~launching[c].started /\ ~Missing(c)

\* A Context without a backend only prepares the launch.
WithoutBackend(c) ==
    /\ Prepared(c)
    /\ ~context[c].backend
    /\ Return(c)

\* Mutant: the sink's stop outlasts the launch.
Resumed_kept(stopped) == stopped

Resumed(stopped) == FALSE

StartBackend(c) ==
    /\ Prepared(c)
    /\ context[c].backend
    /\ context' = [context EXCEPT
         ![c].active_topology = build(launching[c].config.cluster, launching[c].config.grid),
         ![c].active_views = launching[c].views,
         ![c].launch_count = @ + 1,
         ![c].launches = @ + 1,
         ![c].event_stopped = Resumed(@)]
    /\ launching' = [launching EXCEPT ![c].started = TRUE]
    /\ UNCHANGED <<next_nonce, claim, created, translations>>

\* The backend returns, with success or a failure.
BackendReturns(c) ==
    /\ launching[c] # None
    /\ launching[c].started
    /\ Return(c)

-----------------------------------------------------------------------------
(* The services of the backend.                                            *)

\* view_for_cta: the windows are listed by CTA.
View(ctx, cta) == ctx.active_views[cta + 1]
HasView(ctx, cta) == cta + 1 \in DOMAIN ctx.active_views

Active(ctx) == ctx.active_views # <<>> /\ ctx.launch_count # 0

\* Mutant: only the first byte is checked.
InWindow_first(view, offset, width) == offset <= view.size

InWindow(view, offset, width) ==
    offset <= view.size /\ width <= view.size - offset

\* The CTA, rank and offset an address stands for.
Rank(ctx, source, logical, mode) ==
    IF mode = "local" THEN cta_rank(ctx.active_topology, source)
                      ELSE logical \div RankUnit

Target(ctx, source, logical, mode) ==
    IF mode = "local" THEN source
    ELSE grid_cta(ctx.active_topology, cluster_id(ctx.active_topology, source),
                  logical \div RankUnit)

Offset(logical, mode) == IF mode = "local" THEN logical ELSE logical % RankUnit

CanTranslate(ctx, source, logical, a, mode) ==
    /\ Active(ctx)
    /\ a.width # 0
    /\ a.alignment \in Pow2
    /\ logical % a.alignment = 0
    /\ a.kind = "atomic" => a.width \in {1, 2, 4, 8}
    /\ HasView(ctx, source)
    /\ mode = "distributed" =>
         /\ ctx.active_topology.enabled
         /\ valid_rank(ctx.active_topology, logical \div RankUnit)
    /\ LET target == Target(ctx, source, logical, mode)
       IN  /\ HasView(ctx, target)
           /\ mode = "distributed" =>
                cluster_id(ctx.active_topology, target)
                  = cluster_id(ctx.active_topology, source)
           /\ InWindow(View(ctx, target), Offset(logical, mode), a.width)
           /\ allocation_by_base(ctx.allocator, View(ctx, target).base) # 0

\* The first two fields are history: where the translation comes from.
Translation(ctx, source, logical, a, mode) ==
    LET target == Target(ctx, source, logical, mode)
        base   == View(ctx, target).base
    IN  [serial |-> ctx.serial, launch |-> ctx.launches,
         context_nonce |-> ctx.context_nonce, launch_generation |-> ctx.launch_count,
         source_cta |-> source, mode |-> mode, access |-> a,
         cluster_id |-> cluster_id(ctx.active_topology, source),
         target_rank |-> Rank(ctx, source, logical, mode),
         target_cta |-> target, logical_address |-> logical,
         allocation |-> allocation_by_base(ctx.allocator, base),
         allocation_offset |-> Offset(logical, mode),
         address |-> base + Offset(logical, mode)]

translate_shared(c, source, logical, a, mode) ==
    /\ launching[c] # None /\ launching[c].started
    /\ Cardinality(translations) < MaxTranslations
    /\ CanTranslate(context[c], source, logical, a, mode)
    /\ translations' = translations \cup
         {Translation(context[c], source, logical, a, mode)}
    /\ UNCHANGED <<next_nonce, claim, created, context, launching>>

\* A backend drops a translation it kept.
Forget(t) ==
    /\ translations' = translations \ {t}
    /\ UNCHANGED <<next_nonce, claim, created, context, launching>>

\* validate_translation.
Valid(ctx, t) ==
    /\ Active(ctx)
    /\ t.context_nonce = ctx.context_nonce
    /\ t.launch_generation = ctx.launch_count
    /\ t.access.width # 0
    /\ t.access.alignment \in Pow2 /\ t.address % t.access.alignment = 0
    /\ IF t.mode = "distributed"
         THEN /\ t.logical_address \div RankUnit = t.target_rank
              /\ t.logical_address % RankUnit = t.allocation_offset
         ELSE /\ t.logical_address = t.allocation_offset
              /\ t.target_cta = t.source_cta
    /\ HasView(ctx, t.target_cta)
    /\ LET owner == View(ctx, t.target_cta)
       IN  /\ allocation_by_base(ctx.allocator, owner.base) = t.allocation
           /\ owner.base + t.allocation_offset = t.address
           /\ InWindow(owner, t.allocation_offset, t.access.width)
    /\ t.cluster_id = cluster_id(ctx.active_topology, t.source_cta)
    /\ t.target_rank = cta_rank(ctx.active_topology, t.target_cta)
    /\ grid_cta(ctx.active_topology, t.cluster_id, t.target_rank) = t.target_cta

\* read_shared, write_shared or atomic_shared, as the translation was made for:
\* the access is committed, then its event is emitted unless the sink has asked
\* to stop; the sink may ask to stop.
AccessShared(c, t) ==
    /\ launching[c] # None /\ launching[c].started
    /\ Len(context[c].commits) < MaxCommits
    /\ Valid(context[c], t)
    /\ CanAccess(context[c].allocator, t.allocation, t.allocation_offset, t.access.width)
    /\ \E stop \in BOOLEAN :
         LET delivered == ~context[c].event_stopped
         IN  context' = [context EXCEPT
               ![c].commits = Append(@, [serial |-> t.serial, launch |-> t.launch,
                                         delivered |-> delivered,
                                         stop |-> delivered /\ stop]),
               ![c].event_stopped = @ \/ stop]
    /\ UNCHANGED <<next_nonce, claim, created, launching, translations>>

Modes == {"local", "distributed"}

Live == {c \in Ctx : context[c] # None}

Next ==
    \/ \E t \in translations : Forget(t)
    \/ \E c \in Ctx : LoadNonce(c) \/ Create(c) \/ RetryNonce(c)
    \/ \E c \in Live :
         \/ Destroy(c)
         \/ \E size \in HostSizes : HostAllocate(c, size)
         \/ \E base \in 0..AddrMax : HostFree(c, base)
         \/ \E g \in Configs : Launch(c, g)
         \/ AllocateWindow(c) \/ OutOfMemory(c) \/ WithoutBackend(c)
         \/ StartBackend(c) \/ BackendReturns(c)
         \/ /\ launching[c] # None
            /\ \E source \in 0..(Volume(launching[c].config.grid) - 1),
                  logical \in LogicalAddresses, a \in Accesses, mode \in Modes :
                 translate_shared(c, source, logical, a, mode)
         \/ \E t \in translations : AccessShared(c, t)

Spec == Init /\ [][Next]_vars

-----------------------------------------------------------------------------
(* Properties.                                                             *)

\* The allocations of m lie one after the other, below its cursor.
Ordered(m) ==
    /\ \A i, j \in DOMAIN m.allocs :
         i < j => m.allocs[i].base + m.allocs[i].size <= m.allocs[j].base
    /\ \A i \in DOMAIN m.allocs :
         m.allocs[i].size > 0 /\ m.allocs[i].base + m.allocs[i].size <= m.cursor
    /\ m.cursor <= AddrMax

\* No two allocations of a Context, dead ones included, share a byte, and the
\* last ends at or before the cursor: an address handed out once is never handed
\* out again, up to the end of the address space (allocate).
AllocationsDisjoint == \A c \in Live : Ordered(context[c].allocator)

SharedBases(m) ==
    {m.allocs[i].base : i \in {i \in DOMAIN m.allocs :
                                 m.allocs[i].alive /\ m.allocs[i].space = "shared"}}

\* The live shared allocations are the windows of the launch in flight, one for
\* each CTA once the backend runs: nothing is left after a launch however it
\* ended, and the host cannot free a window through an address it kept
\* (LaunchGuard, MemoryAllocator::free).
WindowsOfLaunch ==
    \A c \in Live :
      /\ SharedBases(context[c].allocator)
           = IF launching[c] = None THEN {}
             ELSE {launching[c].views[i].base : i \in DOMAIN launching[c].views}
      /\ context[c].active_views
           = IF launching[c] # None /\ launching[c].started
               THEN launching[c].views ELSE <<>>

\* An access is committed only through a translation made in the same launch of
\* the same Context, although Contexts hand out equal addresses, allocation
\* numbers and generations (validate_translation, NonceAllocator::claim).
OnlyOwnLaunch ==
    \A c \in Live : \A i \in DOMAIN context[c].commits :
      /\ context[c].commits[i].serial = context[c].serial
      /\ context[c].commits[i].launch = context[c].launches

\* A translation of the running launch covers bytes of the live window of its
\* target, which is in the tile of its source (translate_shared).
InsideTarget ==
    \A c \in Live : \A t \in translations :
      t.serial = context[c].serial /\ t.launch = context[c].launches
        /\ Active(context[c]) =>
        LET view == View(context[c], t.target_cta)
        IN  /\ view.base <= t.address
            /\ t.address + t.access.width <= view.base + view.size
            /\ t.allocation = find_containing(context[c].allocator, t.address)
            /\ t.mode = "distributed" =>
                 SameTile(context[c].active_topology, t.source_cta, t.target_cta)

Fresh(c) ==
    {t \in translations : /\ t.serial = context[c].serial
                          /\ t.launch = context[c].launches
                          /\ t.access.alignment <= WindowAlign
                          /\ Active(context[c])}

\* In a launch with clusters every translation of the running launch is accepted
\* again when it is used: the two derivations of rank and CTA agree
\* (translate_shared, validate_translation).
ClusterValidates ==
    \A c \in Live : context[c].active_topology.enabled =>
      \A t \in Fresh(c) : Valid(context[c], t)

\* "kLocal: no rank bits, target == source" (IRuntimeServices): an access of a
\* CTA to its own window needs no cluster.
LocalValidates ==
    \A c \in Live : \A t \in Fresh(c) : t.mode = "local" => Valid(context[c], t)

\* The events of a launch are its committed accesses up to the one at which the
\* sink asked to stop, and none later (emit_shared_event).
EventsUntilStop ==
    \A c \in Live : \A i \in DOMAIN context[c].commits :
      context[c].commits[i].delivered
        <=> \A j \in 1..(i - 1) : ~context[c].commits[j].stop

\* Allocations keep their place and extent, and a dead one stays dead: a pointer
\* kept after free never reaches memory again (MemoryAllocator).
AllocationsPermanent ==
    [][\A c \in Ctx :
         context[c] # None /\ context'[c] # None =>
           LET old == context[c].allocator.allocs
               new == context'[c].allocator.allocs
           IN  \A i \in DOMAIN old :
                 /\ i \in DOMAIN new
                 /\ new[i].base = old[i].base /\ new[i].size = old[i].size
                 /\ new[i].alive => old[i].alive]_vars
=============================================================================
