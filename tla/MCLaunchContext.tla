--------------------------- MODULE MCLaunchContext ---------------------------
(* Two host threads, an address space of 32 bytes and windows of 2 and 3    *)
(* bytes.                                                                   *)
EXTENDS LaunchContext, TLC

Cfg(cluster, static, extra, grid) ==
    [cluster |-> cluster, static_shared |-> static, extra |-> extra, grid |-> grid,
     block |-> 1, arg |-> None, packed |-> 0, need |-> 0]

\* A grid of two rows tiled by clusters of two rows, of which a second launch
\* exhausts the address space; one without clusters; one without windows that
\* needs a host allocation; and one with a partial cluster, which is rejected.
MCConfigs ==
    {Cfg(<<1, 2, 1>>, 2, 0, <<2, 2, 1>>), Cfg(NoCluster, 2, 1, <<1, 1, 2>>),
     [Cfg(NoCluster, 0, 0, <<1, 1, 1>>) EXCEPT !.arg = 4],
     Cfg(<<2, 1, 1>>, 2, 0, <<1, 1, 1>>)}

LocalConfigs == {Cfg(NoCluster, 2, 0, <<2, 1, 1>>)}

\* The second is aligned more strictly than windows are.
MCAccesses ==
    {[width |-> 2, alignment |-> 1, kind |-> "load"],
     [width |-> 1, alignment |-> 8, kind |-> "atomic"]}

LoadOnly == {[width |-> 1, alignment |-> 1, kind |-> "load"]}

Threads == Permutations(Ctx)
=============================================================================
