--------------------------- MODULE ClusterTopology ---------------------------
(***************************************************************************)
(* The tiling of a grid of CTAs by clusters (ClusterTopology): CTA numbers *)
(* run along x first; a cluster is a box of the grid, numbered the same    *)
(* way, and a CTA has a rank in its cluster.  Dimensions are triples.      *)
(***************************************************************************)
EXTENDS Integers

CONSTANTS
    MaxClusterSize,  \* kMaxClusterSize
    NoCluster        \* a kernel without cluster metadata

Axis == 1..3

Dims == [Axis -> Nat]

Volume(d) == d[1] * d[2] * d[3]

\* ClusterTopology::build fails otherwise.
CanBuild(cluster, grid) ==
    cluster # NoCluster =>
      /\ \A k \in Axis : cluster[k] # 0
      /\ Volume(cluster) <= MaxClusterSize
      /\ \A k \in Axis : grid[k] % cluster[k] = 0

Unit == <<1, 1, 1>>

\* Without cluster metadata only the grid is set.
build(cluster, grid) ==
    IF cluster = NoCluster
      THEN [enabled |-> FALSE, dims |-> Unit, grid |-> grid, clusters |-> Unit]
      ELSE [enabled |-> TRUE, dims |-> cluster, grid |-> grid,
            clusters |-> [k \in Axis |-> grid[k] \div cluster[k]]]

Topology == [enabled : BOOLEAN, dims : Dims, grid : Dims, clusters : Dims]

Empty == [enabled |-> FALSE, dims |-> Unit, grid |-> Unit, clusters |-> Unit]

\* The coordinates of number n in a box of size d, and back.
decode_cta(n, d) ==
    <<n % d[1], (n \div d[1]) % d[2], n \div (d[1] * d[2])>>

Linear(p, d) == p[3] * d[1] * d[2] + p[2] * d[1] + p[1]

cluster_id(t, cta) ==
    LET p == decode_cta(cta, t.grid)
    IN  Linear([k \in Axis |-> p[k] \div t.dims[k]], t.clusters)

\* Mutant: ranks are dealt along the grid and not along the tiles.
cta_rank_linear(t, cta) == cta % Volume(t.dims)

cta_rank(t, cta) ==
    LET p == decode_cta(cta, t.grid)
    IN  Linear([k \in Axis |-> p[k] % t.dims[k]], t.dims)

grid_cta(t, cluster, rank) ==
    LET q == decode_cta(cluster, t.clusters)
        r == decode_cta(rank, t.dims)
    IN  Linear([k \in Axis |-> q[k] * t.dims[k] + r[k]], t.grid)

valid_rank(t, rank) == rank < Volume(t.dims)

\* Two CTAs lie in the same tile.
SameTile(t, c, d) ==
    \A k \in Axis :
      decode_cta(c, t.grid)[k] \div t.dims[k] = decode_cta(d, t.grid)[k] \div t.dims[k]

=============================================================================
