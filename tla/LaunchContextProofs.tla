------------------------ MODULE LaunchContextProofs ------------------------
(***************************************************************************)
(* Proofs about Contexts and launches for every number of host threads,    *)
(* every size of the address space and all configurations: allocations     *)
(* are disjoint and permanent, and a translated address is good only in    *)
(* the launch it was made in.  First, the numbering of CTAs by cluster and *)
(* rank, for every grid that clusters tile without remainder: mixed-radix  *)
(* packing is undone by division.                                          *)
(***************************************************************************)
EXTENDS LaunchContext, SequenceTheorems, TLAPS

-----------------------------------------------------------------------------
(* The cluster topology.                                                   *)

\* The arithmetic of one digit: a larger factor makes room for a remainder.
LEMMA ProductGrows ==
    ASSUME NEW a \in Nat, NEW b \in Nat, NEW m \in Nat \ {0}, a < b
    PROVE  a * m + m <= b * m
<1>1. PICK e \in Nat : b = a + 1 + e
  <2>1. b - a - 1 \in Nat /\ b = a + 1 + (b - a - 1)
    OBVIOUS
  <2> QED BY <2>1
<1>2. b * m = a * m + m + e * m
  BY <1>1
<1>3. e * m \in Nat /\ a * m \in Nat
  OBVIOUS
<1> QED  BY <1>2, <1>3

\* A quotient and a remainder are determined by their number.
LEMMA RadixUnique ==
    ASSUME NEW m \in Nat \ {0}, NEW q \in Nat, NEW s \in Nat,
           NEW r \in 0 .. m - 1, NEW u \in 0 .. m - 1, q * m + r = s * m + u
    PROVE  q = s /\ r = u
<1>0. q * m \in Nat /\ s * m \in Nat
  OBVIOUS
<1>1. ~(q < s)
  <2>1. q < s => q * m + m <= s * m
    BY ProductGrows
  <2> QED BY <1>0, <2>1
<1>2. ~(s < q)
  <2>1. s < q => s * m + m <= q * m
    BY ProductGrows
  <2> QED BY <1>0, <2>1
<1> QED  BY <1>1, <1>2

\* Division with remainder.
LEMMA DivModDef ==
    ASSUME NEW m \in Nat \ {0}, NEW n \in Nat
    PROVE  /\ n \div m \in Nat /\ n % m \in 0 .. m - 1
           /\ n = (n \div m) * m + (n % m)
OBVIOUS

\* Quotient and remainder are read back.
LEMMA DivModUnique ==
    ASSUME NEW m \in Nat \ {0}, NEW q \in Nat, NEW r \in 0 .. m - 1
    PROVE  (q * m + r) \div m = q /\ (q * m + r) % m = r
<1> DEFINE n == q * m + r
<1>1. n \in Nat
  OBVIOUS
<1> HIDE DEF n
<1>2. n \div m \in Nat /\ n % m \in 0 .. m - 1 /\ n = (n \div m) * m + (n % m)
  BY <1>1, DivModDef
<1>3. (n \div m) * m + (n % m) = q * m + r
  BY <1>2 DEF n
<1>4. n \div m = q /\ n % m = r
  BY <1>2, <1>3, RadixUnique
<1> QED BY <1>4 DEF n

\* The quotient of a number below a product.
LEMMA DivBound ==
    ASSUME NEW m \in Nat \ {0}, NEW n \in Nat, NEW c \in Nat, n < c * m
    PROVE  n \div m < c
<1>1. n \div m \in Nat /\ n % m \in 0 .. m - 1 /\ n = (n \div m) * m + (n % m)
  BY DivModDef
<1> DEFINE k == n \div m
<1> HIDE DEF k
<1>2. c < k => c * m + m <= k * m
  BY <1>1, ProductGrows DEF k
<1>3. c * m \in Nat /\ k * m \in Nat
  BY <1>1 DEF k
<1>4. ~(c < k) /\ c # k
  BY <1>1, <1>2, <1>3 DEF k
<1> QED  BY <1>1, <1>4 DEF k
\* Coordinates are read back from the number they are packed into.
LEMMA DecodeLinear ==
    ASSUME NEW d, d[1] \in Nat \ {0}, d[2] \in Nat \ {0},
           NEW p, p[1] \in 0 .. d[1] - 1, p[2] \in 0 .. d[2] - 1, p[3] \in Nat
    PROVE  /\ Linear(p, d) \in Nat
           /\ decode_cta(Linear(p, d), d)[1] = p[1]
           /\ decode_cta(Linear(p, d), d)[2] = p[2]
           /\ decode_cta(Linear(p, d), d)[3] = p[3]
<1> DEFINE x == p[1]  y == p[2]  z == p[3]  a == d[1]  b == d[2]
           n == z * a * b + y * a + x
<1>1. /\ a \in Nat \ {0} /\ b \in Nat \ {0}
      /\ x \in 0 .. a - 1 /\ y \in 0 .. b - 1 /\ z \in Nat
  OBVIOUS
<1>2. Linear(p, d) = n /\ decode_cta(n, d) = <<n % a, (n \div a) % b, n \div (a * b)>>
  BY DEF Linear, decode_cta
<1> HIDE DEF x, y, z, a, b
<1>3. n = (z * b + y) * a + x /\ z * b + y \in Nat
  BY <1>1
<1>4. n = z * (a * b) + (y * a + x)
  BY <1>1
<1>5. n \in Nat
  BY <1>1
<1> HIDE DEF n
<1>6. n \div a = z * b + y /\ n % a = x
  BY <1>1, <1>3, DivModUnique
<1>7. (n \div a) % b = y
  BY <1>1, <1>6, DivModUnique
<1>8. n \div (a * b) = z
  <2>1. y * a + a <= b * a
    BY <1>1, ProductGrows
  <2> DEFINE w == y * a + x  m == a * b
  <2>2. w \in Nat /\ m \in Nat /\ m = b * a /\ w < y * a + a /\ y * a + a \in Nat
    BY <1>1
  <2>3. m \in Nat \ {0} /\ w \in 0 .. m - 1
    BY <1>1, <2>1, <2>2
  <2>4. n = z * m + w
    BY <1>4
  <2> HIDE DEF w, m
  <2>5. n \div m = z
    BY <1>1, <2>3, <2>4, DivModUnique
  <2> QED  BY <2>5 DEF m
<1> QED
  BY <1>2, <1>5, <1>6, <1>7, <1>8 DEF x, y, z

\* A number is packed back from its coordinates, which are in range.
LEMMA LinearDecode ==
    ASSUME NEW d, d[1] \in Nat \ {0}, d[2] \in Nat \ {0}, NEW n \in Nat
    PROVE  /\ Linear(decode_cta(n, d), d) = n
           /\ decode_cta(n, d)[1] \in 0 .. d[1] - 1
           /\ decode_cta(n, d)[2] \in 0 .. d[2] - 1
           /\ decode_cta(n, d)[3] \in Nat
<1> DEFINE a == d[1]  b == d[2]  v == n \div a
           p == <<n % a, v % b, v \div b>>
<1>1. a \in Nat \ {0} /\ b \in Nat \ {0}
  OBVIOUS
<1>2. v \in Nat /\ n % a \in 0 .. a - 1 /\ n = v * a + (n % a)
  BY <1>1, DivModDef
<1> HIDE DEF v
<1>3. v \div b \in Nat /\ v % b \in 0 .. b - 1 /\ v = (v \div b) * b + (v % b)
  BY <1>1, <1>2, DivModDef
<1> DEFINE x == n % a  y == v % b  z == v \div b
<1>4. /\ x \in 0 .. a - 1 /\ y \in 0 .. b - 1 /\ z \in Nat
      /\ v = z * b + y /\ n = v * a + x
  BY <1>2, <1>3
<1>5. p[1] = x /\ p[2] = y /\ p[3] = z
  OBVIOUS
<1> HIDE DEF x, y, z, p
<1>6. n = z * a * b + y * a + x
  <2>1. n = (z * b + y) * a + x
    BY <1>4
  <2>2. (z * b + y) * a = z * a * b + y * a
    BY <1>1, <1>4
  <2> QED  BY <1>1, <1>4, <2>1, <2>2
<1>7. Linear(p, d) = n
  BY <1>5, <1>6 DEF Linear, a, b
<1>8. decode_cta(n, d)[1] = x /\ decode_cta(n, d)[2] = y /\ decode_cta(n, d)[3] = z
  BY <1>1, <1>4, <1>5, <1>7, DecodeLinear DEF a, b
<1>9. Linear(decode_cta(n, d), d) = Linear(p, d)
  BY <1>5, <1>8 DEF Linear
<1> QED
  BY <1>1, <1>4, <1>7, <1>8, <1>9 DEF a, b
\* The grid is tiled by the clusters without remainder.
Tiled(t) ==
    /\ \A k \in Axis : t.dims[k] \in Nat \ {0} /\ t.clusters[k] \in Nat \ {0}
    /\ \A k \in Axis : t.grid[k] = t.clusters[k] * t.dims[k]

\* The sizes of a tiled grid are positive.
LEMMA TiledGrid ==
    ASSUME NEW t, Tiled(t)
    PROVE  /\ \A k \in Axis : t.grid[k] \in Nat \ {0}
           /\ \A d \in {t.grid, t.dims, t.clusters} :
                d[1] \in Nat \ {0} /\ d[2] \in Nat \ {0} /\ d[3] \in Nat \ {0}
<1>1. ASSUME NEW k \in Axis PROVE t.grid[k] \in Nat \ {0}
  <2> DEFINE x == t.dims[k]  y == t.clusters[k]
  <2>1. x \in Nat \ {0} /\ y \in Nat \ {0} /\ t.grid[k] = y * x
    BY DEF Tiled
  <2> HIDE DEF x, y
  <2>2. y * x \in Nat \ {0}
    BY <2>1
  <2> QED BY <2>1, <2>2
<1>2. 1 \in Axis /\ 2 \in Axis /\ 3 \in Axis
  BY DEF Axis
<1> QED  BY <1>1, <1>2 DEF Tiled

\* The number of a tile and the rank in it, taken along the axes.
LEMMA TileOfCta ==
    ASSUME NEW t, Tiled(t), NEW n \in 0 .. Volume(t.grid) - 1
    PROVE  \A k \in Axis :
             /\ decode_cta(n, t.grid)[k] \in Nat
             /\ decode_cta(n, t.grid)[k] \div t.dims[k] \in 0 .. t.clusters[k] - 1
             /\ decode_cta(n, t.grid)[k] % t.dims[k] \in 0 .. t.dims[k] - 1
<1> DEFINE g == t.grid
           p == decode_cta(n, g)
<1>1. g[1] \in Nat \ {0} /\ g[2] \in Nat \ {0} /\ g[3] \in Nat \ {0}
  BY TiledGrid
<1>2. n \in Nat /\ n < g[1] * g[2] * g[3]
  BY <1>1 DEF Volume
<1>3. p[1] \in 0 .. g[1] - 1 /\ p[2] \in 0 .. g[2] - 1 /\ p[3] \in Nat
  BY <1>1, <1>2, LinearDecode
<1>4. p[3] < g[3]
  <2> DEFINE m == g[1] * g[2]  c == g[3]
  <2>1. m \in Nat \ {0} /\ c \in Nat /\ p[3] = n \div m
    BY <1>1 DEF decode_cta
  <2>2. n < c * m
    BY <1>1, <1>2
  <2> HIDE DEF m, c
  <2>3. p[3] < c
    BY <1>2, <2>1, <2>2, DivBound
  <2> QED  BY <2>3 DEF c
<1>5. ASSUME NEW k \in Axis PROVE p[k] \in Nat /\ p[k] < g[k]
  <2>1. k = 1 \/ k = 2 \/ k = 3
    BY DEF Axis
  <2> HIDE DEF p, g
  <2> QED  BY <1>1, <1>3, <1>4, <2>1
<1> SUFFICES ASSUME NEW k \in Axis
             PROVE  /\ p[k] \in Nat
                    /\ p[k] \div t.dims[k] \in 0 .. t.clusters[k] - 1
                    /\ p[k] % t.dims[k] \in 0 .. t.dims[k] - 1
  OBVIOUS
<1> DEFINE x == p[k]  m == t.dims[k]  c == t.clusters[k]
<1>6. x \in Nat /\ m \in Nat \ {0} /\ c \in Nat \ {0} /\ x < c * m
  BY <1>5 DEF Tiled
<1> HIDE DEF x, m, c
<1>7. x \div m \in Nat /\ x \div m < c /\ x % m \in 0 .. m - 1
  BY <1>6, DivModDef, DivBound
<1>8. x \div m \in 0 .. c - 1
  BY <1>6, <1>7
<1> QED  BY <1>6, <1>7, <1>8 DEF x, m, c

\* Cluster numbers are natural numbers.
LEMMA ClusterIdType ==
    ASSUME NEW t, Tiled(t), NEW n \in 0 .. Volume(t.grid) - 1
    PROVE  cluster_id(t, n) \in Nat
<1> DEFINE q == [k \in Axis |-> decode_cta(n, t.grid)[k] \div t.dims[k]]
<1>1. /\ q[1] \in 0 .. t.clusters[1] - 1 /\ q[2] \in 0 .. t.clusters[2] - 1
      /\ q[3] \in Nat
  BY TileOfCta, TiledGrid DEF Axis
<1>2. cluster_id(t, n) = Linear(q, t.clusters)
  BY DEF cluster_id
<1>3. t.clusters[1] \in Nat \ {0} /\ t.clusters[2] \in Nat \ {0}
  BY TiledGrid
<1> HIDE DEF q
<1> QED  BY <1>1, <1>2, <1>3, DecodeLinear

\* CTAs with equal cluster numbers lie in the same tile (cluster_id).
THEOREM ClusterIsTile ==
    ASSUME NEW t, Tiled(t),
           NEW n \in 0 .. Volume(t.grid) - 1, NEW o \in 0 .. Volume(t.grid) - 1,
           cluster_id(t, n) = cluster_id(t, o)
    PROVE  SameTile(t, n, o)
<1> DEFINE q(x) == [k \in Axis |-> decode_cta(x, t.grid)[k] \div t.dims[k]]
<1>1. ASSUME NEW x \in 0 .. Volume(t.grid) - 1
      PROVE  /\ q(x)[1] = decode_cta(cluster_id(t, x), t.clusters)[1]
             /\ q(x)[2] = decode_cta(cluster_id(t, x), t.clusters)[2]
             /\ q(x)[3] = decode_cta(cluster_id(t, x), t.clusters)[3]
  <2>1. /\ q(x)[1] \in 0 .. t.clusters[1] - 1 /\ q(x)[2] \in 0 .. t.clusters[2] - 1
        /\ q(x)[3] \in Nat
    <3>1. \A k \in Axis : q(x)[k] \in 0 .. t.clusters[k] - 1
      BY <1>1, TileOfCta
    <3>2. 1 \in Axis /\ 2 \in Axis /\ 3 \in Axis /\ t.clusters[3] \in Nat \ {0}
      BY TiledGrid DEF Axis
    <3> HIDE DEF q
    <3> QED  BY <3>1, <3>2
  <2>2. cluster_id(t, x) = Linear(q(x), t.clusters)
    BY DEF cluster_id
  <2>3. t.clusters[1] \in Nat \ {0} /\ t.clusters[2] \in Nat \ {0}
    BY TiledGrid
  <2> HIDE DEF q
  <2> QED  BY <2>1, <2>2, <2>3, DecodeLinear
<1>2. q(n)[1] = q(o)[1] /\ q(n)[2] = q(o)[2] /\ q(n)[3] = q(o)[3]
  <2> HIDE DEF q
  <2> QED  BY <1>1
<1>3. \A k \in Axis : q(n)[k] = q(o)[k]
  <2> HIDE DEF q
  <2> QED  BY <1>2 DEF Axis
<1> QED  BY <1>3 DEF SameTile

\* grid_cta of a CTA's cluster number and rank is the CTA: no two CTAs share
\* both (grid_cta, cluster_id, cta_rank).
THEOREM CtaOfRank ==
    ASSUME NEW t, Tiled(t), NEW n \in 0 .. Volume(t.grid) - 1
    PROVE  grid_cta(t, cluster_id(t, n), cta_rank(t, n)) = n
<1> DEFINE p == decode_cta(n, t.grid)
           q == [k \in Axis |-> p[k] \div t.dims[k]]
           r == [k \in Axis |-> p[k] % t.dims[k]]
           s == [k \in Axis |-> decode_cta(cluster_id(t, n), t.clusters)[k] * t.dims[k]
                                + decode_cta(cta_rank(t, n), t.dims)[k]]
<1>1. /\ cluster_id(t, n) = Linear(q, t.clusters) /\ cta_rank(t, n) = Linear(r, t.dims)
      /\ grid_cta(t, cluster_id(t, n), cta_rank(t, n)) = Linear(s, t.grid)
  BY DEF cluster_id, cta_rank, grid_cta
<1>2. \A k \in Axis : /\ p[k] \in Nat
                      /\ q[k] = p[k] \div t.dims[k] /\ q[k] \in 0 .. t.clusters[k] - 1
                      /\ r[k] = p[k] % t.dims[k] /\ r[k] \in 0 .. t.dims[k] - 1
  BY TileOfCta
<1>3. /\ \A k \in Axis : t.dims[k] \in Nat \ {0}
      /\ \A k \in Axis : t.clusters[k] \in Nat \ {0}
      /\ t.grid[1] \in Nat \ {0} /\ t.grid[2] \in Nat \ {0} /\ n \in Nat
  BY TiledGrid DEF Tiled, Axis
<1>4. \A k \in Axis : s[k] = decode_cta(cluster_id(t, n), t.clusters)[k] * t.dims[k]
                             + decode_cta(cta_rank(t, n), t.dims)[k]
  OBVIOUS
<1>p. Linear(p, t.grid) = n
  BY <1>3, LinearDecode
<1> HIDE DEF p, q, r, s
<1>5. /\ decode_cta(cluster_id(t, n), t.clusters)[1] = q[1]
      /\ decode_cta(cluster_id(t, n), t.clusters)[2] = q[2]
      /\ decode_cta(cluster_id(t, n), t.clusters)[3] = q[3]
  BY <1>1, <1>2, <1>3, DecodeLinear DEF Axis
<1>6. /\ decode_cta(cta_rank(t, n), t.dims)[1] = r[1]
      /\ decode_cta(cta_rank(t, n), t.dims)[2] = r[2]
      /\ decode_cta(cta_rank(t, n), t.dims)[3] = r[3]
  BY <1>1, <1>2, <1>3, DecodeLinear DEF Axis
<1>7. ASSUME NEW k \in Axis PROVE s[k] = p[k]
  <2> DEFINE x == p[k]  m == t.dims[k]
  <2>1. /\ decode_cta(cluster_id(t, n), t.clusters)[k] = q[k]
        /\ decode_cta(cta_rank(t, n), t.dims)[k] = r[k]
    BY <1>5, <1>6 DEF Axis
  <2>2. s[k] = (x \div m) * m + (x % m)
    BY <1>2, <1>4, <2>1
  <2>3. x \in Nat /\ m \in Nat \ {0}
    BY <1>2, <1>3
  <2> HIDE DEF x, m
  <2>4. s[k] = x
    BY <2>2, <2>3, DivModDef
  <2> QED  BY <2>4 DEF x
<1>8. Linear(s, t.grid) = Linear(p, t.grid)
  BY <1>7 DEF Linear, Axis
<1> QED  BY <1>1, <1>p, <1>8

\* The CTA grid_cta gives for a valid rank has that rank (grid_cta, cta_rank).
THEOREM RankOfCta ==
    ASSUME NEW t, Tiled(t), NEW c \in Nat, NEW v \in Nat, valid_rank(t, v)
    PROVE  /\ grid_cta(t, c, v) \in Nat
           /\ cta_rank(t, grid_cta(t, c, v)) = v
<1> DEFINE q == decode_cta(c, t.clusters)
           r == decode_cta(v, t.dims)
           s == [k \in Axis |-> q[k] * t.dims[k] + r[k]]
           n == grid_cta(t, c, v)
           p == decode_cta(n, t.grid)
           w == [k \in Axis |-> p[k] % t.dims[k]]
<1>1. n = Linear(s, t.grid) /\ cta_rank(t, n) = Linear(w, t.dims)
  BY DEF cta_rank, grid_cta
<1>2. \A k \in Axis : s[k] = q[k] * t.dims[k] + r[k] /\ w[k] = p[k] % t.dims[k]
  OBVIOUS
<1>3. /\ \A d \in {t.grid, t.dims, t.clusters} :
           d[1] \in Nat \ {0} /\ d[2] \in Nat \ {0} /\ d[3] \in Nat \ {0}
      /\ \A k \in Axis : t.grid[k] = t.clusters[k] * t.dims[k]
  BY TiledGrid DEF Tiled
<1>4. q[1] \in 0 .. t.clusters[1] - 1 /\ q[2] \in 0 .. t.clusters[2] - 1 /\ q[3] \in Nat
  BY <1>3, LinearDecode
<1>5. /\ r[1] \in 0 .. t.dims[1] - 1 /\ r[2] \in 0 .. t.dims[2] - 1 /\ r[3] \in Nat
      /\ Linear(r, t.dims) = v
  BY <1>3, LinearDecode
<1>6. r[3] < t.dims[3]
  <2> DEFINE m == t.dims[1] * t.dims[2]  e == t.dims[3]
  <2>1. m \in Nat \ {0} /\ e \in Nat /\ r[3] = v \div m
    BY <1>3 DEF decode_cta
  <2>2. v < e * m
    BY <1>3 DEF valid_rank, Volume
  <2> HIDE DEF m, e
  <2>3. r[3] < e
    BY <2>1, <2>2, DivBound
  <2> QED  BY <2>3 DEF e
<1> HIDE DEF q, r, s, w, n
<1>7. ASSUME NEW k \in Axis
      PROVE  /\ s[k] \in Nat
             /\ s[k] % t.dims[k] = r[k]
             /\ k # 3 => s[k] \in 0 .. t.grid[k] - 1
  <2> DEFINE m == t.dims[k]  x == q[k]  y == r[k]  e == t.clusters[k]
  <2>1. /\ m \in Nat \ {0} /\ x \in Nat /\ y \in 0 .. m - 1 /\ s[k] = x * m + y
        /\ (k # 3 => x < e) /\ e \in Nat /\ t.grid[k] = e * m
    BY <1>2, <1>3, <1>4, <1>5, <1>6 DEF Axis
  <2>2. s[k] % t.dims[k] = y
    <3> HIDE DEF m, x, y, e
    <3>1. (x * m + y) % m = y
      BY <2>1, DivModUnique
    <3>2. s[k] % m = y
      BY <2>1, <3>1
    <3> QED  BY <3>2 DEF m
  <2>3. s[k] \in Nat /\ (k # 3 => s[k] \in 0 .. t.grid[k] - 1)
    <3> HIDE DEF m, x, y, e
    <3>1. x < e => x * m + m <= e * m
      BY <2>1, ProductGrows
    <3>2. x * m \in Nat /\ e * m \in Nat
      BY <2>1
    <3> QED  BY <2>1, <3>1, <3>2
  <2> QED  BY <2>2, <2>3
<1>8. n \in Nat /\ p[1] = s[1] /\ p[2] = s[2] /\ p[3] = s[3]
  <2>1. s[1] \in 0 .. t.grid[1] - 1 /\ s[2] \in 0 .. t.grid[2] - 1 /\ s[3] \in Nat
    BY <1>7 DEF Axis
  <2> QED  BY <1>1, <1>3, <2>1, DecodeLinear
<1> HIDE DEF p
<1>9. w[1] = r[1] /\ w[2] = r[2] /\ w[3] = r[3]
  BY <1>2, <1>7, <1>8 DEF Axis
<1>10. Linear(w, t.dims) = Linear(r, t.dims)
  BY <1>9 DEF Linear
<1> QED  BY <1>1, <1>5, <1>8, <1>10 DEF n

-----------------------------------------------------------------------------
(* The allocator.                                                          *)

AllocatorOK(m) ==
    /\ m \in AllocatorState
    /\ Ordered(m)

\* n has the allocations of m, none of them revived.
Extends(m, n) ==
    \A i \in DOMAIN m.allocs :
        /\ i \in DOMAIN n.allocs
        /\ n.allocs[i].base = m.allocs[i].base
        /\ n.allocs[i].size = m.allocs[i].size
        /\ n.allocs[i].alive => m.allocs[i].alive

LEMMA NewAllocatorOK == AllocatorOK(NewAllocator)
<1>1. <<>> \in Seq(Allocation) /\ DOMAIN <<>> = {}
  OBVIOUS
<1>2. NewAllocator \in AllocatorState
  BY <1>1, AllocatorAssumption DEF NewAllocator, AllocatorState
<1>3. Ordered(NewAllocator)
  BY <1>1, AllocatorAssumption DEF NewAllocator, Ordered
<1>4. QED
  BY <1>2, <1>3 DEF AllocatorOK

LEMMA ExtendsReflexive == \A m : Extends(m, m)
BY DEF Extends

LEMMA StartType ==
    ASSUME NEW m, m.cursor \in 0 .. AddrMax, NEW align,
           align = 0 \/ align \in Pow2
    PROVE  Start(m, align) \in Int
<1> DEFINE e == eff_align(align)
<1>1. e \in Nat \ {0}
  <2>1. Pow2 \subseteq Nat \ {0} /\ MinAlign \in Pow2
    BY AllocatorAssumption
  <2>2. MinAlign \in Nat \ {0}
    BY <2>1, Zenon
  <2>3. align = 0 \/ align \in Nat \ {0}
    BY <2>1, Zenon
  <2>4. QED
    BY <2>2, <2>3 DEF eff_align
<1>2. AddrMax + 1 \in Nat \ {0}
  BY AllocatorAssumption
<1> DEFINE sum == (m.cursor + e - 1) % (AddrMax + 1)
<1>3. m.cursor + e - 1 \in Int
  BY <1>1
<1>4. sum \in Int
  BY <1>2, <1>3
<1>5. sum % e \in Int
  BY <1>1, <1>4
<1>6. m.cursor \in Int
  OBVIOUS
<1> HIDE DEF e, sum
<1>7. align_up(m.cursor, e) = IF e <= 1 THEN m.cursor ELSE sum - (sum % e)
  BY DEF align_up, sum
<1>8. align_up(m.cursor, e) \in Int
  BY <1>4, <1>5, <1>6, <1>7
<1>9. QED
  BY <1>8 DEF Start, e

\* The cursor only moves up, past the end of the new allocation.
LEMMA AllocateOK ==
    ASSUME NEW m, AllocatorOK(m), NEW space \in Space, NEW size \in Nat,
           NEW align, CanAllocate(m, size, align)
    PROVE  /\ AllocatorOK(allocate(m, space, size, align))
           /\ Extends(m, allocate(m, space, size, align))
<1> DEFINE s == Start(m, align)
           a == [space |-> space, base |-> s, size |-> size, alive |-> TRUE]
           n == allocate(m, space, size, align)
<1>1. m.allocs \in Seq(Allocation) /\ m.cursor \in 0 .. AddrMax /\ Ordered(m)
  BY DEF AllocatorOK, AllocatorState
<1>2. s \in Int /\ s >= m.cursor /\ size <= AddrMax - s /\ size # 0
  BY <1>1, StartType DEF CanAllocate
<1>3. a \in Allocation
  BY <1>1, <1>2 DEF Allocation
<1>4. n = [allocs |-> Append(m.allocs, a), cursor |-> s + size]
  BY DEF allocate
<1> HIDE DEF n, a, s
<1>5. n.allocs = Append(m.allocs, a) /\ n.cursor = s + size
  BY <1>4
<1>6. /\ n.allocs \in Seq(Allocation)
      /\ Len(n.allocs) = Len(m.allocs) + 1
      /\ \A i \in 1 .. Len(m.allocs) : n.allocs[i] = m.allocs[i]
      /\ n.allocs[Len(m.allocs) + 1] = a
  BY <1>1, <1>3, <1>5, AppendProperties
<1>7. n.cursor \in 0 .. AddrMax
  BY <1>1, <1>2, <1>5, AllocatorAssumption
<1>8. /\ DOMAIN m.allocs = 1 .. Len(m.allocs)
      /\ DOMAIN n.allocs = 1 .. (Len(m.allocs) + 1)
      /\ Len(m.allocs) \in Nat
  BY <1>1, <1>6
<1>9. a.base = s /\ a.size = size
  BY DEF a
<1>10. ASSUME NEW i \in DOMAIN m.allocs
       PROVE  m.allocs[i].base \in Nat /\ m.allocs[i].size \in Nat
  <2>1. m.allocs[i] \in Allocation
    BY <1>1
  <2>2. QED
    BY <2>1 DEF Allocation
<1>11. Ordered(n)
  <2>1. \A i \in DOMAIN m.allocs : m.allocs[i].base + m.allocs[i].size <= s
    BY <1>1, <1>2, <1>10 DEF Ordered
  <2>2. ASSUME NEW i \in DOMAIN n.allocs, NEW j \in DOMAIN n.allocs, i < j
        PROVE  n.allocs[i].base + n.allocs[i].size <= n.allocs[j].base
    <3>1. i \in DOMAIN m.allocs /\ n.allocs[i] = m.allocs[i]
      BY <1>6, <1>8, <2>2
    <3>2. CASE j = Len(m.allocs) + 1
      BY <1>6, <1>9, <2>1, <3>1, <3>2
    <3>3. CASE j \in DOMAIN m.allocs
      BY <1>1, <1>6, <1>8, <2>2, <3>1, <3>3 DEF Ordered
    <3>4. QED
      BY <1>8, <3>2, <3>3
  <2>3. ASSUME NEW i \in DOMAIN n.allocs
        PROVE  n.allocs[i].size > 0 /\ n.allocs[i].base + n.allocs[i].size <= n.cursor
    <3>1. CASE i = Len(m.allocs) + 1
      BY <1>2, <1>5, <1>6, <1>9, <3>1
    <3>2. CASE i \in DOMAIN m.allocs
      BY <1>1, <1>2, <1>5, <1>6, <1>8, <1>10, <2>1, <3>2 DEF Ordered
    <3>3. QED
      BY <1>8, <3>1, <3>2
  <2>4. QED
    BY <1>7, <2>2, <2>3 DEF Ordered
<1>12. n \in AllocatorState
  BY <1>4, <1>5, <1>6, <1>7 DEF AllocatorState
<1>13. Extends(m, n)
  BY <1>6, <1>8 DEF Extends
<1>14. QED
  BY <1>11, <1>12, <1>13 DEF AllocatorOK, n

\* free marks allocations dead and moves nothing.
LEMMA FreeOK ==
    ASSUME NEW m, AllocatorOK(m), NEW bases
    PROVE  /\ AllocatorOK(free(m, bases))
           /\ Extends(m, free(m, bases))
<1> DEFINE q(i) == IF m.allocs[i].base \in bases
                     THEN [m.allocs[i] EXCEPT !.alive = FALSE] ELSE m.allocs[i]
           f == [i \in DOMAIN m.allocs |-> q(i)]
           n == free(m, bases)
<1>1. m.allocs \in Seq(Allocation) /\ m.cursor \in 0 .. AddrMax /\ Ordered(m)
  BY DEF AllocatorOK, AllocatorState
<1>2. n = [allocs |-> f, cursor |-> m.cursor]
  <2>1. m = [allocs |-> m.allocs, cursor |-> m.cursor]
    BY DEF AllocatorOK, AllocatorState
  <2>2. n = [m EXCEPT !.allocs = f]
    BY DEF free
  <2> HIDE DEF n, f
  <2>3. QED
    BY <2>1, <2>2
<1>3. ASSUME NEW i \in DOMAIN m.allocs
      PROVE  /\ q(i) \in Allocation
             /\ q(i).base = m.allocs[i].base
             /\ q(i).size = m.allocs[i].size
             /\ q(i).alive => m.allocs[i].alive
  <2>1. m.allocs[i] \in Allocation
    BY <1>1
  <2>2. QED
    BY <2>1 DEF Allocation
<1> HIDE DEF n, q
<1>4. n.allocs = f /\ n.cursor = m.cursor
  BY <1>2
<1>5. f \in Seq(Allocation) /\ DOMAIN f = DOMAIN m.allocs
  <2>1. DOMAIN m.allocs = 1 .. Len(m.allocs) /\ Len(m.allocs) \in Nat
    BY <1>1
  <2>2. f \in [1 .. Len(m.allocs) -> Allocation]
    BY <1>3, <2>1
  <2>3. QED
    BY <2>1, <2>2, SeqDef
<1>6. Ordered(n)
  BY <1>1, <1>3, <1>4, <1>5 DEF Ordered
<1>7. Extends(m, n)
  BY <1>3, <1>4, <1>5 DEF Extends
<1>8. n \in AllocatorState
  BY <1>1, <1>2, <1>5 DEF AllocatorState
<1>9. QED
  BY <1>6, <1>7, <1>8 DEF AllocatorOK, n

-----------------------------------------------------------------------------
(* The inductive invariant.  That a commit is of its own launch needs the  *)
(* nonces: a Context's is below the source, so no later Context gets it,   *)
(* and Contexts or translations that share one share the Context's serial  *)
(* number.  It also needs that a launch starts without commits.            *)

\* r is a record with the fields of a Context.
IsContext(r) ==
    r \in [serial : {r.serial}, backend : {r.backend},
          context_nonce : {r.context_nonce}, allocator : {r.allocator},
          next_cta_domain : {r.next_cta_domain},
          launch_count : {r.launch_count}, launches : {r.launches},
          active_topology : {r.active_topology},
          active_views : {r.active_views},
          event_stopped : {r.event_stopped}, commits : {r.commits}]

IsLaunch(l) ==
    l \in [config : Configs, views : {l.views}, started : {l.started}]

\* The accesses that belong to r and its running launch.
Own(r) ==
    [serial : {r.serial}, launch : {r.launches},
     delivered : BOOLEAN, stop : BOOLEAN]

GoodContext(r, l, nonce) ==
    /\ IsContext(r)
    /\ AllocatorOK(r.allocator)
    /\ r.launch_count = r.launches
    /\ r.context_nonce \in 0 .. nonce - 1
    /\ r.commits \in Seq(Own(r))
    /\ l = None \/ ~l.started => r.commits = <<>>

Shape ==
    /\ next_nonce \in Nat
    /\ context = [c \in Ctx |-> context[c]]
    /\ launching = [c \in Ctx |-> launching[c]]
    /\ claim = [c \in Ctx |-> claim[c]]
    /\ \A c \in Ctx : claim[c] # None => context[c] = None
    /\ \A c \in Ctx : launching[c] # None => IsLaunch(launching[c])

ContextsGood ==
    \A c \in Ctx : context[c] # None =>
        GoodContext(context[c], launching[c], next_nonce)

NonceNamesContext ==
    /\ \A c, d \in Ctx :
          context[c] # None /\ context[d] # None
            /\ context[c].context_nonce = context[d].context_nonce =>
              context[c].serial = context[d].serial
    /\ \A t \in translations :
          /\ t.context_nonce \in 0 .. next_nonce - 1
          /\ t.launch_generation = t.launch
          /\ \A c \in Ctx :
                context[c] # None /\ t.context_nonce = context[c].context_nonce =>
                  t.serial = context[c].serial

CInv == Shape /\ ContextsGood /\ NonceNamesContext

Permanent ==
    \A c \in Ctx : context[c] # None /\ context'[c] # None =>
        Extends(context[c].allocator, context'[c].allocator)

LEMMA InitCInv == Init => CInv
<1> SUFFICES ASSUME Init PROVE CInv
  OBVIOUS
<1>1. Shape
  BY DEF Init, Shape
<1>2. ContextsGood
  BY DEF Init, ContextsGood
<1>3. NonceNamesContext
  BY DEF Init, NonceNamesContext
<1>4. QED
  BY <1>1, <1>2, <1>3 DEF CInv

\* A step that changes one live Context and its launch.
LEMMA UpdateStep ==
    ASSUME CInv, NEW c \in Ctx, context[c] # None,
           context' = [context EXCEPT ![c] = context'[c]],
           launching' = [launching EXCEPT ![c] = launching'[c]],
           UNCHANGED <<next_nonce, claim, translations>>,
           GoodContext(context'[c], launching'[c], next_nonce),
           launching'[c] # None => IsLaunch(launching'[c]),
           context'[c].serial = context[c].serial,
           context'[c].context_nonce = context[c].context_nonce,
           Extends(context[c].allocator, context'[c].allocator)
    PROVE  CInv' /\ Permanent
<1>1. \A d \in Ctx \ {c} : context'[d] = context[d] /\ launching'[d] = launching[d]
  BY DEF CInv, Shape
<1>2. Shape'
  <2>1. /\ context' = [d \in Ctx |-> context'[d]]
        /\ launching' = [d \in Ctx |-> launching'[d]]
    BY DEF CInv, Shape
  <2>2. QED
    BY <1>1, <2>1 DEF CInv, Shape
<1>3. ContextsGood'
  BY <1>1 DEF CInv, ContextsGood
<1>4. NonceNamesContext'
  BY <1>1 DEF CInv, NonceNamesContext
<1>5. Permanent
  BY <1>1, ExtendsReflexive DEF Permanent
<1>6. QED
  BY <1>2, <1>3, <1>4, <1>5 DEF CInv

\* Steps that leave the Contexts alone.
LEMMA OtherStep ==
    ASSUME CInv, UNCHANGED <<next_nonce, context, launching>>,
           claim' = [c \in Ctx |-> claim'[c]],
           \A c \in Ctx : claim'[c] # None => context[c] = None,
           \A t \in translations' \ translations :
              /\ t.context_nonce \in 0 .. next_nonce - 1
              /\ t.launch_generation = t.launch
              /\ \A c \in Ctx :
                    context[c] # None /\ t.context_nonce = context[c].context_nonce =>
                      t.serial = context[c].serial
    PROVE  CInv' /\ Permanent
<1>1. Shape'
  BY DEF CInv, Shape
<1>2. ContextsGood'
  BY DEF CInv, ContextsGood
<1>3. NonceNamesContext'
  BY DEF CInv, NonceNamesContext
<1>4. Permanent
  BY ExtendsReflexive DEF Permanent
<1>5. QED
  BY <1>1, <1>2, <1>3, <1>4 DEF CInv

-----------------------------------------------------------------------------
(* Creating and destroying Contexts.                                       *)

LEMMA LoadNonceStep == ASSUME CInv, NEW c \in Ctx, LoadNonce(c) PROVE CInv' /\ Permanent
<1>1. /\ claim' = [d \in Ctx |-> claim'[d]]
      /\ \A d \in Ctx : claim'[d] # None => context[d] = None
  BY DEF CInv, Shape, LoadNonce
<1>2. QED
  BY <1>1, OtherStep DEF LoadNonce

LEMMA RetryNonceStep == ASSUME CInv, NEW c \in Ctx, RetryNonce(c) PROVE CInv' /\ Permanent
<1>1. /\ claim' = [d \in Ctx |-> claim'[d]]
      /\ \A d \in Ctx : claim'[d] # None => context[d] = None
  BY DEF CInv, Shape, RetryNonce
<1>2. QED
  BY <1>1, OtherStep DEF RetryNonce

\* The new nonce is the source's value, which no Context and no translation
\* has.
LEMMA CreateStep == ASSUME CInv, NEW c \in Ctx, Create(c) PROVE CInv' /\ Permanent
<1>1. PICK backend \in BOOLEAN :
         context' = [context EXCEPT ![c] = NewContext(claim[c], backend)]
  BY DEF Create
<1> DEFINE r == NewContext(next_nonce, backend)
<1>2. /\ context' = [context EXCEPT ![c] = r]
      /\ context[c] = None
      /\ next_nonce \in Nat /\ next_nonce' = next_nonce + 1
      /\ UNCHANGED <<launching, translations>>
      /\ claim' = [claim EXCEPT ![c] = None]
  BY <1>1 DEF Create, Exchanged, CInv, Shape
<1>3. /\ \A d \in Ctx \ {c} : context'[d] = context[d]
      /\ context'[c] = r
      /\ context' = [d \in Ctx |-> context'[d]]
  BY <1>2 DEF CInv, Shape
<1>4. GoodContext(r, launching'[c], next_nonce')
  <2>1. /\ r.allocator = NewAllocator /\ r.commits = <<>>
        /\ r.launch_count = r.launches /\ r.context_nonce = next_nonce
        /\ IsContext(r)
    BY DEF NewContext, IsContext
  <2>2. <<>> \in Seq(Own(r))
    OBVIOUS
  <2> HIDE DEF r
  <2>3. QED
    BY <1>2, <2>1, <2>2, NewAllocatorOK DEF GoodContext
<1>5. r.context_nonce = next_nonce
  BY DEF NewContext
<1> HIDE DEF r
<1>6. Shape'
  BY <1>2, <1>3 DEF CInv, Shape
<1>7. ASSUME NEW d \in Ctx, d # c, context[d] # None
      PROVE  /\ GoodContext(context[d], launching[d], next_nonce')
             /\ context[d].context_nonce # next_nonce
  <2>1. GoodContext(context[d], launching[d], next_nonce)
    BY <1>7 DEF CInv, ContextsGood
  <2>2. QED
    BY <1>2, <2>1 DEF GoodContext
<1>8. ContextsGood'
  BY <1>2, <1>3, <1>4, <1>7 DEF ContextsGood
<1>9. NonceNamesContext'
  <2>1. ASSUME NEW d \in Ctx, NEW e \in Ctx, context'[d] # None, context'[e] # None,
               context'[d].context_nonce = context'[e].context_nonce
        PROVE  context'[d].serial = context'[e].serial
    BY <1>3, <1>5, <1>7, <2>1 DEF CInv, NonceNamesContext
  <2>2. ASSUME NEW t \in translations'
        PROVE  /\ t.context_nonce \in 0 .. next_nonce' - 1
               /\ t.launch_generation = t.launch
               /\ \A d \in Ctx :
                     context'[d] # None
                       /\ t.context_nonce = context'[d].context_nonce =>
                         t.serial = context'[d].serial
    <3>1. /\ t \in translations
          /\ t.context_nonce \in 0 .. next_nonce - 1
      BY <1>2 DEF CInv, NonceNamesContext
    <3>2. t.context_nonce # next_nonce /\ t.context_nonce \in 0 .. next_nonce' - 1
      BY <1>2, <3>1
    <3>3. QED
      BY <1>3, <1>5, <3>1, <3>2 DEF CInv, NonceNamesContext
  <2>3. QED
    BY <2>1, <2>2 DEF NonceNamesContext
<1>10. Permanent
  BY <1>2, <1>3, ExtendsReflexive DEF Permanent
<1>11. QED
  BY <1>6, <1>8, <1>9, <1>10 DEF CInv

LEMMA DestroyStep == ASSUME CInv, NEW c \in Ctx, Destroy(c) PROVE CInv' /\ Permanent
<1>1. /\ \A d \in Ctx \ {c} : context'[d] = context[d]
      /\ context'[c] = None
      /\ context' = [d \in Ctx |-> context'[d]]
      /\ UNCHANGED <<next_nonce, claim, launching, translations>>
  BY DEF Destroy, CInv, Shape
<1>2. Shape'
  BY <1>1 DEF CInv, Shape
<1>3. ContextsGood'
  BY <1>1 DEF CInv, ContextsGood
<1>4. NonceNamesContext'
  BY <1>1 DEF CInv, NonceNamesContext
<1>5. Permanent
  BY <1>1, ExtendsReflexive DEF Permanent
<1>6. QED
  BY <1>2, <1>3, <1>4, <1>5 DEF CInv

-----------------------------------------------------------------------------
(* Steps of one Context.                                                   *)

\* Only the allocator of a Context changes.
LEMMA AllocatorStep ==
    ASSUME CInv, NEW c \in Ctx, context[c] # None, NEW m,
           AllocatorOK(m), Extends(context[c].allocator, m),
           context' = [context EXCEPT ![c].allocator = m],
           launching' = [launching EXCEPT ![c] = launching'[c]],
           UNCHANGED <<next_nonce, claim, translations>>,
           launching'[c] # None => IsLaunch(launching'[c]),
           launching'[c] = None \/ ~launching'[c].started =>
              launching[c] = None \/ ~launching[c].started
    PROVE  CInv' /\ Permanent
<1> DEFINE r == context[c]
           q == [r EXCEPT !.allocator = m]
<1>1. context' = [context EXCEPT ![c] = q] /\ context'[c] = q
  BY DEF CInv, Shape
<1>2. GoodContext(r, launching[c], next_nonce)
  BY DEF CInv, ContextsGood
<1>3. /\ IsContext(q) /\ q.allocator = m
      /\ q.launch_count = r.launch_count /\ q.launches = r.launches
      /\ q.context_nonce = r.context_nonce /\ q.serial = r.serial
      /\ q.commits = r.commits
  BY <1>2 DEF GoodContext, IsContext
<1> HIDE DEF q
<1>4. Own(q) = Own(r)
  BY <1>3 DEF Own
<1>5. GoodContext(q, launching'[c], next_nonce)
  BY <1>2, <1>3, <1>4 DEF GoodContext
<1>6. QED
  BY <1>1, <1>3, <1>5, UpdateStep

LEMMA HostAllocateStep ==
    ASSUME CInv, NEW c \in Ctx, NEW size \in HostSizes, HostAllocate(c, size)
    PROVE  CInv' /\ Permanent
<1> DEFINE m == allocate(context[c].allocator, "global", size, 0)
<1>1. context[c] # None /\ AllocatorOK(context[c].allocator)
  BY DEF CInv, ContextsGood, GoodContext, HostAllocate, Idle
<1>2. AllocatorOK(m) /\ Extends(context[c].allocator, m)
  BY <1>1, AllocateOK, LaunchAssumption DEF HostAllocate, Space
<1>3. context' = [context EXCEPT ![c].allocator = m]
  BY DEF HostAllocate
<1>4. /\ UNCHANGED <<next_nonce, claim, translations>>
      /\ launching' = [launching EXCEPT ![c] = launching'[c]]
      /\ launching'[c] = launching[c]
      /\ launching[c] = None
  BY DEF HostAllocate, Idle, CInv, Shape
<1> HIDE DEF m
<1>5. QED
  BY <1>1, <1>2, <1>3, <1>4, AllocatorStep

LEMMA HostFreeStep ==
    ASSUME CInv, NEW c \in Ctx, NEW base, HostFree(c, base)
    PROVE  CInv' /\ Permanent
<1> DEFINE m == free(context[c].allocator, {base})
<1>1. context[c] # None /\ AllocatorOK(context[c].allocator)
  BY DEF CInv, ContextsGood, GoodContext, HostFree, Idle
<1>2. AllocatorOK(m) /\ Extends(context[c].allocator, m)
  BY <1>1, FreeOK
<1>3. context' = [context EXCEPT ![c].allocator = m]
  BY DEF HostFree
<1>4. /\ UNCHANGED <<next_nonce, claim, translations>>
      /\ launching' = [launching EXCEPT ![c] = launching'[c]]
      /\ launching'[c] = launching[c]
      /\ launching[c] = None
  BY DEF HostFree, Idle, CInv, Shape
<1> HIDE DEF m
<1>5. QED
  BY <1>1, <1>2, <1>3, <1>4, AllocatorStep

LEMMA AllocateWindowStep ==
    ASSUME CInv, NEW c \in Ctx, context[c] # None, AllocateWindow(c)
    PROVE  CInv' /\ Permanent
<1> DEFINE l == launching[c]
           size == SharedSize(l.config)
           m == allocate(context[c].allocator, "shared", size, WindowAlign)
           v == Append(l.views, [base |-> Start(context[c].allocator, WindowAlign),
                                 size |-> size])
<1>1. AllocatorOK(context[c].allocator)
  BY DEF CInv, ContextsGood, GoodContext
<1>2. l # None /\ IsLaunch(l) /\ ~l.started
  BY DEF AllocateWindow, Missing, CInv, Shape
<1>3. size \in Nat
  BY <1>2, LaunchAssumption DEF IsLaunch, SharedSize
<1>4. AllocatorOK(m) /\ Extends(context[c].allocator, m)
  BY <1>1, <1>3, AllocateOK DEF AllocateWindow, Space
<1>5. /\ context' = [context EXCEPT ![c].allocator = m]
      /\ launching' = [launching EXCEPT ![c].views = v]
      /\ UNCHANGED <<next_nonce, claim, translations>>
  BY DEF AllocateWindow
<1> HIDE DEF m, v, size
<1>6. /\ launching' = [launching EXCEPT ![c] = launching'[c]]
      /\ launching'[c] = [l EXCEPT !.views = v]
  BY <1>5 DEF CInv, Shape
<1>7. IsLaunch(launching'[c]) /\ launching'[c].started = l.started
  BY <1>2, <1>6 DEF IsLaunch
<1> HIDE DEF l
<1>8. l = None \/ ~l.started
  BY <1>2
<1>9. QED
  BY <1>4, <1>5, <1>6, <1>7, <1>8, AllocatorStep DEF l

LEMMA LaunchStep ==
    ASSUME CInv, NEW c \in Ctx, context[c] # None, NEW g \in Configs, Launch(c, g)
    PROVE  CInv' /\ Permanent
<1> DEFINE r == context[c]
           n == r.next_cta_domain + IF SharedSize(g) > 0 THEN Volume(g.grid) ELSE 0
           q == [r EXCEPT !.next_cta_domain = n]
           l == [config |-> g, views |-> <<>>, started |-> FALSE]
<1>1. /\ context' = [context EXCEPT ![c] = q] /\ context'[c] = q
      /\ launching' = [launching EXCEPT ![c] = l] /\ launching'[c] = l
      /\ UNCHANGED <<next_nonce, claim, translations>>
  BY DEF Launch, CInv, Shape
<1>2. GoodContext(r, launching[c], next_nonce) /\ launching[c] = None
  BY DEF CInv, ContextsGood, Launch, Idle
<1> HIDE DEF n
<1>3. /\ IsContext(q) /\ q.allocator = r.allocator
      /\ q.launch_count = r.launch_count /\ q.launches = r.launches
      /\ q.context_nonce = r.context_nonce /\ q.serial = r.serial
      /\ q.commits = r.commits
  BY <1>2 DEF GoodContext, IsContext
<1>4. IsLaunch(l)
  BY DEF IsLaunch
<1> HIDE DEF q, l
<1>5. Own(q) = Own(r)
  BY <1>3 DEF Own
<1>6. GoodContext(q, l, next_nonce)
  BY <1>2, <1>3, <1>5 DEF GoodContext
<1>7. QED
  BY <1>1, <1>3, <1>4, <1>6, ExtendsReflexive, UpdateStep

\* The guard frees the windows, and the next launch starts without commits.
LEMMA ReturnStep ==
    ASSUME CInv, NEW c \in Ctx, context[c] # None, Return(c)
    PROVE  CInv' /\ Permanent
<1> DEFINE r == context[c]
           m == free(r.allocator, GuardBases(launching[c]))
           q == [r EXCEPT !.active_topology = Empty, !.active_views = <<>>,
                          !.commits = <<>>, !.allocator = m]
<1>1. /\ context' = [context EXCEPT ![c] = q] /\ context'[c] = q
      /\ launching' = [launching EXCEPT ![c] = None] /\ launching'[c] = None
      /\ UNCHANGED <<next_nonce, claim, translations>>
  BY DEF Return, CInv, Shape
<1>2. GoodContext(r, launching[c], next_nonce)
  BY DEF CInv, ContextsGood
<1>3. AllocatorOK(m) /\ Extends(r.allocator, m)
  BY <1>2, FreeOK DEF GoodContext
<1> HIDE DEF m
<1>4. /\ IsContext(q) /\ q.allocator = m
      /\ q.launch_count = r.launch_count /\ q.launches = r.launches
      /\ q.context_nonce = r.context_nonce /\ q.serial = r.serial
      /\ q.commits = <<>>
  BY <1>2 DEF GoodContext, IsContext
<1> HIDE DEF q
<1>5. <<>> \in Seq(Own(q))
  OBVIOUS
<1>6. GoodContext(q, launching'[c], next_nonce)
  BY <1>2, <1>3, <1>4, <1>5 DEF GoodContext
<1>7. QED
  BY <1>1, <1>3, <1>4, <1>6, UpdateStep

\* The launch gets its generation and its number together.
LEMMA StartBackendStep ==
    ASSUME CInv, NEW c \in Ctx, context[c] # None, StartBackend(c)
    PROVE  CInv' /\ Permanent
<1> DEFINE r == context[c]
           t == build(launching[c].config.cluster, launching[c].config.grid)
           v == launching[c].views
           q == [r EXCEPT !.active_topology = t, !.active_views = v,
                          !.launch_count = r.launch_count + 1,
                          !.launches = r.launches + 1,
                          !.event_stopped = FALSE]
           l == [launching[c] EXCEPT !.started = TRUE]
<1>1. /\ context' = [context EXCEPT ![c] = q] /\ context'[c] = q
      /\ launching' = [launching EXCEPT ![c] = l] /\ launching'[c] = l
      /\ UNCHANGED <<next_nonce, claim, translations>>
  BY DEF StartBackend, Resumed, CInv, Shape
<1>2. /\ GoodContext(r, launching[c], next_nonce)
      /\ launching[c] # None /\ ~launching[c].started /\ IsLaunch(launching[c])
  BY DEF CInv, ContextsGood, Shape, StartBackend, Prepared
<1>3. IsLaunch(l)
  BY <1>2 DEF IsLaunch
<1> HIDE DEF t, v, l
<1>4. /\ IsContext(q) /\ q.allocator = r.allocator
      /\ q.launch_count = r.launch_count + 1 /\ q.launches = r.launches + 1
      /\ q.context_nonce = r.context_nonce /\ q.serial = r.serial
      /\ q.commits = r.commits
  BY <1>2 DEF GoodContext, IsContext
<1> HIDE DEF q
<1>5. q.commits = <<>> /\ <<>> \in Seq(Own(q))
  BY <1>2, <1>4 DEF GoodContext
<1>6. GoodContext(q, l, next_nonce)
  BY <1>2, <1>4, <1>5 DEF GoodContext
<1>7. QED
  BY <1>1, <1>3, <1>4, <1>6, ExtendsReflexive, UpdateStep

-----------------------------------------------------------------------------
(* Translations.                                                           *)

LEMMA ForgetStep ==
    ASSUME CInv, NEW t \in translations, Forget(t)
    PROVE  CInv' /\ Permanent
<1>1. /\ claim' = [d \in Ctx |-> claim'[d]]
      /\ \A d \in Ctx : claim'[d] # None => context[d] = None
      /\ translations' \ translations = {}
  BY DEF CInv, Shape, Forget
<1>2. QED
  BY <1>1, OtherStep DEF Forget

\* A translation carries the nonce of its Context, and the generation that is
\* the number of the launch.
LEMMA TranslateStep ==
    ASSUME CInv, NEW c \in Ctx, context[c] # None, NEW source, NEW logical, NEW a,
           NEW mode, translate_shared(c, source, logical, a, mode)
    PROVE  CInv' /\ Permanent
<1> DEFINE r == context[c]
           t == Translation(r, source, logical, a, mode)
<1>1. GoodContext(r, launching[c], next_nonce)
  BY DEF CInv, ContextsGood
<1>2. /\ t.context_nonce = r.context_nonce /\ t.serial = r.serial
      /\ t.launch_generation = r.launch_count /\ t.launch = r.launches
  BY DEF Translation
<1>3. /\ translations' = translations \cup {t}
      /\ UNCHANGED <<next_nonce, claim, context, launching>>
  BY DEF translate_shared
<1> HIDE DEF t
<1>4. /\ t.context_nonce \in 0 .. next_nonce - 1
      /\ t.launch_generation = t.launch
  BY <1>1, <1>2 DEF GoodContext
<1>5. ASSUME NEW d \in Ctx, context[d] # None, t.context_nonce = context[d].context_nonce
      PROVE  t.serial = context[d].serial
  BY <1>2, <1>5 DEF CInv, NonceNamesContext
<1>6. /\ claim' = [d \in Ctx |-> claim'[d]]
      /\ \A d \in Ctx : claim'[d] # None => context[d] = None
  BY <1>3 DEF CInv, Shape
<1>7. \A u \in translations' \ translations : u = t
  BY <1>3
<1>8. QED
  BY <1>3, <1>4, <1>5, <1>6, <1>7, OtherStep

\* The nonce makes the translation one of this Context, the generation one of
\* this launch.
LEMMA AccessStep ==
    ASSUME CInv, NEW c \in Ctx, context[c] # None, NEW t \in translations,
           AccessShared(c, t)
    PROVE  CInv' /\ Permanent
<1> DEFINE r == context[c]
<1>1. PICK stop \in BOOLEAN :
        context' = [context EXCEPT
          ![c].commits = Append(@, [serial |-> t.serial, launch |-> t.launch,
                                    delivered |-> ~r.event_stopped,
                                    stop |-> ~r.event_stopped /\ stop]),
          ![c].event_stopped = @ \/ stop]
  BY DEF AccessShared
<1> DEFINE a == [serial |-> t.serial, launch |-> t.launch,
                 delivered |-> ~r.event_stopped,
                 stop |-> ~r.event_stopped /\ stop]
           s == Append(r.commits, a)
           e == r.event_stopped \/ stop
           q == [r EXCEPT !.commits = s, !.event_stopped = e]
<1>2. /\ context' = [context EXCEPT ![c] = q] /\ context'[c] = q
  BY <1>1 DEF CInv, Shape
<1>3. /\ GoodContext(r, launching[c], next_nonce)
      /\ launching[c] # None /\ launching[c].started /\ IsLaunch(launching[c])
      /\ UNCHANGED <<next_nonce, claim, translations, launching>>
  BY DEF CInv, ContextsGood, Shape, AccessShared
<1>4. /\ t.context_nonce = r.context_nonce
      /\ t.launch_generation = r.launch_count
  BY DEF AccessShared, Valid
<1>5. t.serial = r.serial /\ t.launch = r.launches
  BY <1>3, <1>4 DEF CInv, NonceNamesContext, GoodContext
<1>6. a \in Own(r)
  <2> DEFINE b == ~r.event_stopped
             d == ~r.event_stopped /\ stop
  <2>1. b \in BOOLEAN /\ d \in BOOLEAN
    BY Zenon
  <2>2. a = [serial |-> t.serial, launch |-> t.launch, delivered |-> b, stop |-> d]
    BY Zenon
  <2> HIDE DEF a, b, d
  <2>3. QED
    BY <1>5, <2>1, <2>2 DEF Own
<1> HIDE DEF a
<1>7. s \in Seq(Own(r))
  BY <1>3, <1>6, AppendProperties DEF GoodContext
<1> HIDE DEF s, e
<1>8. /\ IsContext(q) /\ q.allocator = r.allocator
      /\ q.launch_count = r.launch_count /\ q.launches = r.launches
      /\ q.context_nonce = r.context_nonce /\ q.serial = r.serial
      /\ q.commits = s
  BY <1>3 DEF GoodContext, IsContext
<1> HIDE DEF q
<1>9. Own(q) = Own(r)
  BY <1>8 DEF Own
<1>10. GoodContext(q, launching[c], next_nonce)
  BY <1>3, <1>7, <1>8, <1>9 DEF GoodContext
<1>11. launching' = [launching EXCEPT ![c] = launching'[c]]
  BY <1>3 DEF CInv, Shape
<1>12. QED
  BY <1>2, <1>3, <1>8, <1>10, <1>11, ExtendsReflexive, UpdateStep

-----------------------------------------------------------------------------
(* The theorems.                                                           *)

LEMMA NextStep == CInv /\ [Next]_vars => CInv' /\ Permanent
<1> SUFFICES ASSUME CInv, [Next]_vars PROVE CInv' /\ Permanent
  OBVIOUS
<1>1. ASSUME NEW t \in translations, Forget(t) PROVE CInv' /\ Permanent
  BY <1>1, ForgetStep
<1>2. ASSUME NEW c \in Ctx, LoadNonce(c) \/ Create(c) \/ RetryNonce(c)
      PROVE  CInv' /\ Permanent
  BY <1>2, LoadNonceStep, CreateStep, RetryNonceStep
<1>3. ASSUME NEW c \in Ctx, context[c] # None,
             \/ Destroy(c)
             \/ \E size \in HostSizes : HostAllocate(c, size)
             \/ \E base \in 0 .. AddrMax : HostFree(c, base)
      PROVE  CInv' /\ Permanent
  BY <1>3, DestroyStep, HostAllocateStep, HostFreeStep
<1>4. ASSUME NEW c \in Ctx, context[c] # None,
             \/ \E g \in Configs : Launch(c, g)
             \/ AllocateWindow(c) \/ OutOfMemory(c) \/ WithoutBackend(c)
             \/ StartBackend(c) \/ BackendReturns(c)
      PROVE  CInv' /\ Permanent
  BY <1>4, LaunchStep, AllocateWindowStep, ReturnStep, StartBackendStep
     DEF OutOfMemory, WithoutBackend, BackendReturns
<1>5. ASSUME NEW c \in Ctx, context[c] # None,
             \/ \E source \in 0 .. (Volume(launching[c].config.grid) - 1),
                   logical \in LogicalAddresses, a \in Accesses, mode \in Modes :
                  translate_shared(c, source, logical, a, mode)
             \/ \E t \in translations : AccessShared(c, t)
      PROVE  CInv' /\ Permanent
  BY <1>5, TranslateStep, AccessStep
<1>6. ASSUME UNCHANGED vars PROVE CInv' /\ Permanent
  BY <1>6, OtherStep DEF vars, CInv, Shape
<1>7. \A c \in Live : c \in Ctx /\ context[c] # None
  BY DEF Live
<1>8. QED
  BY <1>1, <1>2, <1>3, <1>4, <1>5, <1>6, <1>7 DEF Next

\* The inductive invariant holds in every state.
THEOREM LaunchInvariance == Spec => []CInv
<1>1. CInv /\ [Next]_vars => CInv'
  BY NextStep
<1>2. QED
  BY InitCInv, <1>1, PTL DEF Spec

\* In every Context no two allocations, dead ones included, share a byte
\* (MemoryAllocator::allocate).
THEOREM AllocationsNeverOverlap == Spec => []AllocationsDisjoint
<1>1. CInv => AllocationsDisjoint
  BY DEF CInv, ContextsGood, GoodContext, AllocatorOK, AllocationsDisjoint, Live
<1>2. QED
  BY LaunchInvariance, <1>1, PTL

\* No access is committed through a translation of another launch or of another
\* Context, whatever was created, destroyed and kept before
\* (Context::validate_translation).
THEOREM TranslationsStayInLaunch == Spec => []OnlyOwnLaunch
<1>1. ASSUME CInv, NEW c \in Live, NEW i \in DOMAIN context[c].commits
      PROVE  /\ context[c].commits[i].serial = context[c].serial
             /\ context[c].commits[i].launch = context[c].launches
  <2>1. context[c].commits \in Seq(Own(context[c]))
    BY <1>1 DEF CInv, ContextsGood, GoodContext, Live
  <2>2. context[c].commits[i] \in Own(context[c])
    BY <2>1
  <2>3. QED
    BY <2>2 DEF Own
<1>2. CInv => OnlyOwnLaunch
  BY <1>1 DEF OnlyOwnLaunch
<1>3. QED
  BY LaunchInvariance, <1>2, PTL

\* An allocation keeps its place and extent as long as its Context lives, and
\* a dead one is never revived (MemoryAllocator::allocate, free).
THEOREM AllocationsStay == Spec => AllocationsPermanent
<1>1. CInv /\ [Next]_vars =>
        [\A c \in Ctx :
           context[c] # None /\ context'[c] # None =>
             LET old == context[c].allocator.allocs
                 new == context'[c].allocator.allocs
             IN  \A i \in DOMAIN old :
                   /\ i \in DOMAIN new
                   /\ new[i].base = old[i].base /\ new[i].size = old[i].size
                   /\ new[i].alive => old[i].alive]_vars
  BY NextStep DEF Permanent, Extends
<1>2. QED
  BY LaunchInvariance, <1>1, PTL DEF Spec, AllocationsPermanent

-----------------------------------------------------------------------------
(* Windows and events of a launch.                                         *)

Started(l) == l # None /\ l.started

Views(l) == IF l = None THEN <<>> ELSE l.views

\* The view v is a live shared allocation of m, aligned as windows are.
Backed(m, v) ==
    /\ v.base % eff_align(WindowAlign) = 0
    /\ \E k \in DOMAIN m.allocs :
          /\ m.allocs[k].alive /\ m.allocs[k].space = "shared"
          /\ m.allocs[k].base = v.base /\ m.allocs[k].size = v.size

\* The live shared allocations are the views.
Layout(m, l) ==
    /\ Views(l) \in Seq(CtaView)
    /\ \A i \in DOMAIN Views(l) : Backed(m, Views(l)[i])
    /\ \A k \in DOMAIN m.allocs :
          m.allocs[k].alive /\ m.allocs[k].space = "shared" =>
            \E i \in DOMAIN Views(l) : Views(l)[i].base = m.allocs[k].base

\* The launch was accepted, and has no more windows than CTAs.
Admitted(l) ==
    l # None => /\ l \in LaunchState
                /\ CanBuild(l.config.cluster, l.config.grid)
                /\ \A k \in Axis : l.config.grid[k] # 0
                /\ Len(l.views) <= Volume(l.config.grid)

\* The backend sees the views and the topology of its launch.
Activated(r, l) ==
    /\ r.active_views = IF Started(l) THEN l.views ELSE <<>>
    /\ r.active_topology = IF Started(l) THEN build(l.config.cluster, l.config.grid)
                           ELSE Empty

\* The sink's stop is remembered, and the events are those before it.
Events(r, l) ==
    /\ Started(l) =>
         (r.event_stopped <=> \E j \in DOMAIN r.commits : r.commits[j].stop)
    /\ \A i \in DOMAIN r.commits :
         r.commits[i].delivered <=> \A j \in 1 .. (i - 1) : ~r.commits[j].stop

GoodLaunch(r, l) ==
    /\ r \in ContextState
    /\ Layout(r.allocator, l) /\ Admitted(l) /\ Activated(r, l) /\ Events(r, l)

WInv ==
    /\ created \in Nat
    /\ \A c \in Ctx : IF context[c] = None THEN launching[c] = None
                   ELSE GoodLaunch(context[c], launching[c])

\* t is what translate_shared gives in r, now.
Derived(r, l, t) ==
    \E source \in 0 .. (Volume(l.config.grid) - 1), logical \in LogicalAddresses,
       a \in Accesses, mode \in Modes :
         /\ CanTranslate(r, source, logical, a, mode)
         /\ t = Translation(r, source, logical, a, mode)

\* Serial numbers name Contexts, and a translation of the running launch could
\* be made again.
TInv ==
    /\ \A c \in Ctx : context[c] # None => context[c].serial \in 1 .. created
    /\ \A c, d \in Ctx :
          context[c] # None /\ context[d] # None /\ c # d =>
            context[c].serial # context[d].serial
    /\ \A t \in translations : t.serial \in 1 .. created
    /\ \A t \in translations, c \in Ctx :
          context[c] # None /\ t.serial = context[c].serial =>
            /\ t.launch \in 0 .. context[c].launches
            /\ t.launch = context[c].launches /\ Started(launching[c]) =>
                 Derived(context[c], launching[c], t)

\* What allocate appends.
LEMMA AllocateShape ==
    ASSUME NEW m, AllocatorOK(m), NEW space \in Space, NEW size \in Nat,
           NEW align, CanAllocate(m, size, align),
           NEW z, z = Len(m.allocs), NEW n, n = allocate(m, space, size, align)
    PROVE  /\ DOMAIN m.allocs = 1 .. z /\ z \in Nat
           /\ DOMAIN n.allocs = 1 .. (z + 1)
           /\ \A i \in DOMAIN m.allocs : n.allocs[i] = m.allocs[i]
           /\ n.allocs[z + 1] = [space |-> space, base |-> Start(m, align),
                                 size |-> size, alive |-> TRUE]
           /\ Start(m, align) \in Nat
<1> DEFINE s == Start(m, align)
           a == [space |-> space, base |-> s, size |-> size, alive |-> TRUE]
<1>1. m.allocs \in Seq(Allocation) /\ m.cursor \in 0 .. AddrMax
  BY DEF AllocatorOK, AllocatorState
<1>2. s \in Nat
  BY <1>1, StartType DEF CanAllocate
<1>3. a \in Allocation
  BY <1>2 DEF Allocation
<1>4. n.allocs = Append(m.allocs, a)
  BY DEF allocate
<1> HIDE DEF a, s
<1>5. /\ n.allocs \in Seq(Allocation)
      /\ Len(n.allocs) = Len(m.allocs) + 1
      /\ \A i \in 1 .. Len(m.allocs) : n.allocs[i] = m.allocs[i]
      /\ n.allocs[Len(m.allocs) + 1] = a
  BY <1>1, <1>3, <1>4, AppendProperties
<1>6. /\ DOMAIN m.allocs = 1 .. Len(m.allocs) /\ Len(m.allocs) \in Nat
      /\ DOMAIN n.allocs = 1 .. (Len(m.allocs) + 1)
  BY <1>1, <1>5
<1>7. QED
  BY <1>2, <1>5, <1>6 DEF a, s

\* What free keeps.
LEMMA FreeShape ==
    ASSUME NEW m, AllocatorOK(m), NEW bases
    PROVE  LET n == free(m, bases)
           IN  /\ DOMAIN n.allocs = DOMAIN m.allocs
               /\ \A i \in DOMAIN m.allocs :
                     /\ n.allocs[i].base = m.allocs[i].base
                     /\ n.allocs[i].space = m.allocs[i].space
                     /\ n.allocs[i].alive => m.allocs[i].alive
                     /\ n.allocs[i].alive => m.allocs[i].base \notin bases
<1> DEFINE q(i) == IF m.allocs[i].base \in bases
                     THEN [m.allocs[i] EXCEPT !.alive = FALSE] ELSE m.allocs[i]
           f == [i \in DOMAIN m.allocs |-> q(i)]
           n == free(m, bases)
<1>1. n.allocs = f
  <2>1. m = [allocs |-> m.allocs, cursor |-> m.cursor]
    BY DEF AllocatorOK, AllocatorState
  <2>2. n = [m EXCEPT !.allocs = f]
    BY DEF free
  <2> HIDE DEF n, f
  <2>3. QED
    BY <2>1, <2>2
<1>2. ASSUME NEW i \in DOMAIN m.allocs
      PROVE  /\ q(i).base = m.allocs[i].base
             /\ q(i).space = m.allocs[i].space
             /\ q(i).alive => m.allocs[i].alive
             /\ q(i).alive => m.allocs[i].base \notin bases
  <2>1. m.allocs[i] \in Allocation
    BY DEF AllocatorOK, AllocatorState
  <2>2. QED
    BY <2>1 DEF Allocation
<1> HIDE DEF n, q
<1>3. QED
  BY <1>1, <1>2 DEF n

\* Windows start at multiples of their alignment.
LEMMA StartAligned ==
    ASSUME NEW m, m.cursor \in 0 .. AddrMax, Start(m, WindowAlign) \in Nat
    PROVE  Start(m, WindowAlign) % eff_align(WindowAlign) = 0
<1> DEFINE e == eff_align(WindowAlign)
           sum == (m.cursor + e - 1) % (AddrMax + 1)
<1>1. e \in Nat \ {0}
  <2>1. MinAlign \in Nat \ {0} /\ WindowAlign \in Nat \ {0}
    BY AllocatorAssumption, LaunchAssumption, Zenon
  <2>2. QED
    BY <2>1 DEF eff_align
<1>2. AddrMax + 1 \in Nat \ {0} /\ m.cursor + e - 1 \in Nat
  BY <1>1, AllocatorAssumption
<1>3. sum \in Nat
  BY <1>2
<1>4. Start(m, WindowAlign) = IF e <= 1 THEN m.cursor ELSE sum - (sum % e)
  BY DEF Start, align_up
<1> HIDE DEF e, sum
<1>5. CASE e <= 1
  BY <1>1, <1>5 DEF e
<1>6. CASE ~(e <= 1)
  <2> DEFINE q == sum \div e
  <2>1. q \in Nat /\ sum % e \in 0 .. e - 1 /\ sum = q * e + (sum % e)
    BY <1>1, <1>3, DivModDef
  <2> HIDE DEF q
  <2>2. sum - (sum % e) = q * e + 0
    BY <1>1, <2>1
  <2>3. (q * e + 0) % e = 0
    <3>1. 0 \in 0 .. e - 1
      BY <1>1
    <3>2. QED
      BY <1>1, <2>1, <3>1, DivModUnique, Zenon
  <2>4. Start(m, WindowAlign) = q * e + 0
    BY <1>4, <1>6, <2>2
  <2>5. QED
    BY <2>3, <2>4, Zenon DEF e
<1>7. QED
  BY <1>5, <1>6

LEMMA InitWInv == Init => WInv /\ TInv
BY DEF Init, WInv, TInv

\* One thread's Context and launch change.
LEMMA WUpdate ==
    ASSUME WInv, NEW c \in Ctx, created' \in Nat,
           \A d \in Ctx \ {c} : context'[d] = context[d] /\ launching'[d] = launching[d],
           context'[c] = None => launching'[c] = None,
           context'[c] # None => GoodLaunch(context'[c], launching'[c])
    PROVE  WInv'
BY DEF WInv

\* A Context in a good state is one.
LEMMA NotNone ==
    ASSUME NEW r, NEW l, GoodLaunch(r, l)
    PROVE  r # None
BY LaunchAssumption DEF GoodLaunch

LEMMA LayoutNone ==
    ASSUME NEW m,
           \A k \in DOMAIN m.allocs : ~(m.allocs[k].alive /\ m.allocs[k].space = "shared")
    PROVE  Layout(m, None) /\ Admitted(None)
<1>1. Views(None) = <<>>
  BY DEF Views
<1>2. DOMAIN <<>> = {} /\ <<>> \in Seq(CtaView)
  OBVIOUS
<1>3. QED
  BY <1>1, <1>2 DEF Layout, Admitted

LEMMA NoneShared ==
    ASSUME NEW m, Layout(m, None), NEW k \in DOMAIN m.allocs
    PROVE  ~(m.allocs[k].alive /\ m.allocs[k].space = "shared")
<1>1. DOMAIN Views(None) = {}
  BY DEF Views
<1>2. QED
  BY <1>1 DEF Layout

\* Without commits there are no events and no stop.
LEMMA EventsNone ==
    ASSUME NEW r, NEW l, r.commits = <<>>, Started(l) => ~r.event_stopped
    PROVE  Events(r, l)
<1>1. DOMAIN <<>> = {}
  OBVIOUS
<1>2. QED
  BY <1>1 DEF Events

\* The Context a step starts from.
LEMMA GoodOf ==
    ASSUME CInv, WInv, NEW c \in Ctx, context[c] # None
    PROVE  /\ GoodContext(context[c], launching[c], next_nonce)
           /\ AllocatorOK(context[c].allocator)
           /\ GoodLaunch(context[c], launching[c])
           /\ context[c] \in ContextState
           /\ created \in Nat
           /\ context = [d \in Ctx |-> context[d]]
           /\ launching = [d \in Ctx |-> launching[d]]
           /\ launching[c] # None => IsLaunch(launching[c])
BY DEF CInv, ContextsGood, GoodContext, GoodLaunch, WInv, Shape

\* Only the allocator changes, and no launch runs.
LEMMA WHostStep ==
    ASSUME CInv, WInv, NEW c \in Ctx, context[c] # None, launching[c] = None, NEW m,
           AllocatorOK(m), Layout(m, None),
           context' = [context EXCEPT ![c].allocator = m],
           launching' = launching, created' = created
    PROVE  WInv'
<1> DEFINE r == context[c]
           q == [r EXCEPT !.allocator = m]
<1>1. r \in ContextState /\ GoodLaunch(r, None)
  BY GoodOf
<1>2. /\ context'[c] = q
      /\ \A d \in Ctx \ {c} : context'[d] = context[d] /\ launching'[d] = launching[d]
  BY GoodOf
<1>3. /\ q \in ContextState
      /\ q.allocator = m /\ q.active_views = r.active_views
      /\ q.active_topology = r.active_topology
      /\ q.event_stopped = r.event_stopped /\ q.commits = r.commits
  BY <1>1 DEF ContextState, AllocatorOK
<1> HIDE DEF q
<1>4. GoodLaunch(q, None)
  BY <1>1, <1>3 DEF GoodLaunch, Activated, Events
<1>5. created' \in Nat
  BY GoodOf
<1>6. QED
  BY <1>2, <1>4, <1>5, WUpdate

LEMMA WHostAllocate ==
    ASSUME CInv, WInv, NEW c \in Ctx, NEW size \in HostSizes, HostAllocate(c, size)
    PROVE  WInv'
<1> DEFINE o == context[c].allocator
           m == allocate(o, "global", size, 0)
           z == Len(o.allocs)
<1>1. context[c] # None /\ launching[c] = None /\ CanAllocate(o, size, 0)
  BY DEF HostAllocate, Idle
<1>2. AllocatorOK(o) /\ "global" \in Space /\ size \in Nat /\ Layout(o, None)
  BY <1>1, GoodOf, LaunchAssumption DEF Space, GoodLaunch
<1>3. /\ DOMAIN o.allocs = 1 .. z /\ z \in Nat
      /\ DOMAIN m.allocs = 1 .. (z + 1)
      /\ \A i \in DOMAIN o.allocs : m.allocs[i] = o.allocs[i]
      /\ m.allocs[z + 1] = [space |-> "global", base |-> Start(o, 0), size |-> size,
                            alive |-> TRUE]
  <2>1. m = allocate(o, "global", size, 0) /\ z = Len(o.allocs)
    OBVIOUS
  <2> HIDE DEF o, m, z
  <2>2. QED
    BY <1>1, <1>2, <2>1, AllocateShape
<1>4. AllocatorOK(m)
  BY <1>1, <1>2, AllocateOK
<1>5. ASSUME NEW k \in DOMAIN m.allocs
      PROVE  ~(m.allocs[k].alive /\ m.allocs[k].space = "shared")
  <2> HIDE DEF o, m, z
  <2>1. k \in DOMAIN o.allocs \/ k = z + 1
    BY <1>3
  <2>2. CASE k \in DOMAIN o.allocs
    BY <1>2, <1>3, <2>2, NoneShared
  <2>3. CASE k = z + 1
    BY <1>3, <2>3
  <2>4. QED
    BY <2>1, <2>2, <2>3, Zenon
<1> HIDE DEF m
<1>6. Layout(m, None)
  BY <1>5, LayoutNone
<1>7. QED
  BY <1>1, <1>4, <1>6, WHostStep DEF HostAllocate, m

LEMMA WHostFree ==
    ASSUME CInv, WInv, NEW c \in Ctx, NEW base, HostFree(c, base)
    PROVE  WInv'
<1> DEFINE o == context[c].allocator
           m == free(o, {base})
<1>1. context[c] # None /\ launching[c] = None
  BY DEF HostFree, Idle
<1>2. Layout(o, None) /\ AllocatorOK(o)
  BY <1>1, GoodOf DEF GoodLaunch
<1>3. \A k \in DOMAIN m.allocs : ~(m.allocs[k].alive /\ m.allocs[k].space = "shared")
  BY <1>2, FreeShape, NoneShared
<1>4. AllocatorOK(m)
  BY <1>2, FreeOK
<1> HIDE DEF m
<1>5. Layout(m, None)
  BY <1>3, LayoutNone
<1>6. QED
  BY <1>1, <1>4, <1>5, WHostStep DEF HostFree, m

\* A new Context has no allocation and no launch.
LEMMA WCreate == ASSUME CInv, WInv, NEW c \in Ctx, Create(c) PROVE WInv'
<1>1. PICK backend \in BOOLEAN :
         context' = [context EXCEPT ![c] = NewContext(next_nonce, backend)]
  BY DEF Create, Exchanged
<1> DEFINE q == NewContext(next_nonce, backend)
<1>2. /\ context[c] = None /\ launching[c] = None /\ launching' = launching
      /\ context'[c] = q /\ created' = created + 1
      /\ created \in Nat /\ next_nonce \in Nat
      /\ \A d \in Ctx \ {c} : context'[d] = context[d]
  BY <1>1 DEF Create, CInv, Shape, WInv
<1>3. /\ q.allocator = NewAllocator /\ q.active_views = <<>>
      /\ q.active_topology = Empty /\ q.event_stopped = FALSE /\ q.commits = <<>>
  BY DEF NewContext
<1>4. q \in ContextState
  <2>1. NewAllocator \in AllocatorState
    BY NewAllocatorOK DEF AllocatorOK
  <2>2. Empty \in Topology
    BY DEF Empty, Topology, Dims, Axis, Unit
  <2>3. <<>> \in Seq(CtaView) /\ <<>> \in Seq(Commit)
    OBVIOUS
  <2>4. QED
    BY <1>2, <2>1, <2>2, <2>3 DEF NewContext, ContextState
<1>5. Layout(NewAllocator, None) /\ Admitted(None)
  <2>1. DOMAIN NewAllocator.allocs = {}
    BY DEF NewAllocator
  <2>2. QED
    BY <2>1, LayoutNone
<1> HIDE DEF q
<1>6. Events(q, None)
  BY <1>3, EventsNone
<1>7. GoodLaunch(q, None)
  BY <1>3, <1>4, <1>5, <1>6 DEF GoodLaunch, Activated, Started
<1>8. created' \in Nat
  BY <1>2
<1>9. QED
  BY <1>2, <1>7, <1>8, WUpdate

LEMMA WDestroy == ASSUME CInv, WInv, NEW c \in Ctx, Destroy(c) PROVE WInv'
<1>1. /\ context'[c] = None /\ launching'[c] = None /\ created' \in Nat
      /\ \A d \in Ctx \ {c} : context'[d] = context[d] /\ launching'[d] = launching[d]
  BY DEF Destroy, CInv, Shape, WInv
<1>2. QED
  BY <1>1, WUpdate

\* The guard frees every window of the launch, wherever it stopped.
LEMMA WReturn ==
    ASSUME CInv, WInv, NEW c \in Ctx, context[c] # None, launching[c] # None, Return(c)
    PROVE  WInv'
<1> DEFINE r == context[c]
           l == launching[c]
           m == free(r.allocator, GuardBases(l))
           q == [r EXCEPT !.active_topology = Empty, !.active_views = <<>>,
                          !.commits = <<>>, !.allocator = m]
<1>1. /\ context'[c] = q /\ launching'[c] = None /\ created' \in Nat
      /\ \A d \in Ctx \ {c} : context'[d] = context[d] /\ launching'[d] = launching[d]
  BY DEF Return, CInv, Shape, WInv
<1>2. r \in ContextState /\ AllocatorOK(r.allocator) /\ Layout(r.allocator, l)
  BY GoodOf DEF GoodLaunch
<1>3. \A k \in DOMAIN m.allocs : ~(m.allocs[k].alive /\ m.allocs[k].space = "shared")
  <2> SUFFICES ASSUME NEW k \in DOMAIN m.allocs, m.allocs[k].alive,
                      m.allocs[k].space = "shared"
               PROVE  FALSE
    OBVIOUS
  <2> DEFINE o == r.allocator
  <2>1. /\ k \in DOMAIN o.allocs /\ o.allocs[k].alive /\ o.allocs[k].space = "shared"
        /\ o.allocs[k].base \notin GuardBases(l)
    BY <1>2, FreeShape
  <2>2. \E i \in DOMAIN Views(l) : Views(l)[i].base = o.allocs[k].base
    BY <1>2, <2>1 DEF Layout
  <2>3. o.allocs[k].base \in GuardBases(l)
    BY <2>2 DEF Views, GuardBases
  <2>4. QED
    BY <2>1, <2>3
<1>4. AllocatorOK(m)
  BY <1>2, FreeOK
<1> HIDE DEF m
<1>5. /\ q \in ContextState
      /\ q.allocator = m /\ q.active_views = <<>> /\ q.active_topology = Empty
      /\ q.commits = <<>>
  <2>1. Empty \in Topology
    BY DEF Empty, Topology, Dims, Axis, Unit
  <2>2. <<>> \in Seq(CtaView) /\ <<>> \in Seq(Commit) /\ m \in AllocatorState
    BY <1>4 DEF AllocatorOK
  <2>3. QED
    BY <1>2, <2>1, <2>2 DEF ContextState
<1>6. Layout(m, None) /\ Admitted(None)
  BY <1>3, LayoutNone
<1> HIDE DEF q
<1>7. Events(q, None)
  BY <1>5, EventsNone DEF Started
<1>8. GoodLaunch(q, None)
  BY <1>5, <1>6, <1>7 DEF GoodLaunch, Activated, Started
<1>9. QED
  BY <1>1, <1>8, WUpdate

\* The sizes of a configuration.
LEMMA VolumeType ==
    ASSUME NEW g \in Configs
    PROVE  /\ Volume(g.grid) \in Nat
           /\ \A k \in Axis : g.grid[k] \in Nat
           /\ SharedSize(g) \in Nat
<1>1. g.grid[1] \in Nat /\ g.grid[2] \in Nat /\ g.grid[3] \in Nat
  BY LaunchAssumption DEF Dims, Axis
<1>2. QED
  BY <1>1, LaunchAssumption DEF Volume, Dims, SharedSize

LEMMA WLaunch ==
    ASSUME CInv, WInv, NEW c \in Ctx, context[c] # None, NEW g \in Configs, Launch(c, g)
    PROVE  WInv'
<1> DEFINE r == context[c]
           n == r.next_cta_domain + IF SharedSize(g) > 0 THEN Volume(g.grid) ELSE 0
           q == [r EXCEPT !.next_cta_domain = n]
           l == [config |-> g, views |-> <<>>, started |-> FALSE]
<1>1. /\ context'[c] = q /\ launching'[c] = l /\ created' \in Nat
      /\ \A d \in Ctx \ {c} : context'[d] = context[d] /\ launching'[d] = launching[d]
  BY DEF Launch, CInv, Shape, WInv
<1>2. launching[c] = None /\ r \in ContextState /\ GoodLaunch(r, None)
  BY GoodOf DEF Launch, Idle
<1>3. n \in Nat
  <2>1. r.next_cta_domain \in Nat
    BY <1>2 DEF ContextState
  <2>2. QED
    BY <2>1, VolumeType
<1> HIDE DEF n
<1>4. /\ q \in ContextState
      /\ q.allocator = r.allocator /\ q.active_views = r.active_views
      /\ q.active_topology = r.active_topology
      /\ q.event_stopped = r.event_stopped /\ q.commits = r.commits
  BY <1>2, <1>3 DEF ContextState
<1>5. l.config = g /\ l.views = <<>> /\ ~l.started
  OBVIOUS
<1>l. l \in LaunchState
  BY DEF LaunchState
<1>6. CanBuild(g.cluster, g.grid) /\ \A k \in Axis : g.grid[k] # 0
  BY DEF Launch, Accepted
<1> HIDE DEF q, l
<1>7. Views(l) = Views(None) /\ ~Started(l) /\ ~Started(None)
  BY <1>5 DEF Views, Started
<1>8. Admitted(l)
  <2>1. Len(<<>>) = 0
    OBVIOUS
  <2>2. QED
    BY <1>5, <1>6, <1>l, <2>1, VolumeType DEF Admitted
<1>9. GoodLaunch(q, l)
  BY <1>2, <1>4, <1>7, <1>8 DEF GoodLaunch, Layout, Activated, Events
<1>10. QED
  BY <1>1, <1>9, NotNone, WUpdate

\* The window of the next CTA is the allocation just made.
LEMMA WAllocateWindow ==
    ASSUME CInv, WInv, NEW c \in Ctx, context[c] # None, AllocateWindow(c)
    PROVE  WInv'
<1> DEFINE r == context[c]
           l == launching[c]
           o == r.allocator
           size == SharedSize(l.config)
           m == allocate(o, "shared", size, WindowAlign)
           z == Len(o.allocs)
           v == [base |-> Start(o, WindowAlign), size |-> size]
           w == Append(l.views, v)
           q == [r EXCEPT !.allocator = m]
           k == [l EXCEPT !.views = w]
<1>1. /\ context'[c] = q /\ launching'[c] = k /\ created' \in Nat
      /\ \A d \in Ctx \ {c} : context'[d] = context[d] /\ launching'[d] = launching[d]
  BY DEF AllocateWindow, CInv, Shape, WInv
<1>2. /\ l # None /\ ~l.started /\ Len(l.views) < Volume(l.config.grid)
      /\ CanAllocate(o, size, WindowAlign)
  BY DEF AllocateWindow, Missing
<1>3. /\ r \in ContextState /\ AllocatorOK(o) /\ l \in LaunchState
      /\ Layout(o, l) /\ Admitted(l) /\ Activated(r, l) /\ Events(r, l)
  BY <1>2, GoodOf DEF GoodLaunch, Admitted
<1>4. l.config \in Configs /\ l.views \in Seq(CtaView) /\ Views(l) = l.views
      /\ size \in Nat /\ "shared" \in Space
  BY <1>2, <1>3, VolumeType DEF LaunchState, Views, Space
<1>5. /\ DOMAIN o.allocs = 1 .. z /\ z \in Nat
      /\ DOMAIN m.allocs = 1 .. (z + 1)
      /\ \A i \in DOMAIN o.allocs : m.allocs[i] = o.allocs[i]
      /\ m.allocs[z + 1] = [space |-> "shared", base |-> Start(o, WindowAlign),
                            size |-> size, alive |-> TRUE]
      /\ Start(o, WindowAlign) \in Nat
  <2>1. m = allocate(o, "shared", size, WindowAlign) /\ z = Len(o.allocs)
    OBVIOUS
  <2> HIDE DEF o, m, z, size
  <2>2. QED
    BY <1>2, <1>3, <1>4, <2>1, AllocateShape
<1>6. AllocatorOK(m)
  BY <1>2, <1>3, <1>4, AllocateOK
<1>7. v \in CtaView /\ v.base = Start(o, WindowAlign) /\ v.size = size
  BY <1>4, <1>5 DEF CtaView
<1>8. v.base % eff_align(WindowAlign) = 0
  BY <1>3, <1>5, <1>7, StartAligned DEF AllocatorOK, AllocatorState
<1> HIDE DEF o, m, z, v, size, w
<1>9. /\ w \in Seq(CtaView) /\ Len(w) = Len(l.views) + 1
      /\ DOMAIN w = 1 .. (Len(l.views) + 1)
      /\ \A i \in 1 .. Len(l.views) : w[i] = l.views[i]
      /\ w[Len(l.views) + 1] = v
      /\ DOMAIN l.views = 1 .. Len(l.views) /\ Len(l.views) \in Nat
  <2>1. /\ w \in Seq(CtaView) /\ Len(w) = Len(l.views) + 1
        /\ \A i \in 1 .. Len(l.views) : w[i] = l.views[i]
        /\ w[Len(l.views) + 1] = v
    BY <1>4, <1>7, AppendProperties DEF w
  <2>2. QED
    BY <1>4, <2>1
<1>10. /\ k \in LaunchState /\ k.views = w /\ k.config = l.config /\ ~k.started
  BY <1>2, <1>3, <1>9 DEF LaunchState
<1>11. /\ q \in ContextState
       /\ q.allocator = m /\ q.active_views = r.active_views
       /\ q.active_topology = r.active_topology
       /\ q.event_stopped = r.event_stopped /\ q.commits = r.commits
  BY <1>3, <1>6 DEF ContextState, AllocatorOK
<1> HIDE DEF k, q
<1>12. k # None /\ Views(k) = w /\ ~Started(k) /\ ~Started(l)
  BY <1>2, <1>10, LaunchAssumption DEF Views, Started
<1>13. Layout(m, k)
  <2>1. ASSUME NEW i \in DOMAIN w PROVE Backed(m, w[i])
    <3>1. CASE i = Len(l.views) + 1
      <4>1. z + 1 \in DOMAIN m.allocs /\ w[i] = v
        BY <1>5, <1>9, <3>1
      <4>2. /\ m.allocs[z + 1].alive /\ m.allocs[z + 1].space = "shared"
            /\ m.allocs[z + 1].base = v.base /\ m.allocs[z + 1].size = v.size
        BY <1>5, <1>7
      <4>3. QED
        BY <1>8, <4>1, <4>2 DEF Backed
    <3>2. CASE i \in DOMAIN l.views
      <4>1. Backed(o, l.views[i]) /\ w[i] = l.views[i]
        BY <1>3, <1>4, <1>9, <3>2 DEF Layout
      <4>2. \A j \in DOMAIN o.allocs : j \in DOMAIN m.allocs /\ m.allocs[j] = o.allocs[j]
        BY <1>5
      <4>3. QED
        BY <4>1, <4>2 DEF Backed
    <3>3. QED
      BY <1>9, <3>1, <3>2
  <2>2. ASSUME NEW j \in DOMAIN m.allocs, m.allocs[j].alive, m.allocs[j].space = "shared"
        PROVE  \E i \in DOMAIN w : w[i].base = m.allocs[j].base
    <3>1. CASE j = z + 1
      <4>1. Len(l.views) + 1 \in DOMAIN w
        BY <1>9
      <4>2. w[Len(l.views) + 1].base = m.allocs[j].base
        BY <1>5, <1>7, <1>9, <3>1
      <4>3. QED
        BY <4>1, <4>2
    <3>2. CASE j \in DOMAIN o.allocs
      <4>1. o.allocs[j].alive /\ o.allocs[j].space = "shared" /\ m.allocs[j] = o.allocs[j]
        BY <1>5, <2>2, <3>2
      <4>2. PICK i \in DOMAIN l.views : l.views[i].base = o.allocs[j].base
        BY <1>3, <1>4, <3>2, <4>1 DEF Layout
      <4>3. i \in DOMAIN w /\ w[i] = l.views[i]
        BY <1>9
      <4>4. QED
        BY <4>1, <4>2, <4>3
    <3>3. j = z + 1 \/ j \in DOMAIN o.allocs
      BY <1>5
    <3>4. QED
      BY <3>1, <3>2, <3>3
  <2>3. QED
    BY <1>9, <1>12, <2>1, <2>2 DEF Layout
<1>14. Admitted(k)
  <2>1. Volume(l.config.grid) \in Nat
    BY <1>4, VolumeType
  <2>2. QED
    BY <1>2, <1>3, <1>9, <1>10, <2>1 DEF Admitted
<1>15. GoodLaunch(q, k)
  BY <1>3, <1>11, <1>12, <1>13, <1>14 DEF GoodLaunch, Activated, Events
<1>16. QED
  BY <1>1, <1>15, NotNone, WUpdate

\* What build makes of an accepted configuration is tiled.
LEMMA BuildTiled ==
    ASSUME NEW g \in Configs, CanBuild(g.cluster, g.grid), \A k \in Axis : g.grid[k] # 0
    PROVE  /\ build(g.cluster, g.grid) \in Topology
           /\ build(g.cluster, g.grid).grid = g.grid
           /\ build(g.cluster, g.grid).enabled => Tiled(build(g.cluster, g.grid))
<1> DEFINE b == build(g.cluster, g.grid)
<1>1. g.grid \in Dims /\ g.cluster \in Dims \cup {NoCluster}
  BY LaunchAssumption
<1>2. CASE g.cluster = NoCluster
  <2>1. b = [enabled |-> FALSE, dims |-> Unit, grid |-> g.grid, clusters |-> Unit]
    BY <1>2 DEF build
  <2>2. Unit \in Dims
    BY DEF Unit, Dims, Axis
  <2>3. QED
    BY <1>1, <2>1, <2>2 DEF Topology
<1>3. CASE g.cluster # NoCluster
  <2> DEFINE x == [k \in Axis |-> g.grid[k] \div g.cluster[k]]
  <2>1. b = [enabled |-> TRUE, dims |-> g.cluster, grid |-> g.grid, clusters |-> x]
    BY <1>3 DEF build
  <2>2. ASSUME NEW k \in Axis
        PROVE  /\ g.cluster[k] \in Nat \ {0} /\ x[k] \in Nat \ {0}
               /\ g.grid[k] = x[k] * g.cluster[k]
    <3> DEFINE n == g.grid[k]  d == g.cluster[k]
    <3>1. n \in Nat /\ d \in Nat /\ n # 0 /\ d # 0 /\ n % d = 0 /\ x[k] = n \div d
      BY <1>1, <1>3 DEF CanBuild, Dims
    <3> HIDE DEF n, d
    <3>2. n \div d \in Nat /\ n = (n \div d) * d + (n % d)
      BY <3>1, DivModDef
    <3> DEFINE y == n \div d
    <3> HIDE DEF y
    <3>3. y \in Nat /\ n = y * d
      BY <3>1, <3>2 DEF y
    <3>4. y # 0
      BY <3>1, <3>3
    <3>5. QED
      BY <3>1, <3>3, <3>4 DEF y, n, d
  <2>3. x \in Dims
    BY <2>2 DEF Dims
  <2> HIDE DEF x
  <2>4. b \in Topology /\ b.grid = g.grid
    BY <1>1, <1>3, <2>1, <2>3 DEF Topology
  <2>5. Tiled(b)
    BY <2>1, <2>2 DEF Tiled
  <2>6. QED
    BY <2>4, <2>5
<1>4. QED
  BY <1>2, <1>3

\* The backend starts with the views of its launch and a sink that has not
\* asked to stop.
LEMMA WStartBackend ==
    ASSUME CInv, WInv, NEW c \in Ctx, context[c] # None, StartBackend(c)
    PROVE  WInv'
<1> DEFINE r == context[c]
           l == launching[c]
           t == build(l.config.cluster, l.config.grid)
           v == l.views
           q == [r EXCEPT !.active_topology = t, !.active_views = v,
                          !.launch_count = r.launch_count + 1,
                          !.launches = r.launches + 1,
                          !.event_stopped = FALSE]
           k == [l EXCEPT !.started = TRUE]
<1>1. /\ context'[c] = q /\ launching'[c] = k /\ created' \in Nat
      /\ \A d \in Ctx \ {c} : context'[d] = context[d] /\ launching'[d] = launching[d]
  BY DEF StartBackend, Resumed, CInv, Shape, WInv
<1>2. l # None /\ ~l.started
  BY DEF StartBackend, Prepared
<1>3. /\ r \in ContextState /\ l \in LaunchState /\ Layout(r.allocator, l) /\ Admitted(l)
      /\ r.commits = <<>>
  BY <1>2, GoodOf DEF GoodLaunch, GoodContext, Admitted
<1>4. l.config \in Configs /\ v \in Seq(CtaView) /\ Views(l) = v
  BY <1>2, <1>3 DEF LaunchState, Views
<1>5. t \in Topology
  BY <1>2, <1>3, <1>4, BuildTiled DEF Admitted
<1>6. k \in LaunchState /\ k.views = v /\ k.config = l.config /\ k.started
  BY <1>3 DEF LaunchState
<1> HIDE DEF t, v
<1>7. r.launch_count + 1 \in Nat /\ r.launches + 1 \in Nat
  BY <1>3 DEF ContextState
<1>8. /\ q \in ContextState
      /\ q.allocator = r.allocator /\ q.active_views = v
      /\ q.active_topology = t /\ q.event_stopped = FALSE /\ q.commits = <<>>
  BY <1>3, <1>4, <1>5, <1>7 DEF ContextState
<1> HIDE DEF k, q
<1>9. k # None /\ Views(k) = v /\ Started(k)
  BY <1>6, LaunchAssumption DEF Views, Started
<1>10. Layout(q.allocator, k) /\ Admitted(k)
  BY <1>2, <1>3, <1>4, <1>6, <1>8, <1>9 DEF Layout, Admitted, v
<1>11. Activated(q, k)
  BY <1>6, <1>8, <1>9 DEF Activated, t
<1>12. Events(q, k)
  BY <1>8, EventsNone
<1>13. GoodLaunch(q, k)
  BY <1>8, <1>10, <1>11, <1>12 DEF GoodLaunch
<1>14. QED
  BY <1>1, <1>13, NotNone, WUpdate

\* An event is emitted until the sink stops it, and the stop is kept.
LEMMA AppendEvents ==
    ASSUME NEW r, NEW q, NEW l, NEW x, NEW stop \in BOOLEAN,
           r.commits \in Seq(Commit), x \in Commit, r.event_stopped \in BOOLEAN,
           Started(l), Events(r, l),
           x.delivered = ~r.event_stopped, x.stop = (~r.event_stopped /\ stop),
           q.commits = Append(r.commits, x), q.event_stopped = (r.event_stopped \/ stop)
    PROVE  Events(q, l)
<1> DEFINE z == Len(r.commits)
<1>1. /\ DOMAIN r.commits = 1 .. z /\ z \in Nat
      /\ DOMAIN q.commits = 1 .. (z + 1)
      /\ \A i \in 1 .. z : q.commits[i] = r.commits[i]
      /\ q.commits[z + 1] = x
  <2>1. /\ q.commits \in Seq(Commit) /\ Len(q.commits) = z + 1
        /\ \A i \in 1 .. z : q.commits[i] = r.commits[i]
        /\ q.commits[z + 1] = x
    BY AppendProperties
  <2>2. QED
    BY <2>1
<1> HIDE DEF z
<1>2. /\ r.event_stopped <=> \E j \in 1 .. z : r.commits[j].stop
      /\ \A i \in 1 .. z :
           r.commits[i].delivered <=> \A j \in 1 .. (i - 1) : ~r.commits[j].stop
  BY <1>1 DEF Events
<1>3. /\ z + 1 \in 1 .. (z + 1)
      /\ \A j \in 1 .. (z + 1) : j \in 1 .. z \/ j = z + 1
      /\ \A j \in 1 .. z : j \in 1 .. (z + 1)
  BY <1>1
<1>4. q.event_stopped <=> \E j \in 1 .. (z + 1) : q.commits[j].stop
  <2>1. CASE r.event_stopped
    <3>1. q.event_stopped
      BY <2>1, Zenon
    <3>2. PICK j \in 1 .. z : r.commits[j].stop
      BY <1>2, <2>1
    <3>3. QED
      BY <1>1, <1>3, <3>1, <3>2
  <2>2. CASE ~r.event_stopped
    <3>1. (q.event_stopped <=> stop) /\ (x.stop <=> stop)
      BY <2>2, Zenon
    <3>2. \A j \in 1 .. z : ~q.commits[j].stop
      BY <1>1, <1>2, <2>2
    <3>3. QED
      BY <1>1, <1>3, <3>1, <3>2, Zenon
  <2>3. QED
    BY <2>1, <2>2
<1>5. ASSUME NEW i \in 1 .. (z + 1)
      PROVE  q.commits[i].delivered <=> \A j \in 1 .. (i - 1) : ~q.commits[j].stop
  <2>1. CASE i = z + 1
    <3>1. /\ \A j \in 1 .. (i - 1) : j \in 1 .. z
          /\ \A j \in 1 .. z : j \in 1 .. (i - 1)
      BY <1>1, <2>1
    <3>2. q.commits[i].delivered <=> ~r.event_stopped
      BY <1>1, <2>1, Zenon
    <3>3. QED
      BY <1>1, <1>2, <3>1, <3>2, Zenon
  <2>2. CASE i \in 1 .. z
    <3>1. \A j \in 1 .. (i - 1) : j \in 1 .. z
      BY <1>1, <2>2
    <3>2. QED
      BY <1>1, <1>2, <2>2, <3>1, Zenon
  <2>3. QED
    BY <1>3, <2>1, <2>2
<1>6. QED
  BY <1>1, <1>4, <1>5 DEF Events

LEMMA WAccess ==
    ASSUME CInv, WInv, NEW c \in Ctx, context[c] # None, NEW t \in translations,
           AccessShared(c, t)
    PROVE  WInv'
<1> DEFINE r == context[c]
           l == launching[c]
<1>1. PICK stop \in BOOLEAN :
        context' = [context EXCEPT
          ![c].commits = Append(@, [serial |-> t.serial, launch |-> t.launch,
                                    delivered |-> ~r.event_stopped,
                                    stop |-> (~r.event_stopped) /\ stop]),
          ![c].event_stopped = @ \/ stop]
  BY DEF AccessShared
<1> DEFINE x == [serial |-> t.serial, launch |-> t.launch, delivered |-> ~r.event_stopped,
                 stop |-> (~r.event_stopped) /\ stop]
           s == Append(r.commits, x)
           e == r.event_stopped \/ stop
           q == [r EXCEPT !.commits = s, !.event_stopped = e]
<1>2. /\ context'[c] = q /\ launching'[c] = l /\ created' \in Nat
      /\ \A d \in Ctx \ {c} : context'[d] = context[d] /\ launching'[d] = launching[d]
  BY <1>1 DEF AccessShared, CInv, Shape, WInv
<1>3. /\ r \in ContextState /\ GoodLaunch(r, l) /\ GoodContext(r, l, next_nonce)
      /\ Started(l) /\ r.commits \in Seq(Commit) /\ r.event_stopped \in BOOLEAN
      /\ r.serial \in Nat /\ r.launches \in Nat
  BY GoodOf DEF AccessShared, Started, ContextState
<1>4. t.serial = r.serial /\ t.launch = r.launches
  BY <1>3 DEF AccessShared, Valid, CInv, NonceNamesContext, GoodContext
<1>5. /\ x \in Commit /\ x.delivered = ~r.event_stopped
      /\ x.stop = (~r.event_stopped /\ stop)
  <2> DEFINE b == ~r.event_stopped
             d == (~r.event_stopped) /\ stop
  <2>1. b \in BOOLEAN /\ d \in BOOLEAN
    BY Zenon
  <2>2. x = [serial |-> t.serial, launch |-> t.launch, delivered |-> b, stop |-> d]
    BY Zenon
  <2> HIDE DEF x, b, d
  <2>3. x \in Commit /\ x.delivered = b /\ x.stop = d
    BY <1>3, <1>4, <2>1, <2>2 DEF Commit
  <2>4. QED
    BY <2>3, Zenon DEF b, d
<1>6. e \in BOOLEAN
  BY Zenon
<1> HIDE DEF x
<1>7. s \in Seq(Commit)
  BY <1>3, <1>5, AppendProperties
<1> HIDE DEF s, e
<1>8. /\ q \in ContextState /\ q.allocator = r.allocator
      /\ q.active_views = r.active_views /\ q.active_topology = r.active_topology
      /\ q.commits = s /\ q.event_stopped = e
  BY <1>3, <1>6, <1>7 DEF ContextState
<1> HIDE DEF q
<1>9. Events(q, l)
  <2>1. /\ Events(r, l) /\ q.commits = Append(r.commits, x)
    BY <1>3, <1>8 DEF GoodLaunch, s
  <2>2. q.event_stopped = (r.event_stopped \/ stop)
    BY <1>8, Zenon DEF e
  <2> HIDE DEF r, l
  <2>3. QED
    BY <1>3, <1>5, <2>1, <2>2, AppendEvents
<1>10. GoodLaunch(q, l)
  BY <1>3, <1>8, <1>9 DEF GoodLaunch, Activated
<1>11. QED
  BY <1>2, <1>10, NotNone, WUpdate

LEMMA WNextStep == CInv /\ WInv /\ [Next]_vars => WInv'
<1> SUFFICES ASSUME CInv, WInv, [Next]_vars PROVE WInv'
  OBVIOUS
<1>1. ASSUME UNCHANGED <<context, launching, created>> PROVE WInv'
  BY <1>1 DEF WInv
<1>2. ASSUME NEW t \in translations, Forget(t) PROVE WInv'
  BY <1>1, <1>2 DEF Forget
<1>3. ASSUME NEW c \in Ctx, LoadNonce(c) \/ Create(c) \/ RetryNonce(c) PROVE WInv'
  BY <1>1, <1>3, WCreate DEF LoadNonce, RetryNonce
<1>4. ASSUME NEW c \in Ctx, context[c] # None,
             \/ Destroy(c)
             \/ \E size \in HostSizes : HostAllocate(c, size)
             \/ \E base \in 0 .. AddrMax : HostFree(c, base)
      PROVE  WInv'
  BY <1>4, WDestroy, WHostAllocate, WHostFree
<1>5. ASSUME NEW c \in Ctx, context[c] # None,
             \/ \E g \in Configs : Launch(c, g)
             \/ AllocateWindow(c) \/ OutOfMemory(c) \/ WithoutBackend(c)
             \/ StartBackend(c) \/ BackendReturns(c)
      PROVE  WInv'
  BY <1>5, WLaunch, WAllocateWindow, WReturn, WStartBackend
     DEF OutOfMemory, WithoutBackend, BackendReturns, Missing, Prepared
<1>6. ASSUME NEW c \in Ctx, context[c] # None,
             \/ \E source \in 0 .. (Volume(launching[c].config.grid) - 1),
                   logical \in LogicalAddresses, a \in Accesses, mode \in Modes :
                  translate_shared(c, source, logical, a, mode)
             \/ \E t \in translations : AccessShared(c, t)
      PROVE  WInv'
  BY <1>1, <1>6, WAccess DEF translate_shared
<1>7. UNCHANGED vars => WInv'
  BY <1>1 DEF vars
<1>8. \A c \in Live : c \in Ctx /\ context[c] # None
  BY DEF Live
<1>9. QED
  BY <1>2, <1>3, <1>4, <1>5, <1>6, <1>7, <1>8 DEF Next

\* The layout of the windows, the activation of the launch and the record of its
\* events are invariant.
THEOREM WindowInvariance == Spec => [](CInv /\ WInv)
<1>1. Init => CInv /\ WInv
  BY InitCInv, InitWInv
<1>2. CInv /\ WInv /\ [Next]_vars => (CInv /\ WInv)'
  BY NextStep, WNextStep
<1>3. QED
  BY <1>1, <1>2, PTL DEF Spec

\* The live shared allocations of a Context are the windows of its running launch
\* and nothing else, however earlier launches ended and whatever the host freed
\* (LaunchGuard, MemoryAllocator::free).
THEOREM WindowsAreOfLaunch == Spec => []WindowsOfLaunch
<1>1. ASSUME CInv, WInv, NEW c \in Live
      PROVE  /\ SharedBases(context[c].allocator)
                  = IF launching[c] = None THEN {}
                    ELSE {launching[c].views[i].base : i \in DOMAIN launching[c].views}
             /\ context[c].active_views
                  = IF launching[c] # None /\ launching[c].started
                      THEN launching[c].views ELSE <<>>
  <2> DEFINE m == context[c].allocator
             l == launching[c]
             v == Views(l)
  <2>1. Layout(m, l) /\ Activated(context[c], l)
    BY <1>1, GoodOf DEF Live, GoodLaunch
  <2>2. v = IF l = None THEN <<>> ELSE l.views
    BY DEF Views
  <2>3. /\ \A i \in DOMAIN v : \E k \in DOMAIN m.allocs :
             /\ m.allocs[k].alive /\ m.allocs[k].space = "shared"
             /\ m.allocs[k].base = v[i].base
        /\ \A k \in DOMAIN m.allocs :
             m.allocs[k].alive /\ m.allocs[k].space = "shared" =>
               \E i \in DOMAIN v : v[i].base = m.allocs[k].base
    BY <2>1 DEF Layout, Backed
  <2> HIDE DEF v
  <2>4. SharedBases(m) = {v[i].base : i \in DOMAIN v}
    BY <2>3 DEF SharedBases
  <2>5. {v[i].base : i \in DOMAIN v}
          = IF l = None THEN {} ELSE {l.views[i].base : i \in DOMAIN l.views}
    <3>1. CASE l = None
      <4>1. v = <<>> /\ DOMAIN <<>> = {}
        BY <2>2, <3>1
      <4>2. QED
        BY <3>1, <4>1
    <3>2. CASE l # None
      BY <2>2, <3>2
    <3>3. QED
      BY <3>1, <3>2
  <2>6. QED
    BY <2>1, <2>4, <2>5 DEF Activated, Started
<1>2. CInv /\ WInv => WindowsOfLaunch
  BY <1>1 DEF WindowsOfLaunch
<1>3. QED
  BY WindowInvariance, <1>2, PTL

\* Of a launch's committed accesses exactly those up to the one at which the sink
\* asked to stop are delivered as events (emit_shared_event).
THEOREM EventsStopAtSink == Spec => []EventsUntilStop
<1>1. CInv /\ WInv => EventsUntilStop
  BY GoodOf DEF EventsUntilStop, Live, GoodLaunch, Events
<1>2. QED
  BY WindowInvariance, <1>1, PTL

-----------------------------------------------------------------------------
(* Translations of the running launch.                                     *)

\* A translation depends on the windows, the topology and the allocations of the
\* launch, and on its names; not on its commits and events.
LEMMA DerivedFrame ==
    ASSUME NEW r, NEW q, NEW l, NEW t, Derived(r, l, t),
           q.serial = r.serial, q.launches = r.launches,
           q.context_nonce = r.context_nonce, q.launch_count = r.launch_count,
           q.active_topology = r.active_topology, q.active_views = r.active_views,
           q.allocator = r.allocator
    PROVE  Derived(q, l, t)
<1>1. PICK source \in 0 .. (Volume(l.config.grid) - 1), logical \in LogicalAddresses,
           a \in Accesses, mode \in Modes :
         /\ CanTranslate(r, source, logical, a, mode)
         /\ t = Translation(r, source, logical, a, mode)
  BY DEF Derived
<1>2. /\ Target(q, source, logical, mode) = Target(r, source, logical, mode)
      /\ Rank(q, source, logical, mode) = Rank(r, source, logical, mode)
      /\ \A cta : View(q, cta) = View(r, cta) /\ (HasView(q, cta) <=> HasView(r, cta))
      /\ Active(q) <=> Active(r)
  BY DEF Target, Rank, View, HasView, Active
<1>3. CanTranslate(q, source, logical, a, mode)
  BY <1>1, <1>2 DEF CanTranslate
<1>4. Translation(q, source, logical, a, mode) = Translation(r, source, logical, a, mode)
  BY <1>2 DEF Translation
<1>5. QED
  BY <1>1, <1>3, <1>4 DEF Derived

\* A step of one Context: its launch ends, goes on with the same windows, or is
\* a new one.
LEMMA TUpdate ==
    ASSUME WInv, TInv, NEW c \in Ctx, context[c] # None,
           UNCHANGED <<created, translations>>,
           \A d \in Ctx \ {c} : context'[d] = context[d] /\ launching'[d] = launching[d],
           context'[c].serial = context[c].serial,
           context[c].launches \in Nat,
           \/ /\ context'[c].launches = context[c].launches
              /\ Started(launching'[c]) =>
                   /\ Started(launching[c])
                   /\ \A t : Derived(context[c], launching[c], t) =>
                               Derived(context'[c], launching'[c], t)
           \/ context'[c].launches = context[c].launches + 1
    PROVE  TInv'
<1>1. \A d \in Ctx : context'[d] # None => context[d] # None
                                           /\ context'[d].serial = context[d].serial
  OBVIOUS
<1>2. \A d \in Ctx : context'[d] # None => context'[d].serial \in 1 .. created'
  BY <1>1 DEF TInv
<1>3. \A d, e \in Ctx :
        context'[d] # None /\ context'[e] # None /\ d # e =>
          context'[d].serial # context'[e].serial
  BY <1>1 DEF TInv
<1>4. ASSUME NEW t \in translations', NEW d \in Ctx,
             context'[d] # None, t.serial = context'[d].serial
      PROVE  /\ t.launch \in 0 .. context'[d].launches
             /\ t.launch = context'[d].launches /\ Started(launching'[d]) =>
                  Derived(context'[d], launching'[d], t)
  <2>1. /\ t.launch \in 0 .. context[d].launches
        /\ t.launch = context[d].launches /\ Started(launching[d]) =>
             Derived(context[d], launching[d], t)
    BY <1>1, <1>4 DEF TInv
  <2>2. CASE d # c
    BY <2>1, <2>2
  <2>3. CASE d = c /\ context'[c].launches = context[c].launches + 1
    <3>1. t.launch \in 0 .. context'[c].launches /\ t.launch # context'[c].launches
      BY <2>1, <2>3
    <3>2. QED
      BY <2>3, <3>1
  <2>4. CASE d = c /\ context'[c].launches = context[c].launches
    <3>1. context'[c].launches # context[c].launches + 1
      BY <2>4
    <3>2. QED
      BY <2>1, <2>4, <3>1
  <2>5. QED
    BY <2>2, <2>3, <2>4
<1>5. \A t \in translations' : t.serial \in 1 .. created'
  BY DEF TInv
<1>6. QED
  BY <1>2, <1>3, <1>4, <1>5 DEF TInv

\* Serial numbers are given out in order, so none is used twice.
LEMMA TCreate == ASSUME CInv, WInv, TInv, NEW c \in Ctx, Create(c) PROVE TInv'
<1>1. PICK backend \in BOOLEAN :
         context' = [context EXCEPT ![c] = NewContext(next_nonce, backend)]
  BY DEF Create, Exchanged
<1> DEFINE q == NewContext(next_nonce, backend)
<1>2. /\ launching' = launching /\ translations' = translations
      /\ context'[c] = q /\ created' = created + 1 /\ created \in Nat
      /\ \A d \in Ctx \ {c} : context'[d] = context[d]
  BY <1>1 DEF Create, CInv, Shape, WInv
<1>3. q.serial = created + 1
  BY DEF NewContext
<1> HIDE DEF q
<1>4. \A d \in Ctx \ {c} : context[d] # None => context[d].serial \in 1 .. created
  BY DEF TInv
<1>5. \A t \in translations : t.serial \in 1 .. created
  BY DEF TInv
<1>6. \A n \in 1 .. created : n \in 1 .. created' /\ n # created + 1
  BY <1>2
<1>7. created + 1 \in 1 .. created'
  BY <1>2
<1>8. QED
  BY <1>2, <1>3, <1>4, <1>5, <1>6, <1>7 DEF TInv

LEMMA TDestroy == ASSUME CInv, TInv, NEW c \in Ctx, Destroy(c) PROVE TInv'
<1>1. /\ context'[c] = None /\ launching' = launching /\ UNCHANGED <<created, translations>>
      /\ \A d \in Ctx \ {c} : context'[d] = context[d]
  BY DEF Destroy, CInv, Shape
<1>2. QED
  BY <1>1 DEF TInv

\* The host and a launch that has not reached the backend.
LEMMA THost ==
    ASSUME CInv, WInv, TInv, NEW c \in Ctx, context[c] # None, NEW m,
           context' = [context EXCEPT ![c].allocator = m],
           launching' = [launching EXCEPT ![c] = launching'[c]],
           ~Started(launching'[c]), UNCHANGED <<created, translations>>
    PROVE  TInv'
<1>1. /\ context[c] \in ContextState /\ context = [d \in Ctx |-> context[d]]
      /\ launching = [d \in Ctx |-> launching[d]]
  BY GoodOf
<1>2. /\ context'[c] = [context[c] EXCEPT !.allocator = m]
      /\ \A d \in Ctx \ {c} : context'[d] = context[d] /\ launching'[d] = launching[d]
  BY <1>1
<1>3. /\ context'[c].serial = context[c].serial
      /\ context'[c].launches = context[c].launches /\ context[c].launches \in Nat
  BY <1>1, <1>2 DEF ContextState
<1>4. QED
  BY <1>2, <1>3, TUpdate

LEMMA TQuiet ==
    ASSUME CInv, WInv, TInv, NEW c \in Ctx, context[c] # None,
           \/ \E size \in HostSizes : HostAllocate(c, size)
           \/ \E base \in 0 .. AddrMax : HostFree(c, base)
           \/ AllocateWindow(c)
    PROVE  TInv'
<1>1. launching = [d \in Ctx |-> launching[d]] /\ GoodLaunch(context[c], launching[c])
  BY GoodOf
<1>2. ASSUME NEW size \in HostSizes, HostAllocate(c, size) PROVE TInv'
  BY <1>1, <1>2, THost DEF HostAllocate, Idle, Started
<1>3. ASSUME NEW base \in 0 .. AddrMax, HostFree(c, base) PROVE TInv'
  BY <1>1, <1>3, THost DEF HostFree, Idle, Started
<1>4. CASE AllocateWindow(c)
  <2> DEFINE l == launching[c]
             m == allocate(context[c].allocator, "shared", SharedSize(l.config), WindowAlign)
             w == Append(l.views, [base |-> Start(context[c].allocator, WindowAlign),
                                   size |-> SharedSize(l.config)])
  <2>1. l # None /\ ~l.started /\ l \in LaunchState
    BY <1>1, <1>4 DEF AllocateWindow, Missing, GoodLaunch, Admitted
  <2>2. /\ context' = [context EXCEPT ![c].allocator = m]
        /\ launching' = [launching EXCEPT ![c].views = w]
        /\ UNCHANGED <<created, translations>>
    BY <1>4 DEF AllocateWindow
  <2> HIDE DEF m, w
  <2>3. /\ launching'[c] = [l EXCEPT !.views = w]
        /\ launching' = [launching EXCEPT ![c] = launching'[c]]
    BY <1>1, <2>2
  <2>4. ~launching'[c].started
    BY <2>1, <2>3 DEF LaunchState
  <2>5. QED
    BY <2>2, <2>3, <2>4, THost DEF Started
<1>5. QED
  BY <1>2, <1>3, <1>4

LEMMA TLaunch ==
    ASSUME CInv, WInv, TInv, NEW c \in Ctx, context[c] # None, NEW g \in Configs, Launch(c, g)
    PROVE  TInv'
<1> DEFINE r == context[c]
           n == r.next_cta_domain + IF SharedSize(g) > 0 THEN Volume(g.grid) ELSE 0
           l == [config |-> g, views |-> <<>>, started |-> FALSE]
<1>1. /\ context'[c] = [r EXCEPT !.next_cta_domain = n] /\ launching'[c] = l
      /\ \A d \in Ctx \ {c} : context'[d] = context[d] /\ launching'[d] = launching[d]
      /\ UNCHANGED <<created, translations>>
  BY DEF Launch, CInv, Shape
<1> HIDE DEF n
<1>2. /\ context'[c].serial = r.serial /\ context'[c].launches = r.launches
      /\ r.launches \in Nat
  BY <1>1, GoodOf DEF ContextState
<1>3. ~Started(launching'[c])
  BY <1>1 DEF Started
<1>4. QED
  BY <1>1, <1>2, <1>3, TUpdate

LEMMA TReturn ==
    ASSUME CInv, WInv, TInv, NEW c \in Ctx, context[c] # None, Return(c)
    PROVE  TInv'
<1> DEFINE r == context[c]
           m == free(r.allocator, GuardBases(launching[c]))
<1>1. /\ context'[c] = [r EXCEPT !.active_topology = Empty, !.active_views = <<>>,
                                 !.commits = <<>>, !.allocator = m]
      /\ launching'[c] = None
      /\ \A d \in Ctx \ {c} : context'[d] = context[d] /\ launching'[d] = launching[d]
      /\ UNCHANGED <<created, translations>>
  BY DEF Return, CInv, Shape
<1> HIDE DEF m
<1>2. /\ context'[c].serial = r.serial /\ context'[c].launches = r.launches
      /\ r.launches \in Nat
  BY <1>1, GoodOf DEF ContextState
<1>3. ~Started(launching'[c])
  BY <1>1 DEF Started
<1>4. QED
  BY <1>1, <1>2, <1>3, TUpdate

\* A new launch: every translation that was kept is of an earlier one.
LEMMA TStartBackend ==
    ASSUME CInv, WInv, TInv, NEW c \in Ctx, context[c] # None, StartBackend(c)
    PROVE  TInv'
<1> DEFINE r == context[c]
           t == build(launching[c].config.cluster, launching[c].config.grid)
           v == launching[c].views
<1>1. /\ context'[c] = [r EXCEPT !.active_topology = t, !.active_views = v,
                                 !.launch_count = r.launch_count + 1,
                                 !.launches = r.launches + 1, !.event_stopped = FALSE]
      /\ \A d \in Ctx \ {c} : context'[d] = context[d] /\ launching'[d] = launching[d]
      /\ UNCHANGED <<created, translations>>
  BY DEF StartBackend, Resumed, CInv, Shape
<1> HIDE DEF t, v
<1>2. /\ context'[c].serial = r.serial /\ context'[c].launches = r.launches + 1
      /\ r.launches \in Nat
  BY <1>1, GoodOf DEF ContextState
<1>3. QED
  BY <1>1, <1>2, TUpdate

LEMMA TAccess ==
    ASSUME CInv, WInv, TInv, NEW c \in Ctx, context[c] # None, NEW t \in translations,
           AccessShared(c, t)
    PROVE  TInv'
<1> DEFINE r == context[c]
<1>0. PICK stop \in BOOLEAN :
        context' = [context EXCEPT
          ![c].commits = Append(@, [serial |-> t.serial, launch |-> t.launch,
                                    delivered |-> ~r.event_stopped,
                                    stop |-> (~r.event_stopped) /\ stop]),
          ![c].event_stopped = @ \/ stop]
  BY DEF AccessShared
<1> DEFINE s == Append(r.commits, [serial |-> t.serial, launch |-> t.launch,
                                   delivered |-> ~r.event_stopped,
                                   stop |-> (~r.event_stopped) /\ stop])
           e == r.event_stopped \/ stop
<1>1. context' = [context EXCEPT ![c].commits = s, ![c].event_stopped = e]
  BY <1>0
<1> HIDE DEF s, e
<1>2. /\ context'[c] = [r EXCEPT !.commits = s, !.event_stopped = e]
      /\ launching' = launching
      /\ \A d \in Ctx \ {c} : context'[d] = context[d]
      /\ UNCHANGED <<created, translations>>
  BY <1>1 DEF AccessShared, CInv, Shape
<1>3. /\ context'[c].serial = r.serial /\ context'[c].launches = r.launches
      /\ context'[c].context_nonce = r.context_nonce
      /\ context'[c].launch_count = r.launch_count
      /\ context'[c].active_topology = r.active_topology
      /\ context'[c].active_views = r.active_views
      /\ context'[c].allocator = r.allocator
      /\ r.launches \in Nat
  BY <1>2, GoodOf DEF ContextState
<1>4. \A x : Derived(r, launching[c], x) => Derived(context'[c], launching'[c], x)
  BY <1>2, <1>3, DerivedFrame
<1>5. QED
  BY <1>2, <1>3, <1>4, TUpdate

\* A new translation is of this Context only.
LEMMA TTranslate ==
    ASSUME CInv, WInv, TInv, NEW c \in Ctx, context[c] # None,
           NEW source \in 0 .. (Volume(launching[c].config.grid) - 1),
           NEW logical \in LogicalAddresses, NEW a \in Accesses, NEW mode \in Modes,
           translate_shared(c, source, logical, a, mode)
    PROVE  TInv'
<1> DEFINE x == Translation(context[c], source, logical, a, mode)
<1>1. /\ translations' = translations \cup {x}
      /\ UNCHANGED <<created, context, launching>>
      /\ CanTranslate(context[c], source, logical, a, mode)
  BY DEF translate_shared
<1>2. x.serial = context[c].serial /\ x.launch = context[c].launches
  BY DEF Translation
<1>3. Derived(context[c], launching[c], x)
  BY <1>1 DEF Derived
<1>4. context[c].launches \in 0 .. context[c].launches
  BY GoodOf DEF ContextState
<1> HIDE DEF x
<1>5. \A d \in Ctx : context[d] # None /\ x.serial = context[d].serial => d = c
  BY <1>2 DEF TInv
<1>6. QED
  BY <1>1, <1>2, <1>3, <1>4, <1>5 DEF TInv

LEMMA TNextStep == CInv /\ WInv /\ TInv /\ [Next]_vars => TInv'
<1> SUFFICES ASSUME CInv, WInv, TInv, [Next]_vars PROVE TInv'
  OBVIOUS
<1>1. ASSUME UNCHANGED <<context, launching, created>>, translations' \subseteq translations
      PROVE  TInv'
  BY <1>1 DEF TInv
<1>2. ASSUME NEW t \in translations, Forget(t) PROVE TInv'
  BY <1>1, <1>2 DEF Forget
<1>3. ASSUME NEW c \in Ctx, LoadNonce(c) \/ Create(c) \/ RetryNonce(c) PROVE TInv'
  BY <1>1, <1>3, TCreate DEF LoadNonce, RetryNonce
<1>4. ASSUME NEW c \in Ctx, context[c] # None,
             \/ Destroy(c)
             \/ \E size \in HostSizes : HostAllocate(c, size)
             \/ \E base \in 0 .. AddrMax : HostFree(c, base)
      PROVE  TInv'
  BY <1>4, TDestroy, TQuiet
<1>5. ASSUME NEW c \in Ctx, context[c] # None,
             \/ \E g \in Configs : Launch(c, g)
             \/ AllocateWindow(c) \/ OutOfMemory(c) \/ WithoutBackend(c)
             \/ StartBackend(c) \/ BackendReturns(c)
      PROVE  TInv'
  BY <1>5, TLaunch, TQuiet, TReturn, TStartBackend
     DEF OutOfMemory, WithoutBackend, BackendReturns
<1>6. ASSUME NEW c \in Ctx, context[c] # None,
             \/ \E source \in 0 .. (Volume(launching[c].config.grid) - 1),
                   logical \in LogicalAddresses, a \in Accesses, mode \in Modes :
                  translate_shared(c, source, logical, a, mode)
             \/ \E t \in translations : AccessShared(c, t)
      PROVE  TInv'
  BY <1>6, TTranslate, TAccess
<1>7. UNCHANGED vars => TInv'
  BY <1>1 DEF vars
<1>8. \A c \in Live : c \in Ctx /\ context[c] # None
  BY DEF Live
<1>9. QED
  BY <1>2, <1>3, <1>4, <1>5, <1>6, <1>7, <1>8 DEF Next

\* Serial numbers name Contexts, and a translation kept from the running launch is
\* one translate_shared would still make.
THEOREM TranslationInvariance == Spec => [](CInv /\ WInv /\ TInv)
<1>1. Init => CInv /\ WInv /\ TInv
  BY InitCInv, InitWInv
<1>2. CInv /\ WInv /\ TInv /\ [Next]_vars => (CInv /\ WInv /\ TInv)'
  BY NextStep, WNextStep, TNextStep
<1>3. QED
  BY <1>1, <1>2, PTL DEF Spec

\* Multiples of e are multiples of its divisors, and so are remainders by e.
LEMMA Multiple ==
    ASSUME NEW a \in Nat \ {0}, NEW q \in Nat
    PROVE  (q * a) % a = 0
<1>1. 0 \in 0 .. a - 1
  OBVIOUS
<1>2. (q * a + 0) % a = 0
  BY <1>1, DivModUnique, Zenon
<1>3. q * a + 0 = q * a
  OBVIOUS
<1>4. QED
  BY <1>2, <1>3, Zenon

LEMMA ModFactor ==
    ASSUME NEW a \in Nat \ {0}, NEW n \in Nat, n % a = 0
    PROVE  \E q \in Nat : n = q * a
<1> DEFINE q == n \div a
<1>1. q \in Nat /\ n = q * a + (n % a)
  BY DivModDef
<1> HIDE DEF q
<1>2. n = q * a
  BY <1>1
<1>3. QED
  BY <1>1, <1>2

LEMMA ModTransitive ==
    ASSUME NEW a \in Nat \ {0}, NEW e \in Nat \ {0}, NEW n \in Nat, e % a = 0, n % e = 0
    PROVE  n % a = 0
<1>1. PICK p \in Nat : e = p * a
  BY ModFactor
<1>2. PICK q \in Nat : n = q * e
  BY ModFactor
<1>3. n = (q * p) * a /\ q * p \in Nat
  BY <1>1, <1>2
<1>4. QED
  BY <1>3, Multiple, Zenon

LEMMA ModSum ==
    ASSUME NEW a \in Nat \ {0}, NEW n \in Nat, NEW o \in Nat, n % a = 0, o % a = 0
    PROVE  (n + o) % a = 0
<1>1. PICK p \in Nat : n = p * a
  BY ModFactor
<1>2. PICK q \in Nat : o = q * a
  BY ModFactor
<1>3. n + o = (p + q) * a /\ p + q \in Nat
  BY <1>1, <1>2
<1>4. QED
  BY <1>3, Multiple, Zenon

LEMMA ModRemainder ==
    ASSUME NEW a \in Nat \ {0}, NEW e \in Nat \ {0}, NEW n \in Nat, e % a = 0, n % a = 0
    PROVE  (n % e) % a = 0
<1>1. PICK p \in Nat : e = p * a
  BY ModFactor
<1>2. PICK s \in Nat : n = s * a
  BY ModFactor
<1> DEFINE q == n \div e
           r == n % e
<1>3. q \in Nat /\ r \in Nat /\ n = q * e + r
  BY DivModDef
<1> HIDE DEF q, r
<1> DEFINE u == q * p
<1>4. u \in Nat /\ q * e = u * a
  BY <1>1, <1>3
<1> HIDE DEF u
<1>5. r = (s - u) * a /\ s - u \in Int
  BY <1>2, <1>3, <1>4
<1>6. s - u >= 0
  <2> SUFFICES ASSUME s < u PROVE FALSE
    BY <1>4
  <2>1. s * a + a <= u * a
    BY <1>4, ProductGrows
  <2>2. s * a \in Nat /\ u * a \in Nat /\ s * a = u * a + r
    BY <1>2, <1>3, <1>4
  <2>3. QED
    BY <1>3, <2>1, <2>2
<1> DEFINE w == s - u
<1>7. w \in Nat /\ r = w * a
  BY <1>5, <1>6
<1> HIDE DEF w
<1>8. QED
  BY <1>7, Multiple, Zenon DEF r

\* The base of a live allocation finds it, and so does every address in it.
LEMMA AllocationFound ==
    ASSUME NEW m, AllocatorOK(m), NEW k \in DOMAIN m.allocs, m.allocs[k].alive
    PROVE  /\ allocation_by_base(m, m.allocs[k].base) = k /\ k # 0
           /\ \A va \in Nat :
                m.allocs[k].base <= va /\ va < m.allocs[k].base + m.allocs[k].size =>
                  find_containing(m, va) = k
<1>1. /\ m.allocs \in Seq(Allocation) /\ Ordered(m)
      /\ DOMAIN m.allocs = 1 .. Len(m.allocs) /\ Len(m.allocs) \in Nat
  BY DEF AllocatorOK, AllocatorState
<1>2. ASSUME NEW i \in DOMAIN m.allocs
      PROVE  m.allocs[i].base \in Nat /\ m.allocs[i].size \in Nat /\ m.allocs[i].size > 0
             /\ i \in Nat /\ i # 0
  <2>1. m.allocs[i] \in Allocation /\ i \in Nat /\ i # 0
    BY <1>1
  <2>2. QED
    BY <1>1, <2>1 DEF Allocation, Ordered
<1>3. ASSUME NEW i \in DOMAIN m.allocs, NEW j \in DOMAIN m.allocs, i < j
      PROVE  m.allocs[i].base + m.allocs[i].size <= m.allocs[j].base
  BY <1>1, <1>3 DEF Ordered
<1>4. allocation_by_base(m, m.allocs[k].base) = k
  <2> DEFINE at == {i \in DOMAIN m.allocs : m.allocs[i].base = m.allocs[k].base
                                            /\ m.allocs[i].alive}
  <2>1. at = {k}
    <3>1. ASSUME NEW i \in DOMAIN m.allocs, m.allocs[i].base = m.allocs[k].base
          PROVE  i = k
      BY <1>2, <1>3, <3>1
    <3>2. QED
      BY <3>1
  <2>2. Min({k}) = k
    BY <1>2 DEF Min
  <2>3. QED
    BY <2>1, <2>2 DEF allocation_by_base
<1>5. ASSUME NEW va \in Nat, m.allocs[k].base <= va,
             va < m.allocs[k].base + m.allocs[k].size
      PROVE  find_containing(m, va) = k
  <2> DEFINE below == {i \in DOMAIN m.allocs : m.allocs[i].base <= va}
  <2>1. k \in below /\ \A i \in below : i \in Nat /\ k >= i
    <3>1. ASSUME NEW i \in below PROVE i \in Nat /\ k >= i
      BY <1>2, <1>3, <1>5
    <3>2. QED
      BY <1>5, <3>1
  <2>2. Max(below) = k
    <3> HIDE DEF below
    <3>1. \A x \in below : (\A y \in below : x >= y) => x = k
      BY <1>2, <2>1
    <3>2. QED
      BY <2>1, <3>1 DEF Max
  <2>3. find_containing(m, va) =
          IF below # {} /\ m.allocs[Max(below)].alive
               /\ va < m.allocs[Max(below)].base + m.allocs[Max(below)].size
            THEN Max(below) ELSE 0
    BY DEF find_containing
  <2> HIDE DEF below
  <2>4. QED
    BY <1>5, <2>1, <2>2, <2>3
<1>6. QED
  BY <1>2, <1>4, <1>5

\* The windows and the tiling the backend works with.
LEMMA ActiveLaunch ==
    ASSUME CInv, WInv, NEW c \in Ctx, context[c] # None, Active(context[c])
    PROVE  /\ Started(launching[c]) /\ launching[c].config \in Configs
           /\ AllocatorOK(context[c].allocator)
           /\ context[c].active_views \in Seq(CtaView)
           /\ \A i \in DOMAIN context[c].active_views :
                Backed(context[c].allocator, context[c].active_views[i])
           /\ context[c].active_topology.grid = launching[c].config.grid
           /\ Volume(launching[c].config.grid) \in Nat
           /\ Len(context[c].active_views) <= Volume(launching[c].config.grid)
           /\ context[c].active_topology.enabled => Tiled(context[c].active_topology)
<1> DEFINE r == context[c]
           l == launching[c]
<1>1. /\ AllocatorOK(r.allocator) /\ Layout(r.allocator, l) /\ Admitted(l)
      /\ Activated(r, l)
  BY GoodOf DEF GoodLaunch
<1>2. Started(l) /\ l # None /\ r.active_views = l.views /\ Views(l) = l.views
  BY <1>1 DEF Active, Activated, Started, Views
<1>3. /\ l \in LaunchState /\ l.config \in Configs /\ l.views \in Seq(CtaView)
      /\ r.active_topology = build(l.config.cluster, l.config.grid)
      /\ CanBuild(l.config.cluster, l.config.grid)
      /\ \A k \in Axis : l.config.grid[k] # 0
      /\ Len(l.views) <= Volume(l.config.grid)
  BY <1>1, <1>2 DEF Admitted, Activated, LaunchState
<1>4. Volume(l.config.grid) \in Nat
  BY <1>3, VolumeType
<1>5. /\ r.active_topology.grid = l.config.grid
      /\ r.active_topology.enabled => Tiled(r.active_topology)
  BY <1>3, BuildTiled
<1>6. \A i \in DOMAIN l.views : Backed(r.allocator, l.views[i])
  BY <1>1, <1>2 DEF Layout
<1>7. QED
  BY <1>1, <1>2, <1>3, <1>4, <1>5, <1>6

\* What translate_shared gives: the target has a window, and with clusters its
\* rank and its CTA determine each other.
LEMMA TranslationSound ==
    ASSUME CInv, WInv, NEW c \in Ctx, context[c] # None, Active(context[c]),
           NEW source \in 0 .. (Volume(launching[c].config.grid) - 1),
           NEW logical \in LogicalAddresses, NEW a \in Accesses, NEW mode \in Modes,
           CanTranslate(context[c], source, logical, a, mode),
           NEW o, o = Offset(logical, mode),
           NEW target, target = Target(context[c], source, logical, mode),
           NEW rank, rank = Rank(context[c], source, logical, mode),
           NEW v, v = View(context[c], target), NEW w, w = context[c].active_topology
    PROVE  /\ o \in Nat /\ a.width \in Nat /\ a.width # 0
           /\ v.base \in Nat /\ v.size \in Nat
           /\ InWindow(v, o, a.width)
           /\ \E k \in DOMAIN context[c].allocator.allocs :
                /\ context[c].allocator.allocs[k].alive
                /\ context[c].allocator.allocs[k].base = v.base
                /\ context[c].allocator.allocs[k].size = v.size
           /\ v.base % eff_align(WindowAlign) = 0
           /\ HasView(context[c], target)
           /\ mode = "distributed" => SameTile(w, source, target)
           /\ w.enabled => /\ rank = cta_rank(w, target)
                           /\ grid_cta(w, cluster_id(w, source), rank) = target
<1> DEFINE r == context[c]
           b == logical \div RankUnit
           vol == Volume(launching[c].config.grid)
<1>1. RankUnit \in Nat \ {0} /\ logical \in Nat /\ a.width \in Nat
  <2>1. RankUnit \in Pow2 /\ Pow2 \subseteq Nat \ {0} /\ logical \in Nat /\ a.width \in Nat
    BY AllocatorAssumption, LaunchAssumption
  <2>2. QED
    BY <2>1, Zenon
<1>2. b \in Nat /\ logical % RankUnit \in Nat
  BY <1>1, DivModDef
<1>3. o \in Nat
  BY <1>1, <1>2 DEF Offset
<1>4. /\ a.width # 0 /\ HasView(r, source) /\ HasView(r, target)
      /\ mode = "distributed" =>
           w.enabled /\ valid_rank(w, b) /\ cluster_id(w, target) = cluster_id(w, source)
      /\ InWindow(v, o, a.width)
  BY DEF CanTranslate
<1>5. /\ r.active_views \in Seq(CtaView) /\ w.grid = launching[c].config.grid
      /\ \A i \in DOMAIN r.active_views : Backed(r.allocator, r.active_views[i])
      /\ w.enabled => Tiled(w)
      /\ vol \in Nat /\ Len(r.active_views) <= vol
  BY ActiveLaunch
<1>6. source \in 0 .. Volume(w.grid) - 1
  BY <1>5
<1>7. v \in CtaView /\ Backed(r.allocator, v)
  <2>1. target + 1 \in DOMAIN r.active_views /\ v = r.active_views[target + 1]
    BY <1>4 DEF HasView, View
  <2>2. QED
    BY <1>5, <2>1
<1>8. mode = "local" => target = source /\ rank = cta_rank(w, source)
  BY DEF Target, Rank
<1>9. mode = "distributed" =>
        target = grid_cta(w, cluster_id(w, source), b) /\ rank = b
  BY DEF Target, Rank
<1> HIDE DEF b, vol
<1>10. ASSUME mode = "distributed"
       PROVE  /\ SameTile(w, source, target) /\ rank = cta_rank(w, target)
              /\ grid_cta(w, cluster_id(w, source), rank) = target
  <2>1. Tiled(w) /\ valid_rank(w, b) /\ cluster_id(w, target) = cluster_id(w, source)
    BY <1>4, <1>5, <1>10
  <2>2. cluster_id(w, source) \in Nat
    BY <1>6, <2>1, ClusterIdType
  <2>3. target \in Nat /\ cta_rank(w, target) = b
    BY <1>2, <1>9, <1>10, <2>1, <2>2, RankOfCta
  <2>4. target \in 0 .. Volume(w.grid) - 1
    <3>1. target + 1 \in 1 .. Len(r.active_views) /\ Len(r.active_views) \in Nat
      BY <1>4, <1>5 DEF HasView
    <3>2. QED
      BY <1>5, <2>3, <3>1 DEF vol
  <2>5. SameTile(w, source, target)
    BY <1>6, <2>1, <2>4, ClusterIsTile
  <2>6. QED
    BY <1>9, <1>10, <2>3, <2>5
<1>11. ASSUME mode = "local", w.enabled
       PROVE  /\ rank = cta_rank(w, target)
              /\ grid_cta(w, cluster_id(w, source), rank) = target
  BY <1>5, <1>6, <1>8, <1>11, CtaOfRank
<1>12. mode = "local" \/ mode = "distributed"
  BY DEF Modes
<1>13. /\ \E k \in DOMAIN r.allocator.allocs :
             /\ r.allocator.allocs[k].alive
             /\ r.allocator.allocs[k].base = v.base
             /\ r.allocator.allocs[k].size = v.size
       /\ v.base % eff_align(WindowAlign) = 0
  BY <1>7 DEF Backed
<1>14. v.base \in Nat /\ v.size \in Nat
  BY <1>7 DEF CtaView
<1>15. QED
  BY <1>1, <1>3, <1>4, <1>10, <1>11, <1>12, <1>13, <1>14

\* A translation of the running launch is one that can be made now.
LEMMA DerivedNow ==
    ASSUME CInv, WInv, TInv, NEW c \in Ctx, context[c] # None, NEW t \in translations,
           t.serial = context[c].serial, t.launch = context[c].launches,
           Active(context[c])
    PROVE  Derived(context[c], launching[c], t)
<1>1. Started(launching[c])
  BY ActiveLaunch
<1>2. QED
  BY <1>1 DEF TInv

\* As long as its launch runs, a translation covers bytes of the live window of its
\* target and of no other allocation, and the target is in the tile of the source
\* (translate_shared).
THEOREM TranslationsInsideTarget == Spec => []InsideTarget
<1>1. ASSUME CInv, WInv, TInv, NEW c \in Live, NEW t \in translations,
             t.serial = context[c].serial, t.launch = context[c].launches,
             Active(context[c]), NEW v, v = View(context[c], t.target_cta)
      PROVE  /\ v.base <= t.address
             /\ t.address + t.access.width <= v.base + v.size
             /\ t.allocation = find_containing(context[c].allocator, t.address)
             /\ t.mode = "distributed" =>
                  SameTile(context[c].active_topology, t.source_cta, t.target_cta)
  <2> DEFINE r == context[c]
             m == r.allocator
  <2>1. c \in Ctx /\ r # None
    BY DEF Live
  <2>2. Derived(r, launching[c], t)
    BY <1>1, <2>1, DerivedNow
  <2>3. PICK source \in 0 .. (Volume(launching[c].config.grid) - 1),
             logical \in LogicalAddresses, a \in Accesses, mode \in Modes :
           /\ CanTranslate(r, source, logical, a, mode)
           /\ t = Translation(r, source, logical, a, mode)
    BY <2>2 DEF Derived
  <2> DEFINE o == Offset(logical, mode)
  <2>4. /\ t.target_cta = Target(r, source, logical, mode) /\ t.access = a
        /\ t.mode = mode /\ t.source_cta = source
        /\ t.allocation = allocation_by_base(m, v.base) /\ t.address = v.base + o
    BY <1>1, <2>3 DEF Translation
  <2> HIDE DEF o
  <2>5. /\ o \in Nat /\ a.width \in Nat /\ a.width # 0
        /\ v.base \in Nat /\ v.size \in Nat
        /\ InWindow(v, o, a.width)
        /\ \E k \in DOMAIN m.allocs :
             m.allocs[k].alive /\ m.allocs[k].base = v.base /\ m.allocs[k].size = v.size
        /\ mode = "distributed" => SameTile(r.active_topology, source, t.target_cta)
    BY <1>1, <2>1, <2>3, <2>4, TranslationSound DEF o
  <2>6. PICK k \in DOMAIN m.allocs :
          m.allocs[k].alive /\ m.allocs[k].base = v.base /\ m.allocs[k].size = v.size
    BY <2>5
  <2>7. v.base + o \in Nat /\ v.base <= v.base + o /\ v.base + o + a.width <= v.base + v.size
        /\ v.base + o < v.base + v.size
    BY <2>5 DEF InWindow
  <2>8. AllocatorOK(m)
    BY <1>1, <2>1, GoodOf
  <2>9. allocation_by_base(m, v.base) = k /\ find_containing(m, v.base + o) = k
    <3> HIDE DEF m
    <3>1. QED
      BY <2>6, <2>7, <2>8, AllocationFound
  <2>10. QED
    BY <2>4, <2>5, <2>7, <2>9
<1>2. CInv /\ WInv /\ TInv => InsideTarget
  BY <1>1 DEF InsideTarget
<1>3. QED
  BY TranslationInvariance, <1>2, PTL

\* With clusters, a translation is accepted wherever its launch uses it: what
\* validate_translation derives from the CTA is what translate_shared derived from
\* the rank (translate_shared, validate_translation).
THEOREM ClusterTranslationsValidate == Spec => []ClusterValidates
<1>1. ASSUME CInv, WInv, TInv, NEW c \in Live, context[c].active_topology.enabled,
             NEW t \in Fresh(c)
      PROVE  Valid(context[c], t)
  <2> DEFINE r == context[c]
             m == r.allocator
             w == r.active_topology
  <2>1. /\ c \in Ctx /\ r # None /\ t \in translations /\ Active(r)
        /\ t.serial = r.serial /\ t.launch = r.launches
        /\ t.access.alignment <= WindowAlign
    BY DEF Live, Fresh
  <2>2. Derived(r, launching[c], t)
    BY <1>1, <2>1, DerivedNow
  <2>3. PICK source \in 0 .. (Volume(launching[c].config.grid) - 1),
             logical \in LogicalAddresses, a \in Accesses, mode \in Modes :
           /\ CanTranslate(r, source, logical, a, mode)
           /\ t = Translation(r, source, logical, a, mode)
    BY <2>2 DEF Derived
  <2> DEFINE o == Offset(logical, mode)
             v == View(r, t.target_cta)
  <2>4. /\ t.target_cta = Target(r, source, logical, mode) /\ t.access = a
        /\ t.target_rank = Rank(r, source, logical, mode)
        /\ t.mode = mode /\ t.source_cta = source /\ t.cluster_id = cluster_id(w, source)
        /\ t.context_nonce = r.context_nonce /\ t.launch_generation = r.launch_count
        /\ t.logical_address = logical /\ t.allocation_offset = o
        /\ t.allocation = allocation_by_base(m, v.base) /\ t.address = v.base + o
    BY <2>3 DEF Translation
  <2>5. /\ o \in Nat /\ v.base \in Nat
        /\ InWindow(v, o, a.width)
        /\ v.base % eff_align(WindowAlign) = 0
        /\ HasView(r, t.target_cta)
        /\ t.target_rank = cta_rank(w, t.target_cta)
        /\ grid_cta(w, cluster_id(w, source), t.target_rank) = t.target_cta
    BY <1>1, <2>1, <2>3, <2>4, TranslationSound
  <2>6. a.width # 0 /\ a.alignment \in Pow2 /\ logical % a.alignment = 0
    BY <2>3 DEF CanTranslate
  <2>7. (v.base + o) % a.alignment = 0
    <3> DEFINE e == eff_align(WindowAlign)
    <3>1. /\ a.alignment \in Nat \ {0} /\ RankUnit \in Nat \ {0} /\ e \in Nat \ {0}
          /\ WindowAlign \in Nat /\ MinAlign \in Nat
      <4>1. /\ RankUnit \in Pow2 /\ Pow2 \subseteq Nat \ {0} /\ WindowAlign \in Pow2
            /\ MinAlign \in Pow2
        BY AllocatorAssumption, LaunchAssumption
      <4>2. e \in Pow2
        BY <4>1 DEF eff_align
      <4>3. QED
        BY <2>6, <4>1, <4>2, Zenon
    <3>2. e \in Pow2 /\ RankUnit \in Pow2 /\ WindowAlign <= e /\ WindowAlign <= RankUnit
      BY <3>1, AllocatorAssumption, LaunchAssumption DEF eff_align
    <3>3. a.alignment <= e /\ a.alignment <= RankUnit
      BY <2>1, <2>4, <3>1, <3>2
    <3>4. e % a.alignment = 0 /\ RankUnit % a.alignment = 0
      BY <2>6, <3>2, <3>3, AllocatorAssumption
    <3> HIDE DEF e, o, v
    <3>5. v.base % a.alignment = 0
      BY <2>5, <3>1, <3>4, ModTransitive DEF e
    <3>6. logical \in Nat
      BY LaunchAssumption
    <3>7. (logical % RankUnit) % a.alignment = 0
      BY <2>6, <3>1, <3>4, <3>6, ModRemainder
    <3>8. o % a.alignment = 0
      BY <2>6, <3>7 DEF o, Offset
    <3>9. QED
      BY <2>5, <3>1, <3>5, <3>8, ModSum
  <2>8. /\ mode = "distributed" => /\ logical \div RankUnit = t.target_rank
                                   /\ logical % RankUnit = o
        /\ mode # "distributed" => logical = o /\ t.target_cta = source
    BY <2>4 DEF Rank, Target, Offset, Modes
  <2> HIDE DEF o, v, m, w
  <2>9. QED
    BY <2>1, <2>4, <2>5, <2>6, <2>7, <2>8 DEF Valid, v, m, w
<1>2. CInv /\ WInv /\ TInv => ClusterValidates
  BY <1>1 DEF ClusterValidates
<1>3. QED
  BY TranslationInvariance, <1>2, PTL

=============================================================================
