-------------------------------- MODULE BfsProofs --------------------------------
(***************************************************************************)
(* BFS: whatever the graph, the numbers of DPUs and tasklets, the size of  *)
(* a tile and the order of the tasklets, the frontier of a level is what   *)
(* is as many edges away from the source, and the levels are distances.    *)
(***************************************************************************)
EXTENDS AppsProofs

(* Where the edges from v lead, and what fewer than k edges reach.         *)
Succ(v) == {w \in Bfs!Verts : <<v, w>> \in Bfs!Edges}
Before(k) == {v \in Bfs!Verts : \E j \in 0..k-1 : v \in Bfs!Ends(j)}

(* l is the level of v, as far as distances below k are known.             *)
RightLevel(l, v, k) == /\ l \in Nat
                       /\ l = 0 => v \notin Before(k)
                       /\ l # 0 => l <= k /\ v \in Bfs!Sphere(l - 1)

-----------------------------------------------------------------------------
(***************************************************************************)
(* The host: edges that start below v, and those from v among the first i. *)
(***************************************************************************)
EdgesBelow(v) == {j \in 0..Bfs!NrEdges-1 : Bfs!From(j) < v}
EdgesFrom(v, i) == {j \in 0..i-1 : Bfs!From(j) = v}
Below(v) == Cardinality(EdgesBelow(v))
FromAt(v, i) == Cardinality(EdgesFrom(v, i))

HostType == [pc : {"count", "scan", "place", "shift", "reference", "distribute", "launch",
                   "wait", "done"},
             i : Nat, sum : Nat, level : Nat \ {0}, lvl : [Bfs!Verts -> Nat],
             offsets : [0..given.n -> Nat], trans : [0..Bfs!NrEdges-1 -> Bfs!Verts],
             ref : [vis : SUBSET Bfs!Verts, nxt : SUBSET Bfs!Verts, level : Nat \ {0},
                    lvl : [Bfs!Verts -> Nat]]]

Counting(h) == /\ h.i \in 0..Bfs!NrEdges /\ h.sum = 0
               /\ \A v \in Bfs!Verts : h.offsets[v] = FromAt(v, h.i)

Scanning(h) ==
  /\ h.i \in 0..given.n /\ h.sum = Below(h.i)
  /\ \A v \in Bfs!Verts : h.offsets[v] = IF v < h.i THEN Below(v) ELSE FromAt(v, Bfs!NrEdges)

(* The first i edges are in trans, each between the bounds of its vertex.  *)
Placing(h) ==
  /\ h.i \in 0..Bfs!NrEdges /\ h.offsets[given.n] = Below(given.n)
  /\ \A v \in Bfs!Verts : h.offsets[v] = Below(v) + FromAt(v, h.i)
  /\ \A v \in Bfs!Verts : \A p \in Below(v)..h.offsets[v]-1 :
       \E j \in 0..h.i-1 : Bfs!From(j) = v /\ h.trans[p] = Bfs!To(j)
  /\ \A j \in 0..h.i-1 :
       \E p \in Below(Bfs!From(j))..h.offsets[Bfs!From(j)]-1 : h.trans[p] = Bfs!To(j)

Placed(h) ==
  \A v \in Bfs!Verts : Succ(v) = {h.trans[p] : p \in Below(v)..Below(v + 1)-1}

Shifting(h) ==
  /\ h.i \in 0..given.n-1 /\ Placed(h)
  /\ \A v \in 0..given.n : h.offsets[v] = IF v <= h.i THEN Below(v + 1) ELSE Below(v)

GraphRight(h) == Placed(h) /\ \A v \in 0..given.n : h.offsets[v] = Below(v)

RefRight(r) == /\ r.vis = Before(r.level - 1) /\ r.nxt = Bfs!Sphere(r.level - 1)
               /\ \A v \in Bfs!Verts : RightLevel(r.lvl[v], v, r.level - 1)

-----------------------------------------------------------------------------
(***************************************************************************)
(* A DPU d with the memory m, in the launch for level l.                   *)
(***************************************************************************)
Lo(m, a) == m.ptrs[a] - m.off
Hi(m, a) == m.ptrs[a + 1] - m.off

BfsTlType == [pc : {"off", "tiles", "barrier", "nodes", "edges", "lock", "read", "write"},
              at : Nat, i : Nat, tmp : SUBSET Bfs!Verts]

(* It has its vertices and their edges.                                    *)
HasPart(d, m) ==
  /\ DOMAIN m = {"n", "beg", "level", "off", "ptrs", "nbrs", "lvl", "vis", "cur", "nxt",
                 "lock", "tl"}
  /\ m = [x \in DOMAIN m |-> m[x]]
  /\ m.n = Bfs!NVertInDpu(d) /\ m.beg = d * Bfs!Hint
  /\ m.tl \in [Bfs!Tasklets -> BfsTlType]
  /\ m.lvl \in [0..m.n-1 -> Nat]
  /\ \A a \in 0..m.n-1 :
       /\ Lo(m, a) \in Nat /\ Hi(m, a) \in Nat
       /\ Succ(m.beg + a) = {m.nbrs[i] : i \in Lo(m, a)..Hi(m, a)-1}

Ready(m, l) ==
  IF m.n = 0 THEN m.nxt = {}
  ELSE /\ m.level = l /\ m.nxt = Bfs!Sphere(l - 1) /\ m.vis = Before(l - 1)
       /\ \A a \in 0..m.n-1 : RightLevel(m.lvl[a], m.beg + a, l - 1)

(* First loop: the tile of v has been taken over.                          *)
Taken(m, v) == LET k == m.tl[(v \div Tile) % given.nt]
               IN  k.pc = "barrier" \/ (v \div Tile) * Tile < k.at

(* Where the round r of tasklet t begins.                                  *)
RoundAt(t, nt, r) == (t + r * nt) * Tile

Tiling(m, l) ==
  /\ m.n # 0 /\ m.level = l
  /\ \A t \in Bfs!Tasklets :
       /\ m.tl[t].pc \in {"tiles", "barrier"}
       /\ \E r \in Nat : m.tl[t].at = RoundAt(t, given.nt, r)
       /\ m.tl[t].pc = "barrier" => m.tl[t].at >= given.n
  /\ m.nxt = {v \in Bfs!Sphere(l - 1) : ~Taken(m, v)}
  /\ m.vis = Before(l - 1) \union {v \in Bfs!Sphere(l - 1) : Taken(m, v)}
  /\ \A a \in 0..m.n-1 :
       /\ Taken(m, m.beg + a) => a \in m.cur <=> m.beg + a \in Bfs!Sphere(l - 1)
       /\ RightLevel(m.lvl[a], m.beg + a, IF Taken(m, m.beg + a) THEN l ELSE l - 1)

(* Second loop: what tasklet t has of its share, and the mutex.            *)
Found(m, a, l) == \A w \in Succ(m.beg + a) : w \in Before(l) \/ w \in m.nxt

HasFound(m, t, l) ==
  \A a \in 0..m.n-1 :
    /\ Bfs!CeilStart(m.n, given.nt, t) <= a /\ a < Bfs!CeilEnd(m.n, given.nt, t)
    /\ m.tl[t].pc = "off" \/ a < m.tl[t].at
    /\ a \in m.cur
    => Found(m, a, l)

AtNode(m, k, t, l) ==
  /\ k.at < Bfs!CeilEnd(m.n, given.nt, t) /\ k.at \in 0..m.n-1 /\ k.at \in m.cur
  /\ k.i >= Lo(m, k.at)
  /\ \A i \in Lo(m, k.at)..k.i-1 : m.nbrs[i] \in Before(l) \/ m.nbrs[i] \in m.nxt

AtEdge(m, k, l) == k.i < Hi(m, k.at) /\ m.nbrs[k.i] \notin Before(l)

VisitTl(m, t, l) ==
  LET k == m.tl[t]
  IN  /\ k.pc \in {"nodes", "edges", "lock", "read", "write", "off"}
      /\ k.pc \in {"edges", "lock", "read", "write"} => AtNode(m, k, t, l)
      /\ k.pc \in {"lock", "read", "write"} => AtEdge(m, k, l)
      /\ k.pc \in {"read", "write"} => m.lock = t
      /\ k.pc = "write" => k.tmp = m.nxt \intersect Bfs!TileOf(m.nbrs[k.i])
      /\ HasFound(m, t, l)

Visiting(m, l) ==
  /\ m.n # 0 /\ m.level = l /\ m.vis = Before(l) /\ m.nxt \subseteq Bfs!Sphere(l)
  /\ \A a \in 0..m.n-1 : /\ a \in m.cur <=> m.beg + a \in Bfs!Sphere(l - 1)
                         /\ RightLevel(m.lvl[a], m.beg + a, l)
  /\ \A t \in Bfs!Tasklets : VisitTl(m, t, l)

(* Without vertices it has nothing to do.                                  *)
Empty(m) == /\ m.n = 0 /\ m.nxt = {}
            /\ \A t \in Bfs!Tasklets : m.tl[t].pc \in {"tiles", "off"}

InLaunch(m, l) == Empty(m) \/ Tiling(m, l) \/ Visiting(m, l)

(* The host h, and the memories of the DPUs.                               *)
HostInv(h) ==
  /\ h \in HostType /\ RefRight(h.ref)
  /\ h.pc = "count" => Counting(h)
  /\ h.pc = "scan" => Scanning(h)
  /\ h.pc = "place" => Placing(h)
  /\ h.pc = "shift" => Shifting(h)
  /\ h.pc \in {"reference", "distribute", "launch", "wait", "done"} => GraphRight(h)
  /\ h.pc \in {"distribute", "launch", "wait", "done"} => h.ref.nxt = {}
  /\ h.pc \notin {"launch", "wait", "done"} => h.level = 1
  /\ h.pc = "done" => /\ Bfs!Sphere(h.level) = {}
                      /\ \A v \in Bfs!Verts : RightLevel(h.lvl[v], v, h.level)

DpusInv(h, mem) ==
  /\ mem = [d \in Bfs!Dpus |-> mem[d]]
  /\ h.pc \in {"launch", "wait", "done"} => \A d \in Bfs!Dpus : HasPart(d, mem[d])
  /\ h.pc = "launch" => \A d \in Bfs!Dpus : Ready(mem[d], h.level)
  /\ h.pc = "wait" => \A d \in Bfs!Dpus : InLaunch(mem[d], h.level)

BfsInv == given \in BfsJobs /\ HostInv(host) /\ DpusInv(host, dpu)

-----------------------------------------------------------------------------
(* What a search is about.                                                 *)
LEMMA BfsTypes ==
  ASSUME given \in BfsJobs
  PROVE  /\ given.app = "BFS" /\ given.n \in Nat \ {0} /\ given.n % Tile = 0 /\ Tile \in Nat \ {0}
         /\ given.src \in Bfs!Verts /\ Bfs!Verts = 0..given.n-1
         /\ given.dpus \in Nat \ {0} /\ Bfs!Dpus = 0..given.dpus-1
         /\ given.nt \in Nat \ {0} /\ Bfs!Tasklets = 0..given.nt-1
         /\ given.coo \in Seq(Bfs!Verts \X Bfs!Verts) /\ Bfs!NrEdges \in Nat
         /\ \A j \in 0..Bfs!NrEdges-1 : Bfs!From(j) \in Bfs!Verts /\ Bfs!To(j) \in Bfs!Verts
<1>1. /\ given.app = "BFS" /\ given.n \in Nat \ {0} /\ given.n % Tile = 0 /\ Tile \in Nat \ {0}
      /\ given.src \in 0..given.n-1 /\ given.coo \in Seq((0..given.n-1) \X (0..given.n-1))
      /\ given.dpus \in Nat \ {0} /\ given.nt \in Nat \ {0}
  BY BfsAssumption DEF Bfs!BfsAssumption
<1>2. Bfs!NrEdges \in Nat
  BY <1>1 DEF Bfs!NrEdges
<1>3. ASSUME NEW j \in 0..Bfs!NrEdges-1 PROVE Bfs!From(j) \in Bfs!Verts /\ Bfs!To(j) \in Bfs!Verts
  <2>1. j + 1 \in 1..Len(given.coo)
    BY <1>1 DEF Bfs!NrEdges
  <2>2. given.coo[j + 1] \in (0..given.n-1) \X (0..given.n-1)
    BY <1>1, <2>1
  <2> QED
    BY <2>2 DEF Bfs!From, Bfs!To, Bfs!Verts
<1> QED
  BY <1>1, <1>2, <1>3 DEF Bfs!Verts, Bfs!Dpus, Bfs!Tasklets

(* The graph of a search stays what it is.                                 *)
LEMMA BfsStays ==
  ASSUME given' = given
  PROVE  /\ Bfs!Verts' = Bfs!Verts /\ Bfs!Dpus' = Bfs!Dpus /\ Bfs!Tasklets' = Bfs!Tasklets
         /\ Bfs!Edges' = Bfs!Edges /\ Bfs!NrEdges' = Bfs!NrEdges /\ Bfs!Hint' = Bfs!Hint
         /\ \A d : Bfs!NVertInDpu(d)' = Bfs!NVertInDpu(d)
         /\ \A j : Bfs!From(j)' = Bfs!From(j) /\ Bfs!To(j)' = Bfs!To(j)
         /\ \A k : Bfs!Ends(k)' = Bfs!Ends(k) /\ Bfs!Sphere(k)' = Bfs!Sphere(k)
         /\ \A k : Before(k)' = Before(k) /\ Succ(k)' = Succ(k) /\ Below(k)' = Below(k)
         /\ \A l, v, k : RightLevel(l, v, k)' <=> RightLevel(l, v, k)
         /\ \A v, i : FromAt(v, i)' = FromAt(v, i)
<1>1. /\ Bfs!Verts' = Bfs!Verts /\ Bfs!Dpus' = Bfs!Dpus /\ Bfs!Tasklets' = Bfs!Tasklets
      /\ Bfs!NrEdges' = Bfs!NrEdges
  BY DEF Bfs!Verts, Bfs!Dpus, Bfs!Tasklets, Bfs!NrEdges
<1>2. Bfs!Edges' = Bfs!Edges
  BY DEF Bfs!Edges
<1>3. Bfs!Hint' = Bfs!Hint
  BY DEF Bfs!Hint
<1>4. \A d : Bfs!NVertInDpu(d)' = Bfs!NVertInDpu(d)
  BY <1>3 DEF Bfs!NVertInDpu
<1>5. \A j : Bfs!From(j)' = Bfs!From(j) /\ Bfs!To(j)' = Bfs!To(j)
  BY DEF Bfs!From, Bfs!To
<1>6. \A k : Bfs!Walks(k)' = Bfs!Walks(k)
  BY <1>1, <1>2 DEF Bfs!Walks
<1>7. \A k : Bfs!Ends(k)' = Bfs!Ends(k)
  BY <1>6 DEF Bfs!Ends
<1>8. \A k : Bfs!Sphere(k)' = Bfs!Sphere(k) /\ Before(k)' = Before(k)
  BY <1>1, <1>7 DEF Bfs!Sphere, Before
<1>9. \A k : Succ(k)' = Succ(k)
  BY <1>1, <1>2 DEF Succ
<1>10. \A k : EdgesBelow(k)' = EdgesBelow(k)
  BY <1>1, <1>5 DEF EdgesBelow
<1>11. \A v, i : EdgesFrom(v, i)' = EdgesFrom(v, i)
  BY <1>5 DEF EdgesFrom
<1>12. \A l, v, k : RightLevel(l, v, k)' <=> RightLevel(l, v, k)
  BY <1>8 DEF RightLevel
<1> QED
  BY <1>1, <1>2, <1>3, <1>4, <1>5, <1>7, <1>8, <1>9, <1>10, <1>11, <1>12 DEF Below, FromAt

-----------------------------------------------------------------------------
(***************************************************************************)
(* Walks: an edge more leads from an end to one of its neighbours.         *)
(***************************************************************************)
LEMMA FirstEnd ==
  ASSUME given \in BfsJobs
  PROVE  Bfs!Ends(0) = {given.src}
<1>0. given.src \in Bfs!Verts /\ 0..0-1 = {}
  BY BfsTypes
<1>1. ASSUME NEW p \in Bfs!Walks(0) PROVE p[0] = given.src
  BY DEF Bfs!Walks
<1>2. [i \in 0..0 |-> given.src] \in Bfs!Walks(0)
  BY <1>0 DEF Bfs!Walks
<1> QED
  BY <1>1, <1>2 DEF Bfs!Ends

LEMMA EndsAreVerts ==
  ASSUME given \in BfsJobs, NEW k \in Nat
  PROVE  Bfs!Ends(k) \subseteq Bfs!Verts
BY DEF Bfs!Ends, Bfs!Walks

LEMMA NextEnds ==
  ASSUME given \in BfsJobs, NEW k \in Nat
  PROVE  /\ \A u \in Bfs!Ends(k) : Succ(u) \subseteq Bfs!Ends(k + 1)
         /\ \A v \in Bfs!Ends(k + 1) : \E u \in Bfs!Ends(k) : v \in Succ(u)
<1>1. ASSUME NEW u \in Bfs!Ends(k), NEW w \in Succ(u) PROVE w \in Bfs!Ends(k + 1)
  <2>1. PICK p \in Bfs!Walks(k) : u = p[k]
    BY DEF Bfs!Ends
  <2> DEFINE q == [i \in 0..k+1 |-> IF i = k + 1 THEN w ELSE p[i]]
  <2>2. /\ p \in [0..k -> Bfs!Verts] /\ p[0] = given.src
        /\ \A i \in 0..k-1 : <<p[i], p[i + 1]>> \in Bfs!Edges
    BY <2>1 DEF Bfs!Walks
  <2>3. w \in Bfs!Verts /\ <<p[k], w>> \in Bfs!Edges
    BY <2>1 DEF Succ
  <2>4. q \in [0..k+1 -> Bfs!Verts] /\ q[0] = given.src /\ q[k + 1] = w
    BY <2>2, <2>3
  <2>5. ASSUME NEW i \in 0..k PROVE <<q[i], q[i + 1]>> \in Bfs!Edges
    <3>1. CASE i = k
      BY <2>3, <3>1
    <3>2. CASE i # k
      <4>1. i \in 0..k-1 /\ i \in 0..k+1 /\ i + 1 \in 0..k+1 /\ i + 1 # k + 1
        BY <3>2
      <4>2. q[i] = p[i] /\ q[i + 1] = p[i + 1]
        BY <3>2, <4>1
      <4> QED
        BY <2>2, <4>1, <4>2
    <3> QED
      BY <3>1, <3>2
  <2> HIDE DEF q
  <2>6. q \in Bfs!Walks(k + 1)
    BY <2>4, <2>5 DEF Bfs!Walks
  <2> QED
    BY <2>4, <2>6 DEF Bfs!Ends
<1>2. ASSUME NEW v \in Bfs!Ends(k + 1) PROVE \E u \in Bfs!Ends(k) : v \in Succ(u)
  <2>1. PICK p \in Bfs!Walks(k + 1) : v = p[k + 1]
    BY DEF Bfs!Ends
  <2>2. /\ p \in [0..k+1 -> Bfs!Verts] /\ p[0] = given.src
        /\ \A i \in 0..k : <<p[i], p[i + 1]>> \in Bfs!Edges
    BY <2>1 DEF Bfs!Walks
  <2> DEFINE q == [i \in 0..k |-> p[i]]
  <2>3. q \in [0..k -> Bfs!Verts] /\ q[0] = given.src /\ q[k] = p[k]
    BY <2>2
  <2>4. \A i \in 0..k-1 : <<q[i], q[i + 1]>> \in Bfs!Edges
    BY <2>2
  <2> HIDE DEF q
  <2>5. q \in Bfs!Walks(k)
    BY <2>3, <2>4 DEF Bfs!Walks
  <2>6. p[k] \in Bfs!Ends(k)
    BY <2>3, <2>5 DEF Bfs!Ends
  <2>7. v \in Succ(p[k])
    BY <2>1, <2>2 DEF Succ
  <2> QED
    BY <2>6, <2>7
<1> QED
  BY <1>1, <1>2

LEMMA FirstSphere ==
  ASSUME given \in BfsJobs
  PROVE  Before(0) = {} /\ Bfs!Sphere(0) = {given.src}
<1>1. 0..0-1 = {}
  OBVIOUS
<1> QED
  BY <1>1, FirstEnd DEF Before, Bfs!Sphere

LEMMA NextBefore ==
  ASSUME given \in BfsJobs, NEW k \in Nat
  PROVE  /\ Before(k + 1) = Before(k) \union Bfs!Sphere(k)
         /\ Before(k) \cap Bfs!Sphere(k) = {}
         /\ Before(k) \subseteq Bfs!Verts /\ Bfs!Sphere(k) \subseteq Bfs!Verts
         /\ \A v \in Bfs!Ends(k) : v \in Before(k) \/ v \in Bfs!Sphere(k)
<1>1. 0..k+1-1 = (0..k-1) \union {k}
  OBVIOUS
<1>2. Bfs!Ends(k) \subseteq Bfs!Verts
  BY EndsAreVerts
<1> QED
  BY <1>1, <1>2 DEF Before, Bfs!Sphere

(* The next sphere: unseen neighbours of this one.                         *)
LEMMA NextSphere ==
  ASSUME given \in BfsJobs, NEW k \in Nat
  PROVE  /\ \A u \in Bfs!Sphere(k) : \A w \in Succ(u) : w \in Before(k + 1) \/ w \in Bfs!Sphere(k + 1)
         /\ \A v \in Bfs!Sphere(k + 1) : v \notin Before(k + 1)
                                         /\ \E u \in Bfs!Sphere(k) : v \in Succ(u)
<1>0. k + 1 \in Nat
  OBVIOUS
<1>1. ASSUME NEW u \in Bfs!Sphere(k), NEW w \in Succ(u)
      PROVE  w \in Before(k + 1) \/ w \in Bfs!Sphere(k + 1)
  <2>1. w \in Bfs!Ends(k + 1)
    BY NextEnds DEF Bfs!Sphere
  <2> QED
    BY <1>0, <2>1, NextBefore
<1>2. ASSUME NEW v \in Bfs!Sphere(k + 1)
      PROVE  v \notin Before(k + 1) /\ \E u \in Bfs!Sphere(k) : v \in Succ(u)
  <2>1. v \notin Before(k + 1)
    BY <1>0, NextBefore
  <2>2. PICK u \in Bfs!Ends(k) : v \in Succ(u)
    BY NextEnds DEF Bfs!Sphere
  <2>3. ASSUME NEW j \in 0..k-1 PROVE u \notin Bfs!Ends(j)
    <3>1. SUFFICES ASSUME u \in Bfs!Ends(j) PROVE FALSE
      OBVIOUS
    <3>2. j \in Nat /\ j + 1 \in 0..k
      OBVIOUS
    <3>3. v \in Bfs!Ends(j + 1)
      BY <2>2, <3>1, <3>2, NextEnds
    <3>4. v \in Bfs!Verts
      BY <2>2 DEF Succ
    <3>5. j + 1 \in 0..k+1-1
      BY <3>2
    <3> QED
      BY <2>1, <3>3, <3>4, <3>5 DEF Before
  <2>4. u \in Bfs!Sphere(k)
    BY <2>2, <2>3 DEF Bfs!Sphere
  <2> QED
    BY <2>1, <2>2, <2>4
<1> QED
  BY <1>1, <1>2

(* Behind an empty sphere there is nothing.                                *)
LEMMA EmptySphere ==
  ASSUME given \in BfsJobs, NEW k \in Nat, Bfs!Sphere(k) = {}, NEW m \in Nat
  PROVE  Bfs!Ends(m) \subseteq Before(k)
<1> DEFINE A == {j \in Nat : j >= k => Bfs!Ends(j) \subseteq Before(k)}
<1>1. ASSUME NEW j \in 0..m-1, j \in A PROVE j + 1 \in A
  <2> SUFFICES ASSUME j + 1 >= k, NEW v \in Bfs!Ends(j + 1) PROVE v \in Before(k)
    OBVIOUS
  <2>1. CASE j + 1 = k
    BY <2>1, NextBefore
  <2>2. CASE j >= k
    <3>1. PICK u \in Bfs!Ends(j) : v \in Succ(u)
      BY NextEnds
    <3>2. u \in Before(k)
      BY <1>1, <2>2, <3>1
    <3>3. PICK i \in 0..k-1 : u \in Bfs!Ends(i)
      BY <3>2 DEF Before
    <3>4. i \in Nat /\ v \in Bfs!Ends(i + 1)
      BY <3>1, <3>3, NextEnds
    <3>5. CASE i + 1 = k
      BY <3>4, <3>5, NextBefore
    <3>6. CASE i + 1 # k
      <4>1. i + 1 \in 0..k-1 /\ v \in Bfs!Verts
        BY <3>1, <3>3, <3>6 DEF Succ
      <4> QED
        BY <3>4, <4>1 DEF Before
    <3> QED
      BY <3>5, <3>6
  <2> QED
    BY <2>1, <2>2
<1>2. 0 \in A
  BY NextBefore
<1>3. \A j \in 0..m : j \in A
  <2> HIDE DEF A
  <2> QED
    BY <1>1, <1>2, Climb
<1>4. CASE m >= k
  BY <1>3, <1>4
<1>5. CASE m < k
  <2>1. m \in 0..k-1 /\ Bfs!Ends(m) \subseteq Bfs!Verts
    BY <1>5, EndsAreVerts
  <2> QED
    BY <2>1 DEF Before
<1> QED
  BY <1>4, <1>5

LEMMA NextLevel ==
  ASSUME given \in BfsJobs, NEW k \in Nat, NEW l, NEW v \in Bfs!Verts, RightLevel(l, v, k)
  PROVE  /\ v \notin Bfs!Sphere(k) => RightLevel(l, v, k + 1)
         /\ v \in Bfs!Sphere(k) => RightLevel(k + 1, v, k + 1)
<1>1. Before(k + 1) = Before(k) \union Bfs!Sphere(k)
  BY NextBefore
<1>2. k + 1 - 1 = k
  OBVIOUS
<1> QED
  BY <1>1, <1>2 DEF RightLevel

(* Right levels up to an empty sphere are distances.                       *)
LEMMA LevelsEnd ==
  ASSUME given \in BfsJobs, NEW k \in Nat, Bfs!Sphere(k) = {}, NEW lvl,
         \A v \in Bfs!Verts : RightLevel(lvl[v], v, k)
  PROVE  Bfs!AreDistances(lvl)
<1>1. \A j \in 0..given.n-1 : Bfs!Ends(j) \subseteq Before(k)
  BY EmptySphere
<1> QED
  BY <1>1 DEF Bfs!AreDistances, RightLevel

-----------------------------------------------------------------------------
(***************************************************************************)
(* covCOOtoCSR.  A vertex's edges lie between the number of edges that     *)
(* start below it and that number for the next vertex.                     *)
(***************************************************************************)
LEMMA EdgesFinite ==
  ASSUME given \in BfsJobs
  PROVE  /\ \A v \in Int : /\ IsFiniteSet(EdgesBelow(v)) /\ Below(v) \in 0..Bfs!NrEdges
         /\ \A v \in Int, i \in Nat : IsFiniteSet(EdgesFrom(v, i)) /\ FromAt(v, i) \in Nat
<1>1. Bfs!NrEdges \in Nat
  BY BfsTypes
<1>2. ASSUME NEW i \in Nat
      PROVE  IsFiniteSet(0..i-1) /\ Cardinality(0..i-1) = i
  BY <1>2, FS_Interval
<1>3. ASSUME NEW v \in Int PROVE IsFiniteSet(EdgesBelow(v)) /\ Below(v) \in 0..Bfs!NrEdges
  <2>1. EdgesBelow(v) \subseteq 0..Bfs!NrEdges-1
    BY DEF EdgesBelow
  <2>2. IsFiniteSet(EdgesBelow(v)) /\ Below(v) <= Bfs!NrEdges
    BY <1>1, <1>2, <2>1, FS_Subset DEF Below
  <2> QED
    BY <1>1, <2>2, FS_CardinalityType DEF Below
<1>4. ASSUME NEW v \in Int, NEW i \in Nat PROVE IsFiniteSet(EdgesFrom(v, i)) /\ FromAt(v, i) \in Nat
  <2>1. EdgesFrom(v, i) \subseteq 0..i-1
    BY DEF EdgesFrom
  <2> QED
    BY <1>2, <2>1, FS_Subset, FS_CardinalityType DEF FromAt
<1> QED
  BY <1>3, <1>4

LEMMA OneEdgeMore ==
  ASSUME given \in BfsJobs, NEW i \in 0..Bfs!NrEdges-1, NEW v \in Int
  PROVE  /\ FromAt(v, 0) = 0
         /\ FromAt(v, i + 1) = IF Bfs!From(i) = v THEN FromAt(v, i) + 1 ELSE FromAt(v, i)
<1>0. Bfs!NrEdges \in Nat /\ i \in Nat /\ 0..0-1 = {} /\ 0..i+1-1 = (0..i-1) \union {i} /\ i \notin 0..i-1
  BY BfsTypes
<1>1. EdgesFrom(v, 0) = {}
  BY <1>0 DEF EdgesFrom
<1>2. /\ EdgesFrom(v, i + 1) = IF Bfs!From(i) = v THEN EdgesFrom(v, i) \union {i} ELSE EdgesFrom(v, i)
      /\ i \notin EdgesFrom(v, i)
  BY <1>0 DEF EdgesFrom
<1>3. IsFiniteSet(EdgesFrom(v, i))
  BY <1>0, EdgesFinite
<1>4. Cardinality(EdgesFrom(v, i) \union {i}) = Cardinality(EdgesFrom(v, i)) + 1
  BY <1>2, <1>3, FS_AddElement
<1> QED
  BY <1>1, <1>2, <1>4, FS_EmptySet DEF FromAt

LEMMA EdgesOfNext ==
  ASSUME given \in BfsJobs, NEW v \in Nat
  PROVE  Below(0) = 0 /\ Below(v + 1) = Below(v) + FromAt(v, Bfs!NrEdges)
<1> DEFINE m == Bfs!NrEdges
           A == EdgesBelow(v)
           B == EdgesFrom(v, m)
           C == EdgesBelow(v + 1)
<1>0. m \in Nat /\ \A j \in 0..m-1 : Bfs!From(j) \in Nat
  BY BfsTypes
<1>1. EdgesBelow(0) = {}
  BY <1>0 DEF EdgesBelow
<1>2. C = A \union B /\ A \cap B = {}
  BY <1>0 DEF EdgesBelow, EdgesFrom
<1>3. IsFiniteSet(A) /\ IsFiniteSet(B)
  BY <1>0, EdgesFinite
<1> HIDE DEF A, B, C
<1>4. Cardinality(A \union B) = Cardinality(A) + Cardinality(B) - Cardinality(A \cap B)
  BY <1>3, FS_Union
<1>5. Cardinality(A \cap B) = 0
  BY <1>2, FS_EmptySet
<1>6. Cardinality(A) \in Nat /\ Cardinality(B) \in Nat
  BY <1>3, FS_CardinalityType
<1>7. Cardinality(C) = Cardinality(A) + Cardinality(B)
  BY <1>2, <1>4, <1>5, <1>6
<1> QED
  BY <1>1, <1>7, FS_EmptySet DEF Below, FromAt, A, B, C

LEMMA BelowGrows ==
  ASSUME given \in BfsJobs, NEW v \in Int, NEW w \in Int, v <= w
  PROVE  Below(v) <= Below(w) /\ Below(v) \in 0..Bfs!NrEdges /\ Below(w) \in 0..Bfs!NrEdges
<1>1. EdgesBelow(v) \subseteq EdgesBelow(w)
  <2>1. \A j \in 0..Bfs!NrEdges-1 : Bfs!From(j) \in Int
    BY BfsTypes
  <2> QED
    BY <2>1 DEF EdgesBelow
<1> QED
  BY <1>1, EdgesFinite, FS_Subset DEF Below

(* There is room for the next edge of a vertex, before the next one's.     *)
LEMMA RoomForEdge ==
  ASSUME given \in BfsJobs, NEW i \in 0..Bfs!NrEdges, NEW v \in Bfs!Verts
  PROVE  /\ FromAt(v, i) \in Nat /\ Below(v) \in Nat
         /\ Below(v) + FromAt(v, i) <= Below(v + 1) /\ Below(v + 1) <= Bfs!NrEdges
         /\ i < Bfs!NrEdges /\ Bfs!From(i) = v => Below(v) + FromAt(v, i) < Below(v + 1)
<1>0. v \in Nat /\ v + 1 \in Int /\ Bfs!NrEdges \in Nat /\ i \in Nat
  BY BfsTypes
<1>1. /\ Below(v + 1) = Below(v) + FromAt(v, Bfs!NrEdges)
      /\ Below(v) \in Nat /\ Below(v + 1) \in 0..Bfs!NrEdges /\ FromAt(v, Bfs!NrEdges) \in Nat
  BY <1>0, EdgesOfNext, EdgesFinite
<1>2. ASSUME NEW k \in 0..Bfs!NrEdges PROVE FromAt(v, k) <= FromAt(v, Bfs!NrEdges)
  <2>1. EdgesFrom(v, k) \subseteq EdgesFrom(v, Bfs!NrEdges)
    BY <1>0 DEF EdgesFrom
  <2> QED
    BY <1>0, <2>1, EdgesFinite, FS_Subset DEF FromAt
<1>3. ASSUME i < Bfs!NrEdges, Bfs!From(i) = v PROVE FromAt(v, i) + 1 <= FromAt(v, Bfs!NrEdges)
  <2>1. i + 1 \in 0..Bfs!NrEdges /\ i \in 0..Bfs!NrEdges-1
    BY <1>0, <1>3
  <2>2. FromAt(v, i + 1) = FromAt(v, i) + 1
    BY <1>0, <1>3, <2>1, OneEdgeMore
  <2> QED
    BY <1>2, <2>1, <2>2
<1>4. FromAt(v, i) \in Nat
  <2>1. v \in Int /\ i \in Nat
    BY <1>0
  <2> QED
    BY <2>1, EdgesFinite
<1>5. FromAt(v, i) <= FromAt(v, Bfs!NrEdges)
  BY <1>2
<1> HIDE <1>2
<1> QED
  BY <1>0, <1>1, <1>3, <1>4, <1>5

(* What is said of the host and the DPUs is said of a given graph.         *)
LEMMA InvStays ==
  ASSUME given \in BfsJobs, given' = given, HostInv(host'), DpusInv(host', dpu')
  PROVE  BfsInv'
<1>1. HostType' = HostType
  BY BfsStays DEF HostType
<1>2. /\ Counting(host)' <=> Counting(host')
      /\ Scanning(host)' <=> Scanning(host')
      /\ Placing(host)' <=> Placing(host')
  BY BfsStays DEF Counting, Scanning, Placing
<1>3. /\ Shifting(host)' <=> Shifting(host')
      /\ GraphRight(host)' <=> GraphRight(host')
  BY BfsStays DEF Shifting, GraphRight, Placed
<1>4. RefRight(host.ref)' <=> RefRight(host'.ref)
  BY BfsStays DEF RefRight
<1>5. HostInv(host)'
  BY <1>1, <1>2, <1>3, <1>4, BfsStays DEF HostInv
<1>6. BfsTlType' = BfsTlType
  BY BfsStays DEF BfsTlType
<1>7. \A d : HasPart(d, dpu[d])' <=> HasPart(d, dpu'[d])
  BY <1>6, BfsStays DEF HasPart, Lo, Hi
<1>8. \A d : Ready(dpu[d], host.level)' <=> Ready(dpu'[d], host'.level)
  BY BfsStays DEF Ready
<1>9. \A d : Tiling(dpu[d], host.level)' <=> Tiling(dpu'[d], host'.level)
  BY SMTT(30), BfsStays DEF Tiling, Taken
<1>10. \A d, t : VisitTl(dpu[d], t, host.level)' <=> VisitTl(dpu'[d], t, host'.level)
  BY SMTT(30), BfsStays DEF VisitTl, HasFound, AtNode, AtEdge, Found, Lo, Hi, Bfs!TileOf, Bfs!CeilStart, Bfs!CeilEnd, Bfs!CeilShare
<1>11. \A d : Visiting(dpu[d], host.level)' <=> Visiting(dpu'[d], host'.level)
  BY <1>10, BfsStays DEF Visiting
<1>12. \A d : Empty(dpu[d])' <=> Empty(dpu'[d])
  BY BfsStays DEF Empty
<1>13. \A d : InLaunch(dpu[d], host.level)' <=> InLaunch(dpu'[d], host'.level)
  BY <1>9, <1>11, <1>12 DEF InLaunch
<1>14. DpusInv(host, dpu)'
  BY <1>7, <1>8, <1>13, BfsStays DEF DpusInv
<1> QED
  BY <1>5, <1>14 DEF BfsInv

LEMMA FunPut ==
  ASSUME NEW S, NEW T, NEW g \in [S -> T], NEW x \in S, NEW y \in T
  PROVE  /\ [g EXCEPT ![x] = y] \in [S -> T]
         /\ \A z \in S : [g EXCEPT ![x] = y][z] = IF z = x THEN y ELSE g[z]
OBVIOUS

LEMMA HostFields ==
  ASSUME NEW h \in HostType
  PROVE  /\ h.i \in Nat /\ h.sum \in Nat /\ h.level \in Nat \ {0}
         /\ h.offsets \in [0..given.n -> Nat] /\ h.trans \in [0..Bfs!NrEdges-1 -> Bfs!Verts]
         /\ h.lvl \in [Bfs!Verts -> Nat]
         /\ h.ref.vis \subseteq Bfs!Verts /\ h.ref.nxt \subseteq Bfs!Verts
         /\ h.ref.level \in Nat \ {0} /\ h.ref.lvl \in [Bfs!Verts -> Nat]
BY DEF HostType

LEMMA PrepKeeps ==
  ASSUME BfsInv, given' = given, dpu' = dpu, host.pc \in {"count", "scan", "place", "shift"},
         host' \in HostType, host'.ref = host.ref, host'.level = host.level,
         \/ host'.pc = "count" /\ Counting(host')
         \/ host'.pc = "scan" /\ Scanning(host')
         \/ host'.pc = "place" /\ Placing(host')
         \/ host'.pc = "shift" /\ Shifting(host')
         \/ host'.pc = "reference" /\ GraphRight(host')
  PROVE  BfsInv'
<1>1. given \in BfsJobs /\ HostInv(host) /\ DpusInv(host, dpu)
  BY DEF BfsInv
<1>2. HostInv(host')
  BY <1>1 DEF HostInv
<1>3. DpusInv(host', dpu')
  BY <1>1 DEF DpusInv
<1> QED
  BY <1>1, <1>2, <1>3, InvStays

LEMMA CountEdgeKeeps == ASSUME BfsInv, Bfs!CountEdge PROVE BfsInv'
<1> DEFINE i == host.i
           f == Bfs!From(i)
           o == [host.offsets EXCEPT ![f] = host.offsets[f] + 1]
<1>1. /\ given \in BfsJobs /\ host \in HostType /\ host.pc = "count" /\ Counting(host)
      /\ given' = given /\ dpu' = dpu /\ given.n \in Nat /\ Bfs!Verts = 0..given.n-1
      /\ Bfs!NrEdges \in Nat
  BY BfsTypes DEF Bfs!CountEdge, BfsInv, HostInv
<1>2. CASE i < Bfs!NrEdges
  <2>1. host' = [host EXCEPT !.i = i + 1, !.offsets = o]
    BY <1>2 DEF Bfs!CountEdge
  <2>2. /\ i \in 0..Bfs!NrEdges-1 /\ i + 1 \in 0..Bfs!NrEdges /\ f \in Bfs!Verts
        /\ host.offsets \in [0..given.n -> Nat] /\ f \in 0..given.n /\ host.sum = 0
        /\ \A v \in Bfs!Verts : host.offsets[v] = FromAt(v, i)
    <3>1. /\ i \in 0..Bfs!NrEdges /\ host.sum = 0
          /\ \A v \in Bfs!Verts : host.offsets[v] = FromAt(v, i)
      BY <1>1 DEF Counting
    <3>2. i \in 0..Bfs!NrEdges-1 /\ i + 1 \in 0..Bfs!NrEdges
      BY <1>1, <1>2, <3>1
    <3>3. f \in Bfs!Verts
      BY <1>1, <3>2, BfsTypes
    <3> HIDE DEF f
    <3>4. f \in 0..given.n
      BY <1>1, <3>3
    <3> QED
      BY <1>1, <3>1, <3>2, <3>3, <3>4, HostFields
  <2>3. o \in [0..given.n -> Nat]
        /\ \A v \in 0..given.n : o[v] = IF v = f THEN host.offsets[v] + 1 ELSE host.offsets[v]
    <3> HIDE DEF f, i, o
    <3>0. host.offsets[f] \in Nat
      BY <2>2
    <3>1. host.offsets[f] + 1 \in Nat
      BY <3>0
    <3> USE DEF o
    <3>2. /\ o \in [0..given.n -> Nat]
          /\ \A v \in 0..given.n : o[v] = IF v = f THEN host.offsets[f] + 1 ELSE host.offsets[v]
      BY <2>2, <3>1, FunPut
    <3> QED
      BY <3>2
  <2> HIDE DEF o
  <2>4. ASSUME NEW v \in Bfs!Verts PROVE o[v] = FromAt(v, i + 1)
    <3>1. v \in Int /\ v \in 0..given.n
      BY <1>1
    <3>2. FromAt(v, i + 1) = IF f = v THEN FromAt(v, i) + 1 ELSE FromAt(v, i)
      BY <1>1, <2>2, <3>1, OneEdgeMore
    <3> QED
      BY <2>2, <2>3, <3>1, <3>2
  <2> HIDE DEF f, i
  <2>5. /\ host' \in HostType /\ host'.i = i + 1 /\ host'.offsets = o /\ host'.pc = "count"
        /\ host'.ref = host.ref /\ host'.level = host.level /\ host'.sum = 0
    <3>1. i + 1 \in Nat /\ o \in [0..given.n -> Nat] /\ host.sum = 0
      BY <1>1, <2>2, <2>3
    <3>2. host' \in HostType
      BY ZenonT(30), <1>1, <2>1, <3>1 DEF HostType
    <3> QED
      BY ZenonT(30), <1>1, <2>1, <3>1 DEF HostType
  <2>6. Counting(host')
    BY <2>2, <2>4, <2>5 DEF Counting
  <2> QED
    BY <1>1, <2>5, <2>6, PrepKeeps
<1>3. CASE ~(i < Bfs!NrEdges)
  <2>1. host' = [host EXCEPT !.pc = "scan", !.i = 0]
    BY <1>3 DEF Bfs!CountEdge
  <2>2. i = Bfs!NrEdges /\ host.sum = 0 /\ \A v \in Bfs!Verts : host.offsets[v] = FromAt(v, i)
    BY <1>1, <1>3 DEF Counting
  <2>3. /\ host' \in HostType /\ host'.i = 0 /\ host'.offsets = host.offsets /\ host'.pc = "scan"
        /\ host'.ref = host.ref /\ host'.level = host.level /\ host'.sum = 0
    BY ZenonT(30), <1>1, <2>1, <2>2 DEF HostType
  <2>4. Below(0) = 0
    BY <1>1, EdgesOfNext
  <2>5. Scanning(host')
    BY <1>1, <2>2, <2>3, <2>4 DEF Scanning
  <2> QED
    BY <1>1, <2>3, <2>5, PrepKeeps
<1> QED
  BY <1>2, <1>3

LEMMA ScanVertexKeeps == ASSUME BfsInv, Bfs!ScanVertex PROVE BfsInv'
<1> DEFINE i == host.i
           o == [host.offsets EXCEPT ![i] = host.sum]
           e == [host.offsets EXCEPT ![given.n] = host.sum]
<1>1. /\ given \in BfsJobs /\ host \in HostType /\ host.pc = "scan"
      /\ given' = given /\ dpu' = dpu /\ given.n \in Nat /\ Bfs!Verts = 0..given.n-1
      /\ Bfs!NrEdges \in Nat
  BY BfsTypes DEF Bfs!ScanVertex, BfsInv, HostInv
<1>2. /\ i \in 0..given.n /\ host.sum = Below(i) /\ host.sum \in Nat
      /\ host.offsets \in [0..given.n -> Nat]
      /\ \A v \in Bfs!Verts : host.offsets[v] = IF v < i THEN Below(v) ELSE FromAt(v, Bfs!NrEdges)
  BY <1>1 DEF BfsInv, HostInv, Scanning, HostType
<1>3. CASE i < given.n
  <2>1. host' = [host EXCEPT !.i = i + 1, !.sum = host.sum + host.offsets[i], !.offsets = o]
    BY <1>3 DEF Bfs!ScanVertex
  <2>2. /\ o \in [0..given.n -> Nat]
        /\ \A v \in 0..given.n : o[v] = IF v = i THEN host.sum ELSE host.offsets[v]
    BY <1>2
  <2>3. i \in Nat /\ i \in Bfs!Verts /\ i + 1 \in 0..given.n /\ i + 1 \in Nat
    BY <1>1, <1>2, <1>3
  <2>4. host.sum + host.offsets[i] = Below(i + 1) /\ host.sum + host.offsets[i] \in Nat
    <3>1. Below(i + 1) = Below(i) + FromAt(i, Bfs!NrEdges)
      BY <1>1, <2>3, EdgesOfNext
    <3>2. host.offsets[i] = FromAt(i, Bfs!NrEdges) /\ host.offsets[i] \in Nat
      <4> HIDE DEF i
      <4>1. ~(i < i) /\ i \in 0..given.n
        BY <2>3, <1>1
      <4> QED
        BY <1>2, <2>3, <4>1
    <3> QED
      BY <1>2, <3>1, <3>2
  <2> HIDE DEF o, i
  <2>5. /\ host' \in HostType /\ host'.i = i + 1 /\ host'.offsets = o /\ host'.pc = "scan"
        /\ host'.ref = host.ref /\ host'.level = host.level
        /\ host'.sum = host.sum + host.offsets[i]
    BY <1>1, <2>1, <2>2, <2>3, <2>4 DEF HostType
  <2>6. ASSUME NEW v \in Bfs!Verts
        PROVE  o[v] = IF v < i + 1 THEN Below(v) ELSE FromAt(v, Bfs!NrEdges)
    <3>1. v \in 0..given.n /\ v \in Nat
      BY <1>1
    <3>2. CASE v = i
      BY <1>2, <2>2, <2>3, <3>1, <3>2
    <3>3. CASE v # i
      <4>1. v < i + 1 <=> v < i
        BY <2>3, <3>1, <3>3
      <4> QED
        BY <1>2, <2>2, <3>1, <3>3, <4>1
    <3> QED
      BY <3>2, <3>3
  <2>7. Scanning(host')
    BY <2>3, <2>4, <2>5, <2>6 DEF Scanning
  <2> QED
    BY <1>1, <2>5, <2>7, PrepKeeps
<1>4. CASE ~(i < given.n)
  <2>1. host' = [host EXCEPT !.pc = "place", !.i = 0, !.offsets = e]
    BY <1>4 DEF Bfs!ScanVertex
  <2>2. /\ e \in [0..given.n -> Nat] /\ e[given.n] = host.sum
        /\ \A v \in Bfs!Verts : e[v] = host.offsets[v]
    BY <1>1, <1>2
  <2>3. i = given.n
    BY <1>1, <1>2, <1>4
  <2> HIDE DEF e, i
  <2>4. /\ host' \in HostType /\ host'.i = 0 /\ host'.offsets = e /\ host'.pc = "place"
        /\ host'.ref = host.ref /\ host'.level = host.level
    BY <1>1, <2>1, <2>2 DEF HostType
  <2>5. ASSUME NEW v \in Bfs!Verts PROVE e[v] = Below(v) + FromAt(v, 0) /\ Below(v)..e[v]-1 = {}
    <3>1. FromAt(v, 0) = 0 /\ Below(v) \in Nat
      <4>1. v \in Int
        BY <1>1
      <4>2. EdgesFrom(v, 0) = {}
        BY DEF EdgesFrom
      <4>3. Below(v) \in 0..Bfs!NrEdges
        BY <4>1, <1>1, EdgesFinite
      <4>4. FromAt(v, 0) = 0
        BY <4>2, FS_EmptySet DEF FromAt
      <4> QED
        BY <1>1, <4>3, <4>4
    <3>2. e[v] = Below(v)
      BY <1>1, <1>2, <2>2, <2>3
    <3> QED
      BY <3>1, <3>2
  <2>6. 0..0-1 = {} /\ 0 \in 0..Bfs!NrEdges
    BY <1>1
  <2>7. e[given.n] = Below(given.n)
    BY <1>2, <2>2, <2>3
  <2>8. Placing(host')
    BY <2>4, <2>5, <2>6, <2>7 DEF Placing
  <2> QED
    BY <1>1, <2>4, <2>8, PrepKeeps
<1> QED
  BY <1>3, <1>4

(* An edge of the graph is one of the list.                                *)
LEMMA SuccIs ==
  ASSUME given \in BfsJobs, NEW v \in Bfs!Verts
  PROVE  Succ(v) = {Bfs!To(j) : j \in {j \in 0..Bfs!NrEdges-1 : Bfs!From(j) = v}}
<1>0. /\ given.coo \in Seq(Bfs!Verts \X Bfs!Verts) /\ Bfs!NrEdges = Len(given.coo)
      /\ Bfs!NrEdges \in Nat
  BY BfsTypes DEF Bfs!NrEdges
<1>1. ASSUME NEW w \in Succ(v)
      PROVE  \E j \in 0..Bfs!NrEdges-1 : Bfs!From(j) = v /\ Bfs!To(j) = w
  <2>1. PICK i \in 1..Len(given.coo) : given.coo[i] = <<v, w>>
    BY <1>0 DEF Succ, Bfs!Edges
  <2>2. i - 1 \in 0..Bfs!NrEdges-1 /\ i - 1 + 1 = i
    BY <1>0
  <2>3. Bfs!From(i - 1) = v /\ Bfs!To(i - 1) = w
    BY <2>1, <2>2 DEF Bfs!From, Bfs!To
  <2> QED
    BY <2>2, <2>3
<1>2. ASSUME NEW j \in 0..Bfs!NrEdges-1, Bfs!From(j) = v
      PROVE  Bfs!To(j) \in Succ(v)
  <2>1. j + 1 \in 1..Len(given.coo)
    BY <1>0
  <2>2. given.coo[j + 1] \in Bfs!Verts \X Bfs!Verts
    BY <1>0, <2>1
  <2>3. given.coo[j + 1] = <<v, Bfs!To(j)>> /\ Bfs!To(j) \in Bfs!Verts
    BY <1>2, <2>2 DEF Bfs!From, Bfs!To
  <2>4. given.coo[j + 1] \in Bfs!Edges
    BY <1>0, <2>1 DEF Bfs!Edges
  <2> QED
    BY <2>3, <2>4 DEF Succ
<1> QED
  BY <1>1, <1>2

(* A vertex is a number, and so are the bounds of its edges.               *)
LEMMA VertIs ==
  ASSUME given \in BfsJobs, NEW v \in Bfs!Verts
  PROVE  /\ v \in Nat /\ v + 1 \in Nat /\ v \in 0..given.n /\ v + 1 \in 0..given.n /\ v # given.n
         /\ Below(v) \in Nat /\ Below(v + 1) \in Nat /\ Below(v + 1) <= Bfs!NrEdges
<1>1. /\ v \in Nat /\ v + 1 \in Nat /\ v \in 0..given.n /\ v + 1 \in 0..given.n /\ v # given.n
      /\ Bfs!NrEdges \in Nat
  BY BfsTypes
<1>2. v \in Int /\ v + 1 \in Int
  BY <1>1
<1>3. Below(v) \in 0..Bfs!NrEdges /\ Below(v + 1) \in 0..Bfs!NrEdges
  BY <1>2, EdgesFinite
<1> QED
  BY <1>1, <1>3

(* The edges of a vertex lie apart from those of the others.               *)
LEMMA BlocksApart ==
  ASSUME given \in BfsJobs, NEW i \in 0..Bfs!NrEdges-1, NEW v \in Bfs!Verts, v # Bfs!From(i),
         NEW q \in Below(v)..Below(v) + FromAt(v, i)-1
  PROVE  q # Below(Bfs!From(i)) + FromAt(Bfs!From(i), i)
<1> DEFINE f == Bfs!From(i)
<1>1. /\ v \in Nat /\ f \in Nat /\ f \in Bfs!Verts /\ i \in 0..Bfs!NrEdges /\ i < Bfs!NrEdges
      /\ v + 1 \in Int /\ f + 1 \in Int /\ Bfs!NrEdges \in Nat
  <2>1. i \in 0..Bfs!NrEdges /\ i < Bfs!NrEdges /\ Bfs!NrEdges \in Nat /\ f \in Bfs!Verts
    BY BfsTypes
  <2> HIDE DEF f
  <2> QED
    BY <2>1, VertIs
<1>2. /\ FromAt(v, i) \in Nat /\ Below(v) \in Nat /\ Below(v) + FromAt(v, i) <= Below(v + 1)
      /\ FromAt(f, i) \in Nat /\ Below(f) \in Nat /\ Below(f) + FromAt(f, i) < Below(f + 1)
  BY <1>1, RoomForEdge
<1>3. Below(v + 1) \in Nat /\ Below(f + 1) \in Nat
  BY <1>1, BelowGrows
<1>4. v # f
  OBVIOUS
<1> HIDE DEF f
<1>5. CASE v < f
  <2>1. Below(v + 1) <= Below(f)
    BY <1>1, <1>5, BelowGrows
  <2> QED
    BY <1>2, <1>3, <2>1 DEF f
<1>6. CASE f < v
  <2>1. Below(f + 1) <= Below(v)
    BY <1>1, <1>6, BelowGrows
  <2> QED
    BY <1>2, <1>3, <2>1 DEF f
<1> QED
  BY <1>1, <1>4, <1>5, <1>6

LEMMA PlaceEdgeKeeps == ASSUME BfsInv, Bfs!PlaceEdge PROVE BfsInv'
<1> DEFINE i == host.i
           f == Bfs!From(i)
           p == host.offsets[f]
           o == [host.offsets EXCEPT ![f] = p + 1]
           tr == [host.trans EXCEPT ![p] = Bfs!To(i)]
<1>1. /\ given \in BfsJobs /\ host \in HostType /\ host.pc = "place" /\ Placing(host)
      /\ given' = given /\ dpu' = dpu /\ given.n \in Nat \ {0} /\ Bfs!Verts = 0..given.n-1
      /\ Bfs!NrEdges \in Nat
  BY BfsTypes DEF Bfs!PlaceEdge, BfsInv, HostInv
<1>2. /\ i \in 0..Bfs!NrEdges /\ host.offsets[given.n] = Below(given.n)
      /\ \A v \in Bfs!Verts : host.offsets[v] = Below(v) + FromAt(v, i)
      /\ \A v \in Bfs!Verts : \A q \in Below(v)..host.offsets[v]-1 :
           \E j \in 0..i-1 : Bfs!From(j) = v /\ host.trans[q] = Bfs!To(j)
      /\ \A j \in 0..i-1 :
           \E q \in Below(Bfs!From(j))..host.offsets[Bfs!From(j)]-1 : host.trans[q] = Bfs!To(j)
      /\ host.offsets \in [0..given.n -> Nat] /\ host.trans \in [0..Bfs!NrEdges-1 -> Bfs!Verts]
  BY <1>1, HostFields DEF Placing
<1>3. CASE i < Bfs!NrEdges
  <2>1. host' = [host EXCEPT !.i = i + 1, !.offsets = o, !.trans = tr]
    BY <1>3 DEF Bfs!PlaceEdge
  <2>2. /\ i \in 0..Bfs!NrEdges-1 /\ i + 1 \in 0..Bfs!NrEdges /\ i + 1 \in Nat
        /\ f \in Bfs!Verts /\ f \in 0..given.n /\ f # given.n /\ Bfs!To(i) \in Bfs!Verts
        /\ 0..i+1-1 = (0..i-1) \union {i}
    <3>1. i \in 0..Bfs!NrEdges-1
      BY <1>1, <1>2, <1>3
    <3>2. f \in Bfs!Verts /\ Bfs!To(i) \in Bfs!Verts
      BY <1>1, <3>1, BfsTypes
    <3> HIDE DEF f
    <3> QED
      BY <1>1, <3>1, <3>2
  <2>3. /\ p = Below(f) + FromAt(f, i) /\ p \in 0..Bfs!NrEdges-1 /\ Below(f) \in Nat
        /\ FromAt(f, i) \in Nat
    <3>1. p = Below(f) + FromAt(f, i)
      BY <1>2, <2>2
    <3>2. /\ Below(f) + FromAt(f, i) < Below(f + 1) /\ Below(f + 1) <= Bfs!NrEdges
          /\ FromAt(f, i) \in Nat /\ Below(f) \in Nat
      BY <1>1, <1>2, <1>3, <2>2, RoomForEdge
    <3>3. Below(f + 1) \in Nat
      BY <1>1, <2>2, VertIs
    <3> HIDE DEF p, f
    <3> QED
      BY <1>1, <3>1, <3>2, <3>3
  <2> HIDE DEF p, f, i
  <2>4. /\ o \in [0..given.n -> Nat]
        /\ \A v \in 0..given.n : o[v] = IF v = f THEN p + 1 ELSE host.offsets[v]
    <3>1. p + 1 \in Nat
      BY <1>1, <2>3
    <3> QED
      BY <1>2, <2>2, <3>1, FunPut
  <2>5. /\ tr \in [0..Bfs!NrEdges-1 -> Bfs!Verts]
        /\ \A q \in 0..Bfs!NrEdges-1 : tr[q] = IF q = p THEN Bfs!To(i) ELSE host.trans[q]
    BY <1>2, <2>2, <2>3, FunPut
  <2> HIDE DEF o, tr
  <2>6. /\ host' \in HostType /\ host'.i = i + 1 /\ host'.offsets = o /\ host'.trans = tr
        /\ host'.pc = "place" /\ host'.ref = host.ref /\ host'.level = host.level
    <3>1. o \in [0..given.n -> Nat]
      BY <2>4
    <3>2. tr \in [0..Bfs!NrEdges-1 -> Bfs!Verts]
      BY <2>5
    <3> QED
      BY <1>1, <2>1, <2>2, <3>1, <3>2 DEF HostType
  <2>7. ASSUME NEW v \in Bfs!Verts PROVE o[v] = Below(v) + FromAt(v, i + 1)
    <3>1. v \in Int /\ v \in 0..given.n
      BY <1>1
    <3>2. FromAt(v, i + 1) = IF f = v THEN FromAt(v, i) + 1 ELSE FromAt(v, i)
      BY <1>1, <2>2, <3>1, OneEdgeMore DEF f
    <3>3. host.offsets[v] = Below(v) + FromAt(v, i) /\ Below(v) \in Nat /\ FromAt(v, i) \in Nat
      BY <1>1, <1>2, RoomForEdge
    <3> QED
      BY <2>3, <2>4, <3>1, <3>2, <3>3
  <2>8. o[given.n] = Below(given.n)
    <3>1. given.n \in 0..given.n
      BY <1>1
    <3> QED
      BY <1>2, <2>2, <2>4, <3>1
  <2>9. ASSUME NEW v \in Bfs!Verts, NEW q \in Below(v)..host.offsets[v]-1
        PROVE  q # p /\ tr[q] = host.trans[q]
    <3>1. host.offsets[v] = Below(v) + FromAt(v, i) /\ Below(v) \in Nat /\ FromAt(v, i) \in Nat
      BY <1>1, <1>2, RoomForEdge
    <3>2. CASE v = f
      <4>1. q # p
        BY <2>3, <3>1, <3>2
      <4> QED
        <5>1. q \in 0..Bfs!NrEdges-1
          BY <1>1, <2>3, <3>1, <3>2
        <5> QED
          BY <2>5, <4>1, <5>1
    <3>3. CASE v # f
      <4>1. q # p
        BY <1>1, <2>2, <2>3, <3>1, <3>3, BlocksApart DEF f
      <4>2. Below(v) + FromAt(v, i) <= Below(v + 1) /\ Below(v + 1) <= Bfs!NrEdges
        BY <1>1, <1>2, RoomForEdge
      <4>3. Below(v + 1) \in Nat
        BY <1>1, VertIs
      <4>4. q \in 0..Bfs!NrEdges-1
        BY <1>1, <3>1, <4>2, <4>3
      <4> QED
        BY <2>5, <4>1, <4>4
    <3> QED
      BY <3>2, <3>3
  <2>10. ASSUME NEW v \in Bfs!Verts, NEW q \in Below(v)..o[v]-1
         PROVE  \E j \in 0..i+1-1 : Bfs!From(j) = v /\ tr[q] = Bfs!To(j)
    <3>1. v \in 0..given.n /\ Below(v) \in Nat /\ host.offsets[v] \in Nat
      BY <1>1, <1>2, VertIs
    <3>2. CASE v = f /\ q = p
      <4>1. tr[q] = Bfs!To(i) /\ i \in 0..i+1-1
        BY <2>2, <2>3, <2>5, <3>2
      <4> QED
        BY <3>2, <4>1 DEF f
    <3>3. CASE ~(v = f /\ q = p)
      <4>1. q \in Below(v)..host.offsets[v]-1
        <5>1. CASE v = f
          <6>1. o[v] = p + 1 /\ host.offsets[v] = p /\ p \in Nat /\ q # p
            BY <1>1, <2>3, <2>4, <3>1, <3>3, <5>1 DEF p
          <6> QED
            BY <3>1, <6>1
        <5>2. CASE v # f
          BY <2>4, <3>1, <5>2
        <5> QED
          BY <5>1, <5>2
      <4>2. PICK j \in 0..i-1 : Bfs!From(j) = v /\ host.trans[q] = Bfs!To(j)
        BY <1>2, <4>1
      <4> QED
        BY <2>2, <2>9, <4>1, <4>2
    <3> QED
      BY <3>2, <3>3
  <2>11. ASSUME NEW j \in 0..i+1-1
         PROVE  \E q \in Below(Bfs!From(j))..o[Bfs!From(j)]-1 : tr[q] = Bfs!To(j)
    <3>1. CASE j = i
      <4>1. o[f] = p + 1 /\ p \in Nat /\ p \in Below(f)..p+1-1
        BY <1>1, <2>2, <2>3, <2>4
      <4>2. tr[p] = Bfs!To(i)
        BY <2>3, <2>5
      <4> QED
        BY <3>1, <4>1, <4>2 DEF f
    <3>2. CASE j # i
      <4>0. j \in 0..i-1
        BY <2>2, <3>2
      <4> DEFINE g == Bfs!From(j)
      <4>1. PICK q \in Below(g)..host.offsets[g]-1 : host.trans[q] = Bfs!To(j)
        BY <1>2, <4>0
      <4>2. g \in Bfs!Verts
        <5>1. j \in 0..Bfs!NrEdges-1
          BY <1>1, <1>2, <2>2, <4>0
        <5> QED
          BY <1>1, <5>1, BfsTypes
      <4>3. tr[q] = Bfs!To(j)
        BY <2>9, <4>1, <4>2
      <4> HIDE DEF g
      <4>4. g \in 0..given.n /\ Below(g) \in Nat /\ host.offsets[g] \in Nat
        BY <1>1, <1>2, <4>2, VertIs
      <4>5. o[g] >= host.offsets[g] /\ o[g] \in Nat
        <5>1. g = f => host.offsets[g] = p
          BY DEF p
        <5> QED
          BY <2>4, <4>4, <5>1
      <4>6. q \in Below(g)..o[g]-1
        BY <4>4, <4>5
      <4> QED
        BY <4>3, <4>6 DEF g
    <3> QED
      BY <3>1, <3>2
  <2>12. Placing(host')
    BY <2>2, <2>6, <2>7, <2>8, <2>10, <2>11 DEF Placing
  <2> QED
    BY <1>1, <2>6, <2>12, PrepKeeps
<1>4. CASE ~(i < Bfs!NrEdges)
  <2>1. host' = [host EXCEPT !.pc = "shift", !.i = given.n - 1]
    BY <1>4 DEF Bfs!PlaceEdge
  <2>2. i = Bfs!NrEdges
    BY <1>1, <1>2, <1>4
  <2> HIDE DEF i, f, p, o, tr
  <2>3. /\ host' \in HostType /\ host'.i = given.n - 1 /\ host'.offsets = host.offsets
        /\ host'.trans = host.trans
        /\ host'.pc = "shift" /\ host'.ref = host.ref /\ host'.level = host.level
    <3>1. given.n - 1 \in Nat
      BY <1>1
    <3> QED
      BY <1>1, <2>1, <3>1 DEF HostType
  <2>4. ASSUME NEW v \in Bfs!Verts PROVE host.offsets[v] = Below(v + 1)
    <3>1. v \in Nat
      BY <1>1
    <3> QED
      BY <1>1, <1>2, <2>2, <3>1, EdgesOfNext
  <2>5. ASSUME NEW v \in Bfs!Verts
        PROVE  Succ(v) = {host.trans[q] : q \in Below(v)..Below(v + 1)-1}
    <3>1. host.offsets[v] = Below(v + 1)
      BY <2>4
    <3>2. ASSUME NEW q \in Below(v)..Below(v + 1)-1 PROVE host.trans[q] \in Succ(v)
      <4>1. PICK j \in 0..i-1 : Bfs!From(j) = v /\ host.trans[q] = Bfs!To(j)
        BY <1>2, <3>1
      <4> QED
        BY <1>1, <2>2, <4>1, SuccIs
    <3>3. ASSUME NEW w \in Succ(v) PROVE \E q \in Below(v)..Below(v + 1)-1 : w = host.trans[q]
      <4>1. PICK j \in 0..Bfs!NrEdges-1 : Bfs!From(j) = v /\ w = Bfs!To(j)
        BY <1>1, SuccIs
      <4>2. j \in 0..i-1
        BY <2>2
      <4> QED
        BY <1>2, <3>1, <4>1, <4>2
    <3> QED
      BY <3>2, <3>3
  <2>6. Placed(host')
    BY <2>3, <2>5 DEF Placed
  <2>7. ASSUME NEW v \in 0..given.n
        PROVE  host.offsets[v] = IF v <= given.n - 1 THEN Below(v + 1) ELSE Below(v)
    BY <1>1, <1>2, <2>4
  <2>8. given.n - 1 \in 0..given.n-1
    BY <1>1
  <2>9. Shifting(host')
    BY <2>3, <2>6, <2>7, <2>8 DEF Shifting
  <2> QED
    BY <1>1, <2>3, <2>9, PrepKeeps
<1> QED
  BY <1>3, <1>4

LEMMA ShiftOffsetKeeps == ASSUME BfsInv, Bfs!ShiftOffset PROVE BfsInv'
<1> DEFINE i == host.i
           o == [host.offsets EXCEPT ![i] = host.offsets[i - 1]]
           z == [host.offsets EXCEPT ![0] = 0]
<1>1. /\ given \in BfsJobs /\ host \in HostType /\ host.pc = "shift" /\ Shifting(host)
      /\ given' = given /\ dpu' = dpu /\ given.n \in Nat \ {0} /\ Bfs!Verts = 0..given.n-1
  BY BfsTypes DEF Bfs!ShiftOffset, BfsInv, HostInv
<1>2. /\ i \in 0..given.n-1 /\ Placed(host) /\ host.offsets \in [0..given.n -> Nat]
      /\ \A v \in 0..given.n : host.offsets[v] = IF v <= i THEN Below(v + 1) ELSE Below(v)
  BY <1>1, HostFields DEF Shifting
<1>3. CASE i > 0
  <2>1. host' = [host EXCEPT !.i = i - 1, !.offsets = o]
    BY <1>3 DEF Bfs!ShiftOffset
  <2> HIDE DEF i
  <2>2. i - 1 \in 0..given.n-1 /\ i - 1 \in 0..given.n /\ i \in 0..given.n /\ i - 1 \in Nat
    BY <1>1, <1>2, <1>3
  <2>3. host.offsets[i - 1] = Below(i) /\ host.offsets[i - 1] \in Nat
    <3>1. i - 1 <= i /\ i - 1 + 1 = i
      BY <1>2
    <3> QED
      BY <1>2, <2>2, <3>1
  <2>4. /\ o \in [0..given.n -> Nat]
        /\ \A v \in 0..given.n : o[v] = IF v = i THEN Below(i) ELSE host.offsets[v]
    BY <1>2, <2>2, <2>3, FunPut
  <2> HIDE DEF o
  <2>5. /\ host' \in HostType /\ host'.i = i - 1 /\ host'.offsets = o /\ host'.trans = host.trans
        /\ host'.pc = "shift" /\ host'.ref = host.ref /\ host'.level = host.level
    BY <1>1, <2>1, <2>2, <2>4 DEF HostType
  <2>6. ASSUME NEW v \in 0..given.n
        PROVE  o[v] = IF v <= i - 1 THEN Below(v + 1) ELSE Below(v)
    BY <1>1, <1>2, <2>2, <2>4
  <2>7. Shifting(host')
    BY <1>2, <2>2, <2>5, <2>6 DEF Shifting, Placed
  <2> QED
    BY <1>1, <2>5, <2>7, PrepKeeps
<1>4. CASE ~(i > 0)
  <2>1. host' = [host EXCEPT !.pc = "reference", !.offsets = z]
    BY <1>4 DEF Bfs!ShiftOffset
  <2> HIDE DEF i
  <2>2. i = 0
    BY <1>1, <1>2, <1>4
  <2>3. /\ z \in [0..given.n -> Nat]
        /\ \A v \in 0..given.n : z[v] = IF v = 0 THEN 0 ELSE host.offsets[v]
    <3>1. 0 \in 0..given.n /\ 0 \in Nat
      BY <1>1
    <3> QED
      BY <1>2, <3>1, FunPut
  <2> HIDE DEF z
  <2>4. /\ host' \in HostType /\ host'.offsets = z /\ host'.trans = host.trans
        /\ host'.pc = "reference" /\ host'.ref = host.ref /\ host'.level = host.level
    BY <1>1, <2>1, <2>3 DEF HostType
  <2>5. Below(0) = 0
    BY <1>1, EdgesOfNext
  <2>6. ASSUME NEW v \in 0..given.n PROVE z[v] = Below(v)
    BY <1>1, <1>2, <2>2, <2>3, <2>5
  <2>7. GraphRight(host')
    BY <1>2, <2>4, <2>6 DEF GraphRight, Placed
  <2> QED
    BY <1>1, <2>4, <2>7, PrepKeeps
<1> QED
  BY <1>3, <1>4

(* The host's own search.                                                  *)
LEMMA NeighborsAre ==
  ASSUME given \in BfsJobs, GraphRight(host), NEW v \in Bfs!Verts
  PROVE  Bfs!Neighbors(v) = Succ(v)
<1>1. v \in 0..given.n /\ v + 1 \in 0..given.n
  BY BfsTypes
<1>2. host.offsets[v] = Below(v) /\ host.offsets[v + 1] = Below(v + 1)
  BY <1>1 DEF GraphRight
<1> QED
  BY <1>2 DEF GraphRight, Placed, Bfs!Neighbors

LEMMA RefLevelRight ==
  ASSUME given \in BfsJobs, GraphRight(host), NEW r, RefRight(r), r.level \in Nat \ {0}
  PROVE  RefRight(Bfs!RefLevel(r)) /\ Bfs!RefLevel(r).level = r.level + 1
<1> DEFINE k == r.level - 1
           s == Bfs!RefLevel(r)
<1>1. /\ k \in Nat /\ k + 1 \in Nat /\ k + 1 = r.level /\ r.vis = Before(k) /\ r.nxt = Bfs!Sphere(k)
      /\ \A v \in Bfs!Verts : RightLevel(r.lvl[v], v, k)
  BY DEF RefRight
<1>2. /\ Before(k + 1) = Before(k) \union Bfs!Sphere(k) /\ Bfs!Sphere(k) \subseteq Bfs!Verts
      /\ Bfs!Sphere(k + 1) \subseteq Bfs!Verts
  BY <1>1, NextBefore
<1> DEFINE U == UNION {Bfs!Neighbors(v) : v \in r.nxt}
<1>3. U \ Before(k + 1) = Bfs!Sphere(k + 1)
  <2>1. \A v \in Bfs!Sphere(k) : Bfs!Neighbors(v) = Succ(v)
    BY <1>2, NeighborsAre
  <2>2. \A u \in Bfs!Sphere(k) : \A w \in Succ(u) : w \in Before(k + 1) \/ w \in Bfs!Sphere(k + 1)
    BY <1>1, NextSphere
  <2>3. \A v \in Bfs!Sphere(k + 1) : v \notin Before(k + 1) /\ \E u \in Bfs!Sphere(k) : v \in Succ(u)
    BY <1>1, NextSphere
  <2>4. r.nxt = Bfs!Sphere(k)
    BY <1>1
  <2> HIDE DEF k
  <2>5. \A w \in U : w \in Before(k + 1) \/ w \in Bfs!Sphere(k + 1)
    BY <2>1, <2>2, <2>4
  <2>6. \A v \in Bfs!Sphere(k + 1) : v \in U /\ v \notin Before(k + 1)
    BY <2>1, <2>3, <2>4
  <2> HIDE DEF U
  <2> QED
    BY <2>5, <2>6
<1>4. /\ s.vis = Before(k + 1) /\ s.nxt = Bfs!Sphere(k + 1) /\ s.level = r.level + 1
      /\ s.lvl = [v \in Bfs!Verts |-> IF v \in r.nxt THEN r.level ELSE r.lvl[v]]
  <2>1. s = [vis |-> r.vis \union r.nxt, nxt |-> U \ (r.vis \union r.nxt), level |-> r.level + 1,
             lvl |-> [v \in Bfs!Verts |-> IF v \in r.nxt THEN r.level ELSE r.lvl[v]]]
    BY DEF Bfs!RefLevel
  <2> HIDE DEF s, U
  <2>2. r.vis \union r.nxt = Before(k + 1)
    BY <1>1, <1>2
  <2> QED
    BY <1>3, <2>1, <2>2
<1>5. ASSUME NEW v \in Bfs!Verts PROVE RightLevel(s.lvl[v], v, k + 1)
  <2>1. s.lvl[v] = IF v \in Bfs!Sphere(k) THEN k + 1 ELSE r.lvl[v]
    BY <1>1, <1>4
  <2>2. RightLevel(r.lvl[v], v, k)
    BY <1>1
  <2> HIDE DEF k, s
  <2> QED
    BY <1>1, <2>1, <2>2, NextLevel
<1>6. s.level - 1 = k + 1
  BY <1>1, <1>4
<1> HIDE DEF k, s
<1>7. RefRight(s)
  BY <1>4, <1>5, <1>6 DEF RefRight
<1> QED
  BY <1>4, <1>7 DEF s

LEMMA ReferenceKeeps == ASSUME BfsInv, Bfs!Reference PROVE BfsInv'
<1> DEFINE r == host.ref
           s == Bfs!RefLevel(r)
<1>1. /\ given \in BfsJobs /\ host \in HostType /\ host.pc = "reference" /\ GraphRight(host)
      /\ RefRight(r) /\ host.level = 1 /\ HostInv(host) /\ DpusInv(host, dpu)
      /\ given' = given /\ dpu' = dpu
  BY DEF Bfs!Reference, BfsInv, HostInv
<1>2. /\ r.level \in Nat \ {0} /\ r.nxt \subseteq Bfs!Verts /\ r.vis \subseteq Bfs!Verts
      /\ r.lvl \in [Bfs!Verts -> Nat]
  BY <1>1, HostFields
<1>3. host' = [host EXCEPT !.ref = s, !.pc = IF s.nxt = {} THEN "distribute" ELSE host.pc]
  BY DEF Bfs!Reference
<1>4. RefRight(s) /\ s.level = r.level + 1
  BY <1>1, <1>2, RefLevelRight
<1>5. s \in [vis : SUBSET Bfs!Verts, nxt : SUBSET Bfs!Verts, level : Nat \ {0}, lvl : [Bfs!Verts -> Nat]]
  <2>1. s = [vis |-> s.vis, nxt |-> s.nxt, level |-> s.level, lvl |-> s.lvl]
    BY DEF Bfs!RefLevel
  <2>2. s.level \in Nat \ {0}
    BY <1>2, <1>4
  <2>3. s.lvl \in [Bfs!Verts -> Nat]
    BY <1>2 DEF Bfs!RefLevel
  <2>4. s.level - 1 \in Nat
    BY <1>2, <1>4
  <2> HIDE DEF s
  <2>5. s.vis \subseteq Bfs!Verts /\ s.nxt \subseteq Bfs!Verts
    BY <1>1, <1>4, <2>4, NextBefore DEF RefRight
  <2> QED
    BY <2>1, <2>2, <2>3, <2>5
<1> HIDE DEF s
<1>6. /\ host' \in HostType /\ host'.ref = s /\ host'.level = 1 /\ host'.offsets = host.offsets
      /\ host'.trans = host.trans /\ host'.pc = IF s.nxt = {} THEN "distribute" ELSE "reference"
  BY <1>1, <1>3, <1>5 DEF HostType
<1>7. GraphRight(host')
  BY <1>1, <1>6 DEF GraphRight, Placed
<1>8. HostInv(host')
  BY <1>4, <1>6, <1>7 DEF HostInv
<1>9. DpusInv(host', dpu')
  BY <1>1, <1>6 DEF DpusInv
<1> QED
  BY <1>1, <1>8, <1>9, InvStays

-----------------------------------------------------------------------------
(***************************************************************************)
(* The parts of the graph: whole tiles, and every vertex in one of them.   *)
(***************************************************************************)
LEMMA BfsCeil ==
  /\ \A n, k : Bfs!CeilShare(n, k) = CeilShare(n, k)
  /\ \A n, k, t : Bfs!CeilStart(n, k, t) = CeilStart(n, k, t) /\ Bfs!CeilEnd(n, k, t) = CeilEnd(n, k, t)
BY DEF Bfs!CeilShare, Bfs!CeilStart, Bfs!CeilEnd, CeilShare, CeilStart, CeilEnd

LEMMA DivAndRest ==
  ASSUME NEW a \in Nat, NEW b \in Nat \ {0}
  PROVE  /\ a \div b \in Nat /\ a % b \in 0..b-1 /\ a = b * (a \div b) + (a % b)
         /\ (a \div b) * b \in Nat /\ (a \div b) * b <= a /\ a < (a \div b) * b + b
<1>1. a \div b \in Nat /\ a % b \in 0..b-1 /\ a = b * (a \div b) + (a % b)
  OBVIOUS
<1> DEFINE q == a \div b
           r == a % b
<1> HIDE DEF q, r
<1>2. q \in Nat /\ r \in 0..b-1 /\ a = b * q + r
  BY <1>1 DEF q, r
<1>3. q * b \in Nat /\ q * b <= a /\ a < q * b + b
  BY <1>2
<1> QED
  BY <1>1, <1>3 DEF q

LEMMA HintFits ==
  ASSUME given \in BfsJobs
  PROVE  /\ Bfs!Hint \in Nat \ {0} /\ given.n <= given.dpus * Bfs!Hint
         /\ \E c \in Nat \ {0} : Bfs!Hint = c * Tile
<1> DEFINE n == given.n
           q == (n - 1) \div given.dpus
           c == Bfs!CeilShare(q + 1, Tile)
<1>1. /\ n \in Nat \ {0} /\ given.dpus \in Nat \ {0} /\ Tile \in Nat \ {0}
      /\ Bfs!Hint = c * Tile
  BY BfsTypes DEF Bfs!Hint
<1>2. q \in Nat /\ n <= (q + 1) * given.dpus
  <2> HIDE DEF n
  <2>1. n - 1 \in Nat
    BY <1>1
  <2>2. /\ q \in Nat /\ (n - 1) % given.dpus \in 0..given.dpus-1
        /\ n - 1 = given.dpus * q + ((n - 1) % given.dpus)
    BY <1>1, <2>1, DivAndRest
  <2> HIDE DEF q
  <2> QED
    BY <1>1, <2>2
<1> HIDE DEF q
<1>3. c \in Nat /\ q + 1 <= Tile * c
  <2>1. q + 1 \in Nat
    BY <1>2
  <2> QED
    BY <1>1, <2>1, BfsCeil, CeilShareFits
<1> HIDE DEF c, n
<1>4. c # 0
  BY <1>1, <1>2, <1>3
<1>5. c * Tile \in Nat /\ q + 1 <= c * Tile
  BY <1>1, <1>2, <1>3
<1>6. (q + 1) * given.dpus <= (c * Tile) * given.dpus
  <2>1. q + 1 \in Int /\ c * Tile \in Int /\ given.dpus \in Nat
    BY <1>1, <1>2, <1>5
  <2> QED
    BY <1>5, <2>1, ProductOrder
<1>7. Bfs!Hint \in Nat \ {0}
  BY <1>1, <1>2, <1>5
<1>8. given.n <= given.dpus * Bfs!Hint
  BY <1>1, <1>2, <1>6, <1>7 DEF n
<1> QED
  BY <1>1, <1>3, <1>4, <1>7, <1>8

LEMMA DpuPart ==
  ASSUME given \in BfsJobs, NEW d \in Bfs!Dpus
  PROVE  /\ d * Bfs!Hint \in Nat /\ Bfs!NVertInDpu(d) \in Nat
         /\ Bfs!NVertInDpu(d) # 0 => d * Bfs!Hint + Bfs!NVertInDpu(d) <= given.n
         /\ Bfs!NVertInDpu(d) # Bfs!Hint => d * Bfs!Hint + Bfs!NVertInDpu(d) >= given.n
<1>1. given.n \in Nat \ {0} /\ d \in Nat /\ Bfs!Hint \in Nat \ {0}
  BY BfsTypes, HintFits
<1>2. d * Bfs!Hint \in Nat
  BY <1>1
<1> DEFINE b == d * Bfs!Hint
<1>3. Bfs!NVertInDpu(d) = IF b > given.n THEN 0 ELSE IF b + Bfs!Hint > given.n THEN given.n - b ELSE Bfs!Hint
  BY DEF Bfs!NVertInDpu
<1> HIDE DEF b
<1>4. b \in Nat
  BY <1>2 DEF b
<1>5. /\ Bfs!NVertInDpu(d) \in Nat
      /\ Bfs!NVertInDpu(d) # 0 => b + Bfs!NVertInDpu(d) <= given.n
      /\ Bfs!NVertInDpu(d) # Bfs!Hint => b + Bfs!NVertInDpu(d) >= given.n
  BY <1>1, <1>3, <1>4
<1> QED
  BY <1>2, <1>5 DEF b

LEMMA PartVert ==
  ASSUME given \in BfsJobs, NEW d \in Bfs!Dpus, NEW a \in 0..Bfs!NVertInDpu(d)-1
  PROVE  d * Bfs!Hint + a \in Bfs!Verts /\ a \in Nat
<1>1. given.n \in Nat \ {0} /\ Bfs!Verts = 0..given.n-1
  BY BfsTypes
<1> DEFINE b == d * Bfs!Hint
           n == Bfs!NVertInDpu(d)
<1>2. b \in Nat /\ n \in Nat /\ (n # 0 => b + n <= given.n)
  BY DpuPart
<1> HIDE DEF b, n
<1>3. b + a \in Bfs!Verts /\ a \in Nat
  BY <1>1, <1>2 DEF n
<1> QED
  BY <1>3 DEF b

LEMMA VertPart ==
  ASSUME given \in BfsJobs, NEW v \in Bfs!Verts
  PROVE  /\ v \div Bfs!Hint \in Bfs!Dpus
         /\ v - (v \div Bfs!Hint) * Bfs!Hint \in 0..Bfs!NVertInDpu(v \div Bfs!Hint)-1
<1> DEFINE h == Bfs!Hint
           d == v \div h
<1>1. /\ v \in Nat /\ v < given.n /\ given.n \in Nat /\ h \in Nat \ {0} /\ given.dpus \in Nat \ {0}
      /\ given.n <= given.dpus * h /\ Bfs!Dpus = 0..given.dpus-1
  BY BfsTypes, HintFits
<1> HIDE DEF h
<1>2. d \in Nat
  BY <1>1, DivAndRest
<1>3. d * h \in Nat /\ d * h <= v /\ v < d * h + h
  BY <1>1, DivAndRest
<1> HIDE DEF d
<1>4. given.dpus * h \in Nat
  BY <1>1
<1>5. d * h < given.dpus * h
  BY <1>1, <1>3, <1>4
<1>6. d \in Bfs!Dpus
  <2>1. d < given.dpus
    BY <1>1, <1>2, <1>5, FactorOrder
  <2> QED
    BY <1>1, <1>2, <2>1
<1> DEFINE b == d * h
           n == Bfs!NVertInDpu(d)
<1>7. n \in Nat /\ (n # h => b + n >= given.n)
  BY <1>6, DpuPart DEF h
<1>8. b \in Nat /\ b <= v /\ v < b + h
  BY <1>3
<1> HIDE DEF b, n
<1>9. v - b \in 0..n-1
  BY <1>1, <1>7, <1>8
<1> QED
  BY <1>6, <1>9 DEF b, n, d, h

LEMMA PartitionFields ==
  ASSUME given \in BfsJobs, NEW d \in Bfs!Dpus, GraphRight(host), host \in HostType
  PROVE  HasPart(d, Bfs!Partition(d)) /\ Ready(Bfs!Partition(d), 1)
<1> DEFINE m == Bfs!Partition(d)
           n == Bfs!NVertInDpu(d)
           beg == d * Bfs!Hint
           off == IF n = 0 THEN 0 ELSE host.offsets[beg]
           size == IF n = 0 THEN 0 ELSE host.offsets[beg + n] - off
<1>1. m = [n |-> n, beg |-> beg, level |-> 1, off |-> off,
           ptrs |-> [v \in 0..n |-> IF n = 0 THEN 0 ELSE host.offsets[beg + v]],
           nbrs |-> [i \in 0..size-1 |-> host.trans[off + i]],
           lvl |-> [v \in 0..n-1 |-> 0], vis |-> {}, cur |-> {},
           nxt |-> IF n = 0 THEN {} ELSE {given.src}, lock |-> -1,
           tl |-> [t \in Bfs!Tasklets |-> Bfs!Idle]]
  BY DEF Bfs!Partition
<1>2. n \in Nat /\ beg \in Nat /\ (n # 0 => beg + n <= given.n) /\ given.n \in Nat
  BY DpuPart, BfsTypes
<1>3. \A a \in 0..n-1 : beg + a \in Bfs!Verts /\ a \in Nat
  BY PartVert
<1> HIDE DEF m, n, beg, off, size
<1>4. /\ DOMAIN m = {"n", "beg", "level", "off", "ptrs", "nbrs", "lvl", "vis", "cur", "nxt", "lock", "tl"}
      /\ m = [x \in DOMAIN m |-> m[x]]
      /\ m.n = n /\ m.beg = beg /\ m.level = 1 /\ m.off = off /\ m.vis = {}
      /\ m.nxt = IF n = 0 THEN {} ELSE {given.src}
      /\ m.ptrs = [v \in 0..n |-> IF n = 0 THEN 0 ELSE host.offsets[beg + v]]
      /\ m.nbrs = [i \in 0..size-1 |-> host.trans[off + i]]
      /\ m.lvl = [v \in 0..n-1 |-> 0]
      /\ m.tl = [t \in Bfs!Tasklets |-> Bfs!Idle]
  BY <1>1
<1>5. m.tl \in [Bfs!Tasklets -> BfsTlType]
  <2>1. Bfs!Idle \in BfsTlType
    BY DEF Bfs!Idle, BfsTlType
  <2> QED
    BY <1>4, <2>1
<1>6. m.lvl \in [0..m.n-1 -> Nat] /\ \A a \in 0..n-1 : m.lvl[a] = 0
  BY <1>4
<1>7. \A v \in 0..given.n : host.offsets[v] = Below(v) /\ Below(v) \in Nat
  <2>1. host.offsets \in [0..given.n -> Nat]
    BY HostFields
  <2> QED
    BY <2>1 DEF GraphRight
<1>8. ASSUME NEW a \in 0..n-1
      PROVE  /\ Lo(m, a) \in Nat /\ Hi(m, a) \in Nat
             /\ Succ(m.beg + a) = {m.nbrs[i] : i \in Lo(m, a)..Hi(m, a)-1}
  <2> DEFINE v == beg + a
             B == Below(beg)
             L == Below(v)
             H == Below(v + 1)
             E == Below(beg + n)
  <2>1. /\ v \in Bfs!Verts /\ v \in 0..given.n /\ v + 1 \in 0..given.n /\ beg \in 0..given.n
        /\ beg + n \in 0..given.n /\ n # 0 /\ a \in 0..n /\ a + 1 \in 0..n /\ beg + (a + 1) = v + 1
        /\ beg <= v /\ v + 1 <= beg + n /\ v <= v + 1 /\ v \in Int /\ beg \in Int
        /\ v + 1 \in Int /\ beg + n \in Int
    BY <1>2, <1>3
  <2>2. off = B /\ size = E - B /\ m.ptrs[a] = L /\ m.ptrs[a + 1] = H
    BY <1>4, <1>7, <2>1 DEF off, size
  <2>3. B <= L /\ L <= H /\ H <= E /\ B \in Nat /\ L \in Nat /\ H \in Nat /\ E \in Nat
    <3> HIDE DEF v
    <3>1. B \in Nat /\ L \in Nat /\ H \in Nat /\ E \in Nat
      BY <1>7, <2>1
    <3>2. B <= L /\ L <= H /\ H <= E
      BY <2>1, BelowGrows
    <3> QED
      BY <3>1, <3>2
  <2>4. Lo(m, a) = L - B /\ Hi(m, a) = H - B
    BY <1>4, <2>2 DEF Lo, Hi
  <2>5. Succ(v) = {host.trans[p] : p \in L..H-1}
    BY <2>1 DEF GraphRight, Placed
  <2>6. v = m.beg + a
    BY <1>4
  <2> HIDE DEF v, B, L, H, E
  <2>7. \A i \in (L - B)..(H - B)-1 : i \in 0..size-1 /\ off + i \in L..H-1
    BY <2>2, <2>3
  <2>8. \A p \in L..H-1 : p - B \in (L - B)..(H - B)-1 /\ off + (p - B) = p
    BY <2>2, <2>3
  <2>9. \A i \in (L - B)..(H - B)-1 : m.nbrs[i] = host.trans[off + i]
    BY <1>4, <2>7
  <2>10. {host.trans[p] : p \in L..H-1} = {m.nbrs[i] : i \in (L - B)..(H - B)-1}
    BY <2>7, <2>8, <2>9
  <2>11. L - B \in Nat /\ H - B \in Nat
    BY <2>3
  <2> QED
    BY <2>4, <2>5, <2>6, <2>10, <2>11
<1>9. HasPart(d, m)
  BY <1>4, <1>5, <1>6, <1>8 DEF HasPart, n, beg
<1>10. Ready(m, 1)
  <2>1. Before(0) = {} /\ Bfs!Sphere(0) = {given.src}
    BY FirstSphere
  <2>2. 1 - 1 = 0
    OBVIOUS
  <2>3. \A a \in 0..n-1 : RightLevel(m.lvl[a], m.beg + a, 0)
    BY <1>6, <2>1 DEF RightLevel
  <2> QED
    BY <1>4, <2>1, <2>2, <2>3 DEF Ready
<1> QED
  BY <1>9, <1>10 DEF m

LEMMA DistributeKeeps == ASSUME BfsInv, Bfs!Distribute PROVE BfsInv'
<1>1. /\ given \in BfsJobs /\ host \in HostType /\ host.pc = "distribute" /\ GraphRight(host)
      /\ HostInv(host) /\ host.level = 1 /\ host.ref.nxt = {} /\ given' = given
      /\ host' = [host EXCEPT !.pc = "launch"]
      /\ dpu' = [d \in Bfs!Dpus |-> Bfs!Partition(d)]
  BY DEF Bfs!Distribute, BfsInv, HostInv
<1>2. /\ host' \in HostType /\ host'.ref = host.ref /\ host'.level = 1 /\ host'.offsets = host.offsets
      /\ host'.trans = host.trans /\ host'.pc = "launch"
  BY <1>1 DEF HostType
<1>3. GraphRight(host')
  BY <1>1, <1>2 DEF GraphRight, Placed
<1>4. HostInv(host')
  BY <1>1, <1>2, <1>3 DEF HostInv
<1>5. \A d \in Bfs!Dpus : dpu'[d] = Bfs!Partition(d)
  BY <1>1
<1>6. \A d \in Bfs!Dpus : HasPart(d, dpu'[d]) /\ Ready(dpu'[d], 1)
  BY <1>1, <1>5, PartitionFields
<1>7. DpusInv(host', dpu')
  BY <1>1, <1>2, <1>6 DEF DpusInv
<1> QED
  BY <1>1, <1>4, <1>7, InvStays

-----------------------------------------------------------------------------
(***************************************************************************)
(* The first loop: tasklet t takes the tiles t, t + nt, t + 2 nt, ...      *)
(***************************************************************************)
LEMMA DivUnique ==
  ASSUME NEW a \in Nat, NEW b \in Nat \ {0}, NEW q \in Nat, NEW r \in 0..b-1, a = q * b + r
  PROVE  a \div b = q /\ a % b = r
<1> DEFINE x == a \div b
           y == a % b
<1>1. x \in Nat /\ y \in 0..b-1 /\ a = b * x + y
  BY DivAndRest
<1> HIDE DEF x, y
<1>2. CASE x < q
  <2>1. (x + 1) * b <= q * b
    BY <1>1, <1>2, ProductOrder
  <2> QED
    BY <1>1, <2>1
<1>3. CASE q < x
  <2>1. (q + 1) * b <= x * b
    BY <1>1, <1>3, ProductOrder
  <2> QED
    BY <1>1, <2>1
<1>4. CASE x = q
  BY <1>1, <1>4 DEF x, y
<1> QED
  BY <1>1, <1>2, <1>3, <1>4

(* A round begins with a tile, and the next one follows nt tiles later.    *)
OnRound(at, t, nt, r) == /\ at \in Nat /\ (at \div Tile) * Tile = at /\ r + 1 \in Nat
                         /\ at + nt * Tile = RoundAt(t, nt, r + 1)

(* A round at "at" takes the tile q, and no other of those that are left.  *)
InTurn(at, t, nt, q) ==
  /\ q = at \div Tile => q % nt = t /\ ~(q * Tile < at)
  /\ q % nt = t => (q * Tile < at + nt * Tile <=> q * Tile < at \/ q = at \div Tile)

LEMMA TileTurn ==
  ASSUME Tile \in Nat \ {0}, NEW nt \in Nat \ {0}, NEW t \in 0..nt-1, NEW r \in Nat,
         NEW at, at = RoundAt(t, nt, r), NEW q \in Nat
  PROVE  InTurn(at, t, nt, q) /\ OnRound(at, t, nt, r)
<1> DEFINE s == t + r * nt
<1>1. s \in Nat /\ s % nt = t /\ s \div nt = r
  <2>1. s \in Nat /\ s = r * nt + t
    OBVIOUS
  <2> QED
    BY <2>1, DivUnique
<1>2. at = s * Tile /\ s + nt = t + (r + 1) * nt
  BY DEF RoundAt
<1> HIDE DEF s
<1>3. at \in Nat /\ at \div Tile = s
  <2>1. at \in Nat /\ 0 \in 0..Tile-1 /\ at = s * Tile + 0
    BY <1>1, <1>2
  <2> HIDE <1>2
  <2> QED
    BY <1>1, <2>1, DivUnique
<1>4. at + nt * Tile = (s + nt) * Tile
  BY <1>1, <1>2
<1>5. ASSUME q % nt = t PROVE q < s + nt <=> q < s \/ q = s
  <2> DEFINE j == q \div nt
  <2>1. j \in Nat /\ q = nt * j + t
    BY <1>5, DivAndRest
  <2>2. s = nt * r + t
    BY DEF s
  <2> HIDE DEF j, s
  <2>3. CASE j > r
    <3>1. (r + 1) * nt <= j * nt
      BY <2>1, <2>3, ProductOrder
    <3> QED
      BY <2>1, <2>2, <3>1
  <2>4. CASE j < r
    <3>1. (j + 1) * nt <= r * nt
      BY <2>1, <2>4, ProductOrder
    <3> QED
      BY <2>1, <2>2, <3>1
  <2>5. CASE j = r
    BY <2>1, <2>2, <2>5
  <2> QED
    BY <2>1, <2>3, <2>4, <2>5
<1>6. ASSUME NEW x \in Nat PROVE q * Tile < x * Tile <=> q < x
  <2>1. q * Tile < x * Tile => q < x
    BY FactorOrder
  <2>2. ASSUME q < x PROVE q * Tile < x * Tile
    <3>1. (q + 1) * Tile <= x * Tile
      BY <2>2, ProductOrder
    <3>2. (q + 1) * Tile = q * Tile + Tile /\ q * Tile \in Nat /\ x * Tile \in Nat
      OBVIOUS
    <3> QED
      BY <3>1, <3>2
  <2> QED
    BY <2>1, <2>2
<1>7. s + nt \in Nat
  BY <1>1
<1>8. q * Tile < at <=> q < s
  BY <1>1, <1>2, <1>6
<1>9. q * Tile < at + nt * Tile <=> q < s + nt
  BY <1>4, <1>6, <1>7
<1>10. (at \div Tile) * Tile = at
  BY <1>2, <1>3
<1>11. at + nt * Tile = RoundAt(t, nt, r + 1)
  BY <1>2, <1>4 DEF RoundAt
<1>12. q = s => q % nt = t /\ ~(q < s)
  BY <1>1
<1> QED
  BY <1>3, <1>5, <1>8, <1>9, <1>10, <1>11, <1>12 DEF s, InTurn, OnRound


LEMMA NextTile ==
  ASSUME Tile \in Nat \ {0}, NEW nt \in Nat \ {0}, NEW t \in 0..nt-1, NEW r \in Nat,
         NEW at, at = RoundAt(t, nt, r)
  PROVE  OnRound(at, t, nt, r)
<1>1. 0 \in Nat
  OBVIOUS
<1> QED
  BY <1>1, TileTurn

(* Where v's tile is.                                                      *)
LEMMA TileIs ==
  ASSUME given \in BfsJobs, NEW v \in Bfs!Verts
  PROVE  /\ v \div Tile \in Nat /\ (v \div Tile) * Tile \in Nat /\ (v \div Tile) * Tile <= v
         /\ v < (v \div Tile) * Tile + Tile
         /\ (v \div Tile) % given.nt \in Bfs!Tasklets
         /\ (v \div Tile) % given.nt <= v \div Tile
<1> DEFINE q == v \div Tile
<1>1. v \in Nat /\ Tile \in Nat \ {0} /\ given.nt \in Nat \ {0} /\ Bfs!Tasklets = 0..given.nt-1
  BY BfsTypes
<1>2. q \in Nat /\ q * Tile \in Nat /\ q * Tile <= v /\ v < q * Tile + Tile
  BY <1>1, DivAndRest
<1> HIDE DEF q
<1>3. /\ q % given.nt \in 0..given.nt-1 /\ (q \div given.nt) * given.nt \in Nat
      /\ q = given.nt * (q \div given.nt) + (q % given.nt) /\ q \div given.nt \in Nat
  BY <1>1, <1>2, DivAndRest
<1>4. q % given.nt <= q
  <2> DEFINE x == q \div given.nt
             y == q % given.nt
  <2>1. x \in Nat /\ y \in 0..given.nt-1 /\ q = given.nt * x + y /\ x * given.nt \in Nat
    BY <1>3
  <2> HIDE DEF x, y
  <2>2. y <= q
    BY SMTT(30), <1>1, <1>2, <2>1
  <2> QED
    BY <2>2 DEF y
<1> QED
  BY <1>1, <1>2, <1>3, <1>4 DEF q

(* A DPU's vertices are whole tiles.                                       *)
LEMMA OwnTile ==
  ASSUME given \in BfsJobs, NEW d \in Bfs!Dpus, NEW a \in 0..Bfs!NVertInDpu(d)-1
  PROVE  d * Bfs!Hint <= ((d * Bfs!Hint + a) \div Tile) * Tile
<1> DEFINE b == d * Bfs!Hint
           v == b + a
           q == v \div Tile
<1>1. PICK c \in Nat \ {0} : Bfs!Hint = c * Tile
  BY HintFits
<1>2. Tile \in Nat \ {0} /\ d \in Nat /\ v \in Bfs!Verts /\ a \in Nat /\ b \in Nat
  BY BfsTypes, PartVert, DpuPart
<1>3. q \in Nat /\ v < q * Tile + Tile /\ q * Tile \in Nat
  BY <1>2, TileIs
<1>4. b = (d * c) * Tile /\ d * c \in Nat
  BY <1>1, <1>2
<1> HIDE DEF q
<1>5. v = b + a
  OBVIOUS
<1> HIDE DEF b, v
<1>6. (d * c) * Tile < (q + 1) * Tile
  BY <1>2, <1>3, <1>4, <1>5
<1>7. d * c < q + 1
  BY <1>2, <1>3, <1>4, <1>6, FactorOrder
<1>8. (d * c) * Tile <= q * Tile
  BY <1>2, <1>3, <1>4, <1>7, ProductOrder
<1>9. b <= q * Tile
  BY <1>4, <1>8
<1> QED
  BY <1>9 DEF b, q, v

-----------------------------------------------------------------------------
(***************************************************************************)
(* A step of one DPU, and a DPU's memory with a tasklet's state put in it. *)
(***************************************************************************)
LEMMA BfsDpu ==
  ASSUME BfsInv, NEW d \in Bfs!Dpus, host.pc = "wait"
  PROVE  /\ given \in BfsJobs /\ HasPart(d, dpu[d]) /\ InLaunch(dpu[d], host.level)
         /\ host.level \in Nat \ {0} /\ host.level - 1 \in Nat /\ host.level - 1 + 1 = host.level
<1>1. host.level \in Nat \ {0}
  BY DEF BfsInv, HostInv, HostType
<1>2. host.level - 1 \in Nat /\ host.level - 1 + 1 = host.level
  BY <1>1
<1> QED
  BY <1>1, <1>2 DEF BfsInv, DpusInv

LEMMA OneDpuBfs ==
  ASSUME BfsInv, NEW d \in Bfs!Dpus, host.pc = "wait", NEW m, dpu' = [dpu EXCEPT ![d] = m],
         given' = given, host' = host, HasPart(d, m), InLaunch(m, host.level)
  PROVE  BfsInv'
<1>1. given \in BfsJobs /\ HostInv(host) /\ DpusInv(host, dpu)
  BY DEF BfsInv
<1>2. /\ dpu = [e \in Bfs!Dpus |-> dpu[e]]
      /\ \A e \in Bfs!Dpus : HasPart(e, dpu[e]) /\ InLaunch(dpu[e], host.level)
  BY <1>1 DEF DpusInv
<1>3. /\ dpu' = [e \in Bfs!Dpus |-> dpu'[e]]
      /\ \A e \in Bfs!Dpus : dpu'[e] = IF e = d THEN m ELSE dpu[e]
  BY <1>2
<1>4. \A e \in Bfs!Dpus : HasPart(e, dpu'[e]) /\ InLaunch(dpu'[e], host'.level)
  BY <1>2, <1>3
<1>5. DpusInv(host', dpu')
  BY <1>3, <1>4 DEF DpusInv
<1> QED
  BY <1>1, <1>5, InvStays

PartOf(m) == [n |-> m.n, beg |-> m.beg, level |-> m.level, off |-> m.off, ptrs |-> m.ptrs,
              nbrs |-> m.nbrs, lvl |-> m.lvl, vis |-> m.vis, cur |-> m.cur, nxt |-> m.nxt,
              lock |-> m.lock, tl |-> m.tl]

LEMMA PartIs ==
  ASSUME NEW d, NEW m, HasPart(d, m)
  PROVE  m = PartOf(m)
BY DEF HasPart, PartOf

LEMMA PartKept ==
  ASSUME NEW d, NEW m, HasPart(d, m), NEW p, p = PartOf(p),
         p.n = m.n, p.beg = m.beg, p.off = m.off, p.ptrs = m.ptrs, p.nbrs = m.nbrs,
         p.tl \in [Bfs!Tasklets -> BfsTlType], p.lvl \in [0..m.n-1 -> Nat]
  PROVE  HasPart(d, p)
<1>1. /\ DOMAIN p = {"n", "beg", "level", "off", "ptrs", "nbrs", "lvl", "vis", "cur", "nxt",
                     "lock", "tl"}
      /\ p = [x \in DOMAIN p |-> p[x]]
  BY DEF PartOf
<1>2. \A a : Lo(p, a) = Lo(m, a) /\ Hi(p, a) = Hi(m, a)
  BY DEF Lo, Hi
<1> QED
  BY <1>1, <1>2 DEF HasPart

(* The memory p with k for tasklet t.                                      *)
WithTl(p, t, k) == [p EXCEPT !.tl[t] = k]

LEMMA PutTl ==
  ASSUME NEW p, p = PartOf(p), NEW t \in Bfs!Tasklets, NEW k \in BfsTlType,
         p.tl \in [Bfs!Tasklets -> BfsTlType]
  PROVE  /\ WithTl(p, t, k) = PartOf(WithTl(p, t, k))
         /\ WithTl(p, t, k).n = p.n /\ WithTl(p, t, k).beg = p.beg /\ WithTl(p, t, k).level = p.level
         /\ WithTl(p, t, k).off = p.off /\ WithTl(p, t, k).ptrs = p.ptrs
         /\ WithTl(p, t, k).nbrs = p.nbrs /\ WithTl(p, t, k).lvl = p.lvl
         /\ WithTl(p, t, k).vis = p.vis /\ WithTl(p, t, k).cur = p.cur
         /\ WithTl(p, t, k).nxt = p.nxt /\ WithTl(p, t, k).lock = p.lock
         /\ WithTl(p, t, k).tl \in [Bfs!Tasklets -> BfsTlType]
         /\ \A u \in Bfs!Tasklets : WithTl(p, t, k).tl[u] = IF u = t THEN k ELSE p.tl[u]
<1> DEFINE f == [p.tl EXCEPT ![t] = k]
<1>1. f \in [Bfs!Tasklets -> BfsTlType] /\ \A u \in Bfs!Tasklets : f[u] = IF u = t THEN k ELSE p.tl[u]
  BY FunPut
<1>2. WithTl(p, t, k) = [p EXCEPT !.tl = f]
  BY DEF WithTl
<1> HIDE DEF f
<1>3. WithTl(p, t, k) = [n |-> p.n, beg |-> p.beg, level |-> p.level, off |-> p.off, ptrs |-> p.ptrs,
              nbrs |-> p.nbrs, lvl |-> p.lvl, vis |-> p.vis, cur |-> p.cur, nxt |-> p.nxt,
              lock |-> p.lock, tl |-> f]
  BY <1>2 DEF PartOf
<1> QED
  BY <1>1, <1>3 DEF PartOf

LEMMA PutIs ==
  ASSUME NEW d, NEW t, NEW k, NEW p, Bfs!Put(d, t, k, p)
  PROVE  dpu' = [dpu EXCEPT ![d] = WithTl(p, t, k)] /\ given' = given /\ host' = host
BY DEF Bfs!Put, WithTl

(* So much is to be shown of a tasklet's step.                             *)
LEMMA PutKeeps ==
  ASSUME BfsInv, NEW d \in Bfs!Dpus, host.pc = "wait", NEW t \in Bfs!Tasklets, NEW k \in BfsTlType,
         NEW p, p = PartOf(p), Bfs!Put(d, t, k, p),
         p.n = dpu[d].n, p.beg = dpu[d].beg, p.off = dpu[d].off, p.ptrs = dpu[d].ptrs,
         p.nbrs = dpu[d].nbrs, p.tl = dpu[d].tl, p.lvl \in [0..p.n-1 -> Nat],
         InLaunch(WithTl(p, t, k), host.level)
  PROVE  BfsInv'
<1> DEFINE m == dpu[d]
           w == WithTl(p, t, k)
<1>1. HasPart(d, m)
  BY BfsDpu
<1>2. p.tl \in [Bfs!Tasklets -> BfsTlType]
  BY <1>1 DEF HasPart
<1>3. /\ w = PartOf(w) /\ w.n = p.n /\ w.beg = p.beg /\ w.off = p.off /\ w.ptrs = p.ptrs
      /\ w.nbrs = p.nbrs /\ w.lvl = p.lvl /\ w.tl \in [Bfs!Tasklets -> BfsTlType]
  BY <1>2, PutTl
<1> HIDE DEF w
<1>4. w.lvl \in [0..m.n-1 -> Nat]
  BY <1>3
<1>5. HasPart(d, w)
  BY <1>1, <1>3, <1>4, PartKept
<1>6. dpu' = [dpu EXCEPT ![d] = w] /\ given' = given /\ host' = host /\ InLaunch(w, host.level)
  BY PutIs DEF w
<1> QED
  BY <1>5, <1>6, OneDpuBfs

LEMMA TlFields ==
  ASSUME NEW d, NEW m, HasPart(d, m), NEW t \in Bfs!Tasklets
  PROVE  /\ m.tl[t] \in BfsTlType /\ m.tl[t].at \in Nat /\ m.tl[t].i \in Nat
         /\ m.tl[t].pc \in {"off", "tiles", "barrier", "nodes", "edges", "lock", "read", "write"}
         /\ m.tl[t].tmp \subseteq Bfs!Verts
         /\ m.tl \in [Bfs!Tasklets -> BfsTlType] /\ m.lvl \in [0..m.n-1 -> Nat]
         /\ m.n = Bfs!NVertInDpu(d) /\ m.beg = d * Bfs!Hint
BY DEF HasPart, BfsTlType

LEMMA LaunchStartsBfs ==
  ASSUME given \in BfsJobs, NEW d \in Bfs!Dpus, NEW m, HasPart(d, m), NEW l \in Nat \ {0}, Ready(m, l)
  PROVE  LET w == [m EXCEPT !.tl = [t \in Bfs!Tasklets |->
                     [Bfs!Idle EXCEPT !.pc = "tiles", !.at = t * Tile]]]
         IN  HasPart(d, w) /\ InLaunch(w, l)
<1> DEFINE f == [t \in Bfs!Tasklets |-> [Bfs!Idle EXCEPT !.pc = "tiles", !.at = t * Tile]]
           w == [m EXCEPT !.tl = f]
<1> SUFFICES HasPart(d, w) /\ InLaunch(w, l)
  OBVIOUS
<1>1. Tile \in Nat \ {0} /\ given.nt \in Nat \ {0} /\ Bfs!Tasklets = 0..given.nt-1
  BY BfsTypes
<1>2. \A t \in Bfs!Tasklets : f[t] = [pc |-> "tiles", at |-> t * Tile, i |-> 0, tmp |-> {}]
  BY DEF Bfs!Idle
<1>3. DOMAIN f = Bfs!Tasklets /\ f = [t \in Bfs!Tasklets |-> f[t]]
  OBVIOUS
<1> HIDE DEF f
<1>4. f \in [Bfs!Tasklets -> BfsTlType]
  <2>1. ASSUME NEW t \in Bfs!Tasklets PROVE f[t] \in BfsTlType
    <3>1. t * Tile \in Nat
      BY <1>1
    <3> DEFINE x == t * Tile
    <3>2. f[t] = [pc |-> "tiles", at |-> x, i |-> 0, tmp |-> {}]
      BY <1>2
    <3> HIDE DEF x
    <3>3. x \in Nat
      BY <3>1 DEF x
    <3> QED
      BY <3>2, <3>3 DEF BfsTlType
  <2> QED
    BY <1>3, <2>1
<1>5. /\ w = PartOf(w) /\ w.n = m.n /\ w.beg = m.beg /\ w.level = m.level /\ w.off = m.off
      /\ w.ptrs = m.ptrs /\ w.nbrs = m.nbrs /\ w.lvl = m.lvl /\ w.vis = m.vis /\ w.nxt = m.nxt /\ w.tl = f
  <2>1. m = PartOf(m)
    BY PartIs
  <2>2. w = [n |-> m.n, beg |-> m.beg, level |-> m.level, off |-> m.off, ptrs |-> m.ptrs,
             nbrs |-> m.nbrs, lvl |-> m.lvl, vis |-> m.vis, cur |-> m.cur, nxt |-> m.nxt,
             lock |-> m.lock, tl |-> f]
    BY <2>1 DEF PartOf
  <2> QED
    BY <2>2 DEF PartOf
<1> HIDE DEF w
<1>6. HasPart(d, w)
  <2>1. w.lvl \in [0..m.n-1 -> Nat]
    BY <1>5 DEF HasPart
  <2> QED
    BY <1>4, <1>5, <2>1, PartKept
<1>7. CASE m.n = 0
  <2>1. w.n = 0 /\ w.nxt = {}
    BY <1>5, <1>7 DEF Ready
  <2>2. ASSUME NEW t \in Bfs!Tasklets PROVE w.tl[t].pc = "tiles"
    <3>1. w.tl[t] = [pc |-> "tiles", at |-> t * Tile, i |-> 0, tmp |-> {}]
      BY <1>2, <1>5
    <3> QED
      BY <3>1
  <2>3. Empty(w)
    BY <2>1, <2>2 DEF Empty
  <2> QED
    BY <1>6, <2>3 DEF InLaunch
<1>8. CASE m.n # 0
  <2>1. ASSUME NEW t \in Bfs!Tasklets PROVE w.tl[t].pc = "tiles" /\ w.tl[t].at = t * Tile
    <3>1. w.tl[t] = [pc |-> "tiles", at |-> t * Tile, i |-> 0, tmp |-> {}]
      BY <1>2, <1>5
    <3> QED
      BY <3>1
  <2>2. ASSUME NEW v \in Bfs!Verts PROVE ~Taken(w, v)
    <3> DEFINE q == v \div Tile
               t == q % given.nt
    <3>1. t \in Bfs!Tasklets /\ t <= q /\ q \in Nat
      BY TileIs
    <3>2. w.tl[t].pc = "tiles" /\ w.tl[t].at = t * Tile
      BY <2>1, <3>1
    <3> HIDE DEF t, q
    <3>3. t * Tile <= q * Tile /\ t * Tile \in Nat /\ q * Tile \in Nat
      BY <1>1, <3>1, ProductOrder
    <3>4. ~(q * Tile < t * Tile)
      BY <3>3
    <3> QED
      BY <3>2, <3>4 DEF Taken, t, q
  <2>3. Bfs!Sphere(l - 1) \subseteq Bfs!Verts
    BY NextBefore
  <2>4. \A a \in 0..w.n-1 : w.beg + a \in Bfs!Verts
    BY <1>6, PartVert DEF HasPart
  <2>5. ASSUME NEW t \in Bfs!Tasklets PROVE \E r \in Nat : w.tl[t].at = RoundAt(t, given.nt, r)
    <3>1. t * Tile = RoundAt(t, given.nt, 0)
      BY <1>1 DEF RoundAt
    <3> QED
      BY <2>1, <3>1
  <2>6. w.nxt = {v \in Bfs!Sphere(l - 1) : ~Taken(w, v)}
    BY <1>5, <1>8, <2>2, <2>3 DEF Ready
  <2>7. w.vis = Before(l - 1) \union {v \in Bfs!Sphere(l - 1) : Taken(w, v)}
    BY <1>5, <1>8, <2>2, <2>3 DEF Ready
  <2>8. \A a \in 0..w.n-1 : ~Taken(w, w.beg + a) /\ RightLevel(w.lvl[a], w.beg + a, l - 1)
    BY <1>5, <1>8, <2>2, <2>4 DEF Ready
  <2>9. w.n # 0 /\ w.level = l
    BY <1>5, <1>8 DEF Ready
  <2>10. Tiling(w, l)
    BY <2>1, <2>5, <2>6, <2>7, <2>8, <2>9 DEF Tiling
  <2> QED
    BY <1>6, <2>10 DEF InLaunch
<1> QED
  BY <1>7, <1>8

LEMMA LaunchKeepsBfs == ASSUME BfsInv, Bfs!Launch PROVE BfsInv'
<1> DEFINE w(d) == [dpu[d] EXCEPT !.tl = [t \in Bfs!Tasklets |->
                     [Bfs!Idle EXCEPT !.pc = "tiles", !.at = t * Tile]]]
<1>1. /\ given \in BfsJobs /\ host \in HostType /\ host.pc = "launch" /\ GraphRight(host)
      /\ HostInv(host) /\ host.level \in Nat \ {0} /\ host.ref.nxt = {} /\ given' = given
      /\ host' = [host EXCEPT !.pc = "wait"]
      /\ \A d \in Bfs!Dpus : HasPart(d, dpu[d]) /\ Ready(dpu[d], host.level)
  BY HostFields DEF Bfs!Launch, BfsInv, HostInv, DpusInv
<1>2. dpu' = [d \in Bfs!Dpus |-> w(d)]
  BY DEF Bfs!Launch
<1>3. ASSUME NEW d \in Bfs!Dpus PROVE HasPart(d, w(d)) /\ InLaunch(w(d), host.level)
  BY <1>1, LaunchStartsBfs
<1> HIDE DEF w
<1>4. /\ host' \in HostType /\ host'.ref = host.ref /\ host'.level = host.level
      /\ host'.offsets = host.offsets /\ host'.trans = host.trans /\ host'.pc = "wait"
  BY <1>1 DEF HostType
<1>5. GraphRight(host')
  BY <1>1, <1>4 DEF GraphRight, Placed
<1>6. HostInv(host')
  BY <1>1, <1>4, <1>5 DEF HostInv
<1>7. DpusInv(host', dpu')
  BY <1>2, <1>3, <1>4 DEF DpusInv
<1> QED
  BY <1>1, <1>6, <1>7, InvStays

(* The next tile of the first loop, or its end.                            *)
LEMMA TakenAfter ==
  ASSUME given \in BfsJobs, NEW m, NEW t \in Bfs!Tasklets, NEW r \in Nat,
         m.tl[t].pc = "tiles", m.tl[t].at = RoundAt(t, given.nt, r),
         NEW w, w.tl[t].pc = "tiles", w.tl[t].at = m.tl[t].at + given.nt * Tile,
         \A u \in Bfs!Tasklets : u # t => w.tl[u] = m.tl[u], NEW v \in Bfs!Verts
  PROVE  /\ Taken(w, v) <=> Taken(m, v) \/ v \div Tile = m.tl[t].at \div Tile
         /\ v \div Tile = m.tl[t].at \div Tile => ~Taken(m, v)
<1> DEFINE q == v \div Tile
           u == q % given.nt
           at == m.tl[t].at
<1>1. /\ Tile \in Nat \ {0} /\ given.nt \in Nat \ {0} /\ t \in 0..given.nt-1 /\ q \in Nat
      /\ u \in Bfs!Tasklets
  BY BfsTypes, TileIs
<1>2. at = RoundAt(t, given.nt, r)
  OBVIOUS
<1>3. /\ Taken(m, v) <=> m.tl[u].pc = "barrier" \/ q * Tile < m.tl[u].at
      /\ Taken(w, v) <=> w.tl[u].pc = "barrier" \/ q * Tile < w.tl[u].at
  BY DEF Taken
<1> HIDE DEF q, at
<1>4. /\ q = at \div Tile => q % given.nt = t /\ ~(q * Tile < at)
      /\ q % given.nt = t => (q * Tile < at + given.nt * Tile <=> q * Tile < at \/ q = at \div Tile)
  <2> DEFINE nt == given.nt
  <2>1. /\ Tile \in Nat \ {0} /\ nt \in Nat \ {0} /\ t \in 0..nt-1 /\ r \in Nat /\ q \in Nat
        /\ at = RoundAt(t, nt, r)
    BY <1>1, <1>2
  <2> HIDE DEF nt, u
  <2>2. /\ q = at \div Tile => q % nt = t /\ ~(q * Tile < at)
        /\ q % nt = t => (q * Tile < at + nt * Tile <=> q * Tile < at \/ q = at \div Tile)
    <3>1. InTurn(at, t, nt, q)
      BY <2>1, TileTurn
    <3> QED
      BY <3>1 DEF InTurn
  <2> QED
    BY <2>2 DEF nt
<1>5. CASE u = t
  <2>1. Taken(m, v) <=> q * Tile < at
    BY <1>3, <1>5 DEF at
  <2>2. Taken(w, v) <=> q * Tile < at + given.nt * Tile
    BY <1>3, <1>5 DEF at
  <2> QED
    BY <1>4, <1>5, <2>1, <2>2 DEF q, at
<1>6. CASE u # t
  <2>1. Taken(w, v) <=> Taken(m, v)
    BY <1>1, <1>3, <1>6
  <2>2. q # at \div Tile
    BY <1>4, <1>6
  <2> QED
    BY <2>1, <2>2 DEF q, at
<1> QED
  BY <1>5, <1>6

(* The memory w is m after tasklet t has taken over a tile, and moved on.  *)
TookTile(m, w, t, tile, new, own) ==
  /\ m.tl[t].pc = "tiles" /\ m.tl[t].at < given.n
  /\ w.tl[t].pc = "tiles" /\ w.tl[t].at = m.tl[t].at + given.nt * Tile
  /\ \A u \in Bfs!Tasklets : u # t => w.tl[u] = m.tl[u]
  /\ tile = {v \in Bfs!Verts : v \div Tile = m.tl[t].at \div Tile}
  /\ new = m.nxt \cap tile
  /\ own \in BOOLEAN
  /\ own <=> m.beg <= m.tl[t].at /\ m.tl[t].at < m.beg + m.n
  /\ w.n = m.n /\ w.beg = m.beg /\ w.level = m.level
  /\ w.vis = m.vis \union new /\ w.nxt = m.nxt \ tile
  /\ w.cur = IF own THEN (m.cur \ {v - m.beg : v \in tile}) \union {v - m.beg : v \in new}
             ELSE m.cur
  /\ w.lvl = [v \in 0..m.n-1 |-> IF own /\ v + m.beg \in new THEN m.level ELSE m.lvl[v]]

LEMMA TileTaken ==
  ASSUME given \in BfsJobs, NEW d \in Bfs!Dpus, NEW m, HasPart(d, m), NEW l \in Nat \ {0}, Tiling(m, l),
         NEW t \in Bfs!Tasklets, NEW w, NEW tile, NEW new, NEW own, TookTile(m, w, t, tile, new, own)
  PROVE  Tiling(w, l)
<1> USE DEF TookTile
<1> DEFINE S == Bfs!Sphere(l - 1)
           at == m.tl[t].at
<1>1. /\ l - 1 \in Nat /\ l - 1 + 1 = l /\ S \subseteq Bfs!Verts
      /\ Tile \in Nat \ {0} /\ given.nt \in Nat \ {0} /\ t \in 0..given.nt-1
      /\ Bfs!Tasklets = 0..given.nt-1
  BY NextBefore, BfsTypes
<1>2. /\ m.n # 0 /\ m.level = l /\ m.nxt = {v \in S : ~Taken(m, v)}
      /\ m.vis = Before(l - 1) \union {v \in S : Taken(m, v)}
  BY DEF Tiling
<1>3. PICK r \in Nat : at = RoundAt(t, given.nt, r)
  BY DEF Tiling
<1>4. /\ at + given.nt * Tile = RoundAt(t, given.nt, r + 1) /\ r + 1 \in Nat /\ at \in Nat
      /\ (at \div Tile) * Tile = at
  <2>1. OnRound(at, t, given.nt, r)
    BY <1>1, <1>3, NextTile
  <2> QED
    BY <2>1 DEF OnRound
<1>5. \A v \in Bfs!Verts : /\ Taken(w, v) <=> Taken(m, v) \/ v \in tile
                           /\ v \in tile => ~Taken(m, v)
  BY <1>3, TakenAfter
<1>6. w.nxt = {v \in S : ~Taken(w, v)}
  BY <1>1, <1>2, <1>5
<1>7. w.vis = Before(l - 1) \union {v \in S : Taken(w, v)}
  BY <1>1, <1>2, <1>5
<1>8. ASSUME NEW u \in Bfs!Tasklets
      PROVE  /\ w.tl[u].pc \in {"tiles", "barrier"}
             /\ \E x \in Nat : w.tl[u].at = RoundAt(u, given.nt, x)
             /\ w.tl[u].pc = "barrier" => w.tl[u].at >= given.n
  BY <1>4 DEF Tiling
<1>9. new = {v \in S : ~Taken(m, v) /\ v \in tile}
  BY <1>2
<1>10. ASSUME NEW a \in 0..m.n-1
       PROVE  /\ m.beg + a \in Bfs!Verts /\ m.beg \in Nat /\ a \in Nat /\ m.n \in Nat
              /\ (m.beg + a \in tile => own)
  <2>1. /\ m.beg = d * Bfs!Hint /\ m.n = Bfs!NVertInDpu(d)
        /\ d * Bfs!Hint + a \in Bfs!Verts /\ a \in Nat /\ d * Bfs!Hint \in Nat
        /\ d * Bfs!Hint <= ((d * Bfs!Hint + a) \div Tile) * Tile
        /\ Bfs!NVertInDpu(d) \in Nat
    BY TlFields, PartVert, DpuPart, OwnTile
  <2>2. m.beg + a \in Bfs!Verts /\ a \in Nat /\ m.beg \in Nat /\ m.n \in Nat
    BY <2>1
  <2>3. ASSUME m.beg + a \in tile PROVE own
    <3> DEFINE q == (m.beg + a) \div Tile
    <3>1. q = at \div Tile
      BY <2>3
    <3>2. m.beg <= q * Tile
      BY <2>1
    <3>3. q * Tile <= m.beg + a
      BY <2>2, TileIs
    <3>4. q * Tile = at
      BY <1>4, <3>1
    <3> HIDE DEF q, at
    <3>5. m.beg <= at /\ at < m.beg + m.n
      BY <1>4, <2>2, <3>2, <3>3, <3>4
    <3> QED
      BY <3>5 DEF at
  <2> QED
    BY <2>2, <2>3
<1>11. ASSUME NEW a \in 0..m.n-1
       PROVE  /\ Taken(w, w.beg + a) => a \in w.cur <=> w.beg + a \in S
              /\ RightLevel(w.lvl[a], w.beg + a, IF Taken(w, w.beg + a) THEN l ELSE l - 1)
  <2> DEFINE v == m.beg + a
  <2>1. v \in Bfs!Verts /\ m.beg \in Nat /\ a \in Nat /\ a + m.beg = v /\ (v \in tile => own)
    BY <1>10
  <2>2. /\ Taken(m, v) => a \in m.cur <=> v \in S
        /\ RightLevel(m.lvl[a], v, IF Taken(m, v) THEN l ELSE l - 1)
    BY DEF Tiling
  <2>3. /\ Taken(w, v) <=> Taken(m, v) \/ v \in tile
        /\ v \in tile => ~Taken(m, v)
    BY <1>5, <2>1
  <2>4. w.lvl[a] = IF own /\ v \in new THEN m.level ELSE m.lvl[a]
    BY <2>1
  <2>5. v \in new <=> v \in S /\ v \in tile
    <3> HIDE DEF v, S
    <3>1. v \in new <=> (v \in S /\ ~Taken(m, v) /\ v \in tile)
      BY <1>9
    <3> QED
      BY <2>3, <3>1
  <2>6. ASSUME NEW x \in Bfs!Verts PROVE a = x - m.beg <=> x = v
    <3> HIDE DEF v
    <3>1. x \in Nat /\ v \in Nat
      BY <2>1, BfsTypes
    <3> QED
      BY <2>1, <3>1
  <2>7. tile \subseteq Bfs!Verts /\ new \subseteq Bfs!Verts
    OBVIOUS
  <2> HIDE DEF v
  <2>8. /\ a \in {x - m.beg : x \in tile} <=> v \in tile
        /\ a \in {x - m.beg : x \in new} <=> v \in new
    BY <2>6, <2>7
  <2>9. a \in w.cur <=> IF v \in tile THEN v \in new ELSE a \in m.cur
    BY <2>1, <2>5, <2>8
  <2>10. Taken(w, v) => a \in w.cur <=> v \in S
    BY <2>2, <2>3, <2>5, <2>9
  <2>11. CASE v \in tile
    <3>1. RightLevel(m.lvl[a], v, l - 1) /\ own /\ Taken(w, v)
      BY <2>1, <2>2, <2>3, <2>11
    <3>2. RightLevel(w.lvl[a], v, l)
      BY SMTT(30), <1>1, <1>2, <2>1, <2>4, <2>5, <2>11, <3>1, NextLevel
    <3> QED
      BY <2>10, <3>1, <3>2 DEF v
  <2>12. CASE v \notin tile
    BY <2>2, <2>3, <2>4, <2>5, <2>10, <2>12 DEF v
  <2> QED
    BY <2>11, <2>12
<1> HIDE DEF S
<1>12. w.n # 0 /\ w.level = l
  BY <1>2
<1> QED
  BY <1>6, <1>7, <1>8, <1>11, <1>12 DEF Tiling, S

(* The memory m with a tile taken over.                                    *)
WithTile(m, a, b, c, f) == [m EXCEPT !.vis = a, !.nxt = b, !.cur = c, !.lvl = f]

LEMMA PartExcept ==
  ASSUME NEW m, m = PartOf(m), NEW a, NEW b, NEW c, NEW f, NEW p, p = WithTile(m, a, b, c, f)
  PROVE  /\ p = PartOf(p) /\ p.n = m.n /\ p.beg = m.beg /\ p.level = m.level /\ p.off = m.off
         /\ p.ptrs = m.ptrs /\ p.nbrs = m.nbrs /\ p.lock = m.lock /\ p.tl = m.tl
         /\ p.vis = a /\ p.nxt = b /\ p.cur = c /\ p.lvl = f
<1> USE DEF WithTile
<1>1. DOMAIN m = {"n", "beg", "level", "off", "ptrs", "nbrs", "lvl", "vis", "cur", "nxt",
                  "lock", "tl"}
  BY DEF PartOf
<1>2. DOMAIN p = DOMAIN m /\ p = [x \in DOMAIN p |-> p[x]]
  OBVIOUS
<1>3. p = PartOf(p)
  BY <1>1, <1>2 DEF PartOf
<1>4. /\ p.n = m.n /\ p.beg = m.beg /\ p.level = m.level /\ p.off = m.off
      /\ p.ptrs = m.ptrs /\ p.nbrs = m.nbrs /\ p.lock = m.lock /\ p.tl = m.tl
  BY <1>1
<1>5. p.vis = a /\ p.nxt = b /\ p.cur = c /\ p.lvl = f
  BY <1>1
<1> QED
  BY <1>3, <1>4, <1>5

LEMMA ToBarrier ==
  ASSUME given \in BfsJobs, NEW d \in Bfs!Dpus, NEW m, HasPart(d, m), NEW l \in Nat \ {0}, Tiling(m, l),
         NEW t \in Bfs!Tasklets, m.tl[t].at >= given.n,
         NEW w, w.tl[t].pc = "barrier", w.tl[t].at = m.tl[t].at,
         \A u \in Bfs!Tasklets : u # t => w.tl[u] = m.tl[u],
         w.n = m.n, w.beg = m.beg, w.level = m.level,
         w.vis = m.vis, w.nxt = m.nxt, w.cur = m.cur, w.lvl = m.lvl
  PROVE  Tiling(w, l)
<1>1. l - 1 \in Nat /\ Bfs!Sphere(l - 1) \subseteq Bfs!Verts
  BY NextBefore
<1>2. ASSUME NEW v \in Bfs!Verts PROVE Taken(w, v) <=> Taken(m, v)
  <2> DEFINE q == v \div Tile
             u == q % given.nt
  <2>1. u \in Bfs!Tasklets /\ q * Tile \in Nat /\ q * Tile <= v /\ v \in Nat /\ v < given.n /\ given.n \in Nat
    BY TileIs, BfsTypes
  <2>2. /\ Taken(m, v) <=> m.tl[u].pc = "barrier" \/ q * Tile < m.tl[u].at
        /\ Taken(w, v) <=> w.tl[u].pc = "barrier" \/ q * Tile < w.tl[u].at
    BY DEF Taken
  <2> HIDE DEF q, u
  <2>3. CASE u = t
    <3>1. m.tl[t].at \in Nat
      BY TlFields
    <3>2. q * Tile < m.tl[t].at
      BY <2>1, <3>1
    <3> QED
      BY <2>2, <2>3, <3>2
  <2>4. CASE u # t
    BY <2>1, <2>2, <2>4
  <2> QED
    BY <2>3, <2>4
<1>3. \A a \in 0..m.n-1 : m.beg + a \in Bfs!Verts
  BY TlFields, PartVert
<1>4. ASSUME NEW u \in Bfs!Tasklets
      PROVE  /\ w.tl[u].pc \in {"tiles", "barrier"}
             /\ \E r \in Nat : w.tl[u].at = RoundAt(u, given.nt, r)
             /\ w.tl[u].pc = "barrier" => w.tl[u].at >= given.n
  BY DEF Tiling
<1>5. /\ w.nxt = {v \in Bfs!Sphere(l - 1) : ~Taken(w, v)}
      /\ w.vis = Before(l - 1) \union {v \in Bfs!Sphere(l - 1) : Taken(w, v)}
  BY <1>1, <1>2 DEF Tiling
<1>6. \A a \in 0..m.n-1 : Taken(w, w.beg + a) <=> Taken(m, m.beg + a)
  BY <1>2, <1>3
<1>7. ASSUME NEW a \in 0..w.n-1
      PROVE  /\ Taken(w, w.beg + a) => a \in w.cur <=> w.beg + a \in Bfs!Sphere(l - 1)
             /\ RightLevel(w.lvl[a], w.beg + a, IF Taken(w, w.beg + a) THEN l ELSE l - 1)
  BY <1>6 DEF Tiling
<1>8. w.n # 0 /\ w.level = l
  BY DEF Tiling
<1> QED
  BY <1>4, <1>5, <1>7, <1>8 DEF Tiling

LEMMA TakeTileKeeps ==
  ASSUME BfsInv, NEW d \in Bfs!Dpus, NEW t \in Bfs!Tasklets, Bfs!TakeTile(d, t)
  PROVE  BfsInv'
<1> DEFINE m == dpu[d]
           k == m.tl[t]
           l == host.level
<1>1. host.pc = "wait" /\ k.pc = "tiles"
  BY DEF Bfs!TakeTile, Bfs!At
<1>2. /\ given \in BfsJobs /\ HasPart(d, m) /\ InLaunch(m, l) /\ l \in Nat \ {0}
      /\ m = PartOf(m)
  BY <1>1, BfsDpu, PartIs
<1>3. /\ k \in BfsTlType /\ k.at \in Nat /\ m.tl \in [Bfs!Tasklets -> BfsTlType]
      /\ m.lvl \in [0..m.n-1 -> Nat] /\ k.tmp \subseteq Bfs!Verts
      /\ k.i \in Nat
  BY <1>2, TlFields
<1>4. Empty(m) \/ Tiling(m, l)
  BY <1>1, <1>2 DEF InLaunch, Visiting, VisitTl
<1>5. CASE m.n = 0
  <2>1. Bfs!Put(d, t, Bfs!Idle, m)
    BY <1>5 DEF Bfs!TakeTile
  <2> HIDE DEF l, k
  <2>2. Bfs!Idle \in BfsTlType /\ Bfs!Idle.pc = "off"
    BY DEF Bfs!Idle, BfsTlType
  <2>3. Empty(m)
    BY <1>4, <1>5 DEF Tiling
  <2>4. Empty(WithTl(m, t, Bfs!Idle))
    <3> DEFINE w == WithTl(m, t, Bfs!Idle)
    <3>1. w.n = m.n /\ w.nxt = m.nxt
      BY <1>2, <1>3, <2>2, PutTl
    <3>2. \A u \in Bfs!Tasklets : w.tl[u] = IF u = t THEN Bfs!Idle ELSE m.tl[u]
      BY <1>2, <1>3, <2>2, PutTl
    <3> HIDE DEF w, m
    <3>3. Empty(w)
      BY <2>2, <2>3, <3>1, <3>2 DEF Empty
    <3> QED
      BY <3>3 DEF w
  <2>5. InLaunch(WithTl(m, t, Bfs!Idle), l)
    BY <2>4 DEF InLaunch
  <2> QED
    BY <1>1, <1>2, <1>3, <2>1, <2>2, <2>5, PutKeeps DEF l
<1>6. CASE m.n # 0 /\ k.at >= given.n
  <2> DEFINE x == [k EXCEPT !.pc = "barrier"]
             w == WithTl(m, t, x)
  <2>1. Bfs!Put(d, t, x, m)
    BY <1>6 DEF Bfs!TakeTile
  <2>2. x \in BfsTlType /\ x.pc = "barrier" /\ x.at = k.at
    BY <1>3 DEF BfsTlType
  <2> HIDE DEF x
  <2>3. Tiling(m, l)
    BY <1>4, <1>6 DEF Empty
  <2>4. /\ w.n = m.n /\ w.beg = m.beg /\ w.level = m.level
        /\ w.vis = m.vis /\ w.nxt = m.nxt /\ w.cur = m.cur /\ w.lvl = m.lvl
        /\ \A u \in Bfs!Tasklets : w.tl[u] = IF u = t THEN x ELSE m.tl[u]
    BY <1>2, <1>3, <2>2, PutTl
  <2> HIDE DEF w, m
  <2>5. /\ w.tl[t].pc = "barrier" /\ w.tl[t].at = m.tl[t].at /\ m.tl[t].at >= given.n
        /\ \A u \in Bfs!Tasklets : u # t => w.tl[u] = m.tl[u]
    BY <1>6, <2>2, <2>4
  <2> HIDE DEF k, l
  <2>6. Tiling(w, l)
    BY <1>2, <2>3, <2>4, <2>5, ToBarrier
  <2>7. InLaunch(w, l)
    BY <2>6 DEF InLaunch
  <2> QED
    BY <1>1, <1>2, <1>3, <2>1, <2>2, <2>7, PutKeeps DEF l, w, m
<1>7. CASE m.n # 0 /\ ~(k.at >= given.n)
  <2> DEFINE tile == {v \in Bfs!Verts : v \div Tile = k.at \div Tile}
             new == m.nxt \cap tile
             own == m.beg <= k.at /\ k.at < m.beg + m.n
             x == [k EXCEPT !.at = k.at + given.nt * Tile]
             c == IF own THEN (m.cur \ {v - m.beg : v \in tile}) \union {v - m.beg : v \in new}
                  ELSE m.cur
             f == [v \in 0..m.n-1 |-> IF own /\ v + m.beg \in new THEN m.level ELSE m.lvl[v]]
             p == [m EXCEPT !.vis = m.vis \union new, !.nxt = m.nxt \ tile, !.cur = c, !.lvl = f]
             w == WithTl(p, t, x)
  <2>1. Bfs!Put(d, t, x, p)
    <3>1. DOMAIN m.lvl = 0..m.n-1
      BY <1>3
    <3> QED
      BY <1>7, <3>1 DEF Bfs!TakeTile
  <2>2. x \in BfsTlType /\ x.pc = "tiles" /\ x.at = k.at + given.nt * Tile
    <3>1. given.nt \in Nat /\ Tile \in Nat
      BY <1>2, BfsTypes
    <3>2. k.at + given.nt * Tile \in Nat
      BY <1>3, <3>1
    <3> QED
      BY <1>1, <1>3, <3>2 DEF BfsTlType
  <2>3. Tiling(m, l)
    BY <1>4, <1>7 DEF Empty
  <2> HIDE DEF x, c, f
  <2>4. /\ p = PartOf(p) /\ p.n = m.n /\ p.beg = m.beg /\ p.level = m.level /\ p.off = m.off
        /\ p.ptrs = m.ptrs /\ p.nbrs = m.nbrs /\ p.lock = m.lock /\ p.tl = m.tl
        /\ p.vis = m.vis \union new /\ p.nxt = m.nxt \ tile /\ p.cur = c /\ p.lvl = f
    <3>1. p = WithTile(m, m.vis \union new, m.nxt \ tile, c, f)
      BY DEF WithTile
    <3> HIDE DEF p, m, new, tile
    <3> QED
      BY <1>2, <3>1, PartExcept
  <2> HIDE DEF p
  <2>5. /\ w.n = p.n /\ w.beg = p.beg /\ w.level = p.level
        /\ w.vis = p.vis /\ w.nxt = p.nxt /\ w.cur = p.cur /\ w.lvl = p.lvl
        /\ \A u \in Bfs!Tasklets : w.tl[u] = IF u = t THEN x ELSE p.tl[u]
    BY <1>3, <2>2, <2>4, PutTl
  <2> HIDE DEF w
  <2>6. /\ w.tl[t].pc = "tiles" /\ w.tl[t].at = m.tl[t].at + given.nt * Tile /\ m.tl[t].at < given.n
        /\ \A u \in Bfs!Tasklets : u # t => w.tl[u] = m.tl[u]
    <3>1. given.n \in Nat
      BY <1>2, BfsTypes
    <3>2. k.at < given.n
      BY <1>3, <1>7, <3>1
    <3> QED
      BY <2>2, <2>4, <2>5, <3>2
  <2>7. own \in BOOLEAN /\ tile = {v \in Bfs!Verts : v \div Tile = m.tl[t].at \div Tile}
    OBVIOUS
  <2>8. own <=> m.beg <= m.tl[t].at /\ m.tl[t].at < m.beg + m.n
    OBVIOUS
  <2>9. new = m.nxt \cap tile
    OBVIOUS
  <2>10. /\ w.cur = IF own THEN (m.cur \ {v - m.beg : v \in tile}) \union {v - m.beg : v \in new}
                    ELSE m.cur
         /\ w.lvl = [v \in 0..m.n-1 |-> IF own /\ v + m.beg \in new THEN m.level ELSE m.lvl[v]]
    BY <2>4, <2>5 DEF c, f
  <2>11. m.tl[t].pc = "tiles"
    BY <1>1
  <2>12. /\ w.n = m.n /\ w.beg = m.beg /\ w.level = m.level /\ w.vis = m.vis \union new
         /\ w.nxt = m.nxt \ tile
    BY <2>4, <2>5
  <2>13. p.lvl \in [0..p.n-1 -> Nat]
    <3>1. m.level \in Nat
      BY <1>2, <2>3 DEF Tiling
    <3> QED
      BY <1>3, <2>4, <3>1 DEF f
  <2> HIDE DEF m, k, l, own, new, tile
  <2>14. Tiling(w, l)
    <3>1. TookTile(m, w, t, tile, new, own)
      BY <2>6, <2>7, <2>8, <2>9, <2>10, <2>11, <2>12 DEF TookTile
    <3> QED
      BY <1>2, <2>3, <3>1, TileTaken
  <2>15. InLaunch(w, l)
    BY <2>14 DEF InLaunch
  <2> QED
    BY <1>1, <2>1, <2>2, <2>4, <2>13, <2>15, PutKeeps DEF l, w, m
<1> QED
  BY <1>5, <1>6, <1>7

(* The memory m with f for the tasklets.                                   *)
WithTls(m, f) == [m EXCEPT !.tl = f]

LEMMA PutTls ==
  ASSUME NEW m, m = PartOf(m), NEW f, NEW p, p = WithTls(m, f)
  PROVE  /\ p = PartOf(p) /\ p.n = m.n /\ p.beg = m.beg /\ p.level = m.level /\ p.off = m.off
         /\ p.ptrs = m.ptrs /\ p.nbrs = m.nbrs /\ p.lock = m.lock /\ p.tl = f
         /\ p.vis = m.vis /\ p.nxt = m.nxt /\ p.cur = m.cur /\ p.lvl = m.lvl
<1> USE DEF WithTls
<1>1. DOMAIN m = {"n", "beg", "level", "off", "ptrs", "nbrs", "lvl", "vis", "cur", "nxt",
                  "lock", "tl"}
  BY DEF PartOf
<1>2. DOMAIN p = DOMAIN m /\ p = [x \in DOMAIN p |-> p[x]]
  OBVIOUS
<1>3. p = PartOf(p)
  BY <1>1, <1>2 DEF PartOf
<1>4. /\ p.n = m.n /\ p.beg = m.beg /\ p.level = m.level /\ p.off = m.off
      /\ p.ptrs = m.ptrs /\ p.nbrs = m.nbrs /\ p.lock = m.lock /\ p.tl = f
  BY <1>1
<1>5. p.vis = m.vis /\ p.nxt = m.nxt /\ p.cur = m.cur /\ p.lvl = m.lvl
  BY <1>1
<1> QED
  BY <1>3, <1>4, <1>5

-----------------------------------------------------------------------------
(***************************************************************************)
(* The second loop begins when every tile is taken.                        *)
(***************************************************************************)
LEMMA ShareIs ==
  ASSUME given \in BfsJobs, NEW d \in Bfs!Dpus, NEW m, HasPart(d, m), NEW t \in Bfs!Tasklets
  PROVE  /\ Bfs!CeilStart(m.n, given.nt, t) \in Nat /\ Bfs!CeilEnd(m.n, given.nt, t) \in Nat
         /\ Bfs!CeilEnd(m.n, given.nt, t) <= m.n /\ m.n \in Nat
<1>1. given.nt \in Nat \ {0} /\ t \in Nat /\ m.n \in Nat
  BY BfsTypes, TlFields, DpuPart
<1> DEFINE s == CeilShare(m.n, given.nt)
<1>2. s \in Nat
  BY <1>1, CeilShareFits
<1> HIDE DEF s
<1>3. t * s \in Nat
  BY <1>1, <1>2
<1> DEFINE b == t * s
<1>4. /\ CeilStart(m.n, given.nt, t) = b
      /\ CeilEnd(m.n, given.nt, t) = IF b + s > m.n THEN m.n ELSE b + s
  BY DEF CeilStart, CeilEnd, s
<1> HIDE DEF b
<1>5. b \in Nat
  BY <1>3 DEF b
<1> QED
  BY <1>1, <1>2, <1>4, <1>5, BfsCeil

LEMMA AllTilesTaken ==
  ASSUME given \in BfsJobs, NEW d \in Bfs!Dpus, NEW m, HasPart(d, m), NEW l \in Nat \ {0}, Tiling(m, l),
         \A t \in Bfs!Tasklets : m.tl[t].pc = "barrier",
         NEW w, w.n = m.n, w.beg = m.beg, w.level = m.level, w.vis = m.vis, w.nxt = m.nxt,
         w.cur = m.cur, w.lvl = m.lvl,
         \A t \in Bfs!Tasklets : w.tl[t].pc = "nodes" /\ w.tl[t].at = Bfs!CeilStart(m.n, given.nt, t)
  PROVE  Visiting(w, l)
<1>1. /\ l - 1 \in Nat /\ l - 1 + 1 = l /\ Bfs!Sphere(l - 1) \subseteq Bfs!Verts
      /\ Before(l) = Before(l - 1) \union Bfs!Sphere(l - 1)
  <2>1. l - 1 \in Nat /\ l - 1 + 1 = l
    OBVIOUS
  <2>2. Before(l - 1 + 1) = Before(l - 1) \union Bfs!Sphere(l - 1)
    BY <2>1, NextBefore
  <2> QED
    BY <2>1, <2>2, NextBefore
<1>2. ASSUME NEW v \in Bfs!Verts PROVE Taken(m, v)
  BY TileIs DEF Taken
<1>3. \A a \in 0..m.n-1 : Taken(m, m.beg + a)
  BY <1>2, PartVert DEF HasPart
<1>4. m.nxt = {} /\ m.vis = Before(l) /\ m.n # 0 /\ m.level = l
  BY <1>1, <1>2 DEF Tiling
<1>5. ASSUME NEW a \in 0..m.n-1
      PROVE  /\ a \in m.cur <=> m.beg + a \in Bfs!Sphere(l - 1)
             /\ RightLevel(m.lvl[a], m.beg + a, l)
  BY <1>3 DEF Tiling
<1>6. ASSUME NEW t \in Bfs!Tasklets PROVE VisitTl(w, t, l)
  <2>1. Bfs!CeilStart(m.n, given.nt, t) \in Nat /\ m.n \in Nat
    BY ShareIs
  <2>2. w.tl[t].pc = "nodes" /\ w.tl[t].at = Bfs!CeilStart(m.n, given.nt, t)
    OBVIOUS
  <2>3. ~\E a \in 0..w.n-1 : /\ Bfs!CeilStart(w.n, given.nt, t) <= a
                             /\ a < w.tl[t].at
    BY <2>1, <2>2
  <2> QED
    BY <2>2, <2>3 DEF VisitTl, HasFound
<1> QED
  BY <1>4, <1>5, <1>6 DEF Visiting

LEMMA BfsBarrierKeeps == ASSUME BfsInv, NEW d \in Bfs!Dpus, Bfs!Barrier(d) PROVE BfsInv'
<1> DEFINE m == dpu[d]
           l == host.level
           f == [t \in Bfs!Tasklets |->
                   [Bfs!Idle EXCEPT !.pc = "nodes", !.at = Bfs!CeilStart(m.n, given.nt, t)]]
           w == WithTls(m, f)
<1>1. /\ host.pc = "wait" /\ given' = given /\ host' = host
      /\ dpu' = [dpu EXCEPT ![d] = w]
      /\ \A t \in Bfs!Tasklets : m.tl[t].pc = "barrier"
  BY DEF Bfs!Barrier, WithTls
<1>2. /\ given \in BfsJobs /\ HasPart(d, m) /\ InLaunch(m, l) /\ l \in Nat \ {0}
      /\ m = PartOf(m) /\ 0 \in Bfs!Tasklets
  <2>1. /\ given \in BfsJobs /\ HasPart(d, m) /\ InLaunch(m, l) /\ l \in Nat \ {0}
    BY <1>1, BfsDpu
  <2> HIDE DEF m
  <2>2. m = PartOf(m)
    BY <2>1, PartIs
  <2>3. 0 \in Bfs!Tasklets
    BY <2>1, BfsTypes
  <2> QED
    BY <2>1, <2>2, <2>3
<1>3. \A t \in Bfs!Tasklets : f[t] = [pc |-> "nodes", at |-> Bfs!CeilStart(m.n, given.nt, t), i |-> 0, tmp |-> {}]
  BY DEF Bfs!Idle
<1>4. DOMAIN f = Bfs!Tasklets /\ f = [t \in Bfs!Tasklets |-> f[t]]
  OBVIOUS
<1> HIDE DEF f, m, w, l
<1>5. Tiling(m, l)
  BY <1>1, <1>2 DEF InLaunch, Empty, Visiting, VisitTl
<1>6. f \in [Bfs!Tasklets -> BfsTlType]
  <2>1. ASSUME NEW t \in Bfs!Tasklets PROVE f[t] \in BfsTlType
    <3>1. Bfs!CeilStart(m.n, given.nt, t) \in Nat
      BY <1>2, ShareIs
    <3> DEFINE x == Bfs!CeilStart(m.n, given.nt, t)
    <3>2. f[t] = [pc |-> "nodes", at |-> x, i |-> 0, tmp |-> {}]
      BY <1>3
    <3> HIDE DEF x
    <3>3. x \in Nat
      BY <3>1 DEF x
    <3> QED
      BY <3>2, <3>3 DEF BfsTlType
  <2> QED
    BY <1>4, <2>1
<1>7. /\ w = PartOf(w) /\ w.n = m.n /\ w.beg = m.beg /\ w.level = m.level /\ w.off = m.off
      /\ w.ptrs = m.ptrs /\ w.nbrs = m.nbrs /\ w.tl = f
      /\ w.vis = m.vis /\ w.nxt = m.nxt /\ w.cur = m.cur /\ w.lvl = m.lvl
  BY <1>2, PutTls DEF w
<1>8. HasPart(d, w)
  <2>1. w.lvl \in [0..m.n-1 -> Nat]
    BY <1>2, <1>7 DEF HasPart
  <2> QED
    BY <1>2, <1>6, <1>7, <2>1, PartKept
<1>9. ASSUME NEW t \in Bfs!Tasklets
      PROVE  w.tl[t].pc = "nodes" /\ w.tl[t].at = Bfs!CeilStart(m.n, given.nt, t)
  <2>1. w.tl[t] = [pc |-> "nodes", at |-> Bfs!CeilStart(m.n, given.nt, t), i |-> 0, tmp |-> {}]
    BY <1>3, <1>7
  <2> QED
    BY <2>1
<1>10. Visiting(w, l)
  BY <1>1, <1>2, <1>5, <1>7, <1>9, AllTilesTaken
<1>11. InLaunch(w, l)
  BY <1>10 DEF InLaunch
<1> QED
  BY <1>1, <1>8, <1>11, OneDpuBfs DEF l

-----------------------------------------------------------------------------
(***************************************************************************)
(* A step of the second loop leaves what the others have found where it is. *)
(***************************************************************************)
SamePart(m, w) == /\ w.n = m.n /\ w.beg = m.beg /\ w.level = m.level /\ w.off = m.off
                  /\ w.ptrs = m.ptrs /\ w.nbrs = m.nbrs /\ w.vis = m.vis /\ w.cur = m.cur
                  /\ w.lvl = m.lvl

Undisturbed(m, w, t, l) ==
  /\ m.nxt \subseteq w.nxt /\ w.nxt \subseteq Bfs!Sphere(l)
  /\ \A u \in Bfs!Tasklets : u # t =>
       /\ w.tl[u] = m.tl[u]
       /\ m.tl[u].pc \in {"read", "write"} => w.lock = u
       /\ m.tl[u].pc = "write" => w.nxt = m.nxt

LEMMA FoundStays ==
  ASSUME NEW m, NEW w, SamePart(m, w), m.nxt \subseteq w.nxt, NEW t, NEW l
  PROVE  /\ \A a : Lo(w, a) = Lo(m, a) /\ Hi(w, a) = Hi(m, a)
         /\ \A a : Found(m, a, l) => Found(w, a, l)
         /\ \A k : AtNode(m, k, t, l) => AtNode(w, k, t, l)
         /\ \A k : AtEdge(m, k, l) => AtEdge(w, k, l)
         /\ HasFound(m, t, l) /\ w.tl[t] = m.tl[t] => HasFound(w, t, l)
<1>1. \A a : Lo(w, a) = Lo(m, a) /\ Hi(w, a) = Hi(m, a)
  BY DEF SamePart, Lo, Hi
<1>2. \A a : Found(m, a, l) => Found(w, a, l)
  BY DEF Found, SamePart
<1>3. w.n = m.n /\ w.cur = m.cur /\ w.nbrs = m.nbrs
  BY DEF SamePart
<1>4. \A k : AtNode(m, k, t, l) => AtNode(w, k, t, l)
  BY <1>1, <1>3 DEF AtNode
<1>5. \A k : AtEdge(m, k, l) => AtEdge(w, k, l)
  BY <1>1, <1>3 DEF AtEdge
<1>6. HasFound(m, t, l) /\ w.tl[t] = m.tl[t] => HasFound(w, t, l)
  BY <1>2, <1>3 DEF HasFound
<1> QED
  BY <1>1, <1>2, <1>4, <1>5, <1>6

LEMMA OthersVisit ==
  ASSUME NEW m, NEW l, Visiting(m, l), NEW t \in Bfs!Tasklets,
         NEW w, SamePart(m, w), Undisturbed(m, w, t, l), VisitTl(w, t, l)
  PROVE  Visiting(w, l)
<1>1. ASSUME NEW u \in Bfs!Tasklets, u # t PROVE VisitTl(w, u, l)
  <2>1. /\ w.tl[u] = m.tl[u] /\ m.nxt \subseteq w.nxt /\ VisitTl(m, u, l)
        /\ m.tl[u].pc \in {"read", "write"} => w.lock = u
        /\ m.tl[u].pc = "write" => w.nxt = m.nxt
    BY <1>1 DEF Undisturbed, Visiting
  <2>2. w.nbrs = m.nbrs
    BY DEF SamePart
  <2>3. HasFound(w, u, l)
    BY <2>1, FoundStays DEF VisitTl
  <2>4. \A k : (AtNode(m, k, u, l) => AtNode(w, k, u, l)) /\ (AtEdge(m, k, l) => AtEdge(w, k, l))
    BY <2>1, FoundStays
  <2> QED
    BY <2>1, <2>2, <2>3, <2>4 DEF VisitTl
<1>2. /\ w.n # 0 /\ w.level = l /\ w.vis = Before(l) /\ w.nxt \subseteq Bfs!Sphere(l)
      /\ \A a \in 0..w.n-1 : /\ a \in w.cur <=> w.beg + a \in Bfs!Sphere(l - 1)
                             /\ RightLevel(w.lvl[a], w.beg + a, l)
  BY DEF Visiting, SamePart, Undisturbed
<1> QED
  BY <1>1, <1>2 DEF Visiting

LEMMA VisitPut ==
  ASSUME BfsInv, NEW d \in Bfs!Dpus, host.pc = "wait", NEW t \in Bfs!Tasklets, NEW x \in BfsTlType,
         NEW p, p = PartOf(p), Bfs!Put(d, t, x, p), SamePart(dpu[d], p), p.tl = dpu[d].tl,
         Visiting(dpu[d], host.level),
         NEW w, w = WithTl(p, t, x), Undisturbed(dpu[d], w, t, host.level), VisitTl(w, t, host.level)
  PROVE  BfsInv'
<1> DEFINE m == dpu[d]
<1>1. HasPart(d, m)
  BY BfsDpu
<1>2. p.tl \in [Bfs!Tasklets -> BfsTlType] /\ m.lvl \in [0..m.n-1 -> Nat]
  BY <1>1 DEF HasPart
<1>3. SamePart(m, w)
  BY <1>2, PutTl DEF SamePart
<1> HIDE DEF m
<1>4. Visiting(w, host.level)
  BY <1>3, OthersVisit DEF m
<1>5. InLaunch(WithTl(p, t, x), host.level)
  BY <1>4 DEF InLaunch
<1>6. /\ p.n = m.n /\ p.beg = m.beg /\ p.off = m.off /\ p.ptrs = m.ptrs /\ p.nbrs = m.nbrs
      /\ p.lvl \in [0..p.n-1 -> Nat]
  BY <1>2 DEF SamePart, m
<1> QED
  BY <1>5, <1>6, PutKeeps DEF m

(* A DPU some tasklet of which is in the second loop.                      *)
LEMMA IsVisiting ==
  ASSUME BfsInv, NEW d \in Bfs!Dpus, NEW t \in Bfs!Tasklets, host.pc = "wait",
         dpu[d].tl[t].pc \in {"nodes", "edges", "lock", "read", "write"}
  PROVE  /\ given \in BfsJobs /\ HasPart(d, dpu[d]) /\ Visiting(dpu[d], host.level)
         /\ host.level \in Nat \ {0} /\ dpu[d] = PartOf(dpu[d]) /\ SamePart(dpu[d], dpu[d])
         /\ dpu[d].tl \in [Bfs!Tasklets -> BfsTlType]
         /\ VisitTl(dpu[d], t, host.level) /\ dpu[d].nxt \subseteq Bfs!Sphere(host.level)
<1>1. /\ given \in BfsJobs /\ HasPart(d, dpu[d]) /\ InLaunch(dpu[d], host.level)
      /\ host.level \in Nat \ {0}
  BY BfsDpu
<1>2. Visiting(dpu[d], host.level)
  BY <1>1 DEF InLaunch, Empty, Tiling
<1>3. dpu[d] = PartOf(dpu[d]) /\ dpu[d].tl \in [Bfs!Tasklets -> BfsTlType]
  BY <1>1, PartIs DEF HasPart
<1>4. SamePart(dpu[d], dpu[d])
  BY DEF SamePart
<1> QED
  BY <1>1, <1>2, <1>3, <1>4 DEF Visiting

(* With the memory as it was, only the tasklet itself moves on.            *)
LEMMA StepsOn ==
  ASSUME BfsInv, NEW d \in Bfs!Dpus, NEW t \in Bfs!Tasklets, host.pc = "wait",
         dpu[d].tl[t].pc \in {"nodes", "edges", "lock", "read", "write"},
         NEW x \in BfsTlType, NEW w, w = WithTl(dpu[d], t, x)
  PROVE  /\ SamePart(dpu[d], w) /\ Undisturbed(dpu[d], w, t, host.level) /\ w.tl[t] = x
         /\ w.nxt = dpu[d].nxt /\ w.lock = dpu[d].lock
<1> DEFINE m == dpu[d]
<1>1. /\ m = PartOf(m) /\ m.tl \in [Bfs!Tasklets -> BfsTlType] /\ Visiting(m, host.level)
      /\ m.nxt \subseteq Bfs!Sphere(host.level)
  BY IsVisiting
<1>2. m.n # 0
  BY <1>1 DEF Visiting
<1> HIDE DEF m
<1>3. /\ SamePart(m, w) /\ w.nxt = m.nxt /\ w.lock = m.lock
      /\ \A u \in Bfs!Tasklets : w.tl[u] = IF u = t THEN x ELSE m.tl[u]
  BY <1>1, PutTl DEF SamePart, m
<1>4. Undisturbed(m, w, t, host.level)
  BY <1>1, <1>3 DEF Undisturbed, Visiting, VisitTl
<1> QED
  BY <1>3, <1>4 DEF m

LEMMA NextNodeKeeps ==
  ASSUME BfsInv, NEW d \in Bfs!Dpus, NEW t \in Bfs!Tasklets, Bfs!NextNode(d, t)
  PROVE  BfsInv'
<1> DEFINE m == dpu[d]
           k == m.tl[t]
           l == host.level
           end == Bfs!CeilEnd(m.n, given.nt, t)
<1>1. host.pc = "wait" /\ k.pc = "nodes"
  BY DEF Bfs!NextNode, Bfs!At
<1>2. /\ given \in BfsJobs /\ HasPart(d, m) /\ Visiting(m, l) /\ VisitTl(m, t, l) /\ m = PartOf(m)
  BY <1>1, IsVisiting
<1>3. k \in BfsTlType /\ k.at \in Nat /\ k.i \in Nat
  BY <1>2, TlFields
<1>4. end \in Nat /\ end <= m.n /\ m.n \in Nat
  BY <1>2, ShareIs
<1>5. HasFound(m, t, l)
  BY <1>2 DEF VisitTl
<1>6. ASSUME NEW x \in BfsTlType, Bfs!Put(d, t, x, m),
             NEW w, w = WithTl(m, t, x), VisitTl(w, t, l)
      PROVE  BfsInv'
  <2>1. SamePart(m, m)
    BY DEF SamePart
  <2>2. Undisturbed(m, w, t, l)
    BY <1>1, <1>6, StepsOn
  <2> QED
    BY <1>1, <1>2, <1>6, <2>1, <2>2, VisitPut
<1>7. ASSUME NEW x \in BfsTlType, NEW w, w = WithTl(m, t, x)
      PROVE  /\ w.tl[t] = x /\ w.n = m.n /\ w.cur = m.cur
             /\ \A a : Found(m, a, l) => Found(w, a, l)
             /\ \A y : AtNode(m, y, t, l) => AtNode(w, y, t, l)
  <2>1. SamePart(m, w) /\ w.tl[t] = x /\ w.nxt = m.nxt
    BY <1>1, <1>7, StepsOn
  <2>2. m.nxt \subseteq w.nxt
    BY <2>1
  <2> HIDE DEF m, k
  <2>3. /\ \A a : Found(m, a, l) => Found(w, a, l)
        /\ \A y : AtNode(m, y, t, l) => AtNode(w, y, t, l)
    BY <2>1, <2>2, FoundStays
  <2> QED
    BY <2>1, <2>3 DEF SamePart
<1>8. CASE k.at >= end
  <2> DEFINE x == Bfs!Idle
             w == WithTl(m, t, x)
  <2>1. Bfs!Put(d, t, x, m)
    BY <1>8 DEF Bfs!NextNode
  <2>2. x \in BfsTlType /\ x.pc = "off"
    BY DEF Bfs!Idle, BfsTlType
  <2> HIDE DEF x
  <2>3. w.tl[t] = x /\ w.n = m.n /\ w.cur = m.cur /\ \A a : Found(m, a, l) => Found(w, a, l)
    BY <1>7, <2>2
  <2> HIDE DEF w, m, k, l
  <2>4. HasFound(w, t, l)
    <3> SUFFICES ASSUME NEW a \in 0..w.n-1, Bfs!CeilStart(w.n, given.nt, t) <= a,
                        a < Bfs!CeilEnd(w.n, given.nt, t), a \in w.cur
                 PROVE  Found(m, a, l)
      BY <2>3 DEF HasFound
    <3>1. a < k.at
      BY <1>3, <1>4, <1>8, <2>3
    <3> QED
      BY <1>5, <2>3, <3>1 DEF HasFound, k
  <2>5. VisitTl(w, t, l)
    BY <2>2, <2>3, <2>4 DEF VisitTl
  <2> QED
    BY <1>6, <2>1, <2>2, <2>5 DEF w
<1>9. CASE ~(k.at >= end) /\ k.at \notin m.cur
  <2> DEFINE x == [k EXCEPT !.at = k.at + 1]
             w == WithTl(m, t, x)
  <2>1. Bfs!Put(d, t, x, m)
    BY <1>9 DEF Bfs!NextNode
  <2>2. x \in BfsTlType /\ x.pc = "nodes" /\ x.at = k.at + 1
    BY <1>1, <1>3 DEF BfsTlType
  <2> HIDE DEF x
  <2>3. w.tl[t] = x /\ w.n = m.n /\ w.cur = m.cur /\ \A a : Found(m, a, l) => Found(w, a, l)
    BY <1>7, <2>2
  <2> HIDE DEF w, m, k, l
  <2>4. HasFound(w, t, l)
    <3> SUFFICES ASSUME NEW a \in 0..w.n-1, Bfs!CeilStart(w.n, given.nt, t) <= a,
                        a < Bfs!CeilEnd(w.n, given.nt, t), a \in w.cur, a < k.at + 1
                 PROVE  Found(m, a, l)
      BY <2>2, <2>3 DEF HasFound
    <3>1. a < k.at
      <4>1. a \in 0..m.n-1 /\ a # k.at
        BY <1>9, <2>3
      <4> QED
        BY <1>3, <1>4, <4>1
    <3> QED
      BY <1>5, <2>3, <3>1 DEF HasFound, k
  <2>5. VisitTl(w, t, l)
    BY <2>2, <2>3, <2>4 DEF VisitTl
  <2> QED
    BY <1>6, <2>1, <2>2, <2>5 DEF w
<1>10. CASE ~(k.at >= end) /\ k.at \in m.cur
  <2> DEFINE x == [k EXCEPT !.pc = "edges", !.i = Lo(m, k.at)]
             w == WithTl(m, t, x)
  <2>1. Bfs!Put(d, t, x, m)
    BY <1>10 DEF Bfs!NextNode, Lo
  <2>2. k.at < end /\ k.at \in 0..m.n-1
    BY <1>3, <1>4, <1>10
  <2>3. Lo(m, k.at) \in Nat
    BY <1>2, <2>2 DEF HasPart
  <2>4. x \in BfsTlType /\ x.pc = "edges" /\ x.at = k.at /\ x.i = Lo(m, k.at)
    BY <1>1, <1>3, <2>3 DEF BfsTlType
  <2> HIDE DEF x
  <2>5. /\ w.tl[t] = x /\ w.n = m.n /\ w.cur = m.cur
        /\ \A a : Found(m, a, l) => Found(w, a, l)
        /\ \A y : AtNode(m, y, t, l) => AtNode(w, y, t, l)
    BY <1>7, <2>4
  <2> HIDE DEF w, m, k, l
  <2>6. AtNode(m, x, t, l)
    <3>1. Lo(m, k.at)..Lo(m, k.at)-1 = {}
      BY <2>3
    <3> QED
      BY <1>10, <2>2, <2>3, <2>4, <3>1 DEF AtNode
  <2>7. HasFound(w, t, l)
    <3> SUFFICES ASSUME NEW a \in 0..w.n-1, Bfs!CeilStart(w.n, given.nt, t) <= a,
                        a < Bfs!CeilEnd(w.n, given.nt, t), a \in w.cur, a < k.at
                 PROVE  Found(m, a, l)
      BY <2>4, <2>5 DEF HasFound
    <3> QED
      BY <1>5, <2>5 DEF HasFound, k
  <2>8. VisitTl(w, t, l)
    BY <2>4, <2>5, <2>6, <2>7 DEF VisitTl
  <2> QED
    BY <1>6, <2>1, <2>4, <2>8 DEF w
<1> QED
  BY <1>8, <1>9, <1>10

(* What a tasklet has found on a node of its share.                        *)
LEMMA AtNodeIs ==
  ASSUME given \in BfsJobs, NEW d \in Bfs!Dpus, NEW m, HasPart(d, m), NEW t \in Bfs!Tasklets, NEW l,
         VisitTl(m, t, l), m.tl[t].pc \in {"edges", "lock", "read", "write"}
  PROVE  /\ m.tl[t].at \in 0..m.n-1 /\ m.tl[t].at \in m.cur /\ AtNode(m, m.tl[t], t, l)
         /\ Lo(m, m.tl[t].at) \in Nat /\ Hi(m, m.tl[t].at) \in Nat
         /\ m.tl[t].at \in Nat /\ m.tl[t].i \in Nat /\ Lo(m, m.tl[t].at) <= m.tl[t].i
         /\ Succ(m.beg + m.tl[t].at) = {m.nbrs[i] : i \in Lo(m, m.tl[t].at)..Hi(m, m.tl[t].at)-1}
<1>1. AtNode(m, m.tl[t], t, l)
  BY DEF VisitTl
<1>2. m.tl[t].at \in Nat /\ m.tl[t].i \in Nat
  BY TlFields
<1>3. /\ m.tl[t].at \in 0..m.n-1 /\ m.tl[t].at \in m.cur /\ m.tl[t].i >= Lo(m, m.tl[t].at)
  BY <1>1 DEF AtNode
<1>4. /\ Lo(m, m.tl[t].at) \in Nat /\ Hi(m, m.tl[t].at) \in Nat
      /\ Succ(m.beg + m.tl[t].at) = {m.nbrs[i] : i \in Lo(m, m.tl[t].at)..Hi(m, m.tl[t].at)-1}
  BY <1>3 DEF HasPart
<1> QED
  BY <1>1, <1>2, <1>3, <1>4

(* The next edge: those before it stay found.                              *)
LEMMA EdgeFound ==
  ASSUME given \in BfsJobs, NEW d \in Bfs!Dpus, NEW m, HasPart(d, m), NEW t \in Bfs!Tasklets, NEW l,
         VisitTl(m, t, l), m.tl[t].pc \in {"edges", "lock", "read", "write"},
         NEW w, SamePart(m, w), m.nxt \subseteq w.nxt,
         w.nbrs[m.tl[t].i] \in Before(l) \/ w.nbrs[m.tl[t].i] \in w.nxt,
         NEW x, w.tl[t] = x, x.pc = "edges", x.at = m.tl[t].at, x.i = m.tl[t].i + 1
  PROVE  VisitTl(w, t, l)
<1> DEFINE k == m.tl[t]
<1>1. /\ k.at \in 0..m.n-1 /\ k.at \in m.cur /\ AtNode(m, k, t, l)
      /\ Lo(m, k.at) \in Nat /\ k.i \in Nat /\ Lo(m, k.at) <= k.i
  BY AtNodeIs
<1>2. /\ Lo(w, k.at) = Lo(m, k.at) /\ w.n = m.n /\ w.cur = m.cur /\ w.nbrs = m.nbrs
      /\ \A a : Found(m, a, l) => Found(w, a, l)
      /\ AtNode(w, k, t, l)
  <2> HIDE DEF k
  <2>1. w.n = m.n /\ w.cur = m.cur /\ w.nbrs = m.nbrs
    BY DEF SamePart
  <2>2. /\ \A a : Lo(w, a) = Lo(m, a)
        /\ \A a : Found(m, a, l) => Found(w, a, l)
        /\ \A y : AtNode(m, y, t, l) => AtNode(w, y, t, l)
    BY FoundStays
  <2> QED
    BY <1>1, <2>1, <2>2
<1>3. HasFound(m, t, l) /\ k.pc # "off"
  BY DEF VisitTl
<1>4. x.at = k.at /\ x.i = k.i + 1
  OBVIOUS
<1>5. w.nbrs[k.i] \in Before(l) \/ w.nbrs[k.i] \in w.nxt
  OBVIOUS
<1>6. AtNode(w, x, t, l)
  <2> HIDE DEF k
  <2>1. Lo(w, x.at)..x.i-1 = (Lo(w, k.at)..k.i-1) \union {k.i}
    BY <1>1, <1>2, <1>4
  <2>2. x.i >= Lo(w, x.at)
    BY <1>1, <1>2, <1>4
  <2> QED
    BY <1>2, <1>4, <1>5, <2>1, <2>2 DEF AtNode
<1>7. HasFound(w, t, l)
  <2> SUFFICES ASSUME NEW a \in 0..w.n-1, Bfs!CeilStart(w.n, given.nt, t) <= a,
                      a < Bfs!CeilEnd(w.n, given.nt, t), a \in w.cur, a < k.at
               PROVE  Found(m, a, l)
    BY <1>2, <1>4 DEF HasFound
  <2> QED
    BY <1>2, <1>3 DEF HasFound
<1> QED
  BY <1>6, <1>7 DEF VisitTl

LEMMA NextEdgeKeeps ==
  ASSUME BfsInv, NEW d \in Bfs!Dpus, NEW t \in Bfs!Tasklets, Bfs!NextEdge(d, t)
  PROVE  BfsInv'
<1> DEFINE m == dpu[d]
           k == m.tl[t]
           l == host.level
<1>1. host.pc = "wait" /\ k.pc = "edges"
  BY DEF Bfs!NextEdge, Bfs!At
<1>2. /\ given \in BfsJobs /\ HasPart(d, m) /\ Visiting(m, l) /\ VisitTl(m, t, l) /\ m = PartOf(m)
  BY <1>1, IsVisiting
<1>3. k \in BfsTlType /\ k.at \in Nat /\ k.i \in Nat
  BY <1>2, TlFields
<1>4. /\ k.at \in 0..m.n-1 /\ k.at \in m.cur /\ AtNode(m, k, t, l) /\ HasFound(m, t, l)
      /\ Lo(m, k.at) \in Nat /\ Hi(m, k.at) \in Nat
      /\ Succ(m.beg + k.at) = {m.nbrs[i] : i \in Lo(m, k.at)..Hi(m, k.at)-1}
  <2> HIDE DEF m
  <2>1. k.pc \in {"edges", "lock", "read", "write"} /\ HasFound(m, t, l)
    BY <1>1, <1>2 DEF VisitTl
  <2> QED
    BY <1>2, <2>1, AtNodeIs
<1>5. ASSUME NEW x \in BfsTlType, Bfs!Put(d, t, x, m),
             NEW w, w = WithTl(m, t, x), VisitTl(w, t, l)
      PROVE  BfsInv'
  <2>1. SamePart(m, m)
    BY DEF SamePart
  <2>2. Undisturbed(m, w, t, l)
    BY <1>1, <1>5, StepsOn
  <2> QED
    BY <1>1, <1>2, <1>5, <2>1, <2>2, VisitPut
<1>6. ASSUME NEW x \in BfsTlType, NEW w, w = WithTl(m, t, x)
      PROVE  /\ SamePart(m, w) /\ w.tl[t] = x /\ w.n = m.n /\ w.cur = m.cur /\ w.nbrs = m.nbrs
             /\ m.nxt \subseteq w.nxt
             /\ \A a : Found(m, a, l) => Found(w, a, l)
             /\ \A y : AtNode(m, y, t, l) => AtNode(w, y, t, l)
             /\ \A y : AtEdge(m, y, l) => AtEdge(w, y, l)
  <2>1. SamePart(m, w) /\ w.tl[t] = x /\ w.nxt = m.nxt
    BY <1>1, <1>6, StepsOn
  <2>2. m.nxt \subseteq w.nxt
    BY <2>1
  <2> HIDE DEF m, k
  <2>3. /\ \A a : Found(m, a, l) => Found(w, a, l)
        /\ \A y : AtNode(m, y, t, l) => AtNode(w, y, t, l)
        /\ \A y : AtEdge(m, y, l) => AtEdge(w, y, l)
    BY <2>1, <2>2, FoundStays
  <2> QED
    BY <2>1, <2>2, <2>3 DEF SamePart
<1>7. CASE k.i >= Hi(m, k.at)
  <2> DEFINE x == [k EXCEPT !.pc = "nodes", !.at = k.at + 1]
             w == WithTl(m, t, x)
  <2>1. Bfs!Put(d, t, x, m)
    <3>1. k.i >= m.ptrs[k.at + 1] - m.off
      BY <1>7 DEF Hi
    <3> QED
      BY <3>1 DEF Bfs!NextEdge
  <2>2. x \in BfsTlType /\ x.pc = "nodes" /\ x.at = k.at + 1
    <3> DEFINE b == k.at + 1
    <3>1. b \in Nat
      BY <1>3
    <3> HIDE DEF m, k, b
    <3>2. [k EXCEPT !.pc = "nodes", !.at = b] \in BfsTlType
      BY <1>3, <3>1 DEF BfsTlType
    <3>3. /\ [k EXCEPT !.pc = "nodes", !.at = b].pc = "nodes"
          /\ [k EXCEPT !.pc = "nodes", !.at = b].at = b
      BY <1>3 DEF BfsTlType
    <3> QED
      BY <3>2, <3>3 DEF b
  <2> HIDE DEF x
  <2>3. w.tl[t] = x /\ w.n = m.n /\ w.cur = m.cur /\ \A a : Found(m, a, l) => Found(w, a, l)
    BY <1>6, <2>2
  <2> HIDE DEF w, m, k, l
  <2>4. Found(m, k.at, l)
    <3>1. \A i \in Lo(m, k.at)..Hi(m, k.at)-1 : i \in Lo(m, k.at)..k.i-1
      BY <1>3, <1>4, <1>7
    <3> QED
      BY <1>4, <3>1 DEF Found, AtNode
  <2>5. HasFound(w, t, l)
    <3> SUFFICES ASSUME NEW a \in 0..w.n-1, Bfs!CeilStart(w.n, given.nt, t) <= a,
                        a < Bfs!CeilEnd(w.n, given.nt, t), a \in w.cur, a < k.at + 1
                 PROVE  Found(m, a, l)
      BY <2>2, <2>3 DEF HasFound
    <3>1. CASE a = k.at
      BY <2>4, <3>1
    <3>2. CASE a # k.at
      <4>1. a < k.at
        <5>1. a \in Int
          OBVIOUS
        <5> QED
          BY <1>3, <3>2, <5>1
      <4> QED
        BY <1>4, <2>3, <4>1 DEF HasFound, k
    <3> QED
      BY <3>1, <3>2
  <2>6. VisitTl(w, t, l)
    BY <2>2, <2>3, <2>5 DEF VisitTl
  <2> QED
    BY <1>5, <2>1, <2>2, <2>6 DEF w
<1>8. CASE ~(k.i >= Hi(m, k.at)) /\ m.nbrs[k.i] \in m.vis
  <2> DEFINE x == [k EXCEPT !.i = k.i + 1]
             w == WithTl(m, t, x)
  <2>1. Bfs!Put(d, t, x, m)
    BY <1>8 DEF Bfs!NextEdge, Hi
  <2>2. x \in BfsTlType /\ x.pc = "edges" /\ x.at = k.at /\ x.i = k.i + 1
    BY <1>1, <1>3 DEF BfsTlType
  <2> HIDE DEF x
  <2>3. SamePart(m, w) /\ w.tl[t] = x /\ w.nbrs = m.nbrs /\ m.nxt \subseteq w.nxt
    BY <1>6, <2>2
  <2>4. w.nbrs[k.i] \in Before(l)
    BY <1>2, <1>8, <2>3 DEF Visiting
  <2>5. k.pc \in {"edges", "lock", "read", "write"}
    BY <1>1
  <2> HIDE DEF w, m, l
  <2>6. VisitTl(w, t, l)
    BY <1>2, <2>2, <2>3, <2>4, <2>5, EdgeFound
  <2> QED
    BY <1>5, <2>1, <2>2, <2>6 DEF w
<1>9. CASE ~(k.i >= Hi(m, k.at)) /\ m.nbrs[k.i] \notin m.vis
  <2> DEFINE x == [k EXCEPT !.pc = "lock"]
             w == WithTl(m, t, x)
  <2>1. Bfs!Put(d, t, x, m)
    BY <1>9 DEF Bfs!NextEdge, Hi
  <2>2. x \in BfsTlType /\ x.pc = "lock" /\ x.at = k.at /\ x.i = k.i
    BY <1>1, <1>3 DEF BfsTlType
  <2> HIDE DEF x
  <2>3. /\ w.tl[t] = x /\ w.n = m.n /\ w.cur = m.cur
        /\ \A a : Found(m, a, l) => Found(w, a, l)
        /\ \A y : AtNode(m, y, t, l) => AtNode(w, y, t, l)
        /\ \A y : AtEdge(m, y, l) => AtEdge(w, y, l)
    BY <1>6, <2>2
  <2>4. m.vis = Before(l)
    BY <1>2 DEF Visiting
  <2> HIDE DEF w, m, k, l
  <2>5. AtNode(m, x, t, l) /\ AtEdge(m, x, l)
    <3>1. k.i < Hi(m, k.at)
      BY <1>3, <1>4, <1>9
    <3> QED
      BY <1>4, <1>9, <2>2, <2>4, <3>1 DEF AtNode, AtEdge
  <2>6. HasFound(w, t, l)
    <3> SUFFICES ASSUME NEW a \in 0..w.n-1, Bfs!CeilStart(w.n, given.nt, t) <= a,
                        a < Bfs!CeilEnd(w.n, given.nt, t), a \in w.cur, a < k.at
                 PROVE  Found(m, a, l)
      BY <2>2, <2>3 DEF HasFound
    <3> QED
      BY <1>4, <2>3 DEF HasFound, k
  <2>7. VisitTl(w, t, l)
    BY <2>2, <2>3, <2>5, <2>6 DEF VisitTl
  <2> QED
    BY <1>5, <2>1, <2>2, <2>7 DEF w
<1> QED
  BY <1>7, <1>8, <1>9

-----------------------------------------------------------------------------
WithNxt(m, a, b) == [m EXCEPT !.nxt = a, !.lock = b]
WithLock(m, b) == [m EXCEPT !.lock = b]

LEMMA NxtExcept ==
  ASSUME NEW m, m = PartOf(m), NEW a, NEW b, NEW p, p = WithNxt(m, a, b)
  PROVE  p = PartOf(p) /\ SamePart(m, p) /\ p.tl = m.tl /\ p.nxt = a /\ p.lock = b
<1>1. DOMAIN m = {"n", "beg", "level", "off", "ptrs", "nbrs", "lvl", "vis", "cur", "nxt",
                  "lock", "tl"}
  BY DEF PartOf
<1>2. DOMAIN p = DOMAIN m /\ p = [x \in DOMAIN p |-> p[x]]
  BY DEF WithNxt
<1>3. p = PartOf(p)
  BY <1>1, <1>2 DEF PartOf
<1>4. p.tl = m.tl /\ p.nxt = a /\ p.lock = b
  BY <1>1 DEF WithNxt
<1>5. SamePart(m, p)
  BY <1>1 DEF WithNxt, SamePart
<1> QED
  BY <1>3, <1>4, <1>5

LEMMA LockExcept ==
  ASSUME NEW m, m = PartOf(m), NEW b, NEW p, p = WithLock(m, b)
  PROVE  p = PartOf(p) /\ SamePart(m, p) /\ p.tl = m.tl /\ p.nxt = m.nxt /\ p.lock = b
<1>1. DOMAIN m = {"n", "beg", "level", "off", "ptrs", "nbrs", "lvl", "vis", "cur", "nxt",
                  "lock", "tl"}
  BY DEF PartOf
<1>2. DOMAIN p = DOMAIN m /\ p = [x \in DOMAIN p |-> p[x]]
  BY DEF WithLock
<1>3. p = PartOf(p)
  BY <1>1, <1>2 DEF PartOf
<1>4. p.tl = m.tl /\ p.nxt = m.nxt /\ p.lock = b
  BY <1>1 DEF WithLock
<1>5. SamePart(m, p)
  BY <1>1 DEF WithLock, SamePart
<1> QED
  BY <1>3, <1>4, <1>5

(* A tasklet that stays on its edge.                                       *)
LEMMA SameEdge ==
  ASSUME NEW m, NEW t, NEW l, VisitTl(m, t, l), m.tl[t].pc \in {"lock", "read", "write"},
         NEW w, SamePart(m, w), m.nxt \subseteq w.nxt,
         NEW x, w.tl[t] = x, x.pc # "off", x.at = m.tl[t].at, x.i = m.tl[t].i
  PROVE  AtNode(w, x, t, l) /\ AtEdge(w, x, l) /\ HasFound(w, t, l)
<1> DEFINE k == m.tl[t]
<1>1. AtNode(m, k, t, l) /\ AtEdge(m, k, l) /\ HasFound(m, t, l) /\ k.pc # "off"
  BY DEF VisitTl
<1>2. /\ x.at = k.at /\ x.i = k.i
  OBVIOUS
<1> HIDE DEF k
<1>3. w.n = m.n /\ w.cur = m.cur
  BY DEF SamePart
<1>4. /\ \A a : Found(m, a, l) => Found(w, a, l)
      /\ \A y : AtNode(m, y, t, l) => AtNode(w, y, t, l)
      /\ \A y : AtEdge(m, y, l) => AtEdge(w, y, l)
  BY FoundStays
<1>5. AtNode(w, k, t, l) /\ AtEdge(w, k, l)
  BY <1>1, <1>4
<1>6. AtNode(w, x, t, l) /\ AtEdge(w, x, l)
  BY <1>2, <1>5 DEF AtNode, AtEdge
<1>7. HasFound(w, t, l)
  <2> SUFFICES ASSUME NEW a \in 0..w.n-1, Bfs!CeilStart(w.n, given.nt, t) <= a,
                      a < Bfs!CeilEnd(w.n, given.nt, t), a \in w.cur, a < k.at
               PROVE  Found(m, a, l)
    BY <1>2, <1>4 DEF HasFound
  <2> QED
    BY <1>1, <1>3 DEF HasFound, k
<1> QED
  BY <1>6, <1>7

LEMMA LockKeeps ==
  ASSUME BfsInv, NEW d \in Bfs!Dpus, NEW t \in Bfs!Tasklets, Bfs!Lock(d, t)
  PROVE  BfsInv'
<1> DEFINE m == dpu[d]
           k == m.tl[t]
           l == host.level
           x == [k EXCEPT !.pc = "read"]
           p == WithLock(m, t)
           w == WithTl(p, t, x)
<1>1. host.pc = "wait" /\ k.pc = "lock" /\ m.lock = -1
  BY DEF Bfs!Lock, Bfs!At
<1>2. /\ given \in BfsJobs /\ HasPart(d, m) /\ Visiting(m, l) /\ VisitTl(m, t, l) /\ m = PartOf(m)
      /\ m.nxt \subseteq Bfs!Sphere(l)
  BY <1>1, IsVisiting
<1>3. k \in BfsTlType /\ k.at \in Nat /\ k.i \in Nat /\ m.tl \in [Bfs!Tasklets -> BfsTlType]
  BY <1>2, TlFields
<1>4. Bfs!Put(d, t, x, p)
  BY DEF Bfs!Lock, WithLock
<1>5. x \in BfsTlType /\ x.pc = "read" /\ x.at = k.at /\ x.i = k.i
  <2> HIDE DEF k
  <2> QED
    BY <1>3 DEF BfsTlType
<1> HIDE DEF x, m
<1>6. p = PartOf(p) /\ SamePart(m, p) /\ p.tl = m.tl /\ p.nxt = m.nxt /\ p.lock = t
  BY <1>2, LockExcept
<1> HIDE DEF p
<1>7. /\ w = PartOf(w) /\ SamePart(m, w) /\ w.nxt = m.nxt /\ w.lock = t
      /\ \A u \in Bfs!Tasklets : w.tl[u] = IF u = t THEN x ELSE m.tl[u]
  BY <1>3, <1>5, <1>6, PutTl DEF SamePart
<1>8. w.tl[t] = x
  BY <1>7
<1> HIDE DEF w
<1>9. AtNode(w, x, t, l) /\ AtEdge(w, x, l) /\ HasFound(w, t, l)
  <2>1. m.nxt \subseteq w.nxt /\ x.pc # "off" /\ x.at = m.tl[t].at /\ x.i = m.tl[t].i
    BY <1>5, <1>7
  <2>2. m.tl[t].pc \in {"lock", "read", "write"}
    BY <1>1
  <2> HIDE DEF k, l
  <2> QED
    BY <1>2, <1>7, <1>8, <2>1, <2>2, SameEdge
<1>10. VisitTl(w, t, l)
  BY <1>5, <1>7, <1>8, <1>9 DEF VisitTl
<1>11. Undisturbed(m, w, t, l)
  <2>1. \A u \in Bfs!Tasklets : m.tl[u].pc \notin {"read", "write"}
    <3>1. \A u \in Bfs!Tasklets : u # -1
      BY <1>2, BfsTypes
    <3> QED
      BY <1>1, <1>2, <3>1 DEF Visiting, VisitTl
  <2> QED
    BY <1>2, <1>7, <2>1 DEF Undisturbed
<1> QED
  BY <1>1, <1>2, <1>4, <1>5, <1>6, <1>10, <1>11, VisitPut DEF w, m

LEMMA ReadKeeps ==
  ASSUME BfsInv, NEW d \in Bfs!Dpus, NEW t \in Bfs!Tasklets, Bfs!Read(d, t)
  PROVE  BfsInv'
<1> DEFINE m == dpu[d]
           k == m.tl[t]
           l == host.level
           c == m.nxt \intersect Bfs!TileOf(m.nbrs[k.i])
           x == [k EXCEPT !.pc = "write", !.tmp = c]
           w == WithTl(m, t, x)
<1>1. host.pc = "wait" /\ k.pc = "read"
  BY DEF Bfs!Read, Bfs!At
<1>2. /\ given \in BfsJobs /\ HasPart(d, m) /\ Visiting(m, l) /\ VisitTl(m, t, l) /\ m = PartOf(m)
      /\ SamePart(m, m)
  BY <1>1, IsVisiting
<1>3. k \in BfsTlType /\ k.at \in Nat /\ k.i \in Nat
  BY <1>2, TlFields
<1>4. Bfs!Put(d, t, x, m)
  BY DEF Bfs!Read
<1>5. c \subseteq Bfs!Verts
  BY DEF Bfs!TileOf
<1>6. x \in BfsTlType /\ x.pc = "write" /\ x.at = k.at /\ x.i = k.i /\ x.tmp = c
  <2> HIDE DEF k, c
  <2> QED
    BY <1>3, <1>5 DEF BfsTlType
<1> HIDE DEF x
<1>7. /\ SamePart(m, w) /\ Undisturbed(m, w, t, l) /\ w.tl[t] = x /\ w.nxt = m.nxt
      /\ w.lock = m.lock
  BY <1>1, <1>6, StepsOn
<1> HIDE DEF w, m
<1>8. w.nbrs = m.nbrs
  BY <1>7 DEF SamePart
<1>9. AtNode(w, x, t, l) /\ AtEdge(w, x, l) /\ HasFound(w, t, l)
  <2>1. m.nxt \subseteq w.nxt /\ x.pc # "off" /\ x.at = m.tl[t].at /\ x.i = m.tl[t].i
    BY <1>6, <1>7
  <2>2. m.tl[t].pc \in {"lock", "read", "write"}
    BY <1>1
  <2> HIDE DEF k, l, c
  <2> QED
    BY <1>2, <1>7, <2>1, <2>2, SameEdge
<1>10. m.lock = t
  BY <1>1, <1>2 DEF VisitTl
<1>11. VisitTl(w, t, l)
  BY <1>6, <1>7, <1>8, <1>9, <1>10 DEF VisitTl
<1> QED
  BY <1>1, <1>2, <1>4, <1>6, <1>7, <1>11, VisitPut DEF w, m

(* The vertex an edge leads to is on the next sphere.                      *)
LEMMA EdgeLeads ==
  ASSUME given \in BfsJobs, NEW d \in Bfs!Dpus, NEW m, HasPart(d, m), NEW l \in Nat \ {0},
         Visiting(m, l), NEW t \in Bfs!Tasklets, m.tl[t].pc \in {"lock", "read", "write"}
  PROVE  m.nbrs[m.tl[t].i] \in Bfs!Sphere(l)
<1> DEFINE k == m.tl[t]
           v == m.nbrs[k.i]
<1>1. VisitTl(m, t, l)
  BY DEF Visiting
<1>2. /\ k.at \in 0..m.n-1 /\ k.at \in m.cur /\ Lo(m, k.at) \in Nat /\ Hi(m, k.at) \in Nat
      /\ k.i \in Nat /\ Lo(m, k.at) <= k.i
      /\ Succ(m.beg + k.at) = {m.nbrs[i] : i \in Lo(m, k.at)..Hi(m, k.at)-1}
  <2>1. m.tl[t].pc \in {"edges", "lock", "read", "write"}
    OBVIOUS
  <2> QED
    BY <1>1, <2>1, AtNodeIs
<1>3. k.i < Hi(m, k.at) /\ v \notin Before(l)
  BY <1>1 DEF VisitTl, AtEdge
<1>4. m.beg + k.at \in Bfs!Sphere(l - 1)
  BY <1>2 DEF Visiting
<1> HIDE DEF k
<1>5. v \in Succ(m.beg + k.at)
  <2>1. k.i \in Lo(m, k.at)..Hi(m, k.at)-1
    BY <1>2, <1>3
  <2> QED
    BY <1>2, <2>1
<1> HIDE DEF v
<1>6. l - 1 \in Nat /\ l - 1 + 1 = l
  OBVIOUS
<1>7. v \in Before(l - 1 + 1) \/ v \in Bfs!Sphere(l - 1 + 1)
  BY <1>4, <1>5, <1>6, NextSphere
<1> QED
  BY <1>3, <1>6, <1>7 DEF v, k

LEMMA WriteKeeps ==
  ASSUME BfsInv, NEW d \in Bfs!Dpus, NEW t \in Bfs!Tasklets, Bfs!Write(d, t)
  PROVE  BfsInv'
<1> DEFINE m == dpu[d]
           k == m.tl[t]
           l == host.level
           v == m.nbrs[k.i]
           c == (m.nxt \ Bfs!TileOf(v)) \union k.tmp \union {v}
           x == [k EXCEPT !.pc = "edges", !.i = k.i + 1, !.tmp = {}]
           p == WithNxt(m, c, -1)
           w == WithTl(p, t, x)
<1>1. host.pc = "wait" /\ k.pc = "write"
  BY DEF Bfs!Write, Bfs!At
<1>2. /\ given \in BfsJobs /\ HasPart(d, m) /\ Visiting(m, l) /\ VisitTl(m, t, l) /\ m = PartOf(m)
      /\ m.nxt \subseteq Bfs!Sphere(l) /\ l \in Nat \ {0}
  BY <1>1, IsVisiting
<1>3. k \in BfsTlType /\ k.at \in Nat /\ k.i \in Nat /\ m.tl \in [Bfs!Tasklets -> BfsTlType]
  BY <1>2, TlFields
<1>4. Bfs!Put(d, t, x, p)
  BY DEF Bfs!Write, WithNxt
<1>5. x \in BfsTlType /\ x.pc = "edges" /\ x.at = k.at /\ x.i = k.i + 1
  <2> DEFINE b == k.i + 1
  <2>1. b \in Nat
    BY <1>3
  <2> HIDE DEF k, b
  <2>2. [k EXCEPT !.pc = "edges", !.i = b, !.tmp = {}] \in BfsTlType
    BY <1>3, <2>1 DEF BfsTlType
  <2>3. /\ [k EXCEPT !.pc = "edges", !.i = b, !.tmp = {}].pc = "edges"
        /\ [k EXCEPT !.pc = "edges", !.i = b, !.tmp = {}].at = k.at
        /\ [k EXCEPT !.pc = "edges", !.i = b, !.tmp = {}].i = b
    BY <1>3 DEF BfsTlType
  <2> QED
    BY <2>2, <2>3 DEF b
<1>6. m.lock = t /\ k.tmp = m.nxt \intersect Bfs!TileOf(v)
  BY <1>1, <1>2 DEF VisitTl
<1>7. c = m.nxt \union {v}
  BY <1>6
<1> HIDE DEF x, m, c
<1>8. p = PartOf(p) /\ SamePart(m, p) /\ p.tl = m.tl /\ p.nxt = c
  BY <1>2, NxtExcept
<1> HIDE DEF p
<1>9. /\ w = PartOf(w) /\ SamePart(m, w) /\ w.nxt = c
      /\ \A u \in Bfs!Tasklets : w.tl[u] = IF u = t THEN x ELSE m.tl[u]
  BY <1>3, <1>5, <1>8, PutTl DEF SamePart
<1>10. w.tl[t] = x /\ w.nbrs = m.nbrs
  BY <1>9 DEF SamePart
<1> HIDE DEF w
<1>11. v \in Bfs!Sphere(l)
  <2>1. k.pc \in {"lock", "read", "write"}
    BY <1>1
  <2> HIDE DEF l
  <2> QED
    BY <1>2, <2>1, EdgeLeads
<1>12. VisitTl(w, t, l)
  <2>1. m.tl[t].pc \in {"edges", "lock", "read", "write"}
    BY <1>1
  <2>2. /\ m.nxt \subseteq w.nxt /\ w.nbrs[m.tl[t].i] \in w.nxt
        /\ x.pc = "edges" /\ x.at = m.tl[t].at /\ x.i = m.tl[t].i + 1
    BY <1>5, <1>7, <1>9, <1>10
  <2> HIDE DEF k, l, v
  <2> QED
    BY <1>2, <1>9, <1>10, <2>1, <2>2, EdgeFound
<1>13. Undisturbed(m, w, t, l)
  <2>1. \A u \in Bfs!Tasklets : u # t => m.tl[u].pc \notin {"read", "write"}
    BY <1>2, <1>6 DEF Visiting, VisitTl
  <2> QED
    BY <1>2, <1>7, <1>9, <1>11, <2>1 DEF Undisturbed
<1> QED
  BY <1>1, <1>2, <1>4, <1>5, <1>8, <1>12, <1>13, VisitPut DEF w, m

-----------------------------------------------------------------------------
(***************************************************************************)
(* The launch is over: every tasklet has found what its share leads to.    *)
(***************************************************************************)
LEMMA LaunchOver ==
  ASSUME BfsInv, host.pc = "wait", Bfs!AllOff, NEW d \in Bfs!Dpus
  PROVE  Empty(dpu[d]) \/ Visiting(dpu[d], host.level)
<1>1. given \in BfsJobs /\ InLaunch(dpu[d], host.level)
  BY BfsDpu
<1>2. 0 \in Bfs!Tasklets
  BY <1>1, BfsTypes
<1>3. dpu[d].tl[0].pc = "off"
  BY <1>2 DEF Bfs!AllOff
<1> QED
  BY <1>1, <1>2, <1>3 DEF InLaunch, Tiling

(* Where a vertex is.                                                      *)
LEMMA HomeOf ==
  ASSUME BfsInv, host.pc = "wait", Bfs!AllOff, NEW v \in Bfs!Verts
  PROVE  \E d \in Bfs!Dpus : \E a \in 0..dpu[d].n-1 :
            /\ d = v \div Bfs!Hint /\ a = v - dpu[d].beg /\ dpu[d].beg + a = v
            /\ Visiting(dpu[d], host.level)
<1> DEFINE d == v \div Bfs!Hint
           b == d * Bfs!Hint
           a == v - b
<1>1. given \in BfsJobs /\ v \in Nat
  BY BfsTypes DEF BfsInv
<1>2. d \in Bfs!Dpus /\ a \in 0..Bfs!NVertInDpu(d)-1
  BY <1>1, VertPart
<1>3. b \in Nat /\ Bfs!NVertInDpu(d) \in Nat
  BY <1>1, <1>2, DpuPart
<1>4. HasPart(d, dpu[d])
  BY <1>2, BfsDpu
<1>5. dpu[d].n = Bfs!NVertInDpu(d) /\ dpu[d].beg = b
  BY <1>4 DEF HasPart
<1> HIDE DEF b
<1>6. a \in 0..dpu[d].n-1 /\ a = v - dpu[d].beg
  BY <1>2, <1>5
<1>7. b + a = v
  BY <1>1, <1>3
<1> HIDE DEF a, d
<1>8. dpu[d].n # 0
  BY <1>3, <1>5, <1>6
<1>9. Visiting(dpu[d], host.level)
  BY <1>2, <1>8, LaunchOver DEF Empty
<1> QED
  BY <1>2, <1>5, <1>6, <1>7, <1>9 DEF d

LEMMA FrontierIs ==
  ASSUME BfsInv, host.pc = "wait", Bfs!AllOff
  PROVE  /\ UNION {dpu[d].nxt : d \in Bfs!Dpus} = Bfs!Sphere(host.level)
         /\ UNION {dpu[d].nxt : d \in {d \in Bfs!Dpus : d = 0 \/ dpu[d].n > 0}} = Bfs!Sphere(host.level)
<1> DEFINE l == host.level
           S == {d \in Bfs!Dpus : d = 0 \/ dpu[d].n > 0}
<1>1. given \in BfsJobs /\ l \in Nat \ {0} /\ l - 1 \in Nat /\ l - 1 + 1 = l
  <2>1. 0 \in Bfs!Dpus
    BY BfsTypes DEF BfsInv
  <2> QED
    BY <2>1, BfsDpu
<1>2. \A d \in Bfs!Dpus : dpu[d].nxt \subseteq Bfs!Sphere(l)
  BY LaunchOver DEF Empty, Visiting
<1>3. \A d \in Bfs!Dpus : HasPart(d, dpu[d])
  BY BfsDpu
<1> HIDE DEF l
<1>4. ASSUME NEW v \in Bfs!Sphere(l) PROVE \E d \in S : v \in dpu[d].nxt
  <2>1. v \notin Before(l) /\ \E u \in Bfs!Sphere(l - 1) : v \in Succ(u)
    BY <1>1, NextSphere
  <2>2. PICK u \in Bfs!Sphere(l - 1) : v \in Succ(u)
    BY <2>1
  <2>3. u \in Bfs!Verts
    BY <1>1, NextBefore
  <2>4. PICK d \in Bfs!Dpus : \E a \in 0..dpu[d].n-1 :
            /\ d = u \div Bfs!Hint /\ a = u - dpu[d].beg /\ dpu[d].beg + a = u
            /\ Visiting(dpu[d], l)
    BY <2>3, HomeOf DEF l
  <2>5. PICK a \in 0..dpu[d].n-1 : dpu[d].beg + a = u /\ Visiting(dpu[d], l)
    BY <2>4
  <2> DEFINE m == dpu[d]
  <2>6. /\ a \in m.cur /\ m.n # 0 /\ \A t \in Bfs!Tasklets : HasFound(m, t, l)
    BY <2>2, <2>5 DEF Visiting, VisitTl
  <2>7. m.n \in Nat
    BY <1>1, <1>3, DpuPart DEF HasPart
  <2>8. given.nt \in Nat \ {0} /\ Bfs!Tasklets = 0..given.nt-1
    BY <1>1, BfsTypes
  <2>9. PICK t \in Bfs!Tasklets : m.tl[t].pc = "off" /\ Bfs!CeilStart(m.n, given.nt, t) <= a
                                  /\ a < Bfs!CeilEnd(m.n, given.nt, t)
    <3> DEFINE n == m.n
    <3>0. n \in Nat /\ a \in 0..n-1
      BY <2>7
    <3> HIDE DEF n
    <3>1. PICK t \in 0..given.nt-1 : a \in CeilItems(n, given.nt, t)
      BY <2>8, <3>0, CeilSharesPartition
    <3>2. t \in Bfs!Tasklets
      BY <2>8
    <3>3. CeilStart(n, given.nt, t) <= a /\ a < CeilEnd(n, given.nt, t)
      <4>1. Bfs!CeilStart(n, given.nt, t) \in Nat /\ Bfs!CeilEnd(n, given.nt, t) \in Nat
        BY <1>1, <1>3, <3>2, ShareIs DEF n
      <4>2. CeilStart(n, given.nt, t) \in Nat /\ CeilEnd(n, given.nt, t) \in Nat
        BY <4>1, BfsCeil
      <4> DEFINE x == CeilStart(n, given.nt, t)
                 y == CeilEnd(n, given.nt, t)
      <4>3. a \in x..y-1 /\ x \in Nat /\ y \in Nat
        BY <3>1, <4>2 DEF CeilItems
      <4> HIDE DEF x, y
      <4>4. x <= a /\ a < y
        BY <4>3
      <4> QED
        BY <4>4 DEF x, y
    <3>4. m.tl[t].pc = "off"
      BY <3>2 DEF Bfs!AllOff
    <3> QED
      BY <3>2, <3>3, <3>4, BfsCeil DEF n
  <2> HIDE DEF m
  <2>10. Found(m, a, l)
    BY <2>5, <2>6, <2>9 DEF HasFound, m
  <2>11. v \in m.nxt
    BY <2>1, <2>2, <2>5, <2>10 DEF Found, m
  <2>12. m.n > 0
    BY <2>6, <2>7
  <2> QED
    BY <2>11, <2>12 DEF m
<1> HIDE DEF S
<1>5. S \subseteq Bfs!Dpus
  BY DEF S
<1>6. UNION {dpu[d].nxt : d \in S} = Bfs!Sphere(l) /\ UNION {dpu[d].nxt : d \in Bfs!Dpus} = Bfs!Sphere(l)
  BY <1>2, <1>4, <1>5
<1> QED
  BY <1>6 DEF S, l

(* The memory m with the united frontier and the next level.               *)
WithFront(m, f, l) == [m EXCEPT !.nxt = f, !.level = l]

LEMMA FrontExcept ==
  ASSUME NEW m, m = PartOf(m), NEW f, NEW l, NEW p, p = WithFront(m, f, l)
  PROVE  /\ p = PartOf(p) /\ p.n = m.n /\ p.beg = m.beg /\ p.off = m.off /\ p.ptrs = m.ptrs
         /\ p.nbrs = m.nbrs /\ p.vis = m.vis /\ p.lvl = m.lvl /\ p.tl = m.tl
         /\ p.nxt = f /\ p.level = l
<1>1. DOMAIN m = {"n", "beg", "level", "off", "ptrs", "nbrs", "lvl", "vis", "cur", "nxt",
                  "lock", "tl"}
  BY DEF PartOf
<1>2. DOMAIN p = DOMAIN m /\ p = [x \in DOMAIN p |-> p[x]]
  BY DEF WithFront
<1>3. p = PartOf(p)
  BY <1>1, <1>2 DEF PartOf
<1>4. /\ p.n = m.n /\ p.beg = m.beg /\ p.off = m.off /\ p.ptrs = m.ptrs
      /\ p.nbrs = m.nbrs /\ p.vis = m.vis /\ p.lvl = m.lvl /\ p.tl = m.tl
      /\ p.nxt = f /\ p.level = l
  BY <1>1 DEF WithFront
<1> QED
  BY <1>3, <1>4

(* A DPU for the next launch.                                              *)
LEMMA NextLaunch ==
  ASSUME BfsInv, host.pc = "wait", Bfs!AllOff, NEW d \in Bfs!Dpus, NEW m,
         m = IF dpu[d].n = 0 THEN dpu[d] ELSE WithFront(dpu[d], Bfs!Sphere(host.level), host.level + 1)
  PROVE  HasPart(d, m) /\ Ready(m, host.level + 1)
<1> DEFINE q == dpu[d]
           l == host.level
<1>1. HasPart(d, q) /\ l \in Nat \ {0}
  BY BfsDpu
<1>2. CASE q.n = 0
  BY <1>1, <1>2, LaunchOver DEF Empty, Visiting, Ready
<1>3. CASE q.n # 0
  <2>1. Visiting(q, l)
    BY <1>3, LaunchOver DEF Empty
  <2>2. m = WithFront(q, Bfs!Sphere(l), l + 1) /\ q = PartOf(q)
    BY <1>1, <1>3, PartIs
  <2>3. q.tl \in [Bfs!Tasklets -> BfsTlType] /\ q.lvl \in [0..q.n-1 -> Nat]
    BY <1>1 DEF HasPart
  <2> HIDE DEF q, l
  <2>4. /\ m = PartOf(m) /\ m.n = q.n /\ m.beg = q.beg /\ m.off = q.off /\ m.ptrs = q.ptrs
        /\ m.nbrs = q.nbrs /\ m.vis = q.vis /\ m.lvl = q.lvl /\ m.tl = q.tl
        /\ m.nxt = Bfs!Sphere(l) /\ m.level = l + 1
    BY <2>2, FrontExcept
  <2>5. HasPart(d, m)
    BY <1>1, <2>3, <2>4, PartKept
  <2> DEFINE b == l + 1
  <2>6. b - 1 = l
    BY <1>1
  <2> HIDE DEF b
  <2>7. Ready(m, b)
    <3>1. /\ q.vis = Before(l)
          /\ \A a \in 0..q.n-1 : RightLevel(q.lvl[a], q.beg + a, l)
      BY <2>1 DEF Visiting
    <3>2. m.n # 0 /\ m.level = b /\ m.nxt = Bfs!Sphere(b - 1) /\ m.vis = Before(b - 1)
      BY <1>3, <2>4, <2>6, <3>1 DEF b, q
    <3>3. \A a \in 0..m.n-1 : RightLevel(m.lvl[a], m.beg + a, b - 1)
      BY <2>4, <2>6, <3>1
    <3> QED
      BY <3>2, <3>3 DEF Ready
  <2> QED
    BY <2>5, <2>7 DEF b, l
<1> QED
  BY <1>2, <1>3

LEMMA CollectKeepsBfs == ASSUME BfsInv, Bfs!Collect PROVE BfsInv'
<1> DEFINE l == host.level
           front == UNION {dpu[d].nxt : d \in {d \in Bfs!Dpus : d = 0 \/ dpu[d].n > 0}}
<1>1. /\ given \in BfsJobs /\ host \in HostType /\ host.pc = "wait" /\ GraphRight(host)
      /\ HostInv(host) /\ l \in Nat \ {0} /\ host.ref.nxt = {} /\ given' = given /\ Bfs!AllOff
      /\ RefRight(host.ref)
  BY HostFields DEF Bfs!Collect, BfsInv, HostInv
<1>2. front = Bfs!Sphere(l)
  BY <1>1, FrontierIs
<1>3. CASE front # {}
  <2>1. /\ host' = [host EXCEPT !.pc = "launch", !.level = l + 1]
        /\ dpu' = [d \in Bfs!Dpus |-> IF dpu[d].n = 0 THEN dpu[d]
                                      ELSE [dpu[d] EXCEPT !.nxt = front, !.level = l + 1]]
    BY <1>3 DEF Bfs!Collect
  <2> HIDE DEF front
  <2>2. \A d \in Bfs!Dpus : dpu'[d] = IF dpu[d].n = 0 THEN dpu[d]
                                      ELSE WithFront(dpu[d], Bfs!Sphere(l), l + 1)
    BY <1>2, <2>1 DEF WithFront
  <2>3. \A d \in Bfs!Dpus : HasPart(d, dpu'[d]) /\ Ready(dpu'[d], l + 1)
    BY <1>1, <2>2, NextLaunch
  <2> HIDE DEF l
  <2>4. l + 1 \in Nat \ {0}
    BY <1>1
  <2>5. /\ host' \in HostType /\ host'.ref = host.ref /\ host'.level = l + 1
        /\ host'.offsets = host.offsets /\ host'.trans = host.trans /\ host'.pc = "launch"
    <3> DEFINE b == l + 1
    <3> HIDE DEF b
    <3> QED
      BY <1>1, <2>1, <2>4 DEF HostType, b
  <2>6. GraphRight(host')
    BY <1>1, <2>5 DEF GraphRight, Placed
  <2>7. HostInv(host')
    BY <1>1, <2>5, <2>6 DEF HostInv
  <2>8. DpusInv(host', dpu')
    BY <2>1, <2>3, <2>5 DEF DpusInv
  <2> QED
    BY <1>1, <2>7, <2>8, InvStays
<1>4. CASE front = {}
  <2> DEFINE f == [v \in Bfs!Verts |-> dpu[v \div Bfs!Hint].lvl[v - dpu[v \div Bfs!Hint].beg]]
  <2>1. host' = [host EXCEPT !.pc = "done", !.lvl = f] /\ dpu' = dpu
    BY <1>4 DEF Bfs!Collect
  <2>2. ASSUME NEW v \in Bfs!Verts PROVE RightLevel(f[v], v, l)
    <3>1. PICK d \in Bfs!Dpus : \E a \in 0..dpu[d].n-1 :
            /\ d = v \div Bfs!Hint /\ a = v - dpu[d].beg /\ dpu[d].beg + a = v
            /\ Visiting(dpu[d], host.level)
      BY <1>1, HomeOf
    <3>2. PICK a \in 0..dpu[d].n-1 : /\ d = v \div Bfs!Hint /\ a = v - dpu[d].beg
                                     /\ dpu[d].beg + a = v /\ Visiting(dpu[d], host.level)
      BY <3>1
    <3>3. f[v] = dpu[d].lvl[a]
      BY <3>2
    <3> HIDE DEF f
    <3> QED
      BY <3>2, <3>3 DEF Visiting
  <2> HIDE DEF f, l
  <2>3. f \in [Bfs!Verts -> Nat]
    <3>1. f = [v \in Bfs!Verts |-> f[v]]
      BY DEF f
    <3> QED
      BY <2>2, <3>1 DEF RightLevel
  <2>4. /\ host' \in HostType /\ host'.ref = host.ref /\ host'.level = l /\ host'.lvl = f
        /\ host'.offsets = host.offsets /\ host'.trans = host.trans /\ host'.pc = "done"
    BY <1>1, <2>1, <2>3 DEF HostType, l
  <2>5. GraphRight(host')
    BY <1>1, <2>4 DEF GraphRight, Placed
  <2>6. HostInv(host')
    BY <1>1, <1>2, <1>4, <2>2, <2>4, <2>5 DEF HostInv
  <2>7. DpusInv(host', dpu')
    BY <1>1, <2>1, <2>4 DEF DpusInv, BfsInv
  <2> QED
    BY <1>1, <2>6, <2>7, InvStays
<1> QED
  BY <1>3, <1>4

-----------------------------------------------------------------------------
LEMMA BfsInit == Bfs!Init => BfsInv
<1> SUFFICES ASSUME Bfs!Init PROVE BfsInv
  OBVIOUS
<1>1. given \in BfsJobs /\ dpu = [d \in Bfs!Dpus |-> <<>>]
  BY DEF Bfs!Init
<1>2. host = [pc |-> "count", i |-> 0, sum |-> 0, level |-> 1, lvl |-> Bfs!Nowhere,
              offsets |-> [v \in 0..given.n |-> 0],
              trans |-> [i \in 0..Bfs!NrEdges-1 |-> 0],
              ref |-> [vis |-> {}, nxt |-> {given.src}, level |-> 1, lvl |-> Bfs!Nowhere]]
  BY DEF Bfs!Init
<1>3. 0 \in Bfs!Verts /\ given.src \in Bfs!Verts /\ Bfs!Nowhere \in [Bfs!Verts -> Nat]
  BY <1>1, BfsTypes DEF Bfs!Nowhere
<1>4. host \in HostType
  <2>1. host.ref \in [vis : SUBSET Bfs!Verts, nxt : SUBSET Bfs!Verts, level : Nat \ {0},
                      lvl : [Bfs!Verts -> Nat]]
    BY <1>2, <1>3
  <2> QED
    BY <1>2, <1>3, <2>1 DEF HostType
<1>5. RefRight(host.ref)
  <2> DEFINE r == host.ref
  <2>1. /\ r.vis = {} /\ r.nxt = {given.src} /\ r.level = 1 /\ r.level - 1 = 0
        /\ \A v \in Bfs!Verts : r.lvl[v] = 0
    BY <1>2 DEF Bfs!Nowhere
  <2>2. Before(0) = {} /\ Bfs!Sphere(0) = {given.src}
    BY <1>1, FirstSphere
  <2> HIDE DEF r
  <2>3. \A v \in Bfs!Verts : RightLevel(r.lvl[v], v, r.level - 1)
    BY <2>1, <2>2 DEF RightLevel
  <2>4. RefRight(r)
    BY <2>1, <2>2, <2>3 DEF RefRight
  <2> QED
    BY <2>4 DEF r
<1>6. Counting(host)
  <2>1. host.i = 0 /\ host.sum = 0 /\ \A v \in Bfs!Verts : host.offsets[v] = 0
    BY <1>1, <1>2, BfsTypes
  <2>2. \A v : FromAt(v, 0) = 0
    <3>1. \A v : EdgesFrom(v, 0) = {}
      BY DEF EdgesFrom
    <3> QED
      BY <3>1, FS_EmptySet DEF FromAt
  <2>3. 0 \in 0..Bfs!NrEdges
    BY <1>1, BfsTypes
  <2> QED
    BY <2>1, <2>2, <2>3 DEF Counting
<1>7. HostInv(host)
  BY <1>2, <1>4, <1>5, <1>6 DEF HostInv
<1>8. DpusInv(host, dpu)
  BY <1>1, <1>2 DEF DpusInv
<1> QED
  BY <1>1, <1>7, <1>8 DEF BfsInv

LEMMA BfsStep == BfsInv /\ given' = given /\ [Bfs!Next]_vars => BfsInv'
<1> SUFFICES ASSUME BfsInv, given' = given, [Bfs!Next]_vars PROVE BfsInv'
  OBVIOUS
<1>1. CASE Bfs!Host
  <2>1. Bfs!CountEdge => BfsInv'
    BY CountEdgeKeeps
  <2>2. Bfs!ScanVertex => BfsInv'
    BY ScanVertexKeeps
  <2>3. Bfs!PlaceEdge => BfsInv'
    BY PlaceEdgeKeeps
  <2>4. Bfs!ShiftOffset => BfsInv'
    BY ShiftOffsetKeeps
  <2>5. Bfs!Reference => BfsInv'
    BY ReferenceKeeps
  <2>6. Bfs!Distribute => BfsInv'
    BY DistributeKeeps
  <2>7. Bfs!Launch => BfsInv'
    BY LaunchKeepsBfs
  <2>8. Bfs!Collect => BfsInv'
    BY CollectKeepsBfs
  <2> QED
    BY <1>1, <2>1, <2>2, <2>3, <2>4, <2>5, <2>6, <2>7, <2>8 DEF Bfs!Host
<1>2. ASSUME NEW d \in Bfs!Dpus, Bfs!Barrier(d) PROVE BfsInv'
  BY <1>2, BfsBarrierKeeps
<1>3. ASSUME NEW d \in Bfs!Dpus, NEW t \in Bfs!Tasklets, Bfs!Tasklet(d, t) PROVE BfsInv'
  BY <1>3, TakeTileKeeps, NextNodeKeeps, NextEdgeKeeps, LockKeeps, ReadKeeps, WriteKeeps
     DEF Bfs!Tasklet
<1>4. CASE UNCHANGED vars
  <2>1. given \in BfsJobs /\ HostInv(host) /\ DpusInv(host, dpu)
    BY DEF BfsInv
  <2>2. host' = host /\ dpu' = dpu
    BY <1>4 DEF vars
  <2>3. HostInv(host') /\ DpusInv(host', dpu')
    BY <2>1, <2>2
  <2> QED
    BY <2>1, <2>3, InvStays
<1> QED
  BY <1>1, <1>2, <1>3, <1>4 DEF Bfs!Next

LEMMA InvGivesLevels == BfsInv => Bfs!LevelsAreDistances
<1> SUFFICES ASSUME BfsInv, host.pc = "done"
             PROVE  Bfs!AreDistances(host.lvl) /\ Bfs!AreDistances(host.ref.lvl)
  BY DEF Bfs!LevelsAreDistances
<1>1. /\ given \in BfsJobs /\ host \in HostType /\ RefRight(host.ref) /\ host.ref.nxt = {}
      /\ Bfs!Sphere(host.level) = {} /\ \A v \in Bfs!Verts : RightLevel(host.lvl[v], v, host.level)
  BY DEF BfsInv, HostInv
<1>2. host.level \in Nat /\ host.ref.level - 1 \in Nat
  <2>1. host.level \in Nat \ {0} /\ host.ref.level \in Nat \ {0}
    BY <1>1, HostFields
  <2> QED
    BY <2>1
<1>3. Bfs!AreDistances(host.lvl)
  <2> DEFINE f == host.lvl
             k == host.level
  <2> HIDE DEF f, k
  <2> QED
    BY <1>1, <1>2, LevelsEnd
<1>4. Bfs!AreDistances(host.ref.lvl)
  <2> DEFINE f == host.ref.lvl
             k == host.ref.level - 1
  <2>1. k \in Nat /\ Bfs!Sphere(k) = {} /\ \A v \in Bfs!Verts : RightLevel(f[v], v, k)
    BY <1>1, <1>2 DEF RefRight
  <2> HIDE DEF f, k
  <2>2. Bfs!AreDistances(f)
    BY <1>1, <2>1, LevelsEnd
  <2> QED
    BY <2>2 DEF f
<1> QED
  BY <1>3, <1>4

LEMMA InvGivesFrontier == BfsInv => Bfs!FrontierComplete
BY FrontierIs DEF Bfs!FrontierComplete

LEMMA BfsAmongApps ==
  /\ AppsInit => (given.app = "BFS" => BfsInv)
  /\ (given.app = "BFS" => BfsInv) /\ [AppsNext]_vars => (given.app = "BFS" => BfsInv)'
<1> DEFINE Inv == given.app = "BFS" => BfsInv
<1>1. AppsInit => Inv
  <2>1. Bins!Init => given.app # "BFS"
    BY BinsAssumption DEF Bins!Init, Bins!BinsAssumption
  <2>2. Trns!Init => given.app # "BFS"
    BY DEF Trns!Init, TrnsJobs
  <2>3. Sums!Init => given.app # "BFS"
    BY DEF Sums!Init, SumJobs
  <2>4. Init => given.app # "BFS"
    BY AppAssumption DEF Init
  <2> QED
    BY <2>1, <2>2, <2>3, <2>4, BfsInit DEF AppsInit
<1>2. Inv /\ [AppsNext]_vars => Inv'
  <2> SUFFICES ASSUME Inv, [AppsNext]_vars, (given.app = "BFS")' PROVE BfsInv'
    OBVIOUS
  <2>1. given' = given
    BY DEF AppsNext, vars
  <2>2. given.app = "BFS" /\ BfsInv
    BY <2>1
  <2>3. [Bfs!Next]_vars
    BY <2>2 DEF AppsNext
  <2> QED
    BY <2>1, <2>2, <2>3, BfsStep
<1> QED
  BY <1>1, <1>2

(* devApp/BFS.c:126 with hostApp/BFS/dpubfsHost.c: whatever the graph, the *)
(* DPUs, the tasklets, the tile and the schedule, the frontiers found in a *)
(* launch are together the vertices that many edges away from the source:  *)
(* no tasklet's mark is lost under another's, and none is found twice.     *)
THEOREM FrontierAmongApps == AppsSpec => []FrontierComplete
<1> DEFINE Inv == given.app = "BFS" => BfsInv
<1>1. AppsInit => Inv
  BY BfsAmongApps
<1>2. Inv /\ [AppsNext]_vars => Inv'
  BY BfsAmongApps
<1>3. Inv => FrontierComplete
  BY InvGivesFrontier DEF FrontierComplete
<1>4. AppsSpec => []Inv
  BY <1>1, <1>2, PTL DEF AppsSpec
<1> QED
  BY <1>3, <1>4, PTL

(* hostApp/BFS/dpubfsHost.c:148-211 and cpubfs.c:134-186: for any graph    *)
(* that covCOOtoCSR is given, the levels read back from the DPUs, and      *)
(* those of the host's own search, are the distances from the source.      *)
THEOREM DistancesAmongApps == AppsSpec => []LevelsAreDistances
<1> DEFINE Inv == given.app = "BFS" => BfsInv
<1>1. AppsInit => Inv
  BY BfsAmongApps
<1>2. Inv /\ [AppsNext]_vars => Inv'
  BY BfsAmongApps
<1>3. Inv => LevelsAreDistances
  BY InvGivesLevels DEF LevelsAreDistances
<1>4. AppsSpec => []Inv
  BY <1>1, <1>2, PTL DEF AppsSpec
<1> QED
  BY <1>3, <1>4, PTL
=============================================================================
