--------------------------------- MODULE Bfs ---------------------------------
(***************************************************************************)
(* Breadth-first search: src/devApp/BFS.c on the DPUs, and src/hostApp/BFS *)
(* on the host, which cuts the graph into runs of vertices, launches all   *)
(* DPUs once per level and sends each of them the union of the frontiers   *)
(* they found.  Bit vectors are sets of vertices, a tile of 64 bits is     *)
(* Tile vertices, and an MRAM heap is a record of the arrays laid out in   *)
(* it.  Barrier and mutex are used as the modules about them promise.      *)
(***************************************************************************)
EXTENDS WorkSplit, Sequences, FiniteSetsExt

CONSTANTS Tile,      \* vertices in one word of a bit vector: 64
          BfsJobs    \* the searches asked for: [app, n, coo, src, dpus, nt]

\* readCOOGraph pads the number of vertices to whole tiles.
BfsAssumption ==
  /\ Tile \in Nat \ {0}
  /\ \A job \in BfsJobs :
       /\ job.app = "BFS" /\ job.n \in Nat \ {0} /\ job.n % Tile = 0 /\ job.src \in 0..job.n-1
       /\ job.coo \in Seq((0..job.n-1) \X (0..job.n-1))
       /\ job.dpus \in Nat \ {0} /\ job.nt \in Nat \ {0}

VARIABLES given, host, dpu

vars == <<given, host, dpu>>

Verts == 0..given.n-1
Dpus == 0..given.dpus-1
Tasklets == 0..given.nt-1
TileOf(v) == {w \in Verts : w \div Tile = v \div Tile}
Nowhere == [v \in Verts |-> 0]

----------------------------------------------------------------------------
NrEdges == Len(given.coo)
From(i) == given.coo[i + 1][1]
To(i) == given.coo[i + 1][2]

Idle == [pc |-> "off", at |-> 0, i |-> 0, tmp |-> {}]

Init == /\ given \in BfsJobs
        /\ host = [pc |-> "count", i |-> 0, sum |-> 0, level |-> 1, lvl |-> Nowhere,
                   offsets |-> [v \in 0..given.n |-> 0],
                   trans |-> [i \in 0..NrEdges-1 |-> 0],
                   ref |-> [vis |-> {}, nxt |-> {given.src}, level |-> 1,
                            lvl |-> Nowhere]]
        /\ dpu = [d \in Dpus |-> <<>>]

\* covCOOtoCSR, a round of a loop at a time: the histogram, the scan, the next
\* free position and the offset of a vertex are one array after another.
CountEdge ==
    /\ host.pc = "count"
    /\ host' = IF host.i < NrEdges
               THEN [host EXCEPT !.i = @ + 1, !.offsets[From(host.i)] = @ + 1]
               ELSE [host EXCEPT !.pc = "scan", !.i = 0]
    /\ UNCHANGED <<given, dpu>>

ScanVertex ==
    /\ host.pc = "scan"
    /\ host' = IF host.i < given.n
               THEN [host EXCEPT !.i = @ + 1, !.sum = @ + host.offsets[host.i],
                                 !.offsets[host.i] = host.sum]
               ELSE [host EXCEPT !.pc = "place", !.i = 0, !.offsets[given.n] = host.sum]
    /\ UNCHANGED <<given, dpu>>

PlaceEdge ==
    /\ host.pc = "place"
    /\ host' = IF host.i < NrEdges
               THEN [host EXCEPT !.i = @ + 1, !.offsets[From(host.i)] = @ + 1,
                                 !.trans[host.offsets[From(host.i)]] = To(host.i)]
               ELSE [host EXCEPT !.pc = "shift", !.i = given.n - 1]
    /\ UNCHANGED <<given, dpu>>

ShiftOffset ==
    /\ host.pc = "shift"
    /\ host' = IF host.i > 0
               THEN [host EXCEPT !.i = @ - 1, !.offsets[host.i] = host.offsets[host.i - 1]]
               ELSE [host EXCEPT !.pc = "reference", !.offsets[0] = 0]
    /\ UNCHANGED <<given, dpu>>

Neighbors(v) == {host.trans[i] : i \in host.offsets[v]..host.offsets[v + 1]-1}

\* One round of bfsHostRef's loop, the search the program checks itself by.
RefLevel(r) ==
    LET vis == r.vis \union r.nxt
        new == (UNION {Neighbors(v) : v \in r.nxt}) \ vis
    IN  [vis |-> vis, nxt |-> new, level |-> r.level + 1,
         lvl |-> [v \in Verts |-> IF v \in r.nxt THEN r.level ELSE r.lvl[v]]]

----------------------------------------------------------------------------
\* bfsDPU: how many vertices a DPU gets, rounded up to whole tiles, and what
\* is sent to it.
\* Mutant: a DPU's vertices end within a tile.
HintUnrounded == (given.n - 1) \div given.dpus + 1

Hint == CeilShare((given.n - 1) \div given.dpus + 1, Tile) * Tile
NVertInDpu(d) == IF d * Hint > given.n THEN 0
                 ELSE IF d * Hint + Hint > given.n THEN given.n - d * Hint ELSE Hint

Partition(d) ==
    LET n == NVertInDpu(d)  beg == d * Hint
        off == IF n = 0 THEN 0 ELSE host.offsets[beg]
        size == IF n = 0 THEN 0 ELSE host.offsets[beg + n] - off
    IN  [n |-> n, beg |-> beg, level |-> 1, off |-> off,
         ptrs |-> [v \in 0..n |-> IF n = 0 THEN 0 ELSE host.offsets[beg + v]],
         nbrs |-> [i \in 0..size-1 |-> host.trans[off + i]],
         lvl |-> [v \in 0..n-1 |-> 0], vis |-> {}, cur |-> {},
         nxt |-> IF n = 0 THEN {} ELSE {given.src}, lock |-> -1,
         tl |-> [t \in Tasklets |-> Idle]]

Reference ==
    /\ host.pc = "reference"
    /\ LET r == RefLevel(host.ref)
       IN  host' = [host EXCEPT !.ref = r,
                                !.pc = IF r.nxt = {} THEN "distribute" ELSE @]
    /\ UNCHANGED <<given, dpu>>

Distribute == /\ host.pc = "distribute"
              /\ dpu' = [d \in Dpus |-> Partition(d)]
              /\ host' = [host EXCEPT !.pc = "launch"]
              /\ UNCHANGED given

Launch == /\ host.pc = "launch"
          /\ dpu' = [d \in Dpus |-> [dpu[d] EXCEPT !.tl = [t \in Tasklets |->
                       [Idle EXCEPT !.pc = "tiles", !.at = t * Tile]]]]
          /\ host' = [host EXCEPT !.pc = "wait"]
          /\ UNCHANGED given

AllOff == \A d \in Dpus, t \in Tasklets : dpu[d].tl[t].pc = "off"

\* The launch is over: unite the frontiers, and either send the union as the
\* next frontier together with the new level, or read the levels back.
Collect ==
    /\ host.pc = "wait" /\ AllOff
    /\ LET front == UNION {dpu[d].nxt : d \in {d \in Dpus : d = 0 \/ dpu[d].n > 0}}
       IN  IF front # {}
           THEN /\ host' = [host EXCEPT !.pc = "launch", !.level = @ + 1]
                /\ dpu' = [d \in Dpus |->
                     IF dpu[d].n = 0 THEN dpu[d]
                     ELSE [dpu[d] EXCEPT !.nxt = front, !.level = host.level + 1]]
           ELSE /\ host' = [host EXCEPT !.pc = "done", !.lvl = [v \in Verts |->
                       dpu[v \div Hint].lvl[v - dpu[v \div Hint].beg]]]
                /\ UNCHANGED dpu
    /\ UNCHANGED given

----------------------------------------------------------------------------
\* The tasklets.  m is the DPU's memory, k the tasklet's own state.

Put(d, t, k, m) == /\ dpu' = [dpu EXCEPT ![d] = [m EXCEPT !.tl[t] = k]]
                   /\ UNCHANGED <<given, host>>
At(d, t, pc) == host.pc = "wait" /\ dpu[d].tl[t].pc = pc

\* First loop: take the next frontier of a tile over into visited, the
\* current frontier and, for the DPU's own vertices, the levels.
TakeTile(d, t) ==
    /\ At(d, t, "tiles")
    /\ LET m == dpu[d]  k == m.tl[t]
           tile == {v \in Verts : v \div Tile = k.at \div Tile}
           new == m.nxt \intersect tile
           own == m.beg <= k.at /\ k.at < m.beg + m.n
       IN  IF m.n = 0 THEN Put(d, t, Idle, m)
           ELSE IF k.at >= given.n THEN Put(d, t, [k EXCEPT !.pc = "barrier"], m)
           ELSE Put(d, t, [k EXCEPT !.at = @ + given.nt * Tile],
                  [m EXCEPT !.vis = @ \union new, !.nxt = @ \ tile,
                            !.cur = IF own THEN (@ \ {v - m.beg : v \in tile})
                                                  \union {v - m.beg : v \in new} ELSE @,
                            !.lvl = [v \in DOMAIN @ |->
                               IF own /\ v + m.beg \in new THEN m.level ELSE @[v]]])

\* The barrier lets the tasklets into the second loop together.
Barrier(d) ==
    /\ host.pc = "wait"
    /\ \A t \in Tasklets : dpu[d].tl[t].pc = "barrier"
    /\ dpu' = [dpu EXCEPT ![d].tl = [t \in Tasklets |->
                 [Idle EXCEPT !.pc = "nodes", !.at = CeilStart(dpu[d].n, given.nt, t)]]]
    /\ UNCHANGED <<given, host>>

\* Second loop: the neighbours of a frontier vertex one by one.
NextNode(d, t) ==
    /\ At(d, t, "nodes")
    /\ LET m == dpu[d]  k == m.tl[t]
       IN  IF k.at >= CeilEnd(m.n, given.nt, t) THEN Put(d, t, Idle, m)
           ELSE IF k.at \notin m.cur THEN Put(d, t, [k EXCEPT !.at = @ + 1], m)
           ELSE Put(d, t, [k EXCEPT !.pc = "edges", !.i = m.ptrs[k.at] - m.off], m)

NextEdge(d, t) ==
    /\ At(d, t, "edges")
    /\ LET m == dpu[d]  k == m.tl[t]
       IN  IF k.i >= m.ptrs[k.at + 1] - m.off
           THEN Put(d, t, [k EXCEPT !.pc = "nodes", !.at = @ + 1], m)
           ELSE IF m.nbrs[k.i] \in m.vis THEN Put(d, t, [k EXCEPT !.i = @ + 1], m)
           ELSE Put(d, t, [k EXCEPT !.pc = "lock"], m)

\* The read-modify-write of the shared word, under nextFrontierMutex.
\* Mutant: nobody looks whether the mutex is taken.
LockAnyway(d, t) == /\ At(d, t, "lock")
                    /\ Put(d, t, [dpu[d].tl[t] EXCEPT !.pc = "read"],
                           [dpu[d] EXCEPT !.lock = t])

Lock(d, t) == /\ At(d, t, "lock") /\ dpu[d].lock = -1
              /\ Put(d, t, [dpu[d].tl[t] EXCEPT !.pc = "read"],
                     [dpu[d] EXCEPT !.lock = t])
Read(d, t) ==
    /\ At(d, t, "read")
    /\ LET m == dpu[d]  k == m.tl[t]
       IN  Put(d, t, [k EXCEPT !.pc = "write",
                               !.tmp = m.nxt \intersect TileOf(m.nbrs[k.i])], m)
Write(d, t) ==
    /\ At(d, t, "write")
    /\ LET m == dpu[d]  k == m.tl[t]  v == m.nbrs[k.i]
       IN  Put(d, t, [k EXCEPT !.pc = "edges", !.i = @ + 1, !.tmp = {}],
               [m EXCEPT !.nxt = (@ \ TileOf(v)) \union k.tmp \union {v}, !.lock = -1])

Tasklet(d, t) == \/ TakeTile(d, t) \/ NextNode(d, t) \/ NextEdge(d, t)
                 \/ Lock(d, t) \/ Read(d, t) \/ Write(d, t)
Host == \/ CountEdge \/ ScanVertex \/ PlaceEdge \/ ShiftOffset
        \/ Reference \/ Distribute \/ Launch \/ Collect
Next == \/ Host
        \/ \E d \in Dpus : Barrier(d) \/ \E t \in Tasklets : Tasklet(d, t)

Fairness == WF_vars(Next)
Spec == Init /\ [][Next]_vars /\ Fairness

----------------------------------------------------------------------------
\* The graph's walks of k edges from the source, where they end, and what is
\* exactly k edges away.
Edges == {given.coo[i] : i \in DOMAIN given.coo}
Walks(k) == {p \in [0..k -> Verts] :
               p[0] = given.src /\ \A i \in 0..k-1 : <<p[i], p[i + 1]>> \in Edges}
Ends(k) == {p[k] : p \in Walks(k)}
Sphere(k) == {v \in Ends(k) : \A j \in 0..k-1 : v \notin Ends(j)}

\* Distances are counted from 1, and 0 where there is no walk; the shortest
\* one visits no vertex twice.
AreDistances(lvl) == \A v \in Verts : IF lvl[v] = 0 THEN \A k \in 0..given.n-1 : v \notin Ends(k)
                                      ELSE v \in Sphere(lvl[v] - 1)

\* The levels read back from the DPUs, and those of the host's own search,
\* are the distances in the graph (BFS.c:105-135 with dpubfsHost.c:148-211 and
\* cpubfs.c:134-186).
LevelsAreDistances == host.pc = "done" => AreDistances(host.lvl) /\ AreDistances(host.ref.lvl)

\* Two tasklets that add to the same word of the next frontier lose no vertex:
\* when a launch is over, every unvisited neighbour of the frontier is there.
FrontierComplete ==
    (host.pc = "wait" /\ AllOff) => UNION {dpu[d].nxt : d \in Dpus} = Sphere(host.level)
=============================================================================
