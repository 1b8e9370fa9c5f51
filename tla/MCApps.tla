-------------------------------- MODULE MCApps --------------------------------
(* The applications, host side and device side together, one per behaviour.  *)
(* Every job is small, and larger than one tasklet's, one DPU's or one        *)
(* buffer's share, so that the splits have remainders.                        *)
EXTENDS Nw

CONSTANTS Tile, BfsJobs,                      \* those of Bfs
          Cap, NumBins, BinsPerMutex, BinJobs   \* those of Bins

\* Directed graphs with two ways to a vertex, a cycle, and a loop; in the
\* last one two tasklets find vertices of the same word at the same time.
MCBfsJobs ==
  {[app |-> "BFS", n |-> 4, coo |-> c, src |-> s, dpus |-> 3, nt |-> 2] :
     s \in {0, 3}, c \in {<<<<0, 1>>, <<0, 2>>, <<1, 3>>, <<2, 3>>>>,
                        <<<<2, 2>>, <<0, 1>>, <<1, 2>>, <<0, 3>>>>}}
  \union
  {[app |-> "BFS", n |-> 6, coo |-> c, src |-> 0, dpus |-> d, nt |-> 2] :
     d \in 1..2, c \in {<<<<3, 1>>, <<3, 0>>, <<1, 0>>, <<0, 3>>>>,
                      <<<<0, 1>>, <<0, 3>>, <<1, 4>>, <<3, 5>>>>}}

TrnsJobs ==
  {[app |-> "TRNS", mb |-> 3, m |-> 2, nb |-> 2, n |-> 2, dpus |-> 1, nt |-> 2],
   [app |-> "TRNS", mb |-> 2, m |-> 1, nb |-> 1, n |-> 4, dpus |-> 2, nt |-> 2],
   [app |-> "TRNS", mb |-> 2, m |-> 1, nb |-> 3, n |-> 2, dpus |-> 2, nt |-> 1],
   [app |-> "TRNS", mb |-> 3, m |-> 1, nb |-> 1, n |-> 2, dpus |-> 1, nt |-> 3]}

NwJobs ==
  {[app |-> "NW", s1 |-> a, s2 |-> <<2, 1, 2>>, dpus |-> 2, nt |-> 2] :
     a \in {<<1, 2, 1>>, <<1, 1, 2, 2>>}}

SumJobs ==
  {[app |-> a, dat |-> x, dpus |-> d, nt |-> t] :
     a \in {"RED", "SCAN", "SCANSSA"}, t \in 1..3, d \in 1..2,
     x \in {<<1, 2, 3, 1, 4, 2, 1, 0>>, <<1, 2, 1, 3, 1, 1, 0, 1, 2, 1>>}}
  \union {[app |-> "UNI", dat |-> <<0, 0, 1, 1, 2>>, dpus |-> d, nt |-> 1] : d \in 1..2}

MCBinJobs ==
  {[app |-> a, dat |-> x, dpus |-> d, nt |-> 2] :
     a \in {"COMPACT", "HST", "HSTS"}, d \in 1..2,
     x \in {<<1, 3, 2, 1, 5, 7>>, <<3, 3, 1, 0, 4, 3>>}}

Bfs == INSTANCE Bfs
Trns == INSTANCE Trns WITH Jobs <- TrnsJobs
Sums == INSTANCE Sums WITH Word <- 16, Chunk <- 2, Jobs <- SumJobs
Bins == INSTANCE Bins

ASSUME BfsAssumption == Bfs!BfsAssumption
ASSUME TrnsAssumption == Trns!TrnsAssumption
ASSUME BinsAssumption == Bins!BinsAssumption
ASSUME AppAssumption == \A job \in Jobs : job.app = "NW"

AppsInit == Bfs!Init \/ Trns!Init \/ Init \/ Sums!Init \/ Bins!Init

AppsNext ==
  /\ UNCHANGED given
  /\ \/ given.app = "BFS" /\ Bfs!Next
     \/ given.app = "TRNS" /\ Trns!Next
     \/ given.app = "NW" /\ Next
     \/ given.app \in {"RED", "SCAN", "SCANSSA", "UNI"} /\ Sums!Next
     \/ given.app \in {"COMPACT", "HST", "HSTS"} /\ Bins!Next

\* RvDpuRun goes on as long as a tasklet can.
AppsSpec == AppsInit /\ [][AppsNext]_vars /\ WF_vars(AppsNext)
-------------------------------------------------------------------------------
\* devApp/BFS.c: a vertex's level is its distance from the source, whatever
\* the order of the tasklets within a round.
LevelsAreDistances == given.app = "BFS" => Bfs!LevelsAreDistances

\* devApp/BFS.c:126: neighbours that share a word of the frontier are marked
\* under its mutex, and none of them is lost.
FrontierComplete == given.app = "BFS" => Bfs!FrontierComplete

\* devApp/TRNS.c:113: tasklets that follow the same cycle of tiles move each
\* tile once, and the host starts as many as there are left.
Transposed == given.app = "TRNS" => Trns!Transposed

\* hostApp/NW.c:76: every tile of a wave has the borders that the waves
\* before it have computed.
TableIsRef == given.app = "NW" => Aligned

\* devApp/RED.c, SCAN.c, SCANSSA.c, UNI.c: the shares of DPUs, tasklets and
\* chunks cover the input once, and what they hand on arrives complete.
SumsAreRight ==
  given.app \in {"RED", "SCAN", "SCANSSA", "UNI"} => Sums!SumsAreRight

\* devApp/COMPACT.c:49, HST.c:69, HSTS.c:61: what several tasklets put into
\* the same output or the same bin is neither lost nor counted twice.
NothingLostOrDoubled ==
  given.app \in {"COMPACT", "HST", "HSTS"} => Bins!NothingLostOrDoubled

\* Every launch of every application ends, those whose tasklets wait for a
\* lock or a barrier too, and the host comes to its result.
EveryAppEnds == <>(host.pc = "done")
===============================================================================
