--------------------------------- MODULE Nw ---------------------------------
(***************************************************************************)
(* Needleman-Wunsch alignment: src/devApp/NW.c and src/hostApp/NW.c.  The  *)
(* score table is cut into tiles; the host sends the tiles of one          *)
(* anti-diagonal of tiles (a wave) with their borders to as many DPUs and  *)
(* reads the filled tiles back; in a DPU the tasklets fill a tile one      *)
(* anti-diagonal of cells at a time, with a barrier after each.            *)
(*                                                                         *)
(* DPUs without a tile in a wave keep the tile of an earlier wave and fill *)
(* it again.  The south row, the east column and the corner a tile returns *)
(* are not looked at by the host and left out.                             *)
(***************************************************************************)
EXTENDS WorkSplit, Sequences, FiniteSetsExt

CONSTANTS TileSz,    \* TILESZ and MAX_TILE_SIZE
          Jobs       \* the alignments asked for: [s1, s2, dpus, nt]

Tiles(s) == (Len(s) + TileSz - 1) \div TileSz

\* No wave has more tiles than there are DPUs: the host gives up when one has
\* (hostApp/NW.c:109).
ASSUME NwAssumption ==
  /\ TileSz \in Nat \ {0}
  /\ \A job \in Jobs :
       /\ job.s1 \in Seq(Int) /\ job.s2 \in Seq(Int) /\ job.s1 # <<>> /\ job.s2 # <<>>
       /\ job.dpus \in Nat /\ job.nt \in Nat \ {0}
       /\ Tiles(job.s1) <= job.dpus \/ Tiles(job.s2) <= job.dpus

VARIABLES given, host, dpu

vars == <<given, host, dpu>>

Len1 == Len(given.s1)
Len2 == Len(given.s2)
Dpus == 0..given.dpus-1
Tasklets == 0..given.nt-1
Match(a, b) == IF a = b THEN 2 ELSE -1
Gap == -1
Score(diag, north, west, a, b) == Max({diag + Match(a, b), north + Gap, west + Gap})

\* The reference.
SequentialNw(s1, s2) ==
    LET dp[c \in (0..Len(s1)) \X (0..Len(s2))] ==
          IF c[1] = 0 THEN c[2] * Gap ELSE IF c[2] = 0 THEN c[1] * Gap
          ELSE Score(dp[<<c[1]-1, c[2]-1>>], dp[<<c[1]-1, c[2]>>], dp[<<c[1], c[2]-1>>],
                     s1[c[1]], s2[c[2]])
    IN  dp
Ref == SequentialNw(given.s1, given.s2)

TileRows == Tiles(given.s1)
TileCols == Tiles(given.s2)
Waves == TileRows + TileCols - 1
\* The tiles of a wave, by the DPU they go to: top rows first.
TilesOf(w) == {<<r, w - r>> : r \in {r \in 0..TileRows-1 : w - r \in 0..TileCols-1}}
TileFor(w, d) == LET top == Min({rc[1] : rc \in TilesOf(w)}) IN <<top + d, w - top - d>>
Border == [c \in (0..Len1) \X (0..Len2) |->
             IF c[1] = 0 THEN c[2] * Gap ELSE IF c[2] = 0 THEN c[1] * Gap ELSE 0]

NoTile == [h |-> 0, w |-> 0, corner |-> 0, north |-> <<>>, west |-> <<>>,
           s1 |-> <<>>, s2 |-> <<>>]
Cell == (0..TileSz-1) \X (0..TileSz-1)
Idle == [pc |-> "off", diag |-> 0, k |-> 0]

Init == /\ given \in Jobs
        /\ host = [pc |-> "send", wave |-> 0, dp |-> Border]
        /\ dpu = [d \in Dpus |-> [in |-> NoTile, dp |-> [c \in Cell |-> 0],
                                  tl |-> [t \in Tasklets |-> Idle]]]

\* A tile with the cells next to it, as read from the table so far.
TileIn(r, c) ==
    LET i == r * TileSz + 1  j == c * TileSz + 1
        h == Min({i + TileSz - 1, Len1}) - i + 1
        w == Min({j + TileSz - 1, Len2}) - j + 1
    IN  [h |-> h, w |-> w, corner |-> host.dp[<<i - 1, j - 1>>],
         north |-> [x \in 0..w-1 |-> host.dp[<<i - 1, j + x>>]],
         west |-> [x \in 0..h-1 |-> host.dp[<<i + x, j - 1>>]],
         s1 |-> [x \in 0..h-1 |-> given.s1[i + x]],
         s2 |-> [x \in 0..w-1 |-> given.s2[j + x]]]

Send ==
    /\ host.pc = "send"
    /\ LET n == Cardinality(TilesOf(host.wave))
       IN  dpu' = [d \in Dpus |-> [dpu[d] EXCEPT
              !.in = IF d < n THEN TileIn(TileFor(host.wave, d)[1],
                                          TileFor(host.wave, d)[2]) ELSE @,
              !.tl = [t \in Tasklets |-> [Idle EXCEPT !.pc = "start"]]]]
    /\ host' = [host EXCEPT !.pc = "wait"]
    /\ UNCHANGED given

Collect ==
    /\ host.pc = "wait"
    /\ \A d \in Dpus, t \in Tasklets : dpu[d].tl[t].pc = "off"
    /\ LET tile(c) == <<(c[1] - 1) \div TileSz, (c[2] - 1) \div TileSz>>
           cell(c) == <<(c[1] - 1) % TileSz, (c[2] - 1) % TileSz>>
           by(c) == CHOOSE d \in Dpus : TileFor(host.wave, d) = tile(c)
       IN  host' = [host EXCEPT
              !.pc = IF host.wave + 1 = Waves THEN "done" ELSE "send",
              !.wave = @ + 1,
              !.dp = [c \in DOMAIN @ |->
                 IF c[1] > 0 /\ c[2] > 0 /\ tile(c) \in TilesOf(host.wave)
                 THEN dpu[by(c)].dp[cell(c)] ELSE @[c]]]
    /\ UNCHANGED <<given, dpu>>

----------------------------------------------------------------------------
Put(d, t, k, m) == /\ dpu' = [dpu EXCEPT ![d] = [m EXCEPT !.tl[t] = k]]
                   /\ UNCHANGED <<given, host>>
At(d, t, pc) == dpu[d].tl[t].pc = pc

Start(d, t) ==
    /\ At(d, t, "start")
    /\ Put(d, t, IF dpu[d].in.h = 0 \/ dpu[d].in.w = 0 THEN Idle
                 ELSE [Idle EXCEPT !.pc = "cells"], dpu[d])

\* The rows of a diagonal's cells, and the share of tasklet t: its first row
\* and how many it fills.
FirstRow(in, g) == IF g < in.w THEN 0 ELSE g - in.w + 1
LastRow(in, g) == IF g < in.h THEN g ELSE in.h - 1
\* Mutant: the cells that do not divide evenly are nobody's.
ShareNoRest(in, g, t) ==
    LET q == (LastRow(in, g) - FirstRow(in, g) + 1) \div given.nt
    IN  [first |-> FirstRow(in, g) + t * q, count |-> q]

Share(in, g, t) ==
    LET n == LastRow(in, g) - FirstRow(in, g) + 1
    IN  [first |-> FirstRow(in, g) + EvenStart(n, given.nt, t),
         count |-> EvenCount(n, given.nt, t)]

\* A cell from its three neighbours, in the tile or next to it.
CellOf(m, i, j) ==
    LET in == m.in
        north == IF i = 0 THEN in.north[j] ELSE m.dp[<<i - 1, j>>]
        west == IF j = 0 THEN in.west[i] ELSE m.dp[<<i, j - 1>>]
        diag == IF i = 0 /\ j = 0 THEN in.corner
                ELSE IF i = 0 THEN in.north[j - 1]
                ELSE IF j = 0 THEN in.west[i - 1] ELSE m.dp[<<i - 1, j - 1>>]
    IN  Score(diag, north, west, in.s1[i], in.s2[j])

\* Fill the next cell of the share, or go to the barrier.
FillCell(d, t) ==
    /\ At(d, t, "cells")
    /\ LET m == dpu[d]  k == m.tl[t]
           i == Share(m.in, k.diag, t).first + k.k
       IN  IF k.k = Share(m.in, k.diag, t).count
           THEN Put(d, t, [k EXCEPT !.pc = "barrier"], m)
           ELSE Put(d, t, [k EXCEPT !.k = @ + 1],
                  [m EXCEPT !.dp[<<i, k.diag - i>>] = CellOf(m, i, k.diag - i)])

Barrier(d) ==
    /\ \A t \in Tasklets : At(d, t, "barrier")
    /\ dpu' = [dpu EXCEPT ![d].tl = [t \in Tasklets |->
                 IF @[t].diag + 1 = dpu[d].in.h + dpu[d].in.w - 1 THEN Idle
                 ELSE [pc |-> "cells", diag |-> @[t].diag + 1, k |-> 0]]]
    /\ UNCHANGED <<given, host>>

Next == \/ Send \/ Collect
        \/ \E d \in Dpus : \/ Barrier(d)
                           \/ \E t \in Tasklets : Start(d, t) \/ FillCell(d, t)

Spec == Init /\ [][Next]_vars /\ WF_vars(Next)

----------------------------------------------------------------------------
\* The table put together from the tiles is the one the host fills by itself
\* (NW.c:71-135, hostApp/NW.c:102-208): no cell is computed before the cells
\* it needs, in its tile or in another.
Aligned == host.pc = "done" => host.dp = Ref
=============================================================================
