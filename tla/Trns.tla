-------------------------------- MODULE Trns --------------------------------
(***************************************************************************)
(* Matrix transposition: src/devApp/TRNS.c and src/hostApp/TRNS.c.  Each   *)
(* DPU gets n columns of the matrix, transposes its m-by-n tiles in a      *)
(* first launch, and in a second one moves the rows of the tiles along the *)
(* cycles of the remaining permutation, in place: the tasklets draw start  *)
(* tiles from a counter and meet in the same cycles, where a done flag for *)
(* each position decides who writes it.                                    *)
(*                                                                         *)
(* An element of the matrix is its index in the input.  The counter and    *)
(* the flags are read and written under mutexes, in one action here.       *)
(***************************************************************************)
EXTENDS Integers, Sequences

CONSTANT Jobs     \* the transpositions asked for: [mb, m, nb, n, dpus, nt]

\* A tile of 8-byte elements is one DMA transfer; the host's are 4 by 8.
TrnsAssumption == \A job \in Jobs : job.m * job.n * 8 <= 2048

VARIABLES given, host, dpu

vars == <<given, host, dpu>>

Tasklets == 0..given.nt-1
Rows == given.mb * given.m
Cols == given.nb * given.n
Cells == 0..Rows*Cols-1
HeapSize == Rows * given.n
TileMax == given.mb * given.n - 1
DpuSet == DOMAIN dpu

\* The index arithmetic both sides use for transposing a rows-by-cols matrix.
Moved(i, rows, cols) == i * rows - (rows * cols - 1) * (i \div cols)

\* trns_host: the reference.
HostRef == LET from(k) == CHOOSE i \in Cells : Moved(i, Rows, Cols) = k
           IN  [k \in Cells |-> from(k)]

NoData == <<>>
Idle == [pc |-> "off", tile |-> 0, nxt |-> 0, data |-> NoData, back |-> NoData,
         done |-> FALSE]
\* What a load leaves: the counter of tiles is 0 and is not reset later.
Loaded == [heap |-> NoData, flags |-> {}, curr |-> 0,
           tl |-> [t \in Tasklets |-> Idle]]

Init == /\ given \in Jobs
        /\ host = [pc |-> "round", curr |-> 0, nr |-> given.dpus, before |-> 0,
                   first |-> TRUE, result |-> [k \in Cells |-> -1]]
        /\ dpu = <<>>

\* Mutant: the DPUs are kept when a round has as many as the one before.
RoundKeepsDpus ==
    /\ host.pc = "round"
    /\ LET left == given.nb - host.curr
           active == IF left > host.nr THEN host.nr ELSE left
       IN  IF left <= 0 THEN /\ host' = [host EXCEPT !.pc = "done"]
                             /\ UNCHANGED dpu
           ELSE /\ dpu' = IF host.first \/ host.nr # active
                          THEN [d \in 0..active-1 |-> Loaded] ELSE dpu
                /\ host' = [host EXCEPT !.pc = "push", !.nr = active]
    /\ UNCHANGED given

\* The head of a round: as many DPUs as columns are left.  They are freed,
\* allocated and loaded anew unless the round is as large as the one before;
\* but active_dpus_before stays 0, so they always are, and the counter of
\* tiles, which nobody resets, starts from 0.
Round ==
    /\ host.pc = "round"
    /\ LET left == given.nb - host.curr
           active == IF left > host.nr THEN host.nr ELSE left
       IN  IF left <= 0 THEN /\ host' = [host EXCEPT !.pc = "done"]
                             /\ UNCHANGED dpu
           ELSE IF host.first \/ host.before # active
           THEN /\ dpu' = [d \in 0..active-1 |-> Loaded]
                /\ host' = [host EXCEPT !.pc = "push", !.nr = active]
           ELSE /\ host' = [host EXCEPT !.pc = "push"] /\ UNCHANGED dpu
    /\ UNCHANGED given

\* Row by row, each DPU gets its columns; the flags are cleared; launch.
Push ==
    /\ host.pc = "push"
    /\ dpu' = [d \in DpuSet |-> [dpu[d] EXCEPT
                 !.heap = [x \in 0..HeapSize-1 |->
                     (x \div given.n) * Cols + given.n * (d + host.curr) + (x % given.n)],
                 !.flags = {},
                 !.tl = [t \in Tasklets |-> [Idle EXCEPT !.pc = "tiles", !.tile = t]]]]
    /\ host' = [host EXCEPT !.pc = "kernel0"]
    /\ UNCHANGED given

AllOff == \A d \in DpuSet, t \in Tasklets : dpu[d].tl[t].pc = "off"

Relaunch ==
    /\ host.pc = "kernel0" /\ AllOff
    /\ dpu' = [d \in DpuSet |-> [dpu[d] EXCEPT
                 !.tl = [t \in Tasklets |-> [Idle EXCEPT !.pc = "get"]]]]
    /\ host' = [host EXCEPT !.pc = "kernel1"]
    /\ UNCHANGED given

Pull ==
    /\ host.pc = "kernel1" /\ AllOff
    /\ LET off(d) == (host.curr + d) * HeapSize
       IN  host' = [host EXCEPT !.pc = "round", !.first = FALSE,
                      !.curr = @ + host.nr,
                      !.result = [k \in Cells |->
                         IF \E d \in DpuSet : k \in off(d)..off(d)+HeapSize-1
                         THEN dpu[k \div HeapSize - host.curr].heap[k % HeapSize]
                         ELSE @[k]]]
    /\ UNCHANGED <<given, dpu>>

----------------------------------------------------------------------------
Put(d, t, k, m) == /\ dpu' = [dpu EXCEPT ![d] = [m EXCEPT !.tl[t] = k]]
                   /\ UNCHANGED <<given, host>>
At(d, t, pc) == dpu[d].tl[t].pc = pc
K(d, t) == dpu[d].tl[t]

\* Tiles in MRAM.  The loops over pieces of 2048 bytes advance the WRAM pointer
\* by elements times the size of one, too far for a second piece, so that only
\* tiles of one piece (TrnsAssumption) are read and written as meant.
ReadTile(heap, off, size) == [x \in 0..size-1 |-> heap[off + x]]
WriteTile(heap, off, tile) == [x \in DOMAIN heap |->
                                 IF x - off \in DOMAIN tile THEN tile[x - off] ELSE heap[x]]

\* main_kernel1: transpose every nt-th tile through buffers of one's own, which
\* mem_alloc has handed out after tasklet 0's mem_reset and a barrier.
TransposeTile(d, t) ==
    /\ At(d, t, "tiles")
    /\ LET mn == given.m * given.n
           off == K(d, t).tile * mn
           data == ReadTile(dpu[d].heap, off, mn)
           backup == [i \in 0..mn-1 |->
                        data[CHOOSE x \in 0..mn-1 : Moved(x, given.m, given.n) = i]]
       IN  IF K(d, t).tile >= given.mb THEN Put(d, t, Idle, dpu[d])
           ELSE Put(d, t, [K(d, t) EXCEPT !.tile = @ + given.nt],
                    [dpu[d] EXCEPT !.heap = WriteTile(@, off, backup)])

\* main_kernel2.  A tile here is a row of m elements.
Row(d, i) == ReadTile(dpu[d].heap, i * given.m, given.m)
WriteRow(d, i, row) == [dpu[d] EXCEPT !.heap = WriteTile(@, i * given.m, row)]
Next1(i) == i * given.mb - TileMax * (i \div given.n)

GetTile(d, t) ==
    /\ At(d, t, "get")
    /\ LET i == dpu[d].curr
           pc == IF i >= TileMax THEN "off" ELSE IF Next1(i) = i THEN "get" ELSE "read"
       IN  Put(d, t, IF pc = "off" THEN Idle
                     ELSE [Idle EXCEPT !.pc = pc, !.tile = i, !.nxt = Next1(i)],
               [dpu[d] EXCEPT !.curr = @ + 1])

ReadFirst(d, t) == /\ At(d, t, "read")
                   /\ Put(d, t, [K(d, t) EXCEPT !.pc = "ask",
                                                !.data = Row(d, K(d, t).tile)], dpu[d])

GetDone(d, t) ==
    /\ At(d, t, "ask")
    /\ Put(d, t, [K(d, t) EXCEPT !.pc = IF K(d, t).tile \in dpu[d].flags
                                        THEN "get" ELSE "follow"], dpu[d])

ReadNext(d, t) == /\ At(d, t, "follow")
                  /\ Put(d, t, [K(d, t) EXCEPT !.pc = "claim",
                                               !.back = Row(d, K(d, t).nxt)], dpu[d])

GetAndSetDone(d, t) ==
    /\ At(d, t, "claim")
    /\ LET k == K(d, t)
       IN  Put(d, t, [k EXCEPT !.pc = IF k.nxt \in dpu[d].flags THEN "get" ELSE "write"],
               [dpu[d] EXCEPT !.flags = @ \union {k.nxt}])

WriteNext(d, t) ==
    /\ At(d, t, "write")
    /\ LET k == K(d, t)
       IN  Put(d, t, [k EXCEPT !.pc = "follow", !.data = k.back, !.back = NoData,
                               !.nxt = Next1(@)],
               WriteRow(d, k.nxt, k.data))

Tasklet(d, t) ==
    \/ TransposeTile(d, t) \/ GetTile(d, t) \/ ReadFirst(d, t) \/ GetDone(d, t)
    \/ ReadNext(d, t) \/ GetAndSetDone(d, t) \/ WriteNext(d, t)

Next == \/ Round \/ Push \/ Relaunch \/ Pull
        \/ \E d \in DpuSet, t \in Tasklets : Tasklet(d, t)

Fairness == WF_vars(Next)
Spec == Init /\ [][Next]_vars /\ Fairness

----------------------------------------------------------------------------
\* The assembled result is the transposed matrix, whichever tasklets met in
\* which cycles and however many rounds of DPUs it took (TRNS.c:113-141,
\* hostApp/TRNS.c:45-125).
Transposed == host.pc = "done" =>
    /\ host.result = HostRef
    /\ \A r \in 0..Rows-1, c \in 0..Cols-1 : host.result[c * Rows + r] = r * Cols + c
=============================================================================
