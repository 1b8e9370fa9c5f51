-------------------------------- MODULE Sums --------------------------------
(***************************************************************************)
(* Reductions and scans: src/devApp/RED.c, SCAN.c, SCANSSA.c and UNI.c     *)
(* with their host programs.  Every tasklet sums its share; RED and SCAN   *)
(* add the partial sums up behind a barrier, SCANSSA along a chain of      *)
(* handshakes, UNI under a mutex.  SCAN's host adds up the DPUs and        *)
(* launches again: a word of WRAM tells the second launch from the first.  *)
(***************************************************************************)
EXTENDS WorkSplit, Sequences, FiniteSetsExt

CONSTANTS Word,      \* 2^32, scaled down
          Chunk,     \* words in a WRAM buffer: 128
          Jobs       \* the runs asked for: [app, dat, dpus, nt]

VARIABLES given, host, dpu

vars == <<given, host, dpu>>

Dpus == 0..given.dpus-1
Tasklets == 0..given.nt-1
Scans == {"SCAN", "SCANSSA"}
\* UNI broadcasts all data to every DPU, the others cut it into equal parts.
NrWord == IF given.app = "UNI" THEN Len(given.dat) ELSE Len(given.dat) \div given.dpus
Part(d) == IF given.app = "UNI" THEN 0 ELSE d * NrWord
Total(f(_), S) == FoldSet(LAMBDA i, s : (s + f(i)) % Word, 0, S)
NoSum == Word - 1

Init == /\ given \in Jobs
        /\ host = [pc |-> "push", out |-> [i \in 0..Len(given.dat)-1 |-> 0]]
        /\ dpu = [d \in Dpus |-> [mem |-> [i \in 0..NrWord-1 |-> 0], init |-> NoSum,
                    red |-> 0, tlRed |-> [t \in Tasklets |-> 0], tmp |-> 0, lock |-> -1,
                    pc |-> [t \in Tasklets |-> "off"]]]

Started == [t \in Tasklets |-> "start"]
AllOff == \A d \in Dpus, t \in Tasklets : dpu[d].pc[t] = "off"

Push == /\ host.pc = "push"
        /\ dpu' = [d \in Dpus |-> [dpu[d] EXCEPT !.pc = Started,
                     !.mem = [i \in DOMAIN @ |-> given.dat[Part(d) + i + 1]]]]
        /\ host' = [host EXCEPT !.pc = "first"]
        /\ UNCHANGED given

\* The spine on the host: what lies before each DPU, sent as its initSum.
Spine == /\ host.pc = "first" /\ AllOff /\ given.app \in Scans
         /\ dpu' = [d \in Dpus |-> [dpu[d] EXCEPT !.pc = Started,
                      !.init = Total(LAMBDA e : dpu[e].red, 0..d-1)]]
         /\ host' = [host EXCEPT !.pc = "second"]
         /\ UNCHANGED given

Collect ==
    /\ AllOff /\ host.pc = IF given.app \in Scans THEN "second" ELSE "first"
    /\ host' = [host EXCEPT !.pc = "done", !.out =
          CASE given.app = "RED" -> [i \in {0} |-> Total(LAMBDA d : dpu[d].red, Dpus)]
            [] given.app = "UNI" -> [i \in {0} |-> dpu[given.dpus - 1].red]
            [] OTHER -> [i \in DOMAIN @ |-> dpu[i \div NrWord].mem[i % NrWord]]]
    /\ UNCHANGED <<given, dpu>>

----------------------------------------------------------------------------
At(d, t, pc) == dpu[d].pc[t] = pc
Put(d, m) == dpu' = [dpu EXCEPT ![d] = m] /\ UNCHANGED <<given, host>>
First(t) == CeilStart(NrWord, given.nt, t)
Last(t) == CeilEnd(NrWord, given.nt, t)
ShareSum(d, t) ==
    ( Total(LAMBDA i : dpu[d].mem[i], InChunks(First(t), Last(t), Chunk))
    + Total(LAMBDA i : dpu[d].mem[i], InRest(First(t), Last(t), Chunk, Word)) ) % Word

Upsweep(d, t) ==
    /\ At(d, t, "start") /\ given.app # "UNI"
    /\ given.app = "RED" \/ dpu[d].init = NoSum
    /\ Put(d, [dpu[d] EXCEPT
          !.tlRed[t] = ShareSum(d, t),
          !.red = IF given.app = "SCANSSA" /\ given.nt = 1 THEN ShareSum(d, t) ELSE @,
          !.pc[t] = IF given.app # "SCANSSA" THEN "barrier"
                    ELSE IF t # 0 THEN "await" ELSE IF given.nt = 1 THEN "off" ELSE "notify"])

Barrier(d) ==
    /\ \A t \in Tasklets : At(d, t, "barrier")
    /\ Put(d, [dpu[d] EXCEPT !.pc = [t \in Tasklets |->
                                       IF t = 0 THEN "combine" ELSE "off"]])

\* RED adds to what its result holds already, SCAN starts from 0.
Combine(d) ==
    /\ At(d, 0, "combine")
    /\ LET s == Total(LAMBDA t : dpu[d].tlRed[t], Tasklets)
       IN  Put(d, [dpu[d] EXCEPT !.pc[0] = "off",
                     !.red = IF given.app = "RED" THEN (@ + s) % Word ELSE s])

\* SCANSSA: handshake_wait_for(t - 1) meets handshake_notify of t - 1.
Meet(d, t) == /\ At(d, t, "await") /\ At(d, t - 1, "notify")
              /\ Put(d, [dpu[d] EXCEPT !.pc[t] = "chain", !.pc[t - 1] = "off"])
Chain(d, t) ==
    /\ At(d, t, "chain")
    /\ LET s == (dpu[d].tlRed[t - 1] + dpu[d].tlRed[t]) % Word
           last == t + 1 = given.nt
       IN  Put(d, [dpu[d] EXCEPT !.tlRed[t] = s, !.red = IF last THEN s ELSE @,
                                 !.pc[t] = IF last THEN "off" ELSE "notify"])

\* What the tasklets before t have summed up: SCAN adds their partial sums,
\* SCANSSA's chain has done so.
Before(d, t) == IF given.app = "SCAN" THEN Total(LAMBDA u : dpu[d].tlRed[u], 0..t-1)
                ELSE IF t = 0 THEN 0 ELSE dpu[d].tlRed[t - 1]

\* The running sum over a share, in place.
Downsweep(d, t) ==
    /\ At(d, t, "start") /\ given.app \in Scans /\ dpu[d].init # NoSum
    /\ LET share == InChunks(First(t), Last(t), Chunk)
                      \union InRest(First(t), Last(t), Chunk, Word)
           upto(i) == Total(LAMBDA j : dpu[d].mem[j], {j \in share : j <= i})
       IN  Put(d, [dpu[d] EXCEPT !.pc[t] = "off",
                 !.mem = [i \in DOMAIN @ |->
                    IF i \in share THEN (Before(d, t) + dpu[d].init + upto(i)) % Word ELSE @[i]]])

\* UNI: each tasklet resets the result on its own before it counts.
Reset(d, t) == /\ At(d, t, "start") /\ given.app = "UNI"
               /\ Put(d, [dpu[d] EXCEPT !.red = 0, !.pc[t] = "count"])
LockRes(d, t) == /\ At(d, t, "count") /\ dpu[d].lock = -1
                 /\ Put(d, [dpu[d] EXCEPT !.lock = t, !.tmp = dpu[d].red,
                                          !.pc[t] = "add"])
AddRes(d, t) ==
    /\ At(d, t, "add")
    /\ LET end == IF t = given.nt - 1 THEN NrWord - 1
                  ELSE First(t) + CeilShare(NrWord, given.nt)
           changes == {i \in First(t)..end-1 : dpu[d].mem[i + 1] # dpu[d].mem[i]}
       IN  Put(d, [dpu[d] EXCEPT !.red = (dpu[d].tmp + Cardinality(changes)) % Word,
                                 !.lock = -1, !.pc[t] = "off"])

Next == \/ Push \/ Spine \/ Collect
        \/ \E d \in Dpus : \/ Barrier(d) \/ Combine(d)
                           \/ \E t \in Tasklets :
                                \/ Upsweep(d, t) \/ Meet(d, t) \/ Chain(d, t)
                                \/ Downsweep(d, t) \/ Reset(d, t) \/ LockRes(d, t)
                                \/ AddRes(d, t)

Spec == Init /\ [][Next]_vars /\ WF_vars(Next)

----------------------------------------------------------------------------
\* What the host programs compute by themselves and compare with.
Data(i) == given.dat[i + 1]
Expected ==
    LET all == 0..Len(given.dat)-1
    IN  CASE given.app = "RED" -> [i \in {0} |-> Total(Data, all)]
          [] given.app = "UNI" -> [i \in {0} |->
                Cardinality({j \in all \ {0} : Data(j) # Data(j - 1)})]
          [] OTHER -> [i \in all |-> Total(Data, 0..i)]

\* Reductions and scans give the sums of the whole input, whatever the order
\* in which the tasklets finish their shares (RED.c:42-46, SCAN.c:37-54,
\* SCANSSA.c:38-50 and the hosts' comparisons).
SumsAreRight == host.pc = "done" => host.out = Expected
=============================================================================
