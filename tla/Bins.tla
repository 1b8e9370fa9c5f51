-------------------------------- MODULE Bins --------------------------------
(***************************************************************************)
(* Stream compaction and histograms: src/devApp/COMPACT.c, HST.c and       *)
(* HSTS.c with their host programs.  The tasklets of a DPU share a write   *)
(* position, or the bins; each program guards them differently: COMPACT    *)
(* and HST gather privately and take a mutex for a full buffer or a group  *)
(* of bins, HSTS takes the mutex of a bin, which a tasklet has set up at   *)
(* run time, for every element.                                            *)
(*                                                                         *)
(* An element of HST is the bin it falls into.  The programs differ in the *)
(* states their tasklets pass through: "elements", then what is shared.    *)
(***************************************************************************)
EXTENDS WorkSplit, Sequences, FiniteSetsExt, SequencesExt

CONSTANTS Cap,        \* COMPACT's buffer: 96 numbers
          NumBins, BinsPerMutex,
          BinJobs     \* the runs asked for: [app, dat, dpus, nt]

\* COMPACT's output_data: 69420 words in front of the input, in the same MRAM.
\* A DPU writes at most its share of the elements and a zero for each tasklet.
OutputWords == 69420

\* The hosts round the number of elements up to a multiple of the DPUs.  That
\* COMPACT's output has room is for the caller to see to: nobody checks it.
BinsAssumption ==
  /\ Cap \in Nat \ {0} /\ NumBins \in Nat \ {0} /\ BinsPerMutex \in Nat \ {0}
  /\ \A job \in BinJobs :
       /\ job.app \in {"COMPACT", "HST", "HSTS"} /\ job.dat \in Seq(Nat)
       /\ job.dpus \in Nat \ {0} /\ job.nt \in Nat \ {0} /\ Len(job.dat) % job.dpus = 0
       /\ job.app = "COMPACT" => Len(job.dat) \div job.dpus + job.nt <= OutputWords

VARIABLES given, host, dpu

vars == <<given, host, dpu>>

Dpus == 0..given.dpus-1
Tasklets == 0..given.nt-1
PerDpu == Len(given.dat) \div given.dpus
BinsOf == 0..NumBins-1
Zeros == [b \in BinsOf |-> 0]
Elem(d, i) == given.dat[d * PerDpu + i + 1]

\* COMPACT rounds a share up to an even number of words.
EvenUp(n) == n + (n % 2)
CompactShare(t) == LET s == EvenUp(CeilShare(PerDpu, given.nt))
                   IN  [from |-> t * s, to |-> Min({(t + 1) * s, PerDpu})]
Share(t) == IF given.app = "COMPACT" THEN CompactShare(t)
            ELSE [from |-> EvenStart(PerDpu, given.nt, t), to |-> EvenEnd(PerDpu, given.nt, t)]

Off == [pc |-> "off", i |-> 0, buf |-> <<>>, after |-> "elements", bins |-> Zeros,
        at |-> 0, tmp |-> Zeros]

Init == /\ given \in BinJobs
        /\ host = [pc |-> "launch", next |-> 0, count |-> 0, bins |-> Zeros]
        /\ dpu = [d \in Dpus |-> [out |-> <<>>, outAt |-> 0, bins |-> Zeros,
                    ready |-> {}, locks |-> {}, tl |-> [t \in Tasklets |-> Off]]]

Launch == /\ host.pc = "launch"
          /\ dpu' = [d \in Dpus |-> [dpu[d] EXCEPT !.tl = [t \in Tasklets |->
                       [Off EXCEPT !.i = Share(t).from, !.pc =
                          IF given.app = "HST" THEN "elements" ELSE "init"]]]]
          /\ host' = [host EXCEPT !.pc = "wait"]
          /\ UNCHANGED given

\* What the hosts make of the results, DPU by DPU: COMPACT skips the padding
\* zeros and counts odd numbers, the histograms are added up.
Ended == \A d \in Dpus, t \in Tasklets : dpu[d].tl[t].pc = "off"
Collect ==
    /\ host.pc = "wait" /\ Ended /\ host.next < given.dpus
    /\ LET m == dpu[host.next]
       IN  host' = [host EXCEPT !.next = @ + 1,
             !.count = @ + Cardinality({i \in 1..m.outAt : m.out[i] # 0}),
             !.bins = [b \in BinsOf |-> @[b] + m.bins[b]]]
    /\ UNCHANGED <<given, dpu>>
Compare == /\ host.pc = "wait" /\ host.next = given.dpus
           /\ host' = [host EXCEPT !.pc = "done"]
           /\ UNCHANGED <<given, dpu>>

----------------------------------------------------------------------------
At(d, t, pc) == dpu[d].tl[t].pc = pc
K(d, t) == dpu[d].tl[t]
Put(d, t, k, m) == /\ dpu' = [dpu EXCEPT ![d] = [m EXCEPT !.tl[t] = k]]
                   /\ UNCHANGED <<given, host>>

\* Before the first barrier: COMPACT's tasklets all reset the position, and
\* HSTS's clear every nt-th bin and set up its mutex.
Prepare(d, t) ==
    /\ At(d, t, "init")
    /\ LET mine == {b \in BinsOf : b % given.nt = t}
       IN  Put(d, t, [K(d, t) EXCEPT !.pc = "barrier"],
               IF given.app = "COMPACT" THEN [dpu[d] EXCEPT !.outAt = 0]
               ELSE [dpu[d] EXCEPT !.ready = @ \union mine,
                       !.bins = [b \in BinsOf |-> IF b \in mine THEN 0 ELSE @[b]]])

Barrier(d) ==
    /\ \E pc \in {"barrier", "barrier2"} : \A t \in Tasklets : At(d, t, pc)
    /\ dpu' = [dpu EXCEPT ![d].tl = [t \in Tasklets |-> [K(d, t) EXCEPT !.pc =
                 IF @ = "barrier" THEN "elements" ELSE "leftover"]]]
    /\ UNCHANGED <<given, host>>

\* The next element of the share, or its end: COMPACT keeps the odd ones, and
\* flushes a full buffer before it goes on; HST counts it in bins of its own;
\* HSTS takes it to the mutex of its bin.
More(d, t) == K(d, t).i < Share(t).to
X(d, t) == Elem(d, K(d, t).i)
BinOf(x) == Min({x, NumBins - 1})

KeepOdd(d, t) ==
    /\ At(d, t, "elements") /\ given.app = "COMPACT"
    /\ LET k == K(d, t)
           next == [k EXCEPT !.i = @ + 1]
       IN  Put(d, t, IF ~More(d, t) THEN [k EXCEPT !.pc = "barrier2"]
                     ELSE IF X(d, t) % 2 = 0 THEN next
                     ELSE [next EXCEPT !.buf = Append(@, X(d, t)),
                             !.pc = IF Len(k.buf) + 1 = Cap THEN "reserve" ELSE @],
               dpu[d])

CountElement(d, t) ==
    /\ At(d, t, "elements") /\ given.app = "HST"
    /\ Put(d, t, IF More(d, t)
                 THEN [K(d, t) EXCEPT !.i = @ + 1, !.bins[BinOf(X(d, t))] = @ + 1]
                 ELSE [K(d, t) EXCEPT !.pc = "groups", !.at = 0],
           dpu[d])

ChooseBin(d, t) ==
    /\ At(d, t, "elements") /\ given.app = "HSTS"
    /\ Put(d, t, IF More(d, t)
                 THEN [K(d, t) EXCEPT !.i = @ + 1, !.pc = "bin", !.at = BinOf(X(d, t))]
                 ELSE Off,
           dpu[d])

\* After the second barrier: the rest, padded to whole double words.
Leftover(d, t) ==
    /\ At(d, t, "leftover")
    /\ LET buf == K(d, t).buf
       IN  Put(d, t, IF buf = <<>> THEN Off
                     ELSE [K(d, t) EXCEPT !.pc = "reserve", !.after = "off",
                             !.buf = IF Len(buf) % 2 = 1 THEN Append(buf, 0) ELSE buf],
               dpu[d])

\* Under mut_outat: take the position and move it past the buffer.
Lock(d, t) == /\ At(d, t, "reserve") /\ dpu[d].locks = {}
              /\ Put(d, t, [K(d, t) EXCEPT !.pc = "move", !.at = dpu[d].outAt],
                     [dpu[d] EXCEPT !.locks = {0}])
\* Mutant: mut_outat is not unlocked.
ReserveForEver(d, t) ==
    /\ At(d, t, "move")
    /\ Put(d, t, [K(d, t) EXCEPT !.pc = "flush"],
           [dpu[d] EXCEPT !.outAt = K(d, t).at + Len(K(d, t).buf)])

Reserve(d, t) == /\ At(d, t, "move")
                 /\ Put(d, t, [K(d, t) EXCEPT !.pc = "flush"],
                        [dpu[d] EXCEPT !.outAt = K(d, t).at + Len(K(d, t).buf),
                                       !.locks = {}])
\* After the mutex: write the buffer, and go on or end.
Flush(d, t) ==
    /\ At(d, t, "flush")
    /\ LET k == K(d, t)
           len == Max({Len(dpu[d].out), k.at + Len(k.buf)})
       IN  Put(d, t, IF k.after = "off" THEN Off ELSE [k EXCEPT !.pc = "elements", !.buf = <<>>],
               [dpu[d] EXCEPT !.out = [i \in 1..len |->
                  IF i \in k.at+1..k.at+Len(k.buf) THEN k.buf[i - k.at]
                  ELSE IF i <= Len(@) THEN @[i] ELSE 0]])

\* HST adds group by group, HSTS one to a bin: the read and the write of the
\* shared bins are two steps under the mutex.
BinsUnder(k) == IF given.app = "HSTS" THEN {k.at}
                ELSE {b \in BinsOf : b \div BinsPerMutex = k.at}
\* Mutant: nobody looks whether the mutex is taken.
LockBinsAnyway(d, t) ==
    /\ At(d, t, IF given.app = "HSTS" THEN "bin" ELSE "groups")
    /\ Put(d, t, [K(d, t) EXCEPT !.pc = "add", !.tmp = dpu[d].bins],
           [dpu[d] EXCEPT !.locks = @ \union {K(d, t).at}])

LockBins(d, t) ==
    /\ At(d, t, IF given.app = "HSTS" THEN "bin" ELSE "groups")
    /\ K(d, t).at \notin dpu[d].locks
    /\ given.app = "HSTS" => K(d, t).at \in dpu[d].ready
    /\ Put(d, t, [K(d, t) EXCEPT !.pc = "add", !.tmp = dpu[d].bins],
           [dpu[d] EXCEPT !.locks = @ \union {K(d, t).at}])
AddBins(d, t) ==
    /\ At(d, t, "add")
    /\ LET k == K(d, t)
           more(b) == IF given.app = "HSTS" THEN 1 ELSE k.bins[b]
           ended == (k.at + 1) * BinsPerMutex >= NumBins
       IN  Put(d, t, IF given.app = "HSTS" THEN [k EXCEPT !.pc = "elements", !.tmp = Zeros]
                     ELSE IF ended THEN Off
                     ELSE [k EXCEPT !.pc = "groups", !.at = @ + 1, !.tmp = Zeros],
               [dpu[d] EXCEPT !.locks = @ \ {k.at}, !.bins = [b \in BinsOf |->
                  IF b \in BinsUnder(k) THEN k.tmp[b] + more(b) ELSE @[b]]])

Next == \/ Launch \/ Collect \/ Compare
        \/ \E d \in Dpus :
             \/ Barrier(d)
             \/ \E t \in Tasklets :
                  \/ Prepare(d, t) \/ KeepOdd(d, t) \/ CountElement(d, t)
                  \/ ChooseBin(d, t) \/ Leftover(d, t) \/ Lock(d, t) \/ Reserve(d, t)
                  \/ Flush(d, t) \/ LockBins(d, t) \/ AddBins(d, t)

Spec == Init /\ [][Next]_vars /\ WF_vars(Next)

----------------------------------------------------------------------------
Odd(x) == x % 2 = 1
\* How often x is among the words a DPU has put out.
Times(d, x) == Cardinality({i \in 1..dpu[d].outAt : dpu[d].out[i] = x})

\* Every odd number comes out of its DPU as often as it went in, whatever the
\* order of the reservations, and every element is in its bin (COMPACT.c:37-72,
\* HST.c:55-86, HSTS.c:27-65, and the hosts' counts).
NothingLostOrDoubled == host.pc = "done" =>
    IF given.app = "COMPACT"
    THEN /\ host.count = Cardinality({i \in DOMAIN given.dat : Odd(given.dat[i])})
         /\ \A d \in Dpus : \A x \in {y \in Range(given.dat) : Odd(y)} :
              Times(d, x) = Cardinality({i \in 0..PerDpu-1 : Elem(d, i) = x})
    ELSE host.bins = [b \in BinsOf |->
           Cardinality({i \in DOMAIN given.dat : BinOf(given.dat[i]) = b})]
=============================================================================
