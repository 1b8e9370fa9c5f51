------------------------------ MODULE IssueTiming ------------------------------
(***************************************************************************)
(* The logic cycle of rvisa/timing.c and upmemisa/timing.c: which tasklet  *)
(* is issued, how its instruction goes through the pipeline queue and the  *)
(* register-bank ("cycle") rule, and how a DMA blocks it.  The instruction *)
(* takes effect when it is issued (RvDpuExecuteInstr after RvTimingCycle). *)
(*                                                                         *)
(* What a program executes is arbitrary: every issue picks an effect and   *)
(* the registers it reads and writes.                                      *)
(* The memory is reduced to its answer: at most one blocked tasklet is     *)
(* unblocked in a cycle (MramTiming models when).  The two simulators      *)
(* differ in how a launch starts the tasklets, and in the bank rule.       *)
(***************************************************************************)
EXTENDS Blocking, Integers, Sequences, FiniteSets, SequencesExt

CONSTANTS TaskletCounts,    \* bound: NR_TASKLETS of the programs considered
          NrPipelineStage, NrRevolveCycle,
          Isas,         \* subset of {"rv", "umm"}: simulators considered
          Instrs,       \* bound: the records [reads, writes] of register
                        \* numbers that each tasklet's instructions may have
          Leavers,      \* bound: tasklets that may leave the instruction table
          Null,         \* NULL
          Bubble        \* (RvInstr *)1, an empty pipeline slot

ASSUME IssueAssumption ==
  /\ TaskletCounts \subseteq Nat \ {0}
  /\ NrPipelineStage \in Nat \ {0, 1}
  /\ NrRevolveCycle \in Nat \ {0}
  /\ Isas \subseteq {"rv", "umm"}
  /\ \A c \in TaskletCounts : \A t \in 0 .. c - 1 : \A i \in Instrs[t] :
       [id |-> t, instr |-> i] \notin {Null, Bubble}

VARIABLES isa,
          nrTasklets,   \* of the program that has been loaded
          running,      \* bit set in Csr[0]; State other than SLEEP
          outside,      \* pc behind the instruction table, which rv looks at
          lastIssue,    \* where the next scan starts
          age,          \* TotNrCycle - lastRunAt[i], up to NrRevolveCycle
          pipe,         \* Pp* and Cr* fields
          since         \* history: cycles since t was issued, up to NrRevolveCycle

vars == <<isa, nrTasklets, running, outside, blocked, lastIssue, age, pipe, since>>

Ids == 0 .. nrTasklets - 1

LimitTo(n, cap) == IF n > cap THEN cap ELSE n

Started(s) == IF s = "rv" THEN Ids ELSE {0}

Init ==
  /\ isa \in Isas
  /\ nrTasklets \in TaskletCounts
  /\ running = Started(isa)
  /\ outside = {}
  /\ blocked = {}
  /\ lastIssue = 0
  /\ age = [i \in Ids |-> 0]
  /\ pipe = [in |-> Bubble, inside |-> [i \in 1 .. NrPipelineStage - 1 |-> Bubble],
             ready |-> Bubble, cur |-> Null, prev |-> Null, extra |-> 0,
             wrote |-> [t \in Ids |-> {}]]
  /\ since = [t \in Ids |-> NrRevolveCycle]

-----------------------------------------------------------------------------
(* The pipeline *)

\* The instruction at the end of the pipeline reaches the bank rule.
Reap(p) ==
  IF p.cur # Null THEN p
  ELSE [p EXCEPT !.cur = IF p.ready = Bubble THEN Null ELSE p.ready, !.ready = Null]

\* Mutant: the incoming slot is emptied even if the queue was full.
ServePipelineDrops(p) ==
  LET q == IF Len(p.inside) < NrPipelineStage - 1 THEN Append(p.inside, p.in) ELSE p.inside
      r == [p EXCEPT !.inside = q, !.in = Bubble]
  IN  IF p.ready = Null THEN [r EXCEPT !.ready = Head(q), !.inside = Tail(q)] ELSE r

ServePipeline(p) ==
  LET r == IF Len(p.inside) < NrPipelineStage - 1
           THEN [p EXCEPT !.inside = Append(@, p.in), !.in = Bubble]
           ELSE p
  IN  IF p.ready = Null
      THEN [r EXCEPT !.ready = Head(r.inside), !.inside = Tail(r.inside)]
      ELSE r

\* Registers of the even and of the odd bank; r0 of RISC-V is in neither.
Bank(s, regs, parity) ==
  Cardinality({r \in regs : r % 2 = parity /\ (s = "rv" => r # 0) /\ (s = "umm" => r < 24)})

ExtraCycles(s, regs) ==
  LET even == Bank(s, regs, 0)
      odd == Bank(s, regs, 1)
  IN  IF s = "rv" THEN (IF even >= 2 THEN 1 ELSE 0) + (IF odd >= 2 THEN 1 ELSE 0)
      ELSE even \div 2 + odd \div 2

\* Reads of this instruction and writes of the tasklet's previous one
\* contend for the banks; the instruction leaves when the cycles are paid.
ServeCycleRule(p) ==
  LET enter == p.cur # Null /\ p.prev = Null
      q == IF enter
           THEN [p EXCEPT !.cur = Null, !.prev = p.cur,
                          !.extra = ExtraCycles(isa, p.cur.instr.reads \cup p.wrote[p.cur.id])]
           ELSE p
      r == IF q.prev # Null /\ q.extra <= 0
           THEN [q EXCEPT !.prev = Null, !.wrote[q.prev.id] = q.prev.instr.writes]
           ELSE q
  IN  [r EXCEPT !.extra = IF @ > 0 THEN @ - 1 ELSE 0]

\* The instruction register is taken, or the bank rule holds the line up.
Stalled == pipe.in # Bubble \/ pipe.cur # Null

-----------------------------------------------------------------------------
(* Issuing *)

Aged == [i \in Ids |-> LimitTo(age[i] + 1, NrRevolveCycle)]

\* lastIssue has moved on when lastRunAt is read and written: the entry of a
\* tasklet is the one behind it.
Entry(t) == (t + 1) % nrTasklets

\* Mutant: blocked tasklets are issued too.
MayIssueBlocked(t) == t \in running \ outside /\ Aged[Entry(t)] >= NrRevolveCycle

MayIssue(t) == t \in running \ (blocked \cup outside) /\ Aged[Entry(t)] >= NrRevolveCycle

\* Mutant: the scan always starts at tasklet 0.
ScanFromZero == [i \in 0 .. nrTasklets - 1 |-> i]

Scan == [i \in 0 .. nrTasklets - 1 |-> (lastIssue + i) % nrTasklets]

Chosen(t) == \E i \in DOMAIN Scan : Scan[i] = t /\ MayIssue(t) /\ \A j \in 0 .. i - 1 : ~MayIssue(Scan[j])

ScanAfter(t) == lastIssue' = IF t + 1 = nrTasklets THEN 0 ELSE t + 1

\* Mutant: the time of the issue goes to the tasklet's own index.
MarkIssuedAtOwn(t) == age' = [Aged EXCEPT ![t] = 0]

MarkIssued(t) == age' = [Aged EXCEPT ![Entry(t)] = 0]

\* What an instruction can do to the tasklets: nothing or a csrrs (BOOT,
\* RESUME) that sets a run bit, halt (STOP), or a DMA that blocks its own.
Effect(t, freed) ==
  \/ blocked' = blocked \ freed /\ \E u \in Ids : running' = running \cup {u}
  \/ blocked' = blocked \ freed /\ running' = running \ {t}
  \/ blocked' = (blocked \cup {t}) \ freed /\ UNCHANGED running

\* A jump or the next instruction may lie behind the table.
Leave(t) == outside' = outside \/ (isa = "rv" /\ t \in Leavers /\ outside' = outside \cup {t})

Execute(t, freed) == Effect(t, freed) /\ Leave(t)

Flow(p) == ServeCycleRule(ServePipeline(Reap(p)))

Older(t) == LimitTo(since[t] + 1, NrRevolveCycle)

Issue(t, freed) ==
  /\ ~Stalled
  /\ Chosen(t)
  /\ Execute(t, freed)
  /\ \E instr \in Instrs[t] : pipe' = Flow([pipe EXCEPT !.in = [id |-> t, instr |-> instr]])
  /\ ScanAfter(t)
  /\ MarkIssued(t)
  /\ since' = [u \in Ids |-> IF u = t THEN 0 ELSE Older(u)]
  /\ UNCHANGED <<isa, nrTasklets>>

NoIssue(freed) ==
  /\ Stalled \/ \A t \in Ids : ~MayIssue(t)
  /\ blocked' = blocked \ freed
  /\ pipe' = Flow(pipe)
  /\ age' = Aged
  /\ since' = [u \in Ids |-> Older(u)]
  /\ UNCHANGED <<isa, nrTasklets, running, outside, lastIssue>>

Stopped == running = {}

Cycle ==
  /\ ~Stopped
  /\ \E freed \in {{}} \cup {{u} : u \in blocked} :
       NoIssue(freed) \/ \E t \in Ids : Issue(t, freed)

Launch ==
  /\ Stopped
  /\ running' = Started(isa)
  /\ outside' = {}
  /\ blocked' = IF isa = "rv" THEN {} ELSE blocked
  /\ UNCHANGED <<isa, nrTasklets, lastIssue, age, pipe, since>>

Next == Cycle \/ Launch

Spec == Init /\ [][Next]_vars /\ WF_vars(Cycle)

-----------------------------------------------------------------------------
(***************************************************************************)
(* A run never ends with a DMA under way: only a tasklet that is issued    *)
(* can clear its run bit, and a blocked one is not issued.  The next       *)
(* launch clears Csr[31] on the strength of that.                          *)
(***************************************************************************)
NothingOutstanding == Stopped => blocked = {}

(***************************************************************************)
(* The revolver: two instructions of one tasklet are NrRevolveCycle cycles *)
(* apart, although the scan keeps their times at shifted indices.          *)
(***************************************************************************)
Issues(t) == ~Stopped /\ since'[t] = 0

RevolverKept == \A t \in Ids : Issues(t) => since[t] + 1 >= NrRevolveCycle

RevolveRule == [][RevolverKept]_vars

(***************************************************************************)
(* Instructions leave the timing model in the order of their issue, none   *)
(* lost, repeated or overtaken, whatever stalls there are in between.      *)
(***************************************************************************)
Slots(p) == <<p.prev>> \o <<p.cur>> \o <<p.ready>> \o p.inside \o <<p.in>>

\* The instructions in a sequence of slots.
Occupied(s) ==
  LET among[n \in 0 .. Len(s)] ==
        IF n = 0 THEN <<>>
        ELSE IF s[n] \in {Null, Bubble} THEN among[n - 1]
        ELSE Append(among[n - 1], s[n])
  IN  among[Len(s)]

Flight == Occupied(Slots(pipe))

Leaving(s) == {s, IF s = <<>> THEN s ELSE Tail(s)}

OrderKept ==
  IF \E t \in Ids : Issues(t)
  THEN \E t \in Ids : \E i \in Instrs[t] :
         Issues(t) /\ Flight' \in Leaving(Append(Flight, [id |-> t, instr |-> i]))
  ELSE Flight' \in Leaving(Flight)

InOrder == [][OrderKept]_vars

(***************************************************************************)
(* Every tasklet that stays runnable, and has an instruction to go on      *)
(* with, is to be issued again and again: the round robin passes nobody    *)
(* over, and every stall ends.                                             *)
(***************************************************************************)
Served(t) == t \notin running \ (blocked \cup outside) \/ since[t] = 0

=============================================================================
