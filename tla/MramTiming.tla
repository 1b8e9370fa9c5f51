------------------------------- MODULE MramTiming -------------------------------
(***************************************************************************)
(* The DRAM timing model of mramTiming.c, which delays every WRAM-MRAM     *)
(* transfer, and the part of the logic cycle (RvTimingCycle,               *)
(* UmmTimingCycle) that talks to it.                                       *)
(*                                                                         *)
(* A transfer is pushed as one command per 8 bytes.  A command goes from   *)
(* the reorder window (first-ready, first-come) through a queue into the   *)
(* row buffer, where it opens its row, occupies the I/O slot and then the  *)
(* bus.  Each command that leaves the bus acknowledges one step of its     *)
(* thread's transfer; when none is left the thread's id is put into        *)
(* ReadyId, and the logic cycle, every MemPerLogic memory cycles, takes it *)
(* out and lets the thread run again.                                      *)
(*                                                                         *)
(* The clocks *Since count up to a cap above every threshold they are      *)
(* compared with.  _memcmdSlice is a sequence; where it keeps its elements *)
(* (compaction, growth) is not represented.                                *)
(***************************************************************************)
EXTENDS Blocking, Integers, Sequences, FiniteSets, SequencesExt

CONSTANTS Threads,      \* tasklets that issue transfers
          Simulator,          \* "rv" or "umm": who pushes
          Requests,     \* bound: <<begin, size>> in bytes that a thread may ask for
          UnitsWrap,    \* 256: UmmTimingCycle takes the unit count modulo this
          MemPerLogic,  \* memory cycles per logic cycle (6 at 2400/350 MHz)
          WaitCap,      \* length of WaitIds (16)
          WordlineSz, ReorderWinSz, TRp, TRcd, TRas, TCl, TBl,
          None          \* an empty slot, no row (noAddr), no ready thread (-1)

TimingFits ==
  /\ Simulator \in {"rv", "umm"}
  /\ {WordlineSz, ReorderWinSz, TRp, TRcd, TRas, TCl, TBl, UnitsWrap, WaitCap} \subseteq Nat \ {0}
  /\ MemPerLogic \in Nat
  /\ WordlineSz % 8 = 0

ASSUME TimingAssumption == TimingFits
ASSUME RequestsAssumption == Requests \subseteq Nat \X Nat
ASSUME NoneAssumption == None \notin Threads \cup Int \cup [thread : Threads, row : Int]

VARIABLES mt,        \* DmmMramTiming
          memLeft    \* memory cycles before the logic part of this cycle

memVars == <<mt, blocked, memLeft>>

MemInit ==
  /\ mt = [rob |-> <<>>, readyQ |-> <<>>, scheRow |-> None,
           row |-> None, in |-> None, io |-> None, bus |-> None,
           prechSince |-> TRp + TRcd + TRas + 3, ioSince |-> TCl + 2, busSince |-> TBl + 2,
           waitIds |-> <<>>, ackLeft |-> [t \in Threads |-> 0], readyId |-> None]
  /\ blocked = {}
  /\ memLeft = MemPerLogic

-----------------------------------------------------------------------------
(* DmmMramTimingPush *)

\* One command for each 8-byte word that [begin, begin + size) touches.
Commands(t, begin, size) ==
  LET first == begin - (begin % 8)
      n == IF begin + size <= first THEN 0 ELSE (begin + size - first + 7) \div 8
  IN  [k \in 1 .. n |-> [thread |-> t, row |-> (first + 8 * (k - 1)) \div WordlineSz]]

Push(m, t, begin, size) ==
  LET cmds == Commands(t, begin, size)
  IN  [m EXCEPT !.rob = @ \o cmds,
                !.ackLeft[t] = Len(cmds),
                !.waitIds = Append(@, t)]

-----------------------------------------------------------------------------
(* DmmMramTimingCycle, in the order of its parts *)

\* The head of the ready queue enters a free row buffer.
TakeIn(m) ==
  IF m.in = None /\ m.readyQ # <<>>
  THEN [m EXCEPT !.in = Head(m.readyQ), !.readyQ = Tail(@)]
  ELSE m

Acknowledged(m) == {i \in 1 .. Len(m.waitIds) : m.ackLeft[m.waitIds[i]] = 0}

\* Mutant: the last entry is cut off without being moved.
ReportCutsLast(m) ==
  IF Acknowledged(m) = {} THEN m
  ELSE LET i == CHOOSE j \in Acknowledged(m) : \A k \in Acknowledged(m) : j <= k
       IN  [m EXCEPT !.readyId = m.waitIds[i], !.waitIds = Front(@)]

\* The first transfer without commands left is reported; the last waiting
\* entry fills its place.
Report(m) ==
  IF Acknowledged(m) = {} THEN m
  ELSE LET i == CHOOSE j \in Acknowledged(m) : \A k \in Acknowledged(m) : j <= k
       IN  [m EXCEPT !.readyId = m.waitIds[i],
                     !.waitIds = Front([@ EXCEPT ![i] = Last(m.waitIds)])]

\* Mutant: the head is dropped instead of being moved into the hole.
TakeOutLosesHead(s, i) == IF i = Len(s) THEN Front(s) ELSE Tail(s)

\* _rm: the head moves into the hole, unless the last element is removed.
TakeOut(s, i) == IF i = Len(s) THEN Front(s) ELSE Tail([s EXCEPT ![i] = Head(s)])

Hits(m) ==
  {i \in 1 .. Len(m.rob) : i <= ReorderWinSz /\ m.rob[i].row = m.scheRow}

\* _serveMramSched: the first command for the scheduled row, else the oldest.
Schedule(m) ==
  IF Hits(m) # {}
  THEN LET i == CHOOSE j \in Hits(m) : \A k \in Hits(m) : j <= k
       IN  [m EXCEPT !.rob = TakeOut(@, i), !.readyQ = Append(@, m.rob[i])]
  ELSE IF m.rob # <<>>
  THEN [m EXCEPT !.rob = Tail(@), !.readyQ = Append(@, Head(m.rob)),
                 !.scheRow = Head(m.rob).row]
  ELSE m

\* Mutant: a row is opened without a look at the I/O and bus clocks.
UseRowEagerly(m) ==
  IF m.in = None THEN m
  ELSE IF m.in.row = m.row
  THEN IF m.prechSince > TRp + 1 + TRcd /\ m.io = None
       THEN [m EXCEPT !.io = m.in, !.ioSince = 0, !.in = None]
       ELSE m
  ELSE IF m.prechSince > TRp + 1 + TRas
  THEN [m EXCEPT !.row = m.in.row, !.prechSince = 0]
  ELSE m

\* _serveRowBuf, first half: use the open row or open another one.
UseRow(m) ==
  IF m.in = None THEN m
  ELSE IF m.in.row = m.row
  THEN IF m.prechSince > TRp + 1 + TRcd /\ m.io = None
       THEN [m EXCEPT !.io = m.in, !.ioSince = 0, !.in = None]
       ELSE m
  ELSE IF m.prechSince > TRp + 1 + TRas /\ m.ioSince > TCl /\ m.busSince > TBl
  THEN [m EXCEPT !.row = m.in.row, !.prechSince = 0]
  ELSE m

\* _serveRowBuf, second half: onto the bus, or off it with an acknowledgement.
UseBus(m) ==
  IF m.ioSince >= TCl /\ m.io # None /\ m.busSince > TBl
  THEN [m EXCEPT !.io = None, !.bus = m.io, !.busSince = 0]
  ELSE IF m.busSince = TBl
  THEN [m EXCEPT !.ackLeft[m.bus.thread] = @ - 1, !.bus = None]
  ELSE m

Capped(n, cap) == IF n < cap THEN n + 1 ELSE cap

Tick(m) ==
  [m EXCEPT !.prechSince = Capped(@, TRp + TRcd + TRas + 3),
            !.busSince = Capped(@, TBl + 2),
            !.ioSince = Capped(@, TCl + 2)]

-----------------------------------------------------------------------------
\* The first part of a logic cycle: the memory catches up.  (The singletons
\* only name the intermediate states.)
MemoryCycle ==
  /\ memLeft > 0
  /\ \E reported \in {Report(TakeIn(mt))} : \E placed \in {UseRow(Schedule(reported))} :
       mt' = Tick(UseBus(placed))
  /\ memLeft' = memLeft - 1
  /\ UNCHANGED blocked

\* The second part ends with at most one thread being unblocked.
Unblock(m, b) ==
  /\ memLeft = 0
  /\ memLeft' = MemPerLogic
  /\ mt' = [m EXCEPT !.readyId = None]
  /\ blocked' = b \ {m.readyId}

\* The size the simulator charges: RISC-V takes it from the instruction;
\* UPMEM computes (1 + ImmA + (vc >> 24) & 0xff) << 3.
ChargedSize(size) == IF Simulator = "umm" THEN 8 * ((size \div 8) % UnitsWrap) ELSE size

\* Thread t issues a transfer.  RvTimingCycle ignores empty ones.
IssueDma(t) ==
  \E r \in Requests :
    LET size == ChargedSize(r[2])
    IN  /\ t \notin blocked
        /\ IF Simulator = "rv" /\ size = 0
           THEN Unblock(mt, blocked)
           ELSE Unblock(Push(mt, t, r[1], size), blocked \cup {t})

\* Nothing that concerns the MRAM is issued.
IssueOther == Unblock(mt, blocked)

MemNext == MemoryCycle \/ IssueOther \/ \E t \in Threads : IssueDma(t)

MemSpec == MemInit /\ [][MemNext]_memVars /\ WF_memVars(MemNext)

-----------------------------------------------------------------------------
Count(s, t) == Cardinality({i \in 1 .. Len(s) : s[i].thread = t})

Here(c, t) == IF c # None /\ c.thread = t THEN 1 ELSE 0

Pending(m, t) ==
  Count(m.rob, t) + Count(m.readyQ, t) + Here(m.in, t) + Here(m.io, t) + Here(m.bus, t)

(***************************************************************************)
(* No command is lost, duplicated or credited to another thread on its     *)
(* way through the reorder window, the queue and the three slots.          *)
(***************************************************************************)
AcksMatchCommands == \A t \in Threads : mt.ackLeft[t] = Pending(mt, t)

(***************************************************************************)
(* A blocked thread is either still waiting or about to be unblocked,      *)
(* never neither, its completion overwritten by another one; a thread that *)
(* is not blocked is neither, so that no later transfer is ended by it.    *)
(***************************************************************************)
NobodyForgotten ==
  \A t \in Threads :
    Cardinality({i \in 1 .. Len(mt.waitIds) : mt.waitIds[i] = t})
      + (IF mt.readyId = t THEN 1 ELSE 0) = IF t \in blocked THEN 1 ELSE 0

(***************************************************************************)
(* The command in the I/O slot is for the row that is open: a row is not   *)
(* closed under a command that still has to be read from it.               *)
(***************************************************************************)
IoReadsOpenRow == mt.io # None => mt.io.row = mt.row

(***************************************************************************)
(* The waiting list has room for every thread the simulator can run.       *)
(***************************************************************************)
WaitIdsFit == Len(mt.waitIds) <= WaitCap

=============================================================================
