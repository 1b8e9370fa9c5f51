------------------------------- MODULE Tasklets -------------------------------
(***************************************************************************)
(* The tasklets (hardware threads) of one RISC-V DPU, as the device        *)
(* runtime under rvisa/ummrv-rt sees them.                                 *)
(*                                                                         *)
(* CSR word 0 holds one "run" bit per tasklet.  The simulator issues an    *)
(* instruction only for a tasklet whose bit is set, and executes it whole  *)
(* before the next one, so a CSR instruction is one atomic step.  The      *)
(* runtime sleeps by clearing its own bit (halt) and wakes others with a   *)
(* csrrs that also returns the old bits; because a waiter publishes        *)
(* itself before it halts, every waker repeats the csrrs until the old     *)
(* bits show that its targets had really gone to sleep.                    *)
(*                                                                         *)
(* RvDpuRun stops as soon as no run bit is left, whatever the reason.  A   *)
(* later launch sets the run bits and program counters again and nothing   *)
(* else: CSR words 1..30 and the WRAM keep what the last launch left.      *)
(***************************************************************************)
EXTENDS Integers, FiniteSets

CONSTANT NrTasklets     \* tasklets of this launch (NR_TASKLETS)

ASSUME NrTaskletsAssumption == NrTasklets \in Nat \ {0}

VARIABLES running,      \* Csr[0]: the tasklets whose run bit is set
          pc,           \* where each tasklet is in the runtime's code
          waking        \* the wake mask each tasklet holds in a register

taskletVars == <<running, pc, waking>>

Ids == 0 .. NrTasklets - 1

(***************************************************************************)
(* RvDpuRun: every tasklet of the launch starts at the entry point.        *)
(***************************************************************************)
LaunchTasklets(start) ==
  /\ running = Ids
  /\ pc = [t \in Ids |-> start]
  /\ waking = [t \in Ids |-> {}]

\* RvDpuRun's loop has ended: no tasklet has its run bit set.
Stopped == running = {}

Relaunch(start) ==
  /\ Stopped
  /\ running' = Ids
  /\ pc' = [t \in Ids |-> start]
  /\ waking' = [t \in Ids |-> {}]

\* Tasklet t is issued an instruction while at l.
Runs(t, l) == t \in running /\ pc[t] = l

Goto(t, l) == pc' = [pc EXCEPT ![t] = l]

Step(t, from, to) == Runs(t, from) /\ Goto(t, to)

\* syslib.h halt(): the tasklet resumes after it, once somebody wakes it.
Halt(t) == running' = running \ {t}

\* Mutant: one csrrs without the retry loop.
WakeOnceNoRetry(t, from, to) ==
  /\ Runs(t, from)
  /\ running' = running \cup waking[t]
  /\ waking' = [waking EXCEPT ![t] = {}]
  /\ Goto(t, to)

(***************************************************************************)
(* One csrrs on CSR 0.  The old bits restricted to the mask are the        *)
(* tasklets that had not gone to sleep yet; the loop retries those.        *)
(***************************************************************************)
WakeOnce(t, from, to) ==
  LET stillRunning == waking[t] \cap running
  IN  /\ Runs(t, from)
      /\ running' = running \cup waking[t]
      /\ waking' = [waking EXCEPT ![t] = stillRunning]
      /\ Goto(t, IF stillRunning = {} THEN to ELSE from)

(***************************************************************************)
(* crt0.S: when main returns the tasklet clears its own bit.  Behind that  *)
(* is only an ebreak, on which the simulator aborts.                       *)
(***************************************************************************)
ReturnFromMain(t, from) ==
  /\ Step(t, from, "ebreak")
  /\ Halt(t)
  /\ UNCHANGED waking

-----------------------------------------------------------------------------
(***************************************************************************)
(* When the run loop ends, every tasklet has returned from main: RvDpuRun  *)
(* cannot tell a finished program from one whose tasklets all sleep        *)
(* waiting for a wake-up that was lost, and the host would read results    *)
(* nobody has computed.                                                    *)
(***************************************************************************)
StopsOnlyWhenDone == Stopped => \A t \in Ids : pc[t] = "ebreak"

(***************************************************************************)
(* A tasklet that returned is never woken: the only instruction it could   *)
(* execute is crt0's ebreak, on which the simulator aborts.                *)
(***************************************************************************)
NobodyTraps == \A t \in Ids : pc[t] = "ebreak" => t \notin running

=============================================================================
