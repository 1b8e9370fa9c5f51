---------------------------- MODULE CountingBarrier ----------------------------
(***************************************************************************)
(* barrier_t of rvisa/ummrv-rt/barrier.c: an arrival counter and the set   *)
(* of sleeping tasklets, guarded by a bit of CSR 2.  The last to arrive    *)
(* resets both before it wakes the others, so a woken tasklet may start    *)
(* the next round while stragglers of this one have still to fall asleep.  *)
(*                                                                         *)
(* All tasklets pass Rounds barriers and return; the host launches the     *)
(* program again.  Failed spin iterations are stuttering steps.            *)
(***************************************************************************)
EXTENDS Tasklets

CONSTANT Rounds      \* bound: barriers in the program

VARIABLES barMeta,        \* the barrier's bit in CSR 2
          barCount,
          sleepingMask,
          arrived         \* calls each tasklet has begun in this launch

barVars == <<running, pc, waking, barMeta, barCount, sleepingMask, arrived>>

\* BARRIER_INIT(name, NR_TASKLETS)
expectedCount == NrTasklets

BarInit ==
  /\ LaunchTasklets("main")
  /\ barMeta = FALSE
  /\ barCount = 0
  /\ sleepingMask = {}
  /\ arrived = [t \in Ids |-> 0]

-----------------------------------------------------------------------------
BarTestAndSet(t) ==
  /\ arrived[t] < Rounds
  /\ Step(t, "main", "count")
  /\ ~barMeta
  /\ barMeta' = TRUE
  /\ arrived' = [arrived EXCEPT ![t] = @ + 1]
  /\ UNCHANGED <<running, waking, barCount, sleepingMask>>

\* Mutant: the last to arrive leaves the old sleepers in the mask.
ArriveLastMaskKept(t) ==
  /\ Step(t, "count", "last_clear")
  /\ barCount + 1 = expectedCount
  /\ waking' = [waking EXCEPT ![t] = sleepingMask \ {t}]
  /\ barCount' = 0
  /\ UNCHANGED <<running, barMeta, sleepingMask, arrived>>

\* Mutant: the counter is not reset.
ArriveLastNoReset(t) ==
  /\ Step(t, "count", "last_clear")
  /\ barCount + 1 = expectedCount
  /\ waking' = [waking EXCEPT ![t] = sleepingMask \ {t}]
  /\ barCount' = barCount + 1
  /\ sleepingMask' = {}
  /\ UNCHANGED <<running, barMeta, arrived>>

ArriveLast(t) ==
  /\ Step(t, "count", "last_clear")
  /\ barCount + 1 = expectedCount
  /\ waking' = [waking EXCEPT ![t] = sleepingMask \ {t}]
  /\ barCount' = 0
  /\ sleepingMask' = {}
  /\ UNCHANGED <<running, barMeta, arrived>>

ArriveEarly(t) ==
  /\ Step(t, "count", "clear")
  /\ barCount + 1 # expectedCount
  /\ barCount' = barCount + 1
  /\ sleepingMask' = sleepingMask \cup {t}
  /\ UNCHANGED <<running, waking, barMeta, arrived>>

BarClear(t) ==
  /\ Step(t, "last_clear", "wake") \/ Step(t, "clear", "halt")
  /\ barMeta' = FALSE
  /\ UNCHANGED <<running, waking, barCount, sleepingMask, arrived>>

WakeOthers(t) ==
  /\ WakeOnce(t, "wake", "main")
  /\ UNCHANGED <<barMeta, barCount, sleepingMask, arrived>>

BarSleep(t) ==
  /\ Step(t, "halt", "main")
  /\ Halt(t)
  /\ UNCHANGED <<waking, barMeta, barCount, sleepingMask, arrived>>

BarReturn(t) ==
  /\ arrived[t] = Rounds
  /\ ReturnFromMain(t, "main")
  /\ UNCHANGED <<barMeta, barCount, sleepingMask, arrived>>

BarLaunch ==
  /\ Relaunch("main")
  /\ arrived' = [t \in Ids |-> 0]
  /\ UNCHANGED <<barMeta, barCount, sleepingMask>>

BarTasklet(t) ==
  \/ BarTestAndSet(t) \/ ArriveLast(t) \/ ArriveEarly(t) \/ BarClear(t)
  \/ WakeOthers(t) \/ BarSleep(t) \/ BarReturn(t)

BarNext == BarLaunch \/ \E t \in Ids : BarTasklet(t)

BarSpec == BarInit /\ [][BarNext]_barVars /\ \A t \in Ids : WF_barVars(BarTasklet(t))

-----------------------------------------------------------------------------
\* It is inside barrier_wait, or asleep in it.
Inside(t) == pc[t] \notin {"main", "ebreak"} \/ (pc[t] = "main" /\ t \notin running)

\* Barriers the tasklet is through.
Passed(t) == IF Inside(t) THEN arrived[t] - 1 ELSE arrived[t]

(***************************************************************************)
(* The counter and the mask describe the same tasklets, and each of them   *)
(* is in the barrier: whenever the metadata is free, a tasklet is counted  *)
(* exactly if it sleeps here, or is about to, and nobody is waking it.     *)
(***************************************************************************)
CountMatchesSleepers ==
  ~barMeta =>
    /\ barCount = Cardinality(sleepingMask)
    /\ sleepingMask = {t \in Ids : /\ Inside(t) /\ pc[t] # "wake"
                                   /\ \A w \in Ids : t \notin waking[w]}

=============================================================================
