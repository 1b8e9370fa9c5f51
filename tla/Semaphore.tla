------------------------------- MODULE Semaphore -------------------------------
(***************************************************************************)
(* sem_t of rvisa/ummrv-rt/semaphore.c: a counter that never exceeds its   *)
(* initial value and the set of tasklets that sleep for want of a unit,    *)
(* guarded by a bit of CSR 1.  sem_give hands its unit straight to the     *)
(* sleeping tasklet with the lowest id and leaves the counter alone.       *)
(*                                                                         *)
(* The semaphore is set up by DPU_SEMAPHORE_INIT(name, bit, MaxCount) or   *)
(* sem_init.  The clients use it as a pool of MaxCount units: a tasklet    *)
(* takes units (sem_wait, sem_trywait) and gives back what it has.  Failed *)
(* spin iterations are stuttering steps.                                   *)
(***************************************************************************)
EXTENDS Tasklets

CONSTANTS MaxCount,    \* max_count
          MaxCalls     \* bound: units a tasklet asks for per launch

ASSUME MaxCountAssumption == MaxCount \in 1 .. 255  \* sem_init rejects 0
ASSUME ClientAssumption == MaxCalls \in Nat

VARIABLES meta,          \* the semaphore's bit in CSR 1
          currentCount,
          waitingMask,
          holders,       \* the clients that hold a unit
          calls          \* requests left to each client

semFields == <<meta, currentCount, waitingMask>>
semVars == <<running, pc, waking, meta, currentCount, waitingMask, holders, calls>>

SemInit ==
  /\ LaunchTasklets("main")
  /\ meta = FALSE
  /\ currentCount = MaxCount
  /\ waitingMask = {}
  /\ holders = {}
  /\ calls = [t \in Ids |-> MaxCalls]

-----------------------------------------------------------------------------
SemTestAndSet(t, from, to) ==
  /\ Step(t, from, to)
  /\ ~meta
  /\ meta' = TRUE
  /\ UNCHANGED <<running, waking, currentCount, waitingMask, holders, calls>>

\* The unit is the caller's.
Take(t) ==
  /\ currentCount > 0
  /\ currentCount' = currentCount - 1
  /\ holders' = holders \cup {t}

-----------------------------------------------------------------------------
(* sem_wait *)

WaitTestAndSet(t) == SemTestAndSet(t, "wait", "wait_check")

WaitTake(t) ==
  /\ Step(t, "wait_check", "clear")
  /\ Take(t)
  /\ UNCHANGED <<running, waking, meta, waitingMask, calls>>

WaitJoin(t) ==
  /\ Step(t, "wait_check", "wait_clear")
  /\ currentCount = 0
  /\ waitingMask' = waitingMask \cup {t}
  /\ UNCHANGED <<running, waking, meta, currentCount, holders, calls>>

WaitHalt(t) ==
  /\ Step(t, "wait_halt", "wait_done")
  /\ Halt(t)
  /\ UNCHANGED <<waking, semFields, holders, calls>>

\* Woken: the giver's unit is now the caller's.
WaitDone(t) ==
  /\ Step(t, "wait_done", "main")
  /\ holders' = holders \cup {t}
  /\ UNCHANGED <<running, waking, semFields, calls>>

-----------------------------------------------------------------------------
(* sem_trywait *)

TryTestAndSet(t) ==
  /\ Step(t, "try", IF meta THEN "main" ELSE "try_check")
  /\ meta' = TRUE
  /\ UNCHANGED <<running, waking, currentCount, waitingMask, holders, calls>>

TryTake(t) ==
  /\ Step(t, "try_check", "clear")
  /\ Take(t)
  /\ UNCHANGED <<running, waking, meta, waitingMask, calls>>

TryFail(t) ==
  /\ Step(t, "try_check", "clear")
  /\ currentCount = 0
  /\ UNCHANGED <<running, waking, semFields, holders, calls>>

-----------------------------------------------------------------------------
(* sem_give *)

GiveTestAndSet(t) == SemTestAndSet(t, "give", "give_check")

\* __builtin_ctz of the mask.
LowestWaiting == {u \in waitingMask : \A v \in waitingMask : u <= v}

\* Mutant: the counter is also incremented when the unit is handed over.
GiveHandOverTwice(t) ==
  /\ Step(t, "give_check", "give_clear")
  /\ \E next \in LowestWaiting :
       /\ waitingMask' = waitingMask \ {next}
       /\ waking' = [waking EXCEPT ![t] = {next}]
  /\ currentCount' = currentCount + 1
  /\ holders' = holders \ {t}
  /\ UNCHANGED <<running, meta, calls>>

\* Mutant: the woken tasklet stays in the waiting set.
GiveHandOverKept(t) ==
  /\ Step(t, "give_check", "give_clear")
  /\ \E next \in LowestWaiting : waking' = [waking EXCEPT ![t] = {next}]
  /\ holders' = holders \ {t}
  /\ UNCHANGED <<running, semFields, calls>>

GiveHandOver(t) ==
  /\ Step(t, "give_check", "give_clear")
  /\ \E next \in LowestWaiting :
       /\ waitingMask' = waitingMask \ {next}
       /\ waking' = [waking EXCEPT ![t] = {next}]
  /\ holders' = holders \ {t}
  /\ UNCHANGED <<running, meta, currentCount, calls>>

\* Mutant: the unit goes to the counter although somebody sleeps.
GiveBackPastWaiters(t) ==
  /\ Step(t, "give_check", "clear")
  /\ currentCount' = IF currentCount < MaxCount THEN currentCount + 1 ELSE currentCount
  /\ holders' = holders \ {t}
  /\ UNCHANGED <<running, waking, meta, waitingMask, calls>>

GiveBack(t) ==
  /\ waitingMask = {}
  /\ Step(t, "give_check", "clear")
  /\ currentCount' = IF currentCount < MaxCount THEN currentCount + 1 ELSE currentCount
  /\ holders' = holders \ {t}
  /\ UNCHANGED <<running, waking, meta, waitingMask, calls>>

GiveWake(t) ==
  /\ WakeOnce(t, "give_wake", "main")
  /\ UNCHANGED <<semFields, holders, calls>>

-----------------------------------------------------------------------------
\* csr1_clear, at the end of every critical section.
SemClear(t) ==
  /\ \/ Step(t, "clear", "main")
     \/ Step(t, "wait_clear", "wait_halt")
     \/ Step(t, "give_clear", "give_wake")
  /\ meta' = FALSE
  /\ UNCHANGED <<running, waking, currentCount, waitingMask, holders, calls>>

(* The client: calls of the API, return from main, the next launch. *)

Ask(t) ==
  /\ Step(t, "main", "wait") \/ Step(t, "main", "try")
  /\ calls[t] > 0
  /\ t \notin holders
  /\ calls' = [calls EXCEPT ![t] = @ - 1]
  /\ UNCHANGED <<running, waking, semFields, holders>>

Give(t) ==
  /\ Step(t, "main", "give")
  /\ t \in holders
  /\ UNCHANGED <<running, waking, semFields, holders, calls>>

SemReturn(t) ==
  /\ calls[t] = 0
  /\ t \notin holders
  /\ ReturnFromMain(t, "main")
  /\ UNCHANGED <<semFields, holders, calls>>

SemLaunch ==
  /\ Relaunch("main")
  /\ calls' = [t \in Ids |-> MaxCalls]
  /\ holders' = {}
  /\ UNCHANGED semFields

SemTasklet(t) ==
  \/ WaitTestAndSet(t) \/ WaitTake(t) \/ WaitJoin(t) \/ WaitHalt(t) \/ WaitDone(t)
  \/ TryTestAndSet(t) \/ TryTake(t) \/ TryFail(t)
  \/ GiveTestAndSet(t) \/ GiveHandOver(t) \/ GiveBack(t) \/ GiveWake(t)
  \/ SemClear(t) \/ Ask(t) \/ Give(t) \/ SemReturn(t)

SemNext == SemLaunch \/ \E t \in Ids : SemTasklet(t)

SemSpec == SemInit /\ [][SemNext]_semVars /\ \A t \in Ids : WF_semVars(SemTasklet(t))

-----------------------------------------------------------------------------
\* The values the variables range over.
SemTypeOK ==
  /\ running \in SUBSET Ids
  /\ pc \in [Ids -> {"main", "wait", "wait_check", "wait_clear", "wait_halt", "wait_done",
                     "try", "try_check", "clear", "give", "give_check", "give_clear",
                     "give_wake", "ebreak"}]
  /\ waking \in [Ids -> SUBSET Ids]
  /\ meta \in BOOLEAN
  /\ currentCount \in 0 .. MaxCount
  /\ waitingMask \in SUBSET Ids
  /\ holders \in SUBSET Ids
  /\ calls \in [Ids -> 0 .. MaxCalls]

\* Units on their way from a giver to a tasklet that slept.
HandedOver ==
  {w \in Ids : pc[w] \in {"give_clear", "give_wake"}} \cup
  {t \in running : pc[t] = "wait_done"}

(***************************************************************************)
(* Units are neither lost nor made: what is in the counter, with the       *)
(* clients and on its way adds up to MaxCount at every step.  With         *)
(* MaxCount = 1 this is mutual exclusion.                                  *)
(***************************************************************************)
UnitsConserved ==
  currentCount + Cardinality(holders) + Cardinality(HandedOver) = MaxCount

(***************************************************************************)
(* Nobody sleeps next to a free unit.                                      *)
(***************************************************************************)
NobodyWaitsInVain == waitingMask # {} => currentCount = 0

=============================================================================
