------------------------------ MODULE SleepMutex ------------------------------
(***************************************************************************)
(* sleepmtx_t of rvisa/ummrv-rt/mutex.c.  The mutex is a ring of tasklet   *)
(* ids between head and tail: the id at head owns it, the others sleep.    *)
(* head = tail means free, although a ring holding all MaxTasklets ids     *)
(* looks the same.  A bit of CSR 2 guards the ring; it is released before  *)
(* a tasklet halts and before one is woken.                                *)
(*                                                                         *)
(* Every tasklet runs a client that locks, try-locks and unlocks at most   *)
(* MaxCalls times and returns, and the host launches the program again.    *)
(* A spin iteration that fails changes nothing and is a stuttering step.   *)
(***************************************************************************)
EXTENDS Tasklets, Sequences

CONSTANTS MaxTasklets,   \* MAX_NR_TASKLETS, the length of queue
          MaxCalls       \* bound: acquisitions a tasklet attempts per launch

ASSUME MaxTaskletsAssumption == MaxTasklets \in Nat /\ NrTasklets <= MaxTasklets
ASSUME MaxCallsAssumption == MaxCalls \in Nat

VARIABLES meta,          \* the mutex's bit in CSR 2
          head, tail,    \* indices into queue
          queue,
          alreadyLocked, \* sleepmutex_lock's local
          calls          \* acquisitions left to each client

mutexVars == <<meta, head, tail, queue, alreadyLocked>>
vars == <<running, pc, waking, meta, head, tail, queue, alreadyLocked, calls>>

Index == 0 .. MaxTasklets - 1

Init ==
  /\ LaunchTasklets("main")
  /\ meta = FALSE
  /\ head = 0
  /\ tail = 0
  /\ queue = [i \in Index |-> 0]
  /\ alreadyLocked = [t \in Ids |-> FALSE]
  /\ calls = [t \in Ids |-> MaxCalls]

-----------------------------------------------------------------------------
\* Mutant: the spin loop does not look at the old bit.
TestAndSetBlind == meta' = TRUE

\* csrrs on CSR 2 that found the bit clear.
TestAndSet ==
  /\ ~meta
  /\ meta' = TRUE

\* Mutant: the wrap-around comes one index late.
AdvanceLate(i) == IF i = MaxTasklets THEN 0 ELSE i + 1

Advance(i) == IF i + 1 = MaxTasklets THEN 0 ELSE i + 1

\* Mutant: the id is written behind the new tail.
EnqueueAfter(t) ==
  /\ queue' = [queue EXCEPT ![Advance(tail)] = t]
  /\ tail' = Advance(tail)

Enqueue(t) ==
  /\ queue' = [queue EXCEPT ![tail] = t]
  /\ tail' = Advance(tail)

-----------------------------------------------------------------------------
(* sleepmutex_lock *)

LockTestAndSet(t) ==
  /\ Step(t, "lock", "lock_check")
  /\ TestAndSet
  /\ UNCHANGED <<running, waking, head, tail, queue, alreadyLocked, calls>>

LockCheck(t) ==
  /\ Step(t, "lock_check", "lock_enqueue")
  /\ alreadyLocked' = [alreadyLocked EXCEPT ![t] = (head # tail)]
  /\ UNCHANGED <<running, waking, meta, head, tail, queue, calls>>

LockEnqueue(t) ==
  /\ Step(t, "lock_enqueue", "lock_clear")
  /\ Enqueue(t)
  /\ UNCHANGED <<running, waking, meta, head, alreadyLocked, calls>>

LockClear(t) ==
  /\ Step(t, "lock_clear", IF alreadyLocked[t] THEN "lock_halt" ELSE "critical")
  /\ meta' = FALSE
  /\ UNCHANGED <<running, waking, head, tail, queue, alreadyLocked, calls>>

\* (alreadyLocked is dead from here on.)
LockHalt(t) ==
  /\ Step(t, "lock_halt", "critical")
  /\ Halt(t)
  /\ alreadyLocked' = [alreadyLocked EXCEPT ![t] = FALSE]
  /\ UNCHANGED <<waking, meta, head, tail, queue, calls>>

-----------------------------------------------------------------------------
(* sleepmutex_unlock *)

UnlockTestAndSet(t) ==
  /\ Step(t, "unlock", "unlock_advance")
  /\ TestAndSet
  /\ UNCHANGED <<running, waking, head, tail, queue, alreadyLocked, calls>>

\* Mutant: the tasklet that came last is woken.
UnlockAdvanceNewest(t) ==
  /\ Step(t, "unlock_advance", "unlock_clear")
  /\ head' = Advance(head)
  /\ waking' = [waking EXCEPT ![t] =
       IF head' = tail THEN {} ELSE {queue[IF tail = 0 THEN MaxTasklets - 1 ELSE tail - 1]}]
  /\ UNCHANGED <<running, meta, tail, queue, alreadyLocked, calls>>

\* Mutant: the id at the new head is woken even if the ring is empty.
UnlockAdvanceAlways(t) ==
  /\ Step(t, "unlock_advance", "unlock_clear")
  /\ head' = Advance(head)
  /\ waking' = [waking EXCEPT ![t] = {queue[head']}]
  /\ UNCHANGED <<running, meta, tail, queue, alreadyLocked, calls>>

UnlockAdvance(t) ==
  /\ Step(t, "unlock_advance", "unlock_clear")
  /\ head' = Advance(head)
  /\ waking' = [waking EXCEPT ![t] = IF head' = tail THEN {} ELSE {queue[head']}]
  /\ UNCHANGED <<running, meta, tail, queue, alreadyLocked, calls>>

\* Mutant: the metadata bit is released only when somebody is to be woken.
UnlockClearNoElse(t) ==
  /\ Step(t, "unlock_clear", IF waking[t] = {} THEN "main" ELSE "unlock_wake")
  /\ meta' = (waking[t] = {})
  /\ UNCHANGED <<running, waking, head, tail, queue, alreadyLocked, calls>>

UnlockClear(t) ==
  /\ Step(t, "unlock_clear", IF waking[t] = {} THEN "main" ELSE "unlock_wake")
  /\ meta' = FALSE
  /\ UNCHANGED <<running, waking, head, tail, queue, alreadyLocked, calls>>

UnlockWake(t) ==
  /\ WakeOnce(t, "unlock_wake", "main")
  /\ UNCHANGED <<meta, head, tail, queue, alreadyLocked, calls>>

-----------------------------------------------------------------------------
(* sleepmutex_trylock *)

TryTestAndSet(t) ==
  /\ Step(t, "try", IF meta THEN "main" ELSE "try_check")
  /\ meta' = TRUE
  /\ UNCHANGED <<running, waking, head, tail, queue, alreadyLocked, calls>>

TryCheck(t) ==
  /\ UNCHANGED <<running, waking, meta, head, alreadyLocked, calls>>
  /\ \/ head # tail /\ Step(t, "try_check", "try_fail") /\ UNCHANGED <<tail, queue>>
     \/ head = tail /\ Step(t, "try_check", "try_clear") /\ Enqueue(t)

TryClear(t) ==
  /\ Step(t, "try_fail", "main") \/ Step(t, "try_clear", "critical")
  /\ meta' = FALSE
  /\ UNCHANGED <<running, waking, head, tail, queue, alreadyLocked, calls>>

-----------------------------------------------------------------------------
(* The client: calls of the API, return from main, the next launch. *)

Call(t) ==
  /\ Step(t, "main", "lock") \/ Step(t, "main", "try")
  /\ calls[t] > 0
  /\ calls' = [calls EXCEPT ![t] = @ - 1]
  /\ UNCHANGED <<running, waking, mutexVars>>

Leave(t) ==
  /\ Step(t, "critical", "unlock")
  /\ UNCHANGED <<running, waking, mutexVars, calls>>

Return(t) ==
  /\ calls[t] = 0
  /\ ReturnFromMain(t, "main")
  /\ UNCHANGED <<mutexVars, calls>>

Launch ==
  /\ Relaunch("main")
  /\ calls' = [t \in Ids |-> MaxCalls]
  /\ UNCHANGED mutexVars

Tasklet(t) ==
  \/ LockTestAndSet(t) \/ LockCheck(t) \/ LockEnqueue(t) \/ LockClear(t) \/ LockHalt(t)
  \/ UnlockTestAndSet(t) \/ UnlockAdvance(t) \/ UnlockClear(t) \/ UnlockWake(t)
  \/ TryTestAndSet(t) \/ TryCheck(t) \/ TryClear(t)
  \/ Call(t) \/ Leave(t) \/ Return(t)

Next == Launch \/ \E t \in Ids : Tasklet(t)

Fairness == \A t \in Ids : WF_vars(Tasklet(t))

Spec == Init /\ [][Next]_vars /\ Fairness

-----------------------------------------------------------------------------
(* Who is where. *)

\* The tasklet's id is in the ring.
Queued(t) == pc[t] \in {"lock_clear", "lock_halt", "critical", "try_clear",
                        "unlock", "unlock_advance"}

\* It is in the ring and need not wait for anybody.
Owns(t) ==
  \/ pc[t] \in {"try_clear", "unlock", "unlock_advance"}
  \/ pc[t] = "lock_clear" /\ ~alreadyLocked[t]
  \/ pc[t] = "critical" /\ t \in running

\* It has taken the CSR 2 bit and not cleared it yet.
HasMeta(t) == pc[t] \in {"lock_check", "lock_enqueue", "lock_clear", "unlock_advance",
                         "unlock_clear", "try_check", "try_fail", "try_clear"}

\* w has popped itself and has yet to get u out of its sleep.
Wakes(w, u) == pc[w] \in {"unlock_clear", "unlock_wake"} /\ waking[w] = {u}

\* The cells from head up to tail; of the two rings with head = tail, the
\* full one is the one somebody is in.
Occupied ==
  IF head < tail THEN head .. tail - 1
  ELSE IF head > tail \/ \E t \in Ids : Queued(t)
       THEN (head .. MaxTasklets - 1) \cup (0 .. tail - 1)
       ELSE {}

Labels == {"main", "lock", "lock_check", "lock_enqueue", "lock_clear", "lock_halt",
           "critical", "unlock", "unlock_advance", "unlock_clear", "unlock_wake",
           "try", "try_check", "try_fail", "try_clear", "ebreak"}

\* The values the variables range over (mutex.h's uint8_t indices and ids).
TypeOK ==
  /\ running \in SUBSET Ids
  /\ pc \in [Ids -> Labels]
  /\ waking \in [Ids -> SUBSET Ids]
  /\ meta \in BOOLEAN
  /\ head \in Index
  /\ tail \in Index
  /\ queue \in [Index -> Ids]
  /\ alreadyLocked \in [Ids -> BOOLEAN]
  /\ calls \in [Ids -> 0 .. MaxCalls]

(***************************************************************************)
(* Two tasklets are never inside at once: between the return of            *)
(* sleepmutex_lock or a successful trylock and the pop in                  *)
(* sleepmutex_unlock, also while a hand-over is under way.                 *)
(***************************************************************************)
MutualExclusion == \A t, u \in Ids : Owns(t) /\ Owns(u) => t = u

(***************************************************************************)
(* The ring holds exactly the tasklets that asked and have not left, each  *)
(* once, even when all MaxTasklets of them are in it and head = tail.      *)
(***************************************************************************)
RingIsTheLine ==
  /\ \A i \in Occupied : queue[i] \in Ids /\ Queued(queue[i])
  /\ \A i, j \in Occupied : queue[i] = queue[j] => i = j
  /\ \A t \in Ids : Queued(t) => \E i \in Occupied : queue[i] = t

(***************************************************************************)
(* Served in the order of the enqueue, nobody passed over, nobody let in   *)
(* before the release of the one in front: the FIFO lock.                  *)
(***************************************************************************)
Line ==
  [i \in 1 .. Cardinality({t \in Ids : Queued(t)}) |-> queue[(head + i - 1) % MaxTasklets]]

Fifo == INSTANCE FifoLock WITH
          Threads <- Ids, line <- Line, granted <- \E t \in Ids : Owns(t)

IsFifoLock == Fifo!Spec

(***************************************************************************)
(* A program that locks a bounded number of times terminates on every      *)
(* launch: no unlock loops for ever on a target that will not sleep.       *)
(***************************************************************************)
EveryLaunchEnds == []<>Stopped

=============================================================================
