-------------------------- MODULE KnownBarrierProofs --------------------------
(***************************************************************************)
(* known_barrier_wait for any number of tasklets and rounds, when all      *)
(* tasklets pass the mask of all (all_threads_barrier_wait).               *)
(***************************************************************************)
EXTENDS KnownBarrier, TLAPS

AllMeet == \A t \in Ids : MaskOf[t] = Ids

Waker(t) == pc[t] \in {"reset", "wake"}

(* Those with their bit set are one arrival ahead of those without. *)
InStep ==
  /\ \A t, u \in csr8 : arrived[t] = arrived[u]
  /\ \A t, u \in Ids \ csr8 : arrived[t] = arrived[u]
  /\ \A t \in csr8 : \A u \in Ids \ csr8 : arrived[t] = arrived[u] + 1

(* A set bit is that of a tasklet asleep, of one about to sleep, or of the *)
(* last one; the word is full only until that one resets it.               *)
BitsOfWaiters ==
  /\ \A t \in csr8 : Waiting(t) \/ pc[t] = "reset"
  /\ \A t \in Ids : pc[t] = "reset" => csr8 = Ids /\ waking[t] = Ids \ {t}
  /\ csr8 = Ids => \E t \in Ids : pc[t] = "reset"

(* One tasklet at a time wakes, and its targets are exactly the sleepers   *)
(* without a bit.                                                          *)
OneWaker ==
  /\ \A t, u \in Ids : Waker(t) /\ Waker(u) => t = u
  /\ \A t \in Ids : pc[t] = "wake" =>
       /\ t \notin csr8
       /\ \A u \in waking[t] : Waiting(u) /\ u \notin csr8
  /\ \A u \in Ids \ csr8 : Waiting(u) => \E t \in Ids : pc[t] = "wake" /\ u \in waking[t]

(* Who is not running sleeps in the barrier or has returned. *)
Resting ==
  /\ \A t \in Ids \ running : pc[t] \in {"main", "ebreak"}
  /\ \A t \in Ids : pc[t] = "ebreak" => t \notin running /\ arrived[t] = Rounds

IInv == TypeOK /\ InStep /\ BitsOfWaiters /\ OneWaker /\ Resting

-----------------------------------------------------------------------------
LEMMA TypeNext == TypeOK /\ [Next]_vars => TypeOK'
<1> SUFFICES ASSUME TypeOK, [Next]_vars PROVE TypeOK'
  OBVIOUS
<1> USE RoundsAssumption DEF TypeOK, Labels, Step, Runs, Goto
<1>1. CASE Launch
  BY <1>1 DEF Launch, Relaunch
<1>2. ASSUME NEW t \in Ids, Arrive(t) PROVE TypeOK'
  BY <1>2 DEF Arrive
<1>3. ASSUME NEW t \in Ids, Reset(t) PROVE TypeOK'
  BY <1>3 DEF Reset
<1>4. ASSUME NEW t \in Ids, WakeOthers(t) PROVE TypeOK'
  BY <1>4 DEF WakeOthers, WakeOnce
<1>5. ASSUME NEW t \in Ids, Sleep(t) PROVE TypeOK'
  BY <1>5 DEF Sleep, Halt
<1>6. ASSUME NEW t \in Ids, Return(t) PROVE TypeOK'
  BY <1>6 DEF Return, ReturnFromMain, Halt
<1>7. CASE UNCHANGED vars
  BY <1>7 DEF vars
<1> QED
  BY <1>1, <1>2, <1>3, <1>4, <1>5, <1>6, <1>7 DEF Next, Tasklet

(***************************************************************************)
(* The variables keep to their ranges, whatever masks are passed.          *)
(***************************************************************************)
THEOREM TypeCorrect == Spec => []TypeOK
<1>1. Init => TypeOK
  BY RoundsAssumption, SMT DEF Init, LaunchTasklets, TypeOK, Labels
<1>2. TypeOK /\ [Next]_vars => TypeOK'
  BY TypeNext
<1> QED
  BY <1>1, <1>2, PTL DEF Spec

-----------------------------------------------------------------------------
(* What the invariant says about a tasklet that is about to act. *)

LEMMA NotEmpty == Ids # {}
<1>1. 0 \in Ids
  BY NrTaskletsAssumption DEF Ids
<1> QED
  BY <1>1

LEMMA CallerHasNoBit ==
  ASSUME IInv, NEW t \in Ids, Runs(t, "main")
  PROVE  t \notin csr8
BY DEF IInv, BitsOfWaiters, Runs, Waiting

(***************************************************************************)
(* When nobody runs, everybody has returned: whoever sleeps at a barrier   *)
(* is one round ahead of those that returned, which is impossible, and a   *)
(* full word has a last tasklet that is awake.                             *)
(***************************************************************************)
LEMMA InvDone == ASSUME IInv PROVE StopsOnlyWhenDone
<1> SUFFICES ASSUME Stopped, NEW t \in Ids, pc[t] # "ebreak" PROVE FALSE
  BY DEF StopsOnlyWhenDone
<1>1. \A u \in Ids : u \notin running /\ pc[u] \in {"main", "ebreak"}
  BY DEF IInv, Resting, Stopped
<1>2. Waiting(t)
  BY <1>1 DEF Waiting
<1>3. t \in csr8
  BY <1>1, <1>2 DEF IInv, OneWaker
<1>4. PICK u \in Ids : u \notin csr8
  BY <1>1 DEF IInv, BitsOfWaiters, TypeOK
<1>5. ~Waiting(u)
  BY <1>1, <1>4 DEF IInv, OneWaker
<1>6. pc[u] = "ebreak"
  BY <1>1, <1>5 DEF Waiting
<1>7. arrived[u] = Rounds /\ arrived[t] = arrived[u] + 1 /\ arrived[t] \in 0 .. Rounds
  BY <1>3, <1>4, <1>6 DEF IInv, InStep, Resting, TypeOK
<1> QED
  BY <1>7, RoundsAssumption

(* Nobody is through a barrier that somebody has still to reach. *)
LEMMA InvEarly == ASSUME AllMeet, IInv PROVE NobodyPassesEarly
<1> SUFFICES ASSUME NEW t \in Ids, NEW u \in Ids PROVE Passed(t) <= arrived[u]
  BY DEF NobodyPassesEarly, AllMeet
<1>1. arrived[t] \in Nat /\ arrived[u] \in Nat
  BY RoundsAssumption DEF IInv, TypeOK
<1>2. CASE t \in csr8
  <2>1. Passed(t) = arrived[t] - 1
    BY <1>2 DEF Passed, IInv, BitsOfWaiters
  <2>2. arrived[t] = arrived[u] \/ arrived[t] = arrived[u] + 1
    BY <1>2 DEF IInv, InStep
  <2> QED
    BY <1>1, <2>1, <2>2
<1>3. CASE t \notin csr8
  <2>1. arrived[t] = arrived[u] \/ arrived[u] = arrived[t] + 1
    BY <1>3 DEF IInv, InStep
  <2> QED
    BY <1>1, <2>1 DEF Passed
<1> QED
  BY <1>2, <1>3

-----------------------------------------------------------------------------
LEMMA InvInit == Init => IInv
<1> SUFFICES ASSUME Init PROVE IInv
  OBVIOUS
<1> USE DEF Init, LaunchTasklets
<1>1. TypeOK
  BY RoundsAssumption DEF TypeOK, Labels
<1>2. InStep
  BY DEF InStep
<1>3. BitsOfWaiters
  BY NotEmpty DEF BitsOfWaiters
<1>4. OneWaker
  BY DEF OneWaker, Waker, Waiting
<1>5. Resting
  BY DEF Resting
<1> QED
  BY <1>1, <1>2, <1>3, <1>4, <1>5 DEF IInv

LEMMA InvArrive ==
  ASSUME AllMeet, IInv, TypeOK', NEW t \in Ids, Arrive(t)
  PROVE  IInv'
<1> DEFINE last == MaskOf[t] = csr8 \cup {t}
<1>1. /\ t \in running /\ t \notin csr8 /\ pc[t] = "main"
      /\ csr8' = csr8 \cup {t} /\ running' = running
      /\ csr8 \subseteq Ids
  BY CallerHasNoBit DEF Arrive, Step, Runs, IInv, TypeOK
<1>2. /\ arrived' = [arrived EXCEPT ![t] = arrived[t] + 1]
      /\ arrived \in [Ids -> Int]
  BY RoundsAssumption DEF Arrive, IInv, TypeOK
<1>3. /\ pc' = [pc EXCEPT ![t] = IF last THEN "reset" ELSE "halt"]
      /\ waking' = [waking EXCEPT ![t] = IF last THEN csr8 ELSE {}]
      /\ pc \in [Ids -> Labels] /\ waking \in [Ids -> SUBSET Ids]
  BY DEF Arrive, Step, Goto, IInv, TypeOK
<1>4. last <=> csr8' = Ids
  BY <1>1 DEF AllMeet
<1>5. \A u \in Ids : u # t => /\ pc'[u] = pc[u] /\ waking'[u] = waking[u]
                              /\ (Waiting(u))' = Waiting(u)
  BY <1>1, <1>3 DEF Waiting
<1>6. \A u \in Ids : pc[u] # "reset"
  BY <1>1 DEF IInv, BitsOfWaiters
<1>7. InStep'
  <2>1. \A u \in csr8 : arrived[u] = arrived[t] + 1
    BY <1>1 DEF IInv, InStep
  <2>2. \A u \in Ids \ csr8 : arrived[u] = arrived[t]
    BY <1>1 DEF IInv, InStep
  <2>3. \A u \in csr8' : arrived'[u] = arrived[t] + 1
    BY <1>1, <1>2, <2>1
  <2>4. \A u \in Ids \ csr8' : arrived'[u] = arrived[t]
    BY <1>1, <1>2, <2>2
  <2> QED
    BY <2>3, <2>4 DEF InStep
<1>8. BitsOfWaiters'
  <2>1. \A u \in csr8' : (Waiting(u))' \/ pc'[u] = "reset"
    BY <1>1, <1>3, <1>5, <1>6 DEF IInv, BitsOfWaiters, Waiting
  <2>2. \A u \in Ids : pc'[u] = "reset" => csr8' = Ids /\ waking'[u] = Ids \ {u}
    BY <1>1, <1>3, <1>4, <1>5, <1>6
  <2>3. csr8' = Ids => pc'[t] = "reset"
    BY <1>3, <1>4
  <2> QED
    BY <2>1, <2>2, <2>3 DEF BitsOfWaiters
<1>9. OneWaker'
  <2>1. \A w \in Ids : pc[w] = "wake" => w \notin csr8'
    BY <1>1 DEF IInv, OneWaker
  <2>2. last => \A w \in Ids : pc[w] # "wake"
    BY <1>4, <2>1
  <2>3. \A u, v \in Ids : (Waker(u))' /\ (Waker(v))' => u = v
    BY <1>3, <1>5, <1>6, <2>2 DEF IInv, OneWaker, Waker
  <2>4. ASSUME NEW w \in Ids, pc'[w] = "wake"
        PROVE  w \notin csr8' /\ \A u \in waking'[w] : (Waiting(u))' /\ u \notin csr8'
    <3>1. w # t /\ pc[w] = "wake" /\ waking'[w] = waking[w]
      BY <1>3, <1>5, <2>4
    <3>2. \A u \in waking[w] : u \in Ids /\ Waiting(u) /\ u \notin csr8 /\ u # t
      BY <3>1, <1>1, <1>3 DEF IInv, OneWaker, Waiting
    <3> QED
      BY <3>1, <3>2, <2>1, <1>1, <1>5
  <2>5. ASSUME NEW u \in Ids \ csr8', (Waiting(u))'
        PROVE  \E w \in Ids : pc'[w] = "wake" /\ u \in waking'[w]
    <3>1. PICK w \in Ids : pc[w] = "wake" /\ u \in waking[w]
      BY <1>1, <1>5, <2>5 DEF IInv, OneWaker
    <3> QED
      BY <3>1, <1>1, <1>5
  <2> QED
    BY <2>3, <2>4, <2>5 DEF OneWaker
<1>10. Resting'
  BY <1>1, <1>2, <1>3 DEF IInv, Resting
<1> QED
  BY <1>7, <1>8, <1>9, <1>10 DEF IInv

LEMMA InvReset ==
  ASSUME IInv, TypeOK', NEW t \in Ids, Reset(t)
  PROVE  IInv'
<1>1. /\ pc[t] = "reset" /\ csr8 = Ids /\ waking[t] = Ids \ {t}
      /\ csr8' = {} /\ running' = running /\ waking' = waking /\ arrived' = arrived
  BY DEF Reset, Step, Runs, IInv, BitsOfWaiters
<1>2. pc' = [pc EXCEPT ![t] = "wake"] /\ pc \in [Ids -> Labels] /\ t \in running
  BY DEF Reset, Step, Goto, Runs, IInv, TypeOK
<1>3. \A u \in Ids : u # t => pc[u] # "wake" /\ pc[u] # "reset" /\ Waiting(u)
  BY <1>1 DEF IInv, OneWaker, BitsOfWaiters, Waker
<1>4. \A u \in Ids : (Waiting(u))' <=> u # t
  BY <1>1, <1>2, <1>3 DEF Waiting
<1>5. InStep'
  BY <1>1 DEF IInv, InStep
<1>6. BitsOfWaiters'
  BY <1>1, <1>2, <1>3, NotEmpty DEF BitsOfWaiters
<1>7. OneWaker'
  BY <1>1, <1>2, <1>3, <1>4 DEF OneWaker, Waker
<1>8. Resting'
  BY <1>1, <1>2 DEF IInv, Resting
<1> QED
  BY <1>5, <1>6, <1>7, <1>8 DEF IInv

LEMMA InvWakeOthers ==
  ASSUME IInv, TypeOK', NEW t \in Ids, WakeOthers(t)
  PROVE  IInv'
<1> DEFINE stillRunning == waking[t] \cap running
<1>1. /\ pc[t] = "wake" /\ t \in running /\ t \notin csr8
      /\ running' = running \cup waking[t]
      /\ csr8' = csr8 /\ arrived' = arrived
  BY DEF WakeOthers, WakeOnce, Runs, IInv, OneWaker
<1>2. /\ waking' = [waking EXCEPT ![t] = stillRunning]
      /\ pc' = [pc EXCEPT ![t] = IF stillRunning = {} THEN "main" ELSE "wake"]
      /\ pc \in [Ids -> Labels] /\ waking \in [Ids -> SUBSET Ids]
  BY DEF WakeOthers, WakeOnce, Goto, IInv, TypeOK
<1>3. \A u \in waking[t] : u \in Ids /\ Waiting(u) /\ u \notin csr8
  BY <1>1, <1>2 DEF IInv, OneWaker
<1>4. \A u \in Ids : u # t => pc[u] # "wake" /\ pc[u] # "reset" /\ pc'[u] = pc[u]
  BY <1>1, <1>2 DEF IInv, OneWaker, Waker
<1>5. ~(Waiting(t))' /\ ~Waiting(t)
  BY <1>1, <1>2 DEF Waiting
<1>6. \A u \in Ids : (Waiting(u))' <=> Waiting(u) /\ u \notin waking[t] \ running
  <2> TAKE u \in Ids
  <2>1. CASE u = t
    BY <2>1, <1>5
  <2>2. CASE u # t
    BY <2>2, <1>1, <1>3, <1>4 DEF Waiting, IInv, Resting
  <2> QED
    BY <2>1, <2>2
<1>7. InStep'
  BY <1>1 DEF IInv, InStep
<1>8. BitsOfWaiters'
  <2>1. \A u \in csr8' : (Waiting(u))'
    BY <1>1, <1>3, <1>4, <1>6 DEF IInv, BitsOfWaiters, TypeOK
  <2>2. \A u \in Ids : pc'[u] # "reset"
    BY <1>1, <1>2, <1>4
  <2> QED
    BY <1>1, <2>1, <2>2 DEF BitsOfWaiters
<1>9. OneWaker'
  <2>1. \A u \in Ids : (Waker(u))' => u = t
    BY <1>4 DEF Waker
  <2>2. \A u \in waking'[t] : (Waiting(u))' /\ u \notin csr8'
    BY <1>1, <1>2, <1>3, <1>6
  <2>3. ASSUME NEW u \in Ids \ csr8', (Waiting(u))'
        PROVE  pc'[t] = "wake" /\ u \in waking'[t]
    <3>1. u \in waking[t]
      BY <1>1, <1>4, <1>6, <2>3 DEF IInv, OneWaker
    <3>2. u \in stillRunning
      BY <3>1, <1>6, <2>3
    <3> QED
      BY <3>2, <1>2
  <2> QED
    BY <1>1, <1>4, <2>1, <2>2, <2>3 DEF OneWaker
<1>10. Resting'
  BY <1>1, <1>2, <1>3 DEF IInv, Resting, Waiting
<1> QED
  BY <1>7, <1>8, <1>9, <1>10 DEF IInv

LEMMA InvSleep ==
  ASSUME IInv, TypeOK', NEW t \in Ids, Sleep(t)
  PROVE  IInv'
<1>1. /\ pc[t] = "halt" /\ running' = running \ {t} /\ pc' = [pc EXCEPT ![t] = "main"]
      /\ pc \in [Ids -> Labels]
      /\ csr8' = csr8 /\ arrived' = arrived /\ waking' = waking
  BY DEF Sleep, Step, Runs, Goto, Halt, IInv, TypeOK
<1>2. \A u \in Ids : (Waiting(u))' = Waiting(u)
  BY <1>1 DEF Waiting
<1>3. \A u \in Ids : /\ pc'[u] = "reset" <=> pc[u] = "reset"
                     /\ pc'[u] = "wake" <=> pc[u] = "wake"
  BY <1>1
<1>4. InStep'
  BY <1>1 DEF IInv, InStep
<1>5. BitsOfWaiters'
  BY <1>1, <1>2, <1>3 DEF IInv, BitsOfWaiters, TypeOK
<1>6. OneWaker'
  <2>1. \A u \in Ids : (Waker(u))' = Waker(u)
    BY <1>3 DEF Waker
  <2>2. \A u \in Ids : \A v \in waking[u] : v \in Ids
    BY DEF IInv, TypeOK
  <2> QED
    BY <1>1, <1>2, <1>3, <2>1, <2>2 DEF IInv, OneWaker
<1>7. Resting'
  BY <1>1 DEF IInv, Resting
<1> QED
  BY <1>4, <1>5, <1>6, <1>7 DEF IInv

LEMMA InvReturn ==
  ASSUME IInv, TypeOK', NEW t \in Ids, Return(t)
  PROVE  IInv'
<1>1. /\ pc[t] = "main" /\ t \in running /\ running' = running \ {t}
      /\ pc' = [pc EXCEPT ![t] = "ebreak"] /\ pc \in [Ids -> Labels]
      /\ csr8' = csr8 /\ arrived' = arrived /\ waking' = waking /\ arrived[t] = Rounds
  BY DEF Return, ReturnFromMain, Step, Runs, Goto, Halt, IInv, TypeOK
<1>2. \A u \in Ids : (Waiting(u))' = Waiting(u)
  BY <1>1 DEF Waiting
<1>3. \A u \in Ids : /\ pc'[u] = "reset" <=> pc[u] = "reset"
                     /\ pc'[u] = "wake" <=> pc[u] = "wake"
  BY <1>1
<1>4. InStep'
  BY <1>1 DEF IInv, InStep
<1>5. BitsOfWaiters'
  BY <1>1, <1>2, <1>3 DEF IInv, BitsOfWaiters, TypeOK
<1>6. OneWaker'
  <2>1. \A u \in Ids : (Waker(u))' = Waker(u)
    BY <1>3 DEF Waker
  <2>2. \A u \in Ids : \A v \in waking[u] : v \in Ids
    BY DEF IInv, TypeOK
  <2> QED
    BY <1>1, <1>2, <1>3, <2>1, <2>2 DEF IInv, OneWaker
<1>7. Resting'
  BY <1>1 DEF IInv, Resting
<1> QED
  BY <1>4, <1>5, <1>6, <1>7 DEF IInv

LEMMA InvLaunch ==
  ASSUME IInv, TypeOK', Launch
  PROVE  IInv'
<1>1. \A t \in Ids : pc[t] = "ebreak" /\ t \notin running
  BY InvDone DEF Launch, Relaunch, StopsOnlyWhenDone, IInv, Resting
<1>2. csr8 = {}
  BY <1>1 DEF IInv, BitsOfWaiters, TypeOK, Waiting
<1>3. /\ running' = Ids /\ pc' = [t \in Ids |-> "main"] /\ csr8' = {}
      /\ arrived' = [t \in Ids |-> 0]
  BY <1>2 DEF Launch, Relaunch
<1>4. InStep' /\ BitsOfWaiters'
  BY <1>3, NotEmpty DEF InStep, BitsOfWaiters
<1>5. OneWaker' /\ Resting'
  BY <1>3 DEF OneWaker, Resting, Waker, Waiting
<1> QED
  BY <1>4, <1>5 DEF IInv

LEMMA InvNext == ASSUME AllMeet, IInv, [Next]_vars PROVE IInv'
<1>1. TypeOK'
  <2>1. TypeOK
    BY DEF IInv
  <2> QED
    BY <2>1, TypeNext
<1>2. CASE Launch
  BY <1>1, <1>2, InvLaunch
<1>3. ASSUME NEW t \in Ids, Tasklet(t) PROVE IInv'
  BY <1>1, <1>3, InvArrive, InvReset, InvWakeOthers, InvSleep, InvReturn DEF Tasklet
<1>4. CASE UNCHANGED vars
  BY <1>4 DEF vars, IInv, TypeOK, InStep, BitsOfWaiters, OneWaker, Resting, Waker, Waiting
<1> QED
  BY <1>2, <1>3, <1>4 DEF Next

-----------------------------------------------------------------------------
(***************************************************************************)
(* all_threads_barrier_wait lets nobody through early.                     *)
(***************************************************************************)
THEOREM NeverEarly == ASSUME AllMeet PROVE Spec => []NobodyPassesEarly
<1>1. Init => IInv
  BY InvInit
<1>2. IInv /\ [Next]_vars => IInv'
  BY InvNext
<1>3. IInv => NobodyPassesEarly
  BY InvEarly
<1> QED
  BY <1>1, <1>2, <1>3, PTL DEF Spec

(***************************************************************************)
(* A program that synchronises with all_threads_barrier_wait only never    *)
(* stops with a tasklet asleep: no wake-up is lost.                        *)
(***************************************************************************)
THEOREM NeverLost == ASSUME AllMeet PROVE Spec => []StopsOnlyWhenDone
<1>1. Init => IInv
  BY InvInit
<1>2. IInv /\ [Next]_vars => IInv'
  BY InvNext
<1>3. IInv => StopsOnlyWhenDone
  BY InvDone
<1> QED
  BY <1>1, <1>2, <1>3, PTL DEF Spec

-----------------------------------------------------------------------------
(* The safety part of IsBarrier. *)
IsBarrierSafely == Meet!Init /\ [][Meet!Next]_<<arrived, [t \in Ids |-> Passed(t)]>>

Inside(t) == Waiting(t) \/ Waker(t)

LEMMA PassedIs ==
  \A t \in Ids : Passed(t) = IF Inside(t) THEN arrived[t] - 1 ELSE arrived[t]
BY DEF Passed, Inside, Waker

LEMMA Quiet ==
  ASSUME arrived' = arrived, \A u \in Ids : Inside(u)' <=> Inside(u)
  PROVE  UNCHANGED <<arrived, [u \in Ids |-> Passed(u)]>>
<1>1. \A u \in Ids : Passed(u)' = Passed(u)
  BY DEF Passed, Inside, Waker
<1> QED
  BY <1>1

LEMMA EnterStep ==
  ASSUME AllMeet, IInv, NEW t \in Ids, Arrive(t) PROVE Meet!Enter(t)
<1> USE RoundsAssumption DEF IInv, TypeOK, Labels, Arrive, Step, Runs, Goto
<1>1. Passed(t) = arrived[t] /\ Passed(t)' = arrived[t]
  BY DEF Passed, Waiting
<1>2. \A u \in Ids \ {t} : Passed(u)' = Passed(u)
  BY DEF Passed, Waiting
<1>3. [u \in Ids |-> Passed(u)]' = [u \in Ids |-> Passed(u)]
  BY <1>1, <1>2
<1> QED
  BY <1>1, <1>3 DEF Meet!Enter

LEMMA LeaveStep ==
  ASSUME AllMeet, IInv, NEW t \in Ids, WakeOthers(t)
  PROVE  \/ \E S \in (SUBSET Ids) \ {{}} : Meet!Leave(S)
         \/ UNCHANGED <<arrived, [u \in Ids |-> Passed(u)]>>
<1> USE RoundsAssumption DEF IInv, TypeOK, Labels, Step, Runs, Goto
<1> DEFINE gone == (waking[t] \ running) \cup (IF waking[t] \cap running = {} THEN {t} ELSE {})
<1>1. /\ t \in running /\ pc[t] = "wake" /\ running' = running \cup waking[t]
      /\ pc' = [pc EXCEPT ![t] = IF waking[t] \cap running = {} THEN "main" ELSE "wake"]
      /\ csr8' = csr8 /\ arrived' = arrived
  BY DEF WakeOthers, WakeOnce
<1>2. /\ gone \subseteq Ids
      /\ \A u \in waking[t] : u # t /\ Waiting(u) /\ u \notin csr8
      /\ t \notin csr8
  BY <1>1 DEF OneWaker, Waiting
<1>3. \A u \in gone : Inside(u) /\ ~Inside(u)'
  BY <1>1, <1>2 DEF Inside, Waiting, Waker, Resting
<1>4. \A u \in Ids \ gone : Inside(u)' <=> Inside(u)
  BY <1>1, <1>2 DEF Inside, Waiting, Waker, Resting
<1>5. \A u \in Ids : arrived[u] \in Nat
  OBVIOUS
<1>6. [u \in Ids |-> Passed(u)]' = [u \in Ids |-> IF u \in gone THEN Passed(u) + 1 ELSE Passed(u)]
  <2>1. \A u \in Ids : Passed(u)' = IF u \in gone THEN Passed(u) + 1 ELSE Passed(u)
    BY <1>1, <1>3, <1>4, <1>5 DEF Passed, Inside, Waker
  <2> QED
    BY <2>1
<1>7. \A u \in gone : Passed(u) < arrived[u]
  BY <1>2, <1>3, <1>5, PassedIs
<1>8. \A u \in gone : \A v \in MaskOf[u] : arrived[v] >= arrived[u]
  <2>1. \A u \in gone : u \notin csr8
    BY <1>2
  <2>2. \A u \in gone, v \in Ids : arrived[v] = arrived[u] \/ arrived[v] = arrived[u] + 1
    BY <1>2, <2>1 DEF InStep
  <2> QED
    BY <1>2, <1>5, <2>2 DEF AllMeet
<1>9. CASE gone # {}
  <2>1. gone \in (SUBSET Ids) \ {{}}
    BY <1>2, <1>9
  <2>2. Meet!Leave(gone)
    BY <1>1, <1>2, <1>6, <1>7, <1>8 DEF Meet!Leave
  <2> QED
    BY <2>1, <2>2
<1>10. CASE gone = {}
  BY <1>1, <1>4, <1>10, Quiet
<1> QED
  BY <1>9, <1>10

LEMMA QuietStep ==
  ASSUME IInv, NEW t \in Ids, Reset(t) \/ Sleep(t) \/ Return(t)
  PROVE  UNCHANGED <<arrived, [u \in Ids |-> Passed(u)]>>
<1>1. arrived' = arrived
  BY DEF Reset, Sleep, Return
<1>2. \A u \in Ids : Inside(u)' <=> Inside(u)
  BY DEF Reset, Sleep, Return, ReturnFromMain, Halt, Inside, Waiting, Waker,
         IInv, TypeOK, Labels, Step, Runs, Goto
<1> QED
  BY <1>1, <1>2, Quiet

LEMMA RestartStep == ASSUME IInv, Launch PROVE Meet!Restart
<1>1. \A t \in Ids : pc[t] = "ebreak" /\ arrived[t] = Rounds
  BY InvDone DEF Launch, Relaunch, StopsOnlyWhenDone, IInv, Resting
<1>2. \A t \in Ids : Passed(t) = Rounds
  BY <1>1 DEF Passed, Waiting
<1>3. arrived' = [t \in Ids |-> 0] /\ running' = Ids /\ pc' = [t \in Ids |-> "main"]
  BY DEF Launch, Relaunch
<1>4. \A t \in Ids : Passed(t)' = 0
  BY <1>3 DEF Passed, Waiting
<1> QED
  BY <1>2, <1>3, <1>4 DEF Meet!Restart

(***************************************************************************)
(* all_threads_barrier_wait implements the barrier of Rendezvous: every    *)
(* step is an arrival, a departure of some, a new launch or invisible.     *)
(***************************************************************************)
THEOREM Implements == ASSUME AllMeet PROVE Spec => IsBarrierSafely
<1>1. Init => Meet!Init
  <2> SUFFICES ASSUME Init PROVE Meet!Init
    OBVIOUS
  <2>1. \A t \in Ids : Passed(t) = 0
    BY DEF Init, LaunchTasklets, Passed, Waiting
  <2> QED
    BY <2>1 DEF Init, Meet!Init
<1>2. IInv /\ [Next]_vars => [Meet!Next]_<<arrived, [t \in Ids |-> Passed(t)]>>
  <2> SUFFICES ASSUME IInv, [Next]_vars
               PROVE  Meet!Next \/ UNCHANGED <<arrived, [t \in Ids |-> Passed(t)]>>
    OBVIOUS
  <2>1. CASE Launch
    BY <2>1, RestartStep DEF Meet!Next
  <2>2. ASSUME NEW t \in Ids, Tasklet(t)
        PROVE  Meet!Next \/ UNCHANGED <<arrived, [u \in Ids |-> Passed(u)]>>
    <3>1. CASE Arrive(t)
      BY <3>1, EnterStep DEF Meet!Next
    <3>2. CASE WakeOthers(t)
      BY <3>2, LeaveStep DEF Meet!Next
    <3> QED
      BY <2>2, <3>1, <3>2, QuietStep DEF Tasklet
  <2>3. CASE UNCHANGED vars
    BY <2>3, Quiet DEF vars, Inside, Waiting, Waker
  <2> QED
    BY <2>1, <2>2, <2>3 DEF Next
<1>3. Init => IInv
  BY InvInit
<1>4. IInv /\ [Next]_vars => IInv'
  BY InvNext
<1> QED
  BY <1>1, <1>2, <1>3, <1>4, PTL DEF Spec, IsBarrierSafely

=============================================================================
