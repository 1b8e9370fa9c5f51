--------------------------- MODULE SleepMutexProofs ---------------------------
(***************************************************************************)
(* sleepmtx_t for any number of tasklets up to the length of its queue.    *)
(***************************************************************************)
EXTENDS SleepMutex, FiniteSetTheorems, SequenceTheorems, TLAPS

(* The bit in CSR 2 is set exactly while one tasklet is at the ring. *)
MetaHeld ==
  /\ \A t, u \in Ids : HasMeta(t) /\ HasMeta(u) => t = u
  /\ meta <=> \E t \in Ids : HasMeta(t)

(* What sleepmutex_lock read is still true when it enqueues. *)
CheckHolds ==
  \A t \in Ids : pc[t] = "lock_enqueue" => (alreadyLocked[t] <=> \E u \in Ids : Queued(u))

(* The id at head is that of the owner or of the one tasklet that is being *)
(* woken to become it.                                                     *)
HeadFirst ==
  /\ \A t \in Ids : Owns(t) => t = queue[head]
  /\ \A w, u \in Ids : Wakes(w, u) => u = queue[head] /\ Queued(u) /\ ~Owns(u)
  /\ \A w, v, u \in Ids : Wakes(w, u) /\ Wakes(v, u) => w = v
  /\ (\E t \in Ids : Queued(t)) =>
       \E u \in Ids : Owns(u) \/ \E w \in Ids : Wakes(w, u)

(* An unlocker has at most one tasklet to wake. *)
OneTarget ==
  /\ \A w \in Ids : pc[w] = "unlock_clear" => waking[w] = {} \/ \E u \in Ids : waking[w] = {u}
  /\ \A w \in Ids : pc[w] = "unlock_wake" => \E u \in Ids : waking[w] = {u}

(* Who is not running waits for its turn or has returned. *)
Resting ==
  /\ \A t \in Ids \ running : pc[t] \in {"critical", "ebreak"}
  /\ \A t \in Ids : pc[t] = "ebreak" => t \notin running

IInv ==
  TypeOK /\ MetaHeld /\ RingIsTheLine /\ CheckHolds /\ HeadFirst /\ OneTarget /\ Resting

-----------------------------------------------------------------------------
(* Types *)

LEMMA TypeInit == Init => TypeOK
<1>1. 0 \in Ids /\ 0 \in Index
  BY NrTaskletsAssumption, MaxTaskletsAssumption DEF Ids, Index
<1>2. ASSUME Init PROVE TypeOK
  <2>1. running \in SUBSET Ids /\ pc \in [Ids -> Labels] /\ waking \in [Ids -> SUBSET Ids]
    BY <1>2 DEF Init, LaunchTasklets, Labels
  <2>2. meta \in BOOLEAN /\ head \in Index /\ tail \in Index /\ queue \in [Index -> Ids]
    BY <1>1, <1>2 DEF Init
  <2>3. alreadyLocked \in [Ids -> BOOLEAN]
    BY <1>2 DEF Init
  <2>4. calls \in [Ids -> 0 .. MaxCalls]
    BY <1>2, MaxCallsAssumption DEF Init
  <2> QED
    BY <2>1, <2>2, <2>3, <2>4 DEF TypeOK
<1> QED
  BY <1>2

LEMMA AdvanceType == ASSUME NEW i \in Index PROVE Advance(i) \in Index
BY MaxTaskletsAssumption DEF Advance, Index

LEMMA TypeNext == TypeOK /\ [Next]_vars => TypeOK'
<1> SUFFICES ASSUME TypeOK, [Next]_vars PROVE TypeOK'
  OBVIOUS
<1> USE DEF TypeOK, Labels, Step, Runs, Goto
<1>1. CASE Launch
  BY <1>1, MaxCallsAssumption DEF Launch, Relaunch, mutexVars
<1>2. ASSUME NEW t \in Ids, LockTestAndSet(t) PROVE TypeOK'
  BY <1>2 DEF LockTestAndSet, TestAndSet
<1>3. ASSUME NEW t \in Ids, LockCheck(t) PROVE TypeOK'
  BY <1>3 DEF LockCheck
<1>4. ASSUME NEW t \in Ids, LockEnqueue(t) PROVE TypeOK'
  BY <1>4, AdvanceType DEF LockEnqueue, Enqueue
<1>5. ASSUME NEW t \in Ids, LockClear(t) PROVE TypeOK'
  BY <1>5 DEF LockClear
<1>6. ASSUME NEW t \in Ids, LockHalt(t) PROVE TypeOK'
  BY <1>6 DEF LockHalt, Halt
<1>7. ASSUME NEW t \in Ids, UnlockTestAndSet(t) PROVE TypeOK'
  BY <1>7 DEF UnlockTestAndSet, TestAndSet
<1>8. ASSUME NEW t \in Ids, UnlockAdvance(t) PROVE TypeOK'
  <2>1. head' \in Index
    BY <1>8, AdvanceType DEF UnlockAdvance
  <2> QED
    BY <1>8, <2>1 DEF UnlockAdvance
<1>9. ASSUME NEW t \in Ids, UnlockClear(t) PROVE TypeOK'
  BY <1>9 DEF UnlockClear
<1>10. ASSUME NEW t \in Ids, UnlockWake(t) PROVE TypeOK'
  BY <1>10 DEF UnlockWake, WakeOnce
<1>11. ASSUME NEW t \in Ids, TryTestAndSet(t) PROVE TypeOK'
  BY <1>11 DEF TryTestAndSet
<1>12. ASSUME NEW t \in Ids, TryCheck(t) PROVE TypeOK'
  BY <1>12, AdvanceType DEF TryCheck, Enqueue
<1>13. ASSUME NEW t \in Ids, TryClear(t) PROVE TypeOK'
  BY <1>13 DEF TryClear
<1>14. ASSUME NEW t \in Ids, Call(t) PROVE TypeOK'
  BY <1>14, MaxCallsAssumption DEF Call, mutexVars
<1>15. ASSUME NEW t \in Ids, Leave(t) PROVE TypeOK'
  BY <1>15 DEF Leave, mutexVars
<1>16. ASSUME NEW t \in Ids, Return(t) PROVE TypeOK'
  BY <1>16 DEF Return, ReturnFromMain, Halt, mutexVars
<1>17. CASE UNCHANGED vars
  BY <1>17 DEF vars
<1> QED
  BY <1>1, <1>2, <1>3, <1>4, <1>5, <1>6, <1>7, <1>8, <1>9, <1>10, <1>11, <1>12,
     <1>13, <1>14, <1>15, <1>16, <1>17 DEF Next, Tasklet

-----------------------------------------------------------------------------
(* The ring *)

LEMMA RingCells == ASSUME TypeOK PROVE Occupied \subseteq Index
BY MaxTaskletsAssumption DEF Occupied, Index, TypeOK

(***************************************************************************)
(* A tasklet that is not in the ring finds a free cell at tail: otherwise  *)
(* MaxTasklets cells would hold distinct ids of the other tasklets, of     *)
(* which there are fewer.                                                  *)
(***************************************************************************)
LEMMA NotFull ==
  ASSUME TypeOK, RingIsTheLine, NEW t \in Ids, ~Queued(t)
  PROVE  /\ tail \notin Occupied
         /\ head = tail <=> ~ \E u \in Ids : Queued(u)
<1>1. head \in Index /\ tail \in Index /\ MaxTasklets \in Nat
  BY MaxTaskletsAssumption DEF TypeOK
<1>2. ASSUME head = tail, \E u \in Ids : Queued(u) PROVE FALSE
  <2>1. Occupied = Index
    <3>1. Occupied = (head .. MaxTasklets - 1) \cup (0 .. tail - 1)
      BY <1>1, <1>2 DEF Occupied, Index
    <3> QED
      BY <1>1, <1>2, <3>1 DEF Index
  <2>2. /\ IsFiniteSet(Index) /\ Cardinality(Index) = MaxTasklets
        /\ IsFiniteSet(Ids) /\ Cardinality(Ids) = NrTasklets
    <3>1. \A n \in Nat \ {0} : IsFiniteSet(0 .. n - 1) /\ Cardinality(0 .. n - 1) = n
      <4>1. TAKE n \in Nat \ {0}
      <4>2. 0 \in Int /\ n - 1 \in Int /\ ~(0 > n - 1) /\ (n - 1) - 0 + 1 = n
        OBVIOUS
      <4>3. /\ IsFiniteSet(0 .. n - 1)
            /\ Cardinality(0 .. n - 1) = IF 0 > n - 1 THEN 0 ELSE (n - 1) - 0 + 1
        BY ONLY <4>2, FS_Interval
      <4> QED
        BY <4>2, <4>3
    <3>2. MaxTasklets \in Nat \ {0} /\ NrTasklets \in Nat \ {0}
      BY NrTaskletsAssumption, MaxTaskletsAssumption
    <3> QED
      BY <3>1, <3>2 DEF Index, Ids
  <2>3. /\ IsFiniteSet(Ids \ {t}) /\ Cardinality(Ids \ {t}) = NrTasklets - 1
    BY <2>2, FS_RemoveElement
  <2>4. queue \in [Index -> Ids \ {t}]
    BY <2>1 DEF RingIsTheLine, TypeOK
  <2>5. Cardinality(Ids \ {t}) < Cardinality(Index)
    BY <2>2, <2>3, NrTaskletsAssumption, MaxTaskletsAssumption
  <2>6. PICK i, j \in Index : i # j /\ queue[i] = queue[j]
    BY <2>2, <2>3, <2>4, <2>5, FS_PigeonHole
  <2> QED
    BY <2>1, <2>6 DEF RingIsTheLine
<1>3. head = tail => Occupied = {}
  <2>1. head = tail => ~(head < tail) /\ ~(head > tail) /\ ~ \E u \in Ids : Queued(u)
    BY <1>1, <1>2 DEF Index
  <2> QED
    BY ONLY <2>1 DEF Occupied
<1>4. head # tail => head \in Occupied /\ tail \notin Occupied
  BY <1>1 DEF Occupied, Index
<1>5. head # tail => \E u \in Ids : Queued(u)
  BY <1>4 DEF RingIsTheLine
<1> QED
  BY <1>2, <1>3, <1>4, <1>5

(* While somebody is in the ring, its head cell is occupied. *)
LEMMA HeadOccupied ==
  ASSUME TypeOK, RingIsTheLine, NEW t \in Ids, Queued(t)
  PROVE  head \in Occupied /\ queue[head] \in Ids /\ Queued(queue[head])
<1>1. head \in Occupied
  BY MaxTaskletsAssumption DEF Occupied, Index, TypeOK
<1> QED
  BY <1>1 DEF RingIsTheLine

(* Both, as formulas that hold of the state after a step as well. *)
Held == \E t \in Ids : Queued(t)
HeadKnown ==
  TypeOK /\ RingIsTheLine =>
    /\ (\E t \in Ids : ~Queued(t)) => (head = tail <=> ~Held)
    /\ Held => \E u \in Ids : u = queue[head] /\ Queued(u)

LEMMA HeadAlwaysKnown == HeadKnown /\ HeadKnown'
<1>1. HeadKnown
  BY NotFull, HeadOccupied DEF HeadKnown, Held
<1> QED
  BY <1>1, PTL

LEMMA RingKept ==
  ASSUME RingIsTheLine, UNCHANGED <<head, tail, queue>>,
         \A u \in Ids : (Queued(u))' <=> Queued(u)
  PROVE  RingIsTheLine' /\ Occupied' = Occupied
<1>1. Occupied' = Occupied
  BY DEF Occupied
<1> QED
  BY <1>1 DEF RingIsTheLine

LEMMA RingGrows ==
  ASSUME TypeOK, RingIsTheLine, NEW t \in Ids, ~Queued(t), (Queued(t))',
         \A u \in Ids : u # t => ((Queued(u))' <=> Queued(u)),
         Enqueue(t), head' = head
  PROVE  RingIsTheLine' /\ queue'[tail] = t /\ \A i \in Occupied : queue'[i] = queue[i]
<1>1. head \in Index /\ tail \in Index /\ MaxTasklets \in Nat
  BY MaxTaskletsAssumption DEF TypeOK
<1>2. tail \notin Occupied /\ (head = tail <=> ~ \E u \in Ids : Queued(u))
  BY NotFull
<1>3. tail' = IF tail + 1 = MaxTasklets THEN 0 ELSE tail + 1
  BY DEF Enqueue, Advance
<1>4. Occupied' = Occupied \cup {tail}
  <2>1. \E u \in Ids : (Queued(u))'
    OBVIOUS
  <2>2. CASE head < tail
    BY <1>1, <1>3, <2>1, <2>2 DEF Occupied, Index
  <2>3. CASE head > tail
    BY <1>1, <1>3, <2>1, <2>3 DEF Occupied, Index
  <2>4. CASE head = tail
    BY <1>1, <1>2, <1>3, <2>1, <2>4 DEF Occupied, Index
  <2> QED
    BY <1>1, <2>2, <2>3, <2>4 DEF Index
<1>5. /\ queue'[tail] = t
      /\ \A i \in Occupied : queue'[i] = queue[i]
  BY <1>1, <1>2, RingCells DEF Enqueue, TypeOK
<1>6. RingIsTheLine'
  <2>1. \A i \in Occupied' : queue'[i] \in Ids /\ \E u \in Ids : u = queue'[i] /\ (Queued(u))'
    <3>1. \A i \in Occupied : queue[i] \in Ids /\ Queued(queue[i])
      BY DEF RingIsTheLine
    <3>2. \A i \in Occupied : queue[i] # t
      BY <3>1
    <3> QED
      BY <1>4, <1>5, <3>1, <3>2
  <2>2. \A i, j \in Occupied' : queue'[i] = queue'[j] => i = j
    BY <1>4, <1>5 DEF RingIsTheLine
  <2>3. \A u \in Ids : (Queued(u))' => \E i \in Occupied' : queue'[i] = u
    BY <1>4, <1>5 DEF RingIsTheLine
  <2> QED
    BY <2>1, <2>2, <2>3 DEF RingIsTheLine, Queued
<1> QED
  BY <1>5, <1>6

LEMMA RingShrinks ==
  ASSUME TypeOK, RingIsTheLine, NEW t \in Ids, Queued(t), ~(Queued(t))', t = queue[head],
         \A u \in Ids : u # t => ((Queued(u))' <=> Queued(u)),
         head' = Advance(head), UNCHANGED <<tail, queue>>
  PROVE  RingIsTheLine'
<1>1. head \in Index /\ tail \in Index /\ MaxTasklets \in Nat
  BY MaxTaskletsAssumption DEF TypeOK
<1>2. head' = IF head + 1 = MaxTasklets THEN 0 ELSE head + 1
  BY DEF Advance
<1>3. head \in Occupied
  BY HeadOccupied
<1>4. (\E u \in Ids : (Queued(u))') <=> Occupied # {head}
  BY <1>3 DEF RingIsTheLine
<1>5. Occupied' = Occupied \ {head}
  <2>1. CASE head < tail
    <3>1. Occupied = head .. tail - 1 /\ head' = head + 1 /\ head' <= tail
      BY <1>1, <1>2, <2>1 DEF Occupied, Index
    <3>2. CASE head' < tail
      BY <1>1, <3>1, <3>2 DEF Occupied, Index
    <3>3. CASE head' = tail
      <4>1. Occupied = {head}
        BY <1>1, <3>1, <3>3 DEF Index
      <4> QED
        BY <1>1, <1>4, <3>3, <4>1 DEF Occupied, Index
    <3> QED
      BY <1>1, <3>1, <3>2, <3>3 DEF Index
  <2>2. CASE head >= tail
    <3>1. Occupied = (head .. MaxTasklets - 1) \cup (0 .. tail - 1)
      BY <1>1, <2>2 DEF Occupied, Index
    <3>2. CASE head + 1 < MaxTasklets
      BY <1>1, <1>2, <2>2, <3>1, <3>2 DEF Occupied, Index
    <3>3. CASE head + 1 = MaxTasklets /\ tail > 0
      BY <1>1, <1>2, <2>2, <3>1, <3>3 DEF Occupied, Index
    <3>4. CASE head + 1 = MaxTasklets /\ tail = 0
      <4>1. Occupied = {head}
        BY <1>1, <3>1, <3>4 DEF Index
      <4> QED
        BY <1>1, <1>2, <1>4, <3>4, <4>1 DEF Occupied
    <3> QED
      BY <1>1, <3>2, <3>3, <3>4 DEF Index
  <2> QED
    BY <1>1, <2>1, <2>2 DEF Index
<1> QED
  BY <1>3, <1>5 DEF RingIsTheLine

-----------------------------------------------------------------------------
(* What a step leaves alone *)

LEMMA MetaKept ==
  ASSUME MetaHeld, meta' = meta, \A u \in Ids : (HasMeta(u))' <=> HasMeta(u)
  PROVE  MetaHeld'
BY DEF MetaHeld

LEMMA MetaTaken ==
  ASSUME MetaHeld, NEW t \in Ids, ~meta, meta', (HasMeta(t))',
         \A u \in Ids : u # t => ((HasMeta(u))' <=> HasMeta(u))
  PROVE  MetaHeld'
BY DEF MetaHeld

LEMMA MetaDropped ==
  ASSUME MetaHeld, NEW t \in Ids, HasMeta(t), meta' = FALSE, ~(HasMeta(t))',
         \A u \in Ids : u # t => ((HasMeta(u))' <=> HasMeta(u))
  PROVE  MetaHeld'
BY DEF MetaHeld

LEMMA LineKept ==
  ASSUME RingIsTheLine, HeadFirst, UNCHANGED <<head, tail, queue>>,
         \A u \in Ids : (Queued(u))' <=> Queued(u),
         \A u \in Ids : (Owns(u))' <=> Owns(u),
         \A w, u \in Ids : (Wakes(w, u))' <=> Wakes(w, u)
  PROVE  RingIsTheLine' /\ HeadFirst'
<1>1. RingIsTheLine'
  BY RingKept
<1>2. HeadFirst'
  BY DEF HeadFirst
<1> QED
  BY <1>1, <1>2

LEMMA CheckKept ==
  ASSUME CheckHolds, \A u \in Ids : (Queued(u))' <=> Queued(u),
         \A u \in Ids : pc'[u] = "lock_enqueue" =>
           pc[u] = "lock_enqueue" /\ alreadyLocked'[u] = alreadyLocked[u]
  PROVE  CheckHolds'
BY DEF CheckHolds

(* Nobody is between its check and its enqueue while another is at the ring. *)
LEMMA CheckAlone ==
  ASSUME MetaHeld, NEW t \in Ids, HasMeta(t), pc[t] # "lock_enqueue",
         \A u \in Ids : pc'[u] = "lock_enqueue" => pc[u] = "lock_enqueue"
  PROVE  CheckHolds'
BY DEF MetaHeld, HasMeta, CheckHolds

-----------------------------------------------------------------------------
(* The steps that do not touch the ring *)

LEMMA LockTestAndSetKeeps == ASSUME IInv, NEW t \in Ids, LockTestAndSet(t) PROVE IInv'
<1> USE DEF IInv, TypeOK, Step, Runs, Goto
<1>1. TypeOK'
  BY TypeNext DEF Next, Tasklet
<1>2. MetaHeld'
  BY MetaTaken DEF LockTestAndSet, TestAndSet, HasMeta
<1>3. RingIsTheLine' /\ HeadFirst'
  BY LineKept DEF LockTestAndSet, TestAndSet, Queued, Owns, Wakes
<1>4. CheckHolds'
  BY CheckKept DEF LockTestAndSet, TestAndSet, Queued, HasMeta
<1>5. OneTarget' /\ Resting'
  BY DEF LockTestAndSet, TestAndSet, OneTarget, Resting
<1> QED
  BY <1>1, <1>2, <1>3, <1>4, <1>5

LEMMA LockClearKeeps == ASSUME IInv, NEW t \in Ids, LockClear(t) PROVE IInv'
<1> USE DEF IInv, TypeOK, Step, Runs, Goto
<1>1. TypeOK'
  BY TypeNext DEF Next, Tasklet
<1>2. MetaHeld'
  BY MetaDropped DEF LockClear, HasMeta
<1>3. RingIsTheLine' /\ HeadFirst'
  BY LineKept DEF LockClear, Queued, Owns, Wakes
<1>4. CheckHolds'
  BY CheckAlone DEF LockClear, Queued, HasMeta
<1>5. OneTarget' /\ Resting'
  BY DEF LockClear, OneTarget, Resting
<1> QED
  BY <1>1, <1>2, <1>3, <1>4, <1>5

LEMMA LockHaltKeeps == ASSUME IInv, NEW t \in Ids, LockHalt(t) PROVE IInv'
<1> USE DEF IInv, TypeOK, Step, Runs, Goto
<1>1. TypeOK'
  BY TypeNext DEF Next, Tasklet
<1>2. MetaHeld'
  BY MetaKept DEF LockHalt, Halt, HasMeta
<1>3. RingIsTheLine' /\ HeadFirst'
  BY LineKept DEF LockHalt, Halt, Queued, Owns, Wakes
<1>4. CheckHolds'
  BY CheckKept DEF LockHalt, Halt, Queued, HasMeta
<1>5. OneTarget' /\ Resting'
  BY DEF LockHalt, Halt, OneTarget, Resting
<1> QED
  BY <1>1, <1>2, <1>3, <1>4, <1>5

LEMMA UnlockTestAndSetKeeps == ASSUME IInv, NEW t \in Ids, UnlockTestAndSet(t) PROVE IInv'
<1> USE DEF IInv, TypeOK, Step, Runs, Goto
<1>1. TypeOK'
  BY TypeNext DEF Next, Tasklet
<1>2. MetaHeld'
  BY MetaTaken DEF UnlockTestAndSet, TestAndSet, HasMeta
<1>3. RingIsTheLine' /\ HeadFirst'
  BY LineKept DEF UnlockTestAndSet, TestAndSet, Queued, Owns, Wakes
<1>4. CheckHolds'
  BY CheckKept DEF UnlockTestAndSet, TestAndSet, Queued, HasMeta
<1>5. OneTarget' /\ Resting'
  BY DEF UnlockTestAndSet, TestAndSet, OneTarget, Resting
<1> QED
  BY <1>1, <1>2, <1>3, <1>4, <1>5

LEMMA UnlockClearKeeps == ASSUME IInv, NEW t \in Ids, UnlockClear(t) PROVE IInv'
<1> USE DEF IInv, TypeOK, Step, Runs, Goto
<1>1. TypeOK'
  BY TypeNext DEF Next, Tasklet
<1>2. MetaHeld'
  BY MetaDropped DEF UnlockClear, HasMeta
<1>3. RingIsTheLine' /\ HeadFirst'
  BY LineKept DEF UnlockClear, Queued, Owns, Wakes
<1>4. CheckHolds'
  BY CheckAlone DEF UnlockClear, Queued, HasMeta
<1>5. OneTarget' /\ Resting'
  BY DEF UnlockClear, OneTarget, Resting
<1> QED
  BY <1>1, <1>2, <1>3, <1>4, <1>5

LEMMA TryClearKeeps == ASSUME IInv, NEW t \in Ids, TryClear(t) PROVE IInv'
<1> USE DEF IInv, TypeOK, Step, Runs, Goto
<1>1. TypeOK'
  BY TypeNext DEF Next, Tasklet
<1>2. MetaHeld'
  BY MetaDropped DEF TryClear, HasMeta
<1>3. RingIsTheLine' /\ HeadFirst'
  BY LineKept DEF TryClear, Queued, Owns, Wakes
<1>4. CheckHolds'
  BY CheckAlone DEF TryClear, Queued, HasMeta
<1>5. OneTarget' /\ Resting'
  BY DEF TryClear, OneTarget, Resting
<1> QED
  BY <1>1, <1>2, <1>3, <1>4, <1>5

LEMMA CallKeeps == ASSUME IInv, NEW t \in Ids, Call(t) PROVE IInv'
<1> USE DEF IInv, TypeOK, Step, Runs, Goto
<1>1. TypeOK'
  BY TypeNext DEF Next, Tasklet
<1>2. MetaHeld'
  BY MetaKept DEF Call, mutexVars, HasMeta
<1>3. RingIsTheLine' /\ HeadFirst'
  BY LineKept DEF Call, mutexVars, Queued, Owns, Wakes
<1>4. CheckHolds'
  BY CheckKept DEF Call, mutexVars, Queued, HasMeta
<1>5. OneTarget' /\ Resting'
  BY DEF Call, mutexVars, OneTarget, Resting
<1> QED
  BY <1>1, <1>2, <1>3, <1>4, <1>5

LEMMA LeaveKeeps == ASSUME IInv, NEW t \in Ids, Leave(t) PROVE IInv'
<1> USE DEF IInv, TypeOK, Step, Runs, Goto
<1>1. TypeOK'
  BY TypeNext DEF Next, Tasklet
<1>2. MetaHeld'
  BY MetaKept DEF Leave, mutexVars, HasMeta
<1>3. RingIsTheLine' /\ HeadFirst'
  BY LineKept DEF Leave, mutexVars, Queued, Owns, Wakes
<1>4. CheckHolds'
  BY CheckKept DEF Leave, mutexVars, Queued, HasMeta
<1>5. OneTarget' /\ Resting'
  BY DEF Leave, mutexVars, OneTarget, Resting
<1> QED
  BY <1>1, <1>2, <1>3, <1>4, <1>5

LEMMA ReturnKeeps == ASSUME IInv, NEW t \in Ids, Return(t) PROVE IInv'
<1> USE DEF IInv, TypeOK, Step, Runs, Goto
<1>1. TypeOK'
  BY TypeNext DEF Next, Tasklet
<1>2. MetaHeld'
  BY MetaKept DEF Return, ReturnFromMain, Halt, mutexVars, HasMeta
<1>3. RingIsTheLine' /\ HeadFirst'
  BY LineKept DEF Return, ReturnFromMain, Halt, mutexVars, Queued, Owns, Wakes
<1>4. CheckHolds'
  BY CheckKept DEF Return, ReturnFromMain, Halt, mutexVars, Queued, HasMeta
<1>5. OneTarget' /\ Resting'
  BY DEF Return, ReturnFromMain, Halt, mutexVars, OneTarget, Resting
<1> QED
  BY <1>1, <1>2, <1>3, <1>4, <1>5

LEMMA TryTestAndSetKeeps == ASSUME IInv, NEW t \in Ids, TryTestAndSet(t) PROVE IInv'
<1> USE DEF IInv, TypeOK, Step, Runs, Goto
<1>1. TypeOK'
  BY TypeNext DEF Next, Tasklet
<1>2. MetaHeld'
  <2>1. CASE meta
    BY <2>1, MetaKept DEF TryTestAndSet, HasMeta
  <2>2. CASE ~meta
    BY <2>2, MetaTaken DEF TryTestAndSet, HasMeta
  <2> QED
    BY <2>1, <2>2
<1>3. RingIsTheLine' /\ HeadFirst'
  BY LineKept DEF TryTestAndSet, Queued, Owns, Wakes
<1>4. CheckHolds'
  BY CheckKept DEF TryTestAndSet, Queued
<1>5. OneTarget' /\ Resting'
  BY DEF TryTestAndSet, OneTarget, Resting
<1> QED
  BY <1>1, <1>2, <1>3, <1>4, <1>5

(* The ring is not full for a tasklet that is not in it, so that           *)
(* "head # tail" says whether somebody is.                                 *)
LEMMA LockCheckKeeps == ASSUME IInv, NEW t \in Ids, LockCheck(t) PROVE IInv'
<1> USE DEF IInv, TypeOK, Step, Runs, Goto
<1>1. TypeOK'
  BY TypeNext DEF Next, Tasklet
<1>2. MetaHeld'
  BY MetaKept DEF LockCheck, HasMeta
<1>3. RingIsTheLine' /\ HeadFirst'
  BY LineKept DEF LockCheck, Queued, Owns, Wakes
<1>4. CheckHolds'
  <2>1. ~Queued(t) /\ \A u \in Ids : (Queued(u))' <=> Queued(u)
    BY DEF LockCheck, Queued
  <2>2. alreadyLocked'[t] <=> \E u \in Ids : Queued(u)
    BY <2>1, NotFull DEF LockCheck
  <2>3. \A u \in Ids : pc'[u] = "lock_enqueue" => u = t
    BY DEF LockCheck, MetaHeld, HasMeta
  <2> QED
    BY <2>1, <2>2, <2>3 DEF CheckHolds
<1>5. OneTarget' /\ Resting'
  BY DEF LockCheck, OneTarget, Resting
<1> QED
  BY <1>1, <1>2, <1>3, <1>4, <1>5

-----------------------------------------------------------------------------
(* The steps that change the ring, and the wake-up *)

LEMMA LockEnqueueKeeps == ASSUME IInv, NEW t \in Ids, LockEnqueue(t) PROVE IInv'
<1> USE DEF IInv, TypeOK, Step, Runs, Goto
<1>1. TypeOK'
  BY TypeNext DEF Next, Tasklet
<1>2. MetaHeld'
  BY MetaKept DEF LockEnqueue, HasMeta
<1>3. /\ ~Queued(t) /\ (Queued(t))' /\ head' = head
      /\ \A u \in Ids : u # t => ((Queued(u))' <=> Queued(u))
  BY DEF LockEnqueue, Queued
<1>4. /\ RingIsTheLine'
      /\ queue'[tail] = t /\ \A i \in Occupied : queue'[i] = queue[i]
  BY <1>3, RingGrows DEF LockEnqueue
<1>5. /\ alreadyLocked' = alreadyLocked /\ (alreadyLocked[t] <=> \E u \in Ids : Queued(u))
      /\ ((Owns(t))' <=> ~alreadyLocked[t]) /\ ~Owns(t)
      /\ \A u \in Ids : u # t => ((Owns(u))' <=> Owns(u))
      /\ \A w, u \in Ids : (Wakes(w, u))' <=> Wakes(w, u)
  BY DEF LockEnqueue, CheckHolds, Owns, Wakes
<1>6. HeadFirst'
  <2>1. CASE alreadyLocked[t]
    <3>1. head \in Occupied
      BY <1>5, <2>1, HeadOccupied
    <3>2. queue'[head'] = queue[head]
      BY <1>3, <1>4, <3>1
    <3> QED
      BY <1>3, <1>5, <2>1, <3>2 DEF HeadFirst
  <2>2. CASE ~alreadyLocked[t]
    <3>1. head = tail
      BY <1>3, <1>5, <2>2, NotFull
    <3>2. queue'[head'] = t
      BY <1>3, <1>4, <3>1
    <3>3. \A u \in Ids : ~Owns(u)
      BY <1>5, <2>2 DEF Owns, Queued
    <3>4. \A w, u \in Ids : ~Wakes(w, u)
      BY <1>5, <2>2 DEF HeadFirst
    <3> QED
      BY <1>5, <2>2, <3>2, <3>3, <3>4 DEF HeadFirst
  <2> QED
    BY <2>1, <2>2
<1>7. CheckHolds'
  BY DEF LockEnqueue, MetaHeld, HasMeta, CheckHolds
<1>8. OneTarget' /\ Resting'
  BY DEF LockEnqueue, OneTarget, Resting
<1> QED
  BY <1>1, <1>2, <1>4, <1>6, <1>7, <1>8

LEMMA TryCheckKeeps == ASSUME IInv, NEW t \in Ids, TryCheck(t) PROVE IInv'
<1> USE DEF IInv, TypeOK, Step, Runs, Goto
<1>1. TypeOK'
  BY TypeNext DEF Next, Tasklet
<1>2. MetaHeld'
  BY MetaKept DEF TryCheck, HasMeta
<1>3. RingIsTheLine' /\ HeadFirst'
  <2>1. CASE head # tail
    BY <2>1, LineKept DEF TryCheck, Queued, Owns, Wakes
  <2>2. CASE head = tail
    <3>1. /\ ~Queued(t) /\ (Queued(t))' /\ head' = head /\ Enqueue(t)
          /\ \A u \in Ids : u # t => ((Queued(u))' <=> Queued(u))
      BY <2>2 DEF TryCheck, Queued
    <3>2. RingIsTheLine' /\ queue'[tail] = t
      BY <3>1, RingGrows
    <3>3. \A u \in Ids : ~Queued(u)
      BY <2>2, <3>1, NotFull
    <3>4. \A u \in Ids : (Owns(u))' => u = t
      BY <2>2, <3>3 DEF TryCheck, Owns, Queued
    <3>5. \A w, u \in Ids : ~(Wakes(w, u))'
      BY <2>2, <3>3 DEF TryCheck, HeadFirst, Wakes
    <3>6. (Owns(t))' /\ queue'[head'] = t
      BY <2>2, <3>1, <3>2 DEF TryCheck, Owns
    <3> QED
      BY <3>2, <3>4, <3>5, <3>6 DEF HeadFirst
  <2> QED
    BY <2>1, <2>2
<1>4. CheckHolds'
  BY CheckAlone DEF TryCheck, HasMeta
<1>5. OneTarget' /\ Resting'
  BY DEF TryCheck, OneTarget, Resting
<1> QED
  BY <1>1, <1>2, <1>3, <1>4, <1>5

(* The owner pops itself; whoever is behind it becomes its target, asleep  *)
(* or about to sleep, and nobody else has one.                             *)
LEMMA UnlockAdvanceKeeps == ASSUME IInv, NEW t \in Ids, UnlockAdvance(t) PROVE IInv'
<1> USE DEF IInv, TypeOK, Step, Runs, Goto
<1>1. TypeOK'
  BY TypeNext DEF Next, Tasklet
<1>2. MetaHeld'
  BY MetaKept DEF UnlockAdvance, HasMeta
<1>3. /\ Queued(t) /\ ~(Queued(t))' /\ Owns(t) /\ ~(Owns(t))'
      /\ \A u \in Ids : u # t => ((Queued(u))' <=> Queued(u)) /\ ((Owns(u))' <=> Owns(u))
      /\ \A w, u \in Ids : w # t => ((Wakes(w, u))' <=> Wakes(w, u))
  BY DEF UnlockAdvance, Queued, Owns, Wakes
<1>4. t = queue[head]
  BY <1>3 DEF HeadFirst
<1>5. RingIsTheLine'
  BY <1>3, <1>4, RingShrinks DEF UnlockAdvance
<1>6. \A u \in Ids : ~(Owns(u))'
  BY <1>3, <1>4 DEF HeadFirst
<1>7. \A w, u \in Ids : ~Wakes(w, u)
  BY <1>3, <1>4 DEF HeadFirst
<1>8. HeadFirst'
  <2>1. head' = tail' <=> ~ \E u \in Ids : (Queued(u))'
    BY <1>1, <1>3, <1>5, HeadAlwaysKnown DEF HeadKnown, Held
  <2>2. CASE head' = tail'
    <3>1. \A w, u \in Ids : ~(Wakes(w, u))'
      BY <1>3, <1>7, <2>2 DEF UnlockAdvance, Wakes
    <3> QED
      BY <1>6, <2>1, <2>2, <3>1 DEF HeadFirst
  <2>3. CASE head' # tail'
    <3>1. queue'[head'] \in Ids /\ \E u \in Ids : u = queue'[head'] /\ (Queued(u))'
      BY <1>1, <1>5, <2>1, <2>3, HeadAlwaysKnown DEF HeadKnown, Held
    <3>2. \A w, u \in Ids : (Wakes(w, u))' <=> w = t /\ u = queue'[head']
      <4>1. waking'[t] = {queue'[head']} /\ pc'[t] = "unlock_clear"
        BY <2>3 DEF UnlockAdvance
      <4>2. \A u \in Ids : (Wakes(t, u))' <=> u = queue'[head']
        BY <3>1, <4>1 DEF Wakes
      <4> QED
        BY <1>3, <1>7, <4>2
    <3> QED
      BY <1>6, <3>1, <3>2 DEF HeadFirst
  <2> QED
    BY <2>2, <2>3
<1>9. CheckHolds'
  BY CheckAlone DEF UnlockAdvance, HasMeta
<1>10. OneTarget' /\ Resting'
  BY <1>1 DEF UnlockAdvance, OneTarget, Resting
<1> QED
  BY <1>1, <1>2, <1>5, <1>8, <1>9, <1>10

(* The target of a csrrs is the tasklet at head.  While it is not asleep   *)
(* nothing changes; once it is, it owns the mutex and nobody is woken.     *)
LEMMA UnlockWakeKeeps == ASSUME IInv, NEW t \in Ids, UnlockWake(t) PROVE IInv'
<1> USE DEF IInv, TypeOK, Step, Runs, Goto
<1>1. TypeOK'
  BY TypeNext DEF Next, Tasklet
<1>2. PICK v \in Ids : waking[t] = {v} /\ Wakes(t, v)
  BY DEF UnlockWake, WakeOnce, OneTarget, Wakes
<1>3. v = queue[head] /\ Queued(v) /\ ~Owns(v) /\ pc[t] = "unlock_wake"
  BY <1>2 DEF HeadFirst, UnlockWake, WakeOnce
<1>4. MetaHeld'
  BY MetaKept DEF UnlockWake, WakeOnce, HasMeta
<1>5. \A u \in Ids : (Queued(u))' <=> Queued(u)
  BY DEF UnlockWake, WakeOnce, Queued
<1>6. RingIsTheLine'
  BY <1>5, RingKept DEF UnlockWake
<1>7. CheckHolds'
  BY <1>5, CheckKept DEF UnlockWake, WakeOnce
<1>8. CASE v \in running
  <2>1. UNCHANGED vars
    BY <1>2, <1>3, <1>8 DEF UnlockWake, WakeOnce, vars
  <2>2. HeadFirst' /\ OneTarget' /\ Resting'
    BY <2>1 DEF vars, HeadFirst, OneTarget, Resting, Queued, Owns, Wakes
  <2> QED
    BY <1>1, <1>4, <1>6, <1>7, <2>2
<1>9. CASE v \notin running
  <2>1. /\ running' = running \cup {v} /\ waking' = [waking EXCEPT ![t] = {}]
        /\ pc' = [pc EXCEPT ![t] = "main"] /\ v # t
        /\ UNCHANGED <<meta, head, tail, queue, alreadyLocked, calls>>
    BY <1>2, <1>9 DEF UnlockWake, WakeOnce
  <2>2. pc[v] = "critical"
    BY <1>3, <1>9 DEF Resting, Queued
  <2>3. \A u \in Ids : ~Owns(u) /\ ((Owns(u))' <=> u = v)
    BY <1>3, <2>1, <2>2 DEF HeadFirst, Owns
  <2>4. \A w, u \in Ids : ~(Wakes(w, u))'
    BY <1>2, <1>3, <2>1 DEF HeadFirst, Wakes
  <2>5. HeadFirst'
    BY <1>3, <2>1, <2>3, <2>4 DEF HeadFirst
  <2>6. OneTarget'
    BY <1>3, <2>1 DEF OneTarget
  <2>7. Resting'
    BY <1>3, <2>1, <2>2 DEF Resting
  <2> QED
    BY <1>1, <1>4, <1>6, <1>7, <2>5, <2>6, <2>7
<1> QED
  BY <1>8, <1>9

-----------------------------------------------------------------------------
(* Launching *)

(***************************************************************************)
(* A tasklet that sleeps on the mutex is in the ring, whose head is the    *)
(* owner's, who runs, or the target of a waker, who runs.                  *)
(***************************************************************************)
LEMMA StopsDone == IInv => StopsOnlyWhenDone
<1> SUFFICES ASSUME IInv, running = {}, NEW t \in Ids, pc[t] # "ebreak" PROVE FALSE
  BY DEF StopsOnlyWhenDone, Stopped
<1>1. pc[t] = "critical"
  BY DEF IInv, Resting
<1>2. PICK u \in Ids : Owns(u) \/ \E w \in Ids : Wakes(w, u)
  BY <1>1 DEF IInv, HeadFirst, Queued
<1> QED
  BY <1>2 DEF IInv, Resting, Owns, Wakes

LEMMA InitHolds == Init => IInv
<1> SUFFICES ASSUME Init PROVE IInv
  OBVIOUS
<1>1. TypeOK
  BY TypeInit
<1>2. running = Ids /\ \A t \in Ids : pc[t] = "main" /\ waking[t] = {}
  BY DEF Init, LaunchTasklets
<1>3. \A t \in Ids : ~Queued(t) /\ ~Owns(t) /\ ~HasMeta(t)
  BY <1>2 DEF Queued, Owns, HasMeta
<1>4. Occupied = {}
  BY <1>3 DEF Init, Occupied
<1>5. MetaHeld /\ CheckHolds
  BY <1>2, <1>3 DEF Init, MetaHeld, CheckHolds
<1>6. RingIsTheLine /\ HeadFirst
  BY <1>2, <1>3, <1>4 DEF RingIsTheLine, HeadFirst, Wakes
<1>7. OneTarget /\ Resting
  BY <1>2 DEF OneTarget, Resting
<1> QED
  BY <1>1, <1>5, <1>6, <1>7 DEF IInv

LEMMA LaunchKeeps == ASSUME IInv, Launch PROVE IInv'
<1>1. TypeOK'
  BY TypeNext DEF IInv, Next
<1>2. \A t \in Ids : pc[t] = "ebreak"
  BY StopsDone DEF Launch, Relaunch, StopsOnlyWhenDone
<1>3. running' = Ids /\ \A t \in Ids : pc'[t] = "main" /\ waking'[t] = {}
  BY DEF Launch, Relaunch
<1>4. /\ \A t \in Ids : ~(Queued(t))' /\ ~(Owns(t))' /\ ~(HasMeta(t))'
      /\ \A t \in Ids : ~Queued(t) /\ ~HasMeta(t)
  BY <1>2, <1>3 DEF Queued, Owns, HasMeta
<1>5. RingIsTheLine'
  BY <1>4, RingKept DEF IInv, Launch, mutexVars
<1>6. MetaHeld' /\ CheckHolds'
  BY <1>3, <1>4 DEF IInv, Launch, mutexVars, MetaHeld, CheckHolds
<1>7. HeadFirst' /\ OneTarget' /\ Resting'
  BY <1>3, <1>4 DEF HeadFirst, OneTarget, Resting, Wakes
<1> QED
  BY <1>1, <1>5, <1>6, <1>7 DEF IInv

LEMMA Inductive == IInv /\ [Next]_vars => IInv'
<1> SUFFICES ASSUME IInv, [Next]_vars PROVE IInv'
  OBVIOUS
<1>1. CASE Launch
  BY <1>1, LaunchKeeps
<1>2. ASSUME NEW t \in Ids, Tasklet(t) PROVE IInv'
  BY <1>2, LockTestAndSetKeeps, LockCheckKeeps, LockEnqueueKeeps, LockClearKeeps,
     LockHaltKeeps, UnlockTestAndSetKeeps, UnlockAdvanceKeeps, UnlockClearKeeps,
     UnlockWakeKeeps, TryTestAndSetKeeps, TryCheckKeeps, TryClearKeeps, CallKeeps,
     LeaveKeeps, ReturnKeeps DEF Tasklet
<1>3. CASE UNCHANGED vars
  <2>1. UNCHANGED <<running, pc, waking, meta, head, tail, queue, alreadyLocked, calls>>
    BY <1>3 DEF vars
  <2>2. TypeOK'
    BY <1>3, TypeNext DEF IInv
  <2>3. RingIsTheLine' /\ HeadFirst'
    BY <2>1, LineKept DEF IInv, Queued, Owns, Wakes
  <2>4. MetaHeld' /\ CheckHolds' /\ OneTarget' /\ Resting'
    BY <2>1 DEF IInv, MetaHeld, HasMeta, CheckHolds, Queued, OneTarget, Resting
  <2> QED
    BY <2>2, <2>3, <2>4 DEF IInv
<1> QED
  BY <1>1, <1>2, <1>3 DEF Next

LEMMA Always == Spec => []IInv
BY InitHolds, Inductive, PTL DEF Spec

-----------------------------------------------------------------------------
(* The variables of sleepmtx_t and of the runtime stay in their ranges.    *)
THEOREM TypeCorrect == Spec => []TypeOK
<1>1. IInv => TypeOK
  BY DEF IInv
<1> QED
  BY <1>1, Always, PTL

(***************************************************************************)
(* sleepmutex_lock and sleepmutex_trylock let one tasklet in at a time:    *)
(* every owner's id is the one at head.                                    *)
(***************************************************************************)
THEOREM Exclusive == Spec => []MutualExclusion
<1>1. IInv => MutualExclusion
  BY DEF IInv, HeadFirst, MutualExclusion
<1> QED
  BY <1>1, Always, PTL

(***************************************************************************)
(* The ring never loses, repeats or overwrites an id, however often its    *)
(* indices wrap and also when it is full.                                  *)
(***************************************************************************)
THEOREM RingExact == Spec => []RingIsTheLine
<1>1. IInv => RingIsTheLine
  BY DEF IInv
<1> QED
  BY <1>1, Always, PTL

(***************************************************************************)
(* No wake-up is lost: when the run loop ends, no tasklet is asleep in     *)
(* sleepmutex_lock.                                                        *)
(***************************************************************************)
THEOREM NeverLost == Spec => []StopsOnlyWhenDone
BY StopsDone, Always, PTL

(***************************************************************************)
(* sleepmutex_unlock never wakes a tasklet that returned from main.        *)
(***************************************************************************)
THEOREM NeverTraps == Spec => []NobodyTraps
<1>1. IInv => NobodyTraps
  BY DEF IInv, Resting, NobodyTraps
<1> QED
  BY <1>1, Always, PTL

-----------------------------------------------------------------------------
(* The line *)

(* The cell of the i-th in line, and how many there are. *)
Cell(i) == IF head + i - 1 < MaxTasklets THEN head + i - 1 ELSE head + i - 1 - MaxTasklets

Size ==
  IF head < tail THEN tail - head
  ELSE IF head > tail \/ Held THEN MaxTasklets - head + tail
  ELSE 0

LEMMA WrapOnce ==
  ASSUME NEW m \in Nat \ {0}, NEW h \in 0 .. m - 1, NEW i \in 1 .. m
  PROVE  (h + i - 1) % m = IF h + i - 1 < m THEN h + i - 1 ELSE h + i - 1 - m
<1>1. CASE h + i - 1 < m
  BY <1>1
<1>2. CASE h + i - 1 >= m
  BY <1>2
<1> QED
  BY <1>1, <1>2

(* The cells in the order of the line are those between head and tail. *)
LEMMA CellsOfTheLine ==
  ASSUME TypeOK
  PROVE  /\ Size \in 0 .. MaxTasklets
         /\ \A i \in 1 .. Size : Cell(i) \in Occupied /\ Cell(i) = (head + i - 1) % MaxTasklets
         /\ \A i, j \in 1 .. Size : Cell(i) = Cell(j) => i = j
         /\ \A c \in Occupied : \E i \in 1 .. Size : Cell(i) = c
<1>1. head \in 0 .. MaxTasklets - 1 /\ tail \in 0 .. MaxTasklets - 1 /\ MaxTasklets \in Nat \ {0}
  BY NrTaskletsAssumption, MaxTaskletsAssumption DEF TypeOK, Index
<1>2. Size \in 0 .. MaxTasklets
  BY <1>1 DEF Size
<1>3. \A i \in 1 .. Size : Cell(i) = (head + i - 1) % MaxTasklets
  <2> TAKE i \in 1 .. Size
  <2>1. i \in 1 .. MaxTasklets
    BY <1>1, <1>2
  <2> QED
    BY <1>1, <2>1, WrapOnce DEF Cell
<1>4. \A i \in 1 .. Size : Cell(i) \in Occupied
  BY <1>1 DEF Cell, Size, Occupied, Held
<1>5. \A i, j \in 1 .. Size : Cell(i) = Cell(j) => i = j
  BY <1>1, <1>2 DEF Cell
<1>6. ASSUME NEW c \in Occupied PROVE \E i \in 1 .. Size : Cell(i) = c
  <2>1. CASE c >= head
    <3>1. c - head + 1 \in 1 .. Size /\ Cell(c - head + 1) = c
      BY <1>1, <2>1 DEF Cell, Size, Occupied, Held
    <3> QED
      BY <3>1
  <2>2. CASE c < head
    <3>1. MaxTasklets - head + c + 1 \in 1 .. Size /\ Cell(MaxTasklets - head + c + 1) = c
      BY <1>1, <2>2 DEF Cell, Size, Occupied, Held
    <3> QED
      BY <3>1
  <2>3. c \in Int
    BY <1>1, RingCells DEF Index
  <2> QED
    BY <1>1, <2>1, <2>2, <2>3
<1> QED
  BY <1>2, <1>3, <1>4, <1>5, <1>6

(* Hence Line lists the tasklets in the ring, each once. *)
LineKnown ==
  TypeOK /\ RingIsTheLine =>
    /\ Size \in 0 .. MaxTasklets
    /\ Line \in Seq(Ids) /\ Len(Line) = Size
    /\ \A i \in 1 .. Size : Cell(i) \in Occupied /\ Line[i] = queue[Cell(i)]
    /\ Fifo!InLine = {t \in Ids : Queued(t)}

LEMMA LineAlwaysKnown == LineKnown /\ LineKnown'
<1>1. LineKnown
  <2> SUFFICES ASSUME TypeOK, RingIsTheLine
               PROVE  /\ Size \in 0 .. MaxTasklets
                      /\ Line \in Seq(Ids) /\ Len(Line) = Size
                      /\ \A i \in 1 .. Size : Cell(i) \in Occupied /\ Line[i] = queue[Cell(i)]
                      /\ Fifo!InLine = {t \in Ids : Queued(t)}
    BY DEF LineKnown
  <2> DEFINE Q == {t \in Ids : Queued(t)}
             f == [i \in 1 .. Size |-> queue[Cell(i)]]
  <2>1. /\ Size \in 0 .. MaxTasklets
        /\ \A i \in 1 .. Size : Cell(i) \in Occupied /\ Cell(i) = (head + i - 1) % MaxTasklets
        /\ \A i, j \in 1 .. Size : Cell(i) = Cell(j) => i = j
        /\ \A c \in Occupied : \E i \in 1 .. Size : Cell(i) = c
    BY CellsOfTheLine
  <2>2. f \in Bijection(1 .. Size, Q)
    <3>1. \A i \in 1 .. Size : f[i] \in Q
      BY <2>1 DEF RingIsTheLine
    <3>2. \A i, j \in 1 .. Size : f[i] = f[j] => i = j
      BY <2>1 DEF RingIsTheLine
    <3>3. \A t \in Q : \E i \in 1 .. Size : f[i] = t
      BY <2>1 DEF RingIsTheLine
    <3>4. f \in [1 .. Size -> Q]
      BY <3>1
    <3> QED
      BY <3>2, <3>3, <3>4 DEF Bijection, Injection, Surjection, IsInjective
  <2>3. Size \in Nat
    BY <2>1, MaxTaskletsAssumption
  <2>4. Cardinality(Q) = Size
    BY <2>2, <2>3, FS_CountingElements DEF ExistsBijection
  <2>5. Line = f
    BY <2>1, <2>4 DEF Line
  <2>6. f \in [1 .. Size -> Ids] /\ \A t \in Q : \E i \in 1 .. Size : f[i] = t
    BY <2>2 DEF Bijection, Surjection, Injection
  <2>7. f \in Seq(Ids) /\ Len(f) = Size
    BY <2>3, <2>6
  <2>8. {f[i] : i \in 1 .. Size} = Q
    BY <2>2, <2>6 DEF Bijection, Injection
  <2> QED
    BY <2>1, <2>5, <2>7, <2>8 DEF Fifo!InLine
<1> QED
  BY <1>1, PTL

(***************************************************************************)
(* The steps of the code, as the abstract lock sees them.                  *)
(***************************************************************************)
LEMMA LineUnchanged ==
  ASSUME UNCHANGED <<head, tail, queue>>, \A u \in Ids : (Queued(u))' <=> Queued(u),
         (\E u \in Ids : Owns(u))' <=> \E u \in Ids : Owns(u)
  PROVE  UNCHANGED Fifo!lockVars
<1>1. {t \in Ids : Queued(t)}' = {t \in Ids : Queued(t)}
  OBVIOUS
<1>2. Line' = Line
  BY <1>1 DEF Line
<1> QED
  BY <1>2 DEF Fifo!lockVars

(* An enqueue appends the tasklet to the line.                             *)
LEMMA LineGrows ==
  ASSUME TypeOK, TypeOK', RingIsTheLine, NEW t \in Ids, ~Queued(t), (Queued(t))',
         \A u \in Ids : u # t => ((Queued(u))' <=> Queued(u)),
         Enqueue(t), head' = head
  PROVE  t \notin Fifo!InLine /\ Line' = Append(Line, t) /\ (Line = <<>> <=> ~Held)
<1>1. RingIsTheLine' /\ queue'[tail] = t /\ \A i \in Occupied : queue'[i] = queue[i]
  BY RingGrows
<1>2. /\ Size \in 0 .. MaxTasklets /\ Line \in Seq(Ids) /\ Len(Line) = Size
      /\ \A i \in 1 .. Size : Cell(i) \in Occupied /\ Line[i] = queue[Cell(i)]
      /\ Fifo!InLine = {u \in Ids : Queued(u)}
  BY LineAlwaysKnown DEF LineKnown
<1>3. /\ Line' \in Seq(Ids) /\ Len(Line') = Size'
      /\ \A i \in 1 .. Size' : Line'[i] = queue'[(Cell(i))']
  BY <1>1, LineAlwaysKnown DEF LineKnown
<1>4. head \in 0 .. MaxTasklets - 1 /\ tail \in 0 .. MaxTasklets - 1 /\ MaxTasklets \in Nat \ {0}
  BY NrTaskletsAssumption, MaxTaskletsAssumption DEF TypeOK, Index
<1>5. tail' = Advance(tail) /\ Held' /\ (head = tail <=> ~Held)
  BY NotFull DEF Enqueue, Held
<1>6. Size' = Size + 1 /\ (Size = 0 <=> ~Held)
  BY <1>4, <1>5 DEF Size, Advance
<1>7. Cell(Size + 1) = tail
  BY <1>4, <1>5 DEF Size, Cell
<1>8. \A i : (Cell(i))' = Cell(i)
  BY DEF Cell
<1>9. \A i \in 1 .. Size : Line'[i] = Line[i]
  BY <1>1, <1>2, <1>3, <1>6, <1>8
<1>10. Line'[Size + 1] = t
  BY <1>1, <1>2, <1>3, <1>6, <1>7, <1>8
<1>11. Line' = Append(Line, t)
  BY <1>2, <1>3, <1>6, <1>9, <1>10, AppendProperties, SeqEqual
<1>12. Line = <<>> <=> Size = 0
  BY <1>2
<1> QED
  BY <1>2, <1>6, <1>11, <1>12

(* The pop takes the head off the line.                                    *)
LEMMA LineShrinks ==
  ASSUME TypeOK, TypeOK', RingIsTheLine, NEW t \in Ids, Queued(t), ~(Queued(t))', t = queue[head],
         \A u \in Ids : u # t => ((Queued(u))' <=> Queued(u)),
         head' = Advance(head), UNCHANGED <<tail, queue>>
  PROVE  Line # <<>> /\ t = Head(Line) /\ Line' = Tail(Line)
<1>1. RingIsTheLine'
  BY RingShrinks
<1>2. /\ Size \in 0 .. MaxTasklets /\ Line \in Seq(Ids) /\ Len(Line) = Size
      /\ \A i \in 1 .. Size : Line[i] = queue[Cell(i)]
  BY LineAlwaysKnown DEF LineKnown
<1>3. /\ Line' \in Seq(Ids) /\ Len(Line') = Size'
      /\ \A i \in 1 .. Size' : Line'[i] = queue[(Cell(i))']
      /\ Fifo!InLine' = {u \in Ids : Queued(u)}'
  BY <1>1, LineAlwaysKnown DEF LineKnown
<1>4. head \in 0 .. MaxTasklets - 1 /\ tail \in 0 .. MaxTasklets - 1 /\ MaxTasklets \in Nat \ {0}
  BY NrTaskletsAssumption, MaxTaskletsAssumption DEF TypeOK, Index
<1>5. Held
  BY DEF Held
<1>6. Size' = Size - 1 /\ Size > 0
  <2>1. head' = tail' <=> ~Held'
    BY <1>1, HeadAlwaysKnown DEF HeadKnown
  <2>2. head' = IF head + 1 = MaxTasklets THEN 0 ELSE head + 1
    BY DEF Advance
  <2>3. Size > 0 /\ (head' = tail => Size = 1)
    BY <1>4, <1>5, <2>2 DEF Size
  <2>4. CASE head' = tail
    BY <1>4, <2>1, <2>3, <2>4 DEF Size
  <2>5. CASE head' # tail
    BY <1>4, <1>5, <2>2, <2>5 DEF Size
  <2> QED
    BY <2>3, <2>4, <2>5
<1>7. \A i \in 1 .. Size - 1 : (Cell(i))' = Cell(i + 1)
  BY <1>2, <1>4 DEF Cell, Advance
<1>8. Cell(1) = head
  BY <1>4 DEF Cell
<1>9. Line # <<>> /\ t = Head(Line)
  BY <1>2, <1>6, <1>8
<1>10. Line' = Tail(Line)
  <2>1. Tail(Line) \in Seq(Ids) /\ Len(Tail(Line)) = Size - 1
           /\ \A i \in 1 .. Size - 1 : Tail(Line)[i] = Line[i + 1]
    BY <1>2, <1>6, <1>9, HeadTailProperties
  <2>2. \A i \in 1 .. Size - 1 : Line'[i] = Line[i + 1]
    BY <1>2, <1>3, <1>6, <1>7
  <2> QED
    BY <1>3, <1>6, <2>1, <2>2, SeqEqual
<1> QED
  BY <1>9, <1>10

(***************************************************************************)
(* A tasklet is in line from its enqueue to its pop, and the first in line *)
(* is let in by its own enqueue into a free mutex, or by the wake-up that  *)
(* finds it asleep.                                                        *)
(***************************************************************************)
Granted == \E t \in Ids : Owns(t)

LEMMA NothingToSee ==
  ASSUME UNCHANGED <<head, tail, queue>>,
         \A u \in Ids : (Queued(u))' <=> Queued(u),
         \A u \in Ids : (Owns(u))' <=> Owns(u)
  PROVE  UNCHANGED Fifo!lockVars
BY LineUnchanged

LEMMA LockOutsideTheRing ==
  ASSUME IInv, NEW t \in Ids,
         LockTestAndSet(t) \/ LockCheck(t) \/ LockClear(t) \/ LockHalt(t)
  PROVE  UNCHANGED Fifo!lockVars
<1> USE DEF IInv, TypeOK, Step, Runs, Goto
<1>1. UNCHANGED <<head, tail, queue>>
  BY DEF LockTestAndSet, LockCheck, LockClear, LockHalt
<1>2. \A u \in Ids : (Queued(u))' <=> Queued(u)
  BY DEF LockTestAndSet, LockCheck, LockClear, LockHalt, Queued
<1>3. \A u \in Ids : (Owns(u))' <=> Owns(u)
  BY DEF LockTestAndSet, LockCheck, LockClear, LockHalt, Halt, Owns
<1> QED
  BY <1>1, <1>2, <1>3, NothingToSee

LEMMA UnlockOutsideTheRing ==
  ASSUME IInv, NEW t \in Ids, UnlockTestAndSet(t) \/ UnlockClear(t)
  PROVE  UNCHANGED Fifo!lockVars
<1> USE DEF IInv, TypeOK, Step, Runs, Goto
<1>1. UNCHANGED <<head, tail, queue>>
  BY DEF UnlockTestAndSet, UnlockClear
<1>2. \A u \in Ids : ((Queued(u))' <=> Queued(u)) /\ ((Owns(u))' <=> Owns(u))
  BY DEF UnlockTestAndSet, UnlockClear, Queued, Owns
<1> QED
  BY <1>1, <1>2, NothingToSee

LEMMA TryOutsideTheRing ==
  ASSUME IInv, NEW t \in Ids, TryTestAndSet(t) \/ TryClear(t) \/ (TryCheck(t) /\ head # tail)
  PROVE  UNCHANGED Fifo!lockVars
<1> USE DEF IInv, TypeOK, Step, Runs, Goto
<1>1. UNCHANGED <<head, tail, queue>>
  BY DEF TryTestAndSet, TryClear, TryCheck
<1>2. \A u \in Ids : ((Queued(u))' <=> Queued(u)) /\ ((Owns(u))' <=> Owns(u))
  BY DEF TryTestAndSet, TryClear, TryCheck, Queued, Owns
<1> QED
  BY <1>1, <1>2, NothingToSee

LEMMA ClientOutsideTheRing ==
  ASSUME IInv, NEW t \in Ids, Call(t) \/ Leave(t) \/ Return(t)
  PROVE  UNCHANGED Fifo!lockVars
<1> USE DEF IInv, TypeOK, Step, Runs, Goto
<1>1. UNCHANGED <<head, tail, queue>>
  BY DEF Call, Leave, Return, mutexVars
<1>2. \A u \in Ids : ((Queued(u))' <=> Queued(u)) /\ ((Owns(u))' <=> Owns(u))
  BY DEF Call, Leave, Return, ReturnFromMain, Halt, mutexVars, Queued, Owns
<1> QED
  BY <1>1, <1>2, NothingToSee

(* Every tasklet has returned, so nobody is in line. *)
LEMMA LaunchOutsideTheRing == ASSUME IInv, Launch PROVE UNCHANGED Fifo!lockVars
<1>1. \A t \in Ids : pc[t] = "ebreak"
  BY StopsDone DEF Launch, Relaunch, StopsOnlyWhenDone
<1>2. \A t \in Ids : pc'[t] = "main"
  BY DEF Launch, Relaunch
<1>3. UNCHANGED <<head, tail, queue>>
  BY DEF Launch, mutexVars
<1>4. \A u \in Ids : ((Queued(u))' <=> Queued(u)) /\ ((Owns(u))' <=> Owns(u))
  BY <1>1, <1>2 DEF Queued, Owns
<1> QED
  BY <1>3, <1>4, NothingToSee

LEMMA EnqueueIsRequest == ASSUME IInv, NEW t \in Ids, LockEnqueue(t) PROVE Fifo!Request(t)
<1> USE DEF IInv
<1>1. IInv'
  BY Inductive DEF Next, Tasklet
<1>2. /\ ~Queued(t) /\ (Queued(t))' /\ head' = head /\ Enqueue(t)
      /\ \A u \in Ids : u # t => ((Queued(u))' <=> Queued(u))
  BY DEF LockEnqueue, Queued, TypeOK, Step, Runs, Goto
<1>3. t \notin Fifo!InLine /\ Line' = Append(Line, t) /\ (Line = <<>> <=> ~Held)
  BY <1>1, <1>2, LineGrows
<1>4. /\ (Owns(t))' <=> ~Held
      /\ ~Owns(t) /\ \A u \in Ids : u # t => ((Owns(u))' <=> Owns(u))
  BY DEF LockEnqueue, CheckHolds, Owns, Held, TypeOK, Step, Runs, Goto
<1>5. Granted' <=> Granted \/ Line = <<>>
  BY <1>3, <1>4 DEF Granted
<1> QED
  BY <1>3, <1>5 DEF Granted, Fifo!Request

LEMMA TryIsRequest ==
  ASSUME IInv, NEW t \in Ids, TryCheck(t), head = tail
  PROVE  Fifo!Request(t)
<1> USE DEF IInv
<1>1. IInv'
  BY Inductive DEF Next, Tasklet
<1>2. /\ ~Queued(t) /\ (Queued(t))' /\ head' = head /\ Enqueue(t) /\ (Owns(t))'
      /\ \A u \in Ids : u # t => ((Queued(u))' <=> Queued(u))
  BY DEF TryCheck, Queued, Owns, TypeOK, Step, Runs, Goto
<1>3. t \notin Fifo!InLine /\ Line' = Append(Line, t) /\ (Line = <<>> <=> ~Held)
  BY <1>1, <1>2, LineGrows
<1>4. ~Held
  BY <1>2, NotFull DEF Held
<1>5. Granted' <=> Granted \/ Line = <<>>
  BY <1>2, <1>3, <1>4 DEF Granted
<1> QED
  BY <1>3, <1>5 DEF Granted, Fifo!Request

LEMMA AdvanceIsRelease == ASSUME IInv, NEW t \in Ids, UnlockAdvance(t) PROVE Fifo!Release(t)
<1> USE DEF IInv
<1>1. IInv'
  BY Inductive DEF Next, Tasklet
<1>2. /\ Queued(t) /\ ~(Queued(t))' /\ Owns(t) /\ ~(Owns(t))'
      /\ \A u \in Ids : u # t => ((Queued(u))' <=> Queued(u)) /\ ((Owns(u))' <=> Owns(u))
  BY DEF UnlockAdvance, Queued, Owns, TypeOK, Step, Runs, Goto
<1>3. t = queue[head] /\ \A u \in Ids : u # t => ~Owns(u)
  BY <1>2 DEF HeadFirst
<1>4. head' = Advance(head) /\ UNCHANGED <<tail, queue>>
  BY DEF UnlockAdvance
<1>5. Line # <<>> /\ t = Head(Line) /\ Line' = Tail(Line)
  BY <1>1, <1>2, <1>3, <1>4, LineShrinks
<1>6. Granted /\ ~Granted'
  BY <1>2, <1>3 DEF Granted
<1> QED
  BY <1>5, <1>6 DEF Granted, Fifo!Release

LEMMA WakeIsGrant ==
  ASSUME IInv, NEW t \in Ids, UnlockWake(t)
  PROVE  Fifo!Grant \/ UNCHANGED Fifo!lockVars
<1> USE DEF IInv
<1>1. PICK v \in Ids : waking[t] = {v} /\ Wakes(t, v)
  BY DEF UnlockWake, WakeOnce, OneTarget, Wakes, Step, Runs
<1>2. v = queue[head] /\ Queued(v) /\ pc[t] = "unlock_wake" /\ \A u \in Ids : ~Owns(u)
  BY <1>1 DEF HeadFirst, UnlockWake, WakeOnce, Step, Runs
<1>3. CASE v \in running
  <2>1. UNCHANGED <<pc, running, head, tail, queue, alreadyLocked>>
    BY <1>1, <1>2, <1>3 DEF UnlockWake, WakeOnce, TypeOK, Runs, Goto
  <2> QED
    BY <2>1, NothingToSee DEF Queued, Owns
<1>4. CASE v \notin running
  <2>1. /\ running' = running \cup {v} /\ pc' = [pc EXCEPT ![t] = "main"]
        /\ UNCHANGED <<head, tail, queue>>
    BY <1>1, <1>4 DEF UnlockWake, WakeOnce, Goto
  <2>2. pc[v] = "critical"
    BY <1>2, <1>4 DEF Resting, Queued
  <2>3. (Owns(v))' /\ \A u \in Ids : (Queued(u))' <=> Queued(u)
    BY <1>2, <2>1, <2>2 DEF Owns, Queued, TypeOK
  <2>4. Line # <<>> /\ Line' = Line
    <3>1. {u \in Ids : Queued(u)}' = {u \in Ids : Queued(u)}
      BY <2>3
    <3>2. Fifo!InLine # {} /\ Line \in Seq(Ids)
      BY <1>2, LineAlwaysKnown DEF LineKnown
    <3>3. Line # <<>>
      BY <3>2 DEF Fifo!InLine
    <3>4. Line' = Line
      BY <2>1, <3>1 DEF Line
    <3> QED
      BY <3>3, <3>4
  <2>5. ~Granted /\ Granted'
    BY <1>2, <2>3 DEF Granted
  <2> QED
    BY <2>4, <2>5 DEF Granted, Fifo!Grant
<1> QED
  BY <1>3, <1>4

LEMMA StepIsStep == IInv /\ [Next]_vars => [Fifo!Next]_(Fifo!lockVars)
<1> SUFFICES ASSUME IInv, [Next]_vars PROVE [Fifo!Next]_(Fifo!lockVars)
  OBVIOUS
<1>1. CASE Launch
  BY <1>1, LaunchOutsideTheRing
<1>2. ASSUME NEW t \in Ids, Tasklet(t) PROVE [Fifo!Next]_(Fifo!lockVars)
  <2>1. CASE LockEnqueue(t)
    BY <2>1, EnqueueIsRequest DEF Fifo!Next
  <2>2. CASE TryCheck(t) /\ head = tail
    BY <2>2, TryIsRequest DEF Fifo!Next
  <2>3. CASE UnlockAdvance(t)
    BY <2>3, AdvanceIsRelease DEF Fifo!Next
  <2>4. CASE UnlockWake(t)
    BY <2>4, WakeIsGrant DEF Fifo!Next
  <2>5. CASE LockTestAndSet(t) \/ LockCheck(t) \/ LockClear(t) \/ LockHalt(t)
    BY <2>5, LockOutsideTheRing
  <2>6. CASE UnlockTestAndSet(t) \/ UnlockClear(t)
    BY <2>6, UnlockOutsideTheRing
  <2>7. CASE TryTestAndSet(t) \/ TryClear(t) \/ (TryCheck(t) /\ head # tail)
    BY <2>7, TryOutsideTheRing
  <2>8. CASE Call(t) \/ Leave(t) \/ Return(t)
    BY <2>8, ClientOutsideTheRing
  <2> QED
    BY <1>2, <2>1, <2>2, <2>3, <2>4, <2>5, <2>6, <2>7, <2>8 DEF Tasklet
<1>3. CASE UNCHANGED vars
  BY <1>3, NothingToSee DEF vars, Queued, Owns
<1> QED
  BY <1>1, <1>2, <1>3 DEF Next

(***************************************************************************)
(* sleepmtx_t implements the FIFO lock: a tasklet joins the line in        *)
(* sleepmutex_lock or a successful trylock, the line is served in that     *)
(* order, and the next is let in only after the release of the one before. *)
(***************************************************************************)
THEOREM Implements == Spec => Fifo!Init /\ [][Fifo!Next]_(Fifo!lockVars)
<1>1. Init => Fifo!Init
  <2> SUFFICES ASSUME Init PROVE Fifo!Init
    OBVIOUS
  <2>1. IInv /\ \A u \in Ids : ~Queued(u) /\ ~Owns(u)
    BY InitHolds DEF Init, LaunchTasklets, Queued, Owns
  <2>2. Fifo!InLine = {} /\ Line \in Seq(Ids)
    BY <2>1, LineAlwaysKnown DEF LineKnown, IInv
  <2>3. Line = <<>>
    BY <2>2 DEF Fifo!InLine
  <2> QED
    BY <2>1, <2>3 DEF Fifo!Init
<1> QED
  BY <1>1, StepIsStep, Always, PTL DEF Spec

=============================================================================
