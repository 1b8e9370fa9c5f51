---------------------------- MODULE DeviceSyncProofs ----------------------------
(***************************************************************************)
(* The three primitives that are built on lock bits and sleepers, for any  *)
(* number of tasklets.  barrier_wait, for any number of rounds: it         *)
(* implements a reusable barrier, its counter and mask agree, and nobody   *)
(* is left asleep.  The semaphore, for any number of units and requests:   *)
(* units are conserved, nobody sleeps next to a free unit, no wake-up is   *)
(* lost.  The handshake, for any programs whose calls fit: no sleeper is   *)
(* lost or woken twice, nobody is woken after his return, the code between *)
(* a slot's lock bits is exclusive, a call that returns 0 has met another, *)
(* and SCANSSA's chain runs to its end.  Then the same of the system of    *)
(* all three.                                                              *)
(***************************************************************************)
EXTENDS MCDeviceSync, CountingBarrier, Semaphore, FiniteSetTheorems,
        SequenceTheorems, NaturalsInduction, WellFoundedInduction, TLAPS

-----------------------------------------------------------------------------
(* barrier_wait *)

Types ==
  /\ running \in SUBSET Ids
  /\ pc \in [Ids -> {"main", "count", "clear", "halt", "last_clear", "wake", "ebreak"}]
  /\ waking \in [Ids -> SUBSET Ids]
  /\ barMeta \in BOOLEAN
  /\ barCount \in 0 .. NrTasklets - 1
  /\ sleepingMask \in SUBSET Ids
  /\ arrived \in [Ids -> 0 .. Rounds]

HasMeta(t) == pc[t] \in {"count", "clear", "last_clear"}

Asleep(t) == t \notin running /\ pc[t] = "main"

Counted(t) == pc[t] \in {"clear", "halt"} \/ Asleep(t)

(* The bit in CSR 2 is set exactly while one tasklet is at the counter. *)
MetaHeld ==
  /\ \A t, u \in Ids : HasMeta(t) /\ HasMeta(u) => t = u
  /\ \A t \in Ids : HasMeta(t) => barMeta
  /\ barMeta => \E t \in Ids : HasMeta(t)

(* Who is counted is in the mask or in the wake mask of one tasklet. *)
MaskOrWaker ==
  /\ barCount = Cardinality(sleepingMask)
  /\ \A t \in sleepingMask : Counted(t)
  /\ \A t \in Ids : Counted(t) => t \in sleepingMask \/ \E w \in Ids : t \in waking[w]
  /\ \A w \in Ids : \A t \in waking[w] :
       t \notin sleepingMask /\ (pc[t] = "halt" \/ Asleep(t))
  /\ \A w, x \in Ids : \A t \in waking[w] : t \in waking[x] => w = x
  /\ \A w \in Ids : waking[w] # {} => pc[w] \in {"last_clear", "wake"}

(* Those in the mask are one arrival ahead of the others. *)
Arrivals(r) ==
  \A t \in Ids : arrived[t] = IF t \in sleepingMask \/ pc[t] = "count" THEN r + 1 ELSE r

InStep == \E r \in 0 .. Rounds : Arrivals(r)

(* Who is not running sleeps in the barrier or has returned. *)
BarResting ==
  /\ \A t \in Ids \ running : pc[t] \in {"main", "ebreak"}
  /\ \A t \in Ids : pc[t] = "ebreak" => t \notin running /\ arrived[t] = Rounds

BarInv == Types /\ MetaHeld /\ MaskOrWaker /\ InStep /\ BarResting

-----------------------------------------------------------------------------
LEMMA NotEmpty == Ids # {}
<1>1. 0 \in Ids
  BY NrTaskletsAssumption DEF Ids
<1> QED
  BY <1>1

LEMMA IdsCount == IsFiniteSet(Ids) /\ Cardinality(Ids) = NrTasklets
BY FS_Interval, NrTaskletsAssumption DEF Ids

(* The counter is one short exactly if only the caller is missing.         *)
LEMMA OnlyCallerMissing ==
  ASSUME BarInv, NEW t \in Ids, t \notin sleepingMask
  PROVE  (barCount + 1 = NrTasklets) <=> (sleepingMask = Ids \ {t})
<1>1. IsFiniteSet(sleepingMask) /\ sleepingMask \subseteq Ids \ {t}
  BY IdsCount, FS_Subset DEF BarInv, Types
<1>2. IsFiniteSet(Ids \ {t}) /\ Cardinality(Ids \ {t}) = NrTasklets - 1
  BY IdsCount, FS_RemoveElement
<1>3. Cardinality(sleepingMask) = Cardinality(Ids \ {t}) => sleepingMask = Ids \ {t}
  BY <1>1, <1>2, FS_Subset
<1>4. barCount = Cardinality(sleepingMask) /\ barCount \in Nat /\ NrTasklets \in Nat
  BY NrTaskletsAssumption DEF BarInv, MaskOrWaker, Types
<1>5. barCount + 1 = NrTasklets => sleepingMask = Ids \ {t}
  BY <1>2, <1>3, <1>4
<1>6. sleepingMask = Ids \ {t} => Cardinality(sleepingMask) = NrTasklets - 1
  BY <1>2
<1> QED
  BY <1>4, <1>5, <1>6

(***************************************************************************)
(* When nobody runs, everybody has returned: whoever sleeps here is in the *)
(* mask, hence one arrival ahead of somebody else, who is not asleep and   *)
(* has therefore made all its calls.                                       *)
(***************************************************************************)
LEMMA BarDone == ASSUME Rounds \in Nat, BarInv PROVE StopsOnlyWhenDone
<1> SUFFICES ASSUME Stopped, NEW t \in Ids, pc[t] # "ebreak" PROVE FALSE
  BY DEF StopsOnlyWhenDone
<1> USE DEF BarInv
<1>1. \A u \in Ids : u \notin running /\ pc[u] \in {"main", "ebreak"}
  BY DEF BarResting, Stopped
<1>2. \A w \in Ids : waking[w] = {}
  BY <1>1 DEF MaskOrWaker
<1>3. \A u \in Ids : pc[u] = "main" => u \in sleepingMask
  BY <1>1, <1>2 DEF MaskOrWaker, Counted, Asleep
<1>4. PICK u \in Ids : u \notin sleepingMask
  <2>1. Cardinality(sleepingMask) # Cardinality(Ids)
    BY IdsCount, NrTaskletsAssumption DEF MaskOrWaker, Types
  <2> QED
    BY <2>1 DEF Types
<1>5. arrived[u] = Rounds
  BY <1>1, <1>3, <1>4 DEF BarResting
<1>6. PICK r \in 0 .. Rounds : Arrivals(r)
  BY DEF InStep
<1>7. arrived[t] = Rounds + 1
  BY <1>1, <1>3, <1>4, <1>5, <1>6 DEF Arrivals
<1> QED
  BY <1>7 DEF Types

-----------------------------------------------------------------------------
LEMMA BarInvInit == ASSUME Rounds \in Nat, BarInit PROVE BarInv
<1> USE DEF BarInit, LaunchTasklets
<1>1. Types
  <2>1. 0 \in 0 .. NrTasklets - 1 /\ 0 \in 0 .. Rounds
    BY NrTaskletsAssumption
  <2>2. \A t \in Ids : pc[t] = "main" /\ waking[t] = {}
    OBVIOUS
  <2> QED
    BY <2>1, <2>2 DEF Types
<1>2. MetaHeld /\ BarResting
  BY DEF MetaHeld, HasMeta, BarResting
<1>3. MaskOrWaker
  BY FS_EmptySet DEF MaskOrWaker, Counted, Asleep
<1>4. Arrivals(0)
  BY DEF Arrivals
<1>5. InStep
  BY <1>4 DEF InStep
<1> QED
  BY <1>1, <1>2, <1>3, <1>5 DEF BarInv

LEMMA InvTestAndSet ==
  ASSUME Rounds \in Nat, BarInv, NEW t \in Ids, BarTestAndSet(t) PROVE BarInv'
<1> USE DEF BarInv, Types, BarTestAndSet, Step, Runs, Goto
<1>1. Types'
  BY DEF Types
<1>2. MetaHeld'
  BY DEF MetaHeld, HasMeta
<1>3. \A u \in Ids : (Counted(u)' <=> Counted(u)) /\ (Asleep(u)' <=> Asleep(u))
  BY DEF Counted, Asleep
<1>4. MaskOrWaker'
  BY <1>3 DEF MaskOrWaker
<1>5. InStep'
  <2>1. PICK r \in 0 .. Rounds : Arrivals(r)
    BY DEF InStep
  <2>2. t \notin sleepingMask
    BY DEF MaskOrWaker, Counted, Asleep
  <2>3. Arrivals(r)'
    BY <2>1, <2>2 DEF Arrivals
  <2> QED
    BY <2>3 DEF InStep
<1>6. BarResting'
  BY DEF BarResting
<1> QED
  BY <1>1, <1>2, <1>4, <1>5, <1>6

LEMMA InvArriveLast ==
  ASSUME Rounds \in Nat, BarInv, NEW t \in Ids, ArriveLast(t) PROVE BarInv'
<1> USE DEF BarInv, Types, Step, Runs, Goto
<1>1. /\ t \in running /\ pc[t] = "count" /\ pc' = [pc EXCEPT ![t] = "last_clear"]
      /\ barCount' = 0 /\ sleepingMask' = {}
      /\ running' = running /\ barMeta' = barMeta /\ arrived' = arrived
  BY DEF ArriveLast
<1>2. t \notin sleepingMask
  BY <1>1 DEF MaskOrWaker, Counted, Asleep
<1>3. sleepingMask = Ids \ {t}
  BY <1>2, OnlyCallerMissing DEF ArriveLast, expectedCount
<1>4. waking' = [waking EXCEPT ![t] = Ids \ {t}]
  BY <1>3 DEF ArriveLast
<1>5. \A w \in Ids : waking[w] = {}
  BY <1>1, <1>3 DEF MaskOrWaker, Counted, Asleep
<1>6. \A u \in Ids \ {t} : ~HasMeta(u)
  BY <1>1 DEF MetaHeld, HasMeta
<1>7. \A u \in Ids \ {t} : pc[u] = "halt" \/ Asleep(u)
  BY <1>3, <1>6 DEF MaskOrWaker, Counted, HasMeta
<1>8. Types'
  <2>1. 0 \in 0 .. NrTasklets - 1
    BY NrTaskletsAssumption
  <2> QED
    BY <1>1, <1>4, <2>1
<1>9. MetaHeld' /\ BarResting'
  BY <1>1 DEF MetaHeld, HasMeta, BarResting
<1>10. MaskOrWaker'
  BY <1>1, <1>4, <1>5, <1>7, FS_EmptySet DEF MaskOrWaker, Counted, Asleep
<1>11. InStep'
  <2>1. PICK r \in 0 .. Rounds : Arrivals(r)
    BY DEF InStep
  <2>2. \A u \in Ids : arrived[u] = r + 1
    BY <1>1, <1>3, <2>1 DEF Arrivals
  <2>3. r + 1 \in 0 .. Rounds
    BY <2>2
  <2>4. Arrivals(r + 1)'
    BY <1>1, <1>7, <2>2 DEF Arrivals, Asleep
  <2> QED
    BY <2>3, <2>4 DEF InStep
<1> QED
  BY <1>8, <1>9, <1>10, <1>11

LEMMA InvArriveEarly ==
  ASSUME Rounds \in Nat, BarInv, NEW t \in Ids, ArriveEarly(t) PROVE BarInv'
<1> USE DEF BarInv, Types, Step, Runs, Goto
<1>1. /\ t \in running /\ pc[t] = "count" /\ pc' = [pc EXCEPT ![t] = "clear"]
      /\ barCount' = barCount + 1 /\ sleepingMask' = sleepingMask \cup {t}
      /\ running' = running /\ barMeta' = barMeta /\ arrived' = arrived /\ waking' = waking
  BY DEF ArriveEarly
<1>2. t \notin sleepingMask
  BY <1>1 DEF MaskOrWaker, Counted, Asleep
<1>3. Types'
  <2>1. barCount + 1 # NrTasklets
    BY DEF ArriveEarly, expectedCount
  <2>2. barCount + 1 \in 0 .. NrTasklets - 1
    BY <2>1, NrTaskletsAssumption
  <2> QED
    BY <1>1, <2>2
<1>4. MetaHeld' /\ BarResting'
  BY <1>1 DEF MetaHeld, HasMeta, BarResting
<1>5. barCount' = Cardinality(sleepingMask')
  <2>1. IsFiniteSet(sleepingMask)
    BY IdsCount, FS_Subset
  <2> QED
    BY <1>1, <1>2, <2>1, FS_AddElement DEF MaskOrWaker
<1>6. \A w \in Ids : t \notin waking[w]
  BY <1>1 DEF MaskOrWaker, Asleep
<1>7. \A u \in Ids : /\ Counted(u)' <=> Counted(u) \/ u = t
                     /\ Asleep(u)' <=> Asleep(u)
  BY <1>1 DEF Counted, Asleep
<1>8. MaskOrWaker'
  BY <1>1, <1>5, <1>6, <1>7 DEF MaskOrWaker
<1>9. InStep'
  <2>1. PICK r \in 0 .. Rounds : Arrivals(r)
    BY DEF InStep
  <2>2. Arrivals(r)'
    BY <1>1, <2>1 DEF Arrivals
  <2> QED
    BY <2>2 DEF InStep
<1> QED
  BY <1>3, <1>4, <1>8, <1>9

LEMMA InvClear ==
  ASSUME Rounds \in Nat, BarInv, NEW t \in Ids, BarClear(t) PROVE BarInv'
<1> USE DEF BarInv, Types, Step, Runs, Goto, BarClear
<1>1. Types' /\ BarResting'
  BY DEF BarResting
<1>2. MetaHeld'
  BY DEF MetaHeld, HasMeta
<1>3. \A u \in Ids : (Counted(u)' <=> Counted(u)) /\ (Asleep(u)' <=> Asleep(u))
  BY DEF Counted, Asleep
<1>4. MaskOrWaker'
  BY <1>3 DEF MaskOrWaker
<1>5. InStep'
  <2>1. PICK r \in 0 .. Rounds : Arrivals(r)
    BY DEF InStep
  <2>2. Arrivals(r)'
    BY <2>1 DEF Arrivals
  <2> QED
    BY <2>2 DEF InStep
<1> QED
  BY <1>1, <1>2, <1>4, <1>5

LEMMA InvWakeOthers ==
  ASSUME Rounds \in Nat, BarInv, NEW t \in Ids, WakeOthers(t) PROVE BarInv'
<1> USE DEF BarInv, Types, Step, Runs, Goto
<1> DEFINE stillRunning == waking[t] \cap running
<1>1. /\ t \in running /\ pc[t] = "wake" /\ running' = running \cup waking[t]
      /\ waking' = [waking EXCEPT ![t] = stillRunning]
      /\ pc' = [pc EXCEPT ![t] = IF stillRunning = {} THEN "main" ELSE "wake"]
      /\ barCount' = barCount /\ sleepingMask' = sleepingMask
      /\ barMeta' = barMeta /\ arrived' = arrived
  BY DEF WakeOthers, WakeOnce
<1>2. \A u \in waking[t] : u \in Ids /\ (pc[u] = "halt" \/ Asleep(u)) /\ u # t
  BY <1>1 DEF MaskOrWaker, Asleep
<1>3. \A u \in Ids : /\ Counted(u)' <=> Counted(u) /\ u \notin waking[t] \ running
                     /\ Asleep(u)' <=> Asleep(u) /\ u \notin waking[t]
  <2> TAKE u \in Ids
  <2>1. u # t => pc'[u] = pc[u]
    BY <1>1
  <2>2. ~Counted(t) /\ ~Asleep(t) /\ ~Counted(t)' /\ ~Asleep(t)'
    BY <1>1 DEF Counted, Asleep
  <2>3. u \notin running => pc[u] \in {"main", "ebreak"}
    BY DEF BarResting
  <2> QED
    BY <1>1, <1>2, <2>1, <2>2, <2>3 DEF Counted, Asleep
<1>4. Types' /\ BarResting'
  BY <1>1, <1>2 DEF BarResting, Asleep
<1>5. MetaHeld'
  BY <1>1 DEF MetaHeld, HasMeta
<1>6. MaskOrWaker'
  <2>1. \A u \in sleepingMask' : Counted(u)'
    BY <1>1, <1>3 DEF MaskOrWaker
  <2>2. ASSUME NEW u \in Ids, Counted(u)'
        PROVE  u \in sleepingMask' \/ \E w \in Ids : u \in waking'[w]
    BY <1>1, <1>3, <2>2 DEF MaskOrWaker
  <2>3. ASSUME NEW w \in Ids, NEW u \in waking'[w]
        PROVE  /\ u \notin sleepingMask' /\ (pc'[u] = "halt" \/ Asleep(u)')
               /\ u \in waking[w]
    <3>1. u \in waking[w] /\ u \in Ids
      BY <1>1, <2>3
    <3>2. w # t => u \notin waking[t]
      BY <3>1 DEF MaskOrWaker
    <3>3. pc[u] = "halt" \/ Asleep(u)
      BY <3>1 DEF MaskOrWaker
    <3>4. w = t => pc[u] = "halt"
      BY <1>1, <2>3, <3>3 DEF Asleep
    <3>5. pc'[u] = pc[u] \/ u = t
      BY <1>1, <3>1
    <3>6. u # t
      BY <1>1, <3>3 DEF Asleep
    <3> QED
      BY <1>1, <1>3, <3>1, <3>2, <3>3, <3>4, <3>5, <3>6 DEF MaskOrWaker
  <2>4. \A w, x \in Ids : \A u \in waking'[w] : u \in waking'[x] => w = x
    BY <2>3 DEF MaskOrWaker
  <2>5. \A w \in Ids : waking'[w] # {} => pc'[w] \in {"last_clear", "wake"}
    BY <1>1 DEF MaskOrWaker
  <2> QED
    BY <1>1, <2>1, <2>2, <2>3, <2>4, <2>5 DEF MaskOrWaker
<1>7. InStep'
  <2>1. PICK r \in 0 .. Rounds : Arrivals(r)
    BY DEF InStep
  <2>2. Arrivals(r)'
    BY <1>1, <2>1 DEF Arrivals
  <2> QED
    BY <2>2 DEF InStep
<1> QED
  BY <1>4, <1>5, <1>6, <1>7

LEMMA InvSleep ==
  ASSUME Rounds \in Nat, BarInv, NEW t \in Ids, BarSleep(t) \/ BarReturn(t) PROVE BarInv'
<1> USE DEF BarInv, Types, Step, Runs, Goto, BarSleep, BarReturn, ReturnFromMain, Halt
<1>1. Types' /\ BarResting'
  BY DEF BarResting
<1>2. MetaHeld'
  BY DEF MetaHeld, HasMeta
<1>3. \A u \in Ids : /\ Counted(u)' <=> Counted(u)
                     /\ pc[u] = "halt" \/ Asleep(u) => pc'[u] = "halt" \/ Asleep(u)'
  BY DEF Counted, Asleep
<1>4. MaskOrWaker'
  BY <1>3 DEF MaskOrWaker
<1>5. InStep'
  <2>1. PICK r \in 0 .. Rounds : Arrivals(r)
    BY DEF InStep
  <2>2. Arrivals(r)'
    BY <2>1 DEF Arrivals
  <2> QED
    BY <2>2 DEF InStep
<1> QED
  BY <1>1, <1>2, <1>4, <1>5

LEMMA InvLaunch == ASSUME Rounds \in Nat, BarInv, BarLaunch PROVE BarInv'
<1> USE DEF BarInv, Types
<1>1. /\ \A t \in Ids : pc[t] = "ebreak"
      /\ running' = Ids /\ pc' = [t \in Ids |-> "main"] /\ waking' = [t \in Ids |-> {}]
      /\ barMeta' = barMeta /\ barCount' = barCount /\ sleepingMask' = sleepingMask
      /\ arrived' = [t \in Ids |-> 0]
  BY BarDone DEF BarLaunch, Relaunch, StopsOnlyWhenDone
<1>2. sleepingMask = {} /\ ~barMeta
  BY <1>1 DEF MaskOrWaker, Counted, Asleep, MetaHeld, HasMeta
<1>3. Types' /\ BarResting'
  <2>1. 0 \in 0 .. Rounds
    OBVIOUS
  <2>2. \A t \in Ids : pc'[t] = "main" /\ waking'[t] = {} /\ arrived'[t] = 0
    BY <1>1
  <2> QED
    BY <1>1, <2>1, <2>2 DEF BarResting
<1>4. MetaHeld'
  BY <1>1, <1>2 DEF MetaHeld, HasMeta
<1>5. MaskOrWaker'
  BY <1>1, <1>2 DEF MaskOrWaker, Counted, Asleep
<1>6. Arrivals(0)'
  BY <1>1, <1>2 DEF Arrivals
<1>7. InStep'
  BY <1>6 DEF InStep
<1> QED
  BY <1>3, <1>4, <1>5, <1>7

LEMMA BarInvNext == ASSUME Rounds \in Nat, BarInv, [BarNext]_barVars PROVE BarInv'
<1>1. CASE BarLaunch
  BY <1>1, InvLaunch
<1>2. ASSUME NEW t \in Ids, BarTasklet(t) PROVE BarInv'
  BY <1>2, InvTestAndSet, InvArriveLast, InvArriveEarly, InvClear, InvWakeOthers, InvSleep
     DEF BarTasklet
<1>3. CASE UNCHANGED barVars
  BY <1>3 DEF barVars, BarInv, Types, MetaHeld, HasMeta, MaskOrWaker, Counted, Asleep, InStep,
              Arrivals, BarResting
<1> QED
  BY <1>1, <1>2, <1>3 DEF BarNext

LEMMA BarInvariance == ASSUME Rounds \in Nat PROVE BarSpec => []BarInv
BY BarInvInit, BarInvNext, PTL DEF BarSpec

(* With the bit clear, nobody is between the counter and the mask. *)
LEMMA CountAgrees == ASSUME BarInv PROVE CountMatchesSleepers
<1> SUFFICES ASSUME ~barMeta PROVE CountMatchesSleepers
  BY DEF CountMatchesSleepers
<1>1. \A t \in Ids : ~HasMeta(t)
  BY DEF BarInv, MetaHeld
<1>2. \A t \in Ids : Inside(t) /\ pc[t] # "wake" <=> Counted(t)
  BY <1>1 DEF BarInv, Types, HasMeta, Inside, Counted, Asleep
<1>3. \A t \in Ids : t \in sleepingMask <=>
         Inside(t) /\ pc[t] # "wake" /\ \A w \in Ids : t \notin waking[w]
  BY <1>2 DEF BarInv, Types, MaskOrWaker
<1>4. sleepingMask \subseteq Ids /\ barCount = Cardinality(sleepingMask)
  BY DEF BarInv, Types, MaskOrWaker
<1> QED
  BY <1>3, <1>4 DEF CountMatchesSleepers

(***************************************************************************)
(* barrier.c: whenever the metadata is free, the counter is the number of  *)
(* bits in the mask, and the mask is those inside that nobody is waking.   *)
(***************************************************************************)
THEOREM CountExact == ASSUME Rounds \in Nat PROVE BarSpec => []CountMatchesSleepers
<1>1. BarInv => CountMatchesSleepers
  BY CountAgrees
<1> QED
  BY <1>1, BarInvariance, PTL

(***************************************************************************)
(* A program that synchronises with barrier_wait never stops with a        *)
(* tasklet asleep: no wake-up is lost.                                     *)
(***************************************************************************)
THEOREM NeverLost == ASSUME Rounds \in Nat PROVE BarSpec => []StopsOnlyWhenDone
<1>1. BarInv => StopsOnlyWhenDone
  BY BarDone
<1> QED
  BY <1>1, BarInvariance, PTL

-----------------------------------------------------------------------------
Meet == INSTANCE Rendezvous WITH
          Threads <- Ids, GroupOf <- [t \in Ids |-> Ids],
          entered <- arrived, left <- [t \in Ids |-> Passed(t)]

(* The safety part of the abstract barrier. *)
IsBarrier == Meet!Init /\ [][Meet!Next]_<<arrived, [t \in Ids |-> Passed(t)]>>

LEMMA Quiet ==
  ASSUME arrived' = arrived, \A u \in Ids : Passed(u)' = Passed(u)
  PROVE  UNCHANGED <<arrived, [u \in Ids |-> Passed(u)]>>
OBVIOUS

LEMMA EnterStep ==
  ASSUME Rounds \in Nat, BarInv, NEW t \in Ids, BarTestAndSet(t) PROVE Meet!Enter(t)
<1> USE DEF BarInv, Types, BarTestAndSet, Step, Runs, Goto
<1>1. Passed(t) = arrived[t] /\ Passed(t)' = arrived[t]
  BY DEF Passed, Inside
<1>2. \A u \in Ids \ {t} : Passed(u)' = Passed(u)
  BY DEF Passed, Inside
<1>3. [u \in Ids |-> Passed(u)]' = [u \in Ids |-> Passed(u)]
  BY <1>1, <1>2
<1> QED
  BY <1>1, <1>3 DEF Meet!Enter

LEMMA LeaveStep ==
  ASSUME Rounds \in Nat, BarInv, NEW t \in Ids, WakeOthers(t)
  PROVE  \/ \E S \in (SUBSET Ids) \ {{}} : Meet!Leave(S)
         \/ UNCHANGED <<arrived, [u \in Ids |-> Passed(u)]>>
<1> USE DEF BarInv, Types, Step, Runs, Goto
<1> DEFINE gone == (waking[t] \ running) \cup (IF waking[t] \cap running = {} THEN {t} ELSE {})
<1>1. /\ t \in running /\ pc[t] = "wake" /\ running' = running \cup waking[t]
      /\ pc' = [pc EXCEPT ![t] = IF waking[t] \cap running = {} THEN "main" ELSE "wake"]
      /\ sleepingMask' = sleepingMask /\ arrived' = arrived
  BY DEF WakeOthers, WakeOnce
<1>2. /\ gone \subseteq Ids
      /\ \A u \in waking[t] : u # t /\ (pc[u] = "halt" \/ Asleep(u)) /\ u \notin sleepingMask
      /\ t \notin sleepingMask
  BY <1>1 DEF MaskOrWaker, Asleep, Counted
<1>3. \A u \in gone : Inside(u) /\ ~Inside(u)'
  BY <1>1, <1>2 DEF Inside, Asleep, BarResting
<1>4. \A u \in Ids \ gone : Inside(u)' <=> Inside(u)
  BY <1>1, <1>2 DEF Inside, Asleep, BarResting
<1>5. \A u \in Ids : arrived[u] \in Nat
  OBVIOUS
<1>6. [u \in Ids |-> Passed(u)]' = [u \in Ids |-> IF u \in gone THEN Passed(u) + 1 ELSE Passed(u)]
  BY <1>1, <1>3, <1>4, <1>5 DEF Passed
<1>7. \A u \in gone : Passed(u) < arrived[u]
  BY <1>2, <1>3, <1>5 DEF Passed
<1>8. \A u \in gone : \A v \in Ids : arrived[v] >= arrived[u]
  <2>1. PICK r \in 0 .. Rounds : Arrivals(r)
    BY DEF InStep
  <2>2. \A u \in gone : u \notin sleepingMask /\ pc[u] # "count"
    BY <1>1, <1>2 DEF Asleep
  <2> QED
    BY <1>2, <2>1, <2>2 DEF Arrivals
<1>9. CASE gone # {}
  <2>1. gone \in (SUBSET Ids) \ {{}}
    BY <1>2, <1>9
  <2>2. Meet!Leave(gone)
    BY <1>1, <1>2, <1>6, <1>7, <1>8 DEF Meet!Leave
  <2> QED
    BY <2>1, <2>2
<1>10. CASE gone = {}
  <2>1. \A u \in Ids : Passed(u)' = Passed(u)
    BY <1>1, <1>4, <1>10 DEF Passed
  <2> QED
    BY <1>1, <2>1, Quiet
<1> QED
  BY <1>9, <1>10

LEMMA BarQuietStep ==
  ASSUME Rounds \in Nat, BarInv, NEW t \in Ids,
         ArriveLast(t) \/ ArriveEarly(t) \/ BarClear(t) \/ BarSleep(t) \/ BarReturn(t)
  PROVE  UNCHANGED <<arrived, [u \in Ids |-> Passed(u)]>>
<1> USE DEF BarInv, Types, Step, Runs, Goto
<1>1. arrived' = arrived
  BY DEF ArriveLast, ArriveEarly, BarClear, BarSleep, BarReturn
<1>2. CASE ArriveLast(t) \/ ArriveEarly(t) \/ BarClear(t)
  <2>1. \A u \in Ids : Inside(u)' <=> Inside(u)
    BY <1>2 DEF ArriveLast, ArriveEarly, BarClear, Inside
  <2> QED
    BY <1>1, <2>1, Quiet DEF Passed
<1>3. CASE BarSleep(t) \/ BarReturn(t)
  <2>1. \A u \in Ids : Inside(u)' <=> Inside(u)
    BY <1>3 DEF BarSleep, BarReturn, ReturnFromMain, Halt, Inside
  <2> QED
    BY <1>1, <2>1, Quiet DEF Passed
<1> QED
  BY <1>2, <1>3

LEMMA RestartStep == ASSUME Rounds \in Nat, BarInv, BarLaunch PROVE Meet!Restart
<1>1. \A t \in Ids : pc[t] = "ebreak" /\ arrived[t] = Rounds
  BY BarDone DEF BarLaunch, Relaunch, StopsOnlyWhenDone, BarInv, BarResting
<1>2. \A t \in Ids : Passed(t) = Rounds
  BY <1>1 DEF Passed, Inside
<1>3. arrived' = [t \in Ids |-> 0] /\ running' = Ids /\ pc' = [t \in Ids |-> "main"]
  BY DEF BarLaunch, Relaunch
<1>4. \A t \in Ids : Passed(t)' = 0
  BY <1>3 DEF Passed, Inside
<1> QED
  BY <1>2, <1>3, <1>4 DEF Meet!Restart

(***************************************************************************)
(* barrier_wait implements the barrier of Rendezvous: nobody leaves a      *)
(* round that somebody has still to reach, and every step of the code is   *)
(* an arrival, a departure, a new launch or invisible.                     *)
(***************************************************************************)
THEOREM Implements == ASSUME Rounds \in Nat PROVE BarSpec => IsBarrier
<1>1. BarInit => Meet!Init
  <2> SUFFICES ASSUME BarInit PROVE Meet!Init
    OBVIOUS
  <2>1. \A t \in Ids : Passed(t) = 0
    BY DEF BarInit, LaunchTasklets, Passed, Inside
  <2> QED
    BY <2>1 DEF BarInit, Meet!Init
<1>2. BarInv /\ [BarNext]_barVars => [Meet!Next]_<<arrived, [t \in Ids |-> Passed(t)]>>
  <2> SUFFICES ASSUME BarInv, [BarNext]_barVars
               PROVE  Meet!Next \/ UNCHANGED <<arrived, [t \in Ids |-> Passed(t)]>>
    OBVIOUS
  <2>1. CASE BarLaunch
    BY <2>1, RestartStep DEF Meet!Next
  <2>2. ASSUME NEW t \in Ids, BarTasklet(t)
        PROVE  Meet!Next \/ UNCHANGED <<arrived, [u \in Ids |-> Passed(u)]>>
    <3>1. CASE BarTestAndSet(t)
      BY <3>1, EnterStep DEF Meet!Next
    <3>2. CASE WakeOthers(t)
      BY <3>2, LeaveStep DEF Meet!Next
    <3> QED
      BY <2>2, <3>1, <3>2, BarQuietStep DEF BarTasklet
  <2>3. CASE UNCHANGED barVars
    BY <2>3, Quiet DEF barVars, Passed, Inside
  <2> QED
    BY <2>1, <2>2, <2>3 DEF BarNext
<1> QED
  BY <1>1, <1>2, BarInvariance, PTL DEF BarSpec, IsBarrier

-----------------------------------------------------------------------------
(* The semaphore *)

Giver(t) == pc[t] \in {"give_clear", "give_wake"}

(* t has joined the waiters and has not been woken. *)
Waits(t) == IF t \in running THEN pc[t] \in {"wait_clear", "wait_halt"}
            ELSE pc[t] = "wait_done"

(* Only the woken sleeper and the one that has returned do not run. *)
SemResting ==
  /\ \A t \in Ids \ running : pc[t] \in {"wait_done", "ebreak"}
  /\ \A t \in Ids : pc[t] = "ebreak" => t \notin running

(* The mask and the givers account for every waiter, each for its own. *)
Waiters ==
  /\ \A u \in waitingMask : Waits(u)
  /\ \A w \in Ids : Giver(w) =>
       \E u \in Ids \ waitingMask : waking[w] = {u} /\ Waits(u)
  /\ \A w, x \in Ids : Giver(w) /\ Giver(x) /\ waking[w] = waking[x] => w = x
  /\ \A u \in Ids : Waits(u) =>
       u \in waitingMask \/ \E w \in Ids : Giver(w) /\ waking[w] = {u}

(* Who holds a unit is outside of the semaphore or gives it back. *)
Holding ==
  /\ \A t \in holders : pc[t] \in {"main", "clear", "give", "give_check"}
  /\ \A t \in Ids : pc[t] \in {"give", "give_check"} => t \in holders

SemInv == /\ SemTypeOK /\ SemResting /\ Waiters /\ Holding
        /\ UnitsConserved /\ NobodyWaitsInVain

-----------------------------------------------------------------------------
LEMMA IdsFinite == IsFiniteSet(Ids)
BY FS_Interval, NrTaskletsAssumption DEF Ids

LEMMA SubsetsFinite ==
  ASSUME SemTypeOK PROVE IsFiniteSet(holders) /\ IsFiniteSet(HandedOver)
<1>1. holders \subseteq Ids /\ HandedOver \subseteq Ids
  BY DEF SemTypeOK, HandedOver
<1> QED
  BY <1>1, IdsFinite, FS_Subset

LEMMA SemTypeNext == ASSUME SemTypeOK, [SemNext]_semVars PROVE SemTypeOK'
<1> USE MaxCountAssumption, ClientAssumption DEF SemTypeOK, Step, Runs, Goto, semFields
<1>1. CASE SemLaunch
  BY <1>1 DEF SemLaunch, Relaunch
<1>2. ASSUME NEW t \in Ids, SemTasklet(t) PROVE SemTypeOK'
  <2>1. CASE WaitTestAndSet(t) \/ TryTestAndSet(t) \/ GiveTestAndSet(t)
    BY <2>1 DEF WaitTestAndSet, TryTestAndSet, GiveTestAndSet, SemTestAndSet
  <2>2. CASE WaitTake(t) \/ TryTake(t)
    BY <2>2 DEF WaitTake, TryTake, Take
  <2>3. CASE WaitJoin(t) \/ TryFail(t)
    BY <2>3 DEF WaitJoin, TryFail
  <2>4. CASE WaitHalt(t) \/ WaitDone(t)
    BY <2>4 DEF WaitHalt, WaitDone, Halt
  <2>5. CASE GiveHandOver(t)
    BY <2>5 DEF GiveHandOver, LowestWaiting
  <2>6. CASE GiveBack(t)
    BY <2>6 DEF GiveBack
  <2>7. CASE GiveWake(t)
    BY <2>7 DEF GiveWake, WakeOnce
  <2>8. CASE SemClear(t)
    BY <2>8 DEF SemClear
  <2>9. CASE Ask(t)
    BY <2>9 DEF Ask
  <2>10. CASE Give(t)
    BY <2>10 DEF Give
  <2>11. CASE SemReturn(t)
    BY <2>11 DEF SemReturn, ReturnFromMain, Halt
  <2> QED
    BY <1>2, <2>1, <2>2, <2>3, <2>4, <2>5, <2>6, <2>7, <2>8, <2>9, <2>10, <2>11 DEF SemTasklet
<1>3. CASE UNCHANGED semVars
  BY <1>3 DEF semVars
<1> QED
  BY <1>1, <1>2, <1>3 DEF SemNext

(***************************************************************************)
(* When nobody runs, everybody has returned: a sleeper would be in the     *)
(* mask, so no unit would be in the counter, and none is anywhere else.    *)
(***************************************************************************)
LEMMA SemDone == ASSUME SemInv PROVE StopsOnlyWhenDone
<1> SUFFICES ASSUME Stopped, NEW t \in Ids, pc[t] # "ebreak" PROVE FALSE
  BY DEF StopsOnlyWhenDone
<1> USE DEF SemInv
<1>1. \A u \in Ids : u \notin running /\ pc[u] \in {"wait_done", "ebreak"}
  BY DEF SemResting, Stopped
<1>2. \A u \in Ids : ~Giver(u)
  BY <1>1 DEF Giver
<1>3. t \in waitingMask
  BY <1>1, <1>2 DEF Waiters, Waits
<1>4. holders = {} /\ HandedOver = {}
  BY <1>1 DEF Holding, HandedOver, Stopped, SemTypeOK
<1>5. currentCount = 0
  BY <1>3 DEF NobodyWaitsInVain
<1> QED
  BY <1>4, <1>5, FS_EmptySet, MaxCountAssumption DEF UnitsConserved

LEMMA SemRestingNext == ASSUME SemInv, [SemNext]_semVars PROVE SemResting'
<1> USE DEF SemInv, SemTypeOK, SemResting, Step, Runs, Goto
<1>1. CASE SemLaunch
  BY <1>1 DEF SemLaunch, Relaunch
<1>2. ASSUME NEW t \in Ids, SemTasklet(t) PROVE SemResting'
  <2>1. CASE WaitTestAndSet(t) \/ TryTestAndSet(t) \/ GiveTestAndSet(t)
    BY <2>1 DEF WaitTestAndSet, TryTestAndSet, GiveTestAndSet, SemTestAndSet
  <2>2. CASE WaitTake(t) \/ TryTake(t)
    BY <2>2 DEF WaitTake, TryTake, Take
  <2>3. CASE WaitJoin(t) \/ TryFail(t)
    BY <2>3 DEF WaitJoin, TryFail
  <2>4. CASE WaitHalt(t) \/ WaitDone(t)
    BY <2>4 DEF WaitHalt, WaitDone, Halt
  <2>5. CASE GiveHandOver(t)
    BY <2>5 DEF GiveHandOver
  <2>6. CASE GiveBack(t)
    BY <2>6 DEF GiveBack
  <2>7. CASE GiveWake(t)
    <3>1. PICK u \in Ids : waking[t] = {u} /\ Waits(u)
      BY <2>7 DEF GiveWake, WakeOnce, Waiters, Giver
    <3> QED
      BY <2>7, <3>1 DEF GiveWake, WakeOnce, Waits
  <2>8. CASE SemClear(t)
    BY <2>8 DEF SemClear
  <2>9. CASE Ask(t)
    BY <2>9 DEF Ask
  <2>10. CASE Give(t)
    BY <2>10 DEF Give
  <2>11. CASE SemReturn(t)
    BY <2>11 DEF SemReturn, ReturnFromMain, Halt
  <2> QED
    BY <1>2, <2>1, <2>2, <2>3, <2>4, <2>5, <2>6, <2>7, <2>8, <2>9, <2>10, <2>11 DEF SemTasklet
<1>3. CASE UNCHANGED semVars
  BY <1>3 DEF semVars
<1> QED
  BY <1>1, <1>2, <1>3 DEF SemNext

LEMMA HoldingNext == ASSUME SemInv, [SemNext]_semVars PROVE Holding'
<1> USE DEF SemInv, SemTypeOK, Holding, Step, Runs, Goto, semFields
<1>1. CASE SemLaunch
  BY <1>1 DEF SemLaunch, Relaunch
<1>2. ASSUME NEW t \in Ids, SemTasklet(t) PROVE Holding'
  <2>1. CASE WaitTestAndSet(t) \/ TryTestAndSet(t) \/ GiveTestAndSet(t)
    BY <2>1 DEF WaitTestAndSet, TryTestAndSet, GiveTestAndSet, SemTestAndSet
  <2>2. CASE WaitTake(t) \/ TryTake(t)
    BY <2>2 DEF WaitTake, TryTake, Take
  <2>3. CASE WaitJoin(t)
    BY <2>3 DEF WaitJoin
  <2>4. CASE TryFail(t)
    BY <2>4 DEF TryFail
  <2>5. CASE WaitHalt(t)
    BY <2>5 DEF WaitHalt, Halt
  <2>6. CASE WaitDone(t)
    BY <2>6 DEF WaitDone
  <2>7. CASE GiveHandOver(t)
    BY <2>7 DEF GiveHandOver, LowestWaiting
  <2>8. CASE GiveBack(t)
    BY <2>8 DEF GiveBack
  <2>9. CASE GiveWake(t)
    BY <2>9 DEF GiveWake, WakeOnce
  <2>10. CASE SemClear(t)
    BY <2>10 DEF SemClear
  <2>11. CASE Ask(t)
    BY <2>11 DEF Ask
  <2>12. CASE Give(t)
    BY <2>12 DEF Give
  <2>13. CASE SemReturn(t)
    BY <2>13 DEF SemReturn, ReturnFromMain, Halt
  <2> QED
    BY <1>2, <2>1, <2>2, <2>3, <2>4, <2>5, <2>6, <2>7,
       <2>8, <2>9, <2>10, <2>11, <2>12, <2>13 DEF SemTasklet
<1>3. CASE UNCHANGED semVars
  BY <1>3 DEF semVars
<1> QED
  BY <1>1, <1>2, <1>3 DEF SemNext

LEMMA NoVainNext == ASSUME SemInv, [SemNext]_semVars PROVE NobodyWaitsInVain'
<1> USE DEF SemInv, SemTypeOK, NobodyWaitsInVain, Step, Runs, Goto, semFields
<1>1. CASE SemLaunch
  BY <1>1 DEF SemLaunch, Relaunch
<1>2. ASSUME NEW t \in Ids, SemTasklet(t) PROVE NobodyWaitsInVain'
  <2>1. CASE WaitTestAndSet(t) \/ TryTestAndSet(t) \/ GiveTestAndSet(t)
    BY <2>1 DEF WaitTestAndSet, TryTestAndSet, GiveTestAndSet, SemTestAndSet
  <2>2. CASE WaitTake(t) \/ TryTake(t)
    BY <2>2 DEF WaitTake, TryTake, Take
  <2>3. CASE WaitJoin(t)
    BY <2>3 DEF WaitJoin
  <2>4. CASE TryFail(t)
    BY <2>4 DEF TryFail
  <2>5. CASE WaitHalt(t)
    BY <2>5 DEF WaitHalt, Halt
  <2>6. CASE WaitDone(t)
    BY <2>6 DEF WaitDone
  <2>7. CASE GiveHandOver(t)
    BY <2>7 DEF GiveHandOver, LowestWaiting
  <2>8. CASE GiveBack(t)
    BY <2>8 DEF GiveBack
  <2>9. CASE GiveWake(t)
    BY <2>9 DEF GiveWake, WakeOnce
  <2>10. CASE SemClear(t)
    BY <2>10 DEF SemClear
  <2>11. CASE Ask(t)
    BY <2>11 DEF Ask
  <2>12. CASE Give(t)
    BY <2>12 DEF Give
  <2>13. CASE SemReturn(t)
    BY <2>13 DEF SemReturn, ReturnFromMain, Halt
  <2> QED
    BY <1>2, <2>1, <2>2, <2>3, <2>4, <2>5, <2>6, <2>7,
       <2>8, <2>9, <2>10, <2>11, <2>12, <2>13 DEF SemTasklet
<1>3. CASE UNCHANGED semVars
  BY <1>3 DEF semVars
<1> QED
  BY <1>1, <1>2, <1>3 DEF SemNext

(* A step that leaves the mask, the waiters and the wake masks of the      *)
(* givers alone.                                                           *)
LEMMA WaitersSame ==
  ASSUME Waiters, waitingMask' = waitingMask,
         \A u \in Ids : Waits(u)' <=> Waits(u),
         \A u \in Ids : Giver(u)' <=> Giver(u),
         \A w \in Ids : Giver(w) => waking'[w] = waking[w],
         waitingMask \subseteq Ids
  PROVE  Waiters'
<1>1. \A u \in waitingMask : Waits(u)'
  BY DEF Waiters
<1>2. \A w \in Ids : Giver(w)' =>
        \E u \in Ids \ waitingMask : waking'[w] = {u} /\ Waits(u)'
  BY DEF Waiters
<1>3. \A w, x \in Ids : Giver(w)' /\ Giver(x)' /\ waking'[w] = waking'[x] => w = x
  BY DEF Waiters
<1>4. \A u \in Ids : Waits(u)' =>
        u \in waitingMask \/ \E w \in Ids : Giver(w)' /\ waking'[w] = {u}
  BY DEF Waiters
<1> QED
  BY <1>1, <1>2, <1>3, <1>4 DEF Waiters

LEMMA WaitersNext == ASSUME SemInv, [SemNext]_semVars PROVE Waiters'
<1> USE DEF SemInv, SemTypeOK, Step, Runs, Goto, semFields
<1>1. CASE SemLaunch
  <2>1. \A u \in Ids : pc[u] = "ebreak" /\ u \notin running
    BY <1>1, SemDone DEF SemLaunch, Relaunch, StopsOnlyWhenDone, Stopped
  <2>2. waitingMask = {}
    BY <2>1 DEF Waiters, Waits
  <2>3. \A u \in Ids : ~Waits(u)' /\ ~Giver(u)'
    BY <1>1 DEF SemLaunch, Relaunch, Waits, Giver
  <2>4. waitingMask' = {}
    BY <1>1, <2>2 DEF SemLaunch
  <2> QED
    BY <2>3, <2>4 DEF Waiters
<1>2. ASSUME NEW t \in Ids, SemTasklet(t) PROVE Waiters'
  <2> DEFINE Elsewhere == {"main", "wait", "wait_check", "wait_done", "try", "try_check",
                           "clear", "give", "give_check", "ebreak"}
  <2>1. CASE \/ WaitTestAndSet(t) \/ TryTestAndSet(t) \/ GiveTestAndSet(t)
             \/ WaitTake(t) \/ TryTake(t) \/ TryFail(t) \/ WaitDone(t)
             \/ GiveBack(t) \/ Ask(t) \/ Give(t)
    <3>1. /\ pc[t] \in Elsewhere /\ pc'[t] \in Elsewhere /\ t \in running
          /\ \A u \in Ids \ {t} : pc'[u] = pc[u]
          /\ waitingMask' = waitingMask /\ running' = running /\ waking' = waking
      BY <2>1 DEF WaitTestAndSet, TryTestAndSet, GiveTestAndSet, SemTestAndSet, WaitTake,
                  TryTake, TryFail, WaitDone, GiveBack, Ask, Give
    <3>2. \A u \in Ids : (Waits(u)' <=> Waits(u)) /\ (Giver(u)' <=> Giver(u))
      BY <3>1 DEF Waits, Giver
    <3> QED
      BY <3>1, <3>2, WaitersSame
  <2>2. CASE SemReturn(t)
    <3>1. \A u \in Ids : (Waits(u)' <=> Waits(u)) /\ (Giver(u)' <=> Giver(u))
      BY <2>2 DEF SemReturn, ReturnFromMain, Halt, Waits, Giver
    <3> QED
      BY <2>2, <3>1, WaitersSame DEF SemReturn, ReturnFromMain
  <2>3. CASE WaitHalt(t)
    <3>1. \A u \in Ids : (Waits(u)' <=> Waits(u)) /\ (Giver(u)' <=> Giver(u))
      BY <2>3 DEF WaitHalt, Halt, Waits, Giver
    <3> QED
      BY <2>3, <3>1, WaitersSame DEF WaitHalt
  <2>4. CASE SemClear(t)
    <3>1. \A u \in Ids : (Waits(u)' <=> Waits(u)) /\ (Giver(u)' <=> Giver(u))
      BY <2>4 DEF SemClear, Waits, Giver
    <3> QED
      BY <2>4, <3>1, WaitersSame DEF SemClear
  <2>5. CASE WaitJoin(t)
    <3>1. /\ \A u \in Ids : Waits(u)' <=> Waits(u) \/ u = t
          /\ \A u \in Ids : Giver(u)' <=> Giver(u)
          /\ ~Waits(t)
      BY <2>5 DEF WaitJoin, Waits, Giver
    <3>2. waking' = waking /\ waitingMask' = waitingMask \cup {t}
      BY <2>5 DEF WaitJoin
    <3>3. \A v \in waitingMask' : Waits(v)'
      BY <3>1, <3>2 DEF Waiters
    <3>4. ASSUME NEW w \in Ids, Giver(w)'
          PROVE  \E v \in Ids \ waitingMask' : waking'[w] = {v} /\ Waits(v)'
      <4>1. PICK v \in Ids \ waitingMask : waking[w] = {v} /\ Waits(v)
        BY <3>1, <3>4 DEF Waiters
      <4>2. v \in Ids \ waitingMask'
        BY <3>1, <3>2, <4>1
      <4> QED
        BY <3>1, <3>2, <4>1, <4>2
    <3>5. \A w, x \in Ids : Giver(w)' /\ Giver(x)' /\ waking'[w] = waking'[x] => w = x
      BY <3>1, <3>2 DEF Waiters
    <3>6. \A v \in Ids : Waits(v)' =>
            v \in waitingMask' \/ \E w \in Ids : Giver(w)' /\ waking'[w] = {v}
      BY <3>1, <3>2 DEF Waiters
    <3> QED
      BY <3>3, <3>4, <3>5, <3>6 DEF Waiters
  <2>6. CASE GiveHandOver(t)
    <3>1. PICK u \in waitingMask : /\ waitingMask' = waitingMask \ {u}
                                  /\ waking' = [waking EXCEPT ![t] = {u}]
      BY <2>6 DEF GiveHandOver, LowestWaiting
    <3>2. /\ \A v \in Ids : Waits(v)' <=> Waits(v)
          /\ \A v \in Ids : Giver(v)' <=> Giver(v) \/ v = t
          /\ ~Giver(t)
      BY <2>6 DEF GiveHandOver, Waits, Giver
    <3>3. waking'[t] = {u} /\ \A w \in Ids \ {t} : waking'[w] = waking[w]
      BY <3>1
    <3>4. \A v \in waitingMask' : Waits(v)'
      BY <3>1, <3>2 DEF Waiters
    <3>5. \A w \in Ids : Giver(w)' =>
            \E v \in Ids \ waitingMask' : waking'[w] = {v} /\ Waits(v)'
      BY <3>1, <3>2, <3>3 DEF Waiters
    <3>6. ASSUME NEW w \in Ids, Giver(w) PROVE waking[w] # {u}
      <4>1. PICK v \in Ids \ waitingMask : waking[w] = {v}
        BY <3>6 DEF Waiters
      <4> QED
        BY <4>1
    <3>7. \A w, x \in Ids : Giver(w)' /\ Giver(x)' /\ waking'[w] = waking'[x] => w = x
      BY <3>2, <3>3, <3>6 DEF Waiters
    <3>8. ASSUME NEW v \in Ids, Waits(v)', v \notin waitingMask'
          PROVE  \E w \in Ids : Giver(w)' /\ waking'[w] = {v}
      <4>1. CASE v = u
        BY <3>2, <3>3, <4>1
      <4>2. CASE v # u
        <5>1. PICK w \in Ids : Giver(w) /\ waking[w] = {v}
          BY <3>1, <3>2, <3>8, <4>2 DEF Waiters
        <5>2. Giver(w)' /\ waking'[w] = {v}
          BY <3>2, <3>3, <5>1
        <5> QED
          BY <5>2
      <4> QED
        BY <4>1, <4>2
    <3> QED
      BY <3>4, <3>5, <3>7, <3>8 DEF Waiters
  <2>7. CASE GiveWake(t)
    <3>1. PICK u \in Ids \ waitingMask : waking[t] = {u} /\ Waits(u)
      BY <2>7 DEF GiveWake, WakeOnce, Waiters, Giver
    <3>2. CASE u \in running
      <4>1. running' = running /\ waking' = waking /\ pc' = pc /\ waitingMask' = waitingMask
        BY <2>7, <3>1, <3>2 DEF GiveWake, WakeOnce
      <4>2. \A v \in Ids : (Waits(v)' <=> Waits(v)) /\ (Giver(v)' <=> Giver(v))
        BY <4>1 DEF Waits, Giver
      <4> QED
        BY <4>1, <4>2, WaitersSame
    <3>3. CASE u \notin running
      <4>1. /\ running' = running \cup {u} /\ pc' = [pc EXCEPT ![t] = "main"]
            /\ waking' = [waking EXCEPT ![t] = {}] /\ waitingMask' = waitingMask
            /\ t \in running /\ pc[t] = "give_wake"
        BY <2>7, <3>1, <3>3 DEF GiveWake, WakeOnce
      <4>2. /\ \A v \in Ids : Waits(v)' <=> Waits(v) /\ v # u
            /\ \A v \in Ids : Giver(v)' <=> Giver(v) /\ v # t
            /\ Giver(t)
        BY <3>1, <3>3, <4>1 DEF Waits, Giver
      <4>3. \A w \in Ids : Giver(w) /\ w # t => waking[w] # {u} /\ waking'[w] = waking[w]
        BY <3>1, <4>1, <4>2 DEF Waiters
      <4>4. \A v \in waitingMask' : Waits(v)'
        BY <3>1, <4>1, <4>2 DEF Waiters
      <4>5. \A w \in Ids : Giver(w)' =>
              \E v \in Ids \ waitingMask' : waking'[w] = {v} /\ Waits(v)'
        BY <4>1, <4>2, <4>3 DEF Waiters
      <4>6. \A w, x \in Ids : Giver(w)' /\ Giver(x)' /\ waking'[w] = waking'[x] => w = x
        BY <4>2, <4>3 DEF Waiters
      <4>7. ASSUME NEW v \in Ids, Waits(v)', v \notin waitingMask'
            PROVE  \E w \in Ids : Giver(w)' /\ waking'[w] = {v}
        <5>1. PICK w \in Ids : Giver(w) /\ waking[w] = {v}
          BY <4>1, <4>2, <4>7 DEF Waiters
        <5>2. v # u
          BY <4>2, <4>7
        <5>3. w # t
          BY <3>1, <5>1, <5>2
        <5> QED
          BY <4>2, <4>3, <5>1, <5>3
      <4> QED
        BY <4>4, <4>5, <4>6, <4>7 DEF Waiters
    <3> QED
      BY <3>2, <3>3
  <2> QED
    BY <1>2, <2>1, <2>2, <2>3, <2>4, <2>5, <2>6, <2>7 DEF SemTasklet
<1>3. CASE UNCHANGED semVars
  <2>1. \A u \in Ids : (Waits(u)' <=> Waits(u)) /\ (Giver(u)' <=> Giver(u))
    BY <1>3 DEF semVars, Waits, Giver
  <2> QED
    BY <1>3, <2>1, WaitersSame DEF semVars
<1> QED
  BY <1>1, <1>2, <1>3 DEF SemNext

-----------------------------------------------------------------------------
(* Units *)

LEMMA CountStep ==
  ASSUME NEW S, IsFiniteSet(S), NEW x
  PROVE  /\ Cardinality(S) \in Nat
         /\ x \in S => Cardinality(S \ {x}) = Cardinality(S) - 1
         /\ x \notin S => Cardinality(S \cup {x}) = Cardinality(S) + 1
BY FS_AddElement, FS_RemoveElement, FS_CardinalityType

LEMMA UnitsNext == ASSUME SemInv, [SemNext]_semVars PROVE UnitsConserved'
<1> USE DEF SemInv, SemTypeOK, Step, Runs, Goto, semFields
<1>1. IsFiniteSet(holders) /\ IsFiniteSet(HandedOver)
  BY SubsetsFinite
<1>2. /\ \A x : x \in holders => Cardinality(holders \ {x}) = Cardinality(holders) - 1
      /\ \A x : x \notin holders => Cardinality(holders \cup {x}) = Cardinality(holders) + 1
      /\ \A x : x \in HandedOver => Cardinality(HandedOver \ {x}) = Cardinality(HandedOver) - 1
      /\ \A x : x \notin HandedOver => Cardinality(HandedOver \cup {x}) = Cardinality(HandedOver) + 1
      /\ Cardinality(holders) \in Nat /\ Cardinality(HandedOver) \in Nat
  BY <1>1, CountStep
<1>3. currentCount \in Nat /\ MaxCount \in Nat
  BY MaxCountAssumption
<1>4. CASE SemLaunch
  <2>1. holders = {} /\ HandedOver = {}
    <3>1. \A u \in Ids : pc[u] = "ebreak"
      BY <1>4, SemDone DEF SemLaunch, Relaunch, StopsOnlyWhenDone
    <3> QED
      BY <1>4, <3>1 DEF Holding, HandedOver, SemLaunch, Relaunch, Stopped
  <2>2. holders' = {} /\ HandedOver' = {} /\ currentCount' = currentCount
    BY <1>4 DEF SemLaunch, Relaunch, HandedOver
  <2> QED
    BY <2>1, <2>2 DEF UnitsConserved
<1>5. ASSUME NEW t \in Ids, SemTasklet(t) PROVE UnitsConserved'
  <2>1. CASE \/ WaitTestAndSet(t) \/ TryTestAndSet(t) \/ GiveTestAndSet(t)
             \/ WaitJoin(t) \/ TryFail(t) \/ Ask(t) \/ Give(t)
    <3>1. holders' = holders /\ currentCount' = currentCount /\ running' = running
      BY <2>1 DEF WaitTestAndSet, TryTestAndSet, GiveTestAndSet, SemTestAndSet, WaitJoin,
                  TryFail, Ask, Give
    <3>2. HandedOver' = HandedOver
      BY <2>1 DEF WaitTestAndSet, TryTestAndSet, GiveTestAndSet, SemTestAndSet, WaitJoin,
                  TryFail, Ask, Give, HandedOver
    <3> QED
      BY <3>1, <3>2 DEF UnitsConserved
  <2>2. CASE WaitTake(t) \/ TryTake(t)
    <3>1. HandedOver' = HandedOver
      BY <2>2 DEF WaitTake, TryTake, Take, HandedOver
    <3>2. t \notin holders
      BY <2>2 DEF WaitTake, TryTake, Holding
    <3>3. holders' = holders \cup {t} /\ currentCount' = currentCount - 1
      BY <2>2 DEF WaitTake, TryTake, Take
    <3> QED
      BY <1>2, <1>3, <3>1, <3>2, <3>3 DEF UnitsConserved
  <2>3. CASE WaitHalt(t) \/ SemReturn(t) \/ SemClear(t)
    <3>1. holders' = holders /\ currentCount' = currentCount
      BY <2>3 DEF WaitHalt, SemReturn, SemClear
    <3>2. HandedOver' = HandedOver
      BY <2>3 DEF WaitHalt, SemReturn, SemClear, Halt, ReturnFromMain, HandedOver
    <3> QED
      BY <3>1, <3>2 DEF UnitsConserved
  <2>4. CASE WaitDone(t)
    <3>1. t \notin holders /\ t \in HandedOver
      BY <2>4 DEF WaitDone, Holding, HandedOver
    <3>2. HandedOver' = HandedOver \ {t}
      BY <2>4 DEF WaitDone, HandedOver
    <3>3. holders' = holders \cup {t} /\ currentCount' = currentCount
      BY <2>4 DEF WaitDone
    <3> QED
      BY <1>2, <1>3, <3>1, <3>2, <3>3 DEF UnitsConserved
  <2>5. CASE GiveHandOver(t)
    <3>1. t \in holders /\ t \notin HandedOver
      BY <2>5 DEF GiveHandOver, Holding, HandedOver
    <3>2. HandedOver' = HandedOver \cup {t}
      BY <2>5 DEF GiveHandOver, HandedOver
    <3>3. holders' = holders \ {t} /\ currentCount' = currentCount
      BY <2>5 DEF GiveHandOver
    <3> QED
      BY <1>2, <1>3, <3>1, <3>2, <3>3 DEF UnitsConserved
  <2>6. CASE GiveBack(t)
    <3>1. t \in holders
      BY <2>6 DEF GiveBack, Holding
    <3>2. HandedOver' = HandedOver
      BY <2>6 DEF GiveBack, HandedOver
    <3>3. Cardinality(holders \ {t}) \in Nat
      BY <1>1, FS_RemoveElement, FS_CardinalityType
    <3>4. currentCount < MaxCount
      BY <1>2, <1>3, <3>1, <3>3 DEF UnitsConserved
    <3>5. holders' = holders \ {t} /\ currentCount' = currentCount + 1
      BY <2>6, <3>4 DEF GiveBack
    <3> QED
      BY <1>2, <1>3, <3>1, <3>2, <3>5 DEF UnitsConserved
  <2>7. CASE GiveWake(t)
    <3>1. PICK u \in Ids : waking[t] = {u} /\ Waits(u)
      BY <2>7 DEF GiveWake, WakeOnce, Waiters, Giver
    <3>2. holders' = holders /\ currentCount' = currentCount
      BY <2>7 DEF GiveWake
    <3>3. CASE u \in running
      <4>1. HandedOver' = HandedOver
        BY <2>7, <3>1, <3>3 DEF GiveWake, WakeOnce, HandedOver
      <4> QED
        BY <3>2, <4>1 DEF UnitsConserved
    <3>4. CASE u \notin running
      <4>1. t \in HandedOver /\ u \notin HandedOver /\ u # t
        BY <2>7, <3>1, <3>4 DEF GiveWake, WakeOnce, HandedOver, Waits
      <4>2. HandedOver' = (HandedOver \ {t}) \cup {u}
        BY <2>7, <3>1, <3>4 DEF GiveWake, WakeOnce, HandedOver, Waits
      <4>3. IsFiniteSet(HandedOver \ {t}) /\ u \notin HandedOver \ {t}
        BY <1>1, <4>1, FS_RemoveElement
      <4>4. Cardinality(HandedOver') = Cardinality(HandedOver \ {t}) + 1
        BY <4>2, <4>3, CountStep
      <4> QED
        BY <1>2, <1>3, <3>2, <4>1, <4>4 DEF UnitsConserved
    <3> QED
      BY <3>3, <3>4
  <2> QED
    BY <1>5, <2>1, <2>2, <2>3, <2>4, <2>5, <2>6, <2>7 DEF SemTasklet
<1>6. CASE UNCHANGED semVars
  BY <1>6 DEF semVars, UnitsConserved, HandedOver
<1> QED
  BY <1>4, <1>5, <1>6 DEF SemNext

-----------------------------------------------------------------------------
LEMMA SemInvInit == SemInit => SemInv
<1> SUFFICES ASSUME SemInit PROVE SemInv
  OBVIOUS
<1> USE DEF SemInit, LaunchTasklets
<1>1. SemTypeOK
  <2>1. MaxCount \in 0 .. MaxCount /\ MaxCalls \in 0 .. MaxCalls
    BY MaxCountAssumption, ClientAssumption
  <2>2. /\ running \in SUBSET Ids /\ waking \in [Ids -> SUBSET Ids] /\ meta \in BOOLEAN
        /\ waitingMask \in SUBSET Ids /\ holders \in SUBSET Ids
    OBVIOUS
  <2>3. \A t \in Ids : pc[t] = "main"
    OBVIOUS
  <2> QED
    BY <2>1, <2>2, <2>3 DEF SemTypeOK
<1>2. SemResting /\ Waiters /\ Holding
  BY DEF SemResting, Waiters, Holding, Giver, Waits
<1>3. holders = {} /\ HandedOver = {}
  BY DEF HandedOver
<1>4. UnitsConserved
  BY <1>3, FS_EmptySet, MaxCountAssumption DEF UnitsConserved
<1> QED
  BY <1>1, <1>2, <1>4 DEF SemInv, NobodyWaitsInVain

LEMMA SemInvNext == SemInv /\ [SemNext]_semVars => SemInv'
BY SemTypeNext, SemRestingNext, WaitersNext, HoldingNext, NoVainNext, UnitsNext DEF SemInv

LEMMA SemInvariance == SemSpec => []SemInv
BY SemInvInit, SemInvNext, PTL DEF SemSpec

(* sem_wait, sem_trywait and sem_give keep every unit: counter, clients    *)
(* and hand-overs always add up to the initial value, whatever the         *)
(* interleaving and however many tasklets and launches.                    *)
THEOREM Conserved == SemSpec => []UnitsConserved
<1>1. SemInv => UnitsConserved
  BY DEF SemInv
<1> QED
  BY <1>1, SemInvariance, PTL

(* No tasklet is in the waiting mask while sem_give has left a unit in the *)
(* counter.                                                                *)
THEOREM NoVainWait == SemSpec => []NobodyWaitsInVain
<1>1. SemInv => NobodyWaitsInVain
  BY DEF SemInv
<1> QED
  BY <1>1, SemInvariance, PTL

(* The run ends only when all tasklets have returned: no wake-up of        *)
(* sem_give is lost between a waiter's entry in the mask and its halt.     *)
THEOREM WakeUpsArrive == SemSpec => []StopsOnlyWhenDone
<1>1. SemInv => StopsOnlyWhenDone
  BY SemDone
<1> QED
  BY <1>1, SemInvariance, PTL

(* sem_give never wakes a tasklet that has returned from main.             *)
THEOREM SemNobodyTrapped == SemSpec => []NobodyTraps
<1>1. SemInv => NobodyTraps
  BY DEF SemInv, SemResting, NobodyTraps
<1> QED
  BY <1>1, SemInvariance, PTL

-----------------------------------------------------------------------------
(* handshake_notify and handshake_wait_for *)

AtSlot(t) == pc[t] \in {"look", "first_clear", "second_clear", "refuse_clear"}

Labels == {"main", "lock", "look", "first_clear", "second_clear", "refuse_clear",
           "halt", "wake", "ebreak"}

(* In a call, or asleep in one: Op and Slot are those of that call.        *)
InCall(t) == pc[t] \notin {"main", "ebreak"} \/ Suspended(t)

HandTypes ==
  /\ program \in Programs
  /\ running \subseteq Ids
  /\ pc \in [Ids -> Labels]
  /\ waking \in [Ids -> SUBSET Ids]
  /\ slots \in [Ids -> Int]
  /\ csr7 \subseteq Ids
  /\ call \in [Ids -> Nat]
  /\ \A t \in Ids : call[t] <= Len(program[t])
  /\ \A t \in Ids : InCall(t) => call[t] > 0

(* Only the sleeper and the one that has returned do not run.              *)
HandResting ==
  /\ \A t \in Ids \ running : pc[t] \in {"main", "ebreak"}
  /\ \A t \in Ids : pc[t] = "ebreak" => t \notin running

(* A slot that is not empty holds the mark of a sleeper nobody wakes yet.  *)
Marked ==
  \A i \in Ids : slots[i] # 0 =>
    \E t \in Ids : /\ Suspended(t) /\ Slot(t) = i /\ slots[i] = Mark(t)
                   /\ \A w \in Ids : t \notin waking[w]

(* Who comes second wakes one sleeper, and no two wake the same.           *)
Woken ==
  /\ \A w \in Ids : IF pc[w] \in {"second_clear", "wake"}
                    THEN \E u \in Ids : waking[w] = {u} /\ Suspended(u)
                    ELSE waking[w] = {}
  /\ \A w, v \in Ids : waking[w] \cap waking[v] # {} => w = v

(* A sleeper is in its slot until somebody wakes it.                       *)
Accounted ==
  \A t \in Ids : Suspended(t) =>
    slots[Slot(t)] = Mark(t) \/ \E w \in Ids : t \in waking[w]

(* Bit i of CSR 7 is set while one tasklet is between its lock and its     *)
(* release.                                                                *)
SlotHeld ==
  /\ \A t \in Ids : AtSlot(t) => Slot(t) \in csr7
  /\ \A t, u \in Ids : AtSlot(t) /\ AtSlot(u) /\ Slot(t) = Slot(u) => t = u

HandInv == HandTypes /\ HandResting /\ Marked /\ Woken /\ Accounted /\ SlotHeld

(* What the code between test-and-set and clear relies on when it reads    *)
(* the slot, decides and writes it.                                        *)
SlotsExclude == \A t, u \in Ids : AtSlot(t) /\ AtSlot(u) /\ Slot(t) = Slot(u) => t = u

-----------------------------------------------------------------------------
(* A call that has begun is one of the program's.                          *)
LEMMA CallKnown ==
  ASSUME ProgramsFit, HandTypes, NEW t \in Ids, InCall(t)
  PROVE  /\ Op(t) \in Ops /\ Slot(t) \in Ids
         /\ Op(t) = "notify" => Slot(t) = t
         /\ \A u \in Ids : InCall(u) /\ Op(u) = "notify" /\ Op(t) = "notify_for" => Slot(t) # u
<1> USE DEF ProgramsFit, HandTypes
<1>1. program \in [Ids -> Seq([op : Ops, slot : Ids])]
  OBVIOUS
<1>2. ASSUME NEW u \in Ids, InCall(u) PROVE call[u] \in 1 .. Len(program[u])
  <2>1. call[u] \in Nat /\ call[u] > 0 /\ call[u] <= Len(program[u])
    BY <1>2
  <2>2. program[u] \in Seq([op : Ops, slot : Ids])
    BY <1>1
  <2> QED
    BY <2>1, <2>2
<1>3. program[t][call[t]] \in [op : Ops, slot : Ids]
  <2>1. program[t] \in Seq([op : Ops, slot : Ids])
    BY <1>1
  <2>2. call[t] \in 1 .. Len(program[t])
    BY <1>2
  <2> QED
    BY <2>1, <2>2, ElementOfSeq
<1>4. Op(t) \in Ops /\ Slot(t) \in Ids
  BY <1>3 DEF Op, Slot
<1>5. Op(t) = "notify" => Slot(t) = t
  BY <1>2 DEF Op, Slot
<1>6. ASSUME NEW u \in Ids, InCall(u), Op(u) = "notify", Op(t) = "notify_for", Slot(t) = u
      PROVE  FALSE
  BY <1>2, <1>6 DEF Op, Slot
<1> QED
  BY <1>4, <1>5, <1>6

(* A mark names its tasklet and tells its side.                            *)
LEMMA Marks ==
  ASSUME NEW t \in Ids, NEW u \in Ids
  PROVE  /\ Mark(t) # 0
         /\ Mark(t) > 0 <=> Op(t) = "wait_for"
         /\ Mark(t) \in {u + 1, -(u + 1)} <=> t = u
         /\ Mark(t) > 0 => Mark(t) - 1 = t
         /\ Mark(t) < 0 => (-Mark(t)) - 1 = t
BY DEF Mark, Ids

(***************************************************************************)
(* Who comes second finds the mark of the other side, and its arithmetic   *)
(* gives the sleeper; handshake_notify, which does not look at the sign,   *)
(* cannot meet another notifier.                                           *)
(***************************************************************************)
LEMMA SecondMeetsSleeper ==
  ASSUME ProgramsFit, HandInv, NEW t \in Ids, ComeSecond(t)
  PROVE  \E u \in Ids :
           /\ Suspended(u) /\ Slot(u) = Slot(t) /\ slots[Slot(t)] = Mark(u)
           /\ \A w \in Ids : u \notin waking[w]
           /\ waking' = [waking EXCEPT ![t] = {u}]
           /\ IF Op(t) = "wait_for" THEN slots[Slot(t)] < 0 ELSE slots[Slot(t)] > 0
<1>1. InCall(t) /\ pc[t] = "look" /\ t \in running
  BY DEF ComeSecond, Step, Runs, InCall
<1>2. Op(t) \in Ops /\ Slot(t) \in Ids /\ (Op(t) = "notify" => Slot(t) = t)
  BY <1>1, CallKnown DEF HandInv
<1>3. slots[Slot(t)] # 0
  BY DEF ComeSecond
<1>4. PICK u \in Ids : /\ Suspended(u) /\ Slot(u) = Slot(t) /\ slots[Slot(t)] = Mark(u)
                       /\ \A w \in Ids : u \notin waking[w]
  BY <1>2, <1>3 DEF HandInv, Marked
<1>5. InCall(u) /\ u # t
  BY <1>1, <1>4 DEF InCall, Suspended
<1>6. IF Op(t) = "wait_for" THEN Mark(u) < 0 ELSE Mark(u) > 0
  <2>1. CASE Op(t) # "notify"
    BY <1>2, <1>4, <2>1, Marks DEF ComeSecond, SameSide, Mark, Ids, Ops
  <2>2. CASE Op(t) = "notify"
    <3>1. Op(u) \in Ops /\ (Op(u) = "notify" => Slot(u) = u)
             /\ (Op(u) = "notify_for" => Slot(u) # t)
      BY <1>1, <1>5, <2>2, CallKnown DEF HandInv
    <3>2. Op(u) = "wait_for"
      BY <1>2, <1>4, <1>5, <2>2, <3>1 DEF Ops
    <3> QED
      BY <2>2, <3>2, Marks
  <2> QED
    BY <2>1, <2>2
<1>7. (IF Op(t) = "wait_for" THEN (-Mark(u)) - 1 ELSE Mark(u) - 1) = u
  BY <1>6, Marks
<1>8. waking' = [waking EXCEPT ![t] = {u}]
  BY <1>4, <1>7 DEF ComeSecond
<1> QED
  BY <1>4, <1>6, <1>8

-----------------------------------------------------------------------------
LEMMA HandInvInit == ASSUME ProgramsFit, HandInit PROVE HandInv
<1> USE DEF HandInit, LaunchTasklets
<1>1. \A t \in Ids : pc[t] = "main" /\ t \in running /\ waking[t] = {} /\ ~Suspended(t)
  BY DEF Suspended
<1>2. HandTypes
  <2>1. \A t \in Ids : ~InCall(t)
    BY <1>1 DEF InCall
  <2>2. \A t \in Ids : call[t] <= Len(program[t])
    BY LenProperties DEF ProgramsFit
  <2> QED
    BY <2>1, <2>2 DEF HandTypes, Labels
<1>3. HandResting /\ Marked /\ Woken /\ Accounted /\ SlotHeld
  BY <1>1 DEF HandResting, Marked, Woken, Accounted, SlotHeld, AtSlot
<1> QED
  BY <1>2, <1>3 DEF HandInv

LEMMA HandTypeNext == ASSUME ProgramsFit, HandInv, [HandNext]_handVars PROVE HandTypes'
<1> USE DEF HandInv, HandTypes, Step, Runs, Goto, InCall, Suspended, Labels, slotVars
<1>1. CASE HandLaunch
  BY <1>1 DEF HandLaunch, Relaunch
<1>2. ASSUME NEW t \in Ids, HandTasklet(t) PROVE HandTypes'
  <2>1. CASE Call(t)
    BY <2>1 DEF Call
  <2>2. CASE LockSlot(t)
    <3>1. Slot(t) \in Ids
      BY <2>2, CallKnown DEF LockSlot
    <3> QED
      BY <2>2, <3>1 DEF LockSlot
  <2>3. CASE ComeFirst(t)
    <3>1. Mark(t) \in Int
      BY DEF Mark, Ids
    <3> QED
      BY <2>3, <3>1 DEF ComeFirst
  <2>4. CASE ComeSecond(t)
    <3>1. PICK u \in Ids : waking' = [waking EXCEPT ![t] = {u}]
      BY <2>4, SecondMeetsSleeper
    <3>2. waking' \in [Ids -> SUBSET Ids]
      BY <3>1
    <3>3. /\ slots' = [slots EXCEPT ![Slot(t)] = 0] /\ pc' = [pc EXCEPT ![t] = "second_clear"]
          /\ pc[t] = "look" /\ UNCHANGED <<program, running, csr7, call, refused>>
      BY <2>4 DEF ComeSecond
    <3>4. slots' \in [Ids -> Int]
      <4>1. Slot(t) \in Ids
        BY <3>3, CallKnown
      <4>2. \A i \in Ids : slots'[i] \in Int
        BY <3>3, <4>1
      <4> QED
        BY <3>3, <4>2
    <3>6. pc' \in [Ids -> Labels]
      BY <3>3
    <3>5. \A x \in Ids : InCall(x)' <=> InCall(x)
      BY <3>3
    <3> QED
      BY <3>2, <3>3, <3>4, <3>5, <3>6
  <2>5. CASE Refuse(t)
    BY <2>5 DEF Refuse
  <2>6. CASE HandClear(t)
    BY <2>6 DEF HandClear
  <2>7. CASE HandSleep(t)
    BY <2>7 DEF HandSleep, Halt
  <2>8. CASE WakeOther(t)
    BY <2>8 DEF WakeOther, WakeOnce
  <2>9. CASE HandReturn(t)
    BY <2>9 DEF HandReturn, ReturnFromMain, Halt
  <2> QED
    BY <1>2, <2>1, <2>2, <2>3, <2>4, <2>5, <2>6, <2>7, <2>8, <2>9 DEF HandTasklet
<1>3. CASE UNCHANGED handVars
  BY <1>3 DEF handVars
<1> QED
  BY <1>1, <1>2, <1>3 DEF HandNext

(* A waker finds its sleeper asleep and wakes it, or still on its way and  *)
(* tries again, in which case nothing changes.                             *)
LEMMA WakesOneOrRetries ==
  ASSUME HandInv, NEW t \in Ids, WakeOther(t)
  PROVE  \/ UNCHANGED handVars
         \/ \E u \in Ids : /\ waking[t] = {u} /\ u # t
                           /\ u \notin running /\ pc[u] = "main"
                           /\ running' = running \cup {u}
                           /\ waking' = [waking EXCEPT ![t] = {}]
                           /\ pc' = [pc EXCEPT ![t] = "main"]
<1> USE DEF HandInv, HandTypes, WakeOther, WakeOnce, Runs, Goto
<1>1. pc[t] = "wake" /\ t \in running
  OBVIOUS
<1>2. PICK u \in Ids : waking[t] = {u} /\ Suspended(u)
  BY <1>1 DEF Woken
<1>3. CASE u \in running
  BY <1>1, <1>2, <1>3 DEF handVars, slotVars
<1>4. CASE u \notin running
  <2>1. pc[u] = "main" /\ u # t
    BY <1>1, <1>2, <1>4 DEF HandResting, Suspended
  <2>2. waking[t] \cap running = {}
    BY <1>2, <1>4
  <2> QED
    BY <1>2, <1>4, <2>1, <2>2
<1> QED
  BY <1>3, <1>4

LEMMA HandRestingNext == ASSUME HandInv, [HandNext]_handVars PROVE HandResting'
<1> USE DEF HandInv, HandTypes, HandResting, Step, Runs, Goto
<1>1. CASE HandLaunch
  BY <1>1 DEF HandLaunch, Relaunch
<1>2. ASSUME NEW t \in Ids, HandTasklet(t) PROVE HandResting'
  <2>1. CASE Call(t) \/ LockSlot(t)
    BY <2>1 DEF Call, LockSlot
  <2>2. CASE ComeFirst(t) \/ ComeSecond(t) \/ Refuse(t)
    BY <2>2 DEF ComeFirst, ComeSecond, Refuse
  <2>3. CASE HandClear(t)
    BY <2>3 DEF HandClear
  <2>4. CASE HandSleep(t) \/ HandReturn(t)
    BY <2>4 DEF HandSleep, HandReturn, ReturnFromMain, Halt
  <2>5. CASE WakeOther(t)
    <3>1. CASE UNCHANGED handVars
      BY <3>1 DEF handVars
    <3>2. ASSUME NEW u \in Ids, pc[u] = "main", running' = running \cup {u},
                 pc' = [pc EXCEPT ![t] = "main"]
          PROVE  HandResting'
      BY <3>2
    <3> QED
      BY <2>5, <3>1, <3>2, WakesOneOrRetries
  <2> QED
    BY <1>2, <2>1, <2>2, <2>3, <2>4, <2>5 DEF HandTasklet
<1>3. CASE UNCHANGED handVars
  BY <1>3 DEF handVars
<1> QED
  BY <1>1, <1>2, <1>3 DEF HandNext

-----------------------------------------------------------------------------
SleepersKnown == Marked /\ Woken /\ Accounted

(* Most steps leave alone who sleeps, in which slot, and who wakes whom.   *)
LEMMA QuietStep ==
  ASSUME SleepersKnown, program' = program, slots' = slots, waking' = waking,
         \A u \in Ids : Suspended(u)' <=> Suspended(u),
         \A u \in Ids : Suspended(u) => call'[u] = call[u],
         \A w \in Ids : pc'[w] \in {"second_clear", "wake"} <=> pc[w] \in {"second_clear", "wake"}
  PROVE  SleepersKnown'
<1>1. \A u \in Ids : Suspended(u) => Slot(u)' = Slot(u) /\ Mark(u)' = Mark(u)
  BY DEF Slot, Mark, Op
<1> QED
  BY <1>1 DEF SleepersKnown, Marked, Woken, Accounted

(* The first leaves its mark in an empty slot.                             *)
LEMMA SleepersComeFirst ==
  ASSUME ProgramsFit, HandInv, NEW t \in Ids, ComeFirst(t) PROVE SleepersKnown'
<1> USE DEF HandInv, HandTypes, ComeFirst, Step, Runs, Goto
<1>1. Slot(t) \in Ids /\ Mark(t) # 0
  BY CallKnown, Marks DEF InCall
<1>2. \A u \in Ids : Slot(u)' = Slot(u) /\ Mark(u)' = Mark(u)
  BY DEF Slot, Mark, Op
<1>3. \A u \in Ids : Suspended(u)' <=> Suspended(u) \/ u = t
  BY DEF Suspended
<1>4. \A w \in Ids : t \notin waking[w]
  <2>1. ~Suspended(t)
    BY DEF Suspended
  <2> QED
    BY <2>1 DEF Woken
<1>5. Marked'
  BY <1>1, <1>2, <1>3, <1>4 DEF Marked
<1>6. Woken'
  BY <1>3 DEF Woken
<1>7. Accounted'
  <2> SUFFICES ASSUME NEW u \in Ids, Suspended(u)'
               PROVE  slots'[Slot(u)'] = Mark(u)' \/ \E w \in Ids : u \in waking'[w]
    BY DEF Accounted
  <2>1. CASE u = t
    BY <1>1, <1>2, <2>1
  <2>2. CASE Suspended(u) /\ slots[Slot(u)] = Mark(u)
    <3>1. Slot(u) # Slot(t)
      BY <2>2, Marks
    <3> QED
      BY <1>2, <2>2, <3>1, CallKnown DEF InCall
  <2>3. CASE Suspended(u) /\ \E w \in Ids : u \in waking[w]
    BY <2>3
  <2> QED
    BY <1>3, <2>1, <2>2, <2>3 DEF Accounted
<1> QED
  BY <1>5, <1>6, <1>7 DEF SleepersKnown

(* The second empties the slot and takes over its sleeper.                 *)
LEMMA SleepersComeSecond ==
  ASSUME ProgramsFit, HandInv, NEW t \in Ids, ComeSecond(t) PROVE SleepersKnown'
<1> USE DEF HandInv, HandTypes
<1>0. /\ pc[t] = "look" /\ t \in running /\ InCall(t) /\ ~Suspended(t)
      /\ slots' = [slots EXCEPT ![Slot(t)] = 0] /\ pc' = [pc EXCEPT ![t] = "second_clear"]
      /\ UNCHANGED <<program, running, call>>
  BY DEF ComeSecond, Step, Runs, Goto, InCall, Suspended
<1>1. PICK u \in Ids :
        /\ Suspended(u) /\ Slot(u) = Slot(t) /\ slots[Slot(t)] = Mark(u)
        /\ \A w \in Ids : u \notin waking[w]
        /\ waking' = [waking EXCEPT ![t] = {u}]
  BY SecondMeetsSleeper
<1>2. Slot(t) \in Ids
  BY <1>0, CallKnown
<1>3. \A x \in Ids : Slot(x)' = Slot(x) /\ Mark(x)' = Mark(x)
  BY <1>0 DEF Slot, Mark, Op
<1>4. \A x \in Ids : Suspended(x)' <=> Suspended(x)
  BY <1>0 DEF Suspended
<1>5. waking[t] = {}
  BY <1>0 DEF Woken
<1>6. Marked'
  <2> SUFFICES ASSUME NEW i \in Ids, slots'[i] # 0
               PROVE  \E x \in Ids : /\ Suspended(x)' /\ Slot(x)' = i /\ slots'[i] = Mark(x)'
                                     /\ \A w \in Ids : x \notin waking'[w]
    BY DEF Marked
  <2>1. i # Slot(t) /\ slots'[i] = slots[i]
    BY <1>0, <1>2
  <2>2. PICK x \in Ids : /\ Suspended(x) /\ Slot(x) = i /\ slots[i] = Mark(x)
                         /\ \A w \in Ids : x \notin waking[w]
    BY <2>1 DEF Marked
  <2>3. x # u
    BY <1>1, <2>1, <2>2
  <2>4. \A w \in Ids : x \notin waking'[w]
    BY <1>1, <2>2, <2>3
  <2> QED
    BY <1>3, <1>4, <2>1, <2>2, <2>4
<1>7. Woken'
  <2>1. \A w \in Ids : IF w = t THEN waking'[w] = {u} ELSE waking'[w] = waking[w]
    BY <1>1
  <2>2. \A w \in Ids : IF pc'[w] \in {"second_clear", "wake"}
                       THEN \E x \in Ids : waking'[w] = {x} /\ Suspended(x)'
                       ELSE waking'[w] = {}
    BY <1>0, <1>1, <1>4, <2>1 DEF Woken
  <2>3. \A w, v \in Ids : waking'[w] \cap waking'[v] # {} => w = v
    BY <1>1, <2>1 DEF Woken
  <2> QED
    BY <2>2, <2>3 DEF Woken
<1>8. Accounted'
  <2> SUFFICES ASSUME NEW x \in Ids, Suspended(x)
               PROVE  slots'[Slot(x)] = Mark(x) \/ \E w \in Ids : x \in waking'[w]
    BY <1>3, <1>4 DEF Accounted
  <2>1. CASE \E w \in Ids : x \in waking[w]
    BY <1>1, <1>5, <2>1
  <2>2. CASE slots[Slot(x)] = Mark(x) /\ Slot(x) = Slot(t)
    <3>1. x = u
      BY <1>1, <2>2, Marks DEF Mark, Ids
    <3> QED
      BY <1>1, <3>1
  <2>3. CASE slots[Slot(x)] = Mark(x) /\ Slot(x) # Slot(t)
    BY <1>0, <2>3, CallKnown DEF InCall
  <2> QED
    BY <2>1, <2>2, <2>3 DEF Accounted
<1> QED
  BY <1>6, <1>7, <1>8 DEF SleepersKnown

(* A woken sleeper is in no slot, and nobody else wakes it.                *)
LEMMA SleepersWakeOther ==
  ASSUME HandInv, NEW t \in Ids, WakeOther(t) PROVE SleepersKnown'
<1> USE DEF HandInv, HandTypes
<1>1. CASE UNCHANGED handVars
  BY <1>1, QuietStep DEF SleepersKnown, handVars, Suspended
<1>2. ASSUME NEW u \in Ids, waking[t] = {u}, u # t, u \notin running, pc[u] = "main",
             running' = running \cup {u}, waking' = [waking EXCEPT ![t] = {}],
             pc' = [pc EXCEPT ![t] = "main"]
      PROVE  SleepersKnown'
  <2>1. \A x \in Ids : Slot(x)' = Slot(x) /\ Mark(x)' = Mark(x)
    BY DEF Slot, Mark, Op, WakeOther
  <2>2. pc[t] = "wake" /\ t \in running /\ slots' = slots
    BY DEF WakeOther, WakeOnce, Runs, slotVars
  <2>3. \A x \in Ids : Suspended(x)' <=> Suspended(x) /\ x # u
    BY <1>2, <2>2 DEF Suspended
  <2>4. \A w \in Ids : w # t => u \notin waking[w]
    BY <1>2 DEF Woken
  <2>5. Marked'
    BY <1>2, <2>1, <2>2, <2>3 DEF Marked
  <2>6. Woken'
    BY <1>2, <2>2, <2>3, <2>4 DEF Woken
  <2>7. Accounted'
    BY <1>2, <2>1, <2>2, <2>3 DEF Accounted
  <2> QED
    BY <2>5, <2>6, <2>7 DEF SleepersKnown
<1> QED
  BY <1>1, <1>2, WakesOneOrRetries

LEMMA SleepersNext == ASSUME ProgramsFit, HandInv, [HandNext]_handVars PROVE SleepersKnown'
<1>1. SleepersKnown
  BY DEF HandInv, SleepersKnown
<1> USE DEF Step, Runs, Goto, slotVars
<1>2. CASE HandLaunch
  <2>1. \A u \in Ids : pc[u] = "ebreak" /\ ~Suspended(u) /\ ~Suspended(u)'
    BY <1>2 DEF HandLaunch, Relaunch, Suspended
  <2>2. waking' = waking
    BY <1>2, <2>1 DEF HandLaunch, Relaunch, HandInv, Woken, HandTypes
  <2>3. \A w \in Ids : pc'[w] = "main"
    BY <1>2 DEF HandLaunch, Relaunch
  <2> QED
    BY <1>1, <1>2, <2>1, <2>2, <2>3, QuietStep DEF HandLaunch
<1>3. ASSUME NEW t \in Ids, HandTasklet(t) PROVE SleepersKnown'
  <2>1. CASE Call(t)
    BY <1>1, <2>1, QuietStep DEF Call, Suspended, HandInv, HandTypes
  <2>2. CASE LockSlot(t)
    BY <1>1, <2>2, QuietStep DEF LockSlot, Suspended, HandInv, HandTypes
  <2>3. CASE Refuse(t)
    BY <1>1, <2>3, QuietStep DEF Refuse, Suspended, HandInv, HandTypes
  <2>4. CASE HandClear(t)
    BY <1>1, <2>4, QuietStep DEF HandClear, Suspended, HandInv, HandTypes
  <2>5. CASE HandSleep(t)
    BY <1>1, <2>5, QuietStep DEF HandSleep, Halt, Suspended, HandInv, HandTypes
  <2>6. CASE HandReturn(t)
    BY <1>1, <2>6, QuietStep DEF HandReturn, ReturnFromMain, Halt, Suspended, HandInv, HandTypes
  <2> QED
    BY <1>3, <2>1, <2>2, <2>3, <2>4, <2>5, <2>6, SleepersComeFirst, SleepersComeSecond,
       SleepersWakeOther DEF HandTasklet
<1>4. CASE UNCHANGED handVars
  BY <1>1, <1>4, QuietStep DEF handVars, Suspended
<1> QED
  BY <1>2, <1>3, <1>4 DEF HandNext

LEMMA SlotHeldNext == ASSUME ProgramsFit, HandInv, [HandNext]_handVars PROVE SlotHeld'
<1> USE DEF HandInv, HandTypes, SlotHeld, AtSlot, Slot, Step, Runs, Goto, slotVars
<1>1. CASE HandLaunch
  BY <1>1 DEF HandLaunch, Relaunch
<1>2. ASSUME NEW t \in Ids, HandTasklet(t) PROVE SlotHeld'
  <2>1. CASE Call(t)
    BY <2>1 DEF Call
  <2>2. CASE LockSlot(t)
    BY <2>2 DEF LockSlot
  <2>3. CASE ComeFirst(t) \/ ComeSecond(t) \/ Refuse(t)
    <3>1. AtSlot(t) /\ \A u \in Ids : AtSlot(u)' <=> AtSlot(u)
      BY <2>3 DEF ComeFirst, ComeSecond, Refuse
    <3>2. UNCHANGED <<program, csr7, call>>
      BY <2>3 DEF ComeFirst, ComeSecond, Refuse
    <3> QED
      BY <3>1, <3>2
  <2>4. CASE HandClear(t)
    <3>1. AtSlot(t) /\ \A u \in Ids : AtSlot(u)' => AtSlot(u) /\ u # t
      BY <2>4 DEF HandClear
    <3>2. csr7' = csr7 \ {Slot(t)} /\ \A u \in Ids : Slot(u)' = Slot(u)
      BY <2>4 DEF HandClear
    <3> HIDE DEF AtSlot, Slot
    <3> QED
      BY <3>1, <3>2
  <2>5. CASE HandSleep(t) \/ HandReturn(t)
    BY <2>5 DEF HandSleep, HandReturn, ReturnFromMain, Halt
  <2>6. CASE WakeOther(t)
    BY <2>6, WakesOneOrRetries DEF handVars, WakeOther
  <2> QED
    BY <1>2, <2>1, <2>2, <2>3, <2>4, <2>5, <2>6 DEF HandTasklet
<1>3. CASE UNCHANGED handVars
  BY <1>3 DEF handVars
<1> QED
  BY <1>1, <1>2, <1>3 DEF HandNext

(* Every step keeps all of it.                                             *)
LEMMA HandInvNext == ASSUME ProgramsFit, HandInv, [HandNext]_handVars PROVE HandInv'
BY HandTypeNext, HandRestingNext, SleepersNext, SlotHeldNext DEF HandInv, SleepersKnown

LEMMA HandInvariance == ASSUME ProgramsFit PROVE HandSpec => []HandInv
BY HandInvInit, HandInvNext, PTL DEF HandSpec

-----------------------------------------------------------------------------
(***************************************************************************)
(* A sleeper is named by its slot or by the one that wakes it, never by    *)
(* both and never twice: whoever finds the slot wakes it once.             *)
(***************************************************************************)
LEMMA NamedOnce == ASSUME ProgramsFit, HandInv PROVE SlotsNameSleepers
<1> SUFFICES ASSUME NEW t \in Ids, Suspended(t)
             PROVE  Cardinality({i \in Ids : slots[i] \in {t + 1, -(t + 1)}})
                      + Cardinality({w \in Ids : t \in waking[w]}) = 1
  BY DEF SlotsNameSleepers
<1> DEFINE In == {i \in Ids : slots[i] \in {t + 1, -(t + 1)}}
           By == {w \in Ids : t \in waking[w]}
<1>1. \A i \in In : slots[i] = Mark(t) /\ Slot(t) = i /\ By = {}
  <2> SUFFICES ASSUME NEW i \in In PROVE slots[i] = Mark(t) /\ Slot(t) = i /\ By = {}
    OBVIOUS
  <2>1. slots[i] # 0
    BY DEF Ids
  <2>2. PICK u \in Ids : /\ Slot(u) = i /\ slots[i] = Mark(u)
                         /\ \A w \in Ids : u \notin waking[w]
    BY <2>1 DEF HandInv, Marked
  <2>3. u = t
    BY <2>2, Marks
  <2> QED
    BY <2>2, <2>3
<1>2. CASE By = {}
  <2>1. slots[Slot(t)] = Mark(t) /\ Slot(t) \in Ids
    BY <1>2, CallKnown DEF HandInv, Accounted, InCall
  <2>2. Slot(t) \in In
    BY <2>1 DEF Mark
  <2>3. In = {Slot(t)}
    BY <1>1, <2>2
  <2>4. Cardinality(In) = 1 /\ Cardinality(By) = 0
    BY <1>2, <2>3, FS_Singleton, FS_EmptySet
  <2> QED
    BY <2>4
<1>3. CASE By # {}
  <2>1. In = {}
    BY <1>1, <1>3
  <2>2. PICK w \in Ids : t \in waking[w]
    BY <1>3
  <2>3. By = {w}
    BY <2>2 DEF HandInv, Woken
  <2>4. Cardinality(In) = 0 /\ Cardinality(By) = 1
    BY <2>1, <2>3, FS_Singleton, FS_EmptySet
  <2> QED
    BY <2>4
<1> QED
  BY <1>2, <1>3

(***************************************************************************)
(* handshake.c: for any programs that keep to handshake.h, a slot names    *)
(* the one tasklet that sleeps for it, so none is forgotten or woken twice.*)
(***************************************************************************)
THEOREM SleepersNamed == ASSUME ProgramsFit PROVE HandSpec => []SlotsNameSleepers
BY HandInvariance, NamedOnce, PTL

(***************************************************************************)
(* handshake.c: nobody wakes a tasklet that has returned from main, which  *)
(* would run into crt0's ebreak.                                           *)
(***************************************************************************)
THEOREM HandNobodyTrapped == ASSUME ProgramsFit PROVE HandSpec => []NobodyTraps
<1>1. HandInv => NobodyTraps
  BY DEF HandInv, HandResting, NobodyTraps
<1> QED
  BY <1>1, HandInvariance, PTL

(***************************************************************************)
(* handshake.c: from the test-and-set of a slot's bit to its clear, one    *)
(* tasklet at a time reads the slot, decides and writes it.                *)
(***************************************************************************)
THEOREM OneAtASlot == ASSUME ProgramsFit PROVE HandSpec => []SlotsExclude
<1>1. HandInv => SlotsExclude
  BY DEF HandInv, SlotHeld, SlotsExclude
<1> QED
  BY <1>1, HandInvariance, PTL

-----------------------------------------------------------------------------
(***************************************************************************)
(* Waits and notifications in balance                                      *)
(***************************************************************************)

(* The k-th call of t has looked at its slot and was not refused.          *)
Past(t, k) ==
  /\ k < call[t] \/ (k = call[t] /\ pc[t] \notin {"lock", "look"})
  /\ <<t, k>> \notin refused

LetPast(side, i) == {c \in Calls(side, i) : Past(c[1], c[2])}

Side(t) == IF Op(t) = "wait_for" THEN "wait" ELSE "notify"

(* Which side the slot says is one ahead                                   *)
Ahead(a) == IF a > 0 THEN 1 ELSE IF a < 0 THEN -1 ELSE 0

Balance ==
  \A i \in Ids :
    Cardinality(LetPast("wait", i)) = Cardinality(LetPast("notify", i)) + Ahead(slots[i])

(* Only a call that is over, or on its way out, has been refused.          *)
RefusedOver ==
  \A t \in Ids, k \in Nat : <<t, k>> \in refused =>
    \/ k < call[t]
    \/ /\ k = call[t] /\ pc[t] \in {"refuse_clear", "main", "ebreak"}
       /\ ~Suspended(t)

MatchInv == Balance /\ RefusedOver

(* A program makes finitely many calls.                                    *)
LEMMA CallsFinite ==
  ASSUME ProgramsFit, HandTypes, NEW side, NEW i
  PROVE  /\ IsFiniteSet(Calls(side, i))
         /\ \A c \in Calls(side, i) : /\ c[1] \in Ids /\ c[2] \in Nat \ {0}
                                      /\ c[2] <= Len(program[c[1]])
                                      /\ c = <<c[1], c[2]>>
<1> DEFINE Of(t) == {t} \X (1 .. Len(program[t]))
           All == {Of(t) : t \in Ids}
           f == [t \in Ids |-> Of(t)]
<1>1. \A t \in Ids : Len(program[t]) \in Nat
  BY DEF ProgramsFit, HandTypes
<1>2. ASSUME NEW t \in Ids PROVE IsFiniteSet(Of(t))
  <2>1. IsFiniteSet(1 .. Len(program[t]))
    BY <1>1, FS_Interval
  <2> QED
    BY <2>1, FS_Singleton, FS_Product
<1>3. IsFiniteSet(Ids)
  BY NrTaskletsAssumption, FS_Interval DEF Ids
<1>4. f \in Surjection(Ids, All)
  BY DEF Surjection
<1>5. IsFiniteSet(All)
  BY <1>3, <1>4, FS_Surjection
<1>6. IsFiniteSet(UNION All)
  <2>1. \A T \in All : IsFiniteSet(T)
    BY <1>2
  <2> QED
    BY <1>5, <2>1, FS_UNION
<1>7. Calls(side, i) \subseteq UNION All
  BY DEF Calls
<1>8. \A c \in UNION All : /\ c[1] \in Ids /\ c[2] \in Nat \ {0}
                           /\ c[2] <= Len(program[c[1]]) /\ c = <<c[1], c[2]>>
  BY <1>1
<1> QED
  BY <1>6, <1>7, <1>8, FS_Subset

(* So finitely many of a side have passed a slot.                          *)
LEMMA PassedFinite ==
  ASSUME ProgramsFit, HandTypes, NEW side, NEW i
  PROVE  /\ IsFiniteSet(LetPast(side, i))
         /\ Cardinality(LetPast(side, i)) \in Nat
<1>1. LetPast(side, i) \in SUBSET Calls(side, i)
  BY DEF LetPast
<1> QED
  BY <1>1, CallsFinite, FS_Subset, FS_CardinalityType

(* The call a tasklet is in is one of those at its slot, on its side only. *)
LEMMA CurrentCall ==
  ASSUME ProgramsFit, HandTypes, NEW t \in Ids, InCall(t)
  PROVE  /\ call[t] \in Nat
         /\ \A side \in {"wait", "notify"}, i \in Ids :
              <<t, call[t]>> \in Calls(side, i) <=> i = Slot(t) /\ side = Side(t)
<1>1. call[t] \in 1 .. Len(program[t]) /\ call[t] \in Nat
  <2>1. Len(program[t]) \in Nat
    BY DEF ProgramsFit, HandTypes
  <2> QED
    BY <2>1 DEF HandTypes
<1>2. ASSUME NEW side \in {"wait", "notify"}, NEW i \in Ids
      PROVE  <<t, call[t]>> \in Calls(side, i) <=> i = Slot(t) /\ side = Side(t)
  <2> DEFINE c == <<t, call[t]>>
  <2>1. c \in UNION {{u} \X (1 .. Len(program[u])) : u \in Ids}
    BY <1>1
  <2>2. c \in Calls(side, i) <=> Slot(t) = i /\ ((Op(t) = "wait_for") = (side = "wait"))
    BY <2>1 DEF Calls, Slot, Op
  <2> QED
    BY <2>2 DEF Side
<1> QED
  BY <1>1, <1>2

(* Nobody passes: the balance is kept while the slots are.                 *)
LEMMA BalanceStays ==
  ASSUME Balance, slots' = slots,
         \A side \in {"wait", "notify"}, i \in Ids : LetPast(side, i)' = LetPast(side, i)
  PROVE  Balance'
BY DEF Balance

(* One passes, and its slot tells.                                         *)
LEMMA BalancePasses ==
  ASSUME ProgramsFit, HandTypes, Balance, NEW t \in Ids, InCall(t), Slot(t) \in Ids,
         <<t, call[t]>> \notin LetPast(Side(t), Slot(t)),
         NEW a \in Int, slots' = [slots EXCEPT ![Slot(t)] = a],
         Ahead(a) = Ahead(slots[Slot(t)]) + (IF Side(t) = "wait" THEN 1 ELSE -1),
         \A side \in {"wait", "notify"}, i \in Ids :
           LetPast(side, i)' = IF side = Side(t) /\ i = Slot(t)
                              THEN LetPast(side, i) \cup {<<t, call[t]>>} ELSE LetPast(side, i)
  PROVE  Balance'
<1> DEFINE s == Side(t)
           j == Slot(t)
<1>1. Cardinality(LetPast(s, j) \cup {<<t, call[t]>>}) = Cardinality(LetPast(s, j)) + 1
  BY PassedFinite, FS_AddElement
<1>2. s \in {"wait", "notify"}
  BY DEF Side
<1>3. ASSUME NEW i \in Ids
      PROVE  Cardinality(LetPast("wait", i)') = Cardinality(LetPast("notify", i)') + Ahead(slots'[i])
  <2>1. /\ Cardinality(LetPast("wait", i)) \in Nat
        /\ Cardinality(LetPast("notify", i)) \in Nat
        /\ Ahead(slots[i]) \in Int
        /\ Cardinality(LetPast("wait", i)) = Cardinality(LetPast("notify", i)) + Ahead(slots[i])
    BY PassedFinite DEF Balance, Ahead
  <2>2. CASE i # j
    <3>1. /\ LetPast("wait", i)' = LetPast("wait", i)
          /\ LetPast("notify", i)' = LetPast("notify", i)
          /\ slots'[i] = slots[i]
      BY <2>2 DEF HandTypes
    <3> QED
      BY <2>1, <3>1
  <2>3. CASE i = j /\ s = "wait"
    <3>1. /\ LetPast("wait", i)' = LetPast("wait", i) \cup {<<t, call[t]>>}
          /\ LetPast("notify", i)' = LetPast("notify", i)
          /\ slots'[i] = a /\ Ahead(a) = Ahead(slots[i]) + 1
      BY <2>3 DEF HandTypes
    <3>2. Cardinality(LetPast("wait", i)') = Cardinality(LetPast("wait", i)) + 1
      BY <1>1, <2>3, <3>1
    <3> QED
      BY <2>1, <3>1, <3>2
  <2>4. CASE i = j /\ s = "notify"
    <3>1. /\ LetPast("notify", i)' = LetPast("notify", i) \cup {<<t, call[t]>>}
          /\ LetPast("wait", i)' = LetPast("wait", i)
          /\ slots'[i] = a /\ Ahead(a) = Ahead(slots[i]) + (-1)
      BY <2>4 DEF HandTypes
    <3>2. Cardinality(LetPast("notify", i)') = Cardinality(LetPast("notify", i)) + 1
      BY <1>1, <2>4, <3>1
    <3> QED
      BY <2>1, <3>1, <3>2
  <2> QED
    BY <1>2, <2>2, <2>3, <2>4
<1> QED
  BY <1>3 DEF Balance

(* A step that lets nobody past.                                           *)
LEMMA NobodyPasses ==
  ASSUME ProgramsFit, HandTypes, Balance, slots' = slots, program' = program,
         \A t \in Ids, k \in Nat \ {0} : Past(t, k)' <=> Past(t, k)
  PROVE  Balance'
<1> SUFFICES ASSUME NEW side \in {"wait", "notify"}, NEW i \in Ids
             PROVE  LetPast(side, i)' = LetPast(side, i)
  BY BalanceStays
<1>1. Calls(side, i)' = Calls(side, i)
  BY DEF Calls
<1>2. \A c \in Calls(side, i) : Past(c[1], c[2])' <=> Past(c[1], c[2])
  BY CallsFinite
<1> QED
  BY <1>1, <1>2 DEF LetPast

(* A step that lets one past, whose slot tells.                            *)
LEMMA OnePasses ==
  ASSUME ProgramsFit, HandTypes, Balance, NEW t \in Ids, InCall(t), program' = program,
         ~Past(t, call[t]),
         \A u \in Ids, k \in Nat \ {0} : Past(u, k)' <=> Past(u, k) \/ (u = t /\ k = call[t]),
         NEW a \in Int, slots' = [slots EXCEPT ![Slot(t)] = a],
         Ahead(a) = Ahead(slots[Slot(t)]) + (IF Side(t) = "wait" THEN 1 ELSE -1)
  PROVE  Balance'
<1> DEFINE c0 == <<t, call[t]>>
<1>1. Slot(t) \in Ids /\ Side(t) \in {"wait", "notify"}
  BY CallKnown DEF Side
<1>2. ASSUME NEW side \in {"wait", "notify"}, NEW i \in Ids
      PROVE  LetPast(side, i)' = IF side = Side(t) /\ i = Slot(t)
                                THEN LetPast(side, i) \cup {c0} ELSE LetPast(side, i)
  <2>1. Calls(side, i)' = Calls(side, i)
    BY DEF Calls
  <2>2. c0 \in Calls(side, i) <=> i = Slot(t) /\ side = Side(t)
    BY CurrentCall
  <2>3. \A c \in Calls(side, i) : Past(c[1], c[2])' <=> Past(c[1], c[2]) \/ c = c0
    BY CallsFinite
  <2>4. LetPast(side, i)' = {c \in Calls(side, i) : Past(c[1], c[2]) \/ c = c0}
    BY <2>1, <2>3 DEF LetPast
  <2> QED
    BY <2>2, <2>4 DEF LetPast
<1>3. c0 \notin LetPast(Side(t), Slot(t))
  BY DEF LetPast
<1> QED
  BY <1>1, <1>2, <1>3, BalancePasses

(* Whoever looks at its slot is in a call that has not been refused.       *)
LEMMA NotRefusedYet ==
  ASSUME HandTypes, RefusedOver, NEW t \in Ids, pc[t] \in {"lock", "look", "first_clear", "halt"}
  PROVE  call[t] \in Nat /\ <<t, call[t]>> \notin refused
<1>1. PICK k \in Nat : k = call[t]
  BY DEF HandTypes
<1>2. <<t, k>> \notin refused
  BY <1>1 DEF RefusedOver
<1> QED
  BY <1>1, <1>2

(* The first puts its side one ahead, and marks the slot with its sign.    *)
LEMMA FirstBalances ==
  ASSUME ProgramsFit, HandInv, MatchInv, NEW t \in Ids, ComeFirst(t)
  PROVE  Balance'
<1>1. /\ pc[t] = "look" /\ pc' = [pc EXCEPT ![t] = "first_clear"] /\ slots[Slot(t)] = 0
      /\ slots' = [slots EXCEPT ![Slot(t)] = Mark(t)]
      /\ program' = program /\ call' = call /\ refused' = refused
  BY DEF ComeFirst, Step, Runs, Goto
<1>2. InCall(t) /\ Mark(t) \in Int
  BY <1>1 DEF InCall, Mark, Ids
<1>3. call[t] \in Nat /\ <<t, call[t]>> \notin refused
  BY <1>1, NotRefusedYet DEF HandInv, MatchInv
<1>4. ~Past(t, call[t])
  BY <1>1, <1>3 DEF Past
<1>5. \A u \in Ids, k \in Nat \ {0} : Past(u, k)' <=> Past(u, k) \/ (u = t /\ k = call[t])
  BY <1>1, <1>3 DEF Past, HandInv, HandTypes
<1>6. Ahead(Mark(t)) = Ahead(slots[Slot(t)]) + (IF Side(t) = "wait" THEN 1 ELSE -1)
  <2>1. CASE Op(t) = "wait_for"
    BY <1>1, <1>2, <2>1, Marks DEF Ahead, Side
  <2>2. CASE Op(t) # "wait_for"
    <3>1. Mark(t) < 0
      BY <1>2, <2>2, Marks
    <3> QED
      BY <1>1, <1>2, <2>2, <3>1 DEF Ahead, Side
  <2> QED
    BY <2>1, <2>2
<1> QED
  BY <1>1, <1>2, <1>4, <1>5, <1>6, OnePasses DEF HandInv, MatchInv

(* The second draws level, and empties the slot.                           *)
LEMMA SecondBalances ==
  ASSUME ProgramsFit, HandInv, MatchInv, NEW t \in Ids, ComeSecond(t)
  PROVE  Balance'
<1>1. PICK z \in Int : z = 0
  OBVIOUS
<1>2. /\ pc[t] = "look" /\ pc' = [pc EXCEPT ![t] = "second_clear"]
      /\ slots' = [slots EXCEPT ![Slot(t)] = z]
      /\ program' = program /\ call' = call /\ refused' = refused
  BY <1>1 DEF ComeSecond, Step, Runs, Goto
<1>3. InCall(t)
  BY <1>2 DEF InCall
<1>4. call[t] \in Nat /\ <<t, call[t]>> \notin refused
  BY <1>2, NotRefusedYet DEF HandInv, MatchInv
<1>5. ~Past(t, call[t])
  BY <1>2, <1>4 DEF Past
<1>6. \A u \in Ids, k \in Nat \ {0} : Past(u, k)' <=> Past(u, k) \/ (u = t /\ k = call[t])
  BY <1>2, <1>4 DEF Past, HandInv, HandTypes
<1>7. Ahead(z) = Ahead(slots[Slot(t)]) + (IF Side(t) = "wait" THEN 1 ELSE -1)
  <2>1. IF Op(t) = "wait_for" THEN slots[Slot(t)] < 0 ELSE slots[Slot(t)] > 0
    BY SecondMeetsSleeper
  <2>2. slots[Slot(t)] \in Int
    BY <1>3, CallKnown DEF HandInv, HandTypes
  <2> QED
    BY <1>1, <2>1, <2>2 DEF Ahead, Side
<1> QED
  BY <1>2, <1>3, <1>5, <1>6, <1>7, OnePasses DEF HandInv, MatchInv

(* Between launches every call is forgotten, and no slot is taken: whoever *)
(* has returned does not sleep.                                            *)
LEMMA LaunchBalances ==
  ASSUME ProgramsFit, HandInv, MatchInv, HandLaunch
  PROVE  Balance'
<1>1. \A t \in Ids : ~Suspended(t) /\ pc[t] = "ebreak"
  BY DEF HandLaunch, Suspended
<1>2. \A i \in Ids : slots'[i] = 0
  BY <1>1 DEF HandLaunch, slotVars, HandInv, Marked
<1>3. /\ program' = program /\ \A t \in Ids : call'[t] = 0
  BY DEF HandLaunch
<1>4. ASSUME NEW side, NEW i \in Ids PROVE LetPast(side, i)' = {}
  <2>1. Calls(side, i)' = Calls(side, i)
    BY <1>3 DEF Calls
  <2>2. \A c \in Calls(side, i) : ~Past(c[1], c[2])'
    BY <1>3, CallsFinite DEF HandInv, Past
  <2> QED
    BY <2>1, <2>2 DEF LetPast
<1> QED
  BY <1>2, <1>4, FS_EmptySet DEF Balance, Ahead

(* All other steps let nobody past; the bit of CSR 7 keeps the slots still. *)
LEMMA BalanceNext == ASSUME ProgramsFit, HandInv, MatchInv, [HandNext]_handVars PROVE Balance'
<1> SUFFICES ASSUME NEW t \in Ids, HandTasklet(t) \/ UNCHANGED handVars,
                    ~ComeFirst(t), ~ComeSecond(t)
             PROVE  Balance'
  <2>1. 0 \in Ids
    BY NrTaskletsAssumption DEF Ids
  <2> QED
    BY <2>1, LaunchBalances, FirstBalances, SecondBalances DEF HandNext
<1>1. slots' = slots /\ program' = program
  BY DEF HandTasklet, handVars, Call, LockSlot, ComeFirst, ComeSecond, Refuse, HandClear,
         HandSleep, WakeOther, HandReturn, slotVars
<1> SUFFICES \A u \in Ids, k \in Nat \ {0} : Past(u, k)' <=> Past(u, k)
  BY <1>1, NobodyPasses DEF HandInv, MatchInv
<1> USE DEF Past, HandInv, HandTypes, Step, Runs, Goto, slotVars
<1>2. CASE UNCHANGED handVars
  BY <1>2 DEF handVars
<1>3. CASE Call(t)
  <2>1. /\ pc[t] = "main" /\ pc' = [pc EXCEPT ![t] = "lock"] /\ refused' = refused
        /\ call' = [call EXCEPT ![t] = @ + 1]
    BY <1>3 DEF Call
  <2> QED
    BY <2>1
<1>4. CASE LockSlot(t)
  BY <1>4 DEF LockSlot
<1>5. CASE Refuse(t)
  <2>1. /\ pc[t] = "look" /\ pc' = [pc EXCEPT ![t] = "refuse_clear"] /\ call' = call
        /\ refused' = refused \cup {<<t, call[t]>>}
    BY <1>5 DEF Refuse
  <2> QED
    BY <2>1
<1>6. CASE HandClear(t)
  BY <1>6 DEF HandClear
<1>7. CASE HandSleep(t)
  BY <1>7 DEF HandSleep
<1>8. CASE WakeOther(t)
  BY <1>8 DEF WakeOther, WakeOnce
<1>9. CASE HandReturn(t)
  BY <1>9 DEF HandReturn, ReturnFromMain
<1> QED
  BY <1>2, <1>3, <1>4, <1>5, <1>6, <1>7, <1>8, <1>9 DEF HandTasklet

(* A refused call goes straight back to main, and never sleeps.            *)
LEMMA RefusedNext == ASSUME ProgramsFit, HandInv, MatchInv, [HandNext]_handVars PROVE RefusedOver'
<1> USE DEF MatchInv, RefusedOver, HandInv, HandTypes, Suspended, Step, Runs, Goto, slotVars
<1>1. CASE HandLaunch
  BY <1>1 DEF HandLaunch
<1>2. ASSUME NEW t \in Ids, HandTasklet(t) PROVE RefusedOver'
  <2>1. CASE Call(t)
    BY <2>1 DEF Call
  <2>2. CASE LockSlot(t)
    BY <2>2 DEF LockSlot
  <2>3. CASE ComeFirst(t) \/ ComeSecond(t)
    BY <2>3 DEF ComeFirst, ComeSecond
  <2>4. CASE Refuse(t)
    BY <2>4 DEF Refuse
  <2>5. CASE HandClear(t)
    BY <2>5 DEF HandClear
  <2>6. CASE HandSleep(t)
    BY <2>6 DEF HandSleep, Halt
  <2>7. CASE WakeOther(t)
    BY <2>7 DEF WakeOther, WakeOnce
  <2>8. CASE HandReturn(t)
    BY <2>8 DEF HandReturn, ReturnFromMain, Halt
  <2> QED
    BY <1>2, <2>1, <2>2, <2>3, <2>4, <2>5, <2>6, <2>7, <2>8 DEF HandTasklet
<1>3. CASE UNCHANGED handVars
  BY <1>3 DEF handVars
<1> QED
  BY <1>1, <1>2, <1>3 DEF HandNext

(* Who has come includes who has passed, which includes who has returned.  *)
LEMMA MetPassedCome ==
  ASSUME ProgramsFit, HandTypes, NEW side, NEW i
  PROVE  /\ Met(side, i) \in Nat /\ Come(side, i) \in Nat
         /\ Met(side, i) <= Cardinality(LetPast(side, i))
         /\ Cardinality(LetPast(side, i)) <= Come(side, i)
<1> DEFINE M == {c \in Calls(side, i) : Returned(c[1], c[2])}
           P == LetPast(side, i)
           C == {c \in Calls(side, i) : c[2] <= call[c[1]] /\ c \notin refused}
<1>1. IsFiniteSet(P) /\ Cardinality(P) \in Nat
  BY PassedFinite
<1>2. M \in SUBSET P
  BY DEF LetPast, Returned, Past
<1>3. C \in SUBSET Calls(side, i) /\ P \in SUBSET C
  <2>1. \A c \in Calls(side, i) : c[1] \in Ids /\ c[2] \in Nat /\ c = <<c[1], c[2]>>
    BY CallsFinite
  <2>2. ASSUME NEW c \in P PROVE c \in C
    <3>1. /\ c \in Calls(side, i) /\ <<c[1], c[2]>> \notin refused
          /\ c[2] < call[c[1]] \/ c[2] = call[c[1]]
      BY DEF LetPast, Past
    <3>2. c[2] \in Nat /\ call[c[1]] \in Nat /\ c \notin refused
      BY <2>1, <3>1 DEF HandTypes
    <3> QED
      BY <3>1, <3>2
  <2> QED
    BY <2>2
<1>4. IsFiniteSet(C) /\ Cardinality(C) \in Nat
  BY <1>3, CallsFinite, FS_Subset, FS_CardinalityType
<1>5. IsFiniteSet(M) /\ Cardinality(M) \in Nat /\ Cardinality(M) <= Cardinality(P)
  BY <1>1, <1>2, FS_Subset, FS_CardinalityType
<1>6. Cardinality(P) <= Cardinality(C)
  BY <1>3, <1>4, FS_Subset
<1> QED
  BY <1>4, <1>5, <1>6 DEF Met, Come

(* The sleeper that a slot names has passed and not returned.              *)
LEMMA SleeperNotMet ==
  ASSUME ProgramsFit, HandInv, MatchInv, NEW i \in Ids, slots[i] # 0
  PROVE  LET side == IF slots[i] > 0 THEN "wait" ELSE "notify"
         IN  Met(side, i) < Cardinality(LetPast(side, i))
<1> DEFINE side == IF slots[i] > 0 THEN "wait" ELSE "notify"
           M == {c \in Calls(side, i) : Returned(c[1], c[2])}
           P == LetPast(side, i)
<1>1. HandTypes
  BY DEF HandInv
<1>2. PICK t \in Ids : Suspended(t) /\ Slot(t) = i /\ slots[i] = Mark(t)
  BY DEF HandInv, Marked
<1>3. InCall(t) /\ Side(t) = side
  BY <1>2, Marks DEF InCall, Side
<1> DEFINE c0 == <<t, call[t]>>
<1>4. call[t] \in Nat /\ c0 \in Calls(side, i)
  BY <1>1, <1>2, <1>3, CurrentCall
<1>5. c0 \notin refused
  <2>1. PICK k \in Nat : k = call[t]
    BY <1>4
  <2>2. <<t, k>> \notin refused
    BY <1>2, <2>1 DEF MatchInv, RefusedOver
  <2> QED
    BY <2>1, <2>2
<1>6. c0 \in P
  BY <1>2, <1>4, <1>5 DEF LetPast, Past, Suspended
<1>7. ~Returned(t, call[t])
  BY <1>2, <1>4 DEF Returned
<1>8. c0 \notin M
  BY <1>7
<1>9. M \subseteq P /\ M # P
  <2>1. M \subseteq P
    BY DEF LetPast, Returned, Past
  <2> QED
    BY <1>6, <1>8, <2>1
<1>10. IsFiniteSet(P)
  BY <1>1, PassedFinite
<1> HIDE DEF M, P, side
<1>11. Cardinality(M) <= Cardinality(P) /\ Cardinality(M) # Cardinality(P)
  BY <1>9, <1>10, FS_Subset
<1>12. Cardinality(M) \in Nat /\ Cardinality(P) \in Nat
  BY <1>9, <1>10, FS_Subset, FS_CardinalityType
<1>13. Cardinality(M) < Cardinality(P)
  BY <1>11, <1>12
<1> QED
  BY <1>13 DEF M, P, side, Met

(* A slot that has one side ahead has its one sleeper, who has not returned. *)
LEMMA BalanceMeets == ASSUME ProgramsFit, HandInv, MatchInv PROVE NobodyMeetsNobody
<1> SUFFICES ASSUME NEW i \in Ids
             PROVE  Met("wait", i) <= Come("notify", i) /\ Met("notify", i) <= Come("wait", i)
  BY DEF NobodyMeetsNobody
<1>1. /\ Met("wait", i) \in Nat /\ Come("wait", i) \in Nat
      /\ Met("notify", i) \in Nat /\ Come("notify", i) \in Nat
      /\ Cardinality(LetPast("wait", i)) \in Nat
      /\ Cardinality(LetPast("notify", i)) \in Nat
      /\ Met("wait", i) <= Cardinality(LetPast("wait", i))
      /\ Met("notify", i) <= Cardinality(LetPast("notify", i))
      /\ Cardinality(LetPast("wait", i)) <= Come("wait", i)
      /\ Cardinality(LetPast("notify", i)) <= Come("notify", i)
  BY MetPassedCome, PassedFinite DEF HandInv
<1>2. /\ slots[i] \in Int
      /\ Cardinality(LetPast("wait", i)) = Cardinality(LetPast("notify", i)) + Ahead(slots[i])
  BY DEF MatchInv, Balance, HandInv, HandTypes
<1>3. CASE slots[i] = 0
  BY <1>1, <1>2, <1>3 DEF Ahead
<1>4. CASE slots[i] > 0
  <2>1. Met("wait", i) < Cardinality(LetPast("wait", i))
    BY <1>4, SleeperNotMet
  <2> QED
    BY <1>1, <1>2, <1>4, <2>1 DEF Ahead
<1>5. CASE slots[i] < 0
  <2>1. Met("notify", i) < Cardinality(LetPast("notify", i))
    <3>1. slots[i] # 0 /\ ~(slots[i] > 0)
      BY <1>2, <1>5
    <3> QED
      BY <3>1, SleeperNotMet
  <2> QED
    BY <1>1, <1>2, <1>5, <2>1 DEF Ahead
<1> QED
  BY <1>2, <1>3, <1>4, <1>5

(* Before the first call nobody has passed, and all slots are empty.       *)
LEMMA MatchInit == ASSUME ProgramsFit, HandInit PROVE MatchInv
<1>1. HandTypes
  BY HandInvInit DEF HandInv
<1>2. \A t \in Ids : call[t] = 0
  BY DEF HandInit
<1>3. ASSUME NEW side, NEW i PROVE LetPast(side, i) = {}
  BY <1>1, <1>2, CallsFinite DEF LetPast, Past
<1>4. Balance
  BY <1>3, FS_EmptySet DEF HandInit, Balance, Ahead
<1>5. RefusedOver
  BY DEF HandInit, RefusedOver
<1> QED
  BY <1>4, <1>5 DEF MatchInv

(***************************************************************************)
(* handshake.c: for any number of tasklets and any programs that keep to   *)
(* handshake.h, no more waits for i return 0 than notifications of i were  *)
(* begun, nor the other way round: nobody goes on alone.                   *)
(***************************************************************************)
THEOREM EveryoneMet == ASSUME ProgramsFit PROVE HandSpec => []NobodyMeetsNobody
<1>1. HandInit => HandInv /\ MatchInv
  BY HandInvInit, MatchInit
<1>2. HandInv /\ MatchInv /\ [HandNext]_handVars => HandInv' /\ MatchInv'
  BY HandInvNext, BalanceNext, RefusedNext DEF MatchInv
<1>3. HandInv /\ MatchInv => NobodyMeetsNobody
  BY BalanceMeets
<1> QED
  BY <1>1, <1>2, <1>3, PTL DEF HandSpec
-----------------------------------------------------------------------------
(***************************************************************************)
(* The chain of SCANSSA                                                    *)
(***************************************************************************)

(* Who has returned has made all calls.                                    *)
Ended == \A t \in Ids : pc[t] = "ebreak" => call[t] = Len(program[t])

(* Every slot has one waiter, hence none is refused.                       *)
ChainServed == program = Chain => refused = {}

ChainInv == Ended /\ ChainServed

(* A set of numbers that is not empty has a least.                         *)
LEMMA LeastTasklet ==
  ASSUME NEW A \in SUBSET Nat, A # {}
  PROVE  \E j \in A : \A k \in A : j <= k
<1> DEFINE R == OpToRel(<, Nat)
<1>1. IsWellFoundedOn(R, Nat)
  BY NatLessThanWellFounded
<1>2. \A x, y \in Nat : x < y => <<x, y>> \in R
  BY DEF OpToRel
<1> HIDE DEF R
<1>3. PICK j \in A : \A k \in A : <<k, j>> \notin R
  BY <1>1, WFMin
<1>4. \A k \in A : ~(k < j)
  BY <1>2, <1>3
<1> QED
  BY <1>4

(* A wait for the one before, then a notification.                         *)
LEMMA ChainShape ==
  ASSUME NEW t \in Ids
  PROVE  Chain[t] = IF t = 0 THEN (IF t = NrTasklets - 1 THEN <<>> ELSE <<Notify(t)>>)
                    ELSE (IF t = NrTasklets - 1 THEN <<WaitFor(t - 1)>>
                          ELSE <<WaitFor(t - 1), Notify(t)>>)
<1> DEFINE w == WaitFor(t - 1)
           n == Notify(t)
           A == {w, n}
<1>1. <<>> \in Seq(A) /\ <<w>> \in Seq(A) /\ <<n>> \in Seq(A)
  OBVIOUS
<1>2. Chain[t] = (IF t = 0 THEN <<>> ELSE <<w>>) \o (IF t = NrTasklets - 1 THEN <<>> ELSE <<n>>)
  BY DEF Chain
<1>3. <<w>> \o <<n>> = <<w, n>>
  <2>1. /\ <<w>> \o <<n>> \in Seq(A) /\ Len(<<w>> \o <<n>>) = 2
        /\ (<<w>> \o <<n>>)[1] = w /\ (<<w>> \o <<n>>)[2] = n
    BY <1>1, ConcatProperties
  <2>2. /\ <<w, n>> \in Seq(A) /\ Len(<<w, n>>) = 2
        /\ <<w, n>>[1] = w /\ <<w, n>>[2] = n
    OBVIOUS
  <2>3. \A r, s \in Seq(A) :
          Len(r) = Len(s) /\ (\A i \in 1 .. Len(r) : r[i] = s[i]) => r = s
    BY SeqEqual
  <2>4. \A i \in 1 .. 2 : (<<w>> \o <<n>>)[i] = <<w, n>>[i]
    BY <2>1, <2>2
  <2> HIDE DEF w, n, A
  <2> QED
    BY <2>1, <2>2, <2>3, <2>4
<1>4. <<>> \o <<>> = <<>> /\ <<>> \o <<n>> = <<n>> /\ <<w>> \o <<>> = <<w>>
  BY <1>1, ConcatEmptySeq
<1> QED
  BY <1>2, <1>3, <1>4

(* Its first call, unless it is tasklet 0's, and its last, unless it is    *)
(* the last tasklet's.                                                     *)
LEMMA ChainLength ==
  ASSUME NEW t \in Ids
  PROVE  /\ Len(Chain[t]) = (IF t = 0 THEN 0 ELSE 1) + (IF t = NrTasklets - 1 THEN 0 ELSE 1)
         /\ t # 0 => Chain[t][1] = WaitFor(t - 1)
         /\ t # NrTasklets - 1 => Chain[t][Len(Chain[t])] = Notify(t)
<1> DEFINE w == WaitFor(t - 1)
           n == Notify(t)
<1>1. /\ Len(<<>>) = 0 /\ Len(<<w>>) = 1 /\ Len(<<n>>) = 1 /\ Len(<<w, n>>) = 2
      /\ <<w>>[1] = w /\ <<n>>[1] = n /\ <<w, n>>[1] = w /\ <<w, n>>[2] = n
  OBVIOUS
<1>2. Chain[t] = IF t = 0 THEN (IF t = NrTasklets - 1 THEN <<>> ELSE <<n>>)
                 ELSE (IF t = NrTasklets - 1 THEN <<w>> ELSE <<w, n>>)
  BY ChainShape
<1> HIDE DEF w, n
<1>3. /\ Len(Chain[t]) = (IF t = 0 THEN 0 ELSE 1) + (IF t = NrTasklets - 1 THEN 0 ELSE 1)
      /\ t # 0 => Chain[t][1] = w
      /\ t # NrTasklets - 1 => Chain[t][Len(Chain[t])] = n
  BY <1>1, <1>2
<1> QED
  BY <1>3 DEF w, n

(* A call of the chain is one of the two.                                  *)
LEMMA ChainCall ==
  ASSUME NEW t \in Ids, NEW k \in 1 .. Len(Chain[t])
  PROVE  \/ /\ t # 0 /\ k = 1
            /\ Chain[t][k].op = "wait_for" /\ Chain[t][k].slot = t - 1
         \/ /\ t # NrTasklets - 1 /\ k = Len(Chain[t])
            /\ Chain[t][k].op = "notify" /\ Chain[t][k].slot = t
<1>1. /\ WaitFor(t - 1).op = "wait_for" /\ WaitFor(t - 1).slot = t - 1
      /\ Notify(t).op = "notify" /\ Notify(t).slot = t
  BY DEF WaitFor, Notify
<1>2. \/ t # 0 /\ k = 1
      \/ t # NrTasklets - 1 /\ k = Len(Chain[t])
  BY ChainLength
<1> QED
  BY <1>1, <1>2, ChainLength

(* One call on either side of each slot.                                   *)
LEMMA ChainCalls ==
  ASSUME program = Chain, NEW i \in Ids, i + 1 \in Ids
  PROVE  /\ Calls("wait", i) = {<<i + 1, 1>>}
         /\ Calls("notify", i) = {<<i, Len(Chain[i])>>}
<1>1. \A c : c \in UNION {{t} \X (1 .. Len(program[t])) : t \in Ids} <=>
               \E t \in Ids : \E k \in 1 .. Len(Chain[t]) : c = <<t, k>>
  OBVIOUS
<1>2. /\ NrTasklets \in Nat /\ i # NrTasklets - 1 /\ i + 1 # 0 /\ (i + 1) - 1 = i
      /\ i \in Int
  BY NrTaskletsAssumption DEF Ids
<1>3. ASSUME NEW t \in Ids, NEW k \in 1 .. Len(Chain[t]), Chain[t][k].slot = i
      PROVE  IF Chain[t][k].op = "wait_for" THEN t = i + 1 /\ k = 1
             ELSE t = i /\ k = Len(Chain[i])
  <2>1. t \in Int
    BY DEF Ids
  <2> QED
    BY <1>2, <1>3, <2>1, ChainCall
<1>4. /\ 1 \in 1 .. Len(Chain[i + 1]) /\ Len(Chain[i]) \in 1 .. Len(Chain[i])
      /\ Chain[i + 1][1].op = "wait_for" /\ Chain[i + 1][1].slot = i
      /\ Chain[i][Len(Chain[i])].op = "notify" /\ Chain[i][Len(Chain[i])].slot = i
  <2>1. Chain[i + 1][1] = WaitFor(i) /\ Chain[i][Len(Chain[i])] = Notify(i)
    BY <1>2, ChainLength
  <2>2. /\ WaitFor(i).op = "wait_for" /\ WaitFor(i).slot = i
        /\ Notify(i).op = "notify" /\ Notify(i).slot = i
    BY DEF WaitFor, Notify
  <2>3. 1 \in 1 .. Len(Chain[i + 1]) /\ Len(Chain[i]) \in 1 .. Len(Chain[i])
    BY <1>2, ChainLength
  <2> QED
    BY <2>1, <2>2, <2>3
<1>5. \A c : c \in Calls("wait", i) <=> c = <<i + 1, 1>>
  BY <1>1, <1>3, <1>4 DEF Calls
<1>6. \A c : c \in Calls("notify", i) <=> c = <<i, Len(Chain[i])>>
  BY <1>1, <1>3, <1>4 DEF Calls
<1> QED
  BY <1>5, <1>6

(* Nobody has called.                                                      *)
LEMMA ChainInit == ASSUME HandInit PROVE ChainInv
BY DEF HandInit, LaunchTasklets, ChainInv, Ended, ChainServed

(* Only HandReturn goes to the ebreak, after the last call.                *)
LEMMA EndedNext == ASSUME ProgramsFit, HandInv, Ended, [HandNext]_handVars PROVE Ended'
<1> USE DEF Ended, HandInv, HandTypes, Step, Runs, Goto, slotVars
<1>1. CASE HandLaunch
  BY <1>1 DEF HandLaunch, Relaunch
<1>2. ASSUME NEW t \in Ids, HandTasklet(t) PROVE Ended'
  <2>1. CASE Call(t)
    BY <2>1 DEF Call
  <2>2. CASE LockSlot(t) \/ ComeFirst(t) \/ ComeSecond(t) \/ Refuse(t)
    BY <2>2 DEF LockSlot, ComeFirst, ComeSecond, Refuse
  <2>3. CASE HandClear(t) \/ HandSleep(t) \/ WakeOther(t)
    BY <2>3 DEF HandClear, HandSleep, WakeOther, WakeOnce
  <2>4. CASE HandReturn(t)
    BY <2>4 DEF HandReturn, ReturnFromMain
  <2> QED
    BY <1>2, <2>1, <2>2, <2>3, <2>4 DEF HandTasklet
<1>3. CASE UNCHANGED handVars
  BY <1>3 DEF handVars
<1> QED
  BY <1>1, <1>2, <1>3 DEF HandNext

(* A tasklet at a slot on the waiters' side is the only one there is.      *)
LEMMA ChainWaiter ==
  ASSUME ProgramsFit, HandTypes, program = Chain, NEW t \in Ids, InCall(t)
  PROVE  IF Op(t) = "wait_for" THEN t # 0 /\ call[t] = 1 /\ Slot(t) = t - 1
         ELSE t # NrTasklets - 1 /\ call[t] = Len(Chain[t]) /\ Op(t) = "notify" /\ Slot(t) = t
<1>1. call[t] \in 1 .. Len(Chain[t])
  <2>1. Len(Chain[t]) \in Nat
    BY DEF ProgramsFit, HandTypes
  <2> QED
    BY <2>1 DEF HandTypes
<1> QED
  BY <1>1, ChainCall DEF Op, Slot

(* It would be refused by another waiter of its slot, and there is none.   *)
LEMMA ChainNotRefused ==
  ASSUME ProgramsFit, HandInv, program = Chain, NEW t \in Ids
  PROVE  ~Refuse(t)
<1> SUFFICES ASSUME Refuse(t) PROVE FALSE
  OBVIOUS
<1>1. pc[t] = "look" /\ Op(t) # "notify" /\ SameSide(t, slots[Slot(t)])
  BY DEF Refuse, Step, Runs
<1>2. InCall(t) /\ ~Suspended(t)
  BY <1>1 DEF InCall, Suspended
<1>3. Op(t) = "wait_for" /\ Slot(t) = t - 1 /\ Slot(t) \in Ids
  BY <1>1, <1>2, ChainWaiter, CallKnown DEF HandInv
<1>4. slots[Slot(t)] > 0
  BY <1>1, <1>3 DEF SameSide
<1>5. PICK u \in Ids : Suspended(u) /\ Slot(u) = Slot(t) /\ slots[Slot(t)] = Mark(u)
  BY <1>3, <1>4 DEF HandInv, Marked
<1>6. Op(u) = "wait_for"
  BY <1>4, <1>5, Marks
<1>7. Slot(u) = u - 1
  BY <1>5, <1>6, ChainWaiter DEF HandInv, InCall
<1>8. u = t
  BY <1>3, <1>5, <1>7 DEF Ids
<1> QED
  BY <1>2, <1>5, <1>8

(* So refused stays empty.                                                 *)
LEMMA ChainServedNext ==
  ASSUME ProgramsFit, HandInv, ChainServed, [HandNext]_handVars PROVE ChainServed'
<1> SUFFICES ASSUME program' = Chain PROVE refused' = {}
  BY DEF ChainServed
<1>1. program' = program
  BY DEF HandNext, handVars, HandLaunch, HandTasklet, Call, LockSlot, ComeFirst, ComeSecond, Refuse,
         HandClear, HandSleep, WakeOther, HandReturn
<1>2. refused = {} /\ program = Chain
  BY <1>1 DEF ChainServed
<1>3. CASE \E t \in Ids : Refuse(t)
  BY <1>2, <1>3, ChainNotRefused
<1>4. CASE ~\E t \in Ids : Refuse(t)
  BY <1>2, <1>4 DEF HandNext, handVars, HandLaunch, HandTasklet, Call, LockSlot, ComeFirst,
                    ComeSecond, HandClear, HandSleep, WakeOther, HandReturn
<1> QED
  BY <1>3, <1>4

(* When no run bit is left, whoever has not returned sleeps in its slot.   *)
LEMMA AllAsleep ==
  ASSUME ProgramsFit, HandInv, Stopped, NEW t \in Ids, pc[t] # "ebreak"
  PROVE  /\ Suspended(t) /\ InCall(t) /\ Slot(t) \in Ids /\ slots[Slot(t)] = Mark(t)
         /\ pc[t] = "main" /\ call[t] \in Nat /\ call[t] > 0
<1>1. \A u \in Ids : pc[u] \in {"main", "ebreak"}
  BY DEF Stopped, HandInv, HandResting
<1>2. \A w \in Ids : waking[w] = {}
  BY <1>1 DEF HandInv, Woken
<1>3. pc[t] = "main" /\ Suspended(t) /\ InCall(t)
  BY <1>1 DEF Suspended, Stopped, InCall
<1> QED
  BY <1>2, <1>3, CallKnown DEF HandInv, Accounted, HandTypes

(* A slot of the chain that is one ahead has let the other side's only     *)
(* call not past.                                                          *)
LEMMA ChainBalance ==
  ASSUME ProgramsFit, HandInv, Balance, program = Chain, refused = {},
         NEW i \in Ids, i + 1 \in Ids, slots[i] # 0
  PROVE  /\ slots[i] > 0 => ~Past(i, Len(Chain[i]))
         /\ slots[i] < 0 => ~Past(i + 1, 1)
<1>1. /\ LetPast("wait", i) = IF Past(i + 1, 1) THEN {<<i + 1, 1>>} ELSE {}
      /\ LetPast("notify", i) = IF Past(i, Len(Chain[i])) THEN {<<i, Len(Chain[i])>>} ELSE {}
  BY ChainCalls DEF LetPast
<1>2. \A x : Cardinality({x}) = 1
  BY FS_Singleton
<1>3. Cardinality({}) = 0
  BY FS_EmptySet
<1>4. /\ Cardinality(LetPast("wait", i)) = IF Past(i + 1, 1) THEN 1 ELSE 0
      /\ Cardinality(LetPast("notify", i)) = IF Past(i, Len(Chain[i])) THEN 1 ELSE 0
  BY <1>1, <1>2, <1>3
<1>5. slots[i] \in Int
  BY DEF HandInv, HandTypes
<1>6. Cardinality(LetPast("wait", i)) = Cardinality(LetPast("notify", i)) + Ahead(slots[i])
  BY DEF Balance
<1> QED
  BY <1>4, <1>5, <1>6 DEF Ahead

(***************************************************************************)
(* SCANSSA.c with handshake.c: whoever sleeps in the chain waits for the   *)
(* one before, so the first of them waits for nobody.                      *)
(***************************************************************************)
LEMMA ChainDone ==
  ASSUME ProgramsFit, HandInv, MatchInv, ChainInv, program = Chain PROVE StopsOnlyWhenDone
<1> SUFFICES ASSUME Stopped, NEW t \in Ids, pc[t] # "ebreak" PROVE FALSE
  BY DEF StopsOnlyWhenDone
<1>1. refused = {}
  BY DEF ChainInv, ChainServed
<1> DEFINE W == {u \in Ids : pc[u] # "ebreak" /\ Op(u) = "wait_for"}
<1>2. ASSUME NEW u \in W PROVE u - 1 \in W
  <2>1. /\ InCall(u) /\ slots[Slot(u)] = Mark(u) /\ Op(u) = "wait_for" /\ u \in Ids
        /\ Slot(u) \in Ids
    BY AllAsleep
  <2>2. Slot(u) = u - 1 /\ slots[u - 1] > 0 /\ u - 1 \in Ids /\ (u - 1) + 1 = u
    BY <2>1, ChainWaiter, Marks DEF HandInv, Ids
  <2>3. PICK v \in Ids : v = u - 1
    BY <2>2
  <2>4. ~Past(v, Len(Chain[v]))
    BY <1>1, <2>1, <2>2, <2>3, ChainBalance DEF MatchInv
  <2>5. pc[v] # "ebreak"
    <3>1. Past(v, Len(Chain[v])) \/ call[v] # Len(Chain[v]) \/ pc[v] # "ebreak"
      BY <1>1 DEF Past
    <3> QED
      BY <2>4, <3>1 DEF ChainInv, Ended
  <2>6. InCall(v) /\ pc[v] = "main" /\ call[v] \in Nat
    BY <2>5, AllAsleep
  <2>7. call[v] # Len(Chain[v])
    BY <1>1, <2>4, <2>6 DEF Past
  <2>8. Op(v) = "wait_for"
    BY <2>6, <2>7, ChainWaiter DEF HandInv
  <2> QED
    BY <2>3, <2>5, <2>8
<1>3. W = {}
  <2> SUFFICES ASSUME W # {} PROVE FALSE
    OBVIOUS
  <2>1. W \in SUBSET Nat
    BY DEF Ids
  <2>2. PICK m \in W : \A k \in W : m <= k
    BY <2>1, LeastTasklet
  <2> QED
    BY <1>2, <2>1, <2>2
<1>4. /\ InCall(t) /\ slots[Slot(t)] = Mark(t) /\ Op(t) # "wait_for" /\ Slot(t) \in Ids
  BY <1>3, AllAsleep
<1>5. /\ Slot(t) = t /\ slots[t] < 0 /\ t + 1 \in Ids
  <2>1. Slot(t) = t /\ t # NrTasklets - 1
    BY <1>4, ChainWaiter DEF HandInv
  <2>2. slots[t] < 0
    BY <1>4, <2>1 DEF Mark, Ids
  <2> QED
    BY <2>1, <2>2, NrTaskletsAssumption DEF Ids
<1>6. PICK v \in Ids : v = t + 1
  BY <1>5
<1>7. ~Past(v, 1)
  BY <1>1, <1>5, <1>6, ChainBalance DEF MatchInv
<1>8. v # 0 /\ Len(Chain[v]) >= 1 /\ Len(Chain[v]) \in Nat
  BY <1>6, ChainLength DEF Ids
<1>9. pc[v] # "ebreak"
  <2>1. Past(v, 1) \/ call[v] # Len(Chain[v]) \/ pc[v] # "ebreak"
    BY <1>1, <1>8 DEF Past
  <2> QED
    BY <1>7, <2>1 DEF ChainInv, Ended
<1>10. call[v] > 0 /\ call[v] \in Nat /\ pc[v] = "main"
  BY <1>9, AllAsleep
<1> QED
  BY <1>1, <1>7, <1>10 DEF Past
(***************************************************************************)
(* SCANSSA.c: the chain of waits and notifications never stops with a      *)
(* tasklet asleep, for any number of tasklets and launches.                *)
(***************************************************************************)
THEOREM ChainEnds == ASSUME ProgramsFit PROVE HandSpec => [](program = Chain => StopsOnlyWhenDone)
<1>1. HandInit => HandInv /\ MatchInv /\ ChainInv
  BY HandInvInit, MatchInit, ChainInit
<1>2. HandInv /\ MatchInv /\ ChainInv /\ [HandNext]_handVars => HandInv' /\ MatchInv' /\ ChainInv'
  BY HandInvNext, BalanceNext, RefusedNext, EndedNext, ChainServedNext DEF MatchInv, ChainInv
<1>3. HandInv /\ MatchInv /\ ChainInv => (program = Chain => StopsOnlyWhenDone)
  BY ChainDone
<1> QED
  BY <1>1, <1>2, <1>3, PTL DEF HandSpec

-----------------------------------------------------------------------------
(***************************************************************************)
(* The primitives in one system                                            *)
(***************************************************************************)

Parts == {"semaphore", "handshake", "barrier"}

(* The invariant of the primitive in use; the semaphore is as set up while *)
(* another one is.                                                         *)
SyncInv ==
  /\ part \in Parts
  /\ IF part = "semaphore" THEN SemInv ELSE NoSem
  /\ part = "handshake" => HandInv /\ MatchInv /\ ChainInv
  /\ part = "barrier" => BarInv

(* One primitive is set up, the others are not there.                      *)
LEMMA SyncInit == ASSUME Rounds \in Nat, MCInit PROVE SyncInv
<1>1. CASE part = "semaphore" /\ SemInit
  BY <1>1, SemInvInit DEF SyncInv, Parts
<1>2. CASE part = "handshake" /\ HandInit /\ NoSem
  BY <1>2, HandInvInit, MatchInit, ChainInit, ProgramsAssumption DEF SyncInv, Parts
<1>3. CASE part = "barrier" /\ BarInit /\ NoSem
  BY <1>3, BarInvInit DEF SyncInv, Parts
<1> QED
  BY <1>1, <1>2, <1>3 DEF MCInit

(* A step is one of the primitive in use.                                  *)
LEMMA SyncStep ==
  ASSUME [MCNext]_syncVars
  PROVE  /\ part' = part
         /\ part = "semaphore" => [SemNext]_semVars
         /\ part = "handshake" => [HandNext]_handVars
         /\ part = "barrier" => [BarNext]_barVars
         /\ part # "semaphore" => UNCHANGED semOwn
<1>1. CASE UNCHANGED syncVars
  BY <1>1 DEF syncVars, taskletVars, semOwn, semFields, handOwn, slotVars, barOwn,
                   semVars, handVars, barVars
<1>2. CASE SemStep(SemLaunch) \/ \E t \in Ids : SemStep(SemTasklet(t))
  BY <1>2 DEF SemStep, SemNext
<1>3. CASE HandStep(HandLaunch) \/ \E t \in Ids : HandStep(HandTasklet(t))
  BY <1>3 DEF HandStep, HandNext
<1>4. CASE BarStep(BarLaunch) \/ \E t \in Ids : BarStep(BarTasklet(t))
  BY <1>4 DEF BarStep, BarNext
<1> QED
  BY <1>1, <1>2, <1>3, <1>4 DEF MCNext, Work

(* What the components' lemmas keep, the system keeps.                     *)
LEMMA SyncNext == ASSUME Rounds \in Nat, SyncInv, [MCNext]_syncVars PROVE SyncInv'
<1>1. CASE part = "semaphore"
  BY <1>1, SyncStep, SemInvNext DEF SyncInv
<1>2. CASE part = "handshake"
  <2>1. HandInv' /\ Balance' /\ RefusedOver' /\ Ended' /\ ChainServed'
    BY <1>2, SyncStep, HandInvNext, BalanceNext, RefusedNext, EndedNext, ChainServedNext,
       ProgramsAssumption
       DEF SyncInv, ChainInv
  <2>2. NoSem'
    BY <1>2, SyncStep DEF SyncInv, NoSem, semOwn, semFields
  <2> QED
    BY <1>2, <2>1, <2>2, SyncStep DEF SyncInv, MatchInv, ChainInv
<1>3. CASE part = "barrier"
  <2>1. NoSem'
    BY <1>3, SyncStep DEF SyncInv, NoSem, semOwn, semFields
  <2> QED
    BY <1>3, <2>1, SyncStep, BarInvNext DEF SyncInv
<1> QED
  BY <1>1, <1>2, <1>3 DEF SyncInv, Parts

LEMMA SyncInvariance == ASSUME Rounds \in Nat PROVE MCSpec => []SyncInv
BY SyncInit, SyncNext, PTL DEF MCSpec

(***************************************************************************)
(* handshake.c: no more calls on one side of a slot return 0 than the      *)
(* other side has begun.                                                   *)
(***************************************************************************)
THEOREM SyncMeets == ASSUME Rounds \in Nat PROVE MCSpec => []WaitsMeetNotifies
<1>1. SyncInv => WaitsMeetNotifies
  BY BalanceMeets, ProgramsAssumption DEF SyncInv, WaitsMeetNotifies
<1> QED
  BY <1>1, SyncInvariance, PTL

(***************************************************************************)
(* handshake.c: a sleeper is named by its slot, or by the one tasklet that *)
(* is waking it.                                                           *)
(***************************************************************************)
THEOREM SyncTells == ASSUME Rounds \in Nat PROVE MCSpec => []SlotsTellSleepers
<1>1. SyncInv => SlotsTellSleepers
  BY NamedOnce, ProgramsAssumption DEF SyncInv, SlotsTellSleepers
<1> QED
  BY <1>1, SyncInvariance, PTL

(***************************************************************************)
(* barrier.c: whenever the metadata is free, counter and mask describe the *)
(* tasklets that sleep in the barrier.                                     *)
(***************************************************************************)
THEOREM SyncCounts == ASSUME Rounds \in Nat PROVE MCSpec => []CountTellsSleepers
<1>1. SyncInv => CountTellsSleepers
  BY CountAgrees DEF SyncInv, CountTellsSleepers
<1> QED
  BY <1>1, SyncInvariance, PTL

(***************************************************************************)
(* semaphore.c: units are conserved, and nobody sleeps next to one.        *)
(***************************************************************************)
THEOREM SyncUnits == ASSUME Rounds \in Nat PROVE MCSpec => [](UnitsConserved /\ NobodyWaitsInVain)
<1>1. ASSUME SyncInv, part # "semaphore" PROVE UnitsConserved /\ NobodyWaitsInVain
  <2>1. HandedOver = {}
    BY <1>1 DEF SyncInv, Parts, HandInv, HandTypes, Labels, BarInv, Types, HandedOver
  <2>2. currentCount = MaxCount /\ holders = {} /\ waitingMask = {}
    BY <1>1 DEF SyncInv, NoSem
  <2>3. Cardinality(holders) = 0 /\ Cardinality(HandedOver) = 0
    BY <2>1, <2>2, FS_EmptySet
  <2> QED
    BY <2>2, <2>3, MaxCountAssumption DEF UnitsConserved, NobodyWaitsInVain
<1>2. SyncInv => UnitsConserved /\ NobodyWaitsInVain
  BY <1>1 DEF SyncInv, SemInv
<1> QED
  BY <1>2, SyncInvariance, PTL

(***************************************************************************)
(* A pool of units, a barrier and SCANSSA's chain: the run ends only when  *)
(* every tasklet has returned from main.                                   *)
(***************************************************************************)
THEOREM SyncStops == ASSUME Rounds \in Nat PROVE MCSpec => []StopsWhenDone
<1>1. SyncInv => StopsWhenDone
  BY SemDone, BarDone, ChainDone, ProgramsAssumption DEF SyncInv, StopsWhenDone
<1> QED
  BY <1>1, SyncInvariance, PTL

================================================================================
