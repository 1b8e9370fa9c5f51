------------------------------ MODULE MCDeviceSync ------------------------------
(* The blocking primitives of the device library that share nothing but the   *)
(* tasklets' sleep: the semaphore, the handshake under two client programs,   *)
(* and barrier_t.  "part" is the one the tasklets use.                        *)
EXTENDS Semaphore, Handshake, CountingBarrier

VARIABLE part

semOwn == <<semFields, holders, calls>>
handOwn == <<program, slotVars, call, refused>>
barOwn == <<barMeta, barCount, sleepingMask, arrived>>
syncVars == <<part, taskletVars, semOwn, handOwn, barOwn>>

WaitFor(i) == [op |-> "wait_for", slot |-> i]
NotifyFor(i) == [op |-> "notify_for", slot |-> i]
Notify(t) == [op |-> "notify", slot |-> t]

\* devApp/SCANSSA.c: each tasklet waits for the one before it and then
\* notifies the one behind it.
Chain ==
  [t \in Ids |->
     (IF t = 0 THEN <<>> ELSE <<WaitFor(t - 1)>>)
       \o (IF t = NrTasklets - 1 THEN <<>> ELSE <<Notify(t)>>)]

\* Several tasklets on both sides of one slot; which calls are refused, and
\* who is left waiting at the end, depends on the interleaving.
Crowd ==
  [t \in Ids |->
     CASE t = 0 -> <<NotifyFor(0), NotifyFor(0)>>
       [] t = 1 -> <<WaitFor(0), WaitFor(0)>>
       [] OTHER -> <<WaitFor(0), NotifyFor(0)>>]

ClientPrograms == {Chain, Crowd}

ASSUME ProgramsAssumption == ProgramsFit

NoSem == meta = FALSE /\ currentCount = MaxCount /\ waitingMask = {} /\ holders = {} /\ calls = <<>>
NoHand == program = <<>> /\ slots = <<>> /\ csr7 = {} /\ call = <<>> /\ refused = {}
NoBar == barMeta = FALSE /\ barCount = 0 /\ sleepingMask = {} /\ arrived = <<>>

MCInit ==
  \/ part = "semaphore" /\ SemInit /\ NoHand /\ NoBar
  \/ part = "handshake" /\ HandInit /\ NoSem /\ NoBar
  \/ part = "barrier" /\ BarInit /\ NoSem /\ NoHand

SemStep(A) == part = "semaphore" /\ A /\ UNCHANGED <<part, handOwn, barOwn>>
HandStep(A) == part = "handshake" /\ A /\ UNCHANGED <<part, semOwn, barOwn>>
BarStep(A) == part = "barrier" /\ A /\ UNCHANGED <<part, semOwn, handOwn>>

Work(t) ==
  \/ SemStep(SemTasklet(t))
  \/ HandStep(HandTasklet(t))
  \/ BarStep(BarTasklet(t))

MCNext ==
  \/ SemStep(SemLaunch) \/ HandStep(HandLaunch) \/ BarStep(BarLaunch)
  \/ \E t \in Ids : Work(t)

MCSpec == MCInit /\ [][MCNext]_syncVars /\ \A t \in Ids : WF_syncVars(Work(t))
--------------------------------------------------------------------------------
\* handshake.c: a call that returns 0 met its counterpart.
WaitsMeetNotifies == part = "handshake" => NobodyMeetsNobody

\* handshake.c: a slot names the one tasklet that sleeps for it.
SlotsTellSleepers == part = "handshake" => SlotsNameSleepers

\* barrier.c: the counter and the mask describe the same tasklets.
CountTellsSleepers == part = "barrier" => CountMatchesSleepers

\* A program whose clients give back what they take, or whose waits and
\* notifications agree, or whose tasklets pass the same barriers, leaves
\* nobody asleep: RvDpuRun stops only when all have returned.
StopsWhenDone ==
  part \in {"semaphore", "barrier"} \/ (part = "handshake" /\ program = Chain) =>
    StopsOnlyWhenDone

\* barrier.c: nobody is through before all have come.
Gather == INSTANCE Rendezvous WITH
          Threads <- Ids, GroupOf <- [t \in Ids |-> Ids],
          entered <- IF part = "barrier" THEN arrived ELSE [t \in Ids |-> 0],
          left <- IF part = "barrier" THEN [t \in Ids |-> Passed(t)]
                  ELSE [t \in Ids |-> 0]

BarIsBarrier == Gather!Spec

\* Every launch ends: nobody wakes for ever a tasklet that will not sleep.
EveryProgramEnds == []<>Stopped

================================================================================
