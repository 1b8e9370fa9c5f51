----------------------------- MODULE KnownBarrier -----------------------------
(***************************************************************************)
(* known_barrier_wait of rvisa/ummrv-rt/barrier.c: the barrier "for        *)
(* predetermined thread sets" that keeps no object in memory.  Whoever     *)
(* arrives sets its bit in CSR 8, learns in the same instruction who was   *)
(* there before, and is the last one if that completes its mask.  The last *)
(* one clears CSR 8 and only then wakes the others, who may arrive again   *)
(* while it still retries the stragglers.                                  *)
(*                                                                         *)
(* Every tasklet t passes Rounds barriers with the mask MaskOf[t] and      *)
(* returns; the host launches the program again.                           *)
(***************************************************************************)
EXTENDS Tasklets

CONSTANTS MaskOf,    \* thread_mask each tasklet passes
          Rounds     \* bound: barriers in the program

ASSUME MaskAssumption ==
  /\ MaskOf \in [Ids -> SUBSET Ids]
  /\ \A t \in Ids : t \in MaskOf[t]
ASSUME RoundsAssumption == Rounds \in Nat

VARIABLES csr8,      \* the bits set in CSR 8
          arrived    \* calls each tasklet has begun in this launch

vars == <<running, pc, waking, csr8, arrived>>

Init ==
  /\ LaunchTasklets("main")
  /\ csr8 = {}
  /\ arrived = [t \in Ids |-> 0]

\* Mutant: the arrival waits for nobody once all bits but one are set.
ArriveOneShort(t) ==
  LET last == Cardinality(MaskOf[t] \ (csr8 \cup {t})) <= 1
  IN  /\ arrived[t] < Rounds
      /\ Step(t, "main", IF last THEN "reset" ELSE "halt")
      /\ csr8' = csr8 \cup {t}
      /\ waking' = [waking EXCEPT ![t] = IF last THEN csr8 ELSE {}]
      /\ arrived' = [arrived EXCEPT ![t] = @ + 1]
      /\ UNCHANGED running

Arrive(t) ==
  LET last == MaskOf[t] = csr8 \cup {t}
  IN  /\ arrived[t] < Rounds
      /\ Step(t, "main", IF last THEN "reset" ELSE "halt")
      /\ csr8' = csr8 \cup {t}
      /\ waking' = [waking EXCEPT ![t] = IF last THEN csr8 ELSE {}]
      /\ arrived' = [arrived EXCEPT ![t] = @ + 1]
      /\ UNCHANGED running

\* Mutant: the word is not cleared for the next use.
ResetForgotten(t) ==
  /\ Step(t, "reset", "wake")
  /\ UNCHANGED <<running, waking, csr8, arrived>>

Reset(t) ==
  /\ Step(t, "reset", "wake")
  /\ csr8' = {}
  /\ UNCHANGED <<running, waking, arrived>>

WakeOthers(t) ==
  /\ WakeOnce(t, "wake", "main")
  /\ UNCHANGED <<csr8, arrived>>

Sleep(t) ==
  /\ Step(t, "halt", "main")
  /\ Halt(t)
  /\ UNCHANGED <<waking, csr8, arrived>>

Return(t) ==
  /\ arrived[t] = Rounds
  /\ ReturnFromMain(t, "main")
  /\ UNCHANGED <<csr8, arrived>>

Launch ==
  /\ Relaunch("main")
  /\ arrived' = [t \in Ids |-> 0]
  /\ UNCHANGED csr8

Tasklet(t) == Arrive(t) \/ Reset(t) \/ WakeOthers(t) \/ Sleep(t) \/ Return(t)

Next == Launch \/ \E t \in Ids : Tasklet(t)

Spec == Init /\ [][Next]_vars /\ \A t \in Ids : WF_vars(Tasklet(t))

-----------------------------------------------------------------------------
\* It has arrived and has not been woken yet.
Waiting(t) == pc[t] = "halt" \/ (pc[t] = "main" /\ t \notin running)

\* Barriers the tasklet is through.
Passed(t) ==
  IF Waiting(t) \/ pc[t] \in {"reset", "wake"} THEN arrived[t] - 1 ELSE arrived[t]

Labels == {"main", "halt", "reset", "wake", "ebreak"}

\* The values the variables range over.
TypeOK ==
  /\ running \in SUBSET Ids
  /\ pc \in [Ids -> Labels]
  /\ waking \in [Ids -> SUBSET Ids]
  /\ csr8 \in SUBSET Ids
  /\ arrived \in [Ids -> 0 .. Rounds]

(***************************************************************************)
(* Nobody is through a barrier at which somebody of its mask has still to  *)
(* arrive, however far the woken ones run ahead of the wake loop.          *)
(***************************************************************************)
NobodyPassesEarly ==
  \A t \in Ids : \A u \in MaskOf[t] : Passed(t) <= arrived[u]

(***************************************************************************)
(* The whole promise: nobody early, and everybody gets through.            *)
(***************************************************************************)
Meet == INSTANCE Rendezvous WITH
          Threads <- Ids, GroupOf <- MaskOf,
          entered <- arrived, left <- [t \in Ids |-> Passed(t)]

IsBarrier == Meet!Spec

=============================================================================
