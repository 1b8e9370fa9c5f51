------------------------------ MODULE Rendezvous ------------------------------
(***************************************************************************)
(* What a reusable barrier promises to groups of threads: nobody leaves a  *)
(* round before everybody of its group has entered that round, and         *)
(* everybody leaves once they all have.                                    *)
(***************************************************************************)
EXTENDS Integers

CONSTANTS Threads,
          GroupOf,   \* the threads each thread meets, itself included
          Rounds     \* rounds before everything starts afresh

VARIABLES entered, left   \* rounds each thread has entered and left

meetVars == <<entered, left>>

Init == entered = [t \in Threads |-> 0] /\ left = [t \in Threads |-> 0]

Enter(t) ==
  /\ entered[t] = left[t]
  /\ entered[t] < Rounds
  /\ entered' = [entered EXCEPT ![t] = @ + 1]
  /\ UNCHANGED left

\* Several may leave in one step.
Leave(S) ==
  /\ \A t \in S : left[t] < entered[t]
  /\ \A t \in S : \A u \in GroupOf[t] : entered[u] >= entered[t]
  /\ left' = [t \in Threads |-> IF t \in S THEN left[t] + 1 ELSE left[t]]
  /\ UNCHANGED entered

Restart ==
  /\ \A t \in Threads : left[t] = Rounds
  /\ entered' = [t \in Threads |-> 0]
  /\ left' = [t \in Threads |-> 0]

Next ==
  \/ Restart
  \/ \E t \in Threads : Enter(t)
  \/ \E S \in (SUBSET Threads) \ {{}} : Leave(S)

LeaveWith(t) == \E S \in SUBSET Threads : t \in S /\ Leave(S)

Spec == Init /\ [][Next]_meetVars /\ \A t \in Threads : WF_meetVars(LeaveWith(t))

=============================================================================
