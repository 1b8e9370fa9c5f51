------------------------------- MODULE FifoLock -------------------------------
(***************************************************************************)
(* What a sleeping mutex promises: requests are served in the order in     *)
(* which they were made, one owner at a time, and the next in line is      *)
(* always let in after a release.                                          *)
(***************************************************************************)
EXTENDS Sequences, Integers

CONSTANT Threads

VARIABLES line,     \* those that asked and have not released, in order
          granted   \* the first in line has been let in

lockVars == <<line, granted>>

InLine == {line[i] : i \in 1 .. Len(line)}

Init == line = <<>> /\ granted = FALSE

\* Asking for a free lock takes it; asking for a busy one queues behind.
Request(t) ==
  /\ t \notin InLine
  /\ line' = Append(line, t)
  /\ granted' = (granted \/ line = <<>>)

Release(t) ==
  /\ line # <<>>
  /\ granted
  /\ t = Head(line)
  /\ line' = Tail(line)
  /\ granted' = FALSE

Grant ==
  /\ line # <<>>
  /\ ~granted
  /\ granted' = TRUE
  /\ UNCHANGED line

Next == Grant \/ \E t \in Threads : Request(t) \/ Release(t)

Spec == Init /\ [][Next]_lockVars /\ WF_lockVars(Grant)

=============================================================================
