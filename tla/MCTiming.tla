-------------------------------- MODULE MCTiming --------------------------------
(* The timing model of a DPU.  "part" is what a behaviour looks at: the issue   *)
(* logic under any answers of the memory, the memory under any requests, or     *)
(* both together, as RvTimingCycle calls them: the memory catches up, then one  *)
(* logic cycle issues, pushes the transfer that was issued and takes out what   *)
(* has become ready; when nobody runs any more, neither clock goes on.          *)
EXTENDS IssueTiming, MramTiming

VARIABLE part

ASSUME ThreadsAssumption == \A n \in TaskletCounts : 0 .. n - 1 \subseteq Threads

issueVars == <<isa, nrTasklets, running, outside, lastIssue, age, pipe, since>>
allVars == <<part, issueVars, blocked, mt, memLeft>>

\* Tasklet 0 collides in the even bank whenever it runs, tasklet 1 with what
\* it wrote before, tasklet 2 for UPMEM only (r0 of RISC-V is in no bank).
MCInstrs ==
  [t \in 0 .. 2 |->
     CASE t = 0 -> {[reads |-> {2, 4}, writes |-> {1}]}
       [] t = 1 -> {[reads |-> {0, 3}, writes |-> {5}]}
       [] t = 2 -> {[reads |-> {0, 2}, writes |-> {0}]}]

\* begin addresses and lengths: an unaligned transfer that ends in the third
\* row while another one asks for the second, and an empty one.
MCRequests == {<<12, 24>>, <<16, 16>>, <<0, 0>>}

\* The clocks of the .cfg are scaled down; what is kept of the real values is
\* TBl < TCl < TRas and MemPerLogic <= TBl + 1, the distance of two reports.

\* Three tasklets for the issue logic alone, two with the memory behind them.
MCInit ==
  /\ Init /\ MemInit
  /\ \/ part = "issue" /\ nrTasklets = 3
     \/ part = "memory" /\ isa = Simulator /\ nrTasklets = 3
     \/ part = "both" /\ isa = Simulator /\ nrTasklets = 2

\* The two sides agree on who is blocked: by the transfer issued in this cycle
\* if there is one, and until the memory reports it.
LogicCycle ==
  /\ Cycle
  /\ IssueOther \/ \E t \in Ids : IssueDma(t)

Clock ==
  \/ part = "issue" /\ Cycle /\ UNCHANGED <<part, mt, memLeft>>
  \/ part = "memory" /\ MemNext /\ UNCHANGED <<part, issueVars>>
  \/ part = "both" /\ ~Stopped /\ MemoryCycle /\ UNCHANGED <<part, issueVars>>
  \/ part = "both" /\ LogicCycle /\ UNCHANGED part

NextRun == part # "memory" /\ Launch /\ UNCHANGED <<part, mt, memLeft>>

MCNext == Clock \/ NextRun

MCSpec == MCInit /\ [][MCNext]_allVars /\ WF_allVars(Clock)
---------------------------------------------------------------------------------
\* mramTiming.c:178: no completion overwrites one that was not taken out.
NoThreadForgotten == part # "issue" => NobodyForgotten

\* timing.c:104: no runnable tasklet is passed over for ever, but for one whose
\* pc has left the instruction table; with the memory, neither is one that waits
\* for transfers.
EveryTaskletIssues ==
  \A t \in Threads : []<>CASE part = "issue" -> Served(t)
                           [] part = "both" -> t \notin running \ outside \/ since[t] = 0
                           [] OTHER -> TRUE

\* mramTiming.c:108: every transfer ends, whatever the others ask for.
EveryTransferEnds == \A t \in Threads : []<>(part = "issue" \/ t \notin blocked)

=================================================================================
