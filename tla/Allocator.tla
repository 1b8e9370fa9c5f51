------------------------------- MODULE Allocator -------------------------------
(***************************************************************************)
(* mem_alloc and mem_reset of rvisa/ummrv-rt/alloc.c, as the kernels of    *)
(* devApp/TRNS.c, TS.c and MLP.c use them: tasklet 0 moves the heap        *)
(* pointer back to the bottom, all tasklets meet in known_barrier_wait,    *)
(* and then each asks for its buffers.  mem_reset takes no lock; the       *)
(* barrier is what keeps it apart from the calls of mem_alloc.             *)
(*                                                                         *)
(* The pointer is in WRAM and survives a launch.  Addresses count from the *)
(* end of the program's own data; nothing checks where the WRAM ends.      *)
(***************************************************************************)
EXTENDS KnownBarrier, Sequences

CONSTANT Kernels      \* the sizes that each tasklet of a kernel asks for

VARIABLES kernel,     \* the kernel of this launch
          heapPtr,
          heapLock,   \* bit 31 of Csr[0]
          result,     \* the pointer mem_alloc has in a register
          blocks      \* the blocks each tasklet has got in this launch

heapVars == <<kernel, heapPtr, heapLock, result, blocks>>
allocVars == <<vars, heapVars>>

NoBlocks == [t \in Ids |-> <<>>]

HeapInit ==
  /\ LaunchTasklets("start")
  /\ csr8 = {} /\ arrived = [t \in Ids |-> 0]
  /\ kernel \in Kernels /\ blocks = NoBlocks
  /\ heapPtr = 0 /\ heapLock = FALSE
  /\ result = [t \in Ids |-> 0]

\* Tasklet 0's mem_reset; the others go straight to the barrier.
MemReset(t) ==
  /\ Step(t, "start", "main")
  /\ heapPtr' = IF t = 0 THEN 0 ELSE heapPtr
  /\ UNCHANGED <<running, waking, csr8, arrived, kernel, heapLock, result, blocks>>

Meeting(t) ==
  /\ Arrive(t) \/ Reset(t) \/ WakeOthers(t) \/ Sleep(t)
  /\ UNCHANGED heapVars

\* The buffers the tasklet has still to ask for.
Wants(t) == arrived[t] = Rounds /\ Len(blocks[t]) < Len(kernel)
Size(t) == kernel[Len(blocks[t]) + 1]

\* Mutant: the old value of the bit is not looked at.
AllocTestAndSetBlind(t) ==
  /\ Wants(t) /\ Step(t, "main", "load")
  /\ heapLock' = TRUE
  /\ UNCHANGED <<running, waking, csr8, arrived, kernel, heapPtr, result, blocks>>

AllocTestAndSet(t) ==
  /\ Wants(t) /\ Step(t, "main", IF heapLock THEN "main" ELSE "load")
  /\ heapLock' = TRUE
  /\ UNCHANGED <<running, waking, csr8, arrived, kernel, heapPtr, result, blocks>>

AllocLoad(t) ==
  /\ Step(t, "load", "store")
  /\ result' = [result EXCEPT ![t] = heapPtr]
  /\ UNCHANGED <<running, waking, csr8, arrived, kernel, heapPtr, heapLock, blocks>>

AllocStore(t) ==
  /\ Step(t, "store", "clear")
  /\ heapPtr' = result[t] + Size(t)
  /\ UNCHANGED <<running, waking, csr8, arrived, kernel, heapLock, result, blocks>>

\* The caller has the pointer, and the register is free again.
AllocClear(t) ==
  /\ Step(t, "clear", "main")
  /\ heapLock' = FALSE
  /\ blocks' = [blocks EXCEPT ![t] = Append(@, [at |-> result[t], size |-> Size(t)])]
  /\ result' = [result EXCEPT ![t] = 0]
  /\ UNCHANGED <<running, waking, csr8, arrived, kernel, heapPtr>>

HeapReturn(t) == Return(t) /\ ~Wants(t) /\ UNCHANGED heapVars

\* A launch writes the whole of Csr[0]; the pointer stays where it was.
HeapLaunch ==
  /\ Relaunch("start")
  /\ arrived' = [t \in Ids |-> 0]
  /\ kernel' \in Kernels /\ blocks' = NoBlocks
  /\ heapLock' = FALSE
  /\ UNCHANGED <<csr8, heapPtr, result>>

HeapTasklet(t) ==
  \/ MemReset(t) \/ Meeting(t) \/ HeapReturn(t)
  \/ AllocTestAndSet(t) \/ AllocLoad(t) \/ AllocStore(t) \/ AllocClear(t)

HeapNext == HeapLaunch \/ \E t \in Ids : HeapTasklet(t)

HeapSpec == HeapInit /\ [][HeapNext]_allocVars /\ \A t \in Ids : WF_allocVars(HeapTasklet(t))
--------------------------------------------------------------------------------
\* The blocks handed out in this launch: to whom, and which of its calls.
Handed == {<<t, k>> \in Ids \X (1 .. Len(kernel)) : k <= Len(blocks[t])}
EndOf(b) == b.at + b.size

(***************************************************************************)
(* What the tasklets get in one launch is theirs alone and below the heap  *)
(* pointer: the unlocked mem_reset of tasklet 0 never comes between the    *)
(* calls of the others, and two calls never read the same pointer.         *)
(***************************************************************************)
BlocksDisjoint ==
  \A x, y \in Handed :
    LET b == blocks[x[1]][x[2]]
        c == blocks[y[1]][y[2]]
    IN  /\ EndOf(b) <= heapPtr
        /\ x # y => EndOf(b) <= c.at \/ EndOf(c) <= b.at
================================================================================
