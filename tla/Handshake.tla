------------------------------- MODULE Handshake -------------------------------
(***************************************************************************)
(* rvisa/ummrv-rt/handshake.c.  slots[i] is 0, or id + 1 of the tasklet    *)
(* that sleeps waiting for notifier i, or -(id + 1) of the tasklet that    *)
(* sleeps having notified i.  Whoever comes second empties the slot and    *)
(* wakes the first; a second waiter (or a second notify_for) gets -1.      *)
(* Bit i of CSR 7 guards slot i.                                           *)
(*                                                                         *)
(* Tasklet t makes the calls of program[t] one after the other and         *)
(* returns; the host launches the program again.  A program that hangs is  *)
(* not launched again.  Failed spin iterations are stuttering steps.       *)
(***************************************************************************)
EXTENDS Tasklets, Sequences

CONSTANT Programs    \* per tasklet: a sequence of [op |-> ..., slot |-> ...]

Ops == {"wait_for", "notify_for", "notify"}

\* What a client may call: handshake_notify is for the caller's own slot, and
\* handshake.h:24 forbids to mix it with handshake_notify_for on that slot.
ProgramsFit ==
  \A p \in Programs :
    /\ p \in [Ids -> Seq([op : Ops, slot : Ids])]
    /\ \A t \in Ids : \A k \in 1 .. Len(p[t]) : p[t][k].op = "notify" =>
         /\ p[t][k].slot = t
         /\ \A u \in Ids : \A l \in 1 .. Len(p[u]) : p[u][l].op = "notify_for" => p[u][l].slot # t

VARIABLES program,   \* the one that has been loaded
          slots,     \* static int32_t slots[24]
          csr7,      \* the slots whose lock bit is set
          call,      \* index of the call each tasklet is in or has made last
          refused    \* <<t, k>>: t's k-th call returned -1

slotVars == <<slots, csr7>>
handVars == <<running, pc, waking, program, slots, csr7, call, refused>>

HandInit ==
  /\ program \in Programs
  /\ LaunchTasklets("main")
  /\ slots = [i \in Ids |-> 0]
  /\ csr7 = {}
  /\ call = [t \in Ids |-> 0]
  /\ refused = {}

-----------------------------------------------------------------------------
Op(t) == program[t][call[t]].op
Slot(t) == program[t][call[t]].slot

\* What the caller leaves in the slot, and the sign of its counterpart.
Mark(t) == IF Op(t) = "wait_for" THEN t + 1 ELSE -(t + 1)
SameSide(t, a) == IF Op(t) = "wait_for" THEN a > 0 ELSE a < 0

Call(t) ==
  /\ call[t] < Len(program[t])
  /\ Step(t, "main", "lock")
  /\ call' = [call EXCEPT ![t] = @ + 1]
  /\ UNCHANGED <<program, running, waking, slotVars, refused>>

LockSlot(t) ==
  /\ Step(t, "lock", "look")
  /\ Slot(t) \notin csr7
  /\ csr7' = csr7 \cup {Slot(t)}
  /\ UNCHANGED <<program, running, waking, slots, call, refused>>

\* Mutant: a second one on the same side overwrites the first.
ComeFirstOverwrites(t) ==
  /\ Step(t, "look", "first_clear")
  /\ slots[Slot(t)] = 0 \/ SameSide(t, slots[Slot(t)])
  /\ slots' = [slots EXCEPT ![Slot(t)] = Mark(t)]
  /\ UNCHANGED <<program, running, waking, csr7, call, refused>>

ComeFirst(t) ==
  /\ Step(t, "look", "first_clear")
  /\ slots[Slot(t)] = 0
  /\ slots' = [slots EXCEPT ![Slot(t)] = Mark(t)]
  /\ UNCHANGED <<program, running, waking, csr7, call, refused>>

\* Mutant: the second tasklet forgets to empty the slot.
ComeSecondKept(t) ==
  LET a == slots[Slot(t)]
  IN  /\ Step(t, "look", "second_clear")
      /\ a # 0 /\ (Op(t) = "notify" \/ ~SameSide(t, a))
      /\ waking' = [waking EXCEPT ![t] = {IF a > 0 THEN a - 1 ELSE (-a) - 1}]
      /\ UNCHANGED <<program, running, slotVars, call, refused>>

\* handshake_notify makes no sign check: it takes a - 1 for the sleeper.
ComeSecond(t) ==
  LET a == slots[Slot(t)]
  IN  /\ Step(t, "look", "second_clear")
      /\ a # 0 /\ (Op(t) = "notify" \/ ~SameSide(t, a))
      /\ waking' = [waking EXCEPT ![t] =
                      {IF Op(t) = "wait_for" THEN (-a) - 1 ELSE a - 1}]
      /\ slots' = [slots EXCEPT ![Slot(t)] = 0]
      /\ UNCHANGED <<program, running, csr7, call, refused>>

Refuse(t) ==
  /\ Step(t, "look", "refuse_clear")
  /\ Op(t) # "notify" /\ SameSide(t, slots[Slot(t)])
  /\ refused' = refused \cup {<<t, call[t]>>}
  /\ UNCHANGED <<program, running, waking, slotVars, call>>

HandClear(t) ==
  /\ \/ Step(t, "first_clear", "halt")
     \/ Step(t, "second_clear", "wake")
     \/ Step(t, "refuse_clear", "main")
  /\ csr7' = csr7 \ {Slot(t)}
  /\ UNCHANGED <<program, running, waking, slots, call, refused>>

HandSleep(t) ==
  /\ Step(t, "halt", "main")
  /\ Halt(t)
  /\ UNCHANGED <<program, waking, slotVars, call, refused>>

WakeOther(t) ==
  /\ WakeOnce(t, "wake", "main")
  /\ UNCHANGED <<program, slotVars, call, refused>>

HandReturn(t) ==
  /\ call[t] = Len(program[t])
  /\ ReturnFromMain(t, "main")
  /\ UNCHANGED <<program, slotVars, call, refused>>

HandLaunch ==
  /\ \A t \in Ids : pc[t] = "ebreak"
  /\ Relaunch("main")
  /\ call' = [t \in Ids |-> 0]
  /\ refused' = {}
  /\ UNCHANGED <<program, slotVars>>

HandTasklet(t) ==
  \/ Call(t) \/ LockSlot(t) \/ ComeFirst(t) \/ ComeSecond(t) \/ Refuse(t)
  \/ HandClear(t) \/ HandSleep(t) \/ WakeOther(t) \/ HandReturn(t)

HandNext == HandLaunch \/ \E t \in Ids : HandTasklet(t)

HandSpec == HandInit /\ [][HandNext]_handVars /\ \A t \in Ids : WF_handVars(HandTasklet(t))

-----------------------------------------------------------------------------
\* It has entered its slot and sleeps, or will after a few more instructions.
Suspended(t) == pc[t] \in {"first_clear", "halt"} \/ (pc[t] = "main" /\ t \notin running)

\* The k-th call of t has returned 0, or has begun.
Returned(t, k) ==
  /\ k < call[t] \/ (k = call[t] /\ pc[t] \in {"main", "ebreak"} /\ ~Suspended(t))
  /\ <<t, k>> \notin refused

Calls(side, i) ==
  {c \in UNION {{t} \X (1 .. Len(program[t])) : t \in Ids} :
     /\ program[c[1]][c[2]].slot = i
     /\ (program[c[1]][c[2]].op = "wait_for") = (side = "wait")}

Met(side, i) == Cardinality({c \in Calls(side, i) : Returned(c[1], c[2])})
Come(side, i) == Cardinality({c \in Calls(side, i) : c[2] <= call[c[1]] /\ c \notin refused})

(***************************************************************************)
(* A call that returns 0 met its counterpart: as many waits for i cannot   *)
(* return as notifications of i were begun, nor the other way round.       *)
(***************************************************************************)
NobodyMeetsNobody ==
  \A i \in Ids : Met("wait", i) <= Come("notify", i) /\ Met("notify", i) <= Come("wait", i)

(***************************************************************************)
(* A slot names the one tasklet that sleeps for it: the other suspended    *)
(* tasklets are each being woken by exactly one tasklet.                   *)
(***************************************************************************)
SlotsNameSleepers ==
  \A t \in Ids : Suspended(t) =>
    Cardinality({i \in Ids : slots[i] \in {t + 1, -(t + 1)}})
      + Cardinality({w \in Ids : t \in waking[w]}) = 1

=============================================================================
