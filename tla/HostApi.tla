------------------------------- MODULE HostApi --------------------------------
(***************************************************************************)
(* ummHostApi.c: dpu_load, dpu_launch and the transfers over one set of    *)
(* DPUs.  One host thread calls; dpu_load, dpu_launch and large transfers  *)
(* split the DPUs over NrCore threads (omp parallel), whose steps are      *)
(* interleaved, a whole DPU being served in one step since no two threads  *)
(* meet at one.  Small transfers are a loop of the calling thread: a       *)
(* region of one thread.                                                   *)
(*                                                                         *)
(* HostCalls names the data; the timing records are left out.              *)
(***************************************************************************)
EXTENDS Integers

CONSTANTS NrDpu, NrCore,
          StructSize,   \* sizeof(struct DmmDpu)
          DpuSize,      \* dmmDpuSize, the same in whole pages
          ProgramViews, \* bound: the sets that are loaded and launched
          Programs, Refused, Bufs, Values, Image, Run(_, _), Tasklets, Null

ASSUME HostApiAssumption ==
  /\ {NrDpu, NrCore, StructSize} \subseteq Nat \ {0}
  /\ DpuSize \in Nat /\ DpuSize >= StructSize
  /\ Null \notin Programs \cup Refused \cup Bufs
  /\ Programs \cap Refused = {}
  /\ Tasklets \in [Programs \cup Refused -> Nat \ {0}]
  /\ Image \in Values
  /\ \A v \in Values : \A n \in {1} \cup {Tasklets[f] : f \in Programs \cup Refused} : Run(v, n) \in Values

VARIABLES prog,         \* Is and Iram of each DPU; Null is UNINIT_DPUIS
          symbols, mem, xfer_addr, buf, ret,
          call,         \* the loop over DPUs that the host thread is in
          at,           \* dpuId of every thread in it
          before        \* history: the state when the region was entered

data == <<prog, symbols, mem, xfer_addr, buf, ret>>
vars == <<data, call, at, before>>

State == [prog |-> prog, symbols |-> symbols, mem |-> mem,
          xfer_addr |-> xfer_addr, buf |-> buf, ret |-> ret]

NoCall == [op |-> "none"]
Idle == call.op = "none"

Killed == [op |-> "fault"]

\* In a region, and not killed in it.
Looping == call.op \notin {"none", "fault"}

Seen == IF Idle THEN State ELSE before

Calls == INSTANCE HostCalls
         WITH prog <- Seen.prog, symbols <- Seen.symbols, mem <- Seen.mem,
              xfer_addr <- Seen.xfer_addr, buf <- Seen.buf, ret <- Seen.ret

Dpus == Calls!Dpus
Views == Calls!Views

Init ==
  /\ prog = [d \in Dpus |-> Null]
  /\ symbols = Null
  /\ mem = [d \in Dpus |-> Image]
  /\ xfer_addr = [d \in Dpus |-> Null]
  /\ buf \in [Bufs -> Values]
  /\ ret = "OK"
  /\ call = NoCall
  /\ at = Null
  /\ before = Null

-----------------------------------------------------------------------------
(* What is done at one DPU, for the call under way *)

Disarm(d) == xfer_addr' = IF call.reset THEN [xfer_addr EXCEPT ![d] = Null] ELSE xfer_addr

\* A symbol of another program than the DPU's is some other place in it.
Lands(d, x) == IF prog[d] = symbols THEN {x} ELSE Values

SkipDpu(d) ==
  /\ call.op \in {"to", "from"} /\ xfer_addr[d] = Null
  /\ UNCHANGED data

PushTo(d) ==
  /\ call.op = "to" /\ xfer_addr[d] # Null /\ prog[d] # Null
  /\ \E x \in Lands(d, buf[xfer_addr[d]]) : mem' = [mem EXCEPT ![d] = x]
  /\ Disarm(d)
  /\ UNCHANGED <<prog, symbols, buf, ret>>

PushFrom(d) ==
  /\ call.op = "from" /\ xfer_addr[d] # Null /\ prog[d] # Null
  /\ \E x \in Lands(d, mem[d]) : buf' = [buf EXCEPT ![xfer_addr[d]] = x]
  /\ Disarm(d)
  /\ UNCHANGED <<prog, symbols, mem, ret>>

\* The region sets ret too, but returns DPU_OK.
Broadcast(d) ==
  /\ call.op = "broadcast" /\ prog[d] # Null
  /\ \E x \in Lands(d, buf[call.src]) : mem' = [mem EXCEPT ![d] = x]
  /\ Disarm(d)
  /\ ret' = IF ~call.large /\ xfer_addr[d] # Null THEN "TRANSFER_ALREADY_SET" ELSE ret
  /\ UNCHANGED <<prog, symbols, buf>>

LoadDpu(d) ==
  /\ call.op = "load"
  /\ prog' = [prog EXCEPT ![d] = call.prog]
  /\ mem' = [mem EXCEPT ![d] = Image]
  /\ UNCHANGED <<symbols, xfer_addr, buf, ret>>

\* MapNoInt: without the symbol there is one tasklet.
NrTasklets == IF symbols = Null THEN 1 ELSE Tasklets[symbols]

RunDpu(d) ==
  /\ call.op = "launch"
  /\ mem' = [mem EXCEPT ![d] = Run(@, NrTasklets)]
  /\ UNCHANGED <<prog, symbols, xfer_addr, buf, ret>>

Serve(d) ==
  SkipDpu(d) \/ PushTo(d) \/ PushFrom(d) \/ Broadcast(d) \/ LoadDpu(d) \/ RunDpu(d)

-----------------------------------------------------------------------------
(* Parallel regions *)

Stride(c) == IF c.large THEN NrCore ELSE 1
Cores == 0 .. Stride(call) - 1

\* Mutant: a thread takes a stride before it looks whether it is inside.
FirstOfNext(k, n, v) == (CHOOSE d \in v.begin .. v.begin + n - 1 : d % n = k) + n

\* Mutant: the thread starts at its own number, inside the set or not.
FirstOfUnchecked(k, n, v) == k

\* The first DPU of the set among k, k + n, k + 2 * n, ...
FirstOf(k, n, v) == CHOOSE d \in v.begin .. v.begin + n - 1 : d % n = k

Enter(c) ==
  /\ call' = c
  /\ at' = [k \in 0 .. Stride(c) - 1 |-> FirstOf(k, Stride(c), c.view)]
  /\ before' = State
  /\ ret' = "OK"

Work(k) ==
  /\ at[k] < call.view.end
  /\ Serve(at[k])
  /\ at' = [at EXCEPT ![k] = @ + Stride(call)]
  /\ UNCHANGED <<call, before>>

\* WMAram of a DPU without program is NULL, and nothing is mapped there: the
\* host program is killed in the middle of the call.
Fault(k) ==
  /\ at[k] < call.view.end
  /\ call.op \in {"to", "from"} => xfer_addr[at[k]] # Null
  /\ call.op \in {"to", "from", "broadcast"} /\ prog[at[k]] = Null
  /\ call' = Killed
  /\ UNCHANGED <<data, at, before>>

\* The implicit barrier at the end of the region, and the return.
Join ==
  /\ \A k \in Cores : at[k] >= call.view.end
  /\ call' = NoCall
  /\ at' = Null
  /\ before' = Null
  /\ UNCHANGED data

-----------------------------------------------------------------------------
(* Calls of the host program *)

Return(code) == ret' = code
Keep == UNCHANGED <<call, at, before>>

\* The symbols are cleared first.  A file that is no program at all is refused
\* before it has named any; one without instructions, or with too many, after.
LoadFails(v) ==
  /\ Idle /\ Keep
  /\ symbols' \in Refused \cup {Null}
  /\ Return("ELF_INVALID_FILE")
  /\ UNCHANGED <<prog, mem, xfer_addr, buf>>

Load(v, p) ==
  /\ Idle
  /\ Enter([op |-> "load", large |-> TRUE, view |-> v, prog |-> p])
  /\ symbols' = p
  /\ UNCHANGED <<prog, mem, xfer_addr, buf>>

\* Whether Is of dmm_dpu[b] reads as loaded.  The index counts structs, but
\* the DPUs are whole pages apart (_dptr): past the first, the read hits the
\* zeros behind a struct, or some other field of one that has a program.
ReadsLoaded(b) ==
  LET slot == (b * StructSize) \div DpuSize
      offset == (b * StructSize) % DpuSize
  IN  IF offset = 0 THEN {prog[slot] # Null}
      ELSE IF offset >= StructSize \/ prog[slot] = Null THEN {FALSE}
      ELSE BOOLEAN

Launch(v) ==
  /\ Idle
  /\ \E loaded \in ReadsLoaded(v.begin) :
       IF loaded THEN Enter([op |-> "launch", large |-> TRUE, view |-> v])
       ELSE Return("NO_PROGRAM_LOADED") /\ Keep
  /\ UNCHANGED <<prog, symbols, mem, xfer_addr, buf>>

Prepare(v, b) ==
  /\ Idle /\ Keep
  /\ xfer_addr' = [d \in Dpus |-> IF d \in Calls!In(v) THEN b ELSE xfer_addr[d]]
  /\ Return(IF \E d \in Calls!In(v) : xfer_addr[d] # Null THEN "TRANSFER_ALREADY_SET" ELSE "OK")
  /\ UNCHANGED <<prog, symbols, mem, buf>>

\* length * (end - begin) <= 1 << 20 decides between the loop and the region.
PushXfer(v, op, reset, large) ==
  /\ Idle
  /\ symbols # Null
  /\ Enter([op |-> op, large |-> large, view |-> v, reset |-> reset])
  /\ UNCHANGED <<prog, symbols, mem, xfer_addr, buf>>

BroadcastTo(v, b, reset, large) ==
  /\ Idle
  /\ symbols # Null
  /\ Enter([op |-> "broadcast", large |-> large, view |-> v, src |-> b, reset |-> reset])
  /\ UNCHANGED <<prog, symbols, mem, xfer_addr, buf>>

CopyTo(v, b) ==
  /\ Idle /\ Keep
  /\ symbols # Null /\ prog[v.begin] # Null
  /\ \E x \in Lands(v.begin, buf[b]) : mem' = [mem EXCEPT ![v.begin] = x]
  /\ Return("OK")
  /\ UNCHANGED <<prog, symbols, xfer_addr, buf>>

CopyFrom(v, b) ==
  /\ Idle /\ Keep
  /\ symbols # Null /\ prog[v.begin] # Null
  /\ \E x \in Lands(v.begin, mem[v.begin]) : buf' = [buf EXCEPT ![b] = x]
  /\ Return("OK")
  /\ UNCHANGED <<prog, symbols, mem, xfer_addr>>

\* A copy to or from a DPU without program kills the host program too.
CopyFaults(v) ==
  /\ Idle
  /\ symbols # Null /\ prog[v.begin] = Null
  /\ call' = Killed
  /\ before' = State
  /\ UNCHANGED <<data, at>>

\* Every transfer looks its symbol up first.
UnknownSymbol ==
  /\ Idle /\ Keep
  /\ symbols = Null
  /\ Return("UNKNOWN_SYMBOL")
  /\ UNCHANGED <<prog, symbols, mem, xfer_addr, buf>>

\* The host program fills its buffers.
HostWrites(b, v) == Idle /\ Keep /\ buf' = [buf EXCEPT ![b] = v] /\ UNCHANGED <<prog, symbols, mem, xfer_addr, ret>>

Transfer(v) ==
  \/ \E b \in Bufs \cup {Null} : Prepare(v, b)
  \/ CopyFaults(v) \/ \E b \in Bufs : CopyTo(v, b) \/ CopyFrom(v, b)
  \/ \E reset, large \in BOOLEAN :
       \/ \E op \in {"to", "from"} : PushXfer(v, op, reset, large)
       \/ \E b \in Bufs : BroadcastTo(v, b, reset, large)

Next ==
  \/ \E v \in ProgramViews : Launch(v) \/ LoadFails(v) \/ \E p \in Programs : Load(v, p)
  \/ \E v \in Views : Transfer(v)
  \/ UnknownSymbol
  \/ \E b \in Bufs, v \in Values : HostWrites(b, v)
  \/ Looping /\ (Join \/ \E k \in Cores : Work(k) \/ Fault(k))

Spec == Init /\ [][Next]_vars

-----------------------------------------------------------------------------
(***************************************************************************)
(* While no load is under way, the known symbols are those of the program  *)
(* in every DPU, or of a file that the last load has refused: only a host  *)
(* program that goes on after a refusal, as VA.c and TRNS.c would, can     *)
(* reach a DPU without memory (WMAram NULL, a fault) or the place that     *)
(* another program gives the name.                                         *)
(***************************************************************************)
SymbolsOfThePrograms ==
  call.op # "load" /\ symbols # Null => symbols \in Refused \/ \A d \in Dpus : prog[d] = symbols

(***************************************************************************)
(* Whatever the threads of a region do in which order, a call that has     *)
(* returned has had the effect of HostCalls: every DPU of the view was     *)
(* served once, no other was touched, and buffers are reset as asked.      *)
(***************************************************************************)
IsSequential == Calls!Spec

=============================================================================
