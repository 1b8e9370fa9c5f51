------------------------------- MODULE HostCalls -------------------------------
(***************************************************************************)
(* What the calls of dpu.h promise a host program, each as one step: the   *)
(* DPUs of a set are independent, a transfer moves the data between every  *)
(* DPU and the buffer prepared for it, and a launch runs what was loaded.  *)
(* One symbol stands for all, one value for the memory behind it.          *)
(*                                                                         *)
(* After a refused load a set may know the symbols of the refused file.    *)
(* Then a transfer goes to some other place of a loaded DPU, and never     *)
(* returns if it meets a DPU that has no memory yet.                       *)
(***************************************************************************)
EXTENDS Integers

CONSTANTS NrDpu,
          Programs,     \* files that can be loaded
          Refused,      \* files that name symbols but cannot be loaded
          Bufs, Values,
          Image,        \* value of the symbol in a freshly loaded program
          Run(_, _),    \* its value after a run: old value, tasklets
          Tasklets,     \* NR_TASKLETS of a file, or 1
          Null

VARIABLES prog,         \* program in each DPU
          symbols,      \* file whose symbols the set knows
          mem,          \* value of the symbol in each DPU
          xfer_addr,    \* buffer prepared for each DPU
          buf,          \* contents of the host's buffers
          ret           \* what the last call returned

vars == <<prog, symbols, mem, xfer_addr, buf, ret>>

Dpus == 0 .. NrDpu - 1

\* A set as dpu_alloc returns it, or one DPU of it (DPU_FOREACH).
Whole == [begin |-> 0, end |-> NrDpu]
Views == {Whole} \cup {[begin |-> d, end |-> d + 1] : d \in Dpus}

In(v) == v.begin .. v.end - 1

\* f changed to g for the DPUs in ds
Update(f, ds, g) == [d \in Dpus |-> IF d \in ds THEN g[d] ELSE f[d]]
All(ds, x) == [d \in ds |-> x]

Armed(v) == {d \in In(v) : xfer_addr[d] # Null}

\* What is read or left at the symbol when x is meant: anything if it is the
\* symbol of another program than the DPU's.
Lands(d, x) == IF prog[d] = symbols THEN {x} ELSE Values

HaveMemory(ds) == \A d \in ds : prog[d] # Null

NrTasklets == IF symbols = Null THEN 1 ELSE Tasklets[symbols]

\* x[d] is sent to every DPU of ds.
Send(ds, x) ==
  /\ symbols # Null /\ HaveMemory(ds)
  /\ mem' \in [Dpus -> Values]
  /\ \A d \in Dpus : IF d \in ds THEN mem'[d] \in Lands(d, x[d]) ELSE mem'[d] = mem[d]

Init ==
  /\ prog = [d \in Dpus |-> Null]
  /\ symbols = Null
  /\ mem = [d \in Dpus |-> Image]
  /\ xfer_addr = [d \in Dpus |-> Null]
  /\ buf \in [Bufs -> Values]
  /\ ret = "OK"

Load(v, p) ==
  /\ prog' = Update(prog, In(v), All(In(v), p))
  /\ mem' = Update(mem, In(v), All(In(v), Image))
  /\ symbols' = p
  /\ ret' = "OK"
  /\ UNCHANGED <<xfer_addr, buf>>

\* The old symbols are gone; whether those of the file are known is left open.
LoadFails ==
  /\ symbols' \in Refused \cup {Null}
  /\ ret' = "ELF_INVALID_FILE"
  /\ UNCHANGED <<prog, mem, xfer_addr, buf>>

Launch(v) ==
  IF prog[v.begin] = Null
  THEN ret' = "NO_PROGRAM_LOADED" /\ UNCHANGED <<prog, symbols, mem, xfer_addr, buf>>
  ELSE /\ mem' = Update(mem, In(v),
                  [d \in In(v) |-> Run(mem[d], NrTasklets)])
       /\ ret' = "OK"
       /\ UNCHANGED <<prog, symbols, xfer_addr, buf>>

Prepare(v, b) ==
  /\ xfer_addr' = Update(xfer_addr, In(v), All(In(v), b))
  /\ ret' = IF Armed(v) # {} THEN "TRANSFER_ALREADY_SET" ELSE "OK"
  /\ UNCHANGED <<prog, symbols, mem, buf>>

Disarm(v, reset) ==
  xfer_addr' = IF reset THEN Update(xfer_addr, In(v), All(In(v), Null)) ELSE xfer_addr

PushTo(v, reset) ==
  /\ Send(Armed(v), [d \in Armed(v) |-> buf[xfer_addr[d]]])
  /\ Disarm(v, reset)
  /\ ret' = "OK"
  /\ UNCHANGED <<prog, symbols, buf>>

\* A buffer shared by several DPUs gets the value of any one of them.
PushFrom(v, reset) ==
  /\ symbols # Null /\ HaveMemory(Armed(v))
  /\ buf' \in [Bufs -> Values]
  /\ \A b \in Bufs :
       LET users == {d \in In(v) : xfer_addr[d] = b}
       IN  IF users = {} THEN buf'[b] = buf[b] ELSE \E d \in users : buf'[b] \in Lands(d, mem[d])
  /\ Disarm(v, reset)
  /\ ret' = "OK"
  /\ UNCHANGED <<prog, symbols, mem>>

\* Whether a buffer that was prepared in vain is reported is left open.
Broadcast(v, b, reset) ==
  /\ Send(In(v), All(In(v), buf[b]))
  /\ Disarm(v, reset)
  /\ ret' \in {"OK"} \cup (IF Armed(v) # {} THEN {"TRANSFER_ALREADY_SET"} ELSE {})
  /\ UNCHANGED <<prog, symbols, buf>>

\* Copies concern the first DPU of the view.
CopyTo(v, b) ==
  /\ Send({v.begin}, All({v.begin}, buf[b]))
  /\ ret' = "OK"
  /\ UNCHANGED <<prog, symbols, xfer_addr, buf>>

CopyFrom(v, b) ==
  /\ symbols # Null /\ HaveMemory({v.begin})
  /\ \E x \in Lands(v.begin, mem[v.begin]) : buf' = [buf EXCEPT ![b] = x]
  /\ ret' = "OK"
  /\ UNCHANGED <<prog, symbols, mem, xfer_addr>>

UnknownSymbol ==
  /\ symbols = Null
  /\ ret' = "UNKNOWN_SYMBOL"
  /\ UNCHANGED <<prog, symbols, mem, xfer_addr, buf>>

\* The host program itself writes into its buffers.
HostWrites(b, v) == buf' = [buf EXCEPT ![b] = v] /\ UNCHANGED <<prog, symbols, mem, xfer_addr, ret>>

Next ==
  \/ LoadFails \/ UnknownSymbol
  \/ \E v \in Views :
       \/ Launch(v)
       \/ \E p \in Programs : Load(v, p)
       \/ \E b \in Bufs \cup {Null} : Prepare(v, b)
       \/ \E b \in Bufs : CopyTo(v, b) \/ CopyFrom(v, b)
       \/ \E reset \in BOOLEAN :
            PushTo(v, reset) \/ PushFrom(v, reset) \/ \E b \in Bufs : Broadcast(v, b, reset)
  \/ \E b \in Bufs, v \in Values : HostWrites(b, v)

Spec == Init /\ [][Next]_vars

=============================================================================
