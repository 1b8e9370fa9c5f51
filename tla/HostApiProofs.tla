----------------------------- MODULE HostApiProofs -----------------------------
(***************************************************************************)
(* The host API for any number of DPUs and host threads, any programs and  *)
(* buffers: dealing the DPUs out by hand reaches every DPU of the set once *)
(* and no other, so that every call is one step of HostCalls.              *)
(***************************************************************************)
EXTENDS HostApi, WellFoundedInduction, TLAPS

-----------------------------------------------------------------------------
(* Dealing out *)

(* Division with remainder is unique.                                      *)
LEMMA RemainderUnique ==
  ASSUME NEW n \in Nat \ {0}, NEW q \in Int, NEW k \in 0 .. n - 1
  PROVE  (n * q + k) % n = k
<1> DEFINE a == n * q + k
           r == a % n
<1>1. PICK p \in Int : a = n * p + r /\ r \in 0 .. n - 1
  <2>1. a \in Int
    OBVIOUS
  <2>2. a \div n \in Int /\ r \in 0 .. n - 1 /\ a = n * (a \div n) + r
    BY <2>1
  <2> QED
    BY <2>2
<1>2. n * (p - q) = k - r
  BY <1>1
<1>3. CASE p = q
  BY <1>1, <1>2, <1>3
<1>4. CASE p >= q + 1
  <2>1. n * (p - q) >= n
    <3>1. PICK j \in Nat : p - q = j + 1
      BY <1>4
    <3>2. n * (j + 1) = n * j + n /\ n * j >= 0
      OBVIOUS
    <3> QED
      BY <3>1, <3>2
  <2> QED
    BY <1>1, <1>2, <2>1
<1>5. CASE q >= p + 1
  <2>1. n * (p - q) <= -n
    <3>1. PICK j \in Nat : q - p = j + 1
      BY <1>5
    <3>2. n * (p - q) = -(n * (j + 1)) /\ n * (j + 1) = n * j + n /\ n * j >= 0
      BY <3>1
    <3> QED
      BY <3>2
  <2> QED
    BY <1>1, <1>2, <2>1
<1> QED
  BY <1>1, <1>3, <1>4, <1>5

(* Quotient and remainder of a DPU number.                                 *)
LEMMA QuotientRemainder ==
  ASSUME NEW n \in Nat \ {0}, NEW d \in Nat
  PROVE  \E q \in Int, r \in 0 .. n - 1 : d = n * q + r /\ d % n = r
<1>1. d \div n \in Int /\ d % n \in 0 .. n - 1 /\ d = n * (d \div n) + (d % n)
  OBVIOUS
<1> QED
  BY <1>1

(* A thread stays on its residue.                                          *)
LEMMA SameResidue == ASSUME NEW n \in Nat \ {0}, NEW d \in Nat PROVE (d + n) % n = d % n
<1>1. PICK q \in Int, r \in 0 .. n - 1 : d = n * q + r /\ d % n = r
  BY QuotientRemainder
<1>2. d + n = n * (q + 1) + r /\ q + 1 \in Int
  BY <1>1
<1>3. (n * (q + 1) + r) % n = r
  BY <1>2, RemainderUnique
<1> QED
  BY <1>1, <1>2, <1>3

(* Between a DPU of a thread and its next one there is no other of it.     *)
LEMMA NothingBetween ==
  ASSUME NEW n \in Nat \ {0}, NEW d \in Nat, NEW e \in Nat, d % n = e % n, d <= e, e < d + n
  PROVE  e = d
<1>1. PICK q \in Int, r \in 0 .. n - 1 : d = n * q + r /\ d % n = r
  BY QuotientRemainder
<1>2. r + (e - d) \notin 0 .. n - 1 \/ e = d
  <2> SUFFICES ASSUME r + (e - d) \in 0 .. n - 1 PROVE e = d
    OBVIOUS
  <2>1. e = n * q + (r + (e - d))
    BY <1>1
  <2>2. (n * q + (r + (e - d))) % n = r + (e - d)
    BY RemainderUnique
  <2> QED
    BY <1>1, <2>1, <2>2
<1>3. CASE r + (e - d) >= n
  <2>1. r + (e - d) - n \in 0 .. n - 1
    BY <1>3
  <2>2. e = n * (q + 1) + (r + (e - d) - n)
    BY <1>1
  <2>3. (n * (q + 1) + (r + (e - d) - n)) % n = r + (e - d) - n
    BY <2>1, RemainderUnique
  <2> QED
    BY <1>1, <2>2, <2>3
<1> QED
  BY <1>2, <1>3

(* Every thread finds a DPU to start from, the first from begin on that    *)
(* has its residue.                                                        *)
LEMMA FirstOfExists ==
  ASSUME NEW n \in Nat \ {0}, NEW k \in 0 .. n - 1, NEW v, v.begin \in Nat
  PROVE  /\ FirstOf(k, n, v) \in v.begin .. v.begin + n - 1
         /\ FirstOf(k, n, v) % n = k
<1> DEFINE b == v.begin
<1>1. \E d \in b .. b + n - 1 : d % n = k
  <2>1. PICK q \in Int, r \in 0 .. n - 1 : b = n * q + r /\ b % n = r
    BY QuotientRemainder
  <2>2. CASE k >= r
    <3>1. (n * q + k) % n = k
      BY RemainderUnique
    <3>2. n * q + k = b + (k - r)
      BY <2>1
    <3>3. b + (k - r) \in b .. b + n - 1
      BY <2>1, <2>2
    <3> QED
      BY <3>1, <3>2, <3>3
  <2>3. CASE k < r
    <3>1. (n * (q + 1) + k) % n = k
      BY RemainderUnique
    <3>2. n * (q + 1) + k = b + (n + k - r)
      BY <2>1
    <3>3. b + (n + k - r) \in b .. b + n - 1
      BY <2>1, <2>3
    <3> QED
      BY <3>1, <3>2, <3>3
  <2> QED
    BY <2>1, <2>2, <2>3
<1> QED
  BY <1>1 DEF FirstOf

-----------------------------------------------------------------------------
(* The invariant *)

(* What the state holds between and during the calls.                      *)
TypeInv ==
  /\ prog \in [Dpus -> Programs \cup {Null}]
  /\ symbols \in Programs \cup Refused \cup {Null}
  /\ mem \in [Dpus -> Values]
  /\ xfer_addr \in [Dpus -> Bufs \cup {Null}]
  /\ buf \in [Bufs -> Values]

(* The calls that loop over DPUs, and what holds of the state they found.  *)
Called ==
  /\ call.large \in BOOLEAN
  /\ call.view \in Views
  /\ \/ /\ call.op = "load"
        /\ call.view \in ProgramViews
        /\ call.prog \in Programs
     \/ /\ call.op = "launch"
        /\ call.view \in ProgramViews
        /\ before.prog[call.view.begin] # Null
     \/ /\ call.op \in {"to", "from"}
        /\ call.reset \in BOOLEAN
        /\ before.symbols # Null
     \/ /\ call.op = "broadcast"
        /\ call.reset \in BOOLEAN
        /\ call.src \in Bufs
        /\ before.symbols # Null

BeforeType ==
  /\ before.prog \in [Dpus -> Programs \cup {Null}]
  /\ before.symbols \in Programs \cup Refused \cup {Null}
  /\ before.mem \in [Dpus -> Values]
  /\ before.xfer_addr \in [Dpus -> Bufs \cup {Null}]

(* Every thread is at a DPU of its residue.                                *)
Dealt ==
  /\ at \in [Cores -> Nat]
  /\ \A k \in Cores : at[k] >= call.view.begin /\ at[k] % Stride(call) = k

(* The DPUs of the view that their thread has passed                       *)
Served == {d \in Calls!In(call.view) : d < at[d % Stride(call)]}

(* What one DPU looks like before and after it is served                   *)
Untouched(d) ==
  prog[d] = before.prog[d] /\ mem[d] = before.mem[d] /\ xfer_addr[d] = before.xfer_addr[d]

\* Whether the call transfers from or to the DPU
Touched(d) == call.op = "broadcast" \/ (call.op \in {"to", "from"} /\ before.xfer_addr[d] # Null)

\* What is meant to be stored at the symbol
Meant(d) ==
  CASE call.op = "load" -> Image
    [] call.op = "launch" ->
         Run(before.mem[d], IF before.symbols = Null THEN 1 ELSE Tasklets[before.symbols])
    [] call.op = "broadcast" -> before.buf[call.src]
    [] call.op = "to" -> IF before.xfer_addr[d] = Null THEN before.mem[d]
                         ELSE before.buf[before.xfer_addr[d]]
    [] call.op = "from" -> before.mem[d]

\* Whether the DPU holds the program whose symbols the set knows
Own(d) == before.prog[d] = before.symbols

\* Where a transfer goes astray, anything may be found at the symbol.
Stored(d) ==
  mem[d] = Meant(d) \/ (call.op \in {"to", "broadcast"} /\ Touched(d) /\ ~Own(d))

Resets == call.op \in {"to", "from", "broadcast"} /\ call.reset

Finished(d) ==
  /\ prog[d] = IF call.op = "load" THEN call.prog ELSE before.prog[d]
  /\ Stored(d)
  /\ Touched(d) => before.prog[d] # Null
  /\ xfer_addr[d] = IF Resets THEN Null ELSE before.xfer_addr[d]

(* A buffer that is read into holds what some DPU served by now had.       *)
Read(b) ==
  \/ buf[b] = before.buf[b] /\ \A d \in Served : before.xfer_addr[d] # b
  \/ \E d \in Served : before.xfer_addr[d] = b /\ (Own(d) => buf[b] = before.mem[d])

(* How far a call has come                                                 *)
Progress ==
  /\ symbols = IF call.op = "load" THEN call.prog ELSE before.symbols
  /\ \A d \in Dpus : IF d \in Served THEN Finished(d) ELSE Untouched(d)
  /\ IF call.op = "from" THEN \A b \in Bufs : Read(b) ELSE buf = before.buf
  /\ \/ ret = "OK"
     \/ /\ call.op = "broadcast" /\ ret = "TRANSFER_ALREADY_SET"
        /\ \E d \in Calls!In(call.view) : before.xfer_addr[d] # Null

HostInv ==
  /\ TypeInv
  /\ Looping => Called /\ BeforeType /\ Dealt /\ Progress

(* Host programs load and launch sets that start at DPU 0; dpu_launch      *)
(* looks beside the Is field of any other one.                             *)
FromFirst == ProgramViews \subseteq {v \in Views : v.begin = 0}

-----------------------------------------------------------------------------
(* Views and the number of threads *)

(* A view is a non-empty range of DPUs of the set (DPU_FOREACH).           *)
LEMMA ViewFacts ==
  ASSUME NEW v \in Views
  PROVE  /\ v.begin \in Dpus /\ v.end \in Nat /\ v.begin < v.end /\ v.end <= NrDpu
         /\ v.begin \in Nat
         /\ Calls!In(v) \subseteq Dpus
         /\ \A d \in Calls!In(v) : d \in Nat /\ v.begin <= d /\ d < v.end
         /\ \A d \in Nat : v.begin <= d /\ d < v.end => d \in Calls!In(v)
BY HostApiAssumption DEF Views, Calls!Views, Calls!Whole, Calls!In, Dpus, Calls!Dpus

(* There is at least one thread.                                           *)
LEMMA StrideFacts ==
  ASSUME NEW c, c.large \in BOOLEAN
  PROVE  Stride(c) \in Nat \ {0}
BY HostApiAssumption DEF Stride

(* At DPU 0 the struct index and the page index name the same place.       *)
LEMMA ReadsFirst == ReadsLoaded(0) = {prog[0] # Null}
<1>1. DpuSize \in Nat \ {0} /\ 0 * StructSize = 0
  BY HostApiAssumption
<1>2. 0 \div DpuSize = 0 /\ 0 % DpuSize = 0
  BY <1>1
<1> QED
  BY <1>1, <1>2 DEF ReadsLoaded

(* Every DPU is some thread's.                                             *)
LEMMA ResidueCore ==
  ASSUME Called, NEW d \in Nat
  PROVE  d % Stride(call) \in Cores
<1>1. Stride(call) \in Nat \ {0}
  BY StrideFacts DEF Called
<1> QED
  BY <1>1 DEF Cores

(* A call in a region is a call.                                           *)
LEMMA LoopingFacts ==
  /\ Looping => ~Idle
  /\ Idle' => ~Looping'
BY DEF Looping, Idle

(* Wherever a transfer goes, a value is found there.                       *)
LEMMA LandsFacts ==
  ASSUME NEW d \in Dpus, NEW x \in Values
  PROVE  Lands(d, x) \subseteq Values /\ (prog[d] = symbols => Lands(d, x) = {x})
BY DEF Lands

(* A run leaves a value.                                                   *)
LEMMA RunFacts ==
  ASSUME NEW v \in Values, NEW f \in Programs \cup Refused \cup {Null}
  PROVE  Run(v, IF f = Null THEN 1 ELSE Tasklets[f]) \in Values
BY HostApiAssumption

-----------------------------------------------------------------------------
(* Initial states, and calls that do not loop *)

(* A set as dpu_alloc returns it.                                          *)
LEMMA HostInit == Init => HostInv
<1> SUFFICES ASSUME Init PROVE HostInv
  OBVIOUS
<1>1. TypeInv
  BY HostApiAssumption DEF Init, TypeInv
<1>2. Idle
  BY DEF Init, Idle, NoCall
<1> QED
  BY <1>1, <1>2, LoopingFacts DEF HostInv, Looping, Idle

(* The conditions under which Prepare, CopyTo, ... leave the invariant.    *)
LEMMA AtOnce ==
  ASSUME HostInv, FromFirst, Idle, call' = call,
         \/ \E v \in ProgramViews : LoadFails(v) \/ Launch(v)
         \/ \E v \in Views : \/ \E b \in Bufs \cup {Null} : Prepare(v, b)
                             \/ \E b \in Bufs : CopyTo(v, b) \/ CopyFrom(v, b)
         \/ UnknownSymbol
         \/ \E b \in Bufs, v \in Values : HostWrites(b, v)
  PROVE  HostInv' /\ Idle'
<1>1. Idle'
  BY DEF Idle
<1>2. TypeInv
  BY DEF HostInv
<1>3. ASSUME NEW v \in ProgramViews, LoadFails(v) \/ Launch(v) PROVE TypeInv'
  BY <1>2, <1>3 DEF LoadFails, Launch, TypeInv
<1>4. ASSUME NEW v \in Views, NEW b \in Bufs \cup {Null}, Prepare(v, b) PROVE TypeInv'
  BY <1>2, <1>4 DEF Prepare, TypeInv
<1>5. ASSUME NEW v \in Views, NEW b \in Bufs, CopyTo(v, b) \/ CopyFrom(v, b) PROVE TypeInv'
  BY <1>2, <1>5, ViewFacts, LandsFacts DEF CopyTo, CopyFrom, TypeInv
<1>6. ASSUME UnknownSymbol PROVE TypeInv'
  BY <1>2, <1>6 DEF UnknownSymbol, TypeInv
<1>7. ASSUME NEW b \in Bufs, NEW v \in Values, HostWrites(b, v) PROVE TypeInv'
  BY <1>2, <1>7 DEF HostWrites, TypeInv
<1> QED
  BY <1>1, <1>3, <1>4, <1>5, <1>6, <1>7, LoopingFacts DEF HostInv

-----------------------------------------------------------------------------
(* Entering a region *)

(* Nobody has been served when a region starts.                            *)
LEMMA EnterDeals ==
  ASSUME NEW c, c.large \in BOOLEAN, c.view \in Views, Enter(c)
  PROVE  Dealt' /\ Served' = {}
<1> DEFINE n == Stride(c)
<1>1. n \in Nat \ {0} /\ c.view.begin \in Nat
  BY StrideFacts, ViewFacts
<1>2. call' = c /\ Stride(call)' = n /\ Cores' = 0 .. n - 1
  BY DEF Enter, Stride, Cores
<1>3. \A k \in 0 .. n - 1 : /\ FirstOf(k, n, c.view) \in c.view.begin .. c.view.begin + n - 1
                            /\ FirstOf(k, n, c.view) % n = k
  BY <1>1, FirstOfExists
<1>4. at' = [k \in 0 .. n - 1 |-> FirstOf(k, n, c.view)]
  BY DEF Enter
<1>5. Dealt'
  BY <1>1, <1>2, <1>3, <1>4 DEF Dealt
<1>6. ASSUME NEW d \in Calls!In(c.view), d < at'[d % n] PROVE FALSE
  <2>1. d \in Nat /\ c.view.begin <= d
    BY ViewFacts
  <2>2. d % n \in 0 .. n - 1
    BY <1>1, <2>1
  <2> DEFINE e == at'[d % n]
  <2>3. e \in c.view.begin .. c.view.begin + n - 1 /\ e % n = d % n
    BY <1>3, <1>4, <2>2
  <2>4. e = d
    BY <1>1, <1>6, <2>1, <2>3, NothingBetween
  <2> QED
    BY <1>6, <2>1, <2>4
<1> QED
  BY <1>2, <1>5, <1>6 DEF Served

(* So the invariant holds of a call that has just begun.                   *)
LEMMA EnterKeeps ==
  ASSUME HostInv, Idle, NEW c, c.large \in BOOLEAN, c.view \in Views, Enter(c), Called',
         symbols' = IF c.op = "load" THEN c.prog ELSE symbols,
         UNCHANGED <<prog, mem, xfer_addr, buf>>
  PROVE  HostInv'
<1>1. call' = c /\ before' = State /\ ret' = "OK"
  BY DEF Enter
<1>2. Dealt' /\ Served' = {}
  BY EnterDeals
<1>3. TypeInv' /\ BeforeType'
  <2>1. c.op = "load" => c.prog \in Programs
    BY <1>1 DEF Called
  <2> QED
    BY <1>1, <2>1 DEF HostInv, TypeInv, BeforeType, State
<1>4. \A d \in Dpus : Untouched(d)'
  BY <1>1 DEF Untouched, State
<1>5. \A b \in Bufs : Read(b)'
  BY <1>1, <1>2 DEF Read, State
<1>6. /\ symbols' = IF call'.op = "load" THEN call'.prog ELSE before'.symbols
      /\ buf' = before'.buf
  BY <1>1 DEF State
<1>7. \A d \in Dpus : IF d \in Served' THEN Finished(d)' ELSE Untouched(d)'
  BY <1>2, <1>4
<1>8. Progress'
  BY <1>1, <1>5, <1>6, <1>7 DEF Progress
<1> QED
  BY <1>2, <1>3, <1>8 DEF HostInv

(* Every call that loops over DPUs begins so.                              *)
LEMMA EnterNext ==
  ASSUME HostInv, FromFirst, Idle, call' # call,
         \/ \E v \in ProgramViews : Launch(v) \/ \E p \in Programs : Load(v, p)
         \/ \E v \in Views : \E reset, large \in BOOLEAN :
              \/ \E op \in {"to", "from"} : PushXfer(v, op, reset, large)
              \/ \E b \in Bufs : BroadcastTo(v, b, reset, large)
  PROVE  HostInv'
<1>1. ASSUME NEW v \in ProgramViews, Launch(v) PROVE HostInv'
  <2> DEFINE c == [op |-> "launch", large |-> TRUE, view |-> v]
  <2>1. v \in Views /\ v.begin = 0
    BY DEF FromFirst
  <2>2. ReadsLoaded(v.begin) = {prog[0] # Null}
    BY <2>1, ReadsFirst
  <2>3. Enter(c) /\ prog[0] # Null /\ UNCHANGED <<prog, symbols, mem, xfer_addr, buf>>
    BY <1>1, <2>2 DEF Launch, Keep
  <2>4. call' = c /\ before'.prog[0] # Null
    BY <2>3 DEF Enter, State
  <2>5. Called'
    BY <2>1, <2>4 DEF Called
  <2>6. c.large \in BOOLEAN /\ c.view \in Views
    BY <2>1
  <2>7. symbols' = IF c.op = "load" THEN c.prog ELSE symbols
    BY <2>3
  <2> HIDE DEF c
  <2> QED
    BY <2>3, <2>5, <2>6, <2>7, EnterKeeps
<1>2. ASSUME NEW v \in ProgramViews, NEW p \in Programs, Load(v, p) PROVE HostInv'
  <2> DEFINE c == [op |-> "load", large |-> TRUE, view |-> v, prog |-> p]
  <2>1. Enter(c) /\ symbols' = p /\ UNCHANGED <<prog, mem, xfer_addr, buf>>
    BY <1>2 DEF Load
  <2>2. call' = c /\ v \in Views
    BY <2>1 DEF Enter, FromFirst
  <2>3. Called'
    BY <2>2 DEF Called
  <2>4. c.large \in BOOLEAN /\ c.view \in Views
    BY <2>2
  <2>5. symbols' = IF c.op = "load" THEN c.prog ELSE symbols
    BY <2>1
  <2> HIDE DEF c
  <2> QED
    BY <2>1, <2>3, <2>4, <2>5, EnterKeeps
<1>3. ASSUME NEW v \in Views, NEW reset \in BOOLEAN, NEW large \in BOOLEAN,
             NEW op \in {"to", "from"}, PushXfer(v, op, reset, large)
      PROVE  HostInv'
  <2> DEFINE c == [op |-> op, large |-> large, view |-> v, reset |-> reset]
  <2>1. Enter(c) /\ symbols # Null /\ UNCHANGED <<prog, symbols, mem, xfer_addr, buf>>
    BY <1>3 DEF PushXfer
  <2>2. call' = c /\ before'.symbols # Null
    BY <2>1 DEF Enter, State
  <2>3. Called'
    BY <2>2 DEF Called
  <2> QED
    BY <2>1, <2>2, <2>3, EnterKeeps
<1>4. ASSUME NEW v \in Views, NEW reset \in BOOLEAN, NEW large \in BOOLEAN,
             NEW b \in Bufs, BroadcastTo(v, b, reset, large)
      PROVE  HostInv'
  <2> DEFINE c == [op |-> "broadcast", large |-> large, view |-> v, src |-> b, reset |-> reset]
  <2>1. Enter(c) /\ symbols # Null /\ UNCHANGED <<prog, symbols, mem, xfer_addr, buf>>
    BY <1>4 DEF BroadcastTo
  <2>2. call' = c /\ before'.symbols # Null
    BY <2>1 DEF Enter, State
  <2>3. Called'
    BY <2>2 DEF Called
  <2> QED
    BY <2>1, <2>2, <2>3, EnterKeeps
<1> QED
  BY <1>1, <1>2, <1>3, <1>4

-----------------------------------------------------------------------------
(* A thread serves its next DPU *)

(* It is one of the view that nobody has served, and is served now.        *)
LEMMA WorkDeals ==
  ASSUME Called, Dealt, NEW k \in Cores, at[k] < call.view.end,
         at' = [at EXCEPT ![k] = @ + Stride(call)], call' = call
  PROVE  /\ at[k] \in Calls!In(call.view) \ Served
         /\ Served' = Served \cup {at[k]}
         /\ Dealt'
<1> DEFINE n == Stride(call)
           d == at[k]
<1>1. /\ n \in Nat \ {0} /\ Cores = 0 .. n - 1 /\ call.view \in Views
      /\ n' = n /\ Cores' = Cores
  BY StrideFacts DEF Called, Cores, Stride
<1>2. d \in Nat /\ d >= call.view.begin /\ d % n = k
  BY DEF Dealt
<1>3. d \in Calls!In(call.view) /\ d \notin Served
  BY <1>1, <1>2, ViewFacts DEF Served
<1>4. (d + n) % n = k
  BY <1>1, <1>2, SameResidue
<1>5. /\ at' \in [Cores -> Nat] /\ at'[k] = d + n
      /\ \A j \in Cores : j # k => at'[j] = at[j]
  BY <1>1, <1>2 DEF Dealt
<1>6. Dealt'
  <2> SUFFICES ASSUME NEW j \in Cores PROVE at'[j] >= call.view.begin /\ at'[j] % n = j
    BY <1>1, <1>5 DEF Dealt
  <2>1. CASE j = k
    <3>1. at'[j] = d + n /\ d + n >= d /\ call.view.begin \in Nat
      BY <1>1, <1>2, <1>5, <2>1, ViewFacts
    <3> QED
      BY <1>1, <1>2, <1>4, <2>1, <3>1
  <2>2. CASE j # k
    BY <1>5, <2>2 DEF Dealt
  <2> QED
    BY <2>1, <2>2
<1>7. ASSUME NEW e \in Calls!In(call.view)
      PROVE  e < at'[e % n] <=> e < at[e % n] \/ e = d
  <2>1. e \in Nat /\ e % n \in Cores
    BY <1>1, ViewFacts, ResidueCore
  <2>2. CASE e % n = k
    <3>1. e < d + n => e < d \/ e = d
      BY <1>1, <1>2, <2>1, <2>2, NothingBetween
    <3> QED
      BY <1>1, <1>2, <1>5, <2>1, <2>2, <3>1
  <2>3. CASE e % n # k
    BY <1>2, <1>5, <2>1, <2>3
  <2> QED
    BY <2>2, <2>3
<1> QED
  BY <1>1, <1>3, <1>6, <1>7 DEF Served

(* The DPU was as the call found it, the buffers too unless it reads.      *)
LEMMA Found ==
  ASSUME HostInv, Looping, NEW d \in Dpus, d \notin Served
  PROVE  /\ Called /\ Progress /\ TypeInv
         /\ Untouched(d)
         /\ call.op # "from" => buf = before.buf
         /\ call.op # "load" => symbols = before.symbols
BY DEF HostInv, Progress

(* It ends up as if it were served alone, and no other changes.            *)
LEMMA ServeOne ==
  ASSUME HostInv, Looping, NEW d \in Dpus, d \notin Served, Serve(d), call' = call, before' = before
  PROVE  /\ Finished(d)'
         /\ \A e \in Dpus : e # d => /\ prog'[e] = prog[e] /\ mem'[e] = mem[e]
                                    /\ xfer_addr'[e] = xfer_addr[e]
         /\ TypeInv' /\ symbols' = symbols
         /\ call.op # "from" => buf' = buf
<1>1. Called /\ TypeInv /\ Untouched(d) /\ (call.op # "load" => symbols = before.symbols)
  BY Found
<1>2. /\ Touched(d)' = Touched(d) /\ Own(d)' = Own(d) /\ Meant(d)' = Meant(d)
      /\ Resets' = Resets
  BY DEF Touched, Own, Meant, Resets
<1>3. CASE SkipDpu(d)
  <2>1. Stored(d) /\ ~Touched(d)
    BY <1>1, <1>3 DEF SkipDpu, Untouched, Stored, Meant, Touched
  <2> QED
    BY <1>1, <1>2, <1>3, <2>1 DEF SkipDpu, data, Untouched, Finished, Stored, Resets, TypeInv
<1>4. CASE PushTo(d)
  <2>1. buf[xfer_addr[d]] \in Values /\ buf = before.buf /\ call.op = "to"
    BY <1>1, <1>4, Found DEF PushTo, TypeInv
  <2>2. PICK x \in Lands(d, buf[xfer_addr[d]]) : mem' = [mem EXCEPT ![d] = x]
    BY <1>4 DEF PushTo
  <2>3. x \in Values /\ (Own(d) => x = Meant(d)) /\ Touched(d)
    BY <1>1, <1>4, <2>1, <2>2, LandsFacts DEF PushTo, Own, Meant, Touched, Untouched
  <2>4. mem' \in [Dpus -> Values] /\ mem'[d] = x /\ \A e \in Dpus : e # d => mem'[e] = mem[e]
    BY <1>1, <2>2, <2>3 DEF TypeInv
  <2>5. Stored(d)'
    BY <1>2, <2>1, <2>3, <2>4 DEF Stored
  <2> QED
    BY <1>1, <1>2, <1>4, <2>1, <2>4, <2>5
       DEF PushTo, Disarm, Untouched, Finished, Resets, TypeInv
<1>5. CASE PushFrom(d)
  <2>1. mem[d] \in Values /\ call.op = "from"
    BY <1>1, <1>5 DEF PushFrom, TypeInv
  <2>2. buf' \in [Bufs -> Values]
    BY <1>1, <1>5, <2>1, LandsFacts DEF PushFrom, TypeInv
  <2>3. Stored(d)'
    BY <1>1, <1>2, <1>5, <2>1 DEF PushFrom, Untouched, Stored, Meant
  <2> QED
    BY <1>1, <1>2, <1>5, <2>1, <2>2, <2>3
       DEF PushFrom, Disarm, Untouched, Finished, Resets, TypeInv
<1>6. CASE Broadcast(d)
  <2>1. buf[call.src] \in Values /\ buf = before.buf /\ call.op = "broadcast"
    BY <1>1, <1>6, Found DEF Broadcast, TypeInv, Called
  <2>2. PICK x \in Lands(d, buf[call.src]) : mem' = [mem EXCEPT ![d] = x]
    BY <1>6 DEF Broadcast
  <2>3. x \in Values /\ (Own(d) => x = Meant(d)) /\ Touched(d)
    BY <1>1, <2>1, <2>2, LandsFacts DEF Own, Meant, Touched, Untouched
  <2>4. mem' \in [Dpus -> Values] /\ mem'[d] = x /\ \A e \in Dpus : e # d => mem'[e] = mem[e]
    BY <1>1, <2>2, <2>3 DEF TypeInv
  <2>5. Stored(d)'
    BY <1>2, <2>1, <2>3, <2>4 DEF Stored
  <2> QED
    BY <1>1, <1>2, <1>6, <2>1, <2>4, <2>5
       DEF Broadcast, Disarm, Untouched, Finished, Resets, TypeInv
<1>7. CASE LoadDpu(d)
  <2>1. Stored(d)' /\ ~Touched(d)
    BY <1>1, <1>2, <1>7 DEF LoadDpu, Stored, Meant, Touched, TypeInv
  <2> QED
    BY <1>1, <1>2, <1>7, <2>1, HostApiAssumption
       DEF LoadDpu, Called, Untouched, Finished, Resets, TypeInv
<1>8. CASE RunDpu(d)
  <2>1. Run(mem[d], NrTasklets) \in Values
    BY <1>1, RunFacts DEF NrTasklets, TypeInv
  <2>2. Stored(d)' /\ ~Touched(d)
    BY <1>1, <1>2, <1>8 DEF RunDpu, NrTasklets, Untouched, Stored, Meant, Touched, TypeInv
  <2> QED
    BY <1>1, <1>2, <1>8, <2>1, <2>2 DEF RunDpu, Untouched, Finished, Resets, TypeInv
<1> QED
  BY <1>3, <1>4, <1>5, <1>6, <1>7, <1>8 DEF Serve

(* What a reading call has put into the buffers comes from served DPUs.    *)
LEMMA ServeReads ==
  ASSUME HostInv, Looping, call.op = "from", NEW d \in Dpus, d \notin Served, Serve(d),
         call' = call, before' = before, Served' = Served \cup {d}, NEW b \in Bufs
  PROVE  Read(b)'
<1>1. Read(b) /\ Untouched(d) /\ TypeInv
  BY Found DEF Progress
<1>2. CASE SkipDpu(d)
  <2>1. before.xfer_addr[d] # b /\ buf' = buf
    BY <1>1, <1>2, HostApiAssumption DEF SkipDpu, data, Untouched
  <2> QED
    BY <1>1, <2>1 DEF Read, Own
<1>3. CASE PushFrom(d)
  <2>1. /\ xfer_addr[d] = before.xfer_addr[d] /\ mem[d] = before.mem[d]
        /\ prog[d] = before.prog[d] /\ symbols = before.symbols
    BY <1>1, Found DEF Untouched
  <2>2. PICK x \in Lands(d, mem[d]) : buf' = [buf EXCEPT ![xfer_addr[d]] = x]
    BY <1>3 DEF PushFrom
  <2>3. CASE xfer_addr[d] = b
    <3>1. buf'[b] = x
      BY <1>1, <2>2, <2>3 DEF TypeInv
    <3>2. Own(d) => buf'[b] = before.mem[d]
      BY <1>1, <2>1, <2>2, <3>1, LandsFacts DEF Own, TypeInv
    <3> QED
      BY <2>1, <2>3, <3>2 DEF Read, Own
  <2>4. CASE xfer_addr[d] # b
    <3>1. buf'[b] = buf[b]
      BY <1>1, <2>2, <2>4 DEF TypeInv
    <3> QED
      BY <1>1, <2>1, <2>4, <3>1 DEF Read, Own
  <2> QED
    BY <2>3, <2>4
<1> QED
  BY <1>2, <1>3 DEF Serve, PushTo, Broadcast, LoadDpu, RunDpu

(* An error is only reported of a DPU that had a buffer.                   *)
LEMMA ServeReturns ==
  ASSUME HostInv, Looping, NEW d \in Calls!In(call.view), d \in Dpus, d \notin Served, Serve(d)
  PROVE  ret' = ret \/ (/\ call.op = "broadcast" /\ ret' = "TRANSFER_ALREADY_SET"
                        /\ before.xfer_addr[d] # Null)
BY Found DEF Untouched, Serve, SkipDpu, PushTo, PushFrom, Broadcast, LoadDpu, RunDpu, data

(* A thread's step takes the call one DPU further.                         *)
LEMMA WorkNext ==
  ASSUME HostInv, Looping, NEW k \in Cores, Work(k)
  PROVE  HostInv'
<1>1. Called /\ BeforeType /\ Dealt /\ Progress /\ call.view \in Views
  BY DEF HostInv, Called
<1>2. call' = call /\ before' = before /\ Serve(at[k])
  BY DEF Work
<1>3. /\ at[k] \in Calls!In(call.view) \ Served /\ Dealt'
      /\ Served' = Served \cup {at[k]}
  BY <1>1, <1>2, WorkDeals DEF Work
<1>4. PICK d \in Dpus : d = at[k]
  BY <1>1, <1>3, ViewFacts
<1>5. /\ d \in Calls!In(call.view) /\ d \notin Served
      /\ Served' = Served \cup {d} /\ Serve(d)
  BY <1>2, <1>3, <1>4
<1>6. /\ Finished(d)' /\ TypeInv' /\ symbols' = symbols
      /\ \A e \in Dpus : e # d => /\ prog'[e] = prog[e] /\ mem'[e] = mem[e]
                                 /\ xfer_addr'[e] = xfer_addr[e]
      /\ call.op # "from" => buf' = buf
  BY <1>2, <1>5, ServeOne
<1>7. \A e \in Dpus : IF e \in Served' THEN Finished(e)' ELSE Untouched(e)'
  <2> SUFFICES ASSUME NEW e \in Dpus, e # d
               PROVE  IF e \in Served' THEN Finished(e)' ELSE Untouched(e)'
    BY <1>5, <1>6
  <2>1. IF e \in Served THEN Finished(e) ELSE Untouched(e)
    BY <1>1 DEF Progress
  <2> QED
    BY <1>2, <1>5, <1>6, <2>1 
       DEF Finished, Untouched, Stored, Touched, Meant, Own, Resets
<1>8. IF call.op = "from" THEN \A b \in Bufs : Read(b)' ELSE buf' = before.buf
  BY <1>1, <1>2, <1>5, <1>6, ServeReads DEF Progress
<1>9. \/ ret' = "OK"
      \/ /\ call.op = "broadcast" /\ ret' = "TRANSFER_ALREADY_SET"
         /\ \E e \in Calls!In(call.view) : before.xfer_addr[e] # Null
  BY <1>1, <1>2, <1>5, ServeReturns DEF Progress
<1>10. Called' /\ BeforeType'
  BY <1>1, <1>2 DEF Called, BeforeType
<1>11. Progress'
  BY <1>1, <1>2, <1>6, <1>7, <1>8, <1>9 DEF Progress
<1> QED
  BY <1>3, <1>6, <1>10, <1>11 DEF HostInv

(* When all threads are past the end, the whole view has been served.      *)
LEMMA JoinServed ==
  ASSUME Called, Dealt, \A k \in Cores : at[k] >= call.view.end
  PROVE  Served = Calls!In(call.view)
<1> SUFFICES ASSUME NEW d \in Calls!In(call.view) PROVE d < at[d % Stride(call)]
  BY DEF Served
<1>1. call.view \in Views
  BY DEF Called
<1>2. d \in Nat /\ d < call.view.end /\ call.view.end \in Nat
  BY <1>1, ViewFacts
<1>3. d % Stride(call) \in Cores
  BY <1>2, ResidueCore
<1>4. at[d % Stride(call)] \in Nat /\ at[d % Stride(call)] >= call.view.end
  BY <1>3 DEF Dealt
<1> QED
  BY <1>2, <1>4

(* Every step of the host keeps the invariant.                             *)
LEMMA HostNext == FromFirst /\ HostInv /\ [Next]_vars => HostInv'
<1> SUFFICES ASSUME FromFirst, HostInv, [Next]_vars PROVE HostInv'
  OBVIOUS
<1>1. ASSUME UNCHANGED vars PROVE HostInv'
  <2>1. /\ UNCHANGED <<prog, symbols, mem, xfer_addr, buf, ret, call, at, before>>
    BY <1>1 DEF vars, data
  <2> QED
    BY <2>1 DEF HostInv, TypeInv, Looping, Called, BeforeType, Dealt, Progress, Cores, Served,
                Finished, Untouched, Stored, Touched, Meant, Own, Resets, Read
<1>2. ASSUME Looping, Join PROVE HostInv'
  BY <1>2 DEF Join, HostInv, TypeInv, Looping, NoCall, data
<1>3. ASSUME Looping, NEW k \in Cores, Work(k) PROVE HostInv'
  BY <1>3, WorkNext
<1>4. ASSUME Idle, NEW v \in ProgramViews,
             LoadFails(v) \/ Launch(v) \/ \E p \in Programs : Load(v, p)
      PROVE  HostInv'
  <2>1. CASE LoadFails(v)
    BY <1>4, <2>1, AtOnce DEF LoadFails, Keep
  <2>2. CASE Launch(v)
    BY <1>4, <2>2, AtOnce, EnterNext
  <2>3. CASE \E p \in Programs : Load(v, p)
    <3>1. call'.op = "load" /\ call.op = "none"
      BY <1>4, <2>3 DEF Load, Enter, Idle
    <3> QED
      BY <1>4, <2>3, <3>1, EnterNext
  <2> QED
    BY <1>4, <2>1, <2>2, <2>3
<1>5. ASSUME Idle, NEW v \in Views, Transfer(v) PROVE HostInv'
  <2>1. CASE \/ \E b \in Bufs \cup {Null} : Prepare(v, b)
             \/ \E b \in Bufs : CopyTo(v, b) \/ CopyFrom(v, b)
    BY <1>5, <2>1, AtOnce DEF Prepare, CopyTo, CopyFrom, Keep
  <2>2. CASE \E reset, large \in BOOLEAN, op \in {"to", "from"} : PushXfer(v, op, reset, large)
    BY <1>5, <2>2, EnterNext DEF PushXfer, Enter, Idle
  <2>3. CASE \E reset, large \in BOOLEAN, b \in Bufs : BroadcastTo(v, b, reset, large)
    BY <1>5, <2>3, EnterNext DEF BroadcastTo, Enter, Idle
  <2>4. CASE CopyFaults(v)
    <3>1. ~Looping' /\ UNCHANGED <<prog, symbols, mem, xfer_addr, buf>>
      BY <2>4 DEF CopyFaults, Killed, Looping, data
    <3> QED
      BY <3>1 DEF HostInv, TypeInv
  <2> QED
    BY <1>5, <2>1, <2>2, <2>3, <2>4 DEF Transfer
<1>6. ASSUME Idle, UnknownSymbol PROVE HostInv'
  BY <1>6, AtOnce DEF UnknownSymbol, Keep
<1>7. ASSUME Idle, NEW b \in Bufs, NEW v \in Values, HostWrites(b, v) PROVE HostInv'
  BY <1>7, AtOnce DEF HostWrites, Keep
<1>8. ASSUME Looping, NEW k \in Cores, Fault(k) PROVE HostInv'
  <2>1. ~Looping' /\ UNCHANGED <<prog, symbols, mem, xfer_addr, buf>>
    BY <1>8 DEF Fault, Killed, Looping, data
  <2> QED
    BY <2>1 DEF HostInv, TypeInv
<1> QED
  BY <1>1, <1>2, <1>3, <1>4, <1>5, <1>6, <1>7, <1>8
     DEF Next, Transfer, LoadFails, Launch, Load, UnknownSymbol, HostWrites,
         Prepare, CopyTo, CopyFrom, CopyFaults, PushXfer, BroadcastTo

(* In every reachable state, a call under way has done to the DPUs it has  *)
(* reached what it should, and nothing to the others (ummHostApi.c:148).   *)
THEOREM CallsProgress == ASSUME FromFirst PROVE Spec => []HostInv
<1>1. Init => HostInv
  BY HostInit
<1>2. HostInv /\ [Next]_vars => HostInv'
  BY HostNext
<1> QED
  BY <1>1, <1>2, PTL DEF Spec

-----------------------------------------------------------------------------
(* Symbols and programs *)

Loading == call.op = "load"

SymbolsInv ==
  IF Loading THEN call.view = Calls!Whole
  ELSE symbols # Null => symbols \in Refused \/ \A d \in Dpus : prog[d] = symbols

WholeOnly == ProgramViews \subseteq {Calls!Whole}

(* The whole set is a view that starts at DPU 0.                           *)
LEMMA WholeFacts ==
  /\ Calls!Whole \in Views /\ Calls!In(Calls!Whole) = Dpus
  /\ WholeOnly => FromFirst
BY HostApiAssumption DEF Views, Calls!Views, Calls!Whole, Calls!In, Dpus, Calls!Dpus,
                         WholeOnly, FromFirst

(* No symbol is known before the first load.                               *)
LEMMA SymbolsInit == Init => SymbolsInv
BY DEF Init, NoCall, SymbolsInv, Loading

(* Only a load of the whole set changes programs and symbols.              *)
LEMMA SymbolsNext == WholeOnly /\ HostInv /\ SymbolsInv /\ [Next]_vars => SymbolsInv'
<1> SUFFICES ASSUME WholeOnly, HostInv, SymbolsInv, [Next]_vars PROVE SymbolsInv'
  OBVIOUS
<1>1. ASSUME UNCHANGED <<prog, symbols, call>> PROVE SymbolsInv'
  BY <1>1 DEF SymbolsInv, Loading
<1>2. ASSUME Looping, Join PROVE SymbolsInv'
  <2>1. ~Loading'
    BY <1>2 DEF Join, NoCall, Loading
  <2>2. prog' = prog /\ symbols' = symbols
    BY <1>2 DEF Join, data
  <2>3. CASE Loading
    <3>1. Served = Dpus
      BY <1>2, <2>3, JoinServed, WholeFacts DEF HostInv, Join, SymbolsInv
    <3>2. symbols = call.prog /\ \A d \in Dpus : prog[d] = call.prog
      BY <1>2, <2>3, <3>1 DEF HostInv, Progress, Finished, Loading
    <3> QED
      BY <2>1, <2>2, <3>2 DEF SymbolsInv
  <2>4. CASE ~Loading
    BY <2>1, <2>2, <2>4 DEF SymbolsInv
  <2> QED
    BY <2>3, <2>4
<1>3. ASSUME Looping, NEW k \in Cores, Work(k) PROVE SymbolsInv'
  <2>1. call' = call /\ Serve(at[k])
    BY <1>3 DEF Work
  <2>2. Loading \/ (prog' = prog /\ symbols' = symbols)
    BY <2>1 DEF Serve, SkipDpu, PushTo, PushFrom, Broadcast, LoadDpu, RunDpu, data, Loading
  <2> QED
    BY <2>1, <2>2 DEF SymbolsInv, Loading
<1>4. ASSUME Idle, NEW v \in ProgramViews, NEW p \in Programs, Load(v, p) PROVE SymbolsInv'
  <2>1. call' = [op |-> "load", large |-> TRUE, view |-> v, prog |-> p]
    BY <1>4 DEF Load, Enter
  <2>2. v = Calls!Whole
    BY DEF WholeOnly
  <2> QED
    BY <2>1, <2>2 DEF SymbolsInv, Loading
<1>5. ASSUME Idle, NEW v \in ProgramViews, LoadFails(v) PROVE SymbolsInv'
  <2>1. call' = call /\ symbols' \in Refused \cup {Null} /\ ~Loading
    BY <1>5 DEF LoadFails, Keep, Idle, Loading
  <2> QED
    BY <2>1 DEF SymbolsInv, Loading
<1>6. ASSUME Idle, prog' = prog, symbols' = symbols, call'.op # "load" PROVE SymbolsInv'
  BY <1>6 DEF SymbolsInv, Idle, Loading
<1>7. ASSUME Idle, NEW v \in ProgramViews, Launch(v) PROVE SymbolsInv'
  BY <1>6, <1>7 DEF Launch, Enter, Keep, Idle
<1>8. ASSUME Idle, NEW v \in Views, Transfer(v) PROVE SymbolsInv'
  <2>1. prog' = prog /\ symbols' = symbols
    BY <1>8 DEF Transfer, Prepare, CopyTo, CopyFrom, CopyFaults, PushXfer, BroadcastTo, data
  <2>2. CASE \/ \E b \in Bufs \cup {Null} : Prepare(v, b)
             \/ \E b \in Bufs : CopyTo(v, b) \/ CopyFrom(v, b)
    BY <1>6, <1>8, <2>1, <2>2 DEF Prepare, CopyTo, CopyFrom, Keep, Idle
  <2>3. CASE \E reset, large \in BOOLEAN, op \in {"to", "from"} : PushXfer(v, op, reset, large)
    <3>1. call'.op \in {"to", "from"}
      BY <2>3 DEF PushXfer, Enter
    <3> QED
      BY <1>6, <1>8, <2>1, <3>1
  <2>4. CASE \E reset, large \in BOOLEAN, b \in Bufs : BroadcastTo(v, b, reset, large)
    <3>1. call'.op = "broadcast"
      BY <2>4 DEF BroadcastTo, Enter
    <3> QED
      BY <1>6, <1>8, <2>1, <3>1
  <2>5. CASE CopyFaults(v)
    <3>1. call'.op = "fault"
      BY <2>5 DEF CopyFaults, Killed
    <3> QED
      BY <1>6, <1>8, <2>1, <3>1
  <2> QED
    BY <1>8, <2>2, <2>3, <2>4, <2>5 DEF Transfer
<1>9. ASSUME Idle, UnknownSymbol PROVE SymbolsInv'
  BY <1>1, <1>9 DEF UnknownSymbol, Keep
<1>10. ASSUME Idle, NEW b \in Bufs, NEW v \in Values, HostWrites(b, v) PROVE SymbolsInv'
  BY <1>1, <1>10 DEF HostWrites, Keep
<1>11. ASSUME Looping, NEW k \in Cores, Fault(k) PROVE SymbolsInv'
  <2>1. ~Loading /\ ~Loading' /\ prog' = prog /\ symbols' = symbols
    BY <1>11 DEF Fault, Killed, Loading, data
  <2> QED
    BY <2>1 DEF SymbolsInv
<1> QED
  BY <1>1, <1>2, <1>3, <1>4, <1>5, <1>7, <1>8, <1>9, <1>10, <1>11
     DEF Next, vars, data, LoadFails, Launch, Load, UnknownSymbol, HostWrites, Transfer,
         Prepare, CopyTo, CopyFrom, CopyFaults, PushXfer, BroadcastTo

(* When every load concerns the whole set, and none is under way, a known  *)
(* symbol is one of the program in every DPU (ummHostApi.c:130), unless it *)
(* was left by a file that the last load refused after reading its         *)
(* symbols; for any number of DPUs and threads.                            *)
THEOREM OwnSymbols == ASSUME WholeOnly PROVE Spec => []SymbolsOfThePrograms
<1>1. Init => HostInv /\ SymbolsInv
  BY HostInit, SymbolsInit
<1>2. HostInv /\ SymbolsInv /\ [Next]_vars => HostInv' /\ SymbolsInv'
  BY HostNext, SymbolsNext, WholeFacts
<1>3. HostInv /\ SymbolsInv => SymbolsOfThePrograms
  BY DEF SymbolsInv, SymbolsOfThePrograms, Idle, Loading
<1> QED
  BY <1>1, <1>2, <1>3, PTL DEF Spec

-----------------------------------------------------------------------------
(* The calls implement HostCalls *)

(* The state of HostCalls: that of the program between calls, that which   *)
(* the call found while it is under way.                                   *)
LEMMA SeenIdle ==
  /\ Idle => /\ Seen.prog = prog /\ Seen.symbols = symbols /\ Seen.mem = mem
             /\ Seen.xfer_addr = xfer_addr /\ Seen.buf = buf /\ Seen.ret = ret
  /\ Idle' => /\ Seen'.prog = prog' /\ Seen'.symbols = symbols' /\ Seen'.mem = mem'
              /\ Seen'.xfer_addr = xfer_addr' /\ Seen'.buf = buf' /\ Seen'.ret = ret'
BY DEF Seen, State

(* HostCalls sees nothing else.                                            *)
LEMMA SameSeen == ASSUME Seen' = Seen PROVE UNCHANGED Calls!vars
BY DEF Calls!vars

(* Entering a region and serving a DPU change nothing there.               *)
LEMMA UnderWay ==
  ASSUME \/ Idle /\ \E c : c.op # "none" /\ Enter(c)
         \/ Looping /\ \E k \in Cores : Work(k) \/ Fault(k)
         \/ Idle /\ \E v : CopyFaults(v)
         \/ UNCHANGED vars
  PROVE  UNCHANGED Calls!vars
<1>1. ASSUME Idle, NEW c, c.op # "none", Enter(c) PROVE Seen' = Seen
  BY <1>1 DEF Enter, Seen, Idle
<1>2. ASSUME Looping, NEW k \in Cores, Work(k) PROVE Seen' = Seen
  BY <1>2, LoopingFacts DEF Work, Seen, Idle
<1>3. ASSUME UNCHANGED vars PROVE Seen' = Seen
  BY <1>3 DEF vars, data, Seen, State, Idle
<1>4. ASSUME Looping, NEW k \in Cores, Fault(k) PROVE Seen' = Seen
  <2>1. ~Idle /\ ~Idle' /\ before' = before
    BY <1>4, LoopingFacts DEF Fault, Killed, Idle
  <2> QED
    BY <2>1 DEF Seen
<1>5. ASSUME Idle, NEW v, CopyFaults(v) PROVE Seen' = Seen
  <2>1. ~Idle' /\ before' = State
    BY <1>5 DEF CopyFaults, Killed, Idle
  <2> QED
    BY <1>5, <2>1 DEF Seen
<1> QED
  BY <1>1, <1>2, <1>3, <1>4, <1>5, SameSeen

(* Both start from the same states.                                        *)
LEMMA MapInit == Init => Calls!Init
<1> SUFFICES ASSUME Init PROVE Calls!Init
  OBVIOUS
<1>1. Idle
  BY DEF Init, Idle, NoCall
<1> QED
  BY <1>1, SeenIdle DEF Init, Calls!Init, Dpus

(* Calls that are over at once                                             *)
LEMMA MapAtOnce ==
  ASSUME HostInv, FromFirst, Idle, Idle'
  PROVE  /\ \A v \in ProgramViews : LoadFails(v) => Calls!LoadFails
         /\ \A v \in ProgramViews : Launch(v) => Calls!Launch(v)
         /\ UnknownSymbol => Calls!UnknownSymbol
         /\ \A v \in Views : \A b \in Bufs \cup {Null} : Prepare(v, b) => Calls!Prepare(v, b)
         /\ \A v \in Views : \A b \in Bufs : /\ CopyTo(v, b) => Calls!CopyTo(v, b)
                                             /\ CopyFrom(v, b) => Calls!CopyFrom(v, b)
         /\ \A b \in Bufs, v \in Values : HostWrites(b, v) => Calls!HostWrites(b, v)
<1> USE SeenIdle
<1>1. ASSUME NEW v \in ProgramViews, LoadFails(v) PROVE Calls!LoadFails
  BY <1>1 DEF LoadFails, Return, Calls!LoadFails
<1>2. ASSUME NEW v \in ProgramViews, Launch(v) PROVE Calls!Launch(v)
  <2>1. v.begin = 0 /\ ReadsLoaded(v.begin) = {prog[0] # Null}
    BY ReadsFirst DEF FromFirst
  <2>2. prog[0] = Null /\ ret' = "NO_PROGRAM_LOADED"
    <3> SUFFICES ASSUME prog[0] # Null PROVE FALSE
      BY <1>2, <2>1 DEF Launch, Return, Enter, Idle
    <3>1. Enter([op |-> "launch", large |-> TRUE, view |-> v])
      BY <1>2, <2>1 DEF Launch
    <3>2. call'.op = "launch"
      BY <3>1 DEF Enter
    <3> QED
      BY <3>2 DEF Idle
  <2> QED
    BY <1>2, <2>1, <2>2 DEF Launch, Calls!Launch
<1>3. ASSUME UnknownSymbol PROVE Calls!UnknownSymbol
  BY <1>3 DEF UnknownSymbol, Return, Calls!UnknownSymbol
<1>4. ASSUME NEW v \in Views, NEW b \in Bufs \cup {Null}, Prepare(v, b) PROVE Calls!Prepare(v, b)
  <2>1. xfer_addr' = Calls!Update(xfer_addr, Calls!In(v), Calls!All(Calls!In(v), b))
    BY <1>4 DEF Prepare, Calls!Update, Calls!All, Dpus
  <2>2. ret' = IF Calls!Armed(v) # {} THEN "TRANSFER_ALREADY_SET" ELSE "OK"
    BY <1>4 DEF Prepare, Return, Calls!Armed
  <2> QED
    BY <1>4, <2>1, <2>2 DEF Prepare, Calls!Prepare
<1>5. ASSUME NEW v \in Views, NEW b \in Bufs
      PROVE  (CopyTo(v, b) => Calls!CopyTo(v, b)) /\ (CopyFrom(v, b) => Calls!CopyFrom(v, b))
  <2>1. v.begin \in Dpus /\ TypeInv
    BY ViewFacts DEF HostInv
  <2>2. /\ Calls!Lands(v.begin, buf[b]) = Lands(v.begin, buf[b])
        /\ Calls!Lands(v.begin, mem[v.begin]) = Lands(v.begin, mem[v.begin])
    BY DEF Calls!Lands, Lands
  <2>3. Calls!HaveMemory({v.begin}) <=> prog[v.begin] # Null
    BY DEF Calls!HaveMemory
  <2>4. ASSUME CopyTo(v, b) PROVE Calls!CopyTo(v, b)
    <3> DEFINE x == Calls!All({v.begin}, buf[b])
    <3>1. PICK y \in Lands(v.begin, buf[b]) : mem' = [mem EXCEPT ![v.begin] = y]
      BY <2>4 DEF CopyTo
    <3>2. buf[b] \in Values /\ x[v.begin] = buf[b]
      BY <2>1 DEF TypeInv, Calls!All
    <3>3. y \in Values
      BY <2>1, <3>1, <3>2, LandsFacts
    <3>4. /\ mem' \in [Dpus -> Values] /\ mem'[v.begin] = y
          /\ \A d \in Dpus : d # v.begin => mem'[d] = mem[d]
      BY <2>1, <3>1, <3>3 DEF TypeInv
    <3>5. Calls!Send({v.begin}, x)
      <4> HIDE DEF x
      <4> QED
        <5>1. symbols # Null /\ Calls!HaveMemory({v.begin})
          BY <2>3, <2>4 DEF CopyTo
        <5>2. \A d \in Dpus : IF d \in {v.begin} THEN mem'[d] \in Calls!Lands(d, x[d])
                              ELSE mem'[d] = mem[d]
          BY <2>2, <3>1, <3>2, <3>4
        <5> QED
          BY <3>4, <5>1, <5>2 DEF Calls!Send, Dpus
    <3> QED
      BY <2>4, <3>5 DEF CopyTo, Return, Calls!CopyTo
  <2>5. ASSUME CopyFrom(v, b) PROVE Calls!CopyFrom(v, b)
    <3>1. PICK x \in Lands(v.begin, mem[v.begin]) : buf' = [buf EXCEPT ![b] = x]
      BY <2>5 DEF CopyFrom
    <3>2. \E y \in Calls!Lands(v.begin, mem[v.begin]) : buf' = [buf EXCEPT ![b] = y]
      BY <2>2, <3>1
    <3>3. /\ symbols # Null /\ Calls!HaveMemory({v.begin})
          /\ ret' = "OK" /\ UNCHANGED <<prog, symbols, mem, xfer_addr>>
      BY <2>3, <2>5 DEF CopyFrom, Return
    <3> QED
      BY <3>2, <3>3 DEF Calls!CopyFrom
  <2> QED
    BY <2>4, <2>5
<1>6. ASSUME NEW b \in Bufs, NEW v \in Values, HostWrites(b, v) PROVE Calls!HostWrites(b, v)
  BY <1>6 DEF HostWrites, Calls!HostWrites
<1> QED
  BY <1>1, <1>2, <1>3, <1>4, <1>5, <1>6

(* What a region leaves                                                    *)
LEMMA AtJoin ==
  ASSUME HostInv, Looping, Join
  PROVE  /\ Called /\ TypeInv /\ BeforeType /\ Idle'
         /\ Progress /\ Served = Calls!In(call.view)
         /\ UNCHANGED <<prog, symbols, mem, xfer_addr, buf, ret>>
         /\ \A d \in Dpus : IF d \in Calls!In(call.view) THEN Finished(d) ELSE Untouched(d)
         /\ /\ Seen.prog = before.prog /\ Seen.symbols = before.symbols /\ Seen.mem = before.mem
            /\ Seen.xfer_addr = before.xfer_addr /\ Seen.buf = before.buf
         /\ /\ Seen'.prog = prog /\ Seen'.symbols = symbols /\ Seen'.mem = mem
            /\ Seen'.xfer_addr = xfer_addr /\ Seen'.buf = buf /\ Seen'.ret = ret
<1>1. Called /\ BeforeType /\ Dealt /\ TypeInv /\ Progress
  BY DEF HostInv
<1>2. Served = Calls!In(call.view)
  BY <1>1, JoinServed DEF Join
<1>3. Idle' /\ UNCHANGED <<prog, symbols, mem, xfer_addr, buf, ret>>
  BY DEF Join, Idle, NoCall, data
<1>4. /\ Seen.prog = before.prog /\ Seen.symbols = before.symbols /\ Seen.mem = before.mem
      /\ Seen.xfer_addr = before.xfer_addr /\ Seen.buf = before.buf
  BY LoopingFacts DEF Seen
<1>5. \A d \in Dpus : IF d \in Calls!In(call.view) THEN Finished(d) ELSE Untouched(d)
  BY <1>1, <1>2 DEF Progress
<1> QED
  BY <1>1, <1>2, <1>3, <1>4, <1>5, SeenIdle

(* What a call has left alone when it returns, and what it has reset       *)
LEMMA Unchanging ==
  ASSUME HostInv, Looping, Join
  PROVE  /\ call.op # "load" => prog = before.prog /\ symbols = before.symbols
         /\ call.op = "from" => mem = before.mem
         /\ call.op # "from" => buf = before.buf
         /\ xfer_addr = IF Resets
                        THEN Calls!Update(before.xfer_addr, Calls!In(call.view),
                                          Calls!All(Calls!In(call.view), Null))
                        ELSE before.xfer_addr
         /\ call.op # "broadcast" => ret = "OK"
<1>1. \A d \in Dpus : IF d \in Calls!In(call.view) THEN Finished(d) ELSE Untouched(d)
  BY AtJoin
<1>2. call.op # "load" => prog = before.prog
  BY <1>1, AtJoin DEF Finished, Untouched, TypeInv, BeforeType
<1>3. call.op = "from" => mem = before.mem
  BY <1>1, AtJoin DEF Finished, Untouched, Stored, Meant, TypeInv, BeforeType
<1>4. xfer_addr = IF Resets
                  THEN Calls!Update(before.xfer_addr, Calls!In(call.view),
                                    Calls!All(Calls!In(call.view), Null))
                  ELSE before.xfer_addr
  BY <1>1, AtJoin DEF Finished, Untouched, TypeInv, BeforeType, Calls!Update, Calls!All, Dpus
<1> QED
  BY <1>2, <1>3, <1>4, AtJoin DEF Progress

(* A load gave every DPU of the view the program and its memory image.     *)
LEMMA MapLoad ==
  ASSUME HostInv, Looping, Join, call.op = "load"
  PROVE  Calls!Load(call.view, call.prog)
<1> DEFINE ds == Calls!In(call.view)
<1>1. \A d \in Dpus : IF d \in ds THEN Finished(d) ELSE Untouched(d)
  BY AtJoin
<1>2. /\ prog = Calls!Update(before.prog, ds, Calls!All(ds, call.prog))
      /\ mem = Calls!Update(before.mem, ds, Calls!All(ds, Image))
  BY <1>1, AtJoin 
     DEF Finished, Untouched, Stored, Meant, TypeInv, Calls!Update, Calls!All, Dpus
<1>3. symbols = call.prog /\ ret = "OK" /\ buf = before.buf /\ xfer_addr = before.xfer_addr
  BY AtJoin, Unchanging DEF Progress, Resets
<1> QED
  BY <1>2, <1>3, AtJoin DEF Calls!Load

(* A launch ran every DPU of the view once.                                *)
LEMMA MapLaunch ==
  ASSUME HostInv, Looping, Join, call.op = "launch"
  PROVE  Calls!Launch(call.view)
<1> DEFINE ds == Calls!In(call.view)
           n == IF before.symbols = Null THEN 1 ELSE Tasklets[before.symbols]
<1>1. \A d \in Dpus : IF d \in ds THEN Finished(d) ELSE Untouched(d)
  BY AtJoin
<1>2. mem = Calls!Update(before.mem, ds, [d \in ds |-> Run(before.mem[d], n)])
  BY <1>1, AtJoin DEF Finished, Untouched, Stored, Meant, TypeInv, Calls!Update, Dpus
<1>3. /\ prog = before.prog /\ symbols = before.symbols /\ ret = "OK" /\ buf = before.buf
      /\ xfer_addr = before.xfer_addr
  BY Unchanging DEF Resets
<1>4. before.prog[call.view.begin] # Null
  BY AtJoin DEF Called
<1> QED
  BY <1>2, <1>3, <1>4, AtJoin DEF Calls!Launch, Calls!NrTasklets

(* A transfer to the DPUs reached those that had a buffer.                 *)
LEMMA MapTo ==
  ASSUME HostInv, Looping, Join, call.op = "to"
  PROVE  Calls!PushTo(call.view, call.reset)
<1> DEFINE ds == Calls!In(call.view)
           armed == Calls!Armed(call.view)
<1>1. \A d \in Dpus : IF d \in ds THEN Finished(d) ELSE Untouched(d)
  BY AtJoin
<1>2. armed = {d \in ds : before.xfer_addr[d] # Null}
  BY AtJoin DEF Calls!Armed
<1>3. \A d \in Dpus : IF d \in armed
                      THEN /\ before.prog[d] # Null
                           /\ mem[d] = before.buf[before.xfer_addr[d]] \/ ~Own(d)
                      ELSE mem[d] = before.mem[d]
  <2> HIDE DEF ds, armed
  <2> QED
    BY <1>1, <1>2 DEF Finished, Untouched, Stored, Touched, Meant
<1>4. /\ prog = before.prog /\ symbols = before.symbols /\ ret = "OK" /\ buf = before.buf
      /\ Resets = call.reset
  BY AtJoin, Unchanging DEF Called, Resets
<1>5. Calls!Disarm(call.view, call.reset)
  BY <1>4, AtJoin, Unchanging DEF Calls!Disarm
<1>6. before.symbols # Null
  BY AtJoin DEF Called
<1>7. armed \subseteq Dpus /\ Calls!HaveMemory(armed)
  <2>1. armed \subseteq Dpus
    BY <1>2, AtJoin, ViewFacts DEF Called
  <2> HIDE DEF armed
  <2> QED
    BY <1>3, <2>1, AtJoin DEF Calls!HaveMemory
<1>8. Calls!Send(armed, [d \in armed |-> before.buf[before.xfer_addr[d]]])
  <2>1. mem \in [Dpus -> Values]
    BY AtJoin DEF TypeInv
  <2> HIDE DEF armed
  <2> QED
    BY <1>3, <1>6, <1>7, <2>1, AtJoin DEF Calls!Send, Calls!Lands, Own, Dpus
<1> QED
  BY <1>4, <1>5, <1>8, AtJoin DEF Calls!PushTo

(* A transfer to the host filled every prepared buffer.                    *)
LEMMA MapFrom ==
  ASSUME HostInv, Looping, Join, call.op = "from"
  PROVE  Calls!PushFrom(call.view, call.reset)
<1> DEFINE ds == Calls!In(call.view)
<1>1. ASSUME NEW b \in Bufs
      PROVE  LET users == {d \in ds : before.xfer_addr[d] = b}
             IN  IF users = {} THEN buf[b] = before.buf[b]
                 ELSE \E d \in users : buf[b] \in Calls!Lands(d, before.mem[d])
  <2>1. Read(b) /\ Served = ds
    BY <1>1, AtJoin DEF Progress
  <2>2. buf[b] \in Values
    BY <1>1, AtJoin DEF TypeInv
  <2>3. \A d \in ds : (Own(d) => buf[b] = before.mem[d]) => buf[b] \in Calls!Lands(d, before.mem[d])
    BY <2>2, AtJoin DEF Own, Calls!Lands
  <2> HIDE DEF ds
  <2> QED
    BY <2>1, <2>3 DEF Read
<1>2. /\ prog = before.prog /\ symbols = before.symbols /\ ret = "OK" /\ mem = before.mem
      /\ Resets = call.reset
  BY AtJoin, Unchanging DEF Called, Resets
<1>3. Calls!Disarm(call.view, call.reset)
  BY <1>2, AtJoin, Unchanging DEF Calls!Disarm
<1>4. before.symbols # Null /\ buf \in [Bufs -> Values]
  BY AtJoin DEF Called, TypeInv
<1>5. Calls!HaveMemory(Calls!Armed(call.view))
  <2>1. \A d \in ds : d \in Dpus /\ Finished(d)
    BY AtJoin, ViewFacts DEF Called
  <2> HIDE DEF ds
  <2>2. Calls!Armed(call.view) = {d \in ds : before.xfer_addr[d] # Null}
    BY AtJoin DEF Calls!Armed, ds
  <2> QED
    BY <2>1, <2>2, AtJoin DEF Finished, Touched, Calls!HaveMemory
<1> QED
  BY <1>1, <1>2, <1>3, <1>4, <1>5, AtJoin DEF Calls!PushFrom, Dpus

(* A broadcast reached every DPU, prepared or not.                         *)
LEMMA MapBroadcast ==
  ASSUME HostInv, Looping, Join, call.op = "broadcast"
  PROVE  Calls!Broadcast(call.view, call.src, call.reset)
<1> DEFINE ds == Calls!In(call.view)
<1>1. \A d \in Dpus : IF d \in ds THEN Finished(d) ELSE Untouched(d)
  BY AtJoin
<1>2. \A d \in Dpus : IF d \in ds THEN /\ before.prog[d] # Null
                                       /\ mem[d] = before.buf[call.src] \/ ~Own(d)
                      ELSE mem[d] = before.mem[d]
  BY <1>1 DEF Finished, Untouched, Stored, Touched, Meant
<1>3. /\ prog = before.prog /\ symbols = before.symbols /\ buf = before.buf
      /\ Resets = call.reset
  BY AtJoin, Unchanging DEF Called, Resets
<1>4. Calls!Disarm(call.view, call.reset)
  BY <1>3, AtJoin, Unchanging DEF Calls!Disarm
<1>5. before.symbols # Null
  BY AtJoin DEF Called
<1>6. ret = "OK" \/ (ret = "TRANSFER_ALREADY_SET" /\ Calls!Armed(call.view) # {})
  BY AtJoin DEF Progress, Calls!Armed
<1>7. ds \subseteq Dpus /\ Calls!HaveMemory(ds)
  <2>1. ds \subseteq Dpus
    BY AtJoin, ViewFacts DEF Called
  <2>2. Seen.prog = before.prog
    BY AtJoin
  <2> HIDE DEF ds
  <2>3. \A d \in ds : before.prog[d] # Null
    BY <1>2, <2>1
  <2> QED
    BY <2>1, <2>2, <2>3 DEF Calls!HaveMemory
<1>8. Calls!Send(ds, Calls!All(ds, before.buf[call.src]))
  <2>1. mem \in [Dpus -> Values]
    BY AtJoin DEF TypeInv
  <2> HIDE DEF ds
  <2> QED
    BY <1>2, <1>5, <1>7, <2>1, AtJoin DEF Calls!Send, Calls!Lands, Calls!All, Own, Dpus
<1> QED
  BY <1>3, <1>4, <1>6, <1>8, AtJoin DEF Calls!Broadcast

(* The steps that are one of HostCalls for some view, and the views there. *)
LEMMA ViewsThere == Views = Calls!Views
BY DEF Views

(* Every return is a step of HostCalls.                                    *)
LEMMA MapJoin == ASSUME HostInv, Looping, Join PROVE Calls!Next
<1>1. Called /\ call.view \in Calls!Views
  BY AtJoin, ViewsThere DEF Called
<1>2. CASE call.op = "load"
  BY <1>1, <1>2, MapLoad DEF Called, Calls!Next
<1>3. CASE call.op = "launch"
  BY <1>1, <1>3, MapLaunch DEF Calls!Next
<1>4. CASE call.op = "to"
  BY <1>1, <1>4, MapTo DEF Called, Calls!Next
<1>5. CASE call.op = "from"
  BY <1>1, <1>5, MapFrom DEF Called, Calls!Next
<1>6. CASE call.op = "broadcast"
  BY <1>1, <1>6, MapBroadcast DEF Called, Calls!Next
<1> QED
  BY <1>1, <1>2, <1>3, <1>4, <1>5, <1>6 DEF Called

(* Every other step is one too, or is invisible there.                     *)
LEMMA MapStep == FromFirst /\ HostInv /\ [Next]_vars => [Calls!Next]_(Calls!vars)
<1> SUFFICES ASSUME FromFirst, HostInv, [Next]_vars PROVE Calls!Next \/ UNCHANGED Calls!vars
  OBVIOUS
<1>1. CASE UNCHANGED vars
  BY <1>1, UnderWay
<1>2. CASE Looping /\ Join
  BY <1>2, MapJoin
<1>3. CASE Looping /\ \E k \in Cores : Work(k) \/ Fault(k)
  BY <1>3, UnderWay
<1>4. ASSUME Idle, NEW c, c.op # "none", Enter(c) PROVE UNCHANGED Calls!vars
  BY <1>4, UnderWay
<1>5. ASSUME Idle, NEW v \in ProgramViews, LoadFails(v) PROVE Calls!Next
  <2>1. Idle'
    BY <1>5 DEF LoadFails, Keep, Idle
  <2> QED
    BY <1>5, <2>1, MapAtOnce DEF Calls!Next
<1>6. ASSUME Idle, NEW v \in ProgramViews, Launch(v) PROVE Calls!Next \/ UNCHANGED Calls!vars
  <2>1. CASE Idle'
    BY <1>6, <2>1, MapAtOnce, ViewsThere DEF FromFirst, Calls!Next
  <2>2. CASE ~Idle'
    <3>1. Enter([op |-> "launch", large |-> TRUE, view |-> v])
      BY <1>6, <2>2 DEF Launch, Keep, Idle
    <3> QED
      BY <1>4, <1>6, <3>1
  <2> QED
    BY <2>1, <2>2
<1>7. ASSUME Idle, NEW v \in ProgramViews, NEW p \in Programs, Load(v, p)
      PROVE  UNCHANGED Calls!vars
  <2>1. Enter([op |-> "load", large |-> TRUE, view |-> v, prog |-> p])
    BY <1>7 DEF Load
  <2> QED
    BY <1>4, <1>7, <2>1
<1>8. ASSUME Idle, NEW v \in Views, Transfer(v) PROVE Calls!Next \/ UNCHANGED Calls!vars
  <2>1. ASSUME NEW b \in Bufs \cup {Null}, Prepare(v, b) PROVE Calls!Next
    <3>1. Idle'
      BY <1>8, <2>1 DEF Prepare, Keep, Idle
    <3> QED
      BY <1>8, <2>1, <3>1, MapAtOnce, ViewsThere DEF Calls!Next
  <2>2. ASSUME NEW b \in Bufs, CopyTo(v, b) \/ CopyFrom(v, b) PROVE Calls!Next
    <3>1. Idle'
      BY <1>8, <2>2 DEF CopyTo, CopyFrom, Keep, Idle
    <3> QED
      BY <1>8, <2>2, <3>1, MapAtOnce, ViewsThere DEF Calls!Next
  <2>3. ASSUME NEW reset \in BOOLEAN, NEW large \in BOOLEAN, NEW op \in {"to", "from"},
               PushXfer(v, op, reset, large)
        PROVE  UNCHANGED Calls!vars
    <3>1. Enter([op |-> op, large |-> large, view |-> v, reset |-> reset])
      BY <2>3 DEF PushXfer
    <3> QED
      BY <1>4, <1>8, <3>1
  <2>4. ASSUME NEW reset \in BOOLEAN, NEW large \in BOOLEAN, NEW b \in Bufs,
               BroadcastTo(v, b, reset, large)
        PROVE  UNCHANGED Calls!vars
    <3>1. Enter([op |-> "broadcast", large |-> large, view |-> v, src |-> b, reset |-> reset])
      BY <2>4 DEF BroadcastTo
    <3> QED
      BY <1>4, <1>8, <3>1
  <2>5. ASSUME CopyFaults(v) PROVE UNCHANGED Calls!vars
    BY <1>8, <2>5, UnderWay
  <2> QED
    BY <1>8, <2>1, <2>2, <2>3, <2>4, <2>5 DEF Transfer
<1>9. ASSUME Idle, UnknownSymbol PROVE Calls!Next
  <2>1. Idle'
    BY <1>9 DEF UnknownSymbol, Keep, Idle
  <2> QED
    BY <1>9, <2>1, MapAtOnce DEF Calls!Next
<1>10. ASSUME Idle, NEW b \in Bufs, NEW v \in Values, HostWrites(b, v) PROVE Calls!Next
  <2>1. Idle'
    BY <1>10 DEF HostWrites, Keep, Idle
  <2> QED
    BY <1>10, <2>1, MapAtOnce DEF Calls!Next
<1> QED
  BY <1>1, <1>2, <1>3, <1>5, <1>6, <1>7, <1>8, <1>9, <1>10
     DEF Next, LoadFails, Launch, Load, UnknownSymbol, HostWrites, Transfer,
         Prepare, CopyTo, CopyFrom, CopyFaults, PushXfer, BroadcastTo

(* Whatever the threads of a region do in which order, every call has had  *)
(* the effect of HostCalls when it returns: the partition by hand          *)
(* (ummHostApi.c:148-179) is one, for any number of DPUs and threads.      *)
THEOREM Sequential == ASSUME FromFirst PROVE Spec => IsSequential
<1>1. Init => HostInv /\ Calls!Init
  BY HostInit, MapInit
<1>2. HostInv /\ [Next]_vars => HostInv'
  BY HostNext
<1>3. HostInv /\ [Next]_vars => [Calls!Next]_(Calls!vars)
  BY MapStep
<1> QED
  BY <1>1, <1>2, <1>3, PTL DEF Spec, IsSequential, Calls!Spec

=============================================================================
