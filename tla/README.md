# A TLA+ model of downmem

downmem simulates processing-in-memory hardware of the UPMEM kind. A host
program allocates *DPUs*, loads a device program into them, moves data and
launches them; each DPU runs up to 24 hardware threads, the *tasklets*, on one
pipeline with a WRAM of its own and a DRAM bank (MRAM) behind a DMA engine. Two
instruction sets are supported: UPMEM's own (`upmemisa/`) and RV32 with a small
runtime library (`rvisa/`, `rvisa/ummrv-rt/`). The simulator is cycle-level: an
issue model decides every cycle which tasklet runs, and a DRAM model decides
when a DMA is finished. A suite of applications (`devApp/`, `hostApp/`) runs on
top.

This directory holds TLA+ modules that model downmem from the DRAM model up to
the applications, TLC configurations that check them on small instances, and
TLAPS proofs about many of them. Paths below are relative to
`src/`.

## 1. Inventory

| Part | State | Operations | Hard part | What makes it correct |
|---|---|---|---|---|
| **Tasklet control**: `rvisa/processor.c`, `ummrv-rt/syslib.h`, `crt0.S` | CSR word 0: a run bit per tasklet; the pc's | launch, `halt`, wake-up by `csrrs`, return from `main` | a launch ends when no run bit is left, whatever the reason; CSRs and WRAM survive a launch | it ends only when everybody has returned; nobody is woken after returning |
| **Sleeping mutex**: `ummrv-rt/mutex.[ch]` | ring of 24 ids, head, tail, bit in CSR 2 | `sleepmutex_lock`, `_trylock`, `_unlock` | a waiter publishes itself before it halts; head = tail means free *and* full | exclusion, FIFO, no lost wake-up |
| **Barriers**: `ummrv-rt/barrier.[ch]` | `barrier_wait`: count, mask, a bit in CSR 2; `known_barrier_wait`: CSR word 8 alone | arrive, reset, wake the others, sleep | woken tasklets run ahead into the next round while the wake loop still retries | nobody early, nobody left, reusable |
| **Semaphore**: `ummrv-rt/semaphore.[ch]` | count, waiting mask, bit in CSR 1 | `sem_init`, `_wait`, `_trywait`, `_give` | a unit is handed to a sleeper without passing the counter | units conserved, nobody sleeps beside a free unit |
| **Handshake**: `ummrv-rt/handshake.[ch]` | 24 signed slots, bits in CSR 7 | `handshake_wait_for`, `_notify_for`, `_notify` | either side may come first; later ones of the same side are refused | a return of 0 met a counterpart |
| **Issue timing**: `rvisa/timing.c`, `upmemisa/timing.c` | scan position, time of the last issue, pipeline queue, bank slots, blocked set | one logic cycle, launch | round robin, revolver, stalls and DMA blocking interact; times are kept at a shifted index | spacing, order, nobody passed over, no DMA outstanding at the end |
| **MRAM timing**: `mramTiming.c` | reorder window, ready queue, row buffer with its slots and clocks, waiting list, `ReadyId` | push, memory cycle, pop | first-ready scheduling; one completion at a time crosses between two clocks | every transfer completes once; bounded tables |
| **Interpreters**: `upmemisa/processor.c`, `rvisa/processor.c` | registers, flags, pc, one array of memory | one instruction | carry chains, condition table, sign extension, narrow stores, DMA, atomics between tasklets | programs leave what ordinary arithmetic says |
| **Program loaders**: `*/program.c`, `*/lookupTbls.c` | instruction table, image, symbols | parse object-dump text; decode RV32 words | a name may be a register, a symbol or a condition; scattered immediates | what runs is what was written |
| **Symbol map**: `thrdUnsafeHash/` | open-addressed table | assign, fetch, clear, grow (`hashmap.c` also deletes and shrinks, which nothing here calls) | Robin Hood displacement, resizing in the middle of a call, backward shift | a map |
| **Host API**: `ummHostApi.c`, `dpu.h` | per DPU: program and memory; per set: symbols, prepared buffers | alloc, load, launch, prepare, push, broadcast, copy | OpenMP regions with a hand-made partition; state shared by all subsets; a load that is refused after it has named symbols | each call has its sequential effect; symbols belong to the programs, or to a file just refused |
| **Applications**: `devApp/`, `hostApp/` | theirs | host: split, send, launch, collect; device: tasklets with locks, barriers, handshakes | remainders of the splits; state kept from launch to launch; several tasklets on one word, one cycle of tiles, one output | the sequential result |
| **Device allocator**: `ummrv-rt/alloc.c` | bump pointer, bit 31 of CSR 0 | `mem_alloc`, `mem_reset` | the lock shares a word with the run bits; the reset takes none and relies on the caller's barrier | the blocks of a launch are disjoint |
| **Device memory functions**: `memcpy.c`, `memmove.c`, `memxxx.c` | none | byte-string functions | alignment | agree with the byte-wise definition |
| **Transfer-time models**: `wramxfer.c`, `*-mramxfer.c` | tables | interpolate | floating point | monotone, within the table |

How they interact. A host program calls the host API, which calls
`RvDpuRun`/`UmmDpuRun` on every DPU of a set, one host thread per DPU at a time.
The loaders fill a DPU's instruction table and memory and enter the program's
symbols into the map that the host API's transfers look up by name. The run
loop asks the issue model for a tasklet and executes one instruction of it. DMA
instructions go from the issue model to the DRAM model by a call (push), and come
back as one `ReadyId` that the logic cycle pops. The device runtime is ordinary
device code: all it shares with the simulator are the CSR words, and an
instruction is executed whole before the next, so each `csrrs`/`csrrc` is atomic
while everything between two of them can be interleaved with other tasklets. The
applications use the runtime's primitives and no others.

Every hazard is listed with its line in `PROJECT.json`; those without a property
carry the reason.

## 2. Modules

| Module | Models | Uses |
|---|---|---|
| `Tasklets` | run bits, launch, halt, the wake loop's `csrrs`, return from `main`; the two properties every runtime component must keep (`StopsOnlyWhenDone`, `NobodyTraps`) | |
| `SleepMutex` | `mutex.c`, each CSR and ring access a step of its own | `Tasklets`, `FifoLock` |
| `FifoLock` | abstract: a line of requests and the grant to its head | |
| `KnownBarrier`, `CountingBarrier` | the two barriers of `barrier.c` | `Tasklets`, `Rendezvous` |
| `Rendezvous` | abstract: a reusable barrier for groups of threads | |
| `Semaphore` | `semaphore.c` under clients that give back what they take | `Tasklets` |
| `Handshake` | `handshake.c` under given client programs | `Tasklets` |
| `Allocator` | `alloc.c` as the kernels of TRNS, TS and MLP use it, behind a barrier | `KnownBarrier` |
| `IssueTiming` | the logic cycle of both `timing.c`: scan, revolver, pipeline queue, bank rule, blocking, launch and end of a run | |
| `MramTiming` | `mramTiming.c` and the push/pop half of the logic cycle | |
| `Blocking` | the one variable the two timing models share: who waits for a transfer | |
| `MCTiming` | the two clocks: each model alone, and both joined, the issue model's DMA feeding the DRAM model and its completions unblocking tasklets | `IssueTiming`, `MramTiming` (both extend `Blocking`) |
| `TimingProofs` | theorems of both models and of the two joined | `MCTiming` |
| `Words` | machine words scaled down: low and high word of a 64-bit value, sign, bits, bytes of a memory | |
| `UmmIsa` | `UmmDpuRun` and `UmmDpuExecuteInstr`: operands, every opcode group, flags and conditions, write-back, jump, thread control, DMA, atomics | `Words` |
| `UmmLoader` | the object-dump loader: symbol, instruction and data lines; operand kinds; encoding of conditions | `UmmIsa` |
| `UmmPrograms` | programs and what each must leave | `UmmLoader` |
| `RvIsa` | the ELF sections, the RV32IMB decoder, `RvDpuRun` and `RvDpuExecuteInstr`, CSRs and the DMA behind CSR 3 | `Words` |
| `RvPrograms` | encoded programs and what each must leave | `RvIsa` |
| `HashMap` | `hashmap.c` under `slicehash.c` | |
| `HostApi` | `ummHostApi.c`: load, launch and transfers with their OpenMP regions | `HostCalls` |
| `HostCalls` | abstract: each call of `dpu.h` as one step on independent DPUs | |
| `WorkSplit` | how the applications cut items into shares and shares into chunks | |
| `Bfs` | BFS: host and device program together | `WorkSplit` |
| `Trns` | TRNS: host and device program together | |
| `Nw` | NW: host and device program together | `WorkSplit` |
| `Sums` | RED, SCAN, SCANSSA, UNI with their host programs | `WorkSplit` |
| `Bins` | COMPACT, HST, HSTS with their host programs | `WorkSplit` |
| `MC*` | instances (`MCAllocator` is also that of `KnownBarrier` with the mask of all): client programs, requests, instruction mixes, jobs; compositions that run one part per behaviour | |
| `SleepMutexProofs`, `KnownBarrierProofs`, `HostApiProofs` | theorems | the module each is named after |
| `HashMapProofs` | theorems on `HashMap`, alone and in `MCSimulator` | `MCSimulator` |
| `AppsProofs` | theorems on `WorkSplit`, on `Nw` alone and in `MCApps`, and on `Bins` in `MCApps` | `MCApps` |
| `BfsProofs` | theorems on `Bfs` in `MCApps` | `MCApps`, `AppsProofs` |
| `DeviceSyncProofs` | theorems on `CountingBarrier`, `Semaphore`, `Handshake` and `MCDeviceSync` | `MCDeviceSync` |

### How state and actions correspond to the code

* **CSR words as sets.** A word used as a bit mask is a set of ids: `running` is
  `Csr[0]`, `csr8` the barrier word, `csr7` the slot locks; a metadata bit that
  guards one object is a boolean. `WakeOnce` is one `csrrs` on word 0: it sets
  the bits and keeps, from the old value it returns, the targets that had not
  halted yet; those are retried, as in all wake loops of the runtime.
* **Labels.** `pc[t]` names the next piece of runtime code of tasklet `t`. In
  `SleepMutex` every CSR access and every read or update of the ring is a step.
  In `Semaphore`, `CountingBarrier` and `Handshake` the code between taking and
  releasing a metadata bit is one step (its intermediate states are invisible to
  anybody who respects the bit, and nobody else reads these fields); taking the
  bit, releasing it, halting and waking are separate steps, since those are
  where the races are. That fields are read and written between the CSR accesses as
  the source has them is an assumption about the compiler: the accesses are
  `asm volatile`, which keeps them in order among themselves, but have no memory
  clobber, which would be needed to keep plain loads and stores from moving
  across them.
* **Failed spins are stutters.** A test-and-set that finds the bit set changes
  nothing.
* **Launches repeat.** After a run has ended, `Launch` starts the program again
  on the CSRs and the WRAM that the last one left, as a host does that calls
  `dpu_launch` in a loop. Every run of a runtime component therefore also checks
  that it is left reusable.
* **Issue timing.** `age[Entry(t)]` is `TotNrCycle - lastRunAt[...]` at the index
  the code really uses, one behind the tasklet. The program is arbitrary: each
  issue picks an effect (nothing, set a run bit, halt, DMA) and registers.
  `pipe` holds the queue and its neighbours and the slots of the bank rule. The
  constant `Isas` selects how a launch starts the tasklets and the bank rule.
  `outside` are tasklets whose pc has left the instruction table: `rvisa/timing.c:117`
  passes them over like sleeping ones, but they keep their run bit.
* **MRAM timing.** `mt` is `struct MramTiming` with the slices as sequences.
  `MemoryCycle` composes the parts of `DmmMramTimingCycle` in their order;
  `IssueDma`, `IssueOther` are the logic cycle, once per `MemPerLogic`.
* **Interpreters.** `given` is the program and its inputs, `st` the DPU.
  Any runnable tasklet may execute its next instruction whole; the lock step of the
  functional build and every order of the timed one are among these. UPMEM's
  byte products are one opcode with two pieces, a base opcode and its `.s`/`.u`
  form one opcode with a suffix. Words have eight bits (four 2-bit bytes), which
  keeps everything that depends on the width: `% 2^w`, carry, overflow, sign,
  shift counts taken modulo the width, `MUL_STEP`/`DIV_STEP` loops of W steps, the
  half and byte accesses. RISC-V instruction words are *not* scaled: an encoded
  word is the set of its one bits, and the decoder takes it apart by the fields
  of the code's switch.
* **Loaders.** The regular expressions are abstracted to the tokens they
  capture; what the code then does with a token (register, number, symbol,
  condition, in that order) is modelled, and so are the size of the instruction
  table and the placement of the sections.
* **Symbol map.** `given` is any hash function. `st.call` is the call under way, one
  action per round of a loop of `hashmap.c`: `Place`, `Replace`, `PushAside`, `GoOn` are
  what an item on its way does at a bucket, in an assignment ("probe") and in a resize
  ("settle"); `MoveNext` takes the next item of the old table; `ShiftBack` closes a
  hole by one bucket. `st.want` records what the calls should have left.
* **Host API.** One value stands for the memory behind a symbol. `Enter`, `Work`,
  `Join` are a parallel region: thread `k` serves the DPUs from `FirstOf` on, `Stride`
  apart, which is `NrCore`; serving one DPU is one step because no two threads share
  a DPU. A small transfer is a loop of the calling thread alone, that is one thread
  with stride 1 (`large` is FALSE), and the only one that reports a broadcast over
  a prepared buffer. Between calls `call` is `NoCall`. `symbols` is the file whose
  symbols are known. A load may be refused before it has read any, or after (a file of
  `Refused`: UPMEM text with no instruction or too many, an ELF file without any);
  `Lands` says what a transfer then reaches in a DPU of another program: some other
  place. In a DPU without program there is no memory: `Fault` and `CopyFaults` kill
  the host program (`call` is `Killed`), also in the middle of a region.
* **Device allocator.** `Allocator` puts the program of a kernel around
  `KnownBarrier`: tasklet 0 resets, all meet, and each allocates what the kernel asks
  for; the test-and-set of bit 31, the load and the store of the pointer, and the
  release are steps. A launch rewrites the word with the bit, not the pointer.
* **Applications.** `host` is the host program (`host.pc` its position), `dpu[d]`
  the memory of a DPU and the place and locals of each of its tasklets. A step of
  a tasklet goes from one access to shared data to the next; accesses under a
  mutex of their own are one step, and the barriers, mutexes and handshakes are
  used as the modules about them promise (`Rendezvous`, `FifoLock`, exclusion).
  The host program includes the split into DPUs, what is sent for each launch,
  what is read back, and the reference computation where the code has one. A
  matrix element is its index, an element of a histogram the bin it falls into.

## 3. Runs

Passing runs:

| Run | Instance | Distinct states | Shows |
|---|---|---|---|
| `sleep_mutex` | 3 tasklets, ring of 3, one lock or try-lock each per launch | 48 096 | exclusion, also during a hand-over; the ring is exactly the line, also when full; no wake-up lost and none stray; the mutex implements `FifoLock`, with its liveness; every launch ends |
| `known_barrier_all` | 4 tasklets, 3 rounds, mask of all, behind them one block of `mem_alloc` each or two, from launch to launch | 191 998 | nobody early, nobody left, the barrier implements `Rendezvous`; the blocks that `mem_alloc` hands out in a launch are disjoint and below the heap pointer |
| `device_sync` | 4 tasklets on one of: the semaphore with 2 units; the handshake under SCANSSA's chain, or a slot with several waiters and notifiers; `barrier_t`, 2 rounds | 55 903 | units conserved at every step, counting those on their way; nobody sleeps beside a free unit; a return of 0 had a counterpart, a sleeper is named by one slot or woken by one tasklet; counter and mask of the barrier agree, and it implements `Rendezvous`; programs whose calls match up leave nobody asleep; every launch ends |
| `timing` | the issue model alone (3 tasklets, revolver 2, 3 stages, both simulators); the DRAM model alone (3 threads, mixed requests over 3 rows, one of them empty, 3 memory cycles per logic cycle); both joined (2 tasklets, RV, 3 stages); one tasklet may leave the instruction table | 222 855 | spacing, order, nothing under way at the end of a run, every runnable tasklet issued again and again, also those that wait for transfers; commands and acknowledgements match, nobody is forgotten, a row is not closed under a read, every transfer ends |
| `host_api` | 3 DPUs, 2 host threads, 2 buffers, a program and a file refused late, whole set and single DPUs | 1 405 124 | each call has its effect in `HostCalls` for every interleaving; the known symbols belong to the program of every DPU, or to a file that the last load refused |
| `simulator` | assembled and encoded programs; 3 hash functions, 5 names | 321 329 | both chains loader - interpreter compute what arithmetic says; test-and-set locks of both libraries exclude; the symbol map is a map between calls |
| `apps` | the jobs of `MCApps`: 1 to 3 DPUs, 1 to 3 tasklets | 160 562 | each application computes the sequential result under every interleaving, and ends |

Runs that end in a counterexample, each a disagreement between the code and a
text, comment or assertion of the repository (quoted in `PROJECT.json`):

| Run | Shows |
|---|---|
| `known_barrier_two_sets` | `known_barrier_wait` is offered for "predetermined thread sets", but two sets that wait at once mix their bits in the one CSR word: no mask ever matches, all sleep, and the launch ends as if finished |
| `mram_timing_longest` | `upmemisa/timing.c` charges `(1 + ImmA + (vc >> 24) & 0xff) << 3` bytes; by precedence the sum is taken modulo 256, so the longest DMA is timed as an empty one, completes at once, and its completion can be overwritten before it is popped: a thread stays blocked |
| `mram_timing_full_list` | `WaitIds` has 16 cells for 24 tasklets; with more transfers under way than cells, the list is written past its end (scaled: 3 cells, 4 threads) |
| `uni` | every tasklet of `devApp/UNI.c` resets the shared result without a barrier before the additions; a late one wipes out an early one's count, against the host's assertion |
| `red_past_the_end` | `devApp/RED.c` rounds the shares up; a tasklet whose share starts behind the end computes its rest in unsigned arithmetic and adds words that others have added, against the host's assertion on the total |

### Bounds, and why they are enough

* *Tasklets.* Three tasklets give the mutex an owner, a tasklet that is being
  woken and one that still arrives; with a ring of three the full ring and the
  wrap-around occur. The barriers and the semaphore have four, so that a waker, two
  stragglers and one that runs ahead coexist, and two sleepers wait for two
  holders. The proofs drop the bound for all of them.
  The semaphore's clients give only units they hold, so that `sem_give` never meets
  the counter at `max_count`, where it drops the unit.
* *Calls.* `MaxCalls`, `Rounds` bound what a client does per launch; since
  launches repeat on the state left behind, longer histories are covered.
* *Clocks.* `MramTiming`'s constants are scaled down and keep the order of the
  real ones (TBl < TCl < TRas) and `MemPerLogic <= TBl + 1`, as 6 <= 9: two
  acknowledgements are never closer than a logic cycle. That inequality is what
  makes the single `ReadyId` sufficient for non-empty transfers. Rows of two
  words and a window of four commands let a transfer cross rows and hits
  overtake. The proofs drop these bounds: they need `TBl < TCl` for the
  rows, the inequality for `ReadyId`, and nothing for the rest.
* *Issue logic.* More tasklets than revolver cycles, as 24 > 11, so that the
  revolver and the round robin both bind; a queue longer than the revolver, as
  14 > 11. Ages are capped at `NrRevolveCycle`, beyond which nothing depends on
  them. The register sets make one tasklet collide in the even bank, one with what
  it wrote before, and one only under UPMEM's rule. In the joined part two
  tasklets suffice to have one transfer behind another while a tasklet still
  issues; what the third adds to each model is covered by the model alone. `Leavers` bounds
  which tasklets may leave the instruction table to one, beside which the others
  have to get on; the theorems hold for any.
* *Host.* Two values and two buffers distinguish a DPU served once, twice or not
  at all, and with the wrong buffer. `ProgramViews` restricts loads and launches
  to the whole set, as in all host programs of the repository; transfers use the
  whole set or one DPU (`DPU_FOREACH`).
* *Words.* Operands are 0, 1, the signed limits and their neighbours and a few in
  between, so that every carry, overflow, sign and zero case of an instruction
  occurs. Memories have 16 or 32 bytes of WRAM. The programs contain each opcode
  group at least once, each condition as a jump and as a value, and two tasklets
  at a spin lock.
* *Symbol map.* Tables of 4, 8 and 16 buckets with five names: chains that wrap
  round, displace and shift back, and all three sizes are passed in both
  directions (60 % and 10 % as in the code; the way down belongs to deletion, which
  only `hashmap.c` has).
* *Applications.* Every job is larger than one tasklet's, one DPU's or one
  buffer's share and leaves a remainder; two tasklets meet in every shared
  object. BFS has words of two vertices so that two tasklets mark in one word; TRNS
  has a permutation with cycles that several tasklets enter; NW has
  more tiles than DPUs, so that idle DPUs carry an old tile; the sums overflow
  `Word`. The sizes of the source's buffers and tables are constants, scaled down so
  that a few elements fill them: COMPACT's buffer holds 2 numbers, a histogram has 4
  bins, two to a mutex. The theorems on `Nw`, `Bins` and `Bfs` are for all values.
  Two limits of the device programs that nobody checks at run time are assumptions:
  `BinsAssumption` keeps a DPU's share within COMPACT's `output_data` of 69420
  words, `TrnsAssumption` a tile within one DMA transfer of 2048 bytes, as the host's
  tiles of 4 by 8 elements are; behind either the code writes where it should not.

### Fairness

* *Runtime components:* weak fairness of each tasklet. `RvTimingCycle` scans
  round robin over the run bits; that this issues every runnable tasklet again and
  again is not assumed but shown by `EveryTaskletIssues` of `timing`,
  whose own assumption is only that cycles go on (`RvDpuRun`'s loop). A tasklet
  spinning on a bit is enabled only while the bit is clear, so weak fairness does
  not promise it the bit: the launches end nevertheless because clients are
  bounded and bits are held for finitely many steps. No fairness is put on
  `Launch`: the host need not launch again.
* *MRAM timing:* weak fairness of the clock as a whole, not of any choice of
  request; the others may ask for the busy row for ever. In the joined part
  `memLeft` decides whose cycle is next, as the loop in the code does, so this
  fairness prefers neither clock.
* *Applications:* weak fairness of the next step as a whole (the run loop goes on
  while a tasklet can): they end under any scheduling, because every loop is
  bounded and a blocked tasklet waits for one that is not.
* *Host API, simulator:* safety only.

Deadlock is checked where the code may not stop; it is switched off for
`device_sync`, whose crowded handshake slot may rightly leave a waiter asleep
(`StopsWhenDone` says for which programs nobody may be left), and for
runs whose programs end; in `host_api` a fault may kill the host program.

## 4. Proofs

The theorems are about any number of tasklets, calls and launches. The
assumptions are those on the constants (`NrTaskletsAssumption`,
`MaxTaskletsAssumption`, `MaxCountAssumption`, ...), evaluated by TLC in the runs,
and where a theorem says so `Rounds \in Nat` or `AllMeet`. In each module
none of the interesting properties is inductive; `IInv` is the strengthening, and each
action has a step or a lemma per conjunct it can disturb. The primitives that
`MCDeviceSync` joins have theirs under names of their own: `SemInv`, `BarInv`, `HandInv`.

`SleepMutexProofs`: types, mutual exclusion, the exact ring, no launch that stops
with a sleeper, no wake-up of a finished tasklet. `IInv` consists of

* `MetaHeld`: the metadata bit is set exactly while one tasklet is at a label
  inside it;
* `RingIsTheLine`: the cells between head and tail hold the tasklets that have
  asked and not left, each once;
* `CheckHolds`: what a tasklet has read about the ring still holds while it has
  the bit;
* `HeadFirst`: an owner is at the head; a tasklet that is being woken is at the
  head, by one waker; and if anybody is queued, the head is an owner or is being
  woken (this is where lost wake-ups are excluded);
* `OneTarget`, `Resting`: an unlocker wakes at most one; who does not run waits
  for its turn or has returned.

The delicate step is the enqueue: `head = tail` would also be a full ring.
`NotFull` shows by counting that a tasklet which is about to enqueue finds a free
cell: were every cell occupied, the cells would map injectively to ids other than
its own, fewer than there are cells.

`Implements` shows that the mutex is a `FifoLock`: an enqueue (or a successful
try-lock) is `Request` at the end of the line that is read out of the ring through
its wrap, an unlocker's advance is `Release`, the wake-up that arrives is `Grant`,
and every other step leaves the line and the owner as they are.

`KnownBarrierProofs` (assumption `AllMeet`: every mask is the set of all
tasklets, as `all_threads_barrier_wait` passes): types, nobody passes early, no
launch stops with a sleeper, and the implementation of `Rendezvous`. Without
`AllMeet` this is false, as `known_barrier_two_sets` shows. `IInv` adds

* `InStep`: the tasklets whose bit is set in the CSR word have arrived once more
  than the others, and both groups are each in the same round;
* `BitsOfWaiters`: a set bit belongs to a tasklet that sleeps or is about to, or
  to the last one, and the word is full only between that one's arrival and its
  reset;
* `OneWaker`: at most one tasklet is in the release phase, and its wake mask is
  exactly the set of sleepers whose bit is gone;
* `Resting`: who does not run sleeps in the barrier or has returned.

`DeviceSyncProofs`, on `barrier_wait`: counter and mask agree, no launch stops with a
sleeper, and the implementation of `Rendezvous`. Here several tasklets may be waking at
once, each the sleepers of its own round. `BarInv` says with

* `MetaHeld`: as above;
* `MaskOrWaker`: the counter is the size of the mask; whoever is counted is
  either in the mask or in the wake mask of exactly one tasklet, and one in a wake
  mask is asleep or about to be;
* `InStep`: for some round r, those in the mask (and the one at the counter) have
  arrived r + 1 times, all others r times;
* `BarResting`, as above.

`OnlyCallerMissing` is the counting step: the counter is one short exactly if the
mask is everybody but the caller.

Both implementation proofs follow the code's steps: an arrival is `Enter`, an
iteration of the wake loop is `Leave` of the tasklets it got out of their sleep,
together with the waker if it was the last iteration (or a stutter if it woke none),
a launch is `Restart`, all other steps are invisible.

The same module, on the semaphore: units conserved, nobody in the mask while the counter has a
unit, no launch that stops with a sleeper, no wake-up of a finished tasklet.
`SemInv` adds

* `Waiters`: whoever waits is in the mask or the target of exactly one giver, and
  givers have distinct targets outside of the mask;
* `Holding`: whoever is about to give has a unit, and who holds one is outside
  of `sem_wait`;
* `SemResting`, as above.

The sum of `UnitsConserved` is followed through the sets `holders` and
`HandedOver`: a hand-over moves one element from the one to the other, a wake-up
replaces the giver by the tasklet it woke. That nobody is left asleep needs the
sum: with all asleep there is no holder and no unit under way, hence all units
are in the counter, hence the mask is empty.

The same module, on the handshake (assumption `ProgramsFit`: the clients keep to `handshake.h`,
which forbids to mix `notify` and `notify_for` on a slot; `handshake_notify` takes
the caller's own slot): a sleeper is named by its slot or by one waker, no wake-up
of a finished tasklet, one tasklet at a time between a slot's lock and its release,
a call that returns 0 has met a counterpart, and SCANSSA's chain never stops halfway.
`HandInv` consists of

* `Marked`: a slot that is not empty holds the mark of a tasklet that sleeps in it, or
  is about to, and that nobody wakes;
* `Accounted`: the converse, a sleeper is in its slot or in somebody's wake mask;
* `Woken`: whoever comes second wakes exactly one sleeper, and no two the same;
* `SlotHeld`, `HandResting`: as for the others.

`SecondMeetsSleeper` is the lemma about the code's arithmetic: `handshake_notify`
computes `a - 1` without a look at the sign, and what it finds is a waiter's mark,
since the only other entry, of a `notify_for`, is what the assumption excludes.
All steps but three leave sleepers, slots and wakers alone (`QuietStep`), a launch
too: nobody sleeps when all have returned, so all slots are empty.

That nobody meets nobody (`EveryoneMet`) is about calls, not about tasklets, and needs
a second invariant, `MatchInv`: in every slot the waits let past are as many as the
notifications let past plus the sign of the slot (`Balance`), and a refused call is over
or on its way out (`RefusedOver`). The first at a slot passes and leaves its sign, the
second passes and empties it, nobody else passes. A slot that is one ahead names its
sleeper, whose call has passed and not returned (`SleeperNotMet`), so one fewer of the
side that is ahead has returned, and both inequalities follow (`BalanceMeets`).

`ChainEnds` is about `Chain`, the calls of SCANSSA.c: with one wait and one notification
for each slot (`ChainCalls`) no call is refused (`ChainServed`). When no run bit is left, a
tasklet that has not returned sleeps in its slot (`AllAsleep`), and by `Balance` the one
call on the other side has not been let past. So whoever sleeps in its wait has
somebody asleep in a wait before it, which the least of them cannot have, and then
whoever sleeps in its notification would have a waiter that has not returned and does
not sleep. With `EveryProgramEnds`, which TLC checks, every launch of the chain ends with
all tasklets out of `main`.

On the system of the three primitives, as run `device_sync` explores it: `SyncInv` is the
invariant of the primitive in use, a step of the system is one of that primitive
(`SyncStep`), and all six invariants of the run follow for any numbers of tasklets, units,
requests and rounds (`SyncMeets`, `SyncTells`, `SyncCounts`, `SyncStops`, `SyncUnits`).

`AppsProofs`: the two ways of cutting items into shares give every item to
exactly one tasklet, for any number of both; chunks and rest visit a share once,
if it starts before the end; and if it starts behind it by less than a chunk, the
rest has `chunk - excess` items, never none. The last is `red_past_the_end` for
every size. The arguments are about products of two unknowns, which the solver
does not do by itself; `ProductOrder`, `FactorOrder` and `CeilShareFits` isolate them.

Its second half is NW: the table put together from the tiles is the one the host fills
by itself (`Alignment`), for any two sequences, tile size and number of tasklets.
`NwAssumption` asks for sequences that are not empty and for DPUs enough for the longest
wave, without which the host gives up (`hostApp/NW.c:109`). The inductive invariant
`NwInv`, which TLC checked on the jobs of run `apps` before, says

* `Known`: the host's table is right in the borders and in all tiles of earlier waves;
* `Launched`: while the DPUs work, each that has a tile of the wave was sent it with
  the right borders (`Sent`), and there is one diagonal its tasklets are all at
  (`AtDiagonal`), with every cell before it right and each tasklet's share right as
  far as it has come (`Filled`). Of a DPU without a tile nothing is said: what it
  fills again is not collected.

That a cell is right when its three neighbours are is `CellIsRight`; that the shares of
a diagonal are disjoint, so that a tasklet writes over no other's cell, and together
the whole of it, so that the next may begin behind the barrier, is `SharesOfDiagonal`,
from `EvenSharesPartition`. `Grid` and `TilesOfWave` are the host's side: a cell lies in
one tile, a wave's tiles go to DPUs 0, 1, ... one each, and their borders belong to
earlier waves (`TileInIsRight`), so that a collected wave makes the next one `Known`
(`CollectKeeps`). The reference is recursive over the cells; that it exists (`RefExists`,
`RefIs`) is an induction by `Climb` along the anti-diagonals. `AlignmentAmongApps` carries
the theorem over to the specification of run `apps`.

Its last part is `Bins`. `CountsAmongApps`: of COMPACT, every odd number comes out of its
DPU as often as it went in and the host's count is right; of HST and HSTS, every element
is counted once in its bin; for any data, number of DPUs and tasklets, size of the
buffer, number of bins and bins per mutex, in every order of the tasklets. It assumes
what the hosts do (`BinsAssumption`: positive sizes, elements rounded up to a
multiple of the DPUs, and of COMPACT no more in a DPU than its output has room for) and that the jobs of `Nw` are called so (`AppAssumption`, which
keeps the applications of the run apart). The inductive invariant `BinsInv`, checked by
TLC on the jobs of run `apps` first, says of every DPU at work (`Works`)

* before the first barrier a tasklet has touched nothing and the shared memory is as
  cleared (`Fresh`), behind the second one all elements have been read;
* COMPACT: for every set of odd numbers, the words of the output and of the tasklets'
  buffers in it are as many as the elements the tasklets are past (`Balanced`). A set
  in the place of a number is what lets the same fact give the host's count and the
  count of each number. It needs that the room two tasklets have reserved does not
  overlap and that whatever is still missing below the position lies in somebody's
  room (`CompactTogether`): a flush then moves the words of a buffer one to one, and
  writes over no other's;
* the histograms: the copy a tasklet has read equals the bins under its mutex as long as it
  holds it (`BinTl`), no two tasklets hold one mutex (`BinsTogether`), so that the write
  back loses nobody's addition, and every bin holds as many elements as have been added
  by the tasklets (`Added`);
* what the host has collected of the first DPUs is right for their part of the data
  (`Collected`).

When all tasklets are off, those they are past are all elements, because the shares are
disjoint and cover the DPU's part (`CompactShares`, `HistogramShares`, `BinShares`,
from the lemmas on `WorkSplit`), and the parts of the DPUs together are the data
(`DpuAdds`, `CameOut`).

`BfsProofs`: at the end of a launch the frontiers of all DPUs are together exactly the
vertices that many edges from the source (`FrontierAmongApps`), and the levels read back,
like those of the host's own search, are the distances (`DistancesAmongApps`); for any
graph and source, any numbers of DPUs and tasklets, any size of a word and every order of
the tasklets. `BfsAssumption` is what `readCOOGraph` makes and takes for granted: a
number of vertices that is not 0 and padded to whole words, and edges between them. The
properties do not search: `Ends(k)` is where the walks of k edges end, `Sphere(k)` what no
shorter walk reaches, and `AreDistances` speaks of both. The lemmas that join them to a
search by levels are `NextSphere` (the next sphere is the unseen neighbours of this one)
and `EmptySphere` (behind an empty one there is nothing, by `Climb`). The inductive
invariant `BfsInv`, which TLC checked on the jobs of run `apps` before, says

* `Counting`, `Scanning`, `Placing`, `Shifting`: what `covCOOtoCSR` has made of the one
  array it counts, sums and advances in, a round of a loop at a time. In `Placing` the
  free positions of a vertex stay below those of the next (`RoomForEdge`,
  `BlocksApart`), so no edge is written over another, and in the end the vertex's block
  holds its edges (`Placed`);
* `RefRight`: the host's own search is at sphere `level - 1`;
* `HasPart`: a DPU has its vertices and their edges, wherever the cut falls. `HintFits`,
  `PartVert` and `VertPart` say that the cut gives every vertex to one DPU, with whole
  words;
* `Tiling`, the first loop: a word is `Taken` when the tasklet whose turn it is has passed
  it (`TileTurn`: words go round robin), and a sphere's vertices are in the next frontier
  before and in the visited set after. As the cut is in whole words, a DPU's own
  vertices come in whole words too (`OwnTile`), which is what `HintUnrounded` breaks;
* `Visiting`, the second loop: what a tasklet has passed of its share is `Found`, its
  neighbours visited or in the next frontier (`HasFound`, `AtNode`). Who is between
  read and write has the mutex, and what it has read is still so (`VisitTl`); with that,
  writing back a word adds a vertex and takes none away (`WriteKeeps`), and what the
  others have found stays where it is (`OthersVisit`).

When all tasklets are off, the shares together are the whole part
(`CeilSharesPartition`), so every neighbour of the sphere has been found by the DPU its
vertex is on (`FrontierIs`).

`TimingProofs` has the two models and their composition. `IssueInv` keeps who is
blocked among the running (so `NothingOutstanding`) and the time at a tasklet's
shifted index at or below the cycles since its last issue (so `RevolveRule`).

For `InOrder`, `PipeInv` keeps the shape of the pipeline, and each part of a cycle
(`Reap`, `ServePipeline`, `ServeCycleRule`) is shown to leave what is carried alone
but for the oldest instruction. What the slots hold is a function by recursion on
their number; that it distributes over `\o` (`OccupiedConcat`) is an induction over
data, done with a set in the place of the formula (`Climb`, from `LeastElement`).
The theorem needs that no instruction is one of the markers of an empty slot, and
`NrRevolveCycle # 0`, without which one could not tell an issue from `since`.
`IssueTogether` carries the three properties over to the composition, where a
logic cycle is one of the issue logic and a memory cycle is a stutter for it.

The memory's invariants are predicates on the record `mt`, and each part of
`DmmMramTimingCycle` has a lemma of its own:

* `Counted`: `AcksMatchCommands`, kept by all parts for any constants. It rests on
  the lemmas about `Count`, in particular `CountTakeOut`: `_rm`, which reorders
  the window, takes out one command and keeps the others;
* `BusTimed`: the bus is occupied exactly for the `TBl` cycles after a burst was
  put on it, so that `_serveRowBuf` acknowledges only a command that is there;
* `ReadTimed`: the command in the I/O slot is for the open row and leaves the slot
  when its `TCl` cycles are over. The second half needs `TBl < TCl` (8 and 32): a
  burst that was longer would hold a command in the slot with its time over, and
  the row could be closed under it;
* `Listed`: the waiting list names blocked threads, once, none of them the reported
  one, and everybody with commands under way;
* `Kept` and `ReportTimed`: whoever is blocked is listed or reported; at most one
  transfer is acknowledged but not reported, and that one memory cycle after the bus
  was released. From one report to the next the bus has to be used again, which
  takes `TBl + 1` cycles, so that a logic cycle lies in between
  (`LogicKeepsUp`), unless a transfer needs no bus at all (`NoEmptyTransfer`,
  whose failure is `mram_timing_longest`).

Together, a launch clears the blocked bits, which is a stutter for the memory by
`IssueInv`, and only who is not blocked can ask again.
`LeastElement`, the well-ordering of the naturals, is what makes the code's linear
searches (`CHOOSE` of a least index) tractable.

`HostApiProofs`: the calls of `HostApi` implement `HostCalls`, and symbols belong to
the programs, for any number of DPUs and host threads, any programs, buffers and
views. The hypotheses are about the host program: `FromFirst`, that loaded and
launched sets start at DPU 0 (past it `dpu_launch` reads beside the `Is` field), and
for the symbols `WholeOnly`, that they are the whole set. Both hold of every host
program of the repository. Nothing is assumed of the files: a load may be refused with
symbols known, so `OwnSymbols` says that these belong to the program of every DPU *or*
to a file the last load refused, and `Sequential` covers what a host program then
does, up to being killed in a region. `HostInv` says of a call under way

* `Called`: what it was asked is well formed, and its checks (symbol known, program
  loaded) held of the state it found, kept in `before`;
* `Dealt`: every thread is at a DPU not before the view that has the thread's number as
  remainder. `FirstOfExists`, `SameResidue` and `NothingBetween` say that there is a
  first one, that the stride stays on the remainder, and that it skips none;
* `Progress`: with `Served` the DPUs their thread has passed, those are `Finished`, as
  if each had been served alone in the state `before`, all others are `Untouched`, and a
  buffer that is read into is as it was, if no served DPU has it, or holds the value
  of one that has (any value, if the symbols are another program's). `IsSequential` is not inductive without it, since the host API's
  state is nowhere equal to one of `HostCalls` while threads are at work.

Entering a region and serving a DPU are stutters of `HostCalls`; when all threads are
past the end, `Served` is the view (`JoinServed`), and the return is the whole step.

`HashMapProofs`: the symbol map is a map between calls (`SymbolMap`), for any hash
function into the naturals, any names and values and any least capacity; equal hashes
are included, since only names are compared as a whole. Nothing is recursive in the
model: a call is as many steps as its loops have rounds, and `MapInv`, which TLC checked
on the tables of run `simulator` before, holds after every one of them. It says

* `Sound`: an item's bucket is its home plus its distance, and from a bucket to the
  next the distance grows by at most one (`Climbs`). So every bucket between
  the home of an item and its own is in use, with a distance no less than it would
  have itself (`Chain`, by `Climb` downwards), a look-up that goes on to the first empty
  bucket meets it (`Lookup`), and with a bucket free the way is less than a turn
  (`WithinTurn`);
* `Arriving`: the item on its way may take the bucket it is at without breaking that
  (`TakeBucket`), and if it goes on, the next one (`NextBucket`). In an assignment it
  has not passed its own name (`Probing`): by `OwnName` an equal name is at this bucket
  or behind an item that is at least as far, so that neither an empty bucket nor one
  whose item is pushed aside comes before it. This is why comparing names before
  distances is enough, and what an item that was pushed aside can no longer meet;
* `Shifting`: the hole of a deletion is counted as used, and `Sound` holds with what
  is still in it. It may be written over by the item behind it (`BackByOne`) and emptied
  in front of one at home (`FreeHole`);
* `Moving`, `Settling`: in a resize, what is in the new table, what is left of the old
  one and the item in between have different names, their number is the count, and
  together they hold what was assigned (`Agree`, `Held`), but for the name of the
  assignment that waits (`Pending`).

The count stays below the number of buckets, so that every loop finds an empty one:
60 % and 10 % leave room in the larger and in the smaller table.

Only model-checked: liveness (`EveryLaunchEnds`, `EveryProgramEnds`,
`EveryTaskletIssues`, `EveryTransferEnds`, `EveryAppEnds`, and the fairness
halves of `Rendezvous` and `FifoLock`), which needs fairness and ENABLED; the
loaders and interpreters, whose operators are recursive over data, out of reach of
proof here, and with them `LocksExclude`; the allocator's `BlocksDisjoint`; and of the applications `Trns` and `Sums`, which
compare with a permutation's cycles and with folds, for which there is no induction here
but one done by hand as for NW (see the plan).

## 5. Divergences met while modelling

Besides the five findings, the source shows the following; the models follow
the code.

* `rvisa/program.c:235` decodes FENCE by falling through into SYSTEM and dies,
  although `rvisa/processor.c:191` wants it treated as a NOP. `ror` by x5 and x4
  is decoded as SEXT_H and ZEXT_H, `rol` by x0-x2 as CLZ, CTZ, CPOP
  (`rvisa/program.c:213`). A rotation by immediate 0 shifts by 32.
* `upmemisa/program.c:437` refuses a program of exactly 4096 instructions, with the
  message that it "can only hold 4096 instructions".
* `dpu_load` clears the symbols and lets the loaders enter new ones as they read
  (`upmemisa/program.c:429`, `rvisa/program.c:350`); when they then refuse the file, for
  want of instructions or for too many, it returns `DPU_ERR_ELF_INVALID_FILE` with the
  symbols of the refused file known (`ummHostApi.c:133`), while the DPUs hold the
  program of an earlier load or none. A host program that goes on writes beside the
  symbol it names, or is killed by a fault, and `hostApp/VA.c:49` and
  `hostApp/TRNS.c:55,59` do not look at the result. `HostApi` and `HostCalls` have all
  of this.
* `devApp/TRNS.c:163` advances a pointer to elements by bytes from the second piece of a
  tile on; the host's tiles have one piece.
* `upmemisa/program.c`: a name that is also a symbol is taken as an immediate before
  it is tried as a condition; `r1foo` parses as r1; unknown store opcodes
  are dropped without a message; the result of a failed map look-up is also a legal
  value.
* `devApp/NW.c`: DPUs without a tile in a wave fill their old tile again. Its
  host's test `tiles_in_wave > num_dpus` (`hostApp/NW.c:109`) comes one tile too late
  for arrays of `num_dpus` entries.
* `devApp/RED.c` adds to a result that nothing resets between launches.
* `devApp/BS.c`, like UNI, resets shared counters in every tasklet with no
  barrier behind, and searches an array in WRAM that the tasklets load together,
  also with no barrier in between; it is not modelled (see the hazards).

## 6. Not modelled, and why

* *Element-wise and matrix applications* (VA, OPDEMO, GEMV, SPMV, MLP, TS, BS):
  tasklets work on rows or blocks of their own and, but for BS, share nothing
  until the host collects; their sums would restate the code.
* *Memory and string functions*: sequential loops over bytes.
* *Transfer-time models*: interpolation in floating point; the tools do not
  compute with reals.
* *Floating-point instructions* of RV32; performance-counter instructions;
  statistics and timing records; printing of instructions; the ELF headers.
* *hashmap.c*: iteration, allocator hooks and self-test, which nothing calls (nor
  does anything call deletion, which is modelled as part of the table); the
  hash functions themselves are arbitrary.
* `dpu_free`, host programs with several threads, loads and launches of subsets
  (`ReadsLoaded` in `HostApi` models how `dpu_launch` looks at a subset).
* The inline spin mutex of `mutex.h`, a plain test-and-set, is modelled where a
  component uses it, and its instructions in `RvPrograms`.
* `DMM_FUNCTIONAL_ONLY`, NUMA and dump builds.

## 7. Plan

1. A proof of `Transposed`: that tasklets that enter one cycle of tiles move each tile
   once needs an invariant on who carries what along the cycle.
2. `dpu_free` and loads of subsets in `HostApi`.
3. A composition of `RvIsa` with `IssueTiming`, to carry the programs through the
   issue order.

## 8. Running

    tlc -config MCSleepMutex.cfg SleepMutex.tla        # and so on, see PROJECT.json
    tlapm SleepMutexProofs.tla                         # and the other *Proofs modules
