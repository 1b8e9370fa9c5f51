------------------------------ MODULE MCSimulator ------------------------------
(* The two interpreters, each behind its program loader, and the symbol map *)
(* that the loaders fill.  "part" is the one a behaviour is about.           *)
EXTENDS HashMap

VARIABLE part

Umm == INSTANCE UmmPrograms
Rv == INSTANCE RvPrograms

\* Hashes that meet in 4, in 8 and in 16 buckets, and that wrap round.
MCHashes == {[a |-> 0, b |-> 0, c |-> 3, d |-> 3, e |-> 7],
             [a |-> 3, b |-> 3, c |-> 7, d |-> 11, e |-> 8],
             [a |-> 2, b |-> 0, c |-> 1, d |-> 6, e |-> 15]}

SimInit == \/ part = "upmem" /\ Umm!Init
           \/ part = "riscv" /\ Rv!Init
           \/ part = "map" /\ Init

SimNext == /\ UNCHANGED part
           /\ \/ part = "upmem" /\ Umm!LoadOrRun
              \/ part = "riscv" /\ Rv!Next
              \/ part = "map" /\ Next

SimSpec == SimInit /\ [][SimNext]_<<part, given, st>>
-------------------------------------------------------------------------------
\* UPMEM programs compute what their instructions say, after assembly text,
\* labels and symbols have been through the loader (upmemisa/processor.c:81).
UmmProgramsCompute == part = "upmem" => Umm!ProgramsCompute

\* So do RISC-V programs (rvisa/processor.c:48).
RvProgramsCompute == part = "riscv" => Rv!RvProgramsCompute

\* The locks of both device libraries exclude: nothing the interpreter does
\* between two tasklets' instructions comes between a test and its set.
LocksExclude == /\ part = "upmem" => Umm!SpinLockExcludes
                /\ part = "riscv" => Rv!CsrLockExcludes

\* The symbol map is a map between calls (thrdUnsafeHash/hashmap.c:270).
MapIsExact == part = "map" => FetchIsLastAssigned /\ NoSecondCopy
===============================================================================
