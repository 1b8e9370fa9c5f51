------------------------------ MODULE UmmLoader ------------------------------
(***************************************************************************)
(* The loader of UPMEM programs (src/upmemisa/program.c) in front of the   *)
(* interpreter of UmmIsa.  A program is the output of objdump: symbol,     *)
(* instruction and data lines.  The regular expressions are abstracted:    *)
(* a line is a record of what they capture, an operand a register, a       *)
(* number or a name, which is a symbol or a condition.                     *)
(***************************************************************************)
EXTENDS UmmIsa, SequencesExt

IramNr == 20                   \* IramNrInstr
MapNoInt == -1                 \* what a failed lookup returns
MramBegin == 128
AtomBegin == 240               \* where the .atomic section is linked

Conds == {"TRUE", "FALSE", "Z", "NZ", "SZ", "SNZ", "PL", "MI", "SPL", "SMI", "C", "NC",
          "LTU", "GEU", "LEU", "GTU", "LTS", "GES", "LES", "GTS", "EQ", "NEQ", "XZ",
          "NXZ", "XLEU", "XGTU", "XLES", "XGTS", "SE", "SO", "NSH32", "SH32", "MAX",
          "NMAX", "SMALL", "LARGE"}
\* The conditions of the j.. mnemonics; jz and jnz look at the source.
Jcc == [j \in {"SPL", "SMI", "LTU", "GEU", "LEU", "GTU", "LTS", "GES", "LES", "GTS",
               "EQ", "NEQ", "Z", "NZ"} |->
          CASE j = "Z" -> "SZ" [] j = "NZ" -> "SNZ" [] OTHER -> j]

Blank == [op |-> "NOP", sfx |-> "", cond |-> "NoCond", ra |-> Zero, rb |-> Zero,
          rc |-> NullReg, immA |-> 0, immB |-> 0, pa |-> "", pb |-> ""]

Fetch(syms, name) == IF name \in DOMAIN syms THEN syms[name] ELSE MapNoInt
Immediate(syms, f) == CASE f.kind = "num" -> f.v [] f.kind = "name" -> Fetch(syms, f.v)
                        [] f.kind = "reg" -> MapNoInt
IsReg(f) == f.kind = "reg"

\* Operands are optional and tried in a fixed order: each slot takes the next
\* field if it fits and leaves it to the next slot otherwise.
Fits(syms, slot, f) ==
    CASE slot \in {"rc", "ra", "rb"} -> IsReg(f)
      [] slot \in {"immA", "immB"} -> Immediate(syms, f) # MapNoInt
      [] slot = "cond" -> f.kind = "name" /\ f.v \in Conds
Taken(syms, slot, f) == IF slot \in {"immA", "immB"} THEN Immediate(syms, f) ELSE f.v
Scan(syms, instr, slots, fields) ==
    FoldLeft(LAMBDA acc, slot :
               IF acc.at > Len(fields) \/ ~Fits(syms, slot, fields[acc.at]) THEN acc
               ELSE [at |-> acc.at + 1,
                     instr |-> [acc.instr EXCEPT ![slot] = Taken(syms, slot, fields[acc.at])]],
             [at |-> 1, instr |-> instr], slots).instr

Stored(syms, i, fields) == Scan(syms, i, <<"ra", "immA", "rb", "immB">>, fields)

\* One operand of a subtraction may be an immediate; as the first it enters
\* negated, because the interpreter adds it to the subtrahend.
Subs(syms, i, f) ==
    LET one == Immediate(syms, f[2])  two == Immediate(syms, f[3])
        regs == [i EXCEPT !.rc = IF f[1].v = Zero THEN NullReg ELSE f[1].v,
                          !.ra = IF one # MapNoInt THEN @ ELSE f[2].v,
                          !.rb = IF two # MapNoInt THEN @ ELSE f[3].v,
                          !.immA = IF two # MapNoInt THEN two
                                   ELSE IF one # MapNoInt THEN -one ELSE @]
    IN  Scan(syms, regs, <<"cond", "immB">>, SubSeq(f, 4, Len(f)))

\* "jump" has a register, an immediate or both; the offset behind a register
\* is printed in instructions.  The others end in their target.
Jumps(syms, i, cc, f) ==
    LET n == Len(f)
        second == IF n >= 3 /\ ~IsReg(f[2]) THEN Immediate(syms, f[2]) ELSE 0
    IN  IF cc = "UMP"
        THEN IF ~IsReg(f[1]) THEN [i EXCEPT !.op = "CALL", !.immA = Immediate(syms, f[1])]
             ELSE [i EXCEPT !.op = "CALL", !.ra = f[1].v, !.immA =
                     IF n >= 2 THEN Immediate(syms, f[2]) + JumpBit ELSE 0]
        ELSE [i EXCEPT !.op = "JMP", !.cond = Jcc[cc], !.immB = Immediate(syms, f[n]),
                       !.ra = IF n >= 2 THEN f[1].v ELSE @,
                       !.rb = IF n >= 3 /\ IsReg(f[2]) THEN f[2].v ELSE @,
                       !.immA = second]

ReadsFirst == {"ACQUIRE", "RELEASE", "STOP", "BOOT", "RESUME"}
ReadsBoth == {"LDMA", "SDMA"}
Others(syms, i, fields) ==
    LET one == Scan(syms, i, <<"rc", "ra", "rb", "immA", "cond", "immB">>, fields)
        keep == NoWb(i) \/ i.op \in DOMAIN Stores \union ReadsBoth
                             \union {"LD", "CALL", "NOP", "DIV_STEP"}
        two == IF one.rc = Zero /\ ~keep THEN [one EXCEPT !.rc = NullReg] ELSE one
    IN  CASE i.op \in ReadsFirst -> [two EXCEPT !.ra = two.rc, !.rc = NullReg]
          [] i.op \in ReadsBoth -> [two EXCEPT !.ra = two.rc, !.rb = two.ra, !.rc = NullReg]
          [] OTHER -> two

\* ObjdLnToInstr: the first letters of the mnemonic choose the parser.
Parse(syms, line) ==
    LET i == [Blank EXCEPT !.op = line.op, !.sfx = line.sfx, !.pa = line.pa, !.pb = line.pb]
    IN  CASE line.op = "J" -> Jumps(syms, i, line.cc, line.fields)
          [] line.op \in {"SB", "SH", "SW", "SD"} -> Stored(syms, i, line.fields)
          [] line.op \in {"SUB", "SUBC"} -> Subs(syms, i, line.fields)
          [] OTHER -> Others(syms, i, line.fields)

----------------------------------------------------------------------------
\* UmmPrgLoadBinary, one line per step, and then the start of UmmDpuRun.  The
\* loop ends after a read has failed, and sees the last line twice.

Lines == given.lines
Init0 == st = [pc |-> "load", at |-> 1, iram |-> <<>>, syms |-> <<>>,
               wma |-> [i \in 0..WramSize+MramSize+Byte-1 |-> 0], tl |-> Asleep]

\* Where a data line goes.
Placed(a) == IF a > AtomBegin THEN WramSize + MramSize + (a % Byte)
             ELSE IF a >= MramBegin THEN WramSize + (a % WramSize) ELSE a

LoadLine ==
    /\ st.pc = "load" /\ st.at <= Len(Lines) + 1
    /\ LET line == Lines[IF st.at > Len(Lines) THEN Len(Lines) ELSE st.at]
           next == [st EXCEPT !.at = @ + 1]
       IN  st' = CASE line.kind = "sym" ->
                        [next EXCEPT !.syms = [n \in DOMAIN @ \union {line.name} |->
                           IF n = line.name THEN line.addr ELSE @[n]]]
                   [] line.kind = "ins" ->
                        [next EXCEPT !.iram = Append(@, Parse(st.syms, line)),
                           !.pc = IF Len(st.iram) + 1 >= IramNr THEN "refused" ELSE @]
                   [] line.kind = "dat" ->
                        [next EXCEPT !.wma = [i \in DOMAIN @ |->
                           IF i \in Placed(line.addr)..Placed(line.addr)+Len(line.dat)-1
                           THEN line.dat[i - Placed(line.addr) + 1] ELSE @[i]]]
                   [] OTHER -> next
    /\ UNCHANGED given

Start == /\ st.pc = "load" /\ st.at > Len(Lines) + 1
         /\ st' = [st EXCEPT !.pc = "run", !.tl = Boot(given.regs)]
         /\ UNCHANGED given

LoadOrRun == LoadLine \/ Start \/ Next
=============================================================================
