-------------------------------- MODULE RvIsa --------------------------------
(***************************************************************************)
(* The RISC-V DPU: the ELF loader and decoder (src/rvisa/program.c) and    *)
(* the interpreter (src/rvisa/processor.c).                                *)
(*                                                                         *)
(* An encoded instruction is the set of its one bits; the decoder is not   *)
(* scaled down, the words it runs on are.  An ELF file is a sequence of    *)
(* sections: [name, addr, data], data being encoded instructions, bytes or *)
(* symbols.  "given" is the file and the number of tasklets, "st" the DPU; *)
(* any awake tasklet may execute its next instruction, which covers the    *)
(* lock step of the functional build and every order of the timed one.     *)
(***************************************************************************)
EXTENDS Words, Sequences

VARIABLES given, st

vars == <<given, st>>

NumGp == 8                     \* NumGpRegistersR, 32
WramSize == 16
MramSize == 16
MramBegin == 64
IramBegin == 128
IramNrInstr == 24
NrCsr == 32
UpperBit == W \div 2           \* LUI's immediate starts at bit 12 of 32

----------------------------------------------------------------------------
\* Bit fields and immediates.

Field(e, lo, n) == FoldSet(LAMBDA i, s : s + (IF lo + i \in e THEN 2^i ELSE 0),
                           0, 0..n-1)
Rs2(e) == Field(e, 20, 5)
Funct3(e) == Field(e, 12, 3)
Funct7(e) == Field(e, 25, 7)

ImmI(e) == Sgn(Field(e, 20, 12), 12)
ImmS(e) == Sgn(Field(e, 7, 5) + 2^5 * Field(e, 25, 7), 12)
ImmB(e) == Sgn(2 * Field(e, 8, 4) + 2^5 * Field(e, 25, 6)
                 + 2^11 * Field(e, 7, 1) + 2^12 * Field(e, 31, 1), 13)
ImmU(e) == Field(e, 12, 20) * 2^UpperBit
ImmJ(e) == Sgn(2 * Field(e, 21, 10) + 2^11 * Field(e, 20, 1)
                 + 2^12 * Field(e, 12, 8) + 2^20 * Field(e, 31, 1), 21)

\* The opcode by the funct3 field; "" where the decoder gives up.
Die == ""
Branches == <<"BEQ", "BNE", Die, Die, "BLT", "BGE", "BLTU", "BGEU">>
Loads == <<"LB", "LH", "LW", Die, "LBU", "LHU", Die, Die>>
StoreOps == <<"SB", "SH", "SW", Die, Die, Die, Die, Die>>
Counts == <<"CLZ", "CTZ", "CPOP">>
CountOr(e, other) == IF Rs2(e) < 3 THEN Counts[Rs2(e) + 1] ELSE other

OpImm(e) ==
    CASE Funct3(e) = 1 -> IF Funct7(e) = 0 THEN "SLLI"
                          ELSE IF Funct7(e) = \h30 THEN CountOr(e, Die) ELSE Die
      [] Funct3(e) = 5 -> CASE Funct7(e) = 0 -> "SRLI" [] Funct7(e) = \h20 -> "SRAI"
                            [] Funct7(e) = \h30 -> "RORI" [] OTHER -> Die
      [] OTHER -> <<"ADDI", Die, "SLTI", "SLTIU", "XORI", Die, "ORI", "ANDI">>
                    [Funct3(e) + 1]

Op(e) ==
    LET by(table) == table[Funct3(e) + 1]
    IN  CASE Funct7(e) = 0 ->
               by(<<"ADD", "SLL", "SLT", "SLTU", "XOR", "SRL", "OR", "AND">>)
          [] Funct7(e) = \h20 -> by(<<"SUB", Die, Die, Die, "XNOR", "SRA", "ORN", "ANDN">>)
          [] Funct7(e) = 1 ->
               by(<<"MUL", "MULH", "MULHSU", "MULHU", "DIV", "DIVU", "REM", "REMU">>)
          [] Funct7(e) = 5 -> by(<<Die, Die, Die, Die, "MIN", "MINU", "MAX", "MAXU">>)
          [] Funct7(e) = \h30 ->
               CASE Funct3(e) = 1 -> CountOr(e, "ROL") [] Funct3(e) = 4 -> "SEXT_B"
                 [] Funct3(e) = 5 -> (CASE Rs2(e) = 5 -> "SEXT_H" [] Rs2(e) = 4 -> "ZEXT_H"
                                        [] OTHER -> "ROR")
                 [] OTHER -> Die
          [] OTHER -> Die

System(e) ==
    CASE Field(e, 7, 25) = 0 -> "ECALL" [] Field(e, 7, 25) = 2^13 -> "EBREAK"
      [] OTHER -> <<Die, "CSRRW", "CSRRS", "CSRRC", Die, "CSRRWI", "CSRRSI", "CSRRCI">>
                    [Funct3(e) + 1]

\* RvNeedRw: which instructions name a destination, and how many sources.
NoDest == {"SB", "SH", "SW", "BEQ", "BNE", "BLT", "BGE", "BLTU", "BGEU",
           "ECALL", "EBREAK", "FENCE"}
NoSource == {"LUI", "AUIPC", "JAL", "ECALL", "EBREAK", "CSRRWI", "CSRRSI", "CSRRCI",
             "FENCE"}
OneSource == {"CLZ", "CTZ", "CPOP", "SEXT_B", "SEXT_H", "ZEXT_H", "ADDI", "ANDI",
              "ORI", "XORI", "SLLI", "SRLI", "SRAI", "RORI", "SLTI", "SLTIU", "LB",
              "LH", "LW", "LBU", "LHU", "JALR", "CSRRW", "CSRRS", "CSRRC"}

\* FENCE is among the others: its case falls through into that of the system
\* instructions, which gives up on it.
Decode(e) ==
    LET major == Field(e, 0, 7)
        by(table) == table[Funct3(e) + 1]
        op == CASE major = \h37 -> "LUI"  [] major = \h17 -> "AUIPC"
                [] major = \h6F -> "JAL"  [] major = \h67 -> "JALR"
                [] major = \h63 -> by(Branches) [] major = \h03 -> by(Loads)
                [] major = \h23 -> by(StoreOps) [] major = \h13 -> OpImm(e)
                [] major = \h33 -> Op(e)  [] major = \h73 -> System(e)
                [] OTHER -> Die
        imm == CASE major \in {\h37, \h17} -> ImmU(e) [] major = \h6F -> ImmJ(e)
                 [] major = \h63 -> ImmB(e)           [] major = \h23 -> ImmS(e)
                 [] major = \h73 -> Field(e, 20, 12)  [] OTHER -> ImmI(e)
    IN  [op |-> op, imm |-> imm,
         rd |-> IF op \in NoDest THEN 0 ELSE Field(e, 7, 5),
         rs1 |-> IF op \in NoSource THEN 0 ELSE Field(e, 15, 5),
         rs2 |-> IF op \in NoSource \union OneSource THEN 0 ELSE Rs2(e)]

----------------------------------------------------------------------------
\* RvPrgLoadBinary, one section per step, and RvDpuRun's start.

Boot(t) == [pc |-> IramBegin, regs |-> [r \in 0..NumGp-1 |-> 0]]

Init0 == st = [pc |-> "load", at |-> 1, iram |-> <<>>, syms |-> {}, execd |-> 0,
               mem |-> [i \in 0..WramSize+MramSize-1 |-> 0],
               csr |-> [i \in 0..NrCsr-1 |-> 0],
               tl |-> [t \in 0..given.nt-1 |-> Boot(t)]]

PutBytes(m, at, data) == [i \in DOMAIN m |-> IF i \in at..at+Len(data)-1
                                             THEN data[i - at + 1] ELSE m[i]]

LoadSection ==
    /\ st.pc = "load" /\ st.at <= Len(given.elf)
    /\ LET s == given.elf[st.at]
           room == IramNrInstr - Len(st.iram)
           taken == SubSeq(s.data, 1, IF Len(s.data) < room THEN Len(s.data) ELSE room)
           code == st.iram \o [i \in 1..Len(taken) |-> Decode(taken[i])]
       IN  st' = CASE s.name = "symtab" ->
                        [st EXCEPT !.at = @ + 1, !.syms = @ \union
                           {s.data[i] : i \in {i \in DOMAIN s.data : ~s.data[i].local}}]
                   [] s.name \in {".boot", ".text"} ->
                        [st EXCEPT !.at = @ + 1, !.iram = code, !.pc =
                           IF \E i \in DOMAIN code : code[i].op = Die THEN "died" ELSE @]
                   [] s.name \in {".data", ".sdata"} ->
                        [st EXCEPT !.at = @ + 1, !.mem = PutBytes(@, s.addr, s.data)]
                   [] s.name = ".mram" ->
                        [st EXCEPT !.at = @ + 1, !.mem =
                           PutBytes(@, WramSize + s.addr - MramBegin, s.data)]
                   [] OTHER -> [st EXCEPT !.at = @ + 1]
    /\ UNCHANGED given

Run == /\ st.pc = "load" /\ st.at > Len(given.elf)
       /\ st' = [st EXCEPT !.pc = "run", !.csr[0] = 2^given.nt - 1, !.csr[31] = 0]
       /\ UNCHANGED given

Awake(t) == st.pc = "run" /\ Bit(st.csr[0], t) = 1 /\ Bit(st.csr[31], t) = 0
Stopped == st.pc = "run" /\ \A t \in 0..given.nt-1 : Bit(st.csr[0], t) = 0

----------------------------------------------------------------------------
\* RvDpuExecuteInstr.

At(t) == st.iram[(st.tl[t].pc - IramBegin) \div 4 + 1]
Does(t, ops) == Awake(t) /\ At(t).op \in ops
Rs1(t) == st.tl[t].regs[At(t).rs1]
Rs2Val(t) == st.tl[t].regs[At(t).rs2]
NextPc(t) == st.tl[t].pc + 4
Here(t, off) == Low(st.tl[t].pc + off)
Put(regs, rd, v) == IF rd = 0 THEN regs ELSE [regs EXCEPT ![rd] = Low(v)]

\* The step that writes v to rd, goes to pc and leaves memory and CSRs so.
Step(t, v, pc, mem, csr) ==
    /\ st' = [st EXCEPT !.tl[t] = [pc |-> pc, regs |-> Put(@.regs, At(t).rd, v)],
                        !.mem = mem, !.csr = csr, !.execd = (@ + 1) % 4]
    /\ UNCHANGED given

S(x) == Sgn(x, W)
B2N(b) == IF b THEN 1 ELSE 0
Ones(x) == Word - 1 - x
\* C's division truncates toward zero.
Quot(a, b) == LET q == (IF a < 0 THEN -a ELSE a) \div (IF b < 0 THEN -b ELSE b)
              IN  IF (a < 0) = (b < 0) THEN q ELSE -q
Least == 2^(W - 1)

\* Mutant: set-less-than and the right shift forget about the sign.
ArithUnsigned(op, a, b) ==
    CASE op = "ADD" -> a + b            [] op = "SUB" -> a - b
      [] op = "AND" -> a & b            [] op = "OR" -> a | b
      [] op = "XOR" -> a ^^ b           [] op = "SLL" -> a * 2^(b % W)
      [] op \in {"SRL", "SRA"} -> a \div 2^(b % W)
      [] op \in {"SLT", "SLTU"} -> B2N(a < b)
      [] op = "ANDN" -> a & Ones(b)      [] op = "ORN" -> a | Ones(b)
      [] op = "XNOR" -> Ones(a ^^ b)     [] op = "ROL" -> Rotl(a, b % W)
      [] op = "ROR" -> Rotl(a, (W - (b % W)) % W)

Arith(op, a, b) ==
    CASE op = "ADD" -> a + b            [] op = "SUB" -> a - b
      [] op = "AND" -> a & b            [] op = "OR" -> a | b
      [] op = "XOR" -> a ^^ b           [] op = "SLL" -> a * 2^(b % W)
      [] op = "SRL" -> a \div 2^(b % W) [] op = "SRA" -> S(a) \div 2^(b % W)
      [] op = "SLT" -> B2N(S(a) < S(b)) [] op = "SLTU" -> B2N(a < b)
      [] op = "ANDN" -> a & Ones(b)      [] op = "ORN" -> a | Ones(b)
      [] op = "XNOR" -> Ones(a ^^ b)     [] op = "ROL" -> Rotl(a, b % W)
      [] op = "ROR" -> Rotl(a, (W - (b % W)) % W)

MulDiv(op, a, b) ==
    CASE op = "MUL" -> a * b                  [] op = "MULH" -> (S(a) * S(b)) \div Word
      [] op = "MULHSU" -> (S(a) * b) \div Word [] op = "MULHU" -> (a * b) \div Word
      [] op = "DIV" -> (IF b = 0 THEN -1 ELSE IF a = Least /\ b = Word - 1 THEN Least
                        ELSE Quot(S(a), S(b)))
      [] op = "DIVU" -> (IF b = 0 THEN Word - 1 ELSE a \div b)
      [] op = "REM" -> (IF b = 0 THEN a ELSE IF a = Least /\ b = Word - 1 THEN 0
                        ELSE S(a) - Quot(S(a), S(b)) * S(b))
      [] op = "REMU" -> (IF b = 0 THEN a ELSE a % b)

Bits(op, a, b) ==
    CASE op = "MIN" -> (IF S(a) < S(b) THEN a ELSE b)
      [] op = "MAX" -> (IF S(a) > S(b) THEN a ELSE b)
      [] op = "MINU" -> (IF a < b THEN a ELSE b) [] op = "MAXU" -> (IF a > b THEN a ELSE b)
      [] op = "CLZ" -> Clz(a, W) [] op = "CTZ" -> Ctz(a, W)
      [] op = "CPOP" -> Cardinality(SetBits(a))
      [] op = "SEXT_B" -> Sgn(a, ByteBits) [] op = "SEXT_H" -> Sgn(a, 2 * ByteBits)
      [] op = "ZEXT_H" -> a % Half

ImmOps == [ADDI |-> "ADD", ANDI |-> "AND", ORI |-> "OR", XORI |-> "XOR", SLLI |-> "SLL",
           SRLI |-> "SRL", SRAI |-> "SRA", RORI |-> "ROR", SLTI |-> "SLT", SLTIU |-> "SLTU"]
ArithOps == {"ADD", "SUB", "AND", "OR", "XOR", "SLL", "SRL", "SRA", "SLT", "SLTU",
             "ANDN", "ORN", "XNOR", "ROL", "ROR"}
MulOps == {"MUL", "MULH", "MULHSU", "MULHU", "DIV", "DIVU", "REM", "REMU"}
BitOps == {"MIN", "MAX", "MINU", "MAXU", "CLZ", "CTZ", "CPOP", "SEXT_B", "SEXT_H", "ZEXT_H"}

Compute(t) ==
    /\ Does(t, ArithOps \union MulOps \union BitOps \union DOMAIN ImmOps
                 \union {"LUI", "AUIPC"})
    /\ LET i == At(t)  a == Rs1(t)  b == Rs2Val(t)
           v == CASE i.op \in ArithOps -> Arith(i.op, a, b)
                  [] i.op \in MulOps -> MulDiv(i.op, a, b)
                  [] i.op \in BitOps -> Bits(i.op, a, b)
                  [] i.op \in DOMAIN ImmOps -> Arith(ImmOps[i.op], a, Low(i.imm))
                  [] i.op = "LUI" -> i.imm
                  [] i.op = "AUIPC" -> Here(t, i.imm)
       IN  Step(t, v, NextPc(t), st.mem, st.csr)

\* Addresses beyond WRAM are taken for MRAM ones.
Where(a) == IF a >= WramSize THEN a - (MramBegin - WramSize) ELSE a
Width(op) == CASE op \in {"LB", "LBU", "SB"} -> 1 [] op \in {"LH", "LHU", "SH"} -> 2
               [] op \in {"LW", "SW"} -> 4

Load(t) ==
    /\ Does(t, {"LB", "LH", "LW", "LBU", "LHU"})
    /\ LET op == At(t).op
           v == Rd(st.mem, Where(Low(Rs1(t) + At(t).imm)), Width(op))
       IN  Step(t, IF op \in {"LB", "LH"} THEN Sgn(v, Width(op) * ByteBits) ELSE v,
                NextPc(t), st.mem, st.csr)

Store(t) ==
    /\ Does(t, {"SB", "SH", "SW"})
    /\ Step(t, 0, NextPc(t), Wr(st.mem, Where(Low(Rs1(t) + At(t).imm)),
                                Width(At(t).op), Rs2Val(t)), st.csr)

Branch(t) ==
    /\ Does(t, {"BEQ", "BNE", "BLT", "BGE", "BLTU", "BGEU"})
    /\ LET op == At(t).op  a == Rs1(t)  b == Rs2Val(t)
           taken == CASE op = "BEQ" -> a = b        [] op = "BNE" -> a # b
                      [] op = "BLT" -> S(a) < S(b)  [] op = "BGE" -> S(a) >= S(b)
                      [] op = "BLTU" -> a < b       [] op = "BGEU" -> a >= b
       IN  Step(t, 0, IF taken THEN Here(t, At(t).imm) ELSE NextPc(t), st.mem, st.csr)

Jump(t) ==
    /\ Does(t, {"JAL", "JALR"})
    /\ Step(t, NextPc(t), IF At(t).op = "JAL" THEN Here(t, At(t).imm)
                          ELSE LET a == Low(Rs1(t) + At(t).imm) IN a - (a % 2),
            st.mem, st.csr)

\* Reads and changes a CSR in one step; the immediate forms have lost their
\* operand in the decoder and use 0.  CSR 20 reads as the tasklet's number, 0
\* and 2 as counters of the run; 0 counts cycles, which are not modelled.
Csr(t) ==
    /\ Does(t, {"CSRRS", "CSRRC", "CSRRWI", "CSRRSI", "CSRRCI"}
                 \union IF Awake(t) /\ At(t).imm % NrCsr # 3 THEN {"CSRRW"} ELSE {})
    /\ LET op == At(t).op  c == At(t).imm % NrCsr  old == st.csr[c]
           x == CASE op = "CSRRW" -> Rs1(t) [] op = "CSRRS" -> old | Rs1(t)
                  [] op = "CSRRC" -> old & Ones(Rs1(t))
                  [] op = "CSRRWI" -> At(t).rs1 [] op = "CSRRSI" -> old | At(t).rs1
                  [] op = "CSRRCI" -> old & Ones(At(t).rs1)
           reads == IF op # "CSRRSI" THEN {old}
                    ELSE CASE c = 20 -> {t} [] c = 0 -> {0, 1} [] c = 2 -> {st.execd}
                           [] OTHER -> {old}
       IN  \E v \in reads : Step(t, v, NextPc(t), st.mem, [st.csr EXCEPT ![c] = x])

\* csrrw on CSR 3 is the DMA engine: the WRAM address, the direction and the
\* size are packed into rs1, and rd holds the MRAM address.
Dma(t) ==
    /\ Does(t, {"CSRRW"}) /\ At(t).imm % NrCsr = 3
    /\ LET half == 2^(W \div 2)
           w == Rs1(t) \div half
           m == WramSize + ((st.tl[t].regs[At(t).rd] - MramBegin) % MramSize)
           toMram == Bit(Rs1(t), W \div 2 - 1) = 1
           n == Rs1(t) % (half \div 2)
       IN  st' = [st EXCEPT !.tl[t].pc = NextPc(t), !.execd = (@ + 1) % 4, !.mem =
                    IF toMram THEN Copy(@, w, m, n) ELSE Copy(@, m, w, n)]
    /\ UNCHANGED given

Next == \/ LoadSection \/ Run
        \/ \E t \in DOMAIN st.tl :
             \/ Compute(t) \/ Load(t) \/ Store(t) \/ Branch(t) \/ Jump(t)
             \/ Csr(t) \/ Dma(t)
=============================================================================
