----------------------------- MODULE UmmPrograms -----------------------------
(***************************************************************************)
(* Programs for the interpreter of UmmIsa, of the kind the device compiler *)
(* emits: arithmetic on register pairs through the carry flag, products    *)
(* from MUL_STEP and from byte pieces, division, every condition as a jump *)
(* and as a value, loads and stores of every width, DMA, and a spin lock   *)
(* shared by a tasklet and the one it boots.  "want" is what each has to   *)
(* leave in r0 and r1, in ordinary arithmetic.                             *)
(***************************************************************************)
EXTENDS UmmLoader

Op(op, c, a, b, imm) ==
    [Blank EXCEPT !.op = op, !.rc = c, !.ra = a, !.rb = b, !.immA = imm]
Sfx(op, s, c, a, b, imm) == [Op(op, c, a, b, imm) EXCEPT !.sfx = s]
If(i, cond, target) == [i EXCEPT !.cond = cond, !.immB = JumpBit + target]
Mul(pa, pb, c, a, b) == [Op("MUL", c, a, b, 0) EXCEPT !.pa = pa, !.pb = pb]
StoreI(op, a, off, b) == [Op(op, NullReg, a, b, off) EXCEPT !.immB = 0]
StopI == [Blank EXCEPT !.op = "STOP", !.ra = NullReg]
Done(s) == Append(s, StopI)

\* A program as objdump prints it: labels before the code, data behind it.
Reg(r) == [kind |-> "reg", v |-> IF r = NullReg THEN Zero ELSE r]
Num(n) == [kind |-> "num", v |-> n]
Name(s) == [kind |-> "name", v |-> s]
Target(x) == Name("L" \o ToString(x - JumpBit))
NonZero(n) == IF n = 0 THEN <<>> ELSE <<Num(n)>>
Then(i) == IF i.cond = "NoCond" THEN <<>>
           ELSE <<Name(i.cond)>> \o IF i.immB < JumpBit THEN <<>> ELSE <<Target(i.immB)>>
Operands(i) ==
    CASE i.op = "JMP" -> (IF i.rb = Zero /\ i.immA = 0 THEN <<Reg(i.ra), Target(i.immB)>>
                          ELSE <<Reg(i.ra), IF i.rb = Zero THEN Num(i.immA) ELSE Reg(i.rb),
                                 Target(i.immB)>>)
      [] i.op = "CALL" -> (IF i.rc = NullReg THEN <<Reg(i.ra)>> ELSE <<Reg(i.rc), Num(i.immA)>>)
      [] i.op \in {"SB", "SH", "SW", "SD"} -> <<Reg(i.ra), Num(i.immA), Reg(i.rb)>>
      [] i.op \in {"SUB", "SUBC"} -> <<Reg(i.rc), Reg(i.ra), Reg(i.rb)>> \o Then(i)
      [] i.op \in {"ACQUIRE", "RELEASE", "BOOT", "RESUME"} ->
            <<Reg(i.ra), Num(i.immA)>> \o Then(i)
      [] i.op = "STOP" \/ i = Blank -> <<>>
      [] i.op \in {"LDMA", "SDMA"} -> <<Reg(i.ra), Reg(i.rb), Num(i.immA)>>
      [] i.op \in {"MUL_STEP", "DIV_STEP"} ->
            <<Reg(i.rc), Reg(i.ra), Reg(i.rb), Num(i.immA)>> \o Then(i)
      [] i.op = "MOVE" /\ i.ra = Zero -> <<Reg(i.rc), Reg(Zero), Num(i.immA)>>
      [] OTHER -> <<Reg(i.rc), Reg(i.ra)>> \o (IF i.rb = Zero THEN <<>> ELSE <<Reg(i.rb)>>)
                    \o NonZero(i.immA) \o Then(i)
Line(i) == [kind |-> "ins", sfx |-> i.sfx, pa |-> i.pa, pb |-> i.pb, fields |-> Operands(i),
            cc |-> CASE i.op = "JMP" -> (CHOOSE j \in DOMAIN Jcc : Jcc[j] = i.cond)
                     [] OTHER -> "UMP",
            op |-> IF i.op = "JMP" \/ (i.op = "CALL" /\ i.rc = NullReg) THEN "J" ELSE i.op]
Labels(code) == {code[k].immB : k \in DOMAIN code} \ 0..JumpBit-1
Text(code) == SetToSeq({[kind |-> "sym", name |-> Target(x).v, addr |-> x] : x \in Labels(code)})
                \o <<[kind |-> "other"]>> \o [k \in DOMAIN code |-> Line(code[k])]
                \o <<[kind |-> "dat", addr |-> 24, dat |-> <<1, 2>>],
                     [kind |-> "dat", addr |-> MramBegin + 24, dat |-> <<3, 1>>]>>

Vals == {0, 1, 6, 127, 128, 200, 255}
Few == {0, 1, 128, 255}
B2N(b) == IF b THEN 1 ELSE 0
P(name, code, regs, hi, lo) ==
    [name |-> name, lines |-> Text(Done(code)), regs |-> regs, want |-> <<hi, lo>>]
Pair(x) == <<High(x), Low(x)>>
PairP(name, code, regs, x) ==
    P(name, code, regs, Pair(x % Dbl)[1], Pair(x % Dbl)[2])

\* 64-bit addition and subtraction: low words first, then the carry.
Wide == {LET x == a * Word + b  y == c * Word + d IN
         CASE o = "ADD" -> PairP("wide", <<Op("ADD", 1, 1, 3, 0),
                                   Op("ADDC", 0, 0, 2, 0)>>, <<a, b, c, d>>, x + y)
           [] o = "SUB" -> PairP("wide", <<Op("SUB", 1, 1, 3, 0),
                                   Op("SUBC", 0, 0, 2, 0)>>, <<a, b, c, d>>, x - y)
           [] o = "ADD_S" -> PairP("wide", <<Sfx("ADD", "s", 0, 1, 3, 0)>>,
                                <<a, b, c, d>>, Sgn(b + d, W))
           [] o = "SUB_U" -> PairP("wide", <<Sfx("SUB", "u", 0, 1, 3, 0)>>,
                                <<a, b, c, d>>, Low(b - d))
         : a, b, c, d \in Few, o \in {"ADD", "SUB", "ADD_S", "SUB_U"}}

MulSteps == [k \in 1..W |-> If(Op("MUL_STEP", 0, 2, 0, k - 1), "Z", W)]
DivSteps == [k \in 1..W |-> Op("DIV_STEP", 0, 3, 0, W - k)]
\* __mulsi3 and __divsi3, and the 16-bit product made of byte products.
Products ==
    {P("mul", MulSteps, <<a, 0, b>>, 0, Low(a * b)) : a, b \in Vals}
    \union {P("div", DivSteps, <<0, a, 0, b>>, a \div b, a % b)
              : a \in Vals, b \in Vals \ {0}}
    \union {P("bytes", <<Mul("UL", "UH", 4, 2, 3), Mul("UH", "UL", 5, 2, 3),
                         Op("ADD", 4, 4, 5, 0), Mul("UL", "UL", 1, 2, 3),
                         Op("LSL_ADD", 1, 1, 4, ByteBits), Mul("UH", "UH", 0, 2, 3),
                         Op("LSL_ADD", 1, 1, 0, 2 * ByteBits), Op("MOVE", 0, 2, Zero, 0)>>,
              <<0, 0, a, b>>, a, (a % Byte^2) * (b % Byte^2)) : a, b \in Vals}
    \union {P("signed", <<[Mul("SL", "UL", 0, 2, 3) EXCEPT !.sfx = "s"]>>,
              <<0, 0, a, b>>, High(W64(Sgn(a, ByteBits) * (b % Byte))),
              Low(Sgn(a, ByteBits) * (b % Byte))) : a, b \in Vals}

Signed(x) == Sgn(x, W)
Holds(c, a, b) ==
    CASE c = "LTU" -> a < b [] c = "GEU" -> a >= b [] c = "LEU" -> a <= b
      [] c = "GTU" -> a > b [] c = "EQ" -> a = b [] c = "NEQ" -> a # b
      [] c = "LTS" -> Signed(a) < Signed(b) [] c = "GES" -> Signed(a) >= Signed(b)
      [] c = "LES" -> Signed(a) <= Signed(b) [] c = "GTS" -> Signed(a) > Signed(b)
      [] c = "Z" -> a = b [] c = "NZ" -> a # b
      [] c = "PL" -> Signed(Low(a - b)) >= 0 [] c = "MI" -> Signed(Low(a - b)) < 0
      [] c = "C" -> a < b [] c = "NC" -> a >= b
      [] c = "SZ" -> a = 0 [] c = "SNZ" -> a # 0
      [] c = "SPL" -> Signed(a) >= 0 [] c = "SMI" -> Signed(a) < 0
      [] c = "SE" -> a % 2 = 0 [] c = "SO" -> a % 2 = 1
      [] c = "TRUE" -> TRUE [] c = "FALSE" -> FALSE
Compared == Conds \ {"XZ", "NXZ", "XLEU", "XGTU", "XLES", "XGTS", "NSH32", "SH32",
                      "MAX", "NMAX", "SMALL", "LARGE"}
WideHolds(c, x, y) ==
    CASE c = "XZ" -> x = y [] c = "NXZ" -> x # y [] c = "XLEU" -> x <= y
      [] c = "XGTU" -> x > y [] c = "XLES" -> Sgn(x, 2 * W) <= Sgn(y, 2 * W)
      [] c = "XGTS" -> Sgn(x, 2 * W) > Sgn(y, 2 * W)

\* A comparison jumps over the instruction that clears r0, and leaves its
\* truth in r1 when it has no target.
Compares ==
    {P("cmp", <<If(Op("SUB", NullReg, 2, 3, 0), c, 2), Op("MOVE", 0, Zero, Zero, 0),
                [Op("SUB", 1, 2, 3, 0) EXCEPT !.cond = c]>>,
       <<1, 0, a, b>>, B2N(Holds(c, a, b)), B2N(Holds(c, a, b)))
       : c \in Compared, a \in Vals, b \in Vals}
    \union {P("xcmp", <<If(Op("SUB", NullReg, 2, 4, 0), c, 2),
                        Op("MOVE", 0, Zero, Zero, 0)>>,
              <<1, 0, a, b, d, e>>, B2N(WideHolds(c, a * Word + b, d * Word + e)), 0)
       : c \in {"XZ", "NXZ", "XLEU", "XGTU", "XLES", "XGTS"}, a, b, d, e \in {0, 1, 255}}

\* 64-bit shifts out of the extended ones, rotations, and the bit counts.
Shifts ==
    {PairP("shl", <<Op("LSLX", 4, 1, Zero, s), Op("LSL", 1, 1, Zero, s),
                    Op("LSL", 0, 0, Zero, s), Op("OR", 0, 0, 4, 0)>>,
           <<a, b>>, (a * Word + b) * 2^s) : a, b \in Few, s \in {0, 1, 3, 7}}
    \union {PairP("shr", <<Op("LSRX", 4, 0, Zero, s), Op("LSR", 1, 1, Zero, s),
                    Op("OR", 1, 1, 4, 0), Op("ASR", 0, 0, Zero, s)>>,
           <<a, b>>, Sgn(a * Word + b, 2 * W) \div 2^s) : a, b \in Few, s \in {0, 1, 3, 7}}
    \union {P("rot", <<Op("ROL", 0, 0, 2, 0), Op("ROR", 0, 0, 2, 0),
                    Op("CLZ", 1, 1, Zero, 0), Op("ROR", 5, 5, Zero, 7),
                    Op("LSR_ADD", 1, 1, 5, W)>>,
           <<a, b, s>>, a, LET z == {n \in 0..W : b < 2^n} IN
               W - Min(z)) : a, b \in Vals, s \in {0, 1, 3, 7}}
    \union {P("logic", <<Op("AND", 4, 2, 3, 0), Op("OR", 5, 2, 3, 0),
                    Op("SUB", 0, 5, 4, 0), Op("XOR", 4, 2, 3, 0),
                    Op("NAND", 5, 2, 3, 0), Op("NOR", 6, 2, 3, 0),
                    Op("SUB", 7, 5, 6, 0), Op("XOR", 1, 7, 4, 0),
                    Op("ANDN", 5, 2, 3, 0), Op("ORN", 6, 2, 3, 0),
                    Op("SUB", 6, 6, 5, 0), Op("NXOR", 7, 2, 3, 0),
                    Op("XOR", 7, 6, 7, 0), Op("OR", 1, 1, 7, 0)>>, <<0, 0, a, b>>,
              FoldSet(LAMBDA i, n : n + 2^i, 0,
                      (SetBits(a) \union SetBits(b)) \ (SetBits(a) \intersect SetBits(b))),
              0) : a, b \in Vals}

\* A pair goes to WRAM, to MRAM and back, and comes back swapped; the length
\* of a transfer is a sum that wraps round; then parts of a word, stored and
\* loaded narrower than they are.
Memory ==
    {P("dma", <<Op("SD", NullReg, Zero, 2, 8), Op("SDMA", NullReg, 4, Zero, 1),
                Op("SD", NullReg, Zero, Zero, 8), Op("LDMA", NullReg, 5, 6, 0),
                Op("LD", 6, 5, Zero, 0), Op("MOVD", 4, 6, Zero, 0),
                Op("SWAPD", 0, 4, Zero, 0)>>,
       <<0, 0, a, b, 8, 16, IF two THEN 8 ELSE 0>>,
       IF two THEN 0 ELSE b, IF two THEN 0 ELSE a) : a, b \in Vals, two \in BOOLEAN}
    \union {P("units", <<Op("LDMA", NullReg, 4, Zero, n), Op("LBU", 0, Zero, Zero, 25),
                Op("LBU", 1, Zero, Zero, 24)>>,
              <<0, 0, 0, 0, s * (Word \div Byte)>>,
              IF (n + s) % Byte = 3 THEN 1 ELSE 2, IF (n + s) % Byte = 3 THEN 3 ELSE 1)
              : n, s \in 0..Byte-1}
    \union {P("parts", <<Op("SW", NullReg, Zero, 2, 8), Sfx("LBS", "s", 0, Zero, Zero, 11),
                Op("SH", NullReg, Zero, 3, 10), Op("SB", NullReg, Zero, 3, 8),
                Op("SB_ID", NullReg, Zero, Zero, 9), Op("LW", 1, Zero, Zero, 8),
                Sfx("EXTSH", "s", 4, 1, Zero, 0), Op("LHS", 6, Zero, Zero, 8),
                Op("SUB", 4, 5, 6, 0), Op("LBU", 6, Zero, Zero, 9), Blank,
                Op("OR", 4, 4, 6, 0), Op("ADD", 1, 1, 4, 0)>>, <<0, 0, a, b>>,
              High(W64(Sgn(a \div Byte^3, ByteBits))),
              ((b % (Byte^2)) * Byte^2) + (b % Byte)) : a, b \in Vals}
    \union {P("call", <<Op("CALL", 7, Zero, Zero, 3), Op("ADD", 0, 0, 2, 0), StopI,
                Op("MOVE", 1, 3, Zero, 0), Op("CALL", NullReg, 7, Zero, 0)>>,
              <<0, 0, a, b>>, a, b) : a, b \in Few}

\* Tasklet 0 boots tasklet 1, finds itself awake, and both add one to a word
\* of WRAM under an atomic bit: the shape of the device library's mutex.
Id == NumGp + 4
One == NumGp + 1
Counter == 8
Lock ==
    {P("lock", <<If(Op("JMP", NullReg, Id, Zero, 0), "SNZ", 3),
                 Op("BOOT", NullReg, One, Zero, 0),
                 [Op("RESUME", NullReg, Zero, Zero, 0) EXCEPT !.cond = "NZ"],
                 If(Op("ACQUIRE", NullReg, Zero, Zero, 1), "NZ", 3),
                 Op("LW", 2, Zero, Zero, Counter), Op("ADD", 2, 2, One, 0),
                 Op("SW", NullReg, Zero, 2, Counter),
                 Op("RELEASE", NullReg, Zero, Zero, 1)>>, <<>>, 0, 0)}
Critical == 4..7

\* A program one instruction too long for IRAM is refused.
Long == {P("long", [k \in 1..IramNr |-> Blank], <<>>, 0, 0)}

AllPrograms == Wide \union Products \union Compares \union Shifts \union Memory
                 \union Lock \union Long

Init == given \in AllPrograms /\ Init0

Spec == Init /\ [][LoadOrRun]_vars

\* A program that has stopped leaves in r0 and r1 of the first tasklet what
\* ordinary arithmetic says: carries, partial products, sign extensions and
\* conditions compose across instructions (processor.c:81-384).
ProgramsCompute ==
    Stopped => /\ st.tl[0].regs[0] = given.want[1]
               /\ st.tl[0].regs[1] = given.want[2]

\* Between ACQUIRE and RELEASE there is one tasklet, and no increment is lost
\* (processor.c:205-210).
SpinLockExcludes ==
    given.name = "lock" =>
        /\ Cardinality({t \in Tlets : st.tl[t].pc \in Critical}) <= 1
        /\ Stopped => Rd(st.wma, Counter, 4) = 2
=============================================================================
