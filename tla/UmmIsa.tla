------------------------------- MODULE UmmIsa -------------------------------
(***************************************************************************)
(* The UPMEM instruction interpreter (src/upmemisa/processor.c).           *)
(*                                                                         *)
(* WRAM, MRAM and the atomic bits are one array, as in the code.  A base   *)
(* opcode and its ".s" or ".u" variant are one "op" with a suffix, and the *)
(* sixteen byte products are one op with two pieces.  Jump targets keep    *)
(* the high bit by which the code tells them from plain immediates.        *)
(*                                                                         *)
(* "given" is the program being run with its inputs, "st" the DPU.  Any    *)
(* runnable tasklet may execute its next instruction: the lock step of the *)
(* functional build and every order of the timed one are among these.      *)
(***************************************************************************)
EXTENDS Words, Sequences

VARIABLES given, st

vars == <<given, st>>

JumpBit == 2^(W - 1)
WramSize == 32
MramSize == 48
Tlets == 0..1
NumGp == 8
Zero == NumGp
NullReg == NumGp + 8

Flip(x) == Dbl - 1 - x
\* UmmTletInit: the read-only registers follow the general ones.
Fresh(t) == [pc |-> 0, state |-> "SLEEP", cf |-> 0,
             regs |-> [r \in 0..NumGp+9 |->
                 CASE r = NumGp + 1 -> 1       [] r = NumGp + 2 -> Word - 1
                   [] r = NumGp + 3 -> JumpBit [] r = NumGp + 4 -> t
                   [] r = NumGp + 5 -> 2 * t   [] r = NumGp + 6 -> 4 * t
                   [] r = NumGp + 7 -> 8 * t   [] OTHER -> 0]]

----------------------------------------------------------------------------
\* The value an instruction computes: the operands as later steps see them
\* (the code updates va and vb in place), the result and the carry flag.

Val(va, vb, r, cf) == [va |-> va, vb |-> vb, r |-> W64(r), cf |-> cf]

IsHigh(p) == p \in {"SH", "UH"}
Piece(x, p) == LET y == IF IsHigh(p) THEN x \div Byte ELSE x
               IN  IF p \in {"SL", "SH"} THEN Sgn(y, ByteBits) ELSE y % Byte

AddOps == {"ADD", "ADDC", "SUB", "SUBC"}
LogicOps == {"AND", "NAND", "ANDN", "OR", "NOR", "ORN", "XOR", "NXOR"}
ShiftOps == {"ROL", "ROR", "LSL", "LSR", "ASR", "LSLX", "LSRX"}
ShAddOps == {"ROL_ADD", "LSR_ADD", "LSL_SUB", "LSL_ADD"}
CountOps == {"CLS", "CLZ", "CLO", "CAO"}
LoadOps == {"LW", "LHS", "LHU", "LBS", "LBU"}
UnaryOps == {"MOVE", "EXTSB", "EXTSH", "EXTUB", "EXTUH", "NEG", "NOT", "JMP"}
ComputeOps == AddOps \union LogicOps \union ShiftOps \union ShAddOps
                \union CountOps \union LoadOps \union UnaryOps \union {"MUL"}

Adds(op, va, vb, cf) ==
    LET x == IF op \in {"ADDC", "SUBC"} THEN cf ELSE 0
        v == IF op \in {"SUB", "SUBC"} THEN W64(vb + x) ELSE vb
        r == IF op \in {"SUB", "SUBC"} THEN va - v ELSE va + Low(vb) + x
    IN  Val(va, v, r, IF High(W64(r)) # 0 THEN 1 ELSE 0)

Logic(op, va, vb) ==
    CASE op = "AND"  -> va & vb         [] op = "NAND" -> Flip(va & vb)
      [] op = "ANDN" -> Flip(va) & vb   [] op = "OR"   -> va | vb
      [] op = "NOR"  -> Flip(va | vb)   [] op = "ORN"  -> Flip(va) | vb
      [] op = "XOR"  -> va ^^ vb        [] op = "NXOR" -> Flip(va ^^ vb)

\* Mutant: arithmetic shifts bring in zeros, and rotations to the right go left.
ShiftUnsigned(op, va, s) ==
    CASE op \in {"ROL", "ROR"} -> Rotl(va, s)
      [] op = "LSL"  -> va * 2^s
      [] op \in {"LSR", "ASR"} -> va \div 2^s
      [] op = "LSLX" -> High(va * 2^s)
      [] op = "LSRX" -> (va * Word) \div 2^s

Shift(op, va, s) ==
    CASE op = "ROL"  -> Rotl(va, s)     [] op = "ROR" -> Rotl(va, (W - s) % W)
      [] op = "LSL"  -> va * 2^s        [] op = "LSR" -> va \div 2^s
      [] op = "ASR"  -> Sgn(va, W) \div 2^s
      [] op = "LSLX" -> High(va * 2^s)
      [] op = "LSRX" -> (va * Word) \div 2^s

ShAdd(op, vb, s) ==
    CASE op = "ROL_ADD" -> Rotl(vb, s)  [] op = "LSR_ADD" -> vb \div 2^s
      [] op = "LSL_ADD" -> vb * 2^s     [] op = "LSL_SUB" -> -(vb * 2^s)

\* clz of zero is undefined in C: "undef" stands for what the build returns.
Count(op, va, undef) ==
    LET neg == IF op = "CLS" /\ Bit(va, W - 1) = 1 THEN Flip(va) ELSE va
        inv == IF op = "CLO" THEN Flip(va) ELSE neg
    IN  Val(neg, 0, IF op = "CAO" THEN Cardinality(SetBits(va))
                    ELSE IF inv = 0 THEN W ELSE Clz(Low(inv), undef), 0)

Load(op, m, a) ==
    CASE op = "LW"  -> Rd(m, a, 4)
      [] op = "LHS" -> Sgn(Rd(m, a, 2), 2 * ByteBits) [] op = "LHU" -> Rd(m, a, 2)
      [] op = "LBS" -> Sgn(m[a], ByteBits)            [] op = "LBU" -> m[a]

Unary(op, va, immA) ==
    CASE op = "MOVE"  -> va + immA        [] op = "NEG"   -> -va
      [] op = "NOT"   -> Flip(va)         [] op = "JMP"   -> 0
      [] op = "EXTSB" -> Sgn(va, ByteBits) [] op = "EXTSH" -> Sgn(va, 2 * ByteBits)
      [] op = "EXTUB" -> va % Byte        [] op = "EXTUH" -> va % Byte^2

Value(i, u, m, undef) ==
    LET va == u.regs[i.ra]
        vb == W64(u.regs[i.rb] + i.immA)
        same(r) == Val(va, u.regs[i.rb], r, u.cf)
        both(r) == Val(va, vb, r, u.cf)
    IN  CASE i.op \in AddOps   -> Adds(i.op, va, vb, u.cf)
          [] i.op \in LogicOps -> both(Logic(i.op, va, vb))
          [] i.op \in {"ROL", "ROR"} -> same(Shift(i.op, va, vb % W))
          [] i.op \in ShiftOps -> both(Shift(i.op, va, vb % W))
          [] i.op \in ShAddOps -> same(ShAdd(i.op, u.regs[i.rb], i.immA % W))
          [] i.op \in CountOps -> [Count(i.op, va, undef) EXCEPT
                                       !.vb = u.regs[i.rb], !.cf = u.cf]
          [] i.op \in LoadOps  -> same(Load(i.op, m, Low(va + i.immA)))
          [] i.op = "JMP"      -> both(0)
          [] i.op \in UnaryOps -> same(Unary(i.op, va, i.immA))
          [] i.op = "MUL" ->
                Val(IF IsHigh(i.pa) /\ IsHigh(i.pb) THEN va \div Byte ELSE va,
                    IF IsHigh(i.pb) THEN u.regs[i.rb] \div Byte ELSE u.regs[i.rb],
                    Piece(va, i.pa) * Piece(u.regs[i.rb], i.pb), u.cf)

----------------------------------------------------------------------------
\* The write-back modes of UmmOpWbMode, and the conditions.

NoWb(i) == i.op \in {"JMP", "ACQUIRE", "RELEASE", "STOP", "BOOT", "RESUME",
                     "MOVD", "SWAPD"}
Suffix(i) == IF i.op = "MUL" /\ {i.pa, i.pb} \subseteq {"SL", "SH"}
             THEN "" ELSE i.sfx

\* The result that conditions look at, once the write-back has narrowed it.
Written(i, v) ==
    LET r == IF i.op \in ShAddOps THEN W64(v.r + v.va) ELSE v.r
    IN  IF Suffix(i) = "s" /\ ~NoWb(i) THEN W64(Sgn(r, W)) ELSE r

WriteBack(i, regs, r) ==
    IF NoWb(i) THEN regs
    ELSE CASE Suffix(i) = ""  -> [regs EXCEPT ![i.rc] = Low(r)]
           [] Suffix(i) = "s" -> [regs EXCEPT ![i.rc] = High(r), ![i.rc + 1] = Low(r)]
           [] Suffix(i) = "u" -> [regs EXCEPT ![i.rc] = 0, ![i.rc + 1] = Low(r)]

CondMet(i, regs, va, vb, r) ==
    LET ua == Low(va)  ub == Low(vb)  sa == Sgn(va, W)  sb == Sgn(vb, W)
        pa == ua * Word + regs[i.ra + 1]
        pb == regs[i.rb] * Word + regs[i.rb + 1]
        most == IF i.op = "CLS" /\ i.sfx = "" THEN W - 1 ELSE W
        big == (va \div Byte) % Byte # 0 \/ (vb \div Byte) % Byte # 0
    IN  CASE i.cond = "TRUE" -> TRUE
          [] i.cond = "FALSE" -> FALSE
          [] i.cond = "Z" -> Low(r) = 0       [] i.cond = "NZ" -> Low(r) # 0
          [] i.cond = "SZ" -> va = 0          [] i.cond = "SNZ" -> va # 0
          [] i.cond = "PL" -> Sgn(r, W) >= 0  [] i.cond = "MI" -> Sgn(r, W) < 0
          [] i.cond = "SPL" -> sa >= 0        [] i.cond = "SMI" -> sa < 0
          [] i.cond = "C" -> High(r) # 0      [] i.cond = "NC" -> High(r) = 0
          [] i.cond = "LTU" -> ua < ub        [] i.cond = "GEU" -> ua >= ub
          [] i.cond = "LEU" -> ua <= ub       [] i.cond = "GTU" -> ua > ub
          [] i.cond = "LTS" -> sa < sb        [] i.cond = "GES" -> sa >= sb
          [] i.cond = "LES" -> sa <= sb       [] i.cond = "GTS" -> sa > sb
          [] i.cond = "EQ" -> va = vb         [] i.cond = "NEQ" -> va # vb
          [] i.cond = "XZ" -> pa = pb         [] i.cond = "NXZ" -> pa # pb
          [] i.cond = "XLEU" -> pa <= pb      [] i.cond = "XGTU" -> pa > pb
          [] i.cond = "XLES" -> Sgn(pa, 2 * W) <= Sgn(pb, 2 * W)
          [] i.cond = "XGTS" -> Sgn(pa, 2 * W) > Sgn(pb, 2 * W)
          [] i.cond = "SE" -> va % 2 = 0      [] i.cond = "SO" -> va % 2 = 1
          [] i.cond = "NSH32" -> (vb \div W) % 2 = 0
          [] i.cond = "SH32" -> (vb \div W) % 2 = 1
          [] i.cond = "MAX" -> r = most       [] i.cond = "NMAX" -> r # most
          [] i.cond = "SMALL" -> ~big         [] i.cond = "LARGE" -> big

\* The tasklet after write-back and condition: a target above JumpBit is
\* jumped to, any other condition leaves its truth in the result register.
Finish(i, u, v) ==
    LET r == Written(i, v)
        regs == WriteBack(i, u.regs, r)
        met == CondMet(i, regs, v.va, v.vb, r)
        done == [u EXCEPT !.regs = regs, !.cf = v.cf]
    IN  IF i.cond = "NoCond" THEN done
        ELSE IF i.immB < JumpBit
             THEN [done EXCEPT !.regs[i.rc] = IF met THEN 1 ELSE 0]
             ELSE IF met THEN [done EXCEPT !.pc = i.immB - JumpBit] ELSE done

----------------------------------------------------------------------------
\* The instructions.  Each action is one call of UmmDpuExecuteInstr.

Code == st.iram
At(t) == Code[st.tl[t].pc + 1]
Runs(t, ops) == st.tl[t].state = "RUNNABLE" /\ At(t).op \in ops
Next1(t) == [st.tl[t] EXCEPT !.pc = @ + 1]
Ra(t) == st.tl[t].regs[At(t).ra]
Rb(t) == st.tl[t].regs[At(t).rb]
Set(t, u, m) == /\ st' = [st EXCEPT !.tl[t] = u, !.wma = m]
                /\ UNCHANGED given

Compute(t) ==
    /\ Runs(t, ComputeOps)
    /\ \E undef \in IF At(t).op \in CountOps THEN 0..W ELSE {0} :
         Set(t, Finish(At(t), Next1(t), Value(At(t), Next1(t), st.wma, undef)),
             st.wma)

\* DMA moves units of eight bytes, one more than the low byte of the sum of
\* immA and the size byte of ra.
Dma(t) ==
    /\ Runs(t, {"LDMA", "SDMA"})
    /\ LET w == ((Ra(t) % (Word \div Byte)) \div 8) * 8
           m == WramSize + (Rb(t) \div 8) * 8
           n == 8 * (1 + ((At(t).immA + (Ra(t) \div (Word \div Byte))) % Byte))
           from == IF At(t).op = "LDMA" THEN m ELSE w
           to == IF At(t).op = "LDMA" THEN w ELSE m
       IN  Set(t, Next1(t), Copy(st.wma, from, to, n))

\* One step of __mulsi3: r0 is shifted out, r1 gathers the partial products.
MulStep(t) ==
    /\ Runs(t, {"MUL_STEP"})
    /\ LET i == At(t)
           rest == Rb(t) \div 2
           u == [Next1(t) EXCEPT
                    !.regs[1] = IF Rb(t) % 2 = 1 THEN Low(@ + Ra(t) * 2^i.immA) ELSE @,
                    !.regs[0] = rest,
                    !.pc = IF rest = 0 THEN i.immB - JumpBit ELSE @]
       IN  Set(t, u, st.wma)

\* Only the last of the division steps does anything, and does all of it.
DivStep(t) ==
    /\ Runs(t, {"DIV_STEP"})
    /\ LET n == st.tl[t].regs[1]
           u == IF At(t).immA = 0
                THEN [Next1(t) EXCEPT !.regs[1] = n % Ra(t), !.regs[0] = n \div Ra(t)]
                ELSE Next1(t)
       IN  Set(t, u, st.wma)

\* The second move reads what the first one wrote when the pairs overlap.
MovePair(t) ==
    /\ Runs(t, {"MOVD", "SWAPD"})
    /\ LET i == At(t)
           old == st.tl[t].regs
           one == [old EXCEPT ![i.rc] =
                     IF i.op = "MOVD" THEN old[i.ra] ELSE old[i.ra + 1]]
           two == [one EXCEPT ![i.rc + 1] =
                     IF i.op = "MOVD" THEN one[i.ra + 1] ELSE old[i.ra]]
       IN  Set(t, Finish(i, [Next1(t) EXCEPT !.regs = two],
                         Val(old[i.ra], old[i.rb], 0, st.tl[t].cf)), st.wma)

LoadPair(t) ==
    /\ Runs(t, {"LD"})
    /\ LET x == Rd(st.wma, Low(Ra(t) + At(t).immA), 8)
       IN  Set(t, [Next1(t) EXCEPT !.regs[At(t).rc + 1] = Low(x),
                                   !.regs[At(t).rc] = High(x)], st.wma)

Stores == [SB |-> 1, SH |-> 2, SW |-> 4, SD |-> 8,
           SB_ID |-> 1, SH_ID |-> 2, SW_ID |-> 4, SD_ID |-> 8]

Store(t) ==
    /\ Runs(t, DOMAIN Stores)
    /\ LET i == At(t)
           v == CASE i.op \in {"SB", "SH", "SW"} -> W64(Rb(t) + i.immB)
                  [] i.op = "SD" -> IF i.rb = Zero THEN W64(Sgn(i.immB, W))
                                    ELSE Rb(t) * Word + st.tl[t].regs[i.rb + 1]
                  [] OTHER -> t | i.immB
       IN  Set(t, Next1(t), Wr(st.wma, Low(Ra(t) + i.immA), Stores[i.op], v))

Call(t) ==
    /\ Runs(t, {"CALL"})
    /\ LET u == [Next1(t) EXCEPT !.regs[At(t).rc] = Next1(t).pc]
       IN  Set(t, [u EXCEPT !.pc = (Ra(t) + At(t).immA) % JumpBit], st.wma)

\* The atomic bits lie behind MRAM and are found by hashing the address.
Hash(x, n) == ((x ^^ (x \div Byte)) % Byte) % n
\* Mutant: the bit is only looked at.
AtomicRead(t) ==
    /\ Runs(t, {"ACQUIRE", "RELEASE"})
    /\ LET x == Ra(t) + At(t).immA
           b == WramSize + MramSize + Hash(x, Byte)
       IN  Set(t, Finish(At(t), Next1(t),
                         Val(Hash(x, Byte), Rb(t), st.wma[b], st.tl[t].cf)), st.wma)

Atomic(t) ==
    /\ Runs(t, {"ACQUIRE", "RELEASE"})
    /\ LET x == Ra(t) + At(t).immA
           b == WramSize + MramSize + Hash(x, Byte)
       IN  Set(t, Finish(At(t), Next1(t),
                         Val(Hash(x, Byte), Rb(t), st.wma[b], st.tl[t].cf)),
               [st.wma EXCEPT ![b] = IF At(t).op = "ACQUIRE" THEN 1 ELSE 0])

Stop(t) ==
    /\ Runs(t, {"STOP"})
    /\ Set(t, Finish(At(t), [Next1(t) EXCEPT !.state = "SLEEP"],
                     Val(Ra(t), Rb(t), 0, st.tl[t].cf)), st.wma)

\* Waking a tasklet that is not asleep changes nothing and answers 1.
Wake(t) ==
    /\ Runs(t, {"BOOT", "RESUME"})
    /\ LET o == Hash(Ra(t) + At(t).immA, Byte)
           awake == IF st.tl[o].state # "SLEEP" THEN 1 ELSE 0
           u == Finish(At(t), Next1(t), Val(o, Rb(t), awake, st.tl[t].cf))
           tl == [st.tl EXCEPT ![t] = u]
       IN  st' = [st EXCEPT !.tl =
                     IF awake = 1 THEN tl
                     ELSE [tl EXCEPT ![o].state = "RUNNABLE",
                              ![o].pc = IF At(t).op = "BOOT" THEN 0 ELSE @]]
    /\ UNCHANGED given

Nop(t) == Runs(t, {"NOP"}) /\ Set(t, Next1(t), st.wma)

\* UmmDpuRun: every tasklet starts at 0, only the first one is awake; the
\* loop ends when all of them sleep.
Asleep == [t \in Tlets |-> Fresh(t)]
Boot(regs) == [t \in Tlets |->
                 [Fresh(t) EXCEPT !.state = IF t = 0 THEN "RUNNABLE" ELSE "SLEEP",
                                  !.regs = [r \in DOMAIN @ |->
                                      IF r < Len(regs) THEN regs[r + 1] ELSE @[r]]]]

Stopped == st.pc = "run" /\ \A t \in Tlets : st.tl[t].state = "SLEEP"

Next == \E t \in Tlets :
          \/ Compute(t) \/ Dma(t) \/ MulStep(t) \/ DivStep(t) \/ MovePair(t)
          \/ LoadPair(t) \/ Store(t) \/ Call(t) \/ Atomic(t) \/ Stop(t)
          \/ Wake(t) \/ Nop(t)
=============================================================================
