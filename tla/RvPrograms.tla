------------------------------ MODULE RvPrograms ------------------------------
(***************************************************************************)
(* ELF files for the DPU of RvIsa, encoded by the formats of the RISC-V    *)
(* manual: the idioms compilers use for constants, wide arithmetic, calls  *)
(* and loops, every branch, loads and stores into both memories, DMA, and  *)
(* the spin lock of the device library run by two tasklets.  "want" is     *)
(* what x3 and x4 of tasklet 0 have to hold at the end.                    *)
(***************************************************************************)
EXTENDS RvIsa

BitsAt(v, lo, n) == {lo + i : i \in {i \in 0..n-1 : ((v % 2^n) \div 2^i) % 2 = 1}}
R(f, rd, rs1, rs2) == BitsAt(\h33, 0, 7) \union BitsAt(rd, 7, 5) \union BitsAt(f[2], 12, 3)
    \union BitsAt(rs1, 15, 5) \union BitsAt(rs2, 20, 5) \union BitsAt(f[1], 25, 7)
I(major, f3, rd, rs1, imm) == BitsAt(major, 0, 7) \union BitsAt(rd, 7, 5)
    \union BitsAt(f3, 12, 3) \union BitsAt(rs1, 15, 5) \union BitsAt(imm, 20, 12)
U(major, rd, imm) == BitsAt(major, 0, 7) \union BitsAt(rd, 7, 5) \union BitsAt(imm, 12, 20)
St(f3, rs2, rs1, imm) == BitsAt(\h23, 0, 7) \union BitsAt(imm, 7, 5)
    \union BitsAt(f3, 12, 3) \union BitsAt(rs1, 15, 5) \union BitsAt(rs2, 20, 5)
    \union BitsAt(imm \div 2^5, 25, 7)
B(f3, rs1, rs2, imm) == BitsAt(\h63, 0, 7) \union BitsAt(imm \div 2^11, 7, 1)
    \union BitsAt(imm \div 2, 8, 4) \union BitsAt(f3, 12, 3) \union BitsAt(rs1, 15, 5)
    \union BitsAt(rs2, 20, 5) \union BitsAt(imm \div 2^5, 25, 6)
    \union BitsAt(imm \div 2^12, 31, 1)
J(rd, imm) == BitsAt(\h6F, 0, 7) \union BitsAt(rd, 7, 5) \union BitsAt(imm \div 2^12, 12, 8)
    \union BitsAt(imm \div 2^11, 20, 1) \union BitsAt(imm \div 2, 21, 10)
    \union BitsAt(imm \div 2^20, 31, 1)

AddI(rd, rs1, imm) == I(\h13, 0, rd, rs1, imm)
Lw(rd, rs1, imm) == I(\h03, 2, rd, rs1, imm)
Ebreak == I(\h73, 0, 0, 0, 1)
\* The end of crt0.S: a tasklet clears its run bit, and must not go on.
Halt == <<I(\h73, 6, 5, 0, \hF14), AddI(6, 0, 1), R(<<0, 1>>, 6, 6, 5),
          I(\h73, 3, 0, 6, 0), Ebreak>>

WordBytes(x) == [i \in 1..4 |-> (x \div Byte^(i - 1)) % Byte]
Section(name, addr, data) == [name |-> name, addr |-> addr, data |-> data]
Sym(n, v, local) == [name |-> n, value |-> v, local |-> local]
Symtab == Section("symtab", 0, <<Sym("dat", 0, FALSE), Sym("$x", 4, TRUE),
                                 Sym("buf", MramBegin, FALSE)>>)
\* x1 and x2 start from the two words of .data.
P(name, code, a, b, w3, w4) ==
    [name |-> name, nt |-> 1, want |-> <<w3 % Word, w4 % Word>>,
     elf |-> <<Section(".boot", 0, <<Lw(1, 0, 0), Lw(2, 0, 4)>>), Symtab,
               Section(".comment", 0, <<9>>), Section(".text", 8, code \o Halt),
               Section(".data", 0, WordBytes(a) \o WordBytes(b)),
               Section(".mram", MramBegin + 4, WordBytes(b))>>]

Vals == {0, 1, 100, 127, 128, 255}
Truncated(a, b) == CHOOSE q \in -Word..Word :
    LET r == a - q * b IN /\ r * a >= 0
                          /\ (r < b \/ r < -b) /\ (-r < b \/ -r < -b)
SQuot(a, b) == IF b = 0 THEN -1 ELSE Truncated(S(a), S(b))
FromBits(A) == FoldSet(LAMBDA i, n : n + 2^i, 0, A)
All == 0..W-1

Computations == UNION {
    LET A == SetBits(a)  Bb == SetBits(b)  s == b % W
        p(code, w3, w4) == P("compute", code, a, b, w3, w4)
    IN  {p(<<R(<<1, 0>>, 3, 1, 2), R(<<1, 1>>, 4, 1, 2)>>, S(a) * S(b), (S(a) * S(b)) \div Word),
         p(<<R(<<1, 2>>, 3, 1, 2), R(<<1, 3>>, 4, 1, 2)>>, (S(a) * b) \div Word, (a * b) \div Word),
         p(<<R(<<1, 4>>, 3, 1, 2), R(<<1, 6>>, 4, 1, 2)>>, SQuot(a, b), S(a) - SQuot(a, b) * S(b)),
         p(<<R(<<1, 5>>, 3, 1, 2), R(<<1, 7>>, 4, 1, 2)>>,
           IF b = 0 THEN -1 ELSE a \div b, IF b = 0 THEN a ELSE a - (a \div b) * b),
         \* the carry out of a low word, and the borrow
         p(<<R(<<0, 0>>, 3, 1, 2), R(<<0, 3>>, 4, 3, 1)>>, a + b, (a + b) \div Word),
         p(<<R(<<0, 3>>, 4, 1, 2), R(<<32, 0>>, 3, 1, 2)>>, a - b, IF a < b THEN 1 ELSE 0),
         p(<<R(<<0, 2>>, 3, 1, 2), I(\h13, 2, 4, 1, -28)>>,
           B2N(S(a) < S(b)), B2N(S(a) < -28)),
         p(<<I(\h13, 3, 3, 1, -28), R(<<5, 4>>, 4, 1, 2)>>, B2N(a < Word - 28), Min({S(a), S(b)})),
         p(<<R(<<5, 5>>, 3, 1, 2), R(<<5, 7>>, 4, 1, 2)>>, Min({a, b}), Max({a, b})),
         p(<<R(<<5, 6>>, 3, 1, 2), R(<<0, 4>>, 4, 1, 2)>>, Max({S(a), S(b)}),
           FromBits((A \ Bb) \union (Bb \ A))),
         p(<<R(<<0, 7>>, 3, 1, 2), R(<<0, 6>>, 4, 1, 2)>>, FromBits(A \intersect Bb), FromBits(A \union Bb)),
         p(<<R(<<32, 7>>, 3, 1, 2), R(<<32, 6>>, 4, 1, 2)>>, FromBits(A \ Bb), FromBits(A \union (All \ Bb))),
         p(<<R(<<32, 4>>, 3, 1, 2), I(\h13, 4, 4, 1, -1)>>,
           FromBits((A \intersect Bb) \union ((All \ A) \ Bb)), FromBits(All \ A)),
         p(<<R(<<0, 1>>, 3, 1, 2), R(<<0, 5>>, 4, 1, 2)>>, a * 2^s, a \div 2^s),
         p(<<R(<<32, 5>>, 3, 1, 2), AddI(6, 2, 0), R(<<48, 1>>, 4, 1, 6)>>, S(a) \div 2^s,
           a * 2^s + (a \div 2^(W - s))),
         p(<<I(\h13, 1, 3, 1, 3), I(\h13, 5, 4, 1, 3)>>, a * 8, a \div 8),
         p(<<I(\h13, 5, 3, 1, \h400 + 3), I(\h13, 5, 4, 1, \h600 + 3)>>, S(a) \div 8,
           (a \div 8) + a * 2^(W - 3)),
         p(<<I(\h13, 7, 3, 1, 12), I(\h13, 6, 4, 1, -16)>>, FromBits(A \intersect {2, 3}),
           FromBits(A \union 4..7)),
         p(<<R(<<48, 5>>, 3, 1, 2), I(\h13, 1, 4, 1, \h600)>>,
           (a \div 2^s) + a * 2^(W - s), W - Min({n \in 0..W : a < 2^n})),
         p(<<I(\h13, 1, 3, 1, \h601), I(\h13, 1, 4, 1, \h602)>>,
           Max({n \in 0..W : a % 2^n = 0}), Cardinality(A)),
         p(<<R(<<48, 4>>, 3, 1, 0), R(<<48, 5>>, 4, 1, 5)>>, Sgn(a, ByteBits), Sgn(a, 2 * ByteBits)),
         p(<<R(<<48, 5>>, 3, 1, 4), U(\h17, 4, 0)>>, a % Half, IramBegin + 12),
         \* li: the low part is sign-extended
         p(<<U(\h37, 3, (a + 8) \div 16), AddI(3, 3, Sgn(a, 4)), U(\h17, 4, 1)>>, a,
           IramBegin + 16 + 16)}
    : a \in Vals, b \in Vals}

BranchHolds(f3, a, b) == CASE f3 = 0 -> a = b [] f3 = 1 -> a # b [] f3 = 4 -> S(a) < S(b)
    [] f3 = 5 -> S(a) >= S(b) [] f3 = 6 -> a < b [] f3 = 7 -> a >= b
\* Forward branches, a loop, and a call that is returned from.
Flows ==
    {P("branch", <<AddI(3, 0, 1), B(f3, 1, 2, 8), AddI(3, 0, 0)>>, a, b,
       B2N(BranchHolds(f3, a, b)), 0) : a \in Vals, b \in Vals, f3 \in {0, 1, 4, 5, 6, 7}}
    \union {P("loop", <<R(<<0, 0>>, 3, 3, 1), AddI(1, 1, -1), B(1, 1, 0, -8)>>, n, 0,
              (n * (n + 1)) \div 2, 0) : n \in 1..4}
    \union {P("call", <<J(7, 12), AddI(4, 3, 1), J(0, 12), R(<<0, 0>>, 3, 1, 1),
                        I(\h67, 0, 0, 7, 0)>>, a, 0, 2 * a, 2 * a + 1) : a \in Vals}

\* x7 is the beginning of MRAM.  Narrow parts of a word; the MRAM section by
\* a load and by DMA; a word sent to MRAM by DMA and loaded from there.
Mram == U(\h37, 7, MramBegin \div 16)
Memories ==
    {P("parts", <<St(2, 1, 0, 8), St(1, 2, 0, 10), St(0, 2, 0, 8), I(\h03, 4, 3, 0, 8),
                  I(\h03, 1, 4, 0, 10), R(<<0, 0>>, 3, 3, 4), I(\h03, 0, 4, 0, 9),
                  I(\h03, 5, 5, 0, 8), R(<<0, 0>>, 4, 4, 5)>>, a, b,
       (b % Byte) + Sgn(b, 2 * ByteBits),
       Sgn(a \div Byte, ByteBits) + ((a \div Byte) % Byte) * Byte + (b % Byte))
       : a, b \in Vals}
    \union {P("mram", <<Mram, Lw(3, 7, 4), AddI(7, 7, 4), U(\h37, 6, 8), AddI(6, 6, 4),
                        I(\h73, 1, 7, 6, \h803), Lw(4, 0, 8)>>, a, b, b, b) : a, b \in Vals}
    \union {P("send", <<Mram, AddI(6, 0, 8 + 4), I(\h73, 1, 7, 6, \h803), St(2, 2, 7, 8),
                        Lw(3, 7, 0), Lw(4, 7, 8)>>, a, b, a, b) : a, b \in Vals}
    \union {P("csr", <<I(\h73, 1, 3, 1, \h810), I(\h73, 2, 3, 2, \h810), I(\h73, 3, 4, 1, \h810),
                       I(\h73, 5, 0, 3, \h810), I(\h73, 6, 4, 0, \h810), I(\h73, 7, 5, 0, \h802),
                       I(\h73, 6, 5, 0, \h802), I(\h73, 6, 5, 0, \h800)>>, a, b, a, 0)
              : a, b \in Vals}

\* mutex.h: csrrs takes the bit until it was free, csrrc gives it back; both
\* tasklets add one to a word of WRAM in between.
LockCode == <<AddI(1, 0, 2), I(\h73, 2, 2, 1, \h801), R(<<0, 7>>, 2, 2, 1), B(1, 2, 0, -8),
              Lw(3, 0, 12), AddI(3, 3, 1), St(2, 3, 0, 12), I(\h73, 3, 0, 1, \h801)>>
Critical == {IramBegin + 4 * i : i \in 4..7}
Lock == [name |-> "lock", nt |-> 2, want |-> <<0, 0>>,
         elf |-> <<Section(".text", 0, LockCode \o Halt)>>]

AllFiles == Computations \union Flows \union Memories \union {Lock}

Init == given \in AllFiles /\ Init0

Spec == Init /\ [][Next]_vars

\* A program that has stopped leaves in x3 and x4 what its source means: the
\* fields of every format, sign extensions, both memories and the order of
\* the sections agree, and no tasklet runs on into the trap behind its halt
\* (program.c:52-266 and 326-388, processor.c:48-234, crt0.S:17-24).
RvProgramsCompute ==
    /\ st.pc # "died"
    /\ \A t \in DOMAIN st.tl : ~Does(t, {"ECALL", "EBREAK"})
    /\ (Stopped /\ given.name # "lock") =>
          /\ st.tl[0].regs[3] = given.want[1] /\ st.tl[0].regs[4] = given.want[2]
          /\ {s.name : s \in st.syms} = {"dat", "buf"}

\* csrrs and csrrc on one word of the CSRs make a lock: between them there is
\* one tasklet, and no increment is lost (processor.c:195-200).
CsrLockExcludes ==
    given.name = "lock" =>
        /\ Cardinality({t \in DOMAIN st.tl : st.tl[t].pc \in Critical}) <= 1
        /\ Stopped => Rd(st.mem, 12, 4) = 2
=============================================================================
