-------------------------------- MODULE Words --------------------------------
(***************************************************************************)
(* Machine words as both interpreters compute in them, scaled down: a byte *)
(* has ByteBits bits, a word four bytes, and the 64-bit values of the C    *)
(* code are naturals below Dbl.  A memory is a function from byte indices. *)
(***************************************************************************)
EXTENDS Integers, FiniteSetsExt

ByteBits == 2
W == 4 * ByteBits
Byte == 2^ByteBits
Half == Byte^2
Word == 2^W
Dbl == Word * Word

Low(x) == x % Word
High(x) == (x % Dbl) \div Word
W64(x) == x % Dbl
\* x cut to its low bits and read as a two's-complement number.
Sgn(x, bits) == LET y == x % 2^bits
                IN  IF y >= 2^(bits - 1) THEN y - 2^bits ELSE y
Bit(x, i) == (x \div 2^i) % 2
SetBits(x) == {i \in 0..W-1 : Bit(x, i) = 1}
Clz(x, undef) == IF SetBits(x) = {} THEN undef ELSE W - 1 - Max(SetBits(x))
Ctz(x, undef) == IF SetBits(x) = {} THEN undef ELSE Min(SetBits(x))
\* Bit by bit, on values of 64 bits.
BitsOf(x) == {i \in 0..2*W-1 : Bit(x, i) = 1}
OfBits(s) == FoldSet(LAMBDA i, x : x + 2^i, 0, s)
a & b == OfBits(BitsOf(a) \intersect BitsOf(b))
a | b == OfBits(BitsOf(a) \union BitsOf(b))
a ^^ b == OfBits((BitsOf(a) \union BitsOf(b)) \ (BitsOf(a) \intersect BitsOf(b)))
Rotl(x, n) == Low(Low(x) * 2^n) + Low(x) \div 2^(W - n)

\* Little-endian reads and writes of n bytes of the memory array m.
Rd(m, a, n) == FoldSet(LAMBDA i, s : s + m[a + i] * Byte^i, 0, 0..n-1)
Wr(m, a, n, v) == [i \in DOMAIN m |-> IF i \in a..a+n-1
                       THEN (v \div Byte^(i - a)) % Byte ELSE m[i]]
\* memcpy of n bytes; the ranges do not overlap.
Copy(m, from, to, n) == [i \in DOMAIN m |-> IF i \in to..to+n-1
                             THEN m[from + i - to] ELSE m[i]]
=============================================================================
