------------------------------ MODULE WorkSplit ------------------------------
(***************************************************************************)
(* How the device programs cut n items among nt tasklets.  RED, SCAN and   *)
(* COMPACT round the share up and clip the end; HST and NW give one item   *)
(* more to the first n % nt; the loops then visit a share in chunks of a   *)
(* WRAM buffer and a rest computed in unsigned arithmetic.                 *)
(***************************************************************************)
EXTENDS Integers

\* Mutant: the share is rounded down.
FloorShare(n, nt) == n \div nt

CeilShare(n, nt) == (n + nt - 1) \div nt
CeilStart(n, nt, t) == t * CeilShare(n, nt)
CeilEnd(n, nt, t) == IF CeilStart(n, nt, t) + CeilShare(n, nt) > n THEN n
                     ELSE CeilStart(n, nt, t) + CeilShare(n, nt)

EvenCount(n, nt, t) == IF t < n % nt THEN n \div nt + 1 ELSE n \div nt
EvenStart(n, nt, t) == IF t < n % nt THEN t * (n \div nt + 1)
                       ELSE (n % nt) + (n \div nt) * t
EvenEnd(n, nt, t) == EvenStart(n, nt, t) + EvenCount(n, nt, t)

\* The items visited by the loop over whole chunks, and those of the rest;
\* "word" is 2^32.  With start > end the rest is what unsigned arithmetic
\* makes of it, and lies below the end.
InChunks(start, end, chunk) ==
    IF start + chunk > end THEN {}
    ELSE start..start + ((end - start) \div chunk) * chunk - 1
Rest(start, end, chunk, word) ==
    (end - (((end - start) % word) \div chunk) * chunk - start) % word
InRest(start, end, chunk, word) == end - Rest(start, end, chunk, word)..end - 1
=============================================================================
