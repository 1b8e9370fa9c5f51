-------------------------------- MODULE AppsProofs --------------------------------
(***************************************************************************)
(* What the applications rest on: the shares and chunks of WorkSplit for   *)
(* every number of items, tasklets and words in a buffer; the alignment    *)
(* of Nw for every two sequences, tile size, number of DPUs and number of  *)
(* tasklets; and the counts of Bins for any data, buffer and bins.         *)
(***************************************************************************)
EXTENDS MCApps, FiniteSetTheorems, WellFoundedInduction, TLAPS

(* The items of tasklet t: those its loops visit lie between two bounds.   *)
EvenItems(n, nt, t) == EvenStart(n, nt, t)..EvenEnd(n, nt, t) - 1
CeilItems(n, nt, t) == CeilStart(n, nt, t)..CeilEnd(n, nt, t) - 1

-----------------------------------------------------------------------------
(* A product keeps the order of its factors. *)
LEMMA ProductOrder ==
  ASSUME NEW a \in Int, NEW b \in Int, NEW c \in Nat, a <= b
  PROVE  a * c <= b * c
OBVIOUS

(* And gives it back. *)
LEMMA FactorOrder ==
  ASSUME NEW a \in Int, NEW b \in Int, NEW c \in Nat, a * c < b * c
  PROVE  a < b
OBVIOUS

-----------------------------------------------------------------------------
(***************************************************************************)
(* RED, SCAN, SCANSSA and UNI: the rounded-up share is big enough for all  *)
(* tasklets together, and no bigger than it must be.                       *)
(***************************************************************************)
LEMMA CeilShareFits ==
  ASSUME NEW n \in Nat, NEW nt \in Nat \ {0}
  PROVE  /\ CeilShare(n, nt) \in Nat
         /\ n <= nt * CeilShare(n, nt)
         /\ nt * CeilShare(n, nt) < n + nt
<1>1. n + nt - 1 \in Nat
  OBVIOUS
<1>2. /\ (n + nt - 1) \div nt \in Nat
      /\ (n + nt - 1) % nt \in 0..nt-1
      /\ n + nt - 1 = nt * ((n + nt - 1) \div nt) + ((n + nt - 1) % nt)
  BY <1>1
<1> QED
  BY <1>2 DEF CeilShare

(***************************************************************************)
(* devApp/RED.c:14-18: every item belongs to exactly one tasklet, although *)
(* the shares are clipped at the end only and the last ones may be empty   *)
(* or start behind it.                                                     *)
(***************************************************************************)
THEOREM CeilSharesPartition ==
  ASSUME NEW n \in Nat, NEW nt \in Nat \ {0}
  PROVE  /\ \A i \in 0..n-1 : \E t \in 0..nt-1 : i \in CeilItems(n, nt, t)
         /\ \A t, u \in 0..nt-1 : t # u => CeilItems(n, nt, t) \cap CeilItems(n, nt, u) = {}
         /\ \A t \in 0..nt-1 : CeilItems(n, nt, t) \subseteq 0..n-1
<1> DEFINE s == CeilShare(n, nt)
           S(t) == t * s
           E(t) == IF t * s + s > n THEN n ELSE t * s + s
<1>1. s \in Nat /\ n <= nt * s
  BY CeilShareFits
<1>2. \A t : CeilItems(n, nt, t) = S(t)..E(t) - 1
  BY DEF CeilItems, CeilStart, CeilEnd
<1> HIDE DEF s
<1>3. \A t \in 0..nt-1 : S(t) \in Nat /\ E(t) \in 0..n
  BY <1>1
<1>4. ASSUME NEW i \in 0..n-1
      PROVE  \E t \in 0..nt-1 : i \in CeilItems(n, nt, t)
  <2> DEFINE t == i \div s
  <2>1. s # 0
    BY <1>1
  <2>2. t \in Nat /\ i % s \in 0..s-1 /\ i = s * t + (i % s)
    BY <1>1, <2>1
  <2> HIDE DEF t
  <2>3. t * s < nt * s
    BY <1>1, <2>2
  <2>4. t \in 0..nt-1
    BY <1>1, <2>2, <2>3, FactorOrder
  <2>5. S(t) <= i /\ i < E(t)
    BY <1>1, <2>2
  <2> HIDE DEF S, E
  <2> QED
    BY <1>2, <1>3, <2>4, <2>5
<1>5. ASSUME NEW t \in 0..nt-1, NEW u \in 0..nt-1, t < u
      PROVE  CeilItems(n, nt, t) \cap CeilItems(n, nt, u) = {}
  <2>1. (t + 1) * s <= u * s
    BY <1>1, <1>5, ProductOrder
  <2>2. E(t) <= S(u)
    BY <1>1, <2>1
  <2> HIDE DEF S, E
  <2> QED
    BY <1>2, <1>3, <2>2
<1> HIDE DEF S, E
<1>6. ASSUME NEW t \in 0..nt-1
      PROVE  CeilItems(n, nt, t) \subseteq 0..n-1
  BY <1>2, <1>3
<1> QED
  BY <1>4, <1>5, <1>6

-----------------------------------------------------------------------------
(***************************************************************************)
(* devApp/HST.c:39-51: every item belongs to exactly one tasklet, whatever *)
(* the remainder.                                                          *)
(***************************************************************************)
THEOREM EvenSharesPartition ==
  ASSUME NEW n \in Nat, NEW nt \in Nat \ {0}
  PROVE  /\ \A i \in 0..n-1 : \E t \in 0..nt-1 : i \in EvenItems(n, nt, t)
         /\ \A t, u \in 0..nt-1 : t # u => EvenItems(n, nt, t) \cap EvenItems(n, nt, u) = {}
         /\ \A t \in 0..nt-1 : EvenItems(n, nt, t) \subseteq 0..n-1
<1> DEFINE q == n \div nt
           r == n % nt
           S(t) == EvenStart(n, nt, t)
           E(t) == EvenEnd(n, nt, t)
<1>1. q \in Nat /\ r \in 0..nt-1 /\ n = nt * q + r
  OBVIOUS
<1>2. ASSUME NEW t \in 0..nt
      PROVE  /\ t < r => S(t) = t * (q + 1) /\ E(t) = (t + 1) * (q + 1)
             /\ t >= r => S(t) = r + q * t /\ E(t) = r + q * (t + 1)
  <2>1. /\ S(t) = IF t < r THEN t * (q + 1) ELSE r + q * t
        /\ E(t) = S(t) + (IF t < r THEN q + 1 ELSE q)
    BY DEF EvenStart, EvenEnd, EvenCount
  <2> HIDE DEF q, r, S, E
  <2>2. (t + 1) * (q + 1) = t * (q + 1) + (q + 1) /\ q * (t + 1) = q * t + q
    BY <1>1
  <2> QED
    BY <1>1, <2>1, <2>2
<1>3. \A t : EvenItems(n, nt, t) = S(t)..E(t) - 1
  BY DEF EvenItems
<1> HIDE DEF q, r, S, E
<1>4. \A t \in 0..nt-1 : S(t) \in Nat /\ E(t) \in Nat
  BY <1>1, <1>2
<1>5. ASSUME NEW i \in 0..n-1
      PROVE  \E t \in 0..nt-1 : i \in EvenItems(n, nt, t)
  <2>1. CASE i < r * (q + 1)
    <3>1. /\ i \div (q + 1) \in Nat
          /\ i % (q + 1) \in 0..q
          /\ i = (q + 1) * (i \div (q + 1)) + (i % (q + 1))
      <4> DEFINE b == q + 1
      <4>1. b \in Nat \ {0} /\ q = b - 1
        BY <1>1
      <4> HIDE DEF b
      <4>2. i \div b \in Nat /\ i % b \in 0..b-1 /\ i = b * (i \div b) + (i % b)
        BY <4>1
      <4> QED
        BY <4>1, <4>2 DEF b
    <3>2. (i \div (q + 1)) * (q + 1) < r * (q + 1)
      BY <1>1, <2>1, <3>1
    <3>3. i \div (q + 1) < r
      BY <1>1, <3>1, <3>2, FactorOrder
    <3>4. i \div (q + 1) \in 0..nt-1
      BY <1>1, <3>1, <3>3
    <3>5. S(i \div (q + 1)) <= i /\ i < E(i \div (q + 1))
      BY <1>1, <1>2, <3>1, <3>3, <3>4
    <3> QED
      BY <1>3, <1>4, <3>4, <3>5
  <2>2. CASE i >= r * (q + 1)
    <3> DEFINE k == i - r * (q + 1)
    <3>1. k \in Nat /\ k < q * (nt - r) /\ i = r * (q + 1) + k
      BY <1>1, <2>2
    <3> HIDE DEF k
    <3>2. q # 0
      BY <1>1, <3>1
    <3>3. k \div q \in Nat /\ k % q \in 0..q-1 /\ k = q * (k \div q) + (k % q)
      BY <1>1, <3>1, <3>2
    <3>4. (k \div q) * q < (nt - r) * q
      BY <1>1, <3>1, <3>3
    <3>5. k \div q < nt - r
      BY <1>1, <3>3, <3>4, FactorOrder
    <3>6. r + (k \div q) \in 0..nt-1 /\ r + (k \div q) >= r
      BY <1>1, <3>3, <3>5
    <3>7. /\ S(r + (k \div q)) = r + q * (r + (k \div q))
          /\ E(r + (k \div q)) = r + q * (r + (k \div q) + 1)
      BY <1>1, <1>2, <3>6
    <3>8. S(r + (k \div q)) <= i /\ i < E(r + (k \div q))
      BY <1>1, <3>1, <3>3, <3>7
    <3> QED
      BY <1>3, <1>4, <3>6, <3>8
  <2> QED
    BY <1>1, <2>1, <2>2
<1>6. ASSUME NEW t \in 0..nt-1, NEW u \in 0..nt-1, t < u
      PROVE  E(t) <= S(u)
  <2>1. CASE u < r
    <3>1. (t + 1) * (q + 1) <= u * (q + 1)
      BY <1>1, <1>6, ProductOrder
    <3> QED
      BY <1>1, <1>2, <1>6, <2>1, <3>1
  <2>2. CASE t < r /\ u >= r
    <3>1. (t + 1) * (q + 1) <= r * (q + 1)
      BY <1>1, <2>2, ProductOrder
    <3>2. r * q <= u * q
      BY <1>1, <2>2, ProductOrder
    <3> QED
      BY <1>1, <1>2, <2>2, <3>1, <3>2
  <2>3. CASE t >= r
    <3>1. (t + 1) * q <= u * q
      BY <1>1, <1>6, ProductOrder
    <3> QED
      BY <1>1, <1>2, <1>6, <2>3, <3>1
  <2> QED
    BY <1>1, <2>1, <2>2, <2>3
<1>7. ASSUME NEW t \in 0..nt-1, NEW u \in 0..nt-1, t < u
      PROVE  EvenItems(n, nt, t) \cap EvenItems(n, nt, u) = {}
  BY <1>3, <1>4, <1>6, <1>7
<1>8. ASSUME NEW t \in 0..nt-1
      PROVE  E(t) <= n
  <2>1. CASE t < r
    <3>1. (t + 1) * (q + 1) <= r * (q + 1)
      BY <1>1, <2>1, ProductOrder
    <3>2. r * q <= nt * q
      BY <1>1, ProductOrder
    <3> QED
      BY <1>1, <1>2, <2>1, <3>1, <3>2
  <2>2. CASE t >= r
    <3>1. (t + 1) * q <= nt * q
      BY <1>1, ProductOrder
    <3> QED
      BY <1>1, <1>2, <2>2, <3>1
  <2> QED
    BY <1>1, <2>1, <2>2
<1>9. ASSUME NEW t \in 0..nt-1
      PROVE  EvenItems(n, nt, t) \subseteq 0..n-1
  BY <1>3, <1>4, <1>8
<1> QED
  BY <1>5, <1>7, <1>9

-----------------------------------------------------------------------------
(***************************************************************************)
(* devApp/RED.c:24-40, SCAN.c, SCANSSA.c: a share that starts before the   *)
(* end of the data is visited whole and once by the chunks and the rest.   *)
(***************************************************************************)
THEOREM ChunksCoverShare ==
  ASSUME NEW word \in Nat, NEW chunk \in Nat \ {0}, NEW end \in 0..word-1,
         NEW start \in 0..end
  PROVE  /\ InChunks(start, end, chunk) \union InRest(start, end, chunk, word) = start..end-1
         /\ InChunks(start, end, chunk) \cap InRest(start, end, chunk, word) = {}
<1> DEFINE k == (end - start) \div chunk
           m == (end - start) % chunk
<1>1. k \in Nat /\ m \in 0..chunk-1 /\ end - start = chunk * k + m
  OBVIOUS
<1>2. (end - start) % word = end - start
  OBVIOUS
<1>3. end - k * chunk - start = m /\ m % word = m
  BY <1>1
<1>4. Rest(start, end, chunk, word) = m
  BY <1>2, <1>3 DEF Rest
<1>5. InRest(start, end, chunk, word) = end - m..end - 1
  BY <1>4 DEF InRest
<1>6. InChunks(start, end, chunk) = start..end - m - 1
  <2>1. CASE start + chunk > end
    <3>1. k * chunk < 1 * chunk
      BY <1>1, <2>1
    <3>2. k = 0
      BY <1>1, <3>1, FactorOrder
    <3> QED
      BY <1>1, <2>1, <3>2 DEF InChunks
  <2>2. CASE start + chunk <= end
    BY <1>1, <2>2 DEF InChunks
  <2> QED
    BY <2>1, <2>2
<1> QED
  BY <1>1, <1>5, <1>6

(***************************************************************************)
(* The same lines, when the share starts behind the end by less than one   *)
(* chunk: the rest is not empty, and the tasklet adds items that other     *)
(* tasklets own (run red_past_the_end).                                    *)
(***************************************************************************)
THEOREM RestBehindTheEnd ==
  ASSUME NEW chunk \in Nat \ {0}, NEW m \in Nat \ {0}, NEW end \in Nat,
         NEW x \in 1..chunk-1, x < m * chunk
  PROVE  Rest(end + x, end, chunk, m * chunk) = chunk - x
<1> DEFINE word == m * chunk
<1>1. word \in Nat /\ word > x /\ chunk <= word
  BY ProductOrder
<1> HIDE DEF word
<1>2. (-x) % word = word - x
  BY <1>1
<1>3. (word - x) \div chunk = m - 1
  <2>1. word - x = chunk * (m - 1) + (chunk - x)
    BY DEF word
  <2> QED
    BY <2>1, <1>1
<1>4. (end - (end + x)) % word = word - x
  BY <1>2
<1>5. end - (m - 1) * chunk - (end + x) = (chunk - x) - word
  BY DEF word
<1>6. ((chunk - x) - word) % word = chunk - x
  BY <1>1
<1>7. Rest(end + x, end, chunk, word) = chunk - x
  BY <1>3, <1>4, <1>5, <1>6 DEF Rest
<1> QED
  BY <1>7 DEF word

-----------------------------------------------------------------------------
Table == (0..Len1) \X (0..Len2)

(* A tile's place in a sequence of the table: where it is, how far it goes. *)
TileAt(i) == (i - 1) \div TileSz
Extent(len, r) == Min({r * TileSz + 1 + TileSz - 1, len}) - (r * TileSz + 1) + 1

(* The table is right where the first n waves have been.                   *)
Known(n) ==
  \A c \in Table : c[1] = 0 \/ c[2] = 0 \/ TileAt(c[1]) + TileAt(c[2]) < n => host.dp[c] = Ref[c]

(* What the cell x of tile <<r, c>> should be.                             *)
Want(r, c, x) == Ref[<<r * TileSz + 1 + x[1], c * TileSz + 1 + x[2]>>]

(* A tile that was sent with the right borders.                            *)
Sent(in, r, c) ==
  /\ in.h = Extent(Len1, r) /\ in.w = Extent(Len2, c)
  /\ in.corner = Ref[<<r * TileSz, c * TileSz>>]
  /\ \A x \in 0..in.w-1 : in.north[x] = Ref[<<r * TileSz, c * TileSz + 1 + x>>]
  /\ \A x \in 0..in.h-1 : in.west[x] = Ref[<<r * TileSz + 1 + x, c * TileSz>>]
  /\ \A x \in 0..in.h-1 : in.s1[x] = given.s1[r * TileSz + 1 + x]
  /\ \A x \in 0..in.w-1 : in.s2[x] = given.s2[c * TileSz + 1 + x]

(* A tasklet is at diagonal g, with its first cells filled; who returns    *)
(* does so when all diagonals are done.                                    *)
AtDiagonal(m, r, c, g, t) ==
  LET k == m.tl[t]  first == Share(m.in, g, t).first
  IN  \/ k.pc = "start" /\ g = 0
      \/ /\ k.pc \in {"cells", "barrier"} /\ k.diag = g /\ g < m.in.h + m.in.w - 1
         /\ k.k \in 0..Share(m.in, g, t).count
         /\ k.pc = "barrier" => k.k = Share(m.in, g, t).count
         /\ \A n \in 0..k.k-1 : m.dp[<<first + n, g - (first + n)>>]
                                  = Want(r, c, <<first + n, g - (first + n)>>)
      \/ k.pc = "off" /\ g = m.in.h + m.in.w - 1

(* The tasklets of a DPU are all at one diagonal, the ones before filled.  *)
Filled(m, r, c, g) ==
  /\ \A i \in 0..m.in.h-1, j \in 0..m.in.w-1 :
       i + j < g => m.dp[<<i, j>>] = Want(r, c, <<i, j>>)
  /\ \A t \in Tasklets : AtDiagonal(m, r, c, g, t)

Working(m, r, c) == Sent(m.in, r, c) /\ \E g \in Nat : Filled(m, r, c, g)

Shaped(m) ==
  /\ m = [in |-> m.in, dp |-> m.dp, tl |-> m.tl]
  /\ m.dp = [x \in Cell |-> m.dp[x]]
  /\ m.tl = [t \in Tasklets |-> m.tl[t]]
  /\ \A t \in Tasklets : m.tl[t] = [pc |-> m.tl[t].pc, diag |-> m.tl[t].diag, k |-> m.tl[t].k]

NwShape ==
  /\ given \in Jobs
  /\ host = [pc |-> host.pc, wave |-> host.wave, dp |-> host.dp]
  /\ host.dp = [c \in Table |-> host.dp[c]]
  /\ dpu = [d \in Dpus |-> dpu[d]]
  /\ \A d \in Dpus : Shaped(dpu[d])

(* The invariant: the table is right as far as the waves have come, and a  *)
(* DPU that has a tile of this wave has it right as far as its diagonals   *)
(* have come.                                                              *)
Launched ==
  \A d \in Dpus : d < Cardinality(TilesOf(host.wave)) =>
    \E r \in 0..TileRows-1, c \in 0..TileCols-1 :
      TileFor(host.wave, d) = <<r, c>> /\ Working(dpu[d], r, c)

NwInv ==
  /\ NwShape
  /\ host.wave \in 0..Waves /\ Known(host.wave)
  /\ \/ host.pc = "send" /\ host.wave < Waves
     \/ host.pc = "wait" /\ host.wave < Waves /\ Launched
     \/ host.pc = "done" /\ host.wave = Waves

LEMMA MinOfTwo ==
  ASSUME NEW a \in Int, NEW b \in Int
  PROVE  Min({a, b}) = IF a <= b THEN a ELSE b
<1> DEFINE m == IF a <= b THEN a ELSE b
<1>1. m \in {a, b} /\ \A y \in {a, b} : m <= y
  OBVIOUS
<1>2. \A x \in {a, b} : (\A y \in {a, b} : x <= y) => x = m
  BY <1>1
<1> HIDE DEF m
<1>3. Min({a, b}) = m
  BY <1>1, <1>2 DEF Min
<1> QED
  BY <1>3 DEF m

(* Places of a table by the tile they are in.                              *)
LEMMA TilePlaces ==
  ASSUME NEW r \in Nat, NEW x \in 0..TileSz-1
  PROVE  /\ TileAt(r * TileSz + 1 + x) = r
         /\ ((r * TileSz + 1 + x) - 1) % TileSz = x
<1>1. TileSz \in Nat \ {0}
  BY NwAssumption
<1>2. PICK i \in Nat : i = r * TileSz + 1 + x
  BY <1>1
<1>3. i - 1 \in Nat /\ i - 1 = TileSz * r + x
  BY <1>1, <1>2
<1>4. (i - 1) \div TileSz = r /\ (i - 1) % TileSz = x
  BY <1>1, <1>3
<1>5. TileAt(i) = r
  BY <1>4 DEF TileAt
<1> QED
  BY <1>2, <1>4, <1>5

(* The tiles of a sequence cover it, none is empty, and no place is in two. *)
LEMMA TilesOfSequence ==
  ASSUME NEW len \in Nat \ {0}, NEW n, n = (len + TileSz - 1) \div TileSz
  PROVE  /\ n \in Nat \ {0}
         /\ \A i \in 1..len : /\ TileAt(i) \in 0..n-1
                              /\ (i - 1) % TileSz \in 0..Extent(len, TileAt(i))-1
                              /\ i = TileAt(i) * TileSz + 1 + ((i - 1) % TileSz)
         /\ \A r \in 0..n-1 : /\ Extent(len, r) \in 1..TileSz
                              /\ r * TileSz + Extent(len, r) <= len
<1>1. TileSz \in Nat \ {0}
  BY NwAssumption
<1>2. n \in Nat /\ len <= TileSz * n /\ TileSz * n < len + TileSz
  BY <1>1, CeilShareFits DEF CeilShare
<1>3. n # 0
  BY <1>1, <1>2
<1>4. ASSUME NEW r \in Nat
      PROVE  /\ r * TileSz \in Nat
             /\ Extent(len, r) = IF r * TileSz + TileSz <= len THEN TileSz ELSE len - r * TileSz
  <2>1. r * TileSz \in Nat
    BY <1>1
  <2>2. /\ r * TileSz + 1 + TileSz - 1 \in Int
        /\ r * TileSz + 1 + TileSz - 1 = r * TileSz + TileSz
    BY <1>1, <2>1
  <2> QED
    BY <1>1, <2>1, <2>2, MinOfTwo DEF Extent
<1>5. ASSUME NEW r \in 0..n-1
      PROVE  Extent(len, r) \in 1..TileSz /\ r * TileSz + Extent(len, r) <= len
  <2>1. r * TileSz <= (n - 1) * TileSz
    BY <1>1, <1>2, ProductOrder
  <2>2. (n - 1) * TileSz = TileSz * n - TileSz
    BY <1>1, <1>2
  <2> QED
    BY <1>1, <1>2, <1>4, <2>1, <2>2
<1>6. ASSUME NEW i \in 1..len
      PROVE  /\ TileAt(i) \in 0..n-1
             /\ (i - 1) % TileSz \in 0..Extent(len, TileAt(i))-1
             /\ i = TileAt(i) * TileSz + 1 + ((i - 1) % TileSz)
  <2> DEFINE p == i - 1
             r == p \div TileSz
             x == p % TileSz
  <2>1. p \in Nat /\ p = i - 1
    OBVIOUS
  <2> HIDE DEF p
  <2>2. r \in Nat /\ x \in 0..TileSz-1 /\ p = TileSz * r + x
    BY <1>1, <2>1
  <2> HIDE DEF r, x
  <2>3. r * TileSz < n * TileSz
    BY <1>1, <1>2, <2>1, <2>2
  <2>4. r < n
    BY <1>1, <1>2, <2>2, <2>3, FactorOrder
  <2>5. i = r * TileSz + 1 + x
    BY <1>1, <2>1, <2>2
  <2>6. x \in 0..Extent(len, r)-1
    BY <1>1, <1>4, <2>2, <2>5
  <2>7. TileAt(i) = r /\ (i - 1) % TileSz = x
    BY DEF TileAt, p, r, x
  <2> QED
    BY <1>2, <2>2, <2>4, <2>5, <2>6, <2>7
<1> QED
  BY <1>2, <1>3, <1>5, <1>6

(* The rows of a diagonal's cells: those whose columns are in the tile too. *)
LEMMA DiagonalRows ==
  ASSUME NEW in, in.h \in Nat \ {0}, in.w \in Nat \ {0}, NEW g \in 0..in.h+in.w-2
  PROVE  /\ FirstRow(in, g) \in Nat /\ LastRow(in, g) - FirstRow(in, g) + 1 \in Nat
         /\ \A i \in Int : i \in FirstRow(in, g)..LastRow(in, g)
                             <=> i \in 0..in.h-1 /\ g - i \in 0..in.w-1
BY DEF FirstRow, LastRow

(* Every cell of a diagonal is in the share of a tasklet, and no share has *)
(* a cell outside the tile (devApp/NW.c:92 never refuses one).             *)
LEMMA SharesOfDiagonal ==
  ASSUME NEW in, in.h \in Nat \ {0}, in.w \in Nat \ {0}, NEW g \in 0..in.h+in.w-2,
         given.nt \in Nat \ {0}
  PROVE  /\ \A t \in Tasklets :
              /\ Share(in, g, t).count \in Nat /\ Share(in, g, t).first \in Nat
              /\ \A n \in 0..Share(in, g, t).count-1 :
                   /\ Share(in, g, t).first + n \in 0..in.h-1
                   /\ g - (Share(in, g, t).first + n) \in 0..in.w-1
         /\ \A i \in 0..in.h-1 : g - i \in 0..in.w-1 =>
              \E t \in Tasklets : \E n \in 0..Share(in, g, t).count-1 :
                 i = Share(in, g, t).first + n
<1> DEFINE a == FirstRow(in, g)
           b == LastRow(in, g)
           n == b - a + 1
           nt == given.nt
<1>1. /\ a \in Nat /\ n \in Nat
      /\ \A i \in Int : i \in a..b <=> i \in 0..in.h-1 /\ g - i \in 0..in.w-1
  BY DiagonalRows
<1>2. b = a + n - 1
  <2>1. b \in Int
    BY DEF LastRow
  <2> QED
    BY <1>1, <2>1
<1>3. \A t : Share(in, g, t) = [first |-> a + EvenStart(n, nt, t), count |-> EvenCount(n, nt, t)]
  BY DEF Share
<1> HIDE DEF a, b, n
<1>4. /\ \A i \in 0..n-1 : \E t \in 0..nt-1 : i \in EvenItems(n, nt, t)
      /\ \A t \in 0..nt-1 : EvenItems(n, nt, t) \subseteq 0..n-1
  BY <1>1, EvenSharesPartition
<1>5. \A t \in 0..nt-1 : EvenStart(n, nt, t) \in Nat /\ EvenCount(n, nt, t) \in Nat
  <2>1. n \div nt \in Nat /\ n % nt \in 0..nt-1
    BY <1>1
  <2> HIDE DEF nt
  <2>2. ASSUME NEW t \in 0..nt-1, NEW q \in Nat
        PROVE  t * q \in Nat /\ q * t \in Nat
    OBVIOUS
  <2>3. \A t \in 0..nt-1 : t * (n \div nt + 1) \in Nat /\ (n \div nt) * t \in Nat
    BY <2>1, <2>2
  <2> QED
    BY <2>1, <2>3 DEF EvenStart, EvenCount
<1>6. \A t \in 0..nt-1 :
        EvenItems(n, nt, t) = EvenStart(n, nt, t)..EvenStart(n, nt, t) + EvenCount(n, nt, t) - 1
  BY <1>5 DEF EvenItems, EvenEnd
<1>7. Tasklets = 0..nt-1
  BY DEF Tasklets
<1> HIDE DEF nt
<1>8. ASSUME NEW t \in 0..nt-1
      PROVE  \A m \in 0..EvenCount(n, nt, t)-1 : a + EvenStart(n, nt, t) + m \in a..b
  <2>1. \A m \in 0..EvenCount(n, nt, t)-1 : EvenStart(n, nt, t) + m \in 0..n-1
    BY <1>4, <1>5, <1>6
  <2> QED
    BY <1>1, <1>2, <1>5, <2>1
<1>9. ASSUME NEW i \in a..b
      PROVE  \E t \in 0..nt-1 : \E m \in 0..EvenCount(n, nt, t)-1 : i = a + EvenStart(n, nt, t) + m
  <2>1. i - a \in 0..n-1
    BY <1>1, <1>2
  <2>2. PICK t \in 0..nt-1 : i - a \in EvenItems(n, nt, t)
    BY <1>4, <2>1
  <2>3. i - a - EvenStart(n, nt, t) \in 0..EvenCount(n, nt, t)-1
    <3>1. i - a \in EvenStart(n, nt, t)..EvenStart(n, nt, t) + EvenCount(n, nt, t) - 1
      BY <1>6, <2>2
    <3>2. i - a \in Int /\ EvenStart(n, nt, t) \in Nat /\ EvenCount(n, nt, t) \in Nat
      BY <1>5, <2>1
    <3> QED
      BY <3>1, <3>2
  <2>4. i = a + EvenStart(n, nt, t) + (i - a - EvenStart(n, nt, t))
    BY <1>1, <1>5
  <2> QED
    BY <2>3, <2>4
<1> DEFINE s(t) == Share(in, g, t)
<1>10. \A t : s(t).first = a + EvenStart(n, nt, t) /\ s(t).count = EvenCount(n, nt, t)
  BY <1>3
<1>11. \A t \in 0..nt-1 : s(t).count \in Nat /\ s(t).first \in Nat
  BY <1>1, <1>5, <1>10
<1>12. \A t \in 0..nt-1 : \A m \in 0..s(t).count-1 : s(t).first + m \in a..b
  BY <1>8, <1>10
<1>13. \A i \in a..b : \E t \in 0..nt-1 : \E m \in 0..s(t).count-1 : i = s(t).first + m
  BY <1>9, <1>10
<1> HIDE DEF s
<1>14. \A i \in a..b : i \in 0..in.h-1 /\ g - i \in 0..in.w-1
  BY <1>1, <1>2
<1>15. \A i \in 0..in.h-1 : g - i \in 0..in.w-1 => i \in a..b
  BY <1>1
<1>16. \A t \in 0..nt-1 : \A m \in 0..s(t).count-1 :
         s(t).first + m \in 0..in.h-1 /\ g - (s(t).first + m) \in 0..in.w-1
  BY <1>12, <1>14
<1>17. \A i \in 0..in.h-1 : g - i \in 0..in.w-1 =>
         \E t \in 0..nt-1 : \E m \in 0..s(t).count-1 : i = s(t).first + m
  BY <1>13, <1>15
<1> QED
  BY <1>7, <1>11, <1>16, <1>17 DEF s

(* The jobs.                                                               *)
LEMMA JobTypes ==
  ASSUME given \in Jobs
  PROVE  /\ TileSz \in Nat \ {0} /\ given.dpus \in Nat /\ given.nt \in Nat \ {0}
         /\ Len1 \in Nat \ {0} /\ Len2 \in Nat \ {0}
         /\ TileRows = (Len1 + TileSz - 1) \div TileSz /\ TileRows \in Nat \ {0}
         /\ TileCols = (Len2 + TileSz - 1) \div TileSz /\ TileCols \in Nat \ {0}
         /\ TileRows <= given.dpus \/ TileCols <= given.dpus
<1>1. /\ TileSz \in Nat \ {0} /\ given.dpus \in Nat /\ given.nt \in Nat \ {0}
      /\ given.s1 \in Seq(Int) /\ given.s2 \in Seq(Int) /\ given.s1 # <<>> /\ given.s2 # <<>>
      /\ TileRows <= given.dpus \/ TileCols <= given.dpus
  BY NwAssumption DEF TileRows, TileCols
<1>2. Len1 \in Nat \ {0} /\ Len2 \in Nat \ {0}
  BY <1>1 DEF Len1, Len2
<1>3. /\ TileRows = (Len1 + TileSz - 1) \div TileSz
      /\ TileCols = (Len2 + TileSz - 1) \div TileSz
  BY DEF TileRows, TileCols, Tiles, Len1, Len2
<1>4. TileRows \in Nat \ {0} /\ TileCols \in Nat \ {0}
  BY <1>2, <1>3, TilesOfSequence
<1> QED
  BY <1>1, <1>2, <1>3, <1>4

(* The grid of tiles covers the table once.                                *)
LEMMA Grid ==
  ASSUME given \in Jobs
  PROVE  /\ \A i \in 1..Len1 :
              /\ TileAt(i) \in 0..TileRows-1
              /\ (i - 1) % TileSz \in 0..Extent(Len1, TileAt(i))-1
              /\ i = TileAt(i) * TileSz + 1 + ((i - 1) % TileSz)
         /\ \A r \in 0..TileRows-1 :
              Extent(Len1, r) \in 1..TileSz /\ r * TileSz + Extent(Len1, r) <= Len1
         /\ \A j \in 1..Len2 :
              /\ TileAt(j) \in 0..TileCols-1
              /\ (j - 1) % TileSz \in 0..Extent(Len2, TileAt(j))-1
              /\ j = TileAt(j) * TileSz + 1 + ((j - 1) % TileSz)
         /\ \A c \in 0..TileCols-1 :
              Extent(Len2, c) \in 1..TileSz /\ c * TileSz + Extent(Len2, c) <= Len2
<1>1. PICK m \in Nat \ {0}, n \in Nat \ {0}, a \in Nat, b \in Nat :
        /\ m = Len1 /\ n = Len2 /\ a = TileRows /\ b = TileCols
        /\ a = (m + TileSz - 1) \div TileSz /\ b = (n + TileSz - 1) \div TileSz
  BY JobTypes
<1>2. /\ \A i \in 1..m : /\ TileAt(i) \in 0..a-1
                        /\ (i - 1) % TileSz \in 0..Extent(m, TileAt(i))-1
                        /\ i = TileAt(i) * TileSz + 1 + ((i - 1) % TileSz)
      /\ \A r \in 0..a-1 : Extent(m, r) \in 1..TileSz /\ r * TileSz + Extent(m, r) <= m
  BY <1>1, TilesOfSequence
<1>3. /\ \A i \in 1..n : /\ TileAt(i) \in 0..b-1
                        /\ (i - 1) % TileSz \in 0..Extent(n, TileAt(i))-1
                        /\ i = TileAt(i) * TileSz + 1 + ((i - 1) % TileSz)
      /\ \A r \in 0..b-1 : Extent(n, r) \in 1..TileSz /\ r * TileSz + Extent(n, r) <= n
  BY <1>1, TilesOfSequence
<1> QED
  BY <1>1, <1>2, <1>3

(* The tiles of a wave: those of one anti-diagonal, each with one DPU.     *)
LEMMA TilesOfWave ==
  ASSUME given \in Jobs, NEW w \in 0..Waves-1
  PROVE  /\ \A r, c \in Int : <<r, c>> \in TilesOf(w)
                                <=> r \in 0..TileRows-1 /\ c \in 0..TileCols-1 /\ r + c = w
         /\ Cardinality(TilesOf(w)) \in 0..given.dpus
         /\ \A d \in 0..Cardinality(TilesOf(w))-1 :
              \E r \in 0..TileRows-1, c \in 0..TileCols-1 : TileFor(w, d) = <<r, c>> /\ r + c = w
         /\ \A tile \in TilesOf(w) : \E d \in 0..Cardinality(TilesOf(w))-1 : TileFor(w, d) = tile
         /\ \A d, e \in Int : TileFor(w, d) = TileFor(w, e) => d = e
<1> DEFINE top == IF w < TileCols THEN 0 ELSE w - TileCols + 1
           bot == IF w < TileRows THEN w ELSE TileRows - 1
           rows == {r \in 0..TileRows-1 : w - r \in 0..TileCols-1}
<1>1. TileRows \in Nat \ {0} /\ TileCols \in Nat \ {0} /\ given.dpus \in Nat
      /\ (TileRows <= given.dpus \/ TileCols <= given.dpus)
  BY JobTypes
<1>2. w \in 0..TileRows + TileCols - 2
  BY <1>1 DEF Waves
<1>3. top \in Nat /\ bot \in Nat /\ top <= bot /\ bot - top + 1 \in 1..given.dpus
  BY <1>1, <1>2
<1>4. rows = top..bot
  BY <1>1, <1>2
<1>5. TilesOf(w) = {<<r, w - r>> : r \in rows}
  BY DEF TilesOf
<1> HIDE DEF top, bot, rows
<1>6. TilesOf(w) = {<<r, w - r>> : r \in top..bot}
  BY <1>4, <1>5
<1>7. Cardinality(TilesOf(w)) = bot - top + 1
  <2> DEFINE f == [r \in top..bot |-> <<r, w - r>>]
  <2>1. f \in Bijection(top..bot, TilesOf(w))
    <3>1. f \in [top..bot -> TilesOf(w)]
      BY <1>6
    <3>2. \A a, b \in top..bot : f[a] = f[b] => a = b
      OBVIOUS
    <3>3. \A x \in TilesOf(w) : \E r \in top..bot : f[r] = x
      BY <1>6
    <3> HIDE DEF f
    <3>4. f \in Injection(top..bot, TilesOf(w)) /\ f \in Surjection(top..bot, TilesOf(w))
      BY <3>1, <3>2, <3>3 DEF Injection, Surjection, IsInjective
    <3> QED
      BY <3>4 DEF Bijection
  <2>2. ExistsBijection(top..bot, TilesOf(w))
    BY <2>1 DEF ExistsBijection
  <2>3. IsFiniteSet(top..bot) /\ Cardinality(top..bot) = bot - top + 1
    BY <1>3, FS_Interval
  <2> QED
    BY <2>2, <2>3, FS_Bijection
<1>8. {rc[1] : rc \in TilesOf(w)} = top..bot
  <2>1. \A x \in top..bot : <<x, w - x>> \in TilesOf(w) /\ <<x, w - x>>[1] = x
    BY <1>6
  <2>2. \A rc \in TilesOf(w) : rc[1] \in top..bot
    BY <1>6
  <2> QED
    BY <2>1, <2>2
<1>9. Min(top..bot) = top
  <2>1. top \in top..bot /\ \A y \in top..bot : top <= y
    BY <1>3
  <2>2. \A x \in top..bot : (\A y \in top..bot : x <= y) => x = top
    BY <1>3
  <2> QED
    BY <2>1, <2>2 DEF Min
<1>10. \A d : TileFor(w, d) = <<top + d, w - top - d>>
  BY <1>8, <1>9 DEF TileFor
<1>11. \A r, c \in Int : <<r, c>> \in TilesOf(w)
                           <=> r \in 0..TileRows-1 /\ c \in 0..TileCols-1 /\ r + c = w
  <2> SUFFICES ASSUME NEW r \in Int, NEW c \in Int
               PROVE  <<r, c>> \in TilesOf(w) <=> r \in 0..TileRows-1 /\ c \in 0..TileCols-1 /\ r + c = w
    OBVIOUS
  <2>1. <<r, c>> \in TilesOf(w) <=> r \in rows /\ c = w - r
    BY <1>5
  <2>2. r \in rows <=> r \in 0..TileRows-1 /\ w - r \in 0..TileCols-1
    BY DEF rows
  <2>3. c = w - r <=> r + c = w
    BY <1>1, <1>2
  <2> QED
    BY <2>1, <2>2, <2>3
<1>12. ASSUME NEW d \in 0..bot - top
       PROVE  \E r \in 0..TileRows-1, c \in 0..TileCols-1 : TileFor(w, d) = <<r, c>> /\ r + c = w
  <2>1. top + d \in top..bot
    BY <1>3
  <2>2. top + d \in 0..TileRows-1 /\ w - (top + d) \in 0..TileCols-1
    BY <1>4, <2>1 DEF rows
  <2>3. w - top - d = w - (top + d) /\ (top + d) + (w - (top + d)) = w
    BY <1>2, <1>3
  <2> QED
    BY <1>10, <2>2, <2>3
<1>13. ASSUME NEW tile \in TilesOf(w)
       PROVE  \E d \in 0..bot - top : TileFor(w, d) = tile
  <2>1. PICK r \in top..bot : tile = <<r, w - r>>
    BY <1>6
  <2>2. r - top \in 0..bot - top /\ top + (r - top) = r /\ w - top - (r - top) = w - r
    BY <1>2, <1>3
  <2> QED
    BY <1>10, <2>1, <2>2
<1>14. \A d, e \in Int : TileFor(w, d) = TileFor(w, e) => d = e
  <2>1. \A d, e \in Int : top + d = top + e => d = e
    BY <1>3
  <2> QED
    BY <1>10, <2>1
<1>15. 0..bot - top + 1 - 1 = 0..bot - top
  BY <1>3
<1> QED
  BY <1>3, <1>7, <1>11, <1>12, <1>13, <1>14, <1>15

-----------------------------------------------------------------------------
(* The table of sequential_nw *)

(* One step of its recursion, with the table f.                            *)
RefCell(f, c) ==
  IF c[1] = 0 THEN c[2] * Gap ELSE IF c[2] = 0 THEN c[1] * Gap
  ELSE Score(f[<<c[1]-1, c[2]-1>>], f[<<c[1]-1, c[2]>>], f[<<c[1], c[2]-1>>],
             given.s1[c[1]], given.s2[c[2]])

(* Climbing from 0 to m: induction over numbers, with a set for a formula. *)
LEMMA Climb ==
  ASSUME NEW m \in Nat, NEW A, 0 \in A, \A k \in 0 .. m - 1 : k \in A => k + 1 \in A
  PROVE  \A k \in 0 .. m : k \in A
<1> DEFINE B == (0 .. m) \ A
<1> SUFFICES ASSUME B # {} PROVE FALSE
  OBVIOUS
<1>1. B \in SUBSET Nat
  OBVIOUS
<1>2. PICK k \in B : \A j \in B : k <= j
  <2> DEFINE R == OpToRel(<, Nat)
  <2>1. IsWellFoundedOn(R, Nat)
    BY NatLessThanWellFounded
  <2>2. \A x, y \in Nat : x < y => <<x, y>> \in R
    BY DEF OpToRel
  <2> HIDE DEF R, B
  <2>3. PICK k \in B : \A j \in B : <<j, k>> \notin R
    BY <1>1, <2>1, WFMin
  <2>4. \A j \in B : ~(j < k)
    BY <1>1, <2>2, <2>3
  <2> QED
    BY <1>1, <2>4
<1>3. k \in 1 .. m /\ k - 1 \in 0 .. m - 1 /\ k - 1 \in A
  BY <1>2
<1>4. k - 1 + 1 = k
  BY <1>3
<1> QED
  BY <1>2, <1>3, <1>4

(* A cell depends on cells of earlier anti-diagonals only.                 *)
Agree(f, g, k) == \A x \in Table : x[1] + x[2] <= k => f[x] = g[x]

LEMMA RefCellLocal ==
  ASSUME given \in Jobs, NEW k \in Nat, NEW f, NEW g, Agree(f, g, k)
  PROVE  \A c \in Table : c[1] + c[2] <= k + 1 => RefCell(f, c) = RefCell(g, c)
<1>1. PICK m \in Nat, n \in Nat : m = Len1 /\ n = Len2 /\ Table = (0..m) \X (0..n)
  BY JobTypes DEF Table
<1>2. \A a \in 0..m, b \in 0..n : a + b <= k => f[<<a, b>>] = g[<<a, b>>]
  BY <1>1 DEF Agree
<1> SUFFICES ASSUME NEW i \in 0..m, NEW j \in 0..n, i + j <= k + 1
             PROVE  RefCell(f, <<i, j>>) = RefCell(g, <<i, j>>)
  BY <1>1
<1>3. CASE i # 0 /\ j # 0
  <2>1. i - 1 \in 0..m /\ j - 1 \in 0..n
    BY <1>3
  <2>2. (i - 1) + (j - 1) <= k /\ (i - 1) + j <= k /\ i + (j - 1) <= k
    BY <1>3
  <2>3. /\ f[<<i-1, j-1>>] = g[<<i-1, j-1>>]
        /\ f[<<i-1, j>>] = g[<<i-1, j>>]
        /\ f[<<i, j-1>>] = g[<<i, j-1>>]
    BY <1>2, <2>1, <2>2
  <2> QED
    BY <2>3 DEF RefCell
<1>4. CASE i = 0 \/ j = 0
  BY <1>4 DEF RefCell
<1> QED
  BY <1>3, <1>4


(* There is such a table.                                                  *)
LEMMA RefExists ==
  ASSUME given \in Jobs
  PROVE  \E f : f = [c \in Table |-> RefCell(f, c)]
<1> DEFINE Upto(k, f) == f = [c \in Table |-> IF c[1] + c[2] <= k THEN RefCell(f, c) ELSE 0]
           A == {k \in Nat : \E f : Upto(k, f)}
<1>1. PICK m \in Nat, n \in Nat : m = Len1 /\ n = Len2 /\ Table = (0..m) \X (0..n)
  BY JobTypes DEF Table
<1>2. \A c \in Table : c[1] + c[2] \in 0..Len1 + Len2
  BY <1>1
<1>3. 0 \in A
  <2> DEFINE e == [c \in Table |-> 0]
             f == [c \in Table |-> IF c[1] + c[2] <= 0 THEN RefCell(e, c) ELSE 0]
  <2>1. \A c \in Table : c[1] + c[2] <= 0 => RefCell(e, c) = RefCell(f, c)
    <3>1. \A c \in Table : c[1] + c[2] <= 0 => c[1] = 0
      BY <1>1
    <3> QED
      BY <3>1 DEF RefCell
  <2>2. Upto(0, f)
    BY <2>1, Zenon
  <2> QED
    BY <2>2
<1>4. ASSUME NEW k \in 0..Len1 + Len2 - 1, k \in A PROVE k + 1 \in A
  <2>1. k \in Nat /\ k + 1 \in Nat
    BY <1>1
  <2>2. PICK f : Upto(k, f)
    BY <1>4
  <2> PICK g : g = [c \in Table |-> IF c[1] + c[2] <= k + 1 THEN RefCell(f, c) ELSE 0]
    OBVIOUS
  <2>3. \A c \in Table : c[1] + c[2] <= k => f[c] = g[c]
    <3>1. \A c \in Table : c[1] + c[2] <= k => f[c] = RefCell(f, c)
      BY <2>2
    <3>2. \A c \in Table : c[1] + c[2] <= k => c[1] + c[2] <= k + 1
      BY <1>2, <2>1
    <3>3. \A c \in Table : c[1] + c[2] <= k + 1 => g[c] = RefCell(f, c)
      OBVIOUS
    <3> QED
      BY <3>1, <3>2, <3>3
  <2>4. \A c \in Table : c[1] + c[2] <= k + 1 => RefCell(f, c) = RefCell(g, c)
    <3>1. Agree(f, g, k)
      BY <2>3 DEF Agree
    <3> QED
      BY <2>1, <3>1, RefCellLocal
  <2>5. Upto(k + 1, g)
    BY <2>4, Zenon
  <2> QED
    BY <2>1, <2>5
<1>5. Len1 + Len2 \in A
  <2> HIDE DEF A
  <2>1. PICK l \in Nat : l = Len1 + Len2
    BY <1>1
  <2>2. \A k \in 0..l - 1 : k \in A => k + 1 \in A
    BY <1>1, <1>4, <2>1
  <2>3. \A k \in 0..l : k \in A
    BY <1>3, <2>2, Climb
  <2> QED
    BY <2>1, <2>3
<1>6. PICK f : Upto(Len1 + Len2, f)
  BY <1>5
<1>7. f = [c \in Table |-> RefCell(f, c)]
  <2>1. \A c \in Table : c[1] + c[2] <= Len1 + Len2
    BY <1>1, <1>2
  <2> QED
    BY <1>6, <2>1
<1> QED
  BY <1>7

LEMMA RefIs ==
  ASSUME given \in Jobs
  PROVE  Ref = [c \in Table |-> RefCell(Ref, c)]
<1>1. Ref = CHOOSE f : f = [c \in Table |-> RefCell(f, c)]
  BY Zenon DEF Ref, SequentialNw, RefCell, Table, Len1, Len2
<1>2. Ref = [c \in Table |-> RefCell(Ref, c)]
  BY <1>1, RefExists
<1> QED
  BY <1>2

(* The recursion, and where it ends.                                       *)
LEMMA RefRecursion ==
  ASSUME given \in Jobs
  PROVE  /\ \A i \in 1..Len1, j \in 1..Len2 :
              Ref[<<i, j>>] = Score(Ref[<<i - 1, j - 1>>], Ref[<<i - 1, j>>], Ref[<<i, j - 1>>],
                                    given.s1[i], given.s2[j])
         /\ \A i \in 0..Len1, j \in 0..Len2 :
              i = 0 \/ j = 0 => Ref[<<i, j>>] = IF i = 0 THEN j * Gap ELSE i * Gap
<1>1. Len1 \in Nat /\ Len2 \in Nat /\ Table = (0..Len1) \X (0..Len2)
  BY JobTypes DEF Table
<1>2. \A i \in 0..Len1, j \in 0..Len2 : Ref[<<i, j>>] = RefCell(Ref, <<i, j>>)
  BY <1>1, RefIs
<1>3. ASSUME NEW i \in 1..Len1, NEW j \in 1..Len2
      PROVE  Ref[<<i, j>>] = Score(Ref[<<i - 1, j - 1>>], Ref[<<i - 1, j>>], Ref[<<i, j - 1>>],
                                   given.s1[i], given.s2[j])
  <2>1. i \in 0..Len1 /\ j \in 0..Len2 /\ i # 0 /\ j # 0
    BY <1>1
  <2> QED
    BY <1>2, <2>1 DEF RefCell
<1>4. ASSUME NEW i \in 0..Len1, NEW j \in 0..Len2, i = 0 \/ j = 0
      PROVE  Ref[<<i, j>>] = IF i = 0 THEN j * Gap ELSE i * Gap
  BY <1>2, <1>4 DEF RefCell
<1> QED
  BY <1>3, <1>4

(* A cell computed from right neighbours is right (devApp/NW.c:93-130).    *)
LEMMA CellIsRight ==
  ASSUME given \in Jobs, NEW r \in 0..TileRows-1, NEW c \in 0..TileCols-1,
         NEW m, Sent(m.in, r, c), NEW i \in 0..m.in.h-1, NEW j \in 0..m.in.w-1,
         \A a \in 0..m.in.h-1, b \in 0..m.in.w-1 :
           a + b < i + j => m.dp[<<a, b>>] = Want(r, c, <<a, b>>)
  PROVE  CellOf(m, i, j) = Want(r, c, <<i, j>>)
<1>1. /\ TileSz \in Nat \ {0} /\ TileRows \in Nat /\ TileCols \in Nat
      /\ Len1 \in Nat /\ Len2 \in Nat
      /\ m.in.h \in 1..TileSz /\ r * TileSz + m.in.h <= Len1
      /\ m.in.w \in 1..TileSz /\ c * TileSz + m.in.w <= Len2
  BY JobTypes, Grid DEF Sent
<1>2. PICK y \in Nat, x \in Nat : y = r * TileSz + 1 + i /\ x = c * TileSz + 1 + j
  BY <1>1
<1>3. r * TileSz \in Nat /\ c * TileSz \in Nat
  BY <1>1
<1>4. /\ y \in 1..Len1 /\ x \in 1..Len2
      /\ y - 1 = r * TileSz + i /\ x - 1 = c * TileSz + j
  BY <1>1, <1>2, <1>3
<1>5. Want(r, c, <<i, j>>) = Score(Ref[<<y - 1, x - 1>>], Ref[<<y - 1, x>>], Ref[<<y, x - 1>>],
                                   given.s1[y], given.s2[x])
  BY <1>2, <1>4, RefRecursion DEF Want
<1>6. m.in.s1[i] = given.s1[y] /\ m.in.s2[j] = given.s2[x]
  BY <1>2 DEF Sent
<1>7. (IF i = 0 THEN m.in.north[j] ELSE m.dp[<<i - 1, j>>]) = Ref[<<y - 1, x>>]
  <2>1. CASE i = 0
    <3>1. y - 1 = r * TileSz
      BY <1>3, <1>4, <2>1
    <3> QED
      BY <1>2, <2>1, <3>1 DEF Sent
  <2>2. CASE i # 0
    <3>1. i - 1 \in 0..m.in.h-1 /\ (i - 1) + j < i + j
      BY <1>1, <2>2
    <3>2. m.dp[<<i - 1, j>>] = Want(r, c, <<i - 1, j>>)
      BY <3>1
    <3>3. r * TileSz + 1 + (i - 1) = y - 1
      BY <1>3, <1>4
    <3> QED
      BY <1>2, <2>2, <3>2, <3>3 DEF Want
  <2> QED
    BY <2>1, <2>2
<1>8. (IF j = 0 THEN m.in.west[i] ELSE m.dp[<<i, j - 1>>]) = Ref[<<y, x - 1>>]
  <2>1. CASE j = 0
    <3>1. x - 1 = c * TileSz
      BY <1>3, <1>4, <2>1
    <3> QED
      BY <1>2, <2>1, <3>1 DEF Sent
  <2>2. CASE j # 0
    <3>1. j - 1 \in 0..m.in.w-1 /\ i + (j - 1) < i + j
      BY <1>1, <2>2
    <3>2. m.dp[<<i, j - 1>>] = Want(r, c, <<i, j - 1>>)
      BY <3>1
    <3>3. c * TileSz + 1 + (j - 1) = x - 1
      BY <1>3, <1>4
    <3> QED
      BY <1>2, <2>2, <3>2, <3>3 DEF Want
  <2> QED
    BY <2>1, <2>2
<1>9. (IF i = 0 /\ j = 0 THEN m.in.corner
       ELSE IF i = 0 THEN m.in.north[j - 1]
       ELSE IF j = 0 THEN m.in.west[i - 1] ELSE m.dp[<<i - 1, j - 1>>]) = Ref[<<y - 1, x - 1>>]
  <2>1. CASE i = 0 /\ j = 0
    <3>1. y - 1 = r * TileSz /\ x - 1 = c * TileSz
      BY <1>3, <1>4, <2>1
    <3> QED
      BY <2>1, <3>1 DEF Sent
  <2>2. CASE i = 0 /\ j # 0
    <3>1. j - 1 \in 0..m.in.w-1 /\ y - 1 = r * TileSz /\ c * TileSz + 1 + (j - 1) = x - 1
      BY <1>1, <1>3, <1>4, <2>2
    <3>2. m.in.north[j - 1] = Ref[<<r * TileSz, c * TileSz + 1 + (j - 1)>>]
      BY <3>1 DEF Sent
    <3> QED
      BY <2>2, <3>1, <3>2
  <2>3. CASE i # 0 /\ j = 0
    <3>1. i - 1 \in 0..m.in.h-1 /\ x - 1 = c * TileSz /\ r * TileSz + 1 + (i - 1) = y - 1
      BY <1>1, <1>3, <1>4, <2>3
    <3>2. m.in.west[i - 1] = Ref[<<r * TileSz + 1 + (i - 1), c * TileSz>>]
      BY <3>1 DEF Sent
    <3> QED
      BY <2>3, <3>1, <3>2
  <2>4. CASE i # 0 /\ j # 0
    <3>1. /\ i - 1 \in 0..m.in.h-1 /\ j - 1 \in 0..m.in.w-1 /\ (i - 1) + (j - 1) < i + j
          /\ r * TileSz + 1 + (i - 1) = y - 1 /\ c * TileSz + 1 + (j - 1) = x - 1
      BY <1>1, <1>3, <1>4, <2>4
    <3>2. m.dp[<<i - 1, j - 1>>] = Want(r, c, <<i - 1, j - 1>>)
      BY <3>1
    <3> QED
      BY <2>4, <3>1, <3>2 DEF Want
  <2> QED
    BY <2>1, <2>2, <2>3, <2>4
<1> QED
  BY <1>5, <1>6, <1>7, <1>8, <1>9 DEF CellOf

(* The borders a tile is sent with are right when the waves before have    *)
(* been (hostApp/NW.c:117-136).                                            *)
LEMMA TileInIsRight ==
  ASSUME given \in Jobs, NEW r \in 0..TileRows-1, NEW c \in 0..TileCols-1, Known(r + c)
  PROVE  Sent(TileIn(r, c), r, c)
<1> DEFINE h == Extent(Len1, r)
           w == Extent(Len2, c)
<1>1. /\ TileSz \in Nat \ {0} /\ TileRows \in Nat /\ TileCols \in Nat
      /\ Len1 \in Nat /\ Len2 \in Nat /\ r \in Nat /\ c \in Nat
      /\ h \in 1..TileSz /\ r * TileSz + h <= Len1
      /\ w \in 1..TileSz /\ c * TileSz + w <= Len2
  BY JobTypes, Grid
<1>2. r * TileSz \in Nat /\ c * TileSz \in Nat
  BY <1>1
<1>3. TileIn(r, c) =
        [h |-> h, w |-> w, corner |-> host.dp[<<(r * TileSz + 1) - 1, (c * TileSz + 1) - 1>>],
         north |-> [x \in 0..w-1 |-> host.dp[<<(r * TileSz + 1) - 1, c * TileSz + 1 + x>>]],
         west |-> [x \in 0..h-1 |-> host.dp[<<r * TileSz + 1 + x, (c * TileSz + 1) - 1>>]],
         s1 |-> [x \in 0..h-1 |-> given.s1[r * TileSz + 1 + x]],
         s2 |-> [x \in 0..w-1 |-> given.s2[c * TileSz + 1 + x]]]
  BY Zenon DEF TileIn, Extent
<1> HIDE DEF h, w
<1>4. \A i \in 0..Len1, j \in 0..Len2 :
        i = 0 \/ j = 0 \/ TileAt(i) + TileAt(j) < r + c => host.dp[<<i, j>>] = Ref[<<i, j>>]
  BY DEF Known, Table
<1>5. \A x \in 0..h-1 : r * TileSz + 1 + x \in 1..Len1 /\ TileAt(r * TileSz + 1 + x) = r
  <2>1. \A x \in 0..h-1 : r * TileSz + 1 + x \in 1..Len1 /\ x \in 0..TileSz-1
    BY <1>1, <1>2
  <2> QED
    BY <1>1, <2>1, TilePlaces
<1>6. \A x \in 0..w-1 : c * TileSz + 1 + x \in 1..Len2 /\ TileAt(c * TileSz + 1 + x) = c
  <2>1. \A x \in 0..w-1 : c * TileSz + 1 + x \in 1..Len2 /\ x \in 0..TileSz-1
    BY <1>1, <1>2
  <2> QED
    BY <1>1, <2>1, TilePlaces
<1>7. ASSUME NEW s \in Nat, s # 0
      PROVE  TileAt(s * TileSz) = s - 1
  <2>1. s - 1 \in Nat /\ TileSz - 1 \in 0..TileSz-1
    BY <1>1, <1>7
  <2>2. (s - 1) * TileSz + 1 + (TileSz - 1) = s * TileSz
    BY <1>1, <1>7
  <2> QED
    BY <2>1, <2>2, TilePlaces
<1>13. /\ r # 0 => TileAt(r * TileSz) = r - 1
       /\ c # 0 => TileAt(c * TileSz) = c - 1
  BY <1>1, <1>7
<1>8. /\ r * TileSz \in 0..Len1 /\ c * TileSz \in 0..Len2
      /\ r = 0 => r * TileSz = 0
      /\ c = 0 => c * TileSz = 0
  BY <1>1, <1>2
<1>9. host.dp[<<r * TileSz, c * TileSz>>] = Ref[<<r * TileSz, c * TileSz>>]
  <2>1. CASE r # 0 /\ c # 0
    <3>1. TileAt(r * TileSz) + TileAt(c * TileSz) < r + c
      BY <1>1, <1>13, <2>1
    <3> QED
      BY <1>4, <1>8, <3>1
  <2> QED
    BY <1>4, <1>8, <2>1
<1>10. ASSUME NEW x \in 0..w-1
       PROVE  host.dp[<<r * TileSz, c * TileSz + 1 + x>>] = Ref[<<r * TileSz, c * TileSz + 1 + x>>]
  <2>1. c * TileSz + 1 + x \in 0..Len2
    BY <1>1, <1>6
  <2>2. CASE r # 0
    <3>1. TileAt(r * TileSz) + TileAt(c * TileSz + 1 + x) < r + c
      BY <1>1, <1>6, <1>13, <2>2
    <3> QED
      BY <1>4, <1>8, <2>1, <3>1
  <2> QED
    BY <1>4, <1>8, <2>1, <2>2
<1>11. ASSUME NEW x \in 0..h-1
       PROVE  host.dp[<<r * TileSz + 1 + x, c * TileSz>>] = Ref[<<r * TileSz + 1 + x, c * TileSz>>]
  <2>1. r * TileSz + 1 + x \in 0..Len1
    BY <1>1, <1>5
  <2>2. CASE c # 0
    <3>1. TileAt(r * TileSz + 1 + x) + TileAt(c * TileSz) < r + c
      BY <1>1, <1>5, <1>13, <2>2
    <3> QED
      BY <1>4, <1>8, <2>1, <3>1
  <2> QED
    BY <1>4, <1>8, <2>1, <2>2
<1>12. (r * TileSz + 1) - 1 = r * TileSz /\ (c * TileSz + 1) - 1 = c * TileSz
  BY <1>2
<1> QED
  BY <1>3, <1>9, <1>10, <1>11, <1>12 DEF Sent, h, w

-----------------------------------------------------------------------------
(* The steps of a DPU, on its memory m *)

(* What depends on the job alone stays.                                    *)
LEMMA GivenStays ==
  ASSUME given' = given
  PROVE  /\ Waves' = Waves /\ Table' = Table /\ Dpus' = Dpus /\ Tasklets' = Tasklets
         /\ TileRows' = TileRows /\ TileCols' = TileCols /\ Ref' = Ref
         /\ \A w : TilesOf(w)' = TilesOf(w)
         /\ \A w, d : TileFor(w, d)' = TileFor(w, d)
         /\ \A m : Shaped(m)' <=> Shaped(m)
         /\ \A m, r, c : Working(m, r, c)' <=> Working(m, r, c)
<1>1. /\ Table' = Table /\ Dpus' = Dpus /\ Tasklets' = Tasklets
      /\ TileRows' = TileRows /\ TileCols' = TileCols /\ Ref' = Ref
      /\ Len1' = Len1 /\ Len2' = Len2
  BY DEF Table, Dpus, Tasklets, TileRows, TileCols, Ref, Len1, Len2
<1>2. Waves' = Waves
  BY <1>1 DEF Waves
<1>3. \A w : TilesOf(w)' = TilesOf(w)
  BY <1>1 DEF TilesOf
<1>4. \A w, d : TileFor(w, d)' = TileFor(w, d)
  BY <1>3 DEF TileFor
<1>5. \A m : Shaped(m)' <=> Shaped(m)
  BY <1>1 DEF Shaped
<1>6. \A r, c, x : Want(r, c, x)' = Want(r, c, x)
  BY <1>1 DEF Want
<1>7. \A in, r, c : Sent(in, r, c)' <=> Sent(in, r, c)
  BY <1>1 DEF Sent
<1>8. \A in, g, t : Share(in, g, t)' = Share(in, g, t)
  BY DEF Share
<1>9. \A m, r, c, g, t : AtDiagonal(m, r, c, g, t)' <=> AtDiagonal(m, r, c, g, t)
  BY <1>6, <1>8 DEF AtDiagonal
<1>10. \A m, r, c, g : Filled(m, r, c, g)' <=> Filled(m, r, c, g)
  BY <1>1, <1>6, <1>9 DEF Filled
<1>11. \A m, r, c : Working(m, r, c)' <=> Working(m, r, c)
  BY <1>7, <1>10 DEF Working
<1> QED
  BY <1>1, <1>2, <1>3, <1>4, <1>5, <1>11

LEMMA SentSize ==
  ASSUME given \in Jobs, NEW r \in 0..TileRows-1, NEW c \in 0..TileCols-1, NEW in, Sent(in, r, c)
  PROVE  in.h \in 1..TileSz /\ in.w \in 1..TileSz
BY Grid DEF Sent

LEMMA StartWorks ==
  ASSUME given \in Jobs, NEW r \in 0..TileRows-1, NEW c \in 0..TileCols-1,
         NEW m, Shaped(m), Working(m, r, c), NEW t \in Tasklets, m.tl[t].pc = "start"
  PROVE  Working([m EXCEPT !.tl[t] = [Idle EXCEPT !.pc = "cells"]], r, c)
<1>1. PICK g \in Nat : Filled(m, r, c, g)
  BY DEF Working
<1> DEFINE n == [m EXCEPT !.tl[t] = [Idle EXCEPT !.pc = "cells"]]
<1>2. /\ n.in = m.in /\ n.dp = m.dp
      /\ \A u \in Tasklets : n.tl[u] = IF u = t THEN [pc |-> "cells", diag |-> 0, k |-> 0]
                                       ELSE m.tl[u]
  BY DEF Shaped, Idle
<1> HIDE DEF n
<1>3. m.in.h \in 1..TileSz /\ m.in.w \in 1..TileSz /\ TileSz \in Nat /\ given.nt \in Nat \ {0}
  BY SentSize, JobTypes DEF Working
<1>4. g = 0
  BY <1>1 DEF Filled, AtDiagonal
<1>5. g \in 0..m.in.h+m.in.w-2
  BY <1>3, <1>4
<1>6. Share(m.in, g, t).count \in Nat
  BY <1>3, <1>5, SharesOfDiagonal
<1>7. \A u \in Tasklets : AtDiagonal(n, r, c, g, u)
  <2>1. AtDiagonal(n, r, c, g, t)
    BY <1>2, <1>3, <1>4, <1>6 DEF AtDiagonal
  <2>2. ASSUME NEW u \in Tasklets, u # t PROVE AtDiagonal(n, r, c, g, u)
    <3>1. AtDiagonal(m, r, c, g, u)
      BY <1>1 DEF Filled
    <3> QED
      BY <1>2, <2>2, <3>1 DEF AtDiagonal
  <2> QED
    BY <2>1, <2>2
<1>8. Filled(n, r, c, g)
  BY <1>1, <1>2, <1>7 DEF Filled
<1>9. Working(n, r, c)
  BY <1>2, <1>8 DEF Working
<1> QED
  BY <1>9 DEF n

(* A tasklet fills the next cell of its share.                             *)
Filling(m, t, p) ==
  \E k, i, j, o :
    /\ k = m.tl[t] /\ k.pc = "cells" /\ k.k # Share(m.in, k.diag, t).count
    /\ i = Share(m.in, k.diag, t).first + k.k /\ j = k.diag - i
    /\ o = [m EXCEPT !.dp[<<i, j>>] = CellOf(m, i, j)]
    /\ p = [o EXCEPT !.tl[t] = [k EXCEPT !.k = @ + 1]]

LEMMA CellWorks ==
  ASSUME given \in Jobs, NEW r \in 0..TileRows-1, NEW c \in 0..TileCols-1,
         NEW m, Shaped(m), Working(m, r, c), NEW t \in Tasklets, NEW p, Filling(m, t, p)
  PROVE  Working(p, r, c)
<1>20. PICK k, i, j, o :
         /\ k = m.tl[t] /\ k.pc = "cells" /\ k.k # Share(m.in, k.diag, t).count
         /\ i = Share(m.in, k.diag, t).first + k.k /\ j = k.diag - i
         /\ o = [m EXCEPT !.dp[<<i, j>>] = CellOf(m, i, j)]
         /\ p = [o EXCEPT !.tl[t] = [k EXCEPT !.k = @ + 1]]
  BY DEF Filling
<1>21. /\ k = m.tl[t] /\ k.pc = "cells" /\ k.k # Share(m.in, k.diag, t).count
       /\ i = Share(m.in, k.diag, t).first + k.k /\ j = k.diag - i
  BY <1>20
<1>1. PICK g \in Nat : Filled(m, r, c, g)
  BY DEF Working
<1> DEFINE n == [[m EXCEPT !.dp[<<i, j>>] = CellOf(m, i, j)] EXCEPT !.tl[t] = [k EXCEPT !.k = @ + 1]]
           first == Share(m.in, g, t).first
           count == Share(m.in, g, t).count
<1>2. Sent(m.in, r, c)
  BY DEF Working
<1>3. m.in.h \in 1..TileSz /\ m.in.w \in 1..TileSz /\ TileSz \in Nat /\ given.nt \in Nat \ {0}
  BY <1>2, SentSize, JobTypes
<1>4. AtDiagonal(m, r, c, g, t)
  BY <1>1 DEF Filled
<1>5. /\ k.diag = g /\ g < m.in.h + m.in.w - 1 /\ k.k \in 0..count
      /\ \A x \in 0..k.k-1 : m.dp[<<first + x, g - (first + x)>>]
                               = Want(r, c, <<first + x, g - (first + x)>>)
  BY <1>4, <1>21 DEF AtDiagonal
<1>6. g \in 0..m.in.h+m.in.w-2
  BY <1>3, <1>5
<1>7. count \in Nat /\ first \in Nat
      /\ \A x \in 0..count-1 : first + x \in 0..m.in.h-1 /\ g - (first + x) \in 0..m.in.w-1
  BY <1>3, <1>6, SharesOfDiagonal
<1>8. k.k \in Nat /\ k.k \in 0..count-1 /\ i = first + k.k /\ j = g - i
  <2>1. k.k # count /\ i = first + k.k /\ j = g - i
    BY <1>5, <1>21
  <2>2. k.k \in 0..count /\ count \in Nat
    BY <1>5, <1>7
  <2> HIDE DEF first, count
  <2>3. k.k \in Nat /\ k.k \in 0..count-1
    BY <2>1, <2>2
  <2> QED
    BY <2>1, <2>3
<1> HIDE DEF first, count
<1>9. i \in 0..m.in.h-1 /\ j \in 0..m.in.w-1 /\ i + j = g
  BY <1>7, <1>8
<1>10. CellOf(m, i, j) = Want(r, c, <<i, j>>)
  <2>1. \A a \in 0..m.in.h-1, b \in 0..m.in.w-1 :
          a + b < i + j => m.dp[<<a, b>>] = Want(r, c, <<a, b>>)
    BY <1>1, <1>9 DEF Filled
  <2> QED
    BY <1>2, <1>9, <2>1, CellIsRight
<1>11. <<i, j>> \in Cell
  BY <1>3, <1>9 DEF Cell
<1>12. /\ n.in = m.in
       /\ \A x \in Cell : n.dp[x] = IF x = <<i, j>> THEN Want(r, c, <<i, j>>) ELSE m.dp[x]
       /\ \A u \in Tasklets : n.tl[u] = IF u = t THEN [k EXCEPT !.k = @ + 1] ELSE m.tl[u]
  BY <1>10, <1>11 DEF Shaped
<1>13. n.tl[t] = [pc |-> "cells", diag |-> g, k |-> k.k + 1]
  <2>1. k = [pc |-> "cells", diag |-> g, k |-> k.k]
    BY <1>5, <1>21 DEF Shaped
  <2>2. n.tl[t] = [k EXCEPT !.k = @ + 1]
    BY <1>12
  <2> HIDE DEF n
  <2> QED
    BY <2>1, <2>2
<1> HIDE DEF n
<1>14. \A a \in 0..m.in.h-1, b \in 0..m.in.w-1 : m.dp[<<a, b>>] = Want(r, c, <<a, b>>)
                                                 => n.dp[<<a, b>>] = Want(r, c, <<a, b>>)
  <2>1. \A a \in 0..m.in.h-1, b \in 0..m.in.w-1 : <<a, b>> \in Cell
    BY <1>3 DEF Cell
  <2> QED
    BY <1>12, <2>1
<1>15. \A a \in 0..m.in.h-1, b \in 0..m.in.w-1 :
         a + b < g => n.dp[<<a, b>>] = Want(r, c, <<a, b>>)
  BY <1>1, <1>14 DEF Filled
<1>16. AtDiagonal(n, r, c, g, t)
  <2>1. k.k + 1 \in 0..count
    BY <1>7, <1>8
  <2>2. ASSUME NEW x \in 0..k.k + 1 - 1
        PROVE  n.dp[<<first + x, g - (first + x)>>] = Want(r, c, <<first + x, g - (first + x)>>)
    <3>0. count \in Nat /\ k.k \in Nat /\ k.k <= count - 1
      BY <1>7, <1>8
    <3>1. x \in 0..count-1 /\ (x \in 0..k.k-1 \/ x = k.k)
      <4> HIDE <1>7, <1>8
      <4> QED
        BY <3>0
    <3>2. CASE x = k.k
      BY <1>8, <1>11, <1>12, <3>2
    <3>3. CASE x \in 0..k.k-1
      BY <1>5, <1>7, <1>14, <3>1, <3>3
    <3> QED
      BY <3>1, <3>2, <3>3
  <2> QED
    BY <1>5, <1>12, <1>13, <2>1, <2>2 DEF AtDiagonal, first, count
<1>17. ASSUME NEW u \in Tasklets, u # t PROVE AtDiagonal(n, r, c, g, u)
  <2>1. AtDiagonal(m, r, c, g, u) /\ n.tl[u] = m.tl[u] /\ n.in = m.in
    BY <1>1, <1>12, <1>17 DEF Filled
  <2> DEFINE f == Share(m.in, g, u).first
             l == m.tl[u]
  <2>2. \A x \in 0..Share(m.in, g, u).count-1 : f + x \in 0..m.in.h-1 /\ g - (f + x) \in 0..m.in.w-1
    BY <1>3, <1>6, SharesOfDiagonal
  <2>3. Share(m.in, g, u).count \in Nat
    BY <1>3, <1>6, SharesOfDiagonal
  <2>4. CASE l.pc \in {"cells", "barrier"}
    <3>1. /\ l.diag = g /\ l.k \in 0..Share(m.in, g, u).count
          /\ l.pc = "barrier" => l.k = Share(m.in, g, u).count
          /\ \A x \in 0..l.k-1 : m.dp[<<f + x, g - (f + x)>>] = Want(r, c, <<f + x, g - (f + x)>>)
      BY <2>1, <2>4 DEF AtDiagonal
    <3>2. \A x \in 0..l.k-1 : x \in 0..Share(m.in, g, u).count-1
      BY <2>3, <3>1
    <3>3. \A x \in 0..l.k-1 : n.dp[<<f + x, g - (f + x)>>] = Want(r, c, <<f + x, g - (f + x)>>)
      BY <1>14, <2>2, <3>1, <3>2
    <3> QED
      BY <1>5, <2>1, <2>4, <3>1, <3>3 DEF AtDiagonal
  <2>5. CASE l.pc \notin {"cells", "barrier"}
    BY <2>1, <2>5 DEF AtDiagonal
  <2> QED
    BY <2>4, <2>5
<1>18. Filled(n, r, c, g)
  BY <1>12, <1>15, <1>16, <1>17 DEF Filled
<1>19. Working(n, r, c)
  BY <1>2, <1>12, <1>18 DEF Working
<1> QED
  BY <1>19, <1>20 DEF n

LEMMA ShareFilledWorks ==
  ASSUME given \in Jobs, NEW r \in 0..TileRows-1, NEW c \in 0..TileCols-1,
         NEW m, Shaped(m), Working(m, r, c), NEW t \in Tasklets, m.tl[t].pc = "cells",
         NEW k, k = m.tl[t], k.k = Share(m.in, k.diag, t).count
  PROVE  Working([m EXCEPT !.tl[t] = [k EXCEPT !.pc = "barrier"]], r, c)
<1>1. PICK g \in Nat : Filled(m, r, c, g)
  BY DEF Working
<1> DEFINE n == [m EXCEPT !.tl[t] = [k EXCEPT !.pc = "barrier"]]
<1>2. /\ n.in = m.in /\ n.dp = m.dp
      /\ \A u \in Tasklets : n.tl[u] = IF u = t THEN [k EXCEPT !.pc = "barrier"] ELSE m.tl[u]
  BY DEF Shaped
<1>3. [k EXCEPT !.pc = "barrier"] = [pc |-> "barrier", diag |-> k.diag, k |-> k.k]
  <2>1. k = [pc |-> k.pc, diag |-> k.diag, k |-> k.k]
    BY DEF Shaped
  <2> QED
    BY <2>1
<1> HIDE DEF n
<1>4. n.tl[t].pc = "barrier" /\ n.tl[t].diag = k.diag /\ n.tl[t].k = k.k
  BY <1>2, <1>3
<1>5. ASSUME NEW u \in Tasklets PROVE AtDiagonal(n, r, c, g, u)
  <2>1. AtDiagonal(m, r, c, g, u)
    BY <1>1 DEF Filled
  <2>2. CASE u = t
    BY <1>2, <1>4, <2>1, <2>2 DEF AtDiagonal
  <2>3. CASE u # t
    BY <1>2, <2>1, <2>3 DEF AtDiagonal
  <2> QED
    BY <2>2, <2>3
<1>6. Filled(n, r, c, g)
  BY <1>1, <1>2, <1>5 DEF Filled
<1>7. Working(n, r, c)
  BY <1>2, <1>6 DEF Working
<1> QED
  BY <1>7 DEF n

(* Everybody at the barrier: the diagonal is filled, by all shares.        *)
LEMMA BarrierWorks ==
  ASSUME given \in Jobs, NEW r \in 0..TileRows-1, NEW c \in 0..TileCols-1,
         NEW m, Shaped(m), Working(m, r, c), \A t \in Tasklets : m.tl[t].pc = "barrier",
         NEW n, n.in = m.in, n.dp = m.dp,
         \A t \in Tasklets : n.tl[t] = IF m.tl[t].diag + 1 = m.in.h + m.in.w - 1 THEN Idle
                                       ELSE [pc |-> "cells", diag |-> m.tl[t].diag + 1, k |-> 0]
  PROVE  Working(n, r, c)
<1>1. PICK g \in Nat : Filled(m, r, c, g)
  BY DEF Working
<1>2. Sent(m.in, r, c)
  BY DEF Working
<1>3. m.in.h \in 1..TileSz /\ m.in.w \in 1..TileSz /\ TileSz \in Nat /\ given.nt \in Nat \ {0}
  BY <1>2, SentSize, JobTypes
<1>4. ASSUME NEW t \in Tasklets
      PROVE  /\ m.tl[t].diag = g /\ g < m.in.h + m.in.w - 1
             /\ m.tl[t].k = Share(m.in, g, t).count
             /\ \A x \in 0..m.tl[t].k-1 :
                  m.dp[<<Share(m.in, g, t).first + x, g - (Share(m.in, g, t).first + x)>>]
                    = Want(r, c, <<Share(m.in, g, t).first + x, g - (Share(m.in, g, t).first + x)>>)
  <2>1. AtDiagonal(m, r, c, g, t)
    BY <1>1 DEF Filled
  <2> QED
    BY <2>1 DEF AtDiagonal
<1>5. 0 \in Tasklets
  BY <1>3 DEF Tasklets
<1>6. g \in 0..m.in.h+m.in.w-2 /\ g + 1 \in Nat /\ g + 1 <= m.in.h + m.in.w - 1
  BY <1>3, <1>4, <1>5
<1>7. ASSUME NEW i \in 0..m.in.h-1, NEW j \in 0..m.in.w-1, i + j < g + 1
      PROVE  m.dp[<<i, j>>] = Want(r, c, <<i, j>>)
  <2>1. CASE i + j < g
    BY <1>1, <2>1 DEF Filled
  <2>2. CASE i + j = g
    <3>1. j = g - i /\ g - i \in 0..m.in.w-1
      BY <1>3, <2>2
    <3>4. \A y \in 0..m.in.h-1 : g - y \in 0..m.in.w-1 =>
             \E t \in Tasklets : \E x \in 0..Share(m.in, g, t).count-1 :
               y = Share(m.in, g, t).first + x
      <4>1. PICK in : in = m.in
        OBVIOUS
      <4>2. in.h \in Nat \ {0} /\ in.w \in Nat \ {0} /\ g \in 0..in.h+in.w-2
        BY <1>3, <1>6, <4>1
      <4>3. \A y \in 0..in.h-1 : g - y \in 0..in.w-1 =>
              \E t \in Tasklets : \E x \in 0..Share(in, g, t).count-1 :
                y = Share(in, g, t).first + x
        BY <1>3, <4>2, SharesOfDiagonal
      <4> QED
        BY <4>1, <4>3
    <3>2. PICK t \in Tasklets : \E x \in 0..Share(m.in, g, t).count-1 : i = Share(m.in, g, t).first + x
      BY <3>1, <3>4
    <3>3. PICK x \in 0..Share(m.in, g, t).count-1 : i = Share(m.in, g, t).first + x
      BY <3>2
    <3> QED
      BY <1>4, <3>1, <3>3
  <2> QED
    BY <1>3, <1>6, <1>7, <2>1, <2>2
<1>8. ASSUME NEW t \in Tasklets PROVE AtDiagonal(n, r, c, g + 1, t)
  <2>1. m.tl[t].diag = g
    BY <1>4
  <2>2. CASE g + 1 = m.in.h + m.in.w - 1
    <3>1. n.tl[t] = Idle
      BY <2>1, <2>2
    <3> QED
      BY <2>2, <3>1 DEF AtDiagonal, Idle
  <2>3. CASE g + 1 # m.in.h + m.in.w - 1
    <3>1. n.tl[t] = [pc |-> "cells", diag |-> g + 1, k |-> 0]
      BY <2>1, <2>3
    <3>2. g + 1 < m.in.h + m.in.w - 1
      BY <1>3, <1>6, <2>3
    <3>3. Share(m.in, g + 1, t).count \in Nat
      <4>1. g + 1 \in 0..m.in.h+m.in.w-2
        BY <1>3, <1>6, <3>2
      <4> QED
        BY <1>3, <4>1, SharesOfDiagonal
    <3> QED
      BY <3>1, <3>2, <3>3 DEF AtDiagonal
  <2> QED
    BY <2>2, <2>3
<1>9. Filled(n, r, c, g + 1)
  BY <1>7, <1>8 DEF Filled
<1> QED
  BY <1>2, <1>6, <1>9 DEF Working

(* A DPU whose tasklets have returned has filled its tile.                 *)
LEMMA ReturnedIsFilled ==
  ASSUME given \in Jobs, NEW r \in 0..TileRows-1, NEW c \in 0..TileCols-1,
         NEW m, Working(m, r, c), \A t \in Tasklets : m.tl[t].pc = "off"
  PROVE  \A i \in 0..Extent(Len1, r)-1, j \in 0..Extent(Len2, c)-1 :
           m.dp[<<i, j>>] = Want(r, c, <<i, j>>)
<1>1. PICK g \in Nat : Filled(m, r, c, g)
  BY DEF Working
<1>2. m.in.h = Extent(Len1, r) /\ m.in.w = Extent(Len2, c)
  BY DEF Working, Sent
<1>3. m.in.h \in 1..TileSz /\ m.in.w \in 1..TileSz /\ TileSz \in Nat /\ given.nt \in Nat \ {0}
  BY SentSize, JobTypes DEF Working
<1>4. 0 \in Tasklets
  BY <1>3 DEF Tasklets
<1>5. g = m.in.h + m.in.w - 1
  BY <1>1, <1>4 DEF Filled, AtDiagonal
<1>6. \A i \in 0..m.in.h-1, j \in 0..m.in.w-1 : i + j < g
  BY <1>3, <1>5
<1> QED
  BY <1>1, <1>2, <1>6 DEF Filled

-----------------------------------------------------------------------------
(* The steps of the system *)

(* The host begins with the borders of the table.                          *)
LEMMA NwInit == Init => NwInv
<1> SUFFICES ASSUME Init PROVE NwInv
  OBVIOUS
<1>1. given \in Jobs /\ Len1 \in Nat /\ Len2 \in Nat /\ TileRows \in Nat \ {0} /\ TileCols \in Nat \ {0}
  BY JobTypes DEF Init
<1>2. host = [pc |-> "send", wave |-> 0, dp |-> Border] /\ Border = [c \in Table |-> Border[c]]
  BY DEF Init, Border, Table
<1>3. NwShape
  <2>1. \A d \in Dpus : Shaped(dpu[d])
    BY DEF Init, Shaped, Idle
  <2>2. dpu = [d \in Dpus |-> dpu[d]]
    BY DEF Init
  <2> QED
    BY <1>1, <1>2, <2>1, <2>2 DEF NwShape
<1>4. 0 \in 0..Waves /\ 0 < Waves
  BY <1>1 DEF Waves
<1>5. Known(0)
  <2> SUFFICES ASSUME NEW i \in 0..Len1, NEW j \in 0..Len2,
                      i = 0 \/ j = 0 \/ TileAt(i) + TileAt(j) < 0
               PROVE  Border[<<i, j>>] = Ref[<<i, j>>]
    BY <1>2 DEF Known, Table
  <2>1. i = 0 \/ j = 0
    <3>1. i # 0 /\ j # 0 => i \in 1..Len1 /\ j \in 1..Len2
      BY <1>1
    <3>2. i # 0 /\ j # 0 => TileAt(i) \in Nat /\ TileAt(j) \in Nat
      BY <1>1, <3>1, Grid
    <3> QED
      BY <3>2
  <2>2. Ref[<<i, j>>] = IF i = 0 THEN j * Gap ELSE i * Gap
    BY <1>1, <2>1, RefRecursion
  <2>3. Border[<<i, j>>] = IF i = 0 THEN j * Gap ELSE i * Gap
    BY <2>1 DEF Border
  <2> QED
    BY <2>2, <2>3
<1> QED
  BY <1>2, <1>3, <1>4, <1>5 DEF NwInv

(* The host sets a DPU's input and starts its tasklets.                    *)
LEMMA InTlExcept ==
  ASSUME NEW m, Shaped(m)
  PROVE  \A in, tl : [m EXCEPT !.in = in, !.tl = tl] = [in |-> in, dp |-> m.dp, tl |-> tl]
<1>1. PICK x, y, z : m = [in |-> x, dp |-> y, tl |-> z]
  BY DEF Shaped
<1>2. ASSUME NEW a, NEW b
      PROVE  [m EXCEPT !.in = a, !.tl = b] = [in |-> a, dp |-> m.dp, tl |-> b]
  <2>1. PICK n : n = [m EXCEPT !.in = a]
    OBVIOUS
  <2>2. n = [in |-> a, dp |-> y, tl |-> z]
    BY <1>1, <2>1
  <2>3. [n EXCEPT !.tl = b] = [in |-> a, dp |-> y, tl |-> b]
    BY <2>2
  <2>4. [m EXCEPT !.in = a, !.tl = b] = [n EXCEPT !.tl = b]
    BY <2>1
  <2> QED
    BY <1>1, <2>3, <2>4
<1> QED
  BY <1>2

(* The tiles of a wave go out with right borders.                          *)
LEMMA SendKeeps == NwInv /\ Send => NwInv'
<1> SUFFICES ASSUME NwInv, Send PROVE NwInv'
  OBVIOUS
<1> DEFINE w == host.wave
           n == Cardinality(TilesOf(w))
<1>1. /\ given \in Jobs /\ given' = given
      /\ host.pc = "send" /\ w \in 0..Waves /\ w < Waves /\ Known(w)
      /\ host' = [pc |-> "wait", wave |-> w, dp |-> host.dp]
  BY DEF NwInv, NwShape, Send
<1>2. w \in 0..Waves-1
  BY <1>1, JobTypes DEF Waves
<1>3. /\ n \in Int
      /\ \A d \in 0..n-1 : \E r \in 0..TileRows-1, c \in 0..TileCols-1 :
           TileFor(w, d) = <<r, c>> /\ r + c = w
  BY <1>1, <1>2, TilesOfWave
<1> DEFINE new(d) == [in |-> IF d < n THEN TileIn(TileFor(w, d)[1], TileFor(w, d)[2]) ELSE dpu[d].in,
                      dp |-> dpu[d].dp,
                      tl |-> [t \in Tasklets |-> [Idle EXCEPT !.pc = "start"]]]
<1>4. dpu' = [d \in Dpus |-> new(d)]
  <2>1. dpu' = [d \in Dpus |-> [dpu[d] EXCEPT
           !.in = IF d < n THEN TileIn(TileFor(w, d)[1], TileFor(w, d)[2]) ELSE @,
           !.tl = [t \in Tasklets |-> [Idle EXCEPT !.pc = "start"]]]]
    BY Zenon DEF Send
  <2>2. \A d \in Dpus : Shaped(dpu[d])
    BY DEF NwInv, NwShape
  <2>3. ASSUME NEW d \in Dpus
        PROVE  [dpu[d] EXCEPT
           !.in = IF d < n THEN TileIn(TileFor(w, d)[1], TileFor(w, d)[2]) ELSE @,
           !.tl = [t \in Tasklets |-> [Idle EXCEPT !.pc = "start"]]] = new(d)
    <3> DEFINE in == IF d < n THEN TileIn(TileFor(w, d)[1], TileFor(w, d)[2]) ELSE dpu[d].in
               tl == [t \in Tasklets |-> [Idle EXCEPT !.pc = "start"]]
    <3>1. [dpu[d] EXCEPT !.in = in, !.tl = tl] = [in |-> in, dp |-> dpu[d].dp, tl |-> tl]
      <4> HIDE DEF in, tl, new
      <4> QED
        BY <2>2, InTlExcept
    <3> QED
      BY <3>1, Zenon
  <2> HIDE DEF new
  <2> QED
    BY <2>1, <2>3, Zenon
<1>5. \A d \in Dpus : Shaped(new(d))
  BY DEF NwInv, NwShape, Shaped, Idle
<1>6. ASSUME NEW d \in Dpus, d < n
      PROVE  \E r \in 0..TileRows-1, c \in 0..TileCols-1 :
               TileFor(w, d) = <<r, c>> /\ Working(new(d), r, c)
  <2>1. d \in 0..n-1
    BY <1>1, <1>3, <1>6, JobTypes DEF Dpus
  <2>2. PICK r \in 0..TileRows-1, c \in 0..TileCols-1 : TileFor(w, d) = <<r, c>> /\ r + c = w
    BY <1>3, <2>1
  <2>3. Sent(TileIn(r, c), r, c)
    BY <1>1, <2>2, TileInIsRight
  <2>4. new(d).in = TileIn(r, c) /\ \A t \in Tasklets : new(d).tl[t].pc = "start"
    BY <1>6, <2>2 DEF Idle
  <2> HIDE DEF new
  <2>5. TileIn(r, c).h \in Nat /\ TileIn(r, c).w \in Nat
    BY <1>1, <2>3, SentSize, JobTypes
  <2>6. Filled(new(d), r, c, 0)
    BY <2>4, <2>5 DEF Filled, AtDiagonal
  <2>7. Working(new(d), r, c)
    BY <2>3, <2>4, <2>6 DEF Working
  <2> QED
    BY <2>2, <2>7
<1> HIDE DEF new
<1>7. Launched'
  <2>1. \A d \in Dpus : d < n =>
          \E r \in 0..TileRows-1, c \in 0..TileCols-1 :
            TileFor(w, d) = <<r, c>> /\ Working(dpu'[d], r, c)
    BY <1>4, <1>6
  <2>2. host'.wave = w
    BY <1>1
  <2> QED
    BY <1>1, <2>1, <2>2, GivenStays DEF Launched
<1>8. NwShape'
  <2>1. \A d \in Dpus : Shaped(dpu'[d])
    BY <1>4, <1>5
  <2>2. dpu' = [d \in Dpus |-> dpu'[d]]
    BY <1>4
  <2> QED
    BY <1>1, <2>1, <2>2, GivenStays DEF NwInv, NwShape
<1>9. Known(w)'
  BY <1>1, GivenStays DEF Known
<1> QED
  BY <1>1, <1>7, <1>8, <1>9, GivenStays DEF NwInv

(* One DPU changes its own memory, and keeps its tile right as far as it   *)
(* has come.                                                               *)
LEMMA OneDpuKeeps ==
  ASSUME NwInv, host' = host, given' = given, NEW d \in Dpus, NEW m, Shaped(m),
         dpu' = [dpu EXCEPT ![d] = m],
         \A r \in 0..TileRows-1, c \in 0..TileCols-1 : Working(dpu[d], r, c) => Working(m, r, c)
  PROVE  NwInv'
<1>1. dpu = [e \in Dpus |-> dpu[e]]
  BY DEF NwInv, NwShape
<1>2. /\ dpu' = [e \in Dpus |-> dpu'[e]]
      /\ \A e \in Dpus : dpu'[e] = IF e = d THEN m ELSE dpu[e]
  BY <1>1
<1>3. NwShape'
  <2>1. \A e \in Dpus : Shaped(dpu'[e])
    BY <1>2 DEF NwInv, NwShape
  <2> QED
    BY <1>2, <2>1, GivenStays DEF NwInv, NwShape
<1>4. Known(host.wave)' <=> Known(host.wave)
  BY GivenStays DEF Known
<1>5. Launched => Launched'
  <2> SUFFICES ASSUME Launched PROVE Launched'
    OBVIOUS
  <2>1. \A e \in Dpus : e < Cardinality(TilesOf(host.wave)) =>
          \E r \in 0..TileRows-1, c \in 0..TileCols-1 :
            TileFor(host.wave, e) = <<r, c>> /\ Working(dpu'[e], r, c)
    BY <1>2 DEF Launched
  <2> QED
    BY <2>1, GivenStays DEF Launched
<1> QED
  BY <1>3, <1>4, <1>5, GivenStays DEF NwInv

(* A tasklet's state is its own.                                           *)
LEMMA PutShaped ==
  ASSUME NEW m, Shaped(m), NEW t \in Tasklets, NEW k, k = [pc |-> k.pc, diag |-> k.diag, k |-> k.k]
  PROVE  Shaped([m EXCEPT !.tl[t] = k])
<1> DEFINE n == [m EXCEPT !.tl[t] = k]
<1>1. PICK x, y, z : m = [in |-> x, dp |-> y, tl |-> z] /\ z = [u \in Tasklets |-> z[u]]
  BY DEF Shaped
<1>2. n = [in |-> x, dp |-> y, tl |-> [z EXCEPT ![t] = k]]
  BY <1>1
<1>3. /\ y = [c \in Cell |-> y[c]]
      /\ \A u \in Tasklets : z[u] = [pc |-> z[u].pc, diag |-> z[u].diag, k |-> z[u].k]
  BY <1>1 DEF Shaped
<1>4. PICK v : v = [z EXCEPT ![t] = k]
  OBVIOUS
<1>5. v = [u \in Tasklets |-> v[u]] /\ \A u \in Tasklets : v[u] = IF u = t THEN k ELSE z[u]
  BY <1>1, <1>4
<1>6. n.in = x /\ n.dp = y /\ n.tl = v /\ n = [in |-> x, dp |-> y, tl |-> v]
  BY <1>2, <1>4
<1> HIDE DEF n
<1>7. \A u \in Tasklets : v[u] = [pc |-> v[u].pc, diag |-> v[u].diag, k |-> v[u].k]
  BY <1>3, <1>5
<1>8. Shaped(n)
  BY <1>3, <1>5, <1>6, <1>7 DEF Shaped
<1> QED
  BY <1>8 DEF n

LEMMA StartKeeps == ASSUME NwInv, NEW d \in Dpus, NEW t \in Tasklets, Start(d, t) PROVE NwInv'
<1> DEFINE m == dpu[d]
           k == IF m.in.h = 0 \/ m.in.w = 0 THEN Idle ELSE [Idle EXCEPT !.pc = "cells"]
<1>1. /\ given \in Jobs /\ Shaped(m) /\ m.tl[t].pc = "start"
      /\ dpu' = [dpu EXCEPT ![d] = [m EXCEPT !.tl[t] = k]]
      /\ host' = host /\ given' = given
  BY DEF NwInv, NwShape, Start, Put, At
<1>2. k = [pc |-> k.pc, diag |-> k.diag, k |-> k.k]
  BY DEF Idle
<1>3. Shaped([m EXCEPT !.tl[t] = k])
  BY <1>1, <1>2, PutShaped
<1>4. ASSUME NEW r \in 0..TileRows-1, NEW c \in 0..TileCols-1, Working(m, r, c)
      PROVE  Working([m EXCEPT !.tl[t] = k], r, c)
  <2>1. m.in.h \in 1..TileSz /\ m.in.w \in 1..TileSz
    BY <1>1, <1>4, SentSize DEF Working
  <2>2. k = [Idle EXCEPT !.pc = "cells"]
    BY <1>1, <2>1, JobTypes
  <2> QED
    BY <1>1, <1>4, <2>2, StartWorks
<1> HIDE DEF m, k
<1> QED
  BY <1>1, <1>3, <1>4, OneDpuKeeps DEF m

LEMMA FillCellKeeps == ASSUME NwInv, NEW d \in Dpus, NEW t \in Tasklets, FillCell(d, t) PROVE NwInv'
<1>1. PICK m, k : m = dpu[d] /\ k = m.tl[t]
  OBVIOUS
<1>2. /\ given \in Jobs /\ Shaped(m) /\ k.pc = "cells" /\ host' = host /\ given' = given
      /\ k = [pc |-> k.pc, diag |-> k.diag, k |-> k.k]
  BY <1>1 DEF NwInv, NwShape, Shaped, FillCell, Put, At
<1>3. CASE k.k = Share(m.in, k.diag, t).count
  <2> DEFINE n == [m EXCEPT !.tl[t] = [k EXCEPT !.pc = "barrier"]]
  <2>1. dpu' = [dpu EXCEPT ![d] = n]
    BY <1>1, <1>3 DEF FillCell, Put
  <2>2. Shaped(n)
    <3>1. PICK l : l = [k EXCEPT !.pc = "barrier"]
      OBVIOUS
    <3>2. l = [pc |-> l.pc, diag |-> l.diag, k |-> l.k]
      BY <1>2, <3>1
    <3> QED
      BY <1>2, <3>1, <3>2, PutShaped
  <2>3. ASSUME NEW r \in 0..TileRows-1, NEW c \in 0..TileCols-1, Working(m, r, c)
        PROVE  Working(n, r, c)
    BY <1>1, <1>2, <1>3, <2>3, ShareFilledWorks
  <2> HIDE DEF n
  <2> QED
    BY <1>1, <1>2, <2>1, <2>2, <2>3, OneDpuKeeps
<1>4. CASE k.k # Share(m.in, k.diag, t).count
  <2>1. PICK i, j : i = Share(m.in, k.diag, t).first + k.k /\ j = k.diag - i
    OBVIOUS
  <2>6. PICK o, n : /\ o = [m EXCEPT !.dp[<<i, j>>] = CellOf(m, i, j)]
                    /\ n = [o EXCEPT !.tl[t] = [k EXCEPT !.k = @ + 1]]
    OBVIOUS
  <2>2. dpu' = [dpu EXCEPT ![d] = n]
    BY <1>1, <1>4, <2>1, <2>6 DEF FillCell, Put
  <2>3. Shaped(o)
    <3>1. PICK x, y, z : m = [in |-> x, dp |-> y, tl |-> z] /\ y = [c \in Cell |-> y[c]]
      BY <1>2 DEF Shaped
    <3>2. o = [in |-> x, dp |-> [y EXCEPT ![<<i, j>>] = CellOf(m, i, j)], tl |-> z]
      BY <2>6, <3>1
    <3>3. PICK v : v = [y EXCEPT ![<<i, j>>] = CellOf(m, i, j)] /\ v = [c \in Cell |-> v[c]]
      BY <3>1
    <3>4. o.in = x /\ o.dp = v /\ o.tl = z /\ m.tl = z /\ o = [in |-> x, dp |-> v, tl |-> z]
      BY <3>1, <3>2, <3>3
    <3> QED
      BY <1>2, <3>3, <3>4 DEF Shaped
  <2>4. Shaped(n)
    <3>1. PICK l : l = [k EXCEPT !.k = @ + 1]
      OBVIOUS
    <3>2. l = [pc |-> l.pc, diag |-> l.diag, k |-> l.k]
      BY <1>2, <3>1
    <3> QED
      BY <2>3, <2>6, <3>1, <3>2, PutShaped
  <2>5. ASSUME NEW r \in 0..TileRows-1, NEW c \in 0..TileCols-1, Working(m, r, c)
        PROVE  Working(n, r, c)
    <3>1. Filling(m, t, n)
      BY <1>1, <1>2, <1>4, <2>1, <2>6 DEF Filling
    <3> QED
      BY <1>2, <2>5, <3>1, CellWorks
  <2> QED
    BY <1>1, <1>2, <2>2, <2>4, <2>5, OneDpuKeeps
<1> QED
  BY <1>3, <1>4

LEMMA BarrierKeeps == ASSUME NwInv, NEW d \in Dpus, Barrier(d) PROVE NwInv'
<1>1. PICK m : m = dpu[d]
  OBVIOUS
<1>2. /\ given \in Jobs /\ Shaped(m) /\ \A t \in Tasklets : m.tl[t].pc = "barrier"
      /\ host' = host /\ given' = given
  BY <1>1 DEF NwInv, NwShape, Barrier, At
<1> DEFINE tl == [t \in Tasklets |-> IF m.tl[t].diag + 1 = m.in.h + m.in.w - 1 THEN Idle
                                     ELSE [pc |-> "cells", diag |-> m.tl[t].diag + 1, k |-> 0]]
           n == [m EXCEPT !.tl = tl]
<1>3. dpu' = [dpu EXCEPT ![d] = n]
  BY <1>1 DEF Barrier
<1>4. n = [in |-> m.in, dp |-> m.dp, tl |-> tl]
  <2>1. PICK x, y, z : m = [in |-> x, dp |-> y, tl |-> z]
    BY <1>2 DEF Shaped
  <2> HIDE DEF tl
  <2> QED
    BY <2>1
<1>5. n.in = m.in /\ n.dp = m.dp /\ n.tl = tl
  BY <1>4
<1> HIDE DEF n
<1>6. Shaped(n)
  <2>1. \A t \in Tasklets : tl[t] = [pc |-> tl[t].pc, diag |-> tl[t].diag, k |-> tl[t].k]
    BY DEF Idle
  <2>2. tl = [t \in Tasklets |-> tl[t]]
    OBVIOUS
  <2> HIDE DEF tl
  <2> QED
    BY <1>2, <1>4, <1>5, <2>1, <2>2 DEF Shaped
<1>7. ASSUME NEW r \in 0..TileRows-1, NEW c \in 0..TileCols-1, Working(m, r, c)
      PROVE  Working(n, r, c)
  BY <1>2, <1>5, <1>7, BarrierWorks
<1> QED
  BY <1>1, <1>2, <1>3, <1>6, <1>7, OneDpuKeeps

LEMMA HostExcept ==
  ASSUME NEW m, m = [pc |-> m.pc, wave |-> m.wave, dp |-> m.dp]
  PROVE  \A a, b, c : [m EXCEPT !.pc = a, !.wave = b, !.dp = c] = [pc |-> a, wave |-> b, dp |-> c]
<1>1. ASSUME NEW a, NEW b, NEW c
      PROVE  [m EXCEPT !.pc = a, !.wave = b, !.dp = c] = [pc |-> a, wave |-> b, dp |-> c]
  <2>1. PICK n : n = [m EXCEPT !.pc = a]
    OBVIOUS
  <2>2. n = [pc |-> a, wave |-> m.wave, dp |-> m.dp]
    BY <2>1
  <2>3. PICK o : o = [n EXCEPT !.wave = b]
    OBVIOUS
  <2>4. o = [pc |-> a, wave |-> b, dp |-> m.dp]
    BY <2>2, <2>3
  <2>5. [o EXCEPT !.dp = c] = [pc |-> a, wave |-> b, dp |-> c]
    BY <2>4
  <2>6. [m EXCEPT !.pc = a, !.wave = b, !.dp = c] = [o EXCEPT !.dp = c]
    BY <2>1, <2>3
  <2> QED
    BY <2>5, <2>6
<1> QED
  BY <1>1

(* The filled tiles of a wave are put in their places (hostApp/NW.c:196).  *)
LEMMA CollectKeeps == NwInv /\ Collect => NwInv'
<1> SUFFICES ASSUME NwInv, Collect PROVE NwInv'
  OBVIOUS
<1> DEFINE tile(c) == <<(c[1] - 1) \div TileSz, (c[2] - 1) \div TileSz>>
           cell(c) == <<(c[1] - 1) % TileSz, (c[2] - 1) % TileSz>>
           by(w, c) == CHOOSE d \in Dpus : TileFor(w, d) = tile(c)
           dp(w) == [c \in Table |-> IF c[1] > 0 /\ c[2] > 0 /\ tile(c) \in TilesOf(w)
                                     THEN dpu[by(w, c)].dp[cell(c)] ELSE host.dp[c]]
<1>1. PICK w : w = host.wave
  OBVIOUS
<1>2. /\ given \in Jobs /\ given' = given /\ dpu' = dpu /\ NwShape
      /\ host.pc = "wait" /\ w \in 0..Waves /\ w < Waves /\ Known(w) /\ Launched
      /\ \A d \in Dpus, t \in Tasklets : dpu[d].tl[t].pc = "off"
  BY <1>1 DEF NwInv, NwShape, Collect, vars
<1>3. host' = [pc |-> IF w + 1 = Waves THEN "done" ELSE "send", wave |-> w + 1, dp |-> dp(w)]
  <2>1. /\ host = [pc |-> host.pc, wave |-> host.wave, dp |-> host.dp]
        /\ DOMAIN host.dp = Table
    BY <1>2 DEF NwShape
  <2> DEFINE a == IF host.wave + 1 = Waves THEN "done" ELSE "send"
             h == host.wave + 1
  <2>2. host' = [host EXCEPT !.pc = a, !.wave = h, !.dp = dp(host.wave)]
    <3>1. dp(host.wave) = [c \in DOMAIN host.dp |->
            IF c[1] > 0 /\ c[2] > 0 /\ tile(c) \in TilesOf(host.wave)
            THEN dpu[by(host.wave, c)].dp[cell(c)] ELSE host.dp[c]]
      BY <2>1, Zenon
    <3> QED
      BY <3>1, Zenon DEF Collect
  <2> HIDE DEF a, h, dp
  <2>3. host' = [pc |-> a, wave |-> h, dp |-> dp(host.wave)]
    BY <2>1, <2>2, HostExcept, Zenon
  <2> QED
    BY <1>1, <2>3 DEF a, h
<1>4. w \in 0..Waves-1 /\ w + 1 \in 0..Waves /\ (w + 1 = Waves \/ w + 1 < Waves)
  BY <1>2, JobTypes DEF Waves
<1>5. Table = (0..Len1) \X (0..Len2) /\ Len1 \in Nat /\ Len2 \in Nat
  BY <1>2, JobTypes DEF Table
<1>6. ASSUME NEW i \in 1..Len1, NEW j \in 1..Len2, TileAt(i) + TileAt(j) = w
      PROVE  dp(w)[<<i, j>>] = Ref[<<i, j>>]
  <2>1. PICK r, c : r = TileAt(i) /\ c = TileAt(j)
    OBVIOUS
  <2>2. /\ r \in 0..TileRows-1 /\ c \in 0..TileCols-1 /\ r + c = w
        /\ (i - 1) % TileSz \in 0..Extent(Len1, r)-1 /\ i = r * TileSz + 1 + ((i - 1) % TileSz)
        /\ (j - 1) % TileSz \in 0..Extent(Len2, c)-1 /\ j = c * TileSz + 1 + ((j - 1) % TileSz)
    BY <1>2, <1>6, <2>1, Grid
  <2>3. tile(<<i, j>>) = <<r, c>> /\ cell(<<i, j>>) = <<(i - 1) % TileSz, (j - 1) % TileSz>>
    BY <2>1 DEF TileAt
  <2>4. <<r, c>> \in TilesOf(w)
    BY <1>2, <1>4, <2>2, TilesOfWave
  <2>5. PICK d \in 0..Cardinality(TilesOf(w))-1 : TileFor(w, d) = <<r, c>>
    BY <1>2, <1>4, <2>4, TilesOfWave
  <2>6. Cardinality(TilesOf(w)) \in 0..given.dpus /\ given.dpus \in Nat
    BY <1>2, <1>4, TilesOfWave, JobTypes
  <2>7. d \in Dpus /\ d < Cardinality(TilesOf(w)) /\ Dpus \subseteq Int
    BY <2>6 DEF Dpus
  <2>8. by(w, <<i, j>>) = d
    <3>1. \A e \in Dpus : TileFor(w, e) = <<r, c>> => e = d
      <4>1. \A a, b \in Int : TileFor(w, a) = TileFor(w, b) => a = b
        BY <1>2, <1>4, TilesOfWave
      <4> QED
        BY <2>5, <2>7, <4>1
    <3> QED
      BY <2>3, <2>5, <2>7, <3>1
  <2>9. PICK a \in 0..TileRows-1, b \in 0..TileCols-1 :
          TileFor(w, d) = <<a, b>> /\ Working(dpu[d], a, b)
    BY <1>1, <1>2, <2>7 DEF Launched
  <2>10. a = r /\ b = c
    BY <2>5, <2>9
  <2>11. dpu[d].dp[<<(i - 1) % TileSz, (j - 1) % TileSz>>]
           = Want(r, c, <<(i - 1) % TileSz, (j - 1) % TileSz>>)
    BY <1>2, <2>2, <2>7, <2>9, <2>10, ReturnedIsFilled
  <2>12. Want(r, c, <<(i - 1) % TileSz, (j - 1) % TileSz>>) = Ref[<<i, j>>]
    BY <2>2 DEF Want
  <2>13. <<i, j>> \in Table /\ <<i, j>>[1] = i /\ <<i, j>>[2] = j /\ i > 0 /\ j > 0
    BY <1>5
  <2> HIDE DEF tile, cell, by
  <2>14. dp(w)[<<i, j>>] = dpu[by(w, <<i, j>>)].dp[cell(<<i, j>>)]
    BY <2>3, <2>4, <2>13
  <2> QED
    BY <2>3, <2>8, <2>11, <2>12, <2>14
<1>7. ASSUME NEW i \in 0..Len1, NEW j \in 0..Len2,
             i = 0 \/ j = 0 \/ TileAt(i) + TileAt(j) < w
      PROVE  dp(w)[<<i, j>>] = Ref[<<i, j>>]
  <2>1. <<i, j>> \in Table /\ <<i, j>>[1] = i /\ <<i, j>>[2] = j
    BY <1>5
  <2>2. host.dp[<<i, j>>] = Ref[<<i, j>>]
    BY <1>2, <1>7, <2>1 DEF Known
  <2>3. ~(i > 0 /\ j > 0 /\ tile(<<i, j>>) \in TilesOf(w))
    <3> SUFFICES ASSUME i > 0, j > 0, tile(<<i, j>>) \in TilesOf(w) PROVE FALSE
      OBVIOUS
    <3>1. i \in 1..Len1 /\ j \in 1..Len2
      BY <1>5
    <3>2. TileAt(i) \in Int /\ TileAt(j) \in Int
      BY <1>2, <3>1, Grid, JobTypes
    <3>3. tile(<<i, j>>) = <<TileAt(i), TileAt(j)>>
      BY DEF TileAt
    <3>4. TileAt(i) + TileAt(j) = w
      <4> HIDE DEF tile
      <4> QED
        BY <1>2, <1>4, <3>2, <3>3, TilesOfWave
    <3> QED
      BY <1>4, <1>7, <3>2, <3>4
  <2> HIDE DEF tile, cell, by
  <2> QED
    BY <2>1, <2>2, <2>3
<1> HIDE DEF dp
<1>8. \A c \in Table : c[1] = 0 \/ c[2] = 0 \/ TileAt(c[1]) + TileAt(c[2]) < w + 1
                         => dp(w)[c] = Ref[c]
  <2> SUFFICES ASSUME NEW i \in 0..Len1, NEW j \in 0..Len2,
                      i = 0 \/ j = 0 \/ TileAt(i) + TileAt(j) < w + 1
               PROVE  dp(w)[<<i, j>>] = Ref[<<i, j>>]
    BY <1>5
  <2>1. CASE i = 0 \/ j = 0
    BY <1>7, <2>1
  <2>2. CASE i # 0 /\ j # 0
    <3>1. i \in 1..Len1 /\ j \in 1..Len2
      BY <1>5, <2>2
    <3>2. TileAt(i) \in Int /\ TileAt(j) \in Int
      BY <1>2, <3>1, Grid, JobTypes
    <3>3. TileAt(i) + TileAt(j) < w \/ TileAt(i) + TileAt(j) = w
      BY <1>4, <2>2, <3>2
    <3> QED
      BY <1>6, <1>7, <3>1, <3>3
  <2> QED
    BY <2>1, <2>2
<1>9. host'.wave = w + 1 /\ host'.dp = dp(w)
  BY <1>3
<1>10. Known(w + 1)'
  BY <1>1, <1>2, <1>8, <1>9, GivenStays DEF Known
<1>11. NwShape'
  <2>1. dp(w) = [c \in Table |-> dp(w)[c]]
    BY DEF dp
  <2>2. host' = [pc |-> host'.pc, wave |-> host'.wave, dp |-> host'.dp]
    BY <1>3
  <2>3. host'.dp = [c \in Table |-> host'.dp[c]]
    BY <1>9, <2>1
  <2> QED
    BY <1>2, <2>2, <2>3, GivenStays DEF NwShape
<1>12. Known(host.wave)'
  BY <1>9, <1>10
<1> QED
  BY <1>2, <1>3, <1>4, <1>9, <1>11, <1>12, GivenStays DEF NwInv

LEMMA NwStep == NwInv /\ [Next]_vars => NwInv'
<1> SUFFICES ASSUME NwInv, [Next]_vars PROVE NwInv'
  OBVIOUS
<1>1. ASSUME UNCHANGED vars PROVE NwInv'
  <2>1. given' = given /\ host' = host /\ dpu' = dpu
    BY <1>1 DEF vars
  <2>2. Known(host.wave)' <=> Known(host.wave)
    BY <2>1, GivenStays DEF Known
  <2>3. NwShape'
    BY <2>1, GivenStays DEF NwInv, NwShape
  <2>4. Launched' <=> Launched
    BY <2>1, GivenStays DEF Launched
  <2> QED
    BY <2>1, <2>2, <2>3, <2>4, GivenStays DEF NwInv
<1> QED
  BY <1>1, SendKeeps, CollectKeeps, BarrierKeeps, StartKeeps, FillCellKeeps DEF Next

(* After the last wave the whole table is right.                           *)
LEMMA InvGivesTable == NwInv => Aligned
<1> SUFFICES ASSUME NwInv, host.pc = "done" PROVE host.dp = Ref
  BY DEF Aligned
<1>1. /\ given \in Jobs /\ host.wave = Waves /\ Known(host.wave)
      /\ host.dp = [c \in Table |-> host.dp[c]]
  BY DEF NwInv, NwShape
<1>2. Table = (0..Len1) \X (0..Len2) /\ Len1 \in Nat /\ Len2 \in Nat
      /\ TileRows \in Nat /\ TileCols \in Nat
  BY <1>1, JobTypes DEF Table
<1>3. ASSUME NEW i \in 0..Len1, NEW j \in 0..Len2
      PROVE  host.dp[<<i, j>>] = Ref[<<i, j>>]
  <2>1. i = 0 \/ j = 0 \/ TileAt(i) + TileAt(j) < Waves
    <3>1. i # 0 /\ j # 0 => i \in 1..Len1 /\ j \in 1..Len2
      BY <1>2
    <3>2. i # 0 /\ j # 0 => TileAt(i) \in 0..TileRows-1 /\ TileAt(j) \in 0..TileCols-1
      BY <1>1, <3>1, Grid
    <3> QED
      BY <1>2, <3>2 DEF Waves
  <2>2. <<i, j>> \in Table /\ <<i, j>>[1] = i /\ <<i, j>>[2] = j
    BY <1>2
  <2> QED
    BY <1>1, <2>1, <2>2 DEF Known
<1>4. \A c \in Table : host.dp[c] = Ref[c]
  BY <1>2, <1>3
<1>5. Ref = [c \in Table |-> Ref[c]]
  <2>1. Ref = [c \in Table |-> RefCell(Ref, c)]
    BY <1>1, RefIs
  <2> QED
    BY <2>1
<1> QED
  BY <1>1, <1>4, <1>5

(* devApp/NW.c and hostApp/NW.c compute the table of sequential_nw, for    *)
(* any sequences and tiles, if the DPUs are enough for a wave: no cell is  *)
(* filled before the three it needs, whatever the order of the tasklets.   *)
THEOREM Alignment == Spec => []TableIsRef
<1>1. NwInv => TableIsRef
  BY InvGivesTable DEF TableIsRef
<1>2. Spec => []NwInv
  BY NwInit, NwStep, PTL DEF Spec
<1> QED
  BY <1>1, <1>2, PTL

(* The same among the other applications, as run apps has it.              *)
THEOREM AlignmentAmongApps == AppsSpec => []TableIsRef
<1> DEFINE Inv == given.app = "NW" => NwInv
<1>1. AppsInit => Inv
  <2>1. Bfs!Init => given.app # "NW"
    BY BfsAssumption DEF Bfs!Init, Bfs!BfsAssumption
  <2>2. Trns!Init => given.app # "NW"
    BY DEF Trns!Init, TrnsJobs
  <2>3. Sums!Init => given.app # "NW"
    BY DEF Sums!Init, SumJobs
  <2>4. Bins!Init => given.app # "NW"
    BY BinsAssumption DEF Bins!Init, Bins!BinsAssumption
  <2> QED
    BY <2>1, <2>2, <2>3, <2>4, NwInit DEF AppsInit
<1>2. Inv /\ [AppsNext]_vars => Inv'
  <2> SUFFICES ASSUME Inv, [AppsNext]_vars, (given.app = "NW")' PROVE NwInv'
    OBVIOUS
  <2>1. given' = given
    BY DEF AppsNext, vars
  <2>2. given.app = "NW" /\ NwInv
    BY <2>1
  <2>3. [Next]_vars
    BY <2>2 DEF AppsNext
  <2> QED
    BY <2>2, <2>3, NwStep
<1>3. Inv => TableIsRef
  BY InvGivesTable DEF TableIsRef
<1>4. AppsSpec => []Inv
  BY <1>1, <1>2, PTL DEF AppsSpec
<1> QED
  BY <1>3, <1>4, PTL

-----------------------------------------------------------------------------
(***************************************************************************)
(* COMPACT, HST and HSTS: what a tasklet and a DPU keep.  Buffers and the  *)
(* output hold odd numbers and the zeros of the padding.                   *)
(***************************************************************************)
Odds == {x \in Nat : Bins!Odd(x)}
BinPcs == {"off", "init", "barrier", "elements", "barrier2", "leftover", "reserve", "move",
           "flush", "groups", "bin", "add"}
TlType == [pc : BinPcs, i : Nat, buf : Seq(Odds \union {0}), after : {"elements", "off"},
           bins : [Bins!BinsOf -> Nat], at : Nat, tmp : [Bins!BinsOf -> Nat]]
DpuType == [out : Seq(Odds \union {0}), outAt : Nat, bins : [Bins!BinsOf -> Nat],
            ready : SUBSET Bins!BinsOf, locks : SUBSET Nat, tl : [Bins!Tasklets -> TlType]]

(* The elements of a tasklet, and those that fall into a bin.              *)
Mine(t) == {i \in 0..Bins!PerDpu-1 : Bins!Share(t).from <= i /\ i < Bins!Share(t).to}
Falls(b) == {x \in Nat : Bins!BinOf(x) = b}

(* Tasklet k has done what it has to do for bin b with its element i:      *)
(* COMPACT's took it, HST's has passed the bin's group, HSTS's added it.   *)
Past(k, i, b) ==
  \/ k.pc = "off"
  \/ given.app = "COMPACT" /\ i < k.i
  \/ given.app = "HST" /\ k.pc \in {"groups", "add"} /\ b \div BinsPerMutex < k.at
  \/ given.app = "HSTS" /\ i < k.i /\ ~(k.pc \in {"bin", "add"} /\ i = k.i - 1)

(* The elements in V that the tasklets of DPU d are past.                  *)
Went(d, m, V, b) ==
  {i \in 0..Bins!PerDpu-1 : /\ Bins!Elem(d, i) \in V
                            /\ \E t \in Bins!Tasklets : i \in Mine(t) /\ Past(m.tl[t], i, b)}

(* Tasklet l is past what k was past.                                      *)
Onward(k, l, t, b) == \A i \in Mine(t) : Past(k, i, b) => Past(l, i, b)

(* Tasklet u of n is as it was in m, unless it is t.                       *)
Only(m, n, t) == \A u \in Bins!Tasklets : u # t => n.tl[u] = m.tl[u]

(* Where COMPACT has words of V: <<0, p>> in the output, <<t + 1, j>> in   *)
(* the buffer of tasklet t.                                                *)
Holds(m, V, a, j) ==
  IF a = 0 THEN j \in 1..Len(m.out) /\ m.out[j] \in V
  ELSE j \in 1..Len(m.tl[a-1].buf) /\ m.tl[a-1].buf[j] \in V
Places(m, V) == {c \in (0..given.nt) \X Nat : Holds(m, V, c[1], c[2])}

(* What a tasklet has reserved and not yet written.                        *)
Reserved(k) == k.at+1..k.at+Len(k.buf)

(* Before the first barrier nothing has happened.                          *)
Fresh(m) ==
  /\ m.outAt = 0 /\ m.out = <<>> /\ m.bins = Bins!Zeros /\ m.locks = {}
  /\ \A t \in Bins!Tasklets : /\ m.tl[t].pc \in {"init", "barrier"}
                              /\ m.tl[t].i = Bins!Share(t).from
                              /\ m.tl[t].buf = <<>> /\ m.tl[t].after = "elements"

Tasks(m) ==
  /\ m \in DpuType
  /\ \A t \in Bins!Tasklets : m.tl[t].pc # "off" => m.tl[t].i >= Bins!Share(t).from
  /\ (\E t \in Bins!Tasklets : m.tl[t].pc \in {"init", "barrier"}) => Fresh(m)

CompactTl(m, t) ==
  LET k == m.tl[t]
  IN  /\ k.pc \in {"init", "barrier", "elements", "barrier2", "leftover", "reserve",
                   "move", "flush", "off"}
      /\ k.pc = "off" => k.buf = <<>>
      /\ k.pc = "elements" => k.after = "elements"
      /\ \/ k.pc \in {"barrier2", "leftover"}
         \/ k.pc \in {"reserve", "move", "flush"} /\ k.after = "off"
         => k.i >= Bins!Share(t).to
      /\ k.pc = "move" => k.at = m.outAt /\ m.locks # {}
      /\ k.pc = "flush" => /\ k.at + Len(k.buf) <= m.outAt
                           /\ \A p \in Reserved(k) : p <= Len(m.out) => m.out[p] = 0

CompactTogether(m) ==
  /\ \A t, u \in Bins!Tasklets : t # u =>
        /\ ~(m.tl[t].pc = "move" /\ m.tl[u].pc = "move")
        /\ m.tl[t].pc = "flush" /\ m.tl[u].pc = "flush" =>
             Reserved(m.tl[t]) \cap Reserved(m.tl[u]) = {}
  /\ Len(m.out) <= m.outAt
  /\ \A p \in Len(m.out)+1..m.outAt :
        \E t \in Bins!Tasklets : m.tl[t].pc = "flush" /\ p \in Reserved(m.tl[t])

Balanced(d, m) ==
  \A V \in SUBSET Odds : /\ IsFiniteSet(Places(m, V))
                         /\ Cardinality(Places(m, V)) = Cardinality(Went(d, m, V, 0))

BinTl(d, m, t) ==
  LET k == m.tl[t]
  IN  /\ given.app = "HST" =>
           /\ k.pc \in {"elements", "groups", "add", "off"}
           /\ k.pc # "off" => \A b \in Bins!BinsOf :
                k.bins[b] = Cardinality({i \in Mine(t) : i < k.i /\ Bins!Elem(d, i) \in Falls(b)})
           /\ k.pc \in {"groups", "add"} => k.i >= Bins!Share(t).to
      /\ given.app = "HSTS" =>
           /\ k.pc \in {"init", "barrier", "elements", "bin", "add", "off"}
           /\ k.pc \in {"bin", "add"} => /\ k.i - 1 \in Mine(t)
                                         /\ k.at = Bins!BinOf(Bins!Elem(d, k.i - 1))
      /\ k.pc = "add" => /\ k.at \in m.locks
                         /\ \A b \in Bins!BinsUnder(k) : k.tmp[b] = m.bins[b]

BinsTogether(m) ==
  \A t, u \in Bins!Tasklets :
    t # u /\ m.tl[t].pc = "add" /\ m.tl[u].pc = "add" => m.tl[t].at # m.tl[u].at

Added(d, m) == \A b \in Bins!BinsOf : m.bins[b] = Cardinality(Went(d, m, Falls(b), b))

Works(d, m) ==
  /\ Tasks(m)
  /\ given.app = "COMPACT" =>
       (\A t \in Bins!Tasklets : CompactTl(m, t)) /\ CompactTogether(m) /\ Balanced(d, m)
  /\ given.app # "COMPACT" =>
       (\A t \in Bins!Tasklets : BinTl(d, m, t)) /\ BinsTogether(m) /\ Added(d, m)

(* What the host has of the first n DPUs.                                  *)
Collected(n) ==
  IF given.app = "COMPACT"
  THEN host.count = Cardinality({j \in 1..n * Bins!PerDpu : given.dat[j] \in Odds})
  ELSE \A b \in Bins!BinsOf :
         host.bins[b] = Cardinality({j \in 1..n * Bins!PerDpu : given.dat[j] \in Falls(b)})

BinsInv ==
  /\ given \in BinJobs
  /\ host \in [pc : {"launch", "wait", "done"}, next : 0..given.dpus, count : Nat,
               bins : [Bins!BinsOf -> Nat]]
  /\ dpu = [d \in Bins!Dpus |-> dpu[d]]
  /\ host.pc = "launch" => host.next = 0 /\ \A d \in Bins!Dpus : dpu[d] =
       [out |-> <<>>, outAt |-> 0, bins |-> Bins!Zeros, ready |-> {}, locks |-> {},
        tl |-> [t \in Bins!Tasklets |-> Bins!Off]]
  /\ host.pc # "launch" => \A d \in Bins!Dpus : Works(d, dpu[d])
  /\ host.next > 0 => host.pc # "launch" /\ Bins!Ended
  /\ host.pc = "done" => host.next = given.dpus
  /\ Collected(host.next)

-----------------------------------------------------------------------------
LEMMA DividesExactly ==
  ASSUME NEW l \in Nat, NEW c \in Nat \ {0}, l % c = 0
  PROVE  l \div c \in Nat /\ c * (l \div c) = l
OBVIOUS

LEMMA BinJobTypes ==
  ASSUME given \in BinJobs
  PROVE  /\ given.app \in {"COMPACT", "HST", "HSTS"} /\ given.dat \in Seq(Nat)
         /\ given.dpus \in Nat \ {0} /\ given.nt \in Nat \ {0}
         /\ Bins!PerDpu \in Nat /\ given.dpus * Bins!PerDpu = Len(given.dat)
         /\ Bins!Tasklets = 0..given.nt-1 /\ Bins!Dpus = 0..given.dpus-1
         /\ Bins!BinsOf = 0..NumBins-1 /\ 0 \in Bins!BinsOf
         /\ Cap \in Nat \ {0} /\ NumBins \in Nat \ {0} /\ BinsPerMutex \in Nat \ {0}
<1>1. /\ given.app \in {"COMPACT", "HST", "HSTS"} /\ given.dat \in Seq(Nat)
      /\ given.dpus \in Nat \ {0} /\ given.nt \in Nat \ {0}
      /\ Len(given.dat) % given.dpus = 0
      /\ Cap \in Nat \ {0} /\ NumBins \in Nat \ {0} /\ BinsPerMutex \in Nat \ {0}
  BY BinsAssumption DEF Bins!BinsAssumption
<1>2. Len(given.dat) \in Nat
  BY <1>1
<1>3. /\ Len(given.dat) \div given.dpus \in Nat
      /\ given.dpus * (Len(given.dat) \div given.dpus) = Len(given.dat)
  BY <1>1, <1>2, DividesExactly
<1>4. Bins!PerDpu \in Nat /\ given.dpus * Bins!PerDpu = Len(given.dat)
  BY <1>3 DEF Bins!PerDpu
<1>5. /\ Bins!Tasklets = 0..given.nt-1 /\ Bins!Dpus = 0..given.dpus-1
      /\ Bins!BinsOf = 0..NumBins-1
  BY DEF Bins!Tasklets, Bins!Dpus, Bins!BinsOf
<1> QED
  BY <1>1, <1>4, <1>5

LEMMA InBlock ==
  ASSUME NEW s \in Nat, NEW c \in Nat, NEW d \in 0..c-1, NEW i \in 0..s-1
  PROVE  d * s + i + 1 \in 1..c * s
<1> DEFINE x == d * s
           y == (d + 1) * s
           z == c * s
<1>1. y <= z
  BY ProductOrder
<1>2. x \in Nat /\ y = x + s /\ z \in Nat
  OBVIOUS
<1> HIDE DEF x, y, z
<1>3. x + i + 1 \in 1..z
  BY <1>1, <1>2
<1> QED
  BY <1>3 DEF x, z

(* Element i of DPU d is a word of the data.                               *)
LEMMA ElemIsWord ==
  ASSUME given \in BinJobs, NEW d \in Bins!Dpus, NEW i \in 0..Bins!PerDpu-1
  PROVE  /\ d * Bins!PerDpu + i + 1 \in DOMAIN given.dat
         /\ Bins!Elem(d, i) = given.dat[d * Bins!PerDpu + i + 1]
         /\ Bins!Elem(d, i) \in Nat
<1> DEFINE s == Bins!PerDpu
           e == given.dat
           c == given.dpus
<1>1. /\ e \in Seq(Nat) /\ s \in Nat /\ c \in Nat /\ c * s = Len(e)
      /\ d \in 0..c-1 /\ i \in 0..s-1
  BY BinJobTypes
<1>0. Bins!Elem(d, i) = e[d * s + i + 1]
  BY DEF Bins!Elem
<1> HIDE DEF s, e, c
<1>4. d * s + i + 1 \in 1..Len(e)
  BY <1>1, InBlock
<1>5. e[d * s + i + 1] \in Nat
  BY <1>1, <1>4
<1> QED
  BY <1>0, <1>1, <1>4, <1>5 DEF s, e

LEMMA BinsMinOfTwo ==
  ASSUME NEW a \in Int, NEW b \in Int
  PROVE  Bins!Min({a, b}) = IF a <= b THEN a ELSE b
<1> DEFINE m == IF a <= b THEN a ELSE b
<1>1. m \in {a, b} /\ \A y \in {a, b} : m <= y
  OBVIOUS
<1>2. \A x \in {a, b} : (\A y \in {a, b} : x <= y) => x = m
  BY <1>1
<1> HIDE DEF m
<1>3. Bins!Min({a, b}) = m
  BY <1>1, <1>2 DEF Bins!Min
<1> QED
  BY <1>3 DEF m

LEMMA BinsMaxOfTwo ==
  ASSUME NEW a \in Int, NEW b \in Int
  PROVE  Bins!Max({a, b}) = IF a <= b THEN b ELSE a
<1> DEFINE m == IF a <= b THEN b ELSE a
<1>1. m \in {a, b} /\ \A y \in {a, b} : m >= y
  OBVIOUS
<1>2. \A x \in {a, b} : (\A y \in {a, b} : x >= y) => x = m
  BY <1>1
<1> HIDE DEF m
<1>3. Bins!Max({a, b}) = m
  BY <1>1, <1>2 DEF Bins!Max
<1> QED
  BY <1>3 DEF m

LEMMA BinIsBin ==
  ASSUME given \in BinJobs, NEW x \in Nat
  PROVE  Bins!BinOf(x) \in Bins!BinsOf
<1>1. Bins!BinOf(x) = Bins!Min({x, NumBins - 1}) /\ NumBins \in Nat \ {0}
  BY BinJobTypes DEF Bins!BinOf
<1>2. Bins!BinOf(x) = IF x <= NumBins - 1 THEN x ELSE NumBins - 1
  BY <1>1, BinsMinOfTwo
<1> QED
  BY <1>1, <1>2, BinJobTypes

(* COMPACT rounds the share up to an even number: each element still has   *)
(* one tasklet.                                                            *)
LEMMA CompactShares ==
  ASSUME given \in BinJobs, given.app = "COMPACT"
  PROVE  /\ \A t \in Bins!Tasklets : Bins!Share(t).from \in Nat /\ Bins!Share(t).to \in 0..Bins!PerDpu
         /\ \A t, u \in Bins!Tasklets : t < u => Bins!Share(t).to <= Bins!Share(u).from
         /\ \A i \in 0..Bins!PerDpu-1 : \E t \in Bins!Tasklets :
              Bins!Share(t).from <= i /\ i < Bins!Share(t).to
<1> DEFINE n == Bins!PerDpu
           nt == given.nt
           s == Bins!EvenUp(CeilShare(n, nt))
<1>1. n \in Nat /\ nt \in Nat \ {0} /\ Bins!Tasklets = 0..nt-1
  BY BinJobTypes
<1>2. Bins!CeilShare(n, nt) = CeilShare(n, nt)
  BY DEF Bins!CeilShare, CeilShare
<1>3. \A t : Bins!Share(t) = [from |-> t * s, to |-> Bins!Min({(t + 1) * s, n})]
  BY <1>2 DEF Bins!Share, Bins!CompactShare
<1> HIDE DEF n, nt
<1>4. s \in Nat /\ n <= nt * s
  <2> DEFINE c == CeilShare(n, nt)
  <2>1. c \in Nat /\ n <= nt * c
    BY <1>1, CeilShareFits
  <2>2. s = c + (c % 2)
    BY DEF Bins!EvenUp
  <2> HIDE DEF c, s
  <2>3. s \in Nat /\ c <= s
    BY <2>1, <2>2
  <2>4. c * nt <= s * nt
    BY <2>1, <2>3, <1>1, ProductOrder
  <2> QED
    BY <2>1, <2>3, <2>4, <1>1
<1> HIDE DEF s
<1>5. \A t \in 0..nt-1 : /\ t * s \in Nat /\ (t + 1) * s = t * s + s
  BY <1>1, <1>4
<1>6. ASSUME NEW t \in 0..nt-1
      PROVE  /\ Bins!Share(t).from = t * s
             /\ Bins!Share(t).to = IF (t + 1) * s <= n THEN (t + 1) * s ELSE n
  <2>1. (t + 1) * s \in Int /\ n \in Int
    BY <1>1, <1>4, <1>5
  <2>2. Bins!Min({(t + 1) * s, n}) = IF (t + 1) * s <= n THEN (t + 1) * s ELSE n
    BY <2>1, BinsMinOfTwo
  <2> QED
    BY <1>3, <2>2
<1>7. \A t, u \in 0..nt-1 : t < u => (t + 1) * s <= u * s
  BY <1>1, <1>4, ProductOrder
<1>8. ASSUME NEW i \in 0..n-1
      PROVE  \E t \in 0..nt-1 : t * s <= i /\ i < (t + 1) * s
  <2> DEFINE t == i \div s
  <2>1. s # 0
    BY <1>1, <1>4
  <2>2. t \in Nat /\ i % s \in 0..s-1 /\ i = s * t + (i % s)
    BY <1>1, <1>4, <2>1
  <2> HIDE DEF t
  <2>3. t * s < nt * s
    BY <1>1, <1>4, <2>2
  <2>4. t \in 0..nt-1
    BY <1>1, <1>4, <2>2, <2>3, FactorOrder
  <2> QED
    BY <1>4, <1>5, <2>2, <2>4
<1>9. \A t \in 0..nt-1 : Bins!Share(t).from \in Nat /\ Bins!Share(t).to \in 0..n
  BY <1>1, <1>5, <1>6, <1>4
<1>10. ASSUME NEW t \in 0..nt-1, NEW u \in 0..nt-1, t < u
       PROVE  Bins!Share(t).to <= Bins!Share(u).from
  <2>1. (t + 1) * s <= u * s /\ (t + 1) * s \in Int /\ u * s \in Int
    BY <1>4, <1>5, <1>7, <1>10
  <2>2. Bins!Share(u).from = u * s /\ Bins!Share(t).to <= (t + 1) * s
    BY <1>1, <1>6, <2>1
  <2> QED
    BY <1>9, <2>1, <2>2
<1>11. ASSUME NEW i \in 0..n-1
       PROVE  \E t \in 0..nt-1 : Bins!Share(t).from <= i /\ i < Bins!Share(t).to
  <2>1. PICK t \in 0..nt-1 : t * s <= i /\ i < (t + 1) * s
    BY <1>8
  <2>2. Bins!Share(t).from <= i /\ i < Bins!Share(t).to
    BY <1>1, <1>6, <2>1
  <2> QED
    BY <2>2
<1> QED
  BY <1>1, <1>9, <1>10, <1>11 DEF n

LEMMA HistogramShares ==
  ASSUME given \in BinJobs, given.app # "COMPACT"
  PROVE  /\ \A t \in Bins!Tasklets : /\ Bins!Share(t).from \in Int /\ Bins!Share(t).to \in Int
                                     /\ Mine(t) = EvenItems(Bins!PerDpu, given.nt, t)
         /\ \A t \in Bins!Tasklets : Bins!Share(t).from \in Nat
<1> DEFINE n == Bins!PerDpu
           nt == given.nt
<1>1. n \in Nat /\ nt \in Nat \ {0} /\ Bins!Tasklets = 0..nt-1
  BY BinJobTypes
<1>2. \A t : /\ Bins!EvenCount(n, nt, t) = EvenCount(n, nt, t)
             /\ Bins!EvenStart(n, nt, t) = EvenStart(n, nt, t)
             /\ Bins!EvenEnd(n, nt, t) = EvenEnd(n, nt, t)
  BY DEF Bins!EvenCount, EvenCount, Bins!EvenStart, EvenStart, Bins!EvenEnd, EvenEnd
<1>3. \A t : Bins!Share(t).from = EvenStart(n, nt, t) /\ Bins!Share(t).to = EvenEnd(n, nt, t)
  BY <1>2 DEF Bins!Share
<1> HIDE DEF nt
<1>4. \A t \in 0..nt-1 : /\ EvenStart(n, nt, t) \in Nat /\ EvenEnd(n, nt, t) \in Int
  <2> HIDE DEF n
  <2> DEFINE q == n \div nt
             r == n % nt
  <2>1. q \in Nat /\ r \in 0..nt-1
    BY <1>1
  <2>2. \A t \in 0..nt-1 : t * (q + 1) \in Nat /\ q * t \in Nat
    BY <1>1, <2>1
  <2>3. \A t : /\ EvenStart(n, nt, t) = IF t < r THEN t * (q + 1) ELSE r + q * t
               /\ EvenEnd(n, nt, t) = EvenStart(n, nt, t) + (IF t < r THEN q + 1 ELSE q)
    BY DEF EvenStart, EvenEnd, EvenCount
  <2> HIDE DEF q, r
  <2> QED
    BY <2>1, <2>2, <2>3
<1>5. ASSUME NEW t \in 0..nt-1 PROVE Mine(t) = EvenItems(n, nt, t)
  <2>1. EvenItems(n, nt, t) \subseteq 0..n-1
    BY <1>1, EvenSharesPartition
  <2> QED
    BY <1>1, <1>3, <1>4, <2>1 DEF Mine, EvenItems
<1> QED
  BY <1>1, <1>3, <1>4, <1>5 DEF nt

(* Each element of a DPU is one tasklet's, whatever the program.           *)
LEMMA BinShares ==
  ASSUME given \in BinJobs
  PROVE  /\ \A t \in Bins!Tasklets : /\ Bins!Share(t).from \in Nat /\ Bins!Share(t).to \in Int
                                     /\ Mine(t) \subseteq 0..Bins!PerDpu-1
         /\ \A t, u \in Bins!Tasklets : t # u => Mine(t) \cap Mine(u) = {}
         /\ \A i \in 0..Bins!PerDpu-1 : \E t \in Bins!Tasklets : i \in Mine(t)
         /\ \A t \in Bins!Tasklets, i \in Nat :
              i \in Mine(t) <=> /\ i < Bins!PerDpu
                                /\ Bins!Share(t).from <= i /\ i < Bins!Share(t).to
<1>0. /\ Bins!PerDpu \in Nat /\ given.nt \in Nat \ {0} /\ Bins!Tasklets = 0..given.nt-1
  BY BinJobTypes
<1>1. /\ \A t \in Bins!Tasklets : Mine(t) \subseteq 0..Bins!PerDpu-1
      /\ \A t \in Bins!Tasklets, i \in Nat :
              i \in Mine(t) <=> /\ i < Bins!PerDpu
                                /\ Bins!Share(t).from <= i /\ i < Bins!Share(t).to
  BY <1>0 DEF Mine
<1>2. CASE given.app = "COMPACT"
  <2>1. /\ \A t \in Bins!Tasklets : Bins!Share(t).from \in Nat /\ Bins!Share(t).to \in 0..Bins!PerDpu
        /\ \A t, u \in Bins!Tasklets : t < u => Bins!Share(t).to <= Bins!Share(u).from
        /\ \A i \in 0..Bins!PerDpu-1 : \E t \in Bins!Tasklets :
              Bins!Share(t).from <= i /\ i < Bins!Share(t).to
    BY <1>2, CompactShares
  <2>2. \A t, u \in Bins!Tasklets : t < u => Mine(t) \cap Mine(u) = {}
    BY <1>0, <2>1 DEF Mine
  <2>3. \A t, u \in Bins!Tasklets : t # u => Mine(t) \cap Mine(u) = {}
    <3>1. \A t, u \in 0..given.nt-1 : t # u => t < u \/ u < t
      BY <1>0
    <3> QED
      BY <1>0, <2>2, <3>1
  <2>4. \A i \in 0..Bins!PerDpu-1 : \E t \in Bins!Tasklets : i \in Mine(t)
    BY <2>1 DEF Mine
  <2> QED
    BY <1>0, <1>1, <2>1, <2>3, <2>4
<1>3. CASE given.app # "COMPACT"
  <2>1. /\ \A t \in Bins!Tasklets : Mine(t) = EvenItems(Bins!PerDpu, given.nt, t)
        /\ \A t \in Bins!Tasklets : Bins!Share(t).from \in Nat /\ Bins!Share(t).to \in Int
    BY <1>3, HistogramShares
  <2>2. /\ \A i \in 0..Bins!PerDpu-1 : \E t \in 0..given.nt-1 : i \in EvenItems(Bins!PerDpu, given.nt, t)
        /\ \A t, u \in 0..given.nt-1 : t # u =>
             EvenItems(Bins!PerDpu, given.nt, t) \cap EvenItems(Bins!PerDpu, given.nt, u) = {}
    BY <1>0, EvenSharesPartition
  <2> QED
    BY <1>0, <1>1, <2>1, <2>2
<1> QED
  BY <1>2, <1>3

-----------------------------------------------------------------------------
LEMMA PartsFinite ==
  ASSUME given \in BinJobs, NEW S \in SUBSET (0..Bins!PerDpu-1)
  PROVE  IsFiniteSet(S) /\ Cardinality(S) \in Nat
<1>1. IsFiniteSet(0..Bins!PerDpu-1)
  BY BinJobTypes, FS_Interval
<1>2. IsFiniteSet(S)
  BY <1>1, FS_Subset
<1> QED
  BY <1>2, FS_CardinalityType

(* When one tasklet goes on, its newly passed elements come in.            *)
New(d, k, l, t, V, b) ==
  {i \in Mine(t) : Bins!Elem(d, i) \in V /\ ~Past(k, i, b) /\ Past(l, i, b)}

LEMMA WentOn ==
  ASSUME given \in BinJobs, NEW d, NEW m, NEW n, NEW t \in Bins!Tasklets, NEW V, NEW b,
         Only(m, n, t), Onward(m.tl[t], n.tl[t], t, b)
  PROVE  /\ Went(d, n, V, b) = Went(d, m, V, b) \union New(d, m.tl[t], n.tl[t], t, V, b)
         /\ Cardinality(Went(d, n, V, b)) =
              Cardinality(Went(d, m, V, b)) + Cardinality(New(d, m.tl[t], n.tl[t], t, V, b))
<1> DEFINE W == Went(d, m, V, b)
           W2 == Went(d, n, V, b)
           N == New(d, m.tl[t], n.tl[t], t, V, b)
<1>1. /\ \A u \in Bins!Tasklets : Mine(u) \subseteq 0..Bins!PerDpu-1
      /\ \A u, v \in Bins!Tasklets : u # v => Mine(u) \cap Mine(v) = {}
  BY BinShares
<1>2. ASSUME NEW i \in 0..Bins!PerDpu-1
      PROVE  i \in W2 <=> i \in W \/ i \in N
  <2>1. i \in W2 <=> Bins!Elem(d, i) \in V /\ \E u \in Bins!Tasklets : i \in Mine(u) /\ Past(n.tl[u], i, b)
    BY DEF Went
  <2>2. i \in W <=> Bins!Elem(d, i) \in V /\ \E u \in Bins!Tasklets : i \in Mine(u) /\ Past(m.tl[u], i, b)
    BY DEF Went
  <2>3. i \in N <=> i \in Mine(t) /\ Bins!Elem(d, i) \in V /\ ~Past(m.tl[t], i, b) /\ Past(n.tl[t], i, b)
    BY DEF New
  <2> QED
    BY <2>1, <2>2, <2>3 DEF Only, Onward
<1>3. W \subseteq 0..Bins!PerDpu-1 /\ W2 \subseteq 0..Bins!PerDpu-1 /\ N \subseteq 0..Bins!PerDpu-1
  BY <1>1 DEF Went, New
<1>4. W \cap N = {}
  <2> SUFFICES ASSUME NEW i \in W, i \in N PROVE FALSE
    OBVIOUS
  <2>1. i \in Mine(t) /\ ~Past(m.tl[t], i, b)
    BY DEF New
  <2>2. PICK u \in Bins!Tasklets : i \in Mine(u) /\ Past(m.tl[u], i, b)
    BY DEF Went
  <2> QED
    BY <1>1, <2>1, <2>2
<1> HIDE DEF W, W2, N
<1>5. W2 = W \union N
  BY <1>2, <1>3
<1>6. IsFiniteSet(W) /\ IsFiniteSet(N) /\ Cardinality(W) \in Nat /\ Cardinality(N) \in Nat
  BY <1>3, PartsFinite
<1>7. Cardinality(W \cap N) = 0
  BY <1>4, FS_EmptySet
<1>8. Cardinality(W \union N) = Cardinality(W) + Cardinality(N) - Cardinality(W \cap N)
  BY <1>6, FS_Union
<1>9. Cardinality(W2) = Cardinality(W) + Cardinality(N)
  BY <1>5, <1>6, <1>7, <1>8
<1> QED
  BY <1>5, <1>9 DEF W, W2, N

(* When no tasklet goes on, nothing comes in.                              *)
LEMMA WentNot ==
  ASSUME NEW d, NEW m, NEW n, NEW V, NEW b,
         \A u \in Bins!Tasklets : \A i \in Mine(u) : Past(m.tl[u], i, b) <=> Past(n.tl[u], i, b)
  PROVE  Went(d, n, V, b) = Went(d, m, V, b)
BY DEF Went

-----------------------------------------------------------------------------
(* Types of what a DPU of these programs keeps.                            *)
LEMMA BinsTypes ==
  ASSUME given \in BinJobs, NEW m \in DpuType, NEW t \in Bins!Tasklets
  PROVE  /\ m.out \in Seq(Odds \union {0}) /\ m.outAt \in Nat /\ m.bins \in [Bins!BinsOf -> Nat]
         /\ m.locks \in SUBSET Nat /\ m.tl \in [Bins!Tasklets -> TlType] /\ m.tl[t] \in TlType
         /\ m.tl[t].pc \in BinPcs /\ m.tl[t].i \in Nat /\ m.tl[t].buf \in Seq(Odds \union {0})
         /\ m.tl[t].after \in {"elements", "off"} /\ m.tl[t].at \in Nat
         /\ m.tl[t].bins \in [Bins!BinsOf -> Nat] /\ m.tl[t].tmp \in [Bins!BinsOf -> Nat]
         /\ Len(m.out) \in Nat /\ Len(m.tl[t].buf) \in Nat
<1>1. /\ m.out \in Seq(Odds \union {0}) /\ m.outAt \in Nat /\ m.bins \in [Bins!BinsOf -> Nat]
      /\ m.locks \in SUBSET Nat /\ m.tl \in [Bins!Tasklets -> TlType]
  BY DEF DpuType
<1>2. m.tl[t] \in TlType
  BY <1>1
<1>3. /\ m.tl[t].pc \in BinPcs /\ m.tl[t].i \in Nat /\ m.tl[t].buf \in Seq(Odds \union {0})
      /\ m.tl[t].after \in {"elements", "off"} /\ m.tl[t].at \in Nat
      /\ m.tl[t].bins \in [Bins!BinsOf -> Nat] /\ m.tl[t].tmp \in [Bins!BinsOf -> Nat]
  BY <1>2 DEF TlType
<1>4. Len(m.out) \in Nat /\ Len(m.tl[t].buf) \in Nat
  BY <1>1, <1>3
<1> QED
  BY <1>1, <1>2, <1>3, <1>4

(* The bookkeeping of the phases survives the steps after the first barrier. *)
LEMMA TasksGoOn ==
  ASSUME NEW m, Tasks(m), NEW n \in DpuType, NEW t \in Bins!Tasklets, Only(m, n, t),
         given \in BinJobs,
         m.tl[t].pc \notin {"init", "barrier", "off"}, n.tl[t].pc \notin {"init", "barrier"},
         n.tl[t].pc = "off" \/ n.tl[t].i >= m.tl[t].i
  PROVE  Tasks(n)
<1>1. \A u \in Bins!Tasklets : m.tl[u].pc \notin {"init", "barrier"}
  BY DEF Tasks, Fresh
<1>2. \A u \in Bins!Tasklets : n.tl[u].pc \notin {"init", "barrier"}
  BY <1>1 DEF Only
<1>3. m \in DpuType
  BY DEF Tasks
<1>4. n.tl[t].i \in Nat /\ m.tl[t].i \in Nat /\ Bins!Share(t).from \in Nat
  BY <1>3, BinsTypes, BinShares
<1>5. n.tl[t].pc # "off" => n.tl[t].i >= Bins!Share(t).from
  BY <1>4 DEF Tasks
<1> QED
  BY <1>2, <1>5 DEF Tasks, Only

-----------------------------------------------------------------------------
(* COMPACT: the steps that reserve and write nothing leave what the        *)
(* tasklets share as it is.                                                *)
LEMMA CompactGoesOn ==
  ASSUME NEW m, \A u \in Bins!Tasklets : CompactTl(m, u), CompactTogether(m),
         NEW n, NEW t \in Bins!Tasklets, Only(m, n, t),
         n.out = m.out, n.outAt = m.outAt, n.locks = m.locks, m.tl[t].pc # "flush",
         n.tl[t].pc \notin {"move", "flush"}, CompactTl(n, t)
  PROVE  (\A u \in Bins!Tasklets : CompactTl(n, u)) /\ CompactTogether(n)
<1>1. ASSUME NEW u \in Bins!Tasklets, u # t PROVE CompactTl(n, u)
  <2>1. n.tl[u] = m.tl[u] /\ CompactTl(m, u)
    BY <1>1 DEF Only
  <2> QED
    BY <2>1 DEF CompactTl
<1>2. ASSUME NEW u \in Bins!Tasklets, NEW v \in Bins!Tasklets, u # v
      PROVE  /\ ~(n.tl[u].pc = "move" /\ n.tl[v].pc = "move")
             /\ n.tl[u].pc = "flush" /\ n.tl[v].pc = "flush" =>
                  Reserved(n.tl[u]) \cap Reserved(n.tl[v]) = {}
  <2>1. CASE u = t \/ v = t
    BY <2>1
  <2>2. CASE u # t /\ v # t
    <3>1. n.tl[u] = m.tl[u] /\ n.tl[v] = m.tl[v]
      BY <2>2 DEF Only
    <3> QED
      BY <1>2, <3>1 DEF CompactTogether
  <2> QED
    BY <2>1, <2>2
<1>3. Len(n.out) <= n.outAt
  BY DEF CompactTogether
<1>4. ASSUME NEW p \in Len(n.out)+1..n.outAt
      PROVE  \E u \in Bins!Tasklets : n.tl[u].pc = "flush" /\ p \in Reserved(n.tl[u])
  <2>1. PICK u \in Bins!Tasklets : m.tl[u].pc = "flush" /\ p \in Reserved(m.tl[u])
    BY <1>4 DEF CompactTogether
  <2>2. n.tl[u] = m.tl[u]
    BY <2>1 DEF Only
  <2> QED
    BY <2>1, <2>2
<1> QED
  BY <1>1, <1>2, <1>3, <1>4 DEF CompactTogether

LEMMA PlaceIs ==
  ASSUME NEW m, NEW V
  PROVE  /\ \A a \in 0..given.nt, j \in Nat : <<a, j>> \in Places(m, V) <=> Holds(m, V, a, j)
         /\ \A c \in Places(m, V) : c \in (0..given.nt) \X Nat
BY DEF Places

LEMMA SamePlaces ==
  ASSUME NEW m, NEW n, NEW V, NEW W,
         \A a \in 0..given.nt, j \in Nat : Holds(n, W, a, j) <=> Holds(m, V, a, j)
  PROVE  Places(n, W) = Places(m, V)
BY DEF Places

(* The balance is kept when no odd number is read, stored or written.      *)
LEMMA BalanceStays ==
  ASSUME given \in BinJobs, NEW d, NEW m, Balanced(d, m), NEW n, NEW t \in Bins!Tasklets,
         Only(m, n, t), n.out = m.out,
         \/ n.tl[t].buf = m.tl[t].buf
         \/ m.tl[t].buf \in Seq(Odds \union {0}) /\ n.tl[t].buf = Append(m.tl[t].buf, 0),
         Onward(m.tl[t], n.tl[t], t, 0),
         \A i \in Mine(t) : Past(n.tl[t], i, 0) => Past(m.tl[t], i, 0) \/ Bins!Elem(d, i) \notin Odds
  PROVE  Balanced(d, n)
<1> SUFFICES ASSUME NEW V \in SUBSET Odds
             PROVE  /\ IsFiniteSet(Places(n, V))
                    /\ Cardinality(Places(n, V)) = Cardinality(Went(d, n, V, 0))
  BY DEF Balanced
<1>1. 0 \notin V
  BY DEF Odds, Bins!Odd
<1>2. Bins!Tasklets = 0..given.nt-1 /\ given.nt \in Nat
  BY BinJobTypes
<1>3. ASSUME NEW a \in 0..given.nt, NEW j \in Nat
      PROVE  Holds(n, V, a, j) <=> Holds(m, V, a, j)
  <2>1. CASE a = 0
    BY <2>1 DEF Holds
  <2>2. CASE a # 0 /\ (a - 1 # t \/ n.tl[t].buf = m.tl[t].buf)
    <3>1. a - 1 \in Bins!Tasklets
      BY <1>2, <2>2
    <3>2. n.tl[a-1].buf = m.tl[a-1].buf
      BY <2>2, <3>1 DEF Only
    <3> QED
      BY <2>2, <3>2 DEF Holds
  <2>3. CASE a # 0 /\ a - 1 = t /\ m.tl[t].buf \in Seq(Odds \union {0})
             /\ n.tl[t].buf = Append(m.tl[t].buf, 0)
    <3> DEFINE s == m.tl[t].buf
               z == n.tl[t].buf
    <3>1. /\ Len(z) = Len(s) + 1 /\ Len(s) \in Nat /\ z[Len(s) + 1] = 0
          /\ \A x \in 1..Len(s) : z[x] = s[x]
      BY <2>3
    <3>2. Holds(n, V, a, j) <=> j \in 1..Len(z) /\ z[j] \in V
      BY <2>3 DEF Holds
    <3>3. Holds(m, V, a, j) <=> j \in 1..Len(s) /\ s[j] \in V
      BY <2>3 DEF Holds
    <3> HIDE DEF s, z
    <3>4. j \in 1..Len(z) <=> j \in 1..Len(s) \/ j = Len(s) + 1
      BY <3>1
    <3> QED
      BY <1>1, <3>1, <3>2, <3>3, <3>4
  <2> QED
    BY <2>1, <2>2, <2>3
<1>4. Places(n, V) = Places(m, V)
  BY <1>3, SamePlaces
<1>5. Went(d, n, V, 0) = Went(d, m, V, 0) \union New(d, m.tl[t], n.tl[t], t, V, 0)
  BY WentOn
<1>6. New(d, m.tl[t], n.tl[t], t, V, 0) = {}
  BY DEF New
<1> QED
  BY <1>4, <1>5, <1>6 DEF Balanced

(* It is kept when a tasklet takes an odd number into its buffer.          *)
LEMMA BalanceTakes ==
  ASSUME given \in BinJobs, NEW d, NEW m, Balanced(d, m), NEW n, NEW t \in Bins!Tasklets,
         Only(m, n, t), n.out = m.out, given.app = "COMPACT",
         m.tl[t].buf \in Seq(Odds \union {0}), m.tl[t].i \in Mine(t), m.tl[t].i \in Nat,
         n.tl[t].buf = Append(m.tl[t].buf, Bins!Elem(d, m.tl[t].i)),
         Bins!Elem(d, m.tl[t].i) \in Odds,
         m.tl[t].pc # "off", n.tl[t].pc # "off", n.tl[t].i = m.tl[t].i + 1
  PROVE  Balanced(d, n)
<1> SUFFICES ASSUME NEW V \in SUBSET Odds
             PROVE  /\ IsFiniteSet(Places(n, V))
                    /\ Cardinality(Places(n, V)) = Cardinality(Went(d, n, V, 0))
  BY DEF Balanced
<1> DEFINE s == m.tl[t].buf
           z == n.tl[t].buf
           x == Bins!Elem(d, m.tl[t].i)
           N == New(d, m.tl[t], n.tl[t], t, V, 0)
           P == Places(m, V)
           W == Went(d, m, V, 0)
           here == <<t + 1, Len(s) + 1>>
<1>1. /\ Len(z) = Len(s) + 1 /\ Len(s) \in Nat /\ z[Len(s) + 1] = x
      /\ \A y \in 1..Len(s) : z[y] = s[y]
  OBVIOUS
<1>2. Bins!Tasklets = 0..given.nt-1 /\ given.nt \in Nat
  BY BinJobTypes
<1>3. ASSUME NEW a \in 0..given.nt, NEW j \in Nat
      PROVE  Holds(n, V, a, j) <=> Holds(m, V, a, j) \/ (x \in V /\ a = t + 1 /\ j = Len(s) + 1)
  <2>1. CASE a = 0
    BY <1>2, <2>1 DEF Holds
  <2>2. CASE a # 0 /\ a - 1 # t
    <3>1. a - 1 \in Bins!Tasklets
      BY <1>2, <2>2
    <3>2. n.tl[a-1].buf = m.tl[a-1].buf
      BY <2>2, <3>1 DEF Only
    <3> QED
      BY <1>2, <2>2, <3>2 DEF Holds
  <2>3. CASE a # 0 /\ a - 1 = t
    <3>2. Holds(n, V, a, j) <=> j \in 1..Len(z) /\ z[j] \in V
      BY <2>3 DEF Holds
    <3>3. Holds(m, V, a, j) <=> j \in 1..Len(s) /\ s[j] \in V
      BY <2>3 DEF Holds
    <3>5. a = t + 1
      BY <2>3, <1>2
    <3> HIDE DEF s, z, x
    <3>4. j \in 1..Len(z) <=> j \in 1..Len(s) \/ j = Len(s) + 1
      BY <1>1
    <3> QED
      BY <1>1, <3>2, <3>3, <3>4, <3>5
  <2> QED
    BY <2>1, <2>2, <2>3
<1>4. /\ Onward(m.tl[t], n.tl[t], t, 0)
      /\ N = IF x \in V THEN {m.tl[t].i} ELSE {}
  <2>1. \A i \in Mine(t) : i \in Int
    BY DEF Mine
  <2>2. \A i \in Mine(t) : /\ Past(m.tl[t], i, 0) <=> i < m.tl[t].i
                           /\ Past(n.tl[t], i, 0) <=> i < m.tl[t].i + 1
    BY <2>1 DEF Past
  <2> QED
    BY <2>1, <2>2 DEF New, Onward
<1>5. Cardinality(Went(d, n, V, 0)) = Cardinality(W) + Cardinality(N)
  <2>1. Onward(m.tl[t], n.tl[t], t, 0)
    BY <1>4
  <2> HIDE DEF s, z, x
  <2>2. /\ Went(d, n, V, 0) = Went(d, m, V, 0) \union New(d, m.tl[t], n.tl[t], t, V, 0)
        /\ Cardinality(Went(d, n, V, 0)) =
              Cardinality(Went(d, m, V, 0)) + Cardinality(New(d, m.tl[t], n.tl[t], t, V, 0))
    BY <2>1, WentOn
  <2> QED
    BY <2>2
<1>6. IsFiniteSet(P) /\ Cardinality(P) = Cardinality(W) /\ Cardinality(P) \in Nat
  BY FS_CardinalityType DEF Balanced
<1>7. CASE x \notin V
  <2>1. Places(n, V) = P
    BY <1>3, <1>7, SamePlaces
  <2>2. Cardinality(N) = 0
    BY <1>4, <1>7, FS_EmptySet
  <2> HIDE DEF P, N, W
  <2> QED
    BY <1>5, <1>6, <2>1, <2>2
<1>8. CASE x \in V
  <2>1. t + 1 \in 0..given.nt /\ Len(s) + 1 \in Nat /\ t + 1 # 0
    <3>1. Len(s) \in Nat
      BY <1>1
    <3>2. t \in 0..given.nt-1 /\ given.nt \in Nat
      BY <1>2
    <3> HIDE DEF s
    <3> QED
      BY <3>1, <3>2
  <2>2. here \notin P
    <3>1. ~Holds(m, V, t + 1, Len(s) + 1)
      <4> DEFINE a == t + 1
                 j == Len(s) + 1
      <4>0. t \in Nat
        BY <1>2
      <4>1. a # 0 /\ a - 1 = t
        BY <4>0
      <4>3. j \notin 1..Len(s)
        <5>1. Len(s) \in Nat
          BY <1>1
        <5> HIDE DEF s
        <5> QED
          BY <5>1
      <4> HIDE DEF a, j
      <4>2. ~Holds(m, V, a, j)
        BY <4>1, <4>3 DEF Holds
      <4> QED
        BY <4>2 DEF a, j
    <3> QED
      BY <2>1, <3>1, PlaceIs
  <2>3. Places(n, V) = P \union {here}
    <3> HIDE DEF s, z, x
    <3>1. \A c \in (0..given.nt) \X Nat :
            /\ c = <<c[1], c[2]>> /\ c[1] \in 0..given.nt /\ c[2] \in Nat
      OBVIOUS
    <3>2. \A c \in (0..given.nt) \X Nat : c \in Places(n, V) <=> c \in P \/ c = here
      BY <1>3, <1>8, <3>1 DEF Places
    <3>3. here \in (0..given.nt) \X Nat
      BY <2>1
    <3> QED
      BY <3>2, <3>3 DEF Places
  <2>4. Cardinality(N) = 1
    BY <1>4, <1>8, FS_Singleton
  <2> HIDE DEF P, N, W, here
  <2>5. IsFiniteSet(P \union {here}) /\ Cardinality(P \union {here}) = Cardinality(P) + 1
    BY <1>6, <2>2, FS_AddElement
  <2> QED
    BY <1>5, <1>6, <2>3, <2>4, <2>5
<1> QED
  BY <1>7, <1>8

-----------------------------------------------------------------------------
(* What a flush makes of the output.                                       *)
FlushLen(m, k) == Bins!Max({Len(m.out), k.at + Len(k.buf)})
Flushed(m, n, k) ==
  /\ Len(n.out) = FlushLen(m, k)
  /\ \A p \in 1..FlushLen(m, k) :
       n.out[p] = IF p \in Reserved(k) THEN k.buf[p - k.at]
                  ELSE IF p <= Len(m.out) THEN m.out[p] ELSE 0

LEMMA FlushLength ==
  ASSUME given \in BinJobs, NEW m \in DpuType, NEW t \in Bins!Tasklets
  PROVE  LET k == m.tl[t]
             l == FlushLen(m, k)
         IN  /\ l \in Nat /\ l >= Len(m.out) /\ l >= k.at + Len(k.buf)
             /\ l = Len(m.out) \/ l = k.at + Len(k.buf)
<1> DEFINE a == Len(m.out)
           b == m.tl[t].at + Len(m.tl[t].buf)
<1>1. a \in Nat /\ b \in Nat
  BY BinsTypes
<1>2. FlushLen(m, m.tl[t]) = Bins!Max({a, b})
  BY DEF FlushLen
<1> HIDE DEF a, b
<1>3. Bins!Max({a, b}) = IF a <= b THEN b ELSE a
  BY <1>1, BinsMaxOfTwo
<1>4. /\ Bins!Max({a, b}) \in Nat /\ Bins!Max({a, b}) >= a /\ Bins!Max({a, b}) >= b
      /\ Bins!Max({a, b}) = a \/ Bins!Max({a, b}) = b
  BY <1>1, <1>3
<1> QED
  BY <1>2, <1>4 DEF a, b

(* The numbers of a buffer move to the place reserved for them.            *)
LEMMA BalanceFlushes ==
  ASSUME given \in BinJobs, NEW d, NEW m \in DpuType, Balanced(d, m), NEW n,
         NEW t \in Bins!Tasklets, Only(m, n, t), Flushed(m, n, m.tl[t]),
         \A p \in Reserved(m.tl[t]) : p <= Len(m.out) => m.out[p] = 0,
         n.tl[t].buf = <<>>,
         Onward(m.tl[t], n.tl[t], t, 0), Onward(n.tl[t], m.tl[t], t, 0)
  PROVE  Balanced(d, n)
<1> SUFFICES ASSUME NEW V \in SUBSET Odds
             PROVE  /\ IsFiniteSet(Places(n, V))
                    /\ Cardinality(Places(n, V)) = Cardinality(Went(d, n, V, 0))
  BY DEF Balanced
<1> DEFINE k == m.tl[t]
           s == k.buf
           at == k.at
           o == m.out
           w == n.out
           l == FlushLen(m, k)
           P == Places(m, V)
           Q == Places(n, V)
           B(a, j) == Holds(m, V, a, j)
           A(a, j) == Holds(n, V, a, j)
<1>1. 0 \notin V
  BY DEF Odds, Bins!Odd
<1>2. Bins!Tasklets = 0..given.nt-1 /\ given.nt \in Nat /\ t \in Nat /\ t + 1 \in 0..given.nt
  BY BinJobTypes
<1>3. Len(s) \in Nat /\ at \in Nat /\ Len(o) \in Nat
  BY BinsTypes
<1>4. l \in Nat /\ l >= Len(o) /\ l >= at + Len(s)
  BY FlushLength
<1>5. /\ Len(w) = l
      /\ \A p \in 1..l : w[p] = IF p \in Reserved(k) THEN s[p - at]
                                ELSE IF p <= Len(o) THEN o[p] ELSE 0
  BY DEF Flushed
<1>6. Reserved(k) = at+1..at+Len(s) /\ \A p \in Reserved(k) : p <= Len(o) => o[p] = 0
  BY DEF Reserved
<1>7. /\ \A j : B(0, j) <=> j \in 1..Len(o) /\ o[j] \in V
      /\ \A j : A(0, j) <=> j \in 1..Len(w) /\ w[j] \in V
  BY DEF Holds
<1>8. \A j : B(t + 1, j) <=> j \in 1..Len(s) /\ s[j] \in V
  <2> DEFINE a == t + 1
  <2>1. a # 0 /\ a - 1 = t
    BY <1>2
  <2> HIDE DEF a
  <2>2. \A j : B(a, j) <=> j \in 1..Len(s) /\ s[j] \in V
    BY <2>1 DEF Holds
  <2> QED
    BY <2>2 DEF a
<1>9. \A j \in Nat : ~A(t + 1, j)
  <2> DEFINE a == t + 1
  <2>1. a # 0 /\ a - 1 = t
    BY <1>2
  <2> HIDE DEF a
  <2>2. \A j \in Nat : A(a, j) => j \in 1..Len(<<>>)
    BY <2>1 DEF Holds
  <2>3. Len(<<>>) = 0
    OBVIOUS
  <2>4. \A j \in Nat : ~A(a, j)
    BY <2>2, <2>3
  <2> QED
    BY <2>4 DEF a
<1>10. ASSUME NEW a \in 0..given.nt, a # 0, a # t + 1
       PROVE  \A j : A(a, j) <=> B(a, j)
  <2>1. a - 1 \in Bins!Tasklets /\ a - 1 # t
    BY <1>2, <1>10
  <2>2. n.tl[a-1].buf = m.tl[a-1].buf
    BY <2>1 DEF Only
  <2> QED
    BY <1>10, <2>2 DEF Holds
<1> HIDE DEF k, s, at, o, w, l, A, B
<1>11. ASSUME NEW j \in Nat
       PROVE  /\ A(0, j) <=> B(0, j) \/ (j \in Reserved(k) /\ B(t + 1, j - at))
              /\ ~(B(0, j) /\ j \in Reserved(k))
  <2>1. CASE j \in Reserved(k)
    <3>1. j \in 1..l /\ j - at \in 1..Len(s)
      BY <1>3, <1>4, <1>6, <2>1
    <3>2. w[j] = s[j - at]
      BY <1>5, <2>1, <3>1
    <3>3. A(0, j) <=> s[j - at] \in V
      BY <1>5, <1>7, <3>1, <3>2
    <3>4. B(t + 1, j - at) <=> s[j - at] \in V
      BY <1>8, <3>1
    <3>5. ~B(0, j)
      BY <1>1, <1>3, <1>6, <1>7, <2>1
    <3> QED
      BY <2>1, <3>3, <3>4, <3>5
  <2>2. CASE j \notin Reserved(k)
    <3>1. A(0, j) => B(0, j)
      BY <1>1, <1>3, <1>4, <1>5, <1>7, <2>2
    <3>2. B(0, j) => A(0, j)
      BY <1>1, <1>3, <1>4, <1>5, <1>7, <2>2
    <3> QED
      BY <2>2, <3>1, <3>2
  <2> QED
    BY <2>1, <2>2
<1>12. ASSUME NEW j, B(t + 1, j)
       PROVE  j \in Nat /\ at + j \in Reserved(k) /\ at + j \in Nat /\ at + j - at = j
  BY <1>3, <1>6, <1>8, <1>12
<1>13. /\ \A a \in 0..given.nt, j \in Nat : <<a, j>> \in P <=> B(a, j)
       /\ \A a \in 0..given.nt, j \in Nat : <<a, j>> \in Q <=> A(a, j)
       /\ \A c \in P : c[1] \in 0..given.nt /\ c[2] \in Nat /\ c = <<c[1], c[2]>>
       /\ \A c \in Q : c[1] \in 0..given.nt /\ c[2] \in Nat /\ c = <<c[1], c[2]>>
  BY PlaceIs DEF A, B, Places
<1> HIDE DEF P, Q
<1> DEFINE f == [c \in P |-> IF c[1] = t + 1 THEN <<0, at + c[2]>> ELSE c]
<1>14. ASSUME NEW c \in P
       PROVE  /\ f[c] \in Q
              /\ c[1] = t + 1 => f[c] = <<0, at + c[2]>> /\ at + c[2] \in Reserved(k) /\ c[2] \in Nat
              /\ c[1] # t + 1 => f[c] = c /\ ~(c[1] = 0 /\ c[2] \in Reserved(k))
  <2>1. /\ c[1] \in 0..given.nt /\ c[2] \in Nat /\ c = <<c[1], c[2]>> /\ B(c[1], c[2])
    BY <1>13
  <2>2. CASE c[1] = t + 1
    <3>1. at + c[2] \in Reserved(k) /\ at + c[2] \in Nat /\ at + c[2] - at = c[2]
      BY <1>12, <2>1, <2>2
    <3>2. A(0, at + c[2])
      <4>1. PICK j \in Nat : j = at + c[2]
        BY <3>1
      <4>2. j \in Reserved(k) /\ j - at = c[2]
        BY <1>3, <2>1, <3>1, <4>1
      <4>3. B(t + 1, c[2])
        BY <2>1, <2>2
      <4>4. B(t + 1, j - at)
        BY <4>2, <4>3
      <4>5. A(0, j)
        BY <1>11, <4>2, <4>4
      <4> QED
        BY <4>1, <4>5
    <3>3. 0 \in 0..given.nt
      BY <1>2
    <3> QED
      BY <1>13, <2>1, <2>2, <3>1, <3>2, <3>3
  <2>3. CASE c[1] # t + 1 /\ c[1] # 0
    BY <1>10, <1>13, <2>1, <2>3
  <2>4. CASE c[1] = 0
    <3>1. 0 # t + 1
      BY <1>2
    <3>2. A(c[1], c[2]) /\ c[2] \notin Reserved(k)
      BY <1>11, <2>1, <2>4
    <3> QED
      BY <1>13, <2>1, <2>4, <3>1, <3>2
  <2> QED
    BY <2>2, <2>3, <2>4
<1>15. ASSUME NEW q \in Q
       PROVE  \E c \in P : f[c] = q
  <2>1. /\ q[1] \in 0..given.nt /\ q[2] \in Nat /\ q = <<q[1], q[2]>> /\ A(q[1], q[2])
    BY <1>13
  <2>2. q[1] # t + 1
    BY <1>9, <2>1
  <2>3. CASE q[1] = 0 /\ q[2] \in Reserved(k)
    <3> DEFINE c == <<t + 1, q[2] - at>>
    <3>1. B(t + 1, q[2] - at)
      BY <1>11, <2>1, <2>3
    <3>2. q[2] - at \in Nat
      BY <1>12, <3>1
    <3>3. c \in P
      BY <1>2, <1>13, <3>1, <3>2
    <3>4. at + (q[2] - at) = q[2]
      BY <1>3, <2>1
    <3>5. f[c] = <<0, q[2]>>
      BY <3>3, <3>4
    <3> QED
      BY <2>1, <2>3, <3>3, <3>5
  <2>4. CASE q[1] = 0 /\ q[2] \notin Reserved(k)
    <3>1. B(q[1], q[2])
      BY <1>11, <2>1, <2>4
    <3>2. q \in P
      BY <1>13, <2>1, <3>1
    <3> QED
      BY <2>2, <3>2
  <2>5. CASE q[1] # 0
    <3>1. B(q[1], q[2])
      BY <1>10, <2>1, <2>2, <2>5
    <3>2. q \in P
      BY <1>13, <2>1, <3>1
    <3> QED
      BY <2>2, <3>2
  <2> QED
    BY <2>3, <2>4, <2>5
<1>16. f \in [P -> Q]
  BY <1>14
<1>17. ASSUME NEW c \in P, NEW e \in P, f[c] = f[e] PROVE c = e
  <2>1. /\ c = <<c[1], c[2]>> /\ e = <<e[1], e[2]>>
    BY <1>13
  <2>2. CASE c[1] = t + 1 /\ e[1] = t + 1
    <3>1. /\ f[c] = <<0, at + c[2]>> /\ f[e] = <<0, at + e[2]>> /\ c[2] \in Nat /\ e[2] \in Nat
      BY <1>14, <2>2
    <3>2. at + c[2] = at + e[2]
      BY <1>17, <3>1
    <3>3. c[2] = e[2]
      BY <1>3, <3>1, <3>2
    <3> QED
      BY <2>1, <2>2, <3>3
  <2>3. CASE c[1] = t + 1 /\ e[1] # t + 1
    <3>1. f[c] = <<0, at + c[2]>> /\ at + c[2] \in Reserved(k)
      BY <1>14, <2>3
    <3>2. f[e] = e /\ ~(e[1] = 0 /\ e[2] \in Reserved(k))
      BY <1>14, <2>3
    <3> QED
      BY <1>17, <3>1, <3>2
  <2>4. CASE c[1] # t + 1 /\ e[1] = t + 1
    <3>1. f[e] = <<0, at + e[2]>> /\ at + e[2] \in Reserved(k)
      BY <1>14, <2>4
    <3>2. f[c] = c /\ ~(c[1] = 0 /\ c[2] \in Reserved(k))
      BY <1>14, <2>4
    <3> QED
      BY <1>17, <3>1, <3>2
  <2>5. CASE c[1] # t + 1 /\ e[1] # t + 1
    BY <1>14, <1>17, <2>5
  <2> QED
    BY <2>2, <2>3, <2>4, <2>5
<1> HIDE DEF f
<1>18. ExistsBijection(P, Q)
  <2>1. f \in Injection(P, Q)
    BY <1>16, <1>17 DEF Injection, IsInjective
  <2>2. f \in Surjection(P, Q)
    BY <1>15, <1>16 DEF Surjection
  <2> QED
    BY <2>1, <2>2 DEF ExistsBijection, Bijection
<1>19. IsFiniteSet(P) /\ Cardinality(P) = Cardinality(Went(d, m, V, 0))
  BY DEF Balanced, P
<1>20. IsFiniteSet(Q) /\ Cardinality(Q) = Cardinality(P)
  BY <1>18, <1>19, FS_Bijection
<1>21. Went(d, n, V, 0) = Went(d, m, V, 0)
  <2>1. \A u \in Bins!Tasklets : \A i \in Mine(u) : Past(m.tl[u], i, 0) <=> Past(n.tl[u], i, 0)
    BY DEF Only, Onward
  <2> QED
    BY <2>1, WentNot
<1> QED
  BY <1>19, <1>20, <1>21 DEF Q

(* The tasklets together: taking the position, moving it, writing.         *)
LEMMA LockTogether ==
  ASSUME NEW m, \A u \in Bins!Tasklets : CompactTl(m, u), CompactTogether(m),
         NEW n, NEW t \in Bins!Tasklets, Only(m, n, t),
         n.out = m.out, n.outAt = m.outAt, m.locks = {}, n.locks = {0},
         m.tl[t].pc = "reserve", n.tl[t].pc = "move", CompactTl(n, t)
  PROVE  (\A u \in Bins!Tasklets : CompactTl(n, u)) /\ CompactTogether(n)
<1>1. \A u \in Bins!Tasklets : m.tl[u].pc # "move"
  BY DEF CompactTl
<1>2. ASSUME NEW u \in Bins!Tasklets, u # t PROVE CompactTl(n, u)
  <2>1. n.tl[u] = m.tl[u] /\ CompactTl(m, u) /\ m.tl[u].pc # "move"
    BY <1>1, <1>2 DEF Only
  <2> QED
    BY <2>1 DEF CompactTl
<1>3. ASSUME NEW u \in Bins!Tasklets, NEW v \in Bins!Tasklets, u # v
      PROVE  /\ ~(n.tl[u].pc = "move" /\ n.tl[v].pc = "move")
             /\ n.tl[u].pc = "flush" /\ n.tl[v].pc = "flush" =>
                  Reserved(n.tl[u]) \cap Reserved(n.tl[v]) = {}
  <2>1. CASE u = t
    <3>1. n.tl[v].pc # "move"
      BY <1>1, <1>3, <2>1 DEF Only
    <3> QED
      BY <2>1, <3>1
  <2>2. CASE v = t
    <3>1. n.tl[u].pc # "move"
      BY <1>1, <1>3, <2>2 DEF Only
    <3> QED
      BY <2>2, <3>1
  <2>3. CASE u # t /\ v # t
    <3>1. n.tl[u] = m.tl[u] /\ n.tl[v] = m.tl[v]
      BY <2>3 DEF Only
    <3> QED
      BY <1>3, <3>1 DEF CompactTogether
  <2> QED
    BY <2>1, <2>2, <2>3
<1>4. ASSUME NEW p \in Len(n.out)+1..n.outAt
      PROVE  \E u \in Bins!Tasklets : n.tl[u].pc = "flush" /\ p \in Reserved(n.tl[u])
  <2>1. PICK u \in Bins!Tasklets : m.tl[u].pc = "flush" /\ p \in Reserved(m.tl[u])
    BY <1>4 DEF CompactTogether
  <2>2. n.tl[u] = m.tl[u]
    BY <2>1 DEF Only
  <2> QED
    BY <2>1, <2>2
<1> QED
  BY <1>2, <1>3, <1>4 DEF CompactTogether

LEMMA ReserveTogether ==
  ASSUME given \in BinJobs, NEW m \in DpuType,
         \A u \in Bins!Tasklets : CompactTl(m, u), CompactTogether(m),
         NEW n, NEW t \in Bins!Tasklets, Only(m, n, t),
         n.out = m.out, n.outAt = m.tl[t].at + Len(m.tl[t].buf),
         m.tl[t].pc = "move", n.tl[t].pc = "flush",
         n.tl[t].at = m.tl[t].at, n.tl[t].buf = m.tl[t].buf,
         n.tl[t].after = m.tl[t].after, n.tl[t].i = m.tl[t].i
  PROVE  (\A u \in Bins!Tasklets : CompactTl(n, u)) /\ CompactTogether(n)
<1> DEFINE k == m.tl[t]
           l == n.tl[t]
<1>1. /\ m.outAt \in Nat /\ Len(k.buf) \in Nat /\ k.at \in Nat /\ Len(m.out) \in Nat
  BY BinsTypes
<1>2. k.at = m.outAt /\ Len(m.out) <= m.outAt
  BY DEF CompactTl, CompactTogether
<1>3. Reserved(l) = Reserved(k) /\ Reserved(k) = m.outAt+1..m.outAt+Len(k.buf)
      /\ n.outAt = m.outAt + Len(k.buf)
  BY <1>2 DEF Reserved
<1>4. \A u \in Bins!Tasklets : u # t => m.tl[u].pc # "move"
  BY DEF CompactTogether
<1>5. CompactTl(n, t)
  <2>1. CompactTl(m, t)
    OBVIOUS
  <2>2. /\ l.at + Len(l.buf) <= n.outAt
        /\ \A p \in Reserved(l) : p <= Len(n.out) => n.out[p] = 0
    BY <1>1, <1>2, <1>3
  <2> HIDE DEF k, l
  <2>3. k.after = "off" => k.i >= Bins!Share(t).to
    BY <2>1 DEF CompactTl, k
  <2>4. l.pc = "flush" /\ l.after = k.after /\ l.i = k.i
    BY DEF k, l
  <2> QED
    BY <2>2, <2>3, <2>4 DEF CompactTl, l
<1>6. ASSUME NEW u \in Bins!Tasklets, u # t PROVE CompactTl(n, u)
  <2>1. n.tl[u] = m.tl[u] /\ CompactTl(m, u) /\ m.tl[u].pc # "move"
    BY <1>4, <1>6 DEF Only
  <2>2. m.tl[u].pc = "flush" => m.tl[u].at + Len(m.tl[u].buf) <= m.outAt
    BY <2>1 DEF CompactTl
  <2>3. m.tl[u].at \in Nat /\ Len(m.tl[u].buf) \in Nat
    BY BinsTypes
  <2> HIDE DEF k, l
  <2>4. m.tl[u].pc = "flush" => m.tl[u].at + Len(m.tl[u].buf) <= n.outAt
    <3>1. m.outAt <= n.outAt /\ m.outAt \in Nat /\ n.outAt \in Nat
      BY <1>1, <1>3
    <3> DEFINE x == m.tl[u].at + Len(m.tl[u].buf)
    <3>2. x \in Nat
      BY <2>3
    <3> HIDE DEF x
    <3>3. m.tl[u].pc = "flush" => x <= m.outAt
      BY <2>2 DEF x
    <3>4. m.tl[u].pc = "flush" => x <= n.outAt
      BY <3>1, <3>2, <3>3
    <3> QED
      BY <3>4 DEF x
  <2> QED
    BY <2>1, <2>4 DEF CompactTl
<1>7. \A u \in Bins!Tasklets : u # t /\ m.tl[u].pc = "flush" =>
        Reserved(m.tl[u]) \cap Reserved(k) = {}
  <2> SUFFICES ASSUME NEW u \in Bins!Tasklets, u # t, m.tl[u].pc = "flush"
               PROVE  Reserved(m.tl[u]) \cap Reserved(k) = {}
    OBVIOUS
  <2>1. m.tl[u].at + Len(m.tl[u].buf) <= m.outAt
    BY DEF CompactTl
  <2>2. m.tl[u].at \in Nat /\ Len(m.tl[u].buf) \in Nat
    BY BinsTypes
  <2>3. Reserved(m.tl[u]) = m.tl[u].at+1..m.tl[u].at+Len(m.tl[u].buf)
    BY DEF Reserved
  <2> HIDE DEF k, l
  <2> QED
    BY <1>1, <1>3, <2>1, <2>2, <2>3
<1>8. ASSUME NEW u \in Bins!Tasklets, NEW v \in Bins!Tasklets, u # v
      PROVE  /\ ~(n.tl[u].pc = "move" /\ n.tl[v].pc = "move")
             /\ n.tl[u].pc = "flush" /\ n.tl[v].pc = "flush" =>
                  Reserved(n.tl[u]) \cap Reserved(n.tl[v]) = {}
  <2>1. CASE u = t
    <3>1. n.tl[v] = m.tl[v] /\ v # t
      BY <1>8, <2>1 DEF Only
    <3> QED
      BY <1>3, <1>7, <2>1, <3>1
  <2>2. CASE v = t
    <3>1. n.tl[u] = m.tl[u] /\ u # t
      BY <1>8, <2>2 DEF Only
    <3> QED
      BY <1>3, <1>7, <2>2, <3>1
  <2>3. CASE u # t /\ v # t
    <3>1. n.tl[u] = m.tl[u] /\ n.tl[v] = m.tl[v]
      BY <2>3 DEF Only
    <3> QED
      BY <1>8, <3>1 DEF CompactTogether
  <2> QED
    BY <2>1, <2>2, <2>3
<1>9. ASSUME NEW p \in Len(n.out)+1..n.outAt
      PROVE  \E u \in Bins!Tasklets : n.tl[u].pc = "flush" /\ p \in Reserved(n.tl[u])
  <2>1. CASE p <= m.outAt
    <3>1. PICK u \in Bins!Tasklets : m.tl[u].pc = "flush" /\ p \in Reserved(m.tl[u])
      BY <1>1, <1>9, <2>1 DEF CompactTogether
    <3>2. n.tl[u] = m.tl[u]
      BY <3>1 DEF Only
    <3> QED
      BY <3>1, <3>2
  <2>2. CASE p > m.outAt
    <3>1. p \in Reserved(l)
      BY <1>1, <1>3, <1>9, <2>2
    <3> QED
      BY <3>1
  <2> QED
    BY <1>1, <1>9, <2>1, <2>2
<1>10. Len(n.out) <= n.outAt
  BY <1>1, <1>2, <1>3
<1> QED
  BY <1>5, <1>6, <1>8, <1>9, <1>10 DEF CompactTogether

LEMMA FlushTogether ==
  ASSUME given \in BinJobs, NEW m \in DpuType,
         \A u \in Bins!Tasklets : CompactTl(m, u), CompactTogether(m),
         NEW n, NEW t \in Bins!Tasklets, Only(m, n, t), Flushed(m, n, m.tl[t]),
         n.outAt = m.outAt, n.locks = m.locks,
         m.tl[t].pc = "flush", n.tl[t].pc \in {"elements", "off"}, CompactTl(n, t)
  PROVE  (\A u \in Bins!Tasklets : CompactTl(n, u)) /\ CompactTogether(n)
<1> DEFINE k == m.tl[t]
           l == FlushLen(m, k)
<1>1. /\ m.outAt \in Nat /\ Len(k.buf) \in Nat /\ k.at \in Nat /\ Len(m.out) \in Nat
  BY BinsTypes
<1>2. /\ l \in Nat /\ l >= Len(m.out) /\ l >= k.at + Len(k.buf)
      /\ l = Len(m.out) \/ l = k.at + Len(k.buf)
  BY FlushLength
<1>3. /\ k.at + Len(k.buf) <= m.outAt /\ Len(m.out) <= m.outAt
  BY DEF CompactTl, CompactTogether
<1>4. /\ Len(n.out) = l
      /\ \A p \in 1..l : n.out[p] = IF p \in Reserved(k) THEN k.buf[p - k.at]
                                    ELSE IF p <= Len(m.out) THEN m.out[p] ELSE 0
  BY DEF Flushed
<1>5. Reserved(k) = k.at+1..k.at+Len(k.buf)
  BY DEF Reserved
<1> HIDE DEF k, l
<1>6. ASSUME NEW u \in Bins!Tasklets, u # t PROVE CompactTl(n, u)
  <2>1. n.tl[u] = m.tl[u] /\ CompactTl(m, u)
    BY <1>6 DEF Only
  <2>2. ASSUME m.tl[u].pc = "flush", NEW p \in Reserved(m.tl[u]), p <= Len(n.out)
        PROVE  n.out[p] = 0
    <3>1. m.tl[u].at \in Nat /\ Len(m.tl[u].buf) \in Nat
      BY BinsTypes
    <3>2. p \in 1..l
      BY <1>4, <2>2, <3>1 DEF Reserved
    <3>3. p \notin Reserved(k)
      BY <1>6, <2>2 DEF CompactTogether, k
    <3>4. p <= Len(m.out) => m.out[p] = 0
      BY <2>1, <2>2 DEF CompactTl
    <3> QED
      BY <1>4, <3>2, <3>3, <3>4
  <2> QED
    BY <2>1, <2>2 DEF CompactTl
<1>7. ASSUME NEW u \in Bins!Tasklets, NEW v \in Bins!Tasklets, u # v
      PROVE  /\ ~(n.tl[u].pc = "move" /\ n.tl[v].pc = "move")
             /\ n.tl[u].pc = "flush" /\ n.tl[v].pc = "flush" =>
                  Reserved(n.tl[u]) \cap Reserved(n.tl[v]) = {}
  <2>1. CASE u = t \/ v = t
    BY <2>1
  <2>2. CASE u # t /\ v # t
    BY <1>7, <2>2 DEF Only, CompactTogether
  <2> QED
    BY <2>1, <2>2
<1>8. Len(n.out) <= n.outAt
  BY <1>1, <1>2, <1>3, <1>4
<1>9. ASSUME NEW p \in Len(n.out)+1..n.outAt
      PROVE  \E u \in Bins!Tasklets : n.tl[u].pc = "flush" /\ p \in Reserved(n.tl[u])
  <2>1. p \in Len(m.out)+1..m.outAt /\ p > k.at + Len(k.buf)
    BY <1>1, <1>2, <1>4, <1>9
  <2>2. PICK u \in Bins!Tasklets : m.tl[u].pc = "flush" /\ p \in Reserved(m.tl[u])
    BY <2>1 DEF CompactTogether
  <2>3. u # t
    <3> SUFFICES ASSUME u = t PROVE FALSE
      OBVIOUS
    <3>1. p \in Reserved(k)
      BY <2>2 DEF k
    <3> QED
      BY <1>1, <1>5, <2>1, <3>1
  <2>4. n.tl[u] = m.tl[u]
    BY <2>3 DEF Only
  <2> QED
    BY <2>2, <2>4
<1> QED
  BY <1>6, <1>7, <1>8, <1>9 DEF CompactTogether

-----------------------------------------------------------------------------
(* What a step of a tasklet of DPU d amounts to.                           *)
StepWorks(d) ==
  \E n : /\ Works(d, n) /\ dpu' = [dpu EXCEPT ![d] = n]
         /\ given' = given /\ host' = host
         /\ \E t \in Bins!Tasklets : dpu[d].tl[t].pc # "off"

LEMMA PutGives ==
  ASSUME NEW m \in DpuType, NEW t \in Bins!Tasklets, NEW k \in TlType
  PROVE  LET n == [m EXCEPT !.tl[t] = k]
         IN  /\ n \in DpuType /\ n.tl[t] = k /\ Only(m, n, t)
             /\ n.out = m.out /\ n.outAt = m.outAt /\ n.bins = m.bins
             /\ n.ready = m.ready /\ n.locks = m.locks
<1> DEFINE n == [m EXCEPT !.tl[t] = k]
           v == [m.tl EXCEPT ![t] = k]
<1>1. m.tl \in [Bins!Tasklets -> TlType]
  BY DEF DpuType
<1>2. v \in [Bins!Tasklets -> TlType] /\ v[t] = k /\ \A u \in Bins!Tasklets : u # t => v[u] = m.tl[u]
  BY <1>1
<1>3. n = [m EXCEPT !.tl = v]
  OBVIOUS
<1> HIDE DEF v
<1>4. /\ n \in DpuType /\ n.tl = v
      /\ n.out = m.out /\ n.outAt = m.outAt /\ n.bins = m.bins
      /\ n.ready = m.ready /\ n.locks = m.locks
  BY <1>2, <1>3 DEF DpuType
<1> HIDE DEF n
<1>5. n.tl[t] = k /\ Only(m, n, t)
  BY <1>2, <1>4 DEF Only
<1> QED
  BY <1>4, <1>5 DEF n

(* A tasklet's record with some of its fields replaced.                    *)
LEMMA TlPc ==
  ASSUME NEW k \in TlType, NEW p \in BinPcs
  PROVE  LET l == [k EXCEPT !.pc = p]
         IN  /\ l \in TlType /\ l.pc = p /\ l.i = k.i /\ l.buf = k.buf /\ l.after = k.after
             /\ l.bins = k.bins /\ l.at = k.at /\ l.tmp = k.tmp
BY DEF TlType

LEMMA TlNext ==
  ASSUME NEW k \in TlType
  PROVE  LET l == [k EXCEPT !.i = @ + 1]
         IN  /\ l \in TlType /\ l.pc = k.pc /\ l.i = k.i + 1 /\ l.buf = k.buf /\ l.after = k.after
             /\ l.bins = k.bins /\ l.at = k.at /\ l.tmp = k.tmp
<1>1. k.i \in Nat
  BY DEF TlType
<1>2. k.i + 1 \in Nat
  BY <1>1
<1> QED
  BY <1>2 DEF TlType

LEMMA TlBuf ==
  ASSUME NEW k \in TlType, NEW p \in BinPcs, NEW s \in Seq(Odds \union {0}),
         NEW a \in {"elements", "off"}
  PROVE  LET l == [k EXCEPT !.pc = p, !.buf = s, !.after = a]
         IN  /\ l \in TlType /\ l.pc = p /\ l.i = k.i /\ l.buf = s /\ l.after = a
             /\ l.bins = k.bins /\ l.at = k.at /\ l.tmp = k.tmp
BY DEF TlType

LEMMA TlOff ==
  ASSUME given \in BinJobs
  PROVE  /\ Bins!Off \in TlType /\ Bins!Off.pc = "off" /\ Bins!Off.buf = <<>>
         /\ Bins!Off.after = "elements" /\ Bins!Off.i = 0 /\ Bins!Zeros \in [Bins!BinsOf -> Nat]
<1>1. Bins!Zeros \in [Bins!BinsOf -> Nat]
  BY DEF Bins!Zeros
<1>2. <<>> \in Seq(Odds \union {0})
  OBVIOUS
<1>3. "off" \in BinPcs /\ 0 \in Nat /\ "elements" \in {"elements", "off"}
  BY DEF BinPcs
<1>4. Bins!Off = [pc |-> "off", i |-> 0, buf |-> <<>>, after |-> "elements",
                  bins |-> Bins!Zeros, at |-> 0, tmp |-> Bins!Zeros]
  BY DEF Bins!Off
<1>5. Bins!Off \in TlType
  BY <1>1, <1>2, <1>3, <1>4 DEF TlType
<1> QED
  BY <1>1, <1>4, <1>5

LEMMA CompactParts ==
  ASSUME given.app = "COMPACT", NEW d, NEW m, Works(d, m)
  PROVE  /\ m \in DpuType /\ Tasks(m) /\ \A u \in Bins!Tasklets : CompactTl(m, u)
         /\ CompactTogether(m) /\ Balanced(d, m)
BY DEF Works, Tasks

LEMMA CompactWhole ==
  ASSUME given.app = "COMPACT", NEW d, NEW m, Tasks(m),
         \A u \in Bins!Tasklets : CompactTl(m, u), CompactTogether(m), Balanced(d, m)
  PROVE  Works(d, m)
BY DEF Works

(* The end of COMPACT's loop.                                              *)
LEMMA LoopEnds ==
  ASSUME given \in BinJobs, given.app = "COMPACT", NEW d, NEW m, Works(d, m),
         NEW t \in Bins!Tasklets, NEW n \in DpuType, Only(m, n, t),
         n.out = m.out, n.outAt = m.outAt, n.locks = m.locks,
         m.tl[t].pc = "elements", m.tl[t].i >= Bins!Share(t).to,
         n.tl[t] = [m.tl[t] EXCEPT !.pc = "barrier2"]
  PROVE  Works(d, n)
<1> DEFINE k == m.tl[t]
           l == n.tl[t]
<1>0. /\ m \in DpuType /\ Tasks(m) /\ \A u \in Bins!Tasklets : CompactTl(m, u)
      /\ CompactTogether(m) /\ Balanced(d, m)
  BY CompactParts
<1>1. k \in TlType /\ k.i \in Nat
  BY <1>0, BinsTypes
<1>2. l.pc = "barrier2" /\ l.i = k.i /\ l.buf = k.buf /\ l.after = k.after
  BY <1>1 DEF TlType
<1>3. Tasks(n)
  <2>1. n.tl[t].i >= m.tl[t].i
    BY <1>1, <1>2
  <2> QED
    BY <1>0, <1>2, <2>1, TasksGoOn
<1>4. CompactTl(n, t)
  BY <1>2 DEF CompactTl
<1>5. (\A u \in Bins!Tasklets : CompactTl(n, u)) /\ CompactTogether(n)
  BY <1>0, <1>2, <1>4, CompactGoesOn
<1>6. /\ Onward(k, l, t, 0)
      /\ \A i \in Mine(t) : Past(l, i, 0) => Past(k, i, 0) \/ Bins!Elem(d, i) \notin Odds
  BY <1>2 DEF Past, Onward
<1>7. Balanced(d, n)
  <2>1. n.tl[t].buf = m.tl[t].buf
    BY <1>2
  <2> QED
    BY <1>0, <1>6, <2>1, BalanceStays
<1> QED
  BY <1>3, <1>5, <1>7, CompactWhole

(* An even number is passed over.                                          *)
LEMMA EvenIsPassed ==
  ASSUME given \in BinJobs, given.app = "COMPACT", NEW d \in Bins!Dpus, NEW m, Works(d, m),
         NEW t \in Bins!Tasklets, NEW n \in DpuType, Only(m, n, t),
         n.out = m.out, n.outAt = m.outAt, n.locks = m.locks,
         m.tl[t].pc = "elements", m.tl[t].i \in Mine(t), Bins!Elem(d, m.tl[t].i) \notin Odds,
         n.tl[t] = [m.tl[t] EXCEPT !.i = @ + 1]
  PROVE  Works(d, n)
<1> DEFINE k == m.tl[t]
           l == n.tl[t]
<1>0. /\ m \in DpuType /\ Tasks(m) /\ \A u \in Bins!Tasklets : CompactTl(m, u)
      /\ CompactTogether(m) /\ Balanced(d, m)
  BY CompactParts
<1>1. k \in TlType /\ k.i \in Nat
  BY <1>0, BinsTypes
<1>2. l.pc = "elements" /\ l.i = k.i + 1 /\ l.buf = k.buf /\ l.after = k.after
  BY <1>1 DEF TlType
<1>3. Tasks(n)
  <2>1. n.tl[t].i >= m.tl[t].i
    BY <1>1, <1>2
  <2> QED
    BY <1>0, <1>2, <2>1, TasksGoOn
<1>4. CompactTl(n, t)
  BY <1>0, <1>2 DEF CompactTl
<1>5. (\A u \in Bins!Tasklets : CompactTl(n, u)) /\ CompactTogether(n)
  BY <1>0, <1>2, <1>4, CompactGoesOn
<1>6. /\ Onward(k, l, t, 0)
      /\ \A i \in Mine(t) : Past(l, i, 0) => Past(k, i, 0) \/ Bins!Elem(d, i) \notin Odds
  <2>1. \A i \in Mine(t) : i \in Int
    BY DEF Mine
  <2>2. \A i \in Mine(t) : /\ Past(k, i, 0) <=> i < k.i
                           /\ Past(l, i, 0) <=> i < k.i + 1
    BY <1>2 DEF Past
  <2> QED
    BY <1>1, <2>1, <2>2 DEF Onward
<1>7. Balanced(d, n)
  <2>1. n.tl[t].buf = m.tl[t].buf
    BY <1>2
  <2> QED
    BY <1>0, <1>6, <2>1, BalanceStays
<1> QED
  BY <1>3, <1>5, <1>7, CompactWhole

(* An odd number goes into the buffer, which may be full then.             *)
LEMMA OddIsTaken ==
  ASSUME given \in BinJobs, given.app = "COMPACT", NEW d \in Bins!Dpus, NEW m, Works(d, m),
         NEW t \in Bins!Tasklets, NEW n \in DpuType, Only(m, n, t),
         n.out = m.out, n.outAt = m.outAt, n.locks = m.locks,
         m.tl[t].pc = "elements", m.tl[t].i \in Mine(t), Bins!Elem(d, m.tl[t].i) \in Odds,
         n.tl[t].buf = Append(m.tl[t].buf, Bins!Elem(d, m.tl[t].i)),
         n.tl[t].i = m.tl[t].i + 1, n.tl[t].after = m.tl[t].after,
         n.tl[t].pc \in {"elements", "reserve"}
  PROVE  Works(d, n)
<1> DEFINE k == m.tl[t]
           l == n.tl[t]
<1>0. /\ m \in DpuType /\ Tasks(m) /\ \A u \in Bins!Tasklets : CompactTl(m, u)
      /\ CompactTogether(m) /\ Balanced(d, m)
  BY CompactParts
<1>1. k \in TlType /\ k.i \in Nat /\ k.buf \in Seq(Odds \union {0})
  BY <1>0, BinsTypes
<1>2. k.after = "elements"
  BY <1>0 DEF CompactTl
<1>3. Tasks(n)
  <2>1. n.tl[t].i >= m.tl[t].i
    BY <1>1
  <2> QED
    BY <1>0, <2>1, TasksGoOn
<1>4. CompactTl(n, t)
  BY <1>2 DEF CompactTl
<1>5. (\A u \in Bins!Tasklets : CompactTl(n, u)) /\ CompactTogether(n)
  BY <1>0, <1>4, CompactGoesOn
<1>6. Balanced(d, n)
  <2>1. m.tl[t].pc # "off" /\ n.tl[t].pc # "off"
    OBVIOUS
  <2> QED
    BY <1>0, <1>1, <2>1, BalanceTakes
<1> QED
  BY <1>3, <1>5, <1>6, CompactWhole

(* Oddness as the code tests it.                                           *)
LEMMA OddsAre ==
  ASSUME NEW x \in Nat
  PROVE  /\ x \in Odds <=> x % 2 # 0
         /\ x % 2 \in {0, 1}
<1>1. x % 2 \in 0..1
  OBVIOUS
<1>2. 0..1 = {0, 1}
  OBVIOUS
<1> QED
  BY <1>1, <1>2 DEF Odds, Bins!Odd

LEMMA KeepOddWorks ==
  ASSUME given \in BinJobs, NEW d \in Bins!Dpus, NEW t \in Bins!Tasklets,
         Works(d, dpu[d]), Bins!KeepOdd(d, t)
  PROVE  StepWorks(d)
<1> DEFINE m == dpu[d]
           k == m.tl[t]
           x == Bins!Elem(d, k.i)
           next == [k EXCEPT !.i = @ + 1]
           p == IF Len(k.buf) + 1 = Cap THEN "reserve" ELSE next.pc
           took == [next EXCEPT !.buf = Append(next.buf, x), !.pc = p]
           l == IF ~(k.i < Bins!Share(t).to) THEN [k EXCEPT !.pc = "barrier2"]
                ELSE IF x % 2 = 0 THEN next ELSE took
           n == [m EXCEPT !.tl[t] = l]
<1>1. /\ given.app = "COMPACT" /\ k.pc = "elements"
      /\ dpu' = [dpu EXCEPT ![d] = n] /\ given' = given /\ host' = host
  BY DEF Bins!KeepOdd, Bins!Put, Bins!At, Bins!K, Bins!More, Bins!X
<1>2. m \in DpuType /\ k \in TlType /\ k.i \in Nat /\ k.buf \in Seq(Odds \union {0})
  BY <1>1, CompactParts, BinsTypes
<1>3. Bins!Share(t).from <= k.i /\ Bins!Share(t).to \in Int
  BY <1>1, CompactParts, BinShares DEF Tasks
<1>4. CASE ~(k.i < Bins!Share(t).to)
  <2>1. l = [k EXCEPT !.pc = "barrier2"] /\ l \in TlType
    <3>1. l = [k EXCEPT !.pc = "barrier2"]
      BY <1>4
    <3>2. "barrier2" \in BinPcs
      BY DEF BinPcs
    <3> HIDE DEF l, k
    <3>3. [k EXCEPT !.pc = "barrier2"] \in TlType
      BY <1>2, <3>2, TlPc
    <3> QED
      BY <3>1, <3>3
  <2> HIDE DEF l
  <2>2. /\ n \in DpuType /\ n.tl[t] = l /\ Only(m, n, t)
        /\ n.out = m.out /\ n.outAt = m.outAt /\ n.locks = m.locks
    BY <1>2, <2>1, PutGives
  <2>3. k.i >= Bins!Share(t).to
    BY <1>2, <1>3, <1>4
  <2> HIDE DEF n
  <2>4. n.tl[t] = [m.tl[t] EXCEPT !.pc = "barrier2"]
    BY <2>1, <2>2
  <2>5. Works(d, n)
    BY <1>1, <2>2, <2>3, <2>4, LoopEnds
  <2> QED
    BY <1>1, <2>5 DEF StepWorks
<1>5. CASE k.i < Bins!Share(t).to
  <2>1. k.i \in Mine(t)
    <3>1. Bins!Share(t).to <= Bins!PerDpu /\ Bins!PerDpu \in Nat
      BY <1>1, CompactShares, BinJobTypes
    <3>2. k.i < Bins!PerDpu
      BY <1>2, <1>3, <1>5, <3>1
    <3> HIDE DEF m, k
    <3> QED
      BY <1>2, <1>3, <1>5, <3>2, BinShares
  <2>2. x \in Nat
    <3>1. k.i \in 0..Bins!PerDpu-1
      BY <2>1, BinShares
    <3> QED
      BY <3>1, ElemIsWord
  <2> HIDE DEF x
  <2>3. CASE x % 2 = 0
    <3>1. l = [k EXCEPT !.i = @ + 1]
      BY <1>5, <2>3
    <3>2. l \in TlType
      <4> HIDE DEF l, k
      <4> QED
        BY <1>2, <3>1, TlNext
    <3> HIDE DEF l
    <3>3. /\ n \in DpuType /\ n.tl[t] = l /\ Only(m, n, t)
          /\ n.out = m.out /\ n.outAt = m.outAt /\ n.locks = m.locks
      BY <1>2, <3>2, PutGives
    <3>4. Bins!Elem(d, m.tl[t].i) \notin Odds
      BY <2>2, <2>3, OddsAre DEF x
    <3> HIDE DEF n
    <3>5. n.tl[t] = [m.tl[t] EXCEPT !.i = @ + 1]
      BY <3>1, <3>3
    <3>6. Works(d, n)
      BY <1>1, <2>1, <3>3, <3>4, <3>5, EvenIsPassed
    <3> QED
      BY <1>1, <3>6 DEF StepWorks
  <2>4. CASE x % 2 # 0
    <3>1. l = took
      BY <1>5, <2>4
    <3>2. x \in Odds
      BY <2>2, <2>4, OddsAre
    <3>3. Append(k.buf, x) \in Seq(Odds \union {0})
      BY <1>2, <3>2
    <3>4. next \in TlType /\ next.i = k.i + 1 /\ next.buf = k.buf /\ next.pc = k.pc /\ next.after = k.after
      <4> HIDE DEF k
      <4> QED
        BY <1>2, TlNext
    <3> HIDE DEF next, k
    <3>5. /\ took \in TlType /\ took.i = next.i /\ took.after = next.after
          /\ took.buf = Append(next.buf, x) /\ took.pc \in {next.pc, "reserve"}
      <4>1. Append(next.buf, x) \in Seq(Odds \union {0})
        BY <3>3, <3>4
      <4>2. p \in BinPcs /\ p \in {next.pc, "reserve"}
        BY <3>4 DEF TlType, BinPcs
      <4> DEFINE z == Append(next.buf, x)
      <4>3. took = [next EXCEPT !.buf = z, !.pc = p] /\ z \in Seq(Odds \union {0})
        <5>1. took = [next EXCEPT !.buf = z, !.pc = p]
          OBVIOUS
        <5>2. z \in Seq(Odds \union {0})
          BY <4>1
        <5> HIDE DEF p, z, took
        <5> QED
          BY <5>1, <5>2
      <4> HIDE DEF p, z, took
      <4>4. /\ took \in TlType /\ took.pc = p /\ took.i = next.i /\ took.buf = z
            /\ took.after = next.after
        BY <3>4, <4>2, <4>3 DEF TlType
      <4> QED
        BY <4>2, <4>4 DEF z
    <3> HIDE DEF took, l
    <3>6. /\ n \in DpuType /\ n.tl[t] = l /\ Only(m, n, t)
          /\ n.out = m.out /\ n.outAt = m.outAt /\ n.locks = m.locks
      <4>1. m \in DpuType /\ l \in TlType
        BY <1>2, <3>1, <3>5
      <4> HIDE DEF m
      <4> QED
        BY <4>1, PutGives
    <3> HIDE DEF n
    <3> USE DEF k
    <3>7. /\ n.tl[t].buf = Append(m.tl[t].buf, Bins!Elem(d, m.tl[t].i))
          /\ n.tl[t].i = m.tl[t].i + 1 /\ n.tl[t].after = m.tl[t].after
          /\ n.tl[t].pc \in {"elements", "reserve"}
      BY <1>1, <3>1, <3>4, <3>5, <3>6 DEF x, k
    <3>8. Bins!Elem(d, m.tl[t].i) \in Odds
      BY <3>2 DEF x
    <3>9. Works(d, n)
      BY <1>1, <2>1, <3>6, <3>7, <3>8, OddIsTaken
    <3> QED
      BY <1>1, <3>9 DEF StepWorks
  <2> QED
    BY <2>3, <2>4
<1> QED
  BY <1>4, <1>5

-----------------------------------------------------------------------------
(* A DPU's record with some of its fields replaced.                        *)
LEMMA DpuLocks ==
  ASSUME NEW m \in DpuType, NEW s \in SUBSET Nat
  PROVE  LET n == [m EXCEPT !.locks = s]
         IN  /\ n \in DpuType /\ n.locks = s /\ n.outAt = m.outAt
             /\ n.out = m.out /\ n.bins = m.bins /\ n.ready = m.ready /\ n.tl = m.tl
BY DEF DpuType

LEMMA DpuOut ==
  ASSUME NEW m \in DpuType, NEW s \in Seq(Odds \union {0})
  PROVE  LET n == [m EXCEPT !.out = s]
         IN  /\ n \in DpuType /\ n.out = s /\ n.outAt = m.outAt /\ n.locks = m.locks
             /\ n.bins = m.bins /\ n.ready = m.ready /\ n.tl = m.tl
BY DEF DpuType

(* COMPACT.c:60-66: the rest is padded, and reserved like a full buffer.   *)
LEMMA LeftoverWorks ==
  ASSUME given \in BinJobs, given.app = "COMPACT", NEW d \in Bins!Dpus,
         NEW t \in Bins!Tasklets, Works(d, dpu[d]), Bins!Leftover(d, t)
  PROVE  StepWorks(d)
<1> DEFINE m == dpu[d]
           k == m.tl[t]
           s == IF Len(k.buf) % 2 = 1 THEN Append(k.buf, 0) ELSE k.buf
           l == IF k.buf = <<>> THEN Bins!Off
                ELSE [k EXCEPT !.pc = "reserve", !.after = "off", !.buf = s]
           n == [m EXCEPT !.tl[t] = l]
<1>1. /\ k.pc = "leftover"
      /\ dpu' = [dpu EXCEPT ![d] = n] /\ given' = given /\ host' = host
  BY DEF Bins!Leftover, Bins!Put, Bins!At, Bins!K
<1>2. /\ m \in DpuType /\ Tasks(m) /\ \A u \in Bins!Tasklets : CompactTl(m, u)
      /\ CompactTogether(m) /\ Balanced(d, m)
  BY CompactParts
<1>3. k \in TlType /\ k.i \in Nat /\ k.buf \in Seq(Odds \union {0})
  BY <1>2, BinsTypes
<1>4. k.i >= Bins!Share(t).to /\ Bins!Share(t).to \in Int
  BY <1>1, <1>2, BinShares DEF CompactTl
<1>5. /\ l \in TlType
      /\ l.pc = "off" \/ (l.pc = "reserve" /\ l.after = "off" /\ l.i = k.i)
      /\ l.pc = "off" => l.buf = <<>>
      /\ l.buf = k.buf \/ l.buf = Append(k.buf, 0)
  <2>1. CASE k.buf = <<>>
    <3>1. l = Bins!Off
      BY <2>1
    <3> HIDE DEF l
    <3> QED
      BY <2>1, <3>1, TlOff
  <2>2. CASE k.buf # <<>>
    <3>1. l = [k EXCEPT !.pc = "reserve", !.after = "off", !.buf = s]
      BY <2>2
    <3>2. s \in Seq(Odds \union {0}) /\ (s = k.buf \/ s = Append(k.buf, 0))
      <4>1. 0 \in Odds \union {0}
        OBVIOUS
      <4> HIDE DEF k, l
      <4>2. Append(k.buf, 0) \in Seq(Odds \union {0})
        BY <1>3, <4>1
      <4> QED
        BY <1>3, <4>2
    <3> HIDE DEF l, s, k
    <3>3. /\ l \in TlType /\ l.pc = "reserve" /\ l.after = "off" /\ l.i = k.i /\ l.buf = s
      BY <1>3, <3>1, <3>2 DEF TlType, BinPcs
    <3> QED
      BY <3>2, <3>3
  <2> QED
    BY <2>1, <2>2
<1> HIDE DEF l
<1>6. /\ n \in DpuType /\ n.tl[t] = l /\ Only(m, n, t)
      /\ n.out = m.out /\ n.outAt = m.outAt /\ n.locks = m.locks
  BY <1>2, <1>5, PutGives
<1> HIDE DEF n
<1>7. Tasks(n)
  <2>1. n.tl[t].pc = "off" \/ n.tl[t].i >= m.tl[t].i
    BY <1>3, <1>5, <1>6
  <2> QED
    BY <1>1, <1>2, <1>5, <1>6, <2>1, TasksGoOn
<1>8. CompactTl(n, t)
  BY <1>4, <1>5, <1>6 DEF CompactTl
<1>9. (\A u \in Bins!Tasklets : CompactTl(n, u)) /\ CompactTogether(n)
  BY <1>1, <1>2, <1>5, <1>6, <1>8, CompactGoesOn
<1>10. Balanced(d, n)
  <2>1. \A i \in Mine(t) : i < k.i
    BY <1>3, <1>4 DEF Mine
  <2>2. \A i \in Mine(t) : Past(k, i, 0) /\ Past(l, i, 0)
    BY <1>5, <2>1 DEF Past
  <2>3. /\ Onward(m.tl[t], n.tl[t], t, 0)
        /\ \A i \in Mine(t) : Past(n.tl[t], i, 0) => Past(m.tl[t], i, 0) \/ Bins!Elem(d, i) \notin Odds
    BY <1>6, <2>2 DEF Onward
  <2>4. \/ n.tl[t].buf = m.tl[t].buf
        \/ m.tl[t].buf \in Seq(Odds \union {0}) /\ n.tl[t].buf = Append(m.tl[t].buf, 0)
    BY <1>3, <1>5, <1>6
  <2> QED
    BY <1>2, <1>6, <2>3, <2>4, BalanceStays
<1> QED
  BY <1>1, <1>7, <1>9, <1>10, CompactWhole DEF StepWorks

(* COMPACT.c:49-52 and 67-70: under the mutex the position is taken,       *)
(* then moved.                                                             *)
LEMMA LockWorks ==
  ASSUME given \in BinJobs, given.app = "COMPACT", NEW d \in Bins!Dpus,
         NEW t \in Bins!Tasklets, Works(d, dpu[d]), Bins!Lock(d, t)
  PROVE  StepWorks(d)
<1> DEFINE m == dpu[d]
           k == m.tl[t]
           l == [k EXCEPT !.pc = "move", !.at = m.outAt]
           b == [m EXCEPT !.locks = {0}]
           n == [b EXCEPT !.tl[t] = l]
<1>1. /\ k.pc = "reserve" /\ m.locks = {}
      /\ dpu' = [dpu EXCEPT ![d] = n] /\ given' = given /\ host' = host
  BY DEF Bins!Lock, Bins!Put, Bins!At, Bins!K
<1>2. /\ m \in DpuType /\ Tasks(m) /\ \A u \in Bins!Tasklets : CompactTl(m, u)
      /\ CompactTogether(m) /\ Balanced(d, m)
  BY CompactParts
<1>3. k \in TlType /\ k.i \in Nat /\ m.outAt \in Nat
  BY <1>2, BinsTypes
<1>4. /\ l \in TlType /\ l.pc = "move" /\ l.at = m.outAt
      /\ l.i = k.i /\ l.buf = k.buf /\ l.after = k.after
  <2> DEFINE a == m.outAt
  <2>1. a \in Nat /\ l = [k EXCEPT !.pc = "move", !.at = a]
    BY <1>3
  <2> HIDE DEF a, k, l
  <2>2. /\ l \in TlType /\ l.pc = "move" /\ l.at = a
        /\ l.i = k.i /\ l.buf = k.buf /\ l.after = k.after
    BY <1>3, <2>1 DEF TlType, BinPcs
  <2> QED
    BY <2>2 DEF a
<1>5. b \in DpuType /\ b.tl = m.tl /\ b.locks = {0} /\ b.out = m.out /\ b.outAt = m.outAt
  <2>1. {0} \in SUBSET Nat
    OBVIOUS
  <2> HIDE DEF m
  <2> QED
    BY <1>2, <2>1, DpuLocks
<1> HIDE DEF l, b
<1>6. /\ n \in DpuType /\ n.tl[t] = l /\ Only(m, n, t)
      /\ n.out = m.out /\ n.outAt = m.outAt /\ n.locks = {0}
  <2>1. /\ n \in DpuType /\ n.tl[t] = l /\ Only(b, n, t)
        /\ n.out = b.out /\ n.outAt = b.outAt /\ n.locks = b.locks
    BY <1>4, <1>5, PutGives
  <2> HIDE DEF n
  <2> QED
    BY <1>5, <2>1 DEF Only
<1> HIDE DEF n
<1>7. Tasks(n)
  <2>1. n.tl[t].pc = "off" \/ n.tl[t].i >= m.tl[t].i
    BY <1>3, <1>4, <1>6
  <2> QED
    BY <1>1, <1>2, <1>4, <1>6, <2>1, TasksGoOn
<1>8. CompactTl(n, t)
  <2>1. k.after = "off" => k.i >= Bins!Share(t).to
    BY <1>1, <1>2 DEF CompactTl
  <2> QED
    BY <1>4, <1>6, <2>1 DEF CompactTl
<1>9. (\A u \in Bins!Tasklets : CompactTl(n, u)) /\ CompactTogether(n)
  BY <1>1, <1>2, <1>4, <1>6, <1>8, LockTogether
<1>10. Balanced(d, n)
  <2>1. \A i \in Mine(t) : Past(k, i, 0) <=> Past(l, i, 0)
    BY <1>1, <1>4 DEF Past
  <2>2. /\ Onward(m.tl[t], n.tl[t], t, 0)
        /\ \A i \in Mine(t) : Past(n.tl[t], i, 0) => Past(m.tl[t], i, 0) \/ Bins!Elem(d, i) \notin Odds
    BY <1>6, <2>1 DEF Onward
  <2>3. n.tl[t].buf = m.tl[t].buf
    BY <1>4, <1>6
  <2> QED
    BY <1>2, <1>6, <2>2, <2>3, BalanceStays
<1> QED
  BY <1>1, <1>7, <1>9, <1>10, CompactWhole DEF StepWorks

LEMMA ReserveWorks ==
  ASSUME given \in BinJobs, given.app = "COMPACT", NEW d \in Bins!Dpus,
         NEW t \in Bins!Tasklets, Works(d, dpu[d]), Bins!Reserve(d, t)
  PROVE  StepWorks(d)
<1> DEFINE m == dpu[d]
           k == m.tl[t]
           l == [k EXCEPT !.pc = "flush"]
           b == [m EXCEPT !.outAt = k.at + Len(k.buf), !.locks = {}]
           n == [b EXCEPT !.tl[t] = l]
<1>1. /\ k.pc = "move"
      /\ dpu' = [dpu EXCEPT ![d] = n] /\ given' = given /\ host' = host
  BY DEF Bins!Reserve, Bins!Put, Bins!At, Bins!K
<1>2. /\ m \in DpuType /\ Tasks(m) /\ \A u \in Bins!Tasklets : CompactTl(m, u)
      /\ CompactTogether(m) /\ Balanced(d, m)
  BY CompactParts
<1>3. k \in TlType /\ k.i \in Nat /\ k.at \in Nat /\ Len(k.buf) \in Nat
  BY <1>2, BinsTypes
<1>4. /\ l \in TlType /\ l.pc = "flush" /\ l.at = k.at
      /\ l.i = k.i /\ l.buf = k.buf /\ l.after = k.after
  <2>1. "flush" \in BinPcs
    BY DEF BinPcs
  <2> HIDE DEF k
  <2> QED
    BY <1>3, <2>1, TlPc
<1>5. b \in DpuType /\ b.tl = m.tl /\ b.out = m.out /\ b.outAt = k.at + Len(k.buf)
  <2>1. k.at + Len(k.buf) \in Nat
    BY <1>3
  <2>2. {} \in SUBSET Nat
    OBVIOUS
  <2> DEFINE a == k.at + Len(k.buf)
  <2>3. b = [m EXCEPT !.outAt = a, !.locks = {}] /\ a \in Nat
    BY <2>1
  <2> HIDE DEF m, k, a, b
  <2>4. b \in DpuType /\ b.tl = m.tl /\ b.out = m.out /\ b.outAt = a
    BY <1>2, <2>2, <2>3 DEF DpuType
  <2> QED
    BY <2>4 DEF a
<1> HIDE DEF l, b
<1>6. /\ n \in DpuType /\ n.tl[t] = l /\ Only(m, n, t)
      /\ n.out = m.out /\ n.outAt = k.at + Len(k.buf)
  <2>1. /\ n \in DpuType /\ n.tl[t] = l /\ Only(b, n, t)
        /\ n.out = b.out /\ n.outAt = b.outAt
    BY <1>4, <1>5, PutGives
  <2> HIDE DEF n
  <2> QED
    BY <1>5, <2>1 DEF Only
<1> HIDE DEF n
<1>7. Tasks(n)
  <2>1. n.tl[t].pc = "off" \/ n.tl[t].i >= m.tl[t].i
    BY <1>3, <1>4, <1>6
  <2> QED
    BY <1>1, <1>2, <1>4, <1>6, <2>1, TasksGoOn
<1>8. (\A u \in Bins!Tasklets : CompactTl(n, u)) /\ CompactTogether(n)
  <2>1. /\ n.tl[t].pc = "flush" /\ n.tl[t].at = m.tl[t].at /\ n.tl[t].buf = m.tl[t].buf
        /\ n.tl[t].after = m.tl[t].after /\ n.tl[t].i = m.tl[t].i
        /\ n.outAt = m.tl[t].at + Len(m.tl[t].buf) /\ m.tl[t].pc = "move"
    BY <1>1, <1>4, <1>6
  <2> HIDE DEF m
  <2> QED
    BY <1>2, <1>6, <2>1, ReserveTogether
<1>9. Balanced(d, n)
  <2>1. \A i \in Mine(t) : Past(k, i, 0) <=> Past(l, i, 0)
    BY <1>1, <1>4 DEF Past
  <2>2. /\ Onward(m.tl[t], n.tl[t], t, 0)
        /\ \A i \in Mine(t) : Past(n.tl[t], i, 0) => Past(m.tl[t], i, 0) \/ Bins!Elem(d, i) \notin Odds
    BY <1>6, <2>1 DEF Onward
  <2>3. n.tl[t].buf = m.tl[t].buf
    BY <1>4, <1>6
  <2> QED
    BY <1>2, <1>6, <2>2, <2>3, BalanceStays
<1> QED
  BY <1>1, <1>7, <1>8, <1>9, CompactWhole DEF StepWorks

(* COMPACT.c:53 and 71: the buffer is written where it was reserved.       *)
LEMMA FlushWorks ==
  ASSUME given \in BinJobs, given.app = "COMPACT", NEW d \in Bins!Dpus,
         NEW t \in Bins!Tasklets, Works(d, dpu[d]), Bins!Flush(d, t)
  PROVE  StepWorks(d)
<1> DEFINE m == dpu[d]
           k == m.tl[t]
           len == FlushLen(m, k)
           l == IF k.after = "off" THEN Bins!Off ELSE [k EXCEPT !.pc = "elements", !.buf = <<>>]
           out == [i \in 1..len |->
                    IF i \in k.at+1..k.at+Len(k.buf) THEN k.buf[i - k.at]
                    ELSE IF i <= Len(m.out) THEN m.out[i] ELSE 0]
           b == [m EXCEPT !.out = out]
           n == [b EXCEPT !.tl[t] = l]
<1>1. /\ k.pc = "flush"
      /\ dpu' = [dpu EXCEPT ![d] = n] /\ given' = given /\ host' = host
  BY DEF Bins!Flush, Bins!Put, Bins!At, Bins!K, FlushLen
<1>2. /\ m \in DpuType /\ Tasks(m) /\ \A u \in Bins!Tasklets : CompactTl(m, u)
      /\ CompactTogether(m) /\ Balanced(d, m)
  BY CompactParts
<1>3. /\ k \in TlType /\ k.i \in Nat /\ k.at \in Nat /\ Len(k.buf) \in Nat
      /\ k.buf \in Seq(Odds \union {0}) /\ m.out \in Seq(Odds \union {0}) /\ Len(m.out) \in Nat
      /\ k.after \in {"elements", "off"}
  BY <1>2, BinsTypes
<1>4. len \in Nat
  BY <1>2, FlushLength
<1>5. /\ out \in Seq(Odds \union {0}) /\ Len(out) = len
      /\ \A p \in 1..len : out[p] = IF p \in Reserved(k) THEN k.buf[p - k.at]
                                    ELSE IF p <= Len(m.out) THEN m.out[p] ELSE 0
  <2> HIDE DEF len, k
  <2>1. ASSUME NEW i \in 1..len PROVE out[i] \in Odds \union {0}
    <3>1. CASE i \in k.at+1..k.at+Len(k.buf)
      <4>1. i - k.at \in 1..Len(k.buf)
        BY <1>3, <1>4, <3>1
      <4>2. k.buf[i - k.at] \in Odds \union {0}
        BY <1>3, <4>1
      <4> QED
        BY <3>1, <4>2
    <3>2. CASE i \notin k.at+1..k.at+Len(k.buf) /\ i <= Len(m.out)
      <4>1. i \in 1..Len(m.out)
        BY <1>3, <1>4, <3>2
      <4>2. m.out[i] \in Odds \union {0}
        BY <1>3, <4>1
      <4> QED
        BY <3>2, <4>2
    <3>3. CASE i \notin k.at+1..k.at+Len(k.buf) /\ ~(i <= Len(m.out))
      BY <3>3
    <3> QED
      BY <3>1, <3>2, <3>3
  <2>2. \A p \in 1..len : out[p] = IF p \in Reserved(k) THEN k.buf[p - k.at]
                                   ELSE IF p <= Len(m.out) THEN m.out[p] ELSE 0
    BY DEF Reserved
  <2>3. DOMAIN out = 1..len /\ out = [i \in 1..len |-> out[i]]
    OBVIOUS
  <2> HIDE DEF out
  <2>4. out \in [1..len -> Odds \union {0}]
    BY <2>1, <2>3
  <2> QED
    BY <1>4, <2>2, <2>4
<1>6. /\ l \in TlType /\ l.buf = <<>> /\ l.pc \in {"elements", "off"}
      /\ l.pc = "off" <=> k.after = "off"
      /\ l.pc = "elements" => l.i = k.i /\ l.after = "elements"
  <2>1. CASE k.after = "off"
    <3>1. l = Bins!Off
      BY <2>1
    <3> HIDE DEF l
    <3> QED
      BY <2>1, <3>1, TlOff
  <2>2. CASE k.after # "off"
    <3>1. l = [k EXCEPT !.pc = "elements", !.buf = <<>>]
      BY <2>2
    <3>2. <<>> \in Seq(Odds \union {0})
      OBVIOUS
    <3>3. k.after = "elements"
      BY <1>3, <2>2
    <3> HIDE DEF l, k
    <3>4. /\ l \in TlType /\ l.buf = <<>> /\ l.pc = "elements" /\ l.i = k.i /\ l.after = k.after
      BY <1>3, <3>1, <3>2 DEF TlType, BinPcs
    <3> QED
      BY <2>2, <3>3, <3>4
  <2> QED
    BY <2>1, <2>2
<1>7. b \in DpuType /\ b.tl = m.tl /\ b.out = out /\ b.outAt = m.outAt /\ b.locks = m.locks
  <2> HIDE DEF out, m
  <2> QED
    BY <1>2, <1>5, DpuOut
<1> HIDE DEF l, b
<1>8. /\ n \in DpuType /\ n.tl[t] = l /\ Only(m, n, t)
      /\ n.out = out /\ n.outAt = m.outAt /\ n.locks = m.locks
  <2> HIDE DEF out
  <2>1. /\ n \in DpuType /\ n.tl[t] = l /\ Only(b, n, t)
        /\ n.out = b.out /\ n.outAt = b.outAt /\ n.locks = b.locks
    BY <1>6, <1>7, PutGives
  <2> HIDE DEF n
  <2> QED
    BY <1>7, <2>1 DEF Only
<1> HIDE DEF n
<1>9. Flushed(m, n, m.tl[t])
  <2> HIDE DEF out
  <2> QED
    BY <1>5, <1>8 DEF Flushed
<1> HIDE DEF out, len
<1>10. k.after = "off" => k.i >= Bins!Share(t).to
  BY <1>1, <1>2 DEF CompactTl
<1>11. Tasks(n)
  <2>1. n.tl[t].pc = "off" \/ n.tl[t].i >= m.tl[t].i
    BY <1>3, <1>6, <1>8
  <2>2. m.tl[t].pc \notin {"init", "barrier", "off"} /\ n.tl[t].pc \notin {"init", "barrier"}
    BY <1>1, <1>6, <1>8
  <2> QED
    BY <1>2, <1>8, <2>1, <2>2, TasksGoOn
<1>12. CompactTl(n, t)
  BY <1>6, <1>8 DEF CompactTl
<1>13. (\A u \in Bins!Tasklets : CompactTl(n, u)) /\ CompactTogether(n)
  <2>1. n.tl[t].pc \in {"elements", "off"} /\ m.tl[t].pc = "flush"
    BY <1>1, <1>6, <1>8
  <2> HIDE DEF m
  <2> QED
    BY <1>2, <1>8, <1>9, <1>12, <2>1, FlushTogether
<1>14. Balanced(d, n)
  <2>1. \A i \in Mine(t) : k.after = "off" => i < k.i
    BY <1>3, <1>10, BinShares DEF Mine
  <2>2. \A i \in Mine(t) : Past(k, i, 0) <=> Past(l, i, 0)
    BY <1>1, <1>6, <2>1 DEF Past
  <2>3. Onward(m.tl[t], n.tl[t], t, 0) /\ Onward(n.tl[t], m.tl[t], t, 0)
    BY <1>8, <2>2 DEF Onward
  <2>4. \A p \in Reserved(m.tl[t]) : p <= Len(m.out) => m.out[p] = 0
    BY <1>1, <1>2 DEF CompactTl
  <2>5. n.tl[t].buf = <<>>
    BY <1>6, <1>8
  <2> HIDE DEF m
  <2> QED
    BY <1>2, <1>8, <1>9, <2>3, <2>4, <2>5, BalanceFlushes
<1> QED
  BY <1>1, <1>11, <1>13, <1>14, CompactWhole DEF StepWorks

-----------------------------------------------------------------------------
LEMMA HistogramParts ==
  ASSUME given.app # "COMPACT", NEW d, NEW m, Works(d, m)
  PROVE  /\ m \in DpuType /\ Tasks(m) /\ \A u \in Bins!Tasklets : BinTl(d, m, u)
         /\ BinsTogether(m) /\ Added(d, m)
BY DEF Works, Tasks

LEMMA HistogramWhole ==
  ASSUME given.app # "COMPACT", NEW d, NEW m, Tasks(m),
         \A u \in Bins!Tasklets : BinTl(d, m, u), BinsTogether(m), Added(d, m)
  PROVE  Works(d, m)
BY DEF Works

LEMMA ElemFalls ==
  ASSUME given \in BinJobs, NEW d \in Bins!Dpus, NEW i \in 0..Bins!PerDpu-1
  PROVE  /\ Bins!BinOf(Bins!Elem(d, i)) \in Bins!BinsOf
         /\ \A b : Bins!Elem(d, i) \in Falls(b) <=> b = Bins!BinOf(Bins!Elem(d, i))
BY ElemIsWord, BinIsBin DEF Falls

(* The group a bin is in: HST's mutex for it.                              *)
LEMMA GroupIsNat ==
  ASSUME given \in BinJobs, NEW b \in Bins!BinsOf
  PROVE  /\ b \in Nat /\ b < NumBins /\ b \div BinsPerMutex \in Nat
         /\ \A a \in Nat : (a + 1) * BinsPerMutex >= NumBins => b \div BinsPerMutex <= a
<1>1. /\ Bins!BinsOf = 0..NumBins-1
      /\ NumBins \in Nat \ {0} /\ BinsPerMutex \in Nat \ {0}
  BY BinJobTypes
<1>2. b \in Nat /\ b < NumBins
  BY <1>1
<1> DEFINE q == b \div BinsPerMutex
<1>3. q \in Nat /\ BinsPerMutex * q <= b
  BY <1>1, <1>2
<1> HIDE DEF q
<1>4. ASSUME NEW a \in Nat, (a + 1) * BinsPerMutex >= NumBins
      PROVE  q <= a
  <2> DEFINE x == q * BinsPerMutex
             y == (a + 1) * BinsPerMutex
  <2>1. x = BinsPerMutex * q /\ x \in Nat /\ y \in Nat
    BY <1>1, <1>3
  <2> HIDE DEF x, y
  <2>2. y >= NumBins
    BY <1>4 DEF y
  <2>3. x < y
    BY <1>1, <1>2, <1>3, <2>1, <2>2
  <2>4. q * BinsPerMutex < (a + 1) * BinsPerMutex
    BY <2>3 DEF x, y
  <2>5. q < a + 1
    BY <1>1, <1>3, <2>4, FactorOrder
  <2> QED
    BY <1>3, <2>5
<1> QED
  BY <1>2, <1>3, <1>4 DEF q

(* The steps that leave the shared bins and their mutexes alone.           *)
LEMMA HistogramGoesOn ==
  ASSUME NEW d, NEW m, \A u \in Bins!Tasklets : BinTl(d, m, u), BinsTogether(m),
         NEW n, NEW t \in Bins!Tasklets, Only(m, n, t),
         n.bins = m.bins, n.locks = m.locks, n.tl[t].pc # "add", BinTl(d, n, t)
  PROVE  (\A u \in Bins!Tasklets : BinTl(d, n, u)) /\ BinsTogether(n)
<1>1. ASSUME NEW u \in Bins!Tasklets, u # t PROVE BinTl(d, n, u)
  <2>1. n.tl[u] = m.tl[u] /\ BinTl(d, m, u)
    BY <1>1 DEF Only
  <2> QED
    BY <2>1 DEF BinTl
<1>2. BinsTogether(n)
  BY DEF Only, BinsTogether
<1> QED
  BY <1>1, <1>2

LEMMA AddedStays ==
  ASSUME NEW d, NEW m, Added(d, m), NEW n, NEW t \in Bins!Tasklets, Only(m, n, t),
         n.bins = m.bins,
         \A b \in Bins!BinsOf : Onward(m.tl[t], n.tl[t], t, b) /\ Onward(n.tl[t], m.tl[t], t, b)
  PROVE  Added(d, n)
<1> SUFFICES ASSUME NEW b \in Bins!BinsOf
             PROVE  Went(d, n, Falls(b), b) = Went(d, m, Falls(b), b)
  BY DEF Added
<1>1. \A u \in Bins!Tasklets : \A i \in Mine(u) : Past(m.tl[u], i, b) <=> Past(n.tl[u], i, b)
  BY DEF Only, Onward
<1> QED
  BY <1>1, WentNot

(* What a tasklet of HST has counted of its elements before element j.     *)
Own(d, t, b, j) == {i \in Mine(t) : i < j /\ Bins!Elem(d, i) \in Falls(b)}

LEMMA OwnGrows ==
  ASSUME given \in BinJobs, NEW d \in Bins!Dpus, NEW t \in Bins!Tasklets, NEW j \in Mine(t),
         NEW b \in Bins!BinsOf
  PROVE  Cardinality(Own(d, t, b, j + 1)) =
           Cardinality(Own(d, t, b, j)) + (IF b = Bins!BinOf(Bins!Elem(d, j)) THEN 1 ELSE 0)
<1>1. Mine(t) \subseteq 0..Bins!PerDpu-1 /\ j \in 0..Bins!PerDpu-1
  BY BinShares
<1>2. Bins!Elem(d, j) \in Falls(b) <=> b = Bins!BinOf(Bins!Elem(d, j))
  BY <1>1, ElemFalls
<1>3. IsFiniteSet(Own(d, t, b, j)) /\ Cardinality(Own(d, t, b, j)) \in Nat
  <2>1. Own(d, t, b, j) \subseteq 0..Bins!PerDpu-1
    BY <1>1 DEF Own
  <2> QED
    BY <2>1, PartsFinite
<1>4. j \notin Own(d, t, b, j)
  BY <1>1 DEF Own
<1>5. \A i \in Mine(t) : i < j + 1 <=> i < j \/ i = j
  BY <1>1
<1>6. CASE b = Bins!BinOf(Bins!Elem(d, j))
  <2>1. Own(d, t, b, j + 1) = Own(d, t, b, j) \union {j}
    BY <1>2, <1>5, <1>6 DEF Own
  <2>2. Cardinality(Own(d, t, b, j) \union {j}) = Cardinality(Own(d, t, b, j)) + 1
    BY <1>3, <1>4, FS_AddElement
  <2> QED
    BY <1>6, <2>1, <2>2
<1>7. CASE b # Bins!BinOf(Bins!Elem(d, j))
  <2>1. Own(d, t, b, j + 1) = Own(d, t, b, j)
    BY <1>2, <1>5, <1>7 DEF Own
  <2> QED
    BY <1>3, <1>7, <2>1
<1> QED
  BY <1>6, <1>7

(* HST.c:60-66: an element is counted in the tasklet's own bins.           *)
LEMMA CountElementWorks ==
  ASSUME given \in BinJobs, NEW d \in Bins!Dpus, NEW t \in Bins!Tasklets,
         Works(d, dpu[d]), Bins!CountElement(d, t)
  PROVE  StepWorks(d)
<1> DEFINE m == dpu[d]
           k == m.tl[t]
           b0 == Bins!BinOf(Bins!Elem(d, k.i))
           l == IF k.i < Bins!Share(t).to
                THEN [k EXCEPT !.i = @ + 1, !.bins[b0] = @ + 1]
                ELSE [k EXCEPT !.pc = "groups", !.at = 0]
           n == [m EXCEPT !.tl[t] = l]
<1>1. /\ given.app = "HST" /\ k.pc = "elements"
      /\ dpu' = [dpu EXCEPT ![d] = n] /\ given' = given /\ host' = host
  BY DEF Bins!CountElement, Bins!Put, Bins!At, Bins!K, Bins!More, Bins!X
<1>2. /\ m \in DpuType /\ Tasks(m) /\ \A u \in Bins!Tasklets : BinTl(d, m, u)
      /\ BinsTogether(m) /\ Added(d, m)
  BY <1>1, HistogramParts
<1>3. k \in TlType /\ k.i \in Nat /\ k.bins \in [Bins!BinsOf -> Nat]
  BY <1>2, BinsTypes
<1>4. Bins!Share(t).from <= k.i /\ Bins!Share(t).to \in Int
  BY <1>1, <1>2, BinShares DEF Tasks
<1>5. \A b \in Bins!BinsOf : k.bins[b] = Cardinality(Own(d, t, b, k.i))
  BY <1>1, <1>2 DEF BinTl, Own
<1>6. /\ l \in TlType /\ l.pc \in {"elements", "groups"} /\ l.i >= k.i
      /\ l.pc = "groups" => l.i >= Bins!Share(t).to /\ l.at = 0
      /\ \A b \in Bins!BinsOf : l.bins[b] = Cardinality(Own(d, t, b, l.i))
  <2>1. CASE k.i < Bins!Share(t).to
    <3>1. k.i \in Mine(t) /\ k.i \in 0..Bins!PerDpu-1
      <4>1. Mine(t) \subseteq 0..Bins!PerDpu-1 /\ Mine(t) = EvenItems(Bins!PerDpu, given.nt, t)
        BY <1>1, HistogramShares, BinShares
      <4>2. Bins!Share(t).from = EvenStart(Bins!PerDpu, given.nt, t)
            /\ Bins!Share(t).to = EvenEnd(Bins!PerDpu, given.nt, t)
        BY <1>1 DEF Bins!Share, Bins!EvenCount, EvenCount, Bins!EvenStart, EvenStart, Bins!EvenEnd, EvenEnd
      <4>3. Bins!Share(t).from \in Nat
        BY BinShares
      <4> HIDE DEF k
      <4>4. k.i \in EvenItems(Bins!PerDpu, given.nt, t)
        BY <1>3, <1>4, <2>1, <4>2, <4>3 DEF EvenItems
      <4> QED
        BY <4>1, <4>4
    <3>2. b0 \in Bins!BinsOf
      BY <3>1, ElemFalls
    <3>3. l = [k EXCEPT !.i = @ + 1, !.bins[b0] = @ + 1]
      BY <2>1
    <3> DEFINE v == [k.bins EXCEPT ![b0] = @ + 1]
               j == k.i + 1
    <3>4. v \in [Bins!BinsOf -> Nat] /\ j \in Nat /\ k.bins[b0] \in Nat
          /\ \A b \in Bins!BinsOf : v[b] = k.bins[b] + (IF b = b0 THEN 1 ELSE 0)
      <4> HIDE DEF k, b0
      <4> QED
        BY <1>3, <3>2
    <3>5. l = [k EXCEPT !.i = j, !.bins = v]
      BY <3>3
    <3> HIDE DEF v, j, l
    <3>6. l \in TlType /\ l.pc = k.pc /\ l.i = j /\ l.bins = v
      <4> HIDE DEF k
      <4> QED
        BY <1>3, <3>4, <3>5 DEF TlType
    <3>7. \A b \in Bins!BinsOf : v[b] = Cardinality(Own(d, t, b, j))
      <4> SUFFICES ASSUME NEW b \in Bins!BinsOf PROVE v[b] = Cardinality(Own(d, t, b, j))
        OBVIOUS
      <4>1. Cardinality(Own(d, t, b, k.i + 1)) =
              Cardinality(Own(d, t, b, k.i)) + (IF b = b0 THEN 1 ELSE 0)
        BY <3>1, OwnGrows
      <4> QED
        BY <1>5, <3>4, <4>1 DEF j
    <3>8. j >= k.i
      BY <1>3 DEF j
    <3> QED
      BY <1>1, <3>6, <3>7, <3>8
  <2>2. CASE ~(k.i < Bins!Share(t).to)
    <3>1. l = [k EXCEPT !.pc = "groups", !.at = 0]
      BY <2>2
    <3> HIDE DEF l
    <3>2. l \in TlType /\ l.pc = "groups" /\ l.i = k.i /\ l.bins = k.bins /\ l.at = 0
      <4> HIDE DEF k
      <4> QED
        BY <1>3, <3>1 DEF TlType, BinPcs
    <3>3. k.i >= Bins!Share(t).to
      BY <1>3, <1>4, <2>2
    <3>4. k.i >= k.i
      BY <1>3
    <3> QED
      BY <1>5, <3>2, <3>3, <3>4
  <2> QED
    BY <2>1, <2>2
<1> HIDE DEF l
<1>7. /\ n \in DpuType /\ n.tl[t] = l /\ Only(m, n, t)
      /\ n.bins = m.bins /\ n.locks = m.locks
  BY <1>2, <1>6, PutGives
<1> HIDE DEF n
<1>8. Tasks(n)
  <2>1. n.tl[t].pc = "off" \/ n.tl[t].i >= m.tl[t].i
    BY <1>6, <1>7
  <2>2. m.tl[t].pc \notin {"init", "barrier", "off"} /\ n.tl[t].pc \notin {"init", "barrier"}
    BY <1>1, <1>6, <1>7
  <2> QED
    BY <1>2, <1>7, <2>1, <2>2, TasksGoOn
<1>9. BinTl(d, n, t)
  BY <1>1, <1>6, <1>7 DEF BinTl, Own
<1>10. (\A u \in Bins!Tasklets : BinTl(d, n, u)) /\ BinsTogether(n)
  <2>1. n.tl[t].pc # "add"
    BY <1>6, <1>7
  <2> QED
    BY <1>2, <1>7, <1>9, <2>1, HistogramGoesOn
<1>11. Added(d, n)
  <2>1. ASSUME NEW b \in Bins!BinsOf, NEW i PROVE ~Past(k, i, b) /\ ~Past(l, i, b)
    <3>1. b \div BinsPerMutex \in Nat
      BY GroupIsNat
    <3>2. ~(b \div BinsPerMutex < 0)
      BY <3>1
    <3> QED
      BY <1>1, <1>6, <3>2 DEF Past
  <2>2. \A b \in Bins!BinsOf : Onward(m.tl[t], n.tl[t], t, b) /\ Onward(n.tl[t], m.tl[t], t, b)
    BY <1>7, <2>1 DEF Onward
  <2> QED
    BY <1>2, <1>7, <2>2, AddedStays
<1> QED
  BY <1>1, <1>8, <1>10, <1>11, HistogramWhole DEF StepWorks

(* HSTS.c:57-61: an element is taken to the mutex of its bin.              *)
LEMMA ChooseBinWorks ==
  ASSUME given \in BinJobs, NEW d \in Bins!Dpus, NEW t \in Bins!Tasklets,
         Works(d, dpu[d]), Bins!ChooseBin(d, t)
  PROVE  StepWorks(d)
<1> DEFINE m == dpu[d]
           k == m.tl[t]
           b0 == Bins!BinOf(Bins!Elem(d, k.i))
           l == IF k.i < Bins!Share(t).to
                THEN [k EXCEPT !.i = @ + 1, !.pc = "bin", !.at = b0]
                ELSE Bins!Off
           n == [m EXCEPT !.tl[t] = l]
<1>1. /\ given.app = "HSTS" /\ k.pc = "elements"
      /\ dpu' = [dpu EXCEPT ![d] = n] /\ given' = given /\ host' = host
  BY DEF Bins!ChooseBin, Bins!Put, Bins!At, Bins!K, Bins!More, Bins!X
<1>2. /\ m \in DpuType /\ Tasks(m) /\ \A u \in Bins!Tasklets : BinTl(d, m, u)
      /\ BinsTogether(m) /\ Added(d, m)
  BY <1>1, HistogramParts
<1>3. k \in TlType /\ k.i \in Nat
  BY <1>2, BinsTypes
<1>4. Bins!Share(t).from <= k.i /\ Bins!Share(t).to \in Int
  BY <1>1, <1>2, BinShares DEF Tasks
<1>5. /\ l \in TlType /\ l.pc \in {"bin", "off"}
      /\ l.pc = "bin" => l.i = k.i + 1 /\ k.i \in Mine(t) /\ l.at = b0
      /\ l.pc = "off" => k.i >= Bins!Share(t).to
  <2>1. CASE k.i < Bins!Share(t).to
    <3>1. k.i \in Mine(t) /\ k.i \in 0..Bins!PerDpu-1
      <4>1. Mine(t) \subseteq 0..Bins!PerDpu-1 /\ Mine(t) = EvenItems(Bins!PerDpu, given.nt, t)
        BY <1>1, HistogramShares, BinShares
      <4>2. Bins!Share(t).from = EvenStart(Bins!PerDpu, given.nt, t)
            /\ Bins!Share(t).to = EvenEnd(Bins!PerDpu, given.nt, t)
        BY <1>1 DEF Bins!Share, Bins!EvenCount, EvenCount, Bins!EvenStart, EvenStart, Bins!EvenEnd, EvenEnd
      <4>3. Bins!Share(t).from \in Nat
        BY BinShares
      <4> HIDE DEF k
      <4>4. k.i \in EvenItems(Bins!PerDpu, given.nt, t)
        BY <1>3, <1>4, <2>1, <4>2, <4>3 DEF EvenItems
      <4> QED
        BY <4>1, <4>4
    <3>2. b0 \in Nat
      <4>1. b0 \in Bins!BinsOf
        BY <3>1, ElemFalls
      <4> HIDE DEF b0
      <4> QED
        BY <4>1, GroupIsNat
    <3>3. l = [k EXCEPT !.i = @ + 1, !.pc = "bin", !.at = b0]
      BY <2>1
    <3> DEFINE j == k.i + 1
    <3>4. l = [k EXCEPT !.i = j, !.pc = "bin", !.at = b0] /\ j \in Nat
      BY <1>3, <3>3
    <3> HIDE DEF l, j
    <3>5. l \in TlType /\ l.pc = "bin" /\ l.i = j /\ l.at = b0
      <4> HIDE DEF k, b0
      <4> QED
        BY <1>3, <3>2, <3>4 DEF TlType, BinPcs
    <3> QED
      BY <3>1, <3>5 DEF j
  <2>2. CASE ~(k.i < Bins!Share(t).to)
    <3>1. l = Bins!Off
      BY <2>2
    <3> HIDE DEF l
    <3>2. k.i >= Bins!Share(t).to
      BY <1>3, <1>4, <2>2
    <3> QED
      BY <3>1, <3>2, TlOff
  <2> QED
    BY <2>1, <2>2
<1> HIDE DEF l
<1>7. /\ n \in DpuType /\ n.tl[t] = l /\ Only(m, n, t)
      /\ n.bins = m.bins /\ n.locks = m.locks
  BY <1>2, <1>5, PutGives
<1> HIDE DEF n
<1>8. Tasks(n)
  <2>1. n.tl[t].pc = "off" \/ n.tl[t].i >= m.tl[t].i
    BY <1>3, <1>5, <1>7
  <2>2. m.tl[t].pc \notin {"init", "barrier", "off"} /\ n.tl[t].pc \notin {"init", "barrier"}
    BY <1>1, <1>5, <1>7
  <2> QED
    BY <1>2, <1>7, <2>1, <2>2, TasksGoOn
<1>9. BinTl(d, n, t)
  <2>1. l.pc = "bin" => l.i - 1 = k.i
    BY <1>3, <1>5
  <2>2. l.pc = "bin" => l.i - 1 \in Mine(t) /\ l.at = Bins!BinOf(Bins!Elem(d, l.i - 1))
    BY <1>5, <2>1
  <2> HIDE DEF k
  <2> QED
    BY <1>1, <1>5, <1>7, <2>2 DEF BinTl
<1>10. (\A u \in Bins!Tasklets : BinTl(d, n, u)) /\ BinsTogether(n)
  <2>1. n.tl[t].pc # "add"
    BY <1>5, <1>7
  <2> QED
    BY <1>2, <1>7, <1>9, <2>1, HistogramGoesOn
<1>11. Added(d, n)
  <2>1. ASSUME NEW b \in Bins!BinsOf, NEW i \in Mine(t) PROVE Past(k, i, b) <=> Past(l, i, b)
    <3>1. i \in Nat /\ i < Bins!Share(t).to
      BY BinShares DEF Mine
    <3>2. Past(k, i, b) <=> i < k.i
      BY <1>1 DEF Past
    <3>3. CASE l.pc = "bin"
      <4>1. l.i = k.i + 1
        BY <1>5, <3>3
      <4>2. Past(l, i, b) <=> i < k.i + 1 /\ i # k.i
        <5>1. l.i - 1 = k.i
          BY <1>3, <4>1
        <5> QED
          BY <1>1, <3>3, <4>1, <5>1 DEF Past
      <4> HIDE DEF k
      <4> QED
        BY <1>3, <3>1, <3>2, <4>2
    <3>4. CASE l.pc = "off"
      <4>1. i < k.i
        BY <1>3, <1>4, <1>5, <3>1, <3>4
      <4> QED
        BY <3>2, <3>4, <4>1 DEF Past
    <3> QED
      BY <1>5, <3>3, <3>4
  <2>2. \A b \in Bins!BinsOf : Onward(m.tl[t], n.tl[t], t, b) /\ Onward(n.tl[t], m.tl[t], t, b)
    BY <1>7, <2>1 DEF Onward
  <2> QED
    BY <1>2, <1>7, <2>2, AddedStays
<1> QED
  BY <1>1, <1>8, <1>10, <1>11, HistogramWhole DEF StepWorks

-----------------------------------------------------------------------------
(* HST.c:71, HSTS.c:61: under the mutex the bins are read.                 *)
LEMMA LockBinsWorks ==
  ASSUME given \in BinJobs, NEW d \in Bins!Dpus, NEW t \in Bins!Tasklets,
         given.app # "COMPACT", Works(d, dpu[d]), Bins!LockBins(d, t)
  PROVE  StepWorks(d)
<1> DEFINE m == dpu[d]
           k == m.tl[t]
           l == [k EXCEPT !.pc = "add", !.tmp = m.bins]
           s == m.locks \union {k.at}
           b == [m EXCEPT !.locks = s]
           n == [b EXCEPT !.tl[t] = l]
<1>1. /\ k.pc = IF given.app = "HSTS" THEN "bin" ELSE "groups"
      /\ k.at \notin m.locks
      /\ dpu' = [dpu EXCEPT ![d] = n] /\ given' = given /\ host' = host
  BY DEF Bins!LockBins, Bins!Put, Bins!At, Bins!K
<1>0. given.app \in {"HST", "HSTS"}
  BY BinJobTypes
<1>2. /\ m \in DpuType /\ Tasks(m) /\ \A u \in Bins!Tasklets : BinTl(d, m, u)
      /\ BinsTogether(m) /\ Added(d, m)
  BY HistogramParts
<1>3. k \in TlType /\ k.i \in Nat /\ k.at \in Nat /\ m.bins \in [Bins!BinsOf -> Nat]
      /\ m.locks \in SUBSET Nat
  BY <1>2, BinsTypes
<1>4. /\ l \in TlType /\ l.pc = "add" /\ l.at = k.at /\ l.i = k.i /\ l.bins = k.bins
      /\ l.tmp = m.bins
  <2> DEFINE a == m.bins
  <2>1. a \in [Bins!BinsOf -> Nat] /\ l = [k EXCEPT !.pc = "add", !.tmp = a]
    BY <1>3
  <2> HIDE DEF a, k, l
  <2>2. /\ l \in TlType /\ l.pc = "add" /\ l.at = k.at /\ l.i = k.i /\ l.bins = k.bins
        /\ l.tmp = a
    BY <1>3, <2>1 DEF TlType, BinPcs
  <2> QED
    BY <2>2 DEF a
<1>5. b \in DpuType /\ b.tl = m.tl /\ b.locks = s /\ b.bins = m.bins
  <2>1. s \in SUBSET Nat
    BY <1>3
  <2> HIDE DEF m, s
  <2> QED
    BY <1>2, <2>1, DpuLocks
<1> HIDE DEF l, b
<1>6. /\ n \in DpuType /\ n.tl[t] = l /\ Only(m, n, t)
      /\ n.bins = m.bins /\ n.locks = s
  <2>1. /\ n \in DpuType /\ n.tl[t] = l /\ Only(b, n, t)
        /\ n.bins = b.bins /\ n.locks = b.locks
    BY <1>4, <1>5, PutGives
  <2> HIDE DEF n
  <2> QED
    BY <1>5, <2>1 DEF Only
<1> HIDE DEF n
<1>7. Tasks(n)
  <2>1. n.tl[t].pc = "off" \/ n.tl[t].i >= m.tl[t].i
    BY <1>3, <1>4, <1>6
  <2>2. m.tl[t].pc \notin {"init", "barrier", "off"} /\ n.tl[t].pc \notin {"init", "barrier"}
    BY <1>1, <1>4, <1>6
  <2> QED
    BY <1>2, <1>6, <2>1, <2>2, TasksGoOn
<1>8. BinTl(d, n, t)
  <2>1. BinTl(d, m, t) /\ k.at \in s
    BY <1>2
  <2> QED
    BY <1>0, <1>1, <1>4, <1>6, <2>1 DEF BinTl
<1>9. ASSUME NEW u \in Bins!Tasklets, u # t PROVE BinTl(d, n, u)
  <2>1. n.tl[u] = m.tl[u] /\ BinTl(d, m, u)
    BY <1>2, <1>6, <1>9 DEF Only
  <2>2. m.locks \subseteq n.locks
    BY <1>6
  <2> QED
    BY <1>6, <2>1, <2>2 DEF BinTl
<1>10. BinsTogether(n)
  <2>1. ASSUME NEW u \in Bins!Tasklets, u # t, n.tl[u].pc = "add"
        PROVE  n.tl[u].at # n.tl[t].at
    <3>1. n.tl[u] = m.tl[u] /\ m.tl[u].at \in m.locks
      BY <1>2, <1>6, <2>1 DEF Only, BinTl
    <3> QED
      BY <1>1, <1>4, <1>6, <3>1
  <2> QED
    BY <1>2, <1>6, <2>1 DEF BinsTogether, Only
<1>11. Added(d, n)
  <2>1. ASSUME NEW c \in Bins!BinsOf, NEW i \in Mine(t) PROVE Past(k, i, c) <=> Past(l, i, c)
    BY <1>0, <1>1, <1>4 DEF Past
  <2>2. \A c \in Bins!BinsOf : Onward(m.tl[t], n.tl[t], t, c) /\ Onward(n.tl[t], m.tl[t], t, c)
    BY <1>6, <2>1 DEF Onward
  <2> QED
    BY <1>2, <1>6, <2>2, AddedStays
<1> QED
  BY <1>1, <1>7, <1>8, <1>9, <1>10, <1>11, HistogramWhole DEF StepWorks

(* What an addition brings in: the tasklet's own count of the bins of the  *)
(* group, or the one element.                                              *)
LEMMA GroupComesIn ==
  ASSUME given \in BinJobs, given.app = "HST", NEW d \in Bins!Dpus, NEW t \in Bins!Tasklets,
         NEW k \in TlType, k.pc = "add", k.i >= Bins!Share(t).to,
         NEW c \in Bins!BinsOf, k.bins[c] = Cardinality(Own(d, t, c, k.i)), NEW l,
         \/ l.pc = "off" /\ (k.at + 1) * BinsPerMutex >= NumBins
         \/ l.pc = "groups" /\ l.at = k.at + 1
  PROVE  /\ Onward(k, l, t, c)
         /\ Cardinality(New(d, k, l, t, Falls(c), c)) =
              IF c \in Bins!BinsUnder(k) THEN k.bins[c] ELSE 0
<1> DEFINE q == c \div BinsPerMutex
<1>1. /\ q \in Nat /\ k.at \in Nat /\ k.i \in Nat /\ Bins!Share(t).to \in Int
      /\ (k.at + 1) * BinsPerMutex >= NumBins => q <= k.at
  BY GroupIsNat, BinShares DEF TlType
<1>2. c \in Bins!BinsUnder(k) <=> q = k.at
  BY DEF Bins!BinsUnder
<1>3. \A i \in Mine(t) : i < k.i
  BY <1>1 DEF Mine
<1>4. \A i : Past(k, i, c) <=> q < k.at
  BY DEF Past
<1>5. \A i : Past(l, i, c) <=> (l.pc = "off" \/ q < l.at)
  BY DEF Past
<1> HIDE DEF q
<1>6. \A i : Past(l, i, c) <=> (q < k.at \/ q = k.at \/ l.pc = "off")
  BY <1>1, <1>5
<1>7. Onward(k, l, t, c)
  BY <1>4, <1>6 DEF Onward
<1>8. CASE q = k.at
  <2>1. New(d, k, l, t, Falls(c), c) = Own(d, t, c, k.i)
    BY <1>1, <1>3, <1>4, <1>6, <1>8 DEF New, Own
  <2> QED
    BY <1>2, <1>7, <1>8, <2>1
<1>9. CASE q # k.at
  <2>1. New(d, k, l, t, Falls(c), c) = {}
    BY <1>1, <1>4, <1>6, <1>9 DEF New
  <2> QED
    BY <1>2, <1>7, <1>9, <2>1, FS_EmptySet
<1> QED
  BY <1>8, <1>9

LEMMA ElementComesIn ==
  ASSUME given \in BinJobs, given.app = "HSTS", NEW d \in Bins!Dpus, NEW t \in Bins!Tasklets,
         NEW k \in TlType, k.pc = "add", k.i - 1 \in Mine(t),
         k.at = Bins!BinOf(Bins!Elem(d, k.i - 1)),
         NEW c \in Bins!BinsOf, NEW l, l.pc = "elements", l.i = k.i
  PROVE  /\ Onward(k, l, t, c)
         /\ Cardinality(New(d, k, l, t, Falls(c), c)) = IF c \in Bins!BinsUnder(k) THEN 1 ELSE 0
<1> DEFINE j == k.i - 1
<1>1. c \in Bins!BinsUnder(k) <=> c = k.at
  BY DEF Bins!BinsUnder
<1>2. k.i \in Nat
  BY DEF TlType
<1>3. Mine(t) \subseteq 0..Bins!PerDpu-1
  BY BinShares
<1>4. j \in Mine(t) /\ j \in 0..Bins!PerDpu-1 /\ j < k.i
  BY <1>2, <1>3
<1>5. Bins!Elem(d, j) \in Falls(c) <=> c = k.at
  BY <1>4, ElemFalls
<1>6. \A i \in Mine(t) : Past(k, i, c) <=> i < k.i /\ i # j
  BY DEF Past
<1>7. \A i \in Mine(t) : Past(l, i, c) <=> i < k.i
  BY DEF Past
<1> HIDE DEF j
<1>8. Onward(k, l, t, c)
  BY <1>6, <1>7 DEF Onward
<1>9. New(d, k, l, t, Falls(c), c) = IF c = k.at THEN {j} ELSE {}
  BY <1>4, <1>5, <1>6, <1>7 DEF New
<1> QED
  BY <1>1, <1>8, <1>9, FS_EmptySet, FS_Singleton

(* HST.c:72-74, HSTS.c:62-63: the bins are written, and the mutex let go.  *)
LEMMA AddBinsWorks ==
  ASSUME given \in BinJobs, NEW d \in Bins!Dpus, NEW t \in Bins!Tasklets,
         given.app # "COMPACT", Works(d, dpu[d]), Bins!AddBins(d, t)
  PROVE  StepWorks(d)
<1> DEFINE m == dpu[d]
           k == m.tl[t]
           more(c) == IF given.app = "HSTS" THEN 1 ELSE k.bins[c]
           l == IF given.app = "HSTS" THEN [k EXCEPT !.pc = "elements", !.tmp = Bins!Zeros]
                ELSE IF (k.at + 1) * BinsPerMutex >= NumBins THEN Bins!Off
                ELSE [k EXCEPT !.pc = "groups", !.at = @ + 1, !.tmp = Bins!Zeros]
           s == m.locks \ {k.at}
           nb == [c \in Bins!BinsOf |->
                    IF c \in Bins!BinsUnder(k) THEN k.tmp[c] + more(c) ELSE m.bins[c]]
           b == [m EXCEPT !.locks = s, !.bins = nb]
           n == [b EXCEPT !.tl[t] = l]
<1>1. /\ k.pc = "add"
      /\ dpu' = [dpu EXCEPT ![d] = n] /\ given' = given /\ host' = host
  BY DEF Bins!AddBins, Bins!Put, Bins!At, Bins!K
<1>0. given.app \in {"HST", "HSTS"}
  BY BinJobTypes
<1>2. /\ m \in DpuType /\ Tasks(m) /\ \A u \in Bins!Tasklets : BinTl(d, m, u)
      /\ BinsTogether(m) /\ Added(d, m)
  BY HistogramParts
<1>3. k \in TlType /\ k.i \in Nat /\ k.at \in Nat /\ m.bins \in [Bins!BinsOf -> Nat]
      /\ m.locks \in SUBSET Nat /\ k.bins \in [Bins!BinsOf -> Nat]
      /\ k.tmp \in [Bins!BinsOf -> Nat]
  BY <1>2, BinsTypes
<1>4. /\ \A c \in Bins!BinsUnder(k) : k.tmp[c] = m.bins[c]
      /\ given.app = "HST" => /\ k.i >= Bins!Share(t).to
                              /\ \A c \in Bins!BinsOf : k.bins[c] = Cardinality(Own(d, t, c, k.i))
      /\ given.app = "HSTS" => k.i - 1 \in Mine(t) /\ k.at = Bins!BinOf(Bins!Elem(d, k.i - 1))
  BY <1>1, <1>2 DEF BinTl, Own
<1>5. /\ l \in TlType
      /\ given.app = "HSTS" => l.pc = "elements" /\ l.i = k.i
      /\ given.app = "HST" =>
           \/ l.pc = "off" /\ (k.at + 1) * BinsPerMutex >= NumBins
           \/ l.pc = "groups" /\ l.at = k.at + 1 /\ l.i = k.i /\ l.bins = k.bins
  <2>0. Bins!Zeros \in [Bins!BinsOf -> Nat] /\ k.at + 1 \in Nat
    BY <1>3, TlOff
  <2>1. CASE given.app = "HSTS"
    <3>1. l = [k EXCEPT !.pc = "elements", !.tmp = Bins!Zeros]
      BY <2>1
    <3> HIDE DEF k, l
    <3> QED
      BY <1>3, <2>0, <2>1, <3>1 DEF TlType, BinPcs
  <2>2. CASE given.app = "HST" /\ (k.at + 1) * BinsPerMutex >= NumBins
    <3>1. l = Bins!Off
      BY <2>2
    <3> HIDE DEF l
    <3> QED
      BY <2>2, <3>1, TlOff
  <2>3. CASE given.app = "HST" /\ ~((k.at + 1) * BinsPerMutex >= NumBins)
    <3> DEFINE a == k.at + 1
    <3>1. l = [k EXCEPT !.pc = "groups", !.at = a, !.tmp = Bins!Zeros] /\ a \in Nat
      BY <2>0, <2>3
    <3> HIDE DEF k, l, a
    <3>2. /\ l \in TlType /\ l.pc = "groups" /\ l.at = a /\ l.i = k.i /\ l.bins = k.bins
      BY <1>3, <2>0, <3>1 DEF TlType, BinPcs
    <3> QED
      BY <2>3, <3>2 DEF a
  <2> QED
    BY <1>0, <2>1, <2>2, <2>3
<1>6. /\ nb \in [Bins!BinsOf -> Nat]
      /\ \A c \in Bins!BinsOf : /\ more(c) \in Nat /\ m.bins[c] \in Nat
                                /\ nb[c] = m.bins[c] + (IF c \in Bins!BinsUnder(k) THEN more(c) ELSE 0)
  <2>1. \A c \in Bins!BinsOf : more(c) \in Nat /\ m.bins[c] \in Nat /\ k.tmp[c] \in Nat
    BY <1>3
  <2> HIDE DEF more, k, m
  <2>2. \A c \in Bins!BinsOf :
          /\ nb[c] \in Nat
          /\ nb[c] = m.bins[c] + (IF c \in Bins!BinsUnder(k) THEN more(c) ELSE 0)
    BY <1>4, <2>1
  <2> QED
    BY <2>1, <2>2
<1>7. b \in DpuType /\ b.tl = m.tl /\ b.locks = s /\ b.bins = nb
  <2>1. s \in SUBSET Nat
    BY <1>3
  <2> HIDE DEF m, s, nb
  <2> QED
    BY <1>2, <1>6, <2>1 DEF DpuType
<1> HIDE DEF l, b, nb
<1>8. /\ n \in DpuType /\ n.tl[t] = l /\ Only(m, n, t)
      /\ n.bins = nb /\ n.locks = s
  <2>1. /\ n \in DpuType /\ n.tl[t] = l /\ Only(b, n, t)
        /\ n.bins = b.bins /\ n.locks = b.locks
    BY <1>5, <1>7, PutGives
  <2> HIDE DEF n
  <2> QED
    BY <1>7, <2>1 DEF Only
<1> HIDE DEF n
<1>9. Tasks(n)
  <2>1. n.tl[t].pc = "off" \/ n.tl[t].i >= m.tl[t].i
    BY <1>0, <1>3, <1>5, <1>8
  <2>2. m.tl[t].pc \notin {"init", "barrier", "off"} /\ n.tl[t].pc \notin {"init", "barrier"}
    BY <1>0, <1>1, <1>5, <1>8
  <2> QED
    BY <1>2, <1>8, <2>1, <2>2, TasksGoOn
<1>10. BinTl(d, n, t)
  BY <1>0, <1>4, <1>5, <1>8 DEF BinTl, Own
<1>11. ASSUME NEW u \in Bins!Tasklets, u # t PROVE BinTl(d, n, u)
  <2>1. n.tl[u] = m.tl[u] /\ BinTl(d, m, u)
    BY <1>2, <1>8, <1>11 DEF Only
  <2> DEFINE j == m.tl[u]
  <2>2. ASSUME j.pc = "add"
        PROVE  j.at \in n.locks /\ \A c \in Bins!BinsUnder(j) : j.tmp[c] = n.bins[c]
    <3>1. j.at # k.at /\ j.at \in m.locks /\ \A c \in Bins!BinsUnder(j) : j.tmp[c] = m.bins[c]
      BY <1>1, <1>2, <1>11, <2>1, <2>2 DEF BinsTogether, BinTl
    <3>2. \A c \in Bins!BinsUnder(j) : c \notin Bins!BinsUnder(k) 
      BY <3>1 DEF Bins!BinsUnder
    <3>3. \A c \in Bins!BinsUnder(j) : c \in Bins!BinsOf
      <4>1. CASE given.app = "HST"
        BY <4>1 DEF Bins!BinsUnder
      <4>2. CASE given.app = "HSTS"
        <5>1. j.i - 1 \in Mine(u) /\ j.at = Bins!BinOf(Bins!Elem(d, j.i - 1))
          BY <2>1, <2>2, <4>2 DEF BinTl
        <5>2. j.at \in Bins!BinsOf
          BY <5>1, BinShares, ElemFalls
        <5> QED
          BY <4>2, <5>2 DEF Bins!BinsUnder
      <4> QED
        BY <1>0, <4>1, <4>2
    <3>4. \A c \in Bins!BinsUnder(j) : n.bins[c] = m.bins[c]
      <4> HIDE DEF k, j, more, m
      <4> QED
        BY <1>6, <1>8, <3>2, <3>3
    <3> QED
      BY <1>8, <3>1, <3>4
  <2> HIDE DEF m
  <2> QED
    BY <2>1, <2>2 DEF BinTl
<1>12. BinsTogether(n)
  BY <1>2, <1>0, <1>5, <1>8 DEF BinsTogether, Only
<1>13. Added(d, n)
  <2> SUFFICES ASSUME NEW c \in Bins!BinsOf
               PROVE  n.bins[c] = Cardinality(Went(d, n, Falls(c), c))
    BY DEF Added
  <2>1. /\ Onward(k, l, t, c)
        /\ Cardinality(New(d, k, l, t, Falls(c), c)) = IF c \in Bins!BinsUnder(k) THEN more(c) ELSE 0
    <3>1. CASE given.app = "HST"
      <4>1. k.bins[c] = Cardinality(Own(d, t, c, k.i)) /\ k.i >= Bins!Share(t).to
        BY <1>4, <3>1
      <4>2. \/ l.pc = "off" /\ (k.at + 1) * BinsPerMutex >= NumBins
            \/ l.pc = "groups" /\ l.at = k.at + 1
        BY <1>5, <3>1
      <4>3. more(c) = k.bins[c]
        BY <3>1
      <4> HIDE DEF k
      <4> QED
        BY <1>1, <1>3, <3>1, <4>1, <4>2, <4>3, GroupComesIn
    <3>2. CASE given.app = "HSTS"
      <4>1. k.i - 1 \in Mine(t) /\ k.at = Bins!BinOf(Bins!Elem(d, k.i - 1))
        BY <1>4, <3>2
      <4>2. l.pc = "elements" /\ l.i = k.i
        BY <1>5, <3>2
      <4>3. more(c) = 1
        BY <3>2
      <4> HIDE DEF k
      <4> QED
        BY <1>1, <1>3, <3>2, <4>1, <4>2, <4>3, ElementComesIn
    <3> QED
      BY <1>0, <3>1, <3>2
  <2>2. Onward(m.tl[t], n.tl[t], t, c)
    BY <1>8, <2>1
  <2>3. Cardinality(Went(d, n, Falls(c), c)) = Cardinality(Went(d, m, Falls(c), c))
          + Cardinality(New(d, m.tl[t], n.tl[t], t, Falls(c), c))
    <3> HIDE DEF m, k
    <3> QED
      BY <1>8, <2>2, WentOn
  <2>4. m.bins[c] = Cardinality(Went(d, m, Falls(c), c))
    BY <1>2 DEF Added
  <2> QED
    BY <1>6, <1>8, <2>1, <2>3, <2>4
<1> QED
  BY <1>1, <1>9, <1>10, <1>11, <1>12, <1>13, HistogramWhole DEF StepWorks

(* COMPACT.c:19, HSTS.c:27-30: what a tasklet prepares is as it was.       *)
LEMMA PrepareWorks ==
  ASSUME given \in BinJobs, NEW d \in Bins!Dpus, NEW t \in Bins!Tasklets,
         Works(d, dpu[d]), Bins!Prepare(d, t)
  PROVE  StepWorks(d)
<1> DEFINE m == dpu[d]
           k == m.tl[t]
           l == [k EXCEPT !.pc = "barrier"]
           mine == {c \in Bins!BinsOf : c % given.nt = t}
           s == m.ready \union mine
           z == [c \in Bins!BinsOf |-> IF c \in mine THEN 0 ELSE m.bins[c]]
           b == IF given.app = "COMPACT" THEN [m EXCEPT !.outAt = 0]
                ELSE [m EXCEPT !.ready = s, !.bins = z]
           n == [b EXCEPT !.tl[t] = l]
<1>1. /\ k.pc = "init"
      /\ dpu' = [dpu EXCEPT ![d] = n] /\ given' = given /\ host' = host
  BY DEF Bins!Prepare, Bins!Put, Bins!At, Bins!K
<1>2. m \in DpuType /\ Tasks(m) /\ Fresh(m)
  BY <1>1 DEF Works, Tasks
<1>3. k \in TlType /\ k.i \in Nat /\ m.ready \in SUBSET Bins!BinsOf
  BY <1>2, BinsTypes DEF DpuType
<1>4. /\ l \in TlType /\ l.pc = "barrier" /\ l.i = k.i /\ l.buf = k.buf /\ l.after = k.after
  <2>1. "barrier" \in BinPcs
    BY DEF BinPcs
  <2> HIDE DEF k
  <2> QED
    BY <1>3, <2>1, TlPc
<1>5. /\ b \in DpuType /\ b.tl = m.tl /\ b.locks = m.locks /\ b.bins = m.bins
      /\ b.out = m.out /\ b.outAt = m.outAt
  <2>1. m.outAt = 0 /\ m.bins = Bins!Zeros
    BY <1>2 DEF Fresh
  <2>2. s \in SUBSET Bins!BinsOf
    BY <1>3
  <2>3. z = m.bins /\ z \in [Bins!BinsOf -> Nat]
    BY <2>1 DEF Bins!Zeros
  <2> HIDE DEF m, s, z, mine
  <2>4. CASE given.app = "COMPACT"
    <3>1. b = [m EXCEPT !.outAt = 0]
      BY <2>4
    <3> HIDE DEF b
    <3> QED
      BY <1>2, <2>1, <3>1 DEF DpuType
  <2>5. CASE given.app # "COMPACT"
    <3>1. b = [m EXCEPT !.ready = s, !.bins = z]
      BY <2>5
    <3> HIDE DEF b
    <3> QED
      BY <1>2, <2>2, <2>3, <3>1 DEF DpuType
  <2> QED
    BY <2>4, <2>5
<1> HIDE DEF l, b
<1>6. /\ n \in DpuType /\ n.tl[t] = l /\ Only(m, n, t) /\ n.bins = m.bins
      /\ n.locks = m.locks /\ n.out = m.out /\ n.outAt = m.outAt
  <2>1. /\ n \in DpuType /\ n.tl[t] = l /\ Only(b, n, t)
        /\ n.bins = b.bins /\ n.locks = b.locks /\ n.out = b.out /\ n.outAt = b.outAt
    BY <1>4, <1>5, PutGives
  <2> HIDE DEF n
  <2> QED
    BY <1>5, <2>1 DEF Only
<1> HIDE DEF n
<1>7. Tasks(n)
  <2>1. k.i = Bins!Share(t).from /\ k.buf = <<>> /\ k.after = "elements"
    BY <1>2 DEF Fresh
  <2>2. Fresh(n)
    BY <1>2, <1>4, <1>6, <2>1 DEF Fresh, Only
  <2>3. \A u \in Bins!Tasklets : n.tl[u].i >= Bins!Share(u).from
    BY <2>2, BinShares DEF Fresh
  <2> QED
    BY <1>6, <2>2, <2>3 DEF Tasks
<1>8. ASSUME NEW c
      PROVE  Onward(m.tl[t], n.tl[t], t, c) /\ Onward(n.tl[t], m.tl[t], t, c)
  <2>1. \A i : Past(k, i, c) <=> Past(l, i, c)
    BY <1>1, <1>4 DEF Past
  <2> QED
    BY <1>6, <2>1 DEF Onward
<1>9. CASE given.app = "COMPACT"
  <2>0. /\ \A u \in Bins!Tasklets : CompactTl(m, u)
        /\ CompactTogether(m) /\ Balanced(d, m)
    BY <1>9, CompactParts
  <2>1. CompactTl(n, t)
    BY <1>4, <1>6 DEF CompactTl
  <2>2. (\A u \in Bins!Tasklets : CompactTl(n, u)) /\ CompactTogether(n)
    BY <1>1, <1>4, <1>6, <2>0, <2>1, CompactGoesOn
  <2>3. n.tl[t].buf = m.tl[t].buf
    BY <1>4, <1>6
  <2>4. \A i \in Mine(t) : Past(n.tl[t], i, 0) => Past(m.tl[t], i, 0) \/ Bins!Elem(d, i) \notin Odds
    BY <1>8 DEF Onward
  <2>5. Balanced(d, n)
    <3>1. Onward(m.tl[t], n.tl[t], t, 0)
      BY <1>8
    <3> HIDE DEF m
    <3> QED
      BY <1>6, <2>0, <2>3, <2>4, <3>1, BalanceStays
  <2> QED
    BY <1>1, <1>7, <1>9, <2>2, <2>5, CompactWhole DEF StepWorks
<1>10. CASE given.app # "COMPACT"
  <2>0. /\ \A u \in Bins!Tasklets : BinTl(d, m, u)
        /\ BinsTogether(m) /\ Added(d, m)
    BY <1>10, HistogramParts
  <2>1. BinTl(d, n, t)
    <3>1. given.app # "HST"
      BY <1>1, <2>0 DEF BinTl
    <3> QED
      BY <1>4, <1>6, <3>1 DEF BinTl
  <2>2. (\A u \in Bins!Tasklets : BinTl(d, n, u)) /\ BinsTogether(n)
    BY <1>4, <1>6, <2>0, <2>1, HistogramGoesOn
  <2>3. Added(d, n)
    BY <1>6, <1>8, <2>0, AddedStays
  <2> QED
    BY <1>1, <1>7, <1>10, <2>2, <2>3, HistogramWhole DEF StepWorks
<1> QED
  BY <1>9, <1>10

(* COMPACT.c:20 and 58, HSTS.c:32: all go on together.                     *)
LEMMA BinsBarrierWorks ==
  ASSUME given \in BinJobs, NEW d \in Bins!Dpus, Works(d, dpu[d]), Bins!Barrier(d)
  PROVE  StepWorks(d)
<1> DEFINE m == dpu[d]
           v == [t \in Bins!Tasklets |->
                   [m.tl[t] EXCEPT !.pc = IF @ = "barrier" THEN "elements" ELSE "leftover"]]
           n == [m EXCEPT !.tl = v]
<1>1. /\ \/ \A t \in Bins!Tasklets : m.tl[t].pc = "barrier"
         \/ \A t \in Bins!Tasklets : m.tl[t].pc = "barrier2"
      /\ dpu' = [dpu EXCEPT ![d] = n] /\ given' = given /\ host' = host
  BY DEF Bins!Barrier, Bins!At, Bins!K
<1>0. 0 \in Bins!Tasklets /\ given.app \in {"COMPACT", "HST", "HSTS"}
  BY BinJobTypes
<1>2. m \in DpuType /\ Tasks(m)
  BY DEF Works, Tasks
<1>3. ASSUME NEW t \in Bins!Tasklets
      PROVE  /\ v[t] \in TlType /\ v[t].i = m.tl[t].i /\ v[t].buf = m.tl[t].buf
             /\ v[t].after = m.tl[t].after
             /\ \/ m.tl[t].pc = "barrier" /\ v[t].pc = "elements"
                \/ m.tl[t].pc = "barrier2" /\ v[t].pc = "leftover"
  <2> DEFINE k == m.tl[t]
             p == IF k.pc = "barrier" THEN "elements" ELSE "leftover"
  <2>1. k \in TlType
    BY <1>2, BinsTypes
  <2>2. v[t] = [k EXCEPT !.pc = p] /\ p \in BinPcs
    BY DEF BinPcs
  <2>3. k.pc \in {"barrier", "barrier2"}
    BY <1>1
  <2> DEFINE l == v[t]
  <2>5. l = [k EXCEPT !.pc = p]
    BY <2>2
  <2> HIDE DEF k, l, p
  <2>4. l \in TlType /\ l.pc = p /\ l.i = k.i /\ l.buf = k.buf /\ l.after = k.after
    BY <2>1, <2>2, <2>5, TlPc
  <2> QED
    BY <2>3, <2>4 DEF p, l, k
<1>4. v \in [Bins!Tasklets -> TlType]
  <2>1. \A t \in Bins!Tasklets : v[t] \in TlType
    BY <1>3
  <2> QED
    BY <2>1
<1>6. /\ n \in DpuType /\ n.tl = v /\ n.bins = m.bins
      /\ n.locks = m.locks /\ n.out = m.out /\ n.outAt = m.outAt
  <2> HIDE DEF v, m
  <2> QED
    BY <1>2, <1>4 DEF DpuType
<1> HIDE DEF n, v
<1>7. Tasks(n)
  <2>1. \A t \in Bins!Tasklets : n.tl[t].i >= Bins!Share(t).from
                                 /\ n.tl[t].pc \in {"elements", "leftover"}
    BY <1>2, <1>3, <1>6 DEF Tasks
  <2> QED
    BY <1>6, <2>1 DEF Tasks
<1>8. ASSUME NEW u \in Bins!Tasklets, NEW i, NEW c
      PROVE  Past(m.tl[u], i, c) <=> Past(n.tl[u], i, c)
  BY <1>3, <1>6 DEF Past
<1>9. CASE given.app = "COMPACT"
  <2>0. /\ \A u \in Bins!Tasklets : CompactTl(m, u)
        /\ CompactTogether(m) /\ Balanced(d, m)
    BY <1>9, CompactParts
  <2>1. ASSUME NEW t \in Bins!Tasklets PROVE CompactTl(n, t)
    <3>1. m.tl[t].pc = "barrier" => m.tl[t].after = "elements"
      BY <1>2 DEF Tasks, Fresh
    <3> QED
      BY <1>3, <1>6, <2>0, <3>1 DEF CompactTl
  <2>2. \A t \in Bins!Tasklets : m.tl[t].pc # "flush" /\ n.tl[t].pc \notin {"move", "flush"}
    BY <1>3, <1>6
  <2>3. CompactTogether(n)
    BY <1>6, <2>0, <2>2 DEF CompactTogether
  <2>4. Balanced(d, n)
    <3> SUFFICES ASSUME NEW V \in SUBSET Odds
                 PROVE  /\ Places(n, V) = Places(m, V)
                        /\ Went(d, n, V, 0) = Went(d, m, V, 0)
      BY <2>0 DEF Balanced
    <3>1. Went(d, n, V, 0) = Went(d, m, V, 0)
      BY <1>8, WentNot
    <3>2. \A a \in 0..given.nt : a # 0 => n.tl[a-1].buf = m.tl[a-1].buf
      <4>1. \A a \in 0..given.nt : a # 0 => a - 1 \in Bins!Tasklets
        BY BinJobTypes
      <4> QED
        BY <1>3, <1>6, <4>1
    <3>3. \A a \in 0..given.nt, j \in Nat : Holds(n, V, a, j) <=> Holds(m, V, a, j)
      BY <1>6, <3>2 DEF Holds
    <3> QED
      BY <3>1, <3>3, SamePlaces
  <2>5. m.tl[0].pc # "off"
    BY <1>0, <1>1
  <2> QED
    BY <1>0, <1>1, <1>7, <1>9, <2>1, <2>3, <2>4, <2>5, CompactWhole DEF StepWorks
<1>10. CASE given.app # "COMPACT"
  <2>0. /\ \A u \in Bins!Tasklets : BinTl(d, m, u)
        /\ BinsTogether(m) /\ Added(d, m)
    BY <1>10, HistogramParts
  <2>1. ASSUME NEW t \in Bins!Tasklets
        PROVE  BinTl(d, n, t) /\ n.tl[t].pc # "add" /\ given.app = "HSTS"
    <3>1. given.app # "HST" /\ m.tl[t].pc # "barrier2"
      BY <1>0, <1>1, <1>10, <2>0 DEF BinTl
    <3>2. n.tl[t].pc = "elements"
      BY <1>3, <1>6, <3>1
    <3> QED
      BY <1>0, <1>10, <3>1, <3>2 DEF BinTl
  <2>2. BinsTogether(n)
    BY <2>1 DEF BinsTogether
  <2>3. Added(d, n)
    <3>1. \A c \in Bins!BinsOf : Went(d, n, Falls(c), c) = Went(d, m, Falls(c), c)
      BY <1>8, WentNot
    <3> QED
      BY <1>6, <2>0, <3>1 DEF Added
  <2>5. m.tl[0].pc # "off"
    BY <1>0, <1>1
  <2> QED
    BY <1>0, <1>1, <1>7, <1>10, <2>1, <2>2, <2>3, <2>5, HistogramWhole DEF StepWorks
<1> QED
  BY <1>9, <1>10

-----------------------------------------------------------------------------
(* What depends on the job alone stays.                                    *)
LEMMA BinJobStays ==
  ASSUME given' = given
  PROVE  /\ Bins!Dpus' = Bins!Dpus /\ Bins!Tasklets' = Bins!Tasklets
         /\ Bins!PerDpu' = Bins!PerDpu
         /\ \A d, m : Works(d, m)' <=> Works(d, m)
<1>1. /\ Bins!Dpus' = Bins!Dpus /\ Bins!Tasklets' = Bins!Tasklets
      /\ Bins!PerDpu' = Bins!PerDpu
  BY DEF Bins!Dpus, Bins!Tasklets, Bins!PerDpu
<1>2. \A t : Bins!Share(t)' = Bins!Share(t)
  <2>1. \A t : Bins!CompactShare(t)' = Bins!CompactShare(t)
    BY <1>1 DEF Bins!CompactShare
  <2> QED
    BY <1>1, <2>1 DEF Bins!Share
<1>3. \A d, i : Bins!Elem(d, i)' = Bins!Elem(d, i)
  BY <1>1 DEF Bins!Elem
<1>4. DpuType' = DpuType
  BY <1>1 DEF DpuType, TlType, Odds, BinPcs, Bins!BinsOf, Bins!Odd
<1>5. \A t : Mine(t)' = Mine(t)
  BY <1>1, <1>2 DEF Mine
<1>6. \A k, i, b : Past(k, i, b)' <=> Past(k, i, b)
  BY DEF Past
<1>7. \A d, m, V, b : Went(d, m, V, b)' = Went(d, m, V, b)
  BY <1>1, <1>3, <1>5, <1>6 DEF Went
<1>8. \A m : Fresh(m)' <=> Fresh(m)
  BY <1>1, <1>2 DEF Fresh, Bins!Zeros, Bins!BinsOf
<1>9. \A m : Tasks(m)' <=> Tasks(m)
  BY <1>1, <1>2, <1>4, <1>8 DEF Tasks
<1>10. \A m, t : CompactTl(m, t)' <=> CompactTl(m, t)
  BY <1>2 DEF CompactTl, Reserved
<1>11. \A m : CompactTogether(m)' <=> CompactTogether(m)
  BY <1>1 DEF CompactTogether, Reserved
<1>12. \A m, V : Places(m, V)' = Places(m, V)
  BY DEF Places, Holds
<1>13. \A d, m : Balanced(d, m)' <=> Balanced(d, m)
  BY <1>7, <1>12 DEF Balanced, Odds, Bins!Odd
<1>14. \A k : Bins!BinsUnder(k)' = Bins!BinsUnder(k)
  BY DEF Bins!BinsUnder, Bins!BinsOf
<1>15. \A b, x : x \in Falls(b)' <=> x \in Falls(b)
  BY DEF Falls, Bins!BinOf, Bins!Min
<1>16. \A d, m, t : BinTl(d, m, t)' <=> BinTl(d, m, t)
  BY <1>2, <1>3, <1>5, <1>14, <1>15 DEF BinTl, Bins!BinsOf, Bins!BinOf, Bins!Min
<1>17. \A m : BinsTogether(m)' <=> BinsTogether(m)
  BY <1>1 DEF BinsTogether
<1>18. \A d, m : Added(d, m)' <=> Added(d, m)
  BY <1>7, <1>15 DEF Added, Bins!BinsOf, Falls, Bins!BinOf, Bins!Min
<1> QED
  BY <1>1, <1>9, <1>10, <1>11, <1>13, <1>16, <1>17, <1>18 DEF Works

(* What the host has stays with the host.                                  *)
LEMMA CollectedStays ==
  ASSUME given' = given
  PROVE  Collected(host.next)' <=>
           IF given.app = "COMPACT"
           THEN host'.count =
                  Cardinality({j \in 1..host'.next * Bins!PerDpu : given.dat[j] \in Odds})
           ELSE \A b \in Bins!BinsOf :
                  host'.bins[b] =
                    Cardinality({j \in 1..host'.next * Bins!PerDpu : given.dat[j] \in Falls(b)})
BY BinJobStays DEF Collected, Odds, Bins!Odd, Bins!BinsOf, Falls, Bins!BinOf, Bins!Min

(* A tasklet that is not off runs on a DPU that has been launched.         *)
LEMMA RunningDpu ==
  ASSUME BinsInv, NEW d \in Bins!Dpus, NEW t \in Bins!Tasklets, dpu[d].tl[t].pc # "off"
  PROVE  host.pc # "launch" /\ host.next = 0 /\ Works(d, dpu[d])
<1>1. host.pc # "launch"
  <2> SUFFICES ASSUME host.pc = "launch" PROVE FALSE
    OBVIOUS
  <2>1. dpu[d].tl[t] = Bins!Off
    BY DEF BinsInv
  <2> QED
    BY <2>1 DEF Bins!Off
<1>2. ~(host.next > 0)
  BY DEF BinsInv, Bins!Ended
<1>3. host.next \in Nat
  BY BinJobTypes DEF BinsInv
<1> QED
  BY <1>1, <1>2, <1>3 DEF BinsInv

LEMMA OneDpuBins ==
  ASSUME BinsInv, NEW d \in Bins!Dpus, StepWorks(d)
  PROVE  BinsInv'
<1>1. PICK n : /\ Works(d, n) /\ dpu' = [dpu EXCEPT ![d] = n]
               /\ given' = given /\ host' = host
               /\ \E t \in Bins!Tasklets : dpu[d].tl[t].pc # "off"
  BY DEF StepWorks
<1>2. host.pc # "launch" /\ host.next = 0 /\ ~(host.next > 0)
  BY <1>1, RunningDpu
<1>3. /\ dpu = [e \in Bins!Dpus |-> dpu[e]]
      /\ \A e \in Bins!Dpus : Works(e, dpu[e])
  BY <1>2 DEF BinsInv
<1>4. dpu' = [e \in Bins!Dpus |-> dpu'[e]] /\ \A e \in Bins!Dpus : Works(e, dpu'[e])
  BY <1>1, <1>3
<1>5. \A e \in Bins!Dpus : Works(e, dpu[e])'
  BY <1>1, <1>4, BinJobStays
<1>6. Collected(host.next)'
  <2>1. Collected(host.next)
    BY DEF BinsInv
  <2> QED
    BY <1>1, <2>1, CollectedStays DEF Collected
<1>7. /\ given' \in BinJobs
      /\ host' \in [pc : {"launch", "wait", "done"}, next : 0..given'.dpus, count : Nat,
                    bins : [Bins!BinsOf -> Nat]]
      /\ host'.pc = "done" => host'.next = given'.dpus
  BY <1>1 DEF BinsInv
<1> QED
  BY <1>1, <1>2, <1>4, <1>5, <1>6, <1>7, BinJobStays DEF BinsInv, Bins!BinsOf

LEMMA BinsInit == Bins!Init => BinsInv
<1> SUFFICES ASSUME Bins!Init PROVE BinsInv
  OBVIOUS
<1>1. /\ given \in BinJobs
      /\ host = [pc |-> "launch", next |-> 0, count |-> 0, bins |-> Bins!Zeros]
      /\ dpu = [d \in Bins!Dpus |-> [out |-> <<>>, outAt |-> 0, bins |-> Bins!Zeros,
                  ready |-> {}, locks |-> {}, tl |-> [t \in Bins!Tasklets |-> Bins!Off]]]
  BY DEF Bins!Init
<1>2. Bins!Zeros \in [Bins!BinsOf -> Nat] /\ \A b \in Bins!BinsOf : Bins!Zeros[b] = 0
  BY DEF Bins!Zeros
<1>3. host \in [pc : {"launch", "wait", "done"}, next : 0..given.dpus, count : Nat,
                bins : [Bins!BinsOf -> Nat]]
  <2>1. 0 \in 0..given.dpus
    BY <1>1, BinJobTypes
  <2> QED
    BY <1>1, <1>2, <2>1
<1>4. Collected(0)
  <2>1. 0 * Bins!PerDpu = 0
    BY <1>1, BinJobTypes
  <2>2. 1..0 * Bins!PerDpu = {}
    BY <2>1
  <2>3. \A V : {j \in 1..0 * Bins!PerDpu : given.dat[j] \in V} = {}
    BY <2>2
  <2>4. \A V : Cardinality({j \in 1..0 * Bins!PerDpu : given.dat[j] \in V}) = 0
    BY <2>3, FS_EmptySet
  <2> QED
    BY <1>1, <1>2, <2>4 DEF Collected
<1> QED
  BY <1>1, <1>3, <1>4 DEF BinsInv

(* The tasklets of a launched DPU are before their first elements.         *)
FirstPc == IF given.app = "HST" THEN "elements" ELSE "init"
AtStart(m) ==
  /\ m \in DpuType /\ m.out = <<>> /\ m.outAt = 0 /\ m.bins = Bins!Zeros /\ m.locks = {}
  /\ \A t \in Bins!Tasklets :
       /\ m.tl[t].pc = FirstPc /\ m.tl[t].i = Bins!Share(t).from /\ m.tl[t].buf = <<>>
       /\ m.tl[t].after = "elements" /\ m.tl[t].bins = Bins!Zeros

LEMMA LaunchStarts ==
  ASSUME given \in BinJobs, NEW e \in DpuType, e.out = <<>>, e.outAt = 0,
         e.bins = Bins!Zeros, e.locks = {}
  PROVE  AtStart([e EXCEPT !.tl = [t \in Bins!Tasklets |->
                     [Bins!Off EXCEPT !.i = Bins!Share(t).from, !.pc = FirstPc]]])
<1> DEFINE v == [t \in Bins!Tasklets |->
                  [Bins!Off EXCEPT !.i = Bins!Share(t).from, !.pc = FirstPc]]
           m == [e EXCEPT !.tl = v]
<1>1. Bins!Zeros \in [Bins!BinsOf -> Nat] /\ <<>> \in Seq(Odds \union {0})
  BY DEF Bins!Zeros
<1>2. ASSUME NEW t \in Bins!Tasklets
      PROVE  /\ v[t] \in TlType /\ v[t].pc = FirstPc /\ v[t].i = Bins!Share(t).from
             /\ v[t].buf = <<>> /\ v[t].after = "elements" /\ v[t].bins = Bins!Zeros
  <2> DEFINE f == Bins!Share(t).from
             l == v[t]
  <2>1. f \in Nat /\ FirstPc \in BinPcs
    BY BinShares DEF BinPcs, FirstPc
  <2>2. l = [pc |-> FirstPc, i |-> f, buf |-> <<>>, after |-> "elements",
             bins |-> Bins!Zeros, at |-> 0, tmp |-> Bins!Zeros]
    BY DEF Bins!Off
  <2> HIDE DEF f, l
  <2>3. /\ l \in TlType /\ l.pc = FirstPc /\ l.i = f /\ l.buf = <<>>
        /\ l.after = "elements" /\ l.bins = Bins!Zeros
    BY <1>1, <2>1, <2>2 DEF TlType
  <2> QED
    BY <2>3 DEF f, l
<1>3. v \in [Bins!Tasklets -> TlType]
  <2>1. \A t \in Bins!Tasklets : v[t] \in TlType
    BY <1>2
  <2> QED
    BY <2>1
<1> HIDE DEF v
<1>4. m \in DpuType /\ m.tl = v
  BY <1>3 DEF DpuType
<1>5. m.out = <<>> /\ m.outAt = 0 /\ m.bins = Bins!Zeros /\ m.locks = {}
  BY <1>3 DEF DpuType
<1> HIDE DEF m
<1>6. AtStart(m)
  BY <1>2, <1>4, <1>5 DEF AtStart
<1> QED
  BY <1>6 DEF m, v

LEMMA AtStartWorks ==
  ASSUME given \in BinJobs, NEW d \in Bins!Dpus, NEW m, AtStart(m)
  PROVE  Works(d, m)
<1>1. given.app \in {"COMPACT", "HST", "HSTS"} /\ given.nt \in Nat
      /\ Bins!Tasklets = 0..given.nt-1 /\ Bins!PerDpu \in Nat
  BY BinJobTypes
<1>2. \A b \in Bins!BinsOf : Bins!Zeros[b] = 0
  BY DEF Bins!Zeros
<1>3. ASSUME NEW t \in Bins!Tasklets
      PROVE  /\ m.tl[t].pc = FirstPc /\ m.tl[t].i = Bins!Share(t).from /\ m.tl[t].buf = <<>>
             /\ m.tl[t].after = "elements" /\ m.tl[t].bins = Bins!Zeros
             /\ Bins!Share(t).from \in Nat
  BY BinShares DEF AtStart
<1>5. m \in DpuType /\ m.out = <<>> /\ m.outAt = 0 /\ m.bins = Bins!Zeros /\ m.locks = {}
  BY DEF AtStart
<1>6. Tasks(m)
  <2>1. \A t \in Bins!Tasklets : m.tl[t].i >= Bins!Share(t).from
    BY <1>3
  <2>2. (\E t \in Bins!Tasklets : m.tl[t].pc \in {"init", "barrier"}) => Fresh(m)
    BY <1>3, <1>5 DEF FirstPc, Fresh
  <2> QED
    BY <1>5, <2>1, <2>2 DEF Tasks
<1>7. ASSUME NEW t \in Bins!Tasklets, NEW i \in Mine(t), NEW b
      PROVE  ~Past(m.tl[t], i, b)
  <2>1. ~(i < m.tl[t].i)
    BY <1>3, <1>5, BinShares DEF Mine
  <2> QED
    BY <1>3, <1>5, <2>1 DEF Past, FirstPc
<1>8. ASSUME NEW V, NEW b
      PROVE  Went(d, m, V, b) = {} /\ Cardinality(Went(d, m, V, b)) = 0
  <2>1. Went(d, m, V, b) = {}
    BY <1>7 DEF Went
  <2> QED
    BY <2>1, FS_EmptySet
<1>9. CASE given.app = "COMPACT"
  <2>1. ASSUME NEW t \in Bins!Tasklets PROVE CompactTl(m, t)
    BY <1>3, <1>5, <1>9 DEF CompactTl, FirstPc
  <2>2. CompactTogether(m)
    <3>1. \A t \in Bins!Tasklets : m.tl[t].pc = "init"
      BY <1>3, <1>5, <1>9 DEF FirstPc
    <3>2. Len(m.out) = 0
      BY <1>5
    <3> QED
      BY <1>5, <3>1, <3>2 DEF CompactTogether
  <2>3. Balanced(d, m)
    <3> SUFFICES ASSUME NEW V \in SUBSET Odds
                 PROVE  /\ IsFiniteSet(Places(m, V)) /\ Cardinality(Places(m, V)) = 0
      BY <1>8 DEF Balanced
    <3>1. \A a \in 0..given.nt : a # 0 => m.tl[a-1].buf = <<>>
      <4>1. \A a \in 0..given.nt : a # 0 => a - 1 \in Bins!Tasklets
        BY <1>1
      <4> QED
        BY <1>3, <1>5, <4>1
    <3>2. \A a \in 0..given.nt, j \in Nat : ~Holds(m, V, a, j)
      BY <1>5, <3>1 DEF Holds
    <3>3. Places(m, V) = {}
      BY <3>2 DEF Places
    <3> QED
      BY <3>3, FS_EmptySet
  <2> QED
    BY <1>6, <1>9, <2>1, <2>2, <2>3, CompactWhole
<1>10. CASE given.app # "COMPACT"
  <2>1. ASSUME NEW t \in Bins!Tasklets PROVE BinTl(d, m, t)
    <3>1. ASSUME NEW b \in Bins!BinsOf
          PROVE  m.tl[t].bins[b] = Cardinality({i \in Mine(t) : i < m.tl[t].i /\ Bins!Elem(d, i) \in Falls(b)})
      <4>1. {i \in Mine(t) : i < m.tl[t].i /\ Bins!Elem(d, i) \in Falls(b)} = {}
        BY <1>3, <1>5, BinShares DEF Mine
      <4> QED
        BY <1>2, <1>3, <1>5, <4>1, FS_EmptySet
    <3>2. m.tl[t].pc = FirstPc
      BY <1>3, <1>5
    <3> QED
      BY <1>1, <1>10, <3>1, <3>2 DEF BinTl, FirstPc
  <2>2. BinsTogether(m)
    BY <1>3, <1>5 DEF BinsTogether, FirstPc
  <2>3. Added(d, m)
    BY <1>2, <1>5, <1>8 DEF Added
  <2> QED
    BY <1>6, <1>10, <2>1, <2>2, <2>3, HistogramWhole
<1> QED
  BY <1>9, <1>10

LEMMA BinsLaunchKeeps ==
  ASSUME BinsInv, Bins!Launch
  PROVE  BinsInv'
<1> DEFINE v == [t \in Bins!Tasklets |->
                  [Bins!Off EXCEPT !.i = Bins!Share(t).from, !.pc = FirstPc]]
<1>1. /\ host.pc = "launch" /\ given' = given /\ host' = [host EXCEPT !.pc = "wait"]
      /\ dpu' = [d \in Bins!Dpus |-> [dpu[d] EXCEPT !.tl = v]]
  BY DEF Bins!Launch, FirstPc
<1>2. /\ host.next = 0 /\ \A d \in Bins!Dpus : dpu[d] =
           [out |-> <<>>, outAt |-> 0, bins |-> Bins!Zeros, ready |-> {}, locks |-> {},
            tl |-> [t \in Bins!Tasklets |-> Bins!Off]]
      /\ given \in BinJobs /\ Collected(host.next)
  BY <1>1 DEF BinsInv
<1>3. /\ host' \in [pc : {"launch", "wait", "done"}, next : 0..given.dpus, count : Nat,
                    bins : [Bins!BinsOf -> Nat]]
      /\ host'.pc = "wait" /\ host'.next = 0 /\ host'.count = host.count /\ host'.bins = host.bins
  BY <1>1, <1>2 DEF BinsInv
<1>4. ASSUME NEW d \in Bins!Dpus
      PROVE  AtStart(dpu'[d])
  <2> DEFINE w == [t \in Bins!Tasklets |-> Bins!Off]
             e == dpu[d]
  <2>1. dpu'[d] = [e EXCEPT !.tl = v]
    <3> HIDE DEF v
    <3> QED
      BY <1>1
  <2>2. Bins!Off \in TlType /\ Bins!Zeros \in [Bins!BinsOf -> Nat] /\ <<>> \in Seq(Odds \union {0})
    BY <1>2, TlOff
  <2>3. w \in [Bins!Tasklets -> TlType]
    BY <2>2
  <2> HIDE DEF v
  <2>4. e = [out |-> <<>>, outAt |-> 0, bins |-> Bins!Zeros, ready |-> {}, locks |-> {}, tl |-> w]
    BY <1>2
  <2> HIDE DEF w, e
  <2>5. e \in DpuType /\ e.out = <<>> /\ e.outAt = 0 /\ e.bins = Bins!Zeros /\ e.locks = {}
    BY <2>2, <2>3, <2>4 DEF DpuType
  <2>6. AtStart([e EXCEPT !.tl = v])
    BY <1>2, <2>5, LaunchStarts DEF v
  <2> QED
    BY <2>1, <2>6
<1> HIDE DEF v
<1>6. \A d \in Bins!Dpus : Works(d, dpu'[d])
  BY <1>2, <1>4, AtStartWorks
<1>7. \A d \in Bins!Dpus : Works(d, dpu[d])'
  BY <1>1, <1>6, BinJobStays
<1>8. Collected(host.next)'
  <2>1. Collected(0)
    BY <1>2
  <2>2. IF given.app = "COMPACT"
        THEN host'.count = Cardinality({j \in 1..0 * Bins!PerDpu : given.dat[j] \in Odds})
        ELSE \A b \in Bins!BinsOf :
               host'.bins[b] = Cardinality({j \in 1..0 * Bins!PerDpu : given.dat[j] \in Falls(b)})
    BY <1>3, <2>1 DEF Collected
  <2> QED
    BY <1>1, <1>3, <2>2, CollectedStays
<1>9. dpu' = [d \in Bins!Dpus |-> dpu'[d]]
  BY <1>1
<1> QED
  BY <1>1, <1>2, <1>3, <1>7, <1>8, <1>9, BinJobStays DEF BinsInv, Bins!BinsOf

(* The elements of DPU d that are in V, and what has come out of m in V.   *)
Words(d, V) == {i \in 0..Bins!PerDpu-1 : Bins!Elem(d, i) \in V}
Came(m, V) == {p \in 1..m.outAt : m.out[p] \in V}

(* A DPU whose tasklets are off has put out all its numbers of V, or has   *)
(* all its elements in its bins.                                           *)
LEMMA AllWent ==
  ASSUME given \in BinJobs, NEW d, NEW m, NEW V, NEW b,
         \A t \in Bins!Tasklets : m.tl[t].pc = "off"
  PROVE  Went(d, m, V, b) = Words(d, V)
<1>1. \A i \in 0..Bins!PerDpu-1 : \E t \in Bins!Tasklets : i \in Mine(t)
  BY BinShares
<1> QED
  BY <1>1 DEF Went, Past, Words

LEMMA CameOut ==
  ASSUME given \in BinJobs, given.app = "COMPACT", NEW d, NEW m, Works(d, m),
         \A t \in Bins!Tasklets : m.tl[t].pc = "off", NEW V \in SUBSET Odds
  PROVE  /\ m.outAt = Len(m.out)
         /\ Cardinality(Came(m, V)) = Cardinality(Words(d, V))
<1>0. /\ m \in DpuType /\ \A u \in Bins!Tasklets : CompactTl(m, u)
      /\ CompactTogether(m) /\ Balanced(d, m)
  BY CompactParts
<1>1. Len(m.out) \in Nat /\ m.outAt \in Nat /\ Bins!Tasklets = 0..given.nt-1 /\ given.nt \in Nat
  BY <1>0, BinJobTypes DEF DpuType
<1>2. m.outAt = Len(m.out)
  <2>1. Len(m.out) <= m.outAt /\ \A p \in Len(m.out)+1..m.outAt : FALSE
    BY <1>0 DEF CompactTogether
  <2> DEFINE n == Len(m.out)
             o == m.outAt
  <2>2. n \in Nat /\ o \in Nat /\ n <= o /\ \A p \in n+1..o : FALSE
    BY <1>1, <2>1
  <2> HIDE DEF n, o
  <2>3. o \in n+1..o \/ n = o
    BY <2>2
  <2> QED
    BY <2>2, <2>3 DEF n, o
<1> DEFINE S == {p \in 1..m.outAt : m.out[p] \in V}
           P == Places(m, V)
           f == [p \in S |-> <<0, p>>]
<1>3. \A u \in Bins!Tasklets : m.tl[u].buf = <<>>
  BY <1>0 DEF CompactTl
<1>4. ASSUME NEW a \in 0..given.nt, NEW j \in Nat
      PROVE  Holds(m, V, a, j) <=> a = 0 /\ j \in S
  <2>1. CASE a = 0
    BY <1>2, <2>1 DEF Holds
  <2>2. CASE a # 0
    <3>1. a - 1 \in Bins!Tasklets
      BY <1>1, <2>2
    <3>2. m.tl[a-1].buf = <<>>
      BY <1>3, <3>1
    <3> QED
      BY <2>2, <3>2 DEF Holds
  <2> QED
    BY <2>1, <2>2
<1>5. S \subseteq 1..m.outAt /\ IsFiniteSet(S) /\ \A p \in S : p \in Nat
  <2>1. IsFiniteSet(1..m.outAt)
    BY <1>1, FS_Interval
  <2>2. S \subseteq 1..m.outAt
    OBVIOUS
  <2> HIDE DEF S
  <2>3. IsFiniteSet(S)
    BY <2>1, <2>2, FS_Subset
  <2>4. ASSUME NEW p \in S PROVE p \in Nat
    <3>1. p \in 1..m.outAt
      BY <2>2
    <3> QED
      BY <1>1, <3>1
  <2> QED
    BY <2>2, <2>3, <2>4
<1>6. 0 \in 0..given.nt
  BY <1>1
<1> HIDE DEF S
<1>7. \A p \in S : <<0, p>> \in P
  BY <1>4, <1>5, <1>6, PlaceIs
<1>8. \A c \in P : c[1] = 0 /\ c[2] \in S /\ c = <<0, c[2]>>
  <2> SUFFICES ASSUME NEW c \in P PROVE c[1] = 0 /\ c[2] \in S /\ c = <<0, c[2]>>
    OBVIOUS
  <2>1. c \in (0..given.nt) \X Nat /\ Holds(m, V, c[1], c[2])
    BY DEF Places
  <2>2. c = <<c[1], c[2]>> /\ c[1] \in 0..given.nt /\ c[2] \in Nat
    BY <2>1
  <2> QED
    BY <1>4, <2>1, <2>2
<1> HIDE DEF P
<1>9. f \in [S -> P] /\ \A p, q \in S : f[p] = f[q] => p = q
  BY <1>7
<1>10. \A c \in P : \E p \in S : f[p] = c
  BY <1>8
<1> HIDE DEF f
<1>11. f \in Bijection(S, P)
  BY <1>9, <1>10 DEF Bijection, Injection, Surjection, IsInjective
<1>12. Cardinality(P) = Cardinality(S)
  BY <1>5, <1>11, FS_Bijection DEF ExistsBijection
<1>13. Cardinality(P) = Cardinality(Went(d, m, V, 0))
  BY <1>0 DEF Balanced, P
<1>14. Went(d, m, V, 0) = Words(d, V)
  BY AllWent
<1> QED
  BY <1>2, <1>12, <1>13, <1>14 DEF S, Came

(* The elements of a DPU are the next words of the data.                   *)
LEMMA DpuAdds ==
  ASSUME given \in BinJobs, NEW n \in 0..given.dpus-1, NEW V
  PROVE  LET S == {j \in 1..n * Bins!PerDpu : given.dat[j] \in V}
             T == {j \in 1..(n + 1) * Bins!PerDpu : given.dat[j] \in V}
         IN  Cardinality(S) \in Nat /\ Cardinality(T) = Cardinality(S) + Cardinality(Words(n, V))
<1> DEFINE s == Bins!PerDpu
           x == n * s
           y == (n + 1) * s
           S == {j \in 1..x : given.dat[j] \in V}
           T == {j \in 1..y : given.dat[j] \in V}
           E == {i \in 0..s-1 : Bins!Elem(n, i) \in V}
           N == {j \in x+1..x+s : given.dat[j] \in V}
           f == [i \in E |-> x + i + 1]
<1>1. s \in Nat /\ n \in Nat
  BY BinJobTypes
<1>2. \A i : Bins!Elem(n, i) = given.dat[x + i + 1]
  BY DEF Bins!Elem
<1> HIDE DEF s
<1>3. x \in Nat /\ y = x + s
  BY <1>1
<1> HIDE DEF x, y
<1>4. T = S \union N /\ S \cap N = {}
  <2>1. 1..y = (1..x) \union (x+1..x+s) /\ (1..x) \cap (x+1..x+s) = {}
    BY <1>1, <1>3
  <2> QED
    BY <2>1
<1>5. f \in Bijection(E, N)
  <2>1. \A i \in E : i \in 0..s-1 /\ x + i + 1 \in x+1..x+s /\ given.dat[x + i + 1] \in V
    BY <1>1, <1>2, <1>3
  <2>2. f \in [E -> N]
    BY <2>1
  <2>3. \A i, j \in E : f[i] = f[j] => i = j
    BY <1>1, <1>3, <2>1
  <2>4. \A j \in N : \E i \in E : f[i] = j
    <3> SUFFICES ASSUME NEW j \in N PROVE \E i \in E : f[i] = j
      OBVIOUS
    <3> DEFINE i == j - x - 1
    <3>1. i \in 0..s-1 /\ x + i + 1 = j
      BY <1>1, <1>3
    <3> HIDE DEF i
    <3>2. i \in E
      BY <1>2, <3>1
    <3> QED
      BY <3>1, <3>2
  <2> HIDE DEF f, E, N
  <2> QED
    BY <2>2, <2>3, <2>4 DEF Bijection, Injection, Surjection, IsInjective
<1>6. IsFiniteSet(S) /\ IsFiniteSet(E)
  <2>1. IsFiniteSet(1..x) /\ IsFiniteSet(0..s-1)
    BY <1>1, <1>3, FS_Interval
  <2>2. S \subseteq 1..x /\ E \subseteq 0..s-1
    OBVIOUS
  <2> HIDE DEF S, E
  <2> QED
    BY <2>1, <2>2, FS_Subset
<1> HIDE DEF S, T, E, N, f
<1>7. IsFiniteSet(N) /\ Cardinality(N) = Cardinality(E)
  BY <1>5, <1>6, FS_Bijection DEF ExistsBijection
<1>8. Cardinality(S) \in Nat /\ Cardinality(E) \in Nat /\ Cardinality(S \cap N) = 0
  BY <1>4, <1>6, FS_CardinalityType, FS_EmptySet
<1>9. Cardinality(S \union N) = Cardinality(S) + Cardinality(N) - Cardinality(S \cap N)
  BY <1>6, <1>7, FS_Union
<1>10. Cardinality(T) = Cardinality(S) + Cardinality(E)
  BY <1>4, <1>7, <1>8, <1>9
<1> QED
  BY <1>8, <1>10 DEF S, T, E, x, y, s, Words

(* Bins counts with the Cardinality the theorems are about.                *)
LEMMA BinsCount == ASSUME NEW S PROVE Bins!Cardinality(S) = Cardinality(S)
BY DEF Bins!Cardinality, Cardinality

LEMMA BinsCollectKeeps ==
  ASSUME BinsInv, Bins!Collect
  PROVE  BinsInv'
<1> DEFINE w == host.next
           m == dpu[w]
           C == Cardinality({p \in 1..m.outAt : m.out[p] # 0})
           z == [b \in Bins!BinsOf |-> host.bins[b] + m.bins[b]]
           cnt == host.count + C
           nx == w + 1
<1>1. /\ host.pc = "wait" /\ Bins!Ended /\ w < given.dpus /\ given' = given /\ dpu' = dpu
      /\ host' = [host EXCEPT !.next = nx, !.count = cnt, !.bins = z]
  <2>1. /\ host.pc = "wait" /\ Bins!Ended /\ w < given.dpus /\ given' = given /\ dpu' = dpu
        /\ host' = [host EXCEPT !.next = nx, !.bins = z,
             !.count = host.count + Bins!Cardinality({p \in 1..m.outAt : m.out[p] # 0})]
    BY DEF Bins!Collect
  <2>2. Bins!Cardinality({p \in 1..m.outAt : m.out[p] # 0}) = C
    BY BinsCount
  <2> HIDE DEF m, z, nx, C
  <2> QED
    BY <2>1, <2>2
<1>2. /\ given \in BinJobs /\ Collected(w) /\ w \in Nat /\ host.count \in Nat
      /\ host.bins \in [Bins!BinsOf -> Nat]
      /\ host \in [pc : {"launch", "wait", "done"}, next : 0..given.dpus, count : Nat,
                   bins : [Bins!BinsOf -> Nat]]
      /\ dpu = [d \in Bins!Dpus |-> dpu[d]] /\ \A d \in Bins!Dpus : Works(d, dpu[d])
  BY <1>1, BinJobTypes DEF BinsInv
<1>3. /\ w \in Bins!Dpus /\ w \in 0..given.dpus-1 /\ nx \in 0..given.dpus
      /\ Bins!PerDpu \in Nat
  <2>1. /\ w \in Nat /\ w < given.dpus /\ given.dpus \in Nat /\ Bins!PerDpu \in Nat
        /\ Bins!Dpus = 0..given.dpus-1
    BY <1>1, <1>2, BinJobTypes
  <2> HIDE DEF w
  <2> QED
    BY <2>1
<1>4. /\ Works(w, m) /\ m \in DpuType /\ \A t \in Bins!Tasklets : m.tl[t].pc = "off"
  <2>1. Works(w, m)
    BY <1>2, <1>3
  <2>2. \A t \in Bins!Tasklets : m.tl[t].pc = "off"
    BY <1>1, <1>3 DEF Bins!Ended
  <2> HIDE DEF m, w
  <2>3. m \in DpuType
    BY <2>1 DEF Works, Tasks
  <2> QED
    BY <2>1, <2>2, <2>3
<1>5. m.outAt \in Nat /\ m.out \in Seq(Odds \union {0}) /\ m.bins \in [Bins!BinsOf -> Nat]
  BY <1>4 DEF DpuType
<1> HIDE DEF m
<1>6. C \in Nat
  <2> DEFINE S == {p \in 1..m.outAt : m.out[p] # 0}
  <2>1. S \subseteq 1..m.outAt /\ IsFiniteSet(1..m.outAt)
    BY <1>5, FS_Interval
  <2> HIDE DEF S
  <2>2. Cardinality(S) \in Nat
    BY <2>1, FS_Subset, FS_CardinalityType
  <2> QED
    BY <2>2 DEF S
<1>7. z \in [Bins!BinsOf -> Nat] /\ \A b \in Bins!BinsOf : z[b] = host.bins[b] + m.bins[b]
  BY <1>2, <1>5
<1>8. cnt \in Nat
  <2> HIDE DEF C
  <2> QED
    BY <1>2, <1>6
<1>9. IF given.app = "COMPACT"
      THEN cnt = Cardinality({j \in 1..nx * Bins!PerDpu : given.dat[j] \in Odds})
      ELSE \A b \in Bins!BinsOf :
             z[b] = Cardinality({j \in 1..nx * Bins!PerDpu : given.dat[j] \in Falls(b)})
  <2>1. CASE given.app = "COMPACT"
    <3>1. m.outAt = Len(m.out) /\ Cardinality(Came(m, Odds)) = Cardinality(Words(w, Odds))
      <4> HIDE DEF w
      <4> QED
        BY <1>2, <1>4, <2>1, CameOut
    <3>2. \A p \in 1..m.outAt : m.out[p] # 0 <=> m.out[p] \in Odds
      <4>1. \A p \in 1..m.outAt : m.out[p] \in Odds \union {0}
        BY <1>5, <3>1
      <4>2. 0 \notin Odds
        BY DEF Odds, Bins!Odd
      <4> QED
        BY <4>1, <4>2
    <3>3. C = Cardinality(Came(m, Odds))
      <4>1. {p \in 1..m.outAt : m.out[p] # 0} = Came(m, Odds)
        BY <3>2 DEF Came
      <4> QED
        BY <4>1
    <3>4. Cardinality({j \in 1..(w + 1) * Bins!PerDpu : given.dat[j] \in Odds}) =
            Cardinality({j \in 1..w * Bins!PerDpu : given.dat[j] \in Odds})
            + Cardinality(Words(w, Odds))
      <4> HIDE DEF w
      <4> QED
        BY <1>2, <1>3, DpuAdds
    <3>5. host.count = Cardinality({j \in 1..w * Bins!PerDpu : given.dat[j] \in Odds})
      BY <1>2, <2>1 DEF Collected
    <3> QED
      BY <2>1, <3>1, <3>3, <3>4, <3>5
  <2>2. CASE given.app # "COMPACT"
    <3> SUFFICES ASSUME NEW b \in Bins!BinsOf
                 PROVE  z[b] = Cardinality({j \in 1..nx * Bins!PerDpu : given.dat[j] \in Falls(b)})
      BY <2>2
    <3>1. m.bins[b] = Cardinality(Went(w, m, Falls(b), b))
      BY <1>4, <2>2 DEF Works, Added
    <3>2. Went(w, m, Falls(b), b) = Words(w, Falls(b))
      BY <1>2, <1>4, AllWent
    <3>4. Cardinality({j \in 1..(w + 1) * Bins!PerDpu : given.dat[j] \in Falls(b)}) =
            Cardinality({j \in 1..w * Bins!PerDpu : given.dat[j] \in Falls(b)})
            + Cardinality(Words(w, Falls(b)))
      <4> HIDE DEF w
      <4> QED
        BY <1>2, <1>3, DpuAdds
    <3>5. host.bins[b] = Cardinality({j \in 1..w * Bins!PerDpu : given.dat[j] \in Falls(b)})
      BY <1>2, <2>2 DEF Collected
    <3> QED
      BY <1>7, <3>1, <3>2, <3>4, <3>5
  <2> QED
    BY <2>1, <2>2
<1> HIDE DEF cnt, z, nx, C
<1>10. /\ host' \in [pc : {"launch", "wait", "done"}, next : 0..given.dpus, count : Nat,
                    bins : [Bins!BinsOf -> Nat]]
       /\ host'.pc = "wait" /\ host'.next = nx /\ host'.count = cnt /\ host'.bins = z
  BY <1>1, <1>2, <1>3, <1>7, <1>8
<1>12. \A d \in Bins!Dpus : Works(d, dpu[d])'
  BY <1>1, <1>2, BinJobStays
<1>13. Bins!Ended'
  BY <1>1, BinJobStays DEF Bins!Ended
<1>14. Collected(host.next)'
  BY <1>1, <1>9, <1>10, CollectedStays
<1> QED
  BY <1>1, <1>2, <1>3, <1>10, <1>12, <1>13, <1>14, BinJobStays DEF BinsInv, Bins!BinsOf

LEMMA BinsCompareKeeps ==
  ASSUME BinsInv, Bins!Compare
  PROVE  BinsInv'
<1>1. /\ host.pc = "wait" /\ host.next = given.dpus /\ given' = given /\ dpu' = dpu
      /\ host' = [host EXCEPT !.pc = "done"]
  BY DEF Bins!Compare
<1>2. /\ host' \in [pc : {"launch", "wait", "done"}, next : 0..given.dpus, count : Nat,
                    bins : [Bins!BinsOf -> Nat]]
      /\ host'.pc = "done" /\ host'.next = host.next /\ host'.count = host.count
      /\ host'.bins = host.bins
  BY <1>1 DEF BinsInv
<1>3. Collected(host.next)'
  <2>1. Collected(host.next)
    BY DEF BinsInv
  <2> QED
    BY <1>1, <1>2, <2>1, CollectedStays DEF Collected
<1>4. \A d \in Bins!Dpus : Works(d, dpu[d])'
  BY <1>1, BinJobStays DEF BinsInv
<1>5. Bins!Ended' <=> Bins!Ended
  BY <1>1, BinJobStays DEF Bins!Ended
<1> QED
  BY <1>1, <1>2, <1>3, <1>4, <1>5, BinJobStays DEF BinsInv, Bins!BinsOf

(* Every step of a DPU leaves it right.                                    *)
LEMMA TaskletWorks ==
  ASSUME BinsInv, NEW d \in Bins!Dpus, NEW t \in Bins!Tasklets,
         \/ Bins!Prepare(d, t) \/ Bins!KeepOdd(d, t) \/ Bins!CountElement(d, t)
         \/ Bins!ChooseBin(d, t) \/ Bins!Leftover(d, t) \/ Bins!Lock(d, t) \/ Bins!Reserve(d, t)
         \/ Bins!Flush(d, t) \/ Bins!LockBins(d, t) \/ Bins!AddBins(d, t)
  PROVE  StepWorks(d)
<1> DEFINE pc == dpu[d].tl[t].pc
<1>1. /\ Bins!Prepare(d, t) => pc = "init"
      /\ Bins!KeepOdd(d, t) \/ Bins!CountElement(d, t) \/ Bins!ChooseBin(d, t) => pc = "elements"
      /\ Bins!Leftover(d, t) => pc = "leftover"
      /\ Bins!Lock(d, t) => pc = "reserve"
      /\ Bins!Reserve(d, t) => pc = "move"
      /\ Bins!Flush(d, t) => pc = "flush"
      /\ Bins!LockBins(d, t) => pc \in {"bin", "groups"}
      /\ Bins!AddBins(d, t) => pc = "add"
  BY DEF Bins!Prepare, Bins!KeepOdd, Bins!CountElement, Bins!ChooseBin, Bins!Leftover, Bins!Lock,
         Bins!Reserve, Bins!Flush, Bins!LockBins, Bins!AddBins, Bins!At
<1>2. pc # "off"
  BY <1>1
<1>3. given \in BinJobs /\ Works(d, dpu[d])
  BY <1>2, RunningDpu DEF BinsInv
<1>4. pc \in {"leftover", "reserve", "move", "flush"} => given.app = "COMPACT"
  <2>1. given.app \in {"COMPACT", "HST", "HSTS"}
    BY <1>3, BinJobTypes
  <2>2. given.app # "COMPACT" => BinTl(d, dpu[d], t)
    BY <1>3 DEF Works
  <2> QED
    BY <2>1, <2>2 DEF BinTl
<1>5. pc \in {"bin", "groups", "add"} => given.app # "COMPACT"
  <2>1. given.app = "COMPACT" => CompactTl(dpu[d], t)
    BY <1>3 DEF Works
  <2> QED
    BY <2>1 DEF CompactTl
<1> HIDE DEF pc
<1>6. CASE Bins!Prepare(d, t)
  BY <1>3, <1>6, PrepareWorks
<1>7. CASE Bins!KeepOdd(d, t)
  BY <1>3, <1>7, KeepOddWorks
<1>8. CASE Bins!CountElement(d, t)
  BY <1>3, <1>8, CountElementWorks
<1>9. CASE Bins!ChooseBin(d, t)
  BY <1>3, <1>9, ChooseBinWorks
<1>10. CASE Bins!Leftover(d, t)
  BY <1>1, <1>3, <1>4, <1>10, LeftoverWorks
<1>11. CASE Bins!Lock(d, t)
  BY <1>1, <1>3, <1>4, <1>11, LockWorks
<1>12. CASE Bins!Reserve(d, t)
  BY <1>1, <1>3, <1>4, <1>12, ReserveWorks
<1>13. CASE Bins!Flush(d, t)
  BY <1>1, <1>3, <1>4, <1>13, FlushWorks
<1>14. CASE Bins!LockBins(d, t)
  BY <1>1, <1>3, <1>5, <1>14, LockBinsWorks
<1>15. CASE Bins!AddBins(d, t)
  BY <1>1, <1>3, <1>5, <1>15, AddBinsWorks
<1> QED
  BY <1>6, <1>7, <1>8, <1>9, <1>10, <1>11, <1>12, <1>13, <1>14, <1>15

LEMMA BinsStep == BinsInv /\ [Bins!Next]_vars => BinsInv'
<1> SUFFICES ASSUME BinsInv, [Bins!Next]_vars PROVE BinsInv'
  OBVIOUS
<1>1. CASE UNCHANGED vars
  <2>1. given' = given /\ host' = host /\ dpu' = dpu
    BY <1>1 DEF vars
  <2>2. Collected(host.next)' <=> Collected(host.next)
    BY <2>1, BinJobStays
       DEF Collected, Odds, Bins!Odd, Bins!BinsOf, Falls, Bins!BinOf, Bins!Min
  <2>3. (\A d \in Bins!Dpus : Works(d, dpu[d])') <=> \A d \in Bins!Dpus : Works(d, dpu[d])
    BY <2>1, BinJobStays
  <2>4. Bins!Ended' <=> Bins!Ended
    BY <2>1, BinJobStays DEF Bins!Ended
  <2> QED
    BY <2>1, <2>2, <2>3, <2>4, BinJobStays DEF BinsInv, Bins!BinsOf, Bins!Zeros, Bins!Off
<1>2. ASSUME NEW d \in Bins!Dpus, Bins!Barrier(d) PROVE BinsInv'
  <2>1. given \in BinJobs /\ 0 \in Bins!Tasklets
    BY BinJobTypes DEF BinsInv
  <2>2. dpu[d].tl[0].pc # "off"
    BY <1>2, <2>1 DEF Bins!Barrier, Bins!At
  <2>3. Works(d, dpu[d])
    BY <2>1, <2>2, RunningDpu
  <2> QED
    BY <1>2, <2>1, <2>3, BinsBarrierWorks, OneDpuBins
<1>3. ASSUME NEW d \in Bins!Dpus, NEW t \in Bins!Tasklets,
         \/ Bins!Prepare(d, t) \/ Bins!KeepOdd(d, t) \/ Bins!CountElement(d, t)
         \/ Bins!ChooseBin(d, t) \/ Bins!Leftover(d, t) \/ Bins!Lock(d, t) \/ Bins!Reserve(d, t)
         \/ Bins!Flush(d, t) \/ Bins!LockBins(d, t) \/ Bins!AddBins(d, t)
      PROVE  BinsInv'
  BY <1>3, TaskletWorks, OneDpuBins
<1> QED
  BY <1>1, <1>2, <1>3, BinsLaunchKeeps, BinsCollectKeeps, BinsCompareKeeps DEF Bins!Next

(* When the host has compared, it has all of every DPU.                    *)
LEMMA InvGivesCounts == BinsInv => Bins!NothingLostOrDoubled
<1> SUFFICES ASSUME BinsInv, host.pc = "done" PROVE
      IF given.app = "COMPACT"
      THEN /\ host.count = Cardinality({i \in DOMAIN given.dat : Bins!Odd(given.dat[i])})
           /\ \A d \in Bins!Dpus : \A x \in {y \in Bins!Range(given.dat) : Bins!Odd(y)} :
                Bins!Times(d, x) = Cardinality({i \in 0..Bins!PerDpu-1 : Bins!Elem(d, i) = x})
      ELSE host.bins = [b \in Bins!BinsOf |->
             Cardinality({i \in DOMAIN given.dat : Bins!BinOf(given.dat[i]) = b})]
  BY BinsCount DEF Bins!NothingLostOrDoubled
<1>1. /\ given \in BinJobs /\ host.next = given.dpus /\ given.dpus \in Nat \ {0}
      /\ given.dpus * Bins!PerDpu = Len(given.dat) /\ given.dat \in Seq(Nat)
      /\ host.bins \in [Bins!BinsOf -> Nat]
  BY BinJobTypes DEF BinsInv
<1>2. Bins!Ended /\ \A d \in Bins!Dpus : Works(d, dpu[d])
  BY <1>1 DEF BinsInv
<1>3. host.next * Bins!PerDpu = Len(given.dat) /\ 1..host.next * Bins!PerDpu = DOMAIN given.dat
  BY <1>1
<1>4. \A j \in DOMAIN given.dat : given.dat[j] \in Nat
  BY <1>1
<1>5. CASE given.app = "COMPACT"
  <2>1. host.count = Cardinality({j \in DOMAIN given.dat : given.dat[j] \in Odds})
    BY <1>3, <1>5 DEF BinsInv, Collected
  <2>2. {j \in DOMAIN given.dat : given.dat[j] \in Odds} =
          {i \in DOMAIN given.dat : Bins!Odd(given.dat[i])}
    BY <1>4 DEF Odds
  <2>3. ASSUME NEW d \in Bins!Dpus, NEW x \in Bins!Range(given.dat), Bins!Odd(x)
        PROVE  Bins!Times(d, x) = Cardinality({i \in 0..Bins!PerDpu-1 : Bins!Elem(d, i) = x})
    <3>1. x \in Odds
      BY <1>4, <2>3 DEF Bins!Range, Odds
    <3>2. {x} \in SUBSET Odds
      BY <3>1
    <3>3. /\ Works(d, dpu[d]) /\ \A t \in Bins!Tasklets : dpu[d].tl[t].pc = "off"
      BY <1>2 DEF Bins!Ended
    <3>4. Cardinality(Came(dpu[d], {x})) = Cardinality(Words(d, {x}))
      <4> DEFINE m == dpu[d]
                 V == {x}
      <4>1. Works(d, m) /\ (\A t \in Bins!Tasklets : m.tl[t].pc = "off") /\ V \in SUBSET Odds
        BY <3>2, <3>3
      <4> HIDE DEF m, V
      <4>2. Cardinality(Came(m, V)) = Cardinality(Words(d, V))
        BY <1>1, <1>5, <4>1, CameOut
      <4> QED
        BY <4>2 DEF m, V
    <3>5. Came(dpu[d], {x}) = {i \in 1..dpu[d].outAt : dpu[d].out[i] = x}
      BY DEF Came
    <3>6. Words(d, {x}) = {i \in 0..Bins!PerDpu-1 : Bins!Elem(d, i) = x}
      BY DEF Words
    <3> QED
      BY <3>4, <3>5, <3>6, BinsCount DEF Bins!Times
  <2> QED
    BY <1>5, <2>1, <2>2, <2>3
<1>6. CASE given.app # "COMPACT"
  <2>1. ASSUME NEW b \in Bins!BinsOf
        PROVE  host.bins[b] = Cardinality({i \in DOMAIN given.dat : Bins!BinOf(given.dat[i]) = b})
    <3>1. host.bins[b] = Cardinality({j \in DOMAIN given.dat : given.dat[j] \in Falls(b)})
      BY <1>3, <1>6 DEF BinsInv, Collected
    <3>2. {j \in DOMAIN given.dat : given.dat[j] \in Falls(b)} =
            {i \in DOMAIN given.dat : Bins!BinOf(given.dat[i]) = b}
      BY <1>4 DEF Falls
    <3> QED
      BY <3>1, <3>2
  <2> QED
    BY <1>1, <1>6, <2>1
<1> QED
  BY <1>5, <1>6

(* devApp/COMPACT.c, HST.c and HSTS.c with their hosts: whatever the data, *)
(* the order of the tasklets, the size of the buffer and the number of     *)
(* bins under a mutex, every odd number comes out of its DPU as often as   *)
(* it went in, and every element is counted once in its bin.               *)
THEOREM CountsAmongApps == AppsSpec => []NothingLostOrDoubled
<1> DEFINE Apps == {"COMPACT", "HST", "HSTS"}
           Inv == given.app \in Apps => BinsInv
<1>1. AppsInit => Inv
  <2>1. Bfs!Init => given.app \notin Apps
    BY BfsAssumption DEF Bfs!Init, Bfs!BfsAssumption
  <2>2. Trns!Init => given.app \notin Apps
    BY DEF Trns!Init, TrnsJobs
  <2>3. Sums!Init => given.app \notin Apps
    BY DEF Sums!Init, SumJobs
  <2>4. Init => given.app \notin Apps
    BY AppAssumption DEF Init
  <2> QED
    BY <2>1, <2>2, <2>3, <2>4, BinsInit DEF AppsInit
<1>2. Inv /\ [AppsNext]_vars => Inv'
  <2> SUFFICES ASSUME Inv, [AppsNext]_vars, (given.app \in Apps)' PROVE BinsInv'
    OBVIOUS
  <2>1. given' = given
    BY DEF AppsNext, vars
  <2>2. given.app \in Apps /\ BinsInv
    BY <2>1
  <2>3. [Bins!Next]_vars
    BY <2>2 DEF AppsNext
  <2> QED
    BY <2>2, <2>3, BinsStep
<1>3. Inv => NothingLostOrDoubled
  BY InvGivesCounts DEF NothingLostOrDoubled
<1>4. AppsSpec => []Inv
  BY <1>1, <1>2, PTL DEF AppsSpec
<1> QED
  BY <1>3, <1>4, PTL
=============================================================================
