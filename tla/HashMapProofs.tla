----------------------------- MODULE HashMapProofs -----------------------------
(***************************************************************************)
(* The symbol map for any hash function, names, values and least capacity: *)
(* between calls it is a map.  The key is that distances grow by at most   *)
(* one from a bucket to the next, at every round of every loop: an item is *)
(* then reached from its home over used buckets only, an arriving one      *)
(* cannot pass its own name, and what is shifted back stays reachable.     *)
(***************************************************************************)
EXTENDS MCSimulator, FiniteSetTheorems, WellFoundedInduction, TLAPS

Items == [dib : Nat, name : Names \union {""}, val : Values \union {Absent}]
Buckets(n) == [0..n-1 -> Items]
Used(b) == {i \in DOMAIN b : b[i].dib # 0}

(* An item x can be at bucket i of n: so far from the home of its name.    *)
Fits(x, i, n) == x.name \in Names /\ (given[x.name] + x.dib - 1) % n = i

(* A table whose items fit and whose distances climb by single steps.      *)
Climbs(b, n) == \A i \in 0..n-1 : b[(i + 1) % n].dib <= b[i].dib + 1
Sound(b, n) ==
  /\ b \in Buckets(n)
  /\ \A i \in Used(b) : Fits(b[i], i, n)
  /\ Climbs(b, n)

(* An item e that may take bucket i.                                       *)
Arriving(b, n, e, i) ==
  /\ e \in Items /\ e.dib # 0 /\ i \in 0..n-1 /\ Fits(e, i, n)
  /\ \A j \in 0..n-1 : (j + 1) % n = i => e.dib <= b[j].dib + 1

(* The invariant: what the buckets U of the table b and the buckets R that *)
(* are left of the old table hold, R being empty but for a resize.         *)
Rest(call) == {j \in DOMAIN call.old : j >= call.at /\ call.old[j].dib # 0}

Distinct(b, U, old, R) ==
  /\ \A i, j \in U : b[i].name = b[j].name => i = j
  /\ \A i, j \in R : old[i].name = old[j].name => i = j
  /\ \A i \in U, j \in R : b[i].name # old[j].name

Says(b, U, old, R, want, name) ==
  /\ \A i \in U : b[i].name = name => b[i].val = want[name]
  /\ \A j \in R : old[j].name = name => old[j].val = want[name]
  /\ (\A i \in U : b[i].name # name) /\ (\A j \in R : old[j].name # name) => want[name] = Absent

(* The table is right about every name that is not one of X. *)
Agree(b, U, old, R, want, X) ==
  /\ Distinct(b, U, old, R)
  /\ \A j \in R : old[j].name \in Names
  /\ \A name \in Names \ X : Says(b, U, old, R, want, name)

(* They are, and a carried item e is the only one of its name. *)
Fresh(name, b, U, old, R) == /\ \A i \in U : b[i].name # name
                             /\ \A j \in R : old[j].name # name
Held(e, b, U, old, R, want, X) ==
  /\ Agree(b, U, old, R, want, X \union {e.name})
  /\ Fresh(e.name, b, U, old, R)
  /\ e.name \notin X => want[e.name] = e.val

(* Table c is b but for the item e in bucket i. *)
Altered(b, c, n, i, e) == /\ c \in Buckets(n) /\ c[i] = e
                          /\ \A j \in 0..n-1 : j # i => c[j] = b[j]

Typed(s) ==
  /\ DOMAIN s = {"b", "cap", "count", "call", "want"}
  /\ DOMAIN s.call = {"pc", "e", "i", "old", "at", "todo"}
  /\ Size(s.b) \in Nat \ {0} /\ Sound(s.b, Size(s.b))
  /\ s.cap \in Nat \ {0} /\ s.count \in Nat /\ s.want \in [Names -> Values \union {Absent}]
  /\ Size(s.call.old) \in Nat /\ s.call.old \in Buckets(Size(s.call.old))
  /\ s.call.at \in 0..Size(s.call.old) /\ s.call.todo \in Items

(* The assignment that waits for the end of a resize. *)
Pending(call) == {name \in Names : call.todo.dib # 0 /\ name = call.todo.name}
Waits(call) == IF call.todo.dib = 0 THEN 0 ELSE 1
Waiting(s) == s.call.todo.dib # 0 =>
                /\ s.call.todo.dib = 1 /\ s.call.todo.name \in Names
                /\ s.want[s.call.todo.name] = s.call.todo.val

Alone(s) == s.call.todo.dib = 0 /\ Rest(s.call) = {}

Between(s) ==
  /\ s.call.pc = "idle" /\ Alone(s)
  /\ Agree(s.b, Used(s.b), s.call.old, {}, s.want, {})
  /\ s.count = Cardinality(Used(s.b)) /\ s.count < Size(s.b)

(* An arriving item has not passed its own name. *)
Probing(s) ==
  /\ s.call.pc = "probe" /\ Alone(s)
  /\ Arriving(s.b, Size(s.b), s.call.e, s.call.i)
  /\ s.want[s.call.e.name] = s.call.e.val
  /\ \A p \in Used(s.b) : s.b[p].name = s.call.e.name => s.b[p].dib >= s.call.e.dib
  /\ Agree(s.b, Used(s.b), s.call.old, {}, s.want, {s.call.e.name})
  /\ s.count = Cardinality(Used(s.b)) /\ s.count + 1 < Size(s.b)

(* The hole is counted as used, and holds nothing of worth. *)
Shifting(s) ==
  /\ s.call.pc = "shift" /\ Alone(s) /\ s.call.i \in Used(s.b)
  /\ Agree(s.b, Used(s.b) \ {s.call.i}, s.call.old, {}, s.want, {})
  /\ s.count = Cardinality(Used(s.b)) /\ s.count < Size(s.b)

Moving(s) ==
  /\ s.call.pc = "move" /\ Waiting(s)
  /\ Agree(s.b, Used(s.b), s.call.old, Rest(s.call), s.want, Pending(s.call))
  /\ s.count = Cardinality(Used(s.b)) + Cardinality(Rest(s.call))
  /\ s.count + Waits(s.call) < Size(s.b)

Settling(s) ==
  /\ s.call.pc = "settle" /\ Waiting(s)
  /\ Arriving(s.b, Size(s.b), s.call.e, s.call.i)
  /\ Held(s.call.e, s.b, Used(s.b), s.call.old, Rest(s.call), s.want, Pending(s.call))
  /\ s.count = Cardinality(Used(s.b)) + Cardinality(Rest(s.call)) + 1
  /\ s.count + Waits(s.call) < Size(s.b)

MapOk(s) == Typed(s) /\ (Between(s) \/ Probing(s) \/ Shifting(s) \/ Moving(s) \/ Settling(s))
MapInv == given \in [Names -> Nat] /\ MapOk(st)
-----------------------------------------------------------------------------
(* Numbers *)

(* Division with remainder is unique.                                      *)
LEMMA RemainderUnique ==
  ASSUME NEW n \in Nat \ {0}, NEW q \in Int, NEW k \in 0 .. n - 1
  PROVE  (n * q + k) % n = k
<1> DEFINE a == n * q + k
           r == a % n
<1>1. PICK p \in Int : a = n * p + r /\ r \in 0 .. n - 1
  <2>1. a \in Int
    OBVIOUS
  <2>2. a \div n \in Int /\ r \in 0 .. n - 1 /\ a = n * (a \div n) + r
    BY <2>1
  <2> QED
    BY <2>2
<1>2. n * (p - q) = k - r
  BY <1>1
<1>3. CASE p = q
  BY <1>1, <1>2, <1>3
<1>4. CASE p >= q + 1
  <2>1. n * (p - q) >= n
    <3>1. PICK j \in Nat : p - q = j + 1
      BY <1>4
    <3>2. n * (j + 1) = n * j + n /\ n * j >= 0
      OBVIOUS
    <3> QED
      BY <3>1, <3>2
  <2> QED
    BY <1>1, <1>2, <2>1
<1>5. CASE q >= p + 1
  <2>1. n * (p - q) <= -n
    <3>1. PICK j \in Nat : q - p = j + 1
      BY <1>5
    <3>2. n * (p - q) = -(n * (j + 1)) /\ n * (j + 1) = n * j + n /\ n * j >= 0
      BY <3>1
    <3> QED
      BY <3>2
  <2> QED
    BY <1>1, <1>2, <2>1
<1> QED
  BY <1>1, <1>3, <1>4, <1>5

(* Quotient and remainder of a natural number.                              *)
LEMMA QuotientRemainder ==
  ASSUME NEW n \in Nat \ {0}, NEW d \in Nat
  PROVE  \E q \in Int, r \in 0 .. n - 1 : d = n * q + r /\ d % n = r
<1>1. d \div n \in Int /\ d % n \in 0 .. n - 1 /\ d = n * (d \div n) + (d % n)
  OBVIOUS
<1> QED
  BY <1>1

(* A set of numbers that is not empty has a least one.                     *)
LEMMA LeastNumber ==
  ASSUME NEW B, B \subseteq Nat, B # {}
  PROVE  \E k \in B : \A j \in B : k <= j
<1> DEFINE R == OpToRel(<, Nat)
<1>1. IsWellFoundedOn(R, Nat)
  BY NatLessThanWellFounded
<1>2. \A x, y \in Nat : x < y => <<x, y>> \in R
  BY DEF OpToRel
<1> HIDE DEF R
<1>3. PICK k \in B : \A j \in B : <<j, k>> \notin R
  BY <1>1, WFMin
<1>4. \A j \in B : ~(j < k)
  BY <1>2, <1>3
<1> QED
  BY <1>4

(* Climbing from 0 to m: induction over numbers, with a set for a formula. *)
LEMMA Climb ==
  ASSUME NEW m \in Nat, NEW A, 0 \in A, \A k \in 0..m-1 : k \in A => k + 1 \in A
  PROVE  \A k \in 0..m : k \in A
<1> DEFINE B == (0..m) \ A
<1> SUFFICES ASSUME B # {} PROVE FALSE
  OBVIOUS
<1>1. B \subseteq Nat
  OBVIOUS
<1>2. PICK k \in B : \A j \in B : k <= j
  <2> HIDE DEF B
  <2> QED
    BY <1>1, LeastNumber
<1>3. k \in 1..m /\ k - 1 \in 0..m-1 /\ k - 1 \in A
  BY <1>2
<1>4. k - 1 + 1 = k
  BY <1>3
<1> QED
  BY <1>2, <1>3, <1>4

LEMMA SmallRemainder == ASSUME NEW n \in Nat \ {0}, NEW k \in 0..n-1 PROVE k % n = k
<1>1. n * 0 + k = k
  OBVIOUS
<1> QED
  BY <1>1, RemainderUnique

LEMMA InRange == ASSUME NEW n \in Nat \ {0}, NEW d \in Nat PROVE d % n \in 0..n-1
OBVIOUS

(* Going on by one commutes with the remainder.                            *)
LEMMA RemainderNext ==
  ASSUME NEW n \in Nat \ {0}, NEW d \in Nat
  PROVE  ((d % n) + 1) % n = (d + 1) % n
<1>1. PICK q \in Int, r \in 0..n-1 : d = n * q + r /\ d % n = r
  BY QuotientRemainder
<1>2. CASE r + 1 \in 0..n-1
  <2>1. d + 1 = n * q + (r + 1)
    BY <1>1
  <2>2. (n * q + (r + 1)) % n = r + 1
    BY <1>2, RemainderUnique
  <2> QED
    BY <1>1, <1>2, <2>1, <2>2, SmallRemainder
<1>3. CASE r + 1 = n
  <2>1. d + 1 = n * (q + 1) + 0 /\ n = n * 1 + 0
    BY <1>1, <1>3
  <2>2. (n * (q + 1) + 0) % n = 0 /\ (n * 1 + 0) % n = 0
    BY RemainderUnique
  <2> QED
    BY <1>1, <1>3, <2>1, <2>2
<1> QED
  BY <1>2, <1>3

(* Two buckets have the same next one only if they are the same.           *)
LEMMA NextInjective ==
  ASSUME NEW n \in Nat \ {0}, NEW i \in 0..n-1, NEW j \in 0..n-1, (i + 1) % n = (j + 1) % n
  PROVE  i = j
<1>1. (n * 1 + 0) % n = 0 /\ n * 1 + 0 = n
  BY RemainderUnique
<1>2. \A k \in 0..n-1 : k + 1 # n => (k + 1) % n = k + 1
  BY SmallRemainder
<1> QED
  BY <1>1, <1>2

-----------------------------------------------------------------------------
(* Tables *)

LEMMA SizeOf ==
  ASSUME NEW n \in Nat, NEW b \in Buckets(n)
  PROVE  DOMAIN b = 0..n-1 /\ Size(b) = n
<1>1. DOMAIN b = 0..n-1
  BY DEF Buckets
<1>2. Cardinality(0..n-1) = n
  BY FS_Interval
<1> QED
  BY <1>1, <1>2 DEF Size

LEMMA UsedFinite ==
  ASSUME NEW n \in Nat, NEW b \in Buckets(n)
  PROVE  IsFiniteSet(Used(b)) /\ Cardinality(Used(b)) \in Nat
<1>1. Used(b) \subseteq 0..n-1
  BY SizeOf DEF Used
<1>2. IsFiniteSet(0..n-1)
  BY FS_Interval
<1>3. IsFiniteSet(Used(b))
  BY <1>1, <1>2, FS_Subset
<1> QED
  BY <1>3, FS_CardinalityType

(* A new table has nothing in it.                                          *)
LEMMA NewTable ==
  ASSUME NEW n \in Nat \ {0}
  PROVE  /\ Sound(Table(n), n) /\ Used(Table(n)) = {} /\ Cardinality(Used(Table(n))) = 0
         /\ Size(Table(n)) = n
<1>1. Empty \in Items /\ Empty.dib = 0
  BY DEF Empty, Items
<1>2. Table(n) \in Buckets(n)
  BY <1>1 DEF Table, Buckets
<1>3. Used(Table(n)) = {}
  BY <1>1 DEF Used, Table
<1>4. \A i \in 0..n-1 : (i + 1) % n \in 0..n-1
  BY InRange
<1>5. Climbs(Table(n), n)
  BY <1>1, <1>4 DEF Climbs, Table
<1> QED
  BY <1>2, <1>3, <1>5, SizeOf, FS_EmptySet DEF Sound

(* An item sets out from its home.                                         *)
LEMMA SetOut ==
  ASSUME NEW n \in Nat \ {0}, NEW b, b \in Buckets(n), given \in [Names -> Nat],
         NEW e \in Items, e.dib = 1, e.name \in Names
  PROVE  Arriving(b, n, e, At(b, e.name, 0))
<1>1. Size(b) = n
  BY SizeOf
<1>2. given[e.name] \in Nat
  OBVIOUS
<1>3. given[e.name] + 0 = given[e.name] /\ given[e.name] + 1 - 1 = given[e.name]
  BY <1>2
<1>4. At(b, e.name, 0) = given[e.name] % n /\ At(b, e.name, 0) \in 0..n-1
  BY <1>1, <1>2, <1>3, InRange DEF At
<1>5. \A j \in 0..n-1 : b[j].dib \in Nat
  BY DEF Buckets, Items
<1> QED
  BY <1>3, <1>4, <1>5 DEF Arriving, Fits

(* An item may take the bucket of one that is nearer to its home.          *)
LEMMA TakeBucket ==
  ASSUME NEW n \in Nat \ {0}, NEW b, Sound(b, n), NEW e, NEW i, Arriving(b, n, e, i),
         b[i].dib < e.dib
  PROVE  Sound([b EXCEPT ![i] = e], n)
<1> DEFINE c == [b EXCEPT ![i] = e]
<1>1. i \in 0..n-1 /\ e \in Items /\ b \in Buckets(n) /\ c \in Buckets(n)
  BY DEF Arriving, Sound, Buckets
<1>2. c[i] = e /\ \A j \in 0..n-1 : j # i => c[j] = b[j]
  BY <1>1 DEF Buckets
<1>3. /\ e.dib \in Nat
      /\ \A j \in 0..n-1 : b[j].dib \in Nat
      /\ \A j \in 0..n-1 : (j + 1) % n \in 0..n-1
  <2>1. \A j \in 0..n-1 : j + 1 \in Nat
    OBVIOUS
  <2>2. \A j \in 0..n-1 : b[j] \in Items
    BY <1>1 DEF Buckets
  <2> QED
    BY <1>1, <2>1, <2>2, InRange DEF Items
<1>4. ASSUME NEW j \in 0..n-1 PROVE c[(j + 1) % n].dib <= c[j].dib + 1
  <2>1. b[(j + 1) % n].dib <= b[j].dib + 1
    BY DEF Sound, Climbs
  <2>2. (j + 1) % n = i => e.dib <= b[j].dib + 1
    BY DEF Arriving
  <2> QED
    BY <1>2, <1>3, <2>1, <2>2
<1>5. \A j \in Used(c) : Fits(c[j], j, n)
  <2>1. \A j \in Used(c) : j \in 0..n-1 /\ (j # i => j \in Used(b))
    BY <1>1, <1>2, SizeOf DEF Used
  <2> QED
    BY <1>2, <2>1 DEF Sound, Arriving
<1> HIDE DEF c
<1>6. Sound(c, n)
  BY <1>1, <1>4, <1>5 DEF Sound, Climbs
<1> QED
  BY <1>6 DEF c

(* Only the distance of an item changes on its way.                        *)
LEMMA NewDistance ==
  ASSUME NEW x \in Items, NEW d \in Nat
  PROVE  LET y == [x EXCEPT !.dib = d]
         IN  y \in Items /\ y.dib = d /\ y.name = x.name /\ y.val = x.val
<1>1. /\ DOMAIN x = {"dib", "name", "val"}
      /\ x.name \in Names \union {""} /\ x.val \in Values \union {Absent}
  BY DEF Items
<1> DEFINE y == [x EXCEPT !.dib = d]
<1>2. y = [f \in {"dib", "name", "val"} |-> IF f = "dib" THEN d ELSE x[f]]
  BY <1>1
<1>3. y = [dib |-> d, name |-> x.name, val |-> x.val]
  BY <1>2
<1> HIDE DEF y
<1>4. y \in Items /\ y.dib = d /\ y.name = x.name /\ y.val = x.val
  BY <1>1, <1>3 DEF Items
<1> QED
  BY <1>4 DEF y

LEMMA NewValue ==
  ASSUME NEW x \in Items, NEW v \in Values \union {Absent}
  PROVE  LET y == [x EXCEPT !.val = v]
         IN  y \in Items /\ y.dib = x.dib /\ y.name = x.name /\ y.val = v
<1>1. DOMAIN x = {"dib", "name", "val"} /\ x.dib \in Nat /\ x.name \in Names \union {""}
  BY DEF Items
<1> DEFINE y == [x EXCEPT !.val = v]
<1>2. y = [f \in {"dib", "name", "val"} |-> IF f = "val" THEN v ELSE x[f]]
  BY <1>1
<1>3. y = [dib |-> x.dib, name |-> x.name, val |-> v]
  BY <1>2
<1> HIDE DEF y
<1>4. y \in Items /\ y.dib = x.dib /\ y.name = x.name /\ y.val = v
  BY <1>1, <1>3 DEF Items
<1> QED
  BY <1>4 DEF y

LEMMA OneFurther ==
  ASSUME NEW x \in Items
  PROVE  Farther(x) \in Items /\ Farther(x).dib = x.dib + 1 /\ Farther(x).name = x.name /\ Farther(x).val = x.val
<1>1. x.dib \in Nat
  BY DEF Items
<1> QED
  <2>1. x.dib + 1 \in Nat
    BY <1>1
  <2> QED
    BY <2>1, NewDistance DEF Farther

(* What goes on past a bucket whose item is as far may arrive at the next. *)
LEMMA NextBucket ==
  ASSUME NEW n \in Nat \ {0}, NEW b, b \in Buckets(n), given \in [Names -> Nat],
         NEW x \in Items, x.dib # 0,
         NEW i \in 0..n-1, Fits(x, i, n), x.dib <= b[i].dib
  PROVE  Arriving(b, n, Farther(x), (i + 1) % n)
<1>1. Farther(x) \in Items /\ Farther(x).dib = x.dib + 1 /\ Farther(x).name = x.name
  BY OneFurther
<1>2. x.dib \in Nat \ {0} /\ x.name \in Names /\ given[x.name] \in Nat
  BY DEF Items, Fits
<1>3. given[x.name] + x.dib - 1 \in Nat /\ given[x.name] + (x.dib + 1) - 1 = (given[x.name] + x.dib - 1) + 1
  BY <1>2
<1>4. (given[x.name] + (x.dib + 1) - 1) % n = (i + 1) % n
  <2> DEFINE d == given[x.name] + x.dib - 1
  <2>1. d \in Nat /\ d % n = i /\ given[x.name] + (x.dib + 1) - 1 = d + 1
    BY <1>3 DEF Fits
  <2> HIDE DEF d
  <2> QED
    BY <2>1, RemainderNext
<1>5. (i + 1) % n \in 0..n-1
  <2>1. i + 1 \in Nat
    OBVIOUS
  <2> QED
    BY <2>1, InRange
<1>6. \A j \in 0..n-1 : (j + 1) % n = (i + 1) % n => j = i
  BY NextInjective
<1>7. b[i].dib \in Nat
  BY DEF Buckets, Items
<1>8. Farther(x).dib <= b[i].dib + 1
  BY <1>1, <1>2, <1>7
<1> QED
  BY <1>1, <1>2, <1>4, <1>5, <1>6, <1>8 DEF Arriving, Fits

(* From the home of an item to its bucket, the distances are at least      *)
(* those an item with this home would have.                                *)
LEMMA Chain ==
  ASSUME NEW n \in Nat \ {0}, NEW b, Sound(b, n), given \in [Names -> Nat], NEW p \in Used(b)
  PROVE  \A k \in 1..b[p].dib : b[(given[b[p].name] + k - 1) % n].dib >= k
<1> DEFINE d == b[p].dib
           h == given[b[p].name]
           A == {m \in 0..d-1 : b[(h + (d - m) - 1) % n].dib >= d - m}
<1>1. p \in 0..n-1 /\ d \in Nat \ {0} /\ b \in Buckets(n)
  BY SizeOf DEF Used, Sound, Buckets, Items
<1>2. Fits(b[p], p, n) /\ h \in Nat
  BY DEF Sound, Fits
<1>3. 0 \in A
  <2>1. h + (d - 0) - 1 = h + d - 1 /\ d - 0 = d /\ 0 \in 0..d-1
    BY <1>1, <1>2
  <2> QED
    BY <1>1, <1>2, <2>1 DEF Fits
<1>4. ASSUME NEW m \in 0..(d-1)-1, m \in A PROVE m + 1 \in A
  <2> DEFINE y == h + (d - (m + 1)) - 1
  <2>1. y \in Nat /\ h + (d - m) - 1 = y + 1 /\ m + 1 \in 0..d-1 /\ d - (m + 1) = (d - m) - 1
    BY <1>1, <1>2
  <2> HIDE DEF y
  <2>2. y % n \in 0..n-1 /\ ((y % n) + 1) % n = (y + 1) % n /\ (y + 1) % n \in 0..n-1
    BY <2>1, InRange, RemainderNext
  <2>3. b[(y + 1) % n].dib <= b[y % n].dib + 1
    BY <2>2 DEF Sound, Climbs
  <2>4. b[(y + 1) % n].dib >= d - m
    BY <2>1, <1>4
  <2>5. b[y % n].dib \in Nat /\ b[(y + 1) % n].dib \in Nat
    BY <1>1, <2>2 DEF Buckets, Items
  <2>6. b[y % n].dib >= d - (m + 1)
    BY <1>1, <2>1, <2>3, <2>4, <2>5
  <2> QED
    BY <2>1, <2>6 DEF y
<1>5. \A m \in 0..d-1 : m \in A
  <2> HIDE DEF A
  <2> QED
    BY <1>1, <1>3, <1>4, Climb
<1>6. ASSUME NEW k \in 1..d PROVE b[(h + k - 1) % n].dib >= k
  <2>1. d - k \in 0..d-1 /\ d - (d - k) = k
    BY <1>1
  <2>2. d - k \in A
    BY <1>5, <2>1
  <2> QED
    BY <2>1, <2>2
<1> QED
  BY <1>6

(* So an arriving item has not passed its own name: it is there, or the    *)
(* bucket is of one that is at least as far.                               *)
LEMMA OwnName ==
  ASSUME NEW n \in Nat \ {0}, NEW b, Sound(b, n), given \in [Names -> Nat],
         NEW e, NEW i, Arriving(b, n, e, i),
         NEW p \in Used(b), b[p].name = e.name, b[p].dib >= e.dib
  PROVE  b[i].dib >= e.dib /\ (b[p].dib = e.dib => p = i)
<1>1. e.dib \in Nat \ {0} /\ (given[e.name] + e.dib - 1) % n = i
  BY DEF Arriving, Items, Fits
<1>2. b[p].dib \in Nat /\ (given[e.name] + b[p].dib - 1) % n = p
  BY SizeOf DEF Sound, Fits, Buckets, Items, Used
<1>3. e.dib \in 1..b[p].dib
  BY <1>1, <1>2
<1> QED
  BY <1>1, <1>2, <1>3, Chain

(* With a bucket free, nothing is a whole turn away from home.             *)
LEMMA WithinTurn ==
  ASSUME NEW n \in Nat \ {0}, NEW b, Sound(b, n), given \in [Names -> Nat],
         Cardinality(Used(b)) < n, NEW p \in Used(b)
  PROVE  b[p].dib <= n
<1>a. b[p].dib \in Nat
  BY SizeOf DEF Sound, Buckets, Items, Used
<1> SUFFICES ASSUME b[p].dib > n PROVE FALSE
  BY <1>a
<1> DEFINE h == given[b[p].name]
<1>1. h \in Nat /\ b[p].dib \in Nat /\ b \in Buckets(n)
  BY SizeOf DEF Sound, Fits, Buckets, Items, Used
<1>2. ASSUME NEW i \in 0..n-1 PROVE b[i].dib # 0
  <2>1. PICK k \in 1..n : (h + k - 1) % n = i
    <3>1. PICK q \in Int, r \in 0..n-1 : h = n * q + r /\ h % n = r
      BY <1>1, QuotientRemainder
    <3>2. CASE r <= i
      <4>1. h + (i - r + 1) - 1 = n * q + i /\ i - r + 1 \in 1..n
        BY <3>1, <3>2
      <4>2. (n * q + i) % n = i
        BY RemainderUnique
      <4> QED
        BY <4>1, <4>2
    <3>3. CASE r > i
      <4>1. h + (n + i - r + 1) - 1 = n * (q + 1) + i /\ n + i - r + 1 \in 1..n
        BY <3>1, <3>3
      <4>2. (n * (q + 1) + i) % n = i
        <5>1. q + 1 \in Int
          OBVIOUS
        <5> QED
          BY <5>1, RemainderUnique
      <4> QED
        BY <4>1, <4>2
    <3> QED
      BY <3>2, <3>3
  <2>2. k \in 1..b[p].dib
    BY <1>1
  <2> QED
    BY <2>1, <2>2, Chain
<1>3. Used(b) = 0..n-1
  BY <1>1, <1>2, SizeOf DEF Used
<1>4. Cardinality(0..n-1) = n
  BY FS_Interval
<1> QED
  BY <1>3, <1>4

(* The lookup finds the item of a name wherever it is, and nothing else.   *)
LEMMA Lookup ==
  ASSUME NEW n \in Nat \ {0}, NEW b, Sound(b, n), given \in [Names -> Nat],
         Cardinality(Used(b)) < n,
         \A i, j \in Used(b) : b[i].name = b[j].name => i = j, NEW name \in Names
  PROVE  /\ Hits(b, name) = {} <=> \A i \in Used(b) : b[i].name # name
         /\ Hits(b, name) # {} =>
              LET i == At(b, name, First(Hits(b, name)))
              IN  i \in Used(b) /\ b[i].name = name
<1>1. b \in Buckets(n) /\ DOMAIN b = 0..n-1 /\ Size(b) = n /\ given[name] \in Nat
  BY SizeOf DEF Sound
<1>2. \A k \in Nat : At(b, name, k) = (given[name] + k) % n /\ At(b, name, k) \in 0..n-1
  <2>1. \A k \in Nat : given[name] + k \in Nat
    BY <1>1
  <2> QED
    BY <1>1, <2>1, InRange DEF At
<1>3. Hits(b, name) \subseteq 0..n-1
  BY <1>1 DEF Hits, Reached
<1>4. ASSUME NEW k \in Hits(b, name)
      PROVE  At(b, name, k) \in Used(b) /\ b[At(b, name, k)].name = name
  <2>1. k \in 0..n-1 /\ k \in 0..k /\ k \in Nat
    BY <1>3
  <2> QED
    BY <1>1, <1>2, <2>1 DEF Hits, Reached, Used
<1>5. ASSUME NEW p \in Used(b), b[p].name = name PROVE Hits(b, name) # {}
  <2>1. b[p].dib \in 1..n /\ p = (given[name] + b[p].dib - 1) % n
    <3>1. b[p].dib \in Nat \ {0}
      BY <1>1 DEF Used, Buckets, Items
    <3>2. b[p].dib <= n
      BY WithinTurn
    <3> QED
      BY <1>5, <3>1, <3>2 DEF Sound, Fits
  <2> DEFINE k == b[p].dib - 1
  <2>2. k \in 0..n-1 /\ k \in Nat /\ given[name] + k = given[name] + b[p].dib - 1
    BY <1>1, <2>1
  <2>3. At(b, name, k) = p
    BY <1>2, <2>1, <2>2
  <2>4. ASSUME NEW j \in 0..k PROVE b[At(b, name, j)].dib # 0
    <3>1. j + 1 \in 1..b[p].dib /\ given[name] + (j + 1) - 1 = given[name] + j /\ j \in Nat
      BY <1>1, <2>1
    <3>2. b[(given[name] + (j + 1) - 1) % n].dib >= j + 1
      BY <1>5, <3>1, Chain
    <3>3. b[At(b, name, j)].dib >= j + 1
      BY <1>2, <3>1, <3>2
    <3> QED
      BY <3>1, <3>3
  <2>5. k \in Hits(b, name)
    BY <1>1, <1>5, <2>2, <2>3, <2>4 DEF Hits, Reached
  <2> QED
    BY <2>5
<1>6. ASSUME Hits(b, name) # {} PROVE First(Hits(b, name)) \in Hits(b, name)
  <2>1. PICK k \in Hits(b, name) : \A j \in Hits(b, name) : k <= j
    <3>1. Hits(b, name) \subseteq Nat
      BY <1>3
    <3> QED
      BY <1>6, <3>1, LeastNumber
  <2> QED
    BY <2>1 DEF First
<1> QED
  BY <1>4, <1>5, <1>6

(* Moving the item behind a hole back by one; the hole keeps what was      *)
(* there, to be written over.                                              *)
LEMMA BackByOne ==
  ASSUME NEW n \in Nat \ {0}, NEW b, Sound(b, n), given \in [Names -> Nat],
         NEW i \in 0..n-1, b[(i + 1) % n].dib > 1
  PROVE  Sound([b EXCEPT ![i] = Nearer(b[(i + 1) % n])], n)
<1> DEFINE m == (i + 1) % n
           x == Nearer(b[m])
           c == [b EXCEPT ![i] = x]
<1>1. m \in 0..n-1 /\ b \in Buckets(n) /\ b[m] \in Items /\ b[m].dib \in Nat /\ b[m].dib > 1
  <2>1. m \in 0..n-1
    <3>1. i + 1 \in Nat
      OBVIOUS
    <3> QED
      BY <3>1, InRange
  <2> QED
    BY <2>1 DEF Sound, Buckets, Items
<1>2. x \in Items /\ x.dib = b[m].dib - 1 /\ x.name = b[m].name /\ x.dib # 0
  <2>1. b[m].dib - 1 \in Nat /\ b[m].dib - 1 # 0
    BY <1>1
  <2> HIDE DEF m
  <2> QED
    BY <1>1, <2>1, NewDistance DEF Nearer
<1> HIDE DEF x, m
<1>3. c \in Buckets(n) /\ c[i] = x /\ \A j \in 0..n-1 : j # i => c[j] = b[j]
  BY <1>1, <1>2 DEF Buckets
<1>4. Fits(x, i, n)
  <2> DEFINE d == given[x.name] + x.dib - 1
  <2>1. Fits(b[m], m, n)
    <3>1. m \in Used(b)
      BY <1>1, SizeOf DEF Used
    <3> QED
      BY <3>1 DEF Sound
  <2>2. d \in Nat /\ given[b[m].name] + b[m].dib - 1 = d + 1 /\ x.name \in Names
    <3>1. b[m].name \in Names /\ given[b[m].name] \in Nat
      BY <2>1 DEF Fits
    <3> QED
      BY <1>1, <1>2, <3>1
  <2> HIDE DEF d
  <2>3. (d + 1) % n = (i + 1) % n
    BY <2>1, <2>2 DEF Fits, m
  <2>4. ((d % n) + 1) % n = (i + 1) % n /\ d % n \in 0..n-1
    BY <2>2, <2>3, RemainderNext, InRange
  <2>5. d % n = i
    BY <2>4, NextInjective
  <2> QED
    BY <2>2, <2>5 DEF Fits, d
<1>5. \A j \in Used(c) : Fits(c[j], j, n)
  <2>1. \A j \in Used(c) : j \in 0..n-1 /\ (j # i => j \in Used(b))
    BY <1>1, <1>3, SizeOf DEF Used
  <2> QED
    BY <1>3, <1>4, <2>1 DEF Sound
<1>6. ASSUME NEW j \in 0..n-1 PROVE c[(j + 1) % n].dib <= c[j].dib + 1
  <2>1. (j + 1) % n \in 0..n-1
    <3>1. j + 1 \in Nat
      OBVIOUS
    <3> QED
      BY <3>1, InRange
  <2>2. b[(j + 1) % n].dib <= b[j].dib + 1 /\ b[m].dib <= b[i].dib + 1
    BY DEF Sound, Climbs, m
  <2>3. b[j].dib \in Nat /\ b[(j + 1) % n].dib \in Nat /\ b[i].dib \in Nat
    BY <1>1, <2>1 DEF Buckets, Items
  <2>4. j = i => (j + 1) % n = m
    BY DEF m
  <2> HIDE DEF c
  <2> QED
    BY <1>1, <1>2, <1>3, <2>1, <2>2, <2>3, <2>4
<1>7. Sound(c, n)
  <2> HIDE DEF c
  <2> QED
    BY <1>3, <1>5, <1>6 DEF Sound, Climbs
<1> QED
  BY <1>7 DEF m, x

(* A hole in front of an item at home, or of an empty bucket, may be freed. *)
LEMMA FreeHole ==
  ASSUME NEW n \in Nat \ {0}, NEW b, Sound(b, n), NEW i \in 0..n-1, b[(i + 1) % n].dib <= 1
  PROVE  /\ Sound([b EXCEPT ![i] = Empty], n)
         /\ Used([b EXCEPT ![i] = Empty]) = Used(b) \ {i}
<1> DEFINE c == [b EXCEPT ![i] = Empty]
<1>1. b \in Buckets(n) /\ Empty \in Items /\ Empty.dib = 0
  BY DEF Sound, Empty, Items
<1>2. c \in Buckets(n) /\ c[i] = Empty /\ \A j \in 0..n-1 : j # i => c[j] = b[j]
  BY <1>1 DEF Buckets
<1> HIDE DEF c
<1>3. Used(c) = Used(b) \ {i}
  BY <1>1, <1>2, SizeOf DEF Used
<1>4. \A j \in Used(c) : Fits(c[j], j, n)
  <2>1. \A j \in Used(c) : j \in 0..n-1 /\ j # i /\ j \in Used(b)
    BY <1>1, <1>3, SizeOf DEF Used
  <2> QED
    BY <1>2, <2>1 DEF Sound
<1>5. ASSUME NEW j \in 0..n-1 PROVE c[(j + 1) % n].dib <= c[j].dib + 1
  <2>1. (j + 1) % n \in 0..n-1
    <3>1. j + 1 \in Nat
      OBVIOUS
    <3> QED
      BY <3>1, InRange
  <2>2. b[(j + 1) % n].dib <= b[j].dib + 1
    BY DEF Sound, Climbs
  <2>3. b[j].dib \in Nat /\ b[(j + 1) % n].dib \in Nat
    BY <1>1, <2>1 DEF Buckets, Items
  <2> QED
    BY <1>1, <1>2, <2>1, <2>2, <2>3
<1> QED
  BY <1>2, <1>3, <1>4, <1>5 DEF Sound, Climbs, c
-----------------------------------------------------------------------------
(* Calls under way *)

LEMMA IdleCall ==
  /\ DOMAIN Idle = {"pc", "e", "i", "old", "at", "todo"}
  /\ Idle.pc = "idle" /\ Idle.old = Table(0) /\ Idle.at = 0 /\ Idle.todo = Empty
  /\ Table(0) \in Buckets(0) /\ Size(Table(0)) = 0 /\ DOMAIN Table(0) = {}
  /\ Empty \in Items /\ Empty.dib = 0
<1>1. Empty \in Items /\ Empty.dib = 0
  BY DEF Empty, Items
<1>2. Table(0) \in Buckets(0)
  BY <1>1 DEF Table, Buckets
<1>3. Size(Table(0)) = 0 /\ DOMAIN Table(0) = {}
  BY <1>2, SizeOf
<1> QED
  BY <1>1, <1>2, <1>3 DEF Idle

LEMMA InsertingCall ==
  ASSUME NEW b, NEW e
  PROVE  LET c == Inserting(b, e)
         IN  /\ DOMAIN c = {"pc", "e", "i", "old", "at", "todo"}
             /\ c.pc = "probe" /\ c.e = e /\ c.i = At(b, e.name, 0)
             /\ c.old = Table(0) /\ c.at = 0 /\ c.todo = Empty
BY IdleCall DEF Inserting

LEMMA ResizingCall ==
  ASSUME NEW old, NEW todo
  PROVE  LET c == Resizing(old, todo)
         IN  /\ DOMAIN c = {"pc", "e", "i", "old", "at", "todo"}
             /\ c.pc = "move" /\ c.old = old /\ c.at = 0 /\ c.todo = todo
BY IdleCall DEF Resizing

(* Outside a resize nothing is left of an old table.                       *)
LEMMA AloneCall ==
  ASSUME NEW s, s.call.old = Table(0), s.call.todo = Empty
  PROVE  Alone(s)
BY IdleCall DEF Alone, Rest

(* What is left of the old table is finite.                                *)
LEMMA RestFinite ==
  ASSUME NEW c, NEW m \in Nat, c.old \in Buckets(m)
  PROVE  IsFiniteSet(Rest(c)) /\ Cardinality(Rest(c)) \in Nat
<1>1. Rest(c) \subseteq Used(c.old)
  BY DEF Rest, Used
<1> QED
  BY <1>1, UsedFinite, FS_Subset, FS_CardinalityType

(* All of it is left when a resize begins.                                 *)
LEMMA RestAll ==
  ASSUME NEW c, NEW m \in Nat, c.old \in Buckets(m), c.at = 0
  PROVE  Rest(c) = Used(c.old)
BY SizeOf DEF Rest, Used

-----------------------------------------------------------------------------
(* What the tables hold *)

LEMMA NothingLeft ==
  ASSUME NEW b, NEW U, NEW old, NEW other, NEW want, NEW X, Agree(b, U, old, {}, want, X)
  PROVE  Agree(b, U, other, {}, want, X)
BY DEF Agree, Distinct, Says

(* A new item in an empty bucket.                                          *)
LEMMA NewItem ==
  ASSUME NEW n \in Nat \ {0}, NEW b \in Buckets(n), NEW i \in 0..n-1, b[i].dib = 0,
         NEW e \in Items, e.dib # 0,
         NEW c, Altered(b, c, n, i, e),
         NEW old, NEW R, NEW want, NEW X,
         Held(e, b, Used(b), old, R, want, X)
  PROVE  /\ Agree(c, Used(c), old, R, want, X)
         /\ Cardinality(Used(c)) = Cardinality(Used(b)) + 1
<1>1. c[i] = e /\ \A j \in 0..n-1 : j # i => c[j] = b[j]
  BY DEF Altered
<1>2. DOMAIN b = 0..n-1 /\ DOMAIN c = 0..n-1
  BY SizeOf DEF Altered
<1>3. Used(c) = Used(b) \union {i} /\ i \notin Used(b) /\ Used(b) \subseteq 0..n-1
  BY <1>1, <1>2 DEF Used
<1>4. \A j \in Used(b) : c[j] = b[j]
  BY <1>1, <1>3
<1>5. Distinct(c, Used(c), old, R)
  BY <1>1, <1>3, <1>4 DEF Distinct, Agree, Held, Fresh
<1>6. ASSUME NEW name \in Names \ X PROVE Says(c, Used(c), old, R, want, name)
  <2>1. CASE name = e.name
    BY <1>1, <1>3, <1>4, <2>1 DEF Held, Says, Fresh
  <2>2. CASE name # e.name
    <3>1. Says(b, Used(b), old, R, want, name)
      BY <2>2 DEF Agree, Held
    <3> QED
      BY <1>1, <1>3, <1>4, <2>2, <3>1 DEF Says
  <2> QED
    BY <2>1, <2>2
<1>7. Cardinality(Used(c)) = Cardinality(Used(b)) + 1
  <2>1. IsFiniteSet(Used(b))
    BY UsedFinite
  <2> QED
    BY <1>3, <2>1, FS_AddElement
<1> QED
  BY <1>5, <1>6, <1>7 DEF Agree, Held

(* A new item in the bucket of another, which leaves.                      *)
LEMMA ItemAside ==
  ASSUME NEW n \in Nat \ {0}, NEW b \in Buckets(n), NEW i \in Used(b),
         NEW e \in Items, e.dib # 0,
         NEW c, Altered(b, c, n, i, e),
         NEW old, NEW R, NEW want, NEW X,
         Held(e, b, Used(b), old, R, want, X), b[i].name \in Names
  PROVE  Held(b[i], c, Used(c), old, R, want, X) /\ Used(c) = Used(b)
<1>1. /\ DOMAIN b = 0..n-1 /\ DOMAIN c = 0..n-1 /\ i \in 0..n-1
      /\ c[i] = e /\ \A j \in 0..n-1 : j # i => c[j] = b[j]
  BY SizeOf DEF Used, Altered
<1>2. Used(c) = Used(b) /\ Used(b) \subseteq 0..n-1
  BY <1>1 DEF Used
<1>3. \A j \in Used(b) : j # i => c[j] = b[j]
  BY <1>1, <1>2
<1>4. Distinct(c, Used(c), old, R) /\ Fresh(b[i].name, c, Used(c), old, R)
  BY <1>1, <1>2, <1>3 DEF Distinct, Agree, Held, Fresh
<1>5. ASSUME NEW name \in Names \ (X \union {b[i].name}) PROVE Says(c, Used(c), old, R, want, name)
  <2>1. CASE name = e.name
    BY <1>1, <1>2, <1>3, <2>1 DEF Held, Says, Fresh
  <2>2. CASE name # e.name
    <3>1. Says(b, Used(b), old, R, want, name)
      BY <2>2 DEF Agree, Held
    <3> QED
      BY <1>1, <1>2, <1>3, <1>5, <2>2, <3>1 DEF Says
  <2> QED
    BY <2>1, <2>2
<1>6. b[i].name \notin X => want[b[i].name] = b[i].val
  <2>1. b[i].name # e.name
    BY DEF Fresh, Held
  <2> QED
    BY <2>1 DEF Agree, Held, Fresh, Says
<1> QED
  BY <1>2, <1>4, <1>5, <1>6 DEF Agree, Held

-----------------------------------------------------------------------------
(* The steps *)

(* What the two probing loops have in common.                              *)
LEMMA CarriedItem ==
  ASSUME MapInv, Carrying
  PROVE  /\ Typed(st) /\ Size(st.b) \in Nat \ {0} /\ st.b \in Buckets(Size(st.b)) /\ Sound(st.b, Size(st.b))
         /\ Arriving(st.b, Size(st.b), st.call.e, st.call.i)
         /\ st.call.i \in 0..Size(st.b)-1 /\ st.call.e \in Items /\ st.call.e.dib \in Nat \ {0}
         /\ There.dib \in Nat /\ (There.dib # 0 => st.call.i \in Used(st.b))
         /\ There.dib # 0 => There.name \in Names /\ Fits(There, st.call.i, Size(st.b)) /\ There \in Items
         /\ Fits(st.call.e, st.call.i, Size(st.b))
         /\ (st.call.pc = "probe" /\ Probing(st)) \/ (st.call.pc = "settle" /\ Settling(st))
<1>1. (st.call.pc = "probe" /\ Probing(st)) \/ (st.call.pc = "settle" /\ Settling(st))
  BY DEF Carrying, MapInv, MapOk, Between, Probing, Shifting, Moving, Settling
<1>2. Typed(st) /\ Size(st.b) \in Nat \ {0} /\ st.b \in Buckets(Size(st.b)) /\ Sound(st.b, Size(st.b))
  BY DEF MapInv, MapOk, Typed, Sound
<1>3. Arriving(st.b, Size(st.b), st.call.e, st.call.i)
  BY <1>1 DEF Probing, Settling
<1>4. /\ st.call.i \in 0..Size(st.b)-1 /\ st.call.e \in Items /\ st.call.e.dib \in Nat \ {0}
      /\ Fits(st.call.e, st.call.i, Size(st.b))
  BY <1>3 DEF Arriving, Items
<1>5. There \in Items /\ There.dib \in Nat /\ (There.dib # 0 => st.call.i \in Used(st.b))
  <2>1. DOMAIN st.b = 0..Size(st.b)-1 /\ st.b[st.call.i] \in Items
    BY <1>2, <1>4, SizeOf DEF Buckets
  <2> QED
    BY <1>4, <2>1 DEF There, Used, Items
<1>6. There.dib # 0 => There.name \in Names /\ Fits(There, st.call.i, Size(st.b))
  BY <1>2, <1>5 DEF Sound, Fits, There
<1> QED
  BY <1>1, <1>2, <1>3, <1>4, <1>5, <1>6

LEMMA PlaceKeeps == ASSUME MapInv, Place PROVE MapOk(st')
<1> DEFINE b == st.b
           n == Size(b)
           e == st.call.e
           c == [b EXCEPT ![st.call.i] = e]
<1>1. /\ Typed(st) /\ n \in Nat \ {0} /\ b \in Buckets(n) /\ Sound(b, n) /\ Arriving(b, n, e, st.call.i)
      /\ st.call.i \in 0..n-1 /\ e \in Items /\ e.dib \in Nat \ {0} /\ b[st.call.i].dib = 0
  BY CarriedItem DEF Place, There
<1>2. /\ DOMAIN st' = {"b", "cap", "count", "call", "want"}
      /\ st'.b = c /\ st'.cap = st.cap /\ st'.want = st.want
      /\ st'.count = (IF st.call.pc = "probe" THEN st.count + 1 ELSE st.count)
      /\ st'.call = IF st.call.pc = "probe" THEN Idle
                    ELSE [st.call EXCEPT !.pc = "move", !.e = Empty, !.i = 0]
  BY <1>1 DEF Typed, Place
<1>3. Sound(c, n) /\ c \in Buckets(n) /\ Size(c) = n
  <2>1. Sound(c, n)
    <3>1. b[st.call.i].dib < e.dib
      BY <1>1
    <3> HIDE DEF b, n, e
    <3> QED
      BY <1>1, <3>1, TakeBucket
  <2>2. c \in Buckets(n)
    BY <2>1 DEF Sound
  <2> HIDE DEF c
  <2> QED
    BY <1>1, <2>1, <2>2, SizeOf
<1>4. CASE st.call.pc = "probe"
  <2>1. Probing(st)
    BY <1>4, CarriedItem DEF Place
  <2>2. Fresh(e.name, b, Used(b), st.call.old, {})
    <3>1. \A p \in Used(b) : b[p].name = e.name => b[p].dib >= e.dib
      BY <2>1 DEF Probing
    <3>2. given \in [Names -> Nat]
      BY DEF MapInv
    <3>3. \A p \in Used(b) : b[p].name # e.name
      BY <1>1, <3>1, <3>2, OwnName
    <3> QED
      BY <3>3 DEF Fresh
  <2>3. Agree(c, Used(c), st.call.old, {}, st.want, {}) /\ Cardinality(Used(c)) = Cardinality(Used(b)) + 1
    <3>1. Held(e, b, Used(b), st.call.old, {}, st.want, {})
      BY <2>1, <2>2 DEF Probing, Held
    <3>3. Altered(b, c, n, st.call.i, e) /\ e.dib # 0
      BY <1>1 DEF Buckets, Altered
    <3> HIDE DEF b, n, e, c
    <3> QED
      BY <1>1, <2>2, <3>1, <3>3, NewItem
  <2>4. st'.call = Idle /\ Alone(st')
    BY <1>2, <1>4, IdleCall, AloneCall
  <2>5. st'.count = st.count + 1 /\ st.count \in Nat
    BY <1>1, <1>2, <1>4 DEF Typed
  <2>6. st.count = Cardinality(Used(b)) /\ st.count + 1 < n
    BY <2>1 DEF Probing
  <2> HIDE DEF b, n, e, c
  <2>7. Typed(st')
    BY <1>1, <1>2, <1>3, <2>4, <2>5, IdleCall DEF Typed
  <2>8. Between(st')
    BY <1>2, <1>3, <2>3, <2>4, <2>5, <2>6, IdleCall, NothingLeft DEF Between
  <2> QED
    BY <2>7, <2>8 DEF MapOk
<1>5. CASE st.call.pc = "settle"
  <2>1. Settling(st)
    BY <1>5, CarriedItem DEF Place
  <2>2. /\ DOMAIN st'.call = {"pc", "e", "i", "old", "at", "todo"}
        /\ st'.call.pc = "move" /\ st'.call.old = st.call.old
        /\ st'.call.at = st.call.at /\ st'.call.todo = st.call.todo
    BY <1>1, <1>2, <1>5 DEF Typed
  <2>3. Rest(st'.call) = Rest(st.call) /\ Pending(st'.call) = Pending(st.call) /\ Waits(st'.call) = Waits(st.call)
    BY <2>2 DEF Rest, Pending, Waits
  <2>4. /\ Agree(c, Used(c), st.call.old, Rest(st.call), st.want, Pending(st.call))
        /\ Cardinality(Used(c)) = Cardinality(Used(b)) + 1
    <3>1. Held(e, b, Used(b), st.call.old, Rest(st.call), st.want, Pending(st.call))
      BY <2>1 DEF Settling
    <3>3. Altered(b, c, n, st.call.i, e) /\ e.dib # 0
      BY <1>1 DEF Buckets, Altered
    <3> HIDE DEF b, n, e, c
    <3>4. /\ n \in Nat \ {0} /\ b \in Buckets(n) /\ st.call.i \in 0..n-1 /\ b[st.call.i].dib = 0
          /\ e \in Items
      BY <1>1
    <3> QED
      BY <3>1, <3>3, <3>4, NewItem
  <2>5. st'.count = st.count /\ st.count = Cardinality(Used(b)) + Cardinality(Rest(st.call)) + 1
        /\ st.count + Waits(st.call) < n
    BY <1>2, <1>5, <2>1 DEF Settling
  <2>6. Cardinality(Used(b)) \in Nat /\ Cardinality(Rest(st.call)) \in Nat
    BY <1>1, UsedFinite, RestFinite DEF Typed
  <2> HIDE DEF b, n, e, c
  <2>7. Typed(st')
    BY <1>1, <1>2, <1>3, <2>2, <2>5 DEF Typed
  <2>8. Waiting(st')
    BY <1>2, <2>1, <2>2 DEF Waiting, Settling
  <2>9. Moving(st')
    BY <1>2, <1>3, <2>2, <2>3, <2>4, <2>5, <2>6, <2>8 DEF Moving
  <2> QED
    BY <2>7, <2>9 DEF MapOk
<1> QED
  BY <1>4, <1>5, CarriedItem DEF Place

(* An assignment that meets its name gives it the new value.              *)
LEMMA ReplaceKeeps == ASSUME MapInv, Replace PROVE MapOk(st')
<1> DEFINE b == st.b
           n == Size(b)
           e == st.call.e
           i == st.call.i
           x == [b[i] EXCEPT !.val = e.val]
           c == [b EXCEPT ![i] = x]
<1>1. /\ Typed(st) /\ n \in Nat \ {0} /\ b \in Buckets(n) /\ Sound(b, n) /\ e \in Items
      /\ i \in Used(b) /\ i \in 0..n-1 /\ b[i].name = e.name /\ b[i] \in Items /\ Probing(st)
  BY CarriedItem DEF Replace, There, Known
<1>2. /\ DOMAIN st' = {"b", "cap", "count", "call", "want"}
      /\ st'.cap = st.cap /\ st'.want = st.want /\ st'.count = st.count /\ st'.call = Idle
  BY <1>1 DEF Typed, Replace
<1>3. x \in Items /\ x.dib = b[i].dib /\ x.name = b[i].name /\ x.val = e.val
  <2>1. e.val \in Values \union {Absent}
    BY <1>1 DEF Items
  <2> HIDE DEF b, e, i
  <2> QED
    BY <1>1, <2>1, NewValue
<1>4. st'.b = c
  <2>1. st'.b = [b EXCEPT ![i].val = e.val]
    BY <1>1 DEF Typed, Replace
  <2> QED
    BY <2>1
<1> HIDE DEF x
<1>5. /\ c \in Buckets(n) /\ DOMAIN b = 0..n-1 /\ DOMAIN c = 0..n-1
      /\ c[i] = x /\ \A j \in 0..n-1 : j # i => c[j] = b[j]
  <2>1. DOMAIN b = 0..n-1 /\ \A f \in Buckets(n) : DOMAIN f = 0..n-1
    BY <1>1, SizeOf
  <2> QED
    BY <1>1, <1>3, <2>1 DEF Buckets
<1> HIDE DEF b, n, e, i, c
<1>6. \A j \in 0..n-1 : c[j].dib = b[j].dib /\ c[j].name = b[j].name
  BY <1>3, <1>5
<1>7. Used(c) = Used(b) /\ Used(b) \subseteq 0..n-1 /\ Size(c) = n
  BY <1>1, <1>5, <1>6, SizeOf DEF Used
<1>8. Sound(c, n)
  <2>1. Climbs(c, n)
    <3>1. \A j \in 0..n-1 : (j + 1) % n \in 0..n-1
      <4>1. \A j \in 0..n-1 : j + 1 \in Nat
        OBVIOUS
      <4> QED
        BY <1>1, <4>1, InRange
    <3> QED
      BY <1>1, <1>6, <3>1 DEF Sound, Climbs
  <2>2. \A j \in Used(c) : Fits(c[j], j, n)
    BY <1>1, <1>6, <1>7 DEF Sound, Fits
  <2> QED
    BY <1>5, <2>1, <2>2 DEF Sound
<1>9. Agree(c, Used(c), st.call.old, {}, st.want, {})
  <2>1. Agree(b, Used(b), st.call.old, {}, st.want, {e.name}) /\ st.want[e.name] = e.val
    BY <1>1 DEF Probing, b, e
  <2>2. Distinct(c, Used(c), st.call.old, {})
    BY <1>6, <1>7, <2>1 DEF Distinct, Agree
  <2>3. ASSUME NEW name \in Names PROVE Says(c, Used(c), st.call.old, {}, st.want, name)
    <3>1. CASE name = e.name
      <4>1. \A j \in Used(b) : b[j].name = name => j = i
        BY <1>1, <2>1, <3>1 DEF Agree, Distinct
      <4> QED
        BY <1>1, <1>3, <1>5, <1>6, <1>7, <2>1, <3>1, <4>1 DEF Says
    <3>2. CASE name # e.name
      <4>1. Says(b, Used(b), st.call.old, {}, st.want, name)
        BY <2>1, <3>2 DEF Agree
      <4>2. \A j \in Used(b) : b[j].name = name => c[j] = b[j]
        BY <1>1, <1>5, <1>7, <3>2
      <4> QED
        BY <1>6, <1>7, <4>1, <4>2 DEF Says
    <3> QED
      BY <3>1, <3>2
  <2> QED
    BY <2>2, <2>3 DEF Agree
<1>10. Alone(st') /\ st'.call.pc = "idle"
  BY <1>2, IdleCall, AloneCall
<1>11. Typed(st')
  BY <1>1, <1>2, <1>4, <1>7, <1>8, IdleCall DEF Typed
<1>12. Between(st')
  <2>1. st.count \in Nat /\ st.count = Cardinality(Used(b)) /\ st.count + 1 < n
    BY <1>1 DEF Probing, Typed, b, n
  <2>2. st.count < n
    BY <1>1, <2>1
  <2> QED
    BY <1>2, <1>4, <1>7, <1>9, <1>10, <2>1, <2>2, NothingLeft DEF Between
<1> QED
  BY <1>11, <1>12 DEF MapOk

(* The item of a fuller bucket makes room and goes on.                    *)
LEMMA PushAsideKeeps == ASSUME MapInv, PushAside PROVE MapOk(st')
<1> DEFINE b == st.b
           n == Size(b)
           e == st.call.e
           i == st.call.i
           c == [b EXCEPT ![i] = e]
           x == Farther(b[i])
<1>1. /\ Typed(st) /\ n \in Nat \ {0} /\ b \in Buckets(n) /\ Sound(b, n) /\ Arriving(b, n, e, i)
      /\ i \in 0..n-1 /\ i \in Used(b) /\ e \in Items /\ e.dib \in Nat \ {0} /\ b[i].dib < e.dib
      /\ b[i] \in Items /\ b[i].dib \in Nat \ {0} /\ b[i].name \in Names /\ Fits(b[i], i, n)
  BY CarriedItem DEF PushAside, There
<1>2. /\ DOMAIN st' = {"b", "cap", "count", "call", "want"}
      /\ st'.b = c /\ st'.cap = st.cap /\ st'.want = st.want /\ st'.count = st.count
      /\ DOMAIN st'.call = {"pc", "e", "i", "old", "at", "todo"}
      /\ st'.call.pc = st.call.pc /\ st'.call.e = x /\ st'.call.i = (i + 1) % n
      /\ st'.call.old = st.call.old /\ st'.call.at = st.call.at /\ st'.call.todo = st.call.todo
  BY <1>1 DEF Typed, PushAside, There, After
<1>3. /\ Rest(st'.call) = Rest(st.call) /\ Pending(st'.call) = Pending(st.call)
      /\ Waits(st'.call) = Waits(st.call) /\ (Alone(st) => Alone(st'))
  BY <1>2 DEF Rest, Pending, Waits, Alone
<1>4. x \in Items /\ x.dib = b[i].dib + 1 /\ x.name = b[i].name /\ x.val = b[i].val
  BY <1>1, OneFurther
<1> HIDE DEF b, n, e, i, x
<1>5. Sound(c, n) /\ c \in Buckets(n) /\ Size(c) = n /\ c[i] = e
  <2>1. Sound(c, n)
    BY <1>1, TakeBucket
  <2>2. c \in Buckets(n) /\ c[i] = e
    BY <1>1, <2>1 DEF Sound, Buckets
  <2> HIDE DEF c
  <2> QED
    BY <1>1, <2>1, <2>2, SizeOf
<1>6. Arriving(c, n, x, (i + 1) % n)
  <2>1. b[i].dib <= c[i].dib /\ b[i].dib # 0
    BY <1>1, <1>5
  <2>2. given \in [Names -> Nat]
    BY DEF MapInv
  <2>3. Arriving(c, n, Farther(b[i]), (i + 1) % n)
    <3> HIDE DEF c
    <3> QED
      BY <1>1, <1>5, <2>1, <2>2, NextBucket
  <2> QED
    BY <2>3 DEF x
<1>7. Typed(st')
  <2> HIDE DEF c
  <2> QED
    BY <1>1, <1>2, <1>5 DEF Typed
<1>8. CASE st.call.pc = "probe"
  <2>1. Probing(st)
    BY <1>8, CarriedItem DEF PushAside
  <2>2. Fresh(e.name, b, Used(b), st.call.old, {})
    <3>1. \A p \in Used(b) : b[p].name = e.name => b[p].dib >= e.dib
      BY <2>1 DEF Probing, b, e
    <3>2. given \in [Names -> Nat]
      BY DEF MapInv
    <3>3. ASSUME NEW p \in Used(b), b[p].name = e.name PROVE FALSE
      <4>1. b[p].dib >= e.dib
        BY <3>1, <3>3
      <4>2. b[i].dib >= e.dib
        BY <1>1, <3>2, <3>3, <4>1, OwnName
      <4> QED
        BY <1>1, <4>2
    <3> QED
      BY <3>3 DEF Fresh
  <2>3. Held(b[i], c, Used(c), st.call.old, {}, st.want, {}) /\ Used(c) = Used(b)
    <3>1. Held(e, b, Used(b), st.call.old, {}, st.want, {})
      BY <2>1, <2>2 DEF Probing, Held, b, e
    <3>3. Altered(b, c, n, i, e) /\ e.dib # 0
      BY <1>1 DEF Buckets, Altered
    <3> HIDE DEF c
    <3>4. /\ n \in Nat \ {0} /\ b \in Buckets(n) /\ i \in Used(b) /\ e \in Items
          /\ b[i].name \in Names
      BY <1>1
    <3> QED
      BY <3>1, <3>3, <3>4, ItemAside
  <2> HIDE DEF c
  <2>4. Agree(c, Used(c), st.call.old, {}, st.want, {x.name}) /\ st.want[x.name] = x.val
    BY <1>4, <2>3 DEF Held
  <2>5. \A p \in Used(c) : c[p].name = x.name => c[p].dib >= x.dib
    BY <1>4, <2>3 DEF Held, Fresh
  <2>6. st.count = Cardinality(Used(b)) /\ st.count + 1 < n /\ Alone(st)
    BY <2>1 DEF Probing, b, n
  <2>7. Probing(st')
    BY <1>2, <1>3, <1>5, <1>6, <1>8, <2>3, <2>4, <2>5, <2>6 DEF Probing
  <2> QED
    BY <1>7, <2>7 DEF MapOk
<1>9. CASE st.call.pc = "settle"
  <2>1. Settling(st)
    BY <1>9, CarriedItem DEF PushAside
  <2>2. Held(b[i], c, Used(c), st.call.old, Rest(st.call), st.want, Pending(st.call)) /\ Used(c) = Used(b)
    <3>1. Held(e, b, Used(b), st.call.old, Rest(st.call), st.want, Pending(st.call))
      BY <2>1 DEF Settling, b, e
    <3>3. Altered(b, c, n, i, e) /\ e.dib # 0
      BY <1>1 DEF Buckets, Altered
    <3> HIDE DEF c
    <3>4. /\ n \in Nat \ {0} /\ b \in Buckets(n) /\ i \in Used(b) /\ e \in Items
          /\ b[i].name \in Names
      BY <1>1
    <3> QED
      BY <3>1, <3>3, <3>4, ItemAside
  <2>3. /\ st.count = Cardinality(Used(b)) + Cardinality(Rest(st.call)) + 1
        /\ st.count + Waits(st.call) < n /\ Waiting(st)
    BY <2>1 DEF Settling, b, n
  <2> HIDE DEF c
  <2>4. Waiting(st')
    BY <1>2, <2>3 DEF Waiting
  <2>5. Settling(st')
    BY <1>2, <1>3, <1>4, <1>5, <1>6, <1>9, <2>2, <2>3, <2>4 DEF Settling, Held
  <2> QED
    BY <1>7, <2>5 DEF MapOk
<1> QED
  BY <1>8, <1>9, CarriedItem DEF PushAside

(* The carried item goes on past one that is at least as far.             *)
LEMMA GoOnKeeps == ASSUME MapInv, GoOn PROVE MapOk(st')
<1> DEFINE b == st.b
           n == Size(b)
           e == st.call.e
           i == st.call.i
           x == Farther(e)
<1>1. /\ Typed(st) /\ n \in Nat \ {0} /\ b \in Buckets(n) /\ Sound(b, n) /\ Arriving(b, n, e, i)
      /\ i \in 0..n-1 /\ i \in Used(b) /\ e \in Items /\ e.dib \in Nat \ {0} /\ b[i].dib >= e.dib
      /\ b[i].dib \in Nat /\ Fits(e, i, n) /\ (st.call.pc = "probe" => b[i].name # e.name)
  BY CarriedItem DEF GoOn, There, Known
<1>2. /\ DOMAIN st' = {"b", "cap", "count", "call", "want"}
      /\ st'.b = b /\ st'.cap = st.cap /\ st'.want = st.want /\ st'.count = st.count
      /\ DOMAIN st'.call = {"pc", "e", "i", "old", "at", "todo"}
      /\ st'.call.pc = st.call.pc /\ st'.call.e = x /\ st'.call.i = (i + 1) % n
      /\ st'.call.old = st.call.old /\ st'.call.at = st.call.at /\ st'.call.todo = st.call.todo
  BY <1>1 DEF Typed, GoOn, After
<1>3. /\ Rest(st'.call) = Rest(st.call) /\ Pending(st'.call) = Pending(st.call)
      /\ Waits(st'.call) = Waits(st.call) /\ (Alone(st) => Alone(st'))
  BY <1>2 DEF Rest, Pending, Waits, Alone
<1>4. x \in Items /\ x.dib = e.dib + 1 /\ x.name = e.name /\ x.val = e.val
  BY <1>1, OneFurther
<1>5. given \in [Names -> Nat]
  BY DEF MapInv
<1>6. Arriving(b, n, x, (i + 1) % n)
  <2>1. e.dib <= b[i].dib /\ e.dib # 0
    BY <1>1
  <2> HIDE DEF b, n, e, i
  <2> QED
    BY <1>1, <1>5, <2>1, NextBucket
<1>7. Typed(st')
  BY <1>1, <1>2 DEF Typed
<1> HIDE DEF x
<1>8. CASE st.call.pc = "probe"
  <2>1. Probing(st)
    BY <1>8, CarriedItem DEF GoOn
  <2>2. ASSUME NEW p \in Used(b), b[p].name = x.name PROVE b[p].dib >= x.dib
    <3>1. b[p].dib >= e.dib /\ b[p].name = e.name
      BY <1>4, <2>1, <2>2 DEF Probing
    <3>2. b[p].dib # e.dib
      <4> HIDE DEF b, n, e, i
      <4>0. /\ n \in Nat \ {0} /\ Sound(b, n) /\ Arriving(b, n, e, i)
            /\ p \in Used(b) /\ b[p].name = e.name /\ b[p].dib >= e.dib
        BY <1>1, <2>2, <3>1
      <4>1. b[p].dib = e.dib => p = i
        BY <1>5, <4>0, OwnName
      <4> QED
        BY <1>1, <1>8, <3>1, <4>1
    <3>3. b[p].dib \in Nat
      BY <1>1, SizeOf DEF Used, Buckets, Items
    <3> HIDE DEF b, e
    <3> QED
      BY <1>1, <1>4, <3>1, <3>2, <3>3
  <2>3. Probing(st')
    BY <1>2, <1>3, <1>4, <1>6, <1>8, <2>1, <2>2 DEF Probing
  <2> QED
    BY <1>7, <2>3 DEF MapOk
<1>9. CASE st.call.pc = "settle"
  <2>1. Settling(st)
    BY <1>9, CarriedItem DEF GoOn
  <2>2. Waiting(st')
    BY <1>2, <2>1 DEF Settling, Waiting
  <2>3. Settling(st')
    BY <1>2, <1>3, <1>4, <1>6, <1>9, <2>1, <2>2 DEF Settling, Held
  <2> QED
    BY <1>7, <2>3 DEF MapOk
<1> QED
  BY <1>8, <1>9, CarriedItem DEF GoOn

(* A resize takes the next item of the old table.                         *)
LEMMA MoveNextKeeps == ASSUME MapInv, MoveNext PROVE MapOk(st')
<1> DEFINE b == st.b
           old == st.call.old
           m == Size(old)
           a == st.call.at
           x == [old[a] EXCEPT !.dib = 1]
           R == Rest(st.call)
           S == Rest(st'.call)
<1>1. Typed(st) /\ Moving(st) /\ given \in [Names -> Nat]
  BY DEF MoveNext, MapInv, MapOk, Between, Probing, Shifting, Moving, Settling
<1>2. /\ m \in Nat /\ old \in Buckets(m) /\ DOMAIN old = 0..m-1 /\ a \in 0..m-1
      /\ old[a] \in Items /\ old[a].dib \in Nat /\ a + 1 \in 0..m
  <2>1. m \in Nat /\ old \in Buckets(m) /\ a \in 0..m /\ a < m
    BY <1>1 DEF Typed, MoveNext
  <2>2. DOMAIN old = 0..m-1 /\ a \in 0..m-1
    BY <2>1, SizeOf
  <2>3. old[a] \in Items
    BY <2>1, <2>2 DEF Buckets
  <2> HIDE DEF old, a
  <2>4. old[a].dib \in Nat
    BY <2>3 DEF Items
  <2> QED
    BY <2>1, <2>2, <2>3, <2>4
<1>3. /\ DOMAIN st' = {"b", "cap", "count", "call", "want"}
      /\ st'.b = b /\ st'.cap = st.cap /\ st'.want = st.want /\ st'.count = st.count
      /\ DOMAIN st'.call = {"pc", "e", "i", "old", "at", "todo"}
      /\ st'.call.old = old /\ st'.call.at = a + 1 /\ st'.call.todo = st.call.todo
      /\ old[a].dib = 0 => st'.call.pc = "move"
      /\ old[a].dib # 0 => /\ st'.call.pc = "settle" /\ st'.call.e = x
                           /\ st'.call.i = At(b, old[a].name, 0)
  <2>0. DOMAIN st = {"b", "cap", "count", "call", "want"}
    BY <1>1 DEF Typed
  <2> DEFINE next == IF old[a].dib = 0 THEN [st.call EXCEPT !.at = a + 1]
                     ELSE [st.call EXCEPT !.at = a + 1, !.pc = "settle",
                                          !.i = At(b, old[a].name, 0), !.e = x]
  <2>a. st' = [st EXCEPT !.call = next]
    <3>1. CASE old[a].dib = 0
      <4>1. st' = [st EXCEPT !.call = [st.call EXCEPT !.at = a + 1]]
        BY <3>1 DEF MoveNext
      <4> QED
        BY <3>1, <4>1
    <3>2. CASE old[a].dib # 0
      <4>1. st' = [st EXCEPT !.call = [st.call EXCEPT !.at = a + 1, !.pc = "settle",
                                          !.i = At(b, old[a].name, 0), !.e = x]]
        BY <3>2 DEF MoveNext
      <4> QED
        BY <3>2, <4>1
    <3> QED
      BY <3>1, <3>2
  <2>1. /\ DOMAIN st' = {"b", "cap", "count", "call", "want"}
        /\ st'.b = b /\ st'.cap = st.cap /\ st'.want = st.want /\ st'.count = st.count
        /\ st'.call = next
    <3> HIDE DEF next
    <3> QED
      BY <2>0, <2>a
  <2>2. DOMAIN st.call = {"pc", "e", "i", "old", "at", "todo"} /\ st.call.pc = "move"
    BY <1>1 DEF Typed, Moving
  <2> HIDE DEF x
  <2>3. CASE old[a].dib = 0
    BY <2>1, <2>2, <2>3
  <2>4. CASE old[a].dib # 0
    BY <2>1, <2>2, <2>4
  <2> QED
    BY <2>3, <2>4
<1>4. /\ Pending(st'.call) = Pending(st.call) /\ Waits(st'.call) = Waits(st.call)
      /\ Waiting(st') /\ Typed(st')
  <2>1. Waiting(st)
    BY <1>1 DEF Moving
  <2>2. Typed(st')
    BY <1>1, <1>2, <1>3 DEF Typed
  <2> QED
    BY <1>3, <2>1, <2>2 DEF Pending, Waits, Waiting
<1>5. R = {j \in 0..m-1 : j >= a /\ old[j].dib # 0} /\ S = {j \in 0..m-1 : j >= a + 1 /\ old[j].dib # 0}
  BY <1>2, <1>3 DEF Rest
<1>6. IsFiniteSet(R) /\ Cardinality(R) \in Nat
  BY <1>2, RestFinite
<1>7. /\ Agree(b, Used(b), old, R, st.want, Pending(st.call))
      /\ st.count = Cardinality(Used(b)) + Cardinality(R) /\ st.count + Waits(st.call) < Size(b)
  BY <1>1 DEF Moving
<1>8. Cardinality(Used(b)) \in Nat
  BY <1>1, UsedFinite DEF Typed, Sound
<1> HIDE DEF R, S
<1>9. CASE old[a].dib = 0
  <2>1. R = S
    BY <1>2, <1>5, <1>9
  <2>2. Moving(st')
    BY <1>3, <1>4, <1>7, <1>9, <2>1 DEF Moving, S
  <2> QED
    BY <1>4, <2>2 DEF MapOk
<1>10. CASE old[a].dib # 0
  <2>1. a \in R /\ S = R \ {a}
    BY <1>2, <1>5, <1>10
  <2>2. Cardinality(R) = Cardinality(S) + 1
    <3>1. IsFiniteSet(S) /\ a \notin S /\ R = S \union {a}
      BY <1>6, <2>1, FS_Subset
    <3> QED
      BY <3>1, FS_AddElement
  <2>3. x \in Items /\ x.dib = 1 /\ x.name = old[a].name /\ x.val = old[a].val
    <3>1. 1 \in Nat
      OBVIOUS
    <3> HIDE DEF old, a
    <3> QED
      BY <1>2, <3>1, NewDistance
  <2> HIDE DEF x
  <2>4. x.name \in Names
    BY <1>7, <2>1, <2>3 DEF Agree
  <2>5. Arriving(b, Size(b), x, At(b, x.name, 0))
    BY <1>1, <2>3, <2>4, SetOut DEF Typed, Sound
  <2>6. Held(x, b, Used(b), old, S, st.want, Pending(st.call))
    <3>1. Fresh(x.name, b, Used(b), old, S)
      BY <1>7, <2>1, <2>3 DEF Fresh, Agree, Distinct
    <3>2. x.name \notin Pending(st.call) => st.want[x.name] = x.val
      BY <1>7, <2>1, <2>3, <2>4 DEF Agree, Says
    <3>3. Distinct(b, Used(b), old, S) /\ \A j \in S : old[j].name \in Names
      BY <1>7, <2>1 DEF Agree, Distinct
    <3>4. ASSUME NEW name \in Names \ (Pending(st.call) \union {x.name})
          PROVE  Says(b, Used(b), old, S, st.want, name)
      <4>1. Says(b, Used(b), old, R, st.want, name)
        BY <1>7 DEF Agree
      <4>2. name # x.name
        OBVIOUS
      <4> QED
        BY <2>1, <2>3, <4>1, <4>2 DEF Says
    <3>5. Agree(b, Used(b), old, S, st.want, Pending(st.call) \union {x.name})
      BY <3>3, <3>4 DEF Agree
    <3> QED
      BY <3>1, <3>2, <3>5 DEF Held
  <2>7. st'.call.i = At(b, x.name, 0)
    BY <1>3, <1>10, <2>3
  <2>8. st.count = Cardinality(Used(b)) + Cardinality(S) + 1
    <3>1. Cardinality(S) \in Nat
      BY <1>6, <2>1, FS_Subset, FS_CardinalityType
    <3> QED
      BY <1>6, <1>7, <1>8, <2>2, <3>1
  <2>9. Settling(st')
    BY <1>3, <1>4, <1>7, <1>10, <2>5, <2>6, <2>7, <2>8 DEF Settling, S
  <2> QED
    BY <1>4, <2>9 DEF MapOk
<1> QED
  BY <1>2, <1>9, <1>10

(* An assignment sets out into a table with room for it.                  *)
LEMMA BeginProbe ==
  ASSUME NEW s, NEW e, Typed(s), s.call = Inserting(s.b, e), given \in [Names -> Nat],
         e \in Items, e.dib = 1, e.name \in Names, s.want[e.name] = e.val,
         NEW old, Agree(s.b, Used(s.b), old, {}, s.want, {e.name}),
         s.count = Cardinality(Used(s.b)), s.count + 1 < Size(s.b)
  PROVE  MapOk(s)
<1>1. s.call.pc = "probe" /\ s.call.e = e /\ s.call.i = At(s.b, e.name, 0) /\ Alone(s)
  BY InsertingCall, AloneCall
<1>2. s.b \in Buckets(Size(s.b)) /\ Size(s.b) \in Nat \ {0}
  BY DEF Typed, Sound
<1>3. Arriving(s.b, Size(s.b), e, At(s.b, e.name, 0))
  BY <1>2, SetOut
<1>4. ASSUME NEW p \in Used(s.b) PROVE s.b[p].dib >= 1
  <2>1. p \in 0..Size(s.b)-1 /\ s.b[p].dib # 0
    BY <1>2, SizeOf DEF Used
  <2>2. s.b[p] \in Items
    BY <1>2, <2>1 DEF Buckets
  <2>3. s.b[p].dib \in Nat
    BY <2>2 DEF Items
  <2> QED
    BY <2>1, <2>3
<1>5. Agree(s.b, Used(s.b), s.call.old, {}, s.want, {e.name})
  BY NothingLeft
<1>6. Probing(s)
  BY <1>1, <1>3, <1>4, <1>5 DEF Probing
<1> QED
  BY <1>6 DEF MapOk

(* At the end of a resize the assignment that waited goes on.             *)
LEMMA ResizedKeeps == ASSUME MapInv, Resized PROVE MapOk(st')
<1>1. Typed(st) /\ Moving(st) /\ given \in [Names -> Nat]
  BY DEF Resized, MapInv, MapOk, Between, Probing, Shifting, Moving, Settling
<1>2. /\ DOMAIN st' = {"b", "cap", "count", "call", "want"}
      /\ st'.b = st.b /\ st'.cap = st.cap /\ st'.want = st.want /\ st'.count = st.count
      /\ st'.call = IF st.call.todo.dib = 0 THEN Idle ELSE Inserting(st.b, st.call.todo)
  BY <1>1 DEF Typed, Resized
<1>3. Rest(st.call) = {}
  <2>1. /\ Size(st.call.old) \in Nat /\ st.call.old \in Buckets(Size(st.call.old))
        /\ st.call.at = Size(st.call.old)
    BY <1>1 DEF Typed, Resized
  <2>2. DOMAIN st.call.old = 0..Size(st.call.old)-1
    BY <2>1, SizeOf
  <2> QED
    BY <2>1, <2>2 DEF Rest
<1>4. st.count \in Nat /\ Size(st.b) \in Nat /\ Cardinality(Used(st.b)) \in Nat
  BY <1>1, UsedFinite DEF Typed, Sound
<1>5. st.count = Cardinality(Used(st.b)) /\ st.count + Waits(st.call) < Size(st.b)
  <2>1. Cardinality({}) = 0
    BY FS_EmptySet
  <2> QED
    BY <1>1, <1>3, <1>4, <2>1 DEF Moving
<1>6. Agree(st.b, Used(st.b), st.call.old, {}, st.want, Pending(st.call))
  BY <1>1, <1>3 DEF Moving
<1>7. CASE st.call.todo.dib = 0
  <2>1. Pending(st.call) = {} /\ Waits(st.call) = 0 /\ st'.call = Idle
    BY <1>2, <1>7 DEF Pending, Waits
  <2>2. Alone(st') /\ Typed(st')
    BY <1>1, <1>2, <2>1, IdleCall, AloneCall DEF Typed
  <2>3. Agree(st.b, Used(st.b), st'.call.old, {}, st.want, {})
    BY <1>6, <2>1, NothingLeft
  <2>4. Between(st')
    BY <1>2, <1>4, <1>5, <2>1, <2>2, <2>3, IdleCall DEF Between
  <2> QED
    BY <2>2, <2>4 DEF MapOk
<1>8. CASE st.call.todo.dib # 0
  <2>1. /\ st.call.todo.dib = 1 /\ st.call.todo.name \in Names /\ st.call.todo \in Items
        /\ st.want[st.call.todo.name] = st.call.todo.val
    BY <1>1, <1>8 DEF Moving, Waiting, Typed
  <2>2. Pending(st.call) = {st.call.todo.name} /\ Waits(st.call) = 1
    BY <1>8, <2>1 DEF Pending, Waits
  <2>3. st'.call = Inserting(st'.b, st.call.todo)
    BY <1>2, <1>8
  <2>4. Typed(st')
    BY <1>1, <1>2, <1>8, InsertingCall, IdleCall DEF Typed
  <2> QED
    BY <1>1, <1>2, <1>5, <1>6, <2>1, <2>2, <2>3, <2>4, BeginProbe
<1> QED
  BY <1>7, <1>8

(* A resize begins: nothing is in the new table yet.                      *)
LEMMA BeginResize ==
  ASSUME NEW s, NEW old, NEW todo, NEW m \in Nat \ {0}, NEW n \in Nat \ {0}, Typed(s),
         s.b = Table(n), s.call = Resizing(old, todo), old \in Buckets(m), Sound(old, m), Waiting(s),
         Agree(old, Used(old), old, {}, s.want, Pending(s.call)),
         s.count = Cardinality(Used(old)), s.count + Waits(s.call) < n
  PROVE  MapOk(s)
<1>1. s.call.pc = "move" /\ s.call.old = old /\ s.call.at = 0
  BY ResizingCall
<1>2. Rest(s.call) = Used(old) /\ Used(s.b) = {} /\ Cardinality(Used(s.b)) = 0 /\ Size(s.b) = n
  BY <1>1, RestAll, NewTable
<1>3. \A j \in Used(old) : old[j].name \in Names
  BY DEF Sound, Fits
<1>4. Agree(s.b, {}, old, Used(old), s.want, Pending(s.call))
  <2>1. Distinct(s.b, {}, old, Used(old))
    BY DEF Agree, Distinct
  <2>2. ASSUME NEW name \in Names \ Pending(s.call)
        PROVE  Says(s.b, {}, old, Used(old), s.want, name)
    <3>1. Says(old, Used(old), old, {}, s.want, name)
      BY DEF Agree
    <3> QED
      BY <3>1 DEF Says
  <2> QED
    BY <1>3, <2>1, <2>2 DEF Agree
<1>5. s.count = Cardinality(Used(s.b)) + Cardinality(Rest(s.call))
  <2>1. s.count \in Nat
    BY DEF Typed
  <2> QED
    BY <1>2, <2>1
<1>6. Moving(s)
  BY <1>1, <1>2, <1>4, <1>5 DEF Moving
<1> QED
  BY <1>6 DEF MapOk

(* Between calls.                                                          *)
LEMMA IdleState ==
  ASSUME MapInv, st.call.pc = "idle"
  PROVE  /\ Typed(st) /\ Between(st) /\ given \in [Names -> Nat]
         /\ Size(st.b) \in Nat \ {0} /\ st.b \in Buckets(Size(st.b)) /\ Sound(st.b, Size(st.b))
         /\ st.count \in Nat /\ st.count = Cardinality(Used(st.b)) /\ st.count < Size(st.b)
         /\ \A i, j \in Used(st.b) : st.b[i].name = st.b[j].name => i = j
<1>1. Typed(st) /\ Between(st) /\ given \in [Names -> Nat]
  BY DEF MapInv, MapOk, Between, Probing, Shifting, Moving, Settling
<1> QED
  BY <1>1 DEF Between, Typed, Sound, Agree, Distinct

LEMMA AssignKeeps ==
  ASSUME MapInv, NEW name \in Names, NEW val \in Values, DmmMapAssign(name, val)
  PROVE  MapOk(st')
<1> DEFINE b == st.b
           n == Size(b)
           e == [dib |-> 1, name |-> name, val |-> val]
           want == [st.want EXCEPT ![name] = val]
           full == st.count >= GrowAt(n)
<1>1. /\ Typed(st) /\ Between(st) /\ given \in [Names -> Nat] /\ n \in Nat \ {0}
      /\ b \in Buckets(n) /\ Sound(b, n) /\ st.count \in Nat
      /\ st.count = Cardinality(Used(b)) /\ st.count < n
  BY IdleState DEF DmmMapAssign
<1>2. /\ DOMAIN st' = {"b", "cap", "count", "call", "want"}
      /\ st'.cap = st.cap /\ st'.count = st.count /\ st'.want = want
      /\ st'.b = (IF full THEN Table(2 * n) ELSE b)
      /\ st'.call = IF full THEN Resizing(b, e) ELSE Inserting(b, e)
  BY <1>1 DEF Typed, DmmMapAssign
<1>3. e \in Items /\ e.dib = 1 /\ e.name = name /\ e.val = val
  BY DEF Items
<1>4. /\ want \in [Names -> Values \union {Absent}] /\ want[name] = val
      /\ \A other \in Names : other # name => want[other] = st.want[other]
  BY <1>1 DEF Typed
<1> HIDE DEF e, want
<1>5. Agree(b, Used(b), st.call.old, {}, want, {name})
  <2>1. Agree(b, Used(b), st.call.old, {}, st.want, {})
    BY <1>1 DEF Between
  <2>2. ASSUME NEW other \in Names \ {name} PROVE Says(b, Used(b), st.call.old, {}, want, other)
    <3>1. Says(b, Used(b), st.call.old, {}, st.want, other)
      BY <2>1 DEF Agree
    <3> QED
      BY <1>4, <3>1 DEF Says
  <2> QED
    BY <2>1, <2>2 DEF Agree
<1>6. CASE full
  <2>1. /\ st'.b = Table(2 * n) /\ st'.call = Resizing(b, e) /\ 2 * n \in Nat \ {0}
        /\ st.count + 1 < 2 * n
    BY <1>1, <1>2, <1>6
  <2>2. Sound(Table(2 * n), 2 * n) /\ Size(Table(2 * n)) = 2 * n
    BY <2>1, NewTable
  <2>3. /\ DOMAIN st'.call = {"pc", "e", "i", "old", "at", "todo"}
        /\ st'.call.old = b /\ st'.call.at = 0 /\ st'.call.todo = e
    BY <2>1, ResizingCall
  <2> HIDE DEF b, n
  <2>4. Typed(st')
    <3>1. Size(b) = n /\ 0 \in 0..n
      BY <1>1 DEF n
    <3> QED
      BY <1>1, <1>2, <1>3, <1>4, <2>1, <2>2, <2>3, <3>1 DEF Typed
  <2>5. Waiting(st') /\ Pending(st'.call) = {name} /\ Waits(st'.call) = 1
    BY <1>2, <1>3, <1>4, <2>3 DEF Waiting, Pending, Waits
  <2>6. Agree(b, Used(b), b, {}, st'.want, Pending(st'.call))
    BY <1>2, <1>5, <2>5, NothingLeft
  <2> QED
    BY <1>1, <1>2, <2>1, <2>4, <2>5, <2>6, BeginResize
<1>7. CASE ~full
  <2>1. st'.b = b /\ st'.call = Inserting(b, e) /\ st.count < GrowAt(n)
    <3>1. GrowAt(n) \in Int
      BY <1>1 DEF GrowAt
    <3> QED
      BY <1>1, <1>2, <1>7, <3>1
  <2>2. st.count + 1 < n
    BY <1>1, <2>1 DEF GrowAt
  <2>3. /\ DOMAIN st'.call = {"pc", "e", "i", "old", "at", "todo"}
        /\ st'.call.old = Table(0) /\ st'.call.at = 0 /\ st'.call.todo = Empty
    BY <2>1, InsertingCall
  <2> HIDE DEF b, n
  <2>4. Typed(st')
    <3>1. Size(b) = n
      BY DEF n
    <3> QED
      BY <1>1, <1>2, <1>4, <2>1, <2>3, <3>1, IdleCall DEF Typed
  <2>5. Size(st'.b) = n /\ st'.want[e.name] = e.val
    BY <1>2, <1>3, <1>4, <2>1 DEF n
  <2> QED
    BY <1>1, <1>2, <1>3, <1>5, <2>1, <2>2, <2>4, <2>5, BeginProbe
<1> QED
  BY <1>6, <1>7

LEMMA ClearKeeps == ASSUME MapInv, DmmMapClear PROVE MapOk(st')
<1> DEFINE n == Size(st.b)
           none == [name \in Names |-> Absent]
<1>1. Typed(st) /\ Between(st) /\ n \in Nat \ {0}
  BY IdleState DEF DmmMapClear
<1>2. /\ DOMAIN st' = {"b", "cap", "count", "call", "want"}
      /\ st'.b = Table(n) /\ st'.cap = n /\ st'.count = 0 /\ st'.call = st.call /\ st'.want = none
  BY <1>1 DEF Typed, DmmMapClear
<1>3. /\ Sound(Table(n), n) /\ Used(Table(n)) = {} /\ Cardinality(Used(Table(n))) = 0
      /\ Size(Table(n)) = n
  BY <1>1, NewTable
<1>4. none \in [Names -> Values \union {Absent}] /\ \A name \in Names : none[name] = Absent
  OBVIOUS
<1> HIDE DEF none
<1>5. Typed(st')
  BY <1>1, <1>2, <1>3, <1>4 DEF Typed
<1>6. Agree(Table(n), {}, st.call.old, {}, none, {})
  BY <1>4 DEF Agree, Distinct, Says
<1>7. Between(st')
  BY <1>1, <1>2, <1>3, <1>6 DEF Between, Alone
<1> QED
  BY <1>5, <1>7 DEF MapOk

LEMMA DeleteKeeps ==
  ASSUME MapInv, NEW name \in Names, Delete(name)
  PROVE  MapOk(st')
<1> DEFINE b == st.b
           n == Size(b)
           i == At(b, name, First(Hits(b, name)))
           want == [st.want EXCEPT ![name] = Absent]
<1>1. /\ Typed(st) /\ Between(st) /\ given \in [Names -> Nat] /\ n \in Nat \ {0}
      /\ b \in Buckets(n) /\ Sound(b, n) /\ st.count = Cardinality(Used(b)) /\ st.count < n
      /\ \A j, k \in Used(b) : b[j].name = b[k].name => j = k
  BY IdleState DEF Delete
<1>2. /\ DOMAIN st' = {"b", "cap", "count", "call", "want"}
      /\ st'.b = b /\ st'.cap = st.cap /\ st'.count = st.count /\ st'.want = want
      /\ st'.call = [Idle EXCEPT !.pc = "shift", !.i = i]
  BY <1>1 DEF Typed, Delete
<1>3. i \in Used(b) /\ b[i].name = name
  <2>1. Hits(b, name) # {} /\ Cardinality(Used(b)) < n
    BY <1>1 DEF Delete
  <2> HIDE DEF b, n
  <2> QED
    BY <1>1, <2>1, Lookup
<1>4. /\ want \in [Names -> Values \union {Absent}] /\ want[name] = Absent
      /\ \A other \in Names : other # name => want[other] = st.want[other]
  BY <1>1 DEF Typed
<1> HIDE DEF want, i
<1>5. /\ DOMAIN st'.call = {"pc", "e", "i", "old", "at", "todo"} /\ st'.call.pc = "shift"
      /\ st'.call.i = i /\ st'.call.old = Table(0) /\ st'.call.at = 0 /\ st'.call.todo = Empty
  BY <1>2, IdleCall
<1>6. Typed(st') /\ Alone(st')
  <2>1. Alone(st')
    BY <1>5, AloneCall
  <2>2. Typed(st')
    BY <1>1, <1>2, <1>4, <1>5, IdleCall DEF Typed
  <2> QED
    BY <2>1, <2>2
<1>7. Agree(b, Used(b) \ {i}, st'.call.old, {}, want, {})
  <2>1. Agree(b, Used(b), st.call.old, {}, st.want, {})
    BY <1>1 DEF Between
  <2>2. Distinct(b, Used(b) \ {i}, st.call.old, {})
    BY <1>1 DEF Distinct
  <2>3. ASSUME NEW other \in Names PROVE Says(b, Used(b) \ {i}, st.call.old, {}, want, other)
    <3>1. CASE other = name
      BY <1>1, <1>3, <1>4, <3>1 DEF Says
    <3>2. CASE other # name
      <4>1. Says(b, Used(b), st.call.old, {}, st.want, other)
        BY <2>1 DEF Agree
      <4> QED
        BY <1>3, <1>4, <3>2, <4>1 DEF Says
    <3> QED
      BY <3>1, <3>2
  <2>4. Agree(b, Used(b) \ {i}, st.call.old, {}, want, {})
    BY <2>2, <2>3 DEF Agree
  <2> QED
    BY <2>4, NothingLeft
<1>8. Shifting(st')
  BY <1>1, <1>2, <1>3, <1>5, <1>6, <1>7 DEF Shifting
<1> QED
  BY <1>6, <1>8 DEF MapOk

(* The state of a deletion.                                                *)
LEMMA ShiftState ==
  ASSUME MapInv, st.call.pc = "shift"
  PROVE  /\ Typed(st) /\ Shifting(st) /\ Alone(st) /\ given \in [Names -> Nat]
         /\ Size(st.b) \in Nat \ {0} /\ st.b \in Buckets(Size(st.b)) /\ Sound(st.b, Size(st.b))
         /\ DOMAIN st.b = 0..Size(st.b)-1
         /\ st.call.i \in Used(st.b) /\ st.call.i \in 0..Size(st.b)-1
         /\ After(st.b, st.call.i) = (st.call.i + 1) % Size(st.b)
         /\ After(st.b, st.call.i) \in 0..Size(st.b)-1
         /\ st.count = Cardinality(Used(st.b)) /\ st.count < Size(st.b)
         /\ st.count = Cardinality(Used(st.b) \ {st.call.i}) + 1
         /\ st.count \in Nat \ {0} /\ IsFiniteSet(Used(st.b))
         /\ Agree(st.b, Used(st.b) \ {st.call.i}, st.call.old, {}, st.want, {})
<1>1. Typed(st) /\ Shifting(st) /\ given \in [Names -> Nat]
  BY DEF MapInv, MapOk, Between, Probing, Shifting, Moving, Settling
<1>2. Size(st.b) \in Nat \ {0} /\ st.b \in Buckets(Size(st.b)) /\ Sound(st.b, Size(st.b))
  BY <1>1 DEF Typed, Sound
<1>3. DOMAIN st.b = 0..Size(st.b)-1 /\ st.call.i \in Used(st.b) /\ st.call.i \in 0..Size(st.b)-1
  BY <1>1, <1>2, SizeOf DEF Shifting, Used
<1>4. After(st.b, st.call.i) = (st.call.i + 1) % Size(st.b) /\ After(st.b, st.call.i) \in 0..Size(st.b)-1
  <2>1. st.call.i + 1 \in Nat
    BY <1>2, <1>3
  <2> QED
    BY <1>2, <2>1, InRange DEF After
<1>5. IsFiniteSet(Used(st.b)) /\ Cardinality(Used(st.b)) \in Nat
  BY <1>2, UsedFinite
<1>6. Cardinality(Used(st.b)) = Cardinality(Used(st.b) \ {st.call.i}) + 1
  <2>1. IsFiniteSet(Used(st.b) \ {st.call.i})
    BY <1>5, FS_Subset
  <2>2. Used(st.b) = (Used(st.b) \ {st.call.i}) \union {st.call.i}
    BY <1>3
  <2> QED
    BY <2>1, <2>2, FS_AddElement
<1>7. Cardinality(Used(st.b)) \in Nat \ {0}
  BY <1>3, <1>5, FS_EmptySet
<1> QED
  BY <1>1, <1>2, <1>3, <1>4, <1>5, <1>6, <1>7 DEF Shifting

LEMMA ShiftBackKeeps == ASSUME MapInv, ShiftBack PROVE MapOk(st')
<1> DEFINE b == st.b
           n == Size(b)
           i == st.call.i
           m == (i + 1) % n
           x == Nearer(b[m])
           c == [b EXCEPT ![i] = x]
<1>1. /\ Typed(st) /\ Shifting(st) /\ Alone(st) /\ given \in [Names -> Nat]
      /\ n \in Nat \ {0} /\ b \in Buckets(n) /\ Sound(b, n) /\ DOMAIN b = 0..n-1
      /\ i \in Used(b) /\ i \in 0..n-1 /\ m \in 0..n-1 /\ b[m].dib > 1
      /\ st.count = Cardinality(Used(b)) /\ st.count < n /\ st.count \in Nat \ {0}
      /\ Agree(b, Used(b) \ {i}, st.call.old, {}, st.want, {})
  BY ShiftState DEF ShiftBack
<1>2. /\ DOMAIN st' = {"b", "cap", "count", "call", "want"}
      /\ st'.b = c /\ st'.cap = st.cap /\ st'.want = st.want /\ st'.count = st.count
      /\ DOMAIN st'.call = {"pc", "e", "i", "old", "at", "todo"}
      /\ st'.call.pc = "shift" /\ st'.call.i = m
      /\ st'.call.old = st.call.old /\ st'.call.at = st.call.at /\ st'.call.todo = st.call.todo
  <2>1. st.call.pc = "shift" /\ After(st.b, st.call.i) = m
    BY ShiftState DEF ShiftBack
  <2>2. st' = [st EXCEPT !.b[i] = x, !.call.i = m]
    BY <2>1 DEF ShiftBack
  <2>3. DOMAIN st = {"b", "cap", "count", "call", "want"} /\ DOMAIN st.call = {"pc", "e", "i", "old", "at", "todo"}
    BY <1>1 DEF Typed
  <2> HIDE DEF x, m
  <2> QED
    BY <2>1, <2>2, <2>3
<1>3. m # i
  <2>1. n # 1
    BY <1>1
  <2>2. i + 1 # n => m = i + 1
    <3> HIDE DEF b, n, i
    <3>1. i + 1 # n => i + 1 \in 0..n-1
      BY <1>1
    <3> QED
      BY <1>1, <3>1, SmallRemainder DEF m
  <2>3. i + 1 = n => m = 0
    <3> HIDE DEF b, n, i
    <3>1. n = n * 1 + 0 /\ (n * 1 + 0) % n = 0
      BY <1>1, RemainderUnique
    <3> QED
      BY <3>1 DEF m
  <2> HIDE DEF b, n, i, m
  <2> QED
    BY <1>1, <2>1, <2>2, <2>3
<1>4. b[m] \in Items /\ b[m].dib \in Nat /\ m \in Used(b)
  <2> HIDE DEF b, n, i, m
  <2>1. b[m] \in Items
    BY <1>1 DEF Buckets
  <2>2. b[m].dib \in Nat
    BY <2>1 DEF Items
  <2>3. m \in Used(b)
    BY <1>1, <2>2 DEF Used
  <2> QED
    BY <2>1, <2>2, <2>3
<1>5. x \in Items /\ x.dib = b[m].dib - 1 /\ x.name = b[m].name /\ x.val = b[m].val
  <2>1. b[m].dib - 1 \in Nat
    BY <1>1, <1>4
  <2> HIDE DEF b, n, i, m
  <2> QED
    BY <1>4, <2>1, NewDistance DEF Nearer
<1>6. Sound(c, n)
  <2> HIDE DEF b, n, i
  <2> QED
    BY <1>1, BackByOne
<1> HIDE DEF b, n, i, m, x
<1>7. /\ c \in Buckets(n) /\ c[i] = x /\ \A j \in 0..n-1 : j # i => c[j] = b[j]
  BY <1>1, <1>5 DEF Buckets
<1> HIDE DEF c
<1>8. DOMAIN c = 0..n-1 /\ Size(c) = n
  BY <1>1, <1>7, SizeOf
<1>9. Used(c) = Used(b) /\ Used(b) \subseteq 0..n-1
  <2>1. x.dib # 0
    BY <1>1, <1>4, <1>5
  <2> QED
    BY <1>1, <1>7, <1>8, <2>1 DEF Used
<1>10. Agree(c, Used(c) \ {m}, st.call.old, {}, st.want, {})
  <2>1. Distinct(c, Used(c) \ {m}, st.call.old, {})
    <3>1. \A j, k \in Used(b) \ {i} : b[j].name = b[k].name => j = k
      BY <1>1 DEF Agree, Distinct
    <3>2. \A j \in Used(b) \ {i, m} : c[j] = b[j] /\ c[j].name # b[m].name
      BY <1>3, <1>4, <1>7, <1>9, <3>1
    <3>3. \A j, k \in Used(c) \ {m} : c[j].name = c[k].name => j = k
      BY <1>5, <1>7, <1>9, <3>1, <3>2
    <3> QED
      BY <3>3 DEF Distinct
  <2>2. ASSUME NEW name \in Names PROVE Says(c, Used(c) \ {m}, st.call.old, {}, st.want, name)
    <3>1. Says(b, Used(b) \ {i}, st.call.old, {}, st.want, name)
      BY <1>1 DEF Agree
    <3>2. \A j \in Used(b) \ {i, m} : c[j] = b[j]
      BY <1>7, <1>9
    <3> QED
      BY <1>1, <1>3, <1>4, <1>5, <1>7, <1>9, <3>1, <3>2 DEF Says
  <2> QED
    BY <2>1, <2>2 DEF Agree
<1>11. Alone(st')
  BY <1>1, <1>2 DEF Alone, Rest
<1>12. Typed(st')
  BY <1>1, <1>2, <1>6, <1>8 DEF Typed
<1>13. Shifting(st')
  BY <1>1, <1>2, <1>4, <1>8, <1>9, <1>10, <1>11 DEF Shifting
<1> QED
  BY <1>12, <1>13 DEF MapOk

LEMMA DeletedKeeps == ASSUME MapInv, Deleted PROVE MapOk(st')
<1> DEFINE b == st.b
           n == Size(b)
           i == st.call.i
           c == [b EXCEPT ![i] = Empty]
           left == st.count - 1
           small == n > st.cap /\ left <= ShrinkAt(n)
<1>1. /\ Typed(st) /\ Shifting(st) /\ Alone(st) /\ given \in [Names -> Nat]
      /\ n \in Nat \ {0} /\ b \in Buckets(n) /\ Sound(b, n)
      /\ i \in 0..n-1 /\ b[(i + 1) % n].dib <= 1
      /\ st.count = Cardinality(Used(b) \ {i}) + 1 /\ st.count < n /\ st.count \in Nat \ {0}
      /\ IsFiniteSet(Used(b)) /\ Agree(b, Used(b) \ {i}, st.call.old, {}, st.want, {})
  BY ShiftState DEF Deleted
<1>2. Sound(c, n) /\ Used(c) = Used(b) \ {i}
  <2> HIDE DEF b, n, i
  <2> QED
    BY <1>1, FreeHole
<1>3. c \in Buckets(n) /\ \A j \in 0..n-1 : j # i => c[j] = b[j]
  BY <1>1, <1>2 DEF Sound, Buckets
<1>4. /\ DOMAIN st' = {"b", "cap", "count", "call", "want"}
      /\ st'.cap = st.cap /\ st'.want = st.want /\ st'.count = left
      /\ st'.b = (IF small THEN Table(Size(c) \div 2) ELSE c)
      /\ st'.call = IF small THEN Resizing(c, Empty) ELSE Idle
  BY <1>1 DEF Typed, Deleted
<1> HIDE DEF b, n, i, c
<1>5. Size(c) = n
  BY <1>1, <1>3, SizeOf
<1>6. left \in Nat /\ left = Cardinality(Used(c)) /\ left < n
  <2>1. Cardinality(Used(c)) \in Nat
    BY <1>1, <1>3, UsedFinite
  <2> QED
    BY <1>1, <1>2, <2>1
<1>7. Agree(c, Used(c), st.call.old, {}, st.want, {})
  <2>1. \A j \in Used(c) : j \in Used(b) \ {i} /\ c[j] = b[j]
    <3>1. Used(b) \subseteq 0..n-1
      BY <1>1, SizeOf DEF Used
    <3> QED
      BY <1>2, <1>3, <3>1
  <2>2. Distinct(c, Used(c), st.call.old, {})
    BY <1>1, <1>2, <2>1 DEF Agree, Distinct
  <2>3. ASSUME NEW name \in Names PROVE Says(c, Used(c), st.call.old, {}, st.want, name)
    <3>1. Says(b, Used(b) \ {i}, st.call.old, {}, st.want, name)
      BY <1>1 DEF Agree
    <3> QED
      BY <1>2, <2>1, <3>1 DEF Says
  <2> QED
    BY <2>2, <2>3 DEF Agree
<1>8. CASE small
  <2>1. /\ st'.b = Table(n \div 2) /\ st'.call = Resizing(c, Empty) /\ n \div 2 \in Nat \ {0}
        /\ left < n \div 2
    <3>1. st.cap \in Nat \ {0}
      BY <1>1 DEF Typed
    <3>2. n > st.cap /\ left <= n \div 10
      BY <1>8 DEF ShrinkAt
    <3>3. n \div 2 \in Nat \ {0} /\ n \div 10 < n \div 2
      BY <1>1, <3>1, <3>2
    <3>4. n \div 10 \in Int
      BY <1>1
    <3> HIDE DEF left
    <3> QED
      BY <1>4, <1>5, <1>6, <1>8, <3>2, <3>3, <3>4
  <2>2. Sound(Table(n \div 2), n \div 2) /\ Size(Table(n \div 2)) = n \div 2
    BY <2>1, NewTable
  <2>3. /\ DOMAIN st'.call = {"pc", "e", "i", "old", "at", "todo"}
        /\ st'.call.old = c /\ st'.call.at = 0 /\ st'.call.todo = Empty
    BY <2>1, ResizingCall
  <2> HIDE DEF left
  <2>4. Typed(st')
    <3>1. 0 \in 0..n
      BY <1>1
    <3> QED
      BY <1>1, <1>3, <1>4, <1>5, <1>6, <2>1, <2>2, <2>3, <3>1, IdleCall DEF Typed
  <2>5. Waiting(st') /\ Pending(st'.call) = {} /\ Waits(st'.call) = 0
    BY <2>3, IdleCall DEF Waiting, Pending, Waits
  <2>6. Agree(c, Used(c), c, {}, st'.want, Pending(st'.call))
    BY <1>4, <1>7, <2>5, NothingLeft
  <2>7. st'.count = Cardinality(Used(c)) /\ st'.count + Waits(st'.call) < n \div 2
    BY <1>4, <1>6, <2>1, <2>5
  <2> QED
    BY <1>1, <1>2, <1>3, <2>1, <2>4, <2>5, <2>6, <2>7, BeginResize
<1>9. CASE ~small
  <2>1. st'.b = c /\ st'.call = Idle
    BY <1>4, <1>9
  <2> HIDE DEF left
  <2>2. Typed(st') /\ Alone(st')
    <3>1. Alone(st')
      BY <2>1, IdleCall, AloneCall
    <3>2. Size(st'.b) = n /\ Sound(st'.b, n) /\ st'.count \in Nat
      BY <1>2, <1>4, <1>5, <1>6, <2>1
    <3>3. st'.cap \in Nat \ {0} /\ st'.want \in [Names -> Values \union {Absent}]
      BY <1>1, <1>4 DEF Typed
    <3>4. Typed(st')
      BY <1>1, <1>4, <2>1, <3>2, <3>3, IdleCall DEF Typed
    <3> QED
      BY <3>1, <3>4
  <2>3. Agree(c, Used(c), st'.call.old, {}, st.want, {})
    BY <1>7, NothingLeft
  <2>4. Between(st')
    BY <1>4, <1>5, <1>6, <2>1, <2>2, <2>3, IdleCall DEF Between
  <2> QED
    BY <2>2, <2>4 DEF MapOk
<1> QED
  BY <1>8, <1>9

-----------------------------------------------------------------------------
(* The map between calls *)

LEMMA InitMap == Init => MapInv
<1> SUFFICES ASSUME Init PROVE MapInv
  OBVIOUS
<1> DEFINE none == [n \in Names |-> Absent]
<1>1. given \in [Names -> Nat]
  BY HashAssumption DEF Init
<1>2. /\ DOMAIN st = {"b", "cap", "count", "call", "want"}
      /\ st.b = Table(MinCap) /\ st.cap = MinCap /\ st.count = 0 /\ st.call = Idle /\ st.want = none
  BY DEF Init
<1>3. none \in [Names -> Values \union {Absent}] /\ \A name \in Names : none[name] = Absent
  OBVIOUS
<1> HIDE DEF none
<1>4. /\ Sound(st.b, MinCap) /\ Used(st.b) = {} /\ Cardinality(Used(st.b)) = 0 /\ Size(st.b) = MinCap
      /\ MinCap \in Nat \ {0}
  BY <1>2, NewTable, MinCapAssumption
<1>5. Typed(st)
  BY <1>2, <1>3, <1>4, IdleCall DEF Typed
<1>6. Agree(st.b, {}, st.call.old, {}, none, {})
  BY <1>3 DEF Agree, Distinct, Says
<1>7. Alone(st)
  BY <1>2, IdleCall, AloneCall
<1>8. Between(st)
  BY <1>2, <1>4, <1>6, <1>7, IdleCall DEF Between
<1> QED
  BY <1>1, <1>5, <1>8 DEF MapInv, MapOk

LEMMA NextState ==
  ASSUME MapInv, given' = given, MapOk(st')
  PROVE  MapInv'
<1>1. MapOk(st)'
  BY DEF MapOk, Typed, Between, Probing, Shifting, Moving, Settling, Arriving, Sound, Fits,
     Climbs, Buckets, Items, Used, Alone, Agree, Distinct, Says, Held, Fresh, Rest, Pending, Waits,
     Waiting, Size
<1> QED
  BY <1>1 DEF MapInv

LEMMA NextKeeps == MapInv /\ Next => MapInv'
<1> SUFFICES ASSUME MapInv, Next PROVE MapInv'
  OBVIOUS
<1>1. MapOk(st')
  BY AssignKeeps, DeleteKeeps, PlaceKeeps, ReplaceKeeps, PushAsideKeeps, GoOnKeeps, MoveNextKeeps,
     ResizedKeeps, ShiftBackKeeps, DeletedKeeps, ClearKeeps DEF Next
<1> QED
  BY <1>1, NextState DEF Next

LEMMA StutterKeeps == MapInv /\ UNCHANGED <<given, st>> => MapInv'
<1> SUFFICES ASSUME MapInv, UNCHANGED <<given, st>> PROVE MapInv'
  OBVIOUS
<1>1. given' = given /\ st' = st
  OBVIOUS
<1>2. MapOk(st')
  BY <1>1 DEF MapInv
<1> QED
  BY <1>1, <1>2, NextState

LEMMA MapInvExact == MapInv => FetchIsLastAssigned /\ NoSecondCopy
<1> SUFFICES ASSUME MapInv, st.call.pc = "idle" PROVE FetchIsLastAssigned /\ NoSecondCopy
  BY DEF FetchIsLastAssigned, NoSecondCopy
<1> DEFINE b == st.b
           n == Size(b)
<1>1. /\ Between(st) /\ given \in [Names -> Nat] /\ n \in Nat \ {0} /\ b \in Buckets(n) /\ Sound(b, n)
      /\ st.count = Cardinality(Used(b)) /\ st.count < n
      /\ \A i, j \in Used(b) : b[i].name = b[j].name => i = j
  BY IdleState
<1>2. NoSecondCopy
  BY <1>1 DEF NoSecondCopy, Used
<1>3. ASSUME NEW name \in Names PROVE DmmMapFetch(name) = st.want[name]
  <2>1. Says(b, Used(b), st.call.old, {}, st.want, name)
    BY <1>1 DEF Between, Agree
  <2>2. /\ Hits(b, name) = {} <=> \A i \in Used(b) : b[i].name # name
        /\ Hits(b, name) # {} =>
              LET i == At(b, name, First(Hits(b, name))) IN i \in Used(b) /\ b[i].name = name
    <3>1. Cardinality(Used(b)) < n
      BY <1>1
    <3> HIDE DEF b, n
    <3> QED
      BY <1>1, <3>1, Lookup
  <2>3. CASE Hits(b, name) = {}
    BY <2>1, <2>2, <2>3 DEF DmmMapFetch, Says
  <2>4. CASE Hits(b, name) # {}
    BY <2>1, <2>2, <2>4 DEF DmmMapFetch, Says
  <2> QED
    BY <2>3, <2>4
<1> QED
  BY <1>2, <1>3 DEF FetchIsLastAssigned

(* The symbol map is a map, for any hash function, names, values and least *)
(* capacity: a name fetches what it was last assigned, no name is kept     *)
(* twice, and the table counts its items and is never full                 *)
(* (thrdUnsafeHash/hashmap.c:270, slicehash.c).                            *)
THEOREM TableIsMap == Spec => [](FetchIsLastAssigned /\ NoSecondCopy)
<1>1. MapInv /\ [Next]_<<given, st>> => MapInv'
  BY NextKeeps, StutterKeeps
<1> QED
  BY <1>1, InitMap, MapInvExact, PTL DEF Spec

(* So it is beside the two interpreters, in the run's specification.       *)
THEOREM SymbolMap == SimSpec => []MapIsExact
<1> DEFINE I == part = "map" => MapInv
<1>1. SimInit => I
  BY InitMap DEF SimInit
<1>2. I /\ [SimNext]_<<part, given, st>> => I'
  <2> SUFFICES ASSUME I, [SimNext]_<<part, given, st>>, part' = "map" PROVE MapInv'
    OBVIOUS
  <2>1. part = "map" /\ MapInv
    BY DEF SimNext
  <2>2. Next \/ UNCHANGED <<given, st>>
    BY <2>1 DEF SimNext
  <2> QED
    BY <2>1, <2>2, NextKeeps, StutterKeeps
<1>3. I => MapIsExact
  BY MapInvExact DEF MapIsExact
<1> QED
  BY <1>1, <1>2, <1>3, PTL DEF SimSpec

=============================================================================
