------------------------------ MODULE TimingProofs ------------------------------
(***************************************************************************)
(* The timing model of a DPU for any number of tasklets, any instructions, *)
(* any transfers and any clock constants: the issue logic under every      *)
(* answer of the memory, the memory under every request, then both.        *)
(***************************************************************************)
EXTENDS MCTiming, FiniteSetTheorems, SequenceTheorems, WellFoundedInduction, TLAPS

-----------------------------------------------------------------------------
(* The issue logic *)

(* The scan never leaves the tasklets; the time at a tasklet's shifted     *)
(* index is never ahead of the cycles since its last issue; who waits for  *)
(* a transfer has its run bit set.                                         *)
IssueInv ==
  /\ nrTasklets \in Nat \ {0}
  /\ running \subseteq Ids
  /\ blocked \subseteq running
  /\ lastIssue \in Ids
  /\ age \in [Ids -> 0 .. NrRevolveCycle]
  /\ since \in [Ids -> 0 .. NrRevolveCycle]
  /\ \A t \in Ids : age[Entry(t)] <= since[t]

(* The shifted index of timing.c:112 stays in the array.                    *)
LEMMA EntryType == ASSUME nrTasklets \in Nat \ {0}, NEW t \in Ids PROVE Entry(t) \in Ids
BY DEF Entry, Ids

(* A program that has been loaded (RvDpuInit, UmmDpuInit) starts so.       *)
LEMMA IssueInit == Init => IssueInv
<1> SUFFICES ASSUME Init PROVE IssueInv
  OBVIOUS
<1>1. nrTasklets \in Nat \ {0} /\ NrRevolveCycle \in Nat
  BY IssueAssumption DEF Init
<1>2. 0 \in Ids
  BY <1>1 DEF Ids
<1>3. running \subseteq Ids /\ blocked \subseteq running /\ lastIssue \in Ids
  BY <1>2 DEF Init, Started
<1>4. /\ age \in [Ids -> 0 .. NrRevolveCycle]
      /\ since \in [Ids -> 0 .. NrRevolveCycle]
      /\ \A t \in Ids : age[Entry(t)] <= since[t]
  BY <1>1, EntryType DEF Init
<1> QED
  BY <1>1, <1>3, <1>4 DEF IssueInv

(* One cycle later, wherever the scan stops.                               *)
LEMMA Ageing ==
  ASSUME IssueInv
  PROVE  /\ Aged \in [Ids -> 0 .. NrRevolveCycle]
         /\ \A t \in Ids : Older(t) \in 0 .. NrRevolveCycle /\ Aged[Entry(t)] <= Older(t)
         /\ \A t \in Ids : MayIssue(t) => since[t] + 1 >= NrRevolveCycle
<1> USE IssueAssumption DEF IssueInv, Aged, Older, LimitTo
<1>1. Aged \in [Ids -> 0 .. NrRevolveCycle]
  OBVIOUS
<1>2. ASSUME NEW t \in Ids
      PROVE  /\ Older(t) \in 0 .. NrRevolveCycle /\ Aged[Entry(t)] <= Older(t)
             /\ MayIssue(t) => since[t] + 1 >= NrRevolveCycle
  <2>1. Entry(t) \in Ids
    BY EntryType
  <2>2. age[Entry(t)] \in 0 .. NrRevolveCycle /\ since[t] \in 0 .. NrRevolveCycle
          /\ age[Entry(t)] <= since[t]
    BY <2>1
  <2> QED
    BY <2>1, <2>2 DEF MayIssue
<1> QED
  BY <1>1, <1>2

(* Whoever is issued may be issued: it is running and waits for nothing.   *)
LEMMA ChosenOne ==
  ASSUME IssueInv, NEW t \in Ids, Chosen(t)
  PROVE  MayIssue(t) /\ t \in running /\ t \notin blocked
BY DEF Chosen, MayIssue

(* A cycle or a launch keeps the invariant, and issues nobody too early.   *)
LEMMA IssueNext == IssueInv /\ [Next]_vars => IssueInv' /\ [RevolverKept]_vars
<1> SUFFICES ASSUME IssueInv, [Next]_vars PROVE IssueInv' /\ [RevolverKept]_vars
  OBVIOUS
<1>1. nrTasklets' = nrTasklets /\ Ids' = Ids /\ \A t \in Ids : Entry(t)' = Entry(t)
  BY DEF Next, Cycle, Issue, NoIssue, Launch, vars, Ids, Entry
<1>2. nrTasklets \in Nat \ {0} /\ NrRevolveCycle \in Nat
  BY IssueAssumption DEF IssueInv
<1>3. ASSUME NEW t \in Ids, NEW freed \in SUBSET blocked, Issue(t, freed)
      PROVE  IssueInv' /\ RevolverKept
  <2>1. MayIssue(t) /\ t \in running /\ t \notin blocked
    BY <1>3, ChosenOne DEF Issue
  <2>2. running' \subseteq Ids /\ blocked' \subseteq running'
    BY <1>3, <2>1 DEF Issue, Execute, Effect, IssueInv
  <2>3. lastIssue' \in Ids
    BY <1>2, <1>3 DEF Issue, ScanAfter, Ids
  <2>4. Entry(t) \in Ids
    BY <1>2, EntryType
  <2>5. age' \in [Ids -> 0 .. NrRevolveCycle] /\ since' \in [Ids -> 0 .. NrRevolveCycle]
    BY <1>2, <1>3, <2>4, Ageing DEF Issue, MarkIssued
  <2>6. \A u \in Ids : age'[Entry(u)] <= since'[u]
    <3> SUFFICES ASSUME NEW u \in Ids PROVE age'[Entry(u)] <= since'[u]
      OBVIOUS
    <3>1. Entry(u) \in Ids
      BY <1>2, EntryType
    <3>2. since'[u] = IF u = t THEN 0 ELSE Older(u)
      BY <1>3 DEF Issue
    <3>3. age'[Entry(u)] = IF Entry(u) = Entry(t) THEN 0 ELSE Aged[Entry(u)]
      BY <1>3, <3>1, Ageing DEF Issue, MarkIssued
    <3> QED
      BY <3>1, <3>2, <3>3, Ageing
  <2>7. RevolverKept
    <3> SUFFICES ASSUME NEW u \in Ids, since'[u] = 0 PROVE since[u] + 1 >= NrRevolveCycle
      BY DEF RevolverKept, Issues
    <3>1. CASE u = t
      BY <2>1, <3>1, Ageing
    <3>2. CASE u # t
      BY <1>2, <1>3, <3>2 DEF Issue, Older, LimitTo, IssueInv
    <3> QED
      BY <3>1, <3>2
  <2> QED
    BY <1>1, <1>2, <2>2, <2>3, <2>5, <2>6, <2>7 DEF IssueInv
<1>4. ASSUME NEW freed \in SUBSET blocked, NoIssue(freed)
      PROVE  IssueInv' /\ RevolverKept
  <2>1. running' \subseteq Ids /\ blocked' \subseteq running' /\ lastIssue' \in Ids
    BY <1>4 DEF NoIssue, IssueInv
  <2>2. age' = Aged /\ \A u \in Ids : since'[u] = Older(u)
    BY <1>4 DEF NoIssue
  <2>3. age' \in [Ids -> 0 .. NrRevolveCycle] /\ since' \in [Ids -> 0 .. NrRevolveCycle]
    BY <1>4, <2>2, Ageing DEF NoIssue
  <2>4. RevolverKept
    <3> SUFFICES ASSUME NEW u \in Ids, since'[u] = 0 PROVE since[u] + 1 >= NrRevolveCycle
      BY DEF RevolverKept, Issues
    <3> QED
      BY <1>2, <2>2 DEF Older, LimitTo, IssueInv
  <2> QED
    BY <1>1, <1>2, <2>1, <2>2, <2>3, <2>4, Ageing DEF IssueInv
<1>5. CASE Launch
  <2>1. running' \subseteq Ids
    BY <1>2, <1>5 DEF Launch, Started, Ids
  <2>2. blocked' = {}
    BY <1>5 DEF Launch, Stopped, IssueInv
  <2>3. RevolverKept
    BY <1>5 DEF Launch, RevolverKept, Issues
  <2> QED
    BY <1>1, <1>5, <2>1, <2>2, <2>3 DEF Launch, IssueInv
<1>6. CASE UNCHANGED vars
  BY <1>1, <1>2, <1>6 DEF vars, IssueInv
<1>7. CASE Cycle
  BY <1>3, <1>4, <1>7 DEF Cycle
<1> QED
  BY <1>5, <1>6, <1>7 DEF Next

(* Hence the invariant holds throughout.                                   *)
LEMMA IssueAlways == Spec => []IssueInv
BY IssueInit, IssueNext, PTL DEF Spec

(* For any number of tasklets and any instructions: when the last run bit  *)
(* is cleared no tasklet waits for a transfer, so that the launch that     *)
(* clears Csr[31] (rvisa/processor.c:25) forgets nobody.                   *)
THEOREM NoneOutstanding == Spec => []NothingOutstanding
<1>1. IssueInv => NothingOutstanding
  BY DEF IssueInv, NothingOutstanding, Stopped
<1> QED
  BY <1>1, IssueAlways, PTL

(* For any pipeline length and any NrRevolveCycle: two instructions of a   *)
(* tasklet are that many cycles apart, although lastRunAt is read and      *)
(* written behind the tasklet's own index (rvisa/timing.c:110, 126).       *)
THEOREM Revolves == Spec => RevolveRule
BY IssueInit, IssueNext, PTL DEF Spec, RevolveRule

-----------------------------------------------------------------------------
(* Commands in sequences *)

Cmd == [thread : Threads, row : Int]

(* A set of positions is finite.                                           *)
LEMMA IndexSet ==
  ASSUME NEW n \in Nat, NEW A \in SUBSET (1 .. n)
  PROVE  IsFiniteSet(A) /\ Cardinality(A) \in Nat
<1>1. IsFiniteSet(1 .. n)
  BY FS_Interval
<1> QED
  BY <1>1, FS_Subset, FS_CardinalityType

(* Taking one element out of a sequence takes one off its thread's count,  *)
(* in whatever order the others are left.                                  *)
LEMMA CountWithout ==
  ASSUME NEW s \in Seq(Cmd), NEW r \in Seq(Cmd), NEW p \in 1 .. Len(s),
         NEW g \in [1 .. Len(r) -> (1 .. Len(s)) \ {p}],
         \A i, j \in 1 .. Len(r) : g[i] = g[j] => i = j,
         \A i \in (1 .. Len(s)) \ {p} : \E j \in 1 .. Len(r) : g[j] = i,
         \A j \in 1 .. Len(r) : r[j] = s[g[j]],
         NEW t
  PROVE  Count(r, t) \in Nat /\ Count(s, t) = Count(r, t) + Here(s[p], t)
<1> DEFINE A == {i \in 1 .. Len(s) : s[i].thread = t}
           B == {i \in 1 .. Len(r) : r[i].thread = t}
           h == [j \in B |-> g[j]]
<1>0. Len(s) \in Nat /\ Len(r) \in Nat
  BY LenProperties
<1>1. IsFiniteSet(A) /\ IsFiniteSet(B)
  BY <1>0, IndexSet
<1>2. h \in Bijection(B, A \ {p})
  <2>1. h \in [B -> A \ {p}]
    OBVIOUS
  <2>2. \A i, j \in B : h[i] = h[j] => i = j
    OBVIOUS
  <2>3. ASSUME NEW i \in A \ {p} PROVE \E j \in B : h[j] = i
    <3>1. PICK j \in 1 .. Len(r) : g[j] = i
      OBVIOUS
    <3>2. j \in B /\ h[j] = i
      BY <3>1
    <3> QED
      BY <3>2
  <2> QED
    BY <2>1, <2>2, <2>3 DEF Bijection, Injection, Surjection, IsInjective
<1>3. Cardinality(A \ {p}) = Cardinality(B)
  BY <1>1, <1>2, FS_Bijection DEF ExistsBijection
<1>4. Cardinality(A \ {p}) = IF p \in A THEN Cardinality(A) - 1 ELSE Cardinality(A)
  BY <1>1, FS_RemoveElement
<1>5. Cardinality(A) \in Nat /\ Cardinality(B) \in Nat
  BY <1>1, FS_CardinalityType
<1>6. s[p] # None /\ (p \in A <=> s[p].thread = t)
  <2>1. s[p] \in Cmd
    BY ElementOfSeq
  <2> QED
    BY <2>1, NoneAssumption DEF Cmd
<1>7. Count(s, t) = Cardinality(A) /\ Count(r, t) = Cardinality(B)
  BY DEF Count
<1> QED
  BY <1>3, <1>4, <1>5, <1>6, <1>7 DEF Here

(* One command more at the end of the ready queue.                         *)
LEMMA CountAppend ==
  ASSUME NEW s \in Seq(Cmd), NEW c \in Cmd, NEW t
  PROVE  Append(s, c) \in Seq(Cmd) /\ Count(Append(s, c), t) = Count(s, t) + Here(c, t)
<1> DEFINE g == [i \in 1 .. Len(s) |-> i]
<1>1. PICK a \in Seq(Cmd) :
        /\ a = Append(s, c) /\ Len(a) = Len(s) + 1 /\ a[Len(a)] = c
        /\ \A i \in 1 .. Len(s) : a[i] = s[i]
  <2>1. /\ Append(s, c) \in Seq(Cmd) /\ Len(Append(s, c)) = Len(s) + 1
        /\ Append(s, c)[Len(s) + 1] = c
        /\ \A i \in 1 .. Len(s) : Append(s, c)[i] = s[i]
    BY AppendProperties
  <2> QED
    BY <2>1
<1>2. Len(s) \in Nat
  BY LenProperties
<1>3. Len(a) \in 1 .. Len(a) /\ 1 .. Len(s) = (1 .. Len(a)) \ {Len(a)}
  BY <1>1, <1>2
<1>4. g \in [1 .. Len(s) -> (1 .. Len(a)) \ {Len(a)}]
  BY <1>3
<1>5. /\ \A i, j \in 1 .. Len(s) : g[i] = g[j] => i = j
      /\ \A i \in (1 .. Len(a)) \ {Len(a)} : \E j \in 1 .. Len(s) : g[j] = i
      /\ \A j \in 1 .. Len(s) : s[j] = a[g[j]]
  BY <1>1, <1>3
<1> HIDE DEF g
<1>6. Count(a, t) = Count(s, t) + Here(a[Len(a)], t)
  BY <1>3, <1>4, <1>5, CountWithout
<1> QED
  BY <1>1, <1>6

(* One command less at its head.                                           *)
LEMMA CountTail ==
  ASSUME NEW s \in Seq(Cmd), s # <<>>, NEW t
  PROVE  /\ Tail(s) \in Seq(Cmd) /\ Head(s) \in Cmd
         /\ Count(s, t) = Count(Tail(s), t) + Here(Head(s), t)
<1>1. PICK r \in Seq(Cmd) :
        /\ r = Tail(s) /\ Len(r) = Len(s) - 1
        /\ \A i \in 1 .. Len(r) : r[i] = s[i + 1]
  BY HeadTailProperties
<1>2. PICK p \in 1 .. Len(s) : p = 1
  BY EmptySeq, LenProperties
<1>3. Len(s) \in Nat \ {0} /\ Head(s) = s[p] /\ s[p] \in Cmd
  BY <1>2, HeadTailProperties, EmptySeq, LenProperties, ElementOfSeq
<1> DEFINE g == [i \in 1 .. Len(r) |-> i + 1]
<1>4. g \in [1 .. Len(r) -> (1 .. Len(s)) \ {p}]
  BY <1>1, <1>2, <1>3
<1>5. \A i \in (1 .. Len(s)) \ {p} : g[i - 1] = i /\ i - 1 \in 1 .. Len(r)
  BY <1>1, <1>2, <1>3
<1>6. /\ \A i, j \in 1 .. Len(r) : g[i] = g[j] => i = j
      /\ \A i \in (1 .. Len(s)) \ {p} : \E j \in 1 .. Len(r) : g[j] = i
      /\ \A j \in 1 .. Len(r) : r[j] = s[g[j]]
  BY <1>1, <1>2, <1>3, <1>5
<1> HIDE DEF g
<1>7. Count(s, t) = Count(r, t) + Here(s[p], t)
  BY <1>4, <1>6, CountWithout, SMTT(40)
<1> QED
  BY <1>1, <1>3, <1>7

(* What is left of a sequence without its last element.                    *)
LEMMA FrontProperties ==
  ASSUME NEW S, NEW s \in Seq(S), s # <<>>
  PROVE  /\ Front(s) \in Seq(S) /\ Len(Front(s)) = Len(s) - 1
         /\ \A i \in 1 .. Len(s) - 1 : Front(s)[i] = s[i]
<1>1. PICK a \in Int, b \in Int : a = 1 /\ b = Len(s) - 1
  BY LenProperties
<1>2. \A i \in a .. b : s[i] \in S
  BY <1>1, LenProperties, ElementOfSeq
<1>3. /\ SubSeq(s, a, b) \in Seq(S)
      /\ Len(SubSeq(s, a, b)) = IF a <= b THEN b - a + 1 ELSE 0
      /\ \A i \in 1 .. b - a + 1 : SubSeq(s, a, b)[i] = s[a + i - 1]
  BY <1>2, SubSeqProperties
<1>4. Len(s) \in Nat \ {0} /\ Front(s) = SubSeq(s, a, b)
  BY <1>1, LenProperties, EmptySeq DEF Front
<1> QED
  BY <1>1, <1>3, <1>4

(* _rm takes out exactly the command at p and keeps all the others.        *)
LEMMA CountTakeOut ==
  ASSUME NEW s \in Seq(Cmd), NEW p \in 1 .. Len(s), NEW t
  PROVE  /\ TakeOut(s, p) \in Seq(Cmd) /\ s[p] \in Cmd
         /\ Count(s, t) = Count(TakeOut(s, p), t) + Here(s[p], t)
<1> DEFINE to(i) == IF p = Len(s) THEN i ELSE IF i + 1 = p THEN 1 ELSE i + 1
<1>1. /\ Len(s) \in Nat \ {0} /\ s[p] \in Cmd
      /\ s # <<>> /\ Head(s) = s[1] /\ s[1] \in Cmd
  BY LenProperties, ElementOfSeq, HeadTailProperties
<1>2. PICK r \in Seq(Cmd) :
        /\ r = TakeOut(s, p) /\ Len(r) = Len(s) - 1
        /\ \A i \in 1 .. Len(r) : r[i] = s[to(i)]
  <2>1. CASE p = Len(s)
    <3>1. TakeOut(s, p) = Front(s)
      BY <2>1 DEF TakeOut
    <3>2. /\ Front(s) \in Seq(Cmd) /\ Len(Front(s)) = Len(s) - 1
          /\ \A i \in 1 .. Len(s) - 1 : Front(s)[i] = s[i]
      BY <1>1, FrontProperties
    <3> QED
      BY <2>1, <3>1, <3>2
  <2>2. CASE p # Len(s)
    <3> DEFINE e == [s EXCEPT ![p] = Head(s)]
    <3>1. e \in Seq(Cmd) /\ Len(e) = Len(s) /\ \A i \in 1 .. Len(s) : e[i] = IF i = p THEN s[1] ELSE s[i]
      BY <1>1, ExceptSeq
    <3>2. TakeOut(s, p) = Tail(e)
      BY <2>2 DEF TakeOut
    <3> HIDE DEF e
    <3>3. e # <<>>
      BY <1>1, <3>1
    <3>4. Tail(e) \in Seq(Cmd) /\ Len(Tail(e)) = Len(e) - 1 /\ \A i \in 1 .. Len(Tail(e)) : Tail(e)[i] = e[i + 1]
      BY <3>1, <3>3, HeadTailProperties
    <3>5. \A i \in 1 .. Len(Tail(e)) : Tail(e)[i] = s[to(i)]
      BY <1>1, <2>2, <3>1, <3>4
    <3> QED
      BY <3>1, <3>2, <3>4, <3>5
  <2> QED
    BY <2>1, <2>2
<1> DEFINE g == [i \in 1 .. Len(r) |-> to(i)]
<1>3. g \in [1 .. Len(r) -> (1 .. Len(s)) \ {p}]
  BY <1>1, <1>2
<1>4. \A i, j \in 1 .. Len(r) : g[i] = g[j] => i = j
  BY <1>1, <1>2
<1>5. \A i \in (1 .. Len(s)) \ {p} : \E j \in 1 .. Len(r) : g[j] = i
  <2> SUFFICES ASSUME NEW i \in (1 .. Len(s)) \ {p} PROVE \E j \in 1 .. Len(r) : g[j] = i
    OBVIOUS
  <2>1. CASE p = Len(s)
    BY <1>1, <1>2, <2>1
  <2>2. CASE p # Len(s) /\ i = 1
    <3>1. p - 1 \in 1 .. Len(r) /\ g[p - 1] = i
      BY <1>1, <1>2, <2>2
    <3> QED
      BY <3>1
  <2>3. CASE p # Len(s) /\ i # 1
    <3>1. i - 1 \in 1 .. Len(r) /\ g[i - 1] = i
      BY <1>1, <1>2, <2>3
    <3> QED
      BY <3>1
  <2> QED
    BY <2>1, <2>2, <2>3
<1>6. \A j \in 1 .. Len(r) : r[j] = s[g[j]]
  BY <1>2
<1> HIDE DEF g
<1>7. Count(s, t) = Count(r, t) + Here(s[p], t)
  BY <1>3, <1>4, <1>5, <1>6, CountWithout
<1> QED
  BY <1>1, <1>2, <1>7

(* Counts are numbers.                                                     *)
LEMMA CountNat == ASSUME NEW s \in Seq(Cmd), NEW t PROVE Count(s, t) \in Nat
BY IndexSet, LenProperties DEF Count

(* What one DmmMramTimingPush adds: commands of one thread only.           *)
AllOf(c, u) == \A i \in 1 .. Len(c) : c[i].thread = u

(* A push adds all its commands to the one that asks.                      *)
LEMMA CountConcat ==
  ASSUME NEW s \in Seq(Cmd), NEW c \in Seq(Cmd), NEW u, AllOf(c, u), NEW t
  PROVE  s \o c \in Seq(Cmd) /\ Count(s \o c, t) = Count(s, t) + (IF t = u THEN Len(c) ELSE 0)
<1> DEFINE n == Len(s)
           m == Len(c)
           A == {i \in 1 .. n : s[i].thread = t}
           B == IF t = u THEN n + 1 .. n + m ELSE {}
<1>1. /\ s \o c \in Seq(Cmd) /\ Len(s \o c) = n + m /\ n \in Nat /\ m \in Nat
      /\ \A i \in 1 .. n + m : (s \o c)[i] = IF i <= n THEN s[i] ELSE c[i - n]
  BY ConcatProperties, LenProperties
<1>2. {i \in 1 .. Len(s \o c) : (s \o c)[i].thread = t} = A \cup B
  BY <1>1 DEF AllOf
<1>3. IsFiniteSet(A) /\ IsFiniteSet(B) /\ Cardinality(B) = IF t = u THEN m ELSE 0
  <2>1. IsFiniteSet(A)
    BY <1>1, IndexSet
  <2>2. IsFiniteSet(n + 1 .. n + m) /\ Cardinality(n + 1 .. n + m) = m
    <3> HIDE DEF n, m
    <3>1. \A a, b \in Int : /\ IsFiniteSet(a .. b)
                            /\ Cardinality(a .. b) = IF a > b THEN 0 ELSE b - a + 1
      BY FS_Interval
    <3>2. PICK a \in Int, b \in Int : a = n + 1 /\ b = n + m
      BY <1>1
    <3>3. IsFiniteSet(a .. b) /\ Cardinality(a .. b) = IF a > b THEN 0 ELSE b - a + 1
      BY <3>1
    <3>4. (IF a > b THEN 0 ELSE b - a + 1) = m
      BY <1>1, <3>2
    <3> QED
      BY <3>2, <3>3, <3>4
  <2> QED
    BY <2>1, <2>2, FS_EmptySet
<1>4. A \cap B = {}
  BY <1>1
<1>5. Cardinality(A \cup B) = Cardinality(A) + Cardinality(B)
  <2> HIDE DEF A, B
  <2>1. Cardinality(A \cup B) = Cardinality(A) + Cardinality(B) - Cardinality({})
    BY <1>3, <1>4, FS_Union
  <2>2. Cardinality(A) \in Nat /\ Cardinality(B) \in Nat
    BY <1>3, FS_CardinalityType
  <2> QED
    BY <2>1, <2>2, FS_EmptySet
<1> QED
  BY <1>1, <1>2, <1>3, <1>5 DEF Count

-----------------------------------------------------------------------------
(* What holds of the memory, as predicates on its record *)

Slot == Cmd \cup {None}

(* The fields of DmmMramTiming.                                            *)
Types(m) ==
  m \in [rob : Seq(Cmd), readyQ : Seq(Cmd), scheRow : Int \cup {None}, row : Int \cup {None},
         in : Slot, io : Slot, bus : Slot, prechSince : Nat, ioSince : Nat, busSince : Nat,
         waitIds : Seq(Threads), ackLeft : [Threads -> Int], readyId : Threads \cup {None}]

(* A burst occupies the bus for the TBl cycles after it was put there.     *)
BusTimed(m) == IF m.bus # None THEN m.busSince \in 1 .. TBl ELSE m.busSince > TBl

(* A thread waits for exactly the commands that are on their way.          *)
Counted(m) == \A t \in Threads : m.ackLeft[t] = Pending(m, t)

(* The command in the I/O slot reads the open row, and is put on the bus   *)
(* as soon as TCl cycles are over: the bus, taken before it, is free then. *)
ReadTimed(m) ==
  m.io # None => /\ m.io.row = m.row
                 /\ m.ioSince <= TCl
                 /\ m.ioSince <= m.busSince \/ m.busSince > TBl

Waits(m, t) == \E i \in 1 .. Len(m.waitIds) : m.waitIds[i] = t

(* WaitIds names each waiting thread once, all of them blocked, none the   *)
(* one that is reported; who has commands on their way is among them.      *)
Listed(m, b) ==
  /\ \A i, j \in 1 .. Len(m.waitIds) : m.waitIds[i] = m.waitIds[j] => i = j
  /\ \A t \in Threads : Waits(m, t) => t \in b /\ t # m.readyId
  /\ m.readyId # None => m.readyId \in b
  /\ \A t \in Threads : m.ackLeft[t] # 0 => Waits(m, t)

(* Whoever is blocked waits or is reported.                                *)
Kept(m, b) == \A t \in Threads : t \in b => Waits(m, t) \/ m.readyId = t

(* One transfer at most has been acknowledged but not reported, and that   *)
(* in the cycle after the bus has become free; a report is younger than    *)
(* the bus's last burst, or older than the next acknowledgement.           *)
ReportTimed(m, left) ==
  /\ m.readyId # None => m.busSince > TBl + 1 \/ m.busSince <= MemPerLogic - left
  /\ \A t, u \in Threads : Waits(m, t) /\ m.ackLeft[t] = 0 =>
       /\ m.busSince = TBl + 1
       /\ Waits(m, u) /\ m.ackLeft[u] = 0 => t = u

(* What the parts of a cycle leave alone.                                  *)
SameWaiting(m, n) == n.waitIds = m.waitIds /\ n.ackLeft = m.ackLeft /\ n.readyId = m.readyId
SameSlots(m, n) ==
  n.row = m.row /\ n.io = m.io /\ n.bus = m.bus /\ n.ioSince = m.ioSince /\ n.busSince = m.busSince
SamePending(m, n) == \A t \in Threads : Pending(n, t) = Pending(m, t)

(* An empty slot holds nobody's command.                                   *)
LEMMA HereNone == ASSUME NEW t PROVE Here(None, t) = 0
BY DEF Here

(* The terms of Pending are numbers, those of the slots 0 or 1.            *)
LEMMA PendingNat ==
  ASSUME NEW m, Types(m), NEW t
  PROVE  /\ Count(m.rob, t) \in Nat /\ Count(m.readyQ, t) \in Nat
         /\ Here(m.in, t) \in {0, 1} /\ Here(m.io, t) \in {0, 1} /\ Here(m.bus, t) \in {0, 1}
<1>1. m.rob \in Seq(Cmd) /\ m.readyQ \in Seq(Cmd)
  BY DEF Types
<1>2. Count(m.rob, t) \in Nat /\ Count(m.readyQ, t) \in Nat
  BY <1>1, CountNat
<1> QED
  BY <1>2 DEF Here

(* From the ready queue into the row buffer: mramTiming.c:165.             *)
LEMMA TakingIn ==
  ASSUME NEW m, Types(m)
  PROVE  /\ Types(TakeIn(m)) /\ SameWaiting(m, TakeIn(m)) /\ SameSlots(m, TakeIn(m))
         /\ SamePending(m, TakeIn(m))
<1> DEFINE n == TakeIn(m)
<1>1. CASE m.in = None /\ m.readyQ # <<>>
  <2>1. n = [m EXCEPT !.in = Head(m.readyQ), !.readyQ = Tail(@)]
    BY <1>1 DEF TakeIn
  <2>2. m.readyQ \in Seq(Cmd)
    BY DEF Types
  <2>3. /\ Tail(m.readyQ) \in Seq(Cmd) /\ Head(m.readyQ) \in Cmd
        /\ \A t : Count(m.readyQ, t) = Count(Tail(m.readyQ), t) + Here(Head(m.readyQ), t)
    BY <1>1, <2>2, CountTail
  <2>4. Types(n) /\ SameWaiting(m, n) /\ SameSlots(m, n)
    BY <2>1, <2>3 DEF Types, Slot, SameWaiting, SameSlots
  <2>5. n.rob = m.rob /\ n.readyQ = Tail(m.readyQ) /\ n.in = Head(m.readyQ) /\ n.io = m.io /\ n.bus = m.bus
    BY <2>1 DEF Types
  <2>6. ASSUME NEW t \in Threads PROVE Pending(n, t) = Pending(m, t)
    <3>1. Here(m.in, t) = 0
      BY <1>1, HereNone
    <3>2. Count(Tail(m.readyQ), t) \in Nat
      BY <2>3, CountNat
    <3>3. Here(Head(m.readyQ), t) \in {0, 1}
      BY DEF Here
    <3> HIDE DEF n
    <3> QED
      BY <2>3, <2>5, <3>1, <3>2, <3>3, PendingNat DEF Pending
  <2> QED
    BY <2>4, <2>6 DEF SamePending
<1>2. CASE ~(m.in = None /\ m.readyQ # <<>>)
  BY <1>2 DEF TakeIn, SameWaiting, SameSlots, SamePending
<1> QED
  BY <1>1, <1>2

(* A nonempty set of numbers has a least element, which the code's linear  *)
(* searches return.                                                        *)
LEMMA LeastElement ==
  ASSUME NEW A \in SUBSET Nat, A # {}
  PROVE  \E j \in A : \A k \in A : j <= k
<1> DEFINE R == OpToRel(<, Nat)
<1>1. IsWellFoundedOn(R, Nat)
  BY NatLessThanWellFounded
<1>2. \A x, y \in Nat : x < y => <<x, y>> \in R
  BY DEF OpToRel
<1> HIDE DEF R
<1>3. PICK j \in A : \A k \in A : <<k, j>> \notin R
  BY <1>1, WFMin
<1>4. \A k \in A : ~(k < j)
  BY <1>2, <1>3
<1>5. \A k \in A : j <= k
  BY <1>4
<1> QED
  BY <1>5

(* From the reorder window into the ready queue, with a hit or without.    *)
LEMMA Scheduling ==
  ASSUME NEW m, Types(m)
  PROVE  /\ Types(Schedule(m)) /\ SameWaiting(m, Schedule(m)) /\ SameSlots(m, Schedule(m))
         /\ Schedule(m).in = m.in
         /\ SamePending(m, Schedule(m))
<1> DEFINE n == Schedule(m)
<1>1. m.rob \in Seq(Cmd) /\ m.readyQ \in Seq(Cmd) /\ Len(m.rob) \in Nat
  BY LenProperties DEF Types
<1>2. CASE Hits(m) # {}
  <2> DEFINE i == CHOOSE j \in Hits(m) : \A k \in Hits(m) : j <= k
  <2>1. i \in Hits(m)
    <3>1. Hits(m) \in SUBSET Nat
      BY <1>1 DEF Hits
    <3>2. \E j \in Hits(m) : \A k \in Hits(m) : j <= k
      BY <1>2, <3>1, LeastElement
    <3> QED
      BY <3>2
  <2>2. n = [m EXCEPT !.rob = TakeOut(@, i), !.readyQ = Append(@, m.rob[i])]
    BY <1>2 DEF Schedule
  <2> HIDE DEF i
  <2>3. i \in 1 .. Len(m.rob)
    BY <2>1 DEF Hits
  <2>4. /\ TakeOut(m.rob, i) \in Seq(Cmd) /\ m.rob[i] \in Cmd
        /\ \A t : Count(m.rob, t) = Count(TakeOut(m.rob, i), t) + Here(m.rob[i], t)
    BY <1>1, <2>3, CountTakeOut
  <2>5. /\ Append(m.readyQ, m.rob[i]) \in Seq(Cmd)
        /\ \A t : Count(Append(m.readyQ, m.rob[i]), t) = Count(m.readyQ, t) + Here(m.rob[i], t)
    BY <1>1, <2>4, CountAppend
  <2>6. Types(n) /\ SameWaiting(m, n) /\ SameSlots(m, n)
    BY <2>2, <2>4, <2>5 DEF Types, SameWaiting, SameSlots
  <2>7. /\ n.rob = TakeOut(m.rob, i) /\ n.readyQ = Append(m.readyQ, m.rob[i])
        /\ n.in = m.in /\ n.io = m.io /\ n.bus = m.bus
    BY <2>2 DEF Types
  <2>8. ASSUME NEW t \in Threads PROVE Pending(n, t) = Pending(m, t)
    <3>1. Count(TakeOut(m.rob, i), t) \in Nat /\ Here(m.rob[i], t) \in {0, 1}
      BY <2>4, CountNat DEF Here
    <3>2. /\ Count(m.rob, t) = Count(TakeOut(m.rob, i), t) + Here(m.rob[i], t)
          /\ Count(Append(m.readyQ, m.rob[i]), t) = Count(m.readyQ, t) + Here(m.rob[i], t)
      BY <2>4, <2>5
    <3>3. /\ Count(m.rob, t) \in Nat /\ Count(m.readyQ, t) \in Nat
          /\ Here(m.in, t) \in {0, 1} /\ Here(m.io, t) \in {0, 1} /\ Here(m.bus, t) \in {0, 1}
      BY PendingNat
    <3>4. Pending(n, t) = Count(TakeOut(m.rob, i), t) + Count(Append(m.readyQ, m.rob[i]), t)
                            + Here(m.in, t) + Here(m.io, t) + Here(m.bus, t)
      BY <2>7 DEF Pending
    <3> QED
      BY <3>1, <3>2, <3>3, <3>4 DEF Pending
  <2> QED
    BY <2>6, <2>7, <2>8 DEF SamePending
<1>3. CASE Hits(m) = {} /\ m.rob # <<>>
  <2>1. n = [m EXCEPT !.rob = Tail(@), !.readyQ = Append(@, Head(m.rob)), !.scheRow = Head(m.rob).row]
    BY <1>3 DEF Schedule
  <2>2. /\ Tail(m.rob) \in Seq(Cmd) /\ Head(m.rob) \in Cmd
        /\ \A t : Count(m.rob, t) = Count(Tail(m.rob), t) + Here(Head(m.rob), t)
    BY <1>1, <1>3, CountTail
  <2>3. /\ Append(m.readyQ, Head(m.rob)) \in Seq(Cmd)
        /\ \A t : Count(Append(m.readyQ, Head(m.rob)), t) = Count(m.readyQ, t) + Here(Head(m.rob), t)
    BY <1>1, <2>2, CountAppend
  <2>4. Head(m.rob).row \in Int
    BY <2>2 DEF Cmd
  <2>5. Types(n) /\ SameWaiting(m, n) /\ SameSlots(m, n)
    BY <2>1, <2>2, <2>3, <2>4 DEF Types, SameWaiting, SameSlots
  <2>6. /\ n.rob = Tail(m.rob) /\ n.readyQ = Append(m.readyQ, Head(m.rob))
        /\ n.in = m.in /\ n.io = m.io /\ n.bus = m.bus
    BY <2>1 DEF Types
  <2>7. ASSUME NEW t \in Threads PROVE Pending(n, t) = Pending(m, t)
    <3>1. Count(Tail(m.rob), t) \in Nat /\ Here(Head(m.rob), t) \in {0, 1}
      BY <2>2, CountNat DEF Here
    <3> HIDE DEF n
    <3> QED
      BY <2>2, <2>3, <2>6, <3>1, PendingNat DEF Pending
  <2> QED
    BY <2>5, <2>6, <2>7 DEF SamePending
<1>4. CASE Hits(m) = {} /\ m.rob = <<>>
  BY <1>4 DEF Schedule, SameWaiting, SameSlots, SamePending
<1> QED
  BY <1>2, <1>3, <1>4

(* Either nothing is acknowledged, or exactly the thread that is reported  *)
(* leaves the list, whichever entry fills its place (mramTiming.c:172).    *)
LEMMA Reporting ==
  ASSUME NEW m, Types(m), NEW b, Listed(m, b)
  PROVE  LET n == Report(m)
         IN  /\ Types(n) /\ SameSlots(m, n) /\ n.in = m.in /\ n.ackLeft = m.ackLeft
             /\ SamePending(m, n)
             /\ Listed(n, b)
             /\ \/ n = m /\ \A t \in Threads : Waits(m, t) => m.ackLeft[t] # 0
                \/ /\ Waits(m, n.readyId) /\ m.ackLeft[n.readyId] = 0 /\ n.readyId \in Threads
                   /\ \A t \in Threads : Waits(n, t) <=> Waits(m, t) /\ t # n.readyId
<1> DEFINE n == Report(m)
<1>1. m.waitIds \in Seq(Threads) /\ Len(m.waitIds) \in Nat
  BY LenProperties DEF Types
<1>2. CASE Acknowledged(m) = {}
  <2>1. n = m
    BY <1>2 DEF Report
  <2>2. \A t \in Threads : Waits(m, t) => m.ackLeft[t] # 0
    BY <1>2 DEF Acknowledged, Waits
  <2> QED
    BY <2>1, <2>2 DEF SameSlots, SamePending
<1>3. CASE Acknowledged(m) # {}
  <2> DEFINE i == CHOOSE j \in Acknowledged(m) : \A k \in Acknowledged(m) : j <= k
             w == m.waitIds
             e == [w EXCEPT ![i] = Last(w)]
  <2>1. i \in Acknowledged(m)
    <3>1. Acknowledged(m) \in SUBSET Nat
      BY <1>1 DEF Acknowledged
    <3>2. \E j \in Acknowledged(m) : \A k \in Acknowledged(m) : j <= k
      BY <1>3, <3>1, LeastElement
    <3> QED
      BY <3>2
  <2>2. n = [m EXCEPT !.readyId = w[i], !.waitIds = Front(e)]
    BY <1>3 DEF Report
  <2> HIDE DEF i
  <2>3. i \in 1 .. Len(w) /\ m.ackLeft[w[i]] = 0
    BY <2>1 DEF Acknowledged
  <2>4. w[i] \in Threads /\ Last(w) = w[Len(w)] /\ w[Len(w)] \in Threads
    BY <1>1, <2>3, ElementOfSeq DEF Last
  <2>5. e \in Seq(Threads) /\ Len(e) = Len(w) /\ \A j \in 1 .. Len(w) : e[j] = IF j = i THEN w[Len(w)] ELSE w[j]
    BY <1>1, <2>3, <2>4, ExceptSeq
  <2> HIDE DEF e
  <2>6. e # <<>>
    BY <1>1, <2>3, <2>5
  <2>7. /\ Front(e) \in Seq(Threads) /\ Len(Front(e)) = Len(w) - 1
        /\ \A j \in 1 .. Len(w) - 1 : Front(e)[j] = IF j = i THEN w[Len(w)] ELSE w[j]
    <3>1. /\ Front(e) \in Seq(Threads) /\ Len(Front(e)) = Len(e) - 1
          /\ \A j \in 1 .. Len(e) - 1 : Front(e)[j] = e[j]
      BY <2>5, <2>6, FrontProperties
    <3> QED
      BY <1>1, <2>5, <3>1
  <2>8. Types(n) /\ SameSlots(m, n) /\ n.in = m.in /\ n.ackLeft = m.ackLeft
    BY <2>2, <2>4, <2>7 DEF Types, SameSlots
  <2>9. /\ n.readyId = w[i] /\ n.waitIds = Front(e)
        /\ n.rob = m.rob /\ n.readyQ = m.readyQ /\ n.io = m.io /\ n.bus = m.bus
    BY <2>2 DEF Types
  <2>10. SamePending(m, n)
    BY <2>8, <2>9 DEF SamePending, Pending
  <2>11. \A j, k \in 1 .. Len(w) : w[j] = w[k] => j = k
    BY DEF Listed
  <2> DEFINE f == Front(e)
  <2> HIDE DEF n, f
  <2>12. \A j, k \in 1 .. Len(f) : f[j] = f[k] => j = k
    BY <1>1, <2>3, <2>7, <2>11 DEF f
  <2>13. ASSUME NEW t \in Threads PROVE Waits(n, t) <=> Waits(m, t) /\ t # n.readyId
    <3>1. ASSUME Waits(n, t) PROVE Waits(m, t) /\ t # w[i]
      <4>1. PICK j \in 1 .. Len(f) : f[j] = t
        BY <2>9, <3>1 DEF Waits, f
      <4>2. PICK k \in 1 .. Len(w) : w[k] = t /\ k # i
        BY <1>1, <2>3, <2>7, <4>1 DEF f
      <4> QED
        BY <2>3, <2>11, <4>2 DEF Waits
    <3>2. ASSUME Waits(m, t), t # w[i] PROVE Waits(n, t)
      <4>1. PICK k \in 1 .. Len(w) : w[k] = t
        BY <3>2 DEF Waits
      <4>2. CASE k = Len(w)
        <5>1. i \in 1 .. Len(f) /\ f[i] = t
          BY <1>1, <2>3, <2>7, <3>2, <4>1, <4>2 DEF f
        <5> QED
          BY <2>9, <5>1 DEF Waits, f
      <4>3. CASE k # Len(w)
        <5>1. k \in 1 .. Len(f) /\ f[k] = t
          BY <1>1, <2>3, <2>7, <3>2, <4>1, <4>3 DEF f
        <5> QED
          BY <2>9, <5>1 DEF Waits, f
      <4> QED
        BY <4>2, <4>3
    <3> QED
      BY <2>9, <3>1, <3>2
  <2>14. Waits(m, w[i])
    BY <2>3 DEF Waits
  <2>15. Listed(n, b)
    <3>1. \A j, k \in 1 .. Len(n.waitIds) : n.waitIds[j] = n.waitIds[k] => j = k
      BY <2>9, <2>12 DEF f
    <3>2. \A t \in Threads : Waits(n, t) => t \in b /\ t # n.readyId
      BY <2>13 DEF Listed
    <3>3. n.readyId \in b
      BY <2>4, <2>9, <2>14 DEF Listed
    <3>4. \A t \in Threads : n.ackLeft[t] # 0 => Waits(n, t)
      BY <2>3, <2>8, <2>9, <2>13 DEF Listed
    <3> QED
      BY <3>1, <3>2, <3>3, <3>4 DEF Listed
  <2> QED
    BY <2>3, <2>4, <2>8, <2>9, <2>10, <2>13, <2>14, <2>15 DEF n
<1> QED
  BY <1>2, <1>3

(* Into the I/O slot, or another row: not while a command is to be read.   *)
LEMMA UsingRow ==
  ASSUME NEW m, Types(m)
  PROVE  LET n == UseRow(m)
         IN  /\ Types(n) /\ SameWaiting(m, n) /\ n.bus = m.bus /\ n.busSince = m.busSince
             /\ SamePending(m, n)
             /\ ReadTimed(m) => ReadTimed(n)
<1> DEFINE n == UseRow(m)
<1>1. CASE m.in # None /\ m.in.row = m.row /\ m.prechSince > TRp + 1 + TRcd /\ m.io = None
  <2>1. n = [m EXCEPT !.io = m.in, !.ioSince = 0, !.in = None]
    BY <1>1 DEF UseRow
  <2>2. Types(n) /\ SameWaiting(m, n) /\ n.bus = m.bus /\ n.busSince = m.busSince
    <3>1. PICK z \in Nat : z = 0
      OBVIOUS
    <3>2. n = [m EXCEPT !.io = m.in, !.ioSince = z, !.in = None]
      BY <2>1, <3>1
    <3> QED
      BY <3>2 DEF Types, Slot, SameWaiting
  <2>3. n.io = m.in /\ n.in = None /\ n.rob = m.rob /\ n.readyQ = m.readyQ /\ n.row = m.row /\ n.ioSince = 0
    BY <2>1 DEF Types
  <2> HIDE DEF n
  <2>4. ASSUME NEW t \in Threads PROVE Pending(n, t) = Pending(m, t)
    <3>1. Here(n.in, t) = 0 /\ Here(m.io, t) = 0 /\ Here(n.io, t) = Here(m.in, t)
      BY <1>1, <2>3, HereNone
    <3> QED
      BY <2>2, <2>3, <3>1, PendingNat DEF Pending
  <2>5. ReadTimed(n)
    BY <1>1, <2>2, <2>3, TimingAssumption DEF ReadTimed, Types, TimingFits
  <2> QED
    BY <2>2, <2>4, <2>5 DEF n, SamePending
<1>2. CASE m.in # None /\ m.in.row # m.row /\ m.prechSince > TRp + 1 + TRas /\ m.ioSince > TCl /\ m.busSince > TBl
  <2>1. n = [m EXCEPT !.row = m.in.row, !.prechSince = 0]
    BY <1>2 DEF UseRow
  <2>2. m.in.row \in Int
    BY <1>2 DEF Types, Slot, Cmd
  <2>3. Types(n) /\ SameWaiting(m, n) /\ n.bus = m.bus /\ n.busSince = m.busSince
    <3>1. PICK z \in Nat : z = 0
      OBVIOUS
    <3>2. n = [m EXCEPT !.row = m.in.row, !.prechSince = z]
      BY <2>1, <3>1
    <3> QED
      BY <2>2, <3>2 DEF Types, SameWaiting
  <2>4. n.io = m.io /\ n.in = m.in /\ n.rob = m.rob /\ n.readyQ = m.readyQ
    BY <2>1 DEF Types
  <2> HIDE DEF n
  <2>5. SamePending(m, n)
    BY <2>3, <2>4 DEF SamePending, Pending
  <2>6. ReadTimed(m) => n.io = None
    BY <1>2, <2>4, TimingAssumption DEF ReadTimed, Types, TimingFits
  <2> QED
    BY <2>3, <2>5, <2>6 DEF n, ReadTimed
<1>3. CASE n = m
  BY <1>3 DEF SameWaiting, SamePending
<1> QED
  BY <1>1, <1>2, <1>3 DEF UseRow

(* Onto the bus, or off it with one acknowledgement; the clocks advance.   *)
LEMMA CycleEnd ==
  ASSUME NEW m, Types(m), BusTimed(m), Counted(m)
  PROVE  LET n == Tick(UseBus(m))
         IN  /\ Types(n) /\ BusTimed(n) /\ Counted(n)
             /\ n.waitIds = m.waitIds /\ n.readyId = m.readyId
             /\ n.busSince = 1 \/ n.busSince = m.busSince + 1 \/ n.busSince = TBl + 2
             /\ \/ n.ackLeft = m.ackLeft
                \/ \E t \in Threads : /\ m.ackLeft[t] > 0 /\ n.busSince = TBl + 1
                                       /\ n.ackLeft = [m.ackLeft EXCEPT ![t] = @ - 1]
             /\ TBl < TCl /\ ReadTimed(m) => ReadTimed(n)
<1> DEFINE u == UseBus(m)
           n == Tick(u)
<1>0. /\ TBl \in Nat \ {0} /\ TCl \in Nat \ {0} /\ TRp \in Nat /\ TRcd \in Nat /\ TRas \in Nat
      /\ m.busSince \in Nat /\ m.ioSince \in Nat
  BY TimingAssumption DEF TimingFits, Types
<1>1. ASSUME Types(u)
      PROVE  /\ Types(n) /\ SameWaiting(u, n) /\ SamePending(u, n) /\ n.row = u.row
             /\ n.io = u.io /\ n.bus = u.bus
             /\ n.busSince = Capped(u.busSince, TBl + 2) /\ n.ioSince = Capped(u.ioSince, TCl + 2)
  <2> HIDE DEF u
  <2>1. u.prechSince \in Nat /\ u.busSince \in Nat /\ u.ioSince \in Nat
    BY <1>1 DEF Types
  <2>2. /\ Capped(u.prechSince, TRp + TRcd + TRas + 3) \in Nat
        /\ Capped(u.busSince, TBl + 2) \in Nat
        /\ Capped(u.ioSince, TCl + 2) \in Nat
    BY <1>0, <2>1 DEF Capped
  <2>3. Types(n)
    BY <1>1, <2>2 DEF Tick, Types
  <2>4. /\ SameWaiting(u, n) /\ n.row = u.row /\ n.io = u.io /\ n.bus = u.bus
        /\ n.rob = u.rob /\ n.readyQ = u.readyQ /\ n.in = u.in
        /\ n.busSince = Capped(u.busSince, TBl + 2) /\ n.ioSince = Capped(u.ioSince, TCl + 2)
    BY <1>1 DEF Tick, Types, SameWaiting
  <2> QED
    BY <2>3, <2>4 DEF SamePending, Pending
<1>2. CASE m.ioSince >= TCl /\ m.io # None /\ m.busSince > TBl
  <2>1. u = [m EXCEPT !.io = None, !.bus = m.io, !.busSince = 0]
    BY <1>2 DEF UseBus
  <2>2. Types(u) /\ SameWaiting(m, u)
    <3>1. PICK z \in Nat : z = 0
      OBVIOUS
    <3>2. u = [m EXCEPT !.io = None, !.bus = m.io, !.busSince = z]
      BY <2>1, <3>1
    <3> QED
      BY <3>2 DEF Types, Slot, SameWaiting
  <2>3. u.io = None /\ u.bus = m.io /\ u.busSince = 0 /\ u.rob = m.rob /\ u.readyQ = m.readyQ /\ u.in = m.in
    BY <2>1 DEF Types
  <2>4. m.bus = None
    BY <1>0, <1>2 DEF BusTimed
  <2> HIDE DEF u
  <2>5. ASSUME NEW t \in Threads PROVE Pending(u, t) = Pending(m, t)
    <3>1. Here(u.io, t) = 0 /\ Here(m.bus, t) = 0 /\ Here(u.bus, t) = Here(m.io, t)
      BY <2>3, <2>4, HereNone
    <3> QED
      BY <2>2, <2>3, <3>1, PendingNat DEF Pending
  <2> HIDE DEF n
  <2>6. n.busSince = 1 /\ n.io = None /\ n.bus # None
    BY <1>0, <1>1, <1>2, <2>2, <2>3 DEF Capped
  <2>7. Types(n) /\ BusTimed(n) /\ ReadTimed(n)
    BY <1>0, <1>1, <2>2, <2>6 DEF BusTimed, ReadTimed
  <2>8. Counted(n) /\ SameWaiting(m, n)
    BY <1>1, <2>2, <2>5 DEF Counted, SameWaiting, SamePending
  <2> QED
    BY <2>6, <2>7, <2>8 DEF n, u, SameWaiting
<1>3. CASE ~(m.ioSince >= TCl /\ m.io # None /\ m.busSince > TBl) /\ m.busSince = TBl
  <2>1. u = [m EXCEPT !.ackLeft[m.bus.thread] = @ - 1, !.bus = None]
    BY <1>3 DEF UseBus
  <2>2. m.bus \in Cmd /\ m.bus # None
    BY <1>0, <1>3 DEF BusTimed, Types, Slot
  <2>3. PICK t \in Threads : t = m.bus.thread
    BY <2>2 DEF Cmd
  <2>4. m.ackLeft[t] \in Int /\ m.ackLeft \in [Threads -> Int]
    BY DEF Types
  <2>5. /\ u.ackLeft = [m.ackLeft EXCEPT ![t] = @ - 1] /\ u.bus = None /\ u.waitIds = m.waitIds
        /\ u.readyId = m.readyId /\ u.busSince = m.busSince /\ u.ioSince = m.ioSince
        /\ u.rob = m.rob /\ u.readyQ = m.readyQ /\ u.in = m.in /\ u.io = m.io /\ u.row = m.row
    BY <2>1, <2>3 DEF Types
  <2>6. Types(u)
    <3>1. [m.ackLeft EXCEPT ![t] = @ - 1] \in [Threads -> Int]
      BY <2>4
    <3>2. u = [m EXCEPT !.ackLeft = [m.ackLeft EXCEPT ![t] = @ - 1], !.bus = None]
      BY <2>1, <2>3
    <3> QED
      BY <3>1, <3>2 DEF Types, Slot
  <2> HIDE DEF u
  <2>7. ASSUME NEW v \in Threads PROVE Pending(u, v) = Pending(m, v) - (IF v = t THEN 1 ELSE 0)
    <3>1. Here(u.bus, v) = 0 /\ Here(m.bus, v) = IF v = t THEN 1 ELSE 0
      BY <2>2, <2>3, <2>5, HereNone DEF Here
    <3> QED
      BY <2>5, <3>1, PendingNat DEF Pending
  <2>8. m.ackLeft[t] > 0
    <3>1. Here(m.bus, t) = 1 /\ m.ackLeft[t] = Pending(m, t)
      BY <2>2, <2>3 DEF Here, Counted
    <3> QED
      BY <3>1, PendingNat DEF Pending
  <2> HIDE DEF n
  <2>9. n.busSince = TBl + 1 /\ n.bus = None /\ Types(n) /\ BusTimed(n)
    BY <1>0, <1>1, <1>3, <2>5, <2>6 DEF Capped, BusTimed
  <2>10. n.ackLeft = [m.ackLeft EXCEPT ![t] = @ - 1] /\ n.waitIds = m.waitIds /\ n.readyId = m.readyId
    BY <1>1, <2>5, <2>6 DEF SameWaiting
  <2>11. Counted(n)
    BY <1>1, <2>4, <2>6, <2>7, <2>10 DEF Counted, SamePending
  <2>12. TBl < TCl /\ ReadTimed(m) => ReadTimed(n)
    BY <1>0, <1>1, <1>3, <2>5, <2>6, <2>9 DEF ReadTimed, Capped
  <2> QED
    BY <1>0, <1>3, <2>8, <2>9, <2>10, <2>11, <2>12 DEF n, u
<1>4. CASE ~(m.ioSince >= TCl /\ m.io # None /\ m.busSince > TBl) /\ m.busSince # TBl
  <2>1. u = m
    BY <1>4 DEF UseBus
  <2> HIDE DEF u, n
  <2>2. n.busSince = m.busSince + 1 \/ n.busSince = TBl + 2
    BY <1>0, <1>1, <2>1 DEF Capped
  <2>3. BusTimed(n)
    BY <1>0, <1>1, <1>4, <2>1 DEF BusTimed, Capped
  <2>4. TBl < TCl /\ ReadTimed(m) => ReadTimed(n)
    BY <1>0, <1>1, <1>4, <2>1 DEF ReadTimed, Capped
  <2>5. Types(n) /\ Counted(n) /\ SameWaiting(m, n)
    BY <1>1, <2>1 DEF Counted, SameWaiting, SamePending
  <2> QED
    BY <2>2, <2>3, <2>4, <2>5 DEF n, u, SameWaiting
<1> QED
  BY <1>2, <1>3, <1>4

Cycled(m) == Tick(UseBus(UseRow(Schedule(Report(TakeIn(m))))))

(* The parts put together (DmmMramTimingCycle).  Reports are TBl + 1       *)
(* memory cycles apart: if a logic cycle is no longer than that, it has    *)
(* taken out one before the next one comes.                                *)
LEMMA Cycling ==
  ASSUME NEW m, NEW b, Types(m), BusTimed(m), Counted(m), Listed(m, b)
  PROVE  LET n == Cycled(m)
         IN  /\ Types(n) /\ BusTimed(n) /\ Counted(n) /\ Listed(n, b)
             /\ TBl < TCl /\ ReadTimed(m) => ReadTimed(n)
             /\ \A left \in 1 .. MemPerLogic :
                  MemPerLogic <= TBl + 1 /\ Kept(m, b) /\ ReportTimed(m, left)
                    => Kept(n, b) /\ ReportTimed(n, left - 1)
<1> DEFINE m1 == TakeIn(m)
           m2 == Report(m1)
           m3 == Schedule(m2)
           m4 == UseRow(m3)
           n == Tick(UseBus(m4))
<1>1. /\ Types(m1) /\ SameWaiting(m, m1) /\ SameSlots(m, m1) /\ SamePending(m, m1)
  BY TakingIn
<1> HIDE DEF m1
<1>2. Listed(m1, b)
  BY <1>1 DEF Listed, Waits, SameWaiting
<1>3. /\ Types(m2) /\ SameSlots(m1, m2) /\ m2.ackLeft = m1.ackLeft /\ SamePending(m1, m2)
      /\ Listed(m2, b)
      /\ \/ m2 = m1 /\ \A t \in Threads : Waits(m1, t) => m1.ackLeft[t] # 0
         \/ /\ Waits(m1, m2.readyId) /\ m1.ackLeft[m2.readyId] = 0 /\ m2.readyId \in Threads
            /\ \A t \in Threads : Waits(m2, t) <=> Waits(m1, t) /\ t # m2.readyId
  BY <1>1, <1>2, Reporting
<1> HIDE DEF m2
<1>4. /\ Types(m3) /\ SameWaiting(m2, m3) /\ SameSlots(m2, m3) /\ SamePending(m2, m3)
  BY <1>3, Scheduling
<1> HIDE DEF m3
<1>5. /\ Types(m4) /\ SameWaiting(m3, m4) /\ m4.bus = m3.bus /\ m4.busSince = m3.busSince
      /\ SamePending(m3, m4)
      /\ ReadTimed(m3) => ReadTimed(m4)
  BY <1>4, UsingRow
<1> HIDE DEF m4
<1>6. m4.bus = m.bus /\ m4.busSince = m.busSince /\ m4.ackLeft = m.ackLeft
  BY <1>1, <1>3, <1>4, <1>5 DEF SameSlots, SameWaiting
<1>7. BusTimed(m4) /\ Counted(m4)
  <2>1. BusTimed(m4)
    BY <1>6 DEF BusTimed
  <2>2. \A t \in Threads : Pending(m4, t) = Pending(m, t)
    BY <1>1, <1>3, <1>4, <1>5 DEF SamePending
  <2>3. Counted(m4)
    BY <1>6, <2>2 DEF Counted
  <2> QED
    BY <2>1, <2>3
<1>8. ReadTimed(m) => ReadTimed(m4)
  <2>1. m3.io = m.io /\ m3.row = m.row /\ m3.ioSince = m.ioSince /\ m3.busSince = m.busSince
    BY <1>1, <1>3, <1>4 DEF SameSlots
  <2> QED
    BY <1>5, <2>1 DEF ReadTimed
<1>9. m4.waitIds = m2.waitIds /\ m4.readyId = m2.readyId
  BY <1>4, <1>5 DEF SameWaiting
<1>10. /\ Types(n) /\ BusTimed(n) /\ Counted(n)
       /\ n.waitIds = m4.waitIds /\ n.readyId = m4.readyId
       /\ n.busSince = 1 \/ n.busSince = m4.busSince + 1 \/ n.busSince = TBl + 2
       /\ \/ n.ackLeft = m4.ackLeft
          \/ \E t \in Threads : /\ m4.ackLeft[t] > 0 /\ n.busSince = TBl + 1
                                /\ n.ackLeft = [m4.ackLeft EXCEPT ![t] = @ - 1]
       /\ TBl < TCl /\ ReadTimed(m4) => ReadTimed(n)
  BY <1>5, <1>7, CycleEnd
<1> HIDE DEF n
<1>11. \A t \in Threads : n.ackLeft[t] # 0 => m.ackLeft[t] # 0
  <2>1. m.ackLeft \in [Threads -> Int]
    BY DEF Types
  <2>2. ASSUME NEW t \in Threads, n.ackLeft[t] # 0 PROVE m.ackLeft[t] # 0
    <3>1. CASE n.ackLeft = m.ackLeft
      BY <2>2, <3>1
    <3>2. CASE \E u \in Threads : m.ackLeft[u] > 0 /\ n.ackLeft = [m.ackLeft EXCEPT ![u] = @ - 1]
      <4>1. PICK u \in Threads : m.ackLeft[u] > 0 /\ n.ackLeft = [m.ackLeft EXCEPT ![u] = @ - 1]
        BY <3>2
      <4>2. CASE u = t
        BY <2>1, <4>1, <4>2
      <4>3. CASE u # t
        BY <2>1, <2>2, <4>1, <4>3
      <4> QED
        BY <4>2, <4>3
    <3> QED
      BY <1>6, <1>10, <3>1, <3>2
  <2> QED
    BY <2>2
<1>12. \A t : Waits(n, t) <=> Waits(m2, t)
  BY <1>9, <1>10 DEF Waits
<1>13. Listed(n, b)
  <2>1. n.waitIds = m2.waitIds /\ n.readyId = m2.readyId /\ m2.ackLeft = m.ackLeft
    BY <1>1, <1>3, <1>9, <1>10 DEF SameWaiting
  <2>2. \A t \in Threads : n.ackLeft[t] # 0 => Waits(n, t)
    BY <1>3, <1>11, <1>12, <2>1 DEF Listed
  <2>3. \A t \in Threads : Waits(n, t) => t \in b /\ t # n.readyId
    BY <1>3, <1>12, <2>1 DEF Listed
  <2>4. /\ \A i, j \in 1 .. Len(n.waitIds) : n.waitIds[i] = n.waitIds[j] => i = j
        /\ n.readyId # None => n.readyId \in b
    BY <1>3, <2>1 DEF Listed
  <2> QED
    BY <2>2, <2>3, <2>4 DEF Listed
<1>14. ASSUME NEW left \in 1 .. MemPerLogic, MemPerLogic <= TBl + 1, Kept(m, b), ReportTimed(m, left)
       PROVE  Kept(n, b) /\ ReportTimed(n, left - 1)
  <2>0. /\ m.ackLeft \in [Threads -> Int] /\ m.busSince \in Nat /\ n.busSince \in Nat
        /\ TBl \in Nat \ {0} /\ MemPerLogic \in Nat
    BY <1>10, TimingAssumption DEF Types, TimingFits
  <2>1. /\ \A t \in Threads : Waits(m1, t) <=> Waits(m, t)
        /\ m1.readyId = m.readyId /\ m1.ackLeft = m.ackLeft
    BY <1>1 DEF SameWaiting, Waits
  <2>2. CASE m2 = m1 /\ \A t \in Threads : Waits(m1, t) => m1.ackLeft[t] # 0
    <3>1. \A t \in Threads : Waits(n, t) <=> Waits(m, t)
      BY <1>12, <2>1, <2>2
    <3>2. n.readyId = m.readyId
      BY <1>9, <1>10, <2>1, <2>2
    <3>3. Kept(n, b)
      BY <1>14, <3>1, <3>2 DEF Kept
    <3>4. n.readyId # None => n.busSince > TBl + 1 \/ n.busSince <= MemPerLogic - (left - 1)
      BY <1>6, <1>10, <1>14, <2>0, <3>2 DEF ReportTimed
    <3>5. ASSUME NEW t \in Threads, NEW u \in Threads, Waits(n, t), n.ackLeft[t] = 0
          PROVE  n.busSince = TBl + 1 /\ (Waits(n, u) /\ n.ackLeft[u] = 0 => t = u)
      <4>1. m.ackLeft[t] # 0 /\ (Waits(n, u) => m.ackLeft[u] # 0)
        BY <2>1, <2>2, <3>1, <3>5
      <4> QED
        BY <1>6, <1>10, <2>0, <3>5, <4>1
    <3> QED
      BY <3>3, <3>4, <3>5 DEF ReportTimed
  <2>3. CASE /\ Waits(m1, m2.readyId) /\ m1.ackLeft[m2.readyId] = 0 /\ m2.readyId \in Threads
             /\ \A t \in Threads : Waits(m2, t) <=> Waits(m1, t) /\ t # m2.readyId
    <3> DEFINE r == m2.readyId
    <3>1. r \in Threads /\ Waits(m, r) /\ m.ackLeft[r] = 0
      BY <2>1, <2>3
    <3>2. m.busSince = TBl + 1 /\ \A u \in Threads : Waits(m, u) /\ m.ackLeft[u] = 0 => r = u
      BY <1>14, <3>1 DEF ReportTimed
    <3>3. m.readyId = None
      BY <1>14, <2>0, <3>2 DEF ReportTimed
    <3>4. n.readyId = r /\ \A t \in Threads : Waits(n, t) <=> Waits(m, t) /\ t # r
      BY <1>9, <1>10, <1>12, <2>1, <2>3
    <3>5. Kept(n, b)
      <4> SUFFICES ASSUME NEW t \in Threads, t \in b PROVE Waits(n, t) \/ n.readyId = t
        BY DEF Kept
      <4>1. Waits(m, t)
        BY <1>14, <3>3, NoneAssumption DEF Kept
      <4> QED
        BY <3>4, <4>1
    <3>6. n.busSince = 1 \/ n.busSince = TBl + 2
      BY <1>6, <1>10, <2>0, <3>2
    <3>7. n.busSince > TBl + 1 \/ n.busSince <= MemPerLogic - (left - 1)
      BY <2>0, <3>6
    <3>8. n.ackLeft = m.ackLeft
      <4>1. n.busSince # TBl + 1
        BY <2>0, <3>6
      <4> QED
        BY <1>6, <1>10, <4>1
    <3>9. ASSUME NEW t \in Threads, Waits(n, t), n.ackLeft[t] = 0 PROVE FALSE
      BY <3>2, <3>4, <3>8, <3>9
    <3> QED
      BY <3>5, <3>7, <3>9 DEF ReportTimed
  <2> QED
    BY <1>3, <2>2, <2>3
<1>15. n = Cycled(m)
  BY DEF n, m4, m3, m2, m1, Cycled
<1> QED
  BY <1>8, <1>10, <1>13, <1>14, <1>15

(* A transfer becomes commands of its thread, at least one if not empty.   *)
LEMMA CommandsOf ==
  ASSUME NEW t \in Threads, NEW begin \in Nat, NEW size \in Nat
  PROVE  LET c == Commands(t, begin, size)
         IN  /\ c \in Seq(Cmd)
             /\ \A i \in 1 .. Len(c) : c[i].thread = t
             /\ size # 0 => Len(c) > 0
<1> DEFINE first == begin - (begin % 8)
           k == IF begin + size <= first THEN 0 ELSE (begin + size - first + 7) \div 8
           row(i) == (first + 8 * (i - 1)) \div WordlineSz
           c == [i \in 1 .. k |-> [thread |-> t, row |-> row(i)]]
<1>1. first \in Int /\ first <= begin
  OBVIOUS
<1>2. k \in Nat /\ (size # 0 => k > 0)
  <2>1. CASE begin + size <= first
    BY <1>1, <2>1
  <2>2. CASE begin + size > first
    <3>1. begin + size - first + 7 >= 8 /\ begin + size - first + 7 \in Nat
      BY <1>1, <2>2
    <3> HIDE DEF first
    <3>2. \A a \in Nat : a >= 8 => a \div 8 \in Nat /\ a \div 8 > 0
      OBVIOUS
    <3>3. PICK a \in Nat : a = begin + size - first + 7 /\ a >= 8
      BY <3>1
    <3>4. k = a \div 8
      BY <1>1, <2>2, <3>3
    <3> QED
      BY <3>2, <3>3, <3>4
  <2> QED
    BY <1>1, <2>1, <2>2
<1>3. \A i \in 1 .. k : row(i) \in Int
  <2>1. WordlineSz \in Nat \ {0}
    BY TimingAssumption DEF TimingFits
  <2>2. \A a \in Int : a \div WordlineSz \in Int
    BY <2>1
  <2> HIDE DEF k, first
  <2>3. \A i \in 1 .. k : first + 8 * (i - 1) \in Int
    BY <1>1, <1>2
  <2> QED
    BY <2>2, <2>3
<1> HIDE DEF k, row
<1>4. c \in [1 .. k -> Cmd]
  BY <1>3 DEF Cmd
<1>5. c \in Seq(Cmd) /\ Len(c) = k
  BY <1>2, <1>4, SeqDef, LenProperties
<1>6. \A i \in 1 .. k : c[i].thread = t
  OBVIOUS
<1>7. c = Commands(t, begin, size)
  BY DEF Commands, k, row
<1> HIDE DEF c
<1> QED
  BY <1>2, <1>5, <1>6, <1>7

(* DmmMramTimingPush of a thread that is not blocked.                      *)
LEMMA Pushing ==
  ASSUME NEW m, NEW b, Types(m), BusTimed(m), Counted(m), Listed(m, b),
         NEW t \in Threads, t \notin b, NEW begin \in Nat, NEW size \in Nat
  PROVE  LET n == Push(m, t, begin, size)
         IN  /\ Types(n) /\ BusTimed(n) /\ Counted(n) /\ Listed(n, b \cup {t})
             /\ SameSlots(m, n) /\ n.readyId = m.readyId
             /\ \A u \in Threads : Waits(n, u) <=> Waits(m, u) \/ u = t
             /\ \A u \in Threads \ {t} : n.ackLeft[u] = m.ackLeft[u]
             /\ size # 0 => n.ackLeft[t] > 0
<1> DEFINE c == Commands(t, begin, size)
           n == Push(m, t, begin, size)
           w == m.waitIds
<1>1. c \in Seq(Cmd) /\ (\A i \in 1 .. Len(c) : c[i].thread = t) /\ (size # 0 => Len(c) > 0) /\ Len(c) \in Nat
  BY CommandsOf, LenProperties
<1>2. n = [m EXCEPT !.rob = @ \o c, !.ackLeft[t] = Len(c), !.waitIds = Append(@, t)]
  BY DEF Push
<1> HIDE DEF c
<1>3. /\ m.rob \in Seq(Cmd) /\ w \in Seq(Threads) /\ m.ackLeft \in [Threads -> Int] /\ Len(w) \in Nat
  BY LenProperties DEF Types
<1>4. /\ m.rob \o c \in Seq(Cmd)
      /\ \A u \in Threads : Count(m.rob \o c, u) = Count(m.rob, u) + (IF u = t THEN Len(c) ELSE 0)
  <2>1. ASSUME NEW s \in Seq(Cmd), NEW u
        PROVE  s \o c \in Seq(Cmd) /\ Count(s \o c, u) = Count(s, u) + (IF u = t THEN Len(c) ELSE 0)
    <3>1. c \in Seq(Cmd) /\ AllOf(c, t)
      BY <1>1 DEF AllOf
    <3> QED
      BY <3>1, CountConcat
  <2> QED
    BY <1>3, <2>1
<1>5. /\ Append(w, t) \in Seq(Threads) /\ Len(Append(w, t)) = Len(w) + 1
      /\ \A i \in 1 .. Len(w) : Append(w, t)[i] = w[i]
      /\ Append(w, t)[Len(w) + 1] = t
  BY <1>3, AppendProperties
<1>6. Types(n)
  <2>1. [m.ackLeft EXCEPT ![t] = Len(c)] \in [Threads -> Int]
    BY <1>1, <1>3
  <2>2. n = [m EXCEPT !.rob = m.rob \o c, !.ackLeft = [m.ackLeft EXCEPT ![t] = Len(c)],
                      !.waitIds = Append(m.waitIds, t)]
    BY <1>2
  <2> QED
    BY <1>4, <1>5, <2>1, <2>2 DEF Types
<1>7. /\ SameSlots(m, n) /\ n.readyId = m.readyId /\ n.in = m.in /\ n.readyQ = m.readyQ
      /\ n.rob = m.rob \o c /\ n.ackLeft = [m.ackLeft EXCEPT ![t] = Len(c)] /\ n.waitIds = Append(w, t)
  BY <1>2 DEF SameSlots, Types
<1> HIDE DEF n
<1>8. ~Waits(m, t) /\ m.ackLeft[t] = 0 /\ m.readyId # t
  BY NoneAssumption DEF Listed
<1>9. ASSUME NEW u \in Threads PROVE n.ackLeft[u] = Pending(n, u)
  <2>1. m.ackLeft[u] = Pending(m, u)
    BY DEF Counted
  <2>2. Count(m.rob \o c, u) = Count(m.rob, u) + (IF u = t THEN Len(c) ELSE 0)
    BY <1>4
  <2>3. Pending(n, u) = Pending(m, u) + (IF u = t THEN Len(c) ELSE 0)
    <3>1. /\ Count(m.rob, u) \in Nat /\ Count(m.readyQ, u) \in Nat
          /\ Here(m.in, u) \in {0, 1} /\ Here(m.io, u) \in {0, 1} /\ Here(m.bus, u) \in {0, 1}
      BY PendingNat
    <3>2. Pending(n, u) = Count(m.rob \o c, u) + Count(m.readyQ, u)
                            + Here(m.in, u) + Here(m.io, u) + Here(m.bus, u)
      BY <1>7 DEF Pending, SameSlots
    <3>3. Pending(m, u) = Count(m.rob, u) + Count(m.readyQ, u)
                            + Here(m.in, u) + Here(m.io, u) + Here(m.bus, u)
      BY DEF Pending
    <3> QED
      BY <1>1, <2>2, <3>1, <3>2, <3>3
  <2>4. m.ackLeft[u] \in Int
    BY <1>3
  <2> QED
    BY <1>1, <1>3, <1>7, <1>8, <2>1, <2>3, <2>4
<1>10. ASSUME NEW u \in Threads PROVE Waits(n, u) <=> Waits(m, u) \/ u = t
  <2>1. ASSUME Waits(n, u) PROVE Waits(m, u) \/ u = t
    <3>1. PICK i \in 1 .. Len(w) + 1 : Append(w, t)[i] = u
      BY <1>5, <1>7, <2>1 DEF Waits
    <3>2. CASE i = Len(w) + 1
      BY <1>5, <3>1, <3>2
    <3>3. CASE i \in 1 .. Len(w)
      BY <1>5, <3>1, <3>3 DEF Waits
    <3>4. i = Len(w) + 1 \/ i \in 1 .. Len(w)
      BY <1>3
    <3> QED
      BY <3>2, <3>3, <3>4
  <2>2. ASSUME Waits(m, u) PROVE Waits(n, u)
    <3>1. PICK i \in 1 .. Len(w) : w[i] = u
      BY <2>2 DEF Waits
    <3>2. i \in 1 .. Len(n.waitIds) /\ n.waitIds[i] = u
      BY <1>3, <1>5, <1>7, <3>1
    <3> QED
      BY <3>2 DEF Waits
  <2>3. Waits(n, t)
    <3>1. PICK i \in 1 .. Len(n.waitIds) : i = Len(w) + 1
      BY <1>3, <1>5, <1>7
    <3>2. n.waitIds[i] = t
      BY <1>5, <1>7, <3>1
    <3> QED
      BY <3>2 DEF Waits
  <2> QED
    BY <2>1, <2>2, <2>3
<1>11. Listed(n, b \cup {t})
  <2>1. ASSUME NEW i \in 1 .. Len(n.waitIds), NEW j \in 1 .. Len(n.waitIds), n.waitIds[i] = n.waitIds[j]
        PROVE  i = j
    <3>1. \A k \in 1 .. Len(w) : w[k] # t
      BY <1>8 DEF Waits
    <3>2. \A k, l \in 1 .. Len(w) : w[k] = w[l] => k = l
      BY DEF Listed
    <3>3. /\ n.waitIds[i] = IF i = Len(w) + 1 THEN t ELSE w[i]
          /\ n.waitIds[j] = IF j = Len(w) + 1 THEN t ELSE w[j]
          /\ i = Len(w) + 1 \/ i \in 1 .. Len(w)
          /\ j = Len(w) + 1 \/ j \in 1 .. Len(w)
      BY <1>3, <1>5, <1>7
    <3> QED
      BY <2>1, <3>1, <3>2, <3>3
  <2>2. \A u \in Threads : Waits(n, u) => u \in b \cup {t} /\ u # n.readyId
    BY <1>7, <1>8, <1>10 DEF Listed
  <2>3. n.readyId # None => n.readyId \in b \cup {t}
    BY <1>7 DEF Listed
  <2>4. \A u \in Threads : n.ackLeft[u] # 0 => Waits(n, u)
    BY <1>3, <1>7, <1>10 DEF Listed
  <2> QED
    BY <2>1, <2>2, <2>3, <2>4 DEF Listed
<1>12. BusTimed(n)
  BY <1>7 DEF BusTimed, SameSlots
<1>13. /\ \A u \in Threads \ {t} : n.ackLeft[u] = m.ackLeft[u]
       /\ size # 0 => n.ackLeft[t] > 0
  BY <1>1, <1>3, <1>7
<1> QED
  BY <1>6, <1>7, <1>9, <1>10, <1>11, <1>12, <1>13 DEF n, Counted

-----------------------------------------------------------------------------
(* The memory *)

MemInv ==
  /\ Types(mt) /\ BusTimed(mt) /\ Counted(mt)
  /\ Listed(mt, blocked)
  /\ memLeft \in 0 .. MemPerLogic

(* Of the clocks: 6 <= 9 for 2400 and 350 MHz (dmm_common.h).              *)
LogicKeepsUp == MemPerLogic <= TBl + 1

(* Of the programs: RvTimingCycle drops empty transfers, UmmTimingCycle    *)
(* does not, and has one wherever UnitsWrap divides the number of units.   *)
NoEmptyTransfer == \A r \in Requests : Simulator = "umm" => ChargedSize(r[2]) # 0

Punctual == Kept(mt, blocked) /\ ReportTimed(mt, memLeft)

(* DmmMramTimingInit.                                                      *)
LEMMA MemStart == MemInit => MemInv /\ ReadTimed(mt) /\ Punctual
<1> SUFFICES ASSUME MemInit PROVE MemInv /\ ReadTimed(mt) /\ Punctual
  OBVIOUS
<1>1. /\ MemPerLogic \in Nat /\ TBl \in Nat \ {0} /\ TCl \in Nat /\ TRp \in Nat /\ TRcd \in Nat /\ TRas \in Nat
  BY TimingAssumption DEF TimingFits
<1>2. /\ mt.rob = <<>> /\ mt.readyQ = <<>> /\ mt.in = None /\ mt.io = None /\ mt.bus = None
      /\ mt.busSince = TBl + 2 /\ mt.waitIds = <<>> /\ mt.readyId = None
      /\ mt.ackLeft = [t \in Threads |-> 0]
  BY DEF MemInit
<1>3. Types(mt)
  <2>1. <<>> \in Seq(Cmd) /\ <<>> \in Seq(Threads)
    BY EmptySeq
  <2>2. [t \in Threads |-> 0] \in [Threads -> Int]
    OBVIOUS
  <2>3. TRp + TRcd + TRas + 3 \in Nat /\ TCl + 2 \in Nat /\ TBl + 2 \in Nat
    BY <1>1
  <2> QED
    BY <2>1, <2>2, <2>3 DEF MemInit, Types, Slot
<1>4. BusTimed(mt)
  BY <1>1, <1>2 DEF BusTimed
<1>5. \A t \in Threads : Pending(mt, t) = 0 /\ ~Waits(mt, t)
  <2>1. Len(<<>>) = 0
    BY EmptySeq
  <2>2. \A t \in Threads : Count(<<>>, t) = 0
    BY <2>1, FS_EmptySet DEF Count
  <2> QED
    BY <1>2, <2>1, <2>2, HereNone DEF Pending, Waits
<1>6. Counted(mt)
  BY <1>2, <1>5 DEF Counted
<1>7. Listed(mt, blocked)
  <2>1. 1 .. Len(mt.waitIds) = {}
    BY <1>2, EmptySeq
  <2> QED
    BY <1>2, <1>5, <2>1 DEF Listed
<1>8. Punctual
  BY <1>2, <1>5 DEF MemInit, Punctual, Kept, ReportTimed
<1> QED
  BY <1>1, <1>2, <1>3, <1>4, <1>6, <1>7, <1>8 DEF MemInv, MemInit, ReadTimed

(* What a step of the memory keeps, the last two under conditions on the   *)
(* timing: of the slots and clocks, and of who waits.                      *)
Keeps ==
  /\ MemInv'
  /\ TBl < TCl /\ ReadTimed(mt) => ReadTimed(mt')
  /\ LogicKeepsUp /\ NoEmptyTransfer /\ Punctual => Punctual'

(* A memory cycle.                                                         *)
LEMMA MemoryCycleKeeps == MemInv /\ MemoryCycle => Keeps
<1> SUFFICES ASSUME MemInv, MemoryCycle PROVE Keeps
  OBVIOUS
<1>1. mt' = Cycled(mt) /\ memLeft' = memLeft - 1 /\ blocked' = blocked
  BY DEF MemoryCycle, Cycled
<1>2. memLeft \in 1 .. MemPerLogic /\ memLeft' \in 0 .. MemPerLogic
  BY <1>1, TimingAssumption DEF MemInv, MemoryCycle, TimingFits
<1>3. /\ Types(mt') /\ BusTimed(mt') /\ Counted(mt') /\ Listed(mt', blocked)
      /\ TBl < TCl /\ ReadTimed(mt) => ReadTimed(mt')
      /\ MemPerLogic <= TBl + 1 /\ Kept(mt, blocked) /\ ReportTimed(mt, memLeft)
            => Kept(mt', blocked) /\ ReportTimed(mt', memLeft - 1)
  BY <1>1, <1>2, Cycling DEF MemInv
<1>4. MemInv'
  BY <1>1, <1>2, <1>3 DEF MemInv
<1>5. LogicKeepsUp /\ Punctual => Punctual'
  BY <1>1, <1>3 DEF LogicKeepsUp, Punctual
<1> QED
  BY <1>3, <1>4, <1>5 DEF Keeps

(* Taking out the thread that is ready, from a state m that has pushed.    *)
LEMMA Unblocking ==
  ASSUME NEW m, NEW b, Types(m), BusTimed(m), Counted(m), Listed(m, b), Unblock(m, b)
  PROVE  /\ MemInv'
         /\ ReadTimed(m) => ReadTimed(mt')
         /\ Kept(m, b) /\ ReportTimed(m, 0) => Punctual'
<1>1. mt' = [m EXCEPT !.readyId = None] /\ blocked' = b \ {m.readyId} /\ memLeft' = MemPerLogic
  BY DEF Unblock
<1>2. /\ Types(mt') /\ SameSlots(m, mt') /\ mt'.readyId = None /\ mt'.in = m.in
      /\ mt'.waitIds = m.waitIds /\ mt'.ackLeft = m.ackLeft /\ mt'.rob = m.rob /\ mt'.readyQ = m.readyQ
  BY <1>1 DEF Types, SameSlots
<1>3. \A t : Waits(mt', t) <=> Waits(m, t)
  BY <1>2 DEF Waits
<1>4. BusTimed(mt') /\ Counted(mt')
  BY <1>2 DEF BusTimed, Counted, Pending, SameSlots
<1>5. Listed(mt', blocked')
  <2>1. \A t \in Threads : Waits(mt', t) => t \in blocked' /\ t # None
    BY <1>1, <1>3, NoneAssumption DEF Listed
  <2>2. \A t \in Threads : mt'.ackLeft[t] # 0 => Waits(mt', t)
    BY <1>2, <1>3 DEF Listed
  <2>3. \A i, j \in 1 .. Len(mt'.waitIds) : mt'.waitIds[i] = mt'.waitIds[j] => i = j
    BY <1>2 DEF Listed
  <2> QED
    BY <1>2, <2>1, <2>2, <2>3 DEF Listed
<1>6. memLeft' \in 0 .. MemPerLogic
  BY <1>1, TimingAssumption DEF TimingFits
<1>7. MemInv'
  BY <1>2, <1>4, <1>5, <1>6 DEF MemInv
<1>8. ReadTimed(m) => ReadTimed(mt')
  BY <1>2 DEF ReadTimed, SameSlots
<1>9. ASSUME Kept(m, b), ReportTimed(m, 0) PROVE Punctual'
  <2>1. Kept(mt', blocked')
    BY <1>1, <1>3, <1>9 DEF Kept
  <2>2. ReportTimed(mt', memLeft')
    BY <1>2, <1>3, <1>9 DEF ReportTimed, SameSlots
  <2> QED
    BY <2>1, <2>2 DEF Punctual
<1> QED
  BY <1>7, <1>8, <1>9

(* A logic cycle that issues no transfer.                                  *)
LEMMA IssueOtherKeeps == MemInv /\ IssueOther => Keeps
<1> SUFFICES ASSUME MemInv, IssueOther PROVE Keeps
  OBVIOUS
<1>1. memLeft = 0 /\ Unblock(mt, blocked)
  BY DEF IssueOther, Unblock
<1> QED
  BY <1>1, Unblocking DEF Keeps, MemInv, Punctual

(* A logic cycle that does.                                                *)
LEMMA IssueDmaKeeps == ASSUME NEW t \in Threads PROVE MemInv /\ IssueDma(t) => Keeps
<1> SUFFICES ASSUME MemInv, IssueDma(t) PROVE Keeps
  OBVIOUS
<1>1. PICK r \in Requests :
        /\ t \notin blocked
        /\ IF Simulator = "rv" /\ ChargedSize(r[2]) = 0
           THEN Unblock(mt, blocked)
           ELSE Unblock(Push(mt, t, r[1], ChargedSize(r[2])), blocked \cup {t})
  BY DEF IssueDma
<1>2. PICK begin \in Nat, size \in Nat : begin = r[1] /\ size = ChargedSize(r[2])
  <2>1. r[1] \in Nat /\ r[2] \in Nat
    BY RequestsAssumption
  <2>2. UnitsWrap \in Nat \ {0}
    BY TimingAssumption DEF TimingFits
  <2>3. \A a \in Nat, w \in Nat \ {0} : 8 * ((a \div 8) % w) \in Nat
    <3>1. \A a \in Nat : a \div 8 \in Nat
      OBVIOUS
    <3>2. \A a \in Nat, w \in Nat \ {0} : a % w \in Nat
      OBVIOUS
    <3>3. \A a \in Nat : 8 * a \in Nat
      OBVIOUS
    <3> QED
      BY <3>1, <3>2, <3>3
  <2>4. ChargedSize(r[2]) \in Nat
    BY <2>1, <2>2, <2>3 DEF ChargedSize
  <2> QED
    BY <2>1, <2>4
<1>3. CASE Simulator = "rv" /\ size = 0
  <2>1. IssueOther
    BY <1>1, <1>2, <1>3 DEF IssueOther
  <2> QED
    BY <2>1, IssueOtherKeeps
<1>4. CASE ~(Simulator = "rv" /\ size = 0)
  <2> DEFINE n == Push(mt, t, begin, size)
  <2>1. memLeft = 0 /\ Unblock(n, blocked \cup {t})
    BY <1>1, <1>2, <1>4 DEF Unblock
  <2>2. /\ Types(n) /\ BusTimed(n) /\ Counted(n) /\ Listed(n, blocked \cup {t})
        /\ SameSlots(mt, n) /\ n.readyId = mt.readyId
        /\ \A u \in Threads : Waits(n, u) <=> Waits(mt, u) \/ u = t
        /\ \A u \in Threads \ {t} : n.ackLeft[u] = mt.ackLeft[u]
        /\ size # 0 => n.ackLeft[t] > 0
    BY <1>1, Pushing DEF MemInv
  <2> HIDE DEF n
  <2>3. ReadTimed(mt) => ReadTimed(n)
    BY <2>2 DEF ReadTimed, SameSlots
  <2>4. ASSUME NoEmptyTransfer, Punctual PROVE Kept(n, blocked \cup {t}) /\ ReportTimed(n, 0)
    <3>1. size # 0
      BY <1>2, <1>4, <2>4, TimingAssumption DEF NoEmptyTransfer, TimingFits
    <3>2. n.ackLeft[t] # 0
      <4>1. n.ackLeft[t] \in Int
        BY <2>2 DEF Types
      <4> QED
        BY <2>2, <3>1, <4>1
    <3>3. Kept(n, blocked \cup {t})
      BY <2>2, <2>4 DEF Punctual, Kept
    <3>4. \A u \in Threads : Waits(n, u) /\ n.ackLeft[u] = 0 => Waits(mt, u) /\ mt.ackLeft[u] = 0
      BY <2>2, <3>2
    <3>5. ReportTimed(n, 0)
      BY <2>1, <2>2, <2>4, <3>4 DEF Punctual, ReportTimed, SameSlots
    <3> QED
      BY <3>3, <3>5
  <2>5. /\ MemInv'
        /\ ReadTimed(n) => ReadTimed(mt')
        /\ Kept(n, blocked \cup {t}) /\ ReportTimed(n, 0) => Punctual'
    BY <2>1, <2>2, Unblocking
  <2> QED
    BY <2>3, <2>4, <2>5 DEF Keeps
<1> QED
  BY <1>3, <1>4

(* Every step of the memory.                                               *)
LEMMA MemNextKeeps == MemInv /\ [MemNext]_memVars => Keeps
<1>1. MemInv /\ MemNext => Keeps
  BY MemoryCycleKeeps, IssueOtherKeeps, IssueDmaKeeps DEF MemNext
<1>2. MemInv /\ UNCHANGED memVars => Keeps
  BY DEF memVars, MemInv, Keeps, Punctual
<1> QED
  BY <1>1, <1>2

(* Whatever the clocks, sizes and requests: no command of a transfer is    *)
(* lost, doubled or credited to another thread between DmmMramTimingPush   *)
(* and the acknowledgement (mramTiming.c:89-200).                          *)
THEOREM NoCommandLost == MemSpec => []AcksMatchCommands
<1>1. MemInit => MemInv
  BY MemStart
<1>2. MemInv /\ [MemNext]_memVars => MemInv'
  BY MemNextKeeps DEF Keeps
<1>3. MemInv => AcksMatchCommands
  BY DEF MemInv, Counted, AcksMatchCommands
<1> QED
  BY <1>1, <1>2, <1>3, PTL DEF MemSpec

(* If a burst is shorter than the latency of a read (8 and 32 cycles in    *)
(* dmm_common.h:70), _serveRowBuf never closes a row under a command that  *)
(* is still to be read from it (mramTiming.c:141).                         *)
THEOREM RowsStayOpen == ASSUME TBl < TCl PROVE MemSpec => []IoReadsOpenRow
<1> DEFINE Inv == MemInv /\ ReadTimed(mt)
<1>1. MemInit => Inv
  BY MemStart
<1>2. Inv /\ [MemNext]_memVars => Inv'
  BY MemNextKeeps DEF Keeps
<1>3. Inv => IoReadsOpenRow
  BY DEF ReadTimed, IoReadsOpenRow
<1> QED
  BY <1>1, <1>2, <1>3, PTL DEF MemSpec

(* The list as NobodyForgotten counts it.                                  *)
LEMMA NobodyIs == MemInv /\ Punctual => NobodyForgotten
<1> SUFFICES ASSUME MemInv, Punctual, NEW t \in Threads
             PROVE  Cardinality({i \in 1 .. Len(mt.waitIds) : mt.waitIds[i] = t})
                      + (IF mt.readyId = t THEN 1 ELSE 0) = IF t \in blocked THEN 1 ELSE 0
  BY DEF NobodyForgotten
<1> DEFINE A == {i \in 1 .. Len(mt.waitIds) : mt.waitIds[i] = t}
<1>1. CASE Waits(mt, t)
  <2>1. PICK i \in 1 .. Len(mt.waitIds) : mt.waitIds[i] = t
    BY <1>1 DEF Waits
  <2>2. A = {i}
    BY <2>1 DEF MemInv, Listed
  <2>3. Cardinality(A) = 1
    BY <2>2, FS_Singleton
  <2>4. mt.readyId # t /\ t \in blocked
    BY <1>1 DEF MemInv, Listed
  <2> QED
    BY <2>3, <2>4
<1>2. CASE ~Waits(mt, t)
  <2>1. A = {}
    BY <1>2 DEF Waits
  <2>2. Cardinality(A) = 0
    BY <2>1, FS_EmptySet
  <2>3. mt.readyId = t <=> t \in blocked
    BY <1>2, NoneAssumption DEF MemInv, Listed, Punctual, Kept
  <2> QED
    BY <2>2, <2>3
<1> QED
  BY <1>1, <1>2

(* If the logic takes reports out often enough and no transfer is charged  *)
(* as empty: ReadyId is never overwritten by another completion            *)
(* (mramTiming.c:178), so nobody stays blocked without a transfer.  The    *)
(* run of MCMramTimingLongest shows that the second condition is needed.   *)
THEOREM EveryoneRemembered ==
  ASSUME LogicKeepsUp, NoEmptyTransfer PROVE MemSpec => []NobodyForgotten
<1>1. MemInit => MemInv /\ Punctual
  BY MemStart
<1>2. MemInv /\ Punctual /\ [MemNext]_memVars => (MemInv /\ Punctual)'
  BY MemNextKeeps DEF Keeps
<1> QED
  BY <1>1, <1>2, NobodyIs, PTL DEF MemSpec

(* Not more than WaitCap tasklets, as the array of dmm_common.h:101 has    *)
(* cells: then DmmMramTimingPush never writes behind its end.  (There may  *)
(* be 24: see the run of MCMramTimingFullList.)                            *)
THEOREM RoomForAll ==
  ASSUME IsFiniteSet(Threads), Cardinality(Threads) <= WaitCap
  PROVE  MemSpec => []WaitIdsFit
<1>1. MemInit => MemInv
  BY MemStart
<1>2. MemInv /\ [MemNext]_memVars => MemInv'
  BY MemNextKeeps DEF Keeps
<1>3. ASSUME MemInv PROVE WaitIdsFit
  <2> DEFINE w == mt.waitIds
  <2>1. w \in Seq(Threads) /\ Len(w) \in Nat /\ \A i, j \in 1 .. Len(w) : w[i] = w[j] => i = j
    BY <1>3, LenProperties DEF MemInv, Types, Listed
  <2>2. w \in Injection(1 .. Len(w), Threads)
    BY <2>1, LenProperties, ElementOfSeq DEF Injection, IsInjective
  <2>3. Cardinality(1 .. Len(w)) <= Cardinality(Threads)
    BY <2>2, FS_Injection DEF ExistsInjection
  <2>4. Cardinality(1 .. Len(w)) = Len(w)
    <3> HIDE DEF w
    <3>1. \A a, b \in Int : Cardinality(a .. b) = IF a > b THEN 0 ELSE b - a + 1
      BY FS_Interval
    <3>2. PICK a \in Int, b \in Int : a = 1 /\ b = Len(w)
      BY <2>1
    <3>3. Cardinality(a .. b) = IF a > b THEN 0 ELSE b - a + 1
      BY <3>1
    <3>4. (IF a > b THEN 0 ELSE b - a + 1) = Len(w)
      BY <2>1, <3>2
    <3> QED
      BY <3>2, <3>3, <3>4
  <2>5. Cardinality(Threads) \in Nat /\ WaitCap \in Nat
    BY FS_CardinalityType, TimingAssumption DEF TimingFits
  <2> QED
    BY <2>1, <2>3, <2>4, <2>5 DEF WaitIdsFit
<1> QED
  BY <1>1, <1>2, <1>3, PTL DEF MemSpec

-----------------------------------------------------------------------------
(* The instructions in a sequence of slots *)

Step(s, n, u) == IF s[n] \in {Null, Bubble} THEN u ELSE Append(u, s[n])

(* f[n] holds the instructions in the first n slots.                       *)
Among(s, f) == f = [n \in 0 .. Len(s) |-> IF n = 0 THEN <<>> ELSE Step(s, n, f[n - 1])]

(* Induction up to a bound, with a set for the formula.                    *)
LEMMA Climb ==
  ASSUME NEW m \in Nat, NEW A, 0 \in A, \A k \in 0 .. m - 1 : k \in A => k + 1 \in A
  PROVE  \A k \in 0 .. m : k \in A
<1> DEFINE B == (0 .. m) \ A
<1> SUFFICES ASSUME B # {} PROVE FALSE
  OBVIOUS
<1>1. B \in SUBSET Nat
  OBVIOUS
<1>2. PICK k \in B : \A j \in B : k <= j
  BY <1>1, LeastElement
<1>3. k \in 1 .. m /\ k - 1 \in 0 .. m - 1 /\ k - 1 \in A
  BY <1>2
<1>4. k - 1 + 1 = k
  BY <1>3
<1> QED
  BY <1>2, <1>3, <1>4

(* There is such a function. The library's induction theorems cannot be    *)
(* used with a formula, so it is Climb that carries the proof.             *)
LEMMA AmongExists ==
  ASSUME NEW E, NEW s \in Seq(E)
  PROVE  \E f : Among(s, f)
<1> DEFINE Upto(k, g) == /\ g \in [0 .. k -> Seq(E)] /\ g[0] = <<>>
                         /\ \A n \in 1 .. k : g[n] = Step(s, n, g[n - 1])
           A == {k \in Nat : \E g : Upto(k, g)}
<1>1. Len(s) \in Nat /\ \A n \in 1 .. Len(s) : s[n] \in E
  OBVIOUS
<1>2. 0 \in A
  <2>1. <<>> \in Seq(E) /\ [n \in 0 .. 0 |-> <<>>][0] = <<>>
    OBVIOUS
  <2>2. Upto(0, [n \in 0 .. 0 |-> <<>>])
    BY <2>1
  <2> QED
    BY <2>2
<1>3. ASSUME NEW k \in 0 .. Len(s) - 1, k \in A PROVE k + 1 \in A
  <2>1. PICK g : Upto(k, g)
    BY <1>3
  <2> DEFINE h == [n \in 0 .. k + 1 |-> IF n = k + 1 THEN Step(s, k + 1, g[k]) ELSE g[n]]
  <2>2. k \in 0 .. k /\ k + 1 \in 1 .. Len(s) /\ k \in Nat
    BY <1>1
  <2>3. g \in [0 .. k -> Seq(E)] /\ g[0] = <<>> /\ g[k] \in Seq(E)
        /\ \A n \in 1 .. k : g[n] = Step(s, n, g[n - 1])
    BY <2>1, <2>2
  <2>4. Step(s, k + 1, g[k]) \in Seq(E)
    BY <1>1, <2>2, <2>3 DEF Step
  <2>5. h \in [0 .. k + 1 -> Seq(E)] /\ h[0] = <<>>
    BY <2>2, <2>3, <2>4
  <2>6. ASSUME NEW n \in 1 .. k + 1 PROVE h[n] = Step(s, n, h[n - 1])
    <3>1. h[n - 1] = g[n - 1]
      BY <2>2
    <3>2. h[n] = IF n = k + 1 THEN Step(s, k + 1, g[k]) ELSE g[n]
      BY <2>2
    <3> HIDE DEF h
    <3>3. CASE n = k + 1
      <4>1. n - 1 = k
        BY <2>2, <3>3
      <4> QED
        BY <3>1, <3>2, <3>3, <4>1
    <3>4. CASE n # k + 1
      BY <2>2, <2>3, <3>1, <3>2, <3>4
    <3> QED
      BY <3>3, <3>4
  <2>7. Upto(k + 1, h)
    BY <2>5, <2>6
  <2>8. \E u : Upto(k + 1, u)
    <3> HIDE DEF h, Upto
    <3> QED
      BY <2>7
  <2>9. k + 1 \in Nat
    BY <2>2
  <2> HIDE DEF Upto
  <2> QED
    BY <2>8, <2>9
<1>4. Len(s) \in A
  <2> HIDE DEF A
  <2>1. \A k \in 0 .. Len(s) : k \in A
    BY <1>1, <1>2, <1>3, Climb
  <2> QED
    BY <1>1, <2>1
<1>5. PICK g : Upto(Len(s), g)
  BY <1>4
<1>6. g = [n \in 0 .. Len(s) |-> IF n = 0 THEN <<>> ELSE Step(s, n, g[n - 1])]
  <2>1. \A n \in 0 .. Len(s) : g[n] = IF n = 0 THEN <<>> ELSE Step(s, n, g[n - 1])
    BY <1>1, <1>5
  <2> QED
    BY <1>5, <2>1
<1> QED
  BY <1>6 DEF Among

(* Such a function holds sequences, slot by slot.                          *)
LEMMA AmongSteps ==
  ASSUME NEW E, NEW s \in Seq(E), NEW f, Among(s, f)
  PROVE  /\ f[0] = <<>>
         /\ \A n \in 1 .. Len(s) : f[n] = Step(s, n, f[n - 1])
         /\ \A n \in 0 .. Len(s) : f[n] \in Seq(E)
<1> DEFINE A == {n \in Nat : f[n] \in Seq(E)}
<1>1. Len(s) \in Nat /\ \A n \in 1 .. Len(s) : s[n] \in E
  OBVIOUS
<1>2. \A n \in 0 .. Len(s) : f[n] = IF n = 0 THEN <<>> ELSE Step(s, n, f[n - 1])
  BY DEF Among
<1>3. f[0] = <<>> /\ \A n \in 1 .. Len(s) : f[n] = Step(s, n, f[n - 1])
  BY <1>1, <1>2
<1>4. 0 \in A
  <2>1. <<>> \in Seq(E)
    OBVIOUS
  <2> QED
    BY <1>3, <2>1
<1>5. ASSUME NEW k \in 0 .. Len(s) - 1, k \in A PROVE k + 1 \in A
  <2>1. k + 1 \in 1 .. Len(s) /\ k + 1 - 1 = k /\ f[k] \in Seq(E) /\ s[k + 1] \in E
    BY <1>1, <1>5
  <2>2. f[k + 1] = Step(s, k + 1, f[k])
    BY <1>3, <2>1
  <2>3. f[k + 1] \in Seq(E)
    BY <2>1, <2>2 DEF Step
  <2> QED
    BY <2>1, <2>3
<1>6. \A n \in 0 .. Len(s) : n \in A
  <2> HIDE DEF A
  <2> QED
    BY <1>1, <1>4, <1>5, Climb
<1> QED
  BY <1>3, <1>6

(* Occupied is the last value of such a function.                          *)
LEMMA OccupiedIs ==
  ASSUME NEW E, NEW s \in Seq(E)
  PROVE  \E f : Among(s, f) /\ Occupied(s) = f[Len(s)]
<1> DEFINE f == CHOOSE g : Among(s, g)
<1>1. Among(s, f)
  BY AmongExists
<1>2. Occupied(s) = f[Len(s)]
  BY Zenon DEF Occupied, Among, Step
<1> QED
  BY <1>1, <1>2

(* The instructions in two lines of slots, one behind the other.           *)
LEMMA OccupiedConcat ==
  ASSUME NEW E, NEW s \in Seq(E), NEW r \in Seq(E)
  PROVE  /\ Occupied(s) \in Seq(E) /\ Occupied(r) \in Seq(E)
         /\ Occupied(s \o r) = Occupied(s) \o Occupied(r)
<1>1. PICK q \in Seq(E) :
        /\ q = s \o r /\ Len(q) = Len(s) + Len(r)
        /\ \A n \in 1 .. Len(s) : q[n] = s[n]
        /\ \A n \in 1 .. Len(r) : q[Len(s) + n] = r[n]
  <2>1. /\ s \o r \in Seq(E) /\ Len(s \o r) = Len(s) + Len(r)
        /\ \A n \in 1 .. Len(s) + Len(r) : (s \o r)[n] = IF n <= Len(s) THEN s[n] ELSE r[n - Len(s)]
    BY ConcatProperties
  <2>2. Len(s) \in Nat /\ Len(r) \in Nat
    BY LenProperties
  <2>3. \A n \in 1 .. Len(s) : (s \o r)[n] = s[n]
    BY <2>1, <2>2
  <2>4. \A n \in 1 .. Len(r) : (s \o r)[Len(s) + n] = r[n]
    <3> SUFFICES ASSUME NEW n \in 1 .. Len(r) PROVE (s \o r)[Len(s) + n] = r[n]
      OBVIOUS
    <3>1. Len(s) + n \in 1 .. Len(s) + Len(r) /\ ~(Len(s) + n <= Len(s)) /\ Len(s) + n - Len(s) = n
      BY <2>2
    <3> QED
      BY <2>1, <3>1
  <2> QED
    BY <2>1, <2>3, <2>4
<1>2. PICK f : Among(s, f) /\ Occupied(s) = f[Len(s)]
  BY OccupiedIs
<1>3. PICK g : Among(r, g) /\ Occupied(r) = g[Len(r)]
  BY OccupiedIs
<1>4. PICK h : Among(q, h) /\ Occupied(q) = h[Len(q)]
  BY OccupiedIs
<1>5. PICK l \in Nat, m \in Nat : l = Len(s) /\ m = Len(r)
  BY LenProperties
<1>6. /\ f[0] = <<>> /\ \A n \in 1 .. l : f[n] = Step(s, n, f[n - 1])
      /\ \A n \in 0 .. l : f[n] \in Seq(E)
  BY <1>2, <1>5, AmongSteps
<1>7. /\ g[0] = <<>> /\ \A n \in 1 .. m : g[n] = Step(r, n, g[n - 1])
      /\ \A n \in 0 .. m : g[n] \in Seq(E)
  BY <1>3, <1>5, AmongSteps
<1>8. h[0] = <<>> /\ \A n \in 1 .. l + m : h[n] = Step(q, n, h[n - 1])
  <2>1. h[0] = <<>> /\ \A n \in 1 .. Len(q) : h[n] = Step(q, n, h[n - 1])
    BY <1>4, AmongSteps
  <2> QED
    BY <1>1, <1>5, <2>1
<1>9. \A n \in 0 .. l : h[n] = f[n]
  <2> DEFINE A == {n \in Nat : h[n] = f[n]}
  <2>1. 0 \in A
    BY <1>6, <1>8
  <2>2. ASSUME NEW k \in 0 .. l - 1, k \in A PROVE k + 1 \in A
    <3>1. k + 1 \in 1 .. l /\ k + 1 \in 1 .. l + m /\ k + 1 - 1 = k /\ q[k + 1] = s[k + 1]
      BY <1>1, <1>5
    <3>2. h[k + 1] = Step(q, k + 1, h[k]) /\ f[k + 1] = Step(s, k + 1, f[k])
      BY <1>6, <1>8, <3>1
    <3> QED
      BY <2>2, <3>1, <3>2 DEF Step
  <2>3. \A n \in 0 .. l : n \in A
    <3> HIDE DEF A
    <3> QED
      BY <2>1, <2>2, Climb
  <2> QED
    BY <2>3
<1>11. l \in 0 .. l /\ m \in 0 .. m
  OBVIOUS
<1>12. ASSUME NEW a \in Seq(E), NEW b \in Seq(E), NEW e \in E
       PROVE  Append(a \o b, e) = a \o Append(b, e)
  <2>1. Len(a) \in Nat /\ Len(b) \in Nat
    BY LenProperties
  <2>2. /\ a \o b \in Seq(E) /\ Len(a \o b) = Len(a) + Len(b)
        /\ \A n \in 1 .. Len(a) + Len(b) : (a \o b)[n] = IF n <= Len(a) THEN a[n] ELSE b[n - Len(a)]
    BY ConcatProperties
  <2>3. /\ Append(b, e) \in Seq(E) /\ Len(Append(b, e)) = Len(b) + 1
        /\ Append(b, e)[Len(b) + 1] = e /\ \A n \in 1 .. Len(b) : Append(b, e)[n] = b[n]
    BY AppendProperties
  <2>4. PICK u \in Seq(E) :
          /\ u = Append(a \o b, e) /\ Len(u) = Len(a) + Len(b) + 1
          /\ u[Len(a) + Len(b) + 1] = e /\ \A n \in 1 .. Len(a) + Len(b) : u[n] = (a \o b)[n]
    <3>1. /\ Append(a \o b, e) \in Seq(E) /\ Len(Append(a \o b, e)) = Len(a \o b) + 1
          /\ Append(a \o b, e)[Len(a \o b) + 1] = e
          /\ \A n \in 1 .. Len(a \o b) : Append(a \o b, e)[n] = (a \o b)[n]
      BY <2>2, AppendProperties
    <3> QED
      BY <2>2, <3>1
  <2>5. PICK v \in Seq(E) :
          /\ v = a \o Append(b, e) /\ Len(v) = Len(a) + Len(b) + 1
          /\ \A n \in 1 .. Len(a) + Len(b) + 1 :
               v[n] = IF n <= Len(a) THEN a[n] ELSE Append(b, e)[n - Len(a)]
    <3>1. /\ a \o Append(b, e) \in Seq(E)
          /\ Len(a \o Append(b, e)) = Len(a) + Len(Append(b, e))
          /\ \A n \in 1 .. Len(a) + Len(Append(b, e)) :
               (a \o Append(b, e))[n] = IF n <= Len(a) THEN a[n] ELSE Append(b, e)[n - Len(a)]
      BY <2>3, ConcatProperties
    <3>2. Len(a) + Len(Append(b, e)) = Len(a) + Len(b) + 1
      BY <2>1, <2>3
    <3> QED
      BY <3>1, <3>2
  <2>6. \A n \in 1 .. Len(u) : u[n] = v[n]
    <3> SUFFICES ASSUME NEW n \in 1 .. Len(a) + Len(b) + 1 PROVE u[n] = v[n]
      BY <2>4
    <3>1. CASE n <= Len(a)
      <4>1. n \in 1 .. Len(a) + Len(b)
        BY <2>1, <3>1
      <4> QED
        BY <2>2, <2>4, <2>5, <3>1, <4>1
    <3>2. CASE n > Len(a) /\ n <= Len(a) + Len(b)
      <4>1. n \in 1 .. Len(a) + Len(b) /\ ~(n <= Len(a)) /\ n - Len(a) \in 1 .. Len(b)
        BY <2>1, <3>2
      <4> QED
        BY <2>2, <2>3, <2>4, <2>5, <4>1
    <3>3. CASE n = Len(a) + Len(b) + 1
      <4>1. ~(n <= Len(a)) /\ n - Len(a) = Len(b) + 1
        BY <2>1, <3>3
      <4> QED
        BY <2>3, <2>4, <2>5, <3>3, <4>1
    <3> QED
      BY <2>1, <3>1, <3>2, <3>3
  <2>7. Len(u) = Len(v)
    BY <2>4, <2>5
  <2> QED
    BY <2>4, <2>5, <2>6, <2>7, SeqEqual
<1>10. \A n \in 0 .. m : h[l + n] = f[l] \o g[n]
  <2> DEFINE A == {n \in Nat : h[l + n] = f[l] \o g[n]}
  <2>1. 0 \in A
    <3>1. f[l] \in Seq(E) /\ h[l + 0] = f[l]
      BY <1>6, <1>9
    <3>2. f[l] \o <<>> = f[l]
      BY <3>1
    <3> QED
      BY <1>7, <3>1, <3>2
  <2>2. ASSUME NEW k \in 0 .. m - 1, k \in A PROVE k + 1 \in A
    <3>0. k \in Nat /\ k + 1 \in Nat /\ h[l + k] = f[l] \o g[k]
      <4>1. k \in Nat /\ k + 1 \in Nat
        OBVIOUS
      <4>2. h[l + k] = f[l] \o g[k]
        BY <2>2, Zenon
      <4> QED
        BY <4>1, <4>2
    <3> HIDE DEF A
    <3>1. k + 1 \in 1 .. m /\ k + 1 - 1 = k /\ k \in 0 .. m /\ l + (k + 1) \in 1 .. l + m
          /\ l + (k + 1) - 1 = l + k
      OBVIOUS
    <3>2. q[l + (k + 1)] = r[k + 1] /\ r[k + 1] \in E
      BY <1>1, <1>5, <3>1
    <3>3. h[l + (k + 1)] = Step(q, l + (k + 1), h[l + k]) /\ g[k + 1] = Step(r, k + 1, g[k])
      BY <1>7, <1>8, <3>1
    <3>4. f[l] \in Seq(E) /\ g[k] \in Seq(E) /\ h[l + k] = f[l] \o g[k]
      BY <1>6, <1>7, <1>11, <3>0, <3>1
    <3>5. Append(f[l] \o g[k], r[k + 1]) = f[l] \o Append(g[k], r[k + 1])
      <4>1. PICK a \in Seq(E), b \in Seq(E), e \in E : a = f[l] /\ b = g[k] /\ e = r[k + 1]
        BY <3>2, <3>4
      <4>2. Append(a \o b, e) = a \o Append(b, e)
        BY <1>12
      <4> QED
        BY <4>1, <4>2
    <3>6. h[l + (k + 1)] = f[l] \o g[k + 1]
      BY <3>2, <3>3, <3>4, <3>5 DEF Step
    <3> QED
      BY <3>0, <3>6 DEF A
  <2>3. \A n \in 0 .. m : n \in A
    <3> HIDE DEF A
    <3> QED
      BY <2>1, <2>2, Climb
  <2> QED
    BY <2>3
<1> QED
  BY <1>1, <1>2, <1>3, <1>4, <1>5, <1>6, <1>7, <1>10, <1>11

(* Nothing in an empty slot.                                               *)
One(e) == IF e \in {Null, Bubble} THEN <<>> ELSE <<e>>

(* What one slot holds.                                                    *)
LEMMA OccupiedOne == ASSUME NEW E, NEW e \in E PROVE Occupied(<<e>>) = One(e) /\ One(e) \in Seq(E)
<1>1. PICK s \in Seq(E) : s = <<e>> /\ Len(s) = 1 /\ s[1] = e
  <2>1. <<e>> \in Seq(E) /\ Len(<<e>>) = 1 /\ <<e>>[1] = e
    OBVIOUS
  <2> QED
    BY <2>1
<1>2. PICK f : Among(s, f) /\ Occupied(s) = f[Len(s)]
  BY OccupiedIs
<1>3. f[0] = <<>> /\ f[1] = Step(s, 1, f[0])
  <2>1. 1 \in 1 .. Len(s) /\ 1 - 1 = 0
    BY <1>1
  <2> QED
    BY <1>2, <2>1, AmongSteps
<1>4. Append(<<>>, e) = <<e>>
  OBVIOUS
<1> QED
  BY <1>1, <1>2, <1>3, <1>4 DEF Step, One

(* One line of instructions behind another: \o, kept folded in the proofs. *)
Then(s, r) == s \o r

(* What is needed of \o.                                                   *)
LEMMA ThenFacts ==
  ASSUME NEW E
  PROVE  /\ <<>> \in Seq(E)
         /\ \A s \in Seq(E) : Then(s, <<>>) = s /\ Then(<<>>, s) = s
         /\ \A s, r \in Seq(E) : Then(s, r) \in Seq(E)
         /\ \A s, r, u \in Seq(E) : Then(Then(s, r), u) = Then(s, Then(r, u))
         /\ \A e \in E : <<e>> \in Seq(E)
         /\ \A s \in Seq(E), e \in E : Then(<<e>>, s) # <<>> /\ Tail(Then(<<e>>, s)) = s
<1>1. <<>> \in Seq(E) /\ \A e \in E : <<e>> \in Seq(E)
  OBVIOUS
<1>2. \A s \in Seq(E) : s \o <<>> = s /\ <<>> \o s = s
  BY ConcatEmptySeq
<1>3. \A s, r \in Seq(E) : s \o r \in Seq(E)
  BY ConcatProperties
<1>4. \A s, r, u \in Seq(E) : (s \o r) \o u = s \o (r \o u)
  BY ConcatAssociative
<1>5. ASSUME NEW s \in Seq(E), NEW e \in E PROVE <<e>> \o s # <<>> /\ Tail(<<e>> \o s) = s
  <2>0. PICK x \in Seq(E) : x = <<e>> /\ Len(x) = 1
    BY <1>1
  <2>1. /\ x \o s \in Seq(E) /\ Len(x \o s) = Len(x) + Len(s)
        /\ \A k \in 1 .. Len(x) + Len(s) : (x \o s)[k] = IF k <= Len(x) THEN x[k] ELSE s[k - Len(x)]
    BY ConcatProperties
  <2>2. Len(s) \in Nat /\ x \o s # <<>>
    BY <2>0, <2>1, LenProperties
  <2>3. /\ Tail(x \o s) \in Seq(E) /\ Len(Tail(x \o s)) = Len(x \o s) - 1
        /\ \A k \in 1 .. Len(Tail(x \o s)) : Tail(x \o s)[k] = (x \o s)[k + 1]
    BY <2>1, <2>2, HeadTailProperties
  <2>4. Len(Tail(x \o s)) = Len(s)
    BY <2>0, <2>1, <2>2, <2>3
  <2>5. ASSUME NEW k \in 1 .. Len(s) PROVE Tail(x \o s)[k] = s[k]
    <3>1. k + 1 \in 1 .. Len(x) + Len(s) /\ ~(k + 1 <= Len(x)) /\ k + 1 - Len(x) = k
      BY <2>0, <2>2
    <3> QED
      BY <2>1, <2>3, <2>4, <3>1
  <2>6. Tail(x \o s) = s
    BY <2>3, <2>4, <2>5, SeqEqual
  <2> QED
    BY <2>0, <2>2, <2>6
<1> QED
  BY <1>1, <1>2, <1>3, <1>4, <1>5, Zenon DEF Then

(* Append puts one instruction at the end.                                 *)
LEMMA ThenAppend ==
  ASSUME NEW E, NEW s \in Seq(E), NEW e \in E PROVE Append(s, e) = Then(s, <<e>>)
BY DEF Then

(* What the five places of the pipeline hold, the oldest first.            *)
Join(p, c, r, i, n) == Then(Then(Then(Then(p, c), r), i), n)

(* Moving an instruction from one place to an empty one behind or in front *)
(* of it changes nothing, if nothing lies between them.                    *)
LEMMA JoinFacts ==
  ASSUME NEW E, NEW p \in Seq(E), NEW c \in Seq(E), NEW r \in Seq(E), NEW i \in Seq(E), NEW n \in Seq(E)
  PROVE  /\ Join(p, <<>>, r, i, n) = Join(p, r, <<>>, i, n)
         /\ Join(p, c, <<>>, Then(r, i), n) = Join(p, c, r, i, n)
         /\ Join(p, c, r, Then(i, n), <<>>) = Join(p, c, r, i, n)
         /\ Join(<<>>, c, r, i, n) = Join(c, <<>>, r, i, n)
         /\ Join(p, c, r, i, n) \in Seq(E)
         /\ Join(p, c, r, i, n) = Then(p, Join(<<>>, c, r, i, n))
<1>1. PICK x \in Seq(E), y \in Seq(E), z \in Seq(E) :
        x = Then(p, c) /\ y = Then(x, r) /\ z = Then(y, i)
  BY ThenFacts
<1>2. Then(p, <<>>) = p /\ Then(<<>>, c) = c /\ Then(c, <<>>) = c /\ Then(x, <<>>) = x
  BY ThenFacts
<1>3. Join(p, <<>>, r, i, n) = Join(p, r, <<>>, i, n)
  <2>1. Then(Then(p, r), <<>>) = Then(p, r)
    BY ThenFacts
  <2> QED
    BY <1>2, <2>1 DEF Join
<1>4. Join(p, c, <<>>, Then(r, i), n) = Join(p, c, r, i, n)
  <2>1. Then(Then(x, r), i) = Then(x, Then(r, i))
    BY ThenFacts
  <2> QED
    BY <1>1, <1>2, <2>1 DEF Join
<1>5. Join(p, c, r, Then(i, n), <<>>) = Join(p, c, r, i, n)
  <2>1. Then(Then(y, i), n) = Then(y, Then(i, n)) /\ Then(z, n) \in Seq(E)
    BY ThenFacts
  <2>2. Then(Then(z, n), <<>>) = Then(z, n)
    BY <2>1, ThenFacts
  <2> QED
    BY <1>1, <2>1, <2>2 DEF Join
<1>6. Join(<<>>, c, r, i, n) = Join(c, <<>>, r, i, n)
  BY <1>2 DEF Join
<1>7. Join(p, c, r, i, n) \in Seq(E)
  BY <1>1, ThenFacts DEF Join
<1>8. Join(p, c, r, i, n) = Then(p, Join(<<>>, c, r, i, n))
  <2>1. PICK u \in Seq(E), v \in Seq(E) : u = Then(c, r) /\ v = Then(u, i)
    BY ThenFacts
  <2>2. Then(Then(p, c), r) = Then(p, Then(c, r))
    BY ThenFacts
  <2>3. Then(Then(p, u), i) = Then(p, Then(u, i))
    BY ThenFacts
  <2>4. Then(Then(p, v), n) = Then(p, Then(v, n))
    BY ThenFacts
  <2> QED
    BY <1>2, <2>1, <2>2, <2>3, <2>4 DEF Join
<1> QED
  BY <1>3, <1>4, <1>5, <1>6, <1>7, <1>8

-----------------------------------------------------------------------------
(* The order of the pipeline *)

(* The instructions that can be issued, and what a slot can hold.          *)
Entries == UNION {{[id |-> t, instr |-> i] : i \in Instrs[t]} : t \in Ids}

Slotted == Entries \cup {Null, Bubble}

(* The shape of the pipeline: the fields, and empty markers where they may *)
(* be.                                                                     *)
PipeOK(p) ==
  /\ p = [in |-> p.in, inside |-> p.inside, ready |-> p.ready, cur |-> p.cur,
          prev |-> p.prev, extra |-> p.extra, wrote |-> p.wrote]
  /\ p.in \in Slotted /\ p.ready \in Slotted
  /\ p.inside \in Seq(Slotted)
  /\ p.cur \in Entries \cup {Null} /\ p.prev \in Entries \cup {Null}

(* What it carries, the oldest first.                                      *)
Carried(p) == Join(One(p.prev), One(p.cur), One(p.ready), Occupied(p.inside), One(p.in))

(* The same facts for the slots of the pipeline.                           *)
LEMMA OccupiedFacts ==
  /\ \A e \in Slotted : Occupied(<<e>>) = One(e) /\ One(e) \in Seq(Slotted) /\ <<e>> \in Seq(Slotted)
  /\ \A s \in Seq(Slotted) : Occupied(s) \in Seq(Slotted)
  /\ \A s, r \in Seq(Slotted) : Occupied(Then(s, r)) = Then(Occupied(s), Occupied(r))
<1>1. \A e \in Slotted : Occupied(<<e>>) = One(e) /\ One(e) \in Seq(Slotted)
  BY OccupiedOne
<1>2. \A e \in Slotted : <<e>> \in Seq(Slotted)
  OBVIOUS
<1>3. /\ \A s \in Seq(Slotted) : Occupied(s) \in Seq(Slotted)
      /\ \A s, r \in Seq(Slotted) : Occupied(s \o r) = Occupied(s) \o Occupied(r)
  BY OccupiedConcat
<1> QED
  BY <1>1, <1>2, <1>3 DEF Then

(* The instructions under way, place by place.                             *)
LEMMA CarriedIs ==
  ASSUME NEW p, PipeOK(p)
  PROVE  /\ Occupied(Slots(p)) = Carried(p)
         /\ One(p.prev) \in Seq(Slotted) /\ One(p.cur) \in Seq(Slotted) /\ One(p.ready) \in Seq(Slotted)
         /\ Occupied(p.inside) \in Seq(Slotted) /\ One(p.in) \in Seq(Slotted)
<1>1. /\ p.prev \in Slotted /\ p.cur \in Slotted /\ p.ready \in Slotted /\ p.in \in Slotted
      /\ p.inside \in Seq(Slotted)
  BY DEF PipeOK, Slotted
<1>2. Slots(p) = Then(Then(Then(Then(<<p.prev>>, <<p.cur>>), <<p.ready>>), p.inside), <<p.in>>)
  BY DEF Slots, Then
<1>3. /\ <<p.prev>> \in Seq(Slotted) /\ <<p.cur>> \in Seq(Slotted)
      /\ <<p.ready>> \in Seq(Slotted) /\ <<p.in>> \in Seq(Slotted)
  BY <1>1, OccupiedFacts
<1>4. /\ Then(<<p.prev>>, <<p.cur>>) \in Seq(Slotted)
      /\ Then(Then(<<p.prev>>, <<p.cur>>), <<p.ready>>) \in Seq(Slotted)
      /\ Then(Then(Then(<<p.prev>>, <<p.cur>>), <<p.ready>>), p.inside) \in Seq(Slotted)
  BY <1>1, <1>3, ThenFacts
<1>5. Occupied(Slots(p)) = Join(Occupied(<<p.prev>>), Occupied(<<p.cur>>), Occupied(<<p.ready>>),
                                Occupied(p.inside), Occupied(<<p.in>>))
  <2>1. PICK x \in Seq(Slotted), y \in Seq(Slotted), z \in Seq(Slotted) :
          x = Then(<<p.prev>>, <<p.cur>>) /\ y = Then(x, <<p.ready>>) /\ z = Then(y, p.inside)
    BY <1>4
  <2>2. Occupied(x) = Then(Occupied(<<p.prev>>), Occupied(<<p.cur>>))
    BY <1>3, <2>1, OccupiedFacts
  <2>3. Occupied(y) = Then(Occupied(x), Occupied(<<p.ready>>))
    BY <1>3, <2>1, OccupiedFacts
  <2>4. Occupied(z) = Then(Occupied(y), Occupied(p.inside))
    BY <1>1, <2>1, OccupiedFacts
  <2>5. Occupied(Then(z, <<p.in>>)) = Then(Occupied(z), Occupied(<<p.in>>))
    BY <1>3, <2>1, OccupiedFacts
  <2> QED
    BY <1>2, <2>1, <2>2, <2>3, <2>4, <2>5 DEF Join
<1> QED
  BY <1>1, <1>5, OccupiedFacts DEF Carried

(* The end of the pipeline hands over.                                     *)
LEMMA Reaping ==
  ASSUME NEW p, PipeOK(p)
  PROVE  PipeOK(Reap(p)) /\ Carried(Reap(p)) = Carried(p)
<1>1. CASE p.cur # Null
  BY <1>1 DEF Reap
<1>2. CASE p.cur = Null
  <2> DEFINE c == IF p.ready = Bubble THEN Null ELSE p.ready
             q == Reap(p)
  <2>1. q = [in |-> p.in, inside |-> p.inside, ready |-> Null, cur |-> c,
             prev |-> p.prev, extra |-> p.extra, wrote |-> p.wrote]
    BY <1>2 DEF Reap, PipeOK
  <2>2. /\ q.in = p.in /\ q.inside = p.inside /\ q.ready = Null /\ q.cur = c /\ q.prev = p.prev
        /\ q.extra = p.extra /\ q.wrote = p.wrote
    BY <2>1
  <2>3. PipeOK(q)
    <3>1. q = [in |-> q.in, inside |-> q.inside, ready |-> q.ready, cur |-> q.cur,
               prev |-> q.prev, extra |-> q.extra, wrote |-> q.wrote]
      BY <2>1, <2>2
    <3>2. c \in Entries \cup {Null}
      BY DEF PipeOK, Slotted
    <3> HIDE DEF q, c
    <3> QED
      BY <2>2, <3>1, <3>2 DEF PipeOK, Slotted
  <2>4. One(c) = One(p.ready) /\ One(Null) = <<>> /\ One(p.cur) = <<>>
    BY <1>2 DEF One
  <2> HIDE DEF q, c
  <2>5. Carried(q) = Join(One(p.prev), One(p.ready), <<>>, Occupied(p.inside), One(p.in))
    BY <2>2, <2>4 DEF Carried
  <2>6. Carried(p) = Join(One(p.prev), <<>>, One(p.ready), Occupied(p.inside), One(p.in))
    BY <2>4 DEF Carried
  <2>7. Carried(q) = Carried(p)
    BY <2>5, <2>6, CarriedIs, JoinFacts
  <2> QED
    BY <2>3, <2>7 DEF q
<1> QED
  BY <1>1, <1>2

(* The queue takes the instruction in and moves up.                        *)
LEMMA Queueing ==
  ASSUME NEW p, PipeOK(p)
  PROVE  PipeOK(ServePipeline(p)) /\ Carried(ServePipeline(p)) = Carried(p)
<1> DEFINE r == IF Len(p.inside) < NrPipelineStage - 1
                THEN [p EXCEPT !.inside = Append(@, p.in), !.in = Bubble]
                ELSE p
<1>0. /\ p.in \in Slotted /\ p.inside \in Seq(Slotted) /\ Bubble \in Slotted /\ Null \in Slotted
      /\ One(Bubble) = <<>> /\ One(Null) = <<>> /\ Len(p.inside) \in Nat
  BY DEF PipeOK, Slotted, One
<1>1. PipeOK(r) /\ Carried(r) = Carried(p) /\ r.inside # <<>> /\ r.ready = p.ready
  <2>1. CASE Len(p.inside) < NrPipelineStage - 1
    <3> DEFINE s == Append(p.inside, p.in)
    <3>1. r = [in |-> Bubble, inside |-> s, ready |-> p.ready, cur |-> p.cur,
               prev |-> p.prev, extra |-> p.extra, wrote |-> p.wrote]
      BY <2>1 DEF PipeOK
    <3>2. s \in Seq(Slotted) /\ s # <<>>
      BY <1>0, AppendProperties
    <3>3. Occupied(s) = Then(Occupied(p.inside), One(p.in))
      <4>1. s = Then(p.inside, <<p.in>>)
        BY <1>0, ThenAppend
      <4> HIDE DEF s
      <4> QED
        BY <1>0, <4>1, OccupiedFacts
    <3>4. /\ r.in = Bubble /\ r.inside = s /\ r.ready = p.ready /\ r.cur = p.cur /\ r.prev = p.prev
          /\ r.extra = p.extra /\ r.wrote = p.wrote
      BY <3>1
    <3>5. r = [in |-> r.in, inside |-> r.inside, ready |-> r.ready, cur |-> r.cur,
               prev |-> r.prev, extra |-> r.extra, wrote |-> r.wrote]
      BY <3>1, <3>4
    <3> HIDE DEF r, s
    <3>6. PipeOK(r)
      BY <1>0, <3>2, <3>4, <3>5 DEF PipeOK
    <3>7. Carried(r) = Join(One(p.prev), One(p.cur), One(p.ready), Then(Occupied(p.inside), One(p.in)), <<>>)
      BY <1>0, <3>3, <3>4 DEF Carried
    <3>8. Carried(r) = Carried(p)
      BY <3>7, CarriedIs, JoinFacts DEF Carried
    <3> QED
      BY <3>2, <3>4, <3>6, <3>8
  <2>2. CASE ~(Len(p.inside) < NrPipelineStage - 1)
    <3>1. p.inside # <<>>
      BY <1>0, <2>2, IssueAssumption
    <3> QED
      BY <2>2, <3>1
  <2> QED
    BY <2>1, <2>2
<1>2. ServePipeline(p) = IF p.ready = Null
                         THEN [r EXCEPT !.ready = Head(r.inside), !.inside = Tail(r.inside)]
                         ELSE r
  BY DEF ServePipeline
<1> HIDE DEF r
<1>3. CASE p.ready # Null
  BY <1>1, <1>2, <1>3
<1>4. CASE p.ready = Null
  <2> DEFINE q == ServePipeline(p)
             s == Tail(r.inside)
             e == Head(r.inside)
  <2>1. r.inside \in Seq(Slotted) /\ e \in Slotted /\ s \in Seq(Slotted)
    BY <1>1, HeadTailProperties DEF PipeOK
  <2>2. q = [in |-> r.in, inside |-> s, ready |-> e, cur |-> r.cur,
             prev |-> r.prev, extra |-> r.extra, wrote |-> r.wrote]
    BY <1>1, <1>2, <1>4 DEF PipeOK
  <2>3. /\ q.in = r.in /\ q.inside = s /\ q.ready = e /\ q.cur = r.cur /\ q.prev = r.prev
        /\ q.extra = r.extra /\ q.wrote = r.wrote
    BY <2>2
  <2>4. q = [in |-> q.in, inside |-> q.inside, ready |-> q.ready, cur |-> q.cur,
             prev |-> q.prev, extra |-> q.extra, wrote |-> q.wrote]
    BY <2>2, <2>3
  <2>5. r.inside = Then(<<e>>, s)
    <3>1. PICK z \in Seq(Slotted) : z = r.inside /\ z # <<>>
      BY <1>1, <2>1
    <3>2. z = <<Head(z)>> \o Tail(z)
      BY <3>1, HeadTailProperties
    <3> QED
      BY <3>1, <3>2 DEF Then
  <2> HIDE DEF q, s, e
  <2>6. Occupied(r.inside) = Then(One(e), Occupied(s))
    <3>1. <<e>> \in Seq(Slotted) /\ Occupied(<<e>>) = One(e)
      BY <2>1, OccupiedFacts
    <3>2. Occupied(Then(<<e>>, s)) = Then(Occupied(<<e>>), Occupied(s))
      BY <2>1, <3>1, OccupiedFacts
    <3> QED
      BY <2>5, <3>1, <3>2
  <2>7. PipeOK(q)
    BY <1>1, <2>1, <2>3, <2>4 DEF PipeOK
  <2>8. Carried(q) = Join(One(r.prev), One(r.cur), One(e), Occupied(s), One(r.in))
    BY <2>3 DEF Carried
  <2>9. Carried(r) = Join(One(r.prev), One(r.cur), <<>>, Then(One(e), Occupied(s)), One(r.in))
    BY <1>0, <1>1, <1>4, <2>6 DEF Carried
  <2>10. One(e) \in Seq(Slotted) /\ Occupied(s) \in Seq(Slotted)
    BY <2>1, OccupiedFacts
  <2>11. Carried(q) = Carried(r)
    <3>1. PICK a \in Seq(Slotted), b \in Seq(Slotted), c \in Seq(Slotted),
               d \in Seq(Slotted), n \in Seq(Slotted) :
            a = One(r.prev) /\ b = One(r.cur) /\ c = One(e) /\ d = Occupied(s) /\ n = One(r.in)
      BY <1>1, <2>10, CarriedIs
    <3>2. Join(a, b, <<>>, Then(c, d), n) = Join(a, b, c, d, n)
      BY JoinFacts
    <3> QED
      BY <2>8, <2>9, <3>1, <3>2
  <2> QED
    BY <1>1, <2>7, <2>11 DEF q
<1> QED
  BY <1>3, <1>4

(* No instruction is mistaken for an empty slot.                           *)
LEMMA EntriesStand == nrTasklets \in TaskletCounts => \A e \in Entries : e \notin {Null, Bubble}
<1> SUFFICES ASSUME nrTasklets \in TaskletCounts, NEW e \in Entries PROVE e \notin {Null, Bubble}
  OBVIOUS
<1>1. PICK t \in 0 .. nrTasklets - 1 : \E i \in Instrs[t] : e = [id |-> t, instr |-> i]
  BY DEF Entries, Ids
<1>2. PICK i \in Instrs[t] : e = [id |-> t, instr |-> i]
  BY <1>1
<1> QED
  BY <1>1, <1>2, IssueAssumption

(* The bank rule keeps the oldest instruction or lets it go.               *)
LEMMA BankRule ==
  ASSUME NEW p, PipeOK(p), nrTasklets \in TaskletCounts
  PROVE  PipeOK(ServeCycleRule(p)) /\ Carried(ServeCycleRule(p)) \in Leaving(Carried(p))
<1> DEFINE enter == p.cur # Null /\ p.prev = Null
           x == ExtraCycles(isa, p.cur.instr.reads \cup p.wrote[p.cur.id])
           q == IF enter THEN [p EXCEPT !.cur = Null, !.prev = p.cur, !.extra = x] ELSE p
           r == IF q.prev # Null /\ q.extra <= 0
                THEN [q EXCEPT !.prev = Null, !.wrote[q.prev.id] = q.prev.instr.writes]
                ELSE q
           z == [r EXCEPT !.extra = IF @ > 0 THEN @ - 1 ELSE 0]
<1>0. One(Null) = <<>> /\ ServeCycleRule(p) = z
  BY DEF One, ServeCycleRule
<1>1. PipeOK(q) /\ Carried(q) = Carried(p)
  <2>1. CASE enter
    <3> HIDE DEF x
    <3>1. q = [in |-> p.in, inside |-> p.inside, ready |-> p.ready, cur |-> Null,
               prev |-> p.cur, extra |-> x, wrote |-> p.wrote]
      BY <2>1 DEF PipeOK
    <3>2. /\ q.in = p.in /\ q.inside = p.inside /\ q.ready = p.ready /\ q.cur = Null /\ q.prev = p.cur
          /\ q.extra = x /\ q.wrote = p.wrote
      BY <3>1
    <3>3. q = [in |-> q.in, inside |-> q.inside, ready |-> q.ready, cur |-> q.cur,
               prev |-> q.prev, extra |-> q.extra, wrote |-> q.wrote]
      BY <3>1, <3>2
    <3> HIDE DEF q
    <3>4. PipeOK(q)
      BY <3>2, <3>3 DEF PipeOK
    <3>5. Carried(q) = Join(One(p.cur), <<>>, One(p.ready), Occupied(p.inside), One(p.in))
      BY <1>0, <3>2 DEF Carried
    <3>6. Carried(p) = Join(<<>>, One(p.cur), One(p.ready), Occupied(p.inside), One(p.in))
      BY <1>0, <2>1 DEF Carried
    <3>7. Carried(q) = Carried(p)
      BY <3>5, <3>6, CarriedIs, JoinFacts
    <3> QED
      BY <3>4, <3>7
  <2>2. CASE ~enter
    BY <2>2
  <2> QED
    BY <2>1, <2>2
<1> HIDE DEF q
<1>2. PipeOK(r) /\ Carried(r) \in Leaving(Carried(q))
  <2>1. CASE q.prev # Null /\ q.extra <= 0
    <3> DEFINE w == [q.wrote EXCEPT ![q.prev.id] = q.prev.instr.writes]
    <3>1. r = [in |-> q.in, inside |-> q.inside, ready |-> q.ready, cur |-> q.cur,
               prev |-> Null, extra |-> q.extra, wrote |-> w]
      BY <1>1, <2>1 DEF PipeOK
    <3> HIDE DEF r, w
    <3>2. /\ r.in = q.in /\ r.inside = q.inside /\ r.ready = q.ready /\ r.cur = q.cur /\ r.prev = Null
          /\ r.extra = q.extra /\ r.wrote = w
      BY <3>1
    <3>3. r = [in |-> r.in, inside |-> r.inside, ready |-> r.ready, cur |-> r.cur,
               prev |-> r.prev, extra |-> r.extra, wrote |-> r.wrote]
      BY <3>1, <3>2
    <3>4. PipeOK(r)
      BY <1>1, <3>2, <3>3 DEF PipeOK
    <3>5. q.prev \in Entries /\ q.prev \in Slotted /\ One(q.prev) = <<q.prev>>
      BY <1>1, <2>1, EntriesStand DEF PipeOK, One, Slotted
    <3>6. PICK e \in Slotted, c \in Seq(Slotted), d \in Seq(Slotted), i \in Seq(Slotted), n \in Seq(Slotted) :
            e = q.prev /\ c = One(q.cur) /\ d = One(q.ready) /\ i = Occupied(q.inside) /\ n = One(q.in)
      BY <1>1, <3>5, CarriedIs
    <3>7. Join(<<e>>, c, d, i, n) # <<>> /\ Tail(Join(<<e>>, c, d, i, n)) = Join(<<>>, c, d, i, n)
      <4>1. PICK o \in Seq(Slotted), h \in Seq(Slotted) : o = <<>> /\ h = <<e>>
        BY ThenFacts
      <4>2. Join(h, c, d, i, n) = Then(h, Join(<<>>, c, d, i, n)) /\ Join(o, c, d, i, n) \in Seq(Slotted)
        BY JoinFacts
      <4>3. PICK u \in Seq(Slotted) : u = Join(<<>>, c, d, i, n)
        BY <4>1, <4>2
      <4>4. Then(<<e>>, u) # <<>> /\ Tail(Then(<<e>>, u)) = u
        BY ThenFacts
      <4> QED
        BY <4>1, <4>2, <4>3, <4>4
    <3>8. Carried(q) = Join(<<e>>, c, d, i, n)
      BY <3>5, <3>6 DEF Carried
    <3>9. Carried(r) = Join(<<>>, c, d, i, n)
      BY <1>0, <3>2, <3>6 DEF Carried
    <3> QED
      BY <3>4, <3>7, <3>8, <3>9 DEF Leaving
  <2>2. CASE ~(q.prev # Null /\ q.extra <= 0)
    BY <1>1, <2>2 DEF Leaving
  <2> QED
    BY <2>1, <2>2
<1> HIDE DEF r
<1>3. PipeOK(z) /\ Carried(z) = Carried(r)
  <2> DEFINE y == IF r.extra > 0 THEN r.extra - 1 ELSE 0
  <2>1. z = [in |-> r.in, inside |-> r.inside, ready |-> r.ready, cur |-> r.cur,
             prev |-> r.prev, extra |-> y, wrote |-> r.wrote]
    BY <1>2 DEF PipeOK
  <2> HIDE DEF y
  <2>2. /\ z.in = r.in /\ z.inside = r.inside /\ z.ready = r.ready /\ z.cur = r.cur /\ z.prev = r.prev
        /\ z.extra = y /\ z.wrote = r.wrote
    BY <2>1
  <2>3. z = [in |-> z.in, inside |-> z.inside, ready |-> z.ready, cur |-> z.cur,
             prev |-> z.prev, extra |-> z.extra, wrote |-> z.wrote]
    BY <2>1, <2>2
  <2> HIDE DEF z
  <2> QED
    BY <1>2, <2>2, <2>3 DEF PipeOK, Carried
<1> QED
  BY <1>0, <1>1, <1>2, <1>3

(* A logic cycle of the pipeline.                                          *)
LEMMA Flowing ==
  ASSUME NEW p, PipeOK(p), nrTasklets \in TaskletCounts
  PROVE  PipeOK(Flow(p)) /\ Carried(Flow(p)) \in Leaving(Carried(p))
<1>1. PICK q : q = Reap(p) /\ PipeOK(q) /\ Carried(q) = Carried(p)
  BY Reaping
<1>2. PICK r : r = ServePipeline(q) /\ PipeOK(r) /\ Carried(r) = Carried(p)
  BY <1>1, Queueing
<1>3. PipeOK(ServeCycleRule(r)) /\ Carried(ServeCycleRule(r)) \in Leaving(Carried(r))
  BY <1>2, BankRule
<1> QED
  BY <1>1, <1>2, <1>3 DEF Flow

(* The pipeline has its shape all the time.                                *)
PipeInv == nrTasklets \in TaskletCounts /\ PipeOK(pipe)

(* It starts empty.                                                        *)
LEMMA PipeInit == Init => PipeInv
<1> SUFFICES ASSUME Init PROVE PipeOK(pipe)
  BY DEF PipeInv, Init
<1> DEFINE s == [i \in 1 .. NrPipelineStage - 1 |-> Bubble]
           w == [t \in Ids |-> {}]
<1>1. s \in Seq(Slotted)
  BY IssueAssumption DEF Slotted
<1>2. pipe = [in |-> Bubble, inside |-> s, ready |-> Bubble, cur |-> Null, prev |-> Null, extra |-> 0, wrote |-> w]
  BY DEF Init
<1> HIDE DEF s, w
<1>3. /\ pipe.in = Bubble /\ pipe.inside = s /\ pipe.ready = Bubble /\ pipe.cur = Null
      /\ pipe.prev = Null /\ pipe.extra = 0 /\ pipe.wrote = w
  BY <1>2
<1> QED
  BY <1>1, <1>2, <1>3 DEF PipeOK, Slotted

(* Every cycle keeps the order: only the oldest instruction leaves, and    *)
(* only the one that is issued comes in.                                   *)
LEMMA PipeNext == IssueInv /\ PipeInv /\ [Next]_vars => PipeInv' /\ [OrderKept]_vars
<1> SUFFICES ASSUME IssueInv, PipeInv, [Next]_vars PROVE PipeInv' /\ [OrderKept]_vars
  OBVIOUS
<1>1. nrTasklets' = nrTasklets /\ Ids' = Ids /\ Entries' = Entries /\ Slotted' = Slotted
  BY DEF Next, Cycle, Issue, NoIssue, Launch, vars, Ids, Entries, Slotted
<1>2. nrTasklets \in TaskletCounts /\ PipeOK(pipe) /\ Flight = Carried(pipe)
  BY CarriedIs DEF PipeInv, Flight
<1>3. PipeOK(pipe') => PipeInv' /\ Flight' = Carried(pipe')
  <2> SUFFICES ASSUME PipeOK(pipe') PROVE PipeInv' /\ Flight' = Carried(pipe')
    OBVIOUS
  <2>1. PICK q : q = pipe'
    OBVIOUS
  <2>2. PipeOK(q) /\ Occupied(Slots(q)) = Carried(q)
    BY <2>1, CarriedIs
  <2>3. PipeOK(pipe)'
    BY <1>1, <2>1, <2>2 DEF PipeOK
  <2> QED
    BY <1>1, <1>2, <2>1, <2>2, <2>3 DEF PipeInv, Flight
<1>4. ASSUME NEW t \in Ids, NEW freed \in SUBSET blocked, Issue(t, freed)
      PROVE  PipeInv' /\ (~Stopped => OrderKept)
  <2>1. PICK i \in Instrs[t] : pipe' = Flow([pipe EXCEPT !.in = [id |-> t, instr |-> i]])
    BY <1>4 DEF Issue
  <2> DEFINE e == [id |-> t, instr |-> i]
             p == [pipe EXCEPT !.in = e]
  <2>2. e \in Entries /\ e \in Slotted /\ One(e) = <<e>>
    <3>1. e \in Entries
      BY DEF Entries
    <3> HIDE DEF e
    <3> QED
      BY <1>2, <3>1, EntriesStand DEF Slotted, One
  <2> HIDE DEF e
  <2>3. p = [in |-> e, inside |-> pipe.inside, ready |-> pipe.ready, cur |-> pipe.cur,
             prev |-> pipe.prev, extra |-> pipe.extra, wrote |-> pipe.wrote]
    BY <1>2 DEF PipeOK
  <2>4. /\ p.in = e /\ p.inside = pipe.inside /\ p.ready = pipe.ready /\ p.cur = pipe.cur
        /\ p.prev = pipe.prev /\ p.extra = pipe.extra /\ p.wrote = pipe.wrote
    BY <2>3
  <2>5. p = [in |-> p.in, inside |-> p.inside, ready |-> p.ready, cur |-> p.cur,
             prev |-> p.prev, extra |-> p.extra, wrote |-> p.wrote]
    BY <2>3, <2>4
  <2>6. pipe' = Flow(p)
    BY <2>1 DEF e
  <2> HIDE DEF p
  <2>7. PipeOK(p)
    BY <1>2, <2>2, <2>4, <2>5 DEF PipeOK
  <2>8. Carried(p) = Append(Flight, e)
    <3>1. One(pipe.in) = <<>>
      BY <1>4 DEF Issue, Stalled, One
    <3>2. PICK a \in Seq(Slotted), b \in Seq(Slotted), c \in Seq(Slotted), d \in Seq(Slotted) :
            a = One(pipe.prev) /\ b = One(pipe.cur) /\ c = One(pipe.ready) /\ d = Occupied(pipe.inside)
      BY <1>2, CarriedIs
    <3>3. Append(Join(a, b, c, d, <<>>), e) = Join(a, b, c, d, <<e>>)
      <4>1. PICK x \in Seq(Slotted), y \in Seq(Slotted), z \in Seq(Slotted) :
              x = Then(a, b) /\ y = Then(x, c) /\ z = Then(y, d)
        BY ThenFacts
      <4>2. Then(z, <<>>) = z
        BY ThenFacts
      <4>3. Append(z, e) = Then(z, <<e>>)
        BY <2>2, ThenAppend
      <4> QED
        BY <4>1, <4>2, <4>3 DEF Join
    <3>4. Flight = Join(a, b, c, d, <<>>)
      BY <1>2, <3>1, <3>2 DEF Carried
    <3>5. Carried(p) = Join(a, b, c, d, <<e>>)
      BY <2>2, <2>4, <3>2 DEF Carried
    <3> QED
      BY <3>3, <3>4, <3>5
  <2>9. PipeOK(pipe') /\ Carried(pipe') \in Leaving(Append(Flight, e))
    BY <1>2, <2>6, <2>7, <2>8, Flowing
  <2>10. since'[t] = 0
    BY <1>4 DEF Issue
  <2>11. Flight' \in Leaving(Append(Flight, e))
    BY <1>3, <2>9
  <2> QED
    BY <1>3, <2>9, <2>10, <2>11 DEF OrderKept, Issues, e
<1>5. ASSUME NEW freed \in SUBSET blocked, NoIssue(freed)
      PROVE  PipeInv' /\ OrderKept
  <2>1. PipeOK(pipe') /\ Carried(pipe') \in Leaving(Flight)
    BY <1>2, <1>5, Flowing DEF NoIssue
  <2>2. \A t \in Ids : since'[t] # 0
    BY <1>5, IssueAssumption DEF NoIssue, Older, LimitTo, IssueInv
  <2> QED
    BY <1>3, <2>1, <2>2 DEF OrderKept, Issues
<1>6. CASE Launch
  BY <1>2, <1>3, <1>6 DEF Launch, OrderKept, Issues, Leaving
<1>7. CASE UNCHANGED vars
  BY <1>2, <1>3, <1>7 DEF vars
<1>8. CASE Cycle
  BY <1>4, <1>5, <1>8 DEF Cycle
<1> QED
  BY <1>6, <1>7, <1>8 DEF Next

(* For any pipeline length, any instructions and any stalls: instructions  *)
(* leave the timing model in the order of their issue (rvisa/timing.c:56), *)
(* none lost on the way, repeated or overtaken.                            *)
THEOREM LeavesInOrder == Spec => InOrder
BY IssueInit, IssueNext, PipeInit, PipeNext, PTL DEF Spec, InOrder

-----------------------------------------------------------------------------
(* Both together: the invariants of the sides in the parts that have them. *)

MCInv ==
  /\ part \in {"issue", "memory", "both"}
  /\ part = "both" => IssueInv /\ nrTasklets \in TaskletCounts
  /\ part # "issue" => MemInv /\ Punctual

(* Either side alone, a logic cycle of both, a memory cycle, the next run. *)
LEMMA TogetherNext ==
  ASSUME LogicKeepsUp, NoEmptyTransfer PROVE MCInv /\ [MCNext]_allVars => MCInv'
<1> SUFFICES ASSUME MCInv, [MCNext]_allVars PROVE MCInv'
  OBVIOUS
<1>1. CASE part = "issue" /\ part' = part
  BY <1>1 DEF MCInv
<1>2. CASE part = "memory" /\ MemNext /\ UNCHANGED part
  <2>1. MemInv' /\ Punctual'
    BY <1>2, MemNextKeeps DEF MCInv, Keeps
  <2> QED
    BY <1>2, <2>1 DEF MCInv
<1>3. CASE part = "both" /\ MemoryCycle /\ UNCHANGED <<part, issueVars>>
  <2>1. MemInv' /\ Punctual'
    BY <1>3, MemoryCycleKeeps DEF MCInv, Keeps
  <2>2. UNCHANGED vars
    BY <1>3 DEF MemoryCycle, issueVars, vars
  <2>3. IssueInv' /\ nrTasklets' = nrTasklets
    BY <1>3, <2>2, IssueNext DEF MCInv, vars
  <2> QED
    BY <1>3, <2>1, <2>3 DEF MCInv
<1>4. CASE part = "both" /\ LogicCycle /\ UNCHANGED part
  <2>1. IssueInv' /\ nrTasklets' = nrTasklets
    <3>1. Cycle
      BY <1>4 DEF LogicCycle
    <3>2. IssueInv'
      BY <1>4, <3>1, IssueNext DEF MCInv, Next
    <3> QED
      BY <3>1, <3>2 DEF Cycle, Issue, NoIssue
  <2>2. Ids \subseteq Threads
    BY <1>4, ThreadsAssumption DEF MCInv, Ids
  <2>3. MemNext
    BY <1>4, <2>2 DEF LogicCycle, MemNext
  <2>4. MemInv' /\ Punctual'
    BY <1>4, <2>3, MemNextKeeps DEF MCInv, Keeps
  <2> QED
    BY <1>4, <2>1, <2>4 DEF MCInv
<1>5. CASE part = "both" /\ NextRun
  <2>1. Launch /\ UNCHANGED <<part, mt, memLeft>>
    BY <1>5 DEF NextRun
  <2>2. blocked = {} /\ blocked' = {}
    BY <1>5, <2>1 DEF MCInv, IssueInv, Launch, Stopped
  <2>3. UNCHANGED memVars
    BY <2>1, <2>2 DEF memVars
  <2>4. MemInv' /\ Punctual'
    BY <1>5, <2>3, MemNextKeeps DEF MCInv, Keeps
  <2>5. IssueInv' /\ nrTasklets' = nrTasklets
    BY <1>5, <2>1, IssueNext DEF MCInv, Next, Launch
  <2> QED
    BY <1>5, <2>1, <2>4, <2>5 DEF MCInv
<1>6. CASE UNCHANGED allVars
  <2>1. part' = part /\ UNCHANGED vars /\ UNCHANGED memVars
    BY <1>6 DEF allVars, issueVars, vars, memVars
  <2>2. part # "issue" => MemInv' /\ Punctual'
    BY <2>1, MemNextKeeps DEF MCInv, Keeps
  <2>3. part = "both" => IssueInv' /\ nrTasklets' = nrTasklets
    BY <2>1, IssueNext DEF MCInv, vars
  <2> QED
    BY <2>1, <2>2, <2>3 DEF MCInv
<1>7. CASE part = "issue" /\ NextRun
  BY <1>1, <1>7 DEF NextRun
<1> QED
  BY <1>1, <1>2, <1>3, <1>4, <1>5, <1>6, <1>7 DEF MCNext, Clock, NextRun, MCInv

(* The same of the two sides together, as RvTimingCycle and UmmTimingCycle *)
(* join them: the issue logic never lets a blocked thread ask again, and a *)
(* launch, which clears the blocked bits, finds none set.                  *)
THEOREM RememberedTogether ==
  ASSUME LogicKeepsUp, NoEmptyTransfer PROVE MCSpec => []NoThreadForgotten
<1>1. MCInit => MCInv
  BY IssueInit, MemStart DEF MCInit, MCInv, Init
<1>2. MCInv => NoThreadForgotten
  BY NobodyIs DEF MCInv, NoThreadForgotten
<1> QED
  BY <1>1, <1>2, TogetherNext, PTL DEF MCSpec

(* The issue logic's side of it: in the part of the memory alone nobody is *)
(* issued; in the others every step is one of its own.                     *)
IssueSide ==
  /\ PipeInv
  /\ part # "memory" => IssueInv
  /\ part = "memory" => running # {} /\ \A t \in Ids : since[t] # 0

(* Every part starts so.                                                   *)
LEMMA IssueSideInit == MCInit => IssueSide
<1> SUFFICES ASSUME MCInit PROVE IssueSide
  OBVIOUS
<1>1. PipeInv /\ IssueInv
  BY IssueInit, PipeInit DEF MCInit
<1>2. running # {} /\ \A t \in Ids : since[t] # 0
  <2>1. Init
    BY DEF MCInit
  <2>2. nrTasklets \in Nat \ {0} /\ NrRevolveCycle # 0
    BY <2>1, IssueAssumption DEF Init
  <2>3. 0 \in Ids
    BY <2>2 DEF Ids
  <2>4. running # {}
    BY <2>1, <2>3 DEF Init, Started
  <2>5. \A t \in Ids : since[t] # 0
    BY <2>1, <2>2 DEF Init
  <2> QED
    BY <2>4, <2>5
<1> QED
  BY <1>1, <1>2 DEF IssueSide

(* No step of the composition is one the issue logic would not take.       *)
LEMMA IssueSideNext ==
  IssueSide /\ [MCNext]_allVars => IssueSide' /\ [RevolverKept]_vars /\ [OrderKept]_vars
<1> SUFFICES ASSUME IssueSide, [MCNext]_allVars
             PROVE  IssueSide' /\ [RevolverKept]_vars /\ [OrderKept]_vars
  OBVIOUS
<1>1. part' = part
  BY DEF MCNext, Clock, NextRun, allVars
<1>2. CASE part # "memory"
  <2>1. [Next]_vars
    BY <1>2 DEF MCNext, Clock, NextRun, LogicCycle, MemoryCycle, Next, allVars, issueVars, vars
  <2> QED
    BY <1>1, <1>2, <2>1, IssueNext, PipeNext DEF IssueSide
<1>3. CASE part = "memory"
  <2>1. UNCHANGED issueVars
    BY <1>3 DEF MCNext, Clock, NextRun, allVars
  <2>2. Ids' = Ids /\ Flight' = Flight /\ Entries' = Entries /\ Slotted' = Slotted
    BY <2>1 DEF issueVars, Ids, Flight, Entries, Slotted
  <2>3. PipeInv'
    BY <2>1, <2>2 DEF IssueSide, PipeInv, PipeOK, issueVars
  <2>4. RevolverKept /\ OrderKept
    BY <1>3, <2>1, <2>2 DEF RevolverKept, OrderKept, Issues, Leaving, IssueSide, issueVars
  <2> QED
    BY <1>1, <1>3, <2>1, <2>2, <2>3, <2>4 DEF IssueSide, issueVars
<1> QED
  BY <1>2, <1>3

(* Put beside the memory the issue logic keeps its promises: no DMA is     *)
(* under way at the end of a run, the revolver keeps its distance, and the *)
(* pipeline its order.                                                     *)
THEOREM IssueTogether == MCSpec => []NothingOutstanding /\ RevolveRule /\ InOrder
<1>1. IssueSide => NothingOutstanding
  BY DEF IssueSide, IssueInv, NothingOutstanding, Stopped
<1> QED
  BY <1>1, IssueSideInit, IssueSideNext, PTL DEF MCSpec, RevolveRule, InOrder

=================================================================================
