------------------------------- MODULE HashMap -------------------------------
(***************************************************************************)
(* The symbol map: thrdUnsafeHash/hashmap.c under the interface of         *)
(* slicehash.c, through which both loaders and the host API reach it.  It  *)
(* is an open-addressed table with Robin Hood probing: a bucket records    *)
(* how far its item is from home (dib, 0 in an empty bucket), and an item  *)
(* on its way takes the bucket of one that is nearer to home.              *)
(*                                                                         *)
(* "given" maps each name to its hash, any function; names are compared    *)
(* as a whole, so two may share a hash.  "st" is the table and the call    *)
(* under way, one round of a loop at a time, with the contents that the    *)
(* calls so far should leave in "want".                                    *)
(***************************************************************************)
EXTENDS Integers, FiniteSets

CONSTANTS Hashes,      \* the hash functions tried
          Names, Values,
          Absent,      \* 0x44f8a1ef: the value of a name that is not there
          MinCap       \* 16: the smallest table

ASSUME HashAssumption == Hashes \subseteq [Names -> Nat]
ASSUME MinCapAssumption == MinCap \in Nat \ {0}

VARIABLES given, st

Empty == [dib |-> 0, name |-> "", val |-> Absent]
Table(n) == [i \in 0..n-1 |-> Empty]
GrowAt(n) == (n * 60) \div 100
ShrinkAt(n) == n \div 10

Size(b) == Cardinality(DOMAIN b)
At(b, name, k) == (given[name] + k) % Size(b)
After(b, i) == (i + 1) % Size(b)

\* The lookup goes on to the first empty bucket, whatever the distances are.
Reached(b, name) == {k \in 0..Size(b) - 1 :
                       \A j \in 0..k : b[At(b, name, j)].dib # 0}
Hits(b, name) == {k \in Reached(b, name) : b[At(b, name, k)].name = name}
First(ks) == CHOOSE k \in ks : \A j \in ks : k <= j
DmmMapFetch(name) ==
  IF Hits(st.b, name) = {} THEN Absent
  ELSE st.b[At(st.b, name, First(Hits(st.b, name)))].val

\* A call under way: the entry e it carries, or the hole it leaves, is at
\* bucket i; a resize is at bucket "at" of the old table and will assign "todo".
Idle == [pc |-> "idle", e |-> Empty, i |-> 0, old |-> Table(0), at |-> 0, todo |-> Empty]
Inserting(b, e) == [Idle EXCEPT !.pc = "probe", !.e = e, !.i = At(b, e.name, 0)]
Resizing(old, todo) == [Idle EXCEPT !.pc = "move", !.old = old, !.todo = todo]
------------------------------------------------------------------------------
\* hashmap_new, with the least capacity.
Init == /\ given \in Hashes
        /\ st = [b |-> Table(MinCap), cap |-> MinCap, count |-> 0, call |-> Idle,
                 want |-> [n \in Names |-> Absent]]

DmmMapAssign(name, val) ==
  /\ st.call.pc = "idle"
  /\ LET e == [dib |-> 1, name |-> name, val |-> val]
         full == st.count >= GrowAt(Size(st.b))
     IN  st' = [st EXCEPT !.want[name] = val,
                  !.b = IF full THEN Table(2 * Size(@)) ELSE @,
                  !.call = IF full THEN Resizing(st.b, e) ELSE Inserting(st.b, e)]

\* The probing loop, in an assignment ("probe") or a resize ("settle", which
\* does not compare names): what happens to e at bucket i.
Carrying == st.call.pc \in {"probe", "settle"}
There == st.b[st.call.i]
Known == st.call.pc = "probe" /\ There.name = st.call.e.name
Farther(x) == [x EXCEPT !.dib = @ + 1]

Place == /\ Carrying /\ There.dib = 0
         /\ st' = [st EXCEPT !.b[st.call.i] = st.call.e,
                     !.count = IF st.call.pc = "probe" THEN @ + 1 ELSE @,
                     !.call = IF @.pc = "probe" THEN Idle
                              ELSE [@ EXCEPT !.pc = "move", !.e = Empty, !.i = 0]]

Replace == /\ Carrying /\ There.dib # 0 /\ Known
           /\ st' = [st EXCEPT !.b[st.call.i].val = st.call.e.val, !.call = Idle]

PushAside == /\ Carrying /\ There.dib # 0 /\ ~Known /\ There.dib < st.call.e.dib
             /\ st' = [st EXCEPT !.b[st.call.i] = st.call.e,
                         !.call.e = Farther(There), !.call.i = After(st.b, @)]

GoOn == /\ Carrying /\ There.dib # 0 /\ ~Known /\ There.dib >= st.call.e.dib
        /\ st' = [st EXCEPT !.call.e = Farther(@), !.call.i = After(st.b, @)]

\* Mutant: an item keeps the home it had in the old table.
MoveNextOldHome ==
  /\ st.call.pc = "move" /\ st.call.at < Size(st.call.old)
  /\ LET item == st.call.old[st.call.at]
         next == st.call.at + 1
     IN  st' = [st EXCEPT !.call =
           IF item.dib = 0 THEN [@ EXCEPT !.at = next]
           ELSE [@ EXCEPT !.at = next, !.pc = "settle", !.i = At(st.call.old, item.name, 0),
                          !.e = [item EXCEPT !.dib = 1]]]

\* resize0: the items of the old table, bucket by bucket, into the new one.
MoveNext ==
  /\ st.call.pc = "move" /\ st.call.at < Size(st.call.old)
  /\ LET item == st.call.old[st.call.at]
         next == st.call.at + 1
     IN  st' = [st EXCEPT !.call =
           IF item.dib = 0 THEN [@ EXCEPT !.at = next]
           ELSE [@ EXCEPT !.at = next, !.pc = "settle", !.i = At(st.b, item.name, 0),
                          !.e = [item EXCEPT !.dib = 1]]]

Resized ==
  /\ st.call.pc = "move" /\ st.call.at = Size(st.call.old)
  /\ st' = [st EXCEPT !.call = IF @.todo.dib = 0 THEN Idle ELSE Inserting(st.b, @.todo)]

\* Deletion, and the shrinking that may follow it, are hashmap.c's; slicehash.c
\* offers them to nobody, so in this program a map only grows or is cleared.
Delete(name) ==
  /\ st.call.pc = "idle" /\ Hits(st.b, name) # {}
  /\ st' = [st EXCEPT !.want[name] = Absent,
              !.call = [Idle EXCEPT !.pc = "shift",
                                    !.i = At(st.b, name, First(Hits(st.b, name)))]]

Nearer(x) == [x EXCEPT !.dib = @ - 1]

\* The displaced items behind the hole move back by one, up to one at home.
ShiftBack ==
  LET next == After(st.b, st.call.i)
  IN  /\ st.call.pc = "shift" /\ st.b[next].dib > 1
      /\ st' = [st EXCEPT !.b[st.call.i] = Nearer(st.b[next]), !.call.i = next]

Deleted ==
  LET left == st.count - 1
      small == Size(st.b) > st.cap /\ left <= ShrinkAt(Size(st.b))
      b == [st.b EXCEPT ![st.call.i] = Empty]
  IN  /\ st.call.pc = "shift" /\ st.b[After(st.b, st.call.i)].dib <= 1
      /\ st' = [st EXCEPT !.count = left,
                  !.b = IF small THEN Table(Size(b) \div 2) ELSE b,
                  !.call = IF small THEN Resizing(b, Empty) ELSE Idle]

\* The map keeps the buckets it has grown to.
DmmMapClear == /\ st.call.pc = "idle"
               /\ st' = [st EXCEPT !.b = Table(Size(st.b)), !.cap = Size(st.b),
                                   !.count = 0, !.want = [n \in Names |-> Absent]]

Next == /\ UNCHANGED given
        /\ \/ \E name \in Names, val \in Values : DmmMapAssign(name, val)
           \/ \E name \in Names : Delete(name)
           \/ Place \/ Replace \/ PushAside \/ GoOn
           \/ MoveNext \/ Resized \/ ShiftBack \/ Deleted
           \/ DmmMapClear

Spec == Init /\ [][Next]_<<given, st>>
------------------------------------------------------------------------------
\* The table is a map: whatever items were pushed aside, moved back or moved
\* to a larger or a smaller table, each name fetches what it was last given.
FetchIsLastAssigned ==
  st.call.pc = "idle" => \A name \in Names : DmmMapFetch(name) = st.want[name]

\* No name is kept twice and none is lost count of: the loop of
\* hashmap_set_with_hash that swaps items must meet an equal name before it
\* gives its own item a bucket, or an old copy comes back after a deletion.
NoSecondCopy ==
  LET used == {i \in DOMAIN st.b : st.b[i].dib # 0}
  IN  st.call.pc = "idle" =>
        /\ st.count = Cardinality(used)
        /\ st.count < Size(st.b)
        /\ \A i, j \in used : st.b[i].name = st.b[j].name => i = j
=============================================================================
