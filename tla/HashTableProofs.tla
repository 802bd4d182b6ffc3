-------------------------- MODULE HashTableProofs --------------------------
(***************************************************************************)
(* Proofs about HashTable, for every set of keys, values and addresses,    *)
(* every hash and every number of buckets: the chains stay chains, the     *)
(* walks stay on them, and the calls do what TableSpec promises.           *)
(***************************************************************************)
EXTENDS HashTable, FiniteSetTheorems, SequenceTheorems, TLAPS

-----------------------------------------------------------------------------
(* Heads of chains hd and entries hp that are linked as a hash table *)

Places == 0 .. nbucket - 1
Heads == [Places -> Addrs \cup {NULL}]
Heaps == [Addrs -> EntryRecords \cup {NULL}]

InUse(hp) == {a \in Addrs : hp[a] # NULL}

\* The bucket an entry belongs to.
Home(hp, a) == BucketOf(hp[a].key)

\* No pointer dangles or leads into the chain of another bucket.
Valid(hd, hp) ==
  /\ \A b \in Places : hd[b] # NULL => hd[b] \in InUse(hp) /\ Home(hp, hd[b]) = b
  /\ \A e \in InUse(hp) : hp[e].next # NULL =>
       hp[e].next \in InUse(hp) /\ Home(hp, hp[e].next) = Home(hp, e)

\* No two pointers lead to the same entry.
Single(hd, hp) ==
  /\ \A e, f \in InUse(hp) : hp[e].next # NULL /\ hp[e].next = hp[f].next => e = f
  /\ \A b \in Places, e \in InUse(hp) : hd[b] # NULL => hp[e].next # hd[b]

\* Every set of entries is entered by a pointer from outside: none is cut off from
\* the heads, and no chain is a cycle.
Entered(hd, hp) ==
  \A S \in SUBSET InUse(hp) :
    S # {} => \/ \E b \in Places : hd[b] \in S
              \/ \E e \in InUse(hp) \ S : hp[e].next \in S

\* No key and no value is stored twice.
Distinct(hp) ==
  \A e, f \in InUse(hp) : hp[e].key = hp[f].key \/ hp[e].value = hp[f].value => e = f

Linked(hd, hp) ==
  /\ hd \in Heads /\ hp \in Heaps
  /\ Valid(hd, hp) /\ Single(hd, hp) /\ Entered(hd, hp) /\ Distinct(hp)

-----------------------------------------------------------------------------
(* The inductive invariant *)

\* The chains that are still to be freed when hashtable_destroy runs.
HeadsLeft ==
  [b \in Places |->
     IF call.op # "destroy" \/ b > call.i THEN buckets[b]
     ELSE IF b = call.i THEN call.current ELSE NULL]

KeyOps == {"add", "get", "del"}
LoopOps == {"sweep", "values"}

CallRecords ==
  [op : KeyOps \cup LoopOps \cup {"idle", "destroy", "destroyed"},
   key : Keys \cup {NULL}, value : Pointers \cup {NULL}, expired : SUBSET Pointers,
   i : Places, current : Addrs \cup {NULL}, prev : Addrs \cup {NULL},
   cap : Nat, n : Nat, values : Seq(Pointers)]

TypeInv ==
  /\ buckets \in Heads /\ heap \in Heaps
  /\ size \in Int /\ live \subseteq Pointers
  /\ call \in CallRecords
  /\ call.op \in KeyOps => call.key \in Keys
  /\ before \in [Keys -> Pointers \cup {NULL}]

\* The entries and the values they own.
TableInv ==
  /\ Linked(HeadsLeft, heap)
  /\ Stored \subseteq live
  /\ call.op = "add" => call.value \in live \ Stored
  /\ call.op \notin {"destroy", "destroyed"} => size = Cardinality(InUse(heap))
  /\ call.op = "destroyed" => InUse(heap) = {} /\ \A b \in Places : buckets[b] = NULL

\* The array of hashtable_values.
ArrayInv ==
  /\ Len(call.values) <= call.cap
  /\ call.op # "values" => call.values = <<>>

Bucket == IF call.op \in KeyOps THEN BucketOf(call.key) ELSE call.i

\* The entry a walk looks at is the one behind prev, or the head; there is none
\* between two calls.
CursorInv ==
  /\ call.op \in KeyOps \cup LoopOps /\ call.current # NULL =>
       call.current \in InUse(heap) /\ Home(heap, call.current) = Bucket
  /\ call.op \in KeyOps \cup {"sweep"} =>
       IF call.prev = NULL THEN call.current = buckets[Bucket]
       ELSE call.prev \in InUse(heap) /\ heap[call.prev].next = call.current
  /\ call.op \in {"idle", "destroyed"} => call.current = NULL

\* The entries that a walk has passed: whole chains, and the part of a chain
\* that ends at the current entry.
Passed(V) ==
  /\ V \subseteq InUse(heap) /\ call.current \notin V
  /\ \A v \in V : IF call.op \in KeyOps THEN Home(heap, v) = Bucket ELSE Home(heap, v) <= call.i
  /\ call.op \in LoopOps => \A a \in InUse(heap) : Home(heap, a) < call.i => a \in V
  /\ buckets[Bucket] \in V \cup {call.current, NULL}
  /\ \A v \in V : Home(heap, v) = Bucket => heap[v].next \in V \cup {call.current, NULL}
  /\ \A v \in V : \/ \E b \in Places : buckets[b] = v
                  \/ \E e \in V : heap[e].next = v

\* What a walk knows of the entries it has passed.
WalkInv ==
  call.op \in KeyOps \cup LoopOps =>
    \E V \in SUBSET InUse(heap) :
      /\ Passed(V)
      /\ call.op \in KeyOps => \A v \in V : heap[v].key # call.key
      /\ call.op = "sweep" => \A v \in V : heap[v].value \notin call.expired
      /\ call.op = "values" => /\ Range(call.values) = {heap[v].value : v \in V}
                               /\ Len(call.values) = Cardinality(Range(call.values))

\* The map that the entries form.
MapOf(hp) ==
  [k \in Keys |-> IF \E a \in InUse(hp) : hp[a].key = k
                  THEN hp[CHOOSE a \in InUse(hp) : hp[a].key = k].value ELSE NULL]

ValuesOf(map) == {map[k] : k \in {k \in Keys : map[k] # NULL}}

\* Only a sweep changes the contents before it returns.
BeforeInv ==
  /\ call.op \in KeyOps \cup {"values"} => before = MapOf(heap)
  /\ call.op = "sweep" =>
       /\ \A k \in Keys : \/ MapOf(heap)[k] = before[k]
                          \/ MapOf(heap)[k] = NULL /\ before[k] \in call.expired
       /\ IsFiniteSet(ValuesOf(before) \ Stored)
       /\ call.n = Cardinality(ValuesOf(before) \ Stored)

HashInv == TypeInv /\ TableInv /\ ArrayInv /\ CursorInv /\ WalkInv /\ BeforeInv

-----------------------------------------------------------------------------
(* Linking and unlinking *)

LEMMA BucketType == \A k \in Keys : BucketOf(k) \in Places
BY HashAssumption DEF BucketOf, hash_function, Places

\* An entry in use is a record; its address is none of NULL's.
LEMMA EntryFacts ==
  ASSUME NEW hp \in Heaps
  PROVE  /\ InUse(hp) \subseteq Addrs /\ NULL \notin InUse(hp)
         /\ \A a \in InUse(hp) :
              /\ hp[a] \in EntryRecords /\ hp[a].key \in Keys /\ hp[a].value \in Pointers
              /\ hp[a].next \in Addrs \cup {NULL} /\ Home(hp, a) \in Places
<1>1. InUse(hp) \subseteq Addrs /\ NULL \notin InUse(hp)
  BY HashAssumption DEF InUse
<1>2. ASSUME NEW a \in InUse(hp)
      PROVE  /\ hp[a] \in EntryRecords /\ hp[a].key \in Keys /\ hp[a].value \in Pointers
             /\ hp[a].next \in Addrs \cup {NULL}
  BY DEF InUse, Heaps, EntryRecords
<1> QED BY <1>1, <1>2, BucketType DEF Home

\* hashtable_add: a new entry before the head of its chain.
AddsFirst(hd, hp, a, new, hd1, hp1) ==
  /\ a \in Addrs \ InUse(hp)
  /\ new \in EntryRecords /\ new.next = hd[BucketOf(new.key)]
  /\ \A e \in InUse(hp) : hp[e].key # new.key /\ hp[e].value # new.value
  /\ hd1 = [hd EXCEPT ![BucketOf(new.key)] = a]
  /\ hp1 = [hp EXCEPT ![a] = new]

LEMMA LinkFirst ==
  ASSUME NEW hd, NEW hp, NEW a, NEW new, NEW hd1, NEW hp1,
         Linked(hd, hp), AddsFirst(hd, hp, a, new, hd1, hp1)
  PROVE  Linked(hd1, hp1) /\ InUse(hp1) = InUse(hp) \cup {a}
<1> DEFINE B == BucketOf(new.key)
<1>a. /\ a \in Addrs \ InUse(hp) /\ new \in EntryRecords /\ new.next = hd[B]
      /\ \A e \in InUse(hp) : hp[e].key # new.key /\ hp[e].value # new.value
  BY DEF AddsFirst
<1>0. hd1 = [hd EXCEPT ![B] = a] /\ hp1 = [hp EXCEPT ![a] = new]
  BY DEF AddsFirst
<1>1. /\ hd \in Heads /\ hp \in Heaps /\ B \in Places
      /\ Valid(hd, hp) /\ Single(hd, hp) /\ Entered(hd, hp) /\ Distinct(hp)
  BY <1>a, BucketType DEF Linked, EntryRecords
<1>2. new # NULL
  BY <1>a, HashAssumption
<1>3. hp1 \in Heaps /\ hp1[a] = new /\ \A e \in Addrs : e # a => hp1[e] = hp[e]
  BY <1>a, <1>0, <1>1, <1>2 DEF Heaps
<1>4. hd1 \in Heads /\ hd1[B] = a /\ \A b \in Places : b # B => hd1[b] = hd[b]
  BY <1>a, <1>0, <1>1 DEF Heads
<1>5. InUse(hp1) = InUse(hp) \cup {a}
  BY <1>a, <1>2, <1>3 DEF InUse
<1>6. /\ a \notin InUse(hp) /\ InUse(hp) \subseteq Addrs /\ NULL \notin InUse(hp1)
      /\ \A e \in InUse(hp) : hp1[e] = hp[e] /\ Home(hp1, e) = Home(hp, e)
      /\ hp1[a] = new /\ hp1[a].next = hd[B] /\ Home(hp1, a) = B
  BY <1>a, <1>1, <1>3, <1>5, EntryFacts, HashAssumption DEF Home
<1> HIDE DEF B
<1>7. Valid(hd1, hp1)
  BY <1>a, <1>1, <1>4, <1>5, <1>6 DEF Valid
<1>8. Single(hd1, hp1)
  BY <1>a, <1>1, <1>4, <1>5, <1>6 DEF Single, Valid
<1>9. Distinct(hp1)
  BY <1>a, <1>1, <1>5, <1>6 DEF Distinct
<1>10. ASSUME NEW S \in SUBSET InUse(hp1), S # {}, ~ \E b \in Places : hd1[b] \in S
       PROVE  \E e \in InUse(hp1) \ S : hp1[e].next \in S
  <2>1. a \notin S /\ S \in SUBSET InUse(hp)
    BY <1>a, <1>1, <1>4, <1>5, <1>10
  <2>2. CASE \E b \in Places : hd[b] \in S
    BY <1>a, <1>4, <1>5, <1>6, <1>10, <2>1, <2>2
  <2>3. CASE \E e \in InUse(hp) \ S : hp[e].next \in S
    BY <1>a, <1>5, <1>6, <2>3
  <2> QED BY <1>a, <1>1, <1>10, <2>1, <2>2, <2>3 DEF Entered
<1> QED BY <1>a, <1>3, <1>4, <1>5, <1>7, <1>8, <1>9, <1>10 DEF Linked, Entered

\* The head of a chain goes: hashtable_del, hashtable_sweep, hashtable_destroy.
RemovesFirst(hd, hp, b, c, hd1, hp1) ==
  /\ b \in Places /\ c = hd[b] /\ c # NULL
  /\ hd1 = [hd EXCEPT ![b] = hp[c].next]
  /\ hp1 = [hp EXCEPT ![c] = NULL]

\* What removing entry c does to every pointer.
Skips(hd, hp, c, hd1, hp1) ==
  /\ c \in InUse(hp) /\ InUse(hp1) = InUse(hp) \ {c}
  /\ \A e \in InUse(hp1) :
       /\ hp1[e].key = hp[e].key /\ hp1[e].value = hp[e].value
       /\ hp1[e].next = IF hp[e].next = c THEN hp[c].next ELSE hp[e].next
  /\ \A x \in Places : hd1[x] = IF hd[x] = c THEN hp[c].next ELSE hd[x]

LEMMA UnlinkFirst ==
  ASSUME NEW hd, NEW hp, NEW b, NEW c, NEW hd1, NEW hp1,
         Linked(hd, hp), RemovesFirst(hd, hp, b, c, hd1, hp1)
  PROVE  Linked(hd1, hp1) /\ Skips(hd, hp, c, hd1, hp1)
<1>0. /\ c = hd[b] /\ hd1 = [hd EXCEPT ![b] = hp[c].next]
      /\ hp1 = [hp EXCEPT ![c] = NULL]
  BY DEF RemovesFirst
<1>a. b \in Places /\ c # NULL
  BY DEF RemovesFirst
<1>1. /\ hd \in Heads /\ hp \in Heaps
      /\ Valid(hd, hp) /\ Single(hd, hp) /\ Entered(hd, hp) /\ Distinct(hp)
  BY DEF Linked
<1>2. c \in InUse(hp) /\ c \in Addrs /\ Home(hp, c) = b /\ hp[c].next \in Addrs \cup {NULL}
  BY <1>a, <1>0, <1>1, EntryFacts DEF Valid
<1>3. hp1 \in Heaps /\ hp1[c] = NULL /\ \A e \in Addrs : e # c => hp1[e] = hp[e]
  BY <1>a, <1>0, <1>1, <1>2 DEF Heaps
<1>4. hd1 \in Heads /\ hd1[b] = hp[c].next /\ \A x \in Places : x # b => hd1[x] = hd[x]
  BY <1>a, <1>0, <1>1, <1>2 DEF Heads
<1>5. InUse(hp1) = InUse(hp) \ {c}
  BY <1>a, <1>3 DEF InUse
<1>6. /\ InUse(hp) \subseteq Addrs /\ NULL \notin InUse(hp)
      /\ \A e \in InUse(hp1) : hp1[e] = hp[e] /\ Home(hp1, e) = Home(hp, e)
      /\ \A e \in InUse(hp) : hp[e].next # c
  BY <1>a, <1>0, <1>1, <1>3, <1>5, EntryFacts DEF Home, Single
<1>7. Valid(hd1, hp1)
  <2>1. ASSUME NEW x \in Places, hd1[x] # NULL
        PROVE  hd1[x] \in InUse(hp1) /\ Home(hp1, hd1[x]) = x
    <3>1. CASE x = b
      BY <1>a, <1>1, <1>2, <1>4, <1>5, <1>6, <2>1, <3>1 DEF Valid
    <3>2. CASE x # b
      BY <1>a, <1>1, <1>2, <1>4, <1>5, <1>6, <2>1, <3>2 DEF Valid
    <3> QED BY <3>1, <3>2
  <2>2. ASSUME NEW e \in InUse(hp1), hp1[e].next # NULL
        PROVE  hp1[e].next \in InUse(hp1) /\ Home(hp1, hp1[e].next) = Home(hp1, e)
    BY <1>a, <1>1, <1>5, <1>6, <2>2 DEF Valid
  <2> QED BY <2>1, <2>2 DEF Valid
<1>8. Single(hd1, hp1)
  <2>1. \A e, f \in InUse(hp1) : hp1[e].next # NULL /\ hp1[e].next = hp1[f].next => e = f
    BY <1>a, <1>1, <1>5, <1>6 DEF Single
  <2>2. ASSUME NEW x \in Places, NEW e \in InUse(hp1), hd1[x] # NULL
        PROVE  hp1[e].next # hd1[x]
    BY <1>a, <1>1, <1>2, <1>4, <1>5, <1>6, <2>2 DEF Single
  <2> QED BY <2>1, <2>2 DEF Single
<1>9. Distinct(hp1)
  BY <1>a, <1>1, <1>5, <1>6 DEF Distinct
<1>10. ASSUME NEW S \in SUBSET InUse(hp1), S # {}, ~ \E x \in Places : hd1[x] \in S
       PROVE  \E e \in InUse(hp1) \ S : hp1[e].next \in S
  <2>1. S \in SUBSET InUse(hp) /\ c \notin S /\ hp[c].next \notin S
    BY <1>a, <1>4, <1>5, <1>10
  <2>2. ~ \E x \in Places : hd[x] \in S
    BY <1>a, <1>0, <1>4, <1>10, <2>1
  <2>3. PICK e \in InUse(hp) \ S : hp[e].next \in S
    BY <1>a, <1>1, <1>10, <2>1, <2>2 DEF Entered
  <2> QED BY <1>a, <1>5, <1>6, <2>1, <2>3
<1>11. Entered(hd1, hp1)
  BY <1>a, <1>10 DEF Entered
<1>12. Skips(hd, hp, c, hd1, hp1)
  <2>1. \A x \in Places : x # b => hd[x] # c
    BY <1>a, <1>0, <1>1, <1>2 DEF Valid
  <2>2. c = hd[b]
    BY <1>0
  <2>3. \A x \in Places : hd1[x] = IF hd[x] = c THEN hp[c].next ELSE hd[x]
    BY <1>4, <2>1, <2>2
  <2> QED BY <1>2, <1>5, <1>6, <2>3 DEF Skips
<1> QED BY <1>a, <1>3, <1>4, <1>5, <1>7, <1>8, <1>9, <1>11, <1>12 DEF Linked

\* An entry goes from the middle or the end of a chain.
RemovesLater(hp, p, c, hp1) ==
  /\ p \in InUse(hp) /\ c = hp[p].next /\ c # NULL
  /\ hp1 = [hp EXCEPT ![p].next = hp[c].next, ![c] = NULL]

LEMMA UnlinkLater ==
  ASSUME NEW hd, NEW hp, NEW p, NEW c, NEW hp1,
         Linked(hd, hp), RemovesLater(hp, p, c, hp1)
  PROVE  Linked(hd, hp1) /\ Skips(hd, hp, c, hd, hp1)
<1>0. c = hp[p].next /\ hp1 = [hp EXCEPT ![p].next = hp[c].next, ![c] = NULL]
  BY DEF RemovesLater
<1>a. p \in InUse(hp) /\ c # NULL
  BY DEF RemovesLater
<1>1. /\ hd \in Heads /\ hp \in Heaps
      /\ Valid(hd, hp) /\ Single(hd, hp) /\ Entered(hd, hp) /\ Distinct(hp)
  BY DEF Linked
<1>2. /\ c \in InUse(hp) /\ c \in Addrs /\ p \in Addrs /\ Home(hp, c) = Home(hp, p)
      /\ hp[c].next \in Addrs \cup {NULL} /\ hp[p] \in EntryRecords
  BY <1>a, <1>0, <1>1, EntryFacts DEF Valid
<1>3. p # c
  <2>1. CASE \E b \in Places : hd[b] \in {c}
    BY <1>a, <1>0, <1>1, <2>1 DEF Single
  <2>2. CASE \E e \in InUse(hp) \ {c} : hp[e].next \in {c}
    BY <1>a, <1>0, <1>1, <2>2 DEF Single
  <2> QED BY <1>a, <1>1, <1>2, <2>1, <2>2 DEF Entered
<1> DEFINE q == [hp[p] EXCEPT !.next = hp[c].next]
<1>4. q \in EntryRecords /\ q # NULL /\ q.next = hp[c].next
      /\ q.key = hp[p].key /\ q.value = hp[p].value
  BY <1>a, <1>2, HashAssumption DEF EntryRecords
<1>5. hp1[p] = q /\ hp1[c] = NULL /\ \A e \in Addrs \ {p, c} : hp1[e] = hp[e]
  BY <1>a, <1>0, <1>1, <1>2, <1>3 DEF Heaps
<1>6. hp1 \in Heaps
  BY <1>a, <1>0, <1>1, <1>2, <1>4, <1>5 DEF Heaps
<1>7. InUse(hp1) = InUse(hp) \ {c}
  BY <1>a, <1>2, <1>4, <1>5 DEF InUse
<1> HIDE DEF q
<1>8. /\ InUse(hp) \subseteq Addrs /\ NULL \notin InUse(hp)
      /\ \A e \in InUse(hp1) :
           hp1[e].key = hp[e].key /\ hp1[e].value = hp[e].value /\ Home(hp1, e) = Home(hp, e)
      /\ \A e \in InUse(hp1) \ {p} : hp1[e] = hp[e] /\ hp1[e].next = hp[e].next
      /\ hp1[p].next = hp[c].next
  BY <1>a, <1>1, <1>4, <1>5, <1>7, EntryFacts DEF Home
<1>9. \A e \in InUse(hp1) \ {p} : hp[e].next # c
  BY <1>a, <1>0, <1>1, <1>2, <1>7 DEF Single
<1>10. \A x \in Places : hd[x] # c
  BY <1>a, <1>0, <1>1 DEF Single
<1>11. Valid(hd, hp1)
  <2>1. ASSUME NEW x \in Places, hd[x] # NULL
        PROVE  hd[x] \in InUse(hp1) /\ Home(hp1, hd[x]) = x
    BY <1>a, <1>1, <1>7, <1>8, <1>10, <2>1 DEF Valid
  <2>2. ASSUME NEW e \in InUse(hp1), hp1[e].next # NULL
        PROVE  hp1[e].next \in InUse(hp1) /\ Home(hp1, hp1[e].next) = Home(hp1, e)
    <3>1. CASE e = p
      <4>1. hp[c].next # c
        BY <1>a, <1>0, <1>1, <1>2, <1>3 DEF Single
      <4> QED BY <1>a, <1>1, <1>2, <1>7, <1>8, <2>2, <3>1, <4>1 DEF Valid
    <3>2. CASE e # p
      BY <1>a, <1>1, <1>7, <1>8, <1>9, <2>2, <3>2 DEF Valid
    <3> QED BY <3>1, <3>2
  <2> QED BY <2>1, <2>2 DEF Valid
<1>12. Single(hd, hp1)
  <2>1. ASSUME NEW e \in InUse(hp1), NEW f \in InUse(hp1), hp1[e].next # NULL,
               hp1[e].next = hp1[f].next
        PROVE  e = f
    BY <1>a, <1>1, <1>2, <1>7, <1>8, <2>1 DEF Single
  <2>2. ASSUME NEW x \in Places, NEW e \in InUse(hp1), hd[x] # NULL
        PROVE  hp1[e].next # hd[x]
    BY <1>a, <1>1, <1>2, <1>7, <1>8, <2>2 DEF Single
  <2> QED BY <2>1, <2>2 DEF Single
<1>13. Distinct(hp1)
  BY <1>a, <1>1, <1>7, <1>8 DEF Distinct
<1>14. ASSUME NEW S \in SUBSET InUse(hp1), S # {}, ~ \E x \in Places : hd[x] \in S
       PROVE  \E e \in InUse(hp1) \ S : hp1[e].next \in S
  <2>1. S \in SUBSET InUse(hp) /\ c \notin S
    BY <1>a, <1>7, <1>14
  <2>2. CASE \E e \in InUse(hp) \ S : e # c /\ hp[e].next \in S
    BY <1>a, <1>0, <1>2, <1>7, <1>8, <2>1, <2>2
  <2>3. CASE hp[c].next \in S /\ p \notin S
    BY <1>a, <1>3, <1>7, <1>8, <2>3
  <2>4. CASE hp[c].next \in S /\ p \in S
    <3> DEFINE T == S \cup {c}
    <3>1. T \in SUBSET InUse(hp) /\ T # {} /\ ~ \E x \in Places : hd[x] \in T
      BY <1>a, <1>2, <1>10, <1>14, <2>1
    <3>2. PICK e \in InUse(hp) \ T : hp[e].next \in T
      BY <1>a, <1>1, <3>1 DEF Entered
    <3>3. hp[e].next # c
      BY <1>a, <1>0, <1>1, <2>4, <3>2 DEF Single
    <3> QED BY <2>2, <3>2, <3>3
  <2> QED BY <1>a, <1>1, <1>14, <2>1, <2>2, <2>3, <2>4 DEF Entered
<1>15. Entered(hd, hp1)
  BY <1>a, <1>14 DEF Entered
<1>16. Skips(hd, hp, c, hd, hp1)
  <2>1. c = hp[p].next
    BY <1>0
  <2>2. \A e \in InUse(hp1) :
          hp1[e].next = IF hp[e].next = c THEN hp[c].next ELSE hp[e].next
    BY <1>8, <1>9, <2>1
  <2> QED BY <1>2, <1>7, <1>8, <1>10, <2>2 DEF Skips
<1> QED BY <1>1, <1>6, <1>11, <1>12, <1>13, <1>15, <1>16 DEF Linked

-----------------------------------------------------------------------------
(* Chains *)

\* The entries reached from p in heap hp: From, for any heap.
Reached(hp, p) ==
  {a \in Addrs :
     \A S \in SUBSET Addrs :
       /\ p # NULL => p \in S
       /\ \A e \in S \cap InUse(hp) : hp[e].next # NULL => hp[e].next \in S
       => a \in S}

\* Contents, for any heap.
ContentsOf(hd, hp) ==
  [k \in Keys |->
     LET found == {a \in Reached(hp, hd[BucketOf(k)]) : hp[a].key = k}
     IN  IF found = {} THEN NULL ELSE hp[CHOOSE a \in found : TRUE].value]

LEMMA FromIsReached ==
  /\ Allocated = InUse(heap) /\ Allocated' = InUse(heap')
  /\ \A b : Chain(b) = Reached(heap, buckets[b])
  /\ \A b : Chain(b)' = Reached(heap', buckets'[b])
  /\ Contents = ContentsOf(buckets, heap)
  /\ Contents' = ContentsOf(buckets', heap')
BY DEF Chain, From, Closed, Reached, Contents, ContentsOf, Allocated, InUse, BucketOf,
       hash_function

\* The chain of a bucket holds exactly the entries that belong to it.
LEMMA ChainHome ==
  ASSUME NEW hd, NEW hp, Linked(hd, hp), NEW b \in Places
  PROVE  Reached(hp, hd[b]) = {a \in InUse(hp) : Home(hp, a) = b}
<1> DEFINE H == {a \in InUse(hp) : Home(hp, a) = b}
           R == Reached(hp, hd[b])
<1>1. /\ hd \in Heads /\ hp \in Heaps /\ InUse(hp) \subseteq Addrs
      /\ Valid(hd, hp) /\ Entered(hd, hp)
  BY EntryFacts DEF Linked
<1>2. R \subseteq H
  <2>1. H \in SUBSET Addrs
    BY <1>1
  <2>2. hd[b] # NULL => hd[b] \in H
    BY <1>1 DEF Valid
  <2>3. \A e \in H \cap InUse(hp) : hp[e].next # NULL => hp[e].next \in H
    BY <1>1 DEF Valid
  <2> HIDE DEF H
  <2> QED BY <2>1, <2>2, <2>3 DEF Reached
<1>3. R \subseteq Addrs /\ (hd[b] # NULL => hd[b] \in R)
  BY <1>1 DEF Reached, Heads
<1>4. ASSUME NEW e \in R \cap InUse(hp), hp[e].next # NULL PROVE hp[e].next \in R
  <2>1. hp[e].next \in Addrs
    BY <1>1, <1>4, EntryFacts
  <2> QED BY <1>4, <2>1 DEF Reached
<1> HIDE DEF R
<1>5. H \subseteq R
  <2> SUFFICES ASSUME H \ R # {} PROVE FALSE
    OBVIOUS
  <2>1. H \ R \in SUBSET InUse(hp)
    OBVIOUS
  <2>2. CASE \E x \in Places : hd[x] \in H \ R
    <3>1. PICK x \in Places : hd[x] \in H \ R
      BY <2>2
    <3>2. hd[x] # NULL /\ Home(hp, hd[x]) = b
      BY <1>1, <3>1, EntryFacts
    <3>3. x = b
      BY <1>1, <3>2 DEF Valid
    <3> QED BY <1>3, <3>1, <3>2, <3>3
  <2>3. CASE \E e \in InUse(hp) \ (H \ R) : hp[e].next \in H \ R
    <3>1. PICK e \in InUse(hp) \ (H \ R) : hp[e].next \in H \ R
      BY <2>3
    <3>2. hp[e].next # NULL
      BY <1>1, <3>1, EntryFacts
    <3>3. Home(hp, e) = b
      BY <1>1, <3>1, <3>2 DEF Valid
    <3>4. e \in R
      BY <3>1, <3>3
    <3> QED BY <1>4, <3>1, <3>2, <3>4
  <2> HIDE DEF H
  <2> QED BY <1>1, <2>1, <2>2, <2>3 DEF Entered
<1> QED BY <1>2, <1>5 DEF R

\* What hashtable_get finds is what the entries say.
LEMMA ContentsMap ==
  ASSUME NEW hd, NEW hp, Linked(hd, hp)
  PROVE  ContentsOf(hd, hp) = MapOf(hp)
<1>1. ASSUME NEW k \in Keys
      PROVE  {a \in Reached(hp, hd[BucketOf(k)]) : hp[a].key = k}
               = {a \in InUse(hp) : hp[a].key = k}
  <2>1. BucketOf(k) \in Places
    BY BucketType
  <2>2. Reached(hp, hd[BucketOf(k)]) = {a \in InUse(hp) : Home(hp, a) = BucketOf(k)}
    BY <2>1, ChainHome
  <2>3. \A a \in InUse(hp) : hp[a].key = k => Home(hp, a) = BucketOf(k)
    BY DEF Home
  <2> QED BY <2>2, <2>3
<1>2. ASSUME NEW k \in Keys
      PROVE  ContentsOf(hd, hp)[k] = MapOf(hp)[k]
  <2> DEFINE found == {a \in InUse(hp) : hp[a].key = k}
  <2>1. ContentsOf(hd, hp)[k]
          = IF found = {} THEN NULL ELSE hp[CHOOSE a \in found : TRUE].value
    <3> DEFINE F == {a \in Reached(hp, hd[BucketOf(k)]) : hp[a].key = k}
    <3>1. ContentsOf(hd, hp)[k]
            = IF F = {} THEN NULL ELSE hp[CHOOSE a \in F : TRUE].value
      BY DEF ContentsOf
    <3>2. F = found
      BY <1>1
    <3> HIDE DEF F, found
    <3> QED BY <3>1, <3>2
  <2>2. MapOf(hp)[k] = IF found # {}
                       THEN hp[CHOOSE a \in InUse(hp) : hp[a].key = k].value ELSE NULL
    BY DEF MapOf
  <2>3. CASE found = {}
    BY <2>1, <2>2, <2>3
  <2>4. CASE found # {}
    <3>1. (CHOOSE a \in found : TRUE) \in found
      BY <2>4
    <3>2. (CHOOSE a \in InUse(hp) : hp[a].key = k) \in found
      BY <2>4
    <3>3. \A e, f \in found : e = f
      BY DEF Linked, Distinct
    <3> HIDE DEF found
    <3>4. (CHOOSE a \in found : TRUE) = (CHOOSE a \in InUse(hp) : hp[a].key = k)
      BY <3>1, <3>2, <3>3
    <3> QED BY <2>1, <2>2, <2>4, <3>4
  <2> QED BY <2>3, <2>4
<1> QED BY <1>2 DEF ContentsOf, MapOf

\* The map, entry by entry.
LEMMA MapFacts ==
  ASSUME NEW hp \in Heaps, Distinct(hp)
  PROVE  /\ MapOf(hp) \in [Keys -> Pointers \cup {NULL}]
         /\ \A a \in InUse(hp) : MapOf(hp)[hp[a].key] = hp[a].value
         /\ \A k \in Keys : (\A a \in InUse(hp) : hp[a].key # k) <=> MapOf(hp)[k] = NULL
         /\ ValuesOf(MapOf(hp)) = {hp[a].value : a \in InUse(hp)}
<1>1. ASSUME NEW k \in Keys, NEW a \in InUse(hp), hp[a].key = k
      PROVE  MapOf(hp)[k] = hp[a].value
  <2>1. (CHOOSE e \in InUse(hp) : hp[e].key = k) = a
    BY <1>1 DEF Distinct
  <2> QED BY <1>1, <2>1 DEF MapOf
<1>2. \A a \in InUse(hp) : hp[a].key \in Keys /\ hp[a].value \in Pointers
  BY EntryFacts
<1>3. NULL \notin Pointers
  BY HashAssumption
<1>4. ASSUME NEW k \in Keys, \A a \in InUse(hp) : hp[a].key # k
      PROVE  MapOf(hp)[k] = NULL
  BY <1>4 DEF MapOf
<1>5. DOMAIN MapOf(hp) = Keys /\ MapOf(hp) = [k \in Keys |-> MapOf(hp)[k]]
  BY DEF MapOf
<1> DEFINE M == MapOf(hp)
<1> HIDE DEF M
<1>6. \A k \in Keys : M[k] \in Pointers \cup {NULL}
  BY <1>1, <1>2, <1>4 DEF M
<1>7. M \in [Keys -> Pointers \cup {NULL}]
  BY <1>5, <1>6 DEF M
<1>8. \A k \in Keys : (\A a \in InUse(hp) : hp[a].key # k) <=> M[k] = NULL
  BY <1>1, <1>2, <1>3, <1>4 DEF M
<1>9. ValuesOf(M) = {hp[a].value : a \in InUse(hp)}
  BY <1>1, <1>2, <1>3, <1>8 DEF ValuesOf, M
<1> QED BY <1>1, <1>2, <1>7, <1>8, <1>9 DEF M

-----------------------------------------------------------------------------
(* Calls and returns *)

LEMMA TypeFacts ==
  ASSUME TypeInv
  PROVE  /\ call.op \in KeyOps \cup LoopOps \cup {"idle", "destroy", "destroyed"}
         /\ call.i \in Places /\ call.current \in Addrs \cup {NULL}
         /\ call.prev \in Addrs \cup {NULL} /\ call.expired \subseteq Pointers
         /\ call.cap \in Nat /\ call.n \in Nat /\ call.values \in Seq(Pointers)
         /\ call.value \in Pointers \cup {NULL} /\ call.key \in Keys \cup {NULL}
         /\ buckets \in Heads /\ heap \in Heaps /\ InUse(heap) \subseteq Addrs
         /\ NULL \notin InUse(heap)
         /\ Stored = {heap[a].value : a \in InUse(heap)} /\ Stored \subseteq Pointers
<1>1. heap \in Heaps
  BY DEF TypeInv
<1>2. Stored = {heap[a].value : a \in InUse(heap)}
  BY DEF Stored, Allocated, InUse
<1>3. Stored \subseteq Pointers
  BY <1>1, <1>2, EntryFacts
<1> QED BY <1>1, <1>2, <1>3, EntryFacts DEF TypeInv, CallRecords

LEMMA BucketPlace ==
  ASSUME TypeInv
  PROVE  Bucket \in Places
BY TypeFacts, BucketType DEF Bucket, TypeInv

\* Outside hashtable_destroy the chains begin at the buckets.
LEMMA HeadsAreBuckets ==
  ASSUME TypeInv, call.op # "destroy"
  PROVE  HeadsLeft = buckets
BY TypeFacts DEF HeadsLeft, Heads

LEMMA InitInv ==
  ASSUME Init
  PROVE  HashInv
<1> USE DEF Init
<1>1. 0 \in Places /\ nbucket \in Nat
  BY HashAssumption DEF Places
<1>2. TypeInv
  BY <1>1 DEF TypeInv, CallRecords, Heads, Heaps, Places, Idle, KeyOps, LoopOps
<1>3. InUse(heap) = {} /\ Stored = {} /\ Cardinality({}) = 0
  BY FS_EmptySet DEF InUse, Stored, Allocated
<1>4. TableInv
  <2>1. HeadsLeft = buckets
    BY <1>2, HeadsAreBuckets DEF Idle
  <2>2. \A b \in Places : buckets[b] = NULL
    BY DEF Places
  <2>3. Linked(buckets, heap)
    BY <1>2, <1>3, <2>2 DEF Linked, TypeInv, Valid, Single, Entered, Distinct
  <2> QED BY <1>3, <2>1, <2>3 DEF TableInv, Idle
<1>5. ArrayInv
  BY DEF ArrayInv, Idle
<1>6. CursorInv /\ WalkInv /\ BeforeInv
  BY DEF CursorInv, WalkInv, BeforeInv, KeyOps, LoopOps, Idle
<1> QED BY <1>2, <1>4, <1>5, <1>6 DEF HashInv

\* A call begins at the head of a chain, having passed nothing.
LEMMA CallStep ==
  ASSUME HashInv, NEW c, Called(c), live \subseteq live', live' \subseteq Pointers,
         c \in CallRecords, c.op \notin {"idle", "destroyed"},
         c.i = 0, c.prev = NULL, c.cap = 0, c.n = 0, c.values = <<>>,
         c.op \in KeyOps => c.key \in Keys /\ c.current = buckets[BucketOf(c.key)],
         c.op = "add" => c.value \in live' \ Stored,
         c.op \notin KeyOps => c.current = buckets[0]
  PROVE  HashInv'
<1>1. /\ call.op = "idle" /\ call' = c /\ before' = Contents
      /\ UNCHANGED <<buckets, heap, size>>
  BY DEF Called
<1>2. 0 \in Places
  BY HashAssumption DEF Places
<1>3. TypeInv /\ TableInv /\ HeadsLeft = buckets /\ Linked(buckets, heap)
  BY <1>1, HeadsAreBuckets DEF HashInv, TableInv
<1>4. before' = MapOf(heap) /\ MapOf(heap) \in [Keys -> Pointers \cup {NULL}]
      /\ ValuesOf(MapOf(heap)) = Stored
  <2>1. before' = MapOf(heap)
    BY <1>1, <1>3, FromIsReached, ContentsMap
  <2>2. heap \in Heaps /\ Distinct(heap)
    BY <1>3 DEF Linked
  <2>3. Stored = {heap[a].value : a \in InUse(heap)}
    BY <1>3, TypeFacts
  <2> QED BY <2>1, <2>2, <2>3, MapFacts
<1> DEFINE B == IF c.op \in KeyOps THEN BucketOf(c.key) ELSE 0
<1>5. B \in Places /\ c.current = buckets[B] /\ c.current \in Addrs \cup {NULL}
  BY <1>2, <1>3, BucketType, TypeFacts DEF Heads
<1>6. TypeInv'
  BY <1>1, <1>3, <1>4 DEF TypeInv
<1>7. Stored' = Stored /\ Bucket' = B /\ HeadsLeft' = buckets
  <2>1. Stored' = Stored
    BY <1>1 DEF Stored, Allocated
  <2>2. Bucket' = B
    BY <1>1, <1>2 DEF Bucket
  <2>3. \A b \in Places : HeadsLeft'[b] = buckets[b]
    BY <1>1, <1>2, <1>5 DEF HeadsLeft, KeyOps, Places
  <2>4. HeadsLeft' = buckets
    BY <1>3, <2>3 DEF HeadsLeft, TypeInv, Heads
  <2> QED BY <2>1, <2>2, <2>4
<1> HIDE DEF B
<1>8. TableInv'
  BY <1>1, <1>3, <1>7 DEF TableInv, KeyOps, LoopOps
<1>9. ArrayInv'
  BY <1>1, <1>2 DEF ArrayInv
<1>10. CursorInv'
  <2>1. c.current # NULL => c.current \in InUse(heap) /\ Home(heap, c.current) = B
    BY <1>3, <1>5 DEF Linked, Valid
  <2> QED BY <1>1, <1>2, <1>5, <1>7, <2>1 DEF CursorInv
<1>11. WalkInv'
  <2>1. Passed({})'
    <3>1. \A a \in InUse(heap) : ~(Home(heap, a) < 0)
      BY <1>3, EntryFacts, TypeFacts, HashAssumption DEF Places
    <3> QED BY <1>1, <1>2, <1>5, <1>7, <3>1 DEF Passed
  <2>2. Range(call.values)' = {} /\ Len(call.values)' = 0 /\ Cardinality({}) = 0
    BY <1>1, <1>2, FS_EmptySet DEF Range
  <2> QED BY <2>1, <2>2 DEF WalkInv
<1>12. BeforeInv'
  <2>1. /\ IsFiniteSet(ValuesOf(before)' \ Stored')
        /\ Cardinality(ValuesOf(before)' \ Stored') = 0
    BY <1>4, <1>7, FS_EmptySet
  <2> QED BY <1>1, <1>2, <1>4, <1>7, <2>1 DEF BeforeInv
<1> QED BY <1>6, <1>8, <1>9, <1>10, <1>11, <1>12 DEF HashInv

\* A call returns when the table is in order.
LEMMA ReturnStep ==
  ASSUME HashInv, NEW r, Return(r), TypeInv', Linked(buckets, heap)', (Stored \subseteq live)',
         size' = Cardinality(InUse(heap'))
  PROVE  HashInv'
<1>1. call' = Idle /\ Idle.op = "idle" /\ Idle.values = <<>> /\ Idle.cap = 0 /\ Idle.current = NULL
  BY DEF Return, Idle
<1>2. HeadsLeft' = buckets'
  BY <1>1 DEF TypeInv, HeadsLeft, Heads
<1>3. TableInv'
  BY <1>1, <1>2 DEF TableInv
<1>4. ArrayInv'
  BY <1>1 DEF ArrayInv
<1>5. CursorInv' /\ WalkInv' /\ BeforeInv'
  BY <1>1 DEF CursorInv, WalkInv, BeforeInv, KeyOps, LoopOps
<1> QED BY <1>3, <1>4, <1>5 DEF HashInv

\* A call that changed nothing returns.
LEMMA PlainReturn ==
  ASSUME HashInv, NEW r, Return(r), UNCHANGED ht, call.op \in KeyOps \cup LoopOps
  PROVE  HashInv'
<1>1. UNCHANGED <<buckets, heap, size, live, before>> /\ call' = Idle
  BY DEF Return, ht
<1>2. TypeInv'
  <2>1. Idle \in CallRecords /\ Idle.op = "idle"
    BY HashAssumption DEF Idle, Places, CallRecords
  <2> QED BY <1>1, <2>1 DEF HashInv, TypeInv, KeyOps
<1>3. call.op \notin {"destroy", "destroyed"}
  BY DEF KeyOps, LoopOps
<1>4. HeadsLeft = buckets
  BY <1>3, HeadsAreBuckets DEF HashInv
<1>5. Linked(buckets, heap)' /\ (Stored \subseteq live)' /\ size' = Cardinality(InUse(heap'))
  BY <1>1, <1>3, <1>4 DEF HashInv, TableInv, Stored, Allocated
<1> QED BY <1>2, <1>5, ReturnStep

-----------------------------------------------------------------------------
(* The walks *)

\* The parts of the invariant a walk relies on.
LEMMA WalkFacts ==
  ASSUME HashInv, call.op \in KeyOps \cup LoopOps
  PROVE  /\ TypeInv /\ call.op \notin {"idle", "destroy", "destroyed"}
         /\ HeadsLeft = buckets /\ Linked(buckets, heap) /\ heap \in Heaps
         /\ Valid(buckets, heap) /\ Single(buckets, heap) /\ Entered(buckets, heap)
         /\ Distinct(heap)
         /\ \A e \in InUse(heap) : heap[e].next # e
         /\ call.op \in LoopOps <=> call.op \notin KeyOps
<1>1. TypeInv /\ call.op \notin {"idle", "destroy", "destroyed"}
  BY DEF HashInv, KeyOps, LoopOps
<1>2. HeadsLeft = buckets
  BY <1>1, HeadsAreBuckets
<1>3. Linked(buckets, heap)
  BY <1>2 DEF HashInv, TableInv
<1>4. ASSUME NEW e \in InUse(heap), heap[e].next = e PROVE FALSE
  <2>1. {e} \in SUBSET InUse(heap) /\ e # NULL
    BY <1>1, TypeFacts
  <2>2. CASE \E b \in Places : buckets[b] \in {e}
    BY <1>3, <1>4, <2>1, <2>2 DEF Linked, Single
  <2>3. CASE \E f \in InUse(heap) \ {e} : heap[f].next \in {e}
    BY <1>3, <1>4, <2>1, <2>3 DEF Linked, Single
  <2> QED BY <1>3, <2>1, <2>2, <2>3 DEF Linked, Entered
<1> QED BY <1>1, <1>2, <1>3, <1>4 DEF Linked, KeyOps, LoopOps

\* At the end of a chain all of it has been passed.
LEMMA ChainPassed ==
  ASSUME HashInv, call.op \in KeyOps \cup LoopOps, call.current = NULL, NEW V, Passed(V),
         NEW a \in InUse(heap), Home(heap, a) = Bucket
  PROVE  a \in V
<1> DEFINE S == {e \in InUse(heap) : Home(heap, e) = Bucket} \ V
<1> SUFFICES ASSUME S # {} PROVE FALSE
  OBVIOUS
<1>1. S \in SUBSET InUse(heap) /\ NULL \notin S
  BY WalkFacts, TypeFacts
<1>2. CASE \E b \in Places : buckets[b] \in S
  <2>1. PICK b \in Places : buckets[b] \in S
    BY <1>2
  <2>2. b = Bucket
    BY <1>1, <2>1, WalkFacts DEF Valid
  <2> QED BY <1>1, <2>1, <2>2 DEF Passed
<1>3. CASE \E e \in InUse(heap) \ S : heap[e].next \in S
  <2>1. PICK e \in InUse(heap) \ S : heap[e].next \in S
    BY <1>3
  <2>2. Home(heap, e) = Bucket
    BY <1>1, <2>1, WalkFacts DEF Valid
  <2>3. e \in V
    BY <2>1, <2>2
  <2> QED BY <1>1, <2>1, <2>2, <2>3 DEF Passed
<1> HIDE DEF S
<1> QED BY <1>1, <1>2, <1>3, WalkFacts DEF Entered

\* A walk goes on to the entry behind the current one.
LEMMA Advance ==
  ASSUME HashInv, call.op \in KeyOps \cup LoopOps, call.current # NULL, NEW V, Passed(V),
         NEW W, W = V \cup {call.current}, UNCHANGED <<buckets, heap>>,
         call'.op = call.op, call'.i = call.i, call'.key = call.key,
         call'.current = heap[call.current].next
  PROVE  /\ Passed(W)' /\ Bucket' = Bucket
         /\ call'.current # NULL =>
              call'.current \in InUse(heap) /\ Home(heap, call'.current) = Bucket
<1> DEFINE c == call.current
           n == heap[c].next
<1>1. c \in InUse(heap) /\ Home(heap, c) = Bucket /\ c \notin V /\ NULL \notin InUse(heap)
  BY WalkFacts, TypeFacts DEF HashInv, CursorInv, Passed
<1>2. Bucket' = Bucket
  BY DEF Bucket
<1>3. n # NULL => n \in InUse(heap) /\ Home(heap, n) = Bucket
  BY <1>1, WalkFacts DEF Valid
<1>4. n \notin W
  <2>1. n # c
    BY <1>1, WalkFacts
  <2>2. ASSUME n \in V PROVE FALSE
    <3>1. n # NULL
      BY <1>1, <2>2 DEF Passed
    <3>2. CASE \E b \in Places : buckets[b] = n
      BY <1>1, <3>1, <3>2, WalkFacts DEF Single
    <3>3. CASE \E e \in V : heap[e].next = n
      BY <1>1, <3>1, <3>3, WalkFacts DEF Single, Passed
    <3> QED BY <2>2, <3>2, <3>3 DEF Passed
  <2> QED BY <2>1, <2>2
<1>5. \A v \in W : IF call.op \in KeyOps THEN Home(heap, v) = Bucket ELSE Home(heap, v) <= call.i
  <2>1. call.op \notin KeyOps => Home(heap, c) <= call.i
    BY <1>1, WalkFacts, TypeFacts DEF Bucket, Places
  <2> QED BY <1>1, <2>1 DEF Passed
<1>6. \A v \in W : Home(heap, v) = Bucket => heap[v].next \in W \cup {n, NULL}
  BY <1>1 DEF Passed
<1>7. \A v \in W : (\E b \in Places : buckets[b] = v) \/ (\E e \in W : heap[e].next = v)
  <2>1. (\E b \in Places : buckets[b] = c) \/ (\E e \in W : heap[e].next = c)
    <3>1. ASSUME ~\E b \in Places : buckets[b] = c PROVE \E e \in V : heap[e].next = c
      <4> DEFINE S == {e \in InUse(heap) : Home(heap, e) = Bucket} \ V
      <4>1. S \in SUBSET InUse(heap) /\ c \in S
        BY <1>1
      <4>2. ~\E b \in Places : buckets[b] \in S
        <5>1. ASSUME NEW b \in Places, buckets[b] \in S PROVE FALSE
          <6>1. b = Bucket
            BY <1>1, <5>1, WalkFacts DEF Valid
          <6> QED BY <1>1, <3>1, <5>1, <6>1 DEF Passed
        <5> QED BY <5>1
      <4>3. PICK e \in InUse(heap) \ S : heap[e].next \in S
        <5> HIDE DEF S
        <5> QED BY <4>1, <4>2, WalkFacts DEF Entered
      <4>4. Home(heap, e) = Bucket /\ heap[e].next # NULL
        BY <1>1, <4>3, WalkFacts DEF Valid
      <4>5. e \in V
        BY <4>3, <4>4
      <4> QED BY <4>3, <4>4, <4>5 DEF Passed
    <3> QED BY <3>1
  <2> QED BY <2>1 DEF Passed
<1>8. W \subseteq InUse(heap) /\ buckets[Bucket] \in W \cup {n, NULL}
      /\ (call.op \in LoopOps => \A a \in InUse(heap) : Home(heap, a) < call.i => a \in W)
  BY <1>1 DEF Passed
<1> HIDE DEF n, c
<1>9. Passed(W)'
  <2>1. call'.current = n
    BY DEF n, c
  <2> QED BY <1>2, <1>4, <1>5, <1>6, <1>7, <1>8, <2>1 DEF Passed
<1> QED BY <1>2, <1>3, <1>9 DEF n, c

\* hashtable_add, hashtable_get and hashtable_del pass an entry of another key.
LEMMA NextEntryStep ==
  ASSUME HashInv, NextEntry
  PROVE  HashInv'
<1>1. /\ call.op \in KeyOps \cup LoopOps /\ call.op \in KeyOps /\ call.current # NULL
      /\ heap[call.current].key # call.key
      /\ call' = [call EXCEPT !.prev = call.current, !.current = heap[call.current].next]
      /\ UNCHANGED <<buckets, heap, size, live, before>>
  BY DEF NextEntry, KeyOps, AtKey, Current, ht
<1>2. call.current \in InUse(heap) /\ heap[call.current].next \in Addrs \cup {NULL}
  BY <1>1, WalkFacts, EntryFacts DEF HashInv, CursorInv
<1>3. /\ call' \in CallRecords
      /\ call'.prev = call.current /\ call'.current = heap[call.current].next
      /\ call'.op = call.op /\ call'.i = call.i /\ call'.key = call.key
      /\ call'.values = call.values /\ call'.cap = call.cap /\ call'.value = call.value
  BY <1>1, <1>2 DEF HashInv, TypeInv, CallRecords
<1>4. PICK V \in SUBSET InUse(heap) : Passed(V) /\ \A v \in V : heap[v].key # call.key
  BY <1>1 DEF HashInv, WalkInv
<1> PICK W : W = V \cup {call.current}
  OBVIOUS
<1>5. /\ Passed(W)' /\ Bucket' = Bucket
      /\ call'.current # NULL =>
           call'.current \in InUse(heap) /\ Home(heap, call'.current) = Bucket
  BY <1>1, <1>3, <1>4, Advance
<1>6. TypeInv'
  BY <1>1, <1>3 DEF HashInv, TypeInv
<1>7. TableInv'
  <2>1. HeadsLeft' = buckets /\ Stored' = Stored
    BY <1>1, <1>3, <1>6, WalkFacts DEF HeadsLeft, Stored, Allocated, TypeInv, Heads
  <2> QED BY <1>1, <1>3, <2>1, WalkFacts DEF HashInv, TableInv
<1>8. ArrayInv'
  BY <1>3 DEF HashInv, ArrayInv
<1>9. CursorInv'
  BY <1>1, <1>2, <1>3, <1>5, WalkFacts, TypeFacts DEF CursorInv
<1>10. WalkInv'
  <2>1. W \in SUBSET InUse(heap')
    BY <1>1, <1>2
  <2>2. \A v \in W : heap'[v].key # call'.key
    BY <1>1, <1>3, <1>4
  <2>3. call'.op \notin LoopOps
    BY <1>1, <1>3, WalkFacts
  <2> QED BY <1>5, <2>1, <2>2, <2>3 DEF WalkInv, LoopOps
<1>11. BeforeInv'
  BY <1>1, <1>3 DEF HashInv, BeforeInv, KeyOps
<1> QED BY <1>6, <1>7, <1>8, <1>9, <1>10, <1>11 DEF HashInv

-----------------------------------------------------------------------------
(* Counting *)

LEMMA InUseFinite ==
  ASSUME NEW hp \in Heaps, NEW V \in SUBSET InUse(hp)
  PROVE  IsFiniteSet(V)
BY EntryFacts, FS_Subset, HashAssumption

\* As many images as elements.
LEMMA ImageSize ==
  ASSUME NEW V, IsFiniteSet(V), NEW f, DOMAIN f = V, f = [v \in V |-> f[v]]
  PROVE  /\ IsFiniteSet({f[v] : v \in V})
         /\ (\A v, w \in V : f[v] = f[w] => v = w) =>
              Cardinality({f[v] : v \in V}) = Cardinality(V)
<1> DEFINE T == {f[v] : v \in V}
<1>1. f \in Surjection(V, T)
  BY DEF Surjection
<1>2. (\A v, w \in V : f[v] = f[w] => v = w) => f \in Injection(V, T)
  BY <1>1 DEF Injection, Surjection, IsInjective
<1> HIDE DEF T
<1>3. IsFiniteSet(T) /\ (Cardinality(T) = Cardinality(V) <=> f \in Injection(V, T))
  BY <1>1, FS_Surjection
<1> QED BY <1>2, <1>3 DEF T

\* As many values, and as many keys, as entries.
LEMMA ValuesSize ==
  ASSUME NEW hp \in Heaps, Distinct(hp), NEW V \in SUBSET InUse(hp)
  PROVE  /\ IsFiniteSet({hp[v].value : v \in V})
         /\ Cardinality({hp[v].value : v \in V}) = Cardinality(V)
         /\ Cardinality({hp[v].key : v \in V}) = Cardinality(V)
<1>1. IsFiniteSet(V)
  BY InUseFinite
<1> DEFINE f == [v \in V |-> hp[v].value]
           g == [v \in V |-> hp[v].key]
<1>2. {f[v] : v \in V} = {hp[v].value : v \in V} /\ {g[v] : v \in V} = {hp[v].key : v \in V}
  OBVIOUS
<1>3. \A v, w \in V : (f[v] = f[w] \/ g[v] = g[w]) => v = w
  BY DEF Distinct
<1>4. DOMAIN f = V /\ f = [v \in V |-> f[v]] /\ DOMAIN g = V /\ g = [v \in V |-> g[v]]
  OBVIOUS
<1> HIDE DEF f, g
<1>5. /\ IsFiniteSet({f[v] : v \in V}) /\ Cardinality({f[v] : v \in V}) = Cardinality(V)
  BY <1>1, <1>3, <1>4, ImageSize, SMTT(30)
<1>6. Cardinality({g[v] : v \in V}) = Cardinality(V)
  BY <1>1, <1>3, <1>4, ImageSize
<1> QED BY <1>2, <1>5, <1>6

LEMMA AppendRange ==
  ASSUME NEW S, NEW s \in Seq(S), NEW x \in S
  PROVE  /\ Append(s, x) \in Seq(S) /\ Len(Append(s, x)) = Len(s) + 1 /\ Len(s) \in Nat
         /\ Range(Append(s, x)) = Range(s) \cup {x}
<1>1. /\ Append(s, x) \in Seq(S) /\ Len(Append(s, x)) = Len(s) + 1 /\ Len(s) \in Nat
      /\ DOMAIN s = 1 .. Len(s) /\ DOMAIN Append(s, x) = 1 .. Len(s) + 1
      /\ \A i \in 1 .. Len(s) : Append(s, x)[i] = s[i]
      /\ Append(s, x)[Len(s) + 1] = x
  BY AppendProperties
<1> DEFINE t == Append(s, x)
<1> HIDE DEF t
<1>2. Range(t) \subseteq Range(s) \cup {x}
  BY <1>1 DEF Range, t
<1>3. Range(s) \subseteq Range(t)
  BY <1>1 DEF Range, t
<1>4. x \in Range(t)
  <2>1. Len(s) + 1 \in DOMAIN t /\ t[Len(s) + 1] = x
    BY <1>1 DEF t
  <2> QED BY <2>1 DEF Range
<1> QED BY <1>1, <1>2, <1>3, <1>4 DEF t

-----------------------------------------------------------------------------
(* The loops over all buckets *)

\* hashtable_sweep passes an entry that is not expired.
LEMMA SweepKeepStep ==
  ASSUME HashInv, SweepKeep
  PROVE  HashInv'
<1>1. /\ call.op \in KeyOps \cup LoopOps /\ call.op = "sweep" /\ call.current # NULL
      /\ heap[call.current].value \notin call.expired
      /\ call' = [call EXCEPT !.current = heap[call.current].next, !.prev = call.current]
      /\ UNCHANGED <<buckets, heap, size, live, before>>
  BY DEF SweepKeep, LoopOps, Current, ht
<1>2. call.current \in InUse(heap) /\ heap[call.current].next \in Addrs \cup {NULL}
  BY <1>1, WalkFacts, EntryFacts DEF HashInv, CursorInv
<1>3. /\ call' \in CallRecords
      /\ call'.prev = call.current /\ call'.current = heap[call.current].next
      /\ call'.op = call.op /\ call'.i = call.i /\ call'.key = call.key
      /\ call'.values = call.values /\ call'.cap = call.cap
      /\ call'.expired = call.expired /\ call'.n = call.n
  BY <1>1, <1>2 DEF HashInv, TypeInv, CallRecords
<1>4. PICK V \in SUBSET InUse(heap) :
        Passed(V) /\ \A v \in V : heap[v].value \notin call.expired
  BY <1>1 DEF HashInv, WalkInv
<1> PICK W : W = V \cup {call.current}
  OBVIOUS
<1>5. /\ Passed(W)' /\ Bucket' = Bucket
      /\ call'.current # NULL =>
           call'.current \in InUse(heap) /\ Home(heap, call'.current) = Bucket
  BY <1>1, <1>3, <1>4, Advance
<1>6. TypeInv'
  BY <1>1, <1>3 DEF HashInv, TypeInv
<1>7. TableInv'
  <2>1. HeadsLeft' = buckets /\ Stored' = Stored
    BY <1>1, <1>3, <1>6, WalkFacts DEF HeadsLeft, Stored, Allocated, TypeInv, Heads
  <2> QED BY <1>1, <1>3, <2>1, WalkFacts DEF HashInv, TableInv
<1>8. ArrayInv'
  BY <1>3 DEF HashInv, ArrayInv
<1>9. CursorInv'
  BY <1>1, <1>2, <1>3, <1>5, WalkFacts, TypeFacts DEF CursorInv
<1>10. WalkInv'
  <2>1. W \in SUBSET InUse(heap')
    BY <1>1, <1>2
  <2>2. \A v \in W : heap'[v].value \notin call'.expired
    BY <1>1, <1>3, <1>4
  <2> QED BY <1>1, <1>3, <1>5, <2>1, <2>2 DEF WalkInv, KeyOps
<1>11. BeforeInv'
  <2>1. Stored' = Stored
    BY <1>1 DEF Stored, Allocated
  <2> QED BY <1>1, <1>3, <2>1 DEF HashInv, BeforeInv, KeyOps
<1> QED BY <1>6, <1>7, <1>8, <1>9, <1>10, <1>11 DEF HashInv

\* hashtable_values writes a value; the array has been grown if it was full.
LEMMA CollectStep ==
  ASSUME HashInv, Collect
  PROVE  HashInv'
<1> DEFINE x == heap[call.current].value
<1>1. /\ call.op \in KeyOps \cup LoopOps /\ call.op = "values" /\ call.current # NULL
      /\ call' = [call EXCEPT !.cap = Grown, !.values = Append(call.values, x),
                              !.current = heap[call.current].next]
      /\ UNCHANGED <<buckets, heap, size, live, before>>
  BY DEF Collect, LoopOps, Current, ht
<1>2. /\ call.current \in InUse(heap) /\ heap[call.current].next \in Addrs \cup {NULL}
      /\ x \in Pointers
  BY <1>1, WalkFacts, EntryFacts DEF HashInv, CursorInv
<1>3. /\ Append(call.values, x) \in Seq(Pointers) /\ Len(call.values) \in Nat
      /\ Len(Append(call.values, x)) = Len(call.values) + 1
      /\ Range(Append(call.values, x)) = Range(call.values) \cup {x}
  BY <1>1, <1>2, WalkFacts, TypeFacts, AppendRange
<1>4. Grown \in Nat /\ Len(call.values) + 1 <= Grown
  BY <1>1, <1>3, WalkFacts, TypeFacts DEF Grown, HashInv, ArrayInv
<1>5. /\ call' \in CallRecords
      /\ call'.current = heap[call.current].next
      /\ call'.op = call.op /\ call'.i = call.i /\ call'.key = call.key
      /\ call'.values = Append(call.values, x) /\ call'.cap = Grown
  BY <1>1, <1>2, <1>3, <1>4 DEF HashInv, TypeInv, CallRecords
<1>6. PICK V \in SUBSET InUse(heap) :
        /\ Passed(V) /\ Range(call.values) = {heap[v].value : v \in V}
        /\ Len(call.values) = Cardinality(Range(call.values))
  BY <1>1 DEF HashInv, WalkInv
<1> PICK W : W = V \cup {call.current}
  OBVIOUS
<1>7. /\ Passed(W)' /\ Bucket' = Bucket
      /\ call'.current # NULL =>
           call'.current \in InUse(heap) /\ Home(heap, call'.current) = Bucket
  BY <1>1, <1>5, <1>6, Advance
<1>8. TypeInv'
  BY <1>1, <1>5 DEF HashInv, TypeInv
<1>9. TableInv'
  <2>1. HeadsLeft' = buckets /\ Stored' = Stored
    BY <1>1, <1>5, <1>8, WalkFacts DEF HeadsLeft, Stored, Allocated, TypeInv, Heads
  <2> QED BY <1>1, <1>5, <2>1, WalkFacts DEF HashInv, TableInv
<1>10. ArrayInv'
  BY <1>1, <1>3, <1>4, <1>5 DEF ArrayInv
<1>11. CursorInv'
  BY <1>1, <1>5, <1>7 DEF CursorInv, KeyOps
<1>12. WalkInv'
  <2>1. W \in SUBSET InUse(heap') /\ call.current \notin V
    BY <1>1, <1>2, <1>6 DEF Passed
  <2>2. Range(call.values)' = {heap[w].value : w \in W}
    BY <1>3, <1>5, <1>6
  <2>3. x \notin Range(call.values)
    BY <1>2, <1>6, <2>1, <1>1, WalkFacts DEF Distinct
  <2>4. IsFiniteSet(Range(call.values))
    BY <1>1, <1>6, WalkFacts, ValuesSize
  <2>5. Cardinality(Range(call.values) \cup {x}) = Cardinality(Range(call.values)) + 1
    BY <2>3, <2>4, FS_AddElement
  <2>6. Len(call.values)' = Cardinality(Range(call.values)')
    BY <1>3, <1>5, <1>6, <2>5
  <2> QED BY <1>1, <1>5, <1>7, <2>1, <2>2, <2>6 DEF WalkInv, KeyOps
<1>13. BeforeInv'
  BY <1>1, <1>5 DEF HashInv, BeforeInv, KeyOps
<1> QED BY <1>8, <1>9, <1>10, <1>11, <1>12, <1>13 DEF HashInv

\* The loops go on to the next bucket.
LEMMA NextBucketStep ==
  ASSUME HashInv, NextBucket
  PROVE  HashInv'
<1> DEFINE j == call.i + 1
<1>1. /\ call.op \in {"sweep", "values", "destroy"} /\ call.current = NULL
      /\ call.i < nbucket - 1
      /\ call' = [call EXCEPT !.i = j, !.current = buckets[j], !.prev = NULL]
      /\ UNCHANGED <<buckets, heap, size, live, before>>
  BY DEF NextBucket, PrevAtHead, ht
<1>2. TypeInv /\ call.i \in Nat /\ j \in Places /\ buckets[j] \in Addrs \cup {NULL}
  BY <1>1, TypeFacts, HashAssumption DEF HashInv, Places, Heads
<1>3. /\ call' \in CallRecords
      /\ call'.i = j /\ call'.current = buckets[j] /\ call'.prev = NULL
      /\ call'.op = call.op /\ call'.key = call.key /\ call'.n = call.n
      /\ call'.values = call.values /\ call'.cap = call.cap /\ call'.expired = call.expired
  BY <1>1, <1>2 DEF TypeInv, CallRecords
<1>4. TypeInv'
  BY <1>1, <1>2, <1>3 DEF TypeInv
<1>5. Stored' = Stored
  BY <1>1 DEF Stored, Allocated
<1>6. TableInv'
  <2>1. \A b \in Places : HeadsLeft'[b] = HeadsLeft[b]
    BY <1>1, <1>2, <1>3 DEF HeadsLeft, Places
  <2>2. HeadsLeft' = HeadsLeft
    BY <2>1 DEF HeadsLeft
  <2> QED BY <1>1, <1>3, <1>5, <2>2 DEF HashInv, TableInv
<1>7. ArrayInv'
  BY <1>3 DEF HashInv, ArrayInv
<1>8. CASE call.op = "destroy"
  <2>1. CursorInv' /\ WalkInv' /\ BeforeInv'
    BY <1>3, <1>8 DEF CursorInv, WalkInv, BeforeInv, KeyOps, LoopOps
  <2> QED BY <1>4, <1>6, <1>7, <2>1 DEF HashInv
<1>9. CASE call.op \in {"sweep", "values"}
  <2>1. call.op \in KeyOps \cup LoopOps /\ call.op \in LoopOps /\ call.op \notin KeyOps
    BY <1>9 DEF LoopOps, KeyOps
  <2>2. Bucket = call.i /\ Bucket' = j
    BY <1>3, <2>1 DEF Bucket
  <2>3. buckets[j] # NULL => buckets[j] \in InUse(heap) /\ Home(heap, buckets[j]) = j
    BY <1>2, <2>1, WalkFacts DEF Valid
  <2>4. CursorInv'
    BY <1>1, <1>3, <2>1, <2>2, <2>3 DEF CursorInv
  <2>5. PICK V \in SUBSET InUse(heap) :
          /\ Passed(V)
          /\ call.op = "sweep" => \A v \in V : heap[v].value \notin call.expired
          /\ call.op = "values" => /\ Range(call.values) = {heap[v].value : v \in V}
                                   /\ Len(call.values) = Cardinality(Range(call.values))
    BY <2>1 DEF HashInv, WalkInv
  <2>6. \A a \in InUse(heap) : Home(heap, a) \in Int
    BY <2>1, WalkFacts, EntryFacts DEF Places
  <2>7. \A a \in InUse(heap) : Home(heap, a) < j => a \in V
    <3>1. \A a \in InUse(heap) : Home(heap, a) = call.i => a \in V
      BY <1>1, <2>1, <2>2, <2>5, ChainPassed
    <3> QED BY <1>2, <2>1, <2>5, <2>6, <3>1 DEF Passed
  <2>8. \A v \in V : Home(heap, v) <= call.i /\ Home(heap, v) < j
    BY <1>2, <2>1, <2>5, <2>6 DEF Passed
  <2>9. buckets[j] \notin V
    BY <1>2, <2>1, <2>3, <2>5, <2>6, <2>8, WalkFacts, TypeFacts
  <2>10. \A v \in V : Home(heap, v) <= j /\ Home(heap, v) # j
    BY <1>2, <2>6, <2>8
  <2> HIDE DEF j
  <2>11. Passed(V)'
    BY <1>1, <1>3, <2>1, <2>2, <2>5, <2>7, <2>9, <2>10 DEF Passed
  <2>12. WalkInv'
    BY <1>1, <1>3, <2>1, <2>5, <2>11 DEF WalkInv
  <2>13. BeforeInv'
    BY <1>1, <1>3, <1>5 DEF HashInv, BeforeInv
  <2> QED BY <1>4, <1>6, <1>7, <2>4, <2>12, <2>13 DEF HashInv
<1> QED BY <1>1, <1>8, <1>9

-----------------------------------------------------------------------------
(* The steps that change the chains *)

\* A new entry adds its key to the map.
LEMMA MapAdd ==
  ASSUME NEW hp \in Heaps, Distinct(hp), NEW hp1 \in Heaps, Distinct(hp1),
         NEW a \in InUse(hp1), InUse(hp1) = InUse(hp) \cup {a}, a \notin InUse(hp),
         \A e \in InUse(hp) : hp1[e] = hp[e]
  PROVE  MapOf(hp1) = [MapOf(hp) EXCEPT ![hp1[a].key] = hp1[a].value]
<1> DEFINE M == MapOf(hp)
           N == MapOf(hp1)
<1>1. M \in [Keys -> Pointers \cup {NULL}] /\ N \in [Keys -> Pointers \cup {NULL}]
  BY MapFacts
<1>2. N[hp1[a].key] = hp1[a].value /\ hp1[a].key \in Keys
  BY MapFacts, EntryFacts
<1>3. ASSUME NEW k \in Keys, k # hp1[a].key PROVE N[k] = M[k]
  <2>1. CASE \E e \in InUse(hp) : hp[e].key = k
    <3>1. PICK e \in InUse(hp) : hp[e].key = k
      BY <2>1
    <3>2. M[k] = hp[e].value
      BY <3>1, MapFacts
    <3>3. N[k] = hp1[e].value
      BY <3>1, MapFacts
    <3> QED BY <3>2, <3>3
  <2>2. CASE ~ \E e \in InUse(hp) : hp[e].key = k
    <3>1. M[k] = NULL
      BY <2>2, MapFacts
    <3>2. \A e \in InUse(hp1) : hp1[e].key # k
      BY <1>3, <2>2
    <3>3. N[k] = NULL
      BY <3>2, MapFacts
    <3> QED BY <3>1, <3>3
  <2> QED BY <2>1, <2>2
<1> HIDE DEF M, N
<1> QED BY <1>1, <1>2, <1>3 DEF M, N

\* A removed entry takes its key from the map.
LEMMA MapRemove ==
  ASSUME NEW hp \in Heaps, Distinct(hp), NEW hp1 \in Heaps, Distinct(hp1),
         NEW c \in InUse(hp), InUse(hp1) = InUse(hp) \ {c},
         \A e \in InUse(hp1) : hp1[e].key = hp[e].key /\ hp1[e].value = hp[e].value
  PROVE  MapOf(hp1) = [MapOf(hp) EXCEPT ![hp[c].key] = NULL]
<1> DEFINE M == MapOf(hp)
           N == MapOf(hp1)
<1>1. M \in [Keys -> Pointers \cup {NULL}] /\ N \in [Keys -> Pointers \cup {NULL}]
  BY MapFacts
<1>2. N[hp[c].key] = NULL /\ hp[c].key \in Keys
  <2>1. \A e \in InUse(hp1) : hp1[e].key # hp[c].key
    BY DEF Distinct
  <2>2. hp[c].key \in Keys
    BY EntryFacts
  <2> QED BY <2>1, <2>2, MapFacts
<1>3. ASSUME NEW k \in Keys, k # hp[c].key PROVE N[k] = M[k]
  <2>1. CASE \E e \in InUse(hp1) : hp1[e].key = k
    <3>1. PICK e \in InUse(hp1) : hp1[e].key = k
      BY <2>1
    <3>2. M[k] = hp[e].value
      BY <3>1, MapFacts
    <3>3. N[k] = hp1[e].value
      BY <3>1, MapFacts
    <3> QED BY <3>2, <3>3
  <2>2. CASE ~ \E e \in InUse(hp1) : hp1[e].key = k
    <3>1. N[k] = NULL
      BY <2>2, MapFacts
    <3>2. \A e \in InUse(hp) : hp[e].key # k
      BY <1>3, <2>2
    <3>3. M[k] = NULL
      BY <3>2, MapFacts
    <3> QED BY <3>1, <3>3
  <2> QED BY <2>1, <2>2
<1> HIDE DEF M, N
<1> QED BY <1>1, <1>2, <1>3 DEF M, N

\* What hashtable_add does to the table when the key is not there.
LEMMA AddFacts ==
  ASSUME HashInv, AddLinks
  PROVE  /\ Linked(buckets', heap') /\ TypeInv' /\ (Stored \subseteq live)'
         /\ size' = Cardinality(InUse(heap'))
         /\ Stored \subseteq Stored' /\ live' = live
         /\ call.op = "add" /\ call.key \in Keys /\ call.value \in Pointers
         /\ MapOf(heap)[call.key] = NULL /\ before = MapOf(heap)
         /\ MapOf(heap') = [MapOf(heap) EXCEPT ![call.key] = call.value]
<1> DEFINE k == call.key
           v == call.value
<1>1. PICK a \in Addrs \ InUse(heap) :
        /\ heap' = [heap EXCEPT ![a] = [key |-> k, value |-> v, next |-> buckets[BucketOf(k)]]]
        /\ buckets' = [buckets EXCEPT ![BucketOf(k)] = a]
  BY DEF AddLinks, Allocated, InUse
<1>2. /\ call.op = "add" /\ call.op \in KeyOps \cup LoopOps /\ call.op \in KeyOps
      /\ call.current = NULL /\ call' = Idle /\ size' = size + 1
      /\ UNCHANGED <<live, before>>
  BY DEF AddLinks, Return, KeyOps
<1>3. /\ TypeInv /\ Linked(buckets, heap) /\ heap \in Heaps /\ Distinct(heap)
      /\ k \in Keys /\ live \subseteq Pointers /\ before = MapOf(heap)
      /\ v \in live \ Stored /\ v \in Pointers /\ Stored \subseteq live
      /\ size = Cardinality(InUse(heap))
  BY <1>2, WalkFacts DEF HashInv, TypeInv, TableInv, BeforeInv
<1>4. \A e \in InUse(heap) : heap[e].key # k
  <2>1. PICK V \in SUBSET InUse(heap) : Passed(V) /\ \A w \in V : heap[w].key # k
    BY <1>2 DEF HashInv, WalkInv
  <2>2. \A e \in InUse(heap) : Home(heap, e) = Bucket => e \in V
    BY <1>2, <2>1, ChainPassed
  <2>3. \A e \in InUse(heap) : heap[e].key = k => Home(heap, e) = Bucket
    BY <1>2 DEF Home, Bucket
  <2> QED BY <2>1, <2>2, <2>3
<1>5. \A e \in InUse(heap) : heap[e].value # v
  BY <1>3, TypeFacts
<1>6. Linked(buckets', heap') /\ InUse(heap') = InUse(heap) \cup {a}
  <2>1. \A e \in InUse(heap) : heap[e].key # k /\ heap[e].value # v
    BY <1>4, <1>5
  <2>2. Linked(buckets, heap) /\ k \in Keys /\ v \in Pointers
    BY <1>3
  <2>0. PICK new : new = [key |-> k, value |-> v, next |-> buckets[BucketOf(k)]]
    OBVIOUS
  <2>3. /\ new \in EntryRecords /\ new.key = k /\ new.value = v
        /\ new.next = buckets[BucketOf(k)]
    BY <1>3, <2>0, <2>2, BucketType, TypeFacts DEF EntryRecords, Heads
  <2>4. heap' = [heap EXCEPT ![a] = new] /\ buckets' = [buckets EXCEPT ![BucketOf(k)] = a]
    BY <1>1, <2>0
  <2>5. AddsFirst(buckets, heap, a, new, buckets', heap')
    BY <2>1, <2>3, <2>4 DEF AddsFirst
  <2> QED BY <2>2, <2>5, LinkFirst
<1>7. /\ heap' \in Heaps /\ buckets' \in Heads /\ Distinct(heap')
  BY <1>6 DEF Linked
<1>8. /\ heap'[a].key = k /\ heap'[a].value = v /\ a \notin InUse(heap)
      /\ \A e \in InUse(heap) : heap'[e] = heap[e]
  BY <1>1, <1>3, EntryFacts DEF Heaps
<1>9. Stored' = Stored \cup {v}
  <2>1. Stored' = {heap'[e].value : e \in InUse(heap')}
    BY DEF Stored, Allocated, InUse
  <2> QED BY <1>3, <1>6, <1>8, <2>1, TypeFacts
<1>10. size' = Cardinality(InUse(heap'))
  <2>1. IsFiniteSet(InUse(heap))
    BY <1>3, InUseFinite
  <2> QED BY <1>2, <1>3, <1>6, <1>8, <2>1, FS_AddElement
<1>11. TypeInv'
  <2>1. Idle \in CallRecords /\ Idle.op \notin KeyOps
    BY HashAssumption DEF Idle, CallRecords, Places, KeyOps
  <2> QED BY <1>2, <1>3, <1>7, <2>1 DEF TypeInv
<1>12. MapOf(heap)[k] = NULL
  BY <1>3, <1>4, MapFacts
<1>13. MapOf(heap') = [MapOf(heap) EXCEPT ![k] = v]
  BY <1>3, <1>6, <1>7, <1>8, MapAdd
<1> QED BY <1>2, <1>3, <1>6, <1>9, <1>10, <1>11, <1>12, <1>13

\* What hashtable_del and hashtable_sweep do to the table when an entry goes.
LEMMA UnlinkFacts ==
  ASSUME HashInv, call.op \in {"del", "sweep"}, call.current # NULL,
         NEW first \in BOOLEAN, Unlink(Bucket, first),
         first => call.current = buckets[Bucket],
         ~first => call.prev \in InUse(heap) /\ heap[call.prev].next = call.current
  PROVE  /\ Linked(buckets', heap') /\ Skips(buckets, heap, call.current, buckets', heap')
         /\ size' \in Int /\ size' = Cardinality(InUse(heap'))
         /\ heap[call.current].value \in Stored
         /\ Stored' = Stored \ {heap[call.current].value}
         /\ live' = live \ {heap[call.current].value}
         /\ heap[call.current].key \in Keys
         /\ MapOf(heap)[heap[call.current].key] = heap[call.current].value
         /\ MapOf(heap') = [MapOf(heap) EXCEPT ![heap[call.current].key] = NULL]
<1>0. PICK c : c = call.current
  OBVIOUS
<1>1. call.op \in KeyOps \cup LoopOps
  BY DEF KeyOps, LoopOps
<1>2. /\ TypeInv /\ Linked(buckets, heap) /\ heap \in Heaps /\ Distinct(heap)
      /\ Bucket \in Places /\ c # NULL /\ size = Cardinality(InUse(heap))
  BY <1>0, <1>1, WalkFacts, BucketPlace DEF HashInv, TableInv
<1>3. Linked(buckets', heap') /\ Skips(buckets, heap, c, buckets', heap')
  <2>1. CASE first
    <3>1. RemovesFirst(buckets, heap, Bucket, c, buckets', heap')
      BY <1>0, <1>2, <2>1 DEF Unlink, Current, RemovesFirst
    <3> QED BY <1>2, <3>1, UnlinkFirst
  <2>2. CASE ~first
    <3>1. RemovesLater(heap, call.prev, c, heap') /\ buckets' = buckets
      BY <1>0, <1>2, <2>2 DEF Unlink, Current, RemovesLater
    <3>2. Linked(buckets, heap') /\ Skips(buckets, heap, c, buckets, heap')
      BY <1>2, <3>1, UnlinkLater
    <3> QED BY <3>1, <3>2
  <2> QED BY <2>1, <2>2
<1>4. /\ heap' \in Heaps /\ Distinct(heap') /\ c \in InUse(heap)
      /\ InUse(heap') = InUse(heap) \ {c}
      /\ \A e \in InUse(heap') : heap'[e].key = heap[e].key /\ heap'[e].value = heap[e].value
  BY <1>3 DEF Linked, Skips
<1>5. live' = live \ {heap[c].value} /\ size' = size - 1
  BY <1>0 DEF Unlink, Freed, Current
<1>6. size' \in Int /\ size' = Cardinality(InUse(heap'))
  <2>1. IsFiniteSet(InUse(heap))
    BY <1>2, InUseFinite
  <2>2. size \in Int
    BY <1>2 DEF TypeInv
  <2>3. Cardinality(InUse(heap) \ {c}) = Cardinality(InUse(heap)) - 1
    BY <1>4, <2>1, FS_RemoveElement
  <2> QED BY <1>2, <1>4, <1>5, <2>2, <2>3
<1>7. heap[c].value \in Stored /\ Stored' = Stored \ {heap[c].value}
  <2>1. Stored' = {heap'[e].value : e \in InUse(heap')}
    BY DEF Stored, Allocated, InUse
  <2>2. Stored = {heap[e].value : e \in InUse(heap)}
    BY <1>2, TypeFacts
  <2>3. Stored' = {heap[e].value : e \in InUse(heap) \ {c}}
    BY <1>4, <2>1
  <2> QED BY <1>2, <1>4, <2>2, <2>3 DEF Distinct
<1>8. heap[c].key \in Keys /\ MapOf(heap)[heap[c].key] = heap[c].value
  BY <1>2, <1>4, MapFacts, EntryFacts
<1>9. MapOf(heap') = [MapOf(heap) EXCEPT ![heap[c].key] = NULL]
  BY <1>2, <1>4, MapRemove
<1> QED BY <1>0, <1>3, <1>5, <1>6, <1>7, <1>8, <1>9

\* hashtable_del finds its entry at the head or behind prev.
LEMMA DelFacts ==
  ASSUME HashInv, DelFound
  PROVE  /\ Linked(buckets', heap') /\ TypeInv' /\ (Stored \subseteq live)'
         /\ size' = Cardinality(InUse(heap'))
         /\ Stored \ Stored' = {heap[call.current].value}
         /\ live \ live' = {heap[call.current].value}
         /\ call.op = "del" /\ call.key \in Keys /\ heap[call.current].key = call.key
         /\ MapOf(heap)[call.key] = heap[call.current].value
         /\ heap[call.current].value \in Pointers
         /\ before = MapOf(heap)
         /\ MapOf(heap') = [MapOf(heap) EXCEPT ![call.key] = NULL]
<1>1. /\ call.op = "del" /\ call.op \in KeyOps \cup LoopOps /\ call.op \in KeyOps
      /\ call.current # NULL /\ heap[call.current].key = call.key
      /\ call' = Idle /\ before' = before
      /\ Unlink(Bucket, call.current = buckets[Bucket])
  BY DEF DelFound, AtKey, Current, Return, KeyOps, Bucket
<1>2. TypeInv /\ TableInv /\ CursorInv /\ BeforeInv
  BY DEF HashInv
<1>3. PICK first \in BOOLEAN : first <=> call.current = buckets[Bucket]
  OBVIOUS
<1>4. Unlink(Bucket, first)
  BY <1>1, <1>3 DEF Unlink
<1>5. first => call.current = buckets[Bucket]
  BY <1>3
<1>6. ~first => call.prev \in InUse(heap) /\ heap[call.prev].next = call.current
  BY <1>1, <1>2, <1>3 DEF CursorInv
<1>7. /\ Linked(buckets', heap')
      /\ size' \in Int /\ size' = Cardinality(InUse(heap'))
      /\ heap[call.current].value \in Stored
      /\ Stored' = Stored \ {heap[call.current].value}
      /\ live' = live \ {heap[call.current].value}
      /\ MapOf(heap)[heap[call.current].key] = heap[call.current].value
      /\ MapOf(heap') = [MapOf(heap) EXCEPT ![heap[call.current].key] = NULL]
  BY <1>1, <1>4, <1>5, <1>6, UnlinkFacts
<1>8. Stored \subseteq live /\ Stored \subseteq Pointers /\ live \subseteq Pointers
  BY <1>2, TypeFacts DEF TableInv, TypeInv
<1>9. TypeInv'
  <2>1. Idle \in CallRecords /\ Idle.op \notin KeyOps
    BY HashAssumption DEF Idle, CallRecords, Places, KeyOps
  <2>2. buckets' \in Heads /\ heap' \in Heaps
    BY <1>7 DEF Linked
  <2> QED BY <1>1, <1>2, <1>7, <1>8, <2>1, <2>2 DEF TypeInv
<1>10. (Stored \subseteq live)'
  BY <1>7, <1>8
<1>11. call.key \in Keys /\ before = MapOf(heap)
  BY <1>1, <1>2 DEF TypeInv, BeforeInv
<1> QED BY <1>1, <1>7, <1>8, <1>9, <1>10, <1>11

\* hashtable_sweep removes an expired entry and stays where it is.
LEMMA SweepRemoveStep ==
  ASSUME HashInv, SweepRemove
  PROVE  /\ HashInv' /\ Stored \ Stored' = {heap[call.current].value}
         /\ live \ live' = {heap[call.current].value}
<1>0. PICK c, n : c = call.current /\ n = heap[call.current].next
  OBVIOUS
<1>1. /\ call.op = "sweep" /\ call.op \in KeyOps \cup LoopOps /\ call.op \in LoopOps
      /\ call.op \notin KeyOps /\ c # NULL /\ heap[c].value \in call.expired
      /\ call' = [call EXCEPT !.current = n, !.prev = call.prev, !.n = call.n + 1]
      /\ Bucket = call.i /\ Unlink(Bucket, call.prev = NULL) /\ before' = before
  BY <1>0 DEF SweepRemove, Current, PrevAfterRemoval, Bucket, KeyOps, LoopOps
<1>2. TypeInv /\ TableInv /\ CursorInv /\ BeforeInv /\ ArrayInv
  BY DEF HashInv
<1>3. PICK first \in BOOLEAN : first <=> call.prev = NULL
  OBVIOUS
<1>4. Unlink(Bucket, first)
  BY <1>1, <1>3 DEF Unlink
<1>5. first => call.current = buckets[Bucket]
  BY <1>1, <1>2, <1>3 DEF CursorInv
<1>6. ~first => call.prev \in InUse(heap) /\ heap[call.prev].next = call.current
  BY <1>1, <1>2, <1>3 DEF CursorInv
<1>7. /\ Linked(buckets', heap') /\ Skips(buckets, heap, c, buckets', heap')
      /\ size' \in Int /\ size' = Cardinality(InUse(heap'))
      /\ heap[c].value \in Stored
      /\ Stored' = Stored \ {heap[c].value} /\ live' = live \ {heap[c].value}
      /\ heap[c].key \in Keys
      /\ MapOf(heap)[heap[c].key] = heap[c].value
      /\ MapOf(heap') = [MapOf(heap) EXCEPT ![heap[c].key] = NULL]
  BY <1>0, <1>1, <1>4, <1>5, <1>6, UnlinkFacts
<1>8. /\ Stored \subseteq live /\ Stored \subseteq Pointers /\ live \subseteq Pointers
      /\ NULL \notin InUse(heap) /\ call.n \in Nat /\ call.i \in Int
  BY <1>2, TypeFacts DEF TableInv, TypeInv, Places
<1>9. /\ c \in InUse(heap) /\ n \in Addrs \cup {NULL} /\ n # c
      /\ n # NULL => n \in InUse(heap) /\ Home(heap, n) = Bucket
      /\ Home(heap, c) = Bucket
  BY <1>0, <1>1, <1>2, WalkFacts, EntryFacts DEF CursorInv, Valid
<1>10. /\ call' \in CallRecords
       /\ call'.op = "sweep" /\ call'.current = n /\ call'.prev = call.prev
       /\ call'.i = call.i /\ call'.n = call.n + 1 /\ call'.expired = call.expired
       /\ call'.values = call.values /\ call'.cap = call.cap
  <2>1. call \in CallRecords /\ call.n + 1 \in Nat
    BY <1>2, <1>8 DEF TypeInv
  <2> QED BY <1>1, <1>9, <2>1 DEF CallRecords
<1>11. TypeInv'
  <2>1. buckets' \in Heads /\ heap' \in Heaps
    BY <1>7 DEF Linked
  <2> QED BY <1>1, <1>2, <1>7, <1>8, <1>10, <2>1 DEF TypeInv, KeyOps
<1>12. TableInv'
  <2>1. HeadsLeft' = buckets'
    BY <1>10, <1>11 DEF HeadsLeft, TypeInv, Heads
  <2> QED BY <1>7, <1>8, <1>10, <2>1 DEF TableInv
<1>13. ArrayInv'
  BY <1>1, <1>2, <1>10 DEF ArrayInv
<1>14. Bucket' = Bucket
  BY <1>1, <1>10 DEF Bucket, KeyOps
<1>15. /\ InUse(heap') = InUse(heap) \ {c}
       /\ \A e \in InUse(heap') :
            /\ heap'[e].key = heap[e].key /\ heap'[e].value = heap[e].value
            /\ Home(heap', e) = Home(heap, e)
            /\ heap'[e].next = IF heap[e].next = c THEN n ELSE heap[e].next
       /\ \A x \in Places : buckets'[x] = IF buckets[x] = c THEN n ELSE buckets[x]
  BY <1>0, <1>7 DEF Skips, Home
<1>16. CursorInv'
  <2>1. n # NULL => n \in InUse(heap') /\ Home(heap', n) = Bucket
    BY <1>9, <1>15
  <2>2. call.prev = NULL => n = buckets'[Bucket]
    BY <1>0, <1>1, <1>2, <1>3, <1>5, <1>15, BucketPlace
  <2>3. call.prev # NULL => call.prev \in InUse(heap') /\ heap'[call.prev].next = n
    <3>1. call.prev # NULL => call.prev # c
      BY <1>0, <1>1, <1>3, <1>6, WalkFacts
    <3> QED BY <1>0, <1>3, <1>6, <1>15, <3>1
  <2> QED BY <1>10, <1>14, <2>1, <2>2, <2>3 DEF CursorInv, KeyOps
<1>17. WalkInv'
  <2>1. PICK V \in SUBSET InUse(heap) :
          Passed(V) /\ \A v \in V : heap[v].value \notin call.expired
    BY <1>1 DEF HashInv, WalkInv
  <2>2. c \notin V /\ V \in SUBSET InUse(heap')
    BY <1>0, <1>15, <2>1 DEF Passed
  <2>3. n \notin V
    <3>1. ASSUME n \in V PROVE FALSE
      <4>1. n # NULL /\ heap[c].next = n
        BY <1>0, <1>8, <3>1
      <4>2. CASE \E b \in Places : buckets[b] = n
        BY <1>1, <1>9, <4>1, <4>2, WalkFacts DEF Single
      <4>3. CASE \E e \in V : heap[e].next = n
        BY <1>1, <1>9, <2>2, <4>1, <4>3, WalkFacts DEF Single
      <4> QED BY <2>1, <3>1, <4>2, <4>3 DEF Passed
    <3> QED BY <3>1
  <2>4. buckets'[Bucket] \in V \cup {n, NULL}
    BY <1>0, <1>2, <1>15, <2>1, BucketPlace DEF Passed
  <2>5. \A v \in V : Home(heap', v) = Bucket => heap'[v].next \in V \cup {n, NULL}
    BY <1>0, <1>15, <2>1, <2>2 DEF Passed
  <2>6. \A v \in V : (\E b \in Places : buckets'[b] = v) \/ (\E e \in V : heap'[e].next = v)
    <3> TAKE v \in V
    <3>1. CASE \E b \in Places : buckets[b] = v
      BY <1>15, <2>2, <3>1
    <3>2. CASE \E e \in V : heap[e].next = v
      BY <1>15, <2>2, <3>2
    <3> QED BY <2>1, <3>1, <3>2 DEF Passed
  <2>7. \A v \in V : Home(heap', v) <= call.i
    BY <1>1, <1>15, <2>1, <2>2 DEF Passed
  <2>8. \A a \in InUse(heap') : Home(heap', a) < call.i => a \in V
    BY <1>1, <1>15, <2>1 DEF Passed
  <2>9. Passed(V)'
    BY <1>10, <1>14, <2>2, <2>3, <2>4, <2>5, <2>6, <2>7, <2>8 DEF Passed, KeyOps
  <2>10. \A v \in V : heap'[v].value \notin call'.expired
    BY <1>10, <1>15, <2>1, <2>2
  <2> QED BY <1>10, <2>2, <2>9, <2>10 DEF WalkInv, KeyOps
<1>18. BeforeInv'
  <2> DEFINE M == MapOf(heap)
             x == heap[c].value
             X == ValuesOf(before)
  <2>1. /\ \A k \in Keys : M[k] = before[k] \/ (M[k] = NULL /\ before[k] \in call.expired)
        /\ IsFiniteSet(X \ Stored) /\ call.n = Cardinality(X \ Stored)
    BY <1>1, <1>2 DEF BeforeInv
  <2>2. M \in [Keys -> Pointers \cup {NULL}] /\ x # NULL
    BY <1>1, <1>7, <1>8, WalkFacts, MapFacts, HashAssumption
  <2>3. before[heap[c].key] = x
    BY <1>7, <2>1, <2>2
  <2>4. \A k \in Keys : \/ MapOf(heap')[k] = before[k]
                        \/ MapOf(heap')[k] = NULL /\ before[k] \in call.expired
    <3> HIDE DEF M, x
    <3>1. MapOf(heap') = [M EXCEPT ![heap[c].key] = NULL] /\ heap[c].key \in Keys
      BY <1>7 DEF M
    <3>2. x \in call.expired
      BY <1>1 DEF x
    <3> QED BY <2>1, <2>2, <2>3, <3>1, <3>2
  <2>5. x \in X
    BY <1>7, <2>2, <2>3 DEF ValuesOf
  <2>6. X \ Stored' = (X \ Stored) \cup {x} /\ x \notin X \ Stored
    BY <1>7, <2>5
  <2> HIDE DEF X, x
  <2>7. IsFiniteSet(X \ Stored') /\ Cardinality(X \ Stored') = call.n + 1
    <3>1. PICK Y : Y = X \ Stored
      OBVIOUS
    <3>2. IsFiniteSet(Y) /\ x \notin Y /\ call.n = Cardinality(Y)
      BY <2>1, <2>6, <3>1
    <3>3. IsFiniteSet(Y \cup {x}) /\ Cardinality(Y \cup {x}) = call.n + 1
      BY <3>2, FS_AddElement
    <3> QED BY <2>6, <3>1, <3>3
  <2> QED BY <1>1, <1>10, <2>4, <2>7 DEF BeforeInv, KeyOps, X
<1> QED BY <1>0, <1>7, <1>8, <1>11, <1>12, <1>13, <1>16, <1>17, <1>18 DEF HashInv

-----------------------------------------------------------------------------
(* hashtable_destroy *)

LEMMA IdleFacts ==
  /\ Idle \in CallRecords /\ Idle.op = "idle" /\ Idle.i = 0 /\ Idle.prev = NULL
  /\ Idle.cap = 0 /\ Idle.n = 0 /\ Idle.values = <<>> /\ Idle.current = NULL
BY HashAssumption DEF Idle, CallRecords, Places

\* Freeing an entry takes it from the chains that are left.
LEMMA DestroyEntryStep ==
  ASSUME HashInv, DestroyEntry
  PROVE  HashInv' /\ Stored \ Stored' = live \ live'
<1>0. PICK c, n, i : c = call.current /\ n = heap[call.current].next /\ i = call.i
  OBVIOUS
<1>1. /\ call.op = "destroy" /\ c # NULL /\ heap' = [heap EXCEPT ![c] = NULL]
      /\ live' = live \ {heap[c].value} /\ call' = [call EXCEPT !.current = n]
      /\ UNCHANGED <<buckets, size, before>>
  BY <1>0 DEF DestroyEntry, Freed, Current
<1>2. /\ TypeInv /\ Linked(HeadsLeft, heap) /\ ArrayInv /\ i \in Places
      /\ Stored \subseteq live /\ live \subseteq Pointers
      /\ Stored = {heap[a].value : a \in InUse(heap)}
  BY <1>0, TypeFacts DEF HashInv, TableInv, TypeInv
<1>3. c = HeadsLeft[i] /\ c \in InUse(heap) /\ n \in Addrs \cup {NULL}
  <2>1. c = HeadsLeft[i]
    BY <1>0, <1>1, <1>2 DEF HeadsLeft, Places
  <2>2. c \in InUse(heap)
    BY <1>1, <1>2, <2>1 DEF Linked, Valid
  <2> QED BY <1>0, <1>2, <2>1, <2>2, EntryFacts DEF Linked
<1>4. /\ call' \in CallRecords /\ call'.op = "destroy" /\ call'.current = n
      /\ call'.i = i /\ call'.values = call.values /\ call'.cap = call.cap
  BY <1>0, <1>1, <1>2, <1>3 DEF TypeInv, CallRecords
<1>5. HeadsLeft' = [HeadsLeft EXCEPT ![i] = n]
  <2>1. \A b \in Places : HeadsLeft'[b] = IF b = i THEN n ELSE HeadsLeft[b]
    BY <1>0, <1>1, <1>2, <1>4 DEF HeadsLeft, Places
  <2>2. HeadsLeft' = [b \in Places |-> HeadsLeft'[b]] /\ HeadsLeft = [b \in Places |-> HeadsLeft[b]]
    BY DEF HeadsLeft
  <2> QED BY <1>2, <2>1, <2>2
<1>6. RemovesFirst(HeadsLeft, heap, i, c, HeadsLeft', heap')
  BY <1>0, <1>1, <1>2, <1>3, <1>5 DEF RemovesFirst
<1>7. Linked(HeadsLeft', heap') /\ Skips(HeadsLeft, heap, c, HeadsLeft', heap')
  BY <1>2, <1>6, UnlinkFirst
<1>8. Stored' = Stored \ {heap[c].value} /\ heap[c].value \in Stored
  <2>1. Stored' = {heap'[e].value : e \in InUse(heap')}
    BY DEF Stored, Allocated, InUse
  <2>2. Stored' = {heap[e].value : e \in InUse(heap) \ {c}}
    BY <1>7, <2>1 DEF Skips
  <2> QED BY <1>2, <1>3, <2>2 DEF Linked, Distinct
<1>9. TypeInv'
  <2>1. heap' \in Heaps
    BY <1>7 DEF Linked
  <2> QED BY <1>1, <1>2, <1>4, <2>1 DEF TypeInv, KeyOps
<1>10. TableInv'
  BY <1>1, <1>2, <1>4, <1>7, <1>8 DEF TableInv
<1>11. ArrayInv'
  BY <1>1, <1>2, <1>4 DEF ArrayInv
<1>12. CursorInv' /\ WalkInv' /\ BeforeInv'
  BY <1>4 DEF CursorInv, WalkInv, BeforeInv, KeyOps, LoopOps
<1> QED BY <1>1, <1>2, <1>8, <1>9, <1>10, <1>11, <1>12 DEF HashInv

\* Behind the last entry of the last chain nothing is left.
LEMMA DestroyReturnStep ==
  ASSUME HashInv, DestroyReturn
  PROVE  HashInv' /\ InUse(heap) = {} /\ InUse(heap') = {} /\ Stored' = Stored
<1>1. /\ call.op = "destroy" /\ call.current = NULL /\ call.i = nbucket - 1
      /\ buckets' = [b \in DOMAIN buckets |-> NULL]
      /\ call' = [Idle EXCEPT !.op = "destroyed"]
      /\ UNCHANGED <<heap, size, live, before>>
  BY DEF DestroyReturn, LastBucketDone
<1>2. /\ TypeInv /\ Linked(HeadsLeft, heap) /\ Stored \subseteq live
      /\ NULL \notin InUse(heap)
  BY TypeFacts DEF HashInv, TableInv
<1>3. \A b \in Places : HeadsLeft[b] = NULL
  BY <1>1, HashAssumption DEF HeadsLeft, Places
<1>4. InUse(heap) = {}
  <2>1. ASSUME InUse(heap) # {} PROVE FALSE
    <3>1. InUse(heap) \in SUBSET InUse(heap)
      OBVIOUS
    <3>2. PICK b \in Places : HeadsLeft[b] \in InUse(heap)
      BY <1>2, <2>1, <3>1 DEF Linked, Entered
    <3> QED BY <1>2, <1>3, <3>2
  <2> QED BY <2>1
<1>5. buckets' \in Heads /\ \A b \in Places : buckets'[b] = NULL
  BY <1>1, <1>2 DEF TypeInv, Heads
<1>6. /\ call' \in CallRecords /\ call'.op = "destroyed" /\ call'.current = NULL
      /\ call'.values = <<>> /\ call'.cap = 0
  BY <1>1, IdleFacts DEF CallRecords
<1>7. TypeInv'
  BY <1>1, <1>2, <1>5, <1>6 DEF TypeInv, KeyOps
<1>8. TableInv'
  <2>1. \A b \in Places : HeadsLeft'[b] = NULL
    BY <1>5, <1>6 DEF HeadsLeft
  <2>2. HeadsLeft' \in Heads
    BY <2>1 DEF HeadsLeft, Heads
  <2>3. heap' = heap /\ InUse(heap') = {} /\ heap' \in Heaps
    BY <1>1, <1>4, <1>7 DEF TypeInv
  <2>4. Linked(HeadsLeft', heap')
    BY <2>1, <2>2, <2>3 DEF Linked, Valid, Single, Entered, Distinct
  <2>5. Stored' = Stored /\ live' = live
    BY <1>1 DEF Stored, Allocated
  <2> QED BY <1>2, <1>5, <1>6, <2>3, <2>4, <2>5 DEF TableInv
<1>9. ArrayInv'
  BY <1>6 DEF ArrayInv
<1>10. CursorInv' /\ WalkInv' /\ BeforeInv'
  BY <1>6 DEF CursorInv, WalkInv, BeforeInv, KeyOps, LoopOps
<1>11. InUse(heap') = {} /\ Stored' = Stored
  BY <1>1, <1>4 DEF Stored, Allocated
<1> QED BY <1>4, <1>7, <1>8, <1>9, <1>10, <1>11 DEF HashInv

-----------------------------------------------------------------------------
(* Every step *)

LEMMA KeyCallStep ==
  ASSUME HashInv, NEW k \in Keys,
         (\E v \in Pointers : CallAdd(k, v)) \/ CallGet(k) \/ CallDel(k)
  PROVE  HashInv'
<1>1. /\ buckets[BucketOf(k)] \in Addrs \cup {NULL} /\ 0 \in Places
      /\ live \subseteq Pointers /\ Stored \subseteq live
  BY BucketType, HashAssumption DEF HashInv, TypeInv, TableInv, Heads, Places
<1> USE DEF Keyed, CallRecords, KeyOps, LoopOps
<1>2. ASSUME NEW v \in Pointers, CallAdd(k, v) PROVE HashInv'
  <2>1. /\ v \notin live /\ live' = live \cup {v} /\ Called([Keyed("add", k) EXCEPT !.value = v])
    BY <1>2 DEF CallAdd
  <2>2. PICK c : c = [Keyed("add", k) EXCEPT !.value = v]
    OBVIOUS
  <2>3. /\ c \in CallRecords /\ c.op = "add" /\ c.key = k /\ c.value = v /\ c.i = 0
        /\ c.prev = NULL /\ c.cap = 0 /\ c.n = 0 /\ c.values = <<>>
        /\ c.current = buckets[BucketOf(k)]
    BY <1>1, <2>2, IdleFacts
  <2>4. Called(c)
    BY <2>1, <2>2
  <2> QED BY <1>1, <2>1, <2>3, <2>4, CallStep
<1>3. ASSUME NEW op \in {"get", "del"}, Called(Keyed(op, k)), UNCHANGED live PROVE HashInv'
  <2>1. PICK c : c = Keyed(op, k)
    OBVIOUS
  <2>2. /\ c \in CallRecords /\ c.op = op /\ c.key = k /\ c.i = 0
        /\ c.prev = NULL /\ c.cap = 0 /\ c.n = 0 /\ c.values = <<>>
        /\ c.current = buckets[BucketOf(k)]
    BY <1>1, <2>1, IdleFacts
  <2>3. Called(c)
    BY <1>3, <2>1
  <2> QED BY <1>1, <1>3, <2>2, <2>3, CallStep
<1> QED BY <1>2, <1>3 DEF CallGet, CallDel

LEMMA LoopCallStep ==
  ASSUME HashInv, (\E expired \in SUBSET Stored : CallSweep(expired)) \/ CallValues \/ CallDestroy
  PROVE  HashInv'
<1>1. /\ buckets[0] \in Addrs \cup {NULL} /\ 0 \in Places
      /\ live \subseteq Pointers /\ Stored \subseteq Pointers
  BY HashAssumption, TypeFacts DEF HashInv, TypeInv, TableInv, Heads, Places
<1> USE DEF Over, CallRecords, KeyOps, LoopOps
<1>2. ASSUME NEW expired \in SUBSET Stored, CallSweep(expired) PROVE HashInv'
  <2>1. Called([Over("sweep") EXCEPT !.expired = expired]) /\ live' = live
    BY <1>2 DEF CallSweep
  <2>2. PICK c : c = [Over("sweep") EXCEPT !.expired = expired]
    OBVIOUS
  <2>3. /\ c \in CallRecords /\ c.op = "sweep" /\ c.i = 0
        /\ c.prev = NULL /\ c.cap = 0 /\ c.n = 0 /\ c.values = <<>>
        /\ c.current = buckets[0]
    BY <1>1, <2>2, IdleFacts
  <2>4. Called(c)
    BY <2>1, <2>2
  <2> QED BY <1>1, <2>1, <2>3, <2>4, CallStep
<1>3. ASSUME NEW op \in {"values", "destroy"}, Called(Over(op)), UNCHANGED live PROVE HashInv'
  <2>1. PICK c : c = Over(op)
    OBVIOUS
  <2>2. /\ c \in CallRecords /\ c.op = op /\ c.i = 0
        /\ c.prev = NULL /\ c.cap = 0 /\ c.n = 0 /\ c.values = <<>>
        /\ c.current = buckets[0]
    BY <1>1, <2>1, IdleFacts
  <2>3. Called(c)
    BY <1>3, <2>1
  <2> QED BY <1>1, <1>3, <2>2, <2>3, CallStep
<1> QED BY <1>2, <1>3 DEF CallValues, CallDestroy

LEMMA HashStep ==
  ASSUME HashInv, [Next]_vars
  PROVE  HashInv'
<1>1. CASE \E k \in Keys : (\E v \in Pointers : CallAdd(k, v)) \/ CallGet(k) \/ CallDel(k)
  BY <1>1, KeyCallStep
<1>2. CASE (\E expired \in SUBSET Stored : CallSweep(expired)) \/ CallValues \/ CallDestroy
  BY <1>2, LoopCallStep
<1>3. CASE NextEntry
  BY <1>3, NextEntryStep
<1>4. CASE Found \/ NotFound \/ AddFails \/ SweepReturn \/ CollectFails \/ ValuesReturn
  <2>1. (\E r : Return(r)) /\ UNCHANGED ht /\ call.op \in KeyOps \cup LoopOps
    BY <1>4 DEF Found, NotFound, AddFails, SweepReturn, CollectFails, ValuesReturn,
                ReturnValues, LastBucketDone, KeyOps, LoopOps
  <2> QED BY <2>1, PlainReturn
<1>5. CASE AddLinks
  <2>1. PICK r : Return(r)
    BY <1>5 DEF AddLinks
  <2> QED BY <1>5, <2>1, AddFacts, ReturnStep
<1>6. CASE DelFound
  <2>1. PICK r : Return(r)
    BY <1>6 DEF DelFound
  <2> QED BY <1>6, <2>1, DelFacts, ReturnStep
<1>7. CASE NextBucket
  BY <1>7, NextBucketStep
<1>8. CASE SweepRemove \/ SweepKeep
  BY <1>8, SweepRemoveStep, SweepKeepStep
<1>9. CASE Collect
  BY <1>9, CollectStep
<1>10. CASE DestroyEntry \/ DestroyReturn
  BY <1>10, DestroyEntryStep, DestroyReturnStep
<1>11. CASE UNCHANGED vars
  BY <1>11 DEF vars, HashInv, TypeInv, TableInv, ArrayInv, CursorInv, WalkInv, BeforeInv,
               HeadsLeft, Stored, Allocated, Bucket, Passed
<1> QED BY <1>1, <1>2, <1>3, <1>4, <1>5, <1>6, <1>7, <1>8, <1>9, <1>10, <1>11 DEF Next

\* The chains stay chains and the walks stay on them, whatever the calls.
THEOREM HashInvHolds == Spec => []HashInv
<1>1. Init => HashInv
  BY InitInv
<1>2. HashInv /\ [Next]_vars => HashInv'
  BY HashStep
<1> QED BY <1>1, <1>2, PTL DEF Spec

\* hashtable_values stays within its array for every table.
THEOREM ValuesInBoundsHolds == Spec => []ValuesInBounds
<1>1. HashInv => ValuesInBounds
  BY DEF HashInv, ArrayInv, ValuesInBounds
<1> QED BY <1>1, HashInvHolds, PTL

\* No loop of hashtable.c follows a pointer to freed memory, whatever the chains
\* hold and whatever the sweep removes.
THEOREM CursorsAllocatedHolds == Spec => []CursorsAllocated
<1>1. ASSUME HashInv PROVE CursorsAllocated
  <2>1. TypeInv /\ TableInv /\ CursorInv /\ Allocated = InUse(heap)
    BY <1>1 DEF HashInv, Allocated, InUse
  <2>2. CASE call.op = "destroy"
    <3>1. call.i \in Places /\ HeadsLeft[call.i] = call.current
      BY <2>1, <2>2, TypeFacts DEF HeadsLeft, Places
    <3> QED BY <2>1, <2>2, <3>1 DEF TableInv, Linked, Valid, CursorsAllocated
  <2>3. CASE call.op # "destroy"
    BY <2>1, <2>3, TypeFacts DEF CursorInv, CursorsAllocated, KeyOps, LoopOps
  <2> QED BY <2>2, <2>3
<1> QED BY <1>1, HashInvHolds, PTL

\* Exactly one pointer leads to an entry.
LEMMA OnePointer ==
  ASSUME TypeInv, Linked(buckets, heap), NEW a \in InUse(heap)
  PROVE  Cardinality(PointersTo(a)) = 1
<1>1. /\ a # NULL /\ {a} \in SUBSET InUse(heap) /\ DOMAIN buckets = Places
      /\ Allocated = InUse(heap)
  BY TypeFacts, FromIsReached DEF Heads
<1>2. (\E b \in Places : buckets[b] = a) \/ (\E e \in InUse(heap) : heap[e].next = a)
  BY <1>1 DEF Linked, Entered
<1>3. \E x : PointersTo(a) = {x}
  <2>1. CASE \E b \in Places : buckets[b] = a
    <3>1. PICK b \in Places : buckets[b] = a
      BY <2>1
    <3>2. {d \in DOMAIN buckets : buckets[d] = a} = {b}
      BY <1>1, <3>1 DEF Linked, Valid
    <3>3. {e \in Allocated : heap[e].next = a} = {}
      BY <1>1, <3>1 DEF Linked, Single
    <3>4. PointersTo(a) = {<<"bucket", d>> : d \in {b}} \cup {<<"entry", e>> : e \in {}}
      BY <3>2, <3>3 DEF PointersTo
    <3>5. PointersTo(a) = {<<"bucket", b>>}
      BY <3>4
    <3> QED BY <3>5
  <2>2. CASE \E e \in InUse(heap) : heap[e].next = a
    <3>1. PICK e \in InUse(heap) : heap[e].next = a
      BY <2>2
    <3>2. {d \in DOMAIN buckets : buckets[d] = a} = {}
      BY <1>1, <3>1 DEF Linked, Single
    <3>3. {f \in Allocated : heap[f].next = a} = {e}
      BY <1>1, <3>1 DEF Linked, Single
    <3>4. PointersTo(a) = {<<"bucket", d>> : d \in {}} \cup {<<"entry", f>> : f \in {e}}
      BY <3>2, <3>3 DEF PointersTo
    <3>5. PointersTo(a) = {<<"entry", e>>}
      BY <3>4
    <3> QED BY <3>5
  <2> QED BY <1>2, <2>1, <2>2
<1> QED BY <1>3, FS_Singleton

\* In every table, however keys collide, an entry hangs in the chain of its own
\* bucket behind one pointer, keys are unique and ht->size is exact, in the
\* middle of a sweep too.
THEOREM ChainsExactHolds == Spec => []ChainsExact
<1>1. ASSUME HashInv, call.op # "destroy" PROVE ChainsExact
  <2>1. /\ TypeInv /\ Linked(buckets, heap) /\ Allocated = InUse(heap)
        /\ DOMAIN buckets = Places /\ heap \in Heaps
        /\ \A b : Chain(b) = Reached(heap, buckets[b])
    BY <1>1, HeadsAreBuckets, FromIsReached DEF HashInv, TableInv, TypeInv, Heads
  <2>2. \A b \in Places : Chain(b) = {a \in InUse(heap) : Home(heap, a) = b}
    BY <2>1, ChainHome
  <2>3. \A a \in InUse(heap) : Home(heap, a) \in Places /\ a \in Chain(Home(heap, a))
    BY <2>1, <2>2, EntryFacts
  <2>4. UNION {Chain(b) : b \in DOMAIN buckets} = Allocated
    BY <2>1, <2>2, <2>3
  <2>5. \A a \in Allocated : a \in Chain(BucketOf(heap[a].key)) /\ Cardinality(PointersTo(a)) = 1
    BY <2>1, <2>3, OnePointer DEF Home
  <2>6. \A a, e \in Allocated : heap[a].key = heap[e].key => a = e
    BY <2>1 DEF Linked, Distinct
  <2>7. call.op # "destroyed" => size = Cardinality(Allocated)
    BY <1>1, <2>1 DEF HashInv, TableInv
  <2> QED BY <2>4, <2>5, <2>6, <2>7 DEF ChainsExact
<1>2. HashInv => ChainsExact
  BY <1>1 DEF ChainsExact
<1> QED BY <1>2, HashInvHolds, PTL

\* A removal frees exactly the values whose entries it takes out, for every
\* entry that hashtable_del, hashtable_sweep and hashtable_destroy can meet.
THEOREM FreedWithEntryHolds == Spec => FreedWithEntry
<1>1. ASSUME HashInv, [Next]_vars
      PROVE  [Stored \ Stored' = live \ live']_vars
  <2>1. ASSUME Next PROVE Stored \ Stored' = live \ live'
    <3>1. CASE heap' = heap /\ live \subseteq live'
      BY <3>1 DEF Stored, Allocated
    <3>2. CASE AddLinks
      BY <1>1, <3>2, AddFacts
    <3>3. CASE DelFound
      BY <1>1, <3>3, DelFacts
    <3>4. CASE SweepRemove
      BY <1>1, <3>4, SweepRemoveStep
    <3>5. CASE DestroyEntry
      BY <1>1, <3>5, DestroyEntryStep
    <3> QED BY <2>1, <3>1, <3>2, <3>3, <3>4, <3>5
            DEF Next, CallAdd, CallGet, CallDel, CallSweep, CallValues, CallDestroy, Called,
                NextEntry, Found, NotFound, AddFails, NextBucket, SweepKeep, SweepReturn,
                Collect, CollectFails, ValuesReturn, ReturnValues, DestroyReturn, ht
  <2> QED BY <1>1, <2>1
<1> QED BY <1>1, HashInvHolds, PTL DEF Spec, FreedWithEntry

-----------------------------------------------------------------------------
(* The refinement: the contents when a call began, and what it leaves *)

Tab == IF Busy THEN before ELSE Contents

\* The refinement mapping at the return of a call.
LEMMA ReturnTab ==
  ASSUME HashInv, HashInv', Busy, ~Busy'
  PROVE  /\ Tab = before /\ Tab' = MapOf(heap')
         /\ Tab' \in [Keys -> Pointers \cup {NULL}]
         /\ Tab \in [Keys -> Pointers \cup {NULL}]
<1>1. call'.op \in {"idle", "destroyed"}
  BY DEF Busy
<1>2. HeadsLeft' = buckets'
  BY <1>1 DEF HashInv, TypeInv, HeadsLeft, Heads
<1>3. Linked(buckets', heap')
  BY <1>2 DEF HashInv, TableInv
<1>4. Tab' = MapOf(heap')
  BY <1>3, FromIsReached, ContentsMap DEF Tab
<1>5. heap' \in Heaps /\ Distinct(heap')
  BY <1>3 DEF Linked
<1>6. MapOf(heap') \in [Keys -> Pointers \cup {NULL}]
  BY <1>5, MapFacts
<1>7. Tab = before /\ Tab \in [Keys -> Pointers \cup {NULL}]
  BY DEF Tab, HashInv, TypeInv
<1> QED BY <1>4, <1>6, <1>7

\* A step between a call and its return does not show.
LEMMA SilentStep ==
  ASSUME HashInv, \/ Busy /\ Busy' /\ before' = before
                  \/ call.op = "idle" /\ Busy' /\ before' = Contents
  PROVE  Tab' = Tab
BY DEF Tab, Busy

\* A walk that ends with no entry has looked at every entry of its chain.
LEMMA Absent ==
  ASSUME HashInv, call.op \in KeyOps, call.current = NULL
  PROVE  call.key \in Keys /\ MapOf(heap)[call.key] = NULL
<1>1. /\ call.key \in Keys /\ heap \in Heaps /\ Distinct(heap)
      /\ call.op \in KeyOps \cup LoopOps
  BY WalkFacts DEF HashInv, TypeInv
<1>2. PICK V \in SUBSET InUse(heap) : Passed(V) /\ \A w \in V : heap[w].key # call.key
  BY DEF HashInv, WalkInv
<1>3. \A e \in InUse(heap) : Home(heap, e) = Bucket => e \in V
  BY <1>1, <1>2, ChainPassed
<1>4. \A e \in InUse(heap) : heap[e].key # call.key
  BY <1>2, <1>3 DEF Home, Bucket
<1> QED BY <1>1, <1>4, MapFacts

\* A loop over all buckets that ends has passed every entry.
LEMMA AllPassed ==
  ASSUME HashInv, call.op \in LoopOps, call.current = NULL, call.i = nbucket - 1,
         NEW V, Passed(V)
  PROVE  V = InUse(heap)
<1>1. call.op \in KeyOps \cup LoopOps /\ call.op \notin KeyOps /\ heap \in Heaps
      /\ Bucket = call.i
  BY WalkFacts DEF Bucket
<1>2. \A a \in InUse(heap) : Home(heap, a) \in Places
  BY <1>1, EntryFacts
<1>3. \A a \in InUse(heap) : Home(heap, a) < call.i \/ Home(heap, a) = Bucket
  BY <1>1, <1>2, HashAssumption DEF Places
<1>4. \A a \in InUse(heap) : Home(heap, a) = Bucket => a \in V
  BY <1>1, ChainPassed
<1> QED BY <1>3, <1>4 DEF Passed

LEMMA FoundStep ==
  ASSUME HashInv, HashInv', Found
  PROVE  Abs!Next
<1>1. /\ call.op \in {"add", "get"} /\ call.op \in KeyOps \cup LoopOps /\ call.op \in KeyOps
      /\ call.current # NULL /\ heap[call.current].key = call.key
      /\ ret' = Result(heap[call.current].value, 0, {}, FALSE) /\ call' = Idle /\ heap' = heap
  BY DEF Found, AtKey, Current, Return, ht, KeyOps
<1>2. Busy /\ ~Busy'
  BY <1>1, IdleFacts DEF Busy
<1>3. /\ Tab = before /\ Tab' = MapOf(heap) /\ before = MapOf(heap)
      /\ Tab \in [Keys -> Pointers \cup {NULL}]
  BY <1>1, <1>2, ReturnTab DEF HashInv, BeforeInv
<1>4. call.current \in InUse(heap) /\ heap \in Heaps /\ Distinct(heap)
  BY <1>1, WalkFacts DEF HashInv, CursorInv
<1>5. /\ Tab[call.key] = heap[call.current].value /\ call.key \in Keys
      /\ heap[call.current].value \in Pointers
  BY <1>1, <1>3, <1>4, MapFacts, EntryFacts
<1>6. Tab[call.key] # NULL
  BY <1>5, HashAssumption
<1>7. CASE call.op = "get"
  <2>1. Abs!Get(call.key)
    BY <1>1, <1>3, <1>5
       DEF Abs!Get, Abs!hashtable_get, Abs!Ret, Result, Tab
  <2> QED BY <1>5, <2>1 DEF Abs!Next
<1>8. CASE call.op = "add"
  <2>1. call.value \in Pointers
    BY <1>8 DEF HashInv, TableInv, TypeInv
  <2>2. Abs!Add(call.key, call.value)
    BY <1>1, <1>3, <1>5, <1>6
       DEF Abs!Add, Abs!hashtable_get, Abs!hashtable_add, Abs!Ret, Result, Tab
  <2> QED BY <1>5, <2>1, <2>2 DEF Abs!Next
<1> QED BY <1>1, <1>7, <1>8

LEMMA NotFoundStep ==
  ASSUME HashInv, HashInv', NotFound \/ AddFails
  PROVE  Abs!Next
<1>1. /\ call.op \in KeyOps \cup LoopOps /\ call.op \in KeyOps
      /\ call.current = NULL /\ call' = Idle /\ heap' = heap
  BY DEF NotFound, AddFails, Return, ht, KeyOps
<1>2. Busy /\ ~Busy'
  BY <1>1, IdleFacts DEF Busy, KeyOps
<1>3. /\ Tab = before /\ Tab' = MapOf(heap) /\ before = MapOf(heap)
      /\ Tab \in [Keys -> Pointers \cup {NULL}]
  BY <1>1, <1>2, ReturnTab DEF HashInv, BeforeInv
<1>4. Tab[call.key] = NULL /\ call.key \in Keys
  BY <1>1, <1>3, Absent
<1>5. CASE NotFound /\ call.op = "get"
  <2>1. Abs!Get(call.key)
    BY <1>3, <1>4, <1>5
       DEF NotFound, Return, Abs!Get, Abs!hashtable_get, Abs!Ret, Result, Tab
  <2> QED BY <1>4, <2>1 DEF Abs!Next
<1>6. CASE NotFound /\ call.op = "del"
  <2>1. Tab' = [Tab EXCEPT ![call.key] = NULL]
    BY <1>3, <1>4
  <2>2. Abs!Del(call.key)
    BY <1>4, <1>6, <2>1
       DEF NotFound, Return, Abs!Del, Abs!hashtable_del, Abs!Ret, Result, Tab
  <2> QED BY <1>4, <2>2 DEF Abs!Next
<1>7. CASE AddFails
  <2>1. Abs!AddFails(call.key)
    BY <1>3, <1>4, <1>7
       DEF AddFails, Return, Abs!AddFails, Abs!hashtable_get, Abs!Ret, Result, Tab
  <2> QED BY <1>4, <2>1 DEF Abs!Next
<1> QED BY <1>5, <1>6, <1>7 DEF NotFound

LEMMA AddLinksStep ==
  ASSUME HashInv, HashInv', AddLinks
  PROVE  Abs!Next
<1>1. call.op = "add" /\ call' = Idle /\ ret' = Result(NULL, 0, {}, FALSE)
  BY DEF AddLinks, Return
<1>2. Busy /\ ~Busy'
  BY <1>1, IdleFacts DEF Busy
<1>3. /\ call.key \in Keys /\ call.value \in Pointers /\ Tab = before
      /\ Tab[call.key] = NULL /\ Tab' = [Tab EXCEPT ![call.key] = call.value]
  BY <1>2, ReturnTab, AddFacts
<1>4. Abs!Add(call.key, call.value)
  BY <1>1, <1>3 DEF Abs!Add, Abs!hashtable_get, Abs!hashtable_add, Abs!Ret, Result, Tab
<1> QED BY <1>3, <1>4 DEF Abs!Next

LEMMA DelFoundStep ==
  ASSUME HashInv, HashInv', DelFound
  PROVE  Abs!Next
<1>1. call.op = "del" /\ call' = Idle /\ ret' = Result(NULL, 1, {}, FALSE)
  BY DEF DelFound, Return
<1>2. Busy /\ ~Busy'
  BY <1>1, IdleFacts DEF Busy
<1>3. /\ call.key \in Keys /\ Tab = before
      /\ Tab[call.key] # NULL /\ Tab' = [Tab EXCEPT ![call.key] = NULL]
  BY <1>2, ReturnTab, DelFacts, HashAssumption
<1>4. Abs!Del(call.key)
  BY <1>1, <1>3 DEF Abs!Del, Abs!hashtable_del, Abs!Ret, Result, Tab
<1> QED BY <1>3, <1>4 DEF Abs!Next

\* The library module that TableSpec takes Cardinality from is this one.
LEMMA SameCardinality == \A S : Abs!Cardinality(S) = Cardinality(S)
BY Zenon DEF Abs!Cardinality, Cardinality, Abs!IsFiniteSet, IsFiniteSet

LEMMA SweepReturnStep ==
  ASSUME HashInv, HashInv', SweepReturn
  PROVE  Abs!Next
<1>1. /\ call.op = "sweep" /\ call.op \in LoopOps /\ call.op \in KeyOps \cup LoopOps
      /\ call.current = NULL /\ call.i = nbucket - 1
      /\ ret' = Result(NULL, call.n, {}, FALSE) /\ call' = Idle /\ heap' = heap
  BY DEF SweepReturn, LastBucketDone, Return, ht, LoopOps
<1>2. Busy /\ ~Busy'
  BY <1>1, IdleFacts DEF Busy
<1> DEFINE M == MapOf(heap)
           T == Tab
           X == call.expired
<1>3. /\ T = before /\ T' = M /\ T \in [Keys -> Pointers \cup {NULL}]
      /\ M \in [Keys -> Pointers \cup {NULL}]
  BY <1>1, <1>2, ReturnTab
<1>4. /\ heap \in Heaps /\ Distinct(heap) /\ X \subseteq Pointers
      /\ Stored = {heap[a].value : a \in InUse(heap)}
  BY <1>1, WalkFacts, TypeFacts
<1>5. /\ ValuesOf(M) = Stored
      /\ \A k \in Keys : (\A a \in InUse(heap) : heap[a].key # k) <=> M[k] = NULL
  BY <1>4, MapFacts
<1>6. \A x \in Stored : x \notin X
  <2>1. PICK V \in SUBSET InUse(heap) : Passed(V) /\ \A v \in V : heap[v].value \notin X
    BY <1>1 DEF HashInv, WalkInv
  <2>2. V = InUse(heap)
    BY <1>1, <2>1, AllPassed
  <2> QED BY <1>4, <2>1, <2>2
<1>7. /\ \A k \in Keys : M[k] = T[k] \/ (M[k] = NULL /\ T[k] \in X)
      /\ call.n = Cardinality(ValuesOf(T) \ Stored)
  BY <1>1, <1>3 DEF HashInv, BeforeInv
<1> HIDE DEF M, T, X
<1>8. NULL \notin X
  BY <1>4, HashAssumption
<1>9. \A k \in Keys : M[k] \notin X
  BY <1>5, <1>6, <1>8 DEF ValuesOf
<1>10. M = [k \in Keys |-> IF k \in {j \in Keys : T[j] \in X} THEN NULL ELSE T[k]]
  BY <1>3, <1>7, <1>9
<1>11. ValuesOf(T) \ Stored = ValuesOf(T) \cap X
  <2>1. ASSUME NEW k \in Keys, T[k] # NULL, T[k] \notin Stored PROVE T[k] \in X
    <3>1. M[k] # T[k]
      BY <1>5, <2>1 DEF ValuesOf
    <3> QED BY <1>7, <3>1
  <2> QED BY <1>6, <2>1 DEF ValuesOf
<1>12. Abs!Stored = ValuesOf(T)
  BY <1>3 DEF Abs!Stored, Abs!Entries, ValuesOf, T, Tab
<1>13. DOMAIN T = Keys
  BY <1>3
<1>14. Abs!Sweep(X)
  <2>1. T' = Abs!hashtable_sweep(T, {k \in Keys : T[k] \in X})
    BY <1>3, <1>10, <1>13 DEF Abs!hashtable_sweep
  <2>2. ret' = Abs!Ret(NULL, Cardinality(Abs!Stored \cap X), {}, FALSE)
    BY <1>1, <1>7, <1>11, <1>12 DEF Result, Abs!Ret
  <2> QED BY <2>1, <2>2, SameCardinality DEF Abs!Sweep, T, Tab
<1> QED BY <1>4, <1>14 DEF Abs!Next

LEMMA ValuesReturnStep ==
  ASSUME HashInv, HashInv', ValuesReturn \/ CollectFails
  PROVE  Abs!Next
<1>1. /\ call.op = "values" /\ call.op \in LoopOps /\ call.op \in KeyOps \cup LoopOps
      /\ call' = Idle /\ heap' = heap
  BY DEF ValuesReturn, CollectFails, ReturnValues, LastBucketDone, Return, ht, LoopOps
<1>2. Busy /\ ~Busy'
  BY <1>1, IdleFacts DEF Busy
<1>3. /\ Tab = before /\ Tab' = MapOf(heap) /\ before = MapOf(heap)
      /\ Tab \in [Keys -> Pointers \cup {NULL}]
  BY <1>1, <1>2, ReturnTab DEF HashInv, BeforeInv
<1>4. /\ heap \in Heaps /\ Distinct(heap)
      /\ Stored = {heap[a].value : a \in InUse(heap)}
  BY <1>1, WalkFacts, TypeFacts
<1>5. PICK V \in SUBSET InUse(heap) :
        /\ Passed(V) /\ Range(call.values) = {heap[v].value : v \in V}
        /\ Len(call.values) = Cardinality(Range(call.values))
  BY <1>1 DEF HashInv, WalkInv
<1>6. Abs!Stored = Stored
  <2>1. ValuesOf(Tab) = Stored
    BY <1>3, <1>4, MapFacts
  <2>2. DOMAIN Tab = Keys
    BY <1>3
  <2> QED BY <2>1, <2>2 DEF Abs!Stored, Abs!Entries, ValuesOf, Tab
<1>7. CASE CollectFails
  <2>1. ret' = Result(NULL, Len(call.values), Range(call.values), TRUE)
    BY <1>7 DEF CollectFails, ReturnValues, Return
  <2>2. Range(call.values) \in SUBSET Abs!Stored
    BY <1>4, <1>5, <1>6
  <2>3. ret' = Abs!Ret(NULL, Cardinality(Range(call.values)), Range(call.values), TRUE)
    BY <1>5, <2>1 DEF Result, Abs!Ret
  <2>4. Abs!Values
    BY <1>3, <2>2, <2>3, SameCardinality DEF Abs!Values, Tab
  <2> QED BY <2>4 DEF Abs!Next
<1>8. CASE ValuesReturn
  <2>1. /\ ret' = Result(NULL, Len(call.values), Range(call.values), FALSE)
        /\ call.current = NULL /\ call.i = nbucket - 1
    BY <1>8 DEF ValuesReturn, LastBucketDone, ReturnValues, Return
  <2>2. V = InUse(heap)
    BY <1>1, <1>5, <2>1, AllPassed
  <2>3. Range(call.values) = Abs!Stored
    BY <1>4, <1>5, <1>6, <2>2
  <2>4. Cardinality({heap[v].value : v \in V}) = Cardinality({heap[v].key : v \in V})
    BY <1>4, ValuesSize
  <2>5. Abs!Entries(Tab) = {heap[v].key : v \in V}
    <3>1. DOMAIN Tab = Keys /\ \A v \in V : heap[v].key \in Keys
      BY <1>3, <1>4, EntryFacts
    <3>2. \A k \in Keys : Tab[k] # NULL <=> \E v \in V : heap[v].key = k
      BY <1>3, <1>4, <2>2, MapFacts
    <3> QED BY <3>1, <3>2 DEF Abs!Entries
  <2>6. Len(call.values) = Abs!Size(Tab)
    BY <1>5, <2>4, <2>5, SameCardinality DEF Abs!Size
  <2>7. ret' = Abs!Ret(NULL, Abs!Size(Tab), Abs!Stored, FALSE)
    BY <2>1, <2>3, <2>6 DEF Result, Abs!Ret
  <2>8. Abs!Values
    BY <1>3, <2>7 DEF Abs!Values, Tab
  <2> QED BY <2>8 DEF Abs!Next
<1> QED BY <1>7, <1>8

LEMMA DestroyStep ==
  ASSUME HashInv, HashInv', DestroyReturn
  PROVE  Abs!Next
<1>1. Busy /\ ~Busy' /\ ret' = ret
  BY DEF DestroyReturn, LastBucketDone, Busy, Idle
<1>2. Tab' = MapOf(heap') /\ InUse(heap') = {}
  BY <1>1, ReturnTab, DestroyReturnStep
<1>3. Tab' = [k \in Keys |-> NULL]
  BY <1>2 DEF MapOf
<1>4. Abs!Destroy
  BY <1>1, <1>3 DEF Abs!Destroy, Abs!hashtable_create, Tab
<1> QED BY <1>4 DEF Abs!Next

LEMMA CallsAreBusy ==
  ASSUME NEW op \in KeyOps \cup LoopOps \cup {"destroy"}, NEW k, NEW v, NEW expired
  PROVE  /\ Keyed(op, k).op \notin {"idle", "destroyed"}
         /\ [Keyed(op, k) EXCEPT !.value = v].op \notin {"idle", "destroyed"}
         /\ Over(op).op \notin {"idle", "destroyed"}
         /\ [Over(op) EXCEPT !.expired = expired].op \notin {"idle", "destroyed"}
BY DEF Keyed, Over, Idle, KeyOps, LoopOps

\* The chains, their walks and the failing allocations of hashtable.c show its
\* callers nothing but the map of module TableSpec.
THEOREM ImplementsTableHolds == Spec => ImplementsTable
<1>1. Init => Abs!Init
  <2>1. ASSUME Init PROVE Abs!Init
    <3>1. HashInv /\ call.op = "idle" /\ heap = [a \in Addrs |-> NULL]
      BY <2>1, InitInv DEF Init, Idle
    <3>2. Linked(buckets, heap)
      BY <3>1, HeadsAreBuckets DEF HashInv, TableInv
    <3>3. Contents = MapOf(heap)
      BY <3>2, FromIsReached, ContentsMap
    <3>4. Contents = [k \in Keys |-> NULL]
      BY <3>1, <3>3 DEF MapOf, InUse
    <3> QED BY <2>1, <3>1, <3>4 DEF Init, Abs!Init, Abs!hashtable_create, Abs!Ret, Busy
  <2> QED BY <2>1
<1>2. ASSUME HashInv, HashInv', [Next]_vars
      PROVE  [Abs!Next]_<<IF Busy THEN before ELSE Contents, ret>>
  <2>1. ASSUME NEW c, Called(c), c.op \notin {"idle", "destroyed"}
        PROVE  Tab' = Tab /\ ret' = ret
    BY <1>2, <2>1, SilentStep DEF Called, Busy
  <2>2. CASE \E c : Called(c) /\ c.op \notin {"idle", "destroyed"}
    BY <2>1, <2>2 DEF Tab
  <2>3. CASE NextEntry \/ NextBucket \/ SweepRemove \/ SweepKeep \/ Collect \/ DestroyEntry
    <3>1. /\ call'.op = call.op /\ call.op \notin {"idle", "destroyed"}
          /\ before' = before /\ ret' = ret
      BY <1>2, <2>3 DEF HashInv, TypeInv, CallRecords, NextEntry, NextBucket, SweepRemove,
              SweepKeep, Collect, DestroyEntry
    <3> QED BY <1>2, <3>1, SilentStep DEF Tab, Busy
  <2>4. CASE Found \/ NotFound \/ AddFails \/ AddLinks \/ DelFound
    BY <1>2, <2>4, FoundStep, NotFoundStep, AddLinksStep, DelFoundStep
  <2>5. CASE SweepReturn \/ CollectFails \/ ValuesReturn \/ DestroyReturn
    BY <1>2, <2>5, SweepReturnStep, ValuesReturnStep, DestroyStep
  <2>6. CASE UNCHANGED vars
    <3>1. Contents' = Contents /\ Busy' = Busy
      BY <2>6, FromIsReached DEF vars, Busy
    <3> QED BY <2>6, <3>1 DEF vars
  <2>7. CASE \E k \in Keys : (\E v \in Pointers : CallAdd(k, v)) \/ CallGet(k) \/ CallDel(k)
    BY <2>2, <2>7, CallsAreBusy DEF CallAdd, CallGet, CallDel, KeyOps
  <2>8. CASE (\E expired \in SUBSET Stored : CallSweep(expired)) \/ CallValues \/ CallDestroy
    BY <2>2, <2>8, CallsAreBusy DEF CallSweep, CallValues, CallDestroy, LoopOps
  <2> QED BY <1>2, <2>3, <2>4, <2>5, <2>6, <2>7, <2>8 DEF Next
<1> QED BY <1>1, <1>2, HashInvHolds, PTL DEF Spec, ImplementsTable, Abs!Spec
=============================================================================
