----------------------------- MODULE ReplyProofs -----------------------------
(***************************************************************************)
(* Proofs about the two halves of a reply of the stats thread.  The first  *)
(* half is about JsonTree, for every table of endpoints, all names and     *)
(* whichever allocations fail: the links of the items are those of lists   *)
(* in which every item has one place, and a tag for every item (its place  *)
(* in the reply, its endpoint, its bucket) says what its list may hold.    *)
(* The second half is about PrintBuffer, for every program of puts that    *)
(* keeps the discipline of the printing functions, every size of the first *)
(* buffer and every INT_MAX.                                               *)
(***************************************************************************)
EXTENDS JsonTree, PrintBuffer, WellFoundedInduction, FiniteSetTheorems, SequenceTheorems, TLAPS

\* A non-empty set of numbers has a least one.
LEMMA LeastNat ==
  ASSUME NEW T \in SUBSET Nat, T # {}
  PROVE  \E x \in T : \A y \in T : x <= y
<1> DEFINE R == OpToRel(<, Nat)
<1>1. PICK x \in T : \A y \in T : ~(<<y, x>> \in R)
  <2> HIDE DEF R
  <2>1. IsWellFoundedOn(R, Nat)
    BY NatLessThanWellFounded DEF R
  <2> QED BY <2>1, WFMin
<1>2. ASSUME NEW y \in T PROVE x <= y
  <2>1. ~(<<y, x>> \in OpToRel(<, Nat))
    BY <1>1
  <2>2. x \in Nat /\ y \in Nat
    OBVIOUS
  <2>3. ~(y < x)
    BY <2>1, <2>2 DEF OpToRel
  <2> QED BY <2>2, <2>3
<1> QED BY <1>2

-----------------------------------------------------------------------------
(* The lists of the items *)

\* The keys a reply may show, and the empty one.
Names ==
  {"", "latency"} \cup Range(Counters) \cup Range(latency_buckets)
    \cup UNION {Range(t.keys) : t \in Tables}

\* struct cJSON.
ItemRecords ==
  [type : {"object", "array", "number"}, value : {0} \cup (Names \X Names), string : Names,
   next : Nat, prev : Nat, child : Nat]

\* q hangs in the list of p.
In(L, p, q) == \E k \in 1 .. Len(L[p]) : L[p][k] = q

Free(L, q) == \A p \in DOMAIN L : ~In(L, p, q)

\* The links of the items h are those of the lists L.
Listing(h, L) ==
  /\ h \in Seq(ItemRecords)
  /\ L \in [1 .. Len(h) -> Seq(1 .. Len(h))]
  /\ \A p \in 1 .. Len(h) : h[p].child = IF L[p] = <<>> THEN 0 ELSE L[p][1]
  /\ \A p \in 1 .. Len(h) : \A k \in 1 .. Len(L[p]) :
       /\ h[L[p][k]].next = IF k < Len(L[p]) THEN L[p][k + 1] ELSE 0
       /\ h[L[p][k]].prev = IF k = 1 THEN L[p][Len(L[p])] ELSE L[p][k - 1]
  /\ \A p, q \in 1 .. Len(h) : \A j \in 1 .. Len(L[p]), k \in 1 .. Len(L[q]) :
       L[p][j] = L[q][k] => p = q /\ j = k
  /\ \A q \in 1 .. Len(h) : Free(L, q) => h[q].next = 0

\* The numbers up to k are k numbers.
LEMMA IntervalSize ==
  ASSUME NEW k \in Nat
  PROVE  IsFiniteSet(1 .. k) /\ Cardinality(1 .. k) = k
<1>1. /\ IsFiniteSet(1 .. k)
      /\ Cardinality(1 .. k) = IF 1 > k THEN 0 ELSE k - 1 + 1
  BY FS_Interval
<1> QED BY <1>1

\* What the entries of a listing are.
LEMMA ListType ==
  ASSUME NEW h, NEW L, Listing(h, L), NEW p \in 1 .. Len(h)
  PROVE  /\ Len(h) \in Nat /\ DOMAIN L = 1 .. Len(h)
         /\ L[p] \in Seq(1 .. Len(h)) /\ Len(L[p]) \in Nat
         /\ \A k \in 1 .. Len(L[p]) : L[p][k] \in 1 .. Len(h)
         /\ L[p] = <<>> <=> Len(L[p]) = 0
         /\ h[p] \in ItemRecords
<1>1. /\ Len(h) \in Nat /\ DOMAIN L = 1 .. Len(h)
      /\ L[p] \in Seq(1 .. Len(h)) /\ h[p] \in ItemRecords
  BY DEF Listing
<1>2. L[p] = <<>> <=> Len(L[p]) = 0
  BY <1>1
<1>3. Len(L[p]) \in Nat /\ \A k \in 1 .. Len(L[p]) : L[p][k] \in 1 .. Len(h)
  BY <1>1
<1> QED BY <1>1, <1>2, <1>3

\* A list is no longer than there are items.
LEMMA ListShort ==
  ASSUME NEW h, NEW L, Listing(h, L), NEW p \in 1 .. Len(h)
  PROVE  Len(L[p]) <= Len(h)
<1>1. /\ Len(h) \in Nat /\ L[p] \in Seq(1 .. Len(h)) /\ Len(L[p]) \in Nat
      /\ \A k \in 1 .. Len(L[p]) : L[p][k] \in 1 .. Len(h)
      /\ \A j, k \in 1 .. Len(L[p]) : L[p][j] = L[p][k] => j = k
  BY DEF Listing
<1> DEFINE f == [k \in 1 .. Len(L[p]) |-> L[p][k]]
<1>2. f \in Injection(1 .. Len(L[p]), 1 .. Len(h))
  BY <1>1 DEF Injection, IsInjective
<1>3. /\ IsFiniteSet(1 .. Len(h)) /\ Cardinality(1 .. Len(h)) = Len(h)
      /\ Cardinality(1 .. Len(L[p])) = Len(L[p])
  BY <1>1, IntervalSize
<1>4. Cardinality(1 .. Len(L[p])) <= Cardinality(1 .. Len(h))
  BY <1>2, <1>3, FS_Injection
<1> QED BY <1>3, <1>4

\* The walk of cJSON_Delete visits the list: the equation of the walk has one solution.
LEMMA ChildrenAre ==
  ASSUME NEW L, Listing(items, L), NEW p \in 1 .. Len(items)
  PROVE  Children(p) = L[p]
<1> DEFINE N == Len(items)
           m == Len(L[p])
           at[k \in 1 .. N] ==
             IF k = 1 THEN items[p].child
             ELSE IF at[k - 1] = 0 THEN 0 ELSE items[at[k - 1]].next
           g == [k \in 1 .. N |-> IF k <= m THEN L[p][k] ELSE 0]
<1>1. /\ N \in Nat /\ m \in Nat /\ m <= N /\ L[p] \in Seq(1 .. N)
      /\ \A k \in 1 .. m : L[p][k] \in 1 .. N
      /\ L[p] = <<>> <=> m = 0
  BY ListType, ListShort
<1>2. /\ items[p].child = IF m = 0 THEN 0 ELSE L[p][1]
      /\ \A k \in 1 .. m : items[L[p][k]].next = IF k < m THEN L[p][k + 1] ELSE 0
  BY <1>1 DEF Listing
<1>3. \A k \in 1 .. N : g[k] = IF k = 1 THEN items[p].child
                               ELSE IF g[k - 1] = 0 THEN 0 ELSE items[g[k - 1]].next
  BY <1>1, <1>2, SMTT(30)
<1>4. g = [k \in 1 .. N |-> IF k = 1 THEN items[p].child
                            ELSE IF g[k - 1] = 0 THEN 0 ELSE items[g[k - 1]].next]
  BY <1>3
<1>5. at = [k \in 1 .. N |-> IF k = 1 THEN items[p].child
                             ELSE IF at[k - 1] = 0 THEN 0 ELSE items[at[k - 1]].next]
  <2> HIDE DEF g
  <2> QED BY <1>4
<1>6. \A k \in 1 .. N : at[k] = IF k = 1 THEN items[p].child
                               ELSE IF at[k - 1] = 0 THEN 0 ELSE items[at[k - 1]].next
  <2> HIDE DEF at
  <2> QED BY <1>5
<1>7. \A k \in 1 .. N : at[k] = g[k]
  <2> DEFINE T == {k \in 1 .. N : at[k] # g[k]}
  <2>1. SUFFICES ASSUME T # {} PROVE FALSE
    OBVIOUS
  <2> HIDE DEF at
  <2>2. PICK x \in T : \A y \in T : x <= y
    <3>1. T \in SUBSET Nat
      BY <1>1
    <3> HIDE DEF T
    <3> QED BY <2>1, <3>1, LeastNat
  <2>3. x # 1 => at[x - 1] = g[x - 1]
    BY <1>1, <2>2
  <2> HIDE DEF g
  <2> QED BY <1>3, <1>6, <2>2, <2>3
<1>8. {k \in DOMAIN at : at[k] # 0} = 1 .. m
  <2>1. DOMAIN at = 1 .. N
    <3> HIDE DEF at
    <3> QED BY <1>5
  <2> HIDE DEF at
  <2> QED BY <1>1, <1>7, <2>1
<1>9. Cardinality(1 .. m) = m
  BY <1>1, IntervalSize
<1>10. [k \in 1 .. m |-> at[k]] = L[p]
  <2> HIDE DEF at
  <2>1. \A k \in 1 .. m : at[k] = L[p][k]
    BY <1>1, <1>7, SMTT(30)
  <2>2. L[p] = [k \in 1 .. m |-> L[p][k]]
    BY <1>1
  <2> QED BY <2>1, <2>2
<1> QED BY <1>8, <1>9, <1>10 DEF Children

\* An assignment to one member of one item leaves the rest alone.
LEMMA Set_next ==
  ASSUME NEW h \in Seq(ItemRecords), NEW p \in 1 .. Len(h), NEW v \in Nat
  PROVE  LET g == [h EXCEPT ![p].next = v]
         IN  /\ g \in Seq(ItemRecords) /\ Len(g) = Len(h)
             /\ \A q \in 1 .. Len(h) :
                  /\ g[q].next = IF q = p THEN v ELSE h[q].next
                  /\ g[q].type = h[q].type /\ g[q].value = h[q].value /\ g[q].string = h[q].string
                  /\ g[q].prev = h[q].prev /\ g[q].child = h[q].child
<1> DEFINE r == [h[p] EXCEPT !.next = v]
<1>1. h[p] \in ItemRecords /\ Len(h) \in Nat /\ DOMAIN h = 1 .. Len(h)
  OBVIOUS
<1>2. r \in ItemRecords
  BY <1>1 DEF ItemRecords
<1>3. /\ r.next = v
      /\ r.type = h[p].type /\ r.value = h[p].value /\ r.string = h[p].string /\ r.prev = h[p].prev /\ r.child = h[p].child
  BY <1>1 DEF ItemRecords
<1>4. [h EXCEPT ![p].next = v] = [h EXCEPT ![p] = r]
  OBVIOUS
<1> HIDE DEF r
<1>5. [h EXCEPT ![p] = r] \in Seq(ItemRecords) /\ Len([h EXCEPT ![p] = r]) = Len(h)
  BY <1>2, ExceptSeq
<1>6. \A q \in 1 .. Len(h) : [h EXCEPT ![p] = r][q] = IF q = p THEN r ELSE h[q]
  BY <1>1
<1> QED BY <1>3, <1>4, <1>5, <1>6

LEMMA Set_prev ==
  ASSUME NEW h \in Seq(ItemRecords), NEW p \in 1 .. Len(h), NEW v \in Nat
  PROVE  LET g == [h EXCEPT ![p].prev = v]
         IN  /\ g \in Seq(ItemRecords) /\ Len(g) = Len(h)
             /\ \A q \in 1 .. Len(h) :
                  /\ g[q].prev = IF q = p THEN v ELSE h[q].prev
                  /\ g[q].type = h[q].type /\ g[q].value = h[q].value /\ g[q].string = h[q].string
                  /\ g[q].next = h[q].next /\ g[q].child = h[q].child
<1> DEFINE r == [h[p] EXCEPT !.prev = v]
<1>1. h[p] \in ItemRecords /\ Len(h) \in Nat /\ DOMAIN h = 1 .. Len(h)
  OBVIOUS
<1>2. r \in ItemRecords
  BY <1>1 DEF ItemRecords
<1>3. /\ r.prev = v
      /\ r.type = h[p].type /\ r.value = h[p].value /\ r.string = h[p].string /\ r.next = h[p].next /\ r.child = h[p].child
  BY <1>1 DEF ItemRecords
<1>4. [h EXCEPT ![p].prev = v] = [h EXCEPT ![p] = r]
  OBVIOUS
<1> HIDE DEF r
<1>5. [h EXCEPT ![p] = r] \in Seq(ItemRecords) /\ Len([h EXCEPT ![p] = r]) = Len(h)
  BY <1>2, ExceptSeq
<1>6. \A q \in 1 .. Len(h) : [h EXCEPT ![p] = r][q] = IF q = p THEN r ELSE h[q]
  BY <1>1
<1> QED BY <1>3, <1>4, <1>5, <1>6

LEMMA Set_child ==
  ASSUME NEW h \in Seq(ItemRecords), NEW p \in 1 .. Len(h), NEW v \in Nat
  PROVE  LET g == [h EXCEPT ![p].child = v]
         IN  /\ g \in Seq(ItemRecords) /\ Len(g) = Len(h)
             /\ \A q \in 1 .. Len(h) :
                  /\ g[q].child = IF q = p THEN v ELSE h[q].child
                  /\ g[q].type = h[q].type /\ g[q].value = h[q].value /\ g[q].string = h[q].string
                  /\ g[q].next = h[q].next /\ g[q].prev = h[q].prev
<1> DEFINE r == [h[p] EXCEPT !.child = v]
<1>1. h[p] \in ItemRecords /\ Len(h) \in Nat /\ DOMAIN h = 1 .. Len(h)
  OBVIOUS
<1>2. r \in ItemRecords
  BY <1>1 DEF ItemRecords
<1>3. /\ r.child = v
      /\ r.type = h[p].type /\ r.value = h[p].value /\ r.string = h[p].string /\ r.next = h[p].next /\ r.prev = h[p].prev
  BY <1>1 DEF ItemRecords
<1>4. [h EXCEPT ![p].child = v] = [h EXCEPT ![p] = r]
  OBVIOUS
<1> HIDE DEF r
<1>5. [h EXCEPT ![p] = r] \in Seq(ItemRecords) /\ Len([h EXCEPT ![p] = r]) = Len(h)
  BY <1>2, ExceptSeq
<1>6. \A q \in 1 .. Len(h) : [h EXCEPT ![p] = r][q] = IF q = p THEN r ELSE h[q]
  BY <1>1
<1> QED BY <1>3, <1>4, <1>5, <1>6

LEMMA Set_string ==
  ASSUME NEW h \in Seq(ItemRecords), NEW p \in 1 .. Len(h), NEW v \in Names
  PROVE  LET g == [h EXCEPT ![p].string = v]
         IN  /\ g \in Seq(ItemRecords) /\ Len(g) = Len(h)
             /\ \A q \in 1 .. Len(h) :
                  /\ g[q].string = IF q = p THEN v ELSE h[q].string
                  /\ g[q].type = h[q].type /\ g[q].value = h[q].value /\ g[q].next = h[q].next
                  /\ g[q].prev = h[q].prev /\ g[q].child = h[q].child
<1> DEFINE r == [h[p] EXCEPT !.string = v]
<1>1. h[p] \in ItemRecords /\ Len(h) \in Nat /\ DOMAIN h = 1 .. Len(h)
  OBVIOUS
<1>2. r \in ItemRecords
  BY <1>1 DEF ItemRecords
<1>3. /\ r.string = v
      /\ r.type = h[p].type /\ r.value = h[p].value /\ r.next = h[p].next /\ r.prev = h[p].prev /\ r.child = h[p].child
  BY <1>1 DEF ItemRecords
<1>4. [h EXCEPT ![p].string = v] = [h EXCEPT ![p] = r]
  OBVIOUS
<1> HIDE DEF r
<1>5. [h EXCEPT ![p] = r] \in Seq(ItemRecords) /\ Len([h EXCEPT ![p] = r]) = Len(h)
  BY <1>2, ExceptSeq
<1>6. \A q \in 1 .. Len(h) : [h EXCEPT ![p] = r][q] = IF q = p THEN r ELSE h[q]
  BY <1>1
<1> QED BY <1>3, <1>4, <1>5, <1>6

\* What add_item_to_array writes into the items h with the lists L.
AddedFields(h, L, a, x, g) ==
  LET m == Len(L[a])
  IN  /\ g \in Seq(ItemRecords) /\ Len(g) = Len(h)
      /\ \A q \in 1 .. Len(h) :
           /\ g[q].type = h[q].type /\ g[q].value = h[q].value /\ g[q].string = h[q].string
           /\ g[q].child = IF q = a /\ m = 0 THEN x ELSE h[q].child
           /\ g[q].next = IF m # 0 /\ q = L[a][m] THEN x ELSE h[q].next
           /\ g[q].prev = IF q = x THEN (IF m = 0 THEN x ELSE L[a][m])
                         ELSE IF m # 0 /\ q = L[a][1] THEN x ELSE h[q].prev

\* The assignments of add_item_to_array, in both its branches.
LEMMA AddWrites ==
  ASSUME NEW h, NEW L, Listing(h, L), NEW a \in 1 .. Len(h), NEW x \in 1 .. Len(h),
         x # a, Free(L, x)
  PROVE  AddedFields(h, L, a, x, add_item_to_array(h, a, x))
<1> DEFINE g == add_item_to_array(h, a, x)
           m == Len(L[a])
           N == Len(h)
<1>1. /\ N \in Nat /\ m \in Nat
      /\ \A k \in 1 .. m : L[a][k] \in 1 .. N
      /\ h \in Seq(ItemRecords)
      /\ L[a] = <<>> <=> m = 0
      /\ DOMAIN L = 1 .. N
  <2>1. h \in Seq(ItemRecords)
    BY DEF Listing
  <2> QED BY <2>1, ListType
<1>2. /\ h[x].next = 0
      /\ \A k \in 1 .. m : L[a][k] # x
  BY <1>1 DEF Listing, Free, In
<1>3. /\ h[a].child = IF m = 0 THEN 0 ELSE L[a][1]
      /\ m # 0 => h[L[a][1]].prev = L[a][m]
  BY <1>1 DEF Listing
<1>4. CASE m = 0
  <2> DEFINE h1 == [h EXCEPT ![a].child = x]
             h2 == [h1 EXCEPT ![x].prev = x]
             h3 == [h2 EXCEPT ![x].next = 0]
  <2>1. g = h3
    BY <1>3, <1>4 DEF add_item_to_array
  <2>2. /\ h1 \in Seq(ItemRecords) /\ Len(h1) = N
        /\ \A q \in 1 .. N :
             /\ h1[q].child = IF q = a THEN x ELSE h[q].child
             /\ h1[q].type = h[q].type /\ h1[q].value = h[q].value
             /\ h1[q].string = h[q].string /\ h1[q].next = h[q].next /\ h1[q].prev = h[q].prev
    BY <1>1, Set_child
  <2> HIDE DEF h1
  <2>3. /\ h2 \in Seq(ItemRecords) /\ Len(h2) = N
        /\ \A q \in 1 .. N :
             /\ h2[q].prev = IF q = x THEN x ELSE h1[q].prev
             /\ h2[q].type = h1[q].type /\ h2[q].value = h1[q].value
             /\ h2[q].string = h1[q].string /\ h2[q].next = h1[q].next /\ h2[q].child = h1[q].child
    BY <1>1, <2>2, Set_prev
  <2> HIDE DEF h2
  <2>4. /\ h3 \in Seq(ItemRecords) /\ Len(h3) = N
        /\ \A q \in 1 .. N :
             /\ h3[q].next = IF q = x THEN 0 ELSE h2[q].next
             /\ h3[q].type = h2[q].type /\ h3[q].value = h2[q].value
             /\ h3[q].string = h2[q].string /\ h3[q].prev = h2[q].prev /\ h3[q].child = h2[q].child
    <3> DEFINE zero == 0
               h4 == [h2 EXCEPT ![x].next = zero]
    <3>1. h2 \in Seq(ItemRecords) /\ x \in 1 .. Len(h2) /\ Len(h2) = N /\ zero \in Nat
      BY <2>3
    <3> HIDE DEF zero
    <3>2. /\ h4 \in Seq(ItemRecords) /\ Len(h4) = N
          /\ \A q \in 1 .. N :
             /\ h4[q].next = IF q = x THEN zero ELSE h2[q].next
             /\ h4[q].type = h2[q].type /\ h4[q].value = h2[q].value
             /\ h4[q].string = h2[q].string /\ h4[q].prev = h2[q].prev /\ h4[q].child = h2[q].child
      BY <3>1, Set_next
    <3>3. h3 = h4
      BY DEF zero
    <3> QED BY <3>2, <3>3 DEF zero
  <2> HIDE DEF h3, g
  <2> QED BY <1>1, <1>2, <1>4, <2>1, <2>2, <2>3, <2>4 DEF AddedFields, g
<1>5. CASE m # 0
  <2> DEFINE first == L[a][1]
             last == L[a][m]
             h1 == [h EXCEPT ![last].next = x]
             h2 == [h1 EXCEPT ![x].prev = last]
             h3 == [h2 EXCEPT ![first].prev = x]
  <2>1. /\ first \in 1 .. N /\ last \in 1 .. N /\ first # x /\ last # x
        /\ h[a].child = first /\ first # 0 /\ h[first].prev = last
    BY <1>1, <1>2, <1>3, <1>5
  <2>2. g = h3
    BY <2>1 DEF add_item_to_array
  <2> HIDE DEF first, last
  <2>3. /\ h1 \in Seq(ItemRecords) /\ Len(h1) = N
        /\ \A q \in 1 .. N :
             /\ h1[q].next = IF q = last THEN x ELSE h[q].next
             /\ h1[q].type = h[q].type /\ h1[q].value = h[q].value
             /\ h1[q].string = h[q].string /\ h1[q].prev = h[q].prev /\ h1[q].child = h[q].child
    BY <1>1, <2>1, Set_next
  <2> HIDE DEF h1
  <2>4. /\ h2 \in Seq(ItemRecords) /\ Len(h2) = N
        /\ \A q \in 1 .. N :
             /\ h2[q].prev = IF q = x THEN last ELSE h1[q].prev
             /\ h2[q].type = h1[q].type /\ h2[q].value = h1[q].value
             /\ h2[q].string = h1[q].string /\ h2[q].next = h1[q].next /\ h2[q].child = h1[q].child
    BY <1>1, <2>1, <2>3, Set_prev
  <2> HIDE DEF h2
  <2>5. /\ h3 \in Seq(ItemRecords) /\ Len(h3) = N
        /\ \A q \in 1 .. N :
             /\ h3[q].prev = IF q = first THEN x ELSE h2[q].prev
             /\ h3[q].type = h2[q].type /\ h3[q].value = h2[q].value
             /\ h3[q].string = h2[q].string /\ h3[q].next = h2[q].next /\ h3[q].child = h2[q].child
    BY <1>1, <2>1, <2>4, Set_prev
  <2> HIDE DEF h3, g
  <2> QED BY <1>1, <1>2, <1>5, <2>1, <2>2, <2>3, <2>4, <2>5 DEF AddedFields, g, first, last
<1> QED BY <1>1, <1>4, <1>5

\* The lists with x at the end of the list of a.
Hung(L, a, x) == [L EXCEPT ![a] = Append(@, x)]

HungLists(L, a, x, S, M) ==
  LET m == Len(L[a])
  IN  /\ M \in [S -> Seq(S)]
      /\ \A p \in S : p # a => M[p] = L[p]
      /\ M[a] = Append(L[a], x) /\ M[a] # <<>> /\ Len(M[a]) = m + 1
      /\ \A k \in 1 .. m : M[a][k] = L[a][k]
      /\ M[a][m + 1] = x

\* The list of a gets one item longer and the others stay.
LEMMA HungIs ==
  ASSUME NEW h, NEW L, Listing(h, L), NEW a \in 1 .. Len(h), NEW x \in 1 .. Len(h)
  PROVE  HungLists(L, a, x, 1 .. Len(h), Hung(L, a, x))
<1> DEFINE S == 1 .. Len(h)
           A == Append(L[a], x)
<1>1. L \in [S -> Seq(S)] /\ L[a] \in Seq(S) /\ a \in S /\ x \in S
  BY DEF Listing
<1> HIDE DEF S
<1>2. /\ A \in Seq(S) /\ A # <<>> /\ Len(A) = Len(L[a]) + 1
      /\ \A k \in 1 .. Len(L[a]) : A[k] = L[a][k]
      /\ A[Len(L[a]) + 1] = x
  BY <1>1, AppendProperties
<1> HIDE DEF A
<1>3. Hung(L, a, x) = [L EXCEPT ![a] = A]
  BY DEF Hung, A
<1>4. /\ Hung(L, a, x) \in [S -> Seq(S)]
      /\ \A p \in S : p # a => Hung(L, a, x)[p] = L[p]
      /\ Hung(L, a, x)[a] = A
  BY <1>1, <1>2, <1>3
<1> QED BY <1>2, <1>4 DEF HungLists, S, A

\* The pointers of a listing.
LEMMA ListLinks ==
  ASSUME NEW h, NEW L, Listing(h, L), NEW p \in 1 .. Len(h)
  PROVE  /\ h[p].child = IF Len(L[p]) = 0 THEN 0 ELSE L[p][1]
         /\ \A k \in 1 .. Len(L[p]) :
              /\ h[L[p][k]].next = IF k < Len(L[p]) THEN L[p][k + 1] ELSE 0
              /\ h[L[p][k]].prev = IF k = 1 THEN L[p][Len(L[p])] ELSE L[p][k - 1]
         /\ \A q \in 1 .. Len(h) : \A j \in 1 .. Len(L[p]), k \in 1 .. Len(L[q]) :
              L[p][j] = L[q][k] => p = q /\ j = k
<1>1. L[p] = <<>> <=> Len(L[p]) = 0
  BY ListType
<1> QED BY <1>1 DEF Listing

\* An item that hangs nowhere points nowhere and nobody points to it.
LEMMA FreeLinks ==
  ASSUME NEW h, NEW L, Listing(h, L), NEW q \in 1 .. Len(h), Free(L, q)
  PROVE  /\ h[q].next = 0
         /\ \A p \in 1 .. Len(h) : \A k \in 1 .. Len(L[p]) : L[p][k] # q
<1>1. DOMAIN L = 1 .. Len(h)
  BY ListType
<1>2. h[q].next = 0
  BY DEF Listing
<1>3. \A p \in 1 .. Len(h) : \A k \in 1 .. Len(L[p]) : L[p][k] # q
  BY <1>1 DEF Free, In
<1> QED BY <1>2, <1>3

\* add_item_to_array appends to a list.
LEMMA AddedListing ==
  ASSUME NEW h, NEW L, Listing(h, L), NEW a \in 1 .. Len(h), NEW x \in 1 .. Len(h),
         x # a, Free(L, x)
  PROVE  Listing(add_item_to_array(h, a, x), Hung(L, a, x))
<1> DEFINE g == add_item_to_array(h, a, x)
           M == Hung(L, a, x)
           m == Len(L[a])
           N == Len(h)
<1>0. AddedFields(h, L, a, x, g) /\ HungLists(L, a, x, 1 .. N, M)
  BY AddWrites, HungIs
<1> HIDE DEF g, M
<1>1. g \in Seq(ItemRecords) /\ Len(g) = N
  BY <1>0 DEF AddedFields
<1>2. \A q \in 1 .. N : g[q].child = IF q = a /\ m = 0 THEN x ELSE h[q].child
  BY <1>0 DEF AddedFields
<1>3. \A q \in 1 .. N : g[q].next = IF m # 0 /\ q = L[a][m] THEN x ELSE h[q].next
  BY <1>0 DEF AddedFields
<1>4. \A q \in 1 .. N : g[q].prev = IF q = x THEN (IF m = 0 THEN x ELSE L[a][m])
                                    ELSE IF m # 0 /\ q = L[a][1] THEN x ELSE h[q].prev
  BY <1>0 DEF AddedFields
<1>5. M \in [1 .. N -> Seq(1 .. N)] /\ \A p \in 1 .. N : p # a => M[p] = L[p]
  BY <1>0 DEF HungLists
<1>6. /\ M[a] # <<>> /\ Len(M[a]) = m + 1 /\ M[a][m + 1] = x
      /\ \A k \in 1 .. m : M[a][k] = L[a][k]
  BY <1>0 DEF HungLists
<1>7. N \in Nat /\ m \in Nat
  BY ListType
<1>8. \A p \in 1 .. N : Len(L[p]) \in Nat /\ \A k \in 1 .. Len(L[p]) : L[p][k] \in 1 .. N
  BY ListType
<1>9. h[x].next = 0 /\ \A p \in 1 .. N : \A k \in 1 .. Len(L[p]) : L[p][k] # x
  BY FreeLinks
<1>10. ASSUME NEW p \in 1 .. N
       PROVE  g[p].child = IF M[p] = <<>> THEN 0 ELSE M[p][1]
  <2>1. CASE p # a
    <3>1. M[p] = L[p] /\ g[p].child = h[p].child
      BY <1>2, <1>5, <2>1
    <3> QED BY <3>1 DEF Listing
  <2>2. CASE p = a /\ m = 0
    BY <1>2, <1>6, <2>2
  <2>3. CASE p = a /\ m # 0
    <3>1. g[a].child = L[a][1]
      BY <1>2, <2>3, ListLinks
    <3>2. M[a][1] = L[a][1]
      BY <1>6, <1>7, <2>3
    <3> QED BY <1>6, <2>3, <3>1, <3>2
  <2> QED BY <2>1, <2>2, <2>3
<1>11. ASSUME NEW p \in 1 .. N, NEW k \in 1 .. Len(M[p])
       PROVE  /\ g[M[p][k]].next = IF k < Len(M[p]) THEN M[p][k + 1] ELSE 0
              /\ g[M[p][k]].prev = IF k = 1 THEN M[p][Len(M[p])] ELSE M[p][k - 1]
  <2>1. CASE p # a
    <3>1. M[p] = L[p]
      BY <1>5, <2>1
    <3>2. k \in 1 .. Len(L[p]) /\ L[p][k] \in 1 .. N /\ L[p][k] # x
      BY <1>8, <1>9, <3>1
    <3>3. m # 0 => 1 \in 1 .. m /\ m \in 1 .. m
      BY <1>7
    <3>4. m # 0 => L[p][k] # L[a][m] /\ L[p][k] # L[a][1]
      BY <2>1, <3>2, <3>3, ListLinks
    <3>5. g[L[p][k]].next = h[L[p][k]].next
      BY <1>3, <3>2, <3>4
    <3>6. g[L[p][k]].prev = h[L[p][k]].prev
      BY <1>4, <3>2, <3>4
    <3>7. /\ h[L[p][k]].next = IF k < Len(L[p]) THEN L[p][k + 1] ELSE 0
          /\ h[L[p][k]].prev = IF k = 1 THEN L[p][Len(L[p])] ELSE L[p][k - 1]
      BY <3>2, ListLinks
    <3> QED BY <3>1, <3>5, <3>6, <3>7
  <2>2. CASE p = a /\ k <= m
    <3>1. k \in 1 .. m /\ m \in 1 .. m /\ 1 \in 1 .. m /\ m # 0
      BY <1>6, <1>7, <2>2
    <3>2. M[a][k] = L[a][k] /\ L[a][k] \in 1 .. N /\ L[a][k] # x
      BY <1>6, <1>8, <1>9, <3>1
    <3>3. L[a][k] = L[a][m] => k = m
      BY <3>1, ListLinks
    <3>4. L[a][k] = L[a][1] => k = 1
      BY <3>1, ListLinks
    <3>5. g[L[a][k]].next = IF k = m THEN x ELSE h[L[a][k]].next
      BY <1>3, <3>1, <3>2, <3>3
    <3>6. g[L[a][k]].prev = IF k = 1 THEN x ELSE h[L[a][k]].prev
      BY <1>4, <3>1, <3>2, <3>4
    <3>7. /\ h[L[a][k]].next = IF k < m THEN L[a][k + 1] ELSE 0
          /\ k # 1 => h[L[a][k]].prev = L[a][k - 1]
      BY <3>1, ListLinks
    <3>8. /\ k < m => M[a][k + 1] = L[a][k + 1]
          /\ k # 1 => M[a][k - 1] = L[a][k - 1]
      <4>1. (k < m => k + 1 \in 1 .. m) /\ (k # 1 => k - 1 \in 1 .. m)
        BY <1>7, <3>1
      <4> QED BY <1>6, <4>1
    <3>9. g[M[a][k]].next = M[a][k + 1]
      BY <1>6, <1>7, <3>1, <3>2, <3>5, <3>7, <3>8
    <3>10. g[M[a][k]].prev = IF k = 1 THEN M[a][Len(M[a])] ELSE M[a][k - 1]
      BY <1>6, <3>2, <3>6, <3>7, <3>8
    <3> QED BY <1>6, <1>7, <2>2, <3>1, <3>9, <3>10
  <2>3. CASE p = a /\ k = m + 1
    <3>1. m # 0 => m \in 1 .. m
      BY <1>7
    <3>2. m # 0 => x # L[a][m]
      BY <1>9, <3>1
    <3>3. g[x].next = 0
      BY <1>3, <1>9, <3>2
    <3>4. g[x].prev = IF m = 0 THEN x ELSE L[a][m]
      BY <1>4
    <3>5. m # 0 => M[a][m] = L[a][m]
      BY <1>6, <3>1
    <3>6. k - 1 = m /\ ~(k < Len(M[a])) /\ (k = 1 <=> m = 0)
      BY <1>6, <1>7, <2>3
    <3> QED BY <1>6, <2>3, <3>3, <3>4, <3>5, <3>6
  <2>4. p = a => k <= m \/ k = m + 1
    BY <1>6, <1>7
  <2> QED BY <2>1, <2>2, <2>3, <2>4
<1>12. ASSUME NEW p \in 1 .. N, NEW k \in 1 .. Len(M[p])
       PROVE  IF p = a /\ k = m + 1 THEN M[p][k] = x
              ELSE k \in 1 .. Len(L[p]) /\ M[p][k] = L[p][k] /\ M[p][k] # x
  <2>1. CASE p # a
    BY <1>5, <1>9, <2>1
  <2>2. CASE p = a
    <3>1. k \in 1 .. m \/ k = m + 1
      BY <1>6, <1>7, <2>2
    <3> QED BY <1>6, <1>9, <2>2, <3>1
  <2> QED BY <2>1, <2>2
<1>13. ASSUME NEW p \in 1 .. N, NEW q \in 1 .. N,
              NEW j \in 1 .. Len(M[p]), NEW k \in 1 .. Len(M[q]), M[p][j] = M[q][k]
       PROVE  p = q /\ j = k
  <2>1. IF p = a /\ j = m + 1 THEN M[p][j] = x
        ELSE j \in 1 .. Len(L[p]) /\ M[p][j] = L[p][j] /\ M[p][j] # x
    BY <1>12
  <2>2. IF q = a /\ k = m + 1 THEN M[q][k] = x
        ELSE k \in 1 .. Len(L[q]) /\ M[q][k] = L[q][k] /\ M[q][k] # x
    BY <1>12
  <2>3. CASE M[p][j] = x
    BY <1>13, <2>1, <2>2, <2>3
  <2>4. CASE M[p][j] # x
    <3>1. j \in 1 .. Len(L[p]) /\ k \in 1 .. Len(L[q]) /\ L[p][j] = L[q][k]
      BY <1>13, <2>1, <2>2, <2>4
    <3> QED BY <3>1, ListLinks
  <2> QED BY <2>3, <2>4
<1>14. ASSUME NEW q \in 1 .. N, Free(M, q)
       PROVE  g[q].next = 0
  <2>1. DOMAIN M = 1 .. N /\ DOMAIN L = 1 .. N
    BY <1>5, ListType
  <2>2. ASSUME NEW p \in 1 .. N, NEW k \in 1 .. Len(L[p])
        PROVE  L[p][k] # q
    <3>1. k \in 1 .. Len(M[p]) /\ M[p][k] = L[p][k]
      BY <1>5, <1>6, <1>7
    <3> QED BY <1>14, <2>1, <3>1 DEF Free, In
  <2>3. Free(L, q)
    BY <2>1, <2>2 DEF Free, In
  <2>4. m # 0 => m \in 1 .. m
    BY <1>7
  <2>5. m # 0 => q # L[a][m]
    BY <2>2, <2>4
  <2>6. h[q].next = 0
    BY <2>3, FreeLinks
  <2> QED BY <1>3, <2>5, <2>6
<1> HIDE DEF N, m
<1> QED BY <1>1, <1>5, <1>10, <1>11, <1>13, <1>14, Zenon DEF Listing, g, M

-----------------------------------------------------------------------------
(* What a call of cJSON does to items and lists *)

\* The lists with an empty one for a new item.
Grown(L, N) == [p \in 1 .. N + 1 |-> IF p <= N THEN L[p] ELSE <<>>]

Extended(h, L, type, value, g, M) ==
  LET N == Len(h)
  IN  /\ Listing(g, M) /\ Len(g) = N + 1
      /\ \A q \in 1 .. N : g[q] = h[q] /\ M[q] = L[q]
      /\ g[N + 1] = Item(type, value) /\ M[N + 1] = <<>>
      /\ \A q \in 1 .. N : Free(M, q) <=> Free(L, q)
      /\ Free(M, N + 1)

\* A new item hangs nowhere and has no list.
LEMMA NewListing ==
  ASSUME NEW h, NEW L, Listing(h, L),
         NEW type \in {"object", "array", "number"}, NEW value \in {0} \cup (Names \X Names)
  PROVE  Extended(h, L, type, value, Append(h, Item(type, value)), Grown(L, Len(h)))
<1> DEFINE N == Len(h)
           it == Item(type, value)
           g == Append(h, it)
           M == Grown(L, N)
<1>1. it \in ItemRecords /\ it.next = 0 /\ it.child = 0
  <2> DEFINE V == {0} \cup (Names \X Names)
             K == {"object", "array", "number"}
  <2>1. value \in V /\ type \in K
    OBVIOUS
  <2> HIDE DEF V, K
  <2>2. it \in [type : K, value : V, string : Names, next : Nat, prev : Nat, child : Nat]
    <3>1. "" \in Names /\ 0 \in Nat
      BY DEF Names
    <3> DEFINE zero == 0 empty == ""
    <3>2. zero \in Nat /\ empty \in Names
      BY <3>1
    <3>3. it = [type |-> type, value |-> value, string |-> empty, next |-> zero, prev |-> zero, child |-> zero]
      BY DEF Item
    <3> HIDE DEF zero, empty, it
    <3> QED BY <2>1, <3>2, <3>3
  <2>3. it.next = 0 /\ it.child = 0
    BY DEF Item
  <2> QED BY <2>2, <2>3 DEF ItemRecords, V, K
<1>2. h \in Seq(ItemRecords) /\ N \in Nat /\ L \in [1 .. N -> Seq(1 .. N)]
  BY DEF Listing
<1> HIDE DEF it
<1>3. /\ g \in Seq(ItemRecords) /\ Len(g) = N + 1
      /\ \A q \in 1 .. N : g[q] = h[q]
      /\ g[N + 1] = it
  BY <1>1, <1>2, AppendProperties
<1> HIDE DEF g
<1>4. /\ DOMAIN M = 1 .. N + 1
      /\ \A q \in 1 .. N : M[q] = L[q]
      /\ M[N + 1] = <<>>
  BY <1>2 DEF Grown
<1>5. M \in [1 .. N + 1 -> Seq(1 .. N + 1)]
  <2>1. ASSUME NEW q \in 1 .. N PROVE L[q] \in Seq(1 .. N + 1)
    <3>1. L[q] \in Seq(1 .. N) /\ 1 .. N \subseteq 1 .. N + 1
      BY <1>2
    <3> QED BY <3>1, SeqMonotonic
  <2>2. <<>> \in Seq(1 .. N + 1)
    BY EmptySeq
  <2>3. ASSUME NEW q \in 1 .. N + 1 PROVE M[q] \in Seq(1 .. N + 1)
    <3> HIDE DEF M
    <3>1. q \in 1 .. N \/ q = N + 1
      BY <1>2
    <3> QED BY <1>4, <2>1, <2>2, <3>1
  <2> QED BY <1>4, <2>3 DEF Grown
<1> HIDE DEF M
<1>6. \A q \in 1 .. N + 1 : q \in 1 .. N \/ q = N + 1
  BY <1>2
<1>7. 1 .. N \subseteq 1 .. N + 1 /\ N + 1 \in 1 .. N + 1 /\ N + 1 \notin 1 .. N
  BY <1>2
<1>8. Len(M[N + 1]) = 0 /\ ~\E k : k \in 1 .. Len(M[N + 1])
  BY <1>4
<1>9. \A p \in 1 .. N : \A k \in 1 .. Len(L[p]) : L[p][k] \in 1 .. N
  BY ListType
<1>10. ASSUME NEW p \in 1 .. N + 1
       PROVE  g[p].child = IF M[p] = <<>> THEN 0 ELSE M[p][1]
  <2>1. CASE p \in 1 .. N
    <3>1. h[p].child = IF L[p] = <<>> THEN 0 ELSE L[p][1]
      BY <2>1 DEF Listing
    <3> QED BY <1>3, <1>4, <2>1, <3>1
  <2>2. CASE p = N + 1
    BY <1>1, <1>3, <1>4, <2>2
  <2> QED BY <1>6, <2>1, <2>2
<1>11. ASSUME NEW p \in 1 .. N + 1, NEW k \in 1 .. Len(M[p])
       PROVE  /\ g[M[p][k]].next = IF k < Len(M[p]) THEN M[p][k + 1] ELSE 0
              /\ g[M[p][k]].prev = IF k = 1 THEN M[p][Len(M[p])] ELSE M[p][k - 1]
  <2>1. p \in 1 .. N
    BY <1>6, <1>8
  <2>2. M[p] = L[p] /\ L[p][k] \in 1 .. N
    BY <1>4, <1>9, <2>1
  <2>3. g[M[p][k]] = h[L[p][k]]
    BY <1>3, <2>2
  <2> QED BY <2>1, <2>2, <2>3, ListLinks
<1>12. ASSUME NEW p \in 1 .. N + 1, NEW q \in 1 .. N + 1,
              NEW j \in 1 .. Len(M[p]), NEW k \in 1 .. Len(M[q]), M[p][j] = M[q][k]
       PROVE  p = q /\ j = k
  <2>1. p \in 1 .. N /\ q \in 1 .. N
    BY <1>6, <1>8
  <2>2. M[p] = L[p] /\ M[q] = L[q]
    BY <1>4, <2>1
  <2>3. j \in 1 .. Len(L[p]) /\ k \in 1 .. Len(L[q]) /\ L[p][j] = L[q][k]
    BY <1>12, <2>2
  <2> QED BY <2>1, <2>3, ListLinks
<1>13. ASSUME NEW q \in 1 .. N
       PROVE  Free(M, q) <=> Free(L, q)
  <2>1. DOMAIN L = 1 .. N
    BY <1>2
  <2>2. \A p \in 1 .. N : In(M, p, q) <=> In(L, p, q)
    BY <1>4 DEF In
  <2>3. ~In(M, N + 1, q)
    BY <1>8 DEF In
  <2> QED BY <1>4, <1>6, <1>7, <2>1, <2>2, <2>3 DEF Free
<1>14. Free(M, N + 1)
  <2>1. ASSUME NEW p \in 1 .. N + 1 PROVE ~In(M, p, N + 1)
    <3>1. CASE p \in 1 .. N
      <4>1. M[p] = L[p]
        BY <1>4, <3>1
      <4> QED BY <1>7, <1>9, <3>1, <4>1 DEF In
    <3>2. CASE p = N + 1
      BY <1>8, <3>2 DEF In
    <3> QED BY <1>6, <3>1, <3>2
  <2> QED BY <1>4, <2>1 DEF Free
<1>15. ASSUME NEW q \in 1 .. N + 1, Free(M, q) PROVE g[q].next = 0
  <2>1. CASE q \in 1 .. N
    <3>1. Free(L, q)
      BY <1>13, <1>15, <2>1
    <3> QED BY <1>3, <2>1, <3>1, FreeLinks
  <2>2. CASE q = N + 1
    BY <1>1, <1>3, <2>2
  <2> QED BY <1>6, <2>1, <2>2
<1>16. Listing(g, M)
  BY <1>3, <1>5, <1>10, <1>11, <1>12, <1>15, ZenonT(30) DEF Listing
<1> QED BY <1>3, <1>4, <1>13, <1>14, <1>16 DEF Extended, g, M, it

\* A key changes no link.
LEMMA NamedListing ==
  ASSUME NEW h, NEW L, Listing(h, L), NEW x \in 1 .. Len(h), NEW key \in Names
  PROVE  LET g == [h EXCEPT ![x].string = key]
         IN  /\ Listing(g, L) /\ Len(g) = Len(h)
             /\ \A q \in 1 .. Len(h) :
                  /\ g[q].type = h[q].type /\ g[q].value = h[q].value
                  /\ g[q].string = IF q = x THEN key ELSE h[q].string
<1> DEFINE g == [h EXCEPT ![x].string = key]
<1>1. h \in Seq(ItemRecords)
  BY DEF Listing
<1>2. /\ g \in Seq(ItemRecords) /\ Len(g) = Len(h)
      /\ \A q \in 1 .. Len(h) :
           /\ g[q].string = IF q = x THEN key ELSE h[q].string
           /\ g[q].type = h[q].type /\ g[q].value = h[q].value /\ g[q].next = h[q].next
           /\ g[q].prev = h[q].prev /\ g[q].child = h[q].child
  BY <1>1, Set_string
<1> HIDE DEF g
<1>3. \A p \in 1 .. Len(h) : \A k \in 1 .. Len(L[p]) : L[p][k] \in 1 .. Len(h)
  BY ListType
<1>4. Listing(g, L)
  <2>1. L \in [1 .. Len(h) -> Seq(1 .. Len(h))]
    BY DEF Listing
  <2>2. \A p \in 1 .. Len(h) : g[p].child = IF L[p] = <<>> THEN 0 ELSE L[p][1]
    BY <1>2 DEF Listing
  <2>3. \A p \in 1 .. Len(h) : \A k \in 1 .. Len(L[p]) :
          /\ g[L[p][k]].next = IF k < Len(L[p]) THEN L[p][k + 1] ELSE 0
          /\ g[L[p][k]].prev = IF k = 1 THEN L[p][Len(L[p])] ELSE L[p][k - 1]
    <3> TAKE p \in 1 .. Len(h)
    <3> TAKE k \in 1 .. Len(L[p])
    <3>1. L[p][k] \in 1 .. Len(h)
      BY <1>3
    <3>2. g[L[p][k]].next = h[L[p][k]].next /\ g[L[p][k]].prev = h[L[p][k]].prev
      BY <1>2, <3>1
    <3>3. /\ h[L[p][k]].next = IF k < Len(L[p]) THEN L[p][k + 1] ELSE 0
          /\ h[L[p][k]].prev = IF k = 1 THEN L[p][Len(L[p])] ELSE L[p][k - 1]
      BY ListLinks
    <3> QED BY <3>2, <3>3
  <2>4. \A p, q \in 1 .. Len(h) : \A j \in 1 .. Len(L[p]), k \in 1 .. Len(L[q]) :
          L[p][j] = L[q][k] => p = q /\ j = k
    BY DEF Listing
  <2>5. \A q \in 1 .. Len(h) : Free(L, q) => g[q].next = 0
    BY <1>2, FreeLinks
  <2> DEFINE N == Len(h)
  <2>6. g \in Seq(ItemRecords) /\ Len(g) = N
    BY <1>2
  <2> HIDE DEF N
  <2> QED BY <2>1, <2>2, <2>3, <2>4, <2>5, <2>6, Zenon DEF Listing, N
<1> QED BY <1>2, <1>4 DEF g

-----------------------------------------------------------------------------
(* What every item is for: its place in the reply, the key of its endpoint *)
(* and its bucket                                                          *)

Kinds == {"root", "stats", "counter", "latency", "bucket", "count"}
Tags == [kind : Kinds, key : Names, bucket : Nat]
Tag(kind, key, b) == [kind |-> kind, key |-> key, bucket |-> b]

Numbers == {"counter", "count"}
TypeOf(kind) == IF kind = "latency" THEN "array" ELSE IF kind \in Numbers THEN "number" ELSE "object"

\* An item with tag u may hang in the list of one with tag t.
MayHang(t, u) ==
  \/ t.kind = "root" /\ u.kind = "stats"
  \/ t.kind = "stats" /\ u.kind \in {"counter", "latency"} /\ u.key = t.key
  \/ t.kind = "latency" /\ u.kind = "bucket" /\ u.key = t.key
  \/ t.kind = "bucket" /\ u.kind = "count" /\ u.key = t.key /\ u.bucket = t.bucket

\* What an item i with tag t shows once it hangs in a list.
Tells(i, t) ==
  /\ t.kind = "stats" => i.string = t.key
  /\ t.kind \in Numbers => i.value = <<t.key, i.string>>
  /\ t.kind = "count" => i.string = latency_buckets[t.bucket]

Body(h, L, G) ==
  /\ Listing(h, L)
  /\ G \in [1 .. Len(h) -> Tags]
  /\ \A q \in 1 .. Len(h) : h[q].type = TypeOf(G[q].kind)
  /\ \A p \in 1 .. Len(h) : \A k \in 1 .. Len(L[p]) :
       MayHang(G[p], G[L[p][k]]) /\ Tells(h[L[p][k]], G[L[p][k]])

\* The keys of a list, and the buckets.
Shown(h, s) == [k \in 1 .. Len(s) |-> h[s[k]].string]
InBuckets(G, s) == {G[s[k]].bucket : k \in 1 .. Len(s)}


\* The parts of Body.
LEMMA BodyParts ==
  ASSUME NEW h, NEW L, NEW G, Body(h, L, G)
  PROVE  /\ Listing(h, L) /\ Len(h) \in Nat /\ DOMAIN L = 1 .. Len(h)
         /\ G \in [1 .. Len(h) -> Tags]
         /\ \A q \in 1 .. Len(h) : h[q].type = TypeOf(G[q].kind)
         /\ \A p \in 1 .. Len(h) : Len(L[p]) \in Nat
         /\ \A p \in 1 .. Len(h) : \A k \in 1 .. Len(L[p]) :
              /\ L[p][k] \in 1 .. Len(h)
              /\ MayHang(G[p], G[L[p][k]]) /\ Tells(h[L[p][k]], G[L[p][k]])
<1>1. Listing(h, L)
  BY DEF Body
<1>2. Len(h) \in Nat /\ DOMAIN L = 1 .. Len(h)
  BY <1>1 DEF Listing
<1>3. \A p \in 1 .. Len(h) : Len(L[p]) \in Nat /\ \A k \in 1 .. Len(L[p]) : L[p][k] \in 1 .. Len(h)
  BY <1>1, ListType
<1> QED BY <1>1, <1>2, <1>3 DEF Body

\* Lists of the same items, with the same keys and tags, show the same.
LEMMA SameShown ==
  ASSUME NEW h, NEW g, NEW G, NEW H, NEW s,
         \A k \in 1 .. Len(s) : g[s[k]].string = h[s[k]].string,
         \A k \in 1 .. Len(s) : H[s[k]] = G[s[k]]
  PROVE  Shown(g, s) = Shown(h, s) /\ InBuckets(H, s) = InBuckets(G, s)
<1>1. Shown(g, s) = Shown(h, s)
  BY DEF Shown
<1>2. InBuckets(H, s) = InBuckets(G, s)
  BY DEF InBuckets
<1> QED BY <1>1, <1>2

-----------------------------------------------------------------------------
(* A new item *)

Labelled(G, N, t) == [p \in 1 .. N + 1 |-> IF p <= N THEN G[p] ELSE t]

CreatedAs(h, L, G, t, g, M, H) ==
  LET N == Len(h)
  IN  /\ Body(g, M, H) /\ Len(g) = N + 1
      /\ \A q \in 1 .. N : g[q] = h[q] /\ H[q] = G[q] /\ M[q] = L[q]
      /\ \A q \in 1 .. N : Shown(g, M[q]) = Shown(h, L[q]) /\ InBuckets(H, M[q]) = InBuckets(G, L[q])
      /\ \A q \in 1 .. N : Free(M, q) <=> Free(L, q)
      /\ H[N + 1] = t /\ M[N + 1] = <<>> /\ Free(M, N + 1)

\* A new item keeps the body.
LEMMA CreateBody ==
  ASSUME NEW h, NEW L, NEW G, Body(h, L, G), NEW t \in Tags,
         NEW value \in {0} \cup (Names \X Names)
  PROVE  CreatedAs(h, L, G, t, Append(h, Item(TypeOf(t.kind), value)),
                   Grown(L, Len(h)), Labelled(G, Len(h), t))
<1> DEFINE N == Len(h)
           type == TypeOf(t.kind)
           g == Append(h, Item(type, value))
           M == Grown(L, N)
           H == Labelled(G, N, t)
<1>1. /\ Listing(h, L) /\ N \in Nat /\ G \in [1 .. N -> Tags]
      /\ \A q \in 1 .. N : h[q].type = TypeOf(G[q].kind)
  BY BodyParts
<1>2. \A p \in 1 .. N : \A k \in 1 .. Len(L[p]) :
        L[p][k] \in 1 .. N /\ MayHang(G[p], G[L[p][k]]) /\ Tells(h[L[p][k]], G[L[p][k]])
  BY BodyParts
<1>3. type \in {"object", "array", "number"}
  BY DEF TypeOf
<1> HIDE DEF type
<1>4. Extended(h, L, type, value, g, M)
  BY <1>1, <1>3, NewListing
<1> HIDE DEF g, M
<1>5. /\ Listing(g, M) /\ Len(g) = N + 1
      /\ \A q \in 1 .. N : g[q] = h[q] /\ M[q] = L[q]
      /\ g[N + 1].type = type /\ M[N + 1] = <<>>
      /\ \A q \in 1 .. N : Free(M, q) <=> Free(L, q)
      /\ Free(M, N + 1)
  <2>1. Item(type, value).type = type
    BY DEF Item
  <2>2. g[N + 1] = Item(type, value)
    BY <1>4 DEF Extended
  <2>3. g[N + 1].type = type
    BY <2>1, <2>2
  <2> QED BY <1>4, <2>3 DEF Extended
<1>6. /\ H \in [1 .. N + 1 -> Tags]
      /\ \A q \in 1 .. N : H[q] = G[q]
      /\ H[N + 1] = t
  BY <1>1 DEF Labelled
<1> HIDE DEF H
<1>7. \A q \in 1 .. N + 1 : q \in 1 .. N \/ q = N + 1
  BY <1>1
<1>8. Len(M[N + 1]) = 0 /\ 1 .. 0 = {}
  BY <1>5
<1>9. \A q \in 1 .. N + 1 : g[q].type = TypeOf(H[q].kind)
  BY <1>1, <1>5, <1>6, <1>7 DEF type
<1>10. ASSUME NEW p \in 1 .. N + 1, NEW k \in 1 .. Len(M[p])
       PROVE  MayHang(H[p], H[M[p][k]]) /\ Tells(g[M[p][k]], H[M[p][k]])
  <2>1. p \in 1 .. N
    BY <1>7, <1>8
  <2>2. M[p] = L[p] /\ H[p] = G[p] /\ L[p][k] \in 1 .. N
    BY <1>2, <1>5, <1>6, <2>1
  <2>3. g[L[p][k]] = h[L[p][k]] /\ H[L[p][k]] = G[L[p][k]]
    BY <1>5, <1>6, <2>2
  <2> QED BY <1>2, <2>1, <2>2, <2>3
<1>11. Body(g, M, H)
  BY <1>5, <1>6, <1>9, <1>10, Zenon DEF Body
<1>12. ASSUME NEW q \in 1 .. N
       PROVE  Shown(g, M[q]) = Shown(h, L[q]) /\ InBuckets(H, M[q]) = InBuckets(G, L[q])
  <2>1. M[q] = L[q]
    BY <1>5
  <2>2. \A k \in 1 .. Len(L[q]) : g[L[q][k]].string = h[L[q][k]].string
    BY <1>2, <1>5
  <2>3. \A k \in 1 .. Len(L[q]) : H[L[q][k]] = G[L[q][k]]
    BY <1>2, <1>6
  <2> QED BY <2>1, <2>2, <2>3, SameShown, SMTT(30)
<1> QED BY <1>5, <1>6, <1>11, <1>12 DEF CreatedAs, g, M, H, type

-----------------------------------------------------------------------------
(* An item gets its key and its place *)

RenamedAs(h, L, G, x, key, g) ==
  /\ Body(g, L, G) /\ Len(g) = Len(h)
  /\ \A q \in 1 .. Len(h) : g[q].value = h[q].value
  /\ g[x].string = key
  /\ \A q \in 1 .. Len(h) : Shown(g, L[q]) = Shown(h, L[q])

\* An item that hangs nowhere may get any key.
LEMMA NamedBody ==
  ASSUME NEW h, NEW L, NEW G, Body(h, L, G), NEW x \in 1 .. Len(h), Free(L, x), NEW key \in Names
  PROVE  RenamedAs(h, L, G, x, key, [h EXCEPT ![x].string = key])
<1> DEFINE N == Len(h)
           g == [h EXCEPT ![x].string = key]
<1>1. /\ Listing(h, L) /\ N \in Nat /\ G \in [1 .. N -> Tags]
      /\ \A q \in 1 .. N : h[q].type = TypeOf(G[q].kind)
  BY BodyParts
<1>2. \A p \in 1 .. N : \A k \in 1 .. Len(L[p]) :
        L[p][k] \in 1 .. N /\ MayHang(G[p], G[L[p][k]]) /\ Tells(h[L[p][k]], G[L[p][k]])
  BY BodyParts
<1>3. /\ Listing(g, L) /\ Len(g) = N
      /\ \A q \in 1 .. N :
           /\ g[q].type = h[q].type /\ g[q].value = h[q].value
           /\ g[q].string = IF q = x THEN key ELSE h[q].string
  BY <1>1, NamedListing
<1> HIDE DEF g
<1>4. \A p \in 1 .. N : \A k \in 1 .. Len(L[p]) : L[p][k] # x
  BY <1>1, FreeLinks
<1>5. ASSUME NEW p \in 1 .. N, NEW k \in 1 .. Len(L[p])
      PROVE  /\ g[L[p][k]].string = h[L[p][k]].string
             /\ MayHang(G[p], G[L[p][k]]) /\ Tells(g[L[p][k]], G[L[p][k]])
  <2>1. L[p][k] \in 1 .. N /\ L[p][k] # x
    BY <1>2, <1>4
  <2>2. g[L[p][k]].string = h[L[p][k]].string /\ g[L[p][k]].value = h[L[p][k]].value
    BY <1>3, <2>1
  <2>3. MayHang(G[p], G[L[p][k]]) /\ Tells(h[L[p][k]], G[L[p][k]])
    BY <1>2
  <2> QED BY <2>2, <2>3 DEF Tells
<1>6. \A q \in 1 .. N : g[q].type = TypeOf(G[q].kind)
  BY <1>1, <1>3
<1> HIDE DEF N
<1>7. Body(g, L, G)
  BY <1>1, <1>3, <1>5, <1>6, Zenon DEF Body
<1>8. \A q \in 1 .. N : Shown(g, L[q]) = Shown(h, L[q])
  BY <1>5 DEF Shown
<1> QED BY <1>3, <1>7, <1>8 DEF g, N, RenamedAs

PlacedAs(h, L, G, a, x, key, g, M) ==
  LET N == Len(h)
  IN  /\ Body(g, M, G) /\ Len(g) = N
      /\ \A q \in 1 .. N : q # a => /\ M[q] = L[q] /\ Shown(g, M[q]) = Shown(h, L[q])
                                    /\ InBuckets(G, M[q]) = InBuckets(G, L[q])
      /\ M[a] # <<>>
      /\ Shown(g, M[a]) = Append(Shown(h, L[a]), key)
      /\ InBuckets(G, M[a]) = InBuckets(G, L[a]) \cup {G[x].bucket}
      /\ \A q \in 1 .. N : Free(M, q) <=> Free(L, q) /\ q # x

\* add_item_to_array keeps the body and adds to one list.
LEMMA HangBody ==
  ASSUME NEW h, NEW L, NEW G, Body(h, L, G), NEW a \in 1 .. Len(h), NEW x \in 1 .. Len(h),
         Free(L, x), MayHang(G[a], G[x]), Tells(h[x], G[x])
  PROVE  PlacedAs(h, L, G, a, x, h[x].string, add_item_to_array(h, a, x), Hung(L, a, x))
<1> DEFINE N == Len(h)
           m == Len(L[a])
           g == add_item_to_array(h, a, x)
           M == Hung(L, a, x)
<1>1. /\ Listing(h, L) /\ N \in Nat /\ m \in Nat /\ G \in [1 .. N -> Tags]
      /\ DOMAIN L = 1 .. N
      /\ \A q \in 1 .. N : h[q].type = TypeOf(G[q].kind)
  BY BodyParts
<1>2. \A p \in 1 .. N : \A k \in 1 .. Len(L[p]) :
        L[p][k] \in 1 .. N /\ MayHang(G[p], G[L[p][k]]) /\ Tells(h[L[p][k]], G[L[p][k]])
  BY BodyParts
<1>3. x # a
  BY DEF MayHang
<1>4. /\ AddedFields(h, L, a, x, g) /\ HungLists(L, a, x, 1 .. N, M) /\ Listing(g, M)
  BY <1>1, <1>3, AddWrites, HungIs, AddedListing
<1> HIDE DEF g, M
<1>5. /\ Len(g) = N
      /\ \A q \in 1 .. N :
           g[q].type = h[q].type /\ g[q].value = h[q].value /\ g[q].string = h[q].string
  BY <1>4 DEF AddedFields
<1>6. /\ DOMAIN M = 1 .. N
      /\ \A p \in 1 .. N : p # a => M[p] = L[p]
      /\ M[a] # <<>> /\ Len(M[a]) = m + 1
      /\ \A k \in 1 .. m : M[a][k] = L[a][k]
      /\ M[a][m + 1] = x
  BY <1>4 DEF HungLists
<1>7. ASSUME NEW p \in 1 .. N, NEW k \in 1 .. Len(M[p])
      PROVE  \/ k \in 1 .. Len(L[p]) /\ M[p][k] = L[p][k]
             \/ p = a /\ k = m + 1 /\ M[p][k] = x
  <2>1. CASE p # a
    BY <1>6, <2>1
  <2>2. CASE p = a
    <3>1. k \in 1 .. m \/ k = m + 1
      BY <1>1, <1>6, <2>2
    <3> QED BY <1>6, <2>2, <3>1
  <2> QED BY <2>1, <2>2
<1>8. ASSUME NEW p \in 1 .. N, NEW k \in 1 .. Len(M[p])
      PROVE  MayHang(G[p], G[M[p][k]]) /\ Tells(g[M[p][k]], G[M[p][k]])
  <2>1. CASE k \in 1 .. Len(L[p]) /\ M[p][k] = L[p][k]
    <3>1. L[p][k] \in 1 .. N /\ MayHang(G[p], G[L[p][k]]) /\ Tells(h[L[p][k]], G[L[p][k]])
      BY <1>2, <2>1
    <3>2. g[L[p][k]].value = h[L[p][k]].value /\ g[L[p][k]].string = h[L[p][k]].string
      BY <1>5, <3>1
    <3> QED BY <2>1, <3>1, <3>2 DEF Tells
  <2>2. CASE p = a /\ M[p][k] = x
    <3>1. g[x].value = h[x].value /\ g[x].string = h[x].string
      BY <1>5
    <3> QED BY <2>2, <3>1 DEF Tells
  <2> QED BY <1>7, <2>1, <2>2
<1>9. \A q \in 1 .. N : g[q].type = TypeOf(G[q].kind)
  BY <1>1, <1>5
<1>10. Body(g, M, G)
  <2> HIDE DEF N
  <2> QED BY <1>1, <1>4, <1>5, <1>8, <1>9, Zenon DEF Body
<1>11. ASSUME NEW q \in 1 .. N, q # a
       PROVE  /\ M[q] = L[q] /\ Shown(g, M[q]) = Shown(h, L[q])
              /\ InBuckets(G, M[q]) = InBuckets(G, L[q])
  <2>1. M[q] = L[q]
    BY <1>6, <1>11
  <2>2. \A k \in 1 .. Len(L[q]) : g[L[q][k]].string = h[L[q][k]].string
    BY <1>2, <1>5
  <2>3. Shown(g, L[q]) = Shown(h, L[q])
    BY <2>2 DEF Shown
  <2> QED BY <2>1, <2>3
<1>12. Shown(g, M[a]) = Append(Shown(h, L[a]), h[x].string)
  <2> DEFINE s == Shown(h, L[a])
             T == {h[q].string : q \in 1 .. N}
  <2>1. s = [k \in 1 .. m |-> h[L[a][k]].string] /\ \A k \in 1 .. m : L[a][k] \in 1 .. N
    BY <1>2 DEF Shown
  <2>2. s \in Seq(T) /\ Len(s) = m /\ h[x].string \in T
    BY <1>1, <2>1
  <2> HIDE DEF T
  <2>3. /\ Append(s, h[x].string) \in Seq(T)
        /\ Len(Append(s, h[x].string)) = m + 1
        /\ \A k \in 1 .. m : Append(s, h[x].string)[k] = s[k]
        /\ Append(s, h[x].string)[m + 1] = h[x].string
    BY <2>2, AppendProperties
  <2>4. \A k \in 1 .. m : s[k] = h[L[a][k]].string
    BY <2>1
  <2> HIDE DEF s
  <2>5. ASSUME NEW k \in 1 .. m + 1
        PROVE  g[M[a][k]].string = Append(s, h[x].string)[k]
    <3>1. CASE k \in 1 .. m
      <4>1. M[a][k] = L[a][k] /\ L[a][k] \in 1 .. N
        BY <1>6, <2>1, <3>1
      <4>2. g[M[a][k]].string = h[L[a][k]].string
        BY <1>5, <4>1
      <4> QED BY <2>3, <2>4, <3>1, <4>2
    <3>2. CASE k = m + 1
      BY <1>5, <1>6, <2>3, <3>2
    <3>3. k \in 1 .. m \/ k = m + 1
      BY <1>1
    <3> QED BY <3>1, <3>2, <3>3
  <2>6. Append(s, h[x].string) = [k \in 1 .. m + 1 |-> Append(s, h[x].string)[k]]
    BY <2>3
  <2>7. Shown(g, M[a]) = [k \in 1 .. m + 1 |-> g[M[a][k]].string]
    BY <1>6 DEF Shown
  <2>8. [k \in 1 .. m + 1 |-> g[M[a][k]].string] = [k \in 1 .. m + 1 |-> Append(s, h[x].string)[k]]
    BY <2>5
  <2> QED BY <2>6, <2>7, <2>8 DEF s
<1>13. InBuckets(G, M[a]) = InBuckets(G, L[a]) \cup {G[x].bucket}
  <2>1. \A b : b \in InBuckets(G, M[a]) <=> \E k \in 1 .. m + 1 : b = G[M[a][k]].bucket
    BY <1>6 DEF InBuckets
  <2>2. \A b : b \in InBuckets(G, L[a]) <=> \E k \in 1 .. m : b = G[L[a][k]].bucket
    BY DEF InBuckets
  <2>3. m + 1 \in 1 .. m + 1 /\ \A k \in 1 .. m : k \in 1 .. m + 1
    BY <1>1
  <2>4. \A k \in 1 .. m + 1 : k \in 1 .. m \/ k = m + 1
    BY <1>1
  <2>5. \A b \in InBuckets(G, M[a]) : b \in InBuckets(G, L[a]) \/ b = G[x].bucket
    BY <1>6, <2>1, <2>2, <2>4, SMTT(30)
  <2>6. \A b \in InBuckets(G, L[a]) : b \in InBuckets(G, M[a])
    BY <1>6, <2>1, <2>2, <2>3, SMTT(30)
  <2>7. G[x].bucket \in InBuckets(G, M[a])
    BY <1>6, <2>1, <2>3
  <2> QED BY <2>5, <2>6, <2>7
<1>14. ASSUME NEW q \in 1 .. N
       PROVE  Free(M, q) <=> Free(L, q) /\ q # x
  <2>1. m + 1 \in 1 .. Len(M[a]) /\ \A k \in 1 .. m : k \in 1 .. Len(M[a])
    BY <1>1, <1>6
  <2>2. In(M, a, x)
    BY <1>6, <2>1 DEF In
  <2>3. ASSUME NEW p \in 1 .. N, In(L, p, q)
        PROVE  In(M, p, q)
    BY <1>6, <2>1, <2>3 DEF In
  <2>4. ASSUME NEW p \in 1 .. N, In(M, p, q), q # x
        PROVE  In(L, p, q)
    BY <1>7, <2>4 DEF In
  <2> QED BY <1>1, <1>6, <2>2, <2>3, <2>4, Zenon DEF Free
<1> QED BY <1>5, <1>6, <1>10, <1>11, <1>12, <1>13, <1>14 DEF PlacedAs, g, M

\* The same for an item that gets its key first.
LEMMA NamedHang ==
  ASSUME NEW h, NEW L, NEW G, Body(h, L, G), NEW a \in 1 .. Len(h), NEW x \in 1 .. Len(h),
         NEW key \in Names, Free(L, x), MayHang(G[a], G[x]),
         G[x].kind = "stats" => key = G[x].key,
         G[x].kind \in Numbers => h[x].value = <<G[x].key, key>>,
         G[x].kind = "count" => key = latency_buckets[G[x].bucket]
  PROVE  PlacedAs(h, L, G, a, x, key, add_item_to_object(h, a, key, x), Hung(L, a, x))
<1> DEFINE N == Len(h)
           f == [h EXCEPT ![x].string = key]
           g == add_item_to_array(f, a, x)
           M == Hung(L, a, x)
<1>1. /\ Body(f, L, G) /\ Len(f) = N
      /\ f[x].value = h[x].value /\ f[x].string = key
      /\ \A q \in 1 .. N : Shown(f, L[q]) = Shown(h, L[q])
  <2>1. RenamedAs(h, L, G, x, key, f)
    BY NamedBody
  <2> HIDE DEF f
  <2> QED BY <2>1 DEF RenamedAs
<1>2. g = add_item_to_object(h, a, key, x)
  BY DEF add_item_to_object
<1> HIDE DEF f
<1>3. Tells(f[x], G[x])
  BY <1>1 DEF Tells
<1>4. PlacedAs(f, L, G, a, x, f[x].string, g, M)
  BY <1>1, <1>3, HangBody
<1> HIDE DEF g, M
<1>5. /\ Body(g, M, G) /\ Len(g) = N
      /\ M[a] # <<>>
      /\ Shown(g, M[a]) = Append(Shown(f, L[a]), f[x].string)
      /\ InBuckets(G, M[a]) = InBuckets(G, L[a]) \cup {G[x].bucket}
      /\ \A q \in 1 .. N : Free(M, q) <=> Free(L, q) /\ q # x
  BY <1>1, <1>4 DEF PlacedAs
<1>6. \A q \in 1 .. N : q # a => /\ M[q] = L[q] /\ Shown(g, M[q]) = Shown(f, L[q])
                                 /\ InBuckets(G, M[q]) = InBuckets(G, L[q])
  BY <1>1, <1>4 DEF PlacedAs
<1>7. \A q \in 1 .. N : q # a => /\ M[q] = L[q] /\ Shown(g, M[q]) = Shown(h, L[q])
                                 /\ InBuckets(G, M[q]) = InBuckets(G, L[q])
  BY <1>1, <1>6
<1>8. Shown(g, M[a]) = Append(Shown(h, L[a]), key)
  BY <1>1, <1>5
<1>9. PlacedAs(h, L, G, a, x, key, g, M)
  BY <1>5, <1>7, <1>8 DEF PlacedAs
<1> QED BY <1>2, <1>9 DEF M

\* A new number with its key in the object a.
NumberedAs(h, L, G, a, t, key, g, M, H) ==
  LET N == Len(h)
  IN  /\ Body(g, M, H) /\ Len(g) = N + 1
      /\ \A q \in 1 .. N : H[q] = G[q] /\ (Free(M, q) <=> Free(L, q))
      /\ \A q \in 1 .. N : q # a => /\ M[q] = L[q] /\ Shown(g, M[q]) = Shown(h, L[q])
                                    /\ InBuckets(H, M[q]) = InBuckets(G, L[q])
      /\ M[a] # <<>>
      /\ Shown(g, M[a]) = Append(Shown(h, L[a]), key)
      /\ H[N + 1] = t /\ ~Free(M, N + 1)

\* cJSON_AddNumberToObject, with memory.
LEMMA NumberBody ==
  ASSUME NEW h, NEW L, NEW G, Body(h, L, G), NEW a \in 1 .. Len(h), NEW t \in Tags, NEW key \in Names,
         t.kind \in Numbers, MayHang(G[a], t),
         t.kind = "count" => key = latency_buckets[t.bucket]
  PROVE  \E M, H : NumberedAs(h, L, G, a, t, key,
                      add_item_to_object(Append(h, Item("number", <<t.key, key>>)), a, key, Len(h) + 1), M, H)
<1> DEFINE N == Len(h)
           value == <<t.key, key>>
           f == Append(h, Item("number", value))
           K == Grown(L, N)
           H == Labelled(G, N, t)
           g == add_item_to_object(f, a, key, N + 1)
           M == Hung(K, a, N + 1)
<1>1. N \in Nat /\ h \in Seq(ItemRecords)
  BY BodyParts DEF Listing
<1>2. value \in {0} \cup (Names \X Names) /\ TypeOf(t.kind) = "number"
  BY DEF Tags, TypeOf, Numbers
<1>3. CreatedAs(h, L, G, t, f, K, H)
  <2> HIDE DEF value
  <2>1. CreatedAs(h, L, G, t, Append(h, Item(TypeOf(t.kind), value)), K, H)
    BY <1>2, CreateBody
  <2> QED BY <1>2, <2>1
<1>4. f[N + 1].value = value
  <2>1. f[N + 1] = Item("number", value)
    BY <1>1
  <2>2. Item("number", value).value = value
    BY DEF Item
  <2> QED BY <2>1, <2>2
<1> HIDE DEF f, K, H
<1>5. /\ Body(f, K, H) /\ Len(f) = N + 1
      /\ \A q \in 1 .. N : H[q] = G[q] /\ K[q] = L[q]
      /\ \A q \in 1 .. N : Shown(f, K[q]) = Shown(h, L[q]) /\ InBuckets(H, K[q]) = InBuckets(G, L[q])
      /\ \A q \in 1 .. N : Free(K, q) <=> Free(L, q)
      /\ H[N + 1] = t /\ Free(K, N + 1)
  BY <1>3 DEF CreatedAs
<1>6. N + 1 \in 1 .. Len(f) /\ a \in 1 .. Len(f) /\ MayHang(H[a], H[N + 1])
  BY <1>1, <1>5
<1>7. \A q \in 1 .. N : q \in 1 .. N + 1 /\ q # N + 1
  BY <1>1
<1>8. t.kind # "stats"
  BY DEF Numbers
<1>9. PlacedAs(f, K, H, a, N + 1, key, g, M)
  <2> DEFINE x == N + 1
  <2>1. /\ x \in 1 .. Len(f) /\ a \in 1 .. Len(f) /\ MayHang(H[a], H[x]) /\ H[x] = t
        /\ f[x].value = <<t.key, key>> /\ Free(K, x) /\ Body(f, K, H)
    BY <1>4, <1>5, <1>6
  <2> HIDE DEF x
  <2>2. /\ (H[x].kind = "stats" => key = H[x].key)
        /\ (H[x].kind \in Numbers => f[x].value = <<H[x].key, key>>)
        /\ (H[x].kind = "count" => key = latency_buckets[H[x].bucket])
    BY <1>8, <2>1
  <2>3. PlacedAs(f, K, H, a, x, key, add_item_to_object(f, a, key, x), Hung(K, a, x))
    BY <2>1, <2>2, NamedHang
  <2> QED BY <2>3 DEF x
<1> HIDE DEF g, M
<1>10. /\ Body(g, M, H) /\ Len(g) = N + 1
       /\ \A q \in 1 .. N + 1 : q # a => /\ M[q] = K[q] /\ Shown(g, M[q]) = Shown(f, K[q])
                                         /\ InBuckets(H, M[q]) = InBuckets(H, K[q])
       /\ M[a] # <<>>
       /\ Shown(g, M[a]) = Append(Shown(f, K[a]), key)
       /\ \A q \in 1 .. N + 1 : Free(M, q) <=> Free(K, q) /\ q # N + 1
  BY <1>5, <1>9 DEF PlacedAs
<1>11. \A q \in 1 .. N : H[q] = G[q] /\ (Free(M, q) <=> Free(L, q))
  BY <1>5, <1>7, <1>10
<1>12. \A q \in 1 .. N : q # a => /\ M[q] = L[q] /\ Shown(g, M[q]) = Shown(h, L[q])
                                  /\ InBuckets(H, M[q]) = InBuckets(G, L[q])
  BY <1>5, <1>7, <1>10
<1>13. Shown(g, M[a]) = Append(Shown(h, L[a]), key)
  BY <1>5, <1>10
<1>14. ~Free(M, N + 1)
  BY <1>1, <1>10
<1>15. NumberedAs(h, L, G, a, t, key, g, M, H)
  BY <1>5, <1>10, <1>11, <1>12, <1>13, <1>14 DEF NumberedAs
<1> QED BY <1>15 DEF g, f

-----------------------------------------------------------------------------
(* The inductive invariant *)

StatsAt == {"counters", "buckets", "bucket", "filled", "add"}
LatAt == {"buckets", "bucket", "filled"}
BucketAt == {"bucket", "filled"}
PCs == {"start", "endpoint", "print", "done"} \cup StatsAt

\* The items that are built and not yet hung.
Stats == IF pc \in StatsAt THEN stats_object ELSE 0
Latency == IF pc \in LatAt THEN latency_object ELSE 0
Bucket == IF pc \in BucketAt THEN bucket_object ELSE 0

TypeInv ==
  /\ table \in Tables
  /\ pc \in PCs /\ e \in 1 .. Len(Keys) + 1 /\ n \in Nat /\ n # 0 /\ failures \in Nat
  /\ pc \in StatsAt => e \in 1 .. Len(Keys)
  /\ pc = "start" => items = <<>> /\ object = 0 /\ e = 1
  /\ pc = "print" => e = Len(Keys) + 1
  /\ pc = "counters" => n <= Len(Counters) + 1
  /\ pc \in BucketAt => n \in Nonzero[Keys[e]]

\* An item waits for its place: it is nobody's, and known by its tag.
Waits(L, G, q, kind, key) ==
  q # 0 => q \in 1 .. Len(items) /\ Free(L, q) /\ G[q].kind = kind /\ G[q].key = key

Roots(L, G) ==
  /\ object # 0 => object \in 1 .. Len(items) /\ Free(L, object) /\ G[object].kind = "root"
  /\ \A q \in 1 .. Len(items) : G[q].kind = "root" => q = object
  /\ Waits(L, G, Stats, "stats", Keys[e])
  /\ Waits(L, G, Latency, "latency", Keys[e])
  /\ Waits(L, G, Bucket, "bucket", Keys[e])
  /\ Bucket # 0 => G[Bucket].bucket = n

\* What an endpoint shows so far.
StatsSoFar ==
  CASE pc = "counters" -> SubSeq(Counters, 1, n - 1)
    [] pc \in LatAt -> Counters
    [] OTHER -> Counters \o <<"latency">>

LatencySoFar == {b \in Nonzero[Keys[e]] : b < n}

\* Without a failure nothing is missing and nothing is lost.
NoneNull ==
  /\ pc # "start" => object # 0
  /\ pc \in StatsAt => stats_object # 0
  /\ pc \in LatAt => latency_object # 0
  /\ pc \in BucketAt => bucket_object # 0

NoneLost(L) == \A q \in 1 .. Len(items) : Free(L, q) => q \in {object, Stats, Latency, Bucket}

RootWhole(L) == pc # "start" => Shown(items, L[object]) = SubSeq(Keys, 1, e - 1)

StatsWhole(L, G) ==
  \A q \in 1 .. Len(items) : G[q].kind = "stats" =>
    Shown(items, L[q]) = IF q = Stats THEN StatsSoFar ELSE Counters \o <<"latency">>

LatencyWhole(L, G) ==
  \A q \in 1 .. Len(items) : G[q].kind = "latency" =>
    InBuckets(G, L[q]) = IF q = Latency THEN LatencySoFar ELSE Nonzero[G[q].key]

BucketWhole(L, G) ==
  \A q \in 1 .. Len(items) : G[q].kind = "bucket" => L[q] # <<>> \/ (q = Bucket /\ pc = "bucket")

Whole(L, G) ==
  /\ NoneNull /\ NoneLost(L) /\ RootWhole(L)
  /\ StatsWhole(L, G) /\ LatencyWhole(L, G) /\ BucketWhole(L, G)

Tree(L, G) ==
  Body(items, L, G) /\ live = 1 .. Len(items) /\ Roots(L, G) /\ (failures = 0 => Whole(L, G))

TreeInv ==
  /\ TypeInv
  /\ pc # "done" => \E L, G : Tree(L, G)
  /\ pc = "done" /\ failures = 0 => live = {}

\* The constants are names.
LEMMA ConstantNames ==
  /\ Len(Counters) \in Nat /\ Counters \in Seq(Names)
  /\ Len(latency_buckets) \in Nat /\ DOMAIN latency_buckets = 1 .. Len(latency_buckets)
  /\ \A k \in 1 .. Len(Counters) : Counters[k] \in Names
  /\ \A k \in 1 .. Len(latency_buckets) : latency_buckets[k] \in Names
  /\ "" \in Names /\ "latency" \in Names
<1>1. Counters \in Seq(STRING) /\ latency_buckets \in Seq(STRING)
  BY JsonAssumption
<1>2. /\ Len(Counters) \in Nat /\ DOMAIN Counters = 1 .. Len(Counters)
      /\ Len(latency_buckets) \in Nat /\ DOMAIN latency_buckets = 1 .. Len(latency_buckets)
  BY <1>1
<1>3. \A k \in 1 .. Len(Counters) : Counters[k] \in Names
  BY <1>2 DEF Names, Range
<1>4. \A k \in 1 .. Len(latency_buckets) : latency_buckets[k] \in Names
  BY <1>2 DEF Names, Range
<1>5. Counters \in Seq(Names)
  <2>1. Counters = [k \in 1 .. Len(Counters) |-> Counters[k]]
    BY <1>1
  <2> QED BY <1>2, <1>3, <2>1, SeqDef
<1>6. "" \in Names /\ "latency" \in Names
  BY DEF Names
<1> QED BY <1>2, <1>3, <1>4, <1>5, <1>6

\* So are the keys of the table, and their buckets exist.
LEMMA KeyNames ==
  ASSUME TypeInv
  PROVE  /\ Len(Keys) \in Nat /\ Keys \in Seq(STRING)
         /\ \A k \in 1 .. Len(Keys) :
              Keys[k] \in Names /\ Nonzero[Keys[k]] \subseteq 1 .. Len(latency_buckets)
<1>1. /\ table.keys \in Seq(STRING)
      /\ \A k \in Range(table.keys) : table.nonzero[k] \subseteq DOMAIN latency_buckets
  BY JsonAssumption DEF TypeInv
<1>2. Len(table.keys) \in Nat /\ DOMAIN table.keys = 1 .. Len(table.keys)
  BY <1>1
<1>3. \A k \in 1 .. Len(table.keys) : table.keys[k] \in Range(table.keys)
  BY <1>2 DEF Range
<1>4. Range(table.keys) \subseteq Names
  BY DEF TypeInv, Names
<1> QED BY <1>1, <1>2, <1>3, <1>4, ConstantNames DEF Keys, Nonzero

\* Every step keeps the types.
LEMMA TypeStep ==
  ASSUME TypeInv, TreeNext
  PROVE  TypeInv'
<1> USE DEF TypeInv, PCs, StatsAt, LatAt, BucketAt, Goto
<1>0. Len(Keys) \in Nat /\ Len(Counters) \in Nat
  BY KeyNames, ConstantNames
<1>1. CASE Build
  <2>0. Keys' = Keys /\ Nonzero' = Nonzero /\ table' = table
    BY <1>1 DEF Build, Keys, Nonzero
  <2>f. failures' \in Nat
    <3>1. failures' = failures \/ failures' = failures + 1
      BY <1>1 DEF Build, CreateRoot, CreateStats, AddCounter, CreateLatency, EmptyBucket, CreateBucket,
           FillBucket, AddBucket, AddLatency, AddStats, Create, NoMemory, cJSON_AddNumberToObject,
           cJSON_AddItemToObject, cJSON_AddItemToArray
    <3> QED BY <3>1
  <2> HIDE DEF Keys, Nonzero
  <2>1. CASE CreateRoot
    BY <1>0, <2>0, <2>f, <2>1 DEF CreateRoot
  <2>2. CASE CreateStats
    BY <1>0, <2>0, <2>f, <2>2 DEF CreateStats
  <2>3. CASE AddCounter
    BY <1>0, <2>0, <2>f, <2>3 DEF AddCounter, Locals
  <2>4. CASE CreateLatency
    BY <1>0, <2>0, <2>f, <2>4 DEF CreateLatency
  <2>5. CASE EmptyBucket
    BY <1>0, <2>0, <2>f, <2>5 DEF EmptyBucket, Locals
  <2>6. CASE CreateBucket
    BY <1>0, <2>0, <2>f, <2>6 DEF CreateBucket
  <2>7. CASE FillBucket
    BY <1>0, <2>0, <2>f, <2>7 DEF FillBucket, Locals
  <2>8. CASE AddBucket
    BY <1>0, <2>0, <2>f, <2>8 DEF AddBucket, Locals
  <2>9. CASE AddLatency
    BY <1>0, <2>0, <2>f, <2>9 DEF AddLatency, Locals
  <2>10. CASE AddStats
    BY <1>0, <2>0, <2>f, <2>10 DEF AddStats, Locals
  <2> QED BY <1>1, <2>1, <2>2, <2>3, <2>4, <2>5, <2>6, <2>7, <2>8, <2>9, <2>10 DEF Build
<1>2. CASE HandOver \/ cJSON_Delete
  <2>0. Keys' = Keys /\ Nonzero' = Nonzero /\ table' = table
    BY <1>2 DEF HandOver, cJSON_Delete, Keys, Nonzero
  <2>1. CASE HandOver
    BY <1>0, <2>0, <2>1 DEF HandOver
  <2>2. CASE cJSON_Delete
    BY <1>0, <2>0, <2>2 DEF cJSON_Delete
  <2> QED BY <1>2, <2>1, <2>2
<1> QED BY <1>1, <1>2 DEF TreeNext

\* A list without items.
LEMMA EmptyShown ==
  ASSUME NEW h, NEW G
  PROVE  Shown(h, <<>>) = <<>> /\ InBuckets(G, <<>>) = {}
BY DEF Shown, InBuckets

\* The first items of a sequence.
LEMMA Prefixes ==
  ASSUME NEW S, NEW s \in Seq(S)
  PROVE  /\ SubSeq(s, 1, 0) = <<>> /\ SubSeq(s, 1, Len(s)) = s
         /\ \A k \in 1 .. Len(s) : Append(SubSeq(s, 1, k - 1), s[k]) = SubSeq(s, 1, k)
<1>0. Len(s) \in Nat
  OBVIOUS
<1>1. SubSeq(s, 1, 0) = <<>>
  BY SMT
<1>2. SubSeq(s, 1, Len(s)) = s
  BY <1>0, SMT
<1>3. \A k \in 1 .. Len(s) : Append(SubSeq(s, 1, k - 1), s[k]) = SubSeq(s, 1, k)
  BY <1>0, SMT
<1> QED BY <1>1, <1>2, <1>3

\* cJSON_CreateObject and cJSON_CreateArray, with memory.
LEMMA CreateMove ==
  ASSUME NEW L, NEW G, Body(items, L, G), NEW t \in Tags,
         items' = Append(items, Item(TypeOf(t.kind), 0))
  PROVE  \E M, H : CreatedAs(items, L, G, t, items', M, H)
<1> DEFINE zero == 0
<1>1. zero \in {0} \cup (Names \X Names) /\ items' = Append(items, Item(TypeOf(t.kind), zero))
  OBVIOUS
<1> HIDE DEF zero
<1>2. CreatedAs(items, L, G, t, items', Grown(L, Len(items)), Labelled(G, Len(items), t))
  BY <1>1, CreateBody
<1> QED BY <1>2

\* Nothing is allocated and nothing hung: only what the code waits for matters.
LEMMA IdleStep ==
  ASSUME NEW L, NEW G, Tree(L, G), UNCHANGED <<items, live>>, Roots(L, G)',
         failures' # 0
  PROVE  Tree(L, G)'
BY DEF Tree

\* The root is created while there are no other items.
LEMMA CreateRootStep ==
  ASSUME TypeInv, NEW L, NEW G, Tree(L, G), CreateRoot, UNCHANGED table
  PROVE  \E M, H : Tree(M, H)'
<1> DEFINE N == Len(items)
           t == Tag("root", "", 0)
<1>1. pc = "start" /\ pc' = "endpoint" /\ e = 1 /\ e' = 1 /\ items = <<>> /\ object = 0 /\ Keys' = Keys
  BY DEF CreateRoot, TypeInv, Goto, Keys
<1>2. Stats' = 0 /\ Latency' = 0 /\ Bucket' = 0
  BY <1>1 DEF Stats, Latency, Bucket, StatsAt, LatAt, BucketAt
<1>3. Body(items, L, G) /\ live = 1 .. N /\ N = 0
  BY <1>1 DEF Tree
<1>4. CASE items' = Append(items, Item("object", 0)) /\ live' = live \cup {New} /\ object' = New /\ UNCHANGED failures
  <2>1. t \in Tags /\ TypeOf(t.kind) = "object" /\ t.kind = "root"
    BY ConstantNames DEF Tags, Tag, Kinds, TypeOf, Numbers
  <2>2. PICK M, H : CreatedAs(items, L, G, t, items', M, H)
    BY <1>3, <1>4, <2>1, CreateMove
  <2> HIDE DEF t
  <2>3. /\ Body(items', M, H) /\ Len(items') = 1
        /\ H[1] = t /\ M[1] = <<>> /\ Free(M, 1)
    BY <1>3, <2>2 DEF CreatedAs
  <2>4. object' = 1 /\ live' = 1 .. Len(items')
    BY <1>3, <1>4, <2>3 DEF New
  <2>5. \A q \in 1 .. Len(items') : q = 1
    BY <2>3
  <2>6. Roots(M, H)'
    BY <1>2, <2>1, <2>3, <2>4, <2>5 DEF Roots, Waits
  <2>7. Shown(items, M[object])' = SubSeq(Keys, 1, e - 1)'
    <3>1. SubSeq(Keys, 1, e - 1)' = <<>>
      <4>1. (e - 1)' = 0 /\ Keys \in Seq(STRING)
        BY <1>1, KeyNames
      <4> QED BY <1>1, <4>1, Prefixes
    <3> QED BY <2>3, <2>4, <3>1, EmptyShown
  <2>8. Whole(M, H)'
    <3>1. NoneNull'
      BY <1>1, <2>4 DEF NoneNull, StatsAt, LatAt, BucketAt
    <3>2. \A q \in 1 .. Len(items') : H[q].kind = "root"
      BY <2>1, <2>3, <2>5
    <3>3. NoneLost(M)' /\ RootWhole(M)'
      BY <2>4, <2>5, <2>7 DEF NoneLost, RootWhole
    <3>4. StatsWhole(M, H)' /\ LatencyWhole(M, H)' /\ BucketWhole(M, H)'
      BY <3>2 DEF StatsWhole, LatencyWhole, BucketWhole
    <3> QED BY <3>1, <3>3, <3>4 DEF Whole
  <2> QED BY <2>3, <2>4, <2>6, <2>8 DEF Tree
<1>5. CASE NoMemory /\ object' = 0
  <2>1. items' = items /\ live' = live /\ failures' = failures + 1 /\ failures' # 0
    BY <1>5 DEF NoMemory, TypeInv
  <2>2. \A q \in 1 .. Len(items') : FALSE
    BY <1>3, <2>1
  <2>3. Roots(L, G)'
    BY <1>2, <1>5, <2>2 DEF Roots, Waits
  <2> QED BY <2>1, <2>3, IdleStep
<1> QED BY <1>4, <1>5 DEF CreateRoot, Create


\* A local variable gets a new item of an endpoint.
LEMMA CreateStep ==
  ASSUME NEW L, NEW G, Tree(L, G), NEW t \in Tags,
         items' = Append(items, Item(TypeOf(t.kind), 0)), live' = live \cup {New},
         UNCHANGED <<table, object, e, failures>>, pc # "start", Bucket = 0,
         t.key = Keys[e], t.bucket = n',
         Stats' = IF t.kind = "stats" THEN New ELSE Stats,
         Latency' = IF t.kind = "latency" THEN New ELSE Latency,
         Bucket' = IF t.kind = "bucket" THEN New ELSE 0,
         t.kind \in {"stats", "latency", "bucket"}, t.kind = "bucket" => pc' = "bucket",
         failures = 0 => /\ NoneNull'
                         /\ StatsSoFar' = IF t.kind = "stats" THEN <<>> ELSE StatsSoFar
                         /\ t.kind # "stats" \/ Stats = 0
                         /\ IF t.kind = "latency" THEN Latency = 0 /\ LatencySoFar' = {}
                            ELSE Latency = 0 \/ LatencySoFar' = LatencySoFar
  PROVE  \E M, H : Tree(M, H)'
<1> DEFINE N == Len(items)
<1>1. Keys' = Keys /\ Nonzero' = Nonzero /\ e' = e /\ object' = object
  BY DEF Keys, Nonzero
<1>2. Body(items, L, G) /\ live = 1 .. N /\ Roots(L, G) /\ N \in Nat
  BY BodyParts DEF Tree
<1>3. PICK M, H : CreatedAs(items, L, G, t, items', M, H)
  BY <1>2, CreateMove
<1>4. /\ Body(items', M, H) /\ Len(items') = N + 1
      /\ \A q \in 1 .. N : H[q] = G[q] /\ M[q] = L[q]
      /\ H[N + 1] = t /\ M[N + 1] = <<>> /\ Free(M, N + 1)
  BY <1>3 DEF CreatedAs
<1>5. \A q \in 1 .. N : /\ Shown(items', M[q]) = Shown(items, L[q])
                        /\ InBuckets(H, M[q]) = InBuckets(G, L[q])
                        /\ Free(M, q) <=> Free(L, q)
  BY <1>3 DEF CreatedAs
<1>6. New = N + 1 /\ live' = 1 .. Len(items')
  BY <1>2, <1>4 DEF New
<1>7. /\ N + 1 \in 1 .. N + 1 /\ N + 1 # 0 /\ N + 1 \notin 1 .. N /\ 0 \notin 1 .. N
      /\ \A q \in 1 .. N : q \in 1 .. N + 1
      /\ \A q \in 1 .. N + 1 : q \in 1 .. N \/ q = N + 1
  BY <1>2
<1>8. /\ object # 0 => object \in 1 .. N /\ Free(L, object) /\ G[object].kind = "root"
      /\ \A q \in 1 .. N : G[q].kind = "root" => q = object
      /\ Stats # 0 => Stats \in 1 .. N /\ Free(L, Stats) /\ G[Stats].kind = "stats" /\ G[Stats].key = Keys[e]
      /\ Latency # 0 => /\ Latency \in 1 .. N /\ Free(L, Latency)
                        /\ G[Latency].kind = "latency" /\ G[Latency].key = Keys[e]
  BY <1>2 DEF Roots, Waits
<1> HIDE DEF N
<1>9. Roots(M, H)'
  <2>1. object' # 0 => object' \in 1 .. Len(items') /\ Free(M, object') /\ H[object'].kind = "root"
    BY <1>1, <1>4, <1>5, <1>7, <1>8
  <2>2. \A q \in 1 .. Len(items') : H[q].kind = "root" => q = object'
    BY <1>1, <1>4, <1>7, <1>8
  <2>3. Waits(M, H, Stats, "stats", Keys[e])'
    BY <1>1, <1>4, <1>5, <1>6, <1>7, <1>8 DEF Waits
  <2>4. Waits(M, H, Latency, "latency", Keys[e])'
    BY <1>1, <1>4, <1>5, <1>6, <1>7, <1>8 DEF Waits
  <2>5. Waits(M, H, Bucket, "bucket", Keys[e])' /\ (Bucket # 0 => H[Bucket].bucket = n)'
    BY <1>1, <1>4, <1>6, <1>7 DEF Waits
  <2> QED BY <2>1, <2>2, <2>3, <2>4, <2>5 DEF Roots
<1>10. ASSUME failures' = 0 PROVE Whole(M, H)'
  <2>0. /\ Whole(L, G) /\ NoneNull'
        /\ StatsSoFar' = IF t.kind = "stats" THEN <<>> ELSE StatsSoFar
        /\ t.kind # "stats" \/ Stats = 0
        /\ IF t.kind = "latency" THEN Latency = 0 /\ LatencySoFar' = {}
           ELSE Latency = 0 \/ LatencySoFar' = LatencySoFar
    BY <1>10 DEF Tree
  <2>1. NoneLost(M)'
    <3>1. \A q \in 1 .. N : Free(L, q) => q = object \/ q = Stats \/ q = Latency
      BY <1>7, <2>0 DEF Whole, NoneLost, N
    <3>2. \A q \in 1 .. N : Free(L, q) => q = object \/ q = Stats' \/ q = Latency'
      BY <1>7, <2>0, <3>1
    <3>3. N + 1 = Stats' \/ N + 1 = Latency' \/ N + 1 = Bucket'
      BY <1>6
    <3> QED BY <1>1, <1>4, <1>5, <1>7, <3>2, <3>3 DEF NoneLost
  <2>2. RootWhole(M)'
    <3>1. object \in 1 .. N /\ Shown(items, L[object]) = SubSeq(Keys, 1, e - 1)
      BY <1>8, <2>0 DEF Whole, NoneNull, RootWhole
    <3> QED BY <1>1, <1>5, <3>1 DEF RootWhole
  <2>3. StatsWhole(M, H)'
    <3>1. ASSUME NEW q \in 1 .. N, H[q].kind = "stats"
          PROVE  Shown(items', M[q]) = IF q = Stats' THEN StatsSoFar' ELSE Counters \o <<"latency">>
      <4>1. Shown(items, L[q]) = IF q = Stats THEN StatsSoFar ELSE Counters \o <<"latency">>
        BY <1>4, <2>0, <3>1 DEF Whole, StatsWhole, N
      <4> QED BY <1>5, <1>6, <1>7, <2>0, <4>1
    <3>2. t.kind = "stats" => Shown(items', M[N + 1]) = StatsSoFar' /\ N + 1 = Stats'
      BY <1>4, <1>6, <2>0, EmptyShown
    <3> QED BY <1>4, <1>7, <3>1, <3>2 DEF StatsWhole
  <2>4. LatencyWhole(M, H)'
    <3>1. ASSUME NEW q \in 1 .. N, H[q].kind = "latency"
          PROVE  InBuckets(H, M[q]) = IF q = Latency' THEN LatencySoFar' ELSE Nonzero'[H[q].key]
      <4>1. InBuckets(G, L[q]) = IF q = Latency THEN LatencySoFar ELSE Nonzero[G[q].key]
        BY <1>4, <2>0, <3>1 DEF Whole, LatencyWhole, N
      <4> QED BY <1>1, <1>4, <1>5, <1>6, <1>7, <2>0, <4>1
    <3>2. t.kind = "latency" => InBuckets(H, M[N + 1]) = LatencySoFar' /\ N + 1 = Latency'
      BY <1>4, <1>6, <2>0, EmptyShown
    <3> QED BY <1>4, <1>7, <3>1, <3>2 DEF LatencyWhole
  <2>5. BucketWhole(M, H)'
    <3>1. \A q \in 1 .. N : G[q].kind = "bucket" => L[q] # <<>>
      BY <1>7, <2>0 DEF Whole, BucketWhole, N
    <3>2. t.kind = "bucket" => N + 1 = Bucket' /\ pc' = "bucket"
      BY <1>6
    <3> QED BY <1>4, <1>7, <3>1, <3>2 DEF BucketWhole
  <2> QED BY <2>0, <2>1, <2>2, <2>3, <2>4, <2>5 DEF Whole
<1> QED BY <1>4, <1>6, <1>9, <1>10 DEF Tree

\* Without memory nothing is built; what waits stays as it is.
LEMMA RootsStay ==
  ASSUME NEW L, NEW G, Roots(L, G), UNCHANGED <<table, items, object>>,
         Stats' = 0 \/ (Stats' = Stats /\ e' = e),
         Latency' = 0 \/ (Latency' = Latency /\ e' = e),
         Bucket' = 0 \/ (Bucket' = Bucket /\ e' = e /\ n' = n)
  PROVE  Roots(L, G)'
<1>1. Keys' = Keys
  BY DEF Keys
<1>2. /\ (object # 0 => object \in 1 .. Len(items) /\ Free(L, object) /\ G[object].kind = "root")'
      /\ (\A q \in 1 .. Len(items) : G[q].kind = "root" => q = object)'
  BY DEF Roots
<1>3. Waits(L, G, Stats, "stats", Keys[e])'
  BY <1>1 DEF Roots, Waits
<1>4. Waits(L, G, Latency, "latency", Keys[e])'
  BY <1>1 DEF Roots, Waits
<1>5. Waits(L, G, Bucket, "bucket", Keys[e])' /\ (Bucket # 0 => G[Bucket].bucket = n)'
  BY <1>1 DEF Roots, Waits
<1> QED BY <1>2, <1>3, <1>4, <1>5 DEF Roots

\* An allocation fails: nothing is shown of what it was for.
LEMMA NoMemoryStep ==
  ASSUME TypeInv, NEW L, NEW G, Tree(L, G), NoMemory, UNCHANGED <<table, object>>,
         Stats' = 0 \/ (Stats' = Stats /\ e' = e),
         Latency' = 0 \/ (Latency' = Latency /\ e' = e),
         Bucket' = 0 \/ (Bucket' = Bucket /\ e' = e /\ n' = n)
  PROVE  Tree(L, G)'
<1>1. items' = items /\ live' = live /\ failures' # 0
  BY DEF NoMemory, TypeInv
<1>2. Roots(L, G)'
  BY <1>1, RootsStay DEF Tree
<1> QED BY <1>1, <1>2, IdleStep

\* The object of an endpoint.
LEMMA CreateStatsStep ==
  ASSUME TypeInv, NEW L, NEW G, Tree(L, G), CreateStats, UNCHANGED table
  PROVE  \E M, H : Tree(M, H)'
<1> DEFINE t == Tag("stats", Keys[e], 1)
<1>1. /\ pc = "endpoint" /\ pc' = "counters" /\ e' = e /\ n' = 1 /\ object' = object
      /\ e \in 1 .. Len(Keys)
  BY KeyNames DEF CreateStats, TypeInv, Goto
<1>2. /\ Stats = 0 /\ Latency = 0 /\ Bucket = 0
      /\ Stats' = stats_object' /\ Latency' = 0 /\ Bucket' = 0
  BY <1>1 DEF Stats, Latency, Bucket, StatsAt, LatAt, BucketAt
<1>3. CASE /\ items' = Append(items, Item("object", 0)) /\ live' = live \cup {New}
           /\ stats_object' = New /\ UNCHANGED failures
  <2>1. t \in Tags /\ TypeOf(t.kind) = "object" /\ t.kind = "stats" /\ t.key = Keys[e] /\ t.bucket = 1
    BY <1>1, KeyNames DEF Tags, Tag, Kinds, TypeOf, Numbers
  <2> HIDE DEF t
  <2>2. ASSUME failures = 0 PROVE NoneNull' /\ StatsSoFar' = <<>>
    <3>1. New # 0
      BY BodyParts DEF New, Tree
    <3>2. NoneNull'
      BY <1>1, <1>3, <2>2, <3>1 DEF Tree, Whole, NoneNull, StatsAt, LatAt, BucketAt
    <3>3. StatsSoFar' = SubSeq(Counters, 1, 0)
      <4>1. StatsSoFar' = SubSeq(Counters, 1, (n - 1)') /\ (n - 1)' = 0
        BY <1>1 DEF StatsSoFar, LatAt
      <4> QED BY <4>1
    <3> QED BY <3>2, <3>3, ConstantNames, Prefixes
  <2> QED BY <1>1, <1>2, <1>3, <2>1, <2>2, CreateStep
<1>4. CASE NoMemory /\ stats_object' = 0
  <2>1. Tree(L, G)'
    BY <1>1, <1>2, <1>4, NoMemoryStep
  <2> QED BY <2>1
<1> QED BY <1>3, <1>4 DEF CreateStats, Create

\* The array of an endpoint, once its counters are there.
LEMMA CreateLatencyStep ==
  ASSUME TypeInv, NEW L, NEW G, Tree(L, G), CreateLatency, UNCHANGED table
  PROVE  \E M, H : Tree(M, H)'
<1> DEFINE t == Tag("latency", Keys[e], 1)
<1>1. /\ pc = "counters" /\ pc' = "buckets" /\ e' = e /\ n' = 1 /\ object' = object
      /\ stats_object' = stats_object /\ e \in 1 .. Len(Keys) /\ n = Len(Counters) + 1
  <2>1. /\ pc = "counters" /\ pc' = "buckets" /\ e' = e /\ n' = 1 /\ object' = object
        /\ stats_object' = stats_object /\ n > Len(Counters)
    BY DEF CreateLatency, Goto
  <2>2. n \in Nat /\ n <= Len(Counters) + 1 /\ e \in 1 .. Len(Keys)
    BY <2>1 DEF TypeInv, StatsAt
  <2>3. Len(Counters) \in Nat
    BY ConstantNames
  <2>4. n = Len(Counters) + 1
    BY <2>1, <2>2, <2>3
  <2> QED BY <2>1, <2>2, <2>4
<1>2. /\ Latency = 0 /\ Bucket = 0
      /\ Stats' = Stats /\ Latency' = latency_object' /\ Bucket' = 0
  BY <1>1 DEF Stats, Latency, Bucket, StatsAt, LatAt, BucketAt
<1>3. CASE /\ items' = Append(items, Item("array", 0)) /\ live' = live \cup {New}
           /\ latency_object' = New /\ UNCHANGED failures
  <2>1. t \in Tags /\ TypeOf(t.kind) = "array" /\ t.kind = "latency" /\ t.key = Keys[e] /\ t.bucket = 1
    BY <1>1, KeyNames DEF Tags, Tag, Kinds, TypeOf, Numbers
  <2> HIDE DEF t
  <2>2. ASSUME failures = 0 PROVE NoneNull' /\ StatsSoFar' = StatsSoFar /\ LatencySoFar' = {}
    <3>1. New # 0
      BY BodyParts DEF New, Tree
    <3>2. NoneNull'
      BY <1>1, <1>3, <2>2, <3>1 DEF Tree, Whole, NoneNull, StatsAt, LatAt, BucketAt
    <3>3. StatsSoFar' = Counters
      BY <1>1 DEF StatsSoFar, LatAt
    <3>4. n - 1 = Len(Counters)
      <4>1. Len(Counters) \in Nat
        BY ConstantNames
      <4> QED BY <1>1, <4>1
    <3>5. StatsSoFar = SubSeq(Counters, 1, Len(Counters))
      <4>1. StatsSoFar = SubSeq(Counters, 1, n - 1)
        BY <1>1 DEF StatsSoFar, LatAt
      <4> QED BY <3>4, <4>1
    <3>6. Nonzero[Keys[e]] \subseteq 1 .. Len(latency_buckets)
      BY <1>1, KeyNames
    <3>7. Nonzero' = Nonzero /\ Keys' = Keys
      BY DEF Nonzero, Keys
    <3>8. LatencySoFar' = {}
      <4>1. \A b \in Nonzero[Keys[e]] : ~(b < 1)
        <5> DEFINE S == Nonzero[Keys[e]]
                   m == Len(latency_buckets)
        <5>1. S \subseteq 1 .. m /\ m \in Nat
          BY <3>6, ConstantNames
        <5> HIDE DEF S, m
        <5>2. \A b \in S : ~(b < 1)
          BY <5>1
        <5> QED BY <5>2 DEF S
      <4> QED BY <1>1, <3>7, <4>1 DEF LatencySoFar
    <3> QED BY <3>2, <3>3, <3>5, <3>8, ConstantNames, Prefixes
  <2> QED BY <1>1, <1>2, <1>3, <2>1, <2>2, CreateStep
<1>4. CASE NoMemory /\ latency_object' = 0
  <2>1. Tree(L, G)'
    BY <1>1, <1>2, <1>4, NoMemoryStep
  <2> QED BY <2>1
<1> QED BY <1>3, <1>4 DEF CreateLatency, Create

\* The object of a bucket.
LEMMA CreateBucketStep ==
  ASSUME TypeInv, NEW L, NEW G, Tree(L, G), CreateBucket, UNCHANGED table
  PROVE  \E M, H : Tree(M, H)'
<1> DEFINE t == Tag("bucket", Keys[e], n)
<1>1. /\ pc = "buckets" /\ pc' = "bucket" /\ e' = e /\ n' = n /\ object' = object
      /\ stats_object' = stats_object /\ latency_object' = latency_object
      /\ e \in 1 .. Len(Keys) /\ n \in Nat
  BY DEF CreateBucket, TypeInv, Goto, StatsAt
<1>2. /\ Bucket = 0 /\ Stats' = Stats /\ Latency' = Latency /\ Bucket' = bucket_object'
  BY <1>1 DEF Stats, Latency, Bucket, StatsAt, LatAt, BucketAt
<1>3. CASE /\ items' = Append(items, Item("object", 0)) /\ live' = live \cup {New}
           /\ bucket_object' = New /\ UNCHANGED failures
  <2>1. t \in Tags /\ TypeOf(t.kind) = "object" /\ t.kind = "bucket" /\ t.key = Keys[e] /\ t.bucket = n
    BY <1>1, KeyNames DEF Tags, Tag, Kinds, TypeOf, Numbers
  <2> HIDE DEF t
  <2>2. ASSUME failures = 0 PROVE NoneNull' /\ StatsSoFar' = StatsSoFar /\ LatencySoFar' = LatencySoFar
    <3>1. New # 0
      BY BodyParts DEF New, Tree
    <3>2. NoneNull'
      BY <1>1, <1>3, <2>2, <3>1 DEF Tree, Whole, NoneNull, StatsAt, LatAt, BucketAt
    <3>3. StatsSoFar' = StatsSoFar
      BY <1>1 DEF StatsSoFar, LatAt
    <3>4. LatencySoFar' = LatencySoFar
      BY <1>1 DEF LatencySoFar, Nonzero, Keys
    <3> QED BY <3>2, <3>3, <3>4
  <2> QED BY <1>1, <1>2, <1>3, <2>1, <2>2, CreateStep
<1>4. CASE NoMemory /\ bucket_object' = 0
  <2>1. Tree(L, G)'
    BY <1>1, <1>2, <1>4, NoMemoryStep
  <2> QED BY <2>1
<1> QED BY <1>3, <1>4 DEF CreateBucket, Create

\* The code moves on and the tree stays.
LEMMA StayStep ==
  ASSUME NEW L, NEW G, Tree(L, G), UNCHANGED <<table, items, live, object, e, failures>>,
         Stats' = Stats, Latency' = Latency, Bucket = 0, Bucket' = 0, pc # "start",
         failures = 0 => /\ NoneNull'
                         /\ Stats = 0 \/ StatsSoFar' = StatsSoFar
                         /\ Latency = 0 \/ LatencySoFar' = LatencySoFar
  PROVE  Tree(L, G)'
<1>1. Roots(L, G)'
  BY RootsStay DEF Tree
<1>2. Keys' = Keys /\ Nonzero' = Nonzero
  BY DEF Keys, Nonzero
<1>3. ASSUME failures' = 0 PROVE Whole(L, G)'
  <2>0. /\ Whole(L, G) /\ NoneNull'
        /\ Stats = 0 \/ StatsSoFar' = StatsSoFar
        /\ Latency = 0 \/ LatencySoFar' = LatencySoFar
    BY <1>3 DEF Tree
  <2>1. \A q \in 1 .. Len(items) : q # 0
    <3>1. Len(items) \in Nat
      BY BodyParts DEF Tree
    <3> QED BY <3>1
  <2>2. NoneLost(L)' /\ RootWhole(L)'
    BY <1>2, <2>0 DEF Whole, NoneLost, RootWhole
  <2>3. StatsWhole(L, G)'
    BY <2>0, <2>1 DEF Whole, StatsWhole
  <2>4. LatencyWhole(L, G)'
    BY <1>2, <2>0, <2>1 DEF Whole, LatencyWhole
  <2>5. BucketWhole(L, G)'
    BY <2>0, <2>1 DEF Whole, BucketWhole
  <2> QED BY <2>0, <2>2, <2>3, <2>4, <2>5 DEF Whole
<1> QED BY <1>1, <1>3 DEF Tree

\* A bucket that counted nothing is not shown.
LEMMA EmptyBucketStep ==
  ASSUME TypeInv, NEW L, NEW G, Tree(L, G), EmptyBucket, UNCHANGED table
  PROVE  Tree(L, G)'
<1>1. /\ pc = "buckets" /\ pc' = pc /\ e' = e /\ n' = n + 1 /\ n \in Nat
      /\ n \notin Nonzero[Keys[e]] /\ e \in 1 .. Len(Keys)
  BY DEF EmptyBucket, TypeInv, StatsAt
<1>2. UNCHANGED <<items, live, object, stats_object, latency_object, bucket_object, failures>>
  BY DEF EmptyBucket, Locals
<1>3. Stats' = Stats /\ Latency' = Latency /\ Bucket = 0 /\ Bucket' = 0
  BY <1>1, <1>2 DEF Stats, Latency, Bucket, BucketAt
<1>4. ASSUME failures = 0 PROVE NoneNull'
  BY <1>1, <1>2, <1>4 DEF Tree, Whole, NoneNull
<1>5. StatsSoFar' = StatsSoFar
  BY <1>1 DEF StatsSoFar, LatAt
<1>6. LatencySoFar' = LatencySoFar
  <2> DEFINE S == Nonzero[Keys[e]]
  <2>1. Nonzero'[Keys'[e']] = S
    BY <1>1 DEF Nonzero, Keys
  <2>2. S \subseteq 1 .. Len(latency_buckets) /\ Len(latency_buckets) \in Nat /\ n \notin S
    BY <1>1, KeyNames, ConstantNames
  <2>3. LatencySoFar = {b \in S : b < n} /\ LatencySoFar' = {b \in S : b < n + 1}
    BY <1>1, <2>1 DEF LatencySoFar
  <2> HIDE DEF S
  <2>4. \A b \in S : b < n <=> b < n + 1
    BY <1>1, <2>2
  <2> QED BY <2>3, <2>4
<1> QED BY <1>1, <1>2, <1>3, <1>4, <1>5, <1>6, StayStep

\* The tree goes to cJSON_Print as it is.
LEMMA HandOverStep ==
  ASSUME TypeInv, NEW L, NEW G, Tree(L, G), HandOver
  PROVE  Tree(L, G)'
<1>1. /\ pc = "endpoint" /\ pc' = "print"
      /\ UNCHANGED <<table, items, live, object, e, failures>>
  BY DEF HandOver, Goto, Locals
<1>2. Stats = 0 /\ Stats' = 0 /\ Latency = 0 /\ Latency' = 0 /\ Bucket = 0 /\ Bucket' = 0
  BY <1>1 DEF Stats, Latency, Bucket, StatsAt, LatAt, BucketAt
<1>3. ASSUME failures = 0 PROVE NoneNull'
  BY <1>1, <1>3 DEF Tree, Whole, NoneNull, StatsAt, LatAt, BucketAt
<1> QED BY <1>1, <1>2, <1>3, StayStep

-----------------------------------------------------------------------------
(* cJSON_AddNumberToObject *)

\* A number is added to the endpoint or the bucket that is built.
LEMMA NumberStep ==
  ASSUME NEW L, NEW G, Tree(L, G), NEW a \in 1 .. Len(items), NEW t \in Tags, NEW key \in Names,
         t.kind \in Numbers, MayHang(G[a], t), t.kind = "count" => key = latency_buckets[t.bucket],
         items' = add_item_to_object(Append(items, Item("number", <<t.key, key>>)), a, key, New),
         live' = live \cup {New},
         UNCHANGED <<table, object, e, failures>>, pc # "start",
         a = Stats \/ a = Bucket, Stats # Bucket,
         Stats' = Stats, Latency' = Latency, Bucket' = Bucket, Bucket = 0 \/ n' = n,
         Latency # a,
         failures = 0 => /\ NoneNull'
                         /\ StatsSoFar' = IF a = Stats THEN Append(StatsSoFar, key) ELSE StatsSoFar
                         /\ Latency = 0 \/ LatencySoFar' = LatencySoFar
                         /\ Bucket = 0 \/ a = Bucket
  PROVE  \E M, H : Tree(M, H)'
<1> DEFINE N == Len(items)
<1>1. Keys' = Keys /\ Nonzero' = Nonzero /\ e' = e /\ object' = object
  BY DEF Keys, Nonzero
<1>2. Body(items, L, G) /\ live = 1 .. N /\ Roots(L, G) /\ N \in Nat
  BY BodyParts DEF Tree
<1>3. PICK M, H : NumberedAs(items, L, G, a, t, key, items', M, H)
  BY <1>2, NumberBody DEF New
<1>4. /\ Body(items', M, H) /\ Len(items') = N + 1
      /\ \A q \in 1 .. N : H[q] = G[q] /\ (Free(M, q) <=> Free(L, q))
      /\ H[N + 1] = t /\ ~Free(M, N + 1)
  BY <1>3 DEF NumberedAs
<1>5. /\ \A q \in 1 .. N : q # a => /\ M[q] = L[q] /\ Shown(items', M[q]) = Shown(items, L[q])
                                    /\ InBuckets(H, M[q]) = InBuckets(G, L[q])
      /\ M[a] # <<>> /\ Shown(items', M[a]) = Append(Shown(items, L[a]), key)
  BY <1>3 DEF NumberedAs
<1>6. New = N + 1 /\ live' = 1 .. Len(items')
  BY <1>2, <1>4 DEF New
<1>7. /\ N + 1 \in 1 .. N + 1 /\ N + 1 # 0 /\ N + 1 \notin 1 .. N /\ 0 \notin 1 .. N
      /\ \A q \in 1 .. N : q \in 1 .. N + 1
      /\ \A q \in 1 .. N + 1 : q \in 1 .. N \/ q = N + 1
  BY <1>2
<1>8. /\ object # 0 => object \in 1 .. N /\ Free(L, object) /\ G[object].kind = "root"
      /\ \A q \in 1 .. N : G[q].kind = "root" => q = object
      /\ Stats # 0 => Stats \in 1 .. N /\ Free(L, Stats) /\ G[Stats].kind = "stats" /\ G[Stats].key = Keys[e]
  BY <1>2 DEF Roots, Waits
<1>9. /\ Latency # 0 => /\ Latency \in 1 .. N /\ Free(L, Latency)
                        /\ G[Latency].kind = "latency" /\ G[Latency].key = Keys[e]
      /\ Bucket # 0 => /\ Bucket \in 1 .. N /\ Free(L, Bucket) /\ G[Bucket].bucket = n
                       /\ G[Bucket].kind = "bucket" /\ G[Bucket].key = Keys[e]
  BY <1>2 DEF Roots, Waits
<1>10. a # object
  BY <1>7, <1>8, <1>9
<1>11. t.kind \notin {"root", "stats", "latency", "bucket"}
  BY DEF Numbers
<1> HIDE DEF N
<1>12. Roots(M, H)'
  <2>1. object' # 0 => object' \in 1 .. Len(items') /\ Free(M, object') /\ H[object'].kind = "root"
    BY <1>1, <1>4, <1>7, <1>8
  <2>2. \A q \in 1 .. Len(items') : H[q].kind = "root" => q = object'
    BY <1>1, <1>4, <1>7, <1>8, <1>11
  <2>3. Waits(M, H, Stats, "stats", Keys[e])'
    BY <1>1, <1>4, <1>7, <1>8 DEF Waits
  <2>4. Waits(M, H, Latency, "latency", Keys[e])'
    BY <1>1, <1>4, <1>7, <1>9 DEF Waits
  <2>5. Waits(M, H, Bucket, "bucket", Keys[e])' /\ (Bucket # 0 => H[Bucket].bucket = n)'
    BY <1>1, <1>4, <1>7, <1>9 DEF Waits
  <2> QED BY <2>1, <2>2, <2>3, <2>4, <2>5 DEF Roots
<1>13. ASSUME failures' = 0 PROVE Whole(M, H)'
  <2>0. /\ Whole(L, G) /\ NoneNull'
        /\ StatsSoFar' = IF a = Stats THEN Append(StatsSoFar, key) ELSE StatsSoFar
        /\ Latency = 0 \/ LatencySoFar' = LatencySoFar
        /\ Bucket = 0 \/ a = Bucket
    BY <1>13 DEF Tree
  <2>1. NoneLost(M)'
    <3>1. \A q \in 1 .. N : Free(L, q) => q \in {object, Stats, Latency, Bucket}
      BY <2>0 DEF Whole, NoneLost, N
    <3> QED BY <1>1, <1>4, <1>7, <3>1 DEF NoneLost
  <2>2. RootWhole(M)'
    <3>1. object \in 1 .. N /\ Shown(items, L[object]) = SubSeq(Keys, 1, e - 1)
      BY <1>8, <2>0 DEF Whole, NoneNull, RootWhole
    <3> QED BY <1>1, <1>5, <1>10, <3>1 DEF RootWhole
  <2>3. StatsWhole(M, H)'
    <3>1. ASSUME NEW q \in 1 .. N, H[q].kind = "stats"
          PROVE  Shown(items', M[q]) = IF q = Stats' THEN StatsSoFar' ELSE Counters \o <<"latency">>
      <4>1. Shown(items, L[q]) = IF q = Stats THEN StatsSoFar ELSE Counters \o <<"latency">>
        BY <1>4, <2>0, <3>1 DEF Whole, StatsWhole, N
      <4>2. q = a => q = Stats
        BY <1>4, <1>7, <1>9, <3>1
      <4> QED BY <1>5, <1>7, <2>0, <4>1, <4>2
    <3> QED BY <1>4, <1>7, <1>11, <3>1 DEF StatsWhole
  <2>4. LatencyWhole(M, H)'
    <3>1. ASSUME NEW q \in 1 .. N, H[q].kind = "latency"
          PROVE  InBuckets(H, M[q]) = IF q = Latency' THEN LatencySoFar' ELSE Nonzero'[H[q].key]
      <4>1. InBuckets(G, L[q]) = IF q = Latency THEN LatencySoFar ELSE Nonzero[G[q].key]
        BY <1>4, <2>0, <3>1 DEF Whole, LatencyWhole, N
      <4>2. q # a
        BY <1>4, <1>7, <1>8, <1>9, <3>1
      <4> QED BY <1>1, <1>4, <1>5, <1>7, <2>0, <4>1, <4>2
    <3> QED BY <1>4, <1>7, <1>11, <3>1 DEF LatencyWhole
  <2>5. BucketWhole(M, H)'
    <3>1. \A q \in 1 .. N : G[q].kind = "bucket" => L[q] # <<>> \/ q = a
      BY <1>7, <2>0 DEF Whole, BucketWhole, N
    <3> QED BY <1>4, <1>5, <1>7, <1>11, <3>1 DEF BucketWhole
  <2> QED BY <2>0, <2>1, <2>2, <2>3, <2>4, <2>5 DEF Whole
<1> QED BY <1>4, <1>6, <1>12, <1>13 DEF Tree

\* A call with NULL: an allocation has failed before.
LEMMA NullStep ==
  ASSUME NEW L, NEW G, Tree(L, G), UNCHANGED <<table, items, live, object, failures>>,
         ~NoneNull,
         Stats' = 0 \/ (Stats' = Stats /\ e' = e),
         Latency' = 0 \/ (Latency' = Latency /\ e' = e),
         Bucket' = 0 \/ (Bucket' = Bucket /\ e' = e /\ n' = n)
  PROVE  Tree(L, G)'
<1>1. failures # 0
  BY DEF Tree, Whole
<1>2. Roots(L, G)'
  BY RootsStay DEF Tree
<1> QED BY <1>1, <1>2, IdleStep

\* The next counter of an endpoint.
LEMMA AddCounterStep ==
  ASSUME TypeInv, NEW L, NEW G, Tree(L, G), AddCounter, UNCHANGED table
  PROVE  \E M, H : Tree(M, H)'
<1> DEFINE t == Tag("counter", Keys[e], 1)
           key == Counters[n]
<1>1. /\ pc = "counters" /\ pc' = "counters" /\ e' = e /\ n' = n + 1
      /\ UNCHANGED <<object, stats_object, latency_object, bucket_object>>
      /\ e \in 1 .. Len(Keys) /\ n \in 1 .. Len(Counters)
  <2>1. n <= Len(Counters) /\ n \in Nat /\ n # 0 /\ pc = "counters"
    BY DEF AddCounter, TypeInv
  <2>2. Len(Counters) \in Nat
    BY ConstantNames
  <2>3. n \in 1 .. Len(Counters)
    BY <2>1, <2>2
  <2>4. e \in 1 .. Len(Keys)
    BY <2>1 DEF TypeInv, StatsAt
  <2> QED BY <2>1, <2>3, <2>4 DEF AddCounter, Locals
<1>2. /\ Stats = stats_object /\ Latency = 0 /\ Bucket = 0
      /\ Stats' = stats_object /\ Latency' = 0 /\ Bucket' = 0
  BY <1>1 DEF Stats, Latency, Bucket, StatsAt, LatAt, BucketAt
<1>3. CASE /\ stats_object # 0 /\ live' = live \cup {New} /\ UNCHANGED failures
           /\ items' = add_item_to_object(Append(items, Item("number", <<Keys[e], key>>)), stats_object, key, New)
  <2>1. /\ t \in Tags /\ t.kind = "counter" /\ t.key = Keys[e] /\ t.bucket = 1
        /\ key \in Names
    BY <1>1, KeyNames, ConstantNames DEF Tags, Tag, Kinds
  <2>2. /\ stats_object \in 1 .. Len(items)
        /\ G[stats_object].kind = "stats" /\ G[stats_object].key = Keys[e]
    BY <1>2, <1>3 DEF Tree, Roots, Waits
  <2> HIDE DEF t
  <2>3. MayHang(G[stats_object], t) /\ t.kind \in Numbers /\ t.kind # "count"
    BY <2>1, <2>2 DEF MayHang, Numbers
  <2>4. ASSUME failures = 0 PROVE NoneNull' /\ StatsSoFar' = Append(StatsSoFar, key)
    <3>1. NoneNull'
      BY <1>1, <2>4 DEF Tree, Whole, NoneNull
    <3>2. StatsSoFar = SubSeq(Counters, 1, n - 1) /\ StatsSoFar' = SubSeq(Counters, 1, n' - 1)
      BY <1>1 DEF StatsSoFar, LatAt
    <3>3. n' - 1 = n
      <4>1. Len(Counters) \in Nat
        BY ConstantNames
      <4> QED BY <1>1, <4>1
    <3>4. Append(SubSeq(Counters, 1, n - 1), Counters[n]) = SubSeq(Counters, 1, n)
      BY <1>1, ConstantNames, Prefixes
    <3> QED BY <3>1, <3>2, <3>3, <3>4
  <2> HIDE DEF key
  <2> QED BY <1>1, <1>2, <1>3, <2>1, <2>2, <2>3, <2>4, NumberStep
<1>4. CASE stats_object = 0 /\ UNCHANGED <<items, live, failures>>
  <2>1. ~NoneNull
    BY <1>1, <1>4 DEF NoneNull, StatsAt
  <2>2. Tree(L, G)'
    BY <1>1, <1>2, <1>4, <2>1, NullStep
  <2> QED BY <2>2
<1>5. CASE NoMemory
  <2>1. Tree(L, G)'
    BY <1>1, <1>2, <1>5, NoMemoryStep
  <2> QED BY <2>1
<1> QED BY <1>3, <1>4, <1>5 DEF AddCounter, cJSON_AddNumberToObject

\* The number of a bucket.
LEMMA FillBucketStep ==
  ASSUME TypeInv, NEW L, NEW G, Tree(L, G), FillBucket, UNCHANGED table
  PROVE  \E M, H : Tree(M, H)'
<1> DEFINE t == Tag("count", Keys[e], n)
           key == latency_buckets[n]
<1>1. /\ pc = "bucket" /\ pc' = "filled" /\ e' = e /\ n' = n /\ n \in Nat
      /\ UNCHANGED <<object, stats_object, latency_object, bucket_object>>
      /\ e \in 1 .. Len(Keys) /\ n \in Nonzero[Keys[e]]
  BY DEF FillBucket, Locals, TypeInv, StatsAt, BucketAt, Goto
<1>2. /\ Bucket = bucket_object /\ Stats' = Stats /\ Latency' = Latency /\ Bucket' = Bucket
  BY <1>1 DEF Stats, Latency, Bucket, StatsAt, LatAt, BucketAt
<1>3. CASE /\ bucket_object # 0 /\ live' = live \cup {New} /\ UNCHANGED failures
           /\ items' = add_item_to_object(Append(items, Item("number", <<Keys[e], key>>)), bucket_object, key, New)
  <2>1. /\ t \in Tags /\ t.kind = "count" /\ t.key = Keys[e] /\ t.bucket = n
        /\ key \in Names
    <3>1. n \in 1 .. Len(latency_buckets) /\ Keys[e] \in Names
      BY <1>1, KeyNames
    <3> QED BY <1>1, <3>1, ConstantNames DEF Tags, Tag, Kinds
  <2>2. /\ bucket_object \in 1 .. Len(items) /\ G[bucket_object].bucket = n
        /\ G[bucket_object].kind = "bucket" /\ G[bucket_object].key = Keys[e]
    BY <1>2, <1>3 DEF Tree, Roots, Waits
  <2>3. Stats # Bucket /\ Latency # Bucket
    BY <1>2, <1>3, <2>2 DEF Tree, Roots, Waits
  <2> HIDE DEF t
  <2>4. MayHang(G[bucket_object], t) /\ t.kind \in Numbers /\ (t.kind = "count" => key = latency_buckets[t.bucket])
    BY <2>1, <2>2 DEF MayHang, Numbers
  <2>5. ASSUME failures = 0 PROVE NoneNull' /\ StatsSoFar' = StatsSoFar /\ LatencySoFar' = LatencySoFar
    <3>1. NoneNull'
      BY <1>1, <2>5 DEF Tree, Whole, NoneNull, StatsAt, LatAt, BucketAt
    <3>2. StatsSoFar' = StatsSoFar
      BY <1>1 DEF StatsSoFar, LatAt
    <3>3. LatencySoFar' = LatencySoFar
      BY <1>1 DEF LatencySoFar, Nonzero, Keys
    <3> QED BY <3>1, <3>2, <3>3
  <2> HIDE DEF key
  <2> QED BY <1>1, <1>2, <1>3, <2>1, <2>2, <2>3, <2>4, <2>5, NumberStep
<1>4. CASE bucket_object = 0 /\ UNCHANGED <<items, live, failures>>
  <2>1. ~NoneNull
    BY <1>1, <1>4 DEF NoneNull, BucketAt
  <2>2. Tree(L, G)'
    BY <1>1, <1>2, <1>4, <2>1, NullStep
  <2> QED BY <2>2
<1>5. CASE NoMemory
  <2>1. Tree(L, G)'
    BY <1>1, <1>2, <1>5, NoMemoryStep
  <2> QED BY <2>1
<1> QED BY <1>3, <1>4, <1>5 DEF FillBucket, cJSON_AddNumberToObject

-----------------------------------------------------------------------------
(* cJSON_AddItemToObject and cJSON_AddItemToArray *)

\* What was built gets its place.
LEMMA HangStep ==
  ASSUME NEW L, NEW G, Tree(L, G), NEW a \in 1 .. Len(items), NEW x \in 1 .. Len(items), NEW key, NEW M,
         PlacedAs(items, L, G, a, x, key, items', M),
         UNCHANGED <<table, live, object, failures>>, pc # "start", pc # "bucket",
         Stats' = IF Stats = x THEN 0 ELSE Stats,
         Latency' = IF Latency = x THEN 0 ELSE Latency,
         Bucket = 0 \/ Bucket = x, Bucket' = 0, object # x,
         e' = e \/ (Stats' = 0 /\ Latency' = 0),
         a \in {object, Stats, Latency}, a # x,
         failures = 0 =>
           /\ NoneNull'
           /\ SubSeq(Keys, 1, e - 1)' = IF a = object THEN Append(SubSeq(Keys, 1, e - 1), key)
                                        ELSE SubSeq(Keys, 1, e - 1)
           /\ x = Stats => StatsSoFar = Counters \o <<"latency">>
           /\ x # Stats => StatsSoFar' = IF a = Stats THEN Append(StatsSoFar, key) ELSE StatsSoFar
           /\ x = Latency => LatencySoFar = Nonzero[Keys[e]]
           /\ a = Latency => LatencySoFar' = LatencySoFar \cup {G[x].bucket}
           /\ a # Latency => Latency' = 0
  PROVE  Tree(M, G)'
<1> DEFINE N == Len(items)
<1>1. Keys' = Keys /\ Nonzero' = Nonzero /\ object' = object
  BY DEF Keys, Nonzero
<1>2. Body(items, L, G) /\ live = 1 .. N /\ Roots(L, G) /\ N \in Nat
  BY BodyParts DEF Tree
<1>3. /\ Body(items', M, G) /\ Len(items') = N
      /\ \A q \in 1 .. N : Free(M, q) <=> Free(L, q) /\ q # x
  BY DEF PlacedAs
<1>4. /\ \A q \in 1 .. N : q # a => /\ M[q] = L[q] /\ Shown(items', M[q]) = Shown(items, L[q])
                                    /\ InBuckets(G, M[q]) = InBuckets(G, L[q])
      /\ M[a] # <<>> /\ Shown(items', M[a]) = Append(Shown(items, L[a]), key)
      /\ InBuckets(G, M[a]) = InBuckets(G, L[a]) \cup {G[x].bucket}
  BY DEF PlacedAs
<1>5. \A q \in 1 .. N : q # 0
  BY <1>2
<1>6. /\ object # 0 => object \in 1 .. N /\ Free(L, object) /\ G[object].kind = "root"
      /\ \A q \in 1 .. N : G[q].kind = "root" => q = object
      /\ Stats # 0 => Stats \in 1 .. N /\ Free(L, Stats) /\ G[Stats].kind = "stats" /\ G[Stats].key = Keys[e]
      /\ Latency # 0 => /\ Latency \in 1 .. N /\ Free(L, Latency)
                        /\ G[Latency].kind = "latency" /\ G[Latency].key = Keys[e]
  BY <1>2 DEF Roots, Waits
<1> HIDE DEF N
<1>7. Roots(M, G)'
  <2>1. object' # 0 => object' \in 1 .. Len(items') /\ Free(M, object') /\ G[object'].kind = "root"
    BY <1>1, <1>3, <1>6
  <2>2. \A q \in 1 .. Len(items') : G[q].kind = "root" => q = object'
    BY <1>1, <1>3, <1>6
  <2>3. Waits(M, G, Stats, "stats", Keys[e])'
    BY <1>1, <1>3, <1>6 DEF Waits
  <2>4. Waits(M, G, Latency, "latency", Keys[e])'
    BY <1>1, <1>3, <1>6 DEF Waits
  <2>5. Waits(M, G, Bucket, "bucket", Keys[e])' /\ (Bucket # 0 => G[Bucket].bucket = n)'
    BY DEF Waits
  <2> QED BY <2>1, <2>2, <2>3, <2>4, <2>5 DEF Roots
<1>8. ASSUME failures' = 0 PROVE Whole(M, G)'
  <2>0. /\ Whole(L, G) /\ NoneNull'
        /\ SubSeq(Keys, 1, e - 1)' = IF a = object THEN Append(SubSeq(Keys, 1, e - 1), key)
                                     ELSE SubSeq(Keys, 1, e - 1)
    BY <1>8 DEF Tree
  <2>1. /\ x = Stats => StatsSoFar = Counters \o <<"latency">>
        /\ x # Stats => StatsSoFar' = IF a = Stats THEN Append(StatsSoFar, key) ELSE StatsSoFar
        /\ x = Latency => LatencySoFar = Nonzero[Keys[e]]
        /\ a = Latency => LatencySoFar' = LatencySoFar \cup {G[x].bucket}
        /\ a # Latency => Latency' = 0
    BY <1>8
  <2>2. NoneLost(M)'
    <3>1. \A q \in 1 .. N : Free(L, q) => q \in {object, Stats, Latency, Bucket}
      BY <2>0 DEF Whole, NoneLost, N
    <3> QED BY <1>1, <1>3, <1>5, <3>1 DEF NoneLost
  <2>3. RootWhole(M)'
    <3>1. object \in 1 .. N /\ Shown(items, L[object]) = SubSeq(Keys, 1, e - 1)
      BY <1>6, <2>0 DEF Whole, NoneNull, RootWhole
    <3> QED BY <1>1, <1>4, <2>0, <3>1 DEF RootWhole
  <2>4. StatsWhole(M, G)'
    <3>1. ASSUME NEW q \in 1 .. N, G[q].kind = "stats"
          PROVE  Shown(items', M[q]) = IF q = Stats' THEN StatsSoFar' ELSE Counters \o <<"latency">>
      <4>1. Shown(items, L[q]) = IF q = Stats THEN StatsSoFar ELSE Counters \o <<"latency">>
        BY <2>0, <3>1 DEF Whole, StatsWhole, N
      <4>2. q = a => q = Stats
        BY <1>5, <1>6, <3>1
      <4>3. CASE q = a
        BY <1>4, <1>5, <2>1, <4>1, <4>2, <4>3
      <4>4. CASE q # a /\ q = x
        BY <1>4, <1>5, <2>1, <4>1, <4>4
      <4>5. CASE q # a /\ q # x
        BY <1>4, <1>5, <2>1, <4>1, <4>5
      <4> QED BY <4>3, <4>4, <4>5
    <3> QED BY <1>3, <3>1 DEF StatsWhole
  <2>5. LatencyWhole(M, G)'
    <3>1. ASSUME NEW q \in 1 .. N, G[q].kind = "latency"
          PROVE  InBuckets(G, M[q]) = IF q = Latency' THEN LatencySoFar' ELSE Nonzero'[G[q].key]
      <4>1. InBuckets(G, L[q]) = IF q = Latency THEN LatencySoFar ELSE Nonzero[G[q].key]
        BY <2>0, <3>1 DEF Whole, LatencyWhole, N
      <4>2. q = a => q = Latency
        BY <1>5, <1>6, <3>1
      <4>3. CASE q = a
        BY <1>4, <1>5, <2>1, <4>1, <4>2, <4>3
      <4>4. CASE q # a /\ q = x
        <5>1. q = Latency => G[q].key = Keys[e]
          BY <1>5, <1>6
        <5> QED BY <1>1, <1>4, <1>5, <2>1, <4>1, <4>4, <5>1
      <4>5. CASE q # a /\ q # x
        BY <1>1, <1>4, <1>5, <2>1, <4>1, <4>5
      <4> QED BY <4>3, <4>4, <4>5
    <3> QED BY <1>3, <3>1 DEF LatencyWhole
  <2>6. BucketWhole(M, G)'
    <3>1. \A q \in 1 .. N : G[q].kind = "bucket" => L[q] # <<>>
      BY <2>0 DEF Whole, BucketWhole, N
    <3> QED BY <1>3, <1>4, <3>1 DEF BucketWhole
  <2> QED BY <2>0, <2>2, <2>3, <2>4, <2>5, <2>6 DEF Whole
<1> QED BY <1>2, <1>3, <1>7, <1>8 DEF Tree, N

\* A bucket in the array.
LEMMA AddBucketStep ==
  ASSUME TypeInv, NEW L, NEW G, Tree(L, G), AddBucket, UNCHANGED table
  PROVE  \E M, H : Tree(M, H)'
<1> DEFINE a == latency_object
           x == bucket_object
<1>1. /\ pc = "filled" /\ pc' = "buckets" /\ e' = e /\ n' = n + 1 /\ n \in Nat
      /\ UNCHANGED <<object, stats_object, latency_object, bucket_object, live, failures>>
      /\ e \in 1 .. Len(Keys) /\ n \in Nonzero[Keys[e]]
      /\ items' = IF a # 0 /\ x # 0 THEN add_item_to_array(items, a, x) ELSE items
  BY DEF AddBucket, cJSON_AddItemToArray, Locals, TypeInv, StatsAt, BucketAt, Goto
<1>2. Latency = a /\ Bucket = x /\ Stats' = Stats /\ Latency' = a /\ Bucket' = 0
  BY <1>1 DEF Stats, Latency, Bucket, StatsAt, LatAt, BucketAt
<1>3. CASE a # 0 /\ x # 0
  <2>1. /\ a \in 1 .. Len(items) /\ G[a].kind = "latency" /\ G[a].key = Keys[e]
        /\ x \in 1 .. Len(items) /\ Free(L, x)
        /\ G[x].kind = "bucket" /\ G[x].key = Keys[e] /\ G[x].bucket = n
    BY <1>2, <1>3 DEF Tree, Roots, Waits
  <2>2. Stats # a /\ Stats # x /\ object # a /\ object # x /\ a # x
    BY <1>3, <2>1 DEF Tree, Roots, Waits
  <2>3. MayHang(G[a], G[x]) /\ Tells(items[x], G[x])
    BY <2>1 DEF MayHang, Tells, Numbers
  <2> HIDE DEF a, x
  <2>4. PICK key, M : PlacedAs(items, L, G, a, x, key, items', M)
    <3>1. PlacedAs(items, L, G, a, x, items[x].string, items', Hung(L, a, x))
      BY <1>1, <1>3, <2>1, <2>3, HangBody DEF Tree
    <3> QED BY <3>1
  <2>5. ASSUME failures = 0
        PROVE  /\ NoneNull' /\ StatsSoFar' = StatsSoFar /\ LatencySoFar' = LatencySoFar \cup {n}
               /\ SubSeq(Keys, 1, e - 1)' = SubSeq(Keys, 1, e - 1)
    <3>1. NoneNull'
      BY <1>1, <2>5 DEF Tree, Whole, NoneNull, StatsAt, LatAt, BucketAt
    <3>2. StatsSoFar' = StatsSoFar
      BY <1>1 DEF StatsSoFar, LatAt
    <3>3. LatencySoFar' = LatencySoFar \cup {n}
      <4> DEFINE S == Nonzero[Keys[e]]
      <4>1. Nonzero'[Keys'[e']] = S
        BY <1>1 DEF Nonzero, Keys
      <4>2. S \subseteq 1 .. Len(latency_buckets) /\ Len(latency_buckets) \in Nat /\ n \in S
        BY <1>1, KeyNames, ConstantNames
      <4>3. LatencySoFar = {b \in S : b < n} /\ LatencySoFar' = {b \in S : b < n + 1}
        BY <1>1, <4>1 DEF LatencySoFar
      <4> HIDE DEF S
      <4>4. \A b \in S : b < n + 1 <=> b < n \/ b = n
        <5>1. n \in Nat /\ S \subseteq Nat
          BY <1>1, <4>2
        <5> QED BY <5>1
      <4> QED BY <4>2, <4>3, <4>4
    <3> QED BY <1>1, <3>1, <3>2, <3>3 DEF Keys
  <2>6. Tree(M, G)'
    BY <1>1, <1>2, <1>3, <2>1, <2>2, <2>4, <2>5, HangStep
  <2> QED BY <2>6
<1>4. CASE ~(a # 0 /\ x # 0)
  <2>1. ~NoneNull
    BY <1>1, <1>4 DEF NoneNull, LatAt, BucketAt
  <2>2. Tree(L, G)'
    BY <1>1, <1>2, <1>4, <2>1, NullStep
  <2> QED BY <2>2
<1> QED BY <1>3, <1>4

\* The array in the object of the endpoint.
LEMMA AddLatencyStep ==
  ASSUME TypeInv, NEW L, NEW G, Tree(L, G), AddLatency, UNCHANGED table
  PROVE  \E M, H : Tree(M, H)'
<1> DEFINE a == stats_object
           x == latency_object
<1>1. /\ pc = "buckets" /\ pc' = "add" /\ e' = e /\ n' = n /\ n \in Nat /\ n > Len(latency_buckets)
      /\ UNCHANGED <<object, stats_object, latency_object, bucket_object>>
      /\ e \in 1 .. Len(Keys)
  BY DEF AddLatency, Locals, TypeInv, StatsAt, Goto
<1>2. /\ Stats = a /\ Latency = x /\ Bucket = 0
      /\ Stats' = a /\ Latency' = 0 /\ Bucket' = 0
  BY <1>1 DEF Stats, Latency, Bucket, StatsAt, LatAt, BucketAt
<1>3. CASE a # 0 /\ x # 0 /\ items' = add_item_to_object(items, a, "latency", x) /\ UNCHANGED <<live, failures>>
  <2>1. /\ a \in 1 .. Len(items) /\ G[a].kind = "stats" /\ G[a].key = Keys[e]
        /\ x \in 1 .. Len(items) /\ Free(L, x)
        /\ G[x].kind = "latency" /\ G[x].key = Keys[e]
    BY <1>2, <1>3 DEF Tree, Roots, Waits
  <2>2. object # a /\ object # x /\ a # x
    BY <1>3, <2>1 DEF Tree, Roots
  <2>3. MayHang(G[a], G[x]) /\ G[x].kind \notin Numbers
    BY <2>1 DEF MayHang, Numbers
  <2> HIDE DEF a, x
  <2>4. PICK M : PlacedAs(items, L, G, a, x, "latency", items', M)
    <3> DEFINE key == "latency"
    <3>1. key \in Names /\ items' = add_item_to_object(items, a, key, x)
      BY <1>3, ConstantNames
    <3> HIDE DEF key
    <3>2. PlacedAs(items, L, G, a, x, key, items', Hung(L, a, x))
      BY <2>1, <2>3, <3>1, NamedHang DEF Tree
    <3> QED BY <3>2 DEF key
  <2>5. ASSUME failures = 0
        PROVE  /\ NoneNull' /\ StatsSoFar' = Append(StatsSoFar, "latency")
               /\ LatencySoFar = Nonzero[Keys[e]]
               /\ SubSeq(Keys, 1, e - 1)' = SubSeq(Keys, 1, e - 1)
    <3>1. NoneNull'
      BY <1>1, <2>5 DEF Tree, Whole, NoneNull, StatsAt, LatAt, BucketAt
    <3>2. StatsSoFar' = Append(StatsSoFar, "latency")
      <4>1. StatsSoFar = Counters /\ StatsSoFar' = Counters \o <<"latency">>
        BY <1>1 DEF StatsSoFar, LatAt
      <4>2. Counters \o <<"latency">> = Append(Counters, "latency")
        <5> DEFINE key == "latency"
        <5>1. Counters \in Seq(Names) /\ key \in Names
          BY ConstantNames
        <5> HIDE DEF key
        <5>2. Counters \o <<key>> = Append(Counters, key)
          BY <5>1, AppendIsConcat
        <5> QED BY <5>2 DEF key
      <4> QED BY <4>1, <4>2
    <3>3. LatencySoFar = Nonzero[Keys[e]]
      <4> DEFINE S == Nonzero[Keys[e]]
      <4>1. S \subseteq 1 .. Len(latency_buckets) /\ Len(latency_buckets) \in Nat
        BY <1>1, KeyNames, ConstantNames
      <4>2. LatencySoFar = {b \in S : b < n}
        BY DEF LatencySoFar
      <4> HIDE DEF S
      <4>3. \A b \in S : b < n
        BY <1>1, <4>1
      <4> QED BY <4>2, <4>3 DEF S
    <3> QED BY <1>1, <3>1, <3>2, <3>3 DEF Keys
  <2>6. Tree(M, G)'
    BY <1>1, <1>2, <1>3, <2>1, <2>2, <2>4, <2>5, HangStep
  <2> QED BY <2>6
<1>4. CASE (a = 0 \/ x = 0) /\ UNCHANGED <<items, live, failures>>
  <2>1. ~NoneNull
    BY <1>1, <1>4 DEF NoneNull, StatsAt, LatAt
  <2>2. Tree(L, G)'
    BY <1>1, <1>2, <1>4, <2>1, NullStep
  <2> QED BY <2>2
<1>5. CASE NoMemory
  <2>1. Tree(L, G)'
    BY <1>1, <1>2, <1>5, NoMemoryStep
  <2> QED BY <2>1
<1> QED BY <1>3, <1>4, <1>5 DEF AddLatency, cJSON_AddItemToObject

\* The object of the endpoint in the root.
LEMMA AddStatsStep ==
  ASSUME TypeInv, NEW L, NEW G, Tree(L, G), AddStats, UNCHANGED table
  PROVE  \E M, H : Tree(M, H)'
<1> DEFINE a == object
           x == stats_object
           key == Keys[e]
<1>1. /\ pc = "add" /\ pc' = "endpoint" /\ e' = e + 1
      /\ UNCHANGED <<object, stats_object, latency_object, bucket_object>>
      /\ e \in 1 .. Len(Keys)
  BY DEF AddStats, Locals, TypeInv, StatsAt, Goto
<1>2. /\ Stats = x /\ Latency = 0 /\ Bucket = 0
      /\ Stats' = 0 /\ Latency' = 0 /\ Bucket' = 0
  BY <1>1 DEF Stats, Latency, Bucket, StatsAt, LatAt, BucketAt
<1>3. CASE a # 0 /\ x # 0 /\ items' = add_item_to_object(items, a, key, x) /\ UNCHANGED <<live, failures>>
  <2>1. /\ a \in 1 .. Len(items) /\ G[a].kind = "root"
        /\ x \in 1 .. Len(items) /\ Free(L, x)
        /\ G[x].kind = "stats" /\ G[x].key = key
    BY <1>2, <1>3 DEF Tree, Roots, Waits
  <2>2. a # x
    BY <2>1
  <2>3. MayHang(G[a], G[x]) /\ G[x].kind \notin Numbers /\ key \in Names
    BY <1>1, <2>1, KeyNames DEF MayHang, Numbers
  <2>4. PICK M : PlacedAs(items, L, G, a, x, key, items', M)
    <3> HIDE DEF key
    <3>1. PlacedAs(items, L, G, a, x, key, items', Hung(L, a, x))
      BY <1>3, <2>1, <2>3, NamedHang DEF Tree
    <3> QED BY <3>1
  <2>5. ASSUME failures = 0
        PROVE  /\ NoneNull' /\ StatsSoFar = Counters \o <<"latency">>
               /\ SubSeq(Keys, 1, e - 1)' = Append(SubSeq(Keys, 1, e - 1), key)
    <3>1. NoneNull'
      BY <1>1, <2>5 DEF Tree, Whole, NoneNull, StatsAt, LatAt, BucketAt
    <3>2. StatsSoFar = Counters \o <<"latency">>
      BY <1>1 DEF StatsSoFar, LatAt
    <3>3. Len(Keys) \in Nat /\ Keys \in Seq(STRING) /\ Keys' = Keys
      BY KeyNames DEF Keys
    <3>4. (e - 1)' = e
      BY <1>1, <3>3
    <3>5. Append(SubSeq(Keys, 1, e - 1), Keys[e]) = SubSeq(Keys, 1, e)
      BY <1>1, <3>3, Prefixes
    <3>6. SubSeq(Keys, 1, e - 1)' = SubSeq(Keys, 1, e)
      BY <3>3, <3>4
    <3> QED BY <3>1, <3>2, <3>5, <3>6
  <2> HIDE DEF key
  <2>6. Tree(M, G)'
    BY <1>1, <1>2, <1>3, <2>1, <2>2, <2>4, <2>5, HangStep
  <2> QED BY <2>6
<1>4. CASE (a = 0 \/ x = 0) /\ UNCHANGED <<items, live, failures>>
  <2>1. ~NoneNull
    BY <1>1, <1>4 DEF NoneNull, StatsAt
  <2>2. Tree(L, G)'
    BY <1>1, <1>2, <1>4, <2>1, NullStep
  <2> QED BY <2>2
<1>5. CASE NoMemory
  <2>1. Tree(L, G)'
    BY <1>1, <1>2, <1>5, NoMemoryStep
  <2> QED BY <2>1
<1> QED BY <1>3, <1>4, <1>5 DEF AddStats, cJSON_AddItemToObject, KeyText

-----------------------------------------------------------------------------
(* cJSON_Delete *)

\* What cJSON_Delete sees below an item is its list.
LEMMA ListedAre ==
  ASSUME NEW L, Listing(items, L), NEW p \in 1 .. Len(items)
  PROVE  \A q : q \in Listed(p) <=> In(L, p, q)
<1>1. Children(p) = L[p]
  BY ChildrenAre
<1>2. L[p] \in Seq(1 .. Len(items))
  BY ListType
<1>3. DOMAIN L[p] = 1 .. Len(L[p])
  BY <1>2
<1> QED BY <1>1, <1>3 DEF Listed, Range, In

\* Without a failure everything hangs below the root in the end.
LEMMA AllBelow ==
  ASSUME NEW L, NEW G, Tree(L, G), pc = "print", failures = 0
  PROVE  1 .. Len(items) \subseteq Below(object)
<1> DEFINE N == Len(items)
           W1 == WithListed({object})
           W2 == WithListed(W1)
           W3 == WithListed(W2)
           W4 == WithListed(W3)
<1>1. Body(items, L, G) /\ Listing(items, L) /\ DOMAIN L = 1 .. N /\ Whole(L, G) /\ Roots(L, G)
  BY BodyParts DEF Tree
<1>2. object \in 1 .. N /\ object # 0 /\ G[object].kind = "root"
  BY <1>1 DEF Whole, NoneNull, Roots
<1>3. Stats = 0 /\ Latency = 0 /\ Bucket = 0
  BY DEF Stats, Latency, Bucket, StatsAt, LatAt, BucketAt
<1>4. N \in Nat
  BY <1>1, BodyParts
<1>5. ASSUME NEW q \in 1 .. N, q # object
      PROVE  \E p \in 1 .. N : In(L, p, q) /\ MayHang(G[p], G[q])
  <2>1. ~Free(L, q)
    BY <1>1, <1>3, <1>4, <1>5 DEF Whole, NoneLost
  <2>2. PICK p \in 1 .. N : In(L, p, q)
    BY <1>1, <2>1 DEF Free
  <2>3. MayHang(G[p], G[q])
    BY <1>1, <2>2, BodyParts DEF In
  <2> QED BY <2>2, <2>3
<1>6. ASSUME NEW S, NEW p \in 1 .. N, p \in S, NEW q, In(L, p, q)
      PROVE  q \in WithListed(S)
  <2>1. q \in Listed(p)
    BY <1>1, <1>6, ListedAre
  <2> QED BY <1>6, <2>1 DEF WithListed
<1>7. \A S : S \subseteq WithListed(S)
  BY DEF WithListed
<1>8. \A q \in 1 .. N : G[q].kind = "root" => q = object
  BY <1>1 DEF Roots
<1>9. Below(object) = W4
  BY <1>2 DEF Below
<1>10. {object} \subseteq W1 /\ W1 \subseteq W2 /\ W2 \subseteq W3 /\ W3 \subseteq W4
  BY <1>7
<1>11. \A q \in 1 .. N : G[q].kind = "stats" => q \in W1
  <2> SUFFICES ASSUME NEW q \in 1 .. N, G[q].kind = "stats" PROVE q \in W1
    OBVIOUS
  <2>1. PICK p \in 1 .. N : In(L, p, q) /\ MayHang(G[p], G[q])
    BY <1>2, <1>5
  <2>2. p = object
    BY <1>8, <2>1 DEF MayHang
  <2> QED BY <1>6, <2>1, <2>2
<1> HIDE DEF W1
<1>12. \A q \in 1 .. N : G[q].kind \in {"counter", "latency"} => q \in W2
  <2> SUFFICES ASSUME NEW q \in 1 .. N, G[q].kind \in {"counter", "latency"} PROVE q \in W2
    OBVIOUS
  <2>1. PICK p \in 1 .. N : In(L, p, q) /\ MayHang(G[p], G[q])
    BY <1>2, <1>5
  <2>2. p \in W1
    BY <1>11, <2>1 DEF MayHang
  <2> QED BY <1>6, <2>1, <2>2
<1> HIDE DEF W2
<1>13. \A q \in 1 .. N : G[q].kind = "bucket" => q \in W3
  <2> SUFFICES ASSUME NEW q \in 1 .. N, G[q].kind = "bucket" PROVE q \in W3
    OBVIOUS
  <2>1. PICK p \in 1 .. N : In(L, p, q) /\ MayHang(G[p], G[q])
    BY <1>2, <1>5
  <2>2. p \in W2
    BY <1>12, <2>1 DEF MayHang
  <2> QED BY <1>6, <2>1, <2>2
<1> HIDE DEF W3
<1>14. \A q \in 1 .. N : G[q].kind = "count" => q \in W4
  <2> SUFFICES ASSUME NEW q \in 1 .. N, G[q].kind = "count" PROVE q \in W4
    OBVIOUS
  <2>1. PICK p \in 1 .. N : In(L, p, q) /\ MayHang(G[p], G[q])
    BY <1>2, <1>5
  <2>2. p \in W3
    BY <1>13, <2>1 DEF MayHang
  <2> QED BY <1>6, <2>1, <2>2
<1> HIDE DEF W4
<1>15. \A q \in 1 .. N : G[q].kind \in Kinds
  BY <1>1 DEF Body, Tags
<1> QED BY <1>8, <1>9, <1>10, <1>11, <1>12, <1>13, <1>14, <1>15 DEF Kinds

-----------------------------------------------------------------------------
(* The theorems *)

\* The invariant holds before the first call.
LEMMA TreeInvInit == TreeInit => TreeInv
<1> SUFFICES ASSUME TreeInit PROVE TreeInv
  OBVIOUS
<1>1. pc = "start" /\ items = <<>> /\ object = 0 /\ failures = 0 /\ live = {} /\ e = 1 /\ n = 1 /\ table \in Tables
  BY DEF TreeInit
<1>2. Len(Keys) \in Nat
  BY <1>1, JsonAssumption DEF Keys
<1>3. TypeInv
  BY <1>1, <1>2 DEF TypeInv, PCs, StatsAt, BucketAt
<1>4. Len(items) = 0 /\ 1 .. 0 = {} /\ \A q \in 1 .. Len(items) : FALSE
  BY <1>1
<1>5. PICK L : L \in [1 .. Len(items) -> Seq(1 .. Len(items))]
  <2>1. [q \in 1 .. Len(items) |-> <<>>] \in [1 .. Len(items) -> Seq(1 .. Len(items))]
    BY <1>4
  <2> QED BY <2>1
<1>6. PICK G : G \in [1 .. Len(items) -> Tags]
  <2>1. [q \in 1 .. Len(items) |-> <<>>] \in [1 .. Len(items) -> Tags]
    BY <1>4
  <2> QED BY <2>1
<1>7. items \in Seq(ItemRecords)
  BY <1>1
<1>8. Listing(items, L)
  BY <1>4, <1>5, <1>7 DEF Listing
<1>9. Body(items, L, G)
  BY <1>4, <1>6, <1>8 DEF Body
<1>10. Stats = 0 /\ Latency = 0 /\ Bucket = 0
  BY <1>1 DEF Stats, Latency, Bucket, StatsAt, LatAt, BucketAt
<1>11. Roots(L, G)
  BY <1>1, <1>4, <1>10 DEF Roots, Waits
<1>12. NoneNull
  BY <1>1 DEF NoneNull, StatsAt, LatAt, BucketAt
<1>13. Whole(L, G)
  BY <1>1, <1>4, <1>12 DEF Whole, NoneLost, RootWhole, StatsWhole, LatencyWhole, BucketWhole
<1>14. Tree(L, G)
  BY <1>1, <1>4, <1>9, <1>11, <1>13 DEF Tree
<1> QED BY <1>1, <1>3, <1>14 DEF TreeInv

\* Every step keeps it.
LEMMA TreeInvStep == TreeInv /\ [TreeNext]_treeVars => TreeInv'
<1> SUFFICES ASSUME TreeInv, [TreeNext]_treeVars PROVE TreeInv'
  OBVIOUS
<1>1. CASE Build
  <2>1. TypeInv /\ TypeInv' /\ UNCHANGED table
    BY <1>1, TypeStep DEF TreeInv, Build, TreeNext
  <2>2. pc # "done" /\ pc' # "done"
    BY <1>1 DEF Build, CreateRoot, CreateStats, AddCounter, CreateLatency, EmptyBucket, CreateBucket,
         FillBucket, AddBucket, AddLatency, AddStats, Goto
  <2>3. PICK L, G : Tree(L, G)
    BY <2>2 DEF TreeInv
  <2>4. \E M, H : Tree(M, H)'
    <3>1. CASE CreateRoot
      BY <2>1, <2>3, <3>1, CreateRootStep
    <3>2. CASE CreateStats
      BY <2>1, <2>3, <3>2, CreateStatsStep
    <3>3. CASE AddCounter
      BY <2>1, <2>3, <3>3, AddCounterStep
    <3>4. CASE CreateLatency
      BY <2>1, <2>3, <3>4, CreateLatencyStep
    <3>5. CASE EmptyBucket
      BY <2>1, <2>3, <3>5, EmptyBucketStep
    <3>6. CASE CreateBucket
      BY <2>1, <2>3, <3>6, CreateBucketStep
    <3>7. CASE FillBucket
      BY <2>1, <2>3, <3>7, FillBucketStep
    <3>8. CASE AddBucket
      BY <2>1, <2>3, <3>8, AddBucketStep
    <3>9. CASE AddLatency
      BY <2>1, <2>3, <3>9, AddLatencyStep
    <3>10. CASE AddStats
      BY <2>1, <2>3, <3>10, AddStatsStep
    <3> QED BY <1>1, <3>1, <3>2, <3>3, <3>4, <3>5, <3>6, <3>7, <3>8, <3>9, <3>10 DEF Build
  <2> QED BY <2>1, <2>2, <2>4 DEF TreeInv
<1>2. CASE HandOver
  <2>1. TypeInv /\ TypeInv'
    BY <1>2, TypeStep DEF TreeInv, TreeNext
  <2>2. pc # "done" /\ pc' # "done"
    BY <1>2 DEF HandOver, Goto
  <2>3. PICK L, G : Tree(L, G)
    BY <2>2 DEF TreeInv
  <2>4. Tree(L, G)'
    BY <1>2, <2>1, <2>3, HandOverStep
  <2> QED BY <2>1, <2>2, <2>4 DEF TreeInv
<1>3. CASE cJSON_Delete
  <2>1. TypeInv /\ TypeInv'
    BY <1>3, TypeStep DEF TreeInv, TreeNext
  <2>2. pc = "print" /\ pc' = "done" /\ live' = live \ Below(object) /\ failures' = failures
    BY <1>3 DEF cJSON_Delete, Goto
  <2>3. PICK L, G : Tree(L, G)
    BY <2>2 DEF TreeInv
  <2>4. live = 1 .. Len(items)
    BY <2>3 DEF Tree
  <2>5. failures' = 0 => live' = {}
    BY <2>2, <2>3, <2>4, AllBelow
  <2> QED BY <2>1, <2>2, <2>5 DEF TreeInv
<1>4. CASE UNCHANGED treeVars
  <2>1. TypeInv'
    BY <1>4 DEF TreeInv, TypeInv, treeVars, Keys, Nonzero
  <2>2. UNCHANGED <<table, items, live, object, stats_object, latency_object, bucket_object, pc, e, n, failures>>
    BY <1>4 DEF treeVars
  <2>3. ASSUME NEW L, NEW G, Tree(L, G) PROVE Tree(L, G)'
    <3>1. Roots(L, G)'
      <4>1. Stats' = Stats /\ Latency' = Latency /\ Bucket' = Bucket
        BY <2>2 DEF Stats, Latency, Bucket
      <4> QED BY <2>2, <2>3, <4>1, RootsStay DEF Tree
    <3>2. failures = 0 => Whole(L, G)'
      <4>1. Stats' = Stats /\ Latency' = Latency /\ Bucket' = Bucket
        BY <2>2 DEF Stats, Latency, Bucket
      <4>2. StatsSoFar' = StatsSoFar /\ LatencySoFar' = LatencySoFar /\ Keys' = Keys /\ Nonzero' = Nonzero
        BY <2>2 DEF StatsSoFar, LatencySoFar, Keys, Nonzero
      <4>3. NoneNull <=> NoneNull'
        BY <2>2 DEF NoneNull
      <4> QED BY <2>2, <2>3, <4>1, <4>2, <4>3 DEF Tree, Whole, NoneLost, RootWhole, StatsWhole, LatencyWhole, BucketWhole
    <3> QED BY <2>2, <2>3, <3>1, <3>2 DEF Tree
  <2> QED BY <2>1, <2>2, <2>3 DEF TreeInv
<1> QED BY <1>1, <1>2, <1>3, <1>4 DEF TreeNext

\* Whatever fails, the tree keeps the invariant through every call of cJSON.
THEOREM TreeInvHolds == TreeSpec => []TreeInv
BY TreeInvInit, TreeInvStep, PTL DEF TreeSpec

\* One pointer at most leads to an item.
LEMMA OneOwner ==
  ASSUME NEW L, Listing(items, L), live = 1 .. Len(items), NEW q \in live
  PROVE  Cardinality(Owners(q)) <= 1
<1> DEFINE N == Len(items)
<1>1. N \in Nat /\ DOMAIN L = 1 .. N /\ q # 0
  BY ListType
<1>2. ASSUME NEW p \in 1 .. N, items[p].child = q
      PROVE  1 \in 1 .. Len(L[p]) /\ L[p][1] = q
  <2>1. Len(L[p]) # 0 /\ L[p][1] = q /\ Len(L[p]) \in Nat
    BY <1>1, <1>2, ListLinks, ListType
  <2> QED BY <2>1
<1>3. ASSUME NEW p \in 1 .. N, items[p].next = q
      PROVE  \E r \in 1 .. N : \E k \in 1 .. Len(L[r]) :
               L[r][k] = p /\ k + 1 \in 1 .. Len(L[r]) /\ L[r][k + 1] = q
  <2>1. ~Free(L, p)
    BY <1>1, <1>3, FreeLinks
  <2>a. PICK r \in 1 .. N : \E k \in 1 .. Len(L[r]) : L[r][k] = p
    BY <1>1, <2>1 DEF Free, In
  <2>2. PICK k \in 1 .. Len(L[r]) : L[r][k] = p
    BY <2>a
  <2>3. k < Len(L[r]) /\ L[r][k + 1] = q
    BY <1>1, <1>3, <2>2, ListLinks
  <2>4. Len(L[r]) \in Nat
    BY ListType
  <2>5. k + 1 \in 1 .. Len(L[r])
    BY <2>3, <2>4
  <2> QED BY <2>2, <2>3, <2>5
<1>4. ASSUME NEW p \in Owners(q), NEW s \in Owners(q)
      PROVE  p = s
  <2>1. p \in 1 .. N /\ s \in 1 .. N /\ (items[p].child = q \/ items[p].next = q)
        /\ (items[s].child = q \/ items[s].next = q)
    BY DEF Owners
  <2>2. CASE items[p].child = q /\ items[s].child = q
    BY <1>2, <2>1, <2>2, ListLinks
  <2>3. CASE items[p].child = q /\ items[s].next = q
    <3>a. PICK r \in 1 .. N : \E k \in 1 .. Len(L[r]) : k + 1 \in 1 .. Len(L[r]) /\ L[r][k + 1] = q
      BY <1>3, <2>1, <2>3
    <3>1. PICK k \in 1 .. Len(L[r]) : k + 1 \in 1 .. Len(L[r]) /\ L[r][k + 1] = q
      BY <3>a
    <3>2. 1 \in 1 .. Len(L[p]) /\ L[p][1] = q
      BY <1>2, <2>1, <2>3
    <3>3. 1 = k + 1
      BY <2>1, <3>1, <3>2, ListLinks
    <3> QED BY <3>3
  <2>4. CASE items[p].next = q /\ items[s].child = q
    <3>a. PICK r \in 1 .. N : \E k \in 1 .. Len(L[r]) : k + 1 \in 1 .. Len(L[r]) /\ L[r][k + 1] = q
      BY <1>3, <2>1, <2>4
    <3>1. PICK k \in 1 .. Len(L[r]) : k + 1 \in 1 .. Len(L[r]) /\ L[r][k + 1] = q
      BY <3>a
    <3>2. 1 \in 1 .. Len(L[s]) /\ L[s][1] = q
      BY <1>2, <2>1, <2>4
    <3>3. 1 = k + 1
      BY <2>1, <3>1, <3>2, ListLinks
    <3> QED BY <3>3
  <2>5. CASE items[p].next = q /\ items[s].next = q
    <3>a. PICK r \in 1 .. N : \E k \in 1 .. Len(L[r]) : L[r][k] = p /\ k + 1 \in 1 .. Len(L[r]) /\ L[r][k + 1] = q
      BY <1>3, <2>1, <2>5
    <3>b. PICK u \in 1 .. N : \E j \in 1 .. Len(L[u]) : L[u][j] = s /\ j + 1 \in 1 .. Len(L[u]) /\ L[u][j + 1] = q
      BY <1>3, <2>1, <2>5
    <3>1. PICK k \in 1 .. Len(L[r]) : L[r][k] = p /\ k + 1 \in 1 .. Len(L[r]) /\ L[r][k + 1] = q
      BY <3>a
    <3>2. PICK j \in 1 .. Len(L[u]) : L[u][j] = s /\ j + 1 \in 1 .. Len(L[u]) /\ L[u][j + 1] = q
      BY <3>b
    <3>3. r = u /\ k + 1 = j + 1
      <4> DEFINE y == k + 1
                 z == j + 1
      <4>1. y \in 1 .. Len(L[r]) /\ z \in 1 .. Len(L[u]) /\ L[r][y] = L[u][z]
        BY <3>1, <3>2
      <4> HIDE DEF y, z
      <4>2. r = u /\ y = z
        BY <4>1, ListLinks
      <4> QED BY <4>2 DEF y, z
    <3>4. k = j
      BY <3>3
    <3> QED BY <3>1, <3>2, <3>3, <3>4
  <2> QED BY <2>1, <2>2, <2>3, <2>4, <2>5
<1>5. CASE Owners(q) = {}
  BY <1>5, FS_EmptySet
<1>6. CASE Owners(q) # {}
  <2>1. PICK p : p \in Owners(q)
    BY <1>6
  <2>2. Owners(q) = {p}
    BY <1>4, <2>1
  <2>3. Cardinality({p}) = 1
    BY FS_Singleton
  <2> QED BY <2>2, <2>3
<1> QED BY <1>5, <1>6

\* The listing of the invariant is what the walk finds.
LEMMA TreeListsWhole == TreeInv => ListsWhole
<1> SUFFICES ASSUME TreeInv, pc # "done", NEW p \in live
             PROVE  LET list == Children(p)
                    IN  /\ Range(list) \subseteq live
                        /\ list # <<>> => items[list[1]].prev = list[Len(list)]
                        /\ \A k \in 2 .. Len(list) : items[list[k]].prev = list[k - 1]
                        /\ Cardinality(Owners(p)) <= 1
  BY DEF ListsWhole
<1>1. PICK L, G : Tree(L, G)
  BY DEF TreeInv
<1>2. Listing(items, L) /\ live = 1 .. Len(items)
  BY <1>1, BodyParts DEF Tree
<1>3. Children(p) = L[p]
  BY <1>2, ChildrenAre
<1>4. /\ L[p] \in Seq(1 .. Len(items)) /\ Len(L[p]) \in Nat
      /\ \A k \in 1 .. Len(L[p]) : L[p][k] \in 1 .. Len(items)
      /\ L[p] = <<>> <=> Len(L[p]) = 0
  BY <1>2, ListType
<1>5. \A k \in 1 .. Len(L[p]) : items[L[p][k]].prev = IF k = 1 THEN L[p][Len(L[p])] ELSE L[p][k - 1]
  BY <1>2, ListLinks
<1>6. Range(L[p]) \subseteq live
  <2>1. DOMAIN L[p] = 1 .. Len(L[p])
    BY <1>4
  <2> QED BY <1>2, <1>4, <2>1 DEF Range
<1>7. L[p] # <<>> => items[L[p][1]].prev = L[p][Len(L[p])]
  <2>1. L[p] # <<>> => 1 \in 1 .. Len(L[p])
    BY <1>4
  <2> QED BY <1>5, <2>1
<1>8. \A k \in 2 .. Len(L[p]) : items[L[p][k]].prev = L[p][k - 1]
  <2>1. \A k \in 2 .. Len(L[p]) : k \in 1 .. Len(L[p]) /\ k # 1
    BY <1>4
  <2> QED BY <1>5, <2>1
<1>9. Cardinality(Owners(p)) <= 1
  BY <1>2, OneOwner
<1> QED BY <1>3, <1>6, <1>7, <1>8, <1>9

\* After every call the lists are whole and no item hangs in two places.
THEOREM ListsWholeHolds == TreeSpec => []ListsWhole
BY TreeInvHolds, TreeListsWhole, PTL

\* A reply for which no allocation failed is freed to the last item.
THEOREM NothingStaysHolds == TreeSpec => []NothingStays
<1>1. TreeInv => NothingStays
  BY DEF TreeInv, NothingStays
<1> QED BY <1>1, TreeInvHolds, PTL

\* The tags of the invariant say what is shown.
LEMMA TreeReplyTrue == TreeInv => ReplyTrue
<1> SUFFICES ASSUME TreeInv, pc = "print", object # 0
             PROVE  /\ failures = 0 => Strings(Children(object)) = Keys
                    /\ \A s \in Listed(object) :
                         LET key == items[s].string
                         IN  /\ failures = 0 => Strings(Children(s)) = Counters \o <<"latency">>
                             /\ \A c \in Listed(s) :
                                  IF items[c].type = "number"
                                  THEN items[c].value = <<key, items[c].string>>
                                  ELSE LET shown == UNION {Listed(b) : b \in Listed(c)}
                                       IN  /\ \A b \in shown : items[b].value = <<key, items[b].string>>
                                           /\ failures = 0 => {items[b].string : b \in shown}
                                                                = {latency_buckets[b] : b \in Nonzero[key]}
  BY DEF ReplyTrue
<1> DEFINE N == Len(items)
<1>1. PICK L, G : Tree(L, G)
  BY DEF TreeInv
<1>2. /\ Body(items, L, G) /\ Listing(items, L) /\ N \in Nat /\ Roots(L, G)
      /\ \A q \in 1 .. N : items[q].type = TypeOf(G[q].kind)
  BY <1>1, BodyParts DEF Tree
<1>3. object \in 1 .. N /\ G[object].kind = "root"
  BY <1>2 DEF Roots
<1>4. Stats = 0 /\ Latency = 0 /\ Bucket = 0
  BY DEF Stats, Latency, Bucket, StatsAt, LatAt, BucketAt
<1>5. ASSUME NEW p \in 1 .. N
      PROVE  Strings(Children(p)) = Shown(items, L[p])
  <2>1. Children(p) = L[p] /\ L[p] \in Seq(1 .. N)
    BY <1>2, ChildrenAre, ListType
  <2>2. DOMAIN L[p] = 1 .. Len(L[p])
    BY <2>1
  <2> QED BY <2>1, <2>2 DEF Strings, Shown
<1>6. ASSUME NEW p \in 1 .. N, NEW q \in Listed(p)
      PROVE  q \in 1 .. N /\ In(L, p, q) /\ MayHang(G[p], G[q]) /\ Tells(items[q], G[q])
  <2>1. In(L, p, q)
    BY <1>2, <1>6, ListedAre
  <2> QED BY <1>2, <2>1, BodyParts DEF In
<1>7. ASSUME failures = 0 PROVE Strings(Children(object)) = Keys
  <2>1. Shown(items, L[object]) = SubSeq(Keys, 1, e - 1)
    BY <1>1, <1>7 DEF Tree, Whole, RootWhole
  <2>2. TypeInv /\ e = Len(Keys) + 1
    BY DEF TreeInv, TypeInv
  <2>3. Len(Keys) \in Nat /\ Keys \in Seq(STRING)
    BY <2>2, KeyNames
  <2>4. e - 1 = Len(Keys)
    BY <2>2, <2>3
  <2>5. SubSeq(Keys, 1, Len(Keys)) = Keys
    BY <2>3, Prefixes
  <2> QED BY <1>3, <1>5, <2>1, <2>4, <2>5
<1>8. ASSUME NEW s \in Listed(object)
      PROVE  s \in 1 .. N /\ G[s].kind = "stats" /\ items[s].string = G[s].key
  <2>1. s \in 1 .. N /\ MayHang(G[object], G[s]) /\ Tells(items[s], G[s])
    BY <1>3, <1>6
  <2> QED BY <1>3, <2>1 DEF MayHang, Tells
<1>9. ASSUME NEW s \in Listed(object), failures = 0
      PROVE  Strings(Children(s)) = Counters \o <<"latency">>
  <2>1. s \in 1 .. N /\ G[s].kind = "stats" /\ s # Stats
    BY <1>2, <1>4, <1>8
  <2>2. Shown(items, L[s]) = Counters \o <<"latency">>
    BY <1>1, <1>9, <2>1 DEF Tree, Whole, StatsWhole
  <2> QED BY <1>5, <2>1, <2>2
<1>10. ASSUME NEW s \in Listed(object), NEW c \in Listed(s)
       PROVE  /\ c \in 1 .. N /\ G[c].key = items[s].string
              /\ IF items[c].type = "number" THEN items[c].value = <<items[s].string, items[c].string>>
                 ELSE G[c].kind = "latency"
  <2>1. s \in 1 .. N /\ G[s].kind = "stats" /\ items[s].string = G[s].key
    BY <1>8
  <2>2. c \in 1 .. N /\ MayHang(G[s], G[c]) /\ Tells(items[c], G[c])
    BY <1>6, <2>1
  <2>3. G[c].kind \in {"counter", "latency"} /\ G[c].key = G[s].key
    BY <2>1, <2>2 DEF MayHang
  <2>4. items[c].type = TypeOf(G[c].kind)
    BY <1>2, <2>2
  <2>5. CASE G[c].kind = "counter"
    <3>1. items[c].type = "number"
      BY <2>4, <2>5 DEF TypeOf, Numbers
    <3> QED BY <2>1, <2>2, <2>3, <2>5, <3>1 DEF Tells, Numbers
  <2>6. CASE G[c].kind = "latency"
    <3>1. items[c].type # "number"
      BY <2>4, <2>6 DEF TypeOf
    <3> QED BY <2>1, <2>2, <2>3, <2>6, <3>1
  <2> QED BY <2>3, <2>5, <2>6
<1>11. ASSUME NEW c \in 1 .. N, G[c].kind = "latency"
       PROVE  LET shown == UNION {Listed(b) : b \in Listed(c)}
              IN  /\ \A b \in shown : items[b].value = <<G[c].key, items[b].string>>
                  /\ failures = 0 => {items[b].string : b \in shown} = {latency_buckets[b] : b \in Nonzero[G[c].key]}
  <2> DEFINE shown == UNION {Listed(b) : b \in Listed(c)}
  <2>1. ASSUME NEW d \in Listed(c)
        PROVE  d \in 1 .. N /\ In(L, c, d) /\ G[d].kind = "bucket" /\ G[d].key = G[c].key
    BY <1>6, <1>11 DEF MayHang
  <2>2. ASSUME NEW d \in Listed(c), NEW b \in Listed(d)
        PROVE  items[b].value = <<G[c].key, items[b].string>> /\ items[b].string = latency_buckets[G[d].bucket]
    <3>1. d \in 1 .. N /\ G[d].kind = "bucket" /\ G[d].key = G[c].key
      BY <2>1
    <3>2. MayHang(G[d], G[b]) /\ Tells(items[b], G[b])
      BY <1>6, <3>1
    <3>3. G[b].kind = "count" /\ G[b].key = G[c].key /\ G[b].bucket = G[d].bucket
      BY <3>1, <3>2 DEF MayHang
    <3> QED BY <3>2, <3>3 DEF Tells, Numbers
  <2>3. ASSUME failures = 0
        PROVE  {items[b].string : b \in shown} = {latency_buckets[b] : b \in Nonzero[G[c].key]}
    <3>1. InBuckets(G, L[c]) = Nonzero[G[c].key]
      <4>1. c # Latency
        BY <1>2, <1>4
      <4> QED BY <1>1, <1>11, <2>3, <4>1 DEF Tree, Whole, LatencyWhole
    <3>2. \A j : j \in Nonzero[G[c].key] <=> \E d \in Listed(c) : j = G[d].bucket
      <4>1. \A d : d \in Listed(c) <=> In(L, c, d)
        BY <1>2, ListedAre
      <4> QED BY <3>1, <4>1 DEF InBuckets, In
    <3>3. ASSUME NEW d \in Listed(c) PROVE \E b \in Listed(d) : TRUE
      <4>1. d \in 1 .. N /\ G[d].kind = "bucket"
        BY <2>1
      <4>2. L[d] # <<>>
        BY <1>1, <2>3, <4>1 DEF Tree, Whole, BucketWhole
      <4>3. Len(L[d]) \in Nat /\ Len(L[d]) # 0
        BY <1>2, <4>1, <4>2, ListType
      <4>4. 1 \in 1 .. Len(L[d])
        BY <4>3
      <4>5. In(L, d, L[d][1])
        BY <4>4 DEF In
      <4>6. L[d][1] \in Listed(d)
        BY <1>2, <4>1, <4>5, ListedAre
      <4> QED BY <4>6
    <3>4. ASSUME NEW j \in Nonzero[G[c].key]
          PROVE  \E b \in shown : items[b].string = latency_buckets[j]
      <4>1. PICK d \in Listed(c) : j = G[d].bucket
        BY <3>2
      <4>2. PICK b \in Listed(d) : TRUE
        BY <3>3
      <4>3. items[b].string = latency_buckets[j]
        BY <2>2, <4>1
      <4> QED BY <4>3
    <3>5. ASSUME NEW b \in shown
          PROVE  \E j \in Nonzero[G[c].key] : items[b].string = latency_buckets[j]
      <4>1. PICK d \in Listed(c) : b \in Listed(d)
        OBVIOUS
      <4>2. G[d].bucket \in Nonzero[G[c].key]
        BY <3>2
      <4> QED BY <2>2, <4>1, <4>2
    <3> HIDE DEF shown
    <3> QED BY <3>4, <3>5
  <2>4. \A b \in shown : items[b].value = <<G[c].key, items[b].string>>
    BY <2>2
  <2> QED BY <2>3, <2>4
<1>12. ASSUME NEW s \in Listed(object), NEW c \in Listed(s), items[c].type # "number"
       PROVE  LET shown == UNION {Listed(b) : b \in Listed(c)}
              IN  /\ \A b \in shown : items[b].value = <<items[s].string, items[b].string>>
                  /\ failures = 0 => {items[b].string : b \in shown} = {latency_buckets[b] : b \in Nonzero[items[s].string]}
  <2>1. c \in 1 .. N /\ G[c].key = items[s].string /\ G[c].kind = "latency"
    BY <1>10, <1>12
  <2> QED BY <1>11, <2>1
<1> QED BY <1>7, <1>9, <1>10, <1>12

\* The reply shows no number under another's name, and every number if no
\* allocation failed.
THEOREM ReplyTrueHolds == TreeSpec => []ReplyTrue
BY TreeInvHolds, TreeReplyTrue, PTL

-----------------------------------------------------------------------------
(* PrintBuffer *)

\* What a byte of the buffer may be.
AllBytes == Characters \cup {NUL, Garbage}

Puts ==
  [op : {"put"}, need : Nat, text : Seq(Characters), nul : BOOLEAN, advance : Nat]

\* The inductive invariant.
IInv ==
  /\ program \in Programs
  /\ pos \in Nat \ {0}
  /\ offset \in Nat /\ high \in Nat
  /\ state \in {"start", "print", "fail", "done"}
  /\ state = "start" => offset = 0 /\ high = 0 /\ pos = 1
  /\ state = "print" => buffer \in Seq(AllBytes)
  /\ WritesInBuffer
  /\ StrlenStops

LEMMA Sizes ==
  default_buffer_size \in Nat \ {0} /\ INT_MAX \in Nat /\ default_buffer_size <= INT_MAX
BY PrintAssumption, Zenon

\* The steps of a program.
LEMMA ProgramTypes ==
  ASSUME NEW prog \in Programs
  PROVE  /\ Len(prog) \in Nat /\ DOMAIN prog = 1 .. Len(prog)
         /\ \A k \in DOMAIN prog : prog[k] \in Puts \cup {Update}
<1>1. Programs \subseteq Seq(Puts \cup {Update})
  BY PrintAssumption, Zenon DEF Puts
<1>2. prog \in Seq(Puts \cup {Update})
  BY <1>1, Zenon
<1> HIDE DEF Puts, Update
<1> QED BY <1>2

LEMMA ByteTypes ==
  /\ NUL \in AllBytes /\ Garbage \in AllBytes /\ Characters \subseteq AllBytes
  /\ Garbage \notin Characters
<1>1. Garbage \notin Characters
  BY PrintAssumption, Zenon
<1> QED BY <1>1, Zenon DEF AllBytes

\* A put of a program: its bytes fit what it reserves and the byte behind.
LEMMA PutFacts ==
  ASSUME NEW prog \in Programs, NEW k \in DOMAIN prog, prog[k].op = "put"
  PROVE  /\ prog[k].need \in Nat /\ prog[k].advance \in Nat
         /\ prog[k].text \in Seq(Characters)
         /\ Bytes(prog[k]) \in Seq(AllBytes)
         /\ Len(Bytes(prog[k])) <= prog[k].need + 1
         /\ prog[k].advance <= prog[k].need
<1>1. prog[k] \in Puts
  <2>1. prog[k] \in Puts \cup {Update}
    BY ProgramTypes
  <2>2. Update.op # "put"
    BY DEF Update
  <2> QED BY <2>1, <2>2, Zenon
<1>2. /\ prog[k].need \in Nat /\ prog[k].advance \in Nat
      /\ prog[k].text \in Seq(Characters)
  BY <1>1 DEF Puts
<1>3. Bytes(prog[k]) \in Seq(AllBytes)
  <2>1. prog[k].text \in Seq(AllBytes)
    BY <1>2, ByteTypes
  <2>2. (IF prog[k].nul THEN <<NUL>> ELSE <<>>) \in Seq(AllBytes)
    <3>1. <<NUL>> \in Seq(AllBytes) /\ <<>> \in Seq(AllBytes)
      BY ByteTypes
    <3> QED BY <3>1, Zenon
  <2> QED BY <2>1, <2>2, ConcatProperties, Zenon DEF Bytes
<1>4. Len(Bytes(prog[k])) <= prog[k].need + 1 /\ prog[k].advance <= prog[k].need
  BY DisciplineAssumption, Zenon
<1> QED BY <1>2, <1>3, <1>4, Zenon

\* A call of update_offset follows a put that terminated its text.
LEMMA UpdateFacts ==
  ASSUME NEW prog \in Programs, NEW k \in Nat,
         k + 1 \in DOMAIN prog, prog[k + 1].op = "update"
  PROVE  /\ k > 0 /\ prog[k].op = "put" /\ prog[k].nul
         /\ prog[k].advance <= Len(prog[k].text)
<1>1. prog[k + 1].op # "put" /\ (k + 1) - 1 = k /\ (k + 1 > 1 => k > 0)
  OBVIOUS
<1>2. IF prog[k + 1].op = "put"
      THEN /\ Len(Bytes(prog[k + 1])) <= prog[k + 1].need + 1
           /\ prog[k + 1].advance <= prog[k + 1].need
      ELSE /\ k + 1 > 1 /\ prog[(k + 1) - 1].op = "put"
           /\ prog[(k + 1) - 1].nul /\ prog[(k + 1) - 1].advance <= Len(prog[(k + 1) - 1].text)
  BY DisciplineAssumption, Zenon
<1> QED BY <1>1, <1>2, Zenon

\* The bytes of a terminated text: no garbage, and a NUL behind it.
LEMMA TerminatedBytes ==
  ASSUME NEW put, put.text \in Seq(Characters), put.nul
  PROVE  /\ Len(put.text) \in Nat
         /\ Len(Bytes(put)) = Len(put.text) + 1
         /\ Bytes(put)[Len(put.text) + 1] = NUL
         /\ \A j \in 1 .. Len(put.text) + 1 : Bytes(put)[j] # Garbage
<1> DEFINE t == put.text
<1>1. NUL # Garbage
  BY DEF NUL, Garbage
<1>2. Bytes(put) = t \o <<NUL>>
  BY DEF Bytes
<1>3. /\ Len(t) \in Nat
      /\ \A j \in 1 .. Len(t) : t[j] # Garbage
  <2> HIDE DEF t
  <2>1. t \in Seq(Characters)
    BY DEF t
  <2> QED BY <2>1, ByteTypes
<1>4. t \in Seq(AllBytes) /\ <<NUL>> \in Seq(AllBytes)
  <2>1. t \in Seq(Characters)
    OBVIOUS
  <2> HIDE DEF t
  <2> QED BY <2>1, ByteTypes
<1> HIDE DEF t
<1>5. /\ Len(t \o <<NUL>>) = Len(t) + 1
      /\ \A i \in 1 .. Len(t) + 1 : (t \o <<NUL>>)[i] =
           IF i <= Len(t) THEN t[i] ELSE NUL
  BY <1>3, <1>4
<1>6. (t \o <<NUL>>)[Len(t) + 1] = NUL
  BY <1>3, <1>5
<1>7. \A j \in 1 .. Len(t) + 1 : (t \o <<NUL>>)[j] # Garbage
  BY <1>1, <1>3, <1>5
<1> QED BY <1>2, <1>3, <1>5, <1>6, <1>7 DEF t

\* A put on a buffer with room for what it reserves and one byte more.
LEMMA WrittenKeeps ==
  ASSUME program \in Programs, pos \in DOMAIN program, program[pos].op = "put",
         offset \in Nat, high \in Nat, state = "print",
         NEW b \in Seq(AllBytes), high <= Len(b), Len(b) <= INT_MAX,
         program[pos].need + offset + 1 <= Len(b),
         Written(b)
  PROVE  IInv'
<1> DEFINE put == program[pos]
           bytes == Bytes(put)
           l == Len(bytes)
           sz == Len(b)
<1>1. /\ put.need \in Nat /\ put.advance \in Nat /\ put.text \in Seq(Characters)
      /\ bytes \in Seq(AllBytes) /\ l <= put.need + 1 /\ put.advance <= put.need
  BY PutFacts
<1>2. l \in Nat /\ sz \in Nat /\ pos \in Nat \ {0}
  <2>1. pos \in Nat \ {0}
    BY ProgramTypes
  <2> QED BY <1>1, <2>1
<1>3. /\ buffer' = [j \in 1 .. sz |->
                      IF j \in offset + 1 .. offset + l THEN bytes[j - offset] ELSE b[j]]
      /\ high' = IF offset + l > high THEN offset + l ELSE high
      /\ offset' = offset + put.advance
      /\ pos' = pos + 1
      /\ program' = program /\ state' = state
  BY DEF Written
<1> HIDE DEF put, bytes, l, sz
<1>4. offset + l <= sz /\ offset + put.advance < sz
  BY <1>1, <1>2 DEF put, sz
<1>5. buffer' \in [1 .. sz -> AllBytes]
  <2>1. ASSUME NEW j \in offset + 1 .. offset + l PROVE bytes[j - offset] \in AllBytes
    <3>1. j - offset \in 1 .. l
      BY <1>2
    <3> QED BY <1>1, <3>1 DEF l
  <2>2. ASSUME NEW j \in 1 .. sz PROVE b[j] \in AllBytes
    BY DEF sz
  <2> QED BY <1>3, <2>1, <2>2
<1>6. buffer' \in Seq(AllBytes) /\ Len(buffer') = sz
  BY <1>2, <1>5
<1>7. WritesInBuffer'
  <2>1. high' <= sz /\ sz <= INT_MAX /\ offset' < sz
    BY <1>2, <1>3, <1>4 DEF sz
  <2> QED BY <1>6, <2>1 DEF WritesInBuffer
<1>8. StrlenStops'
  <2> SUFFICES ASSUME AtUpdate'
               PROVE  \E stop \in Ends' : \A j \in offset' + 1 .. stop : buffer'[j] # Garbage
    BY DEF StrlenStops
  <2>1. pos + 1 \in DOMAIN program /\ program[pos + 1].op = "update"
    <3>1. pos + 1 <= Len(program) /\ program[pos + 1].op = "update"
      BY <1>3 DEF AtUpdate
    <3>2. Len(program) \in Nat /\ DOMAIN program = 1 .. Len(program)
      BY ProgramTypes
    <3> QED BY <1>2, <3>1, <3>2
  <2>2. put.nul /\ put.advance <= Len(put.text)
    <3>1. pos \in Nat
      BY <1>2
    <3>2. program[pos].nul /\ program[pos].advance <= Len(program[pos].text)
      BY <2>1, <3>1, UpdateFacts, Zenon
    <3> QED BY <3>2, Zenon DEF put
  <2> DEFINE m == Len(put.text)
             stop == offset + m + 1
  <2>3. /\ m \in Nat /\ l = m + 1 /\ bytes[m + 1] = NUL
        /\ \A j \in 1 .. m + 1 : bytes[j] # Garbage
    BY <1>1, <2>2, TerminatedBytes DEF bytes, l
  <2> HIDE DEF m
  <2>4. \A j \in offset + 1 .. stop : buffer'[j] = bytes[j - offset] /\ j - offset \in 1 .. m + 1
    <3>1. ASSUME NEW j \in offset + 1 .. stop
          PROVE  j \in 1 .. sz /\ j \in offset + 1 .. offset + l /\ j - offset \in 1 .. m + 1
      BY <1>2, <1>4, <2>3
    <3> QED BY <1>3, <3>1
  <2>5. stop \in offset + 1 .. stop /\ stop - offset = m + 1
    BY <2>3
  <2>6. buffer'[stop] = NUL
    BY <2>3, <2>4, <2>5
  <2>7. stop \in offset' + 1 .. sz
    <3>1. offset' = offset + put.advance
      BY <1>3, Zenon
    <3>2. put.advance \in Nat /\ put.advance <= m /\ offset + (m + 1) <= sz
      BY <1>1, <1>4, <2>2, <2>3 DEF m
    <3> QED BY <1>2, <2>3, <3>1, <3>2, SMTT(30)
  <2>8. stop \in Ends'
    BY <1>6, <2>6, <2>7 DEF Ends
  <2>9. ASSUME NEW j \in offset' + 1 .. stop PROVE buffer'[j] # Garbage
    <3>1. j \in offset + 1 .. stop
      BY <1>1, <1>3, <2>3
    <3> QED BY <2>3, <2>4, <3>1
  <2> QED BY <2>8, <2>9
<1>9. /\ program' \in Programs /\ pos' \in Nat \ {0} /\ offset' \in Nat /\ high' \in Nat
      /\ state' = "print"
  <2>1. program' \in Programs /\ state' = "print"
    BY <1>3, Zenon
  <2>2. pos' \in Nat \ {0} /\ offset' \in Nat
    <3>1. pos' = pos + 1 /\ offset' = offset + put.advance
      BY <1>3, Zenon
    <3> QED BY <1>1, <1>2, <3>1, SMTT(30)
  <2>3. high' \in Nat
    BY <1>2, <1>3
  <2> QED BY <2>1, <2>2, <2>3
<1> QED BY <1>6, <1>7, <1>8, <1>9 DEF IInv

LEMMA InvInit == Init => IInv
<1> SUFFICES ASSUME Init PROVE IInv
  OBVIOUS
<1>1. ~AtUpdate
  BY DEF Init, AtUpdate
<1> QED BY <1>1 DEF Init, IInv, WritesInBuffer, StrlenStops

\* A step out of "print" leaves nothing to show about the buffer.
LEMMA EndKeeps ==
  ASSUME IInv, UNCHANGED <<program, pos, offset, high>>, state' \in {"fail", "done"}
  PROVE  IInv'
<1>1. ~AtUpdate'
  BY DEF AtUpdate
<1> QED BY <1>1 DEF IInv, WritesInBuffer, StrlenStops

LEMMA InvStep == IInv /\ [Next]_vars => IInv'
<1> SUFFICES ASSUME IInv, [Next]_vars PROVE IInv'
  OBVIOUS
<1>1. CASE Allocate /\ state' = "print"
  <2>1. /\ buffer' = Fresh(default_buffer_size) /\ state = "start"
        /\ UNCHANGED <<program, pos, offset, high>>
    BY <1>1 DEF Allocate
  <2>2. buffer' \in Seq(AllBytes) /\ Len(buffer') = default_buffer_size
    <3>1. buffer' \in [1 .. default_buffer_size -> AllBytes]
      BY <2>1, ByteTypes DEF Fresh
    <3> QED BY <3>1, Sizes
  <2>3. offset = 0 /\ high = 0 /\ pos = 1
    BY <2>1 DEF IInv
  <2>4. ~AtUpdate'
    <3>1. SUFFICES ASSUME AtUpdate' PROVE FALSE
      OBVIOUS
    <3>2. 1 \in DOMAIN program /\ program[1].op = "update"
      <4>1. 1 <= Len(program) /\ program[1].op = "update"
        BY <2>1, <2>3, <3>1 DEF AtUpdate
      <4>2. Len(program) \in Nat /\ DOMAIN program = 1 .. Len(program)
        BY ProgramTypes DEF IInv
      <4> QED BY <4>1, <4>2
    <3>3. program \in Programs
      BY DEF IInv
    <3>4. 0 \in Nat /\ 0 + 1 = 1
      OBVIOUS
    <3>5. 0 > 0
      BY <3>2, <3>3, <3>4, UpdateFacts
    <3> QED BY <3>5
  <2> QED BY <1>1, <2>1, <2>2, <2>3, <2>4, Sizes DEF IInv, WritesInBuffer, StrlenStops
<1>2. CASE Allocate /\ state' = "fail"
  BY <1>2, EndKeeps DEF Allocate
<1>3. CASE AtPut
  <2>1. /\ program \in Programs /\ pos \in DOMAIN program /\ program[pos].op = "put"
        /\ offset \in Nat /\ high \in Nat /\ state = "print"
    <3>1. Len(program) \in Nat /\ DOMAIN program = 1 .. Len(program)
      BY ProgramTypes DEF IInv
    <3> QED BY <1>3, <3>1 DEF AtPut, IInv
  <2>2. /\ buffer \in Seq(AllBytes) /\ Len(buffer) \in Nat /\ INT_MAX \in Nat
        /\ high <= Len(buffer) /\ Len(buffer) <= INT_MAX
    <3>1. buffer \in Seq(AllBytes)
      BY <2>1 DEF IInv
    <3> QED BY <2>1, <3>1, Sizes DEF IInv, WritesInBuffer
  <2>3. program[pos].need \in Nat
    BY <2>1, PutFacts
  <2>4. CASE PutFits
    <3>1. Written(buffer) /\ program[pos].need + offset + 1 <= Len(buffer)
      BY <2>4 DEF PutFits, Fits, Needed
    <3> QED BY <2>1, <2>2, <3>1, WrittenKeeps
  <2>5. CASE PutGrows
    <3> DEFINE b == [j \in 1 .. NewSize |-> IF j <= Len(buffer) THEN buffer[j] ELSE Garbage]
    <3>1. Written(b) /\ ~(Needed <= Len(buffer)) /\ Needed <= INT_MAX
      BY <2>5 DEF PutGrows, Fits
    <3>2. Needed \in Nat
      BY <2>1, <2>3 DEF Needed
    <3>3. NewSize \in Nat /\ Needed <= NewSize /\ NewSize <= INT_MAX /\ Len(buffer) <= NewSize
      <4> HIDE DEF Needed
      <4> QED BY <2>2, <3>1, <3>2 DEF NewSize
    <3>4. b \in [1 .. NewSize -> AllBytes]
      <4>1. ASSUME NEW j \in 1 .. NewSize, j <= Len(buffer) PROVE buffer[j] \in AllBytes
        <5>1. j \in 1 .. Len(buffer)
          <6> HIDE DEF NewSize
          <6> QED BY <2>2, <3>3, <4>1
        <5> QED BY <2>2, <5>1
      <4> QED BY <4>1, ByteTypes
    <3> HIDE DEF b
    <3>5. b \in Seq(AllBytes) /\ Len(b) = NewSize
      BY <3>3, <3>4
    <3>6. /\ high <= Len(b) /\ Len(b) <= INT_MAX
          /\ program[pos].need + offset + 1 <= Len(b)
      BY <2>1, <2>2, <3>3, <3>5 DEF Needed
    <3> QED BY <2>1, <3>1, <3>5, <3>6, WrittenKeeps
  <2>6. CASE GrowFails
    BY <2>6, EndKeeps DEF GrowFails
  <2>7. CASE TooLong
    BY <2>7, EndKeeps DEF TooLong
  <2>8. state # "start" /\ ~AtUpdate /\ state # "fail" /\ ~(pos > Len(program))
    <3>1. pos \in Nat /\ Len(program) \in Nat
      BY <2>1, ProgramTypes
    <3> QED BY <1>3, <2>1, <3>1 DEF AtPut, AtUpdate
  <2>9. CASE UNCHANGED vars
    BY <2>9 DEF vars, IInv, WritesInBuffer, StrlenStops, AtUpdate, Ends
  <2> QED BY <2>4, <2>5, <2>6, <2>7, <2>8, <2>9
          DEF Next, Allocate, update_offset, Finish, Fail
<1>4. CASE update_offset
  <2>1. /\ program \in Programs /\ pos \in Nat \ {0} /\ offset \in Nat /\ high \in Nat
        /\ state = "print" /\ AtUpdate /\ buffer \in Seq(AllBytes)
        /\ pos \in DOMAIN program /\ program[pos].op = "update"
    <3>1. Len(program) \in Nat /\ DOMAIN program = 1 .. Len(program)
      BY ProgramTypes DEF IInv
    <3> QED BY <1>4, <3>1 DEF update_offset, AtUpdate, IInv
  <2>2. /\ offset' = (CHOOSE j \in Ends : \A k \in Ends : j <= k) - 1
        /\ pos' = pos + 1 /\ UNCHANGED <<program, buffer, high, state>>
    BY <1>4 DEF update_offset
  <2>3. Ends # {} /\ Ends \subseteq offset + 1 .. Len(buffer) /\ Ends \in SUBSET Nat
    <3>1. Ends # {}
      BY <2>1 DEF IInv, StrlenStops
    <3>2. Ends \subseteq offset + 1 .. Len(buffer)
      BY DEF Ends
    <3> HIDE DEF Ends
    <3> QED BY <2>1, <3>1, <3>2
  <2>4. PICK z \in Ends : \A k \in Ends : z <= k
    <3> HIDE DEF Ends
    <3> QED BY <2>3, LeastNat
  <2>5. (CHOOSE j \in Ends : \A k \in Ends : j <= k) \in Ends
    <3> HIDE DEF Ends
    <3> QED BY <2>4
  <2>6. offset' \in Nat /\ offset' < Len(buffer)
    <3> HIDE DEF Ends
    <3>1. PICK y \in Ends : offset' = y - 1
      BY <2>2, <2>5, Zenon
    <3>2. y \in offset + 1 .. Len(buffer) /\ Len(buffer) \in Nat
      BY <2>1, <2>3, <3>1
    <3> QED BY <2>1, <3>1, <3>2
  <2>7. ~AtUpdate'
    <3> SUFFICES ASSUME AtUpdate' PROVE FALSE
      OBVIOUS
    <3>1. pos + 1 \in DOMAIN program /\ program[pos + 1].op = "update"
      <4>1. pos + 1 <= Len(program) /\ program[pos + 1].op = "update"
        BY <2>2 DEF AtUpdate
      <4>2. Len(program) \in Nat /\ DOMAIN program = 1 .. Len(program)
        BY <2>1, ProgramTypes
      <4> QED BY <2>1, <4>1, <4>2
    <3>2. "update" # "put"
      OBVIOUS
    <3>3. pos \in Nat
      BY <2>1
    <3>4. program[pos].op = "put"
      BY <2>1, <3>1, <3>3, UpdateFacts, Zenon
    <3> QED BY <2>1, <3>2, <3>4
  <2>8. high <= Len(buffer) /\ Len(buffer) <= INT_MAX
    BY <2>1 DEF IInv, WritesInBuffer
  <2>9. WritesInBuffer' /\ StrlenStops'
    BY <2>2, <2>6, <2>7, <2>8 DEF WritesInBuffer, StrlenStops
  <2>10. pos' \in Nat \ {0}
    BY <2>1, <2>2
  <2> QED BY <2>1, <2>2, <2>6, <2>9, <2>10 DEF IInv
<1>5. CASE Finish
  <2>1. CASE state' \in {"fail", "done"}
    BY <1>5, <2>1, EndKeeps DEF Finish
  <2> QED BY <1>5, <2>1 DEF Finish
<1>6. CASE Fail
  BY <1>6, EndKeeps DEF Fail
<1>7. CASE UNCHANGED vars
  BY <1>7 DEF vars, IInv, WritesInBuffer, StrlenStops, AtUpdate, Ends
<1> QED BY <1>1, <1>2, <1>3, <1>4, <1>5, <1>6, <1>7
        DEF Next, Allocate, PutFits, PutGrows, GrowFails, TooLong

\* Printing functions that keep the discipline never write outside the buffer,
\* whatever they print and however it grows.
THEOREM WritesInBufferHolds == Spec => []WritesInBuffer
<1>1. IInv => WritesInBuffer
  BY DEF IInv
<1> QED BY <1>1, InvInit, InvStep, PTL DEF Spec

\* The strlen of update_offset always ends inside what was written.
THEOREM StrlenStopsHolds == Spec => []StrlenStops
<1>1. IInv => StrlenStops
  BY DEF IInv
<1> QED BY <1>1, InvInit, InvStep, PTL DEF Spec

-----------------------------------------------------------------------------
(* The text that is printed *)

\* The texts of the steps so far end at z, where update_offset will find their
\* NUL, or where the offset is already.
EndsAt(z) ==
  /\ z \in Nat /\ offset <= z /\ z < Len(buffer)
  /\ \A j \in offset + 1 .. z : buffer[j] # NUL
  /\ ~AtUpdate => offset = z
  /\ pos > 1 /\ (AtUpdate \/ program[pos - 1].op = "update") => buffer[z + 1] = NUL

TextInv ==
  /\ pos <= Len(program) + 1
  /\ state = "print" => \E at : LaidOut(buffer, pos - 1, at) /\ EndsAt(at[pos - 1])
  /\ TextsPrinted

\* The text of a step is a text.
LEMMA StepText ==
  ASSUME NEW prog \in Programs, NEW k \in DOMAIN prog
  PROVE  /\ TextOf(prog[k]) \in Seq(Characters) /\ Len(TextOf(prog[k])) \in Nat
         /\ prog[k].op = "put" \/ prog[k].op = "update"
<1>1. prog[k] \in Puts \cup {Update}
  BY ProgramTypes
<1>2. prog[k].op = "put" \/ prog[k].op = "update"
  BY <1>1 DEF Puts, Update
<1>3. TextOf(prog[k]) \in Seq(Characters)
  <2>1. CASE prog[k].op = "put"
    BY <2>1, PutFacts DEF TextOf
  <2>2. CASE prog[k].op # "put"
    BY <2>2 DEF TextOf
  <2> QED BY <2>1, <2>2
<1>4. Len(TextOf(prog[k])) \in Nat
  <2> DEFINE t == TextOf(prog[k])
  <2> HIDE DEF t
  <2>1. t \in Seq(Characters)
    BY <1>3 DEF t
  <2>2. Len(t) \in Nat
    BY <2>1
  <2> QED BY <2>2 DEF t
<1> QED BY <1>2, <1>3, <1>4

\* The bytes c have what b has of i steps' texts, and behind it the text t.
Follows(b, c, i, at, t) ==
  /\ i \in Nat /\ i + 1 \in DOMAIN program /\ t = TextOf(program[i + 1])
  /\ LaidOut(b, i, at) /\ Len(b) \in Nat /\ Len(c) \in Nat
  /\ at[i] + Len(t) <= Len(c)
  /\ \A j \in 1 .. at[i] : c[j] = b[j]
  /\ \A j \in 1 .. Len(t) : c[at[i] + j] = t[j]

\* One text more, on a buffer that kept the ones before it.
LEMMA LaidMore ==
  ASSUME program \in Programs, NEW b, NEW c, NEW i, NEW at, NEW t, Follows(b, c, i, at, t)
  PROVE  \E on : LaidOut(c, i + 1, on) /\ on[i + 1] = at[i] + Len(t)
<1>0. /\ i \in Nat /\ i + 1 \in DOMAIN program /\ t = TextOf(program[i + 1])
      /\ LaidOut(b, i, at) /\ Len(b) \in Nat /\ Len(c) \in Nat
      /\ at[i] + Len(t) <= Len(c)
      /\ \A j \in 1 .. at[i] : c[j] = b[j]
      /\ \A j \in 1 .. Len(t) : c[at[i] + j] = t[j]
  BY DEF Follows
<1> USE <1>0
<1> DEFINE z == at[i]
           on == [k \in 0 .. i + 1 |-> IF k = i + 1 THEN z + Len(t) ELSE at[k]]
<1>1. Len(t) \in Nat
  BY StepText
<1>2. /\ at \in [0 .. i -> 0 .. Len(b)] /\ at[0] = 0
      /\ \A k \in 1 .. i :
           /\ at[k] = at[k - 1] + Len(TextOf(program[k])) /\ at[k] <= at[i]
           /\ \A j \in 1 .. Len(TextOf(program[k])) : b[at[k - 1] + j] = TextOf(program[k])[j]
  BY DEF LaidOut
<1>3. z \in Nat /\ \A k \in 0 .. i : at[k] \in Nat /\ at[k] <= z
  <2>0. i \in 0 .. i
    OBVIOUS
  <2>1. z \in Nat /\ \A k \in 0 .. i : at[k] \in Nat
    <3>1. \A k \in 0 .. i : at[k] \in 0 .. Len(b)
      BY <1>2, Zenon
    <3>2. \A k \in 0 .. i : at[k] \in Nat
      BY <3>1
    <3>3. z = at[i]
      OBVIOUS
    <3> HIDE DEF z
    <3> QED BY <2>0, <3>2, <3>3, Zenon
  <2>2. \A k \in 0 .. i : k = 0 \/ k \in 1 .. i
    OBVIOUS
  <2> HIDE DEF z
  <2>3. \A k \in 1 .. i : at[k] <= z
    BY <1>2 DEF z
  <2> QED BY <1>2, <2>1, <2>2, <2>3
<1>4. \A k \in 0 .. i + 1 : k = i + 1 \/ k \in 0 .. i
  OBVIOUS
<1>5. /\ on[i + 1] = z + Len(t) /\ \A k \in 0 .. i : on[k] = at[k]
      /\ on \in [0 .. i + 1 -> 0 .. Len(c)]
  <2>1. on[i + 1] = z + Len(t) /\ \A k \in 0 .. i : on[k] = at[k] /\ k # i + 1
    OBVIOUS
  <2>2. \A k \in 0 .. i + 1 : (IF k = i + 1 THEN z + Len(t) ELSE at[k]) \in 0 .. Len(c)
    <3> HIDE DEF z
    <3>1. z + Len(t) <= Len(c)
      BY DEF z
    <3>2. z + Len(t) \in 0 .. Len(c)
      BY <1>1, <1>3, <3>1
    <3>3. ASSUME NEW k \in 0 .. i PROVE at[k] \in 0 .. Len(c)
      <4>1. at[k] \in Nat /\ at[k] <= z /\ z \in Nat
        BY <1>3, Zenon
      <4> QED BY <1>1, <3>1, <4>1
    <3> QED BY <1>4, <3>2, <3>3, Zenon
  <2> QED BY <2>1, <2>2
<1> HIDE DEF on, z
<1>6. \A k \in 1 .. i + 1 : k = i + 1 \/ (k \in 1 .. i /\ k - 1 \in 0 .. i /\ k \in 0 .. i)
  OBVIOUS
<1>7. ASSUME NEW k \in 1 .. i + 1
      PROVE  /\ on[k] = on[k - 1] + Len(TextOf(program[k])) /\ on[k] <= on[i + 1]
             /\ \A j \in 1 .. Len(TextOf(program[k])) :
                  c[on[k - 1] + j] = TextOf(program[k])[j]
  <2>1. CASE k = i + 1
    <3>1. k - 1 = i /\ i \in 0 .. i
      BY <2>1
    <3>2. on[k - 1] = z
      BY <1>5, <3>1 DEF z
    <3> QED BY <1>1, <1>3, <1>5, <2>1, <3>2 DEF z
  <2>2. CASE k \in 1 .. i
    <3>0. k - 1 \in 0 .. i /\ k \in 0 .. i
      BY <2>2
    <3>1. on[k] = at[k] /\ on[k - 1] = at[k - 1]
      BY <1>5, <3>0
    <3> DEFINE s == TextOf(program[k])
    <3>2. at[k] = at[k - 1] + Len(s) /\ \A j \in 1 .. Len(s) : b[at[k - 1] + j] = s[j]
      BY <1>2, <2>2
    <3>3. Len(s) \in Nat
      <4>1. k \in DOMAIN program
        <5>1. Len(program) \in Nat /\ DOMAIN program = 1 .. Len(program)
          BY ProgramTypes
        <5> QED BY <2>2, <5>1
      <4> QED BY <4>1, StepText
    <3> HIDE DEF s
    <3>4. ASSUME NEW j \in 1 .. Len(s) PROVE c[at[k - 1] + j] = s[j]
      <4>0. at[k - 1] \in Nat /\ z \in Nat /\ at[k - 1] + Len(s) <= z
        BY <1>3, <3>0, <3>2
      <4>1. at[k - 1] + j \in 1 .. z
        BY <3>3, <4>0
      <4> QED BY <3>2, <4>1 DEF z
    <3>5. at[k] <= on[i + 1]
      BY <1>1, <1>3, <1>5, <3>0
    <3> QED BY <3>1, <3>2, <3>4, <3>5 DEF s
  <2> QED BY <1>6, <2>1, <2>2
<1>8. on[0] = 0
  BY <1>2, <1>5
<1>9. LaidOut(c, i + 1, on)
  BY <1>5, <1>7, <1>8 DEF LaidOut
<1> QED BY <1>5, <1>9 DEF z

\* What a put writes: its text, which holds no NUL, and the NUL if it says so.
LEMMA PutBytes ==
  ASSUME NEW put, put.text \in Seq(Characters)
  PROVE  /\ Len(put.text) \in Nat /\ Len(put.text) <= Len(Bytes(put)) /\ Len(Bytes(put)) \in Nat
         /\ \A j \in 1 .. Len(put.text) : Bytes(put)[j] = put.text[j] /\ put.text[j] # NUL
<1> DEFINE t == put.text
           nul == IF put.nul THEN <<NUL>> ELSE <<>>
<1>1. NUL \notin Characters
  BY PrintAssumption, Zenon
<1>2. Bytes(put) = t \o nul
  BY DEF Bytes
<1>3. t \in Seq(Characters)
  OBVIOUS
<1> HIDE DEF t
<1>4. Len(t) \in Nat /\ (\A j \in 1 .. Len(t) : t[j] # NUL) /\ t \in Seq(AllBytes)
  BY <1>1, <1>3, ByteTypes
<1>5. nul \in Seq(AllBytes)
  <2>1. <<NUL>> \in Seq(AllBytes) /\ <<>> \in Seq(AllBytes)
    BY ByteTypes
  <2> QED BY <2>1, Zenon
<1> HIDE DEF nul
<1>6. Len(t \o nul) = Len(t) + Len(nul) /\ Len(nul) \in Nat
      /\ \A j \in 1 .. Len(t) : (t \o nul)[j] = t[j]
  BY <1>4, <1>5
<1>7. Len(t) <= Len(t \o nul) /\ Len(t \o nul) \in Nat
  BY <1>4, <1>6
<1> QED BY <1>2, <1>4, <1>6, <1>7 DEF t

\* A put that moves the offset by another length than its text's is followed by a
\* call of update_offset, and so is the last put.
LEMMA AdvanceFacts ==
  ASSUME NEW prog \in Programs
  PROVE  /\ Len(prog) \in Nat \ {0} /\ prog[Len(prog)].op = "update"
         /\ \A k \in DOMAIN prog :
              prog[k].op = "put" /\ prog[k].advance # Len(prog[k].text) =>
                k < Len(prog) /\ prog[k + 1].op = "update"
<1>1. prog # <<>> /\ prog[Len(prog)].op = "update"
      /\ \A k \in DOMAIN prog :
           prog[k].op = "put" /\ prog[k].advance # Len(prog[k].text) =>
             k < Len(prog) /\ prog[k + 1].op = "update"
  BY AdvanceAssumption, Zenon
<1>2. prog \in Seq(Puts \cup {Update})
  BY PrintAssumption, Zenon DEF Puts
<1> HIDE DEF Puts, Update
<1>3. Len(prog) \in Nat \ {0}
  BY <1>1, <1>2
<1> QED BY <1>1, <1>3

\* A put lays out its text behind the others, on a buffer that has their bytes.
LEMMA PutText ==
  ASSUME IInv, TextInv, pos \in DOMAIN program, program[pos].op = "put", state = "print",
         NEW b \in Seq(AllBytes), Len(buffer) <= Len(b),
         \A j \in 1 .. Len(buffer) : b[j] = buffer[j],
         program[pos].need + offset + 1 <= Len(b),
         Written(b)
  PROVE  TextInv'
<1> DEFINE put == program[pos]
           bytes == Bytes(put)
           l == Len(bytes)
           m == Len(put.text)
           sz == Len(b)
<1>0. program \in Programs /\ offset \in Nat /\ buffer \in Seq(AllBytes)
  BY DEF IInv
<1>1. /\ put.need \in Nat /\ put.advance \in Nat /\ put.text \in Seq(Characters)
      /\ l <= put.need + 1 /\ put.advance <= put.need
  BY <1>0, PutFacts
<1>2. /\ m \in Nat /\ m <= l /\ l \in Nat
      /\ \A j \in 1 .. m : bytes[j] = put.text[j] /\ put.text[j] # NUL
  BY <1>1, PutBytes
<1>3. /\ sz \in Nat /\ Len(buffer) \in Nat /\ pos \in Nat \ {0} /\ pos - 1 \in Nat
      /\ (pos - 1) + 1 = pos /\ Len(program) \in Nat /\ DOMAIN program = 1 .. Len(program)
      /\ pos <= Len(program) /\ (pos + 1) - 1 = pos
  <2>1. pos \in Nat \ {0} /\ Len(program) \in Nat /\ DOMAIN program = 1 .. Len(program)
    BY <1>0, ProgramTypes
  <2> QED BY <1>0, <2>1
<1>4. /\ buffer' = [j \in 1 .. sz |->
                      IF j \in offset + 1 .. offset + l THEN bytes[j - offset] ELSE b[j]]
      /\ offset' = offset + put.advance
      /\ pos' = pos + 1
      /\ program' = program /\ state' = state
  BY DEF Written
<1>5. PICK at : LaidOut(buffer, pos - 1, at) /\ EndsAt(at[pos - 1])
  BY DEF TextInv
<1>6. ~AtUpdate
  BY DEF AtUpdate
<1>7. at[pos - 1] = offset
  BY <1>5, <1>6 DEF EndsAt
<1>8. TextOf(program[pos]) = put.text
  BY DEF TextOf
<1> HIDE DEF put, bytes, l, m, sz
<1>9. offset + l <= sz /\ offset + put.advance < sz /\ offset < Len(buffer)
  <2>1. offset + l <= sz /\ offset + put.advance < sz
    <3>1. put.need + offset + 1 <= sz
      BY DEF put, sz
    <3>2. l \in Nat /\ sz \in Nat
      BY <1>2, <1>3
    <3> QED BY <1>0, <1>1, <3>1, <3>2
  <2>2. offset < Len(buffer)
    BY DEF IInv, WritesInBuffer
  <2> QED BY <2>1, <2>2
<1>10. Len(buffer') = sz
  BY <1>3, <1>4
<1>11. \A j \in 1 .. m : buffer'[offset + j] = put.text[j] /\ put.text[j] # NUL
  <2>1. ASSUME NEW j \in 1 .. m
        PROVE  /\ offset + j \in 1 .. sz /\ offset + j \in offset + 1 .. offset + l
               /\ (offset + j) - offset = j
    BY <1>0, <1>2, <1>3, <1>9
  <2>2. ASSUME NEW j \in 1 .. m PROVE buffer'[offset + j] = bytes[j]
    BY <1>4, <2>1
  <2> QED BY <1>2, <2>2
<1>12. \A j \in 1 .. offset : buffer'[j] = buffer[j]
  <2>1. ASSUME NEW j \in 1 .. offset
        PROVE  j \in 1 .. sz /\ j \notin offset + 1 .. offset + l /\ j \in 1 .. Len(buffer)
    BY <1>0, <1>2, <1>3, <1>9
  <2>2. ASSUME NEW j \in 1 .. offset PROVE buffer'[j] = b[j]
    BY <1>4, <2>1
  <2> QED BY <2>1, <2>2
<1>13. \E on : LaidOut(buffer', pos, on) /\ on[pos] = offset + m
  <2>1. PICK c, o, i, t : c = buffer' /\ o = buffer /\ i = pos - 1 /\ t = put.text
    OBVIOUS
  <2>2. i \in Nat /\ i + 1 \in DOMAIN program
    BY <1>3, <2>1
  <2>3. LaidOut(o, i, at) /\ Len(o) \in Nat /\ Len(c) \in Nat
    BY <1>3, <1>5, <1>10, <2>1
  <2>4. t = TextOf(program[i + 1])
    BY <1>3, <1>8, <2>1
  <2>5. i + 1 = pos /\ at[i] = offset /\ Len(t) = m
    BY <1>3, <1>7, <2>1 DEF m
  <2>6. at[i] + Len(t) <= Len(c)
    BY <1>0, <1>2, <1>3, <1>9, <1>10, <2>1, <2>5
  <2>7. \A j \in 1 .. at[i] : c[j] = o[j]
    BY <1>12, <2>1, <2>5
  <2>8. \A j \in 1 .. Len(t) : c[at[i] + j] = t[j]
    BY <1>11, <2>1, <2>5
  <2>9. \E on : LaidOut(c, i + 1, on) /\ on[i + 1] = at[i] + Len(t)
    <3>1. Follows(o, c, i, at, t)
      BY <2>2, <2>3, <2>4, <2>6, <2>7, <2>8 DEF Follows
    <3> QED BY <1>0, <3>1, LaidMore
  <2> QED BY <2>1, <2>5, <2>9
<1>14. PICK on : LaidOut(buffer', pos, on) /\ on[pos] = offset + m
  BY <1>13
<1>15. LaidOut(buffer, pos - 1, on)'
  <2>1. pos' - 1 = pos /\ program' = program
    BY <1>3, <1>4
  <2> QED BY <1>14, <2>1, Zenon DEF LaidOut
<1>16. AtUpdate' => pos < Len(program) /\ program[pos + 1].op = "update"
  BY <1>3, <1>4 DEF AtUpdate
<1>17. ASSUME pos < Len(program), program[pos + 1].op = "update"
       PROVE  /\ put.nul /\ put.advance <= m /\ l = m + 1 /\ bytes[m + 1] = NUL
  <2>1. pos \in Nat /\ pos + 1 \in DOMAIN program
    BY <1>3, <1>17
  <2>2. put.nul /\ put.advance <= m
    BY <1>0, <1>17, <2>1, UpdateFacts, Zenon DEF put, m
  <2>3. l = m + 1 /\ bytes[m + 1] = NUL
    BY <1>1, <2>2, TerminatedBytes DEF l, m, bytes
  <2> QED BY <2>2, <2>3
<1>18. put.advance = m \/ (pos < Len(program) /\ program[pos + 1].op = "update")
  BY <1>0, AdvanceFacts DEF put, m
<1>19. pos < Len(program) /\ program[pos + 1].op = "update" => AtUpdate'
  <2>1. pos < Len(program) => pos + 1 <= Len(program)
    BY <1>3
  <2>2. state' = "print" /\ pos' = pos + 1 /\ program' = program
    BY <1>4
  <2> QED BY <2>1, <2>2 DEF AtUpdate
<1>20. put.advance <= m
  BY <1>1, <1>2, <1>17, <1>18
<1>21. offset + m < sz
  <2>1. CASE put.advance = m
    BY <1>9, <2>1
  <2>2. CASE pos < Len(program) /\ program[pos + 1].op = "update"
    BY <1>0, <1>2, <1>3, <1>9, <1>17, <2>2
  <2> QED BY <1>18, <2>1, <2>2
<1>22. ASSUME AtUpdate' PROVE buffer'[offset + m + 1] = NUL
  <2>1. l = m + 1 /\ bytes[m + 1] = NUL
    BY <1>16, <1>17, <1>22
  <2>2. /\ offset + m + 1 \in 1 .. sz /\ offset + m + 1 \in offset + 1 .. offset + l
        /\ (offset + m + 1) - offset = m + 1
    BY <1>0, <1>2, <1>3, <1>9, <2>1
  <2> QED BY <1>4, <2>1, <2>2
<1>23. program[pos].op # "update"
  OBVIOUS
<1>24. \A j \in offset' + 1 .. offset + m : buffer'[j] # NUL
  <2>1. ASSUME NEW j \in offset' + 1 .. offset + m
        PROVE  j - offset \in 1 .. m /\ offset + (j - offset) = j
    BY <1>0, <1>1, <1>2, <1>4
  <2>2. ASSUME NEW j \in offset' + 1 .. offset + m PROVE buffer'[j] # NUL
    <3>1. buffer'[offset + (j - offset)] # NUL
      BY <1>11, <2>1
    <3> QED BY <2>1, <3>1
  <2> QED BY <2>2
<1>25. EndsAt(on[pos - 1])'
  <2>1. on[pos' - 1] = offset + m
    BY <1>3, <1>4, <1>14
  <2>2. /\ offset + m \in Nat /\ offset' <= offset + m
        /\ (~AtUpdate' => offset' = offset + m)
    <3>1. offset' = offset + put.advance
      BY <1>4
    <3>2. ~AtUpdate' => put.advance = m
      BY <1>18, <1>19
    <3> QED BY <1>0, <1>1, <1>2, <1>20, <3>1, <3>2, SMTT(30)
  <2>3. program'[pos' - 1].op # "update"
    BY <1>3, <1>4, <1>23
  <2> QED BY <1>10, <1>21, <1>22, <1>24, <2>1, <2>2, <2>3 DEF EndsAt
<1>26. pos' <= Len(program') + 1 /\ state' # "done"
  BY <1>3, <1>4
<1> QED BY <1>15, <1>25, <1>26 DEF TextInv, TextsPrinted

\* The result of Finish: the texts, which the cut does not touch, and the NUL.
LEMMA FinishText ==
  ASSUME IInv, TextInv, state = "print", pos > Len(program),
         UNCHANGED <<program, pos, offset, high>>,
         buffer' = SubSeq(buffer, 1, offset + 1), state' = "done"
  PROVE  TextInv'
<1>0. program \in Programs /\ offset \in Nat /\ buffer \in Seq(AllBytes) /\ pos \in Nat \ {0}
  BY DEF IInv
<1>1. /\ Len(program) \in Nat \ {0} /\ program[Len(program)].op = "update"
      /\ Len(buffer) \in Nat
  BY <1>0, AdvanceFacts
<1>2. pos - 1 = Len(program) /\ pos > 1
  BY <1>0, <1>1 DEF TextInv
<1>3. PICK at : LaidOut(buffer, pos - 1, at) /\ EndsAt(at[pos - 1])
  BY DEF TextInv
<1>4. ~AtUpdate
  BY <1>0, <1>1, <1>2 DEF AtUpdate
<1>5. at[pos - 1] = offset /\ offset < Len(buffer) /\ buffer[offset + 1] = NUL
  <2>1. at[pos - 1] = offset
    BY <1>3, <1>4 DEF EndsAt
  <2>2. program[pos - 1].op = "update"
    BY <1>1, <1>2
  <2>3. EndsAt(offset)
    BY <1>3, <2>1
  <2> QED BY <1>2, <2>1, <2>2, <2>3 DEF EndsAt
<1>6. /\ Len(buffer') = offset + 1
      /\ \A j \in 1 .. offset + 1 : buffer'[j] = buffer[j]
  <2>1. 1 \in 1 .. Len(buffer) + 1 /\ offset + 1 \in 1 - 1 .. Len(buffer)
    BY <1>0, <1>1, <1>5
  <2>2. \A j \in 1 .. offset + 1 : 1 + j - 1 = j
    BY <1>0
  <2> QED BY <1>0, <1>1, <1>5, <2>1, <2>2
<1>7. LaidOut(buffer, Len(program), at) /\ at[Len(program)] = offset
  BY <1>2, <1>3, <1>5
<1>8. /\ at \in [0 .. Len(program) -> 0 .. Len(buffer)] /\ at[0] = 0
      /\ \A k \in 1 .. Len(program) :
           /\ at[k] = at[k - 1] + Len(TextOf(program[k])) /\ at[k] <= offset
           /\ \A j \in 1 .. Len(TextOf(program[k])) :
                buffer[at[k - 1] + j] = TextOf(program[k])[j]
  BY <1>7 DEF LaidOut
<1>9. \A k \in 0 .. Len(program) : at[k] \in Nat /\ at[k] <= offset
  <2>1. \A k \in 0 .. Len(program) : at[k] \in 0 .. Len(buffer)
    BY <1>8, Zenon
  <2>2. \A k \in 0 .. Len(program) : k = 0 \/ k \in 1 .. Len(program)
    BY <1>1
  <2> QED BY <1>0, <1>1, <1>8, <2>1, <2>2
<1>10. at \in [0 .. Len(program) -> 0 .. offset + 1]
  <2>1. \A k \in 0 .. Len(program) : at[k] \in 0 .. offset + 1
    BY <1>0, <1>9
  <2> QED BY <1>8, <2>1
<1>11. ASSUME NEW k \in 1 .. Len(program), NEW j \in 1 .. Len(TextOf(program[k]))
       PROVE  buffer'[at[k - 1] + j] = TextOf(program[k])[j]
  <2> DEFINE s == TextOf(program[k])
  <2>1. Len(s) \in Nat
    <3>1. k \in DOMAIN program
      BY <1>0, ProgramTypes
    <3> QED BY <1>0, <3>1, StepText
  <2>2. at[k] = at[k - 1] + Len(s) /\ buffer[at[k - 1] + j] = s[j]
    BY <1>8
  <2>3. k - 1 \in 0 .. Len(program) /\ k \in 0 .. Len(program)
    BY <1>1
  <2>4. at[k - 1] \in Nat /\ at[k - 1] + Len(s) <= offset
    BY <1>9, <2>2, <2>3
  <2> HIDE DEF s
  <2>5. at[k - 1] + j \in 1 .. offset + 1
    <3>1. j \in 1 .. Len(s)
      BY DEF s
    <3> QED BY <1>0, <2>1, <2>4, <3>1, SMTT(30)
  <2> QED BY <1>6, <2>2, <2>5 DEF s
<1>12. LaidOut(buffer, Len(program), at)'
  <2>1. program' = program /\ Len(buffer') = offset + 1
    BY <1>6
  <2>2. \A k \in 1 .. Len(program) :
          /\ at[k] = at[k - 1] + Len(TextOf(program[k])) /\ at[k] <= at[Len(program)]
          /\ \A j \in 1 .. Len(TextOf(program[k])) :
               buffer'[at[k - 1] + j] = TextOf(program[k])[j]
    BY <1>7, <1>8, <1>11, Zenon
  <2>3. at \in [0 .. Len(program') -> 0 .. Len(buffer')] /\ at[0] = 0
    BY <1>8, <1>10, <2>1
  <2>4. ASSUME NEW k \in 1 .. Len(program')
        PROVE  /\ at[k] = at[k - 1] + Len(TextOf(program'[k])) /\ at[k] <= at[Len(program')]
               /\ \A j \in 1 .. Len(TextOf(program'[k])) :
                    buffer'[at[k - 1] + j] = TextOf(program'[k])[j]
    <3>1. k \in 1 .. Len(program) /\ program'[k] = program[k] /\ Len(program') = Len(program)
      BY <2>1
    <3>2. TextOf(program'[k]) = TextOf(program[k])
      BY <3>1, Zenon
    <3> QED BY <2>2, <3>1, <3>2
  <2>5. \A k : TextOf(program[k])' = TextOf(program'[k])
    BY DEF TextOf
  <2> QED BY <2>3, <2>4, <2>5 DEF LaidOut, TextOf
<1>13. TextsPrinted'
  <2>1. at[Len(program')] = Len(buffer') - 1 /\ buffer'[Len(buffer')] = NUL
    <3>1. offset + 1 \in 1 .. offset + 1
      BY <1>0
    <3> QED BY <1>0, <1>5, <1>6, <1>7, <3>1
  <2>2. at \in [0 .. Len(program') -> 0 .. Len(buffer')]
    BY <1>6, <1>10
  <2> QED BY <1>12, <2>1, <2>2, Zenon DEF TextsPrinted
<1>14. pos' <= Len(program') + 1
  BY DEF TextInv
<1> QED BY <1>13, <1>14 DEF TextInv

\* update_offset finds the NUL where the texts end.
LEMMA UpdateText ==
  ASSUME IInv, TextInv, update_offset
  PROVE  TextInv'
<1>0. /\ program \in Programs /\ offset \in Nat /\ buffer \in Seq(AllBytes) /\ pos \in Nat \ {0}
      /\ state = "print" /\ AtUpdate /\ pos <= Len(program) /\ program[pos].op = "update"
  BY DEF IInv, update_offset, AtUpdate
<1>1. /\ Len(program) \in Nat /\ DOMAIN program = 1 .. Len(program) /\ pos \in DOMAIN program
      /\ Len(buffer) \in Nat /\ pos - 1 \in Nat /\ (pos - 1) + 1 = pos /\ (pos + 1) - 1 = pos
  <2>1. Len(program) \in Nat /\ DOMAIN program = 1 .. Len(program)
    BY <1>0, ProgramTypes
  <2> QED BY <1>0, <2>1
<1>2. /\ offset' = (CHOOSE j \in Ends : \A k \in Ends : j <= k) - 1
      /\ pos' = pos + 1 /\ UNCHANGED <<program, buffer, state>>
  BY DEF update_offset
<1>3. PICK at : LaidOut(buffer, pos - 1, at) /\ EndsAt(at[pos - 1])
  BY <1>0 DEF TextInv
<1>4. pos > 1 /\ program[pos - 1].op = "put"
  <2>1. pos - 1 > 0 /\ program[pos - 1].op = "put"
    BY <1>0, <1>1, UpdateFacts
  <2> QED BY <1>0, <2>1
<1>5. PICK z : z = at[pos - 1]
  OBVIOUS
<1>6. /\ z \in Nat /\ offset <= z /\ z < Len(buffer) /\ buffer[z + 1] = NUL
      /\ \A j \in offset + 1 .. z : buffer[j] # NUL
  BY <1>0, <1>3, <1>4, <1>5 DEF EndsAt
<1>7. z + 1 \in Ends /\ \A k \in Ends : z + 1 <= k
  <2>1. z + 1 \in offset + 1 .. Len(buffer)
    BY <1>0, <1>1, <1>6
  <2>2. ASSUME NEW k \in offset + 1 .. Len(buffer), buffer[k] = NUL PROVE z + 1 <= k
    <3>1. k \notin offset + 1 .. z
      BY <1>6, <2>2
    <3> QED BY <1>0, <1>1, <1>6, <3>1
  <2> QED BY <1>6, <2>1, <2>2 DEF Ends
<1>8. offset' = z
  <2> DEFINE y == CHOOSE j \in Ends : \A k \in Ends : j <= k
  <2>1. y \in Ends /\ \A k \in Ends : y <= k
    <3> HIDE DEF Ends
    <3> QED BY <1>7, Zenon
  <2>2. \A k \in Ends : k \in Nat
    BY <1>0, <1>1 DEF Ends
  <2>3. offset' = y - 1
    BY <1>2
  <2> HIDE DEF y, Ends
  <2>4. y = z + 1
    BY <1>6, <1>7, <2>1, <2>2
  <2> QED BY <1>6, <2>3, <2>4
<1>9. TextOf(program[pos]) = <<>>
  BY <1>0 DEF TextOf
<1>10. PICK on : LaidOut(buffer, pos, on) /\ on[pos] = z
  <2>1. PICK o, i, t : o = buffer /\ i = pos - 1 /\ t = TextOf(program[pos])
    OBVIOUS
  <2>2. t = <<>> /\ Len(t) = 0 /\ i + 1 = pos /\ at[i] = z
    BY <1>1, <1>5, <1>9, <2>1
  <2>3. at[i] + Len(t) = z
    BY <1>6, <2>2
  <2>4. Follows(o, o, i, at, t)
    <3>1. i \in Nat /\ i + 1 \in DOMAIN program /\ t = TextOf(program[i + 1])
      BY <1>1, <2>1, <2>2
    <3>2. LaidOut(o, i, at) /\ Len(o) \in Nat
      BY <1>1, <1>3, <2>1
    <3>3. at[i] + Len(t) <= Len(o)
      BY <1>1, <1>6, <2>1, <2>3
    <3>4. \A j \in 1 .. Len(t) : o[at[i] + j] = t[j]
      BY <2>2
    <3> QED BY <3>1, <3>2, <3>3, <3>4 DEF Follows
  <2>5. \E on : LaidOut(o, i + 1, on) /\ on[i + 1] = at[i] + Len(t)
    BY <1>0, <2>4, LaidMore
  <2> QED BY <2>1, <2>2, <2>3, <2>5
<1>11. LaidOut(buffer, pos - 1, on)' /\ pos' - 1 = pos
  <2>1. pos' - 1 = pos /\ program' = program /\ buffer' = buffer
    BY <1>1, <1>2
  <2> QED BY <1>10, <2>1, Zenon DEF LaidOut
<1>12. EndsAt(on[pos - 1])'
  <2>1. on[pos' - 1] = z
    BY <1>10, <1>11
  <2>2. \A j \in offset' + 1 .. z : FALSE
    BY <1>6, <1>8
  <2>3. offset' <= z
    BY <1>6, <1>8
  <2> QED BY <1>2, <1>6, <1>8, <2>1, <2>2, <2>3 DEF EndsAt
<1>13. pos' <= Len(program') + 1 /\ state' # "done"
  BY <1>0, <1>1, <1>2
<1> QED BY <1>11, <1>12, <1>13 DEF TextInv, TextsPrinted

LEMMA TextInit == Init => TextInv
<1> SUFFICES ASSUME Init PROVE TextInv
  OBVIOUS
<1>1. program \in Programs /\ pos = 1 /\ state = "start"
  BY DEF Init
<1>2. Len(program) \in Nat
  BY <1>1, AdvanceFacts
<1> QED BY <1>1, <1>2 DEF TextInv, TextsPrinted

\* A step that ends the printing without a result leaves nothing to show.
LEMMA NoText ==
  ASSUME TextInv, UNCHANGED <<program, pos>>, state' = "fail" \/ buffer' = NULL, state' # "print"
  PROVE  TextInv'
BY DEF TextInv, TextsPrinted

LEMMA TextStep == IInv /\ TextInv /\ [Next]_vars => TextInv'
<1> SUFFICES ASSUME IInv, TextInv, [Next]_vars PROVE TextInv'
  OBVIOUS
<1>1. CASE Allocate /\ state' = "print"
  <2>1. /\ buffer' = Fresh(default_buffer_size) /\ state = "start" /\ state' = "print"
        /\ UNCHANGED <<program, pos, offset, high>>
    BY <1>1 DEF Allocate
  <2>2. Len(buffer') = default_buffer_size /\ default_buffer_size \in Nat \ {0}
    BY <2>1, Sizes DEF Fresh
  <2>3. offset = 0 /\ pos = 1
    BY <2>1 DEF IInv
  <2>4. PICK at : at = [k \in 0 .. 0 |-> 0]
    OBVIOUS
  <2>5. pos' - 1 = 0 /\ at[0] = 0 /\ at[pos' - 1] = 0 /\ ~(pos' > 1)
    BY <2>1, <2>3, <2>4
  <2>6. LaidOut(buffer, pos - 1, at)'
    <3>1. at \in [0 .. 0 -> 0 .. Len(buffer')]
      BY <2>2, <2>4
    <3>2. \A k \in 1 .. 0 : FALSE
      OBVIOUS
    <3> QED BY <2>5, <3>1, <3>2 DEF LaidOut
  <2>7. EndsAt(at[pos - 1])'
    BY <2>1, <2>2, <2>3, <2>5 DEF EndsAt
  <2>8. pos' <= Len(program') + 1
    BY <2>1 DEF TextInv
  <2> QED BY <2>1, <2>6, <2>7, <2>8 DEF TextInv, TextsPrinted
<1>2. CASE Allocate /\ state' = "fail"
  BY <1>2, NoText DEF Allocate
<1>3. CASE AtPut
  <2>1. /\ program \in Programs /\ pos \in DOMAIN program /\ program[pos].op = "put"
        /\ offset \in Nat /\ high \in Nat /\ state = "print"
    <3>1. Len(program) \in Nat /\ DOMAIN program = 1 .. Len(program)
      BY ProgramTypes DEF IInv
    <3> QED BY <1>3, <3>1 DEF AtPut, IInv
  <2>2. buffer \in Seq(AllBytes) /\ Len(buffer) \in Nat /\ INT_MAX \in Nat
    <3>1. buffer \in Seq(AllBytes)
      BY <2>1 DEF IInv
    <3> QED BY <3>1, Sizes
  <2>3. program[pos].need \in Nat
    BY <2>1, PutFacts
  <2>4. CASE PutFits
    <3>1. Written(buffer) /\ program[pos].need + offset + 1 <= Len(buffer)
      BY <2>4 DEF PutFits, Fits, Needed
    <3>2. PICK o : o = buffer
      OBVIOUS
    <3> QED BY <2>1, <2>2, <3>1, <3>2, PutText
  <2>5. CASE PutGrows
    <3> DEFINE b == [j \in 1 .. NewSize |-> IF j <= Len(buffer) THEN buffer[j] ELSE Garbage]
    <3>1. Written(b) /\ ~(Needed <= Len(buffer)) /\ Needed <= INT_MAX
      BY <2>5 DEF PutGrows, Fits
    <3>2. Needed \in Nat
      BY <2>1, <2>3 DEF Needed
    <3>3. NewSize \in Nat /\ Needed <= NewSize /\ Len(buffer) <= NewSize
      <4> HIDE DEF Needed
      <4> QED BY <2>2, <3>1, <3>2 DEF NewSize
    <3>4. b \in [1 .. NewSize -> AllBytes]
      <4>1. ASSUME NEW j \in 1 .. NewSize, j <= Len(buffer) PROVE buffer[j] \in AllBytes
        <5>1. j \in 1 .. Len(buffer)
          <6> HIDE DEF NewSize
          <6> QED BY <2>2, <3>3, <4>1
        <5> QED BY <2>2, <5>1
      <4> QED BY <4>1, ByteTypes
    <3>5. \A j \in 1 .. Len(buffer) : b[j] = buffer[j]
      <4>1. ASSUME NEW j \in 1 .. Len(buffer) PROVE j \in 1 .. NewSize /\ j <= Len(buffer)
        <5> HIDE DEF NewSize
        <5> QED BY <2>2, <3>3
      <4> QED BY <4>1
    <3> HIDE DEF b
    <3>6. b \in Seq(AllBytes) /\ Len(b) = NewSize
      BY <3>3, <3>4
    <3>7. Len(buffer) <= Len(b) /\ program[pos].need + offset + 1 <= Len(b)
      BY <2>1, <2>2, <3>3, <3>6 DEF Needed
    <3> QED BY <2>1, <3>1, <3>5, <3>6, <3>7, PutText
  <2>6. CASE GrowFails
    BY <2>6, NoText DEF GrowFails
  <2>7. CASE TooLong
    BY <2>7, NoText DEF TooLong
  <2>8. state # "start" /\ ~AtUpdate /\ state # "fail" /\ ~(pos > Len(program))
    <3>1. pos \in Nat /\ Len(program) \in Nat
      BY <2>1, ProgramTypes
    <3> QED BY <1>3, <2>1, <3>1 DEF AtPut, AtUpdate
  <2>9. CASE UNCHANGED vars
    BY <2>9 DEF vars, TextInv, TextsPrinted, LaidOut, EndsAt, AtUpdate
  <2> QED BY <2>4, <2>5, <2>6, <2>7, <2>8, <2>9
          DEF Next, Allocate, update_offset, Finish, Fail
<1>4. CASE update_offset
  BY <1>4, UpdateText
<1>5. CASE Finish
  <2>1. CASE buffer' = SubSeq(buffer, 1, offset + 1) /\ state' = "done"
    BY <1>5, <2>1, FinishText DEF Finish
  <2>2. CASE state' = "fail"
    BY <1>5, <2>2, NoText DEF Finish
  <2> QED BY <1>5, <2>1, <2>2 DEF Finish
<1>6. CASE Fail
  BY <1>6, NoText DEF Fail
<1>7. CASE UNCHANGED vars
  BY <1>7 DEF vars, TextInv, TextsPrinted, LaidOut, EndsAt, AtUpdate
<1> QED BY <1>1, <1>2, <1>3, <1>4, <1>5, <1>6, <1>7
        DEF Next, Allocate, PutFits, PutGrows, GrowFails, TooLong

\* What cJSON_Print returns holds every text the printing functions put, none of
\* it overwritten, cut or moved by ensure, update_offset or the last realloc.
THEOREM TextsPrintedHolds == Spec => []TextsPrinted
<1>1. IInv /\ TextInv /\ [Next]_vars => (IInv /\ TextInv)'
  BY InvStep, TextStep
<1>2. Init => IInv /\ TextInv
  BY InvInit, TextInit
<1>3. IInv /\ TextInv => TextsPrinted
  BY DEF TextInv
<1> QED BY <1>1, <1>2, <1>3, PTL DEF Spec
=============================================================================
