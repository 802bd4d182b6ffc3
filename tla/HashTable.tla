----------------------------- MODULE HashTable -----------------------------
(***************************************************************************)
(* hashtable.c: buckets of singly linked entries, one step per iteration   *)
(* of a loop.  Allocations may fail.  The table owns the values it stores; *)
(* `live' are the values that are allocated.  TableSpec is what the calls  *)
(* as a whole promise.                                                     *)
(***************************************************************************)
EXTENDS Naturals, Sequences, FiniteSets, Functions, TLC

CONSTANTS
  NULL, Keys, Pointers,
  Addrs,          \* where malloc may place an entry
  nbucket,
  Hash            \* the 32-bit hash of each key

\* struct entry.
EntryRecords == [key : Keys, value : Pointers, next : Addrs \cup {NULL}]

ASSUME HashAssumption ==
  /\ nbucket \in Nat \ {0} /\ IsFiniteSet(Addrs)
  /\ Hash \in [Keys -> Nat] /\ NULL \notin Addrs \cup Pointers \cup EntryRecords

VARIABLES
  buckets, heap,  \* the heads of the chains, the entries
  size,
  live,           \* the values allocated and not freed
  call,           \* the running call and its locals
  ret,            \* the result of the last call, and whether memory ran out
  before          \* the contents when the running call began

vars == <<buckets, heap, size, live, call, ret, before>>
ht == <<buckets, heap, size, live>>

Idle ==
  [op |-> "idle", key |-> NULL, value |-> NULL, expired |-> {}, i |-> 0,
   current |-> NULL, prev |-> NULL, cap |-> 0, n |-> 0, values |-> <<>>]

Init ==
  /\ buckets = [b \in 0 .. nbucket - 1 |-> NULL]
  /\ heap = [a \in Addrs |-> NULL]
  /\ size = 0 /\ live = {}
  /\ call = Idle
  /\ ret = [ptr |-> NULL, n |-> 0, vals |-> {}, oom |-> FALSE]
  /\ before = [k \in Keys |-> NULL]

\* Any function of the key: the mixing of its bytes decides nothing but which
\* keys share a chain.
hash_function(key) == Hash[key]
BucketOf(key) == hash_function(key) % nbucket

-----------------------------------------------------------------------------
(* What the chains hold *)

Allocated == {a \in Addrs : heap[a] # NULL}

\* A set that has the entry at p and, with an entry, the one behind it.
Closed(S, p) ==
  /\ p # NULL => p \in S
  /\ \A e \in S \cap Allocated : heap[e].next # NULL => heap[e].next \in S

\* The entries reached from pointer p, and from bucket b.
From(p) == {a \in Addrs : \A S \in SUBSET Addrs : Closed(S, p) => a \in S}
Chain(b) == From(buckets[b])

Contents ==
  [k \in Keys |->
     LET found == {a \in Chain(BucketOf(k)) : heap[a].key = k}
     IN  IF found = {} THEN NULL ELSE heap[CHOOSE a \in found : TRUE].value]

Stored == {heap[a].value : a \in Allocated}

-----------------------------------------------------------------------------
(* Calls and returns *)

Called(locals) ==
  /\ call.op = "idle"
  /\ call' = locals
  /\ before' = Contents
  /\ UNCHANGED <<buckets, heap, size, ret>>

Result(ptr, n, vals, oom) == [ptr |-> ptr, n |-> n, vals |-> vals, oom |-> oom]

Return(r) ==
  /\ call' = Idle
  /\ ret' = r
  /\ UNCHANGED before

Keyed(op, k) ==
  [Idle EXCEPT !.op = op, !.key = k, !.current = buckets[BucketOf(k)]]
Over(op) == [Idle EXCEPT !.op = op, !.current = buckets[0]]

\* The callers store a value they have just allocated.
CallAdd(k, v) ==
  /\ v \notin live /\ live' = live \cup {v}
  /\ Called([Keyed("add", k) EXCEPT !.value = v])
CallGet(k) == Called(Keyed("get", k)) /\ UNCHANGED live
CallDel(k) == Called(Keyed("del", k)) /\ UNCHANGED live
CallSweep(expired) ==
  /\ Called([Over("sweep") EXCEPT !.expired = expired])
  /\ UNCHANGED live
CallValues == Called(Over("values")) /\ UNCHANGED live
CallDestroy == Called(Over("destroy")) /\ UNCHANGED live

-----------------------------------------------------------------------------
(* hashtable_add, hashtable_get, hashtable_del *)

Current == heap[call.current]
AtKey == call.current # NULL /\ Current.key = call.key

NextEntry ==
  /\ call.op \in {"add", "get", "del"} /\ call.current # NULL /\ ~AtKey
  /\ call' = [call EXCEPT !.prev = call.current, !.current = Current.next]
  /\ UNCHANGED <<ht, ret, before>>

Found ==
  /\ call.op \in {"add", "get"} /\ AtKey
  /\ Return(Result(Current.value, 0, {}, FALSE)) /\ UNCHANGED ht

NotFound ==
  /\ call.op \in {"get", "del"} /\ call.current = NULL
  /\ Return(Result(NULL, 0, {}, FALSE)) /\ UNCHANGED ht

\* malloc or strdup fails: the caller is told NULL, as after success.
AddFails ==
  /\ call.op = "add" /\ call.current = NULL
  /\ Return(Result(NULL, 0, {}, TRUE)) /\ UNCHANGED ht

AddLinks ==
  /\ call.op = "add" /\ call.current = NULL
  /\ \E a \in Addrs \ Allocated :
       /\ heap' = [heap EXCEPT ![a] = [key |-> call.key, value |-> call.value,
                                        next |-> buckets[BucketOf(call.key)]]]
       /\ buckets' = [buckets EXCEPT ![BucketOf(call.key)] = a]
  /\ size' = size + 1
  /\ Return(Result(NULL, 0, {}, FALSE)) /\ UNCHANGED live

\* Mutant: the value outlives its entry.
NotFreed(value) == live

Freed(value) == live \ {value}

\* The current entry leaves the chain of bucket b, and its memory is freed.
Unlink(b, first) ==
  /\ IF first
     THEN /\ buckets' = [buckets EXCEPT ![b] = Current.next]
          /\ heap' = [heap EXCEPT ![call.current] = NULL]
     ELSE /\ heap' = [heap EXCEPT ![call.prev].next = Current.next,
                                  ![call.current] = NULL]
          /\ UNCHANGED buckets
  /\ live' = Freed(Current.value)
  /\ size' = size - 1

DelFound ==
  /\ call.op = "del" /\ AtKey
  /\ LET b == BucketOf(call.key) IN Unlink(b, call.current = buckets[b])
  /\ Return(Result(NULL, 1, {}, FALSE))

-----------------------------------------------------------------------------
(* The loops over all buckets *)

\* Mutant: prev is not reset at the head of a chain.
PrevStays == call.prev

PrevAtHead == NULL

NextBucket ==
  /\ call.op \in {"sweep", "values", "destroy"}
  /\ call.current = NULL /\ call.i < nbucket - 1
  /\ call' = [call EXCEPT !.i = @ + 1, !.current = buckets[call.i + 1], !.prev = PrevAtHead]
  /\ UNCHANGED <<ht, ret, before>>

LastBucketDone(op) == call.op = op /\ call.current = NULL /\ call.i = nbucket - 1

\* Mutant: prev follows the walk past a removed entry.
PrevMoves == call.current

PrevAfterRemoval == call.prev

SweepRemove ==
  /\ call.op = "sweep" /\ call.current # NULL /\ Current.value \in call.expired
  /\ Unlink(call.i, call.prev = NULL)
  /\ call' = [call EXCEPT !.current = Current.next, !.prev = PrevAfterRemoval, !.n = @ + 1]
  /\ UNCHANGED <<ret, before>>

SweepKeep ==
  /\ call.op = "sweep" /\ call.current # NULL /\ Current.value \notin call.expired
  /\ call' = [call EXCEPT !.current = Current.next, !.prev = call.current]
  /\ UNCHANGED <<ht, ret, before>>

SweepReturn ==
  LastBucketDone("sweep") /\ Return(Result(NULL, call.n, {}, FALSE)) /\ UNCHANGED ht

\* Mutant: the array is grown one element late.
GrownLate == IF call.cap = 0 THEN 1
             ELSE IF Len(call.values) > call.cap THEN 2 * call.cap ELSE call.cap

\* The capacity before one more value is written: one, then doubled when full.
Grown == IF call.cap = 0 THEN 1
         ELSE IF Len(call.values) = call.cap THEN 2 * call.cap ELSE call.cap

Collect ==
  /\ call.op = "values" /\ call.current # NULL
  /\ call' = [call EXCEPT !.cap = Grown, !.values = Append(@, Current.value),
                          !.current = Current.next]
  /\ UNCHANGED <<ht, ret, before>>

\* Mutant: the capacity is returned as the count.
ReturnCapacity(oom) ==
  Return(Result(NULL, call.cap, Range(call.values), oom)) /\ UNCHANGED ht

ReturnValues(oom) ==
  Return(Result(NULL, Len(call.values), Range(call.values), oom)) /\ UNCHANGED ht

\* malloc or realloc fails: what was collected is returned.
CollectFails ==
  /\ call.op = "values" /\ call.current # NULL /\ Grown # call.cap
  /\ ReturnValues(TRUE)

ValuesReturn == LastBucketDone("values") /\ ReturnValues(FALSE)

\* The next entry is read before the current one is freed; the heads of the
\* chains are left dangling until the whole table is freed.
DestroyEntry ==
  /\ call.op = "destroy" /\ call.current # NULL
  /\ heap' = [heap EXCEPT ![call.current] = NULL]
  /\ live' = Freed(Current.value)
  /\ call' = [call EXCEPT !.current = Current.next]
  /\ UNCHANGED <<buckets, size, ret, before>>

DestroyReturn ==
  /\ LastBucketDone("destroy")
  /\ buckets' = [b \in DOMAIN buckets |-> NULL]
  /\ call' = [Idle EXCEPT !.op = "destroyed"]
  /\ UNCHANGED <<heap, size, live, ret, before>>

Next ==
  \/ \E k \in Keys : \/ \E v \in Pointers : CallAdd(k, v)
                     \/ CallGet(k) \/ CallDel(k)
  \/ \E expired \in SUBSET Stored : CallSweep(expired)
  \/ CallValues \/ CallDestroy
  \/ NextEntry \/ Found \/ NotFound \/ AddFails \/ AddLinks \/ DelFound
  \/ NextBucket \/ SweepRemove \/ SweepKeep \/ SweepReturn
  \/ Collect \/ CollectFails \/ ValuesReturn \/ DestroyEntry \/ DestroyReturn

Spec == Init /\ [][Next]_vars

-----------------------------------------------------------------------------
(* Properties *)

Busy == call.op \notin {"idle", "destroyed"}

Abs == INSTANCE TableSpec WITH tab <- IF Busy THEN before ELSE Contents

\* Every call does to the contents, and returns, what module Table promises:
\* chains shared by colliding keys, the unlinking at the head, in the middle
\* and at the end of hashtable_del and hashtable_sweep, and the failing
\* allocations of hashtable_add and hashtable_values do not show.
ImplementsTable == Abs!Spec

\* The pointer a loop of hashtable.c dereferences next, and the one it links
\* past a removed entry, point to memory that is not freed.
CursorsAllocated ==
  /\ call.current # NULL => call.current \in Allocated
  /\ call.op = "sweep" /\ call.prev # NULL => call.prev \in Allocated

\* Pointers to entry a, from a bucket or from another entry.
PointersTo(a) ==
  {<<"bucket", b>> : b \in {b \in DOMAIN buckets : buckets[b] = a}} \cup
  {<<"entry", e>> : e \in {e \in Allocated : heap[e].next = a}}

\* Between two iterations, in the middle of a sweep too, each entry hangs in the
\* chain of its own bucket behind exactly one pointer, no key has two entries,
\* and ht->size, which process_request_packet compares with the ceiling,
\* counts them.  After hashtable_destroy no entry is left.
ChainsExact ==
  call.op # "destroy" =>
    /\ UNION {Chain(b) : b \in DOMAIN buckets} = Allocated
    /\ \A a \in Allocated : /\ a \in Chain(BucketOf(heap[a].key))
                            /\ Cardinality(PointersTo(a)) = 1
    /\ \A a, e \in Allocated : heap[a].key = heap[e].key => a = e
    /\ call.op # "destroyed" => size = Cardinality(Allocated)

\* hashtable_values never writes beyond the array it allocated.
ValuesInBounds == Len(call.values) <= call.cap

\* Values leave the table and are freed by the same step, in hashtable_del, in
\* hashtable_sweep and in hashtable_destroy: none is leaked by a removal, none
\* is freed while an entry points to it.
FreedWithEntry == [][Stored \ Stored' = live \ live']_vars
=============================================================================
