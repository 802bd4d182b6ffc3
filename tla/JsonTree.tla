------------------------------ MODULE JsonTree ------------------------------
(***************************************************************************)
(* How the stats thread builds a reply: server_stats_to_json and           *)
(* create_stats_object, one step per call of cJSON, on the linked items    *)
(* that cJSON keeps.  Any allocation may fail, and the code looks at none  *)
(* of the results.  Items are numbered in the order of their allocation, 0 *)
(* is NULL.  An item owns its key (`string').  Module StatsReply prints    *)
(* what is built here.                                                     *)
(***************************************************************************)
EXTENDS Naturals, Sequences, FiniteSets, Functions

CONSTANTS
  Tables,         \* what syn_tab may hold: the keys in the order of the walk, and
                  \* for each key its buckets that have counted
  Counters,       \* the names of the counters of an endpoint, in order
  latency_buckets,  \* the names of the buckets, in order
  MaxFailures     \* bound on the allocations that fail

ASSUME JsonAssumption ==
  /\ MaxFailures \in Nat
  /\ Counters \in Seq(STRING) /\ latency_buckets \in Seq(STRING)
  /\ \A t \in Tables :
       /\ t.keys \in Seq(STRING)
       /\ \A k \in Range(t.keys) : t.nonzero[k] \subseteq DOMAIN latency_buckets

VARIABLES
  table,          \* the values that hashtable_values returned
  items, live,    \* every item ever allocated, and those not freed
  object, stats_object, latency_object, bucket_object,
  pc, e, n,       \* where the code is: endpoint e, its counter or bucket n
  failures
treeVars == <<table, items, live, object, stats_object, latency_object, bucket_object, pc, e, n, failures>>

Keys == table.keys
Nonzero == table.nonzero

TreeInit ==
  /\ table \in Tables
  /\ items = <<>> /\ live = {}
  /\ object = 0 /\ stats_object = 0 /\ latency_object = 0 /\ bucket_object = 0
  /\ pc = "start" /\ e = 1 /\ n = 1
  /\ failures = 0

-----------------------------------------------------------------------------
(* cJSON *)

Item(type, value) ==
  [type |-> type, value |-> value, string |-> "", next |-> 0, prev |-> 0, child |-> 0]
New == Len(items) + 1

\* Mutant: the pointer to the last item is not moved.
StaleLast(h, array, item) ==
  LET first == h[array].child
      last  == h[first].prev
  IN  IF first = 0
      THEN [h EXCEPT ![array].child = item, ![item].prev = item, ![item].next = 0]
      ELSE [h EXCEPT ![last].next = item, ![item].prev = last]

\* The items h once `item' hangs at the end of the list of `array', whose first
\* item has the last one as its prev.
add_item_to_array(h, array, item) ==
  LET first == h[array].child
      last  == h[first].prev
  IN  IF first = 0
      THEN [h EXCEPT ![array].child = item, ![item].prev = item, ![item].next = 0]
      ELSE [h EXCEPT ![last].next = item, ![item].prev = last, ![first].prev = item]

add_item_to_object(h, obj, key, item) ==
  add_item_to_array([h EXCEPT ![item].string = key], obj, item)

\* An allocation fails.
NoMemory == failures < MaxFailures /\ failures' = failures + 1 /\ UNCHANGED <<items, live>>

\* A new item in a local variable `var', or NULL in it.
Create(type, var) ==
  \/ /\ items' = Append(items, Item(type, 0)) /\ live' = live \cup {New}
     /\ var' = New
     /\ UNCHANGED failures
  \/ NoMemory /\ var' = 0

\* The number hangs in the object or is deleted: without memory for the item
\* or for its key, or without the object, nothing stays.
cJSON_AddNumberToObject(obj, key, value) ==
  \/ /\ obj # 0
     /\ items' = add_item_to_object(Append(items, Item("number", value)), obj, key, New)
     /\ live' = live \cup {New}
     /\ UNCHANGED failures
  \/ obj = 0 /\ UNCHANGED <<items, live, failures>>
  \/ NoMemory

\* Nobody deletes the item if it cannot be added.
cJSON_AddItemToObject(obj, key, item) ==
  \/ /\ obj # 0 /\ item # 0
     /\ items' = add_item_to_object(items, obj, key, item)
     /\ UNCHANGED <<live, failures>>
  \/ (obj = 0 \/ item = 0) /\ UNCHANGED <<items, live, failures>>
  \/ obj # 0 /\ item # 0 /\ NoMemory

cJSON_AddItemToArray(array, item) ==
  /\ items' = IF array # 0 /\ item # 0 THEN add_item_to_array(items, array, item) ELSE items
  /\ UNCHANGED <<live, failures>>

\* The items in the list of item p, in order.
Children(p) ==
  LET at[k \in 1 .. Len(items)] ==
        IF k = 1 THEN items[p].child
        ELSE IF at[k - 1] = 0 THEN 0 ELSE items[at[k - 1]].next
  IN  [k \in 1 .. Cardinality({k \in DOMAIN at : at[k] # 0}) |-> at[k]]

\* Mutant: the items after the first one of a list are not deleted.
FirstOnly(p) == {items[p].child} \ {0}

Listed(p) == Range(Children(p))

WithListed(S) == S \cup UNION {Listed(q) : q \in S}

\* What cJSON_Delete frees: p and what hangs below it, on the four levels of a
\* reply.
Below(p) ==
  IF p = 0 THEN {} ELSE WithListed(WithListed(WithListed(WithListed({p}))))

-----------------------------------------------------------------------------
(* server_stats_to_json and create_stats_object *)

Goto(at) == pc' = at
Locals == <<object, stats_object, latency_object, bucket_object>>

CreateRoot ==
  /\ pc = "start" /\ Create("object", object)
  /\ Goto("endpoint")
  /\ UNCHANGED <<stats_object, latency_object, bucket_object, e, n>>

CreateStats ==
  /\ pc = "endpoint" /\ e <= Len(Keys) /\ Create("object", stats_object)
  /\ Goto("counters") /\ n' = 1
  /\ UNCHANGED <<object, latency_object, bucket_object, e>>

AddCounter ==
  /\ pc = "counters" /\ n <= Len(Counters)
  /\ cJSON_AddNumberToObject(stats_object, Counters[n], <<Keys[e], Counters[n]>>)
  /\ n' = n + 1
  /\ UNCHANGED <<Locals, pc, e>>

CreateLatency ==
  /\ pc = "counters" /\ n > Len(Counters) /\ Create("array", latency_object)
  /\ Goto("buckets") /\ n' = 1
  /\ UNCHANGED <<object, stats_object, bucket_object, e>>

EmptyBucket ==
  /\ pc = "buckets" /\ n <= Len(latency_buckets) /\ n \notin Nonzero[Keys[e]]
  /\ n' = n + 1
  /\ UNCHANGED <<items, live, Locals, pc, e, failures>>

CreateBucket ==
  /\ pc = "buckets" /\ n \in Nonzero[Keys[e]] /\ Create("object", bucket_object)
  /\ Goto("bucket")
  /\ UNCHANGED <<object, stats_object, latency_object, e, n>>

FillBucket ==
  /\ pc = "bucket"
  /\ cJSON_AddNumberToObject(bucket_object, latency_buckets[n], <<Keys[e], latency_buckets[n]>>)
  /\ Goto("filled")
  /\ UNCHANGED <<Locals, e, n>>

AddBucket ==
  /\ pc = "filled" /\ cJSON_AddItemToArray(latency_object, bucket_object)
  /\ Goto("buckets") /\ n' = n + 1
  /\ UNCHANGED <<Locals, e>>

AddLatency ==
  /\ pc = "buckets" /\ n > Len(latency_buckets)
  /\ cJSON_AddItemToObject(stats_object, "latency", latency_object)
  /\ Goto("add")
  /\ UNCHANGED <<Locals, e, n>>

\* Mutant: the text of the key is made once, before the loop.
FirstKey == Keys[1]

KeyText == Keys[e]

AddStats ==
  /\ pc = "add"
  /\ cJSON_AddItemToObject(object, KeyText, stats_object)
  /\ Goto("endpoint") /\ e' = e + 1
  /\ UNCHANGED <<Locals, n>>

\* The tree is complete and goes to cJSON_Print.
HandOver ==
  /\ pc = "endpoint" /\ e > Len(Keys)
  /\ Goto("print")
  /\ UNCHANGED <<table, items, live, Locals, e, n, failures>>

cJSON_Delete ==
  /\ pc = "print"
  /\ live' = live \ Below(object) /\ UNCHANGED table
  /\ Goto("done")
  /\ UNCHANGED <<items, Locals, e, n, failures>>

Build ==
  /\ \/ CreateRoot \/ CreateStats \/ AddCounter \/ CreateLatency \/ EmptyBucket
     \/ CreateBucket \/ FillBucket \/ AddBucket \/ AddLatency \/ AddStats
  /\ UNCHANGED table

TreeNext == Build \/ HandOver \/ cJSON_Delete

TreeSpec == TreeInit /\ [][TreeNext]_treeVars

-----------------------------------------------------------------------------
(* Properties *)

\* Pointers to item q from a list or from the item before it.
Owners(q) == {p \in live : items[p].child = q \/ items[p].next = q}

\* After every call the list of each item is whole: its first item knows the
\* last one, each other item the one before it, and no item hangs in two
\* places, so cJSON_Delete frees none twice and the printing ends.
ListsWhole ==
  pc # "done" =>
    \A p \in live :
      LET list == Children(p)
      IN  /\ Range(list) \subseteq live
          /\ list # <<>> => items[list[1]].prev = list[Len(list)]
          /\ \A k \in 2 .. Len(list) : items[list[k]].prev = list[k - 1]
          /\ Cardinality(Owners(p)) <= 1

\* A reply for which every allocation succeeded leaves nothing behind, on any
\* level: cJSON_Delete reaches each item through the pointers that the additions
\* left.  (Without memory it does not: an item that could not be added belongs
\* to nobody and stays.)
NothingStays == pc = "done" /\ failures = 0 => live = {}

Strings(list) == [k \in DOMAIN list |-> items[list[k]].string]

\* The reply never shows a number under the name or the endpoint of another,
\* whichever allocation fails, and it shows every number if none fails.
ReplyTrue ==
  pc = "print" /\ object # 0 =>
    /\ failures = 0 => Strings(Children(object)) = Keys
    /\ \A s \in Listed(object) :
         LET key == items[s].string
         IN  /\ failures = 0 => Strings(Children(s)) = Counters \o <<"latency">>
             /\ \A c \in Listed(s) :
                  IF items[c].type = "number"
                  THEN items[c].value = <<key, items[c].string>>
                  ELSE LET shown == UNION {Listed(b) : b \in Listed(c)}
                       IN  /\ \A b \in shown : items[b].value = <<key, items[b].string>>
                           /\ failures = 0 => {items[b].string : b \in shown}
                                                = {latency_buckets[b] : b \in Nonzero[key]}
=============================================================================
