----------------------------- MODULE TableSpec -----------------------------
(***************************************************************************)
(* The promise of hashtable.c as a specification: each call acts at once   *)
(* on the map of module Table and returns what its caller may rely on.     *)
(* `ret' is the result of the last call, in the field its type selects.    *)
(***************************************************************************)
EXTENDS Table, Naturals

CONSTANTS Keys, Pointers    \* the values are pointers

VARIABLES tab, ret

Ret(ptr, n, vals, oom) == [ptr |-> ptr, n |-> n, vals |-> vals, oom |-> oom]
Stored == {tab[k] : k \in Entries(tab)}

Init == tab = hashtable_create(Keys) /\ ret = Ret(NULL, 0, {}, FALSE)

\* The value already stored under the key, or NULL.
Add(k, v) ==
  /\ ret' = Ret(hashtable_get(tab, k), 0, {}, FALSE)
  /\ tab' = hashtable_add(tab, k, v)

\* The caller sees the same NULL as after success.
AddFails(k) ==
  /\ hashtable_get(tab, k) = NULL
  /\ ret' = Ret(NULL, 0, {}, TRUE)
  /\ UNCHANGED tab

Get(k) == ret' = Ret(hashtable_get(tab, k), 0, {}, FALSE) /\ UNCHANGED tab

Del(k) ==
  /\ ret' = Ret(NULL, IF tab[k] = NULL THEN 0 ELSE 1, {}, FALSE)
  /\ tab' = hashtable_del(tab, k)

Sweep(expired) ==
  /\ tab' = hashtable_sweep(tab, {k \in Keys : tab[k] \in expired})
  /\ ret' = Ret(NULL, Cardinality(Stored \cap expired), {}, FALSE)

\* Each value once, and all of them unless memory ran out.
Values ==
  /\ \/ ret' = Ret(NULL, Size(tab), Stored, FALSE)
     \/ \E vs \in SUBSET Stored : ret' = Ret(NULL, Cardinality(vs), vs, TRUE)
  /\ UNCHANGED tab

Destroy == tab' = hashtable_create(Keys) /\ UNCHANGED ret

Next ==
  \/ \E k \in Keys, v \in Pointers : Add(k, v)
  \/ \E k \in Keys : AddFails(k) \/ Get(k) \/ Del(k)
  \/ \E expired \in SUBSET Pointers : Sweep(expired)
  \/ Values \/ Destroy

Spec == Init /\ [][Next]_<<tab, ret>>
=============================================================================
