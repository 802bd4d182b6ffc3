------------------------------- MODULE Table -------------------------------
(***************************************************************************)
(* What hashtable.c promises its callers: a map from keys to values.  A    *)
(* table is a function on the set of all keys whose value is NULL where no *)
(* entry is stored, exactly what hashtable_get returns to the caller.      *)
(* Buckets, chains and the memory they own are below this interface.       *)
(***************************************************************************)
EXTENDS FiniteSets

CONSTANT NULL       \* the null pointer

hashtable_create(keys) == [k \in keys |-> NULL]

hashtable_get(ht, key) == ht[key]

\* The first value stored under a key stays: a duplicate is not adopted.
hashtable_add(ht, key, value) ==
  IF ht[key] = NULL THEN [ht EXCEPT ![key] = value] ELSE ht

\* Mutant: the value is freed, the entry that points to it stays.
DelKeepsEntry(ht, key) == [ht EXCEPT ![key] = [freed |-> TRUE]]

hashtable_del(ht, key) == [ht EXCEPT ![key] = NULL]

\* Removes the entries of the keys in `expired'.
hashtable_sweep(ht, expired) ==
  [k \in DOMAIN ht |-> IF k \in expired THEN NULL ELSE ht[k]]

\* The keys that have an entry; ht->size counts them.
Entries(ht) == {k \in DOMAIN ht : ht[k] # NULL}
Size(ht) == Cardinality(Entries(ht))
=============================================================================
