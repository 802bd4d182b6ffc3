----------------------------- MODULE StatsReply -----------------------------
(***************************************************************************)
(* server_stats_to_json as a whole: the tree of items is built (JsonTree), *)
(* printed into the growing buffer (PrintBuffer, by the programs of        *)
(* JsonPrint) and deleted.                                                 *)
(***************************************************************************)
EXTENDS JsonTree, JsonPrint

CONSTANTS
  Name,     \* the characters of each key and name
  Digits    \* the characters of each number

replyVars == <<treeVars, vars>>

\* The item p as the printing functions walk it.
RECURSIVE ItemAt(_)
ItemAt(p) ==
  LET list == Children(p)
  IN  CASE items[p].type = "number" -> Num(Digits[items[p].value])
        [] items[p].type = "array" -> Arr([k \in DOMAIN list |-> ItemAt(list[k])])
        [] items[p].type = "object" ->
             Obj([k \in DOMAIN list |->
                    [string |-> Name[items[list[k]].string], value |-> ItemAt(list[k])]])

ReplyInit ==
  /\ TreeInit
  /\ program = <<>> /\ pos = 1 /\ buffer = NULL /\ offset = 0 /\ high = 0
  /\ state = "idle"

BuildStep == Build /\ UNCHANGED vars

\* cJSON_Print is called.  For NULL, print_value refuses and print returns NULL.
StartPrint ==
  /\ HandOver
  /\ IF object = 0
     THEN state' = "done" /\ UNCHANGED program
     ELSE state' = "start" /\ program' = cJSON_Print(ItemAt(object))
  /\ UNCHANGED <<pos, buffer, offset, high>>

PrintStep == pc = "print" /\ Next /\ UNCHANGED treeVars

Delete == state = "done" /\ cJSON_Delete /\ UNCHANGED vars

ReplyNext == BuildStep \/ StartPrint \/ PrintStep \/ Delete

ReplySpec == ReplyInit /\ [][ReplyNext]_replyVars

-----------------------------------------------------------------------------
(* Properties *)

\* The reply that the counters of a table call for.
WholeReply(t) ==
  LET number(k, c) == [string |-> Name[c], value |-> Num(Digits[<<k, c>>])]
      bucket(k, b) == Obj(<<number(k, latency_buckets[b])>>)
      latency(k) == SetToSortSeq(t.nonzero[k], <)
      stats(k) == Obj([j \in DOMAIN Counters |-> number(k, Counters[j])] \o
                      <<[string |-> Name["latency"],
                         value |-> Arr([j \in DOMAIN latency(k) |-> bucket(k, latency(k)[j])])]>>)
  IN  Obj([j \in DOMAIN t.keys |-> [string |-> Name[t.keys[j]], value |-> stats(t.keys[j])]])

\* When the reply is printed at all, the client gets the whole text and its NUL,
\* however often and at whichever byte the buffer was moved: that of all
\* endpoints, counters and buckets in order if every item could be allocated,
\* and otherwise that of the items there are.
PrintsTheReply ==
  pc = "print" /\ state = "done" /\ buffer # NULL =>
    buffer = Render(IF failures = 0 THEN WholeReply(table) ELSE ItemAt(object), 0) \o <<NUL>>
=============================================================================
