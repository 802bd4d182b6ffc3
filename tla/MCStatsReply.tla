---------------------------- MODULE MCStatsReply ----------------------------
(* Model-checking instance of StatsReply.  Trees are items of every kind, on *)
(* whose programs the assumptions of PrintBuffer are evaluated.              *)
EXTENDS StatsReply

MCTables ==
  {[keys |-> ks, nonzero |-> ("a" :> {1, 3}) @@ ("b" :> {}) @@ ("c" :> {2})] :
     ks \in {<<>>, <<"c">>, <<"a", "b">>, <<"a", "b", "c">>}}
MCCounters == <<"requests", "responses">>

MCBuckets == <<"<1ms", "1ms", "+inf">>

MCName == ("a" :> <<"i", "a">>) @@ ("b" :> <<"i", "b">>) @@ ("c" :> <<"i", "c">>) @@
          ("requests" :> <<"q">>) @@ ("responses" :> <<"p">>) @@ ("latency" :> <<"l">>) @@
          ("<1ms" :> <<"0">>) @@ ("1ms" :> <<"1">>) @@ ("+inf" :> <<"+", "i">>)
MCDigits ==
  (<<"a", "requests">> :> <<"1", "0">>) @@ (<<"a", "responses">> :> <<"9">>) @@
  (<<"b", "requests">> :> <<"0">>) @@ (<<"b", "responses">> :> <<"0">>) @@
  (<<"c", "requests">> :> <<"3">>) @@ (<<"c", "responses">> :> <<"2">>) @@
  (<<"a", "<1ms">> :> <<"5">>) @@ (<<"a", "+inf">> :> <<"4">>) @@ (<<"c", "1ms">> :> <<"2">>)

Texts == BoundedSeq({"a", "quote", "control"}, 2)
Leaves == {Lit(<<"t", "r", "u", "e">>), Num(<<"1", "0">>)} \cup {Str(t) : t \in Texts}
Objects == {Obj(<<[string |-> t, value |-> x]>>) : t \in Texts, x \in Leaves}
MCTrees ==
  {WholeReply(t) : t \in MCTables} \cup Leaves \cup Objects \cup {Arr(<<x, y>>) : x, y \in Leaves}

MCCharacters ==
  {"a", "b", "c", "e", "f", "i", "l", "p", "q", "r", "t", "u", "+", "0", "1", "2", "3", "4",
   "5", "9", " ", ",", ":", "[", "]", "{", "}", "quote", "control", "backslash", "tab",
   "newline"}
=============================================================================
