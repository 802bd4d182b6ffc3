----------------------------- MODULE MCStartup -----------------------------
(* Model-checking instance of Startup: every command line of up to MaxArgs  *)
(* arguments, those that give two strings, and those that select each way   *)
(* through sniffer_create.                                                  *)
EXTENDS Startup

CONSTANT MaxArgs

MCAtoi == [a \in Dashed \cup {"word", "other", "redis"} |-> 0] @@ ("9" :> 9) @@ ("900" :> 900)
Short == UNION {[1 .. n -> DOMAIN MCAtoi \ {"other"}] : n \in 0 .. MaxArgs}
Given1 == {<<f, w>> : f \in DOMAIN StringField \cup {"-s", "-p"}, w \in {"word", "redis"}}
Given2 == {<<f, w>> : f \in DOMAIN StringField \cup {"-s", "-p"}, w \in {"other", "redis", "-i"}}
Sources == {<<>>, <<"-r", "word">>, <<"-i", "word">>}
Outputs == {<<>>, <<"-w", "word">>, <<"-S", "word">>, <<"-w", "word", "-S", "word">>}
Filters == {<<>>, <<"word">>, <<"-p", "redis", "word">>, <<"word", "-v", "other", "word">>}
MCArgvs ==
  Short \cup {a \o b : a \in Given1, b \in Given2}
        \cup {s \o o \o f : s \in Sources, o \in Outputs, f \in Filters}
=============================================================================
