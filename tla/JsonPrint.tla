----------------------------- MODULE JsonPrint -----------------------------
(***************************************************************************)
(* What cJSON_Print writes for an item: the programs of PrintBuffer that   *)
(* print_value, print_array, print_object, print_number and                *)
(* print_string_ptr amount to, in formatted output.  Texts are sequences   *)
(* of characters; of the characters of a string the model tells apart      *)
(* those that are escaped by one more ("\"" stands for them) or by five    *)
(* more (control characters).                                              *)
(***************************************************************************)
EXTENDS PrintBuffer, SequencesExt

CONSTANT Trees     \* items: [kind, text] or [kind, items], see below

Lit(text) == [kind |-> "lit", text |-> text]     \* null, true, false, raw
Num(text) == [kind |-> "num", text |-> text]
Str(text) == [kind |-> "str", text |-> text]
Arr(items) == [kind |-> "arr", items |-> items]
Obj(items) == [kind |-> "obj", items |-> items]  \* of [string, value]

Tabs(n) == [j \in 1 .. n |-> "tab"]

\* The additional characters that the first scan counts.
Escapes(c) == CASE c = "quote" -> 1 [] c = "control" -> 5 [] OTHER -> 0

\* What the second scan writes.
Escaped(c) == CASE c = "quote" -> <<"backslash", c>>
                [] c = "control" -> <<"backslash", "u", "0", "0", "1", "f">>
                [] OTHER -> <<c>>

print_string_ptr(s) ==
  LET escapes == FoldLeft(LAMBDA n, c : n + Escapes(c), 0, s)
      copied  == FlattenSeq([j \in DOMAIN s |-> Escaped(s[j])])
  IN  <<Put(Len(s) + escapes + 3, <<"quote">> \o copied \o <<"quote">>, TRUE, 0)>>

\* The number was printed to number_buffer before; its length is known.
print_number(text) == <<Put(Len(text) + 1, text, TRUE, Len(text))>>

\* Between two elements of an array.
Separator == Put(3, <<",", " ">>, TRUE, 2)

\* The program of an item, `depth' objects and arrays around it.
RECURSIVE print_value(_, _)

print_array(items, depth) ==
  <<Put(1, <<"[">>, FALSE, 1)>> \o
  FlattenSeq([n \in DOMAIN items |->
    print_value(items[n], depth + 1) \o <<Update>> \o
    (IF n < Len(items) THEN <<Separator>> ELSE <<>>)]) \o
  <<Put(2, <<"]">>, TRUE, 0)>>

print_object(items, depth) ==
  <<Put(3, <<"{", "newline">>, FALSE, 2)>> \o
  FlattenSeq([n \in DOMAIN items |->
    LET end == (IF n < Len(items) THEN <<",">> ELSE <<>>) \o <<"newline">>
    IN  <<Put(depth + 1, Tabs(depth + 1), FALSE, depth + 1)>> \o
        print_string_ptr(items[n].string) \o <<Update>> \o
        <<Put(2, <<":", "tab">>, FALSE, 2)>> \o
        print_value(items[n].value, depth + 1) \o <<Update>> \o
        <<Put(Len(end) + 1, end, TRUE, Len(end))>>]) \o
  <<Put(depth + 2, Tabs(depth) \o <<"}">>, TRUE, 0)>>

print_value(item, depth) ==
  CASE item.kind = "lit" -> <<Put(Len(item.text) + 1, item.text, TRUE, 0)>>
    [] item.kind = "num" -> print_number(item.text)
    [] item.kind = "str" -> print_string_ptr(item.text)
    [] item.kind = "arr" -> print_array(item.items, depth)
    [] item.kind = "obj" -> print_object(item.items, depth)

\* The program of cJSON_Print.
cJSON_Print(item) == print_value(item, 0) \o <<Update>>

PrintPrograms == {cJSON_Print(item) : item \in Trees}

-----------------------------------------------------------------------------
\* The text of an item, written down directly: what its program is compared with.
RECURSIVE Render(_, _)
Comma(n, items) == IF n < Len(items) THEN <<",">> ELSE <<>>
Quoted(s) == <<"quote">> \o FlattenSeq([j \in DOMAIN s |-> Escaped(s[j])]) \o <<"quote">>
Render(item, depth) ==
  CASE item.kind \in {"lit", "num"} -> item.text
    [] item.kind = "str" -> Quoted(item.text)
    [] item.kind = "arr" ->
         <<"[">> \o FlattenSeq([n \in DOMAIN item.items |->
           Render(item.items[n], depth + 1) \o
           (IF n < Len(item.items) THEN <<",", " ">> ELSE <<>>)]) \o <<"]">>
    [] item.kind = "obj" ->
         <<"{", "newline">> \o FlattenSeq([n \in DOMAIN item.items |->
           Tabs(depth + 1) \o Quoted(item.items[n].string) \o <<":", "tab">> \o
           Render(item.items[n].value, depth + 1) \o Comma(n, item.items) \o
           <<"newline">>]) \o Tabs(depth) \o <<"}">>
=============================================================================
