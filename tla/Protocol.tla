------------------------------ MODULE Protocol ------------------------------
(***************************************************************************)
(* protocol.c: the summary line of a request, one step per field of the    *)
(* payload.  A payload is a sequence of bytes, of which the model tells    *)
(* apart those the code does: '*', CR, LF, other bytes that cannot be      *)
(* printed, and the rest.  Positions count from 1.                         *)
(***************************************************************************)
EXTENDS Integers, Sequences, FiniteSets

CONSTANTS
  Bytes,
  Unprintable,       \* below 0x20 or above 0x7e
  Payloads,
  MAX_BUF_SIZE

ASSUME BytesAssumption ==
  /\ {"*", "CR", "LF", " ", "."} \subseteq Bytes
  /\ Unprintable \subseteq Bytes
  /\ "CR" \in Unprintable /\ "LF" \in Unprintable
  /\ " " \notin Unprintable /\ "." \notin Unprintable
  /\ Payloads \subseteq Seq(Bytes) /\ MAX_BUF_SIZE \in Nat

VARIABLES
  protocol, payload,
  mode,              \* which loop formats the payload, or how it ended
  start, fields,     \* where the next field begins, how many came before
  data, cap          \* struct buf; its len is Len(data)

vars == <<protocol, payload, mode, start, fields, data, cap>>

Init ==
  /\ protocol \in {"raw", "redis", "memcached", "http"}
  /\ payload \in Payloads
  /\ mode = "begin" /\ start = 1 /\ fields = 0
  /\ data = <<>> /\ cap = 0

size == Len(payload)

-----------------------------------------------------------------------------
Least(a, b) == IF a <= b THEN a ELSE b

buf_init(n) == Least(n, MAX_BUF_SIZE)

\* Mutant: control characters are kept.
PrintedAsIs(c) == c

Printed(c) == IF c \in Unprintable THEN "." ELSE c

\* Mutant: the room in the buffer is not looked at.
Unlimited(b, n) == n

\* As many of n bytes as buffer b has room for.
Fitting(b, n) == Least(n, cap - Len(b))

\* buf_append of n bytes of the payload, from position `from' on.
buf_append(b, from, n) ==
  b \o [j \in 1 .. Fitting(b, n) |-> Printed(payload[from + j - 1])]

\* buf_append of one space.
append_space(b) == IF Fitting(b, 1) = 1 THEN Append(b, " ") ELSE b

\* The separator only stands between two fields.
Separated(b) == IF b # <<>> THEN append_space(b) ELSE b

\* Where a CR LF begins, at `from' or behind it, with both bytes in the payload.
CrlfAt(from) == {p \in from .. size - 1 : payload[p] = "CR" /\ payload[p + 1] = "LF"}

find_crlf(from) == CHOOSE p \in CrlfAt(from) : \A q \in CrlfAt(from) : p <= q

-----------------------------------------------------------------------------
\* The formatter of the protocol, and what it passes on to: format_redis hands
\* an empty payload to format_raw and one that is no array to format_memcached,
\* format_http is format_memcached.
Loop ==
  CASE protocol = "raw" -> "raw"
    [] protocol = "redis" -> IF size = 0 THEN "raw"
                             ELSE IF payload[1] = "*" THEN "array" ELSE "lines"
    [] OTHER -> "lines"

Begin ==
  /\ mode = "begin"
  /\ mode' = Loop /\ cap' = buf_init(size)
  /\ UNCHANGED <<protocol, payload, start, fields, data>>

\* malloc fails: the formatter returns NULL.
BeginFails ==
  /\ mode = "begin" /\ mode' = "failed"
  /\ UNCHANGED <<protocol, payload, start, fields, data, cap>>

\* Mutant: the length lines are shown, too.
AlwaysShown == fields # 0

\* The arguments of an array stand in the fields with even numbers.
Shown == mode = "lines" \/ (fields # 0 /\ fields % 2 = 0)

NextField ==
  /\ mode \in {"array", "lines"} /\ CrlfAt(start) # {}
  /\ LET pos == find_crlf(start)
         b   == buf_append(Separated(data), start, pos - start)
     IN  IF Shown
         THEN /\ data' = b
              /\ IF Len(b) >= cap
                 THEN mode' = "return" /\ UNCHANGED <<start, fields>>
                 ELSE start' = pos + 2 /\ fields' = fields + 1 /\ UNCHANGED mode
         ELSE start' = pos + 2 /\ fields' = fields + 1 /\ UNCHANGED <<data, mode>>
  /\ UNCHANGED <<protocol, payload, cap>>

\* A payload without a field to show is shown as it is.
Finish ==
  /\ \/ mode \in {"array", "lines"} /\ CrlfAt(start) = {}
     \/ mode = "raw"
  /\ data' = IF data = <<>> THEN buf_append(data, 1, size) ELSE data
  /\ mode' = "return"
  /\ UNCHANGED <<protocol, payload, start, fields, cap>>

Next == Begin \/ BeginFails \/ NextField \/ Finish

Spec == Init /\ [][Next]_vars

-----------------------------------------------------------------------------
(* Properties *)

\* The formatters never write beyond the buffer, whose last byte stays free for
\* the terminating NUL, and never look for a field outside the captured payload,
\* which is not NUL terminated, however the fields and separators are cut.
LineInBounds ==
  /\ Len(data) <= cap /\ cap <= MAX_BUF_SIZE /\ cap <= size
  /\ start \in 1 .. size + 1

\* protocol.c:35: "The result is a single summary line, so bytes that would
\* break it become dots".
SingleLine == \A j \in DOMAIN data : data[j] \in Bytes \ Unprintable

\* What the line should be, in terms of the payload alone.  A field ends at a CR
\* LF; fields are numbered from 0.  The byte at p lies in field Number(p), and so
\* does the LF before the field.
Ends == CrlfAt(1)
Number(p) == Cardinality({e \in Ends : e < p})

\* p belongs to a field that is complete and to be shown: every line of a text
\* protocol; of an array neither its head nor the length lines.
Wanted(p) ==
  /\ \E e \in Ends : p < e
  /\ \/ Loop = "lines"
     \/ Loop = "array" /\ Number(p) # 0 /\ Number(p) % 2 = 0

FieldBytes == {p \in 1 .. size : p \notin Ends /\ p - 1 \notin Ends /\ Wanted(p)}

\* The spaces of the line stand for the LF before a field, if a byte came earlier.
Spaces == {p \in 1 .. size : p - 1 \in Ends /\ Wanted(p) /\ \E q \in FieldBytes : q < p}

Line == IF FieldBytes = {} THEN 1 .. size ELSE FieldBytes \cup Spaces
Glyph(p) == IF p \in Spaces THEN " " ELSE Printed(payload[p])

\* The buffer b holds, in their order, as many of the places as it has room for.
Place(places, p) == Cardinality({q \in places : q <= p})
Holds(b, places) ==
  /\ Len(b) = Least(Cardinality(places), cap)
  /\ \A p \in places : Place(places, p) <= cap => b[Place(places, p)] = Glyph(p)

\* The finished line is what one gets by joining all fields first and cutting
\* the result to the buffer once, although the code cuts field by field, stops
\* early and appends separators it may have no room for.
LineAsJoined == mode = "return" => Holds(data, Line)
=============================================================================
