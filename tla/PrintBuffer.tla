---------------------------- MODULE PrintBuffer ----------------------------
(***************************************************************************)
(* The buffer cJSON prints into: print, ensure and update_offset.  The     *)
(* printing functions appear as a program: a sequence of puts, each of     *)
(* which reserves `need' bytes, writes its text (with a NUL behind it if   *)
(* `nul') where the printed text ends and moves the offset by `advance',   *)
(* and of calls of update_offset, which look for the NUL instead.  Module  *)
(* JsonPrint has the programs of print_value.                              *)
(***************************************************************************)
EXTENDS Integers, Sequences

CONSTANTS
  NULL,
  Characters,      \* of the texts
  Programs,
  default_buffer_size,
  INT_MAX

NUL == "NUL"           \* the byte that ends a string
Garbage == "garbage"   \* a byte nobody has written

Put(need, text, nul, advance) ==
  [op |-> "put", need |-> need, text |-> text, nul |-> nul, advance |-> advance]
Update == [op |-> "update"]

\* Mutant: the text is not terminated.
TextOnly(put) == put.text

\* The bytes a put writes.
Bytes(put) == put.text \o (IF put.nul THEN <<NUL>> ELSE <<>>)

ASSUME PrintAssumption ==
  /\ default_buffer_size \in Nat \ {0} /\ INT_MAX \in Nat
  /\ default_buffer_size <= INT_MAX
  /\ NUL \notin Characters /\ Garbage \notin Characters
  /\ Programs \subseteq Seq([op : {"put"}, need : Nat, text : Seq(Characters),
                            nul : BOOLEAN, advance : Nat] \cup {Update})

\* What the printing functions must do: write no more than the reserved bytes
\* and the one that ensure adds, move the offset over no more than they reserved,
\* and call update_offset only on a text that was just terminated.
ASSUME DisciplineAssumption ==
  \A prog \in Programs : \A k \in DOMAIN prog :
    IF prog[k].op = "put"
    THEN /\ Len(Bytes(prog[k])) <= prog[k].need + 1
         /\ prog[k].advance <= prog[k].need
    ELSE /\ k > 1 /\ prog[k - 1].op = "put"
         /\ prog[k - 1].nul /\ prog[k - 1].advance <= Len(prog[k - 1].text)

\* And they move the offset over what they wrote: themselves, or by the call of
\* update_offset behind it, with which every program ends.
ASSUME AdvanceAssumption ==
  \A prog \in Programs :
    /\ prog # <<>> /\ prog[Len(prog)].op = "update"
    /\ \A k \in DOMAIN prog :
         prog[k].op = "put" /\ prog[k].advance # Len(prog[k].text) =>
           k < Len(prog) /\ prog[k + 1].op = "update"

VARIABLES
  program, pos,
  buffer,          \* the allocated bytes, or NULL
  offset,
  high,            \* how far the buffer has been written
  state            \* "start", "print", "fail", "done"

vars == <<program, pos, buffer, offset, high, state>>

Fresh(n) == [j \in 1 .. n |-> Garbage]

Init ==
  /\ program \in Programs /\ pos = 1
  /\ buffer = NULL /\ offset = 0 /\ high = 0
  /\ state = "start"

Allocate ==
  /\ state = "start"
  /\ \/ buffer' = Fresh(default_buffer_size) /\ state' = "print"
     \/ UNCHANGED buffer /\ state' = "fail"
  /\ UNCHANGED <<program, pos, offset, high>>

-----------------------------------------------------------------------------
(* ensure *)

AtPut == state = "print" /\ pos <= Len(program) /\ program[pos].op = "put"

\* Mutant: the byte behind the reserved ones is forgotten.
NeededShort == program[pos].need + offset

Needed == program[pos].need + offset + 1
Fits == Needed <= Len(buffer)

\* The new length: twice what is needed, but no more than an int holds.
NewSize == IF Needed > INT_MAX \div 2 THEN INT_MAX ELSE Needed * 2

\* The put on a buffer that has room for it.
Written(b) ==
  LET bytes == Bytes(program[pos])
  IN  /\ buffer' = [j \in 1 .. Len(b) |->
                      IF j \in offset + 1 .. offset + Len(bytes) THEN bytes[j - offset] ELSE b[j]]
      /\ high' = IF offset + Len(bytes) > high THEN offset + Len(bytes) ELSE high
      /\ offset' = offset + program[pos].advance
      /\ pos' = pos + 1
      /\ UNCHANGED <<program, state>>

PutFits == AtPut /\ offset < Len(buffer) /\ Fits /\ Written(buffer)

PutGrows ==
  /\ AtPut /\ offset < Len(buffer) /\ ~Fits /\ Needed <= INT_MAX
  /\ Written([j \in 1 .. NewSize |-> IF j <= Len(buffer) THEN buffer[j] ELSE Garbage])

\* realloc fails: ensure frees the buffer and forgets it.
GrowFails ==
  /\ AtPut /\ offset < Len(buffer) /\ ~Fits /\ Needed <= INT_MAX
  /\ buffer' = NULL /\ state' = "fail"
  /\ UNCHANGED <<program, pos, offset, high>>

\* The text would be longer than an int holds.
TooLong ==
  /\ AtPut /\ (offset >= Len(buffer) \/ (~Fits /\ Needed > INT_MAX))
  /\ state' = "fail"
  /\ UNCHANGED <<program, pos, buffer, offset, high>>

-----------------------------------------------------------------------------
\* The NULs at the offset or behind it; strlen runs up to the first.
Ends == {j \in offset + 1 .. Len(buffer) : buffer[j] = NUL}

AtUpdate == state = "print" /\ pos <= Len(program) /\ program[pos].op = "update"

update_offset ==
  /\ AtUpdate
  /\ offset' = (CHOOSE j \in Ends : \A k \in Ends : j <= k) - 1
  /\ pos' = pos + 1
  /\ UNCHANGED <<program, buffer, high, state>>

\* Mutant: the NUL is cut off with the rest.
FinishShort ==
  /\ state = "print" /\ pos > Len(program)
  /\ buffer' = SubSeq(buffer, 1, offset) /\ state' = "done"
  /\ UNCHANGED <<program, pos, offset, high>>

\* The result is cut to its text and its NUL.
Finish ==
  /\ state = "print" /\ pos > Len(program)
  /\ \/ buffer' = SubSeq(buffer, 1, offset + 1) /\ state' = "done"
     \/ UNCHANGED buffer /\ state' = "fail"
  /\ UNCHANGED <<program, pos, offset, high>>

\* The label `fail' of print: free what there is, return NULL.
Fail ==
  /\ state = "fail"
  /\ buffer' = NULL /\ state' = "done"
  /\ UNCHANGED <<program, pos, offset, high>>

Next ==
  \/ Allocate \/ PutFits \/ PutGrows \/ GrowFails \/ TooLong
  \/ update_offset \/ Finish \/ Fail

Spec == Init /\ [][Next]_vars

-----------------------------------------------------------------------------
(* Properties *)

\* No put writes beyond the allocated bytes, on no path of growth, and the
\* offset stays inside the buffer, so that ensure never refuses a valid one.
WritesInBuffer ==
  state = "print" => /\ high <= Len(buffer) /\ Len(buffer) <= INT_MAX
                     /\ offset < Len(buffer)

\* strlen, called by update_offset, finds a NUL before it leaves the buffer and
\* before it meets a byte that nobody wrote.
StrlenStops ==
  AtUpdate => \E e \in Ends : \A j \in offset + 1 .. e : buffer[j] # Garbage

\* What a step of a program adds to the text.
TextOf(step) == IF step.op = "put" THEN step.text ELSE <<>>

\* The bytes b begin with the texts of the first n steps, one behind the other;
\* that of step k ends at at[k].
LaidOut(b, n, at) ==
  /\ at \in [0 .. n -> 0 .. Len(b)] /\ at[0] = 0
  /\ \A k \in 1 .. n :
       LET text == TextOf(program[k])
       IN  /\ at[k] = at[k - 1] + Len(text) /\ at[k] <= at[n]
           /\ \A j \in 1 .. Len(text) : b[at[k - 1] + j] = text[j]

\* What cJSON_Print returns is what the printing functions put, complete and in
\* order, and a NUL, wherever realloc moved the buffer and although update_offset
\* finds the end of the text by looking for it.
TextsPrinted ==
  state = "done" /\ buffer # NULL =>
    \E at \in [0 .. Len(program) -> 0 .. Len(buffer)] :
      /\ LaidOut(buffer, Len(program), at)
      /\ at[Len(program)] = Len(buffer) - 1 /\ buffer[Len(buffer)] = NUL
=============================================================================
