--------------------------- MODULE ProtocolProofs ---------------------------
(***************************************************************************)
(* Proofs about Protocol, for payloads of any length and buffers of any    *)
(* size.                                                                   *)
(***************************************************************************)
EXTENDS Protocol, WellFoundedInduction, SequenceTheorems, FiniteSetTheorems, TLAPS

\* A non-empty set of numbers has a least one.
LEMMA LeastNat ==
  ASSUME NEW T \in SUBSET Nat, T # {}
  PROVE  \E x \in T : \A y \in T : x <= y
<1> DEFINE R == OpToRel(<, Nat)
<1>1. PICK x \in T : \A y \in T : ~(<<y, x>> \in R)
  <2> HIDE DEF R
  <2>1. IsWellFoundedOn(R, Nat)
    BY NatLessThanWellFounded DEF R
  <2> QED BY <2>1, WFMin
<1>2. ASSUME NEW y \in T PROVE x <= y
  <2>1. ~(<<y, x>> \in OpToRel(<, Nat))
    BY <1>1
  <2>2. x \in Nat /\ y \in Nat
    OBVIOUS
  <2>3. ~(y < x)
    BY <2>1, <2>2 DEF OpToRel
  <2> QED BY <2>2, <2>3
<1> QED BY <1>2

\* The inductive invariant: the types, and the buffer and the cursor in their
\* bounds.
IInv ==
  /\ payload \in Seq(Bytes)
  /\ data \in Seq(Bytes \ Unprintable)
  /\ cap \in Nat
  /\ LineInBounds

\* find_crlf returns a place in the payload, at or behind where it starts, with
\* the LF still in the payload.
LEMMA CrlfFound ==
  ASSUME payload \in Seq(Bytes), NEW from \in 1 .. size + 1, CrlfAt(from) # {}
  PROVE  find_crlf(from) \in from .. size - 1
<1>1. size \in Nat
  BY DEF size
<1>2. CrlfAt(from) \subseteq from .. size - 1 /\ CrlfAt(from) \in SUBSET Nat
  BY <1>1 DEF CrlfAt
<1>3. PICK p \in CrlfAt(from) : \A q \in CrlfAt(from) : p <= q
  <2> HIDE DEF CrlfAt
  <2> QED BY <1>2, LeastNat
<1>4. find_crlf(from) \in CrlfAt(from)
  BY <1>3 DEF find_crlf
<1> QED BY <1>2, <1>4

\* A buffer with room for the bytes of its contents keeps it, and gets only
\* printable bytes.
LEMMA AppendFits ==
  ASSUME payload \in Seq(Bytes), cap \in Nat,
         NEW b \in Seq(Bytes \ Unprintable), Len(b) <= cap,
         NEW from \in Nat \ {0}, NEW n \in Nat, from + n - 1 <= size
  PROVE  /\ buf_append(b, from, n) \in Seq(Bytes \ Unprintable)
         /\ Len(buf_append(b, from, n)) <= cap
<1> DEFINE k == Fitting(b, n)
           s == [j \in 1 .. k |-> Printed(payload[from + j - 1])]
<1>1. Len(b) \in Nat /\ size \in Nat
  BY DEF size
<1>2. k \in Nat /\ k <= n /\ Len(b) + k <= cap
  BY <1>1 DEF Fitting, Least
<1> HIDE DEF k
<1>3. ASSUME NEW j \in 1 .. k PROVE s[j] \in Bytes \ Unprintable
  <2>1. from + j - 1 \in 1 .. Len(payload)
    BY <1>1, <1>2 DEF size
  <2>2. payload[from + j - 1] \in Bytes
    BY <2>1
  <2> QED BY <2>2, BytesAssumption DEF Printed
<1>4. s \in Seq(Bytes \ Unprintable) /\ Len(s) = k
  <2>1. s \in [1 .. k -> Bytes \ Unprintable]
    BY <1>3
  <2> HIDE DEF s
  <2> QED BY <1>2, <2>1
<1>5. buf_append(b, from, n) = b \o s
  BY DEF buf_append, k
<1> HIDE DEF s
<1> QED BY <1>1, <1>2, <1>4, <1>5

LEMMA SeparatorFits ==
  ASSUME cap \in Nat, NEW b \in Seq(Bytes \ Unprintable), Len(b) <= cap
  PROVE  /\ Separated(b) \in Seq(Bytes \ Unprintable)
         /\ Len(Separated(b)) <= cap
<1>1. " " \in Bytes \ Unprintable
  BY BytesAssumption
<1>2. Len(b) \in Nat
  OBVIOUS
<1>3. CASE Separated(b) = b
  BY <1>3
<1>4. CASE Separated(b) = Append(b, " ") /\ Fitting(b, 1) = 1
  <2> DEFINE l == Len(b)
  <2>1. l + 1 <= cap
    <3>1. Fitting(b, 1) = 1
      BY <1>4
    <3>2. Fitting(b, 1) = IF 1 <= cap - l THEN 1 ELSE cap - l
      BY DEF Fitting, Least
    <3>3. l \in Nat
      BY <1>2
    <3> HIDE DEF l
    <3> QED BY <3>1, <3>2, <3>3
  <2>2. Append(b, " ") \in Seq(Bytes \ Unprintable) /\ Len(Append(b, " ")) = Len(b) + 1
    BY <1>1, AppendProperties, Zenon
  <2> QED BY <1>4, <2>1, <2>2
<1> QED BY <1>3, <1>4 DEF Separated, append_space

LEMMA InvInit == Init => IInv
<1> SUFFICES ASSUME Init PROVE IInv
  OBVIOUS
<1>1. payload \in Seq(Bytes) /\ size \in Nat /\ MAX_BUF_SIZE \in Nat
  <2>1. Payloads \subseteq Seq(Bytes) /\ MAX_BUF_SIZE \in Nat
    BY BytesAssumption, Zenon
  <2>2. payload \in Seq(Bytes)
    BY <2>1, Zenon DEF Init
  <2> QED BY <2>1, <2>2 DEF size
<1>2. data = <<>> /\ Len(data) = 0 /\ data \in Seq(Bytes \ Unprintable)
  BY DEF Init
<1> QED BY <1>1, <1>2 DEF Init, IInv, LineInBounds

LEMMA InvStep == IInv /\ [Next]_vars => IInv'
<1> SUFFICES ASSUME IInv, [Next]_vars PROVE IInv'
  OBVIOUS
<1>1. /\ payload \in Seq(Bytes) /\ data \in Seq(Bytes \ Unprintable) /\ cap \in Nat
      /\ Len(data) <= cap /\ cap <= MAX_BUF_SIZE /\ cap <= size
      /\ start \in 1 .. size + 1
      /\ size \in Nat /\ MAX_BUF_SIZE \in Nat /\ Len(data) \in Nat
  <2>1. MAX_BUF_SIZE \in Nat
    BY BytesAssumption, Zenon
  <2> QED BY <2>1 DEF IInv, LineInBounds, size
<1>2. CASE Begin
  <2>1. cap' = buf_init(size) /\ UNCHANGED <<payload, start>>
    BY <1>2 DEF Begin
  <2>2. data' = data
    BY <1>2 DEF Begin
  <2>3. mode = "begin"
    BY <1>2 DEF Begin
  <2>4. Len(data) <= buf_init(size)
    BY <1>1 DEF buf_init, Least
  <2>5. buf_init(size) \in Nat /\ buf_init(size) <= MAX_BUF_SIZE /\ buf_init(size) <= size
    BY <1>1 DEF buf_init, Least
  <2> QED BY <1>1, <2>1, <2>2, <2>4, <2>5 DEF IInv, LineInBounds, size
<1>3. CASE BeginFails
  BY <1>3 DEF BeginFails, IInv, LineInBounds, size
<1>4. CASE NextField
  <2> DEFINE p == find_crlf(start)
             b == buf_append(Separated(data), start, p - start)
  <2>1. /\ UNCHANGED <<payload, cap>>
        /\ data' = b \/ data' = data
        /\ start' = p + 2 \/ start' = start
    BY <1>4 DEF NextField
  <2>2. p \in start .. size - 1
    BY <1>1, <1>4, CrlfFound DEF NextField
  <2> HIDE DEF p
  <2>3. p + 2 \in 1 .. size + 1 /\ p - start \in Nat /\ start + (p - start) - 1 <= size
    BY <1>1, <2>2
  <2>4. b \in Seq(Bytes \ Unprintable) /\ Len(b) <= cap
    <3>1. Separated(data) \in Seq(Bytes \ Unprintable) /\ Len(Separated(data)) <= cap
      BY <1>1, SeparatorFits
    <3>2. start \in Nat \ {0}
      BY <1>1
    <3> QED BY <1>1, <2>3, <3>1, <3>2, AppendFits
  <2> HIDE DEF b
  <2> QED BY <1>1, <2>1, <2>3, <2>4 DEF IInv, LineInBounds, size
<1>5. CASE Finish
  <2>1. /\ UNCHANGED <<payload, cap, start>>
        /\ data' = buf_append(data, 1, size) \/ data' = data
    BY <1>5 DEF Finish
  <2>2. /\ buf_append(data, 1, size) \in Seq(Bytes \ Unprintable)
        /\ Len(buf_append(data, 1, size)) <= cap
    BY <1>1, AppendFits
  <2> QED BY <1>1, <2>1, <2>2 DEF IInv, LineInBounds, size
<1>6. CASE UNCHANGED vars
  BY <1>6 DEF vars, IInv, LineInBounds, size
<1> QED BY <1>2, <1>3, <1>4, <1>5, <1>6 DEF Next

\* The formatters write no byte behind the buffer and look at none behind the
\* payload, for every payload and every limit of the buffer.
THEOREM LineInBoundsHolds == Spec => []LineInBounds
<1>1. IInv => LineInBounds
  BY DEF IInv
<1> QED BY <1>1, InvInit, InvStep, PTL DEF Spec

\* No byte that would break the line gets into it.
THEOREM SingleLineHolds == Spec => []SingleLine
<1>1. IInv => SingleLine
  BY DEF IInv, SingleLine
<1> QED BY <1>1, InvInit, InvStep, PTL DEF Spec

-----------------------------------------------------------------------------
(* What a buffer holds of some places of the payload *)

\* An interval behind the places of S.
LEMMA IntervalBehind ==
  ASSUME NEW S \in SUBSET Nat, IsFiniteSet(S), NEW a \in Nat, NEW n \in Nat,
         \A q \in S : q < a
  PROVE  /\ IsFiniteSet(S \cup (a .. a + n - 1))
         /\ Cardinality(S \cup (a .. a + n - 1)) = Cardinality(S) + n
<1> DEFINE T == a .. a + n - 1
<1>1. IsFiniteSet(T) /\ Cardinality(T) = n
  <2>1. a \in Int /\ a + n - 1 \in Int
    OBVIOUS
  <2>2. IsFiniteSet(T) /\ Cardinality(T) = IF a > a + n - 1 THEN 0 ELSE (a + n - 1) - a + 1
    BY <2>1, FS_Interval
  <2> HIDE DEF T
  <2> QED BY <2>2
<1>2. S \cap T = {}
  OBVIOUS
<1> HIDE DEF T
<1>3. /\ IsFiniteSet(S \cup T)
      /\ Cardinality(S \cup T) = Cardinality(S) + Cardinality(T) - Cardinality(S \cap T)
  BY <1>1, FS_Union
<1>4. Cardinality(S) \in Nat /\ Cardinality(S \cap T) = 0
  BY <1>2, FS_CardinalityType, FS_EmptySet
<1>5. IsFiniteSet(S \cup T) /\ Cardinality(S \cup T) = Cardinality(S) + n
  BY <1>1, <1>3, <1>4
<1> QED BY <1>5 DEF T

\* The place of p among S is a number from 1 to the size of S.
LEMMA PlaceBounds ==
  ASSUME NEW S \in SUBSET Nat, IsFiniteSet(S), NEW p \in S
  PROVE  Place(S, p) \in Nat /\ 1 <= Place(S, p) /\ Place(S, p) <= Cardinality(S)
<1> DEFINE T == {q \in S : q <= p}
<1>1. T \in SUBSET S /\ p \in T
  OBVIOUS
<1> HIDE DEF T
<1>2. IsFiniteSet(T) /\ Cardinality(T) <= Cardinality(S)
  BY <1>1, FS_Subset
<1>3. Cardinality(T) \in Nat /\ Cardinality(T) # 0
  BY <1>1, <1>2, FS_CardinalityType, FS_EmptySet
<1>4. Cardinality(T) >= 1
  BY <1>3
<1> QED BY <1>2, <1>3, <1>4 DEF T, Place

\* Places behind those of S do not move them.
LEMMA PlaceKept ==
  ASSUME NEW S \in SUBSET Nat, NEW T \in SUBSET Nat, NEW p \in S, S \subseteq T,
         \A q \in T \ S : p < q
  PROVE  Place(T, p) = Place(S, p)
<1>1. {q \in T : q <= p} = {q \in S : q <= p}
  <2>1. \A q \in T \ S : ~(q <= p)
    OBVIOUS
  <2> QED BY <2>1
<1> QED BY <1>1 DEF Place

\* Appending the glyphs of the places a .. a + n - 1, as many as fit.
LEMMA HoldsMore ==
  ASSUME cap \in Nat, NEW S \in SUBSET Nat, IsFiniteSet(S), NEW a \in Nat, NEW n \in Nat,
         \A q \in S : q < a,
         NEW X, NEW b \in Seq(X), NEW c \in Seq(X), Holds(b, S),
         Len(c) = Fitting(b, n),
         \A j \in 1 .. Len(c) : c[j] = Glyph(a + j - 1)
  PROVE  Holds(b \o c, S \cup (a .. a + n - 1))
<1> DEFINE U == S \cup (a .. a + n - 1)
           s == Cardinality(S)
           d == b \o c
<1>1. s \in Nat /\ Len(b) \in Nat /\ Len(c) \in Nat
  BY FS_CardinalityType
<1>2. Len(b) = (IF s <= cap THEN s ELSE cap)
      /\ Len(c) = IF n <= cap - Len(b) THEN n ELSE cap - Len(b)
  BY DEF Holds, Least, Fitting
<1>3. IsFiniteSet(U) /\ Cardinality(U) = s + n
  BY IntervalBehind
<1>4. /\ Len(d) = Len(b) + Len(c)
      /\ \A k \in 1 .. Len(b) + Len(c) : d[k] = IF k <= Len(b) THEN b[k] ELSE c[k - Len(b)]
  BY ConcatProperties
<1>5. S \subseteq U /\ U \subseteq Nat /\ \A q \in U \ S : q >= a
  OBVIOUS
<1>6. \A p \in U : p \notin S => p \in a .. a + n - 1
  OBVIOUS
<1>11. ASSUME NEW p \in a .. a + n - 1
       PROVE  {q \in U : q <= p} = S \cup (a .. a + (p - a + 1) - 1)
  <2>1. \A q \in S : q <= p
    OBVIOUS
  <2>2. \A q : (q \in a .. a + n - 1 /\ q <= p) <=> q \in a .. a + (p - a + 1) - 1
    OBVIOUS
  <2> QED BY <2>1, <2>2
<1> HIDE DEF U, s, d
<1>7. Len(d) = Least(Cardinality(U), cap)
  BY <1>1, <1>2, <1>3, <1>4 DEF Least
<1>8. ASSUME NEW p \in S, Place(U, p) <= cap PROVE d[Place(U, p)] = Glyph(p)
  <2>1. Place(U, p) = Place(S, p)
    <3>1. \A q \in U \ S : p < q
      BY <1>5
    <3> QED BY <1>5, <3>1, PlaceKept
  <2>2. Place(S, p) \in Nat /\ 1 <= Place(S, p) /\ Place(S, p) <= s
    BY PlaceBounds DEF s
  <2>3. b[Place(S, p)] = Glyph(p)
    BY <1>8, <2>1 DEF Holds
  <2>4. Place(S, p) <= Len(b)
    BY <1>1, <1>2, <1>8, <2>1, <2>2
  <2> QED BY <1>1, <1>4, <2>1, <2>2, <2>3, <2>4
<1>9. ASSUME NEW p \in a .. a + n - 1, Place(U, p) <= cap PROVE d[Place(U, p)] = Glyph(p)
  <2> DEFINE k == p - a + 1
  <2>1. k \in 1 .. n /\ k \in Nat /\ a + k - 1 = p
    OBVIOUS
  <2> HIDE DEF k
  <2>2. Place(U, p) = s + k
    <3>1. {q \in U : q <= p} = S \cup (a .. a + k - 1)
      BY <1>11 DEF k
    <3>2. Cardinality(S \cup (a .. a + k - 1)) = s + k
      BY <2>1, IntervalBehind DEF s
    <3> QED BY <3>1, <3>2 DEF Place
  <2>3. s + k <= cap
    BY <1>9, <2>2
  <2>4. Len(b) = s /\ k \in 1 .. Len(c)
    BY <1>1, <1>2, <2>1, <2>3
  <2>5. s + k \in 1 .. Len(b) + Len(c) /\ ~(s + k <= Len(b)) /\ (s + k) - Len(b) = k
    BY <1>1, <2>1, <2>4
  <2>6. d[s + k] = c[k]
    BY <1>4, <2>5
  <2>7. c[k] = Glyph(p)
    BY <2>1, <2>4
  <2> QED BY <2>2, <2>6, <2>7
<1>10. Holds(d, U)
  BY <1>6, <1>7, <1>8, <1>9 DEF Holds
<1> QED BY <1>10 DEF d, U

\* A full buffer holds what further places would add to it.
LEMMA HoldsFull ==
  ASSUME cap \in Nat, NEW S \in SUBSET Nat, NEW T \in SUBSET Nat, IsFiniteSet(T),
         S \subseteq T, \A p \in T \ S, q \in S : q < p,
         NEW b, Holds(b, S), Len(b) >= cap
  PROVE  Holds(b, T)
<1> DEFINE s == Cardinality(S)
           t == Cardinality(T)
<1>1. IsFiniteSet(S) /\ s <= t
  BY FS_Subset
<1>2. s \in Nat /\ t \in Nat
  BY <1>1, FS_CardinalityType
<1>3. Len(b) = IF s <= cap THEN s ELSE cap
  BY DEF Holds, Least
<1> HIDE DEF s, t
<1>4. s >= cap /\ Len(b) = cap /\ t >= cap
  BY <1>1, <1>2, <1>3
<1>5. Len(b) = Least(t, cap)
  BY <1>2, <1>4 DEF Least
<1>6. ASSUME NEW p \in T, Place(T, p) <= cap PROVE b[Place(T, p)] = Glyph(p)
  <2>1. CASE p \in S
    <3>1. Place(T, p) = Place(S, p)
      BY <2>1, PlaceKept
    <3> QED BY <1>6, <2>1, <3>1 DEF Holds
  <2>2. CASE p \notin S
    <3> DEFINE V == {q \in T : q <= p}
    <3>1. V \in SUBSET T /\ S \cup {p} \in SUBSET V
      BY <2>2
    <3> HIDE DEF V
    <3>2. IsFiniteSet(V)
      BY <3>1, FS_Subset
    <3>3. Cardinality(S \cup {p}) <= Cardinality(V)
      BY <3>1, <3>2, FS_Subset
    <3>4. Cardinality(S \cup {p}) = s + 1
      BY <1>1, <2>2, FS_AddElement DEF s
    <3>5. Cardinality(V) \in Nat /\ Place(T, p) = Cardinality(V)
      BY <3>2, FS_CardinalityType DEF V, Place
    <3> QED BY <1>2, <1>4, <1>6, <3>3, <3>4, <3>5
  <2> QED BY <2>1, <2>2
<1> QED BY <1>5, <1>6 DEF Holds, t

LEMMA HoldsNothing ==
  ASSUME cap \in Nat, NEW b, Len(b) = 0
  PROVE  Holds(b, {})
BY FS_EmptySet DEF Holds, Least

-----------------------------------------------------------------------------
(* The fields of the payload *)

Kept == FieldBytes \cup Spaces

\* What the fields before the one that begins at n give to the line.
Before(n) == {p \in Kept : p + 1 < n}

LEMMA EndsFacts ==
  ASSUME payload \in Seq(Bytes)
  PROVE  /\ size \in Nat
         /\ Ends \subseteq 1 .. size - 1 /\ Ends \subseteq Nat /\ IsFiniteSet(Ends)
         /\ \A e \in Ends : e + 1 \notin Ends
         /\ \A from \in 1 .. size + 1 : CrlfAt(from) = {e \in Ends : e >= from}
         /\ Kept \subseteq 1 .. size /\ Kept \subseteq Nat /\ IsFiniteSet(Kept)
<1>1. size \in Nat
  BY DEF size
<1>2. Ends \subseteq 1 .. size - 1
  BY DEF Ends, CrlfAt
<1>3. Kept \subseteq 1 .. size
  BY DEF Kept, FieldBytes, Spaces
<1>4. IsFiniteSet(1 .. size - 1) /\ IsFiniteSet(1 .. size)
  BY <1>1, FS_Interval
<1>5. IsFiniteSet(Ends) /\ IsFiniteSet(Kept)
  BY <1>2, <1>3, <1>4, FS_Subset
<1>6. \A e \in Ends : payload[e] = "CR" /\ payload[e + 1] = "LF"
  BY DEF Ends, CrlfAt
<1>7. \A e \in Ends : e + 1 \notin Ends
  BY <1>6
<1>8. ASSUME NEW from \in 1 .. size + 1 PROVE CrlfAt(from) = {e \in Ends : e >= from}
  <2>1. \A p : p \in from .. size - 1 <=> (p \in 1 .. size - 1 /\ p >= from)
    BY <1>1
  <2> QED BY <2>1 DEF CrlfAt, Ends
<1> QED BY <1>1, <1>2, <1>3, <1>5, <1>7, <1>8

\* The loops stand at the beginning of a field.
AtField(n) == n \in 1 .. size + 1 /\ (n = 1 \/ n - 2 \in Ends)

Shows(n) == Loop = "lines" \/ (Loop = "array" /\ Number(n) # 0 /\ Number(n) % 2 = 0)

\* The field that begins at n and ends before e.
IsField(n, e) ==
  AtField(n) /\ e \in Ends /\ n <= e /\ \A d \in Ends : n <= d => e <= d

LEMMA FieldFound ==
  ASSUME payload \in Seq(Bytes), NEW n, AtField(n), CrlfAt(n) # {}
  PROVE  IsField(n, find_crlf(n))
<1>1. /\ size \in Nat /\ Ends \subseteq Nat
      /\ CrlfAt(n) = {e \in Ends : e >= n} /\ n \in Nat
  BY EndsFacts DEF AtField
<1>2. PICK p \in CrlfAt(n) : \A q \in CrlfAt(n) : p <= q
  <2>1. CrlfAt(n) \in SUBSET Nat
    BY <1>1
  <2> QED BY <2>1, LeastNat
<1>3. find_crlf(n) \in CrlfAt(n) /\ \A q \in CrlfAt(n) : find_crlf(n) <= q
  BY <1>2 DEF find_crlf
<1> HIDE DEF find_crlf
<1> QED BY <1>1, <1>3 DEF IsField

\* Every byte of a field has its number, and so has the LF before it.
LEMMA FieldNumber ==
  ASSUME payload \in Seq(Bytes), NEW n, NEW e, IsField(n, e)
  PROVE  /\ AtField(e + 2) /\ Number(e + 2) = Number(n) + 1 /\ Number(n) \in Nat
         /\ \A p \in n .. e - 1 : p \notin Ends /\ p - 1 \notin Ends
         /\ \A p \in n - 1 .. e - 1 : Wanted(p) <=> Shows(n)
<1>1. /\ size \in Nat /\ Ends \subseteq Nat /\ Ends \subseteq 1 .. size - 1
      /\ IsFiniteSet(Ends) /\ \A d \in Ends : d + 1 \notin Ends
  BY EndsFacts
<1>2. /\ n \in Nat /\ n >= 1 /\ e \in Nat /\ n <= e /\ e \in Ends
      /\ e <= size - 1 /\ (n = 1 \/ n - 2 \in Ends)
      /\ \A d \in Ends : n <= d => e <= d
  BY <1>1 DEF IsField, AtField
<1>3. AtField(e + 2)
  <2>1. (e + 2) - 2 = e /\ e + 2 \in 1 .. size + 1
    BY <1>1, <1>2
  <2> QED BY <1>2, <2>1 DEF AtField
<1>4. n - 1 \notin Ends
  <2>1. CASE n = 1
    BY <1>1, <2>1
  <2>2. CASE n - 2 \in Ends
    <3>1. (n - 2) + 1 = n - 1
      BY <1>2
    <3> QED BY <1>1, <2>2, <3>1
  <2> QED BY <1>2, <2>1, <2>2
<1>5. \A p \in n .. e - 1 : p \notin Ends
  BY <1>2
<1>6. \A p \in n .. e - 1 : p - 1 \notin Ends
  <2> TAKE p \in n .. e - 1
  <2>1. p - 1 = n - 1 \/ p - 1 \in n .. e - 1
    BY <1>2
  <2> QED BY <1>4, <1>5, <2>1
<1> DEFINE S == {d \in Ends : d < n}
<1>7. S \in SUBSET Ends /\ IsFiniteSet(S) /\ Number(n) = Cardinality(S) /\ e \notin S
  <2>1. S \in SUBSET Ends /\ e \notin S
    BY <1>2
  <2>2. IsFiniteSet(S)
    BY <1>1, <2>1, FS_Subset
  <2> QED BY <2>1, <2>2 DEF Number
<1>8. ASSUME NEW p \in n - 1 .. e PROVE Number(p) = Number(n)
  <2>1. p \in Nat
    BY <1>2
  <2>2. \A d \in Ends : d < p <=> d < n
    <3> TAKE d \in Ends
    <3>1. d \in Nat /\ d # n - 1
      BY <1>1, <1>4
    <3>2. n <= d => e <= d
      BY <1>2
    <3> QED BY <1>2, <2>1, <3>1, <3>2
  <2>3. {d \in Ends : d < p} = S
    BY <2>2
  <2> QED BY <1>7, <2>3 DEF Number
<1>9. Number(e + 2) = Cardinality(S \cup {e})
  <2>1. \A d \in Ends : d < e + 2 <=> (d < n \/ d = e)
    <3> TAKE d \in Ends
    <3>1. d \in Nat /\ d # e + 1
      BY <1>1, <1>2
    <3>2. n <= d => e <= d
      BY <1>2
    <3> QED BY <1>2, <3>1, <3>2
  <2>2. {d \in Ends : d < e + 2} = S \cup {e}
    BY <1>2, <2>1
  <2> QED BY <2>2 DEF Number
<1> HIDE DEF S
<1>10. Number(e + 2) = Number(n) + 1 /\ Number(n) \in Nat
  BY <1>7, <1>9, FS_AddElement, FS_CardinalityType
<1>11. ASSUME NEW p \in n - 1 .. e - 1 PROVE Wanted(p) <=> Shows(n)
  <2>1. p < e /\ p \in n - 1 .. e
    BY <1>2
  <2>2. Number(p) = Number(n)
    BY <1>8, <2>1
  <2> QED BY <1>2, <2>1, <2>2 DEF Wanted, Shows
<1> QED BY <1>3, <1>5, <1>6, <1>10, <1>11

\* What a field adds to the line: nothing if it is not shown, otherwise a space,
\* if something was shown before, and its bytes.
LEMMA FieldAdds ==
  ASSUME payload \in Seq(Bytes), NEW n, NEW e, IsField(n, e)
  PROVE  /\ ~Shows(n) => Before(e + 2) = Before(n)
         /\ Shows(n) =>
              /\ Before(n) = {} => Before(e + 2) = n .. e - 1
              /\ Before(n) # {} => /\ n - 1 \in Spaces
                                   /\ Before(e + 2) = Before(n) \cup (n - 1 .. n - 1)
                                                                \cup (n .. e - 1)
              /\ \A p \in n .. e - 1 : Glyph(p) = Printed(payload[p])
<1>1. /\ size \in Nat /\ Ends \subseteq Nat /\ Ends \subseteq 1 .. size - 1
      /\ \A d \in Ends : d + 1 \notin Ends
      /\ Kept \subseteq 1 .. size /\ Kept \subseteq Nat
  BY EndsFacts
<1>2. /\ n \in Nat /\ n >= 1 /\ e \in Nat /\ n <= e /\ e \in Ends
      /\ e <= size - 1 /\ (n = 1 \/ n - 2 \in Ends)
  BY <1>1 DEF IsField, AtField
<1>3. /\ \A p \in n .. e - 1 : p \notin Ends /\ p - 1 \notin Ends
      /\ \A p \in n - 1 .. e - 1 : Wanted(p) <=> Shows(n)
  BY FieldNumber
<1>4. \A p \in n .. e - 1 : p \notin Spaces /\ (p \in FieldBytes <=> Shows(n))
  <2> TAKE p \in n .. e - 1
  <2>1. p \in 1 .. size /\ p \in n - 1 .. e - 1
    BY <1>1, <1>2
  <2> QED BY <1>3, <2>1 DEF Spaces, FieldBytes
<1>5. e \notin Kept
  <2>1. e - 1 \notin Ends
    <3>1. (e - 1) + 1 = e
      BY <1>2
    <3> QED BY <1>1, <1>2, <3>1
  <2> QED BY <1>2, <2>1 DEF Kept, Spaces, FieldBytes
<1>6. n - 1 \notin FieldBytes
  <2>1. (n - 1) - 1 = n - 2 /\ (n = 1 => n - 1 \notin 1 .. size)
    BY <1>2
  <2> QED BY <1>2, <2>1 DEF FieldBytes
<1>7. Before(n) # {} <=> \E q \in FieldBytes : q < n - 1
  <2>1. ASSUME NEW p \in Before(n) PROVE \E q \in FieldBytes : q < n - 1
    <3>1. p \in Nat /\ p < n - 1 /\ p \in Kept
      BY <1>1, <1>2 DEF Before
    <3>2. CASE p \in FieldBytes
      BY <3>1, <3>2
    <3>3. CASE p \in Spaces
      <4>1. PICK q \in FieldBytes : q < p
        BY <3>3 DEF Spaces
      <4>2. q \in Nat
        BY <1>1 DEF Kept
      <4> QED BY <1>2, <3>1, <4>1, <4>2
    <3> QED BY <3>1, <3>2, <3>3 DEF Kept
  <2>2. ASSUME NEW q \in FieldBytes, q < n - 1 PROVE q \in Before(n)
    BY <1>1, <1>2, <2>2 DEF Before, Kept
  <2> QED BY <2>1, <2>2
<1>8. Before(n) # {} => n - 1 \in 1 .. size /\ (n - 1) - 1 \in Ends
  <2> SUFFICES ASSUME Before(n) # {} PROVE n - 1 \in 1 .. size /\ (n - 1) - 1 \in Ends
    OBVIOUS
  <2>1. PICK p : p \in Kept /\ p + 1 < n
    BY DEF Before
  <2>2. p \in Nat /\ n # 1
    BY <1>1, <1>2, <2>1
  <2>3. n - 2 \in Ends /\ (n - 1) - 1 = n - 2 /\ n - 1 \in 1 .. size
    BY <1>1, <1>2, <2>2
  <2> QED BY <2>3
<1>9. n - 1 \in Spaces <=> (Shows(n) /\ Before(n) # {})
  <2>1. n - 1 \in n - 1 .. e - 1
    BY <1>2
  <2>2. Wanted(n - 1) <=> Shows(n)
    BY <1>3, <2>1
  <2> QED BY <1>7, <1>8, <2>2 DEF Spaces
<1>10. \A p \in Nat : p + 1 < e + 2 <=> (p + 1 < n \/ p = n - 1 \/ p \in n .. e - 1 \/ p = e)
  BY <1>2
<1>11. \A p : p \in Before(e + 2) <=>
           (p \in Before(n) \/ (p = n - 1 /\ n - 1 \in Spaces)
                            \/ (p \in n .. e - 1 /\ Shows(n)))
  <2> TAKE p
  <2>1. CASE p \in Nat
    <3>1. p = n - 1 => (p \in Kept <=> n - 1 \in Spaces)
      BY <1>6 DEF Kept
    <3>2. p \in n .. e - 1 => (p \in Kept <=> Shows(n))
      BY <1>4 DEF Kept
    <3>3. p = e => p \notin Kept
      BY <1>5
    <3> QED BY <1>2, <1>10, <2>1, <3>1, <3>2, <3>3 DEF Before
  <2>2. CASE p \notin Nat
    <3>1. p \notin n .. e - 1 /\ p # n - 1
      BY <1>2, <2>2
    <3> QED BY <1>1, <2>2, <3>1 DEF Before
  <2> QED BY <2>1, <2>2
<1>12. n - 1 .. n - 1 = {n - 1}
  BY <1>2
<1>13. ~Shows(n) => Before(e + 2) = Before(n)
  BY <1>9, <1>11
<1>14. Shows(n) /\ Before(n) = {} => Before(e + 2) = n .. e - 1
  BY <1>9, <1>11
<1>15. Shows(n) /\ Before(n) # {} =>
         /\ n - 1 \in Spaces
         /\ Before(e + 2) = Before(n) \cup (n - 1 .. n - 1) \cup (n .. e - 1)
  BY <1>9, <1>11, <1>12
<1>16. Shows(n) => \A p \in n .. e - 1 : Glyph(p) = Printed(payload[p])
  BY <1>4 DEF Glyph
<1> QED BY <1>13, <1>14, <1>15, <1>16

-----------------------------------------------------------------------------
(* What the formatters append *)

LEMMA AppendHolds ==
  ASSUME payload \in Seq(Bytes), cap \in Nat, NEW S \in SUBSET Nat, IsFiniteSet(S),
         NEW a \in Nat \ {0}, NEW n \in Nat, a + n - 1 <= size, \A q \in S : q < a,
         NEW b \in Seq(Bytes), Len(b) <= cap, Holds(b, S),
         \A p \in a .. a + n - 1 : Glyph(p) = Printed(payload[p])
  PROVE  Holds(buf_append(b, a, n), S \cup (a .. a + n - 1))
<1> DEFINE k == Fitting(b, n)
           c == [j \in 1 .. k |-> Printed(payload[a + j - 1])]
<1>1. Len(b) \in Nat /\ size \in Nat
  BY DEF size
<1>2. k \in Nat /\ k <= n
  BY <1>1 DEF Fitting, Least
<1> HIDE DEF k
<1>3. ASSUME NEW j \in 1 .. k PROVE c[j] \in Bytes /\ c[j] = Glyph(a + j - 1)
  <2>1. a + j - 1 \in 1 .. Len(payload) /\ a + j - 1 \in a .. a + n - 1
    BY <1>1, <1>2 DEF size
  <2>0. "." \in Bytes
    BY BytesAssumption, Zenon
  <2>2. payload[a + j - 1] \in Bytes
    BY <2>1
  <2>3. c[j] = Printed(payload[a + j - 1])
    OBVIOUS
  <2> HIDE DEF c
  <2> QED BY <2>0, <2>1, <2>2, <2>3 DEF Printed
<1>4. c \in Seq(Bytes) /\ Len(c) = k
  <2>1. c \in [1 .. k -> Bytes]
    BY <1>3
  <2> HIDE DEF c
  <2> QED BY <1>2, <2>1
<1>5. buf_append(b, a, n) = b \o c
  BY DEF buf_append, k
<1>6. Len(c) = Fitting(b, n) /\ \A j \in 1 .. Len(c) : c[j] = Glyph(a + j - 1)
  BY <1>3, <1>4 DEF k
<1> HIDE DEF c
<1>7. Holds(b \o c, S \cup (a .. a + n - 1))
  BY <1>4, <1>6, HoldsMore
<1> QED BY <1>5, <1>7

LEMMA SeparatorHolds ==
  ASSUME cap \in Nat, NEW S \in SUBSET Nat, IsFiniteSet(S), S # {}, NEW a \in Nat,
         \A q \in S : q < a, NEW b \in Seq(Bytes), Holds(b, S), a \in Spaces
  PROVE  Holds(Separated(b), S \cup (a .. a))
<1> DEFINE s == Cardinality(S)
           l == Len(b)
<1>1. s \in Nat /\ s # 0 /\ l \in Nat
  BY FS_CardinalityType, FS_EmptySet
<1>2. l = IF s <= cap THEN s ELSE cap
  BY DEF Holds, Least
<1>3. Fitting(b, 1) = IF 1 <= cap - l THEN 1 ELSE cap - l
  BY DEF Fitting, Least
<1>4. b = <<>> <=> l = 0
  OBVIOUS
<1> HIDE DEF s, l
<1>5. CASE l >= cap
  <2>1. Fitting(b, 1) # 1
    BY <1>1, <1>2, <1>3, <1>5
  <2>2. Separated(b) = b
    BY <2>1 DEF Separated, append_space
  <2> DEFINE T == S \cup (a .. a)
  <2>3. T \in SUBSET Nat /\ S \subseteq T /\ \A p \in T \ S, q \in S : q < p
    OBVIOUS
  <2>4. IsFiniteSet(T)
    <3>1. a .. a = {a}
      OBVIOUS
    <3> QED BY <3>1, FS_AddElement
  <2> HIDE DEF T
  <2>5. Holds(b, T)
    BY <1>5, <2>3, <2>4, HoldsFull DEF l
  <2> QED BY <2>2, <2>5 DEF T
<1>6. CASE l < cap
  <2> DEFINE space == " "
             c == <<space>>
             n == 1
  <2>0. space \in Bytes
    BY BytesAssumption, Zenon
  <2>4. Glyph(a) = space
    BY DEF Glyph
  <2>9. append_space(b) = IF Fitting(b, 1) = 1 THEN Append(b, space) ELSE b
    BY DEF append_space
  <2> HIDE DEF space
  <2>1. Fitting(b, 1) = 1 /\ b # <<>>
    BY <1>1, <1>2, <1>3, <1>4, <1>6
  <2>2. Separated(b) = b \o c
    <3>1. Append(b, space) = b \o <<space>>
      BY <2>0, AppendIsConcat
    <3> QED BY <2>1, <2>9, <3>1 DEF Separated
  <2>3. c \in Seq(Bytes) /\ Len(c) = 1 /\ c[1] = space
    BY <2>0
  <2>5. n \in Nat /\ Len(c) = Fitting(b, n)
    BY <2>1, <2>3
  <2>6. \A j \in 1 .. Len(c) : c[j] = Glyph(a + j - 1)
    <3> HIDE DEF c
    <3> TAKE j \in 1 .. Len(c)
    <3>1. j = 1 /\ a + j - 1 = a
      BY <2>3
    <3> QED BY <2>3, <2>4, <3>1
  <2>7. a + n - 1 = a
    OBVIOUS
  <2> HIDE DEF c, n
  <2>8. Holds(b \o c, S \cup (a .. a + n - 1))
    BY <2>3, <2>5, <2>6, HoldsMore
  <2> QED BY <2>2, <2>7, <2>8
<1> QED BY <1>1, <1>5, <1>6

\* A buffer that is full is the line already.
LEMMA LineFrom ==
  ASSUME payload \in Seq(Bytes), cap \in Nat, NEW n \in Nat, NEW b,
         Holds(b, Before(n)), Len(b) >= cap
  PROVE  Holds(b, Line)
<1>1. /\ size \in Nat /\ Kept \subseteq 1 .. size /\ Kept \subseteq Nat /\ IsFiniteSet(Kept)
  BY EndsFacts
<1>2. Before(n) \subseteq Kept /\ \A p \in Kept \ Before(n), q \in Before(n) : q < p
  BY <1>1 DEF Before
<1>3. FieldBytes = {} => Spaces = {}
  BY DEF Spaces
<1>4. Line \in SUBSET Nat /\ IsFiniteSet(Line)
  <2>1. IsFiniteSet(1 .. size) /\ 1 .. size \subseteq Nat
    BY <1>1, FS_Interval
  <2> QED BY <1>1, <2>1 DEF Line, Kept
<1>5. Before(n) \subseteq Line /\ \A p \in Line \ Before(n), q \in Before(n) : q < p
  <2>1. CASE FieldBytes = {}
    BY <1>2, <1>3, <2>1 DEF Kept
  <2>2. CASE FieldBytes # {}
    BY <1>2, <2>2 DEF Line, Kept
  <2> QED BY <2>1, <2>2
<1>6. Before(n) \in SUBSET Nat
  BY <1>1, <1>2
<1> QED BY <1>4, <1>5, <1>6, HoldsFull

\* A shown field leaves what the line is up to its end.
LEMMA FieldHolds ==
  ASSUME payload \in Seq(Bytes), cap \in Nat, data \in Seq(Bytes \ Unprintable),
         Len(data) <= cap, NEW n, NEW e, IsField(n, e), Shows(n), Holds(data, Before(n))
  PROVE  Holds(buf_append(Separated(data), n, e - n), Before(e + 2))
<1>1. /\ size \in Nat /\ Ends \subseteq Nat /\ Ends \subseteq 1 .. size - 1
      /\ Kept \subseteq Nat /\ IsFiniteSet(Kept)
  BY EndsFacts
<1>2. n \in Nat \ {0} /\ e \in Nat /\ n <= e /\ e <= size - 1
  BY <1>1 DEF IsField, AtField
<1>3. /\ Before(n) = {} => Before(e + 2) = n .. e - 1
      /\ Before(n) # {} => /\ n - 1 \in Spaces
                           /\ Before(e + 2) = Before(n) \cup (n - 1 .. n - 1) \cup (n .. e - 1)
      /\ \A p \in n .. e - 1 : Glyph(p) = Printed(payload[p])
  BY FieldAdds
<1>4. /\ Before(n) \in SUBSET Nat /\ IsFiniteSet(Before(n))
      /\ \A q \in Before(n) : q < n - 1
  <2>1. Before(n) \subseteq Kept
    BY DEF Before
  <2>2. IsFiniteSet(Before(n))
    BY <1>1, <2>1, FS_Subset
  <2>3. ASSUME NEW q \in Before(n) PROVE q < n - 1
    <3>1. q \in Nat /\ q + 1 < n
      BY <1>1, <2>1 DEF Before
    <3> QED BY <1>2, <3>1
  <2> QED BY <1>1, <2>1, <2>2, <2>3
<1> DEFINE b == Separated(data)
           k == e - n
<1>5. k \in Nat /\ n + k - 1 <= size /\ n + k - 1 = e - 1
  BY <1>1, <1>2
<1>6. b \in Seq(Bytes) /\ Len(b) <= cap
  <2>1. b \in Seq(Bytes \ Unprintable) /\ Len(b) <= cap
    BY SeparatorFits
  <2> HIDE DEF b
  <2> QED BY <2>1
<1>7. ASSUME NEW S \in SUBSET Nat, IsFiniteSet(S), \A q \in S : q < n, Holds(b, S)
      PROVE  Holds(buf_append(b, n, k), S \cup (n .. e - 1))
  <2> HIDE DEF b, k
  <2>1. \A p \in n .. n + k - 1 : Glyph(p) = Printed(payload[p])
    BY <1>3, <1>5
  <2>2. Holds(buf_append(b, n, k), S \cup (n .. n + k - 1))
    BY <1>2, <1>5, <1>6, <1>7, <2>1, AppendHolds
  <2> QED BY <1>5, <2>2
<1>8. CASE Before(n) = {}
  <2>1. Len(data) = 0
    BY <1>8, FS_EmptySet DEF Holds, Least
  <2>2. b = data
    BY <2>1 DEF Separated
  <2> HIDE DEF b, k
  <2> DEFINE S == {}
  <2>3. S \in SUBSET Nat /\ IsFiniteSet(S) /\ (\A q \in S : q < n) /\ Holds(b, S)
    BY <1>8, <2>2, FS_EmptySet
  <2> HIDE DEF S
  <2>4. Holds(buf_append(b, n, k), S \cup (n .. e - 1))
    BY <1>7, <2>3
  <2>5. S \cup (n .. e - 1) = Before(e + 2)
    BY <1>3, <1>8 DEF S
  <2> QED BY <2>4, <2>5 DEF b, k
<1>9. CASE Before(n) # {}
  <2> DEFINE a == n - 1
             B == Before(n)
             S == B \cup (a .. a)
  <2>1. a \in Nat /\ a \in Spaces /\ B \in SUBSET Nat /\ IsFiniteSet(B) /\ B # {}
        /\ (\A q \in B : q < a) /\ Holds(data, B) /\ data \in Seq(Bytes)
    BY <1>2, <1>3, <1>4, <1>9
  <2>2. Holds(b, S)
    <3> HIDE DEF a, B
    <3> QED BY <2>1, SeparatorHolds
  <2>3. S \in SUBSET Nat /\ IsFiniteSet(S) /\ \A q \in S : q < n
    <3>1. a .. a = {a}
      BY <2>1
    <3>2. IsFiniteSet(S)
      BY <2>1, <3>1, FS_AddElement
    <3> QED BY <1>2, <2>1, <3>1, <3>2
  <2>4. S \cup (n .. e - 1) = Before(e + 2)
    BY <1>3, <1>9
  <2> HIDE DEF S, b, k
  <2>5. Holds(buf_append(b, n, k), S \cup (n .. e - 1))
    BY <1>7, <2>2, <2>3
  <2> QED BY <2>4, <2>5 DEF b, k
<1> QED BY <1>8, <1>9

-----------------------------------------------------------------------------
(* The finished line *)

\* Between two fields the buffer holds what the fields so far give to the line.
LoopInv ==
  /\ mode = "begin" => data = <<>> /\ start = 1 /\ fields = 0
  /\ mode = "raw" => data = <<>> /\ Loop = "raw"
  /\ mode \in {"array", "lines"} =>
       mode = Loop /\ AtField(start) /\ fields = Number(start) /\ Holds(data, Before(start))
  /\ LineAsJoined

\* As long as the payload and the protocol stay, so does the line.
LEMMA SameLine ==
  ASSUME payload' = payload, protocol' = protocol
  PROVE  /\ Loop' = Loop /\ Line' = Line
         /\ \A n : /\ (AtField(n)' <=> AtField(n))
                   /\ Number(n)' = Number(n) /\ Before(n)' = Before(n)
         /\ cap' = cap => \A b, S : Holds(b, S)' <=> Holds(b, S)
<1>1. size' = size /\ Loop' = Loop
  BY DEF size, Loop
<1>2. Ends' = Ends
  BY <1>1 DEF Ends, CrlfAt
<1>3. \A n : Number(n)' = Number(n)
  BY <1>2 DEF Number
<1>4. \A p : Wanted(p)' <=> Wanted(p)
  BY <1>1, <1>2, <1>3 DEF Wanted
<1>5. FieldBytes' = FieldBytes
  BY <1>1, <1>2, <1>4 DEF FieldBytes
<1>6. Spaces' = Spaces
  BY <1>1, <1>2, <1>4, <1>5 DEF Spaces
<1>7. Line' = Line
  BY <1>1, <1>5, <1>6 DEF Line
<1>8. \A n : Before(n)' = Before(n)
  BY <1>5, <1>6 DEF Before, Kept
<1>9. \A n : AtField(n)' <=> AtField(n)
  BY <1>1, <1>2 DEF AtField
<1>10. \A p : Glyph(p)' = Glyph(p)
  BY <1>6 DEF Glyph
<1>11. ASSUME cap' = cap, NEW b, NEW S PROVE Holds(b, S)' <=> Holds(b, S)
  BY <1>10, <1>11 DEF Holds, Place
<1> QED BY <1>1, <1>3, <1>7, <1>8, <1>9, <1>11

LEMMA LoopStarts ==
  ASSUME IInv, LoopInv, Begin
  PROVE  LoopInv'
<1>1. /\ mode = "begin" /\ mode' = Loop /\ cap' = buf_init(size)
      /\ payload' = payload /\ protocol' = protocol
      /\ start' = start /\ fields' = fields /\ data' = data
  BY DEF Begin
<1>2. data = <<>> /\ start = 1 /\ fields = 0
  BY <1>1 DEF LoopInv
<1>3. /\ payload \in Seq(Bytes) /\ size \in Nat /\ MAX_BUF_SIZE \in Nat
  <2>1. MAX_BUF_SIZE \in Nat
    BY BytesAssumption, Zenon
  <2>2. payload \in Seq(Bytes)
    BY DEF IInv
  <2> QED BY <2>1, <2>2 DEF size
<1>4. cap' \in Nat
  BY <1>1, <1>3 DEF buf_init, Least
<1>5. Loop' = Loop /\ Before(1)' = Before(1) /\ Number(1)' = Number(1)
      /\ (AtField(1)' <=> AtField(1))
  BY <1>1, SameLine
<1>6. Loop \in {"raw", "array", "lines"}
  BY DEF Loop
<1>7. Ends \subseteq Nat /\ Ends \subseteq 1 .. size - 1 /\ Kept \subseteq Nat
      /\ Kept \subseteq 1 .. size
  BY <1>3, EndsFacts
<1>8. Before(1) = {}
  <2>1. \A p \in Kept : ~(p + 1 < 1)
    BY <1>3, <1>7
  <2> QED BY <2>1 DEF Before
<1>9. Number(1) = 0
  <2>0. \A e \in Ends : ~(e < 1)
    BY <1>3, <1>7
  <2>1. {e \in Ends : e < 1} = {}
    BY <2>0
  <2> QED BY <2>1, FS_EmptySet DEF Number
<1>10. AtField(1)
  BY <1>3 DEF AtField
<1>11. Holds(data, Before(start))'
  <2>1. data' = <<>> /\ Before(start)' = {}
    BY <1>1, <1>2, <1>5, <1>8
  <2>2. Len(data') = 0
    BY <2>1
  <2> QED BY <1>4, <2>1, <2>2, FS_EmptySet DEF Holds, Least
<1> QED BY <1>1, <1>2, <1>5, <1>6, <1>9, <1>10, <1>11 DEF LoopInv, LineAsJoined

LEMMA LoopGoesOn ==
  ASSUME IInv, LoopInv, NextField
  PROVE  LoopInv'
<1>0. PICK e, b : e = find_crlf(start) /\ b = buf_append(Separated(data), start, e - start)
  OBVIOUS
<1>1. /\ mode \in {"array", "lines"} /\ CrlfAt(start) # {}
      /\ payload' = payload /\ protocol' = protocol /\ cap' = cap
      /\ Shown => /\ data' = b
                  /\ IF Len(b) >= cap
                     THEN mode' = "return" /\ start' = start /\ fields' = fields
                     ELSE start' = e + 2 /\ fields' = fields + 1 /\ mode' = mode
      /\ ~Shown => /\ start' = e + 2 /\ fields' = fields + 1
                   /\ data' = data /\ mode' = mode
  BY <1>0 DEF NextField
<1>2. /\ payload \in Seq(Bytes) /\ cap \in Nat /\ data \in Seq(Bytes \ Unprintable)
      /\ Len(data) <= cap
  BY DEF IInv, LineInBounds
<1>3. mode = Loop /\ AtField(start) /\ fields = Number(start) /\ Holds(data, Before(start))
  BY <1>1 DEF LoopInv
<1>4. IsField(start, e)
  BY <1>0, <1>1, <1>2, <1>3, FieldFound
<1>5. Shown <=> Shows(start)
  BY <1>1, <1>3 DEF Shown, Shows
<1>6. AtField(e + 2) /\ Number(e + 2) = Number(start) + 1
  BY <1>2, <1>4, FieldNumber
<1>7. e + 2 \in Nat
  <2>1. size \in Nat
    BY <1>2, EndsFacts
  <2> QED BY <1>6, <2>1 DEF AtField
<1>8. Shown => Holds(b, Before(e + 2))
  BY <1>0, <1>2, <1>3, <1>4, <1>5, FieldHolds
<1>9. ~Shown => Holds(data, Before(e + 2))
  BY <1>2, <1>3, <1>4, <1>5, FieldAdds
<1> DEFINE n == e + 2
<1>10. /\ Loop' = Loop /\ Line' = Line
       /\ (AtField(n)' <=> AtField(n)) /\ Number(n)' = Number(n) /\ Before(n)' = Before(n)
       /\ \A d, S : Holds(d, S)' <=> Holds(d, S)
  <2> HIDE DEF n
  <2> QED BY <1>1, SameLine
<1> HIDE DEF n
<1>11. CASE Shown /\ Len(b) >= cap
  <2>1. Holds(b, Line)
    BY <1>2, <1>7, <1>8, <1>11, LineFrom
  <2>2. mode' = "return" /\ data' = b
    BY <1>1, <1>11
  <2>3. Holds(data, Line)'
    BY <1>10, <2>1, <2>2
  <2> QED BY <2>2, <2>3 DEF LoopInv, LineAsJoined
<1>12. CASE ~(Shown /\ Len(b) >= cap)
  <2>1. start' = n /\ fields' = fields + 1 /\ mode' = mode /\ Holds(data', Before(n))
    BY <1>1, <1>8, <1>9, <1>12 DEF n
  <2>2. mode' # "begin" /\ mode' # "raw" /\ mode' # "return"
    BY <1>1, <2>1
  <2>4. AtField(n) /\ fields + 1 = Number(n)
    BY <1>3, <1>6 DEF n
  <2>5. PICK c : c = data'
    OBVIOUS
  <2>6. Holds(c, Before(n))'
    <3>1. PICK S : S = Before(n)
      OBVIOUS
    <3>2. Holds(c, S)'
      BY <1>10, <2>1, <2>5, <3>1
    <3> QED BY <1>10, <3>1, <3>2
  <2>3. AtField(start)' /\ fields' = Number(start)' /\ Holds(data, Before(start))'
    <3>1. AtField(start)'
      BY <1>10, <2>1, <2>4
    <3>2. fields' = Number(start)'
      BY <1>10, <2>1, <2>4
    <3>3. Holds(data, Before(start))'
      BY <2>1, <2>5, <2>6
    <3> QED BY <3>1, <3>2, <3>3
  <2> QED BY <1>3, <1>10, <2>1, <2>2, <2>3 DEF LoopInv, LineAsJoined
<1> QED BY <1>11, <1>12

LEMMA LoopEnds ==
  ASSUME IInv, LoopInv, Finish
  PROVE  LoopInv'
<1>0. PICK d : d = data'
  OBVIOUS
<1>1. /\ (mode \in {"array", "lines"} /\ CrlfAt(start) = {}) \/ mode = "raw"
      /\ d = IF data = <<>> THEN buf_append(data, 1, size) ELSE data
      /\ mode' = "return"
      /\ payload' = payload /\ protocol' = protocol /\ cap' = cap
  BY <1>0 DEF Finish
<1>2. /\ payload \in Seq(Bytes) /\ cap \in Nat /\ data \in Seq(Bytes \ Unprintable)
      /\ Len(data) <= cap /\ data \in Seq(Bytes)
  BY DEF IInv, LineInBounds
<1>3. /\ size \in Nat /\ Ends \subseteq Nat /\ Kept \subseteq 1 .. size
      /\ Kept \subseteq Nat /\ IsFiniteSet(Kept)
      /\ \A from \in 1 .. size + 1 : CrlfAt(from) = {e \in Ends : e >= from}
      /\ \A e \in Ends : e + 1 \notin Ends
  BY <1>2, EndsFacts
<1>4. FieldBytes = {} => Spaces = {}
  BY DEF Spaces
\* Without a byte to show, the payload is shown as it is.
<1>5. ASSUME FieldBytes = {}, data = <<>> PROVE Holds(d, Line)
  <2> DEFINE S == {}
             a == 1
             n == size
  <2>1. S \in SUBSET Nat /\ IsFiniteSet(S) /\ (\A q \in S : q < a) /\ a \in Nat \ {0}
        /\ n \in Nat /\ a + n - 1 <= size /\ a + n - 1 = n
    BY <1>3, FS_EmptySet
  <2>2. Holds(data, S)
    <3>1. Len(data) = 0
      BY <1>5
    <3> QED BY <1>2, <3>1, HoldsNothing
  <2>3. \A p \in a .. a + n - 1 : Glyph(p) = Printed(payload[p])
    BY <1>4, <1>5 DEF Glyph
  <2>4. S \cup (a .. n) = Line
    BY <1>5 DEF Line
  <2>5. d = buf_append(data, a, n)
    BY <1>1, <1>5
  <2> HIDE DEF S, a, n
  <2>6. Holds(buf_append(data, a, n), S \cup (a .. a + n - 1))
    BY <1>2, <2>1, <2>2, <2>3, AppendHolds
  <2> QED BY <2>1, <2>4, <2>5, <2>6
<1>6. CASE mode = "raw"
  <2>1. data = <<>> /\ Loop = "raw"
    BY <1>6 DEF LoopInv
  <2>2. FieldBytes = {}
    BY <2>1 DEF FieldBytes, Wanted
  <2> QED BY <1>0, <1>1, <1>5, <2>1, <2>2, SameLine DEF LoopInv, LineAsJoined
<1>7. CASE mode \in {"array", "lines"} /\ CrlfAt(start) = {}
  <2>1. AtField(start) /\ Holds(data, Before(start))
    BY <1>7 DEF LoopInv
  <2>2. \A e \in Ends : e < start /\ e # start - 1
    <3> TAKE e \in Ends
    <3>1. start \in Nat /\ start \in 1 .. size + 1 /\ e \in Nat
      BY <1>3, <2>1 DEF AtField
    <3>2. ~(e >= start)
      BY <1>3, <1>7, <3>1
    <3>3. e # start - 1
      <4>1. CASE start = 1
        BY <3>1, <4>1, EndsFacts, <1>2
      <4>2. CASE start - 2 \in Ends
        <5>1. (start - 2) + 1 = start - 1
          BY <3>1
        <5> QED BY <1>3, <4>2, <5>1
      <4> QED BY <2>1, <4>1, <4>2 DEF AtField
    <3> QED BY <3>1, <3>2, <3>3
  <2>3. Before(start) = Kept
    <3>1. ASSUME NEW p \in Kept PROVE p + 1 < start
      <4>1. PICK e \in Ends : p < e
        BY DEF Kept, FieldBytes, Spaces, Wanted
      <4>2. p \in Nat /\ e \in Nat /\ start \in Nat /\ e < start /\ e # start - 1
        BY <1>3, <2>1, <2>2 DEF AtField
      <4> QED BY <4>1, <4>2
    <3> QED BY <3>1 DEF Before
  <2>4. Len(data) = Least(Cardinality(Kept), cap) /\ Cardinality(Kept) \in Nat
        /\ (Cardinality(Kept) = 0 <=> Kept = {})
    BY <1>3, <2>1, <2>3, FS_CardinalityType, FS_EmptySet DEF Holds
  <2>5. CASE data # <<>>
    <3>1. Len(data) # 0
      BY <1>2, <2>5
    <3>2. Kept # {}
      BY <1>2, <2>4, <3>1 DEF Least
    <3>3. Line = Kept
      BY <1>4, <3>2 DEF Line, Kept
    <3>4. Holds(d, Line)
      BY <1>1, <2>1, <2>3, <2>5, <3>3
    <3> QED BY <1>0, <1>1, <3>4, SameLine DEF LoopInv, LineAsJoined
  <2>6. CASE data = <<>> /\ FieldBytes = {}
    BY <1>0, <1>1, <1>5, <2>6, SameLine DEF LoopInv, LineAsJoined
  <2>7. CASE data = <<>> /\ FieldBytes # {}
    <3>1. cap = 0
      <4>1. Len(data) = 0 /\ Cardinality(Kept) # 0
        BY <2>4, <2>7 DEF Kept
      <4> QED BY <1>2, <2>4, <4>1 DEF Least
    <3>2. Len(d) = 0
      <4>1. d = buf_append(data, 1, size) /\ 1 \in Nat \ {0} /\ 1 + size - 1 <= size
        BY <1>1, <1>3, <2>7
      <4>2. d \in Seq(Bytes \ Unprintable) /\ Len(d) <= cap
        BY <1>2, <1>3, <4>1, AppendFits
      <4>3. Len(d) \in Nat
        BY <4>2
      <4> QED BY <3>1, <4>2, <4>3
    <3>3. Holds(d, Before(0))
      <4>1. \A p \in Kept : ~(p + 1 < 0)
        BY <1>3
      <4>2. Before(0) = {}
        BY <4>1 DEF Before
      <4> QED BY <1>2, <3>2, <4>2, HoldsNothing
    <3>4. Holds(d, Line)
      <4> DEFINE n == 0
      <4>1. n \in Nat /\ Holds(d, Before(n)) /\ Len(d) >= cap
        BY <3>1, <3>2, <3>3
      <4> HIDE DEF n
      <4> QED BY <1>2, <4>1, LineFrom
    <3> QED BY <1>0, <1>1, <3>4, SameLine DEF LoopInv, LineAsJoined
  <2> QED BY <2>5, <2>6, <2>7
<1> QED BY <1>1, <1>6, <1>7

\* LineAsJoined for every payload and every limit of the buffer: however the
\* fields are cut, the line of a formatter is the joined fields, cut once.
THEOREM LineAsJoinedHolds == Spec => []LineAsJoined
<1>1. Init => LoopInv
  BY DEF Init, LoopInv, LineAsJoined
<1>2. ASSUME IInv, LoopInv, [Next]_vars PROVE LoopInv'
  <2>1. CASE BeginFails
    BY <2>1 DEF BeginFails, LoopInv, LineAsJoined
  <2>2. CASE UNCHANGED vars
    <3>1. UNCHANGED <<protocol, payload, mode, start, fields, data, cap>>
      BY <2>2 DEF vars
    <3>2. PICK n, b : n = start /\ b = data
      OBVIOUS
    <3>3. /\ Loop' = Loop /\ Line' = Line
          /\ (AtField(n)' <=> AtField(n)) /\ Number(n)' = Number(n)
          /\ Before(n)' = Before(n) /\ \A S : Holds(b, S)' <=> Holds(b, S)
      BY <3>1, SameLine
    <3>4. /\ Holds(b, Line)' <=> Holds(b, Line)
          /\ Holds(b, Before(n))' <=> Holds(b, Before(n))
      <4>1. PICK S, T : S = Line /\ T = Before(n)
        OBVIOUS
      <4>2. (Holds(b, S)' <=> Holds(b, S)) /\ (Holds(b, T)' <=> Holds(b, T))
        BY <3>3
      <4> QED BY <3>3, <4>1, <4>2
    <3>5. (Holds(data, Line)' <=> Holds(data, Line))
          /\ (Holds(data, Before(start))' <=> Holds(data, Before(start)))
      BY <3>1, <3>2, <3>4
    <3>6. (AtField(start)' <=> AtField(start)) /\ Number(start)' = Number(start)
      BY <3>1, <3>2, <3>3
    <3> QED BY <1>2, <3>1, <3>3, <3>5, <3>6 DEF LoopInv, LineAsJoined
  <2> QED BY <1>2, <2>1, <2>2, LoopStarts, LoopGoesOn, LoopEnds DEF Next
<1>3. LoopInv => LineAsJoined
  BY DEF LoopInv
<1> QED BY <1>1, <1>2, <1>3, InvInit, InvStep, PTL DEF Spec
=============================================================================
