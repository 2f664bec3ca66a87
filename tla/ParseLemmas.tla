---------------------------- MODULE ParseLemmas ----------------------------
(* Lemmas that ParseProofs takes the actions of the parser apart with: what a
   read, a condition and a new field do to the context, which fields they leave
   listed and counted, and what a step within a transaction has to show.  They
   hold for every set of lengths and of words found in the buffer, every size of
   the table, and every width of a word. *)
EXTENDS FieldProofs, SequenceTheorems, FiniteSetTheorems

-----------------------------------------------------------------------------
(* Arithmetic modulo UINT32 *)

LEMMA Wraps ==
    ASSUME NEW x \in Int, -UINT32 <= x, x < 2 * UINT32
    PROVE  x % UINT32 = IF x < 0 THEN x + UINT32
                        ELSE IF x < UINT32 THEN x ELSE x - UINT32
<1> DEFINE q == x \div UINT32
           r == x % UINT32
<1>1. UINT32 \in Nat /\ UINT32 > 0
  BY Uint32Assumption
<1>2. x = UINT32 * q + r /\ q \in Int /\ r \in 0..(UINT32 - 1)
  BY <1>1
<1> HIDE DEF q, r
<1>3. q \in {-1, 0, 1}
  BY <1>1, <1>2
<1>4. r = IF x < 0 THEN x + UINT32 ELSE IF x < UINT32 THEN x ELSE x - UINT32
  BY <1>1, <1>2, <1>3
<1> QED BY <1>4 DEF r

LEMMA LengthsAreWords ==
    ASSUME NEW n \in Lengths
    PROVE  n \in Nat /\ n < UINT32
<1>1. UINT32 \in Nat /\ UINT32 > 0
  BY Uint32Assumption
<1>2. n \in 0..(UINT32 - 1)
  BY LengthsAssumption
<1> QED BY <1>1, <1>2

\* The two comparisons of has_data exclude that the sum wraps.
LEMMA HasData ==
    ASSUME NEW c \in Context, c.offset <= c.length, NEW n \in Uint32, has_data(c, n)
    PROVE  c.offset + n <= c.length
<1>1. /\ c.offset \in Nat /\ c.length \in Lengths
  BY DEF Context
<1>2. /\ c.length < UINT32 /\ n \in Nat /\ n < UINT32 /\ c.length \in Nat
      /\ UINT32 \in Nat /\ UINT32 > 0
  BY <1>1, LengthsAreWords, Uint32Assumption DEF Uint32
<1>3. PICK x \in Int : x = c.offset + n
  BY <1>1, <1>2
<1>4. PICK y \in Int : y = x - 1
  BY <1>3
<1>5. /\ 0 <= x /\ x < 2 * UINT32 /\ -UINT32 <= x
      /\ -1 <= y /\ y < 2 * UINT32 /\ -UINT32 <= y
  BY <1>1, <1>2, <1>3, <1>4
<1>6. x % UINT32 = IF x < 0 THEN x + UINT32
                   ELSE IF x < UINT32 THEN x ELSE x - UINT32
  BY <1>5, Wraps
<1>7. y % UINT32 = IF y < 0 THEN y + UINT32
                   ELSE IF y < UINT32 THEN y ELSE y - UINT32
  BY <1>5, Wraps
<1>8. x % UINT32 >= c.offset /\ y % UINT32 < c.length
  <2>1. y = c.offset + n - 1
    BY <1>1, <1>2, <1>3, <1>4
  <2> QED BY <1>3, <2>1 DEF has_data
<1>9. x <= c.length
  BY <1>1, <1>2, <1>3, <1>4, <1>5, <1>6, <1>7, <1>8
<1> QED BY <1>3, <1>9

\* Lengths that add up modulo UINT32 add up, when the sum is below UINT32.
LEMMA AddsUp ==
    ASSUME NEW whole \in Uint32, NEW parts \in Uint32, Adds(whole, parts)
    PROVE  whole = parts
<1>1. whole - parts \in Int /\ -UINT32 <= whole - parts /\ whole - parts < 2 * UINT32
  BY Uint32Assumption DEF Uint32
<1>2. (whole - parts) % UINT32 = IF whole - parts < 0 THEN whole - parts + UINT32
                                 ELSE whole - parts
  BY <1>1, Wraps, Uint32Assumption DEF Uint32
<1> QED BY <1>2, Uint32Assumption DEF Adds, Uint32

-----------------------------------------------------------------------------
(* What reading and adding fields does to the context.  Moves(c, d, n): d
   comes from c by reading n bytes and adding fields, unless something failed. *)

Size(c) == Len(c.fields)

Good(c) == /\ c \in Context
           /\ c.offset <= c.length
           /\ Size(c) <= MAX_FIELD_COUNT
           /\ \A i \in 1..Size(c) : Recorded(c.fields[i], c.length)

Moves(c, d, n) ==
    /\ Good(d)
    /\ d.length = c.length
    /\ d.transactionType = c.transactionType
    /\ d.headers = c.headers
    /\ d.offset >= c.offset
    /\ d.ok => /\ c.ok
               /\ d.offset = c.offset + n
               /\ Size(d) >= Size(c)
               /\ \A i \in 1..Size(c) : d.fields[i] = c.fields[i]

LEMMA MovesOn ==
    ASSUME NEW c, NEW d, NEW e, NEW n \in Nat, NEW m \in Nat,
           Good(c), Moves(c, d, n), Moves(d, e, m)
    PROVE  Moves(c, e, n + m)
<1>1. /\ c.offset \in Nat /\ d.offset \in Nat /\ e.offset \in Nat
      /\ Size(c) \in Nat /\ Size(d) \in Nat /\ Size(e) \in Nat
  BY DEF Good, Moves, Context, Size
<1>2. /\ Good(e) /\ e.length = c.length /\ e.transactionType = c.transactionType
      /\ e.headers = c.headers /\ e.offset >= c.offset
  BY <1>1 DEF Moves
<1>3. ASSUME e.ok
      PROVE  /\ c.ok /\ e.offset = c.offset + (n + m)
             /\ Size(e) >= Size(c)
  <2>1. /\ d.ok /\ e.offset = d.offset + m /\ Size(e) >= Size(d)
    BY <1>3 DEF Moves
  <2>2. /\ c.ok /\ d.offset = c.offset + n /\ Size(d) >= Size(c)
    BY <2>1 DEF Moves
  <2> QED BY <1>1, <2>1, <2>2
<1>4. ASSUME e.ok, NEW i \in 1..Size(c)
      PROVE  e.fields[i] = c.fields[i]
  <2>1. /\ d.ok /\ d.fields[i] = c.fields[i]
        /\ Size(d) >= Size(c)
    BY <1>4 DEF Moves
  <2>2. i \in 1..Size(d)
    BY <1>1, <2>1
  <2> QED BY <1>4, <2>1, <2>2 DEF Moves
<1> QED BY <1>2, <1>3, <1>4 DEF Moves

LEMMA Stays == ASSUME NEW c, Good(c) PROVE Moves(c, c, 0)
BY DEF Moves, Good, Context, Size

LEMMA RequireMoves ==
    ASSUME NEW c, Good(c), NEW condition \in BOOLEAN
    PROVE  /\ Moves(c, Require(c, condition), 0)
           /\ Require(c, condition).ok => condition
<1> DEFINE d == Require(c, condition)
<1>1. /\ d \in Context /\ d.offset = c.offset /\ d.length = c.length
      /\ d.fields = c.fields /\ d.headers = c.headers
      /\ d.transactionType = c.transactionType
      /\ d.ok <=> c.ok /\ condition
  BY DEF Good, Require, Context
<1> HIDE DEF d
<1>2. c.offset \in Nat /\ Size(c) \in Nat
  BY DEF Good, Context, Size
<1>3. Moves(c, d, 0) /\ (d.ok => condition)
  BY <1>1, <1>2 DEF Good, Moves, Size
<1> QED BY <1>3 DEF d

LEMMA ReadMoves ==
    ASSUME NEW c, Good(c), NEW n \in Uint32
    PROVE  Moves(c, Read(c, n), n)
<1>1. CASE c.ok /\ has_data(c, n)
  <2> DEFINE d == Read(c, n)
  <2>1. d = [c EXCEPT !.offset = @ + n]
    BY <1>1 DEF Read, read_data, Good, Context
  <2>2. c.offset \in Nat /\ Size(c) \in Nat /\ n \in Nat
    BY DEF Good, Context, Uint32, Size
  <2>3. /\ d \in Context /\ d.offset = c.offset + n /\ d.length = c.length
        /\ d.fields = c.fields /\ d.headers = c.headers
        /\ d.transactionType = c.transactionType /\ d.ok = c.ok
    BY <2>1, <2>2 DEF Good, Context
  <2>4. c.offset + n <= c.length
    BY <1>1, HasData DEF Good
  <2> HIDE DEF d
  <2>5. Moves(c, d, n)
    BY <1>1, <2>2, <2>3, <2>4 DEF Good, Moves, Size
  <2> QED BY <2>5 DEF d
<1>2. CASE c.ok /\ ~has_data(c, n)
  <2> DEFINE d == Require(c, FALSE)
  <2>1. Read(c, n) = d
    BY <1>2 DEF Read, read_data
  <2>2. Moves(c, d, 0) /\ ~d.ok
    BY RequireMoves
  <2> HIDE DEF d
  <2> QED BY <2>1, <2>2 DEF Moves
<1>3. CASE ~c.ok
  <2>1. Read(c, n) = c
    BY <1>3 DEF Read
  <2> QED BY <1>3, <2>1, Stays DEF Moves
<1> QED BY <1>1, <1>2, <1>3

-----------------------------------------------------------------------------
(* Adding a field *)

\* With a data type its ids are known.
USE DEF Uint32Ids, AddressIds, MosaicIds, NemIds, MessageIds, StringIds

\* What Recorded asks of the lengths of a field, whatever its place, and the
\* bytes it takes.
Fits(id, length, head, tail) ==
    /\ DataType(id) # "none"
    /\ DataType(id) \in {"STI_NEM", "STI_MOSAIC_CURRENCY"} => length = 8
    /\ DataType(id) = "STI_ADDRESS" => length <= ADDRESS
    /\ DataType(id) = "STI_HASH256" => length <= PUBLICKEY
    /\ IsPublicKey(id) => length = PUBLICKEY
    /\ IsPair(id) => length = Pair(head, tail)

Width(id, length) == IF DataType(id) = "STI_UINT32" THEN 4 ELSE length

LEMMA FitsIsLabelled ==
    ASSUME NEW id, DataType(id) # "none"
    PROVE  id \in LabelledIds
<1>1. CASE id = "NEM_STR_PROPERTY"
  BY <1>1 DEF LabelledIds
<1>2. CASE id # "NEM_STR_PROPERTY"
  BY <1>2, LabelFound DEF LabelledIds
<1> QED BY <1>1, <1>2

\* One more read, or one more condition.
LEMMA ThenRead ==
    ASSUME NEW c, Good(c), NEW d, NEW n \in Nat, Moves(c, d, n),
           NEW m \in Uint32, NEW l \in Nat, l = n + m
    PROVE  Moves(c, Read(d, m), l)
<1>1. Good(d) /\ m \in Nat
  BY DEF Moves, Uint32
<1>2. Moves(d, Read(d, m), m)
  BY <1>1, ReadMoves
<1>3. Moves(c, Read(d, m), n + m)
  BY <1>1, <1>2, MovesOn
<1> QED BY <1>3

LEMMA ThenRequire ==
    ASSUME NEW c, Good(c), NEW d, NEW n \in Nat, Moves(c, d, n),
           NEW condition \in BOOLEAN
    PROVE  /\ Moves(c, Require(d, condition), n)
           /\ Require(d, condition).ok => condition
<1>1. Good(d)
  BY DEF Moves
<1>2. /\ Moves(d, Require(d, condition), 0)
      /\ Require(d, condition).ok => condition
  BY <1>1, RequireMoves
<1>3. Moves(c, Require(d, condition), n + 0)
  BY <1>2, MovesOn, <1>1
<1> QED BY <1>2, <1>3

\* One more field, whose data has been read.
LEMMA AddMoves ==
    ASSUME NEW c, Good(c), NEW id, NEW start \in Nat \cup {STACK}, NEW length \in Nat,
           NEW head \in Nat, NEW tail \in Nat, Fits(id, length, head, tail),
           c.ok => HasNoData(id) \/ (start \in Nat /\ start + Width(id, length) <= c.offset)
    PROVE  /\ Moves(c, Add(c, id, start, length, head, tail), 0)
           /\ Add(c, id, start, length, head, tail).ok =>
                 /\ Size(Add(c, id, start, length, head, tail)) = Size(c) + 1
                 /\ Add(c, id, start, length, head, tail).fields[Size(c) + 1] =
                       [id |-> id, at |-> start, length |-> length,
                        head |-> head, tail |-> tail]
<1> DEFINE d == Add(c, id, start, length, head, tail)
           f == [id |-> id, at |-> start, length |-> length,
                 head |-> head, tail |-> tail]
<1>1. CASE c.ok /\ Len(c.fields) < MAX_FIELD_COUNT
  <2>1. d = [c EXCEPT !.fields = Append(@, f)]
    BY <1>1 DEF Add
  <2>2. /\ c \in Context /\ c.offset \in Nat /\ c.length \in Nat
        /\ c.fields \in Seq(Field) /\ Size(c) \in Nat
    <3>1. c.length \in Lengths /\ c.offset \in Nat /\ c.fields \in Seq(Field)
      BY DEF Good, Context
    <3> QED BY <3>1, LengthsAreWords DEF Good, Size
  <2>3. f \in Field
    BY FitsIsLabelled DEF Field, Fits
  <2>4. /\ f.id = id /\ f.at = start /\ f.length = length
        /\ f.head = head /\ f.tail = tail
    OBVIOUS
  <2> HIDE DEF f
  <2>5. Recorded(f, c.length)
    <3>1. HasNoData(id) \/ (start >= 0 /\ start + Span(f) <= c.length)
      BY <1>1, <2>2, <2>4 DEF Good, Span, Width
    <3> QED BY <2>3, <2>4, <3>1 DEF Recorded, Fits
  <2>6. /\ d \in Context /\ d.offset = c.offset /\ d.length = c.length
        /\ d.fields = Append(c.fields, f) /\ d.headers = c.headers
        /\ d.transactionType = c.transactionType /\ d.ok = c.ok
    <3> DEFINE g == Append(c.fields, f)
    <3>1. g \in Seq(Field)
      BY <2>2, <2>3
    <3>2. d = [c EXCEPT !.fields = g]
      BY <2>1
    <3> HIDE DEF g, d
    <3>3. /\ d \in Context /\ d.offset = c.offset /\ d.length = c.length
          /\ d.fields = g /\ d.headers = c.headers
          /\ d.transactionType = c.transactionType /\ d.ok = c.ok
      BY <2>2, <3>1, <3>2 DEF Context
    <3> QED BY <3>3 DEF g
  <2> HIDE DEF d
  <2>7. /\ Size(d) = Size(c) + 1
        /\ \A i \in 1..Size(c) : d.fields[i] = c.fields[i]
        /\ d.fields[Size(c) + 1] = f
    BY <2>2, <2>3, <2>6 DEF Size
  <2>8. \A i \in 1..Size(d) : Recorded(d.fields[i], d.length)
    <3> SUFFICES ASSUME NEW i \in 1..Size(d) PROVE Recorded(d.fields[i], d.length)
      OBVIOUS
    <3>1. CASE i \in 1..Size(c)
      BY <3>1, <2>6, <2>7 DEF Good
    <3>2. CASE i = Size(c) + 1
      BY <3>2, <2>5, <2>6, <2>7
    <3> QED BY <2>2, <2>7, <3>1, <3>2
  <2>9. Moves(c, d, 0)
    <3>1. Good(d)
      <4>1. Size(d) <= MAX_FIELD_COUNT
        BY <1>1, <2>2, <2>7, FieldCountAssumption DEF Size
      <4> QED BY <2>2, <2>6, <2>8, <4>1 DEF Good
    <3>2. d.offset >= c.offset /\ d.offset = c.offset + 0
      BY <2>2, <2>6
    <3>3. Size(d) >= Size(c) /\ \A i \in 1..Size(c) : d.fields[i] = c.fields[i]
      BY <2>2, <2>7
    <3>4. /\ d.length = c.length /\ d.transactionType = c.transactionType
          /\ d.headers = c.headers
      BY <2>6
    <3> QED BY <1>1, <3>1, <3>2, <3>3, <3>4 DEF Moves
  <2> QED BY <2>7, <2>9 DEF d, f
<1>2. CASE ~(c.ok /\ Len(c.fields) < MAX_FIELD_COUNT)
  <2> DEFINE r == Require(c, FALSE)
  <2>1. d = r
    BY <1>2 DEF Add
  <2>2. Moves(c, r, 0) /\ ~r.ok
    BY RequireMoves
  <2> HIDE DEF d, f, r
  <2>3. Moves(c, d, 0) /\ ~d.ok
    BY <2>1, <2>2 DEF Moves
  <2> QED BY <2>3 DEF d
<1> QED BY <1>1, <1>2

LEMMA AddSize ==
    ASSUME NEW c, Good(c), NEW id, NEW start, NEW length, NEW head, NEW tail,
           Add(c, id, start, length, head, tail).ok
    PROVE  Size(Add(c, id, start, length, head, tail)) = Size(c) + 1
<1> DEFINE d == Add(c, id, start, length, head, tail)
           f == [id |-> id, at |-> start, length |-> length,
                 head |-> head, tail |-> tail]
<1>1. c \in Context /\ c.fields \in Seq(Field)
  BY DEF Good, Context
<1>2. d.fields = Append(c.fields, f)
  <2>1. ~Require(c, FALSE).ok
    BY <1>1 DEF Require, Context
  <2> QED BY <1>1, <2>1 DEF Add, Context
<1> HIDE DEF d, f
<1>3. Len(d.fields) = Len(c.fields) + 1
  BY <1>1, <1>2
<1> QED BY <1>3 DEF d, Size

LEMMA ThenAdd ==
    ASSUME NEW c, Good(c), NEW d, NEW n \in Nat, Moves(c, d, n),
           NEW id, NEW start \in Nat \cup {STACK}, NEW length \in Nat,
           NEW head \in Nat, NEW tail \in Nat, Fits(id, length, head, tail),
           d.ok => HasNoData(id) \/ (start \in Nat /\ start + Width(id, length) <= d.offset)
    PROVE  Moves(c, Add(d, id, start, length, head, tail), n)
<1> DEFINE e == Add(d, id, start, length, head, tail)
<1>1. Good(d)
  BY DEF Moves
<1>2. Moves(d, e, 0)
  BY <1>1, AddMoves
<1> HIDE DEF e
<1>3. Moves(c, e, n + 0)
  BY <1>1, <1>2, MovesOn
<1>4. Moves(c, e, n)
  BY <1>3
<1> QED BY <1>4 DEF e

\* Fields that are found stay found, and a field that is added is.
LEMMA FieldsDomain ==
    ASSUME NEW c, Good(c)
    PROVE  /\ DOMAIN c.fields = 1..Size(c)
           /\ Size(c) \in Nat
           /\ IsFiniteSet(1..Size(c))
<1>1. c.fields \in Seq(Field)
  BY DEF Good, Context
<1>2. DOMAIN c.fields = 1..Size(c) /\ Size(c) \in Nat
  BY <1>1 DEF Size
<1> QED BY <1>2, FS_Interval

LEMMA StayListed ==
    ASSUME NEW c, Good(c), NEW d, NEW n \in Nat, Moves(c, d, n),
           d.ok, NEW ids, NEW place, Listed(c, ids, place)
    PROVE  Listed(d, ids, place)
<1>1. PICK i \in DOMAIN c.fields : c.fields[i].id \in ids /\ c.fields[i].at = place
  BY DEF Listed, FieldsOf
<1>2. i \in 1..Size(c) /\ Size(c) \in Nat
  BY FieldsDomain
<1>3. d.fields[i] = c.fields[i] /\ Size(d) >= Size(c)
  BY <1>2 DEF Moves
<1>4. Good(d)
  BY DEF Moves
<1>5. i \in DOMAIN d.fields
  BY <1>2, <1>3, <1>4, FieldsDomain
<1> QED BY <1>1, <1>3, <1>5 DEF Listed, FieldsOf

LEMMA AddListed ==
    ASSUME NEW c, Good(c), NEW id, NEW start \in Nat \cup {STACK}, NEW length \in Nat,
           NEW head \in Nat, NEW tail \in Nat, Fits(id, length, head, tail),
           c.ok => HasNoData(id) \/ (start \in Nat /\ start + Width(id, length) <= c.offset),
           Add(c, id, start, length, head, tail).ok, NEW ids, id \in ids
    PROVE  Listed(Add(c, id, start, length, head, tail), ids, start)
<1> DEFINE d == Add(c, id, start, length, head, tail)
           f == [id |-> id, at |-> start, length |-> length,
                 head |-> head, tail |-> tail]
<1>1. Moves(c, d, 0) /\ d.fields[Size(c) + 1] = f /\ Size(d) = Size(c) + 1
  BY AddMoves
<1>2. f.id = id /\ f.at = start
  OBVIOUS
<1>3. d.ok
  OBVIOUS
<1> HIDE DEF d, f
<1>4. Size(d) = Size(c) + 1 /\ Good(d)
  BY <1>1, <1>3 DEF Moves
<1>5. Size(c) + 1 \in DOMAIN d.fields
  BY <1>4, FieldsDomain
<1>6. Listed(d, ids, start)
  BY <1>1, <1>2, <1>5 DEF Listed, FieldsOf
<1> QED BY <1>6 DEF d

\* Every transaction that a fee is added to has been read.
LEMMA ThenFee ==
    ASSUME NEW c, Good(c), NEW d, NEW n \in Nat, Moves(c, d, n),
           txn.header \in Nat, txn.header + HEADER <= c.offset
    PROVE  /\ Moves(c, AddFee(d), n)
           /\ AddFee(d).ok => Listed(AddFee(d), FeeIds, txn.header + FEE_AT)
<1> DEFINE id == "NEM_UINT64_TXN_FEE"
           start == txn.header + FEE_AT
<1>1. /\ Fits(id, 8, 0, 0) /\ Width(id, 8) = 8 /\ id \in FeeIds
  BY DEF Fits, Width, DataType, IsPublicKey, IsPair, IsMosaicPair, FeeIds
<1>2. AddFee(d) = Add(d, id, start, 8, 0, 0)
  BY DEF AddFee, add_new_field
<1>3. Good(d) /\ start \in Nat /\ start + 8 <= d.offset
  <2>1. Good(d) /\ c.offset \in Nat /\ d.offset \in Nat /\ c.offset <= d.offset
    BY DEF Moves, Good, Context
  <2> QED BY <2>1 DEF HEADER, FEE_AT
<1> HIDE DEF id, start
<1>4. Moves(c, Add(d, id, start, 8, 0, 0), n)
  BY <1>1, <1>3, ThenAdd
<1>5. Add(d, id, start, 8, 0, 0).ok => Listed(Add(d, id, start, 8, 0, 0), FeeIds, start)
  BY <1>1, <1>3, AddListed
<1> QED BY <1>2, <1>4, <1>5 DEF start

-----------------------------------------------------------------------------
(* Counting fields *)

Many(c, ids) == Cardinality(FieldsOf(c, ids))

LEMMA ManyIsNat ==
    ASSUME NEW c, Good(c), NEW ids
    PROVE  Many(c, ids) \in Nat /\ IsFiniteSet(FieldsOf(c, ids))
<1>1. FieldsOf(c, ids) \subseteq 1..Size(c)
  BY FieldsDomain DEF FieldsOf
<1>2. IsFiniteSet(FieldsOf(c, ids))
  BY <1>1, FieldsDomain, FS_Subset
<1> QED BY <1>2, FS_CardinalityType DEF Many

\* Nothing but the parser's own additions changes the count.
LEMMA SameMany ==
    ASSUME NEW c, Good(c), NEW n, NEW condition, NEW ids
    PROVE  /\ Many(Require(c, condition), ids) = Many(c, ids)
           /\ Many(Read(c, n), ids) = Many(c, ids)
<1>1. Require(c, condition).fields = c.fields /\ Require(c, FALSE).fields = c.fields
  BY DEF Require, Good, Context
<1>2. Read(c, n).fields = c.fields
  BY <1>1 DEF Read, read_data, Good, Context
<1> QED BY <1>1, <1>2 DEF Many, FieldsOf

LEMMA AddMany ==
    ASSUME NEW c, Good(c), NEW id, NEW start, NEW length, NEW head, NEW tail,
           Add(c, id, start, length, head, tail).ok, NEW ids
    PROVE  /\ c.ok
           /\ Many(Add(c, id, start, length, head, tail), ids) =
                  IF id \in ids THEN Many(c, ids) + 1 ELSE Many(c, ids)
<1> DEFINE d == Add(c, id, start, length, head, tail)
           f == [id |-> id, at |-> start, length |-> length,
                 head |-> head, tail |-> tail]
           last == Size(c) + 1
<1>1. c \in Context /\ c.fields \in Seq(Field) /\ Size(c) = Len(c.fields)
  BY DEF Good, Context, Size
<1>2. c.ok /\ d.fields = Append(c.fields, f)
  <2>1. ~Require(c, FALSE).ok
    BY <1>1 DEF Require, Context
  <2>2. d = [c EXCEPT !.fields = Append(@, f)] /\ c.ok
    BY <2>1 DEF Add
  <2> QED BY <1>1, <2>2 DEF Context
<1>3. f.id = id
  OBVIOUS
<1> HIDE DEF d, f
<1>4. /\ Size(c) \in Nat /\ DOMAIN c.fields = 1..Size(c)
      /\ DOMAIN d.fields = 1..(Size(c) + 1)
      /\ \A i \in 1..Size(c) : d.fields[i] = c.fields[i]
      /\ d.fields[last] = f
  BY <1>1, <1>2
<1>5. last \notin FieldsOf(c, ids)
  BY <1>4 DEF FieldsOf
<1>6. CASE id \in ids
  <2>1. FieldsOf(d, ids) = FieldsOf(c, ids) \cup {last}
    <3>1. last \in FieldsOf(d, ids)
      BY <1>3, <1>4, <1>6 DEF FieldsOf
    <3>2. ASSUME NEW i \in FieldsOf(d, ids), i # last PROVE i \in FieldsOf(c, ids)
      BY <1>4, <3>2 DEF FieldsOf
    <3>3. ASSUME NEW i \in FieldsOf(c, ids) PROVE i \in FieldsOf(d, ids)
      BY <1>4 DEF FieldsOf
    <3> QED BY <3>1, <3>2, <3>3
  <2>2. Cardinality(FieldsOf(c, ids) \cup {last}) = Cardinality(FieldsOf(c, ids)) + 1
    BY <1>5, ManyIsNat, FS_AddElement
  <2>3. Many(d, ids) = Many(c, ids) + 1
    BY <2>1, <2>2 DEF Many
  <2> QED BY <1>2, <1>6, <2>3 DEF d
<1>7. CASE id \notin ids
  <2>1. FieldsOf(d, ids) = FieldsOf(c, ids)
    <3>1. last \notin FieldsOf(d, ids)
      BY <1>3, <1>4, <1>7 DEF FieldsOf
    <3>2. ASSUME NEW i \in FieldsOf(d, ids) PROVE i \in FieldsOf(c, ids)
      BY <1>4, <3>1 DEF FieldsOf
    <3>3. ASSUME NEW i \in FieldsOf(c, ids) PROVE i \in FieldsOf(d, ids)
      BY <1>4 DEF FieldsOf
    <3> QED BY <3>2, <3>3
  <2> QED BY <1>2, <1>7, <2>1 DEF d, Many
<1> QED BY <1>6, <1>7

\* Counts(c, d, ids, k): there are k more fields with these ids in d than in c,
\* unless something failed.
Counts(c, d, ids, k) == d.ok => c.ok /\ Many(d, ids) = Many(c, ids) + k

LEMMA CountStart ==
    ASSUME NEW c, Good(c), NEW ids
    PROVE  Counts(c, c, ids, 0)
BY ManyIsNat DEF Counts

LEMMA CountRead ==
    ASSUME NEW c, NEW d, Good(d), NEW ids, NEW k \in Nat, Counts(c, d, ids, k),
           NEW n, NEW condition
    PROVE  /\ Counts(c, Read(d, n), ids, k)
           /\ Counts(c, Require(d, condition), ids, k)
<1>1. d \in Context
  BY DEF Good
<1>2. Require(d, FALSE).ok => d.ok
  BY <1>1 DEF Require, Context
<1>3. Require(d, condition).ok => d.ok
  BY <1>1 DEF Require, Context
<1>4. Read(d, n).ok => d.ok
  BY <1>1, <1>2 DEF Read, read_data, Context
<1> QED BY <1>3, <1>4, SameMany DEF Counts

LEMMA CountOther ==
    ASSUME NEW c, NEW d, Good(d), NEW ids, NEW k \in Nat, Counts(c, d, ids, k),
           NEW id, id \notin ids, NEW start, NEW length, NEW head, NEW tail
    PROVE  Counts(c, Add(d, id, start, length, head, tail), ids, k)
BY AddMany DEF Counts

LEMMA CountOne ==
    ASSUME NEW c, Good(c), NEW d, Good(d), NEW ids, Counts(c, d, ids, 0),
           NEW id \in ids, NEW start, NEW length, NEW head, NEW tail
    PROVE  Counts(c, Add(d, id, start, length, head, tail), ids, 1)
BY AddMany, ManyIsNat DEF Counts

LEMMA AddReadCounts ==
    ASSUME NEW c, Good(c), NEW d, Good(d), NEW ids, Counts(c, d, ids, 0),
           NEW id \in ids, NEW m \in Uint32
    PROVE  Counts(c, AddRead(d, id, m), ids, 1)
<1> DEFINE e == Read(d, m)
<1>1. Good(e)
  BY ReadMoves DEF Moves
<1>2. Counts(c, e, ids, 0)
  BY CountRead
<1> HIDE DEF e
<1>3. Counts(c, Add(e, id, d.offset, m, 0, 0), ids, 1)
  BY <1>1, <1>2, CountOne
<1> QED BY <1>3 DEF e, AddRead, add_new_field

-----------------------------------------------------------------------------
(* The fields of the parser and the bytes they take *)

Takes(id, length, head, tail, width) ==
    Fits(id, length, head, tail) /\ Width(id, length) = width

LEMMA FieldsFit ==
    /\ \A id \in TypeIds \cup {"NEM_UINT32_MOSAIC_COUNT", "NEM_UINT32_AM_COSIGNATORY_NUM",
                               "NEM_UINT32_AM_RELATIVE_CHANGE",
                               "NEM_UINT32_LEVY_FEE_TYPE"} : Takes(id, 4, 0, 0, 4)
    /\ \A mode \in Modes : /\ Takes("NEM_UINT32_IT_MODE", 1, mode, 0, 4)
                           /\ Takes("NEM_UINT32_AM_MODICATION_TYPE", 4, mode, 0, 4)
    /\ \A id \in ItemIds \cup FeeIds \cup
                 {"NEM_UINT64_RENTAL_FEE", "NEM_UINT64_LEVY_FEE",
                  "NEM_MOSAIC_CREATE_SUPPLY_DELTA", "NEM_MOSAIC_DELETE_SUPPLY_DELTA"} :
          Takes(id, 8, 0, 0, 8)
    /\ \A id \in {"NEM_STR_RECIPIENT_ADDRESS", "NEM_STR_MULTISIG_ADDRESS",
                  "NEM_STR_SINK_ADDRESS", "NEM_STR_LEVY_ADDRESS"} :
          \A n \in 0..ADDRESS : Takes(id, n, 0, 0, n)
    /\ \A id \in {"NEM_PUBLICKEY_IT_REMOTE", "NEM_PUBLICKEY_AM_COSIGNATORY"} :
          Takes(id, PUBLICKEY, 0, 0, PUBLICKEY)
    /\ \A n \in 0..PUBLICKEY : Takes("NEM_HASH256", n, 0, 0, n)
    /\ \A n \in Nat, first \in FirstBytes :
          /\ Takes("NEM_STR_TXN_MESSAGE", n, first, 0, n)
          /\ Takes("NEM_STR_ENC_MESSAGE", n, first, 0, n)
    /\ \A n \in Nat, id \in {"NEM_STR_NAMESPACE", "NEM_STR_PARENT_NAMESPACE",
                             "NEM_STR_MOSAIC", "NEM_STR_DESCRIPTION",
                             "NEM_MOSAIC_UNKNOWN_TYPE", "NEM_STR_ROOT_NAMESPACE"} :
          Takes(id, n, 0, 0, n)
    /\ \A n, m \in Nat, id \in {"NEM_STR_TRANSFER_MOSAIC", "NEM_STR_LEVY_MOSAIC",
                                "NEM_STR_PROPERTY"} :
          Takes(id, Pair(n, m), n, m, Pair(n, m))
<1> USE DEF Takes, Fits, Width, DataType, IsPublicKey, IsPair, IsMosaicPair
<1>1. \A id \in TypeIds \cup {"NEM_UINT32_MOSAIC_COUNT", "NEM_UINT32_AM_COSIGNATORY_NUM",
                              "NEM_UINT32_AM_RELATIVE_CHANGE",
                              "NEM_UINT32_LEVY_FEE_TYPE"} : Takes(id, 4, 0, 0, 4)
  BY DEF TypeIds
<1>2. \A mode \in Modes : /\ Takes("NEM_UINT32_IT_MODE", 1, mode, 0, 4)
                          /\ Takes("NEM_UINT32_AM_MODICATION_TYPE", 4, mode, 0, 4)
  OBVIOUS
<1>3. \A id \in ItemIds \cup FeeIds \cup
                {"NEM_UINT64_RENTAL_FEE", "NEM_UINT64_LEVY_FEE",
                 "NEM_MOSAIC_CREATE_SUPPLY_DELTA", "NEM_MOSAIC_DELETE_SUPPLY_DELTA"} :
         Takes(id, 8, 0, 0, 8)
  BY DEF ItemIds, FeeIds
<1>4. \A id \in {"NEM_STR_RECIPIENT_ADDRESS", "NEM_STR_MULTISIG_ADDRESS",
                 "NEM_STR_SINK_ADDRESS", "NEM_STR_LEVY_ADDRESS"} :
         \A n \in 0..ADDRESS : Takes(id, n, 0, 0, n)
  BY DEF ADDRESS
<1>5. \A id \in {"NEM_PUBLICKEY_IT_REMOTE", "NEM_PUBLICKEY_AM_COSIGNATORY"} :
         Takes(id, PUBLICKEY, 0, 0, PUBLICKEY)
  BY DEF PUBLICKEY, ADDRESS
<1>6. \A n \in 0..PUBLICKEY : Takes("NEM_HASH256", n, 0, 0, n)
  BY DEF PUBLICKEY
<1>7. \A n \in Nat, first \in FirstBytes :
         /\ Takes("NEM_STR_TXN_MESSAGE", n, first, 0, n)
         /\ Takes("NEM_STR_ENC_MESSAGE", n, first, 0, n)
  OBVIOUS
<1>8. \A n \in Nat, id \in {"NEM_STR_NAMESPACE", "NEM_STR_PARENT_NAMESPACE",
                            "NEM_STR_MOSAIC", "NEM_STR_DESCRIPTION",
                            "NEM_MOSAIC_UNKNOWN_TYPE", "NEM_STR_ROOT_NAMESPACE"} :
         Takes(id, n, 0, 0, n)
  OBVIOUS
<1>9. \A n, m \in Nat, id \in {"NEM_STR_TRANSFER_MOSAIC", "NEM_STR_LEVY_MOSAIC",
                               "NEM_STR_PROPERTY"} :
         Takes(id, Pair(n, m), n, m, Pair(n, m))
  OBVIOUS
<1> QED BY Zenon, <1>1, <1>2, <1>3, <1>4, <1>5, <1>6, <1>7, <1>8, <1>9

\* A field whose data lies in what has been read since c.
LEMMA ThenAddAt ==
    ASSUME NEW c, Good(c), NEW d, NEW n \in Nat, Moves(c, d, n),
           NEW id, NEW start \in Nat, NEW length \in Nat, NEW head \in Nat,
           NEW tail \in Nat, NEW width \in Nat, Takes(id, length, head, tail, width),
           start + width <= c.offset + n
    PROVE  Moves(c, Add(d, id, start, length, head, tail), n)
<1>1. d.ok => start + Width(id, length) <= d.offset
  BY DEF Moves, Takes
<1>2. Fits(id, length, head, tail)
  BY DEF Takes
<1> QED BY <1>1, <1>2, ThenAdd

LEMMA ThenNew ==
    ASSUME NEW c, Good(c), NEW d, NEW n \in Nat, Moves(c, d, n),
           NEW id, NEW start \in Nat, NEW length \in Nat, NEW width \in Nat,
           Takes(id, length, 0, 0, width), start + width <= c.offset + n
    PROVE  Moves(c, add_new_field(d, id, start, length), n)
BY ThenAddAt DEF add_new_field

\* A field that points to a variable of the parser.
LEMMA ThenStack ==
    ASSUME NEW c, Good(c), NEW d, NEW n \in Nat, Moves(c, d, n),
           NEW id, NEW length \in Nat, NEW width, Takes(id, length, 0, 0, width),
           HasNoData(id)
    PROVE  Moves(c, add_new_field(d, id, STACK, length), n)
BY ThenAdd DEF add_new_field, Takes

LEMMA ThenAddRead ==
    ASSUME NEW c, Good(c), NEW d, NEW n \in Nat, Moves(c, d, n),
           NEW id, NEW m \in Uint32, Takes(id, m, 0, 0, m), NEW l \in Nat, l = n + m
    PROVE  Moves(c, AddRead(d, id, m), l)
<1> DEFINE e == Read(d, m)
<1>1. Moves(c, e, l) /\ Moves(d, e, m)
  BY ThenRead, ReadMoves DEF Moves
<1>2. d.offset \in Nat /\ m \in Nat
  BY DEF Moves, Good, Context, Uint32
<1> HIDE DEF e
<1>3. e.ok => d.offset + Width(id, m) <= e.offset
  BY <1>1, <1>2 DEF Moves, Takes
<1>4. Fits(id, m, 0, 0)
  BY DEF Takes
<1>5. Moves(c, Add(e, id, d.offset, m, 0, 0), l)
  BY <1>1, <1>2, <1>3, <1>4, ThenAdd
<1> QED BY <1>5 DEF e, AddRead, add_new_field

-----------------------------------------------------------------------------
(* Steps within a transaction *)

LEMMA InvGood ==
    ASSUME ParserInv
    PROVE  /\ Good(ctx)
           /\ ctx.offset \in Nat /\ ctx.length \in Nat /\ Words \subseteq Uint32
           /\ txn.header \in Nat
           /\ DOMAIN ctx.fields = 1..Size(ctx) /\ Len(ctx.fields) = Size(ctx)
           /\ Size(ctx) \in Nat
<1>1. /\ ctx \in Context /\ ctx.offset <= ctx.length /\ txn \in Header
      /\ Size(ctx) <= MAX_FIELD_COUNT
  BY DEF ParserInv, ParseTypeOK, Size
<1>2. /\ ctx.offset \in Nat /\ ctx.length \in Lengths /\ ctx.fields \in Seq(Field)
      /\ txn.header \in Nat
  BY <1>1 DEF Context, Header
<1>3. ctx.length \in Nat /\ Words \subseteq Uint32
  BY <1>2, LengthsAreWords, WordsAssumption DEF Words, Uint32
<1>4. DOMAIN ctx.fields = 1..Size(ctx) /\ Size(ctx) \in Nat /\ Len(ctx.fields) = Size(ctx)
  BY <1>2 DEF Size
<1> QED BY <1>1, <1>2, <1>3, <1>4 DEF Good, ParserInv, TableRecorded

BodyPoints == Points \ {"start", MULTISIG, SIGNATURE, Return, "parsed", "failed"}

LEMMA BodyStep ==
    ASSUME ParserInv, at \in BodyPoints,
           NEW d, NEW n \in Nat, Moves(ctx, d, n),
           NEW next \in Points \ {"start", MULTISIG, SIGNATURE}, Go(d, next),
           txn' = txn, frames' = frames,
           local' \in Locals, LocalsBehind', ItemsCounted',
           d.ok /\ next \in FeePoints /\ at \notin FeePoints =>
               Listed(d, FeeIds, txn.header + FEE_AT)
    PROVE  ParserInv'
<1>1. /\ Good(ctx) /\ ctx.offset \in Nat /\ ctx.length \in Nat
      /\ Size(ctx) \in Nat /\ Len(ctx.fields) = Size(ctx)
  BY InvGood
<1>2. ctx' = d /\ at' = (IF d.ok THEN next ELSE "failed")
  BY DEF Go
<1>3. /\ at' \in Points \ {"start", MULTISIG, SIGNATURE}
      /\ at' # "failed" => d.ok /\ at' = next
      /\ at \notin {"start", "failed", MULTISIG, SIGNATURE, Return, "parsed"}
  BY <1>2 DEF Points, BodyPoints, MULTISIG, SIGNATURE
<1>4. /\ Good(d) /\ d.offset \in Nat /\ d.offset >= ctx.offset
      /\ d.transactionType = ctx.transactionType /\ d.headers = ctx.headers
      /\ Len(d.fields) = Size(d) /\ Size(d) \in Nat /\ DOMAIN d.fields = 1..Size(d)
      /\ d.ok => Size(d) >= Size(ctx)
  BY FieldsDomain DEF Moves, Good, Context, Size
<1>5. ParseTypeOK'
  BY <1>2, <1>3, <1>4 DEF ParserInv, ParseTypeOK, Good
<1>6. GoesOn'
  BY <1>2, <1>3 DEF GoesOn
<1>7. TableRecorded'
  BY <1>2, <1>4 DEF TableRecorded, Good
<1>8. BehindHeader'
  <2>1. /\ txn.header + HEADER <= ctx.offset /\ txn.header \in Nat
        /\ ctx.transactionType = SIGNATURE
             => ctx.offset >= HEADER + 8 + PUBLICKEY + ADDRESS_T + 4
    BY <1>3, InvGood DEF ParserInv, BehindHeader
  <2> QED BY <1>1, <1>2, <1>4, <2>1 DEF BehindHeader, HEADER, PUBLICKEY, ADDRESS_T
<1>9. LevelsPaid'
  <2>1. /\ 4 * Len(frames) <= Len(ctx.fields) + 2 /\ Len(frames) \in Nat
        /\ \A i \in DOMAIN frames : frames[i].left + frames[i].start = frames[i].end
    <3>1. frames \in Seq(Frame) /\ LevelsPaid
      BY DEF ParserInv, ParseTypeOK
    <3>2. Len(frames) \in Nat
      BY <3>1
    <3> QED BY <1>3, <3>1, <3>2 DEF LevelsPaid
  <2>2. at' # "failed" => 4 * Len(frames) <= Size(d) + 2
    BY <1>1, <1>3, <1>4, <2>1
  <2> QED BY <1>2, <1>3, <1>4, <2>1, <2>2 DEF LevelsPaid
<1>10. HeadersListed'
  <2> SUFFICES ASSUME at' # "failed", NEW h \in ctx.headers
               PROVE  /\ Listed(d, TypeIds, h)
                      /\ h # txn.header \/ at' \in FeePoints => Listed(d, FeeIds, h + FEE_AT)
    BY <1>2, <1>3, <1>4 DEF HeadersListed
  <2>1. Listed(d, TypeIds, h)
    BY <1>1, <1>3, StayListed DEF ParserInv, HeadersListed
  <2>2. ASSUME h # txn.header \/ at \in FeePoints PROVE Listed(d, FeeIds, h + FEE_AT)
    BY <1>1, <1>3, <2>2, StayListed DEF ParserInv, HeadersListed
  <2>3. ASSUME h = txn.header, at \notin FeePoints, at' \in FeePoints
        PROVE  Listed(d, FeeIds, h + FEE_AT)
    BY <1>3, <2>3
  <2> QED BY <2>1, <2>2, <2>3
<1> QED BY <1>5, <1>6, <1>7, <1>8, <1>9, <1>10 DEF ParserInv

\* Only transfers and modifications have items to count.
CountPoints == {"start", TRANSFER, "message", AGGREGATE_MODIFICATION, "modification",
                "failed"} \cup FeePoints

LEMMA CountsElsewhere ==
    ASSUME ParserInv, at \notin CountPoints, ctx'.transactionType = ctx.transactionType,
           at' # "start"
    PROVE  ItemsCounted'
<1>1. ctx.transactionType \notin {TRANSFER, AGGREGATE_MODIFICATION}
  BY DEF ParserInv, ItemsCounted, CountPoints, FeePoints, MosaicPoints
<1> QED BY <1>1 DEF ItemsCounted

LEMMA NoLocalsTyped ==
    ASSUME TRUE
    PROVE  NoLocals \in Locals /\ {NoLocals.struct, NoLocals.id, NoLocals.first} \subseteq Uint32
BY Uint32Assumption DEF NoLocals, Locals, Names, Uint32

\* What has failed stays failed.
LEMMA OkBefore ==
    ASSUME NEW c, Good(c), NEW id, NEW start, NEW length, NEW head, NEW tail, NEW n,
           NEW condition
    PROVE  /\ Add(c, id, start, length, head, tail).ok => c.ok
           /\ Read(c, n).ok => c.ok
           /\ Require(c, condition).ok => c.ok
<1>1. c \in Context
  BY DEF Good
<1>2. Require(c, FALSE).ok => c.ok
  BY <1>1 DEF Require, Context
<1>3. Require(c, condition).ok => c.ok
  BY <1>1 DEF Require, Context
<1>4. Read(c, n).ok => c.ok
  BY <1>1, <1>2 DEF Read, read_data, Context
<1>5. Add(c, id, start, length, head, tail).ok => c.ok
  BY <1>1, <1>2 DEF Add, Context
<1> QED BY <1>3, <1>4, <1>5

\* A pair of names, as long as its two lengths say.
LEMMA ThenAddPair ==
    ASSUME NEW c, Good(c), NEW d, NEW n \in Nat, Moves(c, d, n),
           NEW id \in {"NEM_STR_TRANSFER_MOSAIC", "NEM_STR_LEVY_MOSAIC",
                       "NEM_STR_PROPERTY"},
           NEW start \in Nat, NEW length \in Nat, NEW head \in Nat, NEW tail \in Nat,
           d.ok => length = Pair(head, tail) /\ start + length <= d.offset
    PROVE  Moves(c, Add(d, id, start, length, head, tail), n)
<1>1. CASE d.ok
  <2>1. Takes(id, Pair(head, tail), head, tail, Pair(head, tail))
    BY FieldsFit
  <2>2. Fits(id, length, head, tail) /\ start + Width(id, length) <= d.offset
    BY <1>1, <2>1 DEF Takes
  <2> QED BY <2>2, ThenAdd
<1>2. CASE ~d.ok
  <2>1. Add(d, id, start, length, head, tail) = Require(d, FALSE)
    BY <1>2 DEF Add
  <2>2. Moves(c, Require(d, FALSE), n)
    BY ThenRequire
  <2> QED BY <2>1, <2>2
<1> QED BY <1>1, <1>2

LEMMA BodyStart ==
    ASSUME ParserInv, at \in BodyPoints
    PROVE  /\ Good(ctx) /\ ctx.offset \in Nat /\ txn.header \in Nat
           /\ Moves(ctx, ctx, 0) /\ txn.header + HEADER <= ctx.offset
           /\ Words \subseteq Uint32 /\ 0..200 \subseteq Uint32
           /\ local \in Locals
           /\ local.struct \in Uint32 /\ local.id \in Uint32 /\ local.first \in Uint32
<1>1. txn.header + HEADER <= ctx.offset
  BY DEF ParserInv, BehindHeader, BodyPoints
<1>2. 0..200 \subseteq Uint32
  BY Uint32Assumption DEF Uint32
<1>3. {local.struct, local.id, local.first} \subseteq Uint32 /\ local \in Locals
  BY DEF ParserInv, LocalsBehind, ParseTypeOK
<1> QED BY <1>1, <1>2, <1>3, InvGood, Stays

\* A step to a point at which no variable points into the buffer.
PlainPoints == Points \ (MosaicPoints \cup {"message", "mosaics", "parent", "levy_name"})

LEMMA LocalsFree ==
    ASSUME at' \in PlainPoints \cup {"failed"},
           {local'.struct, local'.id, local'.first} \subseteq Uint32
    PROVE  LocalsBehind'
BY DEF LocalsBehind, MosaicPoints, PlainPoints

\* The points of the other transactions, with no item to count.
OtherPoints == BodyPoints \ CountPoints

LEMMA OtherStep ==
    ASSUME ParserInv, at \in OtherPoints, NEW d, NEW n \in Nat, Moves(ctx, d, n),
           NEW next \in BodyPoints \ FeePoints, Go(d, next), txn' = txn, frames' = frames,
           local' \in Locals, LocalsBehind'
    PROVE  ParserInv'
<1>1. at' # "start" /\ ctx'.transactionType = ctx.transactionType
  BY DEF Go, Moves, BodyPoints
<1>2. ItemsCounted'
  BY <1>1, CountsElsewhere DEF OtherPoints
<1>3. at \in BodyPoints /\ next \in Points \ {"start", MULTISIG, SIGNATURE}
  BY DEF OtherPoints, BodyPoints
<1> QED BY <1>2, <1>3, BodyStep

\* The last part of a transaction adds the fee and returns.
LEMMA LastStep ==
    ASSUME ParserInv, at \in OtherPoints, NEW d, NEW n \in Nat, Moves(ctx, d, n),
           Go(AddFee(d), Return), txn' = txn, frames' = frames, local' = local
    PROVE  ParserInv'
<1> DEFINE e == AddFee(d)
<1>1. /\ Moves(ctx, e, n)
      /\ e.ok => Listed(e, FeeIds, txn.header + FEE_AT)
  BY BodyStart, ThenFee DEF OtherPoints
<1>2. Go(e, Return)
  OBVIOUS
<1> HIDE DEF e
<1>3. at' \in {Return, "failed"} /\ ctx'.transactionType = ctx.transactionType
  BY <1>1, <1>2 DEF Go, Moves
<1>4. ItemsCounted'
  BY <1>3, CountsElsewhere DEF OtherPoints, Return
<1>5. local' \in Locals /\ LocalsBehind'
  <2>1. at' \in PlainPoints \cup {"failed"}
    BY <1>3 DEF PlainPoints, Points, MosaicPoints, Return
  <2> QED BY <2>1, BodyStart, LocalsFree DEF OtherPoints
<1>6. at \in BodyPoints /\ Return \in Points \ {"start", MULTISIG, SIGNATURE}
  BY DEF OtherPoints, Return, Points, MULTISIG, SIGNATURE
<1> QED BY <1>1, <1>2, <1>4, <1>5, <1>6, BodyStep

LEMMA OtherPointsAre ==
    /\ {IMPORTANCE_TRANSFER, NAMESPACE, MOSAIC_DEFINITION, SUPPLY_CHANGE, "parent",
        "mosaic_id", "mosaic_id_name", "description", "property", "levy", "levy_name",
        "sink", "supply"} \subseteq OtherPoints
    /\ OtherPoints \subseteq BodyPoints \ FeePoints
    /\ OtherPoints \ {"parent", "levy_name"} \subseteq PlainPoints
BY DEF OtherPoints, BodyPoints, Points, CountPoints, FeePoints, MosaicPoints, TopTypes,
       PlainPoints, IMPORTANCE_TRANSFER, NAMESPACE, MOSAIC_DEFINITION, SUPPLY_CHANGE,
       TRANSFER, AGGREGATE_MODIFICATION, MULTISIG, SIGNATURE, Return
=============================================================================
