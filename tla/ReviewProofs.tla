---------------------------- MODULE ReviewProofs ----------------------------
(* The pages of a review, for every table and every ring that holds a page.

   The SDK asks for pairs one after another, and each is written to the ring:
   a fold.  What a fold comes to is proved by induction over its turns. *)
EXTENDS ReviewProperties, ParseProofs, RecursionLemmas

\* With a data type its ids are known.
USE DEF Uint32Ids, AddressIds, MosaicIds, NemIds, MessageIds, StringIds

-----------------------------------------------------------------------------
(* The ring after each call of get_review_pair *)

LEMMA MaxOfPrefix ==
    ASSUME NEW k \in Nat, NEW s, s \subseteq 1..(k + 1), k + 1 \in s
    PROVE  Max(s) = k + 1
<1>1. \A y \in s : k + 1 >= y
  OBVIOUS
<1>2. \E x \in s : \A y \in s : x >= y
  BY <1>1
<1>3. Max(s) \in s /\ \A y \in s : Max(s) >= y
  BY <1>2 DEF Max
<1>4. Max(s) \in 1..(k + 1) /\ Max(s) >= k + 1
  BY <1>3
<1> QED BY <1>4

\* The rings that a sequence of calls goes through, the first one included.
Rings(rings, ring, indices, hashes) ==
    LET n == Len(indices)
    IN  /\ rings[0] = ring
        /\ \A k \in 0..n : k < n =>
              rings[k + 1] = get_review_pair(rings[k], indices[k + 1], hashes)
        /\ rings[n] = get_review_pairs(ring, indices, hashes)

LEMMA PairsInTurn ==
    ASSUME NEW ring, NEW indices \in Seq(Nat), NEW hashes
    PROVE  \E rings : Rings(rings, ring, indices, hashes)
<1> DEFINE n == Len(indices)
           Write(r, k) == get_review_pair(r, indices[k], hashes)
           Step(g, s) == IF s = {} THEN ring ELSE Write(g[s \ {Max(s)}], Max(s))
           Folds(g, k) == g = [s \in SUBSET (1..k) |-> Step(g, s)]
           iter == CHOOSE g : Folds(g, n)
<1>1. n \in Nat /\ DOMAIN indices = 1..n
  OBVIOUS
<1>2. get_review_pairs(ring, indices, hashes) = iter[1..n]
  BY <1>1 DEF get_review_pairs, FoldLeft, MapThenFoldSet
<1> HIDE DEF n, Write
<1>3. \E g : Folds(g, 0)
  <2> DEFINE g == [s \in SUBSET (1..0) |-> ring]
  <2>1. \A s \in SUBSET (1..0) : s = {}
    OBVIOUS
  <2>2. g = [s \in SUBSET (1..0) |-> Step(g, s)]
    BY <2>1
  <2> QED BY <2>2
<1>4. ASSUME NEW k \in Nat, NEW g, Folds(g, k)
      PROVE  \E h : Folds(h, k + 1)
  <2> DEFINE Value(s) == IF k + 1 \in s THEN Write(g[s \ {k + 1}], k + 1) ELSE g[s]
             h == [s \in SUBSET (1..(k + 1)) |-> Value(s)]
  <2>1. ASSUME NEW s \in SUBSET (1..(k + 1)) PROVE Value(s) = Step(h, s)
    <3>1. CASE k + 1 \in s
      <4>1. Max(s) = k + 1 /\ s # {}
        BY <3>1, MaxOfPrefix
      <4>2. s \ {k + 1} \in SUBSET (1..k) /\ s \ {k + 1} \in SUBSET (1..(k + 1))
        OBVIOUS
      <4>3. h[s \ {k + 1}] = g[s \ {k + 1}]
        BY <4>2
      <4> HIDE DEF h
      <4> QED BY <3>1, <4>1, <4>3
    <3>2. CASE k + 1 \notin s
      <4>1. s \in SUBSET (1..k)
        BY <3>2
      <4>2. g[s] = Step(g, s)
        BY <1>4, <4>1
      <4>3. CASE s = {}
        BY <3>2, <4>2, <4>3
      <4>4. CASE s # {}
        <5> DEFINE rest == s \ {Max(s)}
        <5> HIDE DEF rest
        <5>1. rest \subseteq s
          BY DEF rest
        <5>2. rest \in SUBSET (1..(k + 1)) /\ k + 1 \notin rest
          BY <3>2, <5>1
        <5>3. h[rest] = g[rest]
          BY <5>2
        <5> HIDE DEF h
        <5> QED BY <3>2, <4>2, <4>4, <5>3 DEF rest
      <4> QED BY <4>3, <4>4
    <3> QED BY <3>1, <3>2
  <2>2. h = [s \in SUBSET (1..(k + 1)) |-> Step(h, s)]
    <3> HIDE DEF Step
    <3> QED BY <2>1
  <2> QED BY <2>2
<1>5. \E g : Folds(g, n)
  <2> DEFINE S == {k \in 0..n : \E g : Folds(g, k)}
  <2> HIDE DEF Folds
  <2>1. 0 \in S /\ \A k \in 0..n : k \in S /\ k < n => k + 1 \in S
    BY <1>1, <1>3, <1>4
  <2>2. 0..n \subseteq S
    <3> HIDE DEF S
    <3> QED BY <1>1, <2>1, Induction
  <2> QED BY <1>1, <2>2
<1>6. Folds(iter, n)
  BY <1>5
<1> HIDE DEF iter
<1> DEFINE rings == [k \in 0..n |-> iter[1..k]]
<1>7. iter[{}] = ring
  BY <1>6
<1>8. ASSUME NEW k \in 0..n, k < n PROVE iter[1..(k + 1)] = Write(iter[1..k], k + 1)
  <2>1. 1..(k + 1) \in SUBSET (1..n) /\ 1..(k + 1) # {}
    <3>1. k + 1 \in 1..(k + 1) /\ k + 1 <= n
      BY <1>1, <1>8
    <3>2. \A j \in 1..(k + 1) : j \in 1..n
      BY <1>1, <3>1
    <3> QED BY <3>1, <3>2
  <2>2. Max(1..(k + 1)) = k + 1
    BY <1>1, MaxOfPrefix
  <2>3. (1..(k + 1)) \ {k + 1} = 1..k
    BY <1>1
  <2>4. iter[1..(k + 1)] = Step(iter, 1..(k + 1))
    BY <1>6, <2>1
  <2> QED BY <2>1, <2>2, <2>3, <2>4
<1>9. /\ rings[0] = ring
      /\ \A k \in 0..n : k < n => rings[k + 1] = Write(rings[k], k + 1)
      /\ rings[n] = get_review_pairs(ring, indices, hashes)
  <2>1. 1..0 = {}
    OBVIOUS
  <2>2. /\ \A k \in 0..n : rings[k] = iter[1..k]
        /\ \A k \in 0..n : k < n => k + 1 \in 0..n
        /\ 0 \in 0..n /\ n \in 0..n
    BY <1>1
  <2> HIDE DEF rings
  <2> QED BY <1>2, <1>7, <1>8, <2>1, <2>2
<1> HIDE DEF rings
<1> QED BY <1>9 DEF Rings, Write, n

-----------------------------------------------------------------------------
(* One pair *)

\* A slot shows a field: its value, and its label unless that is refused.
Shows(slot, f) ==
    /\ slot.value \in {format_field(f, TRUE), format_field(f, FALSE)}
    /\ slot.name = resolve_fieldname(f, NoLabel) \/ Refused(f)

LEMMA LabelOwnOrOld ==
    ASSUME NEW f, NEW old
    PROVE  /\ resolve_fieldname(f, old) = resolve_fieldname(f, NoLabel) \/ Refused(f)
           /\ resolve_fieldname(f, old) \in {resolve_fieldname(f, NoLabel), old}
BY Zenon DEF resolve_fieldname, Refused

\* Failing hashes change nothing, or leave the value blank.
LEMMA HashesMatterLittle ==
    ASSUME NEW f, NEW hashes \in BOOLEAN
    PROVE  format_field(f, hashes) \in {format_field(f, TRUE), Blank}
<1>1. CASE hashes
  BY Zenon, <1>1
<1>2. CASE ~hashes
  <2>1. CASE DataType(f.id) = "STI_ADDRESS" /\ IsPublicKey(f.id)
    <3>1. address_formatter(f, hashes) = <<>>
      BY <1>2, <2>1 DEF address_formatter, nem_public_key_to_address
    <3>2. format_field(f, hashes) = Blank
      BY Zenon, <2>1, <3>1 DEF format_field
    <3> QED BY <3>2
  <2>2. CASE DataType(f.id) = "STI_ADDRESS" /\ ~IsPublicKey(f.id)
    <3>1. address_formatter(f, hashes) = address_formatter(f, TRUE)
      BY <2>2 DEF address_formatter
    <3>2. format_field(f, hashes) = format_field(f, TRUE)
      BY Zenon, <2>2, <3>1 DEF format_field
    <3> QED BY <3>2
  <2>3. CASE DataType(f.id) # "STI_ADDRESS"
    <3>1. format_field(f, hashes) = format_field(f, TRUE)
      BY Zenon, <2>3 DEF format_field
    <3> QED BY <3>1
  <2> QED BY <2>1, <2>2, <2>3
<1> QED BY <1>1, <1>2

LEMMA WordIsPiece == \A w \in Texts : Word(w) \in Piece
BY DEF Word, Piece

\* The zeros behind the last field have a label and a value.
LEMMA ZeroFieldTexts ==
    ASSUME NEW old, NEW hashes
    PROVE  /\ resolve_fieldname(ZeroField, old) \in Piece
           /\ format_field(ZeroField, hashes) = <<Word("[Not implemented]")>>
           /\ format_field(ZeroField, hashes) \in Seq(Piece)
<1>1. DataType(ZeroField.id) = "none"
  BY DEF ZeroField, DataType
<1>2. "none" \notin DOMAIN Labels
  BY DEF Labels
<1>3. resolve_fieldname(ZeroField, old) = Word("Unknown Field")
  BY Zenon, <1>1, <1>2 DEF resolve_fieldname
<1>4. "Unknown Field" \in Texts /\ "[Not implemented]" \in Texts
  BY Zenon DEF Texts
<1> DEFINE text == <<Word("[Not implemented]")>>
<1>5. text # <<>>
  OBVIOUS
<1> HIDE DEF text
<1>6. format_field(ZeroField, hashes) = text
  BY Zenon, <1>1, <1>5 DEF format_field, text
<1>7. \A p \in Piece : <<p>> \in Seq(Piece)
  OBVIOUS
<1>8. Word("Unknown Field") \in Piece /\ Word("[Not implemented]") \in Piece
  BY Zenon, <1>4, WordIsPiece
<1> QED BY Zenon, <1>3, <1>6, <1>7, <1>8 DEF text

LEMMA RecordedTexts ==
    ASSUME NEW f, Recorded(f, ctx.length), ctx.length \in Nat, NEW old \in Piece,
           NEW hashes \in BOOLEAN
    PROVE  /\ resolve_fieldname(f, old) \in Piece
           /\ format_field(f, hashes) \in Seq(Piece)
<1>1. resolve_fieldname(f, old) \in Piece
  BY Zenon, LabelInBuffer, LabelOwnOrOld DEF NoLabel
<1>2. " " \in Texts
  BY Zenon DEF Texts
<1>3. \A p \in Piece : <<p>> \in Seq(Piece)
  OBVIOUS
<1>4. Blank \in Seq(Piece)
  BY Zenon, <1>2, <1>3, WordIsPiece DEF Blank
<1>5. \A text : Sound(text) => text \in Seq(Piece)
  <2>1. SoundPieces \subseteq Piece
    BY Zenon DEF SoundPieces
  <2> QED BY <2>1 DEF Sound
<1>6. format_field(f, TRUE) \in Seq(Piece)
  BY Zenon, <1>4, <1>5, ValueOfField
<1>7. format_field(f, hashes) \in Seq(Piece)
  BY Zenon, <1>4, <1>6, HashesMatterLittle
<1> QED BY <1>1, <1>7

\* Whatever index is asked for, there is a field with a label and a value.
LEMMA FieldTexts ==
    ASSUME TableHeld, NEW index \in Nat, NEW old \in Piece, NEW hashes \in BOOLEAN
    PROVE  /\ FieldAt(index) \in Field \cup {ZeroField}
           /\ resolve_fieldname(FieldAt(index), old) \in Piece
           /\ format_field(FieldAt(index), hashes) \in Seq(Piece)
<1> DEFINE f == FieldAt(index)
<1>1. CASE index + 1 \in DOMAIN ctx.fields
  <2>1. f = ctx.fields[index + 1]
    BY <1>1 DEF FieldAt
  <2>2. Recorded(f, ctx.length) /\ ctx.length \in Nat /\ f \in Field
    BY <1>1, <2>1 DEF TableHeld, TableRecorded, Recorded
  <2> HIDE DEF f
  <2>3. resolve_fieldname(f, old) \in Piece /\ format_field(f, hashes) \in Seq(Piece)
    BY <2>2, RecordedTexts
  <2> QED BY Zenon, <2>2, <2>3 DEF f
<1>2. CASE index + 1 \notin DOMAIN ctx.fields
  <2>1. f = ZeroField
    BY <1>2 DEF FieldAt
  <2> QED BY Zenon, <2>1, ZeroFieldTexts
<1> QED BY <1>1, <1>2

Ring == [0..(RING - 1) -> Slot]

LEMMA IndexInRing == \A index \in Nat : bkp_index(index) \in 0..(RING - 1)
BY PageAssumption DEF bkp_index

LEMMA PairShown ==
    ASSUME TableHeld, NEW ring \in Ring, NEW index \in Nat, NEW hashes \in BOOLEAN
    PROVE  /\ get_review_pair(ring, index, hashes) \in Ring
           /\ Shows(get_review_pair(ring, index, hashes)[bkp_index(index)], FieldAt(index))
           /\ \A s \in 0..(RING - 1) :
                 s # bkp_index(index) => get_review_pair(ring, index, hashes)[s] = ring[s]
<1> DEFINE f == FieldAt(index)
           i == bkp_index(index)
           slot == [name  |-> resolve_fieldname(f, ring[i].name),
                    value |-> format_field(f, hashes)]
           next == get_review_pair(ring, index, hashes)
<1>1. next = [ring EXCEPT ![i] = slot]
  BY DEF get_review_pair
<1>2. i \in 0..(RING - 1)
  BY IndexInRing
<1>3. ring[i].name \in Piece
  BY <1>2 DEF Ring, Slot
<1>4. slot \in Slot
  BY <1>3, FieldTexts DEF Slot
<1>5. Shows(slot, f)
  <2>1. format_field(f, hashes) \in {format_field(f, TRUE), format_field(f, FALSE)}
    BY Zenon
  <2>2. slot.name = resolve_fieldname(f, ring[i].name)
        /\ slot.value = format_field(f, hashes)
    OBVIOUS
  <2> HIDE DEF slot
  <2> QED BY <2>1, <2>2, LabelOwnOrOld DEF Shows
<1> HIDE DEF f, i, slot, next
<1>6. next \in Ring /\ next[i] = slot /\ \A s \in 0..(RING - 1) : s # i => next[s] = ring[s]
  BY <1>1, <1>2, <1>4 DEF Ring
<1> QED BY <1>5, <1>6 DEF f, i, next

-----------------------------------------------------------------------------
(* A sequence of pairs *)

\* After all calls, a slot shows the last field that was written to it.
LEMMA LastPairShown ==
    ASSUME TableHeld, NEW ring \in Ring, NEW indices \in Seq(Nat), NEW hashes \in BOOLEAN
    PROVE  /\ get_review_pairs(ring, indices, hashes) \in Ring
           /\ \A j \in DOMAIN indices :
                 (\A l \in (j + 1)..Len(indices) :
                     bkp_index(indices[l]) # bkp_index(indices[j]))
                 => Shows(get_review_pairs(ring, indices, hashes)[bkp_index(indices[j])],
                          FieldAt(indices[j]))
<1> DEFINE n == Len(indices)
           i(j) == bkp_index(indices[j])
           Lasts(j, k) == \A l \in (j + 1)..k : i(l) # i(j)
           Keeps(r, k) == /\ r \in Ring
                          /\ \A j \in 1..k : Lasts(j, k) => Shows(r[i(j)], FieldAt(indices[j]))
<1>1. PICK rings : Rings(rings, ring, indices, hashes)
  BY PairsInTurn
<1>2. /\ rings[0] = ring
      /\ \A k \in 0..n : k < n =>
            rings[k + 1] = get_review_pair(rings[k], indices[k + 1], hashes)
      /\ rings[n] = get_review_pairs(ring, indices, hashes)
  BY <1>1 DEF Rings
<1>3. n \in Nat /\ DOMAIN indices = 1..n /\ \A j \in 1..n : indices[j] \in Nat
  OBVIOUS
<1>4. \A j \in 1..n : i(j) \in 0..(RING - 1)
  BY <1>3, IndexInRing
<1> HIDE DEF n, i
<1>5. Keeps(rings[0], 0)
  BY <1>2
<1>6. ASSUME NEW k \in 0..n, k < n, Keeps(rings[k], k) PROVE Keeps(rings[k + 1], k + 1)
  <2> DEFINE old == rings[k]
             new == rings[k + 1]
  <2>1. k + 1 \in 1..n /\ new = get_review_pair(old, indices[k + 1], hashes)
    BY <1>2, <1>3, <1>6
  <2>2. old \in Ring /\ indices[k + 1] \in Nat
    BY <1>3, <1>6, <2>1
  <2> HIDE DEF old, new
  <2>3. /\ new \in Ring
        /\ Shows(new[i(k + 1)], FieldAt(indices[k + 1]))
        /\ \A s \in 0..(RING - 1) : s # i(k + 1) => new[s] = old[s]
    BY <2>1, <2>2, PairShown DEF i
  <2>4. ASSUME NEW j \in 1..(k + 1), Lasts(j, k + 1)
        PROVE  Shows(new[i(j)], FieldAt(indices[j]))
    <3>1. CASE j = k + 1
      BY <2>3, <3>1
    <3>2. CASE j # k + 1
      <4>1. j \in 1..k /\ j \in 1..n /\ k + 1 \in (j + 1)..(k + 1)
        BY <1>3, <3>2
      <4>2. Lasts(j, k) /\ i(j) # i(k + 1)
        BY <2>4, <4>1
      <4>3. Shows(old[i(j)], FieldAt(indices[j]))
        BY <1>6, <4>1, <4>2 DEF old
      <4>4. new[i(j)] = old[i(j)]
        BY <1>4, <2>3, <4>1, <4>2
      <4> QED BY <4>3, <4>4
    <3> QED BY <3>1, <3>2
  <2> QED BY <2>3, <2>4 DEF new
<1>7. Keeps(rings[n], n)
  <2> DEFINE S == {k \in 0..n : Keeps(rings[k], k)}
  <2> HIDE DEF Keeps
  <2>1. 0 \in S /\ \A k \in 0..n : k \in S /\ k < n => k + 1 \in S
    BY <1>3, <1>5, <1>6
  <2>2. 0..n \subseteq S
    <3> HIDE DEF S
    <3> QED BY <1>3, <2>1, Induction
  <2> QED BY <1>3, <2>2
<1> QED BY <1>2, <1>3, <1>7 DEF n, i

\* Indices less than the size of the ring apart have slots of their own.
LEMMA SlotsApart ==
    ASSUME NEW a \in Nat, NEW b \in Nat, a < b, b - a < RING
    PROVE  bkp_index(a) # bkp_index(b)
<1>1. RING \in Nat /\ RING > 0
  BY PageAssumption
<1>2. /\ a = RING * (a \div RING) + (a % RING) /\ a \div RING \in Int
      /\ b = RING * (b \div RING) + (b % RING) /\ b \div RING \in Int
      /\ a % RING \in Nat /\ b % RING \in Nat
  BY <1>1
<1> SUFFICES ASSUME a % RING = b % RING PROVE FALSE
  BY DEF bkp_index
<1> DEFINE q == b \div RING - a \div RING
<1>3. q \in Int /\ b - a = RING * q
  BY <1>1, <1>2
<1> HIDE DEF q
<1>4. q <= 0 => RING * q <= 0
  BY <1>1, <1>3
<1>5. q >= 1 => RING * q >= RING
  BY <1>1, <1>3
<1> QED BY <1>1, <1>3, <1>4, <1>5

LEMMA LeastOfTwo ==
    ASSUME NEW a \in Nat, NEW b \in Nat
    PROVE  Min({a, b}) = IF a <= b THEN a ELSE b
<1>1. \E x \in {a, b} : \A y \in {a, b} : x <= y
  OBVIOUS
<1>2. Min({a, b}) \in {a, b} /\ \A y \in {a, b} : Min({a, b}) <= y
  BY <1>1 DEF Min
<1> QED BY <1>2

\* The pairs that the SDK asks for when a page is turned to: those of the page and
\* one more, and then those of the page.
LEMMA PageShown ==
    ASSUME TableHeld, NEW ring \in Ring, NEW hashes \in BOOLEAN,
           NEW first \in Nat, NEW m \in Nat, NEW d \in Nat, d <= PAGE,
           NEW measured, measured = [i \in 1..m |-> first + i - 1],
           NEW drawn, drawn = [i \in 1..d |-> first + i - 1]
    PROVE  /\ get_review_pairs(ring, measured \o drawn, hashes) \in Ring
           /\ \A i \in 1..d :
                 Shows(get_review_pairs(ring, measured \o drawn, hashes)
                           [bkp_index(drawn[i])], FieldAt(drawn[i]))
<1> DEFINE indices == measured \o drawn
<1>1. measured \in Seq(Nat) /\ drawn \in Seq(Nat) /\ Len(measured) = m /\ Len(drawn) = d
  OBVIOUS
<1>2. /\ indices \in Seq(Nat) /\ Len(indices) = m + d /\ DOMAIN indices = 1..(m + d)
      /\ \A i \in 1..d : indices[m + i] = drawn[i]
  BY <1>1
<1> HIDE DEF indices
<1>3. ASSUME NEW i \in 1..d, NEW l \in (m + i + 1)..(m + d)
      PROVE  bkp_index(indices[l]) # bkp_index(indices[m + i])
  <2>1. PAGE <= RING /\ PAGE \in Nat /\ RING \in Nat
    BY PageAssumption
  <2>2. l - m \in 1..d /\ i < l - m /\ l = m + (l - m) /\ l - m - i < PAGE
    BY <2>1
  <2>3. indices[l] = first + (l - m) - 1 /\ indices[m + i] = first + i - 1
    BY <1>2, <2>2
  <2>4. /\ first + i - 1 \in Nat /\ first + (l - m) - 1 \in Nat
        /\ first + i - 1 < first + (l - m) - 1
        /\ (first + (l - m) - 1) - (first + i - 1) < RING
    BY <2>1, <2>2
  <2> QED BY <2>3, <2>4, SlotsApart
<1>4. ASSUME NEW i \in 1..d
      PROVE  Shows(get_review_pairs(ring, indices, hashes)[bkp_index(drawn[i])],
                   FieldAt(drawn[i]))
  <2> DEFINE j == m + i
  <2>1. j \in DOMAIN indices /\ indices[j] = drawn[i]
    <3>1. j \in 1..(m + d)
      OBVIOUS
    <3> QED BY <1>2, <3>1
  <2>2. \A l \in (j + 1)..Len(indices) : bkp_index(indices[l]) # bkp_index(indices[j])
    BY <1>2, <1>3
  <2> HIDE DEF j
  <2>3. Shows(get_review_pairs(ring, indices, hashes)[bkp_index(indices[j])],
              FieldAt(indices[j]))
    BY <1>2, <2>1, <2>2, LastPairShown
  <2> QED BY <2>1, <2>3
<1>5. get_review_pairs(ring, indices, hashes) \in Ring
  BY <1>2, LastPairShown
<1> QED BY <1>4, <1>5 DEF indices

-----------------------------------------------------------------------------
(* The invariant, one lemma for each action *)

LEMMA ReviewInitInv == Init => ReviewInv
<1> SUFFICES ASSUME Init PROVE ReviewInv
  OBVIOUS
<1>1. /\ ctx = NoTransaction /\ at = "idle" /\ frames = <<>> /\ nbPairs = 0 /\ page = <<>>
      /\ bkp_args = [s \in 0..(RING - 1) |-> EmptySlot]
      /\ steps = [uploads |-> 0, turns |-> 0]
  BY DEF Init
<1>2. EmptySlot \in Slot
  <2>1. "" \in Texts
    BY Zenon DEF Texts
  <2>2. NoLabel \in Piece
    BY Zenon, <2>1, WordIsPiece DEF NoLabel
  <2> QED BY <2>2 DEF EmptySlot, Slot
<1>3. ReviewTypeOK
  <2>1. bkp_args \in [0..(RING - 1) -> Slot]
    BY <1>1, <1>2
  <2>2. nbPairs \in 0..MAX_FIELD_COUNT
    BY <1>1, FieldCountAssumption
  <2>3. steps \in [uploads: 0..MaxUploads, turns: 0..MaxTurns]
    BY <1>1, BoundsAssumption
  <2>4. page \in Seq(Drawn) /\ DOMAIN page = {}
    BY <1>1
  <2> QED BY <1>1, <2>1, <2>2, <2>3, <2>4 DEF ReviewTypeOK
<1>4. TableHeld
  BY <1>1, FieldCountAssumption DEF TableHeld, TableRecorded, NoTransaction
<1>5. PageShowsItsFields /\ ReviewShowsTable
  BY <1>1 DEF PageShowsItsFields, ReviewShowsTable
<1> QED BY <1>1, <1>3, <1>4, <1>5 DEF ReviewInv

\* What stays of the invariant while the screen does not change.
LEMMA ScreenStays ==
    ASSUME ReviewInv, UNCHANGED reviewVars,
           steps' \in [uploads: 0..MaxUploads, turns: 0..MaxTurns],
           at' \in {"idle", "reviewed"} \cup Points,
           TableHeld', at' = "idle" => frames' = <<>>,
           at' \notin {"idle", "reviewed"} => ParserInv', at' # "reviewed"
    PROVE  ReviewInv'
<1>1. nbPairs' = nbPairs /\ bkp_args' = bkp_args /\ page' = page
  BY DEF reviewVars
<1>2. ReviewTypeOK'
  BY <1>1 DEF ReviewInv, ReviewTypeOK
<1>3. PageShowsItsFields'
  BY <1>1 DEF ReviewInv, PageShowsItsFields
<1>4. ReviewShowsTable'
  BY DEF ReviewShowsTable
<1> QED BY <1>2, <1>3, <1>4 DEF ReviewInv

LEMMA ParserTable ==
    ASSUME ParserInv
    PROVE  TableHeld /\ at \in Points
<1>1. ctx \in Context /\ Len(ctx.fields) <= MAX_FIELD_COUNT /\ at \in Points /\ TableRecorded
  BY DEF ParserInv, ParseTypeOK
<1>2. ctx.length \in Nat
  BY InvGood
<1> QED BY <1>1, <1>2 DEF TableHeld, Context

LEMMA PointsNeitherIdleNorReviewed == "idle" \notin Points /\ "reviewed" \notin Points
BY TopTypesAre DEF Points, Return, TopTypes, TRANSFER, IMPORTANCE_TRANSFER,
   AGGREGATE_MODIFICATION, SIGNATURE, MULTISIG, NAMESPACE, MOSAIC_DEFINITION, SUPPLY_CHANGE

LEMMA UploadCompletedStep == ReviewInv /\ UploadCompleted => ReviewInv'
<1> SUFFICES ASSUME ReviewInv, UploadCompleted PROVE ReviewInv'
  OBVIOUS
<1>1. PICK length \in Lengths : ctx' = [NoTransaction EXCEPT !.length = length]
  BY DEF UploadCompleted
<1>2. /\ at = "idle" /\ at' = "start" /\ frames' = <<>> /\ local' = NoLocals
      /\ txn' = [header |-> 0, version |-> 0] /\ UNCHANGED reviewVars
      /\ steps' = [steps EXCEPT !.uploads = @ + 1] /\ steps.uploads < MaxUploads
  BY DEF UploadCompleted, ReviewInv
<1>3. ctx' = [offset |-> 0, length |-> length, transactionType |-> "none",
              fields |-> <<>>, headers |-> {}, ok |-> TRUE]
  BY <1>1 DEF NoTransaction
<1>4. ParserInit'
  BY <1>2, <1>3 DEF ParserInit
<1>5. ParserInit' => ParserInv'
  BY ParserInitInv, PTL
<1>6. ParserInv' => TableHeld'
  BY ParserTable, PTL
<1>7. steps' \in [uploads: 0..MaxUploads, turns: 0..MaxTurns]
  BY <1>2, BoundsAssumption DEF ReviewInv, ReviewTypeOK
<1> QED BY <1>2, <1>4, <1>5, <1>6, <1>7, ScreenStays DEF Points

LEMMA ParserStepsFromPoints ==
    ASSUME ParserStep
    PROVE  at \notin {"idle", "reviewed"}
BY PointsNeitherIdleNorReviewed
   DEF ParserStep, parse_txn_detail, parse_transfer_transaction, TransferMessage,
       TransferMosaics, TransferMosaic, MosaicNamespace, MosaicName,
       parse_importance_transfer_transaction, parse_aggregate_modification_transaction,
       Modification, RelativeChange, parse_provision_namespace_transaction,
       ParentNamespace, parse_mosaic_definition_creation_transaction, MosaicId,
       MosaicIdName, MosaicDescription, MosaicProperty, MosaicLevyLength, MosaicLevy,
       MosaicLevyName, MosaicSink, parse_mosaic_supply_change_transaction, MosaicSupply,
       parse_multisig_transaction, parse_multisig_signature_transaction, NextInner,
       LeaveMultisig, Parsed, Return, TRANSFER, IMPORTANCE_TRANSFER,
       AGGREGATE_MODIFICATION, SIGNATURE, MULTISIG, NAMESPACE, MOSAIC_DEFINITION,
       SUPPLY_CHANGE

LEMMA ParseStep == ReviewInv /\ Parse => ReviewInv'
<1> SUFFICES ASSUME ReviewInv, Parse PROVE ReviewInv'
  OBVIOUS
<1>1. ParserStep /\ UNCHANGED reviewVars /\ UNCHANGED steps
  BY DEF Parse
<1>2. at \notin {"idle", "reviewed"}
  BY <1>1, ParserStepsFromPoints
<1>3. ParserInv'
  BY <1>1, <1>2, ParserStepInv DEF ReviewInv
<1>4. ParserInv' => (TableHeld /\ at \in Points)'
  BY ParserTable, PTL
<1>5. at' \notin {"idle", "reviewed"}
  BY <1>3, <1>4, PointsNeitherIdleNorReviewed
<1>6. steps' \in [uploads: 0..MaxUploads, turns: 0..MaxTurns]
  BY <1>1 DEF ReviewInv, ReviewTypeOK
<1> QED BY <1>1, <1>3, <1>4, <1>5, <1>6, ScreenStays

LEMMA DisplayStep == ReviewInv /\ display_review_menu => ReviewInv'
<1> SUFFICES ASSUME ReviewInv, display_review_menu PROVE ReviewInv'
  OBVIOUS
<1> DEFINE n == Len(ctx.fields)
           indices == [i \in 1..n |-> i - 1]
<1>1. PICK hashes \in BOOLEAN : bkp_args' = get_review_pairs(bkp_args, indices, hashes)
  BY DEF display_review_menu
<1>2. /\ at' = "reviewed" /\ nbPairs' = n /\ page' = <<>> /\ ctx' = ctx
      /\ steps' = steps
  BY DEF display_review_menu
<1>3. TableHeld /\ ReviewTypeOK
  BY DEF ReviewInv
<1>4. n \in Nat /\ n <= MAX_FIELD_COUNT
  BY <1>3 DEF TableHeld
<1> HIDE DEF n
<1>5. indices \in Seq(Nat)
  BY <1>4
<1>6. bkp_args \in Ring
  BY <1>3 DEF ReviewTypeOK, Ring
<1>7. bkp_args' \in Ring
  <2> HIDE DEF indices
  <2> QED BY <1>1, <1>3, <1>5, <1>6, LastPairShown
<1>8. ReviewTypeOK'
  <2>1. nbPairs' \in 0..MAX_FIELD_COUNT
    BY <1>2, <1>4, FieldCountAssumption
  <2>2. page' \in Seq(Drawn) /\ DOMAIN page' = {}
    BY <1>2
  <2> QED BY <1>2, <1>3, <1>7, <2>1, <2>2 DEF ReviewTypeOK, Ring
<1>9. TableHeld'
  BY <1>2, <1>3 DEF TableHeld, TableRecorded
<1>10. PageShowsItsFields' /\ ReviewShowsTable'
  BY <1>2 DEF PageShowsItsFields, ReviewShowsTable, n
<1> QED BY <1>2, <1>8, <1>9, <1>10 DEF ReviewInv

LEMMA TurnPageStep == ReviewInv /\ TurnPage => ReviewInv'
<1> SUFFICES ASSUME ReviewInv, TurnPage PROVE ReviewInv'
  OBVIOUS
<1> DEFINE left(first) == nbPairs - first
           upTo(first, n) == [i \in 1..Min({n, left(first)}) |-> first + i - 1]
           drawn(first) == upTo(first, PAGE)
<1>1. PICK first \in 0..(nbPairs - 1), hashes \in BOOLEAN :
         /\ bkp_args' = get_review_pairs(bkp_args, upTo(first, PAGE + 1) \o drawn(first),
                                         hashes)
         /\ page' = [i \in DOMAIN drawn(first) |-> [index |-> drawn(first)[i],
                                                    field |-> FieldAt(drawn(first)[i])]]
  BY DEF TurnPage
<1>2. /\ nbPairs' = nbPairs /\ ctx' = ctx /\ at' = at /\ txn' = txn /\ local' = local
      /\ frames' = frames /\ nbPairs > 0
      /\ steps' = [steps EXCEPT !.turns = @ + 1] /\ steps.turns < MaxTurns
  BY DEF TurnPage, parseVars
<1>3. TableHeld /\ ReviewTypeOK /\ nbPairs \in Nat /\ nbPairs <= MAX_FIELD_COUNT
  BY FieldCountAssumption DEF ReviewInv, ReviewTypeOK
<1> DEFINE m == Min({PAGE + 1, left(first)})
           d == Min({PAGE, left(first)})
           measured == [i \in 1..m |-> first + i - 1]
           shown == [i \in 1..d |-> first + i - 1]
<1>4. /\ m \in Nat /\ d \in Nat /\ d <= PAGE /\ d <= left(first) /\ first \in Nat
  <2>1. PAGE \in Nat /\ left(first) \in Nat
    BY <1>3, PageAssumption
  <2> QED BY <2>1, LeastOfTwo
<1>5. /\ bkp_args' = get_review_pairs(bkp_args, measured \o shown, hashes)
      /\ page' = [i \in 1..d |-> [index |-> shown[i], field |-> FieldAt(shown[i])]]
  BY <1>1
<1>6. \A i \in 1..d : shown[i] \in Nat /\ shown[i] < nbPairs
  BY <1>3, <1>4
<1>7. bkp_args \in Ring
  BY <1>3 DEF ReviewTypeOK, Ring
<1> HIDE DEF m, d
<1>8. /\ bkp_args' \in Ring
      /\ \A i \in 1..d : Shows(bkp_args'[bkp_index(shown[i])], FieldAt(shown[i]))
  BY <1>3, <1>4, <1>5, <1>7, PageShown
<1> HIDE DEF measured, shown
<1>9. /\ page' \in Seq(Drawn) /\ DOMAIN page' = 1..d
      /\ \A i \in 1..d : page'[i].index = shown[i] /\ page'[i].field = FieldAt(shown[i])
  <2>1. \A i \in 1..d : FieldAt(shown[i]) \in Field \cup {ZeroField}
    <3>1. NoLabel \in Piece
      <4>1. "" \in Texts
        BY Zenon DEF Texts
      <4> QED BY Zenon, <4>1, WordIsPiece DEF NoLabel
    <3> QED BY <1>3, <1>6, <3>1, FieldTexts
  <2>2. \A i \in 1..d : [index |-> shown[i], field |-> FieldAt(shown[i])] \in Drawn
    BY <1>6, <2>1 DEF Drawn
  <2> QED BY <1>4, <1>5, <2>2
<1>10. ReviewTypeOK'
  <2>1. steps' \in [uploads: 0..MaxUploads, turns: 0..MaxTurns]
    BY <1>2, <1>3, BoundsAssumption DEF ReviewTypeOK
  <2> QED BY <1>2, <1>3, <1>6, <1>8, <1>9, <2>1 DEF ReviewTypeOK, Ring
<1>11. TableHeld'
  BY <1>2, <1>3 DEF TableHeld, TableRecorded
<1>12. PageShowsItsFields'
  <2> SUFFICES ASSUME NEW i \in DOMAIN page'
               PROVE  Shows(bkp_args'[bkp_index(page'[i].index)], page'[i].field)
    BY DEF PageShowsItsFields, Shows
  <2> QED BY <1>8, <1>9
<1>13. ReviewShowsTable'
  <2>1. at = "reviewed" => nbPairs = Len(ctx.fields)
    BY <1>2 DEF ReviewInv, ReviewShowsTable
  <2>2. (\A i \in DOMAIN page : page[i].field = FieldAt(page[i].index))'
    BY <1>2, <1>9 DEF FieldAt
  <2> QED BY <1>2, <2>1, <2>2 DEF ReviewShowsTable
<1>14. at \notin {"idle", "reviewed"} => ParserInv'
  <2>1. UNCHANGED parseVars
    BY <1>2 DEF parseVars
  <2>2. ParserInv => ParserInv'
    BY <2>1, ParserStepInv
  <2> QED BY <2>2 DEF ReviewInv
<1> QED BY <1>2, <1>10, <1>11, <1>12, <1>13, <1>14 DEF ReviewInv

\* The table is cleared, and the screen goes or stays.
LEMMA ResetStep ==
    ASSUME ReviewInv, reset_transaction_context, CloseScreen \/ UNCHANGED reviewVars,
           UNCHANGED steps
    PROVE  ReviewInv'
<1>1. ctx' = NoTransaction /\ at' = "idle" /\ frames' = <<>>
  BY DEF reset_transaction_context
<1>2. TableHeld'
  BY <1>1, FieldCountAssumption DEF TableHeld, TableRecorded, NoTransaction
<1>3. steps' \in [uploads: 0..MaxUploads, turns: 0..MaxTurns]
  BY DEF ReviewInv, ReviewTypeOK
<1>4. CASE UNCHANGED reviewVars
  BY <1>1, <1>2, <1>3, <1>4, ScreenStays
<1>5. CASE CloseScreen
  <2>1. nbPairs' = 0 /\ page' = <<>> /\ bkp_args' = bkp_args
    BY <1>5 DEF CloseScreen
  <2>2. ReviewTypeOK'
    <3>1. page' \in Seq(Drawn) /\ DOMAIN page' = {}
      BY <2>1
    <3>2. nbPairs' \in 0..MAX_FIELD_COUNT
      BY <2>1, FieldCountAssumption
    <3> QED BY <1>1, <1>3, <2>1, <3>1, <3>2 DEF ReviewInv, ReviewTypeOK
  <2>3. PageShowsItsFields' /\ ReviewShowsTable'
    BY <1>1, <2>1 DEF PageShowsItsFields, ReviewShowsTable
  <2> QED BY <1>1, <1>2, <2>2, <2>3 DEF ReviewInv
<1> QED BY <1>4, <1>5

LEMMA ReviewStutters == ReviewInv /\ UNCHANGED vars => ReviewInv'
<1> SUFFICES ASSUME ReviewInv, UNCHANGED vars PROVE ReviewInv'
  OBVIOUS
<1>1. /\ ctx' = ctx /\ at' = at /\ txn' = txn /\ local' = local /\ frames' = frames
      /\ nbPairs' = nbPairs /\ bkp_args' = bkp_args /\ page' = page /\ steps' = steps
  BY DEF vars, parseVars, reviewVars
<1>2. ParserInv => ParserInv'
  <2>1. UNCHANGED parseVars
    BY <1>1 DEF parseVars
  <2> QED BY <2>1, ParserStepInv
<1>3. ReviewTypeOK' /\ TableHeld'
  BY <1>1 DEF ReviewInv, ReviewTypeOK, TableHeld, TableRecorded
<1>4. PageShowsItsFields' /\ ReviewShowsTable'
  BY <1>1 DEF ReviewInv, PageShowsItsFields, ReviewShowsTable, FieldAt
<1> QED BY <1>1, <1>2, <1>3, <1>4 DEF ReviewInv

LEMMA ReviewStepInv == ReviewInv /\ [Next]_vars => ReviewInv'
<1> SUFFICES ASSUME ReviewInv, [Next]_vars PROVE ReviewInv'
  OBVIOUS
<1>1. CASE UploadCompleted
  BY <1>1, UploadCompletedStep
<1>2. CASE Parse
  BY <1>2, ParseStep
<1>3. CASE display_review_menu
  BY <1>3, DisplayStep
<1>4. CASE TurnPage
  BY <1>4, TurnPageStep
<1>5. CASE review_choice
  BY <1>5, ResetStep DEF review_choice
<1>6. CASE ChangeInstruction
  BY <1>6, ResetStep DEF ChangeInstruction
<1>7. CASE UNCHANGED vars
  BY <1>7, ReviewStutters
<1> QED BY <1>1, <1>2, <1>3, <1>4, <1>5, <1>6, <1>7 DEF Next

-----------------------------------------------------------------------------
(* The theorems *)

\* Whatever is uploaded, turned to and decided in whatever order, what the screen
\* shows and the table it is drawn from stay as ReviewInv relates them.
THEOREM ReviewKeepsInv == Spec => []ReviewInv
<1> QED BY ReviewInitInv, ReviewStepInv, PTL DEF Spec

\* Each pair on the screen has the value and the label of its own field, for every
\* ring that holds a page (review_menu.c:58).
THEOREM PagesShowTheirFields == Spec => []PageShowsItsFields
<1>1. ReviewInv => PageShowsItsFields
  BY DEF ReviewInv
<1> QED BY <1>1, ReviewKeepsInv, PTL

\* A review has as many pairs as its own transaction has fields, and no page of an
\* earlier one.
THEOREM ReviewsShowTheirTable == Spec => []ReviewShowsTable
<1>1. ReviewInv => ReviewShowsTable
  BY DEF ReviewInv
<1> QED BY <1>1, ReviewKeepsInv, PTL

\* A page reads nothing outside the buffer, over whatever table it is turned to.
THEOREM PagesAreInBuffer == Spec => []PagesStayInBuffer
<1>1. ReviewInv => PagesStayInBuffer
  <2> SUFFICES ASSUME ReviewInv, NEW index \in 0..(nbPairs - 1)
               PROVE  /\ InBuffer(FieldAt(index).at, Prefix(FieldAt(index)))
                      /\ \A p \in Range(format_field(FieldAt(index), TRUE)) :
                            InBuffer(p.at, p.n)
    BY DEF PagesStayInBuffer
  <2> DEFINE f == FieldAt(index)
  <2>1. CASE index + 1 \in DOMAIN ctx.fields
    <3>1. f = ctx.fields[index + 1]
      BY <2>1 DEF FieldAt
    <3>2. Recorded(f, ctx.length) /\ ctx.length \in Nat
      BY <2>1, <3>1 DEF ReviewInv, TableHeld, TableRecorded
    <3> HIDE DEF f
    <3>3. ReadsInBuffer(f)
      BY <3>2, FieldReadsInBuffer
    <3> DEFINE value == format_field(f, TRUE)
               label == resolve_fieldname(f, Word(""))
    <3>4. value \in Seq(Piece)
      <4>1. "" \in Texts
        BY Zenon DEF Texts
      <4>2. Word("") \in Piece
        BY Zenon, <4>1, WordIsPiece
      <4> QED BY <3>2, <4>2, RecordedTexts
    <3>5. /\ InBuffer(f.at, Prefix(f))
          /\ \A p \in Range(Append(value, label)) : InBuffer(p.at, p.n)
      BY <3>3 DEF ReadsInBuffer
    <3> HIDE DEF value, label
    <3>6. \A p \in Range(value) : p \in Range(Append(value, label))
      BY <3>4 DEF Range
    <3> QED BY <3>5, <3>6 DEF value, f
  <2>2. CASE index + 1 \notin DOMAIN ctx.fields
    <3>1. f = ZeroField
      BY <2>2 DEF FieldAt
    <3>2. InBuffer(ZeroField.at, Prefix(ZeroField))
      BY DEF ZeroField, Prefix, InBuffer, IsPair, IsMosaicPair, DataType
    <3>3. format_field(ZeroField, TRUE) = <<Word("[Not implemented]")>>
      BY Zenon, ZeroFieldTexts
    <3>4. \A w : \A p \in Range(<<Word(w)>>) : InBuffer(p.at, p.n)
      BY PieceParts DEF Range, InBuffer
    <3> QED BY Zenon, <3>1, <3>2, <3>3, <3>4
  <2> QED BY <2>1, <2>2
<1> QED BY <1>1, ReviewKeepsInv, PTL
=============================================================================
