---------------------------- MODULE FieldProofs ----------------------------
(* What labels and formatters do with a field as the parser records it.  The
   lemmas are about one field; ParseProofs applies them to the whole table.
   Texts with spaces in them are left to Zenon. *)
EXTENDS NemParseProperties, TLAPS

\* With a data type its ids are known.
USE DEF Uint32Ids, AddressIds, MosaicIds, NemIds, MessageIds, StringIds

\* The space that stands for an empty text, and what stands for a missing
\* formatter.
Marks == {" ", "[Not implemented]"}

\* Pieces whose bytes lie in the buffer, and which are no mark.
SoundPieces == {p \in Piece : InBuffer(p.at, p.n) /\ p.form \notin Marks}

Sound(text) == text \in Seq(SoundPieces)

LEMMA PieceParts ==
    ASSUME NEW form, NEW start, NEW n
    PROVE  /\ Shown(form, start, n).form = form
           /\ Shown(form, start, n).at = start
           /\ Shown(form, start, n).n = n
           /\ Word(form).form = form
           /\ Word(form).at = 0
           /\ Word(form).n = 0
BY DEF Shown, Word

\* What a word needs to be, to be a piece of a text.
FormatterWords == Texts \ Marks

\* Pieces of different forms differ.
LEMMA FormTells ==
    /\ \A v, w : Word(v) = Word(w) => v = w
    /\ \A form, start, n, w : Shown(form, start, n) = Word(w) => form = w
<1>1. \A w : Word(w).form = w
  BY PieceParts
<1>2. \A form, start, n : Shown(form, start, n).form = form
  BY PieceParts
<1>3. ASSUME NEW v, NEW w, Word(v) = Word(w) PROVE v = w
  <2>1. Word(v).form = Word(w).form
    BY <1>3
  <2> QED BY <1>1, <2>1
<1>4. ASSUME NEW form, NEW start, NEW n, NEW w, Shown(form, start, n) = Word(w)
      PROVE  form = w
  <2>1. Shown(form, start, n).form = Word(w).form
    BY <1>4
  <2> QED BY <1>1, <1>2, <2>1
<1> QED BY Zenon, <1>3, <1>4

LEMMA FormsAreNoMarks == Forms \cap Marks = {}
<1>1. /\ "ascii" \notin Marks /\ "hex" \notin Marks /\ "mode" \notin Marks
      /\ "%d" \notin Marks /\ "%dOrName" \notin Marks /\ "address" \notin Marks
      /\ "number" \notin Marks /\ "token" \notin Marks
  BY Zenon DEF Marks
<1> QED BY <1>1 DEF Forms

LEMMA ShownSound ==
    ASSUME NEW form \in Forms,
           NEW start \in Int, NEW n \in Nat, InBuffer(start, n)
    PROVE  Shown(form, start, n) \in SoundPieces
<1>1. Shown(form, start, n) \in Piece
  BY DEF Shown, Piece
<1> QED BY <1>1, FormsAreNoMarks, PieceParts DEF SoundPieces, InBuffer

LEMMA WordSound ==
    ASSUME NEW word \in FormatterWords
    PROVE  Word(word) \in SoundPieces
<1>1. Word(word) \in Piece
  BY DEF Word, Piece, FormatterWords
<1> QED BY <1>1, PieceParts DEF SoundPieces, InBuffer, FormatterWords

LEMMA OneSound ==
    ASSUME NEW p \in SoundPieces
    PROVE  Sound(<<p>>) /\ <<p>> # <<>>
BY DEF Sound

LEMMA EmptySound == Sound(<<>>)
BY DEF Sound

LEMMA ConcatSound ==
    ASSUME NEW s, NEW t, Sound(s), Sound(t)
    PROVE  /\ Sound(s \o t)
           /\ s \o t = <<>> <=> s = <<>> /\ t = <<>>
BY DEF Sound

\* Neither of the two marks is sound: a text is told from them.
LEMMA SoundIsNoMark ==
    ASSUME NEW text, Sound(text), NEW mark \in Marks
    PROVE  text # <<Word(mark)>>
<1> SUFFICES ASSUME text = <<Word(mark)>> PROVE FALSE
  OBVIOUS
<1>1. text[1] = Word(mark) /\ 1 \in 1..Len(text)
  OBVIOUS
<1>2. Word(mark) \in SoundPieces
  BY <1>1 DEF Sound
<1> QED BY <1>2, PieceParts DEF SoundPieces

LEMMA AsciiSound ==
    ASSUME NEW pos \in Nat, NEW start \in Int, NEW n \in Nat, InBuffer(start, n)
    PROVE  /\ Sound(Ascii(pos, start, n))
           /\ Ascii(pos, start, n) = <<>> => n = 0 \/ n + pos >= MAX_FIELD_LEN
<1>1. Shown("ascii", start, n) \in SoundPieces
  BY ShownSound DEF Forms
<1>2. /\ Sound(<<Shown("ascii", start, n)>>)
      /\ <<Shown("ascii", start, n)>> # <<>>
  BY <1>1, OneSound
<1>3. CASE AsciiFits(pos, n, MAX_FIELD_LEN)
  BY <1>2, <1>3 DEF Ascii
<1>4. CASE ~AsciiFits(pos, n, MAX_FIELD_LEN)
  <2>1. n = 0 \/ n + pos >= MAX_FIELD_LEN
    BY <1>4, MaxFieldLenAssumption DEF AsciiFits
  <2> QED BY <1>4, <2>1, EmptySound DEF Ascii
<1> QED BY <1>3, <1>4

LEMMA HexSound ==
    ASSUME NEW start \in Int, NEW n \in Nat, InBuffer(start, n)
    PROVE  /\ Sound(Hex(start, n))
           /\ Hex(start, n) = <<>> => n = 0 \/ 2 * n >= MAX_FIELD_LEN
<1>1. Shown("hex", start, n) \in SoundPieces
  BY ShownSound DEF Forms
<1>2. /\ Sound(<<Shown("hex", start, n)>>)
      /\ <<Shown("hex", start, n)>> # <<>>
  BY <1>1, OneSound
<1>3. CASE HexFits(n, MAX_FIELD_LEN)
  BY <1>2, <1>3 DEF Hex
<1>4. CASE ~HexFits(n, MAX_FIELD_LEN)
  <2>1. n = 0 \/ 2 * n >= MAX_FIELD_LEN
    BY <1>4, MaxFieldLenAssumption DEF HexFits
  <2> QED BY <1>4, <2>1, EmptySound DEF Hex
<1> QED BY <1>3, <1>4

-----------------------------------------------------------------------------
(* One lemma for each formatter: its text is sound, and blank only at the
   limits that BlankOnlyAtLimits names. *)

LEMMA Uint32Text ==
    ASSUME NEW f, Recorded(f, ctx.length), DataType(f.id) = "STI_UINT32"
    PROVE  /\ Sound(uint32_formatter(f))
           /\ uint32_formatter(f) = <<>> => f.head \notin {1, 2}
<1>1. f.at \in Int /\ InBuffer(f.at, 4)
  BY DEF Recorded, Field, Span, InBuffer, HasNoData, DataType, STACK
<1>2. /\ Shown("mode", f.at, 4) \in SoundPieces
      /\ Shown("%d", f.at, 4) \in SoundPieces
      /\ Shown("%dOrName", f.at, 4) \in SoundPieces
  BY <1>1, ShownSound DEF Forms
<1>3. "Found" \in FormatterWords
  BY Zenon DEF FormatterWords, Texts, Marks
<1>4. Word("Found") \in SoundPieces
  BY <1>3, WordSound
<1>5. /\ Sound(<<Shown("mode", f.at, 4)>>)
      /\ Sound(<<Word("Found"), Shown("%d", f.at, 4)>>)
      /\ Sound(<<Shown("%dOrName", f.at, 4)>>)
  BY <1>2, <1>4 DEF Sound
<1>6. f.head \in {1, 2} => uint32_formatter(f) # <<>>
  BY DEF uint32_formatter
<1> QED BY <1>5, <1>6, EmptySound DEF uint32_formatter

\* A hash of at most 32 bytes fits, so that only an empty one is blank.
LEMMA HashText ==
    ASSUME NEW f, Recorded(f, ctx.length), DataType(f.id) = "STI_HASH256"
    PROVE  /\ Sound(Hex(f.at, f.length))
           /\ Hex(f.at, f.length) = <<>> => f.length = 0
<1>1. f.at \in Int /\ f.length \in Nat /\ InBuffer(f.at, f.length)
  BY DEF Recorded, Field, Span, InBuffer, HasNoData, DataType, STACK
<1>2. 2 * f.length < MAX_FIELD_LEN
  BY <1>1, MaxFieldLenAssumption DEF Recorded, PUBLICKEY
<1> QED BY <1>1, <1>2, HexSound, MaxFieldLenAssumption

LEMMA AddressText ==
    ASSUME NEW f, Recorded(f, ctx.length), DataType(f.id) = "STI_ADDRESS"
    PROVE  /\ Sound(address_formatter(f, TRUE))
           /\ address_formatter(f, TRUE) = <<>> => f.length = 0
<1>1. f.at \in Int /\ f.length \in Nat /\ InBuffer(f.at, f.length)
  BY DEF Recorded, Field, Span, InBuffer, HasNoData, DataType, STACK
<1>2. CASE IsPublicKey(f.id)
  <2>1. InBuffer(f.at, 32)
    BY <1>1, <1>2 DEF Recorded, PUBLICKEY
  <2>2. Shown("address", f.at, 32) \in SoundPieces
    BY <1>1, <2>1, ShownSound DEF Forms
  <2>3. address_formatter(f, TRUE) = <<Shown("address", f.at, 32)>>
    BY <1>2 DEF address_formatter, nem_public_key_to_address
  <2> QED BY <2>2, <2>3, OneSound
<1>3. CASE ~IsPublicKey(f.id)
  <2>1. f.length + 0 < MAX_FIELD_LEN
    BY <1>1, MaxFieldLenAssumption DEF Recorded, ADDRESS
  <2>2. address_formatter(f, TRUE) = Ascii(0, f.at, f.length)
    BY <1>3 DEF address_formatter
  <2> DEFINE text == address_formatter(f, TRUE)
  <2>3. /\ Sound(Ascii(0, f.at, f.length))
        /\ Ascii(0, f.at, f.length) = <<>> =>
              f.length = 0 \/ f.length + 0 >= MAX_FIELD_LEN
    BY <1>1, AsciiSound
  <2>4. text = Ascii(0, f.at, f.length)
    BY <2>2
  <2> HIDE DEF text
  <2>5. Sound(text) /\ (text = <<>> => f.length = 0)
    BY <1>1, <2>1, <2>3, <2>4, MaxFieldLenAssumption
  <2> QED BY <2>5 DEF text
<1> QED BY <1>2, <1>3

LEMMA MosaicText ==
    ASSUME NEW f, Recorded(f, ctx.length), DataType(f.id) = "STI_MOSAIC_CURRENCY"
    PROVE  Sound(mosaic_formatter(f)) /\ mosaic_formatter(f) # <<>>
<1>1. f.at \in Int /\ f.length = 8 /\ InBuffer(f.at, 8)
  BY DEF Recorded, Field, Span, InBuffer, HasNoData, DataType, STACK
<1>2. Shown("number", f.at, 8) \in SoundPieces
  BY <1>1, ShownSound DEF Forms
<1>3. f.at + f.length - 8 = f.at
  BY <1>1
<1>4. mosaic_formatter(f) = <<Shown("number", f.at, 8)>>
  BY <1>3 DEF mosaic_formatter
<1> QED BY <1>2, <1>4, OneSound

LEMMA NemText ==
    ASSUME NEW f, Recorded(f, ctx.length), DataType(f.id) = "STI_NEM"
    PROVE  Sound(nem_formatter(f)) /\ nem_formatter(f) # <<>>
<1>1. f.at \in Int /\ InBuffer(f.at, 8)
  BY DEF Recorded, Field, Span, InBuffer, HasNoData, DataType, STACK
<1>2. Shown("token", f.at, 8) \in SoundPieces
  BY <1>1, ShownSound DEF Forms
<1>3. "micro" \in FormatterWords /\ "XEM" \in FormatterWords
  BY Zenon DEF FormatterWords, Texts, Marks
<1>4. Word("micro") \in SoundPieces /\ Word("XEM") \in SoundPieces
  BY <1>3, WordSound
<1> QED BY <1>2, <1>4 DEF Sound, nem_formatter

\* A cut leaves a part of what is there, and nothing only of nothing.
LEMMA CutBounds ==
    ASSUME NEW n \in Nat, NEW limit \in Nat, NEW most \in Nat,
           0 < most, most < limit
    PROVE  /\ Cut(n, limit, most) \in 0..n
           /\ Cut(n, limit, most) < limit
           /\ Cut(n, limit, most) = 0 => n = 0
           /\ Cut(n, limit, most) \in {n, most}
BY DEF Cut

LEMMA MessageText ==
    ASSUME NEW f, Recorded(f, ctx.length), DataType(f.id) = "STI_MESSAGE",
           ctx.length \in Nat
    PROVE  /\ Sound(msg_formatter(f))
           /\ msg_formatter(f) = <<>> =>
                 /\ f.head = HEX_MESSAGE
                 /\ f.length = 1 \/ 2 * f.length > MAX_FIELD_LEN
<1> DEFINE n == f.length
           M == MAX_FIELD_LEN
           shorter == Cut(n - 1, M, M - 1)
           short == Cut(n, M, M - 1)
<1>1. f.at \in Int /\ n \in Nat /\ (n # 0 => f.at >= 0 /\ f.at + n <= ctx.length)
  BY DEF Recorded, Field, Span, InBuffer, HasNoData, DataType, STACK
<1>2. M \in Nat /\ M > 64
  BY MaxFieldLenAssumption
<1>3. CASE n = 0
  <2>1. /\ "<empty msg>" \in FormatterWords
        /\ "<encrypted msg>" \in FormatterWords
    BY Zenon DEF FormatterWords, Texts, Marks
  <2> DEFINE word == IF f.id = "NEM_STR_ENC_MESSAGE" THEN "<encrypted msg>"
                     ELSE "<empty msg>"
  <2>2. word \in FormatterWords
    BY Zenon, <2>1
  <2>3. msg_formatter(f) = <<Word(word)>>
    BY Zenon, <1>3 DEF msg_formatter
  <2> HIDE DEF word
  <2> QED BY <2>2, <2>3, WordSound, OneSound
<1>4. CASE n # 0 /\ f.head = HEX_MESSAGE
  <2>1. msg_formatter(f) = Hex(f.at + 1, shorter)
    BY Zenon, <1>4 DEF msg_formatter
  <2>2. /\ shorter \in 0..(n - 1)
        /\ shorter \in {n - 1, M - 1}
        /\ shorter = 0 => n - 1 = 0
    <3>1. n - 1 \in Nat /\ M - 1 \in Nat /\ 0 < M - 1 /\ M - 1 < M
      BY <1>1, <1>2, <1>4
    <3> QED BY <1>2, <3>1, CutBounds
  <2> HIDE DEF shorter
  <2>3. InBuffer(f.at + 1, shorter)
    BY <1>1, <1>4, <2>2 DEF InBuffer
  <2>4. /\ Sound(msg_formatter(f))
        /\ msg_formatter(f) = <<>> => shorter = 0 \/ 2 * shorter >= M
    BY <1>1, <2>1, <2>2, <2>3, HexSound
  <2>5. 2 * shorter >= M => 2 * n > M
    BY <1>1, <1>2, <2>2
  <2> QED BY <1>1, <1>4, <2>2, <2>4, <2>5
<1>5. CASE n # 0 /\ f.head # HEX_MESSAGE
  <2>1. msg_formatter(f) = Ascii(0, f.at, short)
    BY Zenon, <1>5 DEF msg_formatter
  <2>2. short \in 1..n /\ short < M
    BY <1>1, <1>2, <1>5, CutBounds
  <2> HIDE DEF short
  <2>3. InBuffer(f.at, short)
    BY <1>1, <1>5, <2>2 DEF InBuffer
  <2> QED BY <1>1, <1>2, <2>1, <2>2, <2>3, AsciiSound
<1> QED BY <1>3, <1>4, <1>5

\* A text of more than the size of the buffer is cut; one of its size is not.
LEMMA CutStringBounds ==
    ASSUME NEW n \in Nat
    PROVE  /\ CutString(n) \in 0..n
           /\ CutString(n) = 0 \/ CutString(n) >= MAX_FIELD_LEN
                => n \in {0, MAX_FIELD_LEN}
BY MaxFieldLenAssumption DEF CutString, Cut

LEMMA PropertyText ==
    ASSUME NEW f, Recorded(f, ctx.length), f.id = "NEM_STR_PROPERTY",
           ctx.length \in Nat
    PROVE  /\ Sound(property_formatter(f))
           /\ property_formatter(f) = <<>> => f.tail \in {0, MAX_FIELD_LEN}
<1> DEFINE m == CutString(f.tail)
           start == f.at + 4 + f.head + 4
<1>1. /\ f.at \in Nat /\ f.head \in Nat /\ f.tail \in Nat
      /\ f.at + f.length <= ctx.length
      /\ f.length = 4 + f.head + 4 + f.tail
  BY DEF Recorded, Field, Span, HasNoData, DataType, STACK, IsPair, Pair
<1>2. /\ m \in 0..f.tail
      /\ m = 0 \/ m >= MAX_FIELD_LEN => f.tail \in {0, MAX_FIELD_LEN}
  BY <1>1, CutStringBounds
<1>3. property_formatter(f) = Ascii(0, start, m)
  BY DEF property_formatter
<1>4. start \in Nat /\ start + f.tail <= ctx.length
  BY <1>1
<1> HIDE DEF m, start
<1>5. InBuffer(start, m)
  BY <1>1, <1>2, <1>4 DEF InBuffer
<1>6. /\ Sound(Ascii(0, start, m))
      /\ Ascii(0, start, m) = <<>> => m = 0 \/ m + 0 >= MAX_FIELD_LEN
  BY <1>1, <1>2, <1>4, <1>5, AsciiSound
<1> QED BY <1>1, <1>2, <1>3, <1>6

LEMMA CharsBounds ==
    ASSUME NEW start, NEW n \in Nat
    PROVE  Chars(start, n) \in 0..n
BY DEF Chars

\* The text of a pair holds the first name or the colon, so that it is never
\* empty.
LEMMA PairText ==
    ASSUME NEW f, Recorded(f, ctx.length), IsMosaicPair(f.id), ctx.length \in Nat
    PROVE  Sound(mosaic_pair(f)) /\ mosaic_pair(f) # <<>>
<1> DEFINE namespace == Ascii(0, f.at + 4, f.head)
           length    == IF namespace = <<>> THEN 0 ELSE Chars(f.at + 4, f.head)
           colon     == IF length + 2 < MAX_FIELD_LEN THEN <<Word(": ")>> ELSE <<>>
           pos       == IF colon = <<>> THEN length ELSE length + 2
           name      == Ascii(pos, f.at + 4 + f.head + 4, f.tail)
<1>1. /\ f.at \in Nat /\ f.head \in Nat /\ f.tail \in Nat
      /\ f.at + f.length <= ctx.length
      /\ f.length = 4 + f.head + 4 + f.tail
  BY DEF Recorded, Field, Span, HasNoData, DataType, STACK, IsPair, IsMosaicPair, Pair
<1>2. mosaic_pair(f) = (namespace \o colon) \o name
  BY Zenon DEF mosaic_pair
<1>3. /\ InBuffer(f.at + 4, f.head)
      /\ InBuffer(f.at + 4 + f.head + 4, f.tail)
  BY <1>1 DEF InBuffer
<1>4. Sound(namespace)
  BY <1>1, <1>3, AsciiSound
<1> HIDE DEF namespace
<1>5. Sound(colon) /\ (namespace = <<>> => colon # <<>>)
  <2> DEFINE mark == Word(": ")
  <2>1. ": " \in FormatterWords
    BY Zenon DEF FormatterWords, Texts, Marks
  <2>2. mark \in SoundPieces
    BY Zenon, <2>1, WordSound
  <2>3. colon = IF length + 2 < MAX_FIELD_LEN THEN <<mark>> ELSE <<>>
    BY Zenon
  <2> HIDE DEF mark, colon
  <2> QED BY <2>2, <2>3, OneSound, EmptySound, MaxFieldLenAssumption
<1> HIDE DEF colon
<1>6. pos \in Nat
  <2>1. Chars(f.at + 4, f.head) \in Nat
    BY <1>1, CharsBounds
  <2> QED BY <2>1
<1> HIDE DEF pos
<1>7. Sound(name)
  BY <1>1, <1>3, <1>6, AsciiSound
<1> HIDE DEF name
<1>8. Sound(namespace \o colon) /\ namespace \o colon # <<>>
  BY <1>4, <1>5, ConcatSound
<1> QED BY <1>2, <1>7, <1>8, ConcatSound

LEMMA StringText ==
    ASSUME NEW f, Recorded(f, ctx.length), DataType(f.id) = "STI_STR",
           ctx.length \in Nat
    PROVE  /\ Sound(string_formatter(f))
           /\ string_formatter(f) = <<>> => f.length \in {0, MAX_FIELD_LEN}
<1>1. CASE HasNoData(f.id)
  <2>1. /\ "namespace" \in FormatterWords
        /\ "Divisibility and levy cannot be shown" \in FormatterWords
    BY Zenon DEF FormatterWords, Texts, Marks
  <2>2. \E word \in FormatterWords : string_formatter(f) = <<Word(word)>>
    <3>1. /\ "NEM_STR_ROOT_NAMESPACE" # "NEM_MOSAIC_UNKNOWN_TYPE"
          /\ ~IsMosaicPair("NEM_STR_ROOT_NAMESPACE")
          /\ ~IsMosaicPair("NEM_MOSAIC_UNKNOWN_TYPE")
      BY DEF IsMosaicPair
    <3>2. f.id = "NEM_MOSAIC_UNKNOWN_TYPE" =>
             string_formatter(f) = <<Word("Divisibility and levy cannot be shown")>>
      BY Zenon, <3>1 DEF string_formatter
    <3>3. f.id = "NEM_STR_ROOT_NAMESPACE" => string_formatter(f) = <<Word("namespace")>>
      BY Zenon, <3>1 DEF string_formatter
    <3> QED BY Zenon, <1>1, <2>1, <3>2, <3>3 DEF HasNoData
  <2> QED BY <2>2, WordSound, OneSound
<1>2. CASE IsMosaicPair(f.id)
  <2>1. string_formatter(f) = mosaic_pair(f)
    BY Zenon, <1>2 DEF string_formatter, IsMosaicPair
  <2> QED BY <1>2, <2>1, PairText
<1>3. CASE ~HasNoData(f.id) /\ ~IsMosaicPair(f.id)
  <2> DEFINE m == CutString(f.length)
  <2>1. /\ f.at \in Nat /\ f.length \in Nat /\ f.at + f.length <= ctx.length
    BY <1>3 DEF Recorded, Field, Span, STACK
  <2>2. /\ m \in 0..f.length
        /\ m = 0 \/ m >= MAX_FIELD_LEN => f.length \in {0, MAX_FIELD_LEN}
    BY <2>1, CutStringBounds
  <2>3. string_formatter(f) = Ascii(0, f.at, m)
    BY Zenon, <1>3 DEF string_formatter, HasNoData
  <2> HIDE DEF m
  <2>4. InBuffer(f.at, m)
    BY <2>1, <2>2 DEF InBuffer
  <2>5. /\ Sound(Ascii(0, f.at, m))
        /\ Ascii(0, f.at, m) = <<>> => m = 0 \/ m + 0 >= MAX_FIELD_LEN
    BY <2>1, <2>2, <2>4, AsciiSound
  <2> QED BY <2>1, <2>2, <2>3, <2>5
<1> QED BY <1>1, <1>2, <1>3

-----------------------------------------------------------------------------
(* A whole field *)

\* The value of a recorded field is a sound text, or blank where it may be.
LEMMA ValueOfField ==
    ASSUME NEW f, Recorded(f, ctx.length), ctx.length \in Nat
    PROVE  \/ Sound(format_field(f, TRUE))
           \/ format_field(f, TRUE) = Blank /\ BlankAtLimit(f)
<1> DEFINE value == format_field(f, TRUE)
           Shows(text) == value = IF text = <<>> THEN Blank ELSE text
<1>1. CASE DataType(f.id) = "STI_UINT32"
  <2>1. Shows(uint32_formatter(f))
    BY Zenon, <1>1 DEF format_field
  <2>2. f.head \notin {1, 2} => BlankAtLimit(f)
    BY Zenon, <1>1 DEF BlankAtLimit
  <2> QED BY Zenon, <1>1, <2>1, <2>2, Uint32Text
<1>2. CASE DataType(f.id) = "STI_HASH256"
  <2>1. Shows(Hex(f.at, f.length))
    BY Zenon, <1>2 DEF format_field
  <2>2. f.length = 0 => BlankAtLimit(f)
    BY Zenon, <1>2 DEF BlankAtLimit
  <2> QED BY Zenon, <1>2, <2>1, <2>2, HashText
<1>3. CASE DataType(f.id) = "STI_ADDRESS"
  <2>1. Shows(address_formatter(f, TRUE))
    BY Zenon, <1>3 DEF format_field
  <2>2. f.length = 0 => BlankAtLimit(f)
    BY Zenon, <1>3 DEF BlankAtLimit
  <2> QED BY Zenon, <1>3, <2>1, <2>2, AddressText
<1>4. CASE DataType(f.id) = "STI_MOSAIC_CURRENCY"
  <2>1. Shows(mosaic_formatter(f))
    BY Zenon, <1>4 DEF format_field
  <2> QED BY Zenon, <1>4, <2>1, MosaicText
<1>5. CASE DataType(f.id) = "STI_NEM"
  <2>1. Shows(nem_formatter(f))
    BY Zenon, <1>5 DEF format_field
  <2> QED BY Zenon, <1>5, <2>1, NemText
<1>6. CASE DataType(f.id) = "STI_MESSAGE"
  <2>1. Shows(msg_formatter(f))
    BY Zenon, <1>6 DEF format_field
  <2>2. f.head = HEX_MESSAGE /\ (f.length = 1 \/ 2 * f.length > MAX_FIELD_LEN)
          => BlankAtLimit(f)
    BY Zenon, <1>6 DEF BlankAtLimit
  <2> QED BY Zenon, <1>6, <2>1, <2>2, MessageText
<1>7. CASE DataType(f.id) = "STI_STR"
  <2>1. Shows(string_formatter(f))
    BY Zenon, <1>7 DEF format_field
  <2>2. f.length \in {0, MAX_FIELD_LEN} => BlankAtLimit(f)
    BY Zenon, <1>7 DEF BlankAtLimit
  <2> QED BY Zenon, <1>7, <2>1, <2>2, StringText
<1>8. CASE DataType(f.id) = "STI_PROPERTY"
  <2>1. Shows(property_formatter(f))
    BY Zenon, <1>8 DEF format_field
  <2>2. f.tail \in {0, MAX_FIELD_LEN} => BlankAtLimit(f)
    BY Zenon, <1>8 DEF BlankAtLimit
  <2>3. f.id = "NEM_STR_PROPERTY"
    BY <1>8 DEF DataType
  <2> QED BY Zenon, <2>1, <2>2, <2>3, PropertyText
<1>9. DataType(f.id) \in {"STI_UINT32", "STI_HASH256", "STI_ADDRESS",
                         "STI_MOSAIC_CURRENCY", "STI_NEM", "STI_MESSAGE",
                         "STI_STR", "STI_PROPERTY"}
  BY DEF Recorded, DataType
<1> QED BY <1>1, <1>2, <1>3, <1>4, <1>5, <1>6, <1>7, <1>8, <1>9

LEMMA FieldBlankAtLimit ==
    ASSUME NEW f, Recorded(f, ctx.length), ctx.length \in Nat,
           format_field(f, TRUE) = Blank
    PROVE  BlankAtLimit(f)
<1>1. " " \in Marks
  BY Zenon DEF Marks
<1>2. ~Sound(Blank)
  BY Zenon, <1>1, SoundIsNoMark DEF Blank
<1> QED BY Zenon, <1>2, ValueOfField

\* Every id of a type has its label under that type.
LEMMA LabelFound ==
    ASSUME NEW id, DataType(id) # "none", id # "NEM_STR_PROPERTY"
    PROVE  /\ DataType(id) # "STI_PROPERTY"
           /\ DataType(id) \in DOMAIN Labels
           /\ id \in DOMAIN Labels[DataType(id)]
BY DEF DataType, Labels

LEMMA LabelKnown ==
    ASSUME NEW id, DataType(id) # "none", id # "NEM_STR_PROPERTY"
    PROVE  Labels[DataType(id)][id] # "Unknown Field"
<1> DEFINE type == DataType(id)
           Known(label) == label # "Unknown Field"
<1>1. CASE type = "STI_UINT32"
  <2>1. /\ Known(Labels.STI_UINT32.NEM_UINT32_TRANSACTION_TYPE)
        /\ Known(Labels.STI_UINT32.NEM_UINT32_INNER_TRANSACTION_TYPE)
        /\ Known(Labels.STI_UINT32.NEM_UINT32_DETAIL_TRANSACTION_TYPE)
        /\ Known(Labels.STI_UINT32.NEM_UINT32_MOSAIC_COUNT)
        /\ Known(Labels.STI_UINT32.NEM_UINT32_IT_MODE)
        /\ Known(Labels.STI_UINT32.NEM_UINT32_AM_COSIGNATORY_NUM)
        /\ Known(Labels.STI_UINT32.NEM_UINT32_AM_MODICATION_TYPE)
        /\ Known(Labels.STI_UINT32.NEM_UINT32_AM_RELATIVE_CHANGE)
        /\ Known(Labels.STI_UINT32.NEM_UINT32_LEVY_FEE_TYPE)
    BY Zenon DEF Labels
  <2> QED BY <1>1, <2>1 DEF DataType
<1>2. CASE type = "STI_ADDRESS"
  <2>1. /\ Known(Labels.STI_ADDRESS.NEM_STR_RECIPIENT_ADDRESS)
        /\ Known(Labels.STI_ADDRESS.NEM_STR_MULTISIG_ADDRESS)
        /\ Known(Labels.STI_ADDRESS.NEM_STR_SINK_ADDRESS)
        /\ Known(Labels.STI_ADDRESS.NEM_STR_LEVY_ADDRESS)
        /\ Known(Labels.STI_ADDRESS.NEM_PUBLICKEY_IT_REMOTE)
        /\ Known(Labels.STI_ADDRESS.NEM_PUBLICKEY_AM_COSIGNATORY)
    BY Zenon DEF Labels
  <2> QED BY <1>2, <2>1 DEF DataType
<1>3. CASE type = "STI_MOSAIC_CURRENCY"
  <2>1. /\ Known(Labels.STI_MOSAIC_CURRENCY.NEM_MOSAIC_UNITS)
        /\ Known(Labels.STI_MOSAIC_CURRENCY.NEM_MOSAIC_DELETE_SUPPLY_DELTA)
        /\ Known(Labels.STI_MOSAIC_CURRENCY.NEM_MOSAIC_CREATE_SUPPLY_DELTA)
    BY Zenon DEF Labels
  <2> QED BY <1>3, <2>1 DEF DataType
<1>4. CASE type = "STI_NEM"
  <2>1. /\ Known(Labels.STI_NEM.NEM_UINT64_TXN_FEE)
        /\ Known(Labels.STI_NEM.NEM_UINT64_RENTAL_FEE)
        /\ Known(Labels.STI_NEM.NEM_MOSAIC_AMOUNT)
        /\ Known(Labels.STI_NEM.NEM_UINT64_LEVY_FEE)
        /\ Known(Labels.STI_NEM.NEM_UINT64_MULTISIG_FEE)
    BY Zenon DEF Labels
  <2> QED BY <1>4, <2>1 DEF DataType
<1>5. CASE type = "STI_MESSAGE"
  <2>1. /\ Known(Labels.STI_MESSAGE.NEM_STR_TXN_MESSAGE)
        /\ Known(Labels.STI_MESSAGE.NEM_STR_ENC_MESSAGE)
    BY Zenon DEF Labels
  <2> QED BY <1>5, <2>1 DEF DataType
<1>6. CASE type = "STI_STR"
  <2>1. /\ Known(Labels.STI_STR.NEM_MOSAIC_UNKNOWN_TYPE)
        /\ Known(Labels.STI_STR.NEM_STR_TRANSFER_MOSAIC)
        /\ Known(Labels.STI_STR.NEM_STR_NAMESPACE)
        /\ Known(Labels.STI_STR.NEM_STR_PARENT_NAMESPACE)
        /\ Known(Labels.STI_STR.NEM_STR_ROOT_NAMESPACE)
        /\ Known(Labels.STI_STR.NEM_STR_MOSAIC)
        /\ Known(Labels.STI_STR.NEM_STR_DESCRIPTION)
        /\ Known(Labels.STI_STR.NEM_STR_LEVY_MOSAIC)
    BY Zenon DEF Labels
  <2> QED BY <1>6, <2>1 DEF DataType
<1>7. CASE type = "STI_HASH256"
  <2>1. /\ Known(Labels.STI_HASH256.NEM_HASH256)
    BY Zenon DEF Labels
  <2> QED BY <1>7, <2>1 DEF DataType
<1>8. type \in {"STI_UINT32", "STI_ADDRESS", "STI_MOSAIC_CURRENCY", "STI_NEM",
              "STI_MESSAGE", "STI_STR", "STI_HASH256"}
  BY DEF DataType
<1> QED BY Zenon, <1>1, <1>2, <1>3, <1>4, <1>5, <1>6, <1>7, <1>8

LEMMA FieldIsLabelled ==
    ASSUME NEW f, Recorded(f, ctx.length), ctx.length \in Nat
    PROVE  HasLabelAndFormatter(f)
<1> DEFINE label == resolve_fieldname(f, Word(""))
<1>1. label # Word("Unknown Field")
  <2>1. CASE f.id = "NEM_STR_PROPERTY"
    <3>1. DataType(f.id) = "STI_PROPERTY"
      BY <2>1 DEF DataType
    <3>2. label \in {Shown("ascii", f.at + 4, f.head), Word("")}
      BY Zenon, <3>1 DEF resolve_fieldname
    <3>3. Shown("ascii", f.at + 4, f.head) # Word("Unknown Field")
      BY Zenon, FormTells
    <3>4. Word("") # Word("Unknown Field")
      BY Zenon, FormTells
    <3> QED BY Zenon, <3>2, <3>3, <3>4
  <2>2. CASE f.id # "NEM_STR_PROPERTY"
    <3>1. label = Word(Labels[DataType(f.id)][f.id])
      BY Zenon, <2>2, LabelFound DEF resolve_fieldname, Recorded
    <3>2. Labels[DataType(f.id)][f.id] # "Unknown Field"
      BY Zenon, <2>2, LabelKnown DEF Recorded
    <3> QED BY Zenon, <3>1, <3>2, FormTells
  <2> QED BY Zenon, <2>1, <2>2
<1>2. format_field(f, TRUE) # <<Word("[Not implemented]")>>
  <2>1. "[Not implemented]" \in Marks
    BY Zenon DEF Marks
  <2>2. Blank # <<Word("[Not implemented]")>>
    <3>1. Word(" ") # Word("[Not implemented]")
      BY Zenon, FormTells
    <3>2. \A v, w : <<v>> = <<w>> => v = w
      OBVIOUS
    <3> QED BY Zenon, <3>1, <3>2 DEF Blank
  <2> QED BY Zenon, <2>1, <2>2, ValueOfField, SoundIsNoMark
<1> QED BY Zenon, <1>1, <1>2 DEF HasLabelAndFormatter

\* A quantity is shown in its unit.
LEMMA FieldInItsUnit ==
    ASSUME NEW f, Recorded(f, ctx.length)
    PROVE  InItsUnit(f)
<1> DEFINE value == format_field(f, TRUE)
           token == Shown("token", f.at, 8)
<1>1. \A text : text # <<>> => (IF text = <<>> THEN Blank ELSE text) = text
  OBVIOUS
<1>2. f.id \in NemIds => value = nem_formatter(f)
  <2> SUFFICES ASSUME f.id \in NemIds PROVE value = nem_formatter(f)
    OBVIOUS
  <2>1. DataType(f.id) = "STI_NEM"
    BY DEF DataType
  <2>2. value = IF nem_formatter(f) = <<>> THEN Blank ELSE nem_formatter(f)
    BY Zenon, <2>1 DEF format_field
  <2> QED BY Zenon, <1>1, <2>1, <2>2, NemText
<1>3. ASSUME f.id \in MicroXemIds
      PROVE  value = <<token, Word("XEM")>>
  <2>1. f.id \in NemIds /\ f.id # "NEM_UINT64_LEVY_FEE"
    BY <1>3 DEF MicroXemIds
  <2> QED BY Zenon, <1>2, <2>1 DEF nem_formatter
<1>4. ASSUME f.id \in UnitIds
      PROVE  value = <<Shown("number", f.at, 8)>>
  <2>1. DataType(f.id) = "STI_MOSAIC_CURRENCY"
    BY <1>4 DEF UnitIds, DataType
  <2>2. value = IF mosaic_formatter(f) = <<>> THEN Blank ELSE mosaic_formatter(f)
    BY Zenon, <2>1 DEF format_field
  <2>3. f.at \in Int /\ f.length = 8
    BY <2>1 DEF Recorded, Field, STACK
  <2>4. f.at + f.length - 8 = f.at
    BY <2>3
  <2>5. mosaic_formatter(f) = <<Shown("number", f.at, 8)>>
    BY <2>4 DEF mosaic_formatter
  <2> QED BY Zenon, <1>1, <2>1, <2>2, <2>5, MosaicText
<1>5. ASSUME f.id = "NEM_UINT64_LEVY_FEE"
      PROVE  Word("XEM") \notin Range(value)
  <2>1. value = <<token, Word("micro")>>
    BY Zenon, <1>2, <1>5 DEF nem_formatter
  <2>2. token # Word("XEM") /\ Word("micro") # Word("XEM")
    BY FormTells
  <2>3. \A v, w : Range(<<v, w>>) = {v, w}
    BY DEF Range
  <2> HIDE DEF token, value
  <2> QED BY <2>1, <2>2, <2>3
<1> QED BY <1>3, <1>4, <1>5 DEF InItsUnit

\* A label is a word, or the name of a property.
LEMMA LabelInBuffer ==
    ASSUME NEW f, Recorded(f, ctx.length), ctx.length \in Nat
    PROVE  /\ resolve_fieldname(f, Word("")) \in Piece
           /\ LET label == resolve_fieldname(f, Word(""))
              IN  InBuffer(label.at, label.n)
<1> DEFINE label == resolve_fieldname(f, Word(""))
<1>1. \A w \in Texts : Word(w) \in Piece
  BY DEF Word, Piece
<1>2. \A w : InBuffer(Word(w).at, Word(w).n)
  BY PieceParts DEF InBuffer
<1>3. CASE f.id = "NEM_STR_PROPERTY"
  <2>1. DataType(f.id) = "STI_PROPERTY"
    BY <1>3 DEF DataType
  <2>2. "" \in Texts
    BY Zenon DEF Texts
  <2>3. label \in {Shown("ascii", f.at + 4, f.head), Word("")}
    BY Zenon, <2>1 DEF resolve_fieldname
  <2>4. /\ f.at \in Nat /\ f.head \in Nat /\ f.tail \in Nat
        /\ f.at + f.length <= ctx.length
        /\ f.length = 4 + f.head + 4 + f.tail
    BY <1>3 DEF Recorded, Field, Span, HasNoData, DataType, STACK, IsPair, Pair
  <2>5. InBuffer(f.at + 4, f.head)
    BY <2>4 DEF InBuffer
  <2>6. Shown("ascii", f.at + 4, f.head) \in SoundPieces
    BY <2>4, <2>5, ShownSound DEF Forms
  <2> QED BY Zenon, <1>1, <1>2, <2>2, <2>3, <2>6 DEF SoundPieces
<1>4. CASE f.id # "NEM_STR_PROPERTY"
  <2>1. label = Word(Labels[DataType(f.id)][f.id])
    BY Zenon, <1>4, LabelFound DEF resolve_fieldname, Recorded
  <2>2. /\ DataType(f.id) \in DOMAIN Labels
        /\ f.id \in DOMAIN Labels[DataType(f.id)]
    BY Zenon, <1>4, LabelFound DEF Recorded
  <2>3. Labels[DataType(f.id)][f.id] \in Range(Labels[DataType(f.id)])
    BY Zenon, <2>2 DEF Range
  <2>4. Labels[DataType(f.id)][f.id] \in Texts
    BY Zenon, <2>2, <2>3 DEF Texts
  <2> QED BY Zenon, <1>1, <1>2, <2>1, <2>4
<1> QED BY Zenon, <1>3, <1>4

LEMMA PrefixInBuffer ==
    ASSUME NEW f, Recorded(f, ctx.length), ctx.length \in Nat
    PROVE  InBuffer(f.at, Prefix(f))
BY DEF Recorded, Field, Span, HasNoData, DataType, STACK, IsPair, IsMosaicPair, Pair,
       Prefix, InBuffer

LEMMA FieldReadsInBuffer ==
    ASSUME NEW f, Recorded(f, ctx.length), ctx.length \in Nat
    PROVE  ReadsInBuffer(f)
<1> DEFINE label == resolve_fieldname(f, Word(""))
           value == format_field(f, TRUE)
           Good  == {p \in Piece : InBuffer(p.at, p.n)}
<1>1. label \in Good
  BY Zenon, LabelInBuffer
<1>2. value \in Seq(Good)
  <2>1. SoundPieces \subseteq Good
    BY Zenon DEF SoundPieces
  <2>2. " " \in Texts
    BY Zenon DEF Texts
  <2>3. \A w \in Texts : Word(w) \in Piece
    BY DEF Word, Piece
  <2>4. \A w : InBuffer(Word(w).at, Word(w).n)
    BY PieceParts DEF InBuffer
  <2>5. Word(" ") \in Good
    BY Zenon, <2>2, <2>3, <2>4
  <2> HIDE DEF Good, value
  <2>6. \A p \in Good : <<p>> \in Seq(Good)
    OBVIOUS
  <2>7. Blank \in Seq(Good)
    BY Zenon, <2>5, <2>6 DEF Blank
  <2>8. \A text : Sound(text) => text \in Seq(Good)
    BY <2>1 DEF Sound
  <2> QED BY Zenon, <2>7, <2>8, ValueOfField DEF value
<1> HIDE DEF label, value
<1>3. Append(value, label) \in Seq(Good)
  <2> HIDE DEF Good
  <2> QED BY <1>1, <1>2
<1>4. \A p \in Range(Append(value, label)) : p \in Good
  <2> HIDE DEF Good
  <2> QED BY <1>3 DEF Range
<1> QED BY Zenon, <1>4, PrefixInBuffer DEF ReadsInBuffer, label, value
=============================================================================
