-------------------------- MODULE PrinterProperties --------------------------
(* What a reader makes of the texts of Printers: of a number, and of bytes. *)
EXTENDS Printers

CONSTANT TextSizes   \* sizes of the buffers

ASSUME TextSizesAssumption == TextSizes \subseteq Nat \ {0}

VARIABLES number, data   \* what is printed

-----------------------------------------------------------------------------
(* Numbers *)

DigitsOf(text) == Range(text) \subseteq ZERO..(ZERO + 9)

\* The number that decimal digits stand for.
Reading(text) == FoldLeft(LAMBDA n, c : 10 * n + (c - ZERO), 0, text)

\* Decimal digits without zeros that say nothing.
IsNumeral(text) == /\ text # <<>> /\ DigitsOf(text)
                   /\ Len(text) > 1 => text[1] # ZERO

tens[n \in Nat] == IF n = 0 THEN 1 ELSE 10 * tens[n - 1]

\* A number is printed whole or not at all: never its first digits alone
\* (printers.c:32).
NumberReadsBack ==
    \A size \in TextSizes :
        LET printed == snprintf_number(size, number)
        IN  /\ printed.ok => /\ IsNumeral(printed.text)
                             /\ Reading(printed.text) = number
                             /\ Len(printed.text) < size
            /\ ~printed.ok => size = 1 \/ number >= tens[Min({size - 1, 9})]

XEM == <<88, 69, 77>>
DIVISIBILITY == 6
ROOM == 40   \* more than any amount takes

\* An amount in micro XEM reads as what will be paid: whole XEM, and after a
\* point the rest without zeros at its end, and its token; with no room for the
\* token the number alone.  A point at the wrong digit would be an amount a
\* million times larger (printers.c:46).  A buffer has room for the point, even
\* if no digit follows: without it the zeros of the whole XEM would be taken for
\* zeros of the rest (printers.c:79).
TokenIsAmount ==
    LET amount == snprintf_token(ROOM, number, DIVISIBILITY, <<>>)
        text   == Front(amount)
        points == {i \in DOMAIN text : text[i] = DOT}
        whole  == IF points = {} THEN text ELSE SubSeq(text, 1, Min(points) - 1)
        rest   == SubSeq(text, Len(whole) + 2, Len(text))
        zeros  == [i \in 1..(DIVISIBILITY - Len(rest)) |-> ZERO]
    IN  /\ IsNumeral(whole)
        /\ points # {} => DigitsOf(rest) /\ rest # <<>> /\ Last(rest) # ZERO
        /\ Len(rest) <= DIVISIBILITY
        /\ Reading(whole \o rest \o zeros) = number
        /\ \A size \in TextSizes :
              size > Len(text) /\ size > Len(whole) + 1 =>
                  snprintf_token(size, number, DIVISIBILITY, XEM) =
                      IF Len(text) + 4 < size THEN text \o <<SPACE>> \o XEM ELSE text

-----------------------------------------------------------------------------
(* Bytes *)

\* How many bytes of the data, up to place i, are not printable in a row.
RunTo(i) == i - Max({0} \cup {j \in 1..i : Printable(data[j])})

\* The places of the bytes that have a character of their own.
Kept == {i \in DOMAIN data : Printable(data[i]) \/ RunTo(i) % 2 = 1}

\* A text from bytes that need not be text: every printable byte is there, in
\* order; other bytes in a row show as one '?' for two of them, a row begins
\* with one, and nothing passes the end of the buffer (printers.c:132).
AsciiKeepsPrintable ==
    \A size \in TextSizes :
        LET text    == snprintf_ascii(XEM, 2, size, data)
            place(i) == 2 + Cardinality({j \in Kept : j <= i})
        IN  IF data = <<>> \/ Len(data) + 2 >= size THEN text = XEM
            ELSE /\ Len(text) = 2 + Cardinality(Kept)
                 /\ SubSeq(text, 1, 2) = SubSeq(XEM, 1, 2)
                 /\ \A i \in Kept : text[place(i)] = IF Printable(data[i]) THEN data[i]
                                                     ELSE QUESTION

HexDigit(c) == CASE c \in 48..57 -> c - 48 [] c \in 65..70 -> c - 55
                 [] c \in 97..102 -> c - 87

\* The bytes that pairs of digits stand for.
HexBytes(text) == [i \in 1..(Len(text) \div 2) |->
                      16 * HexDigit(text[2 * i - 1]) + HexDigit(text[2 * i])]

\* Two digits a byte read back as the bytes, in their order or reversed, and
\* both printers agree when there is no room (printers.c:109).
HexReadsBack ==
    \A size \in TextSizes, reverse \in BOOLEAN :
        LET upper == snprintf_hex(size, data, reverse)
            lower == snprintf_hex2ascii(size, data)
        IN  /\ upper.ok = lower.ok
            /\ upper.ok => /\ Len(upper.text) < size /\ Len(lower.text) < size
                           /\ HexBytes(lower.text) = data
                           /\ HexBytes(upper.text) = IF reverse THEN Reverse(data)
                                                     ELSE data

\* Bit i of numbers of `width` bits in a row, from the left.
Bit(numbers, width, i) ==
    (numbers[(i \div width) + 1] \div 2^(width - 1 - (i % width))) % 2

\* The characters hold the bits of the data, then zeros to the end of a
\* character, then pads to a multiple of eight; when they and the terminator do
\* not fit, there is an error and never a part of them (base32.c:67).  An
\* address takes the whole of its 41 bytes, where one off would be an error.
Base32Decodes ==
    \A size \in TextSizes :
        LET encoded    == base32_encode(data, size)
            bits       == 8 * Len(data)
            characters == (bits + 4) \div 5
            length     == 8 * ((bits + 39) \div 40)
        IN  /\ encoded.ok = (length < size)
            /\ encoded.ok =>
                  /\ Len(encoded.text) = length
                  /\ \A i \in 1..length : encoded.text[i] = PAD <=> i > characters
                  /\ \A i \in 0..(5 * characters - 1) :
                        Bit(encoded.text, 5, i) =
                            IF i < bits THEN Bit(data, 8, i) ELSE 0
=============================================================================
