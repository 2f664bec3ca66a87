------------------------------ MODULE Printers ------------------------------
(* The functions that turn data into text, as functions of their arguments.
   A text is a sequence of character codes without its terminator; `maxLen` is
   the size of the buffer it goes to.  Each loop of the code is a recursive
   function of the variables that the loop changes, or a fold. *)
EXTENDS Integers, Sequences, SequencesExt

Code == 0..255
Text == Seq(Code)

ZERO == 48
SPACE == 32
DOT == 46
QUESTION == 63
Printable(c) == c \in 32..126

\* A function returns an error and writes nothing, or returns a text.
Failure       == [ok |-> FALSE, text |-> <<>>]
Written(text) == [ok |-> TRUE, text |-> text]

-----------------------------------------------------------------------------
(* Numbers *)

\* The digits of `value`, one at least.
decimal[value \in Nat] ==
    LET digit == ZERO + (value % 10)
    IN  IF value < 10 THEN <<digit>> ELSE Append(decimal[value \div 10], digit)

\* Mutant: the terminator has no room.
snprintf_number_tight(maxLen, value) ==
    IF Len(decimal[value]) > maxLen THEN Failure ELSE Written(decimal[value])

snprintf_number(maxLen, value) ==
    IF Len(decimal[value]) > maxLen - 1 THEN Failure ELSE Written(decimal[value])

\* Mutant: no zero before the point.
decimal_point_bare(rest) == <<DOT>>

\* The point, with a zero before it when no digit is left.
decimal_point(rest) == IF rest = 0 THEN <<DOT, ZERO>> ELSE <<DOT>>

\* The first loop of snprintf_token: digits from the last to the first, with
\* the point after `divisibility` of them; at least 7 characters are made.
token_digits(value, divisibility) ==
    LET atLeast == IF divisibility = 0 THEN 1 ELSE 7
        loop[s \in [dVal: Nat, buffer: Text]] ==
            IF s.dVal = 0 /\ Len(s.buffer) >= atLeast THEN s.buffer
            ELSE LET digits == Append(s.buffer, ZERO + (s.dVal % 10))
                     rest   == s.dVal \div 10
                 IN  loop[[dVal   |-> rest,
                           buffer |-> IF Len(s.buffer) # divisibility - 1 THEN digits
                                      ELSE digits \o decimal_point(rest)]]
    IN  loop[[dVal |-> value, buffer |-> <<>>]]

\* The last position, but never the first one, that is not a zero.
strip_zeros(dst) ==
    SubSeq(dst, 1, CHOOSE j \in DOMAIN dst :
                      /\ j = 1 \/ dst[j] # ZERO
                      /\ \A k \in DOMAIN dst : k > j => dst[k] = ZERO)

strip_point(dst) == IF Last(dst) = DOT THEN Front(dst) ELSE dst

\* The amount with its token; the token only when both fit.
snprintf_token(maxLen, amount, divisibility, token) ==
    LET reversed == Reverse(token_digits(amount, divisibility))
        kept     == SubSeq(reversed, 1, Min({maxLen - 1, Len(reversed)}))
        dst      == strip_point(IF divisibility = 0 THEN kept ELSE strip_zeros(kept))
    IN  IF Len(dst) + Len(token) + 1 < maxLen THEN dst \o <<SPACE>> \o token ELSE dst

-----------------------------------------------------------------------------
(* Bytes *)

\* `n` bytes of text go to `pos` in a buffer of `max`, or nothing is written.
\* The sum does not wrap: n is at most the length of a transaction.
AsciiFits(pos, n, max) == n >= 1 /\ n + pos <= max - 1

HexFits(n, max) == n >= 1 /\ 2 * n <= max - 1

\* Mutant: a printable byte does not end a run of others.
ascii_byte_forgetful(s, c) ==
    IF Printable(c) THEN [s EXCEPT !.text = Append(@, c)]
    ELSE [k |-> 1 - s.k, text |-> IF s.k = 0 THEN Append(s.text, QUESTION) ELSE s.text]

\* Of bytes that cannot be printed every first of two becomes a '?'.
ascii_byte(s, c) ==
    IF Printable(c) THEN [k |-> 0, text |-> Append(s.text, c)]
    ELSE [k |-> 1 - s.k, text |-> IF s.k = 0 THEN Append(s.text, QUESTION) ELSE s.text]

snprintf_ascii(dst, pos, maxLen, src) ==
    IF ~AsciiFits(pos, Len(src), maxLen) THEN dst
    ELSE SubSeq(dst, 1, pos) \o
         FoldLeft(ascii_byte, [k |-> 0, text |-> <<>>], src).text

\* Mutant: the digits swapped.
hex_byte_swapped(byte, letter) ==
    LET digit(n) == IF n > 9 THEN n - 10 + letter ELSE n + ZERO
    IN  <<digit(byte % 16), digit(byte \div 16)>>

\* Two digits, with `letter` for ten.
hex_byte(byte, letter) ==
    LET digit(n) == IF n > 9 THEN n - 10 + letter ELSE n + ZERO
    IN  <<digit(byte \div 16), digit(byte % 16)>>

hex_text(src, letter) == FoldLeft(LAMBDA t, b : t \o hex_byte(b, letter), <<>>, src)

snprintf_hex(maxLen, src, reverse) ==
    IF HexFits(Len(src), maxLen)
      THEN Written(hex_text(IF reverse THEN Reverse(src) ELSE src, 65))
      ELSE Failure

snprintf_hex2ascii(maxLen, src) ==
    IF HexFits(Len(src), maxLen) THEN Written(hex_text(src, 97)) ELSE Failure

-----------------------------------------------------------------------------
(* base32_encode.  A character is its place in the alphabet. *)

PAD == 32

\* `buffer` takes in 8 bits at a time and is never masked.  Its higher bits,
\* which a signed int loses to an overflow, are not looked at: 12 are enough,
\* and 16 are kept.
INT == 65536

\* Mutant: the last bits stay at the right.
base32_fill_unpadded(s, data) ==
    IF s.bitsLeft >= 5 THEN s
    ELSE IF s.next < Len(data)
      THEN [s EXCEPT !.buffer = (@ * 256 + data[s.next + 1]) % INT,
                     !.next = @ + 1, !.bitsLeft = @ + 8]
    ELSE [s EXCEPT !.bitsLeft = 5]

\* The next byte, or zeros after the last one.
base32_fill(s, data) ==
    IF s.bitsLeft >= 5 THEN s
    ELSE IF s.next < Len(data)
      THEN [s EXCEPT !.buffer = (@ * 256 + data[s.next + 1]) % INT,
                     !.next = @ + 1, !.bitsLeft = @ + 8]
    ELSE [s EXCEPT !.buffer = (@ * 2^(5 - s.bitsLeft)) % INT, !.bitsLeft = 5]

base32_character(s) ==
    [s EXCEPT !.result = Append(@, (s.buffer \div 2^(s.bitsLeft - 5)) % 32),
              !.bitsLeft = @ - 5]

Encoder == [buffer: 0..(INT - 1), next: Nat, bitsLeft: 0..8, result: Text]

base32_characters(data, bufSize) ==
    LET loop[s \in Encoder] ==
            IF Len(s.result) < bufSize /\ (s.bitsLeft > 0 \/ s.next < Len(data))
              THEN loop[base32_character(base32_fill(s, data))]
              ELSE s.result
    IN  IF data = <<>> THEN <<>>
        ELSE loop[[buffer |-> data[1], next |-> 1, bitsLeft |-> 8, result |-> <<>>]]

\* To a multiple of 8 characters, as far as there is room.
base32_pad(text, bufSize) ==
    text \o [i \in 1..Min({(-Len(text)) % 8, bufSize - Len(text)}) |-> PAD]

base32_encode(data, bufSize) ==
    LET text == base32_pad(base32_characters(data, bufSize), bufSize)
    IN  IF Len(text) < bufSize THEN Written(text) ELSE Failure
=============================================================================
