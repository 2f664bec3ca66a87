----------------------------- MODULE MCFunctions -----------------------------
(* The program's pure functions on small inputs.  Printers: numbers that grow
   digit by digit, bytes that grow byte by byte, the 25 bytes of an address.
   Aes: every byte, columns of a few bytes, and keys. *)
EXTENDS PrinterProperties, Aes

CONSTANTS
    Digits,     \* digits that a number grows by
    MaxNumber,  \* bound: numbers to print
    Bytes,      \* bytes that the data grows by
    MaxBytes,   \* bound: length of the data
    KeySteps    \* what the bytes of a key, a vector or a block differ by

ASSUME InputsAssumption == Digits \subseteq 0..9 /\ Bytes \subseteq Code
ASSUME BoundsAssumption == MaxNumber \in Nat /\ MaxBytes \in Nat
ASSUME KeyStepsAssumption == KeySteps \subseteq Byte

VARIABLE cipherInput   \* what is enciphered: a byte, a column, or an HMAC and a text

vars == <<number, data, cipherInput>>

Init == number = 0 /\ data = <<>> /\ cipherInput = <<>>

NextDigit ==
    /\ data = <<>> /\ cipherInput = <<>>
    /\ \E digit \in Digits : /\ number' = 10 * number + digit
                             /\ number' <= MaxNumber
    /\ UNCHANGED <<data, cipherInput>>

NextByte ==
    /\ number = 0 /\ cipherInput = <<>>
    /\ Len(data) < MaxBytes
    /\ \E byte \in Bytes : data' = Append(data, byte)
    /\ UNCHANGED <<number, cipherInput>>

\* The bytes of an address: two bytes by turns.
ADDRESS == 25

Address ==
    /\ number = 0 /\ data = <<>> /\ cipherInput = <<>>
    /\ \E even, odd \in Bytes :
          data' = [i \in 1..ADDRESS |-> IF i % 2 = 0 THEN even ELSE odd]
    /\ UNCHANGED <<number, cipherInput>>

\* One byte or four, or an HMAC of 64 bytes and a text.
CipherInputs ==
    {<<byte>> : byte \in Byte} \cup [1..4 -> Bytes] \cup
    {<<[i \in 1..64 |-> (i * step + i \div 16) % 256], [i \in 1..length |-> 48]>> :
        step \in KeySteps, length \in {0, 20, 64}}

Encipher ==
    /\ number = 0 /\ data = <<>> /\ cipherInput = <<>>
    /\ cipherInput' \in CipherInputs
    /\ UNCHANGED <<number, data>>

Next == NextDigit \/ NextByte \/ Address \/ Encipher

Spec == Init /\ [][Next]_vars

-----------------------------------------------------------------------------
(* What AES is (FIPS 197, SP 800-38A): the field of polynomials over bits modulo
   x^8 + x^4 + x^3 + x + 1, its tables from inverses, known answers *)

BitOf(x, i) == (x \div 2^i) % 2

\* The remainder of a polynomial of degree below 16.
Reduce(x) ==
    FoldLeft(LAMBDA y, i : IF BitOf(y, i) = 1 THEN y ^^ (283 * 2^(i - 8)) ELSE y, x,
             [n \in 1..8 |-> 16 - n])

FieldProduct(x, y) ==
    Reduce(FoldLeft(LAMBDA sum, i : sum ^^ (BitOf(y, i) * x * 2^i), 0,
                    [n \in 1..8 |-> n - 1]))

\* x to the power 254 = 2 + 4 + ... + 128, from its squares; zero for zero.
FieldInverse(x) ==
    FoldLeft(LAMBDA s, n : [square  |-> FieldProduct(s.square, s.square),
                            product |-> FieldProduct(s.product, s.square)],
             [square |-> FieldProduct(x, x), product |-> 1],
             [n \in 1..7 |-> n]).product

\* Each bit with four others, then a constant.
Affine(x) ==
    XorAll(<<99>> \o [n \in 1..8 |->
        2^(n - 1) * (FoldLeft(LAMBDA sum, k : sum + BitOf(x, (n + k) % 8), 0,
                              <<-1, 3, 4, 5, 6>>) % 2)])

\* Each of the 512 constants of the two tables is the one that the definition
\* of AES gives, and the second table undoes the first (aes.c:38).
SboxIsFieldInverse ==
    Len(cipherInput) = 1 =>
        LET x == cipherInput[1]
        IN  /\ getSBoxValue(x) = Affine(FieldInverse(x))
            /\ getSBoxInvert(getSBoxValue(x)) = x

\* The shortcut that mixes a column multiplies it by the circulant matrix of
\* 2, 3, 1, 1 over the field, and the inverse, with a product of five bits,
\* undoes it (aes.c:249).
ColumnsMixAsField ==
    Len(cipherInput) = 4 =>
        LET row(j) == [k \in 1..4 |-> <<2, 3, 1, 1>>[((k - j) % 4) + 1]]
        IN  /\ MixColumn(cipherInput) =
                   [j \in 1..4 |-> XorAll([k \in 1..4 |->
                       FieldProduct(row(j)[k], cipherInput[k])])]
            /\ InvMixColumn(MixColumn(cipherInput)) = cipherInput

Counting == [i \in 1..16 |-> i - 1]

\* Keys, blocks and what FIPS 197 says of them: its appendices B and C.1.
KnownAnswers ==
    {[key   |-> <<43, 126, 21, 22, 40, 174, 210, 166, 171, 247, 21, 136, 9, 207, 79, 60>>,
      block |-> <<50, 67, 246, 168, 136, 90, 48, 141, 49, 49, 152, 162, 224, 55, 7, 52>>,
      out   |-> <<57, 37, 132, 29, 2, 220, 9, 251, 220, 17, 133, 151, 25, 106, 11, 50>>],
     [key   |-> Counting,
      block |-> [i \in 1..16 |-> 17 * (i - 1)],
      out   |-> <<105, 196, 224, 216, 106, 123, 4, 48,
                  216, 205, 183, 128, 112, 180, 197, 90>>]}

\* Two blocks in CBC mode: SP 800-38A, F.2.1.
ChainKey == <<43, 126, 21, 22, 40, 174, 210, 166, 171, 247, 21, 136, 9, 207, 79, 60>>
ChainText == <<107, 193, 190, 226, 46, 64, 159, 150, 233, 61, 126, 17, 115, 147, 23, 42,
               174, 45, 138, 87, 30, 3, 172, 156, 158, 183, 111, 172, 69, 175, 142, 81>>
ChainAnswer == <<118, 73, 171, 172, 129, 25, 178, 70, 206, 233, 142, 155, 18, 233, 25, 125,
                 80, 134, 203, 155, 80, 114, 25, 238, 149, 219, 17, 58, 145, 118, 120, 178>>

\* The cipher gives the standards' answers: its rounds, their order, the round
\* keys and the chaining are those of AES-128 in CBC mode (aes.c:352).
CipherGivesKnownAnswers ==
    cipherInput = <<0>> =>
        /\ \A known \in KnownAnswers :
              Cipher(known.block, KeyExpansion(known.key)) = known.out
        /\ AES_CBC_encrypt_buffer(AES_init_ctx_iv(ChainKey, Counting), ChainText).buf
              = ChainAnswer

\* A delegated key is its text in CBC mode: the first 16 bytes of the HMAC and
\* the vector 32 bytes later open it again, to the text cut to 32 bytes or filled
\* with zeros, whether in one call or in a call for each block, although the
\* cipher overwrites what it reads; both directions leave the same vector for
\* the next call (nem_helpers.c:137).
DelegatedKeyOpens ==
    Len(cipherInput) = 2 =>
        LET hmac  == cipherInput[1]
            value == cipherInput[2]
            key   == nem_get_remote_private_key(hmac, value, TRUE)
            ctx   == AES_init_ctx_iv(SubSeq(hmac, 1, 16), SubSeq(hmac, 33, 48))
            whole  == AES_CBC_decrypt_buffer(ctx, key)
            first  == AES_CBC_decrypt_buffer(ctx, SubSeq(key, 1, 16))
            second == AES_CBC_decrypt_buffer(first.ctx, SubSeq(key, 17, 32))
            text   == [i \in 1..32 |-> IF i <= Len(value) THEN value[i] ELSE 0]
        IN  /\ whole.buf = text
            /\ first.buf \o second.buf = text
            /\ whole.ctx = AES_CBC_encrypt_buffer(ctx, text).ctx
            /\ second.ctx = whole.ctx
=============================================================================
