--------------------------------- MODULE Aes ---------------------------------
(* AES-128 in CBC mode as the build compiles it, and the delegated harvesting
   key computed with it.  A buffer is a sequence of bytes; the place of element
   [i][j] of a state is 4 * i + j, and i is the column.  Loops are folds. *)
EXTENDS Integers, Sequences, Bitwise, SequencesExt

AES_BLOCKLEN == 16
AES_KEYLEN == 16
Nb == 4
Nk == 4
Nr == 10

Byte == 0..255

\* As a table, so that TLC computes each sum once.
xor == [a \in Byte |-> [b \in Byte |-> a ^^ b]]

\* Byte by byte.
XorBytes(s, t) == [i \in DOMAIN s |-> xor[s[i]][t[i]]]
XorAll(bytes) == FoldLeft(LAMBDA a, b : xor[a][b], 0, bytes)

sbox ==
    << 99, 124, 119, 123, 242, 107, 111, 197,  48,   1, 103,  43, 254, 215, 171, 118,
      202, 130, 201, 125, 250,  89,  71, 240, 173, 212, 162, 175, 156, 164, 114, 192,
      183, 253, 147,  38,  54,  63, 247, 204,  52, 165, 229, 241, 113, 216,  49,  21,
        4, 199,  35, 195,  24, 150,   5, 154,   7,  18, 128, 226, 235,  39, 178, 117,
        9, 131,  44,  26,  27, 110,  90, 160,  82,  59, 214, 179,  41, 227,  47, 132,
       83, 209,   0, 237,  32, 252, 177,  91, 106, 203, 190,  57,  74,  76,  88, 207,
      208, 239, 170, 251,  67,  77,  51, 133,  69, 249,   2, 127,  80,  60, 159, 168,
       81, 163,  64, 143, 146, 157,  56, 245, 188, 182, 218,  33,  16, 255, 243, 210,
      205,  12,  19, 236,  95, 151,  68,  23, 196, 167, 126,  61, 100,  93,  25, 115,
       96, 129,  79, 220,  34,  42, 144, 136,  70, 238, 184,  20, 222,  94,  11, 219,
      224,  50,  58,  10,  73,   6,  36,  92, 194, 211, 172,  98, 145, 149, 228, 121,
      231, 200,  55, 109, 141, 213,  78, 169, 108,  86, 244, 234, 101, 122, 174,   8,
      186, 120,  37,  46,  28, 166, 180, 198, 232, 221, 116,  31,  75, 189, 139, 138,
      112,  62, 181, 102,  72,   3, 246,  14,  97,  53,  87, 185, 134, 193,  29, 158,
      225, 248, 152,  17, 105, 217, 142, 148, 155,  30, 135, 233, 206,  85,  40, 223,
      140, 161, 137,  13, 191, 230,  66, 104,  65, 153,  45,  15, 176,  84, 187,  22>>

rsbox ==
    << 82,   9, 106, 213,  48,  54, 165,  56, 191,  64, 163, 158, 129, 243, 215, 251,
      124, 227,  57, 130, 155,  47, 255, 135,  52, 142,  67,  68, 196, 222, 233, 203,
       84, 123, 148,  50, 166, 194,  35,  61, 238,  76, 149,  11,  66, 250, 195,  78,
        8,  46, 161, 102,  40, 217,  36, 178, 118,  91, 162,  73, 109, 139, 209,  37,
      114, 248, 246, 100, 134, 104, 152,  22, 212, 164,  92, 204,  93, 101, 182, 146,
      108, 112,  72,  80, 253, 237, 185, 218,  94,  21,  70,  87, 167, 141, 157, 132,
      144, 216, 171,   0, 140, 188, 211,  10, 247, 228,  88,   5, 184, 179,  69,   6,
      208,  44,  30, 143, 202,  63,  15,   2, 193, 175, 189,   3,   1,  19, 138, 107,
       58, 145,  17,  65,  79, 103, 220, 234, 151, 242, 207, 206, 240, 180, 230, 115,
      150, 172, 116,  34, 231, 173,  53, 133, 226, 249,  55, 232,  28, 117, 223, 110,
       71, 241,  26, 113,  29,  41, 197, 137, 111, 183,  98,  14, 170,  24, 190,  27,
      252,  86,  62,  75, 198, 210, 121,  32, 154, 219, 192, 254, 120, 205,  90, 244,
       31, 221, 168,  51, 136,   7, 199,  49, 177,  18,  16,  89,  39, 128, 236,  95,
       96,  81, 127, 169,  25, 181,  74,  13,  45, 229, 122, 159, 147, 201, 156, 239,
      160, 224,  59,  77, 174,  42, 245, 176, 200, 235, 187,  60, 131,  83, 153,  97,
       23,  43,   4, 126, 186, 119, 214,  38, 225, 105,  20,  99,  85,  33,  12, 125>>

\* From Rcon[1] to Rcon[10]: the first element is never used.
Rcon == <<1, 2, 4, 8, 16, 32, 64, 128, 27, 54>>

\* Mutant: the inverse table.
getSBoxValue_inverse(num) == rsbox[num + 1]

getSBoxValue(num)  == sbox[num + 1]
getSBoxInvert(num) == rsbox[num + 1]

-----------------------------------------------------------------------------
(* The round keys: Nb * (Nr + 1) words of four bytes *)

RotWord(word) == Append(Tail(word), Head(word))
SubWord(word) == [i \in 1..4 |-> getSBoxValue(word[i])]

\* Word i, from the words before it.
NextWord(words, i) ==
    LET before == words[i]
        temp   == IF i % Nk # 0 THEN before
                  ELSE XorBytes(SubWord(RotWord(before)), <<Rcon[i \div Nk], 0, 0, 0>>)
    IN  Append(words, XorBytes(words[i - Nk + 1], temp))

KeyExpansion(key) ==
    LET words == [i \in 1..Nk |-> SubSeq(key, 4 * i - 3, 4 * i)]
    IN  FlattenSeq(FoldLeft(NextWord, words,
                            [n \in 1..(Nb * Nr) |-> n + Nk - 1]))

-----------------------------------------------------------------------------
(* One round *)

\* The state whose element [i][j] is `element(i, j)`.
State(element(_, _)) == [n \in 1..16 |-> element((n - 1) \div 4, (n - 1) % 4)]
At(state, i, j) == state[4 * i + j + 1]

AddRoundKey(round, state, RoundKey) ==
    XorBytes(state, SubSeq(RoundKey, 16 * round + 1, 16 * round + 16))

SubBytes(state)    == [n \in 1..16 |-> getSBoxValue(state[n])]
InvSubBytes(state) == [n \in 1..16 |-> getSBoxInvert(state[n])]

\* Mutant: the rows to the right.
ShiftRows_right(state) == State(LAMBDA i, j : At(state, (i - j) % 4, j))

\* Row j moves j columns to the left, and back.
ShiftRows(state)    == State(LAMBDA i, j : At(state, (i + j) % 4, j))
InvShiftRows(state) == State(LAMBDA i, j : At(state, (i - j) % 4, j))

\* Mutant: the bit that leaves the byte is lost.
xtime_unreduced == [x \in Byte |-> (2 * x) % 256]

xtime == [x \in Byte |-> xor[(2 * x) % 256][(x \div 128) * 27]]

\* Each byte of a column with the sum of all, and twice its sum with the next.
MixColumn(col) ==
    [j \in 1..4 |-> XorAll(<<col[j], xtime[xor[col[j]][col[(j % 4) + 1]]],
                             XorAll(col)>>)]

\* x times 2^k.
Doubled(x, k) == FoldLeft(LAMBDA y, n : xtime[y], x, [n \in 1..k |-> n])

\* Only the five lower bits of y count.
Multiply(x, y) ==
    XorAll([k \in 1..5 |-> ((y \div 2^(k - 1)) % 2) * Doubled(x, k - 1)])

InvMixColumn(col) ==
    LET factors == <<14, 11, 13, 9>>
    IN  [j \in 1..4 |->
            XorAll([k \in 1..4 |-> Multiply(col[k], factors[((k - j) % 4) + 1])])]

\* `mix` on each of the four columns.
Columns(state, mix(_)) ==
    FlattenSeq([i \in 1..4 |-> mix(SubSeq(state, 4 * i - 3, 4 * i))])

MixColumns(state)    == Columns(state, MixColumn)
InvMixColumns(state) == Columns(state, InvMixColumn)

-----------------------------------------------------------------------------
(* One block.  The last round does not mix the columns. *)

Cipher(state, RoundKey) ==
    LET substituted(s) == ShiftRows(SubBytes(s))
        round(s, r)    == AddRoundKey(r, MixColumns(substituted(s)), RoundKey)
        rounds == FoldLeft(round, AddRoundKey(0, state, RoundKey),
                           [r \in 1..(Nr - 1) |-> r])
    IN  AddRoundKey(Nr, substituted(rounds), RoundKey)

InvCipher(state, RoundKey) ==
    LET keyed(s, r) == AddRoundKey(r, InvSubBytes(InvShiftRows(s)), RoundKey)
        round(s, r) == InvMixColumns(keyed(s, r))
        rounds == FoldLeft(round, AddRoundKey(Nr, state, RoundKey),
                           [r \in 1..(Nr - 1) |-> Nr - r])
    IN  keyed(rounds, 0)

-----------------------------------------------------------------------------
(* A buffer of whole blocks, in place.  The context keeps the Iv of the next
   call. *)

AES_init_ctx_iv(key, iv) == [RoundKey |-> KeyExpansion(key), Iv |-> iv]

\* The block of `buf` that begins at offset i, and `buf` with another there.
BlockAt(buf, i) == SubSeq(buf, i + 1, i + AES_BLOCKLEN)
PutBlock(buf, i, block) ==
    [n \in DOMAIN buf |-> IF n - i \in 1..AES_BLOCKLEN THEN block[n - i] ELSE buf[n]]

\* `step` on the block at each offset, for a context and a buffer.
OnBlocks(step(_, _), ctx, buf) ==
    FoldLeft(step, [ctx |-> ctx, buf |-> buf],
             [n \in 1..(Len(buf) \div AES_BLOCKLEN) |-> AES_BLOCKLEN * (n - 1)])

\* Mutant: every block with the first vector.
AES_CBC_encrypt_buffer_unchained(ctx, buf) ==
    LET step(s, i) ==
            LET block == Cipher(XorBytes(BlockAt(s.buf, i), ctx.Iv), s.ctx.RoundKey)
            IN  [ctx |-> [s.ctx EXCEPT !.Iv = block], buf |-> PutBlock(s.buf, i, block)]
    IN  OnBlocks(step, ctx, buf)

AES_CBC_encrypt_buffer(ctx, buf) ==
    LET step(s, i) ==
            LET block == Cipher(XorBytes(BlockAt(s.buf, i), s.ctx.Iv), s.ctx.RoundKey)
            IN  [ctx |-> [s.ctx EXCEPT !.Iv = block], buf |-> PutBlock(s.buf, i, block)]
    IN  OnBlocks(step, ctx, buf)

AES_CBC_decrypt_buffer(ctx, buf) ==
    LET step(s, i) ==
            LET storeNextIv == BlockAt(s.buf, i)
                block == XorBytes(InvCipher(storeNextIv, s.ctx.RoundKey), s.ctx.Iv)
            IN  [ctx |-> [s.ctx EXCEPT !.Iv = storeNextIv],
                 buf |-> PutBlock(s.buf, i, block)]
    IN  OnBlocks(step, ctx, buf)

-----------------------------------------------------------------------------
(* The delegated harvesting key, from the HMAC of a private key (external) and
   a value that is text.  The cipher works in the buffer of the result. *)

NEM_PRIVATE_KEY_LENGTH == 32

\* `length` bytes: the text, then zeros.
strncpy(text, length) == [i \in 1..length |-> IF i <= Len(text) THEN text[i] ELSE 0]

nem_get_remote_private_key(hmac, value, encrypt) ==
    LET ctx == AES_init_ctx_iv(SubSeq(hmac, 1, AES_KEYLEN), BlockAt(hmac, 32))
        out == strncpy(value, NEM_PRIVATE_KEY_LENGTH)
    IN  IF encrypt THEN AES_CBC_encrypt_buffer(ctx, out).buf
                   ELSE AES_CBC_decrypt_buffer(ctx, out).buf
=============================================================================
