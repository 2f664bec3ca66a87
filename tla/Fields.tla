------------------------------- MODULE Fields -------------------------------
(* Labels and values of the fields that a review shows.

   A field is what the parser recorded: an id, where its data is, a length, and
   two words found in the data that its formatter goes by: `head` and `tail`
   are the lengths of the two names of a pair; `head` is the first byte of a
   message, and the value of a mode.  A text is a sequence of pieces, each a
   word of the program or some bytes of the buffer put in a form. *)
EXTENDS Printers

CONSTANTS
    MAX_FIELD_LEN,      \* size of the buffer for a value
    MAX_FIELDNAME_LEN,  \* size of the buffer for a label
    CharsOf(_, _)       \* characters that so many bytes at a place are shown in

\* An address and a hash in hexadecimal fit.
ASSUME MaxFieldLenAssumption == MAX_FIELD_LEN \in Nat /\ MAX_FIELD_LEN > 64
ASSUME MaxFieldNameLenAssumption == MAX_FIELDNAME_LEN \in Nat \ {0}

Word(word)         == [form |-> word, at |-> 0, n |-> 0]
Shown(form, at, n) == [form |-> form, at |-> at, n |-> n]
Blank == <<Word(" ")>>

\* The ids that the parser adds with each data type.
Uint32Ids == {"NEM_UINT32_TRANSACTION_TYPE", "NEM_UINT32_INNER_TRANSACTION_TYPE",
              "NEM_UINT32_DETAIL_TRANSACTION_TYPE", "NEM_UINT32_MOSAIC_COUNT",
              "NEM_UINT32_IT_MODE", "NEM_UINT32_AM_COSIGNATORY_NUM",
              "NEM_UINT32_AM_MODICATION_TYPE", "NEM_UINT32_AM_RELATIVE_CHANGE",
              "NEM_UINT32_LEVY_FEE_TYPE"}
AddressIds == {"NEM_STR_RECIPIENT_ADDRESS", "NEM_STR_MULTISIG_ADDRESS",
               "NEM_STR_SINK_ADDRESS", "NEM_STR_LEVY_ADDRESS",
               "NEM_PUBLICKEY_IT_REMOTE", "NEM_PUBLICKEY_AM_COSIGNATORY"}
MosaicIds  == {"NEM_MOSAIC_UNITS", "NEM_MOSAIC_CREATE_SUPPLY_DELTA",
               "NEM_MOSAIC_DELETE_SUPPLY_DELTA"}
NemIds     == {"NEM_UINT64_TXN_FEE", "NEM_UINT64_RENTAL_FEE", "NEM_MOSAIC_AMOUNT",
               "NEM_UINT64_LEVY_FEE", "NEM_UINT64_MULTISIG_FEE"}
MessageIds == {"NEM_STR_TXN_MESSAGE", "NEM_STR_ENC_MESSAGE"}
StringIds  == {"NEM_MOSAIC_UNKNOWN_TYPE", "NEM_STR_TRANSFER_MOSAIC",
               "NEM_STR_NAMESPACE", "NEM_STR_PARENT_NAMESPACE",
               "NEM_STR_ROOT_NAMESPACE", "NEM_STR_MOSAIC", "NEM_STR_DESCRIPTION",
               "NEM_STR_LEVY_MOSAIC"}

\* Mutant: an amount of XEM is added as a quantity of some mosaic.  It keeps its
\* label, which there is for both types.
DataType_amount(id) ==
    CASE id \in MosaicIds \cup {"NEM_MOSAIC_AMOUNT"} -> "STI_MOSAIC_CURRENCY"
      [] id \in NemIds \ {"NEM_MOSAIC_AMOUNT"}     -> "STI_NEM"
      [] id \in Uint32Ids         -> "STI_UINT32"
      [] id = "NEM_HASH256"       -> "STI_HASH256"
      [] id \in AddressIds        -> "STI_ADDRESS"
      [] id = "NEM_STR_PROPERTY"  -> "STI_PROPERTY"
      [] id \in MessageIds        -> "STI_MESSAGE"
      [] id \in StringIds         -> "STI_STR"
      [] OTHER                    -> "none"

\* The data type that the parser gives a field, the same wherever it adds one
\* of that id.  A field of the zeroed table has none.
DataType(id) ==
    CASE id \in Uint32Ids         -> "STI_UINT32"
      [] id = "NEM_HASH256"       -> "STI_HASH256"
      [] id \in AddressIds        -> "STI_ADDRESS"
      [] id = "NEM_STR_PROPERTY"  -> "STI_PROPERTY"
      [] id \in MosaicIds         -> "STI_MOSAIC_CURRENCY"
      [] id \in NemIds            -> "STI_NEM"
      [] id \in MessageIds        -> "STI_MESSAGE"
      [] id \in StringIds         -> "STI_STR"
      [] OTHER                    -> "none"

\* Two ids show a key as an address.
IsPublicKey(id) == id \in {"NEM_PUBLICKEY_IT_REMOTE", "NEM_PUBLICKEY_AM_COSIGNATORY"}
IsMosaicPair(id) == id \in {"NEM_STR_LEVY_MOSAIC", "NEM_STR_TRANSFER_MOSAIC"}
IsPair(id) == IsMosaicPair(id) \/ id = "NEM_STR_PROPERTY"

-----------------------------------------------------------------------------
(* Labels *)

Labels ==
    [STI_UINT32 |->
        [NEM_UINT32_TRANSACTION_TYPE        |-> "Transaction Type",
         NEM_UINT32_INNER_TRANSACTION_TYPE  |-> "Inner TX Type",
         NEM_UINT32_DETAIL_TRANSACTION_TYPE |-> "Detail TX Type",
         NEM_UINT32_MOSAIC_COUNT            |-> "Mosaics",
         NEM_UINT32_IT_MODE                 |-> "Importance Mode",
         NEM_UINT32_AM_COSIGNATORY_NUM      |-> "Cosignatory Num",
         NEM_UINT32_AM_MODICATION_TYPE      |-> "Mod. Type",
         NEM_UINT32_AM_RELATIVE_CHANGE      |-> "Relative Change",
         NEM_UINT32_LEVY_FEE_TYPE           |-> "Levy Fee Type"],
     STI_UINT64 |-> [NEM_UINT64_DURATION |-> "Duration"],
     STI_HASH256 |-> [NEM_HASH256                  |-> "SHA3 Tx Hash",
                      NEM_PUBLICKEY_IT_REMOTE      |-> "Rmt. Public Key",
                      NEM_PUBLICKEY_AM_COSIGNATORY |-> "Cosignatory PbK"],
     STI_ADDRESS |-> [NEM_STR_RECIPIENT_ADDRESS    |-> "Recipient",
                      NEM_STR_MULTISIG_ADDRESS     |-> "Multisig Address",
                      NEM_STR_SINK_ADDRESS         |-> "Sink Address",
                      NEM_STR_LEVY_ADDRESS         |-> "Levy Address",
                      NEM_PUBLICKEY_IT_REMOTE      |-> "Rmt. Address",
                      NEM_PUBLICKEY_AM_COSIGNATORY |-> "CosignatoryAddr"],
     STI_MOSAIC_CURRENCY |->
        [NEM_MOSAIC_AMOUNT              |-> "Amount",
         NEM_MOSAIC_UNITS               |-> "Micro Units",
         NEM_MOSAIC_DELETE_SUPPLY_DELTA |-> "Delete Supply",
         NEM_MOSAIC_CREATE_SUPPLY_DELTA |-> "Create Supply"],
     STI_NEM |-> [NEM_UINT64_TXN_FEE      |-> "Fee",
                  NEM_UINT64_RENTAL_FEE   |-> "Rental Fee",
                  NEM_MOSAIC_AMOUNT       |-> "Amount",
                  NEM_UINT64_LEVY_FEE     |-> "Levy Fee",
                  NEM_UINT64_MULTISIG_FEE |-> "Multisig Fee"],
     STI_MESSAGE |-> [NEM_STR_TXN_MESSAGE |-> "Message",
                      NEM_STR_ENC_MESSAGE |-> "Message"],
     STI_STR |-> [NEM_MOSAIC_UNKNOWN_TYPE  |-> "Unknown Mosaic",
                  NEM_STR_TRANSFER_MOSAIC  |-> "Namespace",
                  NEM_STR_NAMESPACE        |-> "Namespace",
                  NEM_STR_PARENT_NAMESPACE |-> "Parent Name",
                  NEM_STR_ROOT_NAMESPACE   |-> "Create new root",
                  NEM_STR_MOSAIC           |-> "Mosaic Name",
                  NEM_STR_DESCRIPTION      |-> "Description",
                  NEM_STR_LEVY_MOSAIC      |-> "Levy Mosaic"]]

Forms == {"ascii", "hex", "address", "mode", "number", "token", "%d", "%dOrName"}
Texts == {"Found", "XEM", "micro", ": ", "<empty msg>", "<encrypted msg>",
          "Divisibility and levy cannot be shown", "namespace", " ", "",
          "Unknown Field", "[Not implemented]"}
         \cup UNION {Range(Labels[type]) : type \in DOMAIN Labels}
Piece == [form: Forms \cup Texts, at: Int, n: Nat]

\* `old` is what the buffer of the label holds: the name of a property does not
\* always replace it.
resolve_fieldname(f, old) ==
    LET type == DataType(f.id)
    IN  IF type = "STI_PROPERTY"
          THEN IF AsciiFits(0, f.head, MAX_FIELDNAME_LEN)
                 THEN Shown("ascii", f.at + 4, f.head) ELSE old
        ELSE IF type \in DOMAIN Labels /\ f.id \in DOMAIN Labels[type]
          THEN Word(Labels[type][f.id])
        ELSE Word("Unknown Field")

-----------------------------------------------------------------------------
(* Values: the empty sequence is an empty string. *)

Ascii(pos, at, n) ==
    IF AsciiFits(pos, n, MAX_FIELD_LEN) THEN <<Shown("ascii", at, n)>> ELSE <<>>

Hex(at, n) == IF HexFits(n, MAX_FIELD_LEN) THEN <<Shown("hex", at, n)>> ELSE <<>>

\* A mode that is neither of the two known ones has no text.
uint32_formatter(f) ==
    CASE f.id \in {"NEM_UINT32_IT_MODE", "NEM_UINT32_AM_MODICATION_TYPE"} ->
           IF f.head \in {1, 2} THEN <<Shown("mode", f.at, 4)>> ELSE <<>>
      [] f.id = "NEM_UINT32_MOSAIC_COUNT" -> <<Word("Found"), Shown("%d", f.at, 4)>>
      [] OTHER -> <<Shown("%dOrName", f.at, 4)>>

\* A key becomes an address, and no text when the hashes of the SDK fail.  The
\* text fits: Base32Decodes checks that 25 bytes take 41 characters.
nem_public_key_to_address(at, hashes) ==
    IF hashes THEN <<Shown("address", at, 32)>> ELSE <<>>

\* The text of an address is copied.  Nobody looks at the error of the hashes.
address_formatter(f, hashes) ==
    IF IsPublicKey(f.id) THEN nem_public_key_to_address(f.at, hashes)
    ELSE Ascii(0, f.at, f.length)

mosaic_formatter(f) ==
    IF f.id \in {"NEM_MOSAIC_CREATE_SUPPLY_DELTA", "NEM_MOSAIC_DELETE_SUPPLY_DELTA"}
      THEN <<Shown("number", f.at, 8)>>
      ELSE <<Shown("number", f.at + f.length - 8, 8)>>

nem_formatter(f) ==
    <<Shown("token", f.at, 8),
      Word(IF f.id = "NEM_UINT64_LEVY_FEE" THEN "micro" ELSE "XEM")>>

\* At most `most` of `n` bytes, when there are `limit` of them or more.
Cut(n, limit, most) == IF n >= limit THEN most ELSE n

HEX_MESSAGE == 254

\* Mutant: a message is cut only when it is longer than the buffer.
msg_formatter_longer(f) ==
    IF f.length = 0 THEN <<Word("<empty msg>")>>
    ELSE Ascii(0, f.at, Cut(f.length, MAX_FIELD_LEN + 1, MAX_FIELD_LEN - 1))

msg_formatter(f) ==
    IF f.length = 0
      THEN <<Word(IF f.id = "NEM_STR_ENC_MESSAGE" THEN "<encrypted msg>"
                  ELSE "<empty msg>")>>
    ELSE IF f.head = HEX_MESSAGE
      THEN Hex(f.at + 1, Cut(f.length - 1, MAX_FIELD_LEN, MAX_FIELD_LEN - 1))
    ELSE Ascii(0, f.at, Cut(f.length, MAX_FIELD_LEN, MAX_FIELD_LEN - 1))

\* A string of exactly the size of the buffer is not cut, and does not fit.
CutString(n) == Cut(n, MAX_FIELD_LEN + 1, MAX_FIELD_LEN - 1)

\* Of bytes in a row that cannot be printed every second is left out (ascii_byte
\* of Printers), so that the contents decide between half of n and n.
Chars(at, n) ==
    IF CharsOf(at, n) \in ((n + 1) \div 2)..n THEN CharsOf(at, n) ELSE n

\* The first name, ": ", the second name, each behind what is in the buffer.
mosaic_pair(f) ==
    LET namespace == Ascii(0, f.at + 4, f.head)
        length    == IF namespace = <<>> THEN 0 ELSE Chars(f.at + 4, f.head)
        colon     == IF length + 2 < MAX_FIELD_LEN THEN <<Word(": ")>> ELSE <<>>
        pos       == IF colon = <<>> THEN length ELSE length + 2
    IN  namespace \o colon \o Ascii(pos, f.at + 4 + f.head + 4, f.tail)

string_formatter(f) ==
    CASE f.id = "NEM_MOSAIC_UNKNOWN_TYPE" ->
           <<Word("Divisibility and levy cannot be shown")>>
      [] f.id = "NEM_STR_ROOT_NAMESPACE" -> <<Word("namespace")>>
      [] IsMosaicPair(f.id) -> mosaic_pair(f)
      [] OTHER -> Ascii(0, f.at, CutString(f.length))

property_formatter(f) == Ascii(0, f.at + 4 + f.head + 4, CutString(f.tail))

\* The bytes at the start of a field that are read whatever is shown.
Prefix(f) ==
    CASE IsPair(f.id)                 -> 4 + f.head + 4
      [] DataType(f.id) = "STI_UINT32"  -> 4
      [] DataType(f.id) = "STI_MESSAGE" -> IF f.length = 0 THEN 0 ELSE 1
      [] OTHER                          -> 0

\* An empty text becomes a space.
format_field(f, hashes) ==
    LET type == DataType(f.id)
        text == CASE type = "STI_UINT32"          -> uint32_formatter(f)
                  [] type = "STI_HASH256"         -> Hex(f.at, f.length)
                  [] type = "STI_ADDRESS"         -> address_formatter(f, hashes)
                  [] type = "STI_MOSAIC_CURRENCY" -> mosaic_formatter(f)
                  [] type = "STI_NEM"             -> nem_formatter(f)
                  [] type = "STI_MESSAGE"         -> msg_formatter(f)
                  [] type = "STI_STR"             -> string_formatter(f)
                  [] type = "STI_PROPERTY"        -> property_formatter(f)
                  [] OTHER -> <<Word("[Not implemented]")>>
    IN  IF text = <<>> THEN Blank ELSE text
=============================================================================
