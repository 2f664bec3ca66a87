------------------------ MODULE NemParseProperties ------------------------
(* What the list of fields keeps, for whatever is in the buffer. *)
EXTENDS NemParse, Fields

Points == TopTypes \cup {"start", "message", "mosaics", "mosaic",
          "mosaic_namespace", "mosaic_name", "modification", "parent",
          "mosaic_id", "mosaic_id_name", "description", "property", "levy",
          "levy_name", "sink", "supply", Return, "parsed", "failed"}

Uint32 == 0..(UINT32 - 1)

\* Types found in a header, the unknown ones too.
HeaderTypes == TopTypes \cup UNION {TypesOf[n] : n \in Lengths}

\* A property has its own name for a label, all other fields one of Labels.
LabelledIds == {"NEM_STR_PROPERTY"}
               \cup UNION {DOMAIN Labels[type] : type \in DOMAIN Labels}
Field == [id: LabelledIds, at: Nat \cup {STACK}, length: Nat, head: Nat, tail: Nat]

Context == [offset: Nat, length: Lengths, transactionType: HeaderTypes \cup {"none"},
            fields: Seq(Field), headers: SUBSET Nat, ok: BOOLEAN]
Header == [header: Nat, version: 0..255]
Locals == [count: Nat, left: Nat, struct: Nat, id: Nat, first: Nat, txn: Nat,
           pcount: Nat, start: Nat, sum: Nat,
           isNem: BOOLEAN, str: Names, namespace: Names]
Frame == [isInner: BOOLEAN, left: Int, start: Nat, end: Nat]

\* Every variable holds a value of its type, the position is within the buffer,
\* and no field is listed beyond the end of the table.
ParseTypeOK ==
    /\ ctx \in Context
    /\ ctx.offset <= ctx.length
    /\ Len(ctx.fields) <= MAX_FIELD_COUNT
    /\ at \in Points
    /\ txn \in Header
    /\ local \in Locals
    /\ frames \in Seq(Frame)

FieldIds == {ctx.fields[i].id : i \in DOMAIN ctx.fields}

\* The fields with these ids, and whether one of them is about this place.
FieldsOf(c, ids)   == {i \in DOMAIN c.fields : c.fields[i].id \in ids}
Listed(c, ids, place) == \E i \in FieldsOf(c, ids) : c.fields[i].at = place

TypeIds  == {"NEM_UINT32_TRANSACTION_TYPE", "NEM_UINT32_INNER_TRANSACTION_TYPE",
             "NEM_UINT32_DETAIL_TRANSACTION_TYPE"}
FeeIds   == {"NEM_UINT64_TXN_FEE", "NEM_UINT64_MULTISIG_FEE"}
ItemIds  == {"NEM_MOSAIC_AMOUNT", "NEM_MOSAIC_UNITS"}
KeyIds   == {"NEM_PUBLICKEY_AM_COSIGNATORY"}

-----------------------------------------------------------------------------
InBuffer(start, n) == n = 0 \/ (start >= 0 /\ start + n <= ctx.length)

\* What is read of a field lies in the buffer: its prefix, its value, its label.
ReadsInBuffer(f) ==
    LET label  == resolve_fieldname(f, Word(""))
        pieces == Append(format_field(f, TRUE), label)
    IN  /\ InBuffer(f.at, Prefix(f))
        /\ \A p \in Range(pieces) : InBuffer(p.at, p.n)

\* What the label and the formatter of a field read lies in the buffer, also
\* where they follow lengths found there instead of the field's own, and
\* nothing is read through a pointer to a variable of the parser
\* (nem_parse.c:331 and :489 leave such pointers in the list).
FormatterStaysInBuffer == \A i \in DOMAIN ctx.fields : ReadsInBuffer(ctx.fields[i])

\* A pair of names, which string_formatter and property_formatter take apart
\* by the lengths inside it, is as long as the structure it was taken from,
\* although the lengths are compared modulo 2^32.
PairsFillTheirField ==
    \A i \in DOMAIN ctx.fields :
        LET f == ctx.fields[i]
        IN  IsPair(f.id) => f.length = Pair(f.head, f.tail)

HasLabelAndFormatter(f) ==
    /\ resolve_fieldname(f, Word("")) # Word("Unknown Field")
    /\ format_field(f, TRUE) # <<Word("[Not implemented]")>>

\* What the eight bytes of a field count: millionths of a XEM, units
\* of a mosaic, or such units of whatever mosaic a levy is paid in.
MicroXemIds == {"NEM_UINT64_TXN_FEE", "NEM_UINT64_MULTISIG_FEE",
                "NEM_UINT64_RENTAL_FEE", "NEM_MOSAIC_AMOUNT"}
UnitIds     == {"NEM_MOSAIC_UNITS", "NEM_MOSAIC_CREATE_SUPPLY_DELTA",
                "NEM_MOSAIC_DELETE_SUPPLY_DELTA"}

\* XEM are shown as such, with their six decimals ("token"), units as the number
\* that they are, and neither from other bytes than the field's own.
InItsUnit(f) ==
    LET value == format_field(f, TRUE)
    IN  /\ f.id \in MicroXemIds => value = <<Shown("token", f.at, 8), Word("XEM")>>
        /\ f.id \in UnitIds     => value = <<Shown("number", f.at, 8)>>
        /\ f.id = "NEM_UINT64_LEVY_FEE" => Word("XEM") \notin Range(value)

\* The parser gives each field a type under which resolve_fieldname knows its
\* id and format_field has a formatter, and for a quantity the formatter of its
\* unit: three tables that have to agree.  An amount of XEM, for one, has a label
\* under two types (fields.c:78 and :89), and under one of them a text a million
\* times too large.
FieldTablesAgree ==
    \A i \in DOMAIN ctx.fields : /\ HasLabelAndFormatter(ctx.fields[i])
                                 /\ InItsUnit(ctx.fields[i])

\* Where a field may have a blank value: for want of data, and at these limits.
BlankAtLimit(f) ==
    CASE DataType(f.id) \in {"STI_STR", "STI_ADDRESS"} ->
           f.length \in {0, MAX_FIELD_LEN}
      [] DataType(f.id) = "STI_PROPERTY" -> f.tail \in {0, MAX_FIELD_LEN}
      [] DataType(f.id) = "STI_HASH256"  -> f.length = 0
      [] DataType(f.id) = "STI_MESSAGE"  ->
           /\ f.head = HEX_MESSAGE
           /\ f.length = 1 \/ 2 * f.length > MAX_FIELD_LEN
      [] DataType(f.id) = "STI_UINT32"   -> f.head \notin {1, 2}
      [] OTHER -> FALSE

\* A value is blank only for want of data, or for one of these: a name,
\* description or property as long as the buffer, a hexadecimal message of one
\* byte or of more than fits, a mode that is neither of the two known ones.
\* Long messages are cut, never dropped (app_format.c:149, :193, :210).
BlankOnlyAtLimits ==
    \A i \in DOMAIN ctx.fields :
        format_field(ctx.fields[i], TRUE) = Blank => BlankAtLimit(ctx.fields[i])

\* Of every transaction that was parsed, the inner ones too, the review shows
\* the type and the fee.
EveryTransactionShown ==
    at = "parsed" =>
        \A h \in ctx.headers : /\ Listed(ctx, TypeIds, h)
                               /\ Listed(ctx, FeeIds, h + FEE_AT)

\* A transfer shows the quantity of as many mosaics as it announces, and a
\* modification the key of as many cosignatories, so that no announced count
\* comes near 2^31, where "%d" shows it as a negative number (app_format.c:40).
EveryItemShown ==
    at = "parsed" =>
        /\ ctx.transactionType = TRANSFER /\ txn.version = 2
             => local.count = Cardinality(FieldsOf(ctx, ItemIds))
        /\ ctx.transactionType = AGGREGATE_MODIFICATION
             => local.count = Cardinality(FieldsOf(ctx, KeyIds))

\* When the loop of parse_multisig_transaction ends, the inner transactions it
\* has parsed cover every byte announced for them: innerOffset, which adds up
\* what each of them took, lags behind nothing (nem_parse.c:737, :779).
InnerCovered ==
    at = Return /\ frames # <<>> /\ Remaining <= 0
        => ctx.offset >= Last(frames).end

\* The recursion of cosignatures inside multisig transactions costs four
\* fields a level, so the table of fields bounds the depth of the stack.
NestingBounded ==
    at # "failed" => 4 * Len(frames) <= Len(ctx.fields) + 2

\* A buffer that parses holds a header and, for a cosignature, every byte that
\* set_sign_data_length says will be signed and the length that follows them.
ParsedHoldsSigned ==
    at = "parsed" =>
        /\ ctx.length >= HEADER
        /\ ctx.transactionType = SIGNATURE
             => ctx.length >= HEADER + 8 + PUBLICKEY + ADDRESS_T + 4

-----------------------------------------------------------------------------
(* The inductive invariant of the parser, from which ParseProofs proves the
   properties above for every buffer and every size of the table. *)

\* Two fields have a text of their own and no data.
HasNoData(id) == id \in {"NEM_MOSAIC_UNKNOWN_TYPE", "NEM_STR_ROOT_NAMESPACE"}

\* The bytes that a formatter may read; a mode has one byte recorded, and four
\* are read (nem_parse.c:345).
Span(f) == IF DataType(f.id) = "STI_UINT32" THEN 4 ELSE f.length

\* A field as the parser adds it, with its data below `limit`.
Recorded(f, limit) ==
    /\ f \in Field
    /\ DataType(f.id) # "none"
    /\ HasNoData(f.id) \/ (f.at >= 0 /\ f.at + Span(f) <= limit)
    /\ DataType(f.id) \in {"STI_NEM", "STI_MOSAIC_CURRENCY"} => f.length = 8
    /\ DataType(f.id) = "STI_ADDRESS" => f.length <= ADDRESS
    /\ DataType(f.id) = "STI_HASH256" => f.length <= PUBLICKEY
    /\ IsPublicKey(f.id) => f.length = PUBLICKEY
    /\ IsPair(f.id) => f.length = Pair(f.head, f.tail)

TableRecorded == \A i \in DOMAIN ctx.fields : Recorded(ctx.fields[i], ctx.length)

\* The points of a transfer and of its mosaics that come before the next field
\* of a mosaic, and those at which the fee of the transaction has been added.
MosaicPoints == {"mosaic", "mosaic_namespace", "mosaic_name"}
FeePoints    == MosaicPoints \cup {"mosaics", Return, "parsed"}

\* The position is behind what has been read: the header, and what the body of a
\* cosignature holds besides.
BehindHeader ==
    at \notin {"start", "failed"} =>
        /\ txn.header + HEADER <= ctx.offset
        /\ ctx.transactionType = SIGNATURE /\ at # SIGNATURE
             => ctx.offset >= HEADER + 8 + PUBLICKEY + ADDRESS_T + 4

\* The variables of a function that later fields are added from point to what has
\* been read.
LocalsBehind ==
    /\ {local.struct, local.id, local.first} \subseteq Uint32
    /\ at \in {"message", "mosaics"} => local.txn + ADDRESS_T + 8 <= ctx.offset
    /\ at \in MosaicPoints => local.left >= 1 /\ local.pcount + 4 <= ctx.offset
    /\ at = "mosaic_name" => local.start + 4 + local.first = ctx.offset
    /\ at = "parent" => /\ local.txn + ADDRESS_T + 8 <= ctx.offset
                        /\ local.id <= ADDRESS
    /\ at = "levy_name" =>
           local.start + 4 + ADDRESS_T + 4 + 4 + local.first = ctx.offset

\* A level costs four fields, of which a cosignature that has been begun has one.
LevelsPaid ==
    /\ at = "start" => frames = <<>>
    /\ at = MULTISIG => frames = <<>> /\ Len(ctx.fields) >= 1
    /\ at # "failed" =>
           4 * Len(frames) <= Len(ctx.fields) + (IF at = SIGNATURE THEN 1 ELSE 2)
    /\ \A i \in DOMAIN frames : frames[i].left + frames[i].start = frames[i].end

\* Every header has its type in the table, and its fee too, once the parser is
\* past the fee of the transaction it is in.
HeadersListed ==
    /\ at = "start" => ctx.headers = {}
    /\ at # "failed" =>
           \A h \in ctx.headers :
               /\ Listed(ctx, TypeIds, h)
               /\ h # txn.header \/ at \in FeePoints => Listed(ctx, FeeIds, h + FEE_AT)

\* In a transfer and in a modification, the items in the table are those that
\* have been counted down.
ItemsCounted ==
    /\ at = "start" => ctx.fields = <<>>
    /\ ctx.transactionType = TRANSFER /\ at # "failed" =>
           /\ frames = <<>>
           /\ at \in {"start", TRANSFER, "message"} \cup FeePoints
           /\ txn.version = 2 =>
                  Cardinality(FieldsOf(ctx, ItemIds)) =
                      CASE at \in MosaicPoints       -> local.count - local.left
                        [] at \in {Return, "parsed"} -> local.count
                        [] OTHER                     -> 0
    /\ ctx.transactionType = AGGREGATE_MODIFICATION /\ at # "failed" =>
           /\ frames = <<>>
           /\ at \in {"start", AGGREGATE_MODIFICATION, "modification", Return,
                      "parsed"}
           /\ Cardinality(FieldsOf(ctx, KeyIds)) =
                  CASE at = "modification"       -> local.count - local.left
                    [] at \in {Return, "parsed"} -> local.count
                    [] OTHER                     -> 0

\* The parser goes on only while nothing has failed.
GoesOn == at # "failed" => ctx.ok

ParserInv == /\ ParseTypeOK
             /\ GoesOn
             /\ TableRecorded
             /\ BehindHeader
             /\ LocalsBehind
             /\ LevelsPaid
             /\ HeadersListed
             /\ ItemsCounted

-----------------------------------------------------------------------------
(* What comments and documents say, and the code does not do. *)

\* nem_parse.c:295: is_nem means that the namespace is nem.
XemIsOfNem == local.isNem => local.namespace = "nem"

\* nem_parse.c:262: a transfer without mosaics shows its XEM amount.
AmountIsShown ==
    at = "parsed" /\ ctx.transactionType = TRANSFER /\ txn.version \in {1, 2}
        => FieldIds \cap ItemIds # {}
=============================================================================
