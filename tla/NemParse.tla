------------------------------ MODULE NemParse ------------------------------
(* The transaction parser: it walks the buffer once, from the start, and lists
   the fields that the review shows, each a pointer into the buffer.

   What is in the buffer is chosen as it is read: the offset never goes back,
   so every choice is that of some buffer.  Lengths, counts and selectors are
   read as words; of a name only this is kept, whether it is "nem", "xem" or
   something else.  An action goes from one word that decides what follows to
   the next.  Every error is reported alike to a caller that only compares
   with success, so `ok` stands for the error codes. *)
EXTENDS Integers, Sequences, SequencesExt

CONSTANTS
    Lengths,          \* lengths of the transactions given to the parser
    WordsOf,          \* what a length, count or selector may be in each
    TypesOf,          \* transaction types in each, the unknown ones too
    VersionsOf,       \* transaction versions in each
    MAX_FIELD_COUNT,  \* size of the table of fields
    UINT32            \* number of values of a uint32_t

VARIABLES
    ctx,      \* parse_context_t: the position, the fields found, no error yet
    at,       \* where the parser is
    txn,      \* the common header of the transaction being parsed
    local,    \* variables of the function being executed
    frames    \* the calls of parse_multisig_transaction under way

parseVars == <<ctx, at, txn, local, frames>>

TRANSFER == "NEM_TXN_TRANSFER"
IMPORTANCE_TRANSFER == "NEM_TXN_IMPORTANCE_TRANSFER"
AGGREGATE_MODIFICATION == "NEM_TXN_MULTISIG_AGGREGATE_MODIFICATION"
SIGNATURE == "NEM_TXN_MULTISIG_SIGNATURE"
MULTISIG == "NEM_TXN_MULTISIG"
NAMESPACE == "NEM_TXN_PROVISION_NAMESPACE"
MOSAIC_DEFINITION == "NEM_TXN_MOSAIC_DEFINITION"
SUPPLY_CHANGE == "NEM_TXN_MOSAIC_SUPPLY_CHANGE"

ASSUME LengthsAssumption == Lengths \subseteq 0..(UINT32 - 1)
ASSUME WordsAssumption ==
    \A n \in Lengths : WordsOf[n] \subseteq 0..(UINT32 - 1)
ASSUME VersionsAssumption == \A n \in Lengths : VersionsOf[n] \subseteq 0..255
ASSUME FieldCountAssumption == MAX_FIELD_COUNT \in Nat
ASSUME Uint32Assumption == UINT32 \in Nat /\ UINT32 >= 256

\* What the parser may find in the buffer it has been given.
Words    == WordsOf[ctx.length]
Types    == TypesOf[ctx.length]
Versions == VersionsOf[ctx.length]

\* Sizes of the packed structures.
HEADER == 60            \* common_txn_header_t
FEE_AT == 48
ADDRESS == 40
ADDRESS_T == 44         \* a length and an address
PUBLICKEY == 32
PUBLICKEY_T == 36

\* A message that starts with 254 is hexadecimal; a mode is 1, 2, or neither.
FirstBytes == {0, 254}
Modes      == {1, 2, 3}

Names == {"nem", "xem", "other"}
Named(length) == IF length = 3 THEN Names ELSE {"other"}
STACK == -1             \* a field that points to a variable of the parser

-----------------------------------------------------------------------------
(* Reading, and adding fields.  `c` is the context so far. *)

\* Mutant: the last byte may be just past the end.
has_data_inclusive(c, n) == /\ (c.offset + n) % UINT32 >= c.offset
                            /\ (c.offset + n - 1) % UINT32 <= c.length

has_data(c, n) == /\ (c.offset + n) % UINT32 >= c.offset
                  /\ (c.offset + n - 1) % UINT32 < c.length

Require(c, condition) == [c EXCEPT !.ok = @ /\ condition]

read_data(c, n) == IF has_data(c, n) THEN [c EXCEPT !.offset = @ + n]
                   ELSE Require(c, FALSE)

\* Several reads, the next only after the one before succeeded.
Read(c, n) == IF c.ok THEN read_data(c, n) ELSE c

\* A field: where its data starts, the length recorded for it, and what is
\* found in the data that its formatter goes by (see Fields).
Add(c, id, start, length, head, tail) ==
    IF c.ok /\ Len(c.fields) < MAX_FIELD_COUNT
      THEN [c EXCEPT !.fields = Append(@, [id |-> id, at |-> start, length |-> length,
                                           head |-> head, tail |-> tail])]
      ELSE Require(c, FALSE)

add_new_field(c, id, start, length) == Add(c, id, start, length, 0, 0)

\* A field whose data is read on the spot.
AddRead(c, id, n) == add_new_field(Read(c, n), id, c.offset, n)

AddFee(c) == add_new_field(c, "NEM_UINT64_TXN_FEE", txn.header + FEE_AT, 8)

\* The unsigned difference of `whole` and its parts is zero.
Adds(whole, parts) == (whole - parts) % UINT32 = 0

\* The names of namespace and mosaic: two lengths besides.
Pair(n, m) == 4 + n + 4 + m

-----------------------------------------------------------------------------
(* Control *)

Go(c, next) == /\ ctx' = c
               /\ at' = IF c.ok THEN next ELSE "failed"

\* The function returns: to the loop over inner transactions, if any.
Return == "return"

\* Items counted and left to read; lengths of the structure, of the id in it
\* and of the id's first name; where the function's header, the count and the
\* id are; what the parts of a definition come to; the test for XEM, and the
\* true name of the namespace.
NoLocals == [count |-> 0, left |-> 0, struct |-> 0, id |-> 0, first |-> 0,
             txn |-> 0, pcount |-> 0, start |-> 0, sum |-> 0,
             isNem |-> FALSE, str |-> "other", namespace |-> "other"]

\* The common header, and the field that shows its type.
ReadHeader(c, id) ==
    add_new_field([Read(c, HEADER) EXCEPT !.headers = @ \cup {c.offset}],
                  id, c.offset, 4)

ParserInit ==
    /\ \E length \in Lengths :
          ctx = [offset |-> 0, length |-> length, transactionType |-> "none",
                 fields |-> <<>>, headers |-> {}, ok |-> TRUE]
    /\ at = "start"
    /\ txn = [header |-> 0, version |-> 0]
    /\ local = NoLocals
    /\ frames = <<>>

TopTypes == {TRANSFER, IMPORTANCE_TRANSFER, AGGREGATE_MODIFICATION, SIGNATURE,
             MULTISIG, NAMESPACE, MOSAIC_DEFINITION, SUPPLY_CHANGE}

\* What a multisig transaction may hold: anything but another one, and no
\* cosignature inside a cosignature.
InnerTypes == TopTypes \ ({MULTISIG} \cup
                          (IF ctx.transactionType = SIGNATURE THEN {SIGNATURE}
                           ELSE {}))

\* parse_common_header and parse_txn_detail.  A whole header gives its type to
\* the context before anything is checked; an unknown type has its field too.
parse_txn_detail ==
    /\ at = "start"
    /\ \E type \in Types, version \in Versions :
          LET c == ReadHeader(ctx, "NEM_UINT32_TRANSACTION_TYPE")
          IN  /\ Go(Require([c EXCEPT !.transactionType =
                                IF ctx.length >= HEADER THEN type ELSE @],
                            type \in TopTypes), type)
              /\ txn' = [header |-> ctx.offset, version |-> version]
    /\ UNCHANGED <<local, frames>>

-----------------------------------------------------------------------------
(* Transfer *)

\* The first part: the recipient, and the amount of a version 1.  Of the
\* buffer `str` nothing is known before a name is written to it.
parse_transfer_transaction ==
    /\ at = TRANSFER
    /\ \E recipientLength, msgLen \in Words, str \in Names :
          LET c0 == Require(Read(ctx, ADDRESS_T + 12), recipientLength <= ADDRESS)
              c1 == add_new_field(c0, "NEM_STR_RECIPIENT_ADDRESS",
                                  ctx.offset + 4, ADDRESS)
              c2 == IF txn.version = 1
                      THEN add_new_field(c1, "NEM_MOSAIC_AMOUNT",
                                         ctx.offset + ADDRESS_T, 8)
                      ELSE c1
          IN  /\ IF msgLen = 0
                   THEN Go(AddFee(add_new_field(c2, "NEM_STR_TXN_MESSAGE",
                                                ctx.offset + ADDRESS_T + 8, 0)),
                           "mosaics")
                   ELSE Go(c2, "message")
              /\ local' = [NoLocals EXCEPT !.txn = ctx.offset, !.str = str]
    /\ UNCHANGED <<txn, frames>>

TransferMessage ==
    /\ at = "message"
    /\ \E payloadType, payloadLength \in Words, first \in FirstBytes :
          LET c == Read(Read(ctx, 4), 4)
          IN  Go(AddFee(IF payloadType = 1
                          THEN Add(Read(c, payloadLength), "NEM_STR_TXN_MESSAGE",
                                   c.offset, payloadLength, first, 0)
                          ELSE add_new_field(c, "NEM_STR_ENC_MESSAGE",
                                             ctx.offset + 4, 0)),
                 "mosaics")
    /\ UNCHANGED <<txn, local, frames>>

\* A version 2 has a count of mosaics; without mosaics the amount is added as
\* one more fee.
TransferMosaics ==
    /\ at = "mosaics"
    /\ \/ /\ txn.version # 2
          /\ at' = Return
          /\ UNCHANGED <<ctx, local>>
       \/ \E n \in Words :
             LET c == Read(ctx, 4)
             IN  /\ txn.version = 2
                 /\ CASE n = 0 ->
                           Go(add_new_field(c, "NEM_UINT64_TXN_FEE",
                                            local.txn + ADDRESS_T, 8), Return)
                      [] n = 1 -> Go(c, "mosaic")
                      [] n > 1 ->
                           Go(add_new_field(c, "NEM_UINT32_MOSAIC_COUNT",
                                            ctx.offset, 4), "mosaic")
                 /\ local' = [local EXCEPT !.count = n, !.left = n,
                                           !.pcount = ctx.offset]
    /\ UNCHANGED <<txn, frames>>

TransferMosaic ==
    /\ at = "mosaic"
    /\ \E mosaicLen, mosaicIdLen \in Words :
          LET c0 == Read(ctx, 4)
              c1 == Require(c0, has_data(c0, mosaicLen))
              c2 == Read(c1, 4)
          IN  /\ Go(Require(c2, /\ has_data(c2, mosaicIdLen)
                                /\ Adds(mosaicLen, 4 + mosaicIdLen + 8)),
                    "mosaic_namespace")
              /\ local' = [local EXCEPT !.id = mosaicIdLen]
    /\ UNCHANGED <<txn, frames>>

\* A name that is empty, or too long for `str`, leaves it as it is.
ascii_name(str, name, length) == IF length \in 1..31 THEN name ELSE str

MosaicNamespace ==
    /\ at = "mosaic_namespace"
    /\ \E nsIdLen \in Words : \E namespace \in Named(nsIdLen) :
          LET str == ascii_name(local.str, namespace, nsIdLen)
          IN  /\ Go(Read(Read(ctx, 4), nsIdLen), "mosaic_name")
              /\ local' = [local EXCEPT !.start = ctx.offset,
                                        !.first = nsIdLen,
                                        !.str = str,
                                        !.isNem = str = "nem",
                                        !.namespace = namespace]
    /\ UNCHANGED <<txn, frames>>

\* The fields of a mosaic that is not recognised as XEM.
UnknownMosaic(c, mosaicNameLen) ==
    LET c0 == IF local.count = 1
                THEN add_new_field(c, "NEM_UINT32_MOSAIC_COUNT", local.pcount, 4)
                ELSE c
        c1 == add_new_field(c0, "NEM_MOSAIC_UNKNOWN_TYPE", STACK, 0)
        c2 == Add(c1, "NEM_STR_TRANSFER_MOSAIC", local.start, local.id,
                  local.first, mosaicNameLen)
    IN  AddRead(c2, "NEM_MOSAIC_UNITS", 8)

\* Mutant: the loop stops one mosaic short.
LastMosaic_early == local.left <= 2

LastMosaic == local.left = 1

MosaicName ==
    /\ at = "mosaic_name"
    /\ \E mosaicNameLen \in Words : \E name \in Named(mosaicNameLen) :
          LET c0 == Require(Read(ctx, 4),
                            Adds(local.id, Pair(local.first, mosaicNameLen)))
              c1 == Read(c0, mosaicNameLen)
              str == ascii_name(local.str, name, mosaicNameLen)
          IN  /\ Go(IF local.isNem /\ str = "xem"
                      THEN AddRead(c1, "NEM_MOSAIC_AMOUNT", 8)
                      ELSE UnknownMosaic(c1, mosaicNameLen),
                    IF LastMosaic THEN Return ELSE "mosaic")
              /\ local' = [local EXCEPT !.str = str, !.left = @ - 1]
    /\ UNCHANGED <<txn, frames>>

-----------------------------------------------------------------------------
(* Importance transfer and aggregate modification *)

parse_importance_transfer_transaction ==
    /\ at = IMPORTANCE_TRANSFER
    /\ \E iMode \in Modes, publicKeyLength \in Words :
          LET c0 == Require(Read(ctx, 4 + PUBLICKEY_T),
                            publicKeyLength <= PUBLICKEY)
              c1 == Add(c0, "NEM_UINT32_IT_MODE", ctx.offset, 1, iMode, 0)
              c2 == add_new_field(c1, "NEM_PUBLICKEY_IT_REMOTE",
                                  ctx.offset + 8, PUBLICKEY)
          IN  Go(AddFee(c2), Return)
    /\ UNCHANGED <<txn, local, frames>>

parse_aggregate_modification_transaction ==
    /\ at = AGGREGATE_MODIFICATION
    /\ \E cmNum \in Words :
          /\ Go(add_new_field(Read(ctx, 4), "NEM_UINT32_AM_COSIGNATORY_NUM",
                              ctx.offset, 4), "modification")
          /\ local' = [NoLocals EXCEPT !.count = cmNum, !.left = cmNum]
    /\ UNCHANGED <<txn, frames>>

Modification ==
    /\ at = "modification"
    /\ local.left > 0
    /\ \E amType \in Modes, publicKeyLength \in Words :
          LET c0 == Require(Read(ctx, 8 + PUBLICKEY_T),
                            publicKeyLength <= PUBLICKEY)
              c1 == Add(c0, "NEM_UINT32_AM_MODICATION_TYPE", ctx.offset + 4, 4,
                        amType, 0)
          IN  Go(add_new_field(c1, "NEM_PUBLICKEY_AM_COSIGNATORY",
                               ctx.offset + 12, PUBLICKEY), "modification")
    /\ local' = [local EXCEPT !.left = @ - 1]
    /\ UNCHANGED <<txn, frames>>

RelativeChange ==
    /\ at = "modification"
    /\ local.left = 0
    /\ \E cmLen \in Words :
          LET c0 == Read(ctx, 4)
              id == "NEM_UINT32_AM_RELATIVE_CHANGE"
          IN  Go(AddFee(CASE txn.version # 2 -> ctx
                          [] txn.version = 2 /\ cmLen > 0 -> AddRead(c0, id, 4)
                          [] txn.version = 2 /\ cmLen = 0 ->
                               add_new_field(c0, id, ctx.offset, 4)),
                 Return)
    /\ UNCHANGED <<txn, local, frames>>

-----------------------------------------------------------------------------
(* Namespaces *)

parse_provision_namespace_transaction ==
    /\ at = NAMESPACE
    /\ \E addressLength, newLen \in Words :
          LET c == Require(Read(ctx, ADDRESS_T + 8), addressLength <= ADDRESS)
          IN  /\ Go(AddRead(Read(c, 4), "NEM_STR_NAMESPACE", newLen), "parent")
              /\ local' = [NoLocals EXCEPT !.txn = ctx.offset, !.id = addressLength]
    /\ UNCHANGED <<txn, frames>>

ParentNamespace ==
    /\ at = "parent"
    /\ \E len \in Words :
          LET c0 == Read(ctx, 4)
              c1 == IF len = UINT32 - 1
                      THEN add_new_field(c0, "NEM_STR_ROOT_NAMESPACE", STACK, 4)
                      ELSE AddRead(c0, "NEM_STR_PARENT_NAMESPACE", len)
              c2 == add_new_field(c1, "NEM_STR_SINK_ADDRESS", local.txn + 4,
                                  local.id)
          IN  Go(AddFee(add_new_field(c2, "NEM_UINT64_RENTAL_FEE",
                                      local.txn + ADDRESS_T, 8)), Return)
    /\ UNCHANGED <<txn, local, frames>>

-----------------------------------------------------------------------------
(* Mosaic definition.  `struct` is the length of the whole definition, `sum`
   what its parts have come to. *)

parse_mosaic_definition_creation_transaction ==
    /\ at = MOSAIC_DEFINITION
    /\ \E mdsLen, publicKeyLength \in Words :
          LET c0 == Read(ctx, 4)
              c1 == Read(Require(c0, has_data(c0, mdsLen)), PUBLICKEY_T)
          IN  /\ Go(Require(c1, publicKeyLength <= PUBLICKEY), "mosaic_id")
              /\ local' = [NoLocals EXCEPT !.struct = mdsLen]
    /\ UNCHANGED <<txn, frames>>

MosaicId ==
    /\ at = "mosaic_id"
    /\ \E midsLen, nsIdLen \in Words :
          /\ Go(AddRead(Read(Read(ctx, 4), 4), "NEM_STR_PARENT_NAMESPACE",
                        nsIdLen), "mosaic_id_name")
          /\ local' = [local EXCEPT !.id = midsLen, !.first = nsIdLen]
    /\ UNCHANGED <<txn, frames>>

MosaicIdName ==
    /\ at = "mosaic_id_name"
    /\ \E mosaicNameLen \in Words :
          Go(AddRead(Require(Read(ctx, 4),
                             Adds(local.id, Pair(local.first, mosaicNameLen))),
                     "NEM_STR_MOSAIC", mosaicNameLen), "description")
    /\ UNCHANGED <<txn, local, frames>>

MosaicDescription ==
    /\ at = "description"
    /\ \E desLen, propertyNum \in Words :
          /\ Go(Read(AddRead(Read(ctx, 4), "NEM_STR_DESCRIPTION", desLen), 4),
                "property")
          /\ local' = [local EXCEPT
                         !.left = propertyNum,
                         !.sum = PUBLICKEY_T + 4 + local.id + 4 + desLen + 4]
    /\ UNCHANGED <<txn, frames>>

\* Mutant: the lengths of a property are not compared.
PropertyAdds_unchecked(proStructLen, proNameLen, proValLen) == TRUE

PropertyAdds(proStructLen, proNameLen, proValLen) ==
    Adds(proStructLen, Pair(proNameLen, proValLen))

MosaicProperty ==
    /\ at = "property"
    /\ local.left > 0
    /\ \E proStructLen, proNameLen, proValLen \in Words :
          LET c0 == Read(ctx, 4)
              c1 == Read(Require(c0, has_data(c0, proStructLen)), 4)
              c2 == Read(Read(c1, proNameLen), 4)
              c3 == Require(c2, PropertyAdds(proStructLen, proNameLen, proValLen))
          IN  /\ Go(Add(Read(c3, proValLen), "NEM_STR_PROPERTY", c0.offset,
                        proStructLen, proNameLen, proValLen), "property")
              /\ local' = [local EXCEPT !.left = @ - 1,
                                        !.sum = @ + 4 + proStructLen]
    /\ UNCHANGED <<txn, frames>>

MosaicLevyLength ==
    /\ at = "property"
    /\ local.left = 0
    /\ \E levyLen \in Words :
          LET c == Read(ctx, 4)
          IN  /\ IF levyLen > 0
                   THEN Go(Require(c, has_data(c, levyLen)), "levy")
                   ELSE Go(c, "sink")
              /\ local' = [local EXCEPT !.left = levyLen,
                                        !.sum = @ + 4 + levyLen]
    /\ UNCHANGED <<txn, frames>>

\* The levy structure, then the pair of names whose length it gives.
MosaicLevy ==
    /\ at = "levy"
    /\ \E feeType, addressLength, msIdLen, nsidLen \in Words :
          LET c == Require(Read(ctx, 4 + ADDRESS_T + 4),
                           /\ feeType \in {1, 2}
                           /\ addressLength <= ADDRESS
                           /\ msIdLen <= local.struct)
          IN  /\ Go(Read(Read(c, 4), nsidLen), "levy_name")
              /\ local' = [local EXCEPT !.start = ctx.offset,
                                        !.id = msIdLen, !.first = nsidLen]
    /\ UNCHANGED <<txn, frames>>

MosaicLevyName ==
    /\ at = "levy_name"
    /\ \E mnLen \in Words :
          LET structure == 4 + ADDRESS_T + 4
              c0 == Require(Read(ctx, 4),
                            /\ Adds(local.id, Pair(local.first, mnLen))
                            /\ Adds(local.left, structure + local.id + 8))
              c1 == Add(Read(c0, mnLen), "NEM_STR_LEVY_MOSAIC",
                        local.start + structure, local.id, local.first, mnLen)
              c2 == add_new_field(c1, "NEM_STR_LEVY_ADDRESS", local.start + 8,
                                  ADDRESS)
              c3 == add_new_field(c2, "NEM_UINT32_LEVY_FEE_TYPE", local.start, 4)
          IN  Go(AddRead(c3, "NEM_UINT64_LEVY_FEE", 8), "sink")
    /\ UNCHANGED <<txn, local, frames>>

MosaicSink ==
    /\ at = "sink"
    /\ \E addressLength \in Words :
          LET c0 == Read(Require(ctx, Adds(local.struct, local.sum)),
                         ADDRESS_T + 8)
              c1 == add_new_field(Require(c0, addressLength <= ADDRESS),
                                  "NEM_STR_SINK_ADDRESS", ctx.offset + 4, ADDRESS)
          IN  Go(AddFee(add_new_field(c1, "NEM_UINT64_RENTAL_FEE",
                                      ctx.offset + ADDRESS_T, 8)), Return)
    /\ UNCHANGED <<txn, local, frames>>

-----------------------------------------------------------------------------
(* Mosaic supply change *)

parse_mosaic_supply_change_transaction ==
    /\ at = SUPPLY_CHANGE
    /\ \E msidLen, nsidLen \in Words :
          /\ Go(AddRead(Read(Read(ctx, 4), 4), "NEM_STR_NAMESPACE", nsidLen),
                "supply")
          /\ local' = [NoLocals EXCEPT !.id = msidLen, !.first = nsidLen]
    /\ UNCHANGED <<txn, frames>>

MosaicSupply ==
    /\ at = "supply"
    /\ \E msnLen, supplyType \in Words :
          LET c0 == AddRead(Require(Read(ctx, 4),
                                    Adds(local.id, Pair(local.first, msnLen))),
                            "NEM_STR_MOSAIC", msnLen)
              c1 == Read(c0, 4)
          IN  Go(AddFee(CASE supplyType = 1 ->
                               AddRead(c1, "NEM_MOSAIC_CREATE_SUPPLY_DELTA", 8)
                          [] supplyType = 2 ->
                               AddRead(c1, "NEM_MOSAIC_DELETE_SUPPLY_DELTA", 8)
                          [] OTHER -> Require(c1, FALSE)), Return)
    /\ UNCHANGED <<txn, local, frames>>

-----------------------------------------------------------------------------
(* Multisig transactions and cosignatures *)

\* Mutant: the fee of the outer transaction is left out.
EnterMultisig_without_fee(c, innerLength, isInner) ==
    LET c0 == Read(c, 4)
    IN  /\ Go(Require(c0, has_data(c0, innerLength)), Return)
        /\ frames' = Append(frames, [isInner |-> isInner, left |-> innerLength,
                                     start |-> c0.offset,
                                     end |-> c0.offset + innerLength])

\* The call of parse_multisig_transaction, up to its loop.  `left` is what
\* innerOffset lacks to innerTxnLength, `start` is where the inner transaction
\* began; the first one has taken nothing yet.  `end` is where the last one
\* should end: nothing in the code depends on it.
EnterMultisig(c, innerLength, isInner) ==
    LET c0 == Read(c, 4)
        c1 == Require(c0, has_data(c0, innerLength))
    IN  /\ Go(add_new_field(c1, "NEM_UINT64_MULTISIG_FEE", txn.header + FEE_AT, 8),
              Return)
        /\ frames' = Append(frames, [isInner |-> isInner, left |-> innerLength,
                                     start |-> c0.offset,
                                     end |-> c0.offset + innerLength])

parse_multisig_transaction ==
    /\ at = MULTISIG
    /\ \E innerLength \in Words : EnterMultisig(ctx, innerLength, TRUE)
    /\ UNCHANGED <<txn, local>>

parse_multisig_signature_transaction ==
    /\ at = SIGNATURE
    /\ \E addressLength, hashLength, innerLength \in Words :
          LET c0 == Require(Read(ctx, 8 + PUBLICKEY + ADDRESS_T),
                            /\ addressLength <= ADDRESS
                            /\ hashLength <= PUBLICKEY)
              c1 == add_new_field(c0, "NEM_HASH256", ctx.offset + 8, hashLength)
              c2 == add_new_field(c1, "NEM_STR_MULTISIG_ADDRESS",
                                  ctx.offset + 8 + PUBLICKEY + 4, ADDRESS)
          IN  EnterMultisig(c2, innerLength, FALSE)
    /\ UNCHANGED <<txn, local>>

\* Mutant: the header of the transaction that ends is counted twice.
Remaining_header_twice ==
    LET top == frames[Len(frames)]
    IN  top.left - (ctx.offset - top.start) - HEADER

\* What the innermost loop still has to read, once the transaction that ends
\* here is counted.
Remaining == LET top == frames[Len(frames)]
             IN  top.left - (ctx.offset - top.start)

\* The loop reads one more inner transaction.
NextInner ==
    /\ at = Return
    /\ frames # <<>>
    /\ Remaining > 0
    /\ \E type \in Types, version \in Versions :
          LET c == ReadHeader(ctx, IF frames[Len(frames)].isInner
                                     THEN "NEM_UINT32_INNER_TRANSACTION_TYPE"
                                     ELSE "NEM_UINT32_DETAIL_TRANSACTION_TYPE")
          IN  /\ Go(Require(c, type \in InnerTypes), type)
              /\ txn' = [header |-> ctx.offset, version |-> version]
    /\ frames' = [frames EXCEPT ![Len(frames)] =
                     [@ EXCEPT !.left = Remaining, !.start = ctx.offset]]
    /\ UNCHANGED local

\* parse_multisig_transaction returns.
LeaveMultisig ==
    /\ at = Return
    /\ frames # <<>>
    /\ Remaining <= 0
    /\ frames' = Front(frames)
    /\ UNCHANGED <<ctx, at, txn, local>>

\* parse_txn_context returns success.
Parsed ==
    /\ at = Return
    /\ frames = <<>>
    /\ at' = "parsed"
    /\ UNCHANGED <<ctx, txn, local, frames>>

ParserStep ==
    \/ parse_txn_detail
    \/ parse_transfer_transaction \/ TransferMessage \/ TransferMosaics
    \/ TransferMosaic \/ MosaicNamespace \/ MosaicName
    \/ parse_importance_transfer_transaction
    \/ parse_aggregate_modification_transaction \/ Modification \/ RelativeChange
    \/ parse_provision_namespace_transaction \/ ParentNamespace
    \/ parse_mosaic_definition_creation_transaction \/ MosaicId \/ MosaicIdName
    \/ MosaicDescription \/ MosaicProperty \/ MosaicLevyLength \/ MosaicLevy
    \/ MosaicLevyName \/ MosaicSink
    \/ parse_mosaic_supply_change_transaction \/ MosaicSupply
    \/ parse_multisig_transaction \/ parse_multisig_signature_transaction
    \/ NextInner \/ LeaveMultisig \/ Parsed

ParserSpec == ParserInit /\ [][ParserStep]_parseVars
=============================================================================
