---------------------------- MODULE ParseProofs ----------------------------
(* The parser keeps ParserInv: one lemma for each action, then the theorems.
   In the proof of an action c0, c1, ... are the context after each of its reads
   and fields, the last of which the action takes the parser to. *)
EXTENDS ParseLemmas

-----------------------------------------------------------------------------
(* Importance transfers, namespaces and mosaic definitions *)

LEMMA ImportanceTransferStep ==
    ASSUME ParserInv, parse_importance_transfer_transaction
    PROVE  ParserInv'
<1> DEFINE fits(p)  == p <= PUBLICKEY
           c0(p)    == Require(Read(ctx, 4 + PUBLICKEY_T), fits(p))
           c1(m, p) == Add(c0(p), "NEM_UINT32_IT_MODE", ctx.offset, 1, m, 0)
           c2(m, p) == add_new_field(c1(m, p), "NEM_PUBLICKEY_IT_REMOTE",
                                     ctx.offset + 8, PUBLICKEY)
<1>1. PICK m \in Modes, p \in Words : Go(AddFee(c2(m, p)), Return)
  BY DEF parse_importance_transfer_transaction
<1>2. at \in OtherPoints /\ at \in BodyPoints /\ UNCHANGED <<txn, local, frames>>
  BY OtherPointsAre DEF parse_importance_transfer_transaction
<1>3. fits(p) \in BOOLEAN
  OBVIOUS
<1> HIDE DEF fits, c0, c1, c2
<1>4. Moves(ctx, c0(p), 40)
  <2>1. Moves(ctx, Read(ctx, 4 + PUBLICKEY_T), 40)
    BY <1>2, BodyStart, ReadMoves DEF PUBLICKEY_T
  <2> QED BY <1>2, <1>3, <2>1, BodyStart, ThenRequire DEF c0
<1>5. Moves(ctx, c1(m, p), 40)
  BY <1>2, <1>4, BodyStart, ThenAddAt, FieldsFit DEF c1, Modes
<1>6. Moves(ctx, c2(m, p), 40)
  BY <1>2, <1>5, BodyStart, ThenNew, FieldsFit DEF c2, PUBLICKEY
<1> QED BY <1>1, <1>2, <1>6, LastStep

LEMMA ProvisionNamespaceStep ==
    ASSUME ParserInv, parse_provision_namespace_transaction
    PROVE  ParserInv'
<1> DEFINE fits(a) == a <= ADDRESS
           c0(a)    == Require(Read(ctx, ADDRESS_T + 8), fits(a))
           c1(a)    == Read(c0(a), 4)
           c2(a, l) == AddRead(c1(a), "NEM_STR_NAMESPACE", l)
<1>1. PICK a \in Words, l \in Words :
         /\ Go(c2(a, l), "parent")
         /\ local' = [NoLocals EXCEPT !.txn = ctx.offset, !.id = a]
  BY DEF parse_provision_namespace_transaction
<1>2. /\ at \in OtherPoints /\ at \in BodyPoints /\ UNCHANGED <<txn, frames>>
      /\ "parent" \in BodyPoints \ FeePoints
  BY OtherPointsAre DEF parse_provision_namespace_transaction
<1>3. fits(a) \in BOOLEAN /\ a \in Uint32 /\ l \in Uint32 /\ a \in Nat /\ l \in Nat
  BY <1>2, BodyStart DEF Uint32
<1>4. fits(a) => a <= ADDRESS
  OBVIOUS
<1> HIDE DEF fits, c0, c1, c2
<1>5. Moves(ctx, c0(a), 52) /\ (c0(a).ok => fits(a))
  <2>1. Moves(ctx, Read(ctx, ADDRESS_T + 8), 52)
    BY <1>2, BodyStart, ReadMoves DEF ADDRESS_T
  <2> QED BY <1>2, <1>3, <2>1, BodyStart, ThenRequire DEF c0
<1>6. Moves(ctx, c1(a), 56) /\ (c1(a).ok => c0(a).ok)
  <2>1. Good(c0(a)) /\ 4 \in Uint32 /\ Good(ctx)
    BY <1>2, <1>5, BodyStart DEF Moves
  <2>2. Moves(ctx, c1(a), 56)
    BY <1>5, <2>1, ThenRead DEF c1
  <2> QED BY <2>1, <2>2, OkBefore DEF c1
<1>7. Moves(ctx, c2(a, l), 56 + l)
  BY <1>2, <1>3, <1>6, BodyStart, ThenAddRead, FieldsFit DEF c2
<1>8. c2(a, l).ok => a <= ADDRESS
  BY <1>4, <1>5, <1>6, OkBefore, ReadMoves, <1>3 DEF c2, AddRead, add_new_field, Moves
<1>9. local' \in Locals /\ LocalsBehind'
  <2>1. /\ local'.txn = ctx.offset /\ local'.id = a /\ local'.struct = 0
        /\ local'.first = 0 /\ local' \in Locals
    BY <1>1, <1>2, <1>3, BodyStart, NoLocalsTyped DEF NoLocals, Locals
  <2>2. /\ {local'.struct, local'.id, local'.first} \subseteq Uint32
        /\ at' \in {"parent", "failed"} /\ (at' # "failed" => c2(a, l).ok) /\ ctx' = c2(a, l)
    BY <1>1, <1>2, <1>3, <2>1, BodyStart DEF Go
  <2>3. at' = "parent" => local'.txn + ADDRESS_T + 8 <= ctx'.offset /\ local'.id <= ADDRESS
    BY <1>2, <1>3, <1>7, <1>8, <2>1, <2>2, BodyStart DEF Moves, ADDRESS_T
  <2> QED BY <2>1, <2>2, <2>3 DEF LocalsBehind, MosaicPoints
<1> QED BY <1>1, <1>2, <1>3, <1>7, <1>9, OtherStep

LEMMA ParentNamespaceStep ==
    ASSUME ParserInv, ParentNamespace
    PROVE  ParserInv'
<1> DEFINE c0    == Read(ctx, 4)
           c1(l) == IF l = UINT32 - 1
                      THEN add_new_field(c0, "NEM_STR_ROOT_NAMESPACE", STACK, 4)
                      ELSE AddRead(c0, "NEM_STR_PARENT_NAMESPACE", l)
           c2(l) == add_new_field(c1(l), "NEM_STR_SINK_ADDRESS", local.txn + 4, local.id)
           c3(l) == add_new_field(c2(l), "NEM_UINT64_RENTAL_FEE",
                                  local.txn + ADDRESS_T, 8)
<1>1. PICK l \in Words : Go(AddFee(c3(l)), Return)
  BY DEF ParentNamespace
<1>2. /\ at \in OtherPoints /\ at \in BodyPoints /\ UNCHANGED <<txn, local, frames>>
      /\ at = "parent"
  BY OtherPointsAre DEF ParentNamespace
<1>3. l \in Uint32 /\ l \in Nat
  BY <1>2, BodyStart DEF Uint32
<1>4. /\ local.txn + ADDRESS_T + 8 <= ctx.offset /\ local.id \in 0..ADDRESS
      /\ local.txn \in Nat
  BY <1>2, BodyStart DEF ParserInv, LocalsBehind, Locals
<1> HIDE DEF c0, c1, c2, c3
<1>5. Moves(ctx, c0, 4)
  BY <1>2, BodyStart, ReadMoves DEF c0
<1>6. PICK n \in Nat : Moves(ctx, c1(l), n)
  <2>1. CASE l = UINT32 - 1
    <3>1. HasNoData("NEM_STR_ROOT_NAMESPACE")
      BY DEF HasNoData
    <3>2. Moves(ctx, c1(l), 4)
      BY <1>2, <1>5, <2>1, <3>1, BodyStart, ThenStack, FieldsFit DEF c1
    <3> QED BY <3>2
  <2>2. CASE l # UINT32 - 1
    <3>1. Moves(ctx, c1(l), 4 + l)
      BY <1>2, <1>3, <1>5, <2>2, BodyStart, ThenAddRead, FieldsFit DEF c1
    <3> QED BY <1>3, <3>1
  <2> QED BY <2>1, <2>2
<1>7. Moves(ctx, c2(l), n)
  <2>1. Takes("NEM_STR_SINK_ADDRESS", local.id, 0, 0, local.id)
    BY <1>4, FieldsFit
  <2>2. /\ local.txn + 4 \in Nat /\ local.id \in Nat
        /\ local.txn + 4 + local.id <= ctx.offset + n
    BY <1>2, <1>4, <1>6, BodyStart DEF ADDRESS, ADDRESS_T
  <2> QED BY <1>2, <1>6, <2>1, <2>2, BodyStart, ThenNew DEF c2
<1>8. Moves(ctx, c3(l), n)
  <2>1. Takes("NEM_UINT64_RENTAL_FEE", 8, 0, 0, 8)
    BY FieldsFit
  <2>2. /\ local.txn + ADDRESS_T \in Nat
        /\ local.txn + ADDRESS_T + 8 <= ctx.offset + n
    BY <1>2, <1>4, <1>6, BodyStart DEF ADDRESS_T
  <2> QED BY <1>2, <1>7, <2>1, <2>2, BodyStart, ThenNew DEF c3
<1> QED BY <1>1, <1>2, <1>8, LastStep

LEMMA MosaicDefinitionStep ==
    ASSUME ParserInv, parse_mosaic_definition_creation_transaction
    PROVE  ParserInv'
<1> DEFINE c0       == Read(ctx, 4)
           there(s) == has_data(c0, s)
           fits(p)  == p <= PUBLICKEY
           c1(s)    == Read(Require(c0, there(s)), PUBLICKEY_T)
           c2(s, p) == Require(c1(s), fits(p))
<1>1. PICK s \in Words, p \in Words :
         /\ Go(c2(s, p), "mosaic_id")
         /\ local' = [NoLocals EXCEPT !.struct = s]
  BY DEF parse_mosaic_definition_creation_transaction
<1>2. /\ at \in OtherPoints /\ at \in BodyPoints /\ UNCHANGED <<txn, frames>>
      /\ "mosaic_id" \in BodyPoints \ FeePoints /\ "mosaic_id" \in PlainPoints
  BY OtherPointsAre DEF parse_mosaic_definition_creation_transaction
<1>3. fits(p) \in BOOLEAN /\ there(s) \in BOOLEAN /\ s \in Uint32 /\ s \in Nat
  BY <1>2, BodyStart DEF Uint32, has_data
<1> HIDE DEF c0, there, fits, c1, c2
<1>4. Moves(ctx, c0, 4)
  BY <1>2, BodyStart, ReadMoves DEF c0
<1>5. Moves(ctx, c1(s), 40)
  <2>1. Moves(ctx, Require(c0, there(s)), 4)
    BY <1>2, <1>3, <1>4, BodyStart, ThenRequire
  <2> QED BY <1>2, <2>1, BodyStart, ThenRead DEF c1, PUBLICKEY_T
<1>6. Moves(ctx, c2(s, p), 40)
  BY <1>2, <1>3, <1>5, BodyStart, ThenRequire DEF c2
<1>7. local' \in Locals /\ LocalsBehind'
  <2>1. /\ local'.id = 0 /\ local'.struct = s /\ local'.first = 0 /\ local' \in Locals
    BY <1>1, <1>3, NoLocalsTyped DEF NoLocals, Locals
  <2>2. at' \in PlainPoints \cup {"failed"}
    BY <1>1, <1>2 DEF Go
  <2> QED BY <1>2, <1>3, <2>1, <2>2, BodyStart, LocalsFree
<1> QED BY <1>1, <1>2, <1>6, <1>7, OtherStep

LEMMA MosaicIdStep ==
    ASSUME ParserInv, MosaicId
    PROVE  ParserInv'
<1> DEFINE c0    == Read(ctx, 4)
           c1    == Read(c0, 4)
           c2(l) == AddRead(c1, "NEM_STR_PARENT_NAMESPACE", l)
<1>1. PICK i \in Words, l \in Words :
         /\ Go(c2(l), "mosaic_id_name")
         /\ local' = [local EXCEPT !.id = i, !.first = l]
  BY DEF MosaicId
<1>2. /\ at \in OtherPoints /\ at \in BodyPoints /\ UNCHANGED <<txn, frames>>
      /\ "mosaic_id_name" \in BodyPoints \ FeePoints /\ "mosaic_id_name" \in PlainPoints
  BY OtherPointsAre DEF MosaicId
<1>3. i \in Uint32 /\ i \in Nat /\ l \in Uint32 /\ l \in Nat
  BY <1>2, BodyStart DEF Uint32
<1> HIDE DEF c0, c1, c2
<1>4. Moves(ctx, c0, 4)
  BY <1>2, BodyStart, ReadMoves DEF c0
<1>5. Moves(ctx, c1, 8)
  BY <1>2, <1>4, BodyStart, ThenRead DEF c1
<1>6. Moves(ctx, c2(l), 8 + l)
  BY <1>2, <1>3, <1>5, BodyStart, ThenAddRead, FieldsFit DEF c2
<1>7. local' \in Locals /\ LocalsBehind'
  <2>1. /\ local'.id = i /\ local'.struct = local.struct /\ local'.first = l
        /\ local' \in Locals
    BY <1>1, <1>2, <1>3, BodyStart DEF Locals
  <2>2. at' \in PlainPoints \cup {"failed"}
    BY <1>1, <1>2 DEF Go
  <2> QED BY <1>2, <1>3, <2>1, <2>2, BodyStart, LocalsFree
<1> QED BY <1>1, <1>2, <1>3, <1>6, <1>7, OtherStep

LEMMA MosaicIdNameStep ==
    ASSUME ParserInv, MosaicIdName
    PROVE  ParserInv'
<1> DEFINE adds(l) == Adds(local.id, Pair(local.first, l))
           c0      == Read(ctx, 4)
           c1(l)   == Require(c0, adds(l))
           c2(l)   == AddRead(c1(l), "NEM_STR_MOSAIC", l)
<1>1. PICK l \in Words : Go(c2(l), "description")
  BY DEF MosaicIdName
<1>2. /\ at \in OtherPoints /\ at \in BodyPoints /\ UNCHANGED <<txn, local, frames>>
      /\ "description" \in BodyPoints \ FeePoints /\ "description" \in PlainPoints
  BY OtherPointsAre DEF MosaicIdName
<1>3. l \in Uint32 /\ l \in Nat /\ adds(l) \in BOOLEAN
  BY <1>2, BodyStart DEF Uint32, Adds
<1> HIDE DEF adds, c0, c1, c2
<1>4. Moves(ctx, c0, 4)
  BY <1>2, BodyStart, ReadMoves DEF c0
<1>5. Moves(ctx, c1(l), 4)
  BY <1>2, <1>3, <1>4, BodyStart, ThenRequire DEF c1
<1>6. Moves(ctx, c2(l), 4 + l)
  BY <1>2, <1>3, <1>5, BodyStart, ThenAddRead, FieldsFit DEF c2
<1>7. local' \in Locals /\ LocalsBehind'
  BY <1>1, <1>2, BodyStart, LocalsFree DEF Go
<1> QED BY <1>1, <1>2, <1>3, <1>6, <1>7, OtherStep

LEMMA MosaicDescriptionStep ==
    ASSUME ParserInv, MosaicDescription
    PROVE  ParserInv'
<1> DEFINE c0    == Read(ctx, 4)
           c1(l) == AddRead(c0, "NEM_STR_DESCRIPTION", l)
           c2(l) == Read(c1(l), 4)
<1>1. PICK l \in Words, k \in Words :
         /\ Go(c2(l), "property")
         /\ local' = [local EXCEPT
                        !.left = k,
                        !.sum = PUBLICKEY_T + 4 + local.id + 4 + l + 4]
  BY DEF MosaicDescription
<1>2. /\ at \in OtherPoints /\ at \in BodyPoints /\ UNCHANGED <<txn, frames>>
      /\ "property" \in BodyPoints \ FeePoints /\ "property" \in PlainPoints
  BY OtherPointsAre DEF MosaicDescription
<1>3. l \in Uint32 /\ l \in Nat /\ k \in Nat
  BY <1>2, BodyStart DEF Uint32
<1> HIDE DEF c0, c1, c2
<1>4. Moves(ctx, c0, 4)
  BY <1>2, BodyStart, ReadMoves DEF c0
<1>5. Moves(ctx, c1(l), 4 + l)
  BY <1>2, <1>3, <1>4, BodyStart, ThenAddRead, FieldsFit DEF c1
<1>6. Moves(ctx, c2(l), 8 + l)
  BY <1>2, <1>3, <1>5, BodyStart, ThenRead DEF c2
<1>7. local' \in Locals /\ LocalsBehind'
  <2>1. local.id \in Nat /\ PUBLICKEY_T + 4 + local.id + 4 + l + 4 \in Nat
    BY <1>2, <1>3, BodyStart DEF Locals, PUBLICKEY_T
  <2>2. /\ local'.id = local.id /\ local'.struct = local.struct
        /\ local'.first = local.first /\ local' \in Locals
    BY <1>1, <1>2, <1>3, <2>1, BodyStart DEF Locals
  <2>3. at' \in PlainPoints \cup {"failed"}
    BY <1>1, <1>2 DEF Go
  <2> QED BY <1>2, <2>2, <2>3, BodyStart, LocalsFree
<1> QED BY <1>1, <1>2, <1>3, <1>6, <1>7, OtherStep

\* A property is a pair: what its lengths come to has been read, and so cannot
\* wrap.
LEMMA MosaicPropertyStep ==
    ASSUME ParserInv, MosaicProperty
    PROVE  ParserInv'
<1> DEFINE c0          == Read(ctx, 4)
           there(s)    == has_data(c0, s)
           c1(s)       == Read(Require(c0, there(s)), 4)
           c2(s, n)    == Read(Read(c1(s), n), 4)
           adds(s, n, v) == PropertyAdds(s, n, v)
           c3(s, n, v) == Require(c2(s, n), adds(s, n, v))
           c4(s, n, v) == Read(c3(s, n, v), v)
           c5(s, n, v) == Add(c4(s, n, v), "NEM_STR_PROPERTY", c0.offset, s, n, v)
<1>1. PICK s \in Words, n \in Words, v \in Words :
         /\ Go(c5(s, n, v), "property")
         /\ local' = [local EXCEPT !.left = @ - 1, !.sum = @ + 4 + s]
  BY DEF MosaicProperty
<1>2. /\ at \in OtherPoints /\ at \in BodyPoints /\ UNCHANGED <<txn, frames>>
      /\ "property" \in BodyPoints \ FeePoints /\ "property" \in PlainPoints
      /\ local.left > 0
  BY OtherPointsAre DEF MosaicProperty
<1>3. /\ s \in Uint32 /\ n \in Uint32 /\ v \in Uint32
      /\ s \in Nat /\ n \in Nat /\ v \in Nat
  BY <1>2, BodyStart DEF Uint32
<1>4. there(s) \in BOOLEAN /\ adds(s, n, v) \in BOOLEAN
  BY DEF has_data, PropertyAdds, Adds
<1>5. adds(s, n, v) => Adds(s, Pair(n, v))
  BY DEF PropertyAdds
<1> HIDE DEF c0, there, c1, c2, adds, c3, c4, c5
<1>6. Moves(ctx, c0, 4)
  BY <1>2, BodyStart, ReadMoves DEF c0
<1>7. Moves(ctx, c1(s), 8) /\ (c1(s).ok => c0.ok)
  <2>1. Moves(ctx, Require(c0, there(s)), 4)
    BY <1>2, <1>4, <1>6, BodyStart, ThenRequire
  <2>2. Moves(ctx, c1(s), 8)
    BY <1>2, <2>1, BodyStart, ThenRead DEF c1
  <2>3. Good(c0) /\ Good(Require(c0, there(s)))
    BY <1>6, <2>1 DEF Moves
  <2> QED BY <2>2, <2>3, OkBefore DEF c1
<1>8. Moves(ctx, c2(s, n), 12 + n) /\ (c2(s, n).ok => c1(s).ok)
  <2>1. Moves(ctx, Read(c1(s), n), 8 + n)
    BY <1>2, <1>3, <1>7, BodyStart, ThenRead
  <2>2. Moves(ctx, c2(s, n), 12 + n)
    BY <1>2, <1>3, <2>1, BodyStart, ThenRead DEF c2
  <2>3. Good(c1(s)) /\ Good(Read(c1(s), n))
    BY <1>7, <2>1 DEF Moves
  <2> QED BY <2>2, <2>3, OkBefore DEF c2
<1>9. /\ Moves(ctx, c3(s, n, v), 12 + n)
      /\ c3(s, n, v).ok => adds(s, n, v) /\ c2(s, n).ok
  <2>1. Good(c2(s, n)) /\ 12 + n \in Nat
    BY <1>3, <1>8 DEF Moves
  <2>2. Moves(ctx, c3(s, n, v), 12 + n) /\ (c3(s, n, v).ok => adds(s, n, v))
    BY <1>2, <1>4, <1>8, <2>1, BodyStart, ThenRequire DEF c3
  <2>3. c3(s, n, v).ok => c2(s, n).ok
    BY <2>1, OkBefore DEF c3
  <2> QED BY <2>2, <2>3
<1>10. Moves(ctx, c4(s, n, v), 12 + n + v) /\ (c4(s, n, v).ok => c3(s, n, v).ok)
  <2>1. Good(c3(s, n, v)) /\ 12 + n \in Nat /\ 12 + n + v \in Nat
    BY <1>3, <1>9 DEF Moves
  <2>2. Moves(ctx, c4(s, n, v), 12 + n + v)
    BY <1>2, <1>3, <1>9, <2>1, BodyStart, ThenRead DEF c4
  <2>3. c4(s, n, v).ok => c3(s, n, v).ok
    BY <2>1, OkBefore DEF c4
  <2> QED BY <2>2, <2>3
<1>11. c4(s, n, v).ok => /\ c0.offset = ctx.offset + 4
                         /\ c4(s, n, v).offset = ctx.offset + 12 + n + v
  <2>1. c4(s, n, v).ok => c0.ok
    BY <1>7, <1>8, <1>9, <1>10
  <2> QED BY <1>2, <1>3, <1>6, <1>10, <2>1, BodyStart DEF Moves
<1>12. c4(s, n, v).ok => s = Pair(n, v) /\ c0.offset + s <= c4(s, n, v).offset
  <2> SUFFICES ASSUME c4(s, n, v).ok
               PROVE  s = Pair(n, v) /\ c0.offset + s <= c4(s, n, v).offset
    OBVIOUS
  <2>1. c4(s, n, v).offset <= c4(s, n, v).length /\ c4(s, n, v).length \in Lengths
    BY <1>10 DEF Moves, Good, Context
  <2>2. Pair(n, v) \in Uint32
    BY <1>2, <1>3, <1>11, <2>1, BodyStart, LengthsAreWords, Uint32Assumption
       DEF Pair, Uint32
  <2>3. s = Pair(n, v)
    BY <1>3, <1>5, <1>9, <1>10, <2>2, AddsUp
  <2> QED BY <1>2, <1>3, <1>11, <2>3, BodyStart DEF Pair
<1>13. Moves(ctx, c5(s, n, v), 12 + n + v)
  <2>1. c0.offset \in Nat /\ 12 + n + v \in Nat
    BY <1>3, <1>6 DEF Moves, Good, Context
  <2> QED BY <1>2, <1>3, <1>10, <1>12, <2>1, BodyStart, ThenAddPair DEF c5
<1>14. local' \in Locals /\ LocalsBehind'
  <2>1. local.left - 1 \in Nat /\ local.sum + 4 + s \in Nat
    BY <1>2, <1>3, BodyStart DEF Locals
  <2>2. /\ local'.id = local.id /\ local'.struct = local.struct
        /\ local'.first = local.first /\ local' \in Locals
    BY <1>1, <1>2, <2>1, BodyStart DEF Locals
  <2>3. at' \in PlainPoints \cup {"failed"}
    BY <1>1, <1>2 DEF Go
  <2> QED BY <1>2, <2>2, <2>3, BodyStart, LocalsFree
<1>15. 12 + n + v \in Nat
  BY <1>3
<1> QED BY <1>1, <1>2, <1>13, <1>14, <1>15, OtherStep

LEMMA MosaicLevyLengthStep ==
    ASSUME ParserInv, MosaicLevyLength
    PROVE  ParserInv'
<1> DEFINE c0       == Read(ctx, 4)
           there(l) == has_data(c0, l)
           c1(l)    == Require(c0, there(l))
<1>1. PICK l \in Words :
         /\ IF l > 0 THEN Go(c1(l), "levy") ELSE Go(c0, "sink")
         /\ local' = [local EXCEPT !.left = l, !.sum = @ + 4 + l]
  BY DEF MosaicLevyLength
<1>2. /\ at \in OtherPoints /\ at \in BodyPoints /\ UNCHANGED <<txn, frames>>
      /\ {"levy", "sink"} \subseteq (BodyPoints \ FeePoints) \cap PlainPoints
  BY OtherPointsAre DEF MosaicLevyLength
<1>3. l \in Nat /\ there(l) \in BOOLEAN
  BY <1>2, BodyStart DEF Uint32, has_data
<1> HIDE DEF c0, there, c1
<1>4. Moves(ctx, c0, 4)
  BY <1>2, BodyStart, ReadMoves DEF c0
<1>5. Moves(ctx, c1(l), 4)
  BY <1>2, <1>3, <1>4, BodyStart, ThenRequire DEF c1
<1>6. local' \in Locals /\ LocalsBehind'
  <2>1. local.sum + 4 + l \in Nat
    BY <1>2, <1>3, BodyStart DEF Locals
  <2>2. /\ local'.id = local.id /\ local'.struct = local.struct
        /\ local'.first = local.first /\ local' \in Locals
    BY <1>1, <1>2, <1>3, <2>1, BodyStart DEF Locals
  <2>3. at' \in PlainPoints \cup {"failed"}
    BY <1>1, <1>2 DEF Go
  <2> QED BY <1>2, <2>2, <2>3, BodyStart, LocalsFree
<1>7. CASE l > 0
  <2>1. Go(c1(l), "levy")
    BY <1>1, <1>7
  <2> QED BY <1>2, <1>5, <1>6, <2>1, OtherStep
<1>8. CASE ~(l > 0)
  <2>1. Go(c0, "sink")
    BY <1>1, <1>8
  <2> QED BY <1>2, <1>4, <1>6, <2>1, OtherStep
<1> QED BY <1>7, <1>8

LEMMA MosaicLevyStep ==
    ASSUME ParserInv, MosaicLevy
    PROVE  ParserInv'
<1> DEFINE fits(t, a, i) == t \in {1, 2} /\ a <= ADDRESS /\ i <= local.struct
           c0(t, a, i) == Require(Read(ctx, 4 + ADDRESS_T + 4), fits(t, a, i))
           c1(t, a, i) == Read(c0(t, a, i), 4)
           c2(t, a, i, n) == Read(c1(t, a, i), n)
<1>1. PICK t \in Words, a \in Words, i \in Words, n \in Words :
         /\ Go(c2(t, a, i, n), "levy_name")
         /\ local' = [local EXCEPT !.start = ctx.offset, !.id = i, !.first = n]
  BY DEF MosaicLevy
<1>2. /\ at \in OtherPoints /\ at \in BodyPoints /\ UNCHANGED <<txn, frames>>
      /\ "levy_name" \in BodyPoints \ FeePoints
  BY OtherPointsAre DEF MosaicLevy
<1>3. /\ i \in Uint32 /\ i \in Nat /\ n \in Uint32 /\ n \in Nat
      /\ fits(t, a, i) \in BOOLEAN
  BY <1>2, BodyStart DEF Uint32
<1> HIDE DEF fits, c0, c1, c2
<1>4. Moves(ctx, c0(t, a, i), 52)
  <2>1. Moves(ctx, Read(ctx, 4 + ADDRESS_T + 4), 52)
    BY <1>2, BodyStart, ReadMoves DEF ADDRESS_T
  <2> QED BY <1>2, <1>3, <2>1, BodyStart, ThenRequire DEF c0
<1>5. Moves(ctx, c1(t, a, i), 56)
  BY <1>2, <1>4, BodyStart, ThenRead DEF c1
<1>6. Moves(ctx, c2(t, a, i, n), 56 + n)
  BY <1>2, <1>3, <1>5, BodyStart, ThenRead DEF c2
<1>7. local' \in Locals /\ LocalsBehind'
  <2>1. /\ local'.id = i /\ local'.struct = local.struct /\ local'.first = n
        /\ local'.start = ctx.offset /\ local' \in Locals
    BY <1>1, <1>2, <1>3, BodyStart DEF Locals
  <2>2. /\ at' \in {"levy_name", "failed"} /\ ctx' = c2(t, a, i, n)
        /\ at' # "failed" => c2(t, a, i, n).ok
    BY <1>1 DEF Go
  <2>3. at' = "levy_name" =>
           local'.start + 4 + ADDRESS_T + 4 + 4 + local'.first = ctx'.offset
    BY <1>2, <1>3, <1>6, <2>1, <2>2, BodyStart DEF Moves, ADDRESS_T
  <2>4. {local'.struct, local'.id, local'.first} \subseteq Uint32
    BY <1>2, <1>3, <2>1, BodyStart
  <2> QED BY <2>1, <2>2, <2>3, <2>4 DEF LocalsBehind, MosaicPoints
<1>8. 56 + n \in Nat
  BY <1>3
<1> QED BY <1>1, <1>2, <1>6, <1>7, <1>8, OtherStep

\* The levy's pair of names comes next to the structure it belongs to.
LEMMA MosaicLevyNameStep ==
    ASSUME ParserInv, MosaicLevyName
    PROVE  ParserInv'
<1> DEFINE adds(m) == /\ Adds(local.id, Pair(local.first, m))
                      /\ Adds(local.left, (4 + ADDRESS_T + 4) + local.id + 8)
           c0(m) == Require(Read(ctx, 4), adds(m))
           c1(m) == Read(c0(m), m)
           c2(m) == Add(c1(m), "NEM_STR_LEVY_MOSAIC", local.start + (4 + ADDRESS_T + 4),
                        local.id, local.first, m)
           c3(m) == add_new_field(c2(m), "NEM_STR_LEVY_ADDRESS", local.start + 8, ADDRESS)
           c4(m) == add_new_field(c3(m), "NEM_UINT32_LEVY_FEE_TYPE", local.start, 4)
           c5(m) == AddRead(c4(m), "NEM_UINT64_LEVY_FEE", 8)
<1>1. PICK m \in Words : Go(c5(m), "sink")
  BY DEF MosaicLevyName
<1>2. /\ at \in OtherPoints /\ at \in BodyPoints /\ UNCHANGED <<txn, local, frames>>
      /\ "sink" \in BodyPoints \ FeePoints /\ "sink" \in PlainPoints
      /\ at = "levy_name"
  BY OtherPointsAre DEF MosaicLevyName
<1>3. /\ m \in Uint32 /\ m \in Nat /\ adds(m) \in BOOLEAN
      /\ local.start \in Nat /\ local.id \in Nat /\ local.first \in Nat
      /\ local.id \in Uint32 /\ 8 \in Uint32
  BY <1>2, BodyStart DEF Uint32, Locals
<1>4. adds(m) => Adds(local.id, Pair(local.first, m))
  OBVIOUS
<1>5. local.start + 56 + local.first = ctx.offset
  BY <1>2, <1>3, BodyStart DEF ParserInv, LocalsBehind, ADDRESS_T
<1> HIDE DEF adds, c0, c1, c2, c3, c4, c5
<1>6. Moves(ctx, c0(m), 4) /\ (c0(m).ok => adds(m))
  <2>1. Moves(ctx, Read(ctx, 4), 4)
    BY <1>2, BodyStart, ReadMoves
  <2> QED BY <1>2, <1>3, <2>1, BodyStart, ThenRequire DEF c0
<1>7. Moves(ctx, c1(m), 4 + m) /\ (c1(m).ok => adds(m))
  <2>1. Moves(ctx, c1(m), 4 + m)
    BY <1>2, <1>3, <1>6, BodyStart, ThenRead DEF c1
  <2>2. Good(c0(m))
    BY <1>6 DEF Moves
  <2> QED BY <1>6, <2>1, <2>2, OkBefore DEF c1
<1>8. c1(m).ok => /\ local.id = Pair(local.first, m)
                  /\ local.start + (4 + ADDRESS_T + 4) + local.id <= c1(m).offset
  <2> SUFFICES ASSUME c1(m).ok
               PROVE  /\ local.id = Pair(local.first, m)
                      /\ local.start + (4 + ADDRESS_T + 4) + local.id <= c1(m).offset
    OBVIOUS
  <2>1. /\ c1(m).offset = ctx.offset + (4 + m)
        /\ c1(m).offset <= c1(m).length /\ c1(m).length \in Lengths
    BY <1>7 DEF Moves, Good, Context
  <2>2. Pair(local.first, m) \in Uint32
    BY <1>2, <1>3, <1>5, <2>1, BodyStart, LengthsAreWords, Uint32Assumption
       DEF Pair, Uint32
  <2>3. local.id = Pair(local.first, m)
    BY <1>3, <1>4, <1>7, <2>2, AddsUp
  <2> QED BY <1>2, <1>3, <1>5, <2>1, <2>3, BodyStart DEF Pair, ADDRESS_T
<1>9. Moves(ctx, c2(m), 4 + m)
  <2>1. local.start + (4 + ADDRESS_T + 4) \in Nat /\ 4 + m \in Nat
    BY <1>3 DEF ADDRESS_T
  <2> QED BY <1>2, <1>3, <1>7, <1>8, <2>1, BodyStart, ThenAddPair DEF c2
<1>10. Moves(ctx, c3(m), 4 + m)
  <2>1. Takes("NEM_STR_LEVY_ADDRESS", ADDRESS, 0, 0, ADDRESS)
    BY FieldsFit DEF ADDRESS
  <2>2. /\ local.start + 8 \in Nat /\ ADDRESS \in Nat /\ 4 + m \in Nat
        /\ local.start + 8 + ADDRESS <= ctx.offset + (4 + m)
    BY <1>3, <1>5 DEF ADDRESS
  <2> QED BY <1>2, <1>9, <2>1, <2>2, BodyStart, ThenNew DEF c3
<1>11. Moves(ctx, c4(m), 4 + m)
  <2>1. Takes("NEM_UINT32_LEVY_FEE_TYPE", 4, 0, 0, 4)
    BY FieldsFit
  <2>2. 4 + m \in Nat /\ local.start + 4 <= ctx.offset + (4 + m)
    BY <1>3, <1>5
  <2> QED BY <1>2, <1>3, <1>10, <2>1, <2>2, BodyStart, ThenNew DEF c4
<1>12. Moves(ctx, c5(m), 12 + m)
  <2>1. Takes("NEM_UINT64_LEVY_FEE", 8, 0, 0, 8)
    BY FieldsFit
  <2>2. 12 + m \in Nat /\ 4 + m \in Nat /\ 12 + m = 4 + m + 8
    BY <1>3
  <2> QED BY <1>2, <1>3, <1>11, <2>1, <2>2, BodyStart, ThenAddRead DEF c5
<1>13. local' \in Locals /\ LocalsBehind' /\ 12 + m \in Nat
  BY <1>1, <1>2, <1>3, BodyStart, LocalsFree DEF Go
<1> QED BY <1>1, <1>2, <1>12, <1>13, OtherStep

LEMMA MosaicSinkStep ==
    ASSUME ParserInv, MosaicSink
    PROVE  ParserInv'
<1> DEFINE adds    == Adds(local.struct, local.sum)
           fits(a) == a <= ADDRESS
           c0      == Read(Require(ctx, adds), ADDRESS_T + 8)
           c1(a)   == Require(c0, fits(a))
           c2(a)   == add_new_field(c1(a), "NEM_STR_SINK_ADDRESS", ctx.offset + 4, ADDRESS)
           c3(a)   == add_new_field(c2(a), "NEM_UINT64_RENTAL_FEE",
                                    ctx.offset + ADDRESS_T, 8)
<1>1. PICK a \in Words : Go(AddFee(c3(a)), Return)
  BY DEF MosaicSink
<1>2. at \in OtherPoints /\ at \in BodyPoints /\ UNCHANGED <<txn, local, frames>>
  BY OtherPointsAre DEF MosaicSink
<1>3. adds \in BOOLEAN /\ fits(a) \in BOOLEAN
  BY DEF Adds
<1> HIDE DEF adds, fits, c0, c1, c2, c3
<1>4. Moves(ctx, c0, 52)
  <2>1. Moves(ctx, Require(ctx, adds), 0)
    BY <1>2, <1>3, BodyStart, RequireMoves
  <2> QED BY <1>2, <2>1, BodyStart, ThenRead DEF c0, ADDRESS_T
<1>5. Moves(ctx, c1(a), 52)
  BY <1>2, <1>3, <1>4, BodyStart, ThenRequire DEF c1
<1>6. Moves(ctx, c2(a), 52)
  <2>1. Takes("NEM_STR_SINK_ADDRESS", ADDRESS, 0, 0, ADDRESS)
    BY FieldsFit DEF ADDRESS
  <2> QED BY <1>2, <1>5, <2>1, BodyStart, ThenNew DEF c2, ADDRESS
<1>7. Moves(ctx, c3(a), 52)
  <2>1. Takes("NEM_UINT64_RENTAL_FEE", 8, 0, 0, 8)
    BY FieldsFit
  <2> QED BY <1>2, <1>6, <2>1, BodyStart, ThenNew DEF c3, ADDRESS_T
<1> QED BY <1>1, <1>2, <1>7, LastStep

LEMMA SupplyChangeStep ==
    ASSUME ParserInv, parse_mosaic_supply_change_transaction
    PROVE  ParserInv'
<1> DEFINE c0    == Read(ctx, 4)
           c1    == Read(c0, 4)
           c2(l) == AddRead(c1, "NEM_STR_NAMESPACE", l)
<1>1. PICK i \in Words, l \in Words :
         /\ Go(c2(l), "supply")
         /\ local' = [NoLocals EXCEPT !.id = i, !.first = l]
  BY DEF parse_mosaic_supply_change_transaction
<1>2. /\ at \in OtherPoints /\ at \in BodyPoints /\ UNCHANGED <<txn, frames>>
      /\ "supply" \in BodyPoints \ FeePoints /\ "supply" \in PlainPoints
  BY OtherPointsAre DEF parse_mosaic_supply_change_transaction
<1>3. i \in Uint32 /\ i \in Nat /\ l \in Uint32 /\ l \in Nat /\ 0 \in Uint32
  BY <1>2, BodyStart DEF Uint32
<1> HIDE DEF c0, c1, c2
<1>4. Moves(ctx, c0, 4)
  BY <1>2, BodyStart, ReadMoves DEF c0
<1>5. Moves(ctx, c1, 8)
  BY <1>2, <1>4, BodyStart, ThenRead DEF c1
<1>6. Moves(ctx, c2(l), 8 + l)
  BY <1>2, <1>3, <1>5, BodyStart, ThenAddRead, FieldsFit DEF c2
<1>7. local' \in Locals /\ LocalsBehind'
  <2>1. /\ local'.id = i /\ local'.struct = 0 /\ local'.first = l
        /\ local' \in Locals
    BY <1>1, <1>3, NoLocalsTyped DEF NoLocals, Locals
  <2>2. at' \in PlainPoints \cup {"failed"}
    BY <1>1, <1>2 DEF Go
  <2> QED BY <1>2, <1>3, <2>1, <2>2, BodyStart, LocalsFree
<1> QED BY <1>1, <1>2, <1>3, <1>6, <1>7, OtherStep

LEMMA MosaicSupplyStep ==
    ASSUME ParserInv, MosaicSupply
    PROVE  ParserInv'
<1> DEFINE adds(m) == Adds(local.id, Pair(local.first, m))
           c0(m)   == Require(Read(ctx, 4), adds(m))
           c1(m)   == AddRead(c0(m), "NEM_STR_MOSAIC", m)
           c2(m)   == Read(c1(m), 4)
           c3(m, t) == CASE t = 1 -> AddRead(c2(m), "NEM_MOSAIC_CREATE_SUPPLY_DELTA", 8)
                         [] t = 2 -> AddRead(c2(m), "NEM_MOSAIC_DELETE_SUPPLY_DELTA", 8)
                         [] OTHER -> Require(c2(m), FALSE)
<1>1. PICK m \in Words, t \in Words : Go(AddFee(c3(m, t)), Return)
  BY DEF MosaicSupply
<1>2. at \in OtherPoints /\ at \in BodyPoints /\ UNCHANGED <<txn, local, frames>>
  BY OtherPointsAre DEF MosaicSupply
<1>3. m \in Uint32 /\ m \in Nat /\ adds(m) \in BOOLEAN /\ 8 \in Uint32
  BY <1>2, BodyStart DEF Uint32, Adds
<1> HIDE DEF adds, c0, c1, c2, c3
<1>4. Moves(ctx, c0(m), 4)
  <2>1. Moves(ctx, Read(ctx, 4), 4)
    BY <1>2, BodyStart, ReadMoves
  <2> QED BY <1>2, <1>3, <2>1, BodyStart, ThenRequire DEF c0
<1>5. Moves(ctx, c1(m), 4 + m)
  BY <1>2, <1>3, <1>4, BodyStart, ThenAddRead, FieldsFit DEF c1
<1>6. Moves(ctx, c2(m), 8 + m)
  BY <1>2, <1>3, <1>5, BodyStart, ThenRead DEF c2
<1>7. \A id \in {"NEM_MOSAIC_CREATE_SUPPLY_DELTA", "NEM_MOSAIC_DELETE_SUPPLY_DELTA"} :
         Moves(ctx, AddRead(c2(m), id, 8), 16 + m)
  <2> SUFFICES ASSUME NEW id \in {"NEM_MOSAIC_CREATE_SUPPLY_DELTA",
                                  "NEM_MOSAIC_DELETE_SUPPLY_DELTA"}
               PROVE  Moves(ctx, AddRead(c2(m), id, 8), 16 + m)
    OBVIOUS
  <2>1. Takes(id, 8, 0, 0, 8)
    BY FieldsFit
  <2>2. 16 + m \in Nat /\ 8 + m \in Nat /\ 16 + m = 8 + m + 8
    BY <1>3
  <2> QED BY <1>2, <1>3, <1>6, <2>1, <2>2, BodyStart, ThenAddRead
<1>8. Moves(ctx, Require(c2(m), FALSE), 8 + m) /\ 8 + m \in Nat /\ 16 + m \in Nat
  <2>1. 8 + m \in Nat /\ 16 + m \in Nat /\ Good(ctx)
    BY <1>2, <1>3, BodyStart
  <2>2. \A b \in BOOLEAN : Moves(ctx, Require(c2(m), b), 8 + m)
    BY <1>6, <2>1, ThenRequire
  <2> QED BY <2>1, <2>2
<1>9. PICK n \in Nat : Moves(ctx, c3(m, t), n)
  <2>1. CASE t \in {1, 2}
    <3>1. Moves(ctx, c3(m, t), 16 + m)
      BY <1>7, <2>1 DEF c3
    <3> QED BY <1>8, <3>1
  <2>2. CASE t \notin {1, 2}
    <3>1. Moves(ctx, c3(m, t), 8 + m)
      BY <1>8, <2>2 DEF c3
    <3> QED BY <1>8, <3>1
  <2> QED BY <2>1, <2>2
<1> QED BY <1>1, <1>2, <1>9, LastStep

-----------------------------------------------------------------------------
(* Transfers and their mosaics *)

TransferPoints == {TRANSFER, "message", "mosaics"} \cup MosaicPoints

LEMMA TransferPointsAre ==
    /\ TransferPoints \subseteq BodyPoints
    /\ TransferPoints \cup {Return} \subseteq Points \ {"start", MULTISIG, SIGNATURE}
    /\ TransferPoints \cap {"failed", "start", AGGREGATE_MODIFICATION, "modification",
                            Return, "parsed"} = {}
    /\ Return \in Points \ {"start", MULTISIG, SIGNATURE}
    /\ Return \in PlainPoints
    /\ Return \in FeePoints
    /\ "mosaics" \in FeePoints
    /\ MosaicPoints \subseteq FeePoints
    /\ "message" \notin FeePoints
    /\ "mosaics" \notin MosaicPoints
BY DEF TransferPoints, BodyPoints, Points, FeePoints, MosaicPoints, TopTypes, PlainPoints,
       TRANSFER, AGGREGATE_MODIFICATION, MULTISIG, SIGNATURE, Return

\* The mosaics of the table are counted at every point of a transfer.
LEMMA TransferStep ==
    ASSUME ParserInv, at \in TransferPoints,
           NEW d, NEW n \in Nat, Moves(ctx, d, n),
           NEW next \in {"message", "mosaics", Return} \cup MosaicPoints, Go(d, next),
           txn' = txn, frames' = frames, local' \in Locals, LocalsBehind',
           d.ok /\ next \in FeePoints /\ at \notin FeePoints =>
               Listed(d, FeeIds, txn.header + FEE_AT),
           d.ok /\ ctx.transactionType = TRANSFER /\ txn.version = 2 =>
               Many(d, ItemIds) =
                   CASE next \in MosaicPoints -> local'.count - local'.left
                     [] next = Return         -> local'.count
                     [] OTHER                 -> 0
    PROVE  ParserInv'
<1>1. /\ ctx' = d /\ at' = (IF d.ok THEN next ELSE "failed")
      /\ d.transactionType = ctx.transactionType
  BY DEF Go, Moves
<1>2. /\ at \in BodyPoints /\ next \in Points \ {"start", MULTISIG, SIGNATURE}
      /\ next # "start" /\ next # "parsed"
  <2>1. next \in TransferPoints \cup {Return} /\ next # "parsed"
    BY DEF TransferPoints, MosaicPoints, Return
  <2> QED BY <2>1, TransferPointsAre
<1>3. ctx.transactionType # AGGREGATE_MODIFICATION
  <2>1. at \notin {"failed", "start", AGGREGATE_MODIFICATION, "modification", Return,
                 "parsed"}
    BY TransferPointsAre
  <2> QED BY <2>1 DEF ParserInv, ItemsCounted
<1>4. ASSUME ctx.transactionType = TRANSFER, at' # "failed"
      PROVE  /\ frames' = <<>>
             /\ at' \in {"start", TRANSFER, "message"} \cup FeePoints
             /\ txn'.version = 2 =>
                  Many(ctx', ItemIds) =
                      CASE at' \in MosaicPoints       -> local'.count - local'.left
                        [] at' \in {Return, "parsed"} -> local'.count
                        [] OTHER                      -> 0
  <2>1. frames = <<>>
    BY <1>4, TransferPointsAre DEF ParserInv, ItemsCounted
  <2>2. at' = next /\ d.ok
    BY <1>1, <1>4
  <2>3. next \in {"message"} \cup FeePoints
    BY TransferPointsAre
  <2>4. txn.version = 2 =>
           Many(d, ItemIds) =
               CASE next \in MosaicPoints       -> local'.count - local'.left
                 [] next \in {Return, "parsed"} -> local'.count
                 [] OTHER                       -> 0
    BY <1>2, <1>4, <2>2
  <2> QED BY <1>1, <2>1, <2>2, <2>3, <2>4
<1>5. ItemsCounted'
  <2>1. at' # "start"
    BY <1>1, <1>2
  <2>2. ctx'.transactionType = ctx.transactionType
    BY <1>1
  <2> QED BY <1>3, <1>4, <2>1, <2>2 DEF ItemsCounted, Many
<1> QED BY <1>2, <1>5, BodyStep

LEMMA TransferHeadStep ==
    ASSUME ParserInv, parse_transfer_transaction
    PROVE  ParserInv'
<1> DEFINE fits(r) == r <= ADDRESS
           c0(r) == Require(Read(ctx, ADDRESS_T + 12), fits(r))
           c1(r) == add_new_field(c0(r), "NEM_STR_RECIPIENT_ADDRESS",
                                  ctx.offset + 4, ADDRESS)
           c2(r) == IF txn.version = 1
                      THEN add_new_field(c1(r), "NEM_MOSAIC_AMOUNT",
                                         ctx.offset + ADDRESS_T, 8)
                      ELSE c1(r)
           c3(r) == add_new_field(c2(r), "NEM_STR_TXN_MESSAGE",
                                  ctx.offset + ADDRESS_T + 8, 0)
           c4(r) == AddFee(c3(r))
<1>1. PICK r \in Words, m \in Words, str \in Names :
         /\ IF m = 0 THEN Go(c4(r), "mosaics") ELSE Go(c2(r), "message")
         /\ local' = [NoLocals EXCEPT !.txn = ctx.offset, !.str = str]
  BY DEF parse_transfer_transaction
<1>2. /\ at \in TransferPoints /\ at \in BodyPoints /\ UNCHANGED <<txn, frames>>
      /\ at = TRANSFER
  BY TransferPointsAre DEF parse_transfer_transaction, TransferPoints
<1>3. fits(r) \in BOOLEAN
  OBVIOUS
<1> HIDE DEF fits, c0, c1, c2, c3, c4
<1>4. Moves(ctx, c0(r), 56) /\ Counts(ctx, c0(r), ItemIds, 0)
  <2>1. Moves(ctx, Read(ctx, ADDRESS_T + 12), 56)
    BY <1>2, BodyStart, ReadMoves DEF ADDRESS_T
  <2>2. Good(ctx) /\ Good(Read(ctx, ADDRESS_T + 12))
    BY <1>2, <2>1, BodyStart DEF Moves
  <2>3. Counts(ctx, Read(ctx, ADDRESS_T + 12), ItemIds, 0)
    BY <2>2, CountStart, CountRead
  <2>4. Counts(ctx, c0(r), ItemIds, 0)
    BY <2>2, <2>3, CountRead DEF c0
  <2> QED BY <1>3, <2>1, <2>2, <2>4, ThenRequire DEF c0
<1>5. Moves(ctx, c1(r), 56) /\ Counts(ctx, c1(r), ItemIds, 0)
  <2>1. Takes("NEM_STR_RECIPIENT_ADDRESS", ADDRESS, 0, 0, ADDRESS)
    BY FieldsFit DEF ADDRESS
  <2>2. Moves(ctx, c1(r), 56)
    BY <1>2, <1>4, <2>1, BodyStart, ThenNew DEF c1, ADDRESS
  <2>3. Good(c0(r)) /\ "NEM_STR_RECIPIENT_ADDRESS" \notin ItemIds
    BY <1>4 DEF Moves, ItemIds
  <2>4. Counts(ctx, c1(r), ItemIds, 0)
    BY <1>4, <2>3, CountOther DEF c1, add_new_field
  <2> QED BY <2>2, <2>4
<1>6. Moves(ctx, c2(r), 56) /\ (txn.version = 2 => Counts(ctx, c2(r), ItemIds, 0))
  <2>1. Takes("NEM_MOSAIC_AMOUNT", 8, 0, 0, 8)
    BY FieldsFit DEF ItemIds
  <2>2. Moves(ctx, add_new_field(c1(r), "NEM_MOSAIC_AMOUNT",
                                 ctx.offset + ADDRESS_T, 8), 56)
    BY <1>2, <1>5, <2>1, BodyStart, ThenNew DEF ADDRESS_T
  <2> QED BY <1>5, <2>2 DEF c2
<1>7. Moves(ctx, c3(r), 56) /\ (txn.version = 2 => Counts(ctx, c3(r), ItemIds, 0))
  <2>1. Takes("NEM_STR_TXN_MESSAGE", 0, 0, 0, 0)
    BY FieldsFit DEF FirstBytes
  <2>2. Moves(ctx, c3(r), 56)
    BY <1>2, <1>6, <2>1, BodyStart, ThenNew DEF c3, ADDRESS_T
  <2>3. Good(c2(r)) /\ "NEM_STR_TXN_MESSAGE" \notin ItemIds
    BY <1>6 DEF Moves, ItemIds
  <2>4. txn.version = 2 => Counts(ctx, c3(r), ItemIds, 0)
    BY <1>6, <2>3, CountOther DEF c3, add_new_field
  <2> QED BY <2>2, <2>4
<1>8. /\ Moves(ctx, c4(r), 56)
      /\ c4(r).ok => Listed(c4(r), FeeIds, txn.header + FEE_AT)
      /\ txn.version = 2 => Counts(ctx, c4(r), ItemIds, 0)
  <2>1. Good(c3(r)) /\ "NEM_UINT64_TXN_FEE" \notin ItemIds
    BY <1>7 DEF Moves, ItemIds
  <2>2. txn.version = 2 => Counts(ctx, c4(r), ItemIds, 0)
    BY <1>7, <2>1, CountOther DEF c4, AddFee, add_new_field
  <2> QED BY <1>2, <1>7, <2>2, BodyStart, ThenFee DEF c4
<1>9. ctx.transactionType = TRANSFER /\ txn.version = 2 => Many(ctx, ItemIds) = 0
  BY <1>2, TransferPointsAre DEF ParserInv, ItemsCounted, Many, FeePoints, MosaicPoints,
     TRANSFER, Return
<1>10. /\ local'.txn = ctx.offset /\ local'.id = 0 /\ local'.struct = 0
       /\ local'.first = 0 /\ local' \in Locals /\ 0 \in Uint32
  BY <1>1, <1>2, BodyStart, NoLocalsTyped DEF NoLocals, Locals
<1>11. ASSUME NEW d, Moves(ctx, d, 56), NEW next \in {"message", "mosaics"}, Go(d, next)
       PROVE  LocalsBehind'
  <2>1. at' \in {"message", "mosaics", "failed"} /\ ctx' = d /\ (at' # "failed" => d.ok)
    BY <1>11 DEF Go
  <2>2. at' # "failed" => local'.txn + ADDRESS_T + 8 <= ctx'.offset
    BY <1>2, <1>10, <1>11, <2>1, BodyStart DEF Moves, ADDRESS_T
  <2> QED BY <1>10, <2>1, <2>2 DEF LocalsBehind, MosaicPoints
<1>12. CASE m = 0
  <2>1. Go(c4(r), "mosaics") /\ LocalsBehind'
    BY <1>1, <1>8, <1>11, <1>12
  <2>2. c4(r).ok /\ ctx.transactionType = TRANSFER /\ txn.version = 2 =>
           Many(c4(r), ItemIds) = 0
    BY <1>8, <1>9 DEF Counts
  <2>3. "mosaics" \notin MosaicPoints /\ "mosaics" # Return
    BY DEF MosaicPoints, Return
  <2> QED BY <1>2, <1>8, <1>10, <2>1, <2>2, <2>3, TransferStep
<1>13. CASE m # 0
  <2>1. Go(c2(r), "message") /\ LocalsBehind'
    BY <1>1, <1>6, <1>11, <1>13
  <2>2. c2(r).ok /\ ctx.transactionType = TRANSFER /\ txn.version = 2 =>
           Many(c2(r), ItemIds) = 0
    BY <1>6, <1>9 DEF Counts
  <2>3. "message" \notin MosaicPoints /\ "message" # Return /\ "message" \notin FeePoints
    BY DEF MosaicPoints, Return, FeePoints
  <2> QED BY <1>2, <1>6, <1>10, <2>1, <2>2, <2>3, TransferStep
<1> QED BY <1>12, <1>13

LEMMA TransferMessageStep ==
    ASSUME ParserInv, TransferMessage
    PROVE  ParserInv'
<1> DEFINE c0 == Read(ctx, 4)
           c1 == Read(c0, 4)
           c2(l) == Read(c1, l)
           c3(t, l, f) == IF t = 1
                            THEN Add(c2(l), "NEM_STR_TXN_MESSAGE", c1.offset, l, f, 0)
                            ELSE add_new_field(c1, "NEM_STR_ENC_MESSAGE",
                                               ctx.offset + 4, 0)
           c4(t, l, f) == AddFee(c3(t, l, f))
<1>1. PICK t \in Words, l \in Words, f \in FirstBytes : Go(c4(t, l, f), "mosaics")
  BY DEF TransferMessage
<1>2. /\ at \in TransferPoints /\ at \in BodyPoints /\ UNCHANGED <<txn, local, frames>>
      /\ at = "message"
  BY TransferPointsAre DEF TransferMessage, TransferPoints
<1>3. l \in Uint32 /\ l \in Nat /\ f \in Nat /\ 4 \in Uint32 /\ Good(ctx) /\ ctx.offset \in Nat
  BY <1>2, BodyStart DEF Uint32, FirstBytes
<1>4. "NEM_STR_TXN_MESSAGE" \notin ItemIds /\ "NEM_STR_ENC_MESSAGE" \notin ItemIds
      /\ "NEM_UINT64_TXN_FEE" \notin ItemIds
  BY DEF ItemIds
<1> HIDE DEF c0, c1, c2, c3, c4
<1>5. Moves(ctx, c0, 4) /\ Good(c0) /\ Counts(ctx, c0, ItemIds, 0)
  <2>1. Moves(ctx, c0, 4)
    BY <1>3, ReadMoves DEF c0
  <2>2. Counts(ctx, c0, ItemIds, 0)
    BY <1>3, CountStart, CountRead DEF c0
  <2> QED BY <2>1, <2>2 DEF Moves
<1>6. Moves(ctx, c1, 8) /\ Good(c1) /\ Counts(ctx, c1, ItemIds, 0)
  <2>1. Moves(ctx, c1, 8)
    BY <1>3, <1>5, ThenRead DEF c1
  <2>2. Counts(ctx, c1, ItemIds, 0)
    BY <1>3, <1>5, CountRead DEF c1
  <2> QED BY <2>1, <2>2 DEF Moves
<1>7. Moves(ctx, c2(l), 8 + l) /\ Good(c2(l)) /\ Counts(ctx, c2(l), ItemIds, 0)
  <2>1. Moves(ctx, c2(l), 8 + l)
    BY <1>3, <1>6, ThenRead DEF c2
  <2>2. Counts(ctx, c2(l), ItemIds, 0)
    BY <1>3, <1>6, CountRead DEF c2
  <2> QED BY <2>1, <2>2 DEF Moves
<1>8. PICK n \in Nat : Moves(ctx, c3(t, l, f), n)
  <2>1. CASE t = 1
    <3>1. Takes("NEM_STR_TXN_MESSAGE", l, f, 0, l)
      BY <1>3, FieldsFit
    <3>2. Moves(c1, c2(l), l) /\ c1.offset \in Nat
      BY <1>3, <1>6, ReadMoves DEF c2, Good, Context
    <3>3. /\ Fits("NEM_STR_TXN_MESSAGE", l, f, 0)
          /\ c2(l).ok => c1.offset + Width("NEM_STR_TXN_MESSAGE", l) <= c2(l).offset
      BY <1>3, <3>1, <3>2 DEF Takes, Moves
    <3>4. Moves(ctx, Add(c2(l), "NEM_STR_TXN_MESSAGE", c1.offset, l, f, 0), 8 + l)
      <4>1. 8 + l \in Nat
        BY <1>3
      <4> QED BY <1>3, <1>7, <3>2, <3>3, <4>1, ThenAdd
    <3> QED BY <1>3, <2>1, <3>4 DEF c3
  <2>2. CASE t # 1
    <3>1. Takes("NEM_STR_ENC_MESSAGE", 0, 0, 0, 0)
      BY FieldsFit DEF FirstBytes
    <3>2. Moves(ctx, add_new_field(c1, "NEM_STR_ENC_MESSAGE", ctx.offset + 4, 0), 8)
      BY <1>3, <1>6, <3>1, ThenNew
    <3> QED BY <2>2, <3>2 DEF c3
  <2> QED BY <2>1, <2>2
<1>9. Counts(ctx, c3(t, l, f), ItemIds, 0)
  BY <1>4, <1>6, <1>7, CountOther DEF c3, add_new_field
<1>10. /\ Moves(ctx, c4(t, l, f), n)
       /\ c4(t, l, f).ok => Listed(c4(t, l, f), FeeIds, txn.header + FEE_AT)
       /\ Counts(ctx, c4(t, l, f), ItemIds, 0)
  <2>1. Good(c3(t, l, f))
    BY <1>8 DEF Moves
  <2>2. Counts(ctx, c4(t, l, f), ItemIds, 0)
    BY <1>4, <1>9, <2>1, CountOther DEF c4, AddFee, add_new_field
  <2> QED BY <1>2, <1>8, <2>2, BodyStart, ThenFee DEF c4
<1>11. ctx.transactionType = TRANSFER /\ txn.version = 2 => Many(ctx, ItemIds) = 0
  BY <1>2, TransferPointsAre DEF ParserInv, ItemsCounted, Many, FeePoints, MosaicPoints,
     Return
<1>12. local' \in Locals /\ LocalsBehind'
  <2>1. at' \in {"mosaics", "failed"} /\ ctx'.offset \in Nat /\ ctx'.offset >= ctx.offset
    BY <1>1, <1>10 DEF Go, Moves, Good, Context
  <2>2. /\ local \in Locals /\ {local.struct, local.id, local.first} \subseteq Uint32
        /\ local.txn + ADDRESS_T + 8 <= ctx.offset /\ local.txn \in Nat
    BY <1>2, BodyStart DEF ParserInv, LocalsBehind, Locals
  <2>3. local.txn + ADDRESS_T + 8 <= ctx'.offset
    BY <1>3, <2>1, <2>2 DEF ADDRESS_T
  <2> QED BY <1>2, <2>1, <2>2, <2>3 DEF LocalsBehind, MosaicPoints
<1>13. c4(t, l, f).ok /\ ctx.transactionType = TRANSFER /\ txn.version = 2 =>
          Many(c4(t, l, f), ItemIds) = 0
  BY <1>10, <1>11 DEF Counts
<1>14. "mosaics" \notin MosaicPoints /\ "mosaics" # Return
  BY DEF MosaicPoints, Return
<1> QED BY <1>1, <1>2, <1>10, <1>12, <1>13, <1>14, TransferStep

LEMMA TransferMosaicsStep ==
    ASSUME ParserInv, TransferMosaics
    PROVE  ParserInv'
<1>1. /\ at \in TransferPoints /\ at \in BodyPoints /\ UNCHANGED <<txn, frames>>
      /\ at = "mosaics" /\ at \in FeePoints
  BY TransferPointsAre DEF TransferMosaics, TransferPoints
<1>2. /\ Good(ctx) /\ ctx.offset \in Nat /\ 4 \in Uint32 /\ Moves(ctx, ctx, 0)
      /\ local \in Locals /\ {local.struct, local.id, local.first} \subseteq Uint32
      /\ local.txn + ADDRESS_T + 8 <= ctx.offset /\ local.txn \in Nat
  BY <1>1, BodyStart DEF ParserInv, LocalsBehind, Locals
<1>3. ctx.transactionType = TRANSFER /\ txn.version = 2 => Many(ctx, ItemIds) = 0
  BY <1>1 DEF ParserInv, ItemsCounted, Many, MosaicPoints, Return
<1>4. CASE txn.version # 2 /\ at' = Return /\ UNCHANGED <<ctx, local>>
  <2>1. Go(ctx, Return)
    BY <1>1, <1>4 DEF Go, ParserInv, GoesOn
  <2>2. local' \in Locals /\ LocalsBehind'
    BY <1>2, <1>4, TransferPointsAre, LocalsFree
  <2> QED BY <1>1, <1>2, <1>4, <2>1, <2>2, TransferStep
<1>5. ASSUME NEW n \in Words, txn.version = 2,
             CASE n = 0 -> Go(add_new_field(Read(ctx, 4), "NEM_UINT64_TXN_FEE",
                                            local.txn + ADDRESS_T, 8), Return)
               [] n = 1 -> Go(Read(ctx, 4), "mosaic")
               [] n > 1 -> Go(add_new_field(Read(ctx, 4), "NEM_UINT32_MOSAIC_COUNT",
                                            ctx.offset, 4), "mosaic"),
             local' = [local EXCEPT !.count = n, !.left = n, !.pcount = ctx.offset]
      PROVE  ParserInv'
  <2> DEFINE c0 == Read(ctx, 4)
             c1 == add_new_field(c0, "NEM_UINT64_TXN_FEE", local.txn + ADDRESS_T, 8)
             c2 == add_new_field(c0, "NEM_UINT32_MOSAIC_COUNT", ctx.offset, 4)
  <2>1. n \in Nat
    BY <1>1, BodyStart DEF Uint32
  <2>2. /\ n = 0 => Go(c1, Return)
        /\ n = 1 => Go(c0, "mosaic")
        /\ n > 1 => Go(c2, "mosaic")
    <3>1. /\ n = 0 => ~(n = 1) /\ ~(n > 1)
          /\ n = 1 => ~(n = 0) /\ ~(n > 1)
          /\ n > 1 => ~(n = 0) /\ ~(n = 1)
      BY <2>1
    <3> QED BY Zenon, <1>5, <3>1
  <2>3. "NEM_UINT64_TXN_FEE" \notin ItemIds /\ "NEM_UINT32_MOSAIC_COUNT" \notin ItemIds
    BY DEF ItemIds
  <2> HIDE DEF c0, c1, c2
  <2>4. Moves(ctx, c0, 4) /\ Good(c0) /\ Counts(ctx, c0, ItemIds, 0)
    <3>1. Moves(ctx, c0, 4)
      BY <1>2, ReadMoves DEF c0
    <3>2. Counts(ctx, c0, ItemIds, 0)
      BY <1>2, CountStart, CountRead DEF c0
    <3> QED BY <3>1, <3>2 DEF Moves
  <2>5. Moves(ctx, c1, 4) /\ Counts(ctx, c1, ItemIds, 0)
    <3>1. Takes("NEM_UINT64_TXN_FEE", 8, 0, 0, 8)
      BY FieldsFit DEF FeeIds
    <3>2. local.txn + ADDRESS_T \in Nat /\ local.txn + ADDRESS_T + 8 <= ctx.offset + 4
      BY <1>2 DEF ADDRESS_T
    <3> QED BY <1>2, <2>3, <2>4, <3>1, <3>2, ThenNew, CountOther DEF c1, add_new_field
  <2>6. Moves(ctx, c2, 4) /\ Counts(ctx, c2, ItemIds, 0)
    <3>1. Takes("NEM_UINT32_MOSAIC_COUNT", 4, 0, 0, 4)
      BY FieldsFit
    <3> QED BY <1>2, <2>3, <2>4, <3>1, ThenNew, CountOther DEF c2, add_new_field
  <2>7. /\ local' \in Locals /\ {local'.struct, local'.id, local'.first} \subseteq Uint32
        /\ local'.count = n /\ local'.left = n /\ local'.pcount = ctx.offset
    BY <1>2, <1>5, <2>1 DEF Locals
  <2>8. CASE n = 0
    <3>1. Go(c1, Return)
      BY <2>2, <2>8
    <3>2. LocalsBehind'
      BY <2>7, <3>1, TransferPointsAre, LocalsFree DEF Go
    <3>3. Return \notin MosaicPoints
      BY DEF MosaicPoints, Return
    <3>4. c1.ok /\ ctx.transactionType = TRANSFER => Many(c1, ItemIds) = local'.count
      BY <1>3, <1>5, <2>5, <2>7, <2>8 DEF Counts
    <3> QED BY <1>1, <1>5, <2>5, <2>7, <3>1, <3>2, <3>3, <3>4, TransferStep
  <2>9. CASE n # 0
    <3>1. PICK d : Moves(ctx, d, 4) /\ Counts(ctx, d, ItemIds, 0) /\ Go(d, "mosaic")
      BY <2>1, <2>2, <2>4, <2>6, <2>9
    <3>2. LocalsBehind'
      <4>1. at' \in {"mosaic", "failed"} /\ (at' # "failed" => d.ok) /\ ctx' = d
        BY <3>1 DEF Go
      <4>2. at' # "failed" => local'.left >= 1 /\ local'.pcount + 4 <= ctx'.offset
        BY <1>2, <2>1, <2>7, <2>9, <3>1, <4>1 DEF Moves
      <4> QED BY <2>7, <4>1, <4>2 DEF LocalsBehind, MosaicPoints
    <3>3. /\ "mosaic" \in MosaicPoints /\ "mosaic" # Return
          /\ local'.count - local'.left = 0
      BY <2>1, <2>7 DEF MosaicPoints, Return
    <3>4. d.ok /\ ctx.transactionType = TRANSFER =>
             Many(d, ItemIds) = local'.count - local'.left
      BY <1>3, <1>5, <3>1, <3>3 DEF Counts
    <3> QED BY <1>1, <1>5, <2>7, <3>1, <3>2, <3>3, <3>4, TransferStep
  <2> QED BY <2>8, <2>9
<1> QED BY <1>4, <1>5 DEF TransferMosaics

\* What is known at the points of one mosaic.
LEMMA MosaicStart ==
    ASSUME ParserInv, at \in MosaicPoints
    PROVE  /\ at \in TransferPoints /\ at \in BodyPoints /\ at \in FeePoints
           /\ Good(ctx) /\ ctx.offset \in Nat /\ Words \subseteq Uint32
           /\ 4 \in Uint32 /\ 8 \in Uint32
           /\ local \in Locals /\ {local.struct, local.id, local.first} \subseteq Uint32
           /\ local.left \in Nat /\ local.left >= 1
           /\ local.pcount \in Nat /\ local.pcount + 4 <= ctx.offset
           /\ local.count \in Nat /\ local.start \in Nat
           /\ ctx.transactionType = TRANSFER /\ txn.version = 2 =>
                  Many(ctx, ItemIds) = local.count - local.left
<1>1. /\ at \in TransferPoints /\ at \in BodyPoints /\ at \in FeePoints
      /\ at # "failed"
  BY TransferPointsAre DEF TransferPoints, MosaicPoints, FeePoints
<1>2. local.left >= 1 /\ local.pcount + 4 <= ctx.offset
  BY DEF ParserInv, LocalsBehind
<1>3. ctx.transactionType = TRANSFER /\ txn.version = 2 =>
         Many(ctx, ItemIds) = local.count - local.left
  BY <1>1 DEF ParserInv, ItemsCounted, Many, MosaicPoints, Return
<1>4. /\ local \in Locals /\ local.struct \in Uint32 /\ local.id \in Uint32
      /\ local.first \in Uint32 /\ 4 \in Uint32 /\ 8 \in Uint32
      /\ Good(ctx) /\ ctx.offset \in Nat /\ Words \subseteq Uint32
  BY <1>1, BodyStart
<1>5. /\ local.left \in Nat /\ local.pcount \in Nat /\ local.count \in Nat
      /\ local.start \in Nat
  BY <1>4 DEF Locals
<1> QED BY <1>1, <1>2, <1>3, <1>4, <1>5

\* From one point of a mosaic to the next nothing is added.
LEMMA MosaicReadStep ==
    ASSUME ParserInv, at \in MosaicPoints, NEW d, NEW n \in Nat, Moves(ctx, d, n),
           Counts(ctx, d, ItemIds, 0), NEW next \in MosaicPoints, Go(d, next),
           txn' = txn, frames' = frames, local' \in Locals, LocalsBehind',
           local'.count = local.count, local'.left = local.left
    PROVE  ParserInv'
<1>1. next # Return
  BY DEF MosaicPoints, Return
<1>2. d.ok /\ ctx.transactionType = TRANSFER /\ txn.version = 2 =>
         Many(d, ItemIds) = local'.count - local'.left
  BY MosaicStart DEF Counts
<1> QED BY <1>1, <1>2, MosaicStart, TransferStep

LEMMA TransferMosaicStep ==
    ASSUME ParserInv, TransferMosaic
    PROVE  ParserInv'
<1> DEFINE c0 == Read(ctx, 4)
           there(l) == has_data(c0, l)
           c1(l) == Require(c0, there(l))
           c2(l) == Read(c1(l), 4)
           adds(l, i) == /\ has_data(c2(l), i)
                         /\ Adds(l, 4 + i + 8)
           c3(l, i) == Require(c2(l), adds(l, i))
<1>1. PICK l \in Words, i \in Words :
         /\ Go(c3(l, i), "mosaic_namespace")
         /\ local' = [local EXCEPT !.id = i]
  BY DEF TransferMosaic
<1>2. /\ at \in MosaicPoints /\ UNCHANGED <<txn, frames>>
      /\ "mosaic_namespace" \in MosaicPoints
  BY DEF TransferMosaic, MosaicPoints
<1>3. /\ i \in Uint32 /\ i \in Nat /\ there(l) \in BOOLEAN /\ adds(l, i) \in BOOLEAN
      /\ Good(ctx) /\ 4 \in Uint32
  BY <1>2, MosaicStart DEF Uint32, has_data, Adds
<1> HIDE DEF c0, there, c1, c2, adds, c3
<1>4. Moves(ctx, c0, 4) /\ Good(c0) /\ Counts(ctx, c0, ItemIds, 0)
  <2>1. Moves(ctx, c0, 4)
    BY <1>3, ReadMoves DEF c0
  <2>2. Counts(ctx, c0, ItemIds, 0)
    BY <1>3, CountStart, CountRead DEF c0
  <2> QED BY <2>1, <2>2 DEF Moves
<1>5. Moves(ctx, c1(l), 4) /\ Good(c1(l)) /\ Counts(ctx, c1(l), ItemIds, 0)
  <2>1. Moves(ctx, c1(l), 4)
    BY <1>3, <1>4, ThenRequire DEF c1
  <2>2. Counts(ctx, c1(l), ItemIds, 0)
    BY <1>4, CountRead DEF c1
  <2> QED BY <2>1, <2>2 DEF Moves
<1>6. Moves(ctx, c2(l), 8) /\ Good(c2(l)) /\ Counts(ctx, c2(l), ItemIds, 0)
  <2>1. Moves(ctx, c2(l), 8)
    BY <1>3, <1>5, ThenRead DEF c2
  <2>2. Counts(ctx, c2(l), ItemIds, 0)
    BY <1>5, CountRead DEF c2
  <2> QED BY <2>1, <2>2 DEF Moves
<1>7. Moves(ctx, c3(l, i), 8) /\ Counts(ctx, c3(l, i), ItemIds, 0)
  BY <1>3, <1>6, ThenRequire, CountRead DEF c3
<1>8. /\ local' \in Locals /\ LocalsBehind'
      /\ local'.count = local.count /\ local'.left = local.left
  <2>1. /\ local' \in Locals /\ local'.struct = local.struct /\ local'.id = i
        /\ local'.first = local.first /\ local'.left = local.left
        /\ local'.pcount = local.pcount /\ local'.count = local.count
    BY <1>1, <1>2, <1>3, MosaicStart DEF Locals
  <2>2. /\ at' \in {"mosaic_namespace", "failed"} /\ ctx'.offset >= ctx.offset
        /\ ctx'.offset \in Nat
    BY <1>1, <1>7 DEF Go, Moves, Good, Context
  <2>3. local'.left >= 1 /\ local'.pcount + 4 <= ctx'.offset
    BY <1>2, <2>1, <2>2, MosaicStart
  <2>4. {local'.struct, local'.id, local'.first} \subseteq Uint32
    BY <1>2, <1>3, <2>1, MosaicStart
  <2> QED BY <2>1, <2>2, <2>3, <2>4 DEF LocalsBehind
<1> QED BY <1>1, <1>2, <1>7, <1>8, MosaicReadStep

\* A test of names is one of two values.
LEMMA AsciiNameTyped ==
    ASSUME NEW str \in Names, NEW length, NEW name \in Named(length)
    PROVE  ascii_name(str, name, length) \in Names /\ name \in Names
BY DEF ascii_name, Named, Names

LEMMA MosaicNamespaceStep ==
    ASSUME ParserInv, MosaicNamespace
    PROVE  ParserInv'
<1> DEFINE c0 == Read(ctx, 4)
           c1(n) == Read(c0, n)
           str(n, name) == ascii_name(local.str, name, n)
           isNem(n, name) == str(n, name) = "nem"
<1>0. PICK n \in Words : \E name \in Named(n) :
         /\ Go(c1(n), "mosaic_name")
         /\ local' = [local EXCEPT !.start = ctx.offset,
                                   !.first = n,
                                   !.str = str(n, name),
                                   !.isNem = isNem(n, name),
                                   !.namespace = name]
  BY DEF MosaicNamespace
<1>1. PICK name \in Named(n) :
         /\ Go(c1(n), "mosaic_name")
         /\ local' = [local EXCEPT !.start = ctx.offset,
                                   !.first = n,
                                   !.str = str(n, name),
                                   !.isNem = isNem(n, name),
                                   !.namespace = name]
  BY <1>0
<1>2. /\ at \in MosaicPoints /\ UNCHANGED <<txn, frames>>
      /\ "mosaic_name" \in MosaicPoints
  BY DEF MosaicNamespace, MosaicPoints
<1>3. n \in Uint32 /\ n \in Nat /\ Good(ctx) /\ 4 \in Uint32 /\ ctx.offset \in Nat
  BY <1>2, MosaicStart DEF Uint32
<1>4. isNem(n, name) \in BOOLEAN /\ str(n, name) \in Names /\ name \in Names
  <2>1. local.str \in Names
    BY <1>2, MosaicStart DEF Locals
  <2>2. ascii_name(local.str, name, n) \in Names /\ name \in Names
    BY <2>1, AsciiNameTyped
  <2> QED BY <2>2
<1> HIDE DEF c0, c1, str, isNem
<1>5. Moves(ctx, c0, 4) /\ Good(c0) /\ Counts(ctx, c0, ItemIds, 0)
  <2>1. Moves(ctx, c0, 4)
    BY <1>3, ReadMoves DEF c0
  <2>2. Counts(ctx, c0, ItemIds, 0)
    BY <1>3, CountStart, CountRead DEF c0
  <2> QED BY <2>1, <2>2 DEF Moves
<1>6. Moves(ctx, c1(n), 4 + n) /\ Counts(ctx, c1(n), ItemIds, 0) /\ 4 + n \in Nat
  <2>1. 4 + n \in Nat /\ 4 \in Nat
    BY <1>3
  <2>2. Moves(ctx, c1(n), 4 + n)
    BY <1>3, <1>5, <2>1, ThenRead DEF c1
  <2>3. Counts(ctx, c1(n), ItemIds, 0)
    BY <1>5, CountRead DEF c1
  <2> QED BY <2>1, <2>2, <2>3
<1>7. /\ local' \in Locals /\ LocalsBehind'
      /\ local'.count = local.count /\ local'.left = local.left
  <2>1. /\ local' \in Locals /\ local'.struct = local.struct /\ local'.id = local.id
        /\ local'.first = n /\ local'.left = local.left /\ local'.start = ctx.offset
        /\ local'.pcount = local.pcount /\ local'.count = local.count
    BY <1>1, <1>2, <1>3, <1>4, MosaicStart DEF Locals
  <2>2. /\ at' \in {"mosaic_name", "failed"} /\ ctx'.offset >= ctx.offset
        /\ ctx'.offset \in Nat
        /\ at' # "failed" => ctx'.offset = ctx.offset + (4 + n)
    BY <1>1, <1>6 DEF Go, Moves, Good, Context
  <2>3. local'.left >= 1 /\ local'.pcount + 4 <= ctx'.offset
    BY <1>2, <2>1, <2>2, MosaicStart
  <2>4. {local'.struct, local'.id, local'.first} \subseteq Uint32
    BY <1>2, <1>3, <2>1, MosaicStart
  <2>5. at' # "failed" => local'.start + 4 + local'.first = ctx'.offset
    BY <1>3, <2>1, <2>2
  <2> QED BY <2>1, <2>2, <2>3, <2>4, <2>5 DEF LocalsBehind
<1> QED BY <1>1, <1>2, <1>6, <1>7, MosaicReadStep

\* A mosaic that is not known shows its names and one quantity.
LEMMA UnknownMosaicMoves ==
    ASSUME ParserInv, at = "mosaic_name", NEW m \in Uint32, NEW l \in Nat, l = 4 + m,
           NEW c, Moves(ctx, c, l), Counts(ctx, c, ItemIds, 0),
           c.ok => Adds(local.id, Pair(local.first, m))
    PROVE  /\ Moves(ctx, UnknownMosaic(c, m), l + 8)
           /\ Counts(ctx, UnknownMosaic(c, m), ItemIds, 1)
<1> DEFINE one == local.count = 1
           u0 == IF one THEN add_new_field(c, "NEM_UINT32_MOSAIC_COUNT", local.pcount, 4)
                 ELSE c
           u1 == add_new_field(u0, "NEM_MOSAIC_UNKNOWN_TYPE", STACK, 0)
           u2 == Add(u1, "NEM_STR_TRANSFER_MOSAIC", local.start, local.id,
                     local.first, m)
           u3 == AddRead(u2, "NEM_MOSAIC_UNITS", 8)
<1>1. UnknownMosaic(c, m) = u3
  BY DEF UnknownMosaic
<1>2. at \in MosaicPoints
  BY DEF MosaicPoints
<1>3. /\ Good(ctx) /\ Good(c) /\ ctx.offset \in Nat /\ m \in Nat /\ 8 \in Uint32
      /\ local.pcount \in Nat /\ local.pcount + 4 <= ctx.offset /\ local.start \in Nat
      /\ local.id \in Uint32 /\ local.first \in Uint32
      /\ local.id \in Nat /\ local.first \in Nat
  BY <1>2, MosaicStart DEF Moves, Uint32
<1>4. local.start + 4 + local.first = ctx.offset
  BY DEF ParserInv, LocalsBehind
<1>5. /\ {"NEM_UINT32_MOSAIC_COUNT", "NEM_MOSAIC_UNKNOWN_TYPE",
          "NEM_STR_TRANSFER_MOSAIC"} \cap ItemIds = {}
      /\ "NEM_MOSAIC_UNITS" \in ItemIds
  BY DEF ItemIds
<1> HIDE DEF u0, u1, u2, u3
<1>6. Moves(ctx, u0, l) /\ Counts(ctx, u0, ItemIds, 0) /\ (u0.ok => c.ok)
  <2>1. Takes("NEM_UINT32_MOSAIC_COUNT", 4, 0, 0, 4)
    BY FieldsFit
  <2>2. local.pcount + 4 <= ctx.offset + l
    BY <1>3
  <2>3. CASE one
    <3>1. u0 = add_new_field(c, "NEM_UINT32_MOSAIC_COUNT", local.pcount, 4)
      BY <2>3 DEF u0
    <3>2. Moves(ctx, u0, l)
      BY <1>3, <2>1, <2>2, <3>1, ThenNew
    <3> QED BY <1>3, <1>5, <3>1, <3>2, CountOther, OkBefore DEF add_new_field
  <2>4. CASE ~one
    BY <2>4 DEF u0
  <2> QED BY <2>3, <2>4
<1>7. Good(u0)
  BY <1>6 DEF Moves
<1>8. Moves(ctx, u1, l) /\ Counts(ctx, u1, ItemIds, 0) /\ (u1.ok => c.ok)
  <2>1. Takes("NEM_MOSAIC_UNKNOWN_TYPE", 0, 0, 0, 0)
    BY FieldsFit
  <2>2. HasNoData("NEM_MOSAIC_UNKNOWN_TYPE")
    BY DEF HasNoData
  <2>3. Moves(ctx, u1, l)
    BY <1>3, <1>6, <2>1, <2>2, ThenStack DEF u1
  <2> QED BY <1>5, <1>6, <1>7, <2>3, CountOther, OkBefore DEF u1, add_new_field
<1>9. Good(u1)
  BY <1>8 DEF Moves
<1>10. u1.ok => /\ local.id = Pair(local.first, m)
                /\ local.start + local.id <= u1.offset
  <2> SUFFICES ASSUME u1.ok
               PROVE  /\ local.id = Pair(local.first, m)
                      /\ local.start + local.id <= u1.offset
    OBVIOUS
  <2>1. /\ u1.offset = ctx.offset + l
        /\ u1.offset <= u1.length /\ u1.length \in Lengths
    BY <1>8 DEF Moves, Good, Context
  <2>2. Pair(local.first, m) \in Uint32
    BY <1>3, <1>4, <2>1, LengthsAreWords, Uint32Assumption DEF Pair, Uint32
  <2>3. local.id = Pair(local.first, m)
    BY <1>3, <1>8, <2>2, AddsUp
  <2> QED BY <1>3, <1>4, <2>1, <2>3 DEF Pair
<1>11. Moves(ctx, u2, l) /\ Counts(ctx, u2, ItemIds, 0)
  <2>1. Moves(ctx, u2, l)
    BY <1>3, <1>8, <1>10, ThenAddPair DEF u2
  <2> QED BY <1>5, <1>8, <1>9, <2>1, CountOther DEF u2
<1>12. Moves(ctx, u3, l + 8) /\ Counts(ctx, u3, ItemIds, 1)
  <2>1. Takes("NEM_MOSAIC_UNITS", 8, 0, 0, 8)
    BY FieldsFit DEF ItemIds
  <2>2. l + 8 \in Nat
    OBVIOUS
  <2>3. Moves(ctx, u3, l + 8)
    BY <1>3, <1>11, <2>1, <2>2, ThenAddRead DEF u3
  <2>4. Good(u2)
    BY <1>11 DEF Moves
  <2>5. Counts(ctx, u3, ItemIds, 1)
    BY <1>3, <1>5, <1>11, <2>4, AddReadCounts DEF u3
  <2> QED BY <2>3, <2>5
<1> QED BY <1>1, <1>12

LEMMA MosaicNameStep ==
    ASSUME ParserInv, MosaicName
    PROVE  ParserInv'
<1> DEFINE adds(m) == Adds(local.id, Pair(local.first, m))
           c0(m) == Require(Read(ctx, 4), adds(m))
           c1(m) == Read(c0(m), m)
           str(m, name) == ascii_name(local.str, name, m)
           c2(m) == AddRead(c1(m), "NEM_MOSAIC_AMOUNT", 8)
           c3(m) == UnknownMosaic(c1(m), m)
           next == IF LastMosaic THEN Return ELSE "mosaic"
<1>0. PICK m \in Words : \E name \in Named(m) :
         /\ Go(IF local.isNem /\ str(m, name) = "xem" THEN c2(m) ELSE c3(m), next)
         /\ local' = [local EXCEPT !.str = str(m, name), !.left = @ - 1]
  BY DEF MosaicName
<1>1. PICK name \in Named(m) :
         /\ Go(IF local.isNem /\ str(m, name) = "xem" THEN c2(m) ELSE c3(m), next)
         /\ local' = [local EXCEPT !.str = str(m, name), !.left = @ - 1]
  BY <1>0
<1>2. at = "mosaic_name" /\ at \in MosaicPoints /\ UNCHANGED <<txn, frames>>
  BY DEF MosaicName, MosaicPoints
<1>3. /\ m \in Uint32 /\ m \in Nat /\ adds(m) \in BOOLEAN /\ 4 + m \in Nat
      /\ Good(ctx) /\ ctx.offset \in Nat /\ 4 \in Uint32 /\ 8 \in Uint32
  BY <1>2, MosaicStart DEF Uint32, Adds
<1>4. PICK d : Go(d, next) /\ d \in {c2(m), c3(m)}
  BY <1>1
<1>5. str(m, name) \in Names
  <2>1. local.str \in Names
    BY <1>2, MosaicStart DEF Locals
  <2> QED BY <2>1, AsciiNameTyped
<1> HIDE DEF adds, c0, c1, c2, c3, str, next
<1>6. /\ Moves(ctx, c0(m), 4) /\ Good(c0(m)) /\ Counts(ctx, c0(m), ItemIds, 0)
      /\ c0(m).ok => adds(m)
  <2>1. Moves(ctx, Read(ctx, 4), 4) /\ Counts(ctx, Read(ctx, 4), ItemIds, 0)
    BY <1>3, ReadMoves, CountStart, CountRead
  <2>2. Good(Read(ctx, 4))
    BY <2>1 DEF Moves
  <2>3. Moves(ctx, c0(m), 4) /\ (c0(m).ok => adds(m))
    BY <1>3, <2>1, ThenRequire DEF c0
  <2>4. Counts(ctx, c0(m), ItemIds, 0)
    BY <2>1, <2>2, CountRead DEF c0
  <2> QED BY <2>3, <2>4 DEF Moves
<1>7. /\ Moves(ctx, c1(m), 4 + m) /\ Good(c1(m)) /\ Counts(ctx, c1(m), ItemIds, 0)
      /\ c1(m).ok => adds(m)
  <2>1. Moves(ctx, c1(m), 4 + m)
    BY <1>3, <1>6, ThenRead DEF c1
  <2>2. Counts(ctx, c1(m), ItemIds, 0) /\ (c1(m).ok => adds(m))
    BY <1>6, CountRead, OkBefore DEF c1
  <2>3. Good(c1(m))
    BY <2>1 DEF Moves
  <2> QED BY <2>1, <2>2, <2>3
<1>8. Moves(ctx, c2(m), 4 + m + 8) /\ Counts(ctx, c2(m), ItemIds, 1)
  <2>1. Takes("NEM_MOSAIC_AMOUNT", 8, 0, 0, 8) /\ "NEM_MOSAIC_AMOUNT" \in ItemIds
    BY FieldsFit DEF ItemIds
  <2>2. 4 + m + 8 \in Nat
    BY <1>3
  <2>3. Moves(ctx, c2(m), 4 + m + 8)
    BY <1>3, <1>7, <2>1, <2>2, ThenAddRead DEF c2
  <2> QED BY <1>3, <1>7, <2>1, <2>3, AddReadCounts DEF c2
<1>9. Moves(ctx, c3(m), 4 + m + 8) /\ Counts(ctx, c3(m), ItemIds, 1)
  BY <1>2, <1>3, <1>7, UnknownMosaicMoves DEF c3, adds
<1>10. Moves(ctx, d, 4 + m + 8) /\ Counts(ctx, d, ItemIds, 1) /\ 4 + m + 8 \in Nat
  BY <1>3, <1>4, <1>8, <1>9
<1>11. /\ local' \in Locals /\ {local'.struct, local'.id, local'.first} \subseteq Uint32
       /\ local'.left = local.left - 1 /\ local'.count = local.count
       /\ local'.pcount = local.pcount
  <2>1. local \in Locals /\ local.left - 1 \in Nat
    BY <1>2, MosaicStart
  <2>2. /\ local' \in Locals /\ local'.left = local.left - 1
        /\ local'.count = local.count /\ local'.pcount = local.pcount
        /\ local'.struct = local.struct /\ local'.id = local.id
        /\ local'.first = local.first
    BY <1>1, <1>5, <2>1 DEF Locals
  <2> QED BY <1>2, <2>2, MosaicStart
<1>12. d.ok /\ ctx.transactionType = TRANSFER /\ txn.version = 2 =>
          Many(d, ItemIds) = local'.count - local'.left
  BY <1>2, <1>10, <1>11, MosaicStart DEF Counts
<1>13. CASE LastMosaic
  <2>1. next = Return /\ local.left = 1
    BY <1>13 DEF next, LastMosaic
  <2>2. LocalsBehind'
    BY <1>4, <1>11, <2>1, TransferPointsAre, LocalsFree DEF Go
  <2>3. local'.left = 0 /\ local'.count \in Nat /\ local'.count - local'.left = local'.count
    BY <1>2, <1>11, <2>1, MosaicStart
  <2>4. Return \notin MosaicPoints
    BY DEF MosaicPoints, Return
  <2> QED BY <1>2, <1>4, <1>10, <1>11, <1>12, <2>1, <2>2, <2>3, <2>4, MosaicStart,
             TransferStep
<1>14. CASE ~LastMosaic
  <2>1. next = "mosaic" /\ local.left # 1
    BY <1>14 DEF next, LastMosaic
  <2>2. LocalsBehind'
    <3>1. at' \in {"mosaic", "failed"} /\ (at' # "failed" => d.ok) /\ ctx' = d
      BY <1>4, <2>1 DEF Go
    <3>2. local'.left >= 1
      BY <1>2, <1>11, <2>1, MosaicStart
    <3>3. at' # "failed" => local'.pcount + 4 <= ctx'.offset
      BY <1>2, <1>3, <1>10, <1>11, <3>1, MosaicStart DEF Moves
    <3> QED BY <1>11, <3>1, <3>2, <3>3 DEF LocalsBehind, MosaicPoints
  <2>3. "mosaic" \in MosaicPoints /\ "mosaic" # Return
    BY DEF MosaicPoints, Return
  <2> QED BY <1>2, <1>4, <1>10, <1>11, <1>12, <2>1, <2>2, <2>3, MosaicStart,
             TransferStep
<1> QED BY <1>13, <1>14

-----------------------------------------------------------------------------
(* Modifications and their keys *)

ModificationPoints == {AGGREGATE_MODIFICATION, "modification"}

LEMMA ModificationPointsAre ==
    /\ ModificationPoints \subseteq BodyPoints
    /\ ModificationPoints \cap ({"failed", "start", TRANSFER, "message"} \cup FeePoints) = {}
    /\ "modification" # Return /\ "modification" # "failed" /\ Return # "failed"
    /\ "modification" # "start" /\ Return # "start" /\ AGGREGATE_MODIFICATION # "modification"
    /\ AGGREGATE_MODIFICATION # Return /\ AGGREGATE_MODIFICATION # "parsed"
    /\ {"modification", Return} \subseteq Points \ {"start", MULTISIG, SIGNATURE}
    /\ {"modification", Return} \subseteq PlainPoints
BY DEF ModificationPoints, BodyPoints, Points, FeePoints, MosaicPoints, TopTypes,
       PlainPoints, TRANSFER, AGGREGATE_MODIFICATION, MULTISIG, SIGNATURE, Return

\* What is known at the points of a modification.
LEMMA ModificationStart ==
    ASSUME ParserInv, at \in ModificationPoints
    PROVE  /\ at \in BodyPoints /\ ctx.transactionType # TRANSFER
           /\ Good(ctx) /\ ctx.offset \in Nat /\ Words \subseteq Uint32
           /\ 4 \in Uint32 /\ 44 \in Uint32 /\ txn.header \in Nat
           /\ txn.header + HEADER <= ctx.offset /\ Moves(ctx, ctx, 0)
           /\ local \in Locals /\ {local.struct, local.id, local.first} \subseteq Uint32
           /\ local.left \in Nat /\ local.count \in Nat
           /\ ctx.transactionType = AGGREGATE_MODIFICATION =>
                 /\ frames = <<>>
                 /\ Many(ctx, KeyIds) = IF at = "modification"
                                          THEN local.count - local.left ELSE 0
<1>1. /\ at \in BodyPoints /\ at # "failed"
      /\ at \notin {"start", TRANSFER, "message"} \cup FeePoints
      /\ at \notin {Return, "parsed"}
  BY ModificationPointsAre DEF FeePoints
<1>2. ctx.transactionType # TRANSFER
  BY <1>1 DEF ParserInv, ItemsCounted
<1>3. ctx.transactionType = AGGREGATE_MODIFICATION =>
         /\ frames = <<>>
         /\ Many(ctx, KeyIds) = IF at = "modification"
                                  THEN local.count - local.left ELSE 0
  BY <1>1 DEF ParserInv, ItemsCounted, Many
<1>4. /\ local \in Locals /\ local.struct \in Uint32 /\ local.id \in Uint32
      /\ local.first \in Uint32 /\ 4 \in Uint32 /\ 44 \in Uint32
      /\ Good(ctx) /\ ctx.offset \in Nat /\ Words \subseteq Uint32
      /\ txn.header \in Nat /\ txn.header + HEADER <= ctx.offset /\ Moves(ctx, ctx, 0)
  BY <1>1, BodyStart
<1>5. local.left \in Nat /\ local.count \in Nat
  BY <1>4 DEF Locals
<1> QED BY <1>1, <1>2, <1>3, <1>4, <1>5

LEMMA ModificationStep ==
    ASSUME ParserInv, at \in ModificationPoints,
           NEW d, NEW n \in Nat, Moves(ctx, d, n),
           NEW next \in {"modification", Return}, Go(d, next),
           txn' = txn, frames' = frames, local' \in Locals,
           {local'.struct, local'.id, local'.first} \subseteq Uint32,
           d.ok /\ next = Return => Listed(d, FeeIds, txn.header + FEE_AT),
           d.ok /\ ctx.transactionType = AGGREGATE_MODIFICATION =>
               Many(d, KeyIds) = IF next = Return THEN local'.count
                                 ELSE local'.count - local'.left
    PROVE  ParserInv'
<1>1. /\ ctx' = d /\ at' = (IF d.ok THEN next ELSE "failed")
      /\ d.transactionType = ctx.transactionType
  BY DEF Go, Moves
<1>2. /\ at \in BodyPoints /\ next \in Points \ {"start", MULTISIG, SIGNATURE}
      /\ at' \in PlainPoints \cup {"failed"} /\ at' # "start"
  BY <1>1, ModificationPointsAre
<1>3. LocalsBehind'
  BY <1>2, LocalsFree
<1>4. ASSUME ctx.transactionType = AGGREGATE_MODIFICATION, at' # "failed"
      PROVE  /\ frames' = <<>>
             /\ at' \in {"start", AGGREGATE_MODIFICATION, "modification", Return, "parsed"}
             /\ Many(ctx', KeyIds) =
                  CASE at' = "modification"       -> local'.count - local'.left
                    [] at' \in {Return, "parsed"} -> local'.count
                    [] OTHER                      -> 0
  <2>1. at' = next /\ d.ok /\ frames = <<>>
    BY <1>1, <1>4, ModificationStart
  <2>2. Many(d, KeyIds) = IF next = Return THEN local'.count
                          ELSE local'.count - local'.left
    BY <1>4, <2>1
  <2>3. CASE next = Return
    BY <1>1, <2>1, <2>2, <2>3, ModificationPointsAre
  <2>4. CASE next = "modification"
    BY <1>1, <2>1, <2>2, <2>4, ModificationPointsAre
  <2> QED BY <2>3, <2>4
<1>5. ItemsCounted'
  <2>1. ctx'.transactionType = ctx.transactionType /\ ctx.transactionType # TRANSFER
    BY <1>1, ModificationStart
  <2> QED BY <1>2, <1>4, <2>1 DEF ItemsCounted, Many
<1>6. d.ok /\ next \in FeePoints /\ at \notin FeePoints =>
         Listed(d, FeeIds, txn.header + FEE_AT)
  BY ModificationPointsAre DEF ModificationPoints
<1> QED BY <1>2, <1>3, <1>5, <1>6, BodyStep

LEMMA ModificationHeadStep ==
    ASSUME ParserInv, parse_aggregate_modification_transaction
    PROVE  ParserInv'
<1> DEFINE c0 == Read(ctx, 4)
           c1 == add_new_field(c0, "NEM_UINT32_AM_COSIGNATORY_NUM", ctx.offset, 4)
<1>1. PICK n \in Words : /\ Go(c1, "modification")
                         /\ local' = [NoLocals EXCEPT !.count = n, !.left = n]
  BY DEF parse_aggregate_modification_transaction
<1>2. /\ at = AGGREGATE_MODIFICATION /\ at \in ModificationPoints
      /\ UNCHANGED <<txn, frames>>
  BY DEF parse_aggregate_modification_transaction, ModificationPoints
<1>3. /\ n \in Nat /\ Good(ctx) /\ ctx.offset \in Nat /\ 4 \in Uint32
  BY <1>2, ModificationStart DEF Uint32
<1> HIDE DEF c0, c1
<1>4. Moves(ctx, c0, 4) /\ Good(c0) /\ Counts(ctx, c0, KeyIds, 0)
  <2>1. Moves(ctx, c0, 4)
    BY <1>3, ReadMoves DEF c0
  <2>2. Counts(ctx, c0, KeyIds, 0)
    BY <1>3, CountStart, CountRead DEF c0
  <2> QED BY <2>1, <2>2 DEF Moves
<1>5. Moves(ctx, c1, 4) /\ Counts(ctx, c1, KeyIds, 0)
  <2>1. Takes("NEM_UINT32_AM_COSIGNATORY_NUM", 4, 0, 0, 4)
    BY FieldsFit
  <2>2. "NEM_UINT32_AM_COSIGNATORY_NUM" \notin KeyIds
    BY DEF KeyIds
  <2> QED BY <1>3, <1>4, <2>1, <2>2, ThenNew, CountOther DEF c1, add_new_field
<1>6. /\ local' \in Locals /\ {local'.struct, local'.id, local'.first} \subseteq Uint32
      /\ local'.count = n /\ local'.left = n
  <2>1. /\ NoLocals \in Locals
        /\ {NoLocals.struct, NoLocals.id, NoLocals.first} \subseteq Uint32
    BY NoLocalsTyped
  <2> QED BY <1>1, <1>3, <2>1 DEF Locals
<1>7. c1.ok /\ ctx.transactionType = AGGREGATE_MODIFICATION =>
         Many(c1, KeyIds) = local'.count - local'.left
  <2>1. ctx.transactionType = AGGREGATE_MODIFICATION => Many(ctx, KeyIds) = 0
    BY <1>2, ModificationStart, ModificationPointsAre
  <2>2. local'.count - local'.left = 0
    BY <1>3, <1>6
  <2> QED BY <1>5, <2>1, <2>2 DEF Counts
<1> QED BY <1>1, <1>2, <1>5, <1>6, <1>7, ModificationPointsAre, ModificationStep

LEMMA OneModificationStep ==
    ASSUME ParserInv, Modification
    PROVE  ParserInv'
<1> DEFINE fits(p) == p <= PUBLICKEY
           c0(p) == Require(Read(ctx, 8 + PUBLICKEY_T), fits(p))
           c1(a, p) == Add(c0(p), "NEM_UINT32_AM_MODICATION_TYPE", ctx.offset + 4, 4, a, 0)
           c2(a, p) == add_new_field(c1(a, p), "NEM_PUBLICKEY_AM_COSIGNATORY",
                                     ctx.offset + 12, PUBLICKEY)
<1>1. PICK a \in Modes, p \in Words : Go(c2(a, p), "modification")
  BY DEF Modification
<1>2. /\ at = "modification" /\ at \in ModificationPoints /\ local.left > 0
      /\ UNCHANGED <<txn, frames>> /\ local' = [local EXCEPT !.left = @ - 1]
  BY DEF Modification, ModificationPoints
<1>3. /\ Good(ctx) /\ ctx.offset \in Nat /\ 44 \in Uint32
      /\ 8 + PUBLICKEY_T = 44 /\ fits(p) \in BOOLEAN /\ a \in Nat
  BY <1>2, ModificationStart DEF PUBLICKEY_T, Modes
<1> HIDE DEF fits, c0, c1, c2
<1>4. Moves(ctx, c0(p), 44) /\ Good(c0(p)) /\ Counts(ctx, c0(p), KeyIds, 0)
  <2>1. Moves(ctx, Read(ctx, 44), 44) /\ Counts(ctx, Read(ctx, 44), KeyIds, 0)
    BY <1>3, ReadMoves, CountStart, CountRead
  <2>2. Good(Read(ctx, 44))
    BY <2>1 DEF Moves
  <2>3. Moves(ctx, c0(p), 44) /\ Counts(ctx, c0(p), KeyIds, 0)
    BY <1>3, <2>1, <2>2, ThenRequire, CountRead DEF c0
  <2> QED BY <2>3 DEF Moves
<1>5. Moves(ctx, c1(a, p), 44) /\ Good(c1(a, p)) /\ Counts(ctx, c1(a, p), KeyIds, 0)
  <2>1. Takes("NEM_UINT32_AM_MODICATION_TYPE", 4, a, 0, 4)
    BY FieldsFit
  <2>2. "NEM_UINT32_AM_MODICATION_TYPE" \notin KeyIds
    BY DEF KeyIds
  <2>3. ctx.offset + 4 \in Nat /\ ctx.offset + 4 + 4 <= ctx.offset + 44
    BY <1>3
  <2>4. Moves(ctx, c1(a, p), 44)
    BY <1>3, <1>4, <2>1, <2>3, ThenAddAt DEF c1
  <2>5. Counts(ctx, c1(a, p), KeyIds, 0)
    BY <1>4, <2>2, CountOther DEF c1
  <2> QED BY <2>4, <2>5 DEF Moves
<1>6. Moves(ctx, c2(a, p), 44) /\ Counts(ctx, c2(a, p), KeyIds, 1)
  <2>1. Takes("NEM_PUBLICKEY_AM_COSIGNATORY", PUBLICKEY, 0, 0, PUBLICKEY)
    BY FieldsFit
  <2>2. "NEM_PUBLICKEY_AM_COSIGNATORY" \in KeyIds
    BY DEF KeyIds
  <2>3. /\ ctx.offset + 12 \in Nat /\ PUBLICKEY \in Nat
        /\ ctx.offset + 12 + PUBLICKEY <= ctx.offset + 44
    BY <1>3 DEF PUBLICKEY
  <2>4. Moves(ctx, c2(a, p), 44)
    BY <1>3, <1>5, <2>1, <2>3, ThenNew DEF c2
  <2>5. Counts(ctx, c2(a, p), KeyIds, 1)
    BY <1>3, <1>5, <2>2, CountOne DEF c2, add_new_field
  <2> QED BY <2>4, <2>5
<1>7. /\ local' \in Locals /\ {local'.struct, local'.id, local'.first} \subseteq Uint32
      /\ local'.left = local.left - 1 /\ local'.count = local.count
  <2>1. local \in Locals /\ local.left - 1 \in Nat
    BY <1>2, ModificationStart
  <2>2. /\ local' \in Locals /\ local'.left = local.left - 1
        /\ local'.count = local.count
        /\ local'.struct = local.struct /\ local'.id = local.id
        /\ local'.first = local.first
    BY <1>2, <2>1 DEF Locals
  <2> QED BY <1>2, <2>2, ModificationStart
<1>8. c2(a, p).ok /\ ctx.transactionType = AGGREGATE_MODIFICATION =>
         Many(c2(a, p), KeyIds) = local'.count - local'.left
  BY <1>2, <1>6, <1>7, ModificationStart DEF Counts
<1> QED BY <1>1, <1>2, <1>6, <1>7, <1>8, ModificationPointsAre, ModificationStep

LEMMA RelativeChangeStep ==
    ASSUME ParserInv, RelativeChange
    PROVE  ParserInv'
<1> DEFINE id == "NEM_UINT32_AM_RELATIVE_CHANGE"
           c0 == Read(ctx, 4)
           c1 == AddRead(c0, id, 4)
           c2 == add_new_field(c0, id, ctx.offset, 4)
           chosen(n) == CASE txn.version # 2 -> ctx
                          [] txn.version = 2 /\ n > 0 -> c1
                          [] txn.version = 2 /\ n = 0 -> c2
<1>1. PICK n \in Words : Go(AddFee(chosen(n)), Return)
  BY DEF RelativeChange
<1>2. /\ at = "modification" /\ at \in ModificationPoints /\ local.left = 0
      /\ UNCHANGED <<txn, local, frames>>
  BY DEF RelativeChange, ModificationPoints
<1>3. /\ Good(ctx) /\ ctx.offset \in Nat /\ 4 \in Uint32 /\ n \in Nat
      /\ Moves(ctx, ctx, 0) /\ Counts(ctx, ctx, KeyIds, 0)
  BY <1>2, ModificationStart, CountStart DEF Uint32
<1>4. PICK d \in {ctx, c1, c2} : Go(AddFee(d), Return)
  <2>1. n > 0 \/ n = 0
    BY <1>3
  <2> QED BY <1>1, <2>1
<1>5. Takes(id, 4, 0, 0, 4) /\ id \notin KeyIds /\ "NEM_UINT64_TXN_FEE" \notin KeyIds
  BY FieldsFit DEF KeyIds
<1> HIDE DEF id, c0, c1, c2
<1>6. Moves(ctx, c0, 4) /\ Good(c0) /\ Counts(ctx, c0, KeyIds, 0)
  <2>1. Moves(ctx, c0, 4)
    BY <1>3, ReadMoves DEF c0
  <2>2. Counts(ctx, c0, KeyIds, 0)
    BY <1>3, CountRead DEF c0
  <2> QED BY <2>1, <2>2 DEF Moves
<1>7. Moves(ctx, c1, 8) /\ Counts(ctx, c1, KeyIds, 0)
  <2>1. Moves(ctx, c1, 8)
    BY <1>3, <1>5, <1>6, ThenAddRead DEF c1
  <2>2. Good(Read(c0, 4)) /\ Counts(ctx, Read(c0, 4), KeyIds, 0)
    BY <1>3, <1>6, ReadMoves, CountRead DEF Moves
  <2> QED BY <1>5, <2>1, <2>2, CountOther DEF c1, AddRead, add_new_field
<1>8. Moves(ctx, c2, 4) /\ Counts(ctx, c2, KeyIds, 0)
  BY <1>3, <1>5, <1>6, ThenNew, CountOther DEF c2, add_new_field
<1>9. PICK k \in Nat : Moves(ctx, d, k) /\ Counts(ctx, d, KeyIds, 0)
  BY <1>3, <1>4, <1>7, <1>8
<1> DEFINE e == AddFee(d)
<1>10. /\ Moves(ctx, e, k) /\ Counts(ctx, e, KeyIds, 0)
       /\ e.ok => Listed(e, FeeIds, txn.header + FEE_AT)
  <2>1. Good(d)
    BY <1>9 DEF Moves
  <2>2. Counts(ctx, e, KeyIds, 0)
    BY <1>5, <1>9, <2>1, CountOther DEF AddFee, add_new_field
  <2> QED BY <1>2, <1>9, <2>2, ModificationStart, ThenFee
<1> HIDE DEF e
<1>11. e.ok /\ ctx.transactionType = AGGREGATE_MODIFICATION =>
          Many(e, KeyIds) = local'.count
  BY <1>2, <1>10, ModificationStart DEF Counts
<1>12. Go(e, Return)
  BY <1>4 DEF e
<1> QED BY <1>2, <1>10, <1>11, <1>12, ModificationPointsAre, ModificationStart,
           ModificationStep

-----------------------------------------------------------------------------
(* Headers, inner transactions and the end *)

\* A header adds one field, its type, and is remembered.
Heads(c, d) ==
    /\ Good(d)
    /\ d.length = c.length
    /\ d.transactionType = c.transactionType
    /\ d.headers = c.headers \cup {c.offset}
    /\ d.offset >= c.offset
    /\ d.ok => /\ c.ok
               /\ d.offset = c.offset + HEADER
               /\ Size(d) = Size(c) + 1
               /\ Listed(d, TypeIds, c.offset)

LEMMA ReadHeaderHeads ==
    ASSUME NEW c, Good(c), NEW id \in TypeIds
    PROVE  /\ Heads(c, ReadHeader(c, id))
           /\ \A ids, place : ReadHeader(c, id).ok /\ Listed(c, ids, place) =>
                                 Listed(ReadHeader(c, id), ids, place)
           /\ \A ids : ids \cap TypeIds = {} => Counts(c, ReadHeader(c, id), ids, 0)
<1> DEFINE c0 == Read(c, HEADER)
           c1 == [c0 EXCEPT !.headers = @ \cup {c.offset}]
           c2 == Add(c1, id, c.offset, 4, 0, 0)
<1>1. ReadHeader(c, id) = c2
  BY DEF ReadHeader, add_new_field
<1>2. HEADER \in Uint32 /\ HEADER \in Nat /\ HEADER >= 4 /\ c.offset \in Nat /\ c \in Context
  BY Uint32Assumption DEF Uint32, HEADER, Good, Context
<1>3. Moves(c, c0, HEADER) /\ Good(c0)
  <2>1. Moves(c, c0, HEADER)
    BY <1>2, ReadMoves
  <2> QED BY <2>1 DEF Moves
<1> HIDE DEF c0
<1>4. /\ c1 \in Context /\ c1.offset = c0.offset /\ c1.length = c0.length
      /\ c1.transactionType = c0.transactionType /\ c1.fields = c0.fields
      /\ c1.headers = c0.headers \cup {c.offset} /\ c1.ok = c0.ok
  BY <1>2, <1>3 DEF Good, Context
<1> HIDE DEF c1
<1>5. Good(c1) /\ Size(c1) = Size(c0)
  BY <1>3, <1>4 DEF Good, Size
<1>6. Takes(id, 4, 0, 0, 4)
  BY FieldsFit
<1>7. Fits(id, 4, 0, 0) /\ (c1.ok => c.offset \in Nat /\ c.offset + Width(id, 4) <= c1.offset)
  BY <1>2, <1>3, <1>4, <1>6 DEF Moves, Takes
<1>8. /\ Moves(c1, c2, 0)
      /\ c2.ok => Size(c2) = Size(c1) + 1 /\ Listed(c2, TypeIds, c.offset)
  <2>1. /\ c.offset \in Nat \cup {STACK} /\ 4 \in Nat /\ 0 \in Nat
        /\ c1.ok => HasNoData(id) \/ (c.offset \in Nat /\ c.offset + Width(id, 4) <= c1.offset)
    BY <1>2, <1>7
  <2>2. Moves(c1, c2, 0) /\ (c2.ok => Size(c2) = Size(c1) + 1)
    <3>1. Moves(c1, c2, 0)
      BY <1>5, <1>7, <2>1, AddMoves
    <3>2. ASSUME c2.ok PROVE Size(c2) = Size(c1) + 1
      BY <1>5, <3>2, AddSize
    <3> QED BY <3>1, <3>2
  <2>3. c2.ok => Listed(c2, TypeIds, c.offset)
    BY <1>5, <1>7, <2>1, AddListed
  <2> QED BY <2>2, <2>3
<1> HIDE DEF c2
<1>9. Size(c) \in Nat /\ Size(c0) \in Nat /\ Size(c2) \in Nat
  BY <1>3, <1>8, FieldsDomain DEF Moves
<1>10. c2.ok => Size(c2) = Size(c) + 1
  <2> SUFFICES ASSUME c2.ok PROVE Size(c2) = Size(c) + 1
    OBVIOUS
  <2>1. Read(c, HEADER).fields = c.fields
    <3>1. Require(c, FALSE).fields = c.fields
      BY <1>2 DEF Require, Context
    <3> QED BY <1>2, <3>1 DEF Read, read_data, Context
  <2> QED BY <1>5, <1>8, <2>1 DEF c0, Size
<1>11. Heads(c, c2)
  <2>1. /\ Good(c2) /\ c2.length = c.length /\ c2.transactionType = c.transactionType
        /\ c2.headers = c.headers \cup {c.offset}
    BY <1>3, <1>4, <1>8 DEF Moves
  <2>2. c2.offset >= c.offset /\ (c2.ok => c.ok /\ c2.offset = c.offset + HEADER)
    <3>1. c0.offset \in Nat /\ c2.offset \in Nat
      BY <1>3, <1>8 DEF Moves, Good, Context
    <3> QED BY <1>2, <1>3, <1>4, <1>8, <3>1 DEF Moves
  <2> QED BY <1>8, <1>10, <2>1, <2>2 DEF Heads
<1>12. ASSUME NEW ids, NEW place, c2.ok, Listed(c, ids, place)
       PROVE  Listed(c2, ids, place)
  <2>1. c1.ok /\ c0.ok
    BY <1>4, <1>8, <1>12 DEF Moves
  <2>2. Listed(c0, ids, place)
    BY <1>2, <1>3, <1>12, <2>1, StayListed
  <2>3. Listed(c1, ids, place)
    BY <1>4, <2>2 DEF Listed, FieldsOf
  <2> QED BY <1>5, <1>8, <1>12, <2>3, StayListed
<1>13. ASSUME NEW ids, ids \cap TypeIds = {}
       PROVE  Counts(c, c2, ids, 0)
  <2>1. Counts(c, c0, ids, 0)
    BY CountStart, CountRead DEF c0
  <2>2. Counts(c, c1, ids, 0)
    BY <1>4, <2>1 DEF Counts, Many, FieldsOf
  <2> QED BY <1>5, <1>13, <2>2, CountOther DEF c2
<1> QED BY <1>1, <1>11, <1>12, <1>13

LEMMA TopTypesAre ==
    /\ TopTypes \subseteq Points
    /\ TopTypes \subseteq PlainPoints
    /\ TopTypes \cap ({"start", "failed"} \cup FeePoints) = {}
    /\ {TRANSFER, AGGREGATE_MODIFICATION, SIGNATURE, MULTISIG} \subseteq TopTypes
    /\ SIGNATURE # MULTISIG /\ SIGNATURE # TRANSFER /\ SIGNATURE # AGGREGATE_MODIFICATION
    /\ TRANSFER # MULTISIG /\ TRANSFER # AGGREGATE_MODIFICATION
    /\ TRANSFER # "message" /\ TRANSFER # "mosaics"
    /\ MULTISIG # AGGREGATE_MODIFICATION
    /\ TRANSFER \notin MosaicPoints \cup {Return, "parsed"}
    /\ AGGREGATE_MODIFICATION \notin {"modification", Return, "parsed"}
BY DEF TopTypes, Points, PlainPoints, FeePoints, MosaicPoints, TRANSFER, SIGNATURE,
       AGGREGATE_MODIFICATION, MULTISIG, IMPORTANCE_TRANSFER, NAMESPACE,
       MOSAIC_DEFINITION, SUPPLY_CHANGE, Return

LEMMA DetailStep ==
    ASSUME ParserInv, parse_txn_detail
    PROVE  ParserInv'
<1> DEFINE c == ReadHeader(ctx, "NEM_UINT32_TRANSACTION_TYPE")
           known(type) == type \in TopTypes
           given(type) == IF ctx.length >= HEADER THEN type ELSE c.transactionType
           c1(type) == [c EXCEPT !.transactionType = given(type)]
           d(type) == Require(c1(type), known(type))
<1>1. PICK type \in Types, version \in Versions :
         /\ Go(d(type), type)
         /\ txn' = [header |-> ctx.offset, version |-> version]
  BY DEF parse_txn_detail
<1>2. at = "start" /\ UNCHANGED <<local, frames>>
  BY DEF parse_txn_detail
<1>3. /\ Good(ctx) /\ ctx.offset \in Nat /\ ctx.length \in Nat /\ ctx.length \in Lengths
      /\ local \in Locals /\ {local.struct, local.id, local.first} \subseteq Uint32
      /\ frames = <<>> /\ ctx.headers = {} /\ ctx.fields = <<>>
      /\ Size(ctx) \in Nat /\ known(type) \in BOOLEAN
  <2>1. /\ Good(ctx) /\ ctx.offset \in Nat /\ ctx.length \in Nat /\ ctx.length \in Lengths
        /\ Size(ctx) \in Nat
    <3>1. ctx \in Context
      BY DEF ParserInv, ParseTypeOK
    <3> QED BY <3>1, InvGood DEF Context
  <2>2. local \in Locals /\ {local.struct, local.id, local.first} \subseteq Uint32
    BY InvGood DEF ParserInv, ParseTypeOK, LocalsBehind
  <2>3. frames = <<>> /\ ctx.headers = {} /\ ctx.fields = <<>>
    BY <1>2 DEF ParserInv, LevelsPaid, HeadersListed, ItemsCounted
  <2>4. known(type) \in BOOLEAN
    OBVIOUS
  <2> HIDE DEF known
  <2> QED BY <2>1, <2>2, <2>3, <2>4
<1>4. type \in HeaderTypes /\ version \in 0..255
  <2>1. ctx.length \in Lengths
    BY <1>3
  <2>2. type \in HeaderTypes
    BY <2>1 DEF HeaderTypes, Types
  <2>3. version \in 0..255
    BY <2>1, VersionsAssumption DEF Versions
  <2> QED BY <2>2, <2>3
<1>5. /\ Heads(ctx, c)
      /\ Counts(ctx, c, ItemIds, 0) /\ Counts(ctx, c, KeyIds, 0)
  <2>1. "NEM_UINT32_TRANSACTION_TYPE" \in TypeIds
    BY DEF TypeIds
  <2>2. ItemIds \cap TypeIds = {} /\ KeyIds \cap TypeIds = {}
    BY DEF ItemIds, KeyIds, TypeIds
  <2> QED BY <1>3, <2>1, <2>2, ReadHeaderHeads
<1> HIDE DEF c
<1>6. given(type) \in HeaderTypes \cup {"none"}
  BY <1>4, <1>5 DEF Heads, Good, Context
<1> HIDE DEF known, given
<1>7. /\ c1(type) \in Context /\ c1(type).transactionType = given(type)
      /\ c1(type).offset = c.offset /\ c1(type).length = c.length
      /\ c1(type).fields = c.fields /\ c1(type).headers = c.headers
      /\ c1(type).ok = c.ok
  BY <1>5, <1>6 DEF Heads, Good, Context
<1> HIDE DEF c1
<1>8. Good(c1(type)) /\ Size(c1(type)) = Size(c)
  BY <1>5, <1>7 DEF Good, Heads, Size
<1> DEFINE e == d(type)
<1>9. /\ Good(e) /\ e.transactionType = given(type) /\ e.fields = c.fields
      /\ e.headers = {ctx.offset} /\ e.length = ctx.length
      /\ e.ok => c.ok /\ e.offset = c.offset /\ known(type)
  <2>1. /\ Moves(c1(type), e, 0) /\ (e.ok => known(type))
    BY <1>3, <1>8, RequireMoves
  <2>2. e.fields = c.fields
    BY <1>7 DEF Require, Context
  <2>3. c1(type).offset \in Nat
    BY <1>8 DEF Good, Context
  <2> HIDE DEF e
  <2> QED BY <1>3, <1>5, <1>7, <1>8, <2>1, <2>2, <2>3 DEF Moves, Heads
<1>10. ctx' = e /\ at' = (IF e.ok THEN type ELSE "failed")
  BY <1>1 DEF Go
<1> HIDE DEF e, d
<1>11. ASSUME e.ok
       PROVE  /\ e.offset = ctx.offset + HEADER /\ given(type) = type /\ type \in TopTypes
              /\ Listed(e, TypeIds, ctx.offset) /\ Size(e) = Size(ctx) + 1
              /\ ctx.ok /\ Many(e, ItemIds) = 0 /\ Many(e, KeyIds) = 0
  <2>1. /\ e.offset = ctx.offset + HEADER /\ Listed(c, TypeIds, ctx.offset)
        /\ Size(c) = Size(ctx) + 1 /\ ctx.ok /\ type \in TopTypes
    BY <1>5, <1>9, <1>11 DEF Heads, known
  <2>2. e.offset <= ctx.length
    BY <1>9 DEF Good
  <2>3. given(type) = type
    BY <1>3, <2>1, <2>2 DEF given, HEADER
  <2>4. Listed(e, TypeIds, ctx.offset) /\ Size(e) = Size(ctx) + 1
    BY <1>9, <2>1 DEF Listed, FieldsOf, Size
  <2>5. Many(ctx, ItemIds) = 0 /\ Many(ctx, KeyIds) = 0
    <3>1. FieldsOf(ctx, ItemIds) = {} /\ FieldsOf(ctx, KeyIds) = {}
      BY <1>3 DEF FieldsOf
    <3> QED BY <3>1, FS_EmptySet DEF Many
  <2>6. Many(c, ItemIds) = 0 /\ Many(c, KeyIds) = 0
    BY <1>5, <1>9, <1>11, <2>5 DEF Counts
  <2> QED BY <1>9, <2>1, <2>3, <2>4, <2>6 DEF Many, FieldsOf
<1>12. at' \in TopTypes \cup {"failed"} /\ (at' # "failed" => e.ok /\ at' = type)
  BY <1>10, <1>11 DEF TopTypes
<1>13. ParseTypeOK' /\ GoesOn'
  <2>1. txn' \in Header
    BY <1>1, <1>3, <1>4 DEF Header
  <2>2. at' \in Points
    BY <1>12, TopTypesAre DEF Points
  <2>3. /\ ctx' \in Context /\ ctx'.offset <= ctx'.length
        /\ Len(ctx'.fields) <= MAX_FIELD_COUNT
    BY <1>9, <1>10 DEF Good, Size
  <2> QED BY <1>2, <1>10, <1>12, <2>1, <2>2, <2>3
         DEF ParserInv, ParseTypeOK, GoesOn
<1>14. TableRecorded'
  BY <1>9, <1>10, FieldsDomain DEF TableRecorded, Good
<1>15. BehindHeader'
  <2> SUFFICES ASSUME at' # "failed"
               PROVE  /\ txn'.header + HEADER <= ctx'.offset
                      /\ ctx'.transactionType = SIGNATURE => at' = SIGNATURE
    BY DEF BehindHeader
  <2>1. txn'.header = ctx.offset
    BY <1>1
  <2> QED BY <1>3, <1>9, <1>10, <1>11, <1>12, <2>1 DEF HEADER
<1>16. LocalsBehind'
  BY <1>2, <1>3, <1>12, TopTypesAre, LocalsFree
<1>17. LevelsPaid'
  <2>1. frames' = <<>> /\ Len(frames') = 0 /\ DOMAIN frames' = {}
    BY <1>2, <1>3
  <2>2. at' # "failed" => Len(ctx'.fields) \in Nat /\ Len(ctx'.fields) >= 1
    <3>1. Len(ctx'.fields) = Size(e)
      BY <1>10 DEF Size
    <3>2. at' # "failed" => Size(e) = Size(ctx) + 1
      BY <1>11, <1>12
    <3> QED BY <1>3, <3>1, <3>2
  <2>3. at' # "start"
    BY <1>12, TopTypesAre
  <2>4. at' = MULTISIG => at' # "failed"
    BY TopTypesAre
  <2>5. ASSUME at' # "failed"
        PROVE  4 * Len(frames') <= Len(ctx'.fields) + (IF at' = SIGNATURE THEN 1 ELSE 2)
    <3> DEFINE extra == IF at' = SIGNATURE THEN 1 ELSE 2
               size == Len(ctx'.fields)
    <3>1. size \in Nat /\ Len(frames') = 0 /\ extra \in Nat
      BY <2>1, <2>2, <2>5
    <3> HIDE DEF extra, size
    <3>2. 4 * Len(frames') <= size + extra
      BY <3>1
    <3> QED BY <3>2 DEF extra, size
  <2>6. \A i \in DOMAIN frames' : frames'[i].left + frames'[i].start = frames'[i].end
    BY <2>1
  <2>7. at' = MULTISIG => Len(ctx'.fields) >= 1
    BY <2>2, <2>4
  <2> QED BY <2>1, <2>3, <2>5, <2>6, <2>7 DEF LevelsPaid
<1>18. HeadersListed'
  <2>1. at' # "start" /\ at' \notin FeePoints
    BY <1>12, TopTypesAre DEF FeePoints, MosaicPoints, Return
  <2>2. ctx'.headers = {ctx.offset} /\ txn'.header = ctx.offset
    BY <1>1, <1>9, <1>10
  <2>3. at' # "failed" => Listed(ctx', TypeIds, ctx.offset)
    BY <1>10, <1>11, <1>12
  <2> QED BY <2>1, <2>2, <2>3 DEF HeadersListed
<1>19. ItemsCounted'
  <2>1. at' # "start" /\ frames' = <<>>
    BY <1>2, <1>3, <1>12, TopTypesAre
  <2>2. at' # "failed" => /\ ctx'.transactionType = at'
                          /\ Cardinality(FieldsOf(ctx', ItemIds)) = 0
                          /\ Cardinality(FieldsOf(ctx', KeyIds)) = 0
    BY <1>9, <1>10, <1>11, <1>12 DEF Many
  <2> QED BY <2>1, <2>2, TopTypesAre DEF ItemsCounted
<1> QED BY <1>13, <1>14, <1>15, <1>16, <1>17, <1>18, <1>19 DEF ParserInv

\* What is known where an inner transaction may begin or end.
LEMMA InnerStart ==
    ASSUME ParserInv, at \in {MULTISIG, SIGNATURE} \/ (at = Return /\ frames # <<>>)
    PROVE  /\ ctx.transactionType \notin {TRANSFER, AGGREGATE_MODIFICATION}
           /\ at \notin {"start", "failed"}
           /\ txn.header + HEADER <= ctx.offset /\ ctx.ok
           /\ frames \in Seq(Frame) /\ Len(frames) \in Nat
           /\ local \in Locals /\ {local.struct, local.id, local.first} \subseteq Uint32
           /\ at # SIGNATURE => 4 * Len(frames) <= Size(ctx) + 2
           /\ at = SIGNATURE => 4 * Len(frames) <= Size(ctx) + 1
           /\ \A i \in DOMAIN frames : frames[i].left + frames[i].start = frames[i].end
           /\ \A h \in ctx.headers :
                 /\ Listed(ctx, TypeIds, h)
                 /\ h # txn.header \/ at = Return => Listed(ctx, FeeIds, h + FEE_AT)
<1>1. /\ at \notin {"start", "failed", "parsed", "message", "modification", "mosaics"}
      /\ at \notin {TRANSFER, AGGREGATE_MODIFICATION}
      /\ at # Return => at \notin FeePoints
      /\ at = Return => frames # <<>>
      /\ Return \in FeePoints
  BY DEF MULTISIG, SIGNATURE, Return, TRANSFER, AGGREGATE_MODIFICATION, FeePoints,
         MosaicPoints
<1>2. ctx.transactionType \notin {TRANSFER, AGGREGATE_MODIFICATION}
  <2>1. ctx.transactionType = TRANSFER =>
           frames = <<>> /\ at \in {"start", TRANSFER, "message"} \cup FeePoints
    BY <1>1 DEF ParserInv, ItemsCounted
  <2>2. ctx.transactionType = AGGREGATE_MODIFICATION =>
           /\ frames = <<>>
           /\ at \in {"start", AGGREGATE_MODIFICATION, "modification", Return, "parsed"}
    BY <1>1 DEF ParserInv, ItemsCounted
  <2> QED BY <1>1, <2>1, <2>2
<1>3. /\ frames \in Seq(Frame) /\ local \in Locals /\ Len(ctx.fields) = Size(ctx)
      /\ Len(frames) \in Nat
  BY DEF ParserInv, ParseTypeOK, Size
<1>4. /\ at # SIGNATURE => 4 * Len(frames) <= Size(ctx) + 2
      /\ at = SIGNATURE => 4 * Len(frames) <= Size(ctx) + 1
      /\ \A i \in DOMAIN frames : frames[i].left + frames[i].start = frames[i].end
  BY <1>1, <1>3 DEF ParserInv, LevelsPaid
<1>5. /\ txn.header + HEADER <= ctx.offset /\ ctx.ok
      /\ {local.struct, local.id, local.first} \subseteq Uint32
  BY <1>1 DEF ParserInv, BehindHeader, GoesOn, LocalsBehind
<1>6. \A h \in ctx.headers :
         /\ Listed(ctx, TypeIds, h)
         /\ h # txn.header \/ at = Return => Listed(ctx, FeeIds, h + FEE_AT)
  BY <1>1 DEF ParserInv, HeadersListed
<1> QED BY <1>1, <1>2, <1>3, <1>4, <1>5, <1>6

\* A level begins once its fields have been added.
LEMMA EnterStep ==
    ASSUME ParserInv, at \in {MULTISIG, SIGNATURE},
           NEW c, NEW n \in Nat, Moves(ctx, c, n),
           at = SIGNATURE => n + 4 >= 8 + PUBLICKEY + ADDRESS_T + 4,
           c.ok /\ at = SIGNATURE => Size(c) >= Size(ctx) + 2,
           NEW innerLength \in Words, NEW isInner \in BOOLEAN,
           EnterMultisig(c, innerLength, isInner), txn' = txn, local' = local
    PROVE  ParserInv'
<1> DEFINE c0 == Read(c, 4)
           there == has_data(c0, innerLength)
           c1 == Require(c0, there)
           id == "NEM_UINT64_MULTISIG_FEE"
           start == txn.header + FEE_AT
           d == add_new_field(c1, id, start, 8)
           frame == [isInner |-> isInner, left |-> innerLength, start |-> c0.offset,
                     end |-> c0.offset + innerLength]
<1>1. Go(d, Return) /\ frames' = Append(frames, frame)
  BY DEF EnterMultisig
<1>2. /\ Good(ctx) /\ Good(c) /\ ctx.offset \in Nat /\ txn.header \in Nat
      /\ 4 \in Uint32 /\ innerLength \in Nat /\ innerLength \in Uint32
      /\ there \in BOOLEAN /\ Size(ctx) \in Nat /\ n + 4 \in Nat
  BY InvGood, Uint32Assumption DEF Moves, Uint32, has_data
<1> HIDE DEF c0, there
<1>3. Moves(ctx, c0, n + 4) /\ Good(c0) /\ c0.offset \in Nat
  <2>1. Moves(ctx, c0, n + 4)
    BY <1>2, ThenRead DEF c0
  <2> QED BY <2>1 DEF Moves, Good, Context
<1> HIDE DEF c1
<1>4. Moves(ctx, c1, n + 4) /\ Good(c1)
  <2>1. Moves(ctx, c1, n + 4)
    BY <1>2, <1>3, ThenRequire DEF c1
  <2> QED BY <2>1 DEF Moves
<1>5. /\ Takes(id, 8, 0, 0, 8) /\ id \in FeeIds
      /\ start \in Nat /\ start + 8 <= ctx.offset + (n + 4)
  <2>1. Takes(id, 8, 0, 0, 8) /\ id \in FeeIds
    BY FieldsFit DEF FeeIds
  <2>2. txn.header + HEADER <= ctx.offset
    BY InnerStart
  <2> QED BY <1>2, <2>1, <2>2 DEF HEADER, FEE_AT
<1> HIDE DEF id, start
<1>6. /\ Moves(ctx, d, n + 4)
      /\ d.ok => c1.ok /\ Size(d) = Size(c1) + 1 /\ Listed(d, FeeIds, start)
  <2>1. Moves(ctx, d, n + 4)
    BY <1>2, <1>4, <1>5, ThenNew
  <2>2. c1.ok => start + 8 <= c1.offset
    BY <1>4, <1>5 DEF Moves
  <2>3. Fits(id, 8, 0, 0) /\ Width(id, 8) = 8
    BY <1>5 DEF Takes
  <2>4. c1.ok => HasNoData(id) \/ (start \in Nat /\ start + Width(id, 8) <= c1.offset)
    BY <1>5, <2>2, <2>3
  <2>5. d.ok => Listed(d, FeeIds, start)
    BY <1>4, <1>5, <2>3, <2>4, AddListed DEF add_new_field
  <2>6. d.ok => c1.ok /\ Size(d) = Size(c1) + 1
    BY <1>4, AddSize, OkBefore DEF add_new_field
  <2> QED BY <2>1, <2>5, <2>6
<1>7. d.ok => c.ok /\ Size(d) = Size(c) + 1
  <2>1. c0.ok /\ c1.ok => Size(c1) = Size(c)
    <3>1. c \in Context /\ c0 \in Context
      BY <1>2, <1>3 DEF Good
    <3>2. c0.fields = c.fields
      BY <3>1 DEF c0, Read, read_data, Require, Context
    <3>3. c1.fields = c0.fields
      BY <3>1 DEF c1, Require, Context
    <3> QED BY <3>2, <3>3 DEF Size
  <2>2. (c1.ok => c0.ok) /\ (c0.ok => c.ok)
    BY <1>2, <1>3, OkBefore DEF c0, c1
  <2> QED BY <1>6, <2>1, <2>2
<1> HIDE DEF d
<1>8. ctx' = d /\ at' = (IF d.ok THEN Return ELSE "failed")
  BY <1>1 DEF Go
<1>9. /\ at' \in {Return, "failed"} /\ at' \notin {"start", MULTISIG, SIGNATURE}
      /\ at' # "failed" => d.ok /\ at' = Return
      /\ at' \in PlainPoints \cup {"failed"} /\ at' \in Points
      /\ Return # "failed"
  BY <1>8, TransferPointsAre DEF Return, MULTISIG, SIGNATURE, Points
<1>10. /\ Good(d) /\ d.offset \in Nat /\ d.offset >= ctx.offset
       /\ d.transactionType = ctx.transactionType /\ d.headers = ctx.headers
       /\ Size(d) \in Nat /\ Len(d.fields) = Size(d) /\ DOMAIN d.fields = 1..Size(d)
  BY <1>6, FieldsDomain DEF Moves, Good, Context, Size
<1>11. frame \in Frame /\ frame.left + frame.start = frame.end
  BY <1>2, <1>3 DEF Frame
<1> HIDE DEF frame
<1>12. ParseTypeOK' /\ GoesOn'
  <2>1. frames' \in Seq(Frame)
    BY <1>1, <1>11, InnerStart
  <2>2. txn' \in Header /\ local' \in Locals
    BY DEF ParserInv, ParseTypeOK
  <2> QED BY <1>8, <1>9, <1>10, <2>1, <2>2 DEF ParseTypeOK, GoesOn, Good
<1>13. TableRecorded'
  BY <1>8, <1>10 DEF TableRecorded, Good
<1>14. BehindHeader'
  <2>1. /\ txn.header + HEADER <= ctx.offset
        /\ ctx.transactionType = SIGNATURE /\ at # SIGNATURE
             => ctx.offset >= HEADER + 8 + PUBLICKEY + ADDRESS_T + 4
    BY InnerStart DEF ParserInv, BehindHeader
  <2>2. at' # "failed" => d.offset = ctx.offset + (n + 4)
    BY <1>6, <1>9 DEF Moves
  <2>3. at' # "failed" /\ at = SIGNATURE
           => d.offset >= HEADER + 8 + PUBLICKEY + ADDRESS_T + 4
    BY <1>2, <2>1, <2>2 DEF HEADER, PUBLICKEY, ADDRESS_T
  <2>4. at' # "failed" /\ at # SIGNATURE /\ ctx.transactionType = SIGNATURE
           => d.offset >= HEADER + 8 + PUBLICKEY + ADDRESS_T + 4
    BY <1>2, <1>10, <2>1 DEF HEADER, PUBLICKEY, ADDRESS_T
  <2>5. txn.header + HEADER <= d.offset
    BY <1>2, <1>10, <2>1 DEF HEADER
  <2> QED BY <1>8, <1>10, <2>3, <2>4, <2>5 DEF BehindHeader
<1>15. LocalsBehind'
  BY <1>9, InnerStart, LocalsFree
<1>16. LevelsPaid'
  <2>1. Len(frames') = Len(frames) + 1 /\ Len(frames) \in Nat
    BY <1>1, InnerStart
  <2>2. ASSUME NEW i \in DOMAIN frames'
        PROVE  frames'[i].left + frames'[i].start = frames'[i].end
    <3>1. frames \in Seq(Frame)
      BY InnerStart
    <3>2. CASE i = Len(frames) + 1
      BY <1>1, <1>11, <3>1, <3>2
    <3>3. CASE i # Len(frames) + 1
      <4>1. i \in DOMAIN frames /\ frames'[i] = frames[i]
        BY <1>1, <3>1, <3>3
      <4> QED BY <4>1, InnerStart
    <3> QED BY <3>2, <3>3
  <2>3. ASSUME at' # "failed"
        PROVE  4 * (Len(frames) + 1) <= Size(d) + 2
    <3>1. d.ok /\ Size(d) = Size(c) + 1 /\ c.ok
      BY <1>7, <1>9, <2>3
    <3>2. Size(c) >= Size(ctx) /\ Size(c) \in Nat
      BY <1>2, <3>1, FieldsDomain DEF Moves
    <3>3. CASE at = SIGNATURE
      <4>1. 4 * Len(frames) <= Size(ctx) + 1 /\ Size(c) >= Size(ctx) + 2
        BY <3>1, <3>3, InnerStart
      <4> QED BY <1>2, <2>1, <3>1, <3>2, <4>1
    <3>4. CASE at = MULTISIG
      <4>1. Len(frames) = 0 /\ Size(ctx) >= 1
        BY <3>4 DEF ParserInv, LevelsPaid, Size
      <4> QED BY <1>2, <3>1, <3>2, <4>1
    <3> QED BY <3>3, <3>4
  <2>4. at' # "failed" => 4 * Len(frames') <= Len(ctx'.fields) + 2
    BY <1>8, <1>10, <2>1, <2>3
  <2>5. at' # "start" /\ at' # MULTISIG /\ at' # SIGNATURE
    BY <1>9
  <2> QED BY <2>2, <2>4, <2>5 DEF LevelsPaid
<1>17. HeadersListed'
  <2> SUFFICES ASSUME at' # "failed", NEW h \in ctx.headers
               PROVE  Listed(d, TypeIds, h) /\ Listed(d, FeeIds, h + FEE_AT)
    BY <1>8, <1>9, <1>10 DEF HeadersListed
  <2>1. d.ok
    BY <1>9
  <2>2. Listed(d, TypeIds, h)
    BY <1>2, <1>6, <2>1, InnerStart, StayListed
  <2>3. CASE h = txn.header
    BY <1>6, <2>1, <2>2, <2>3 DEF start
  <2>4. CASE h # txn.header
    BY <1>2, <1>6, <2>1, <2>2, <2>4, InnerStart, StayListed
  <2> QED BY <2>3, <2>4
<1>18. ItemsCounted'
  BY <1>8, <1>9, <1>10, InnerStart DEF ItemsCounted
<1> QED BY <1>12, <1>13, <1>14, <1>15, <1>16, <1>17, <1>18 DEF ParserInv

LEMMA MultisigStep ==
    ASSUME ParserInv, parse_multisig_transaction
    PROVE  ParserInv'
<1>1. PICK innerLength \in Words : EnterMultisig(ctx, innerLength, TRUE)
  BY DEF parse_multisig_transaction
<1>2. at = MULTISIG /\ txn' = txn /\ local' = local /\ MULTISIG # SIGNATURE
  BY TopTypesAre DEF parse_multisig_transaction
<1>3. Moves(ctx, ctx, 0)
  BY InvGood, Stays
<1> QED BY <1>1, <1>2, <1>3, EnterStep

LEMMA SignatureStep ==
    ASSUME ParserInv, parse_multisig_signature_transaction
    PROVE  ParserInv'
<1> DEFINE fits(a, h) == a <= ADDRESS /\ h <= PUBLICKEY
           c(a, h) == Require(Read(ctx, 8 + PUBLICKEY + ADDRESS_T), fits(a, h))
           c1(a, h) == add_new_field(c(a, h), "NEM_HASH256", ctx.offset + 8, h)
           c2(a, h) == add_new_field(c1(a, h), "NEM_STR_MULTISIG_ADDRESS",
                                     ctx.offset + 8 + PUBLICKEY + 4, ADDRESS)
<1>1. PICK a \in Words, h \in Words, innerLength \in Words :
         EnterMultisig(c2(a, h), innerLength, FALSE)
  BY DEF parse_multisig_signature_transaction
<1>2. at = SIGNATURE /\ txn' = txn /\ local' = local
  BY DEF parse_multisig_signature_transaction
<1>3. /\ Good(ctx) /\ ctx.offset \in Nat /\ h \in Nat /\ 84 \in Uint32
      /\ fits(a, h) \in BOOLEAN /\ 8 + PUBLICKEY + ADDRESS_T = 84
      /\ fits(a, h) => h <= PUBLICKEY
  BY InvGood, Uint32Assumption DEF Uint32, PUBLICKEY, ADDRESS_T
<1> HIDE DEF fits, c, c1, c2
<1>4. Moves(ctx, c(a, h), 84) /\ Good(c(a, h)) /\ (c(a, h).ok => fits(a, h))
  <2>1. Moves(ctx, Read(ctx, 84), 84)
    BY <1>3, ReadMoves
  <2>2. Moves(ctx, c(a, h), 84) /\ (c(a, h).ok => fits(a, h))
    BY <1>3, <2>1, ThenRequire DEF c
  <2> QED BY <2>2 DEF Moves
<1>5. /\ Moves(ctx, c1(a, h), 84) /\ Good(c1(a, h))
      /\ c1(a, h).ok => c(a, h).ok /\ Size(c1(a, h)) = Size(c(a, h)) + 1
  <2>1. Moves(ctx, c1(a, h), 84)
    <3>1. CASE c(a, h).ok
      <4>1. Takes("NEM_HASH256", h, 0, 0, h)
        BY <1>3, <1>4, <3>1, FieldsFit
      <4>2. ctx.offset + 8 \in Nat /\ ctx.offset + 8 + h <= ctx.offset + 84
        BY <1>3, <1>4, <3>1 DEF PUBLICKEY
      <4> QED BY <1>3, <1>4, <4>1, <4>2, ThenNew DEF c1
    <3>2. CASE ~c(a, h).ok
      <4>1. c1(a, h) = Require(c(a, h), FALSE)
        BY <3>2 DEF c1, add_new_field, Add
      <4>2. \A b \in BOOLEAN : Moves(ctx, Require(c(a, h), b), 84)
        BY <1>3, <1>4, ThenRequire
      <4> QED BY <4>1, <4>2
    <3> QED BY <3>1, <3>2
  <2>2. c1(a, h).ok => c(a, h).ok /\ Size(c1(a, h)) = Size(c(a, h)) + 1
    BY <1>4, AddSize, OkBefore DEF c1, add_new_field
  <2> QED BY <2>1, <2>2 DEF Moves
<1>6. /\ Moves(ctx, c2(a, h), 84)
      /\ c2(a, h).ok => c1(a, h).ok /\ Size(c2(a, h)) = Size(c1(a, h)) + 1
  <2>1. Takes("NEM_STR_MULTISIG_ADDRESS", ADDRESS, 0, 0, ADDRESS)
    BY FieldsFit DEF ADDRESS
  <2>2. /\ ctx.offset + 8 + PUBLICKEY + 4 \in Nat /\ ADDRESS \in Nat
        /\ ctx.offset + 8 + PUBLICKEY + 4 + ADDRESS <= ctx.offset + 84
    BY <1>3 DEF PUBLICKEY, ADDRESS
  <2>3. Moves(ctx, c2(a, h), 84)
    BY <1>3, <1>5, <2>1, <2>2, ThenNew DEF c2
  <2>4. c2(a, h).ok => c1(a, h).ok /\ Size(c2(a, h)) = Size(c1(a, h)) + 1
    BY <1>5, AddSize, OkBefore DEF c2, add_new_field
  <2> QED BY <2>3, <2>4
<1>7. c2(a, h).ok => Size(c2(a, h)) >= Size(ctx) + 2
  <2> SUFFICES ASSUME c2(a, h).ok PROVE Size(c2(a, h)) >= Size(ctx) + 2
    OBVIOUS
  <2>1. /\ Size(c2(a, h)) = Size(c1(a, h)) + 1 /\ Size(c1(a, h)) = Size(c(a, h)) + 1
        /\ c(a, h).ok
    BY <1>5, <1>6
  <2>2. Size(c(a, h)) >= Size(ctx)
    BY <1>4, <2>1 DEF Moves
  <2>3. Size(c(a, h)) \in Nat /\ Size(ctx) \in Nat
    BY <1>3, <1>4, FieldsDomain
  <2> QED BY <2>1, <2>2, <2>3
<1>8. 84 + 4 >= 8 + PUBLICKEY + ADDRESS_T + 4
  BY DEF PUBLICKEY, ADDRESS_T
<1> QED BY <1>1, <1>2, <1>6, <1>7, <1>8, EnterStep

\* The loop goes on with one more transaction, which comes after the last one.
LEMMA NextInnerStep ==
    ASSUME ParserInv, NextInner
    PROVE  ParserInv'
<1> DEFINE top == frames[Len(frames)]
           id == IF top.isInner THEN "NEM_UINT32_INNER_TRANSACTION_TYPE"
                 ELSE "NEM_UINT32_DETAIL_TRANSACTION_TYPE"
           c == ReadHeader(ctx, id)
           known(type) == type \in InnerTypes
           d(type) == Require(c, known(type))
           frame == [top EXCEPT !.left = Remaining, !.start = ctx.offset]
<1>1. PICK type \in Types, version \in Versions :
         /\ Go(d(type), type)
         /\ txn' = [header |-> ctx.offset, version |-> version]
  BY DEF NextInner
<1>2. /\ at = Return /\ frames # <<>> /\ UNCHANGED local
      /\ frames' = [frames EXCEPT ![Len(frames)] = frame]
  BY DEF NextInner
<1>3. /\ Good(ctx) /\ ctx.offset \in Nat /\ ctx.length \in Lengths /\ Size(ctx) \in Nat
      /\ known(type) \in BOOLEAN /\ version \in 0..255
  <2>1. ctx.length \in Lengths
    BY DEF ParserInv, ParseTypeOK, Context
  <2>2. version \in 0..255
    BY <2>1, VersionsAssumption DEF Versions
  <2> QED BY <2>1, <2>2, InvGood
<1>4. id \in TypeIds
  BY DEF TypeIds
<1>5. /\ frames \in Seq(Frame) /\ Len(frames) \in Nat /\ Len(frames) \in DOMAIN frames
      /\ top \in Frame /\ top.left + top.start = top.end
  <2>1. frames \in Seq(Frame)
    BY <1>2, InnerStart
  <2>2. Len(frames) \in DOMAIN frames
    BY <1>2, <2>1
  <2> QED BY <1>2, <2>1, <2>2, InnerStart
<1>6. frame \in Frame /\ frame.left + frame.start = frame.end
  <2>1. top.left \in Int /\ top.start \in Nat /\ top.end \in Nat
    BY <1>5 DEF Frame
  <2>2. Remaining = top.left - (ctx.offset - top.start) /\ Remaining \in Int
    BY <1>3, <2>1 DEF Remaining
  <2> HIDE DEF top
  <2>3. frame \in Frame
    BY <1>3, <1>5, <2>2 DEF Frame
  <2>4. frame.left = Remaining /\ frame.start = ctx.offset /\ frame.end = top.end
    BY <1>5 DEF Frame
  <2> HIDE DEF frame
  <2>5. frame.left + frame.start = frame.end
    BY <1>3, <1>5, <2>1, <2>2, <2>4
  <2> QED BY <2>3, <2>5
<1> HIDE DEF top, id, frame
<1>7. /\ Heads(ctx, c)
      /\ \A ids, place : c.ok /\ Listed(ctx, ids, place) => Listed(c, ids, place)
  BY <1>3, <1>4, ReadHeaderHeads
<1> HIDE DEF c, known
<1> DEFINE e == d(type)
<1>8. /\ Good(e) /\ e.transactionType = ctx.transactionType /\ e.fields = c.fields
      /\ e.headers = ctx.headers \cup {ctx.offset} /\ e.length = ctx.length
      /\ e.offset >= ctx.offset
      /\ e.ok => c.ok /\ e.offset = ctx.offset + HEADER /\ known(type)
                 /\ Size(c) = Size(ctx) + 1 /\ Listed(c, TypeIds, ctx.offset)
  <2>1. Good(c)
    BY <1>7 DEF Heads
  <2>2. Moves(c, e, 0) /\ (e.ok => known(type))
    BY <1>3, <2>1, RequireMoves
  <2>3. e.fields = c.fields /\ e.offset = c.offset
    BY <2>1 DEF Good, Require, Context
  <2> HIDE DEF e, d
  <2> QED BY <1>7, <2>2, <2>3 DEF Moves, Heads
<1>9. ctx' = e /\ at' = (IF e.ok THEN type ELSE "failed")
  BY <1>1 DEF Go
<1> HIDE DEF e, d
<1>10. /\ at' \in (TopTypes \ {MULTISIG}) \cup {"failed"}
       /\ at' # "failed" => e.ok /\ at' = type
       /\ at' = SIGNATURE => ctx.transactionType # SIGNATURE
  BY <1>8, <1>9, TopTypesAre DEF known, InnerTypes
<1>11. /\ at' \in Points /\ at' \in PlainPoints \cup {"failed"}
       /\ at' # "start" /\ at' \notin FeePoints /\ at' # MULTISIG
       /\ "failed" \in Points /\ "failed" # SIGNATURE
  BY <1>10, TopTypesAre DEF Points, FeePoints, MosaicPoints, Return
<1>12. Size(e) = Size(c) /\ Size(e) = Len(ctx'.fields) /\ DOMAIN e.fields = 1..Size(e)
  BY <1>8, <1>9, FieldsDomain DEF Size
<1>13. ParseTypeOK' /\ GoesOn'
  <2>1. txn' \in Header
    BY <1>1, <1>3 DEF Header
  <2>2. frames' \in Seq(Frame)
    BY <1>2, <1>5, <1>6
  <2>3. local' \in Locals
    BY <1>2, InnerStart
  <2>4. /\ ctx' \in Context /\ ctx'.offset <= ctx'.length
        /\ Len(ctx'.fields) <= MAX_FIELD_COUNT
    BY <1>8, <1>9 DEF Good, Size
  <2> QED BY <1>9, <1>10, <1>11, <2>1, <2>2, <2>3, <2>4 DEF ParseTypeOK, GoesOn
<1>14. TableRecorded'
  BY <1>8, <1>9, <1>12 DEF TableRecorded, Good
<1>15. BehindHeader'
  <2> SUFFICES ASSUME at' # "failed"
               PROVE  /\ txn'.header + HEADER <= ctx'.offset
                      /\ ctx'.transactionType = SIGNATURE /\ at' # SIGNATURE
                           => ctx'.offset >= HEADER + 8 + PUBLICKEY + ADDRESS_T + 4
    BY DEF BehindHeader
  <2>1. txn'.header = ctx.offset /\ ctx'.offset = ctx.offset + HEADER
    BY <1>1, <1>8, <1>9, <1>10
  <2>2. ctx.transactionType = SIGNATURE
           => ctx.offset >= HEADER + 8 + PUBLICKEY + ADDRESS_T + 4
    BY <1>2, InnerStart DEF ParserInv, BehindHeader, Return, SIGNATURE
  <2> QED BY <1>3, <1>8, <1>9, <2>1, <2>2 DEF HEADER, PUBLICKEY, ADDRESS_T
<1>16. LocalsBehind'
  BY <1>2, <1>11, InnerStart, LocalsFree
<1>17. LevelsPaid'
  <2>1. Len(frames') = Len(frames) /\ DOMAIN frames' = DOMAIN frames
    BY <1>2, <1>5
  <2>2. ASSUME NEW i \in DOMAIN frames'
        PROVE  frames'[i].left + frames'[i].start = frames'[i].end
    <3>1. i \in DOMAIN frames
      BY <2>1
    <3>2. CASE i = Len(frames)
      BY <1>2, <1>5, <1>6, <3>1, <3>2
    <3>3. CASE i # Len(frames)
      <4>1. frames'[i] = frames[i]
        BY <1>2, <1>5, <3>1, <3>3
      <4> QED BY <1>2, <3>1, <4>1, InnerStart
    <3> QED BY <3>2, <3>3
  <2>3. ASSUME at' # "failed"
        PROVE  4 * Len(frames') <= Len(ctx'.fields) + (IF at' = SIGNATURE THEN 1 ELSE 2)
    <3> DEFINE extra == IF at' = SIGNATURE THEN 1 ELSE 2
    <3>1. Return # SIGNATURE
      BY DEF Return, SIGNATURE
    <3>2. 4 * Len(frames) <= Size(ctx) + 2
      BY <1>2, <3>1, InnerStart
    <3>3. Len(ctx'.fields) = Size(ctx) + 1 /\ extra \in Nat /\ extra >= 1
      BY <1>8, <1>10, <1>12, <2>3
    <3> HIDE DEF extra
    <3>4. 4 * Len(frames') <= Len(ctx'.fields) + extra
      BY <1>3, <1>5, <2>1, <3>2, <3>3
    <3> QED BY <3>4 DEF extra
  <2> QED BY <1>11, <2>2, <2>3 DEF LevelsPaid
<1>18. HeadersListed'
  <2> SUFFICES ASSUME at' # "failed", NEW h \in ctx.headers \cup {ctx.offset}
               PROVE  /\ Listed(e, TypeIds, h)
                      /\ h # ctx.offset => Listed(e, FeeIds, h + FEE_AT)
    BY <1>1, <1>8, <1>9, <1>11 DEF HeadersListed
  <2>1. \A ids, place : Listed(c, ids, place) <=> Listed(e, ids, place)
    BY <1>8 DEF Listed, FieldsOf
  <2>2. c.ok /\ Listed(c, TypeIds, ctx.offset)
    BY <1>8, <1>10
  <2>3. CASE h = ctx.offset
    BY <2>1, <2>2, <2>3
  <2>4. CASE h # ctx.offset
    <3>1. Listed(ctx, TypeIds, h) /\ Listed(ctx, FeeIds, h + FEE_AT)
      BY <1>2, <2>4, InnerStart
    <3> QED BY <1>7, <2>1, <2>2, <3>1
  <2> QED BY <2>3, <2>4
<1>19. ItemsCounted'
  BY <1>2, <1>8, <1>9, <1>11, InnerStart DEF ItemsCounted
<1> QED BY <1>13, <1>14, <1>15, <1>16, <1>17, <1>18, <1>19 DEF ParserInv

LEMMA LeaveStep ==
    ASSUME ParserInv, LeaveMultisig
    PROVE  ParserInv'
<1>1. /\ at = Return /\ frames # <<>> /\ frames' = SubSeq(frames, 1, Len(frames) - 1)
      /\ UNCHANGED <<ctx, at, txn, local>>
  BY DEF LeaveMultisig, Front
<1>2. /\ frames' \in Seq(Frame) /\ Len(frames') = Len(frames) - 1 /\ Len(frames) \in Nat
      /\ \A i \in DOMAIN frames' : i \in DOMAIN frames /\ frames'[i] = frames[i]
  <2>1. frames \in Seq(Frame) /\ Len(frames) >= 1
    BY <1>1, InnerStart
  <2>2. PICK k \in Nat : k = Len(frames) - 1
    BY <2>1
  <2>3. \A i \in 1..k : frames[i] \in Frame /\ i \in DOMAIN frames
    BY <2>1, <2>2
  <2>4. /\ SubSeq(frames, 1, k) \in Seq(Frame)
        /\ Len(SubSeq(frames, 1, k)) = IF 1 <= k THEN k - 1 + 1 ELSE 0
        /\ \A i \in 1..(k - 1 + 1) : SubSeq(frames, 1, k)[i] = frames[1 + i - 1]
    BY <2>2, <2>3, SubSeqProperties
  <2>5. frames' = SubSeq(frames, 1, k)
    BY <1>1, <2>2
  <2>6. frames' \in Seq(Frame) /\ Len(frames') = k /\ DOMAIN frames' = 1..k
    BY <2>2, <2>4, <2>5
  <2>7. \A i \in 1..k : frames'[i] = frames[i]
    BY <2>2, <2>4, <2>5
  <2> QED BY <2>1, <2>2, <2>3, <2>6, <2>7
<1>3. LevelsPaid'
  <2>1. at \notin {"start", MULTISIG, SIGNATURE}
    BY <1>1 DEF Return, MULTISIG, SIGNATURE
  <2>2. 4 * Len(frames) <= Len(ctx.fields) + 2 /\ Len(ctx.fields) \in Nat
    BY <1>1, <2>1, InnerStart, InvGood
  <2>3. 4 * Len(frames') <= Len(ctx.fields) + 2
    BY <1>2, <2>2
  <2>4. \A i \in DOMAIN frames' : frames'[i].left + frames'[i].start = frames'[i].end
    BY <1>1, <1>2, InnerStart
  <2> QED BY <1>1, <2>1, <2>3, <2>4 DEF LevelsPaid
<1>4. ItemsCounted'
  BY <1>1, InnerStart DEF ItemsCounted
<1>5. ParseTypeOK'
  BY <1>1, <1>2 DEF ParserInv, ParseTypeOK
<1>6. GoesOn' /\ TableRecorded' /\ BehindHeader' /\ LocalsBehind' /\ HeadersListed'
  <2>1. GoesOn' /\ TableRecorded'
    BY <1>1 DEF ParserInv, GoesOn, TableRecorded
  <2>2. BehindHeader' /\ LocalsBehind'
    BY <1>1 DEF ParserInv, BehindHeader, LocalsBehind
  <2>3. HeadersListed'
    BY <1>1 DEF ParserInv, HeadersListed, Listed, FieldsOf
  <2> QED BY <2>1, <2>2, <2>3
<1> QED BY <1>3, <1>4, <1>5, <1>6 DEF ParserInv

LEMMA ParsedStep ==
    ASSUME ParserInv, Parsed
    PROVE  ParserInv'
<1>1. /\ at = Return /\ frames = <<>> /\ at' = "parsed"
      /\ UNCHANGED <<ctx, txn, local, frames>>
  BY DEF Parsed
<1>2. /\ at \notin {"start", "failed", MULTISIG, SIGNATURE}
      /\ at' \notin {"start", "failed", MULTISIG, SIGNATURE}
      /\ at \in FeePoints /\ at' \in FeePoints /\ at' \in Points
      /\ at' \in PlainPoints \cup {"failed"}
  BY <1>1 DEF Return, MULTISIG, SIGNATURE, FeePoints, MosaicPoints, Points, PlainPoints
<1>3. ParseTypeOK' /\ GoesOn' /\ TableRecorded'
  <2>1. ParseTypeOK'
    BY <1>1, <1>2 DEF ParserInv, ParseTypeOK
  <2>2. GoesOn'
    BY <1>1, <1>2 DEF ParserInv, GoesOn
  <2>3. TableRecorded'
    BY <1>1 DEF ParserInv, TableRecorded
  <2> QED BY <2>1, <2>2, <2>3
<1>4. BehindHeader'
  BY <1>1, <1>2 DEF ParserInv, BehindHeader
<1>5. LocalsBehind'
  <2>1. {local.struct, local.id, local.first} \subseteq Uint32
    BY DEF ParserInv, LocalsBehind
  <2> QED BY <1>1, <1>2, <2>1, LocalsFree
<1>6. LevelsPaid'
  <2>1. /\ 4 * Len(frames) <= Len(ctx.fields) + 2
        /\ \A i \in DOMAIN frames : frames[i].left + frames[i].start = frames[i].end
    BY <1>2 DEF ParserInv, LevelsPaid
  <2> QED BY <1>1, <1>2, <2>1 DEF LevelsPaid
<1>7. HeadersListed'
  BY <1>1, <1>2 DEF ParserInv, HeadersListed, Listed, FieldsOf
<1>8. ItemsCounted'
  <2>1. /\ at \notin MosaicPoints /\ at' \notin MosaicPoints
        /\ at # "modification" /\ at' # "modification"
    BY <1>1 DEF MosaicPoints, Return
  <2>2. /\ ctx.transactionType = TRANSFER /\ txn.version = 2
             => Many(ctx, ItemIds) = local.count
        /\ ctx.transactionType = AGGREGATE_MODIFICATION
             => Many(ctx, KeyIds) = local.count
    BY <1>1, <1>2, <2>1 DEF ParserInv, ItemsCounted, Many
  <2>3. Many(ctx, ItemIds)' = Many(ctx, ItemIds) /\ Many(ctx, KeyIds)' = Many(ctx, KeyIds)
    BY <1>1 DEF Many, FieldsOf
  <2> QED BY <1>1, <1>2, <2>1, <2>2, <2>3 DEF ItemsCounted, Many
<1> QED BY <1>3, <1>4, <1>5, <1>6, <1>7, <1>8 DEF ParserInv

-----------------------------------------------------------------------------
(* The theorems *)

LEMMA ParserInitInv == ParserInit => ParserInv
<1> SUFFICES ASSUME ParserInit PROVE ParserInv
  OBVIOUS
<1>1. PICK length \in Lengths :
         ctx = [offset |-> 0, length |-> length, transactionType |-> "none",
                fields |-> <<>>, headers |-> {}, ok |-> TRUE]
  BY DEF ParserInit
<1>2. /\ at = "start" /\ frames = <<>> /\ local = NoLocals
      /\ txn = [header |-> 0, version |-> 0]
  BY DEF ParserInit
<1>3. /\ ctx.offset = 0 /\ ctx.fields = <<>> /\ ctx.headers = {} /\ ctx.ok
      /\ ctx.transactionType = "none" /\ ctx.length \in Nat
  BY <1>1, LengthsAreWords
<1>4. ParseTypeOK
  <2>1. ctx \in Context
    BY <1>1 DEF Context
  <2>2. txn \in Header /\ local \in Locals
    BY <1>2, NoLocalsTyped DEF Header
  <2>3. Len(ctx.fields) <= MAX_FIELD_COUNT
    BY <1>3, FieldCountAssumption
  <2> QED BY <1>2, <1>3, <2>1, <2>2, <2>3 DEF ParseTypeOK, Points
<1>5. GoesOn /\ TableRecorded /\ BehindHeader /\ HeadersListed
  BY <1>2, <1>3 DEF GoesOn, TableRecorded, BehindHeader, HeadersListed
<1>6. LocalsBehind
  BY <1>2, NoLocalsTyped DEF LocalsBehind, MosaicPoints
<1>7. LevelsPaid
  BY <1>2, <1>3 DEF LevelsPaid, MULTISIG, SIGNATURE
<1>8. ItemsCounted
  BY <1>2, <1>3 DEF ItemsCounted, TRANSFER, AGGREGATE_MODIFICATION
<1> QED BY <1>4, <1>5, <1>6, <1>7, <1>8 DEF ParserInv

LEMMA ParserStutters ==
    ASSUME ParserInv, UNCHANGED parseVars
    PROVE  ParserInv'
<1>1. ctx' = ctx /\ at' = at /\ txn' = txn /\ local' = local /\ frames' = frames
  BY DEF parseVars
<1>2. ParseTypeOK' /\ GoesOn' /\ TableRecorded' /\ BehindHeader' /\ LocalsBehind'
  BY <1>1 DEF ParserInv, ParseTypeOK, GoesOn, TableRecorded, BehindHeader, LocalsBehind
<1>3. LevelsPaid' /\ HeadersListed'
  BY <1>1 DEF ParserInv, LevelsPaid, HeadersListed, Listed, FieldsOf
<1>4. ItemsCounted'
  BY <1>1, Zenon DEF ParserInv, ItemsCounted, FieldsOf
<1> QED BY <1>2, <1>3, <1>4 DEF ParserInv

LEMMA ParserStepInv == ParserInv /\ [ParserStep]_parseVars => ParserInv'
<1> SUFFICES ASSUME ParserInv, [ParserStep]_parseVars PROVE ParserInv'
  OBVIOUS
<1>1. CASE UNCHANGED parseVars
  BY <1>1, ParserStutters
<1>2. CASE \/ parse_transfer_transaction \/ TransferMessage \/ TransferMosaics
           \/ TransferMosaic \/ MosaicNamespace \/ MosaicName
  BY <1>2, TransferHeadStep, TransferMessageStep, TransferMosaicsStep,
     TransferMosaicStep, MosaicNamespaceStep, MosaicNameStep
<1>3. CASE \/ parse_importance_transfer_transaction
           \/ parse_aggregate_modification_transaction \/ Modification \/ RelativeChange
           \/ parse_provision_namespace_transaction \/ ParentNamespace
  BY <1>3, ImportanceTransferStep, ModificationHeadStep, OneModificationStep,
     RelativeChangeStep, ProvisionNamespaceStep, ParentNamespaceStep
<1>4. CASE \/ parse_mosaic_definition_creation_transaction \/ MosaicId \/ MosaicIdName
           \/ MosaicDescription \/ MosaicProperty \/ MosaicLevyLength \/ MosaicLevy
           \/ MosaicLevyName \/ MosaicSink
           \/ parse_mosaic_supply_change_transaction \/ MosaicSupply
  BY <1>4, MosaicDefinitionStep, MosaicIdStep, MosaicIdNameStep,
     MosaicDescriptionStep, MosaicPropertyStep, MosaicLevyLengthStep,
     MosaicLevyStep, MosaicLevyNameStep, MosaicSinkStep, SupplyChangeStep,
     MosaicSupplyStep
<1>5. CASE \/ parse_txn_detail
           \/ parse_multisig_transaction \/ parse_multisig_signature_transaction
           \/ NextInner \/ LeaveMultisig \/ Parsed
  BY <1>5, DetailStep, MultisigStep, SignatureStep, NextInnerStep, LeaveStep, ParsedStep
<1> QED BY <1>1, <1>2, <1>3, <1>4, <1>5 DEF ParserStep

\* Whatever is in the buffer, the parser keeps its invariant from step to step.
THEOREM ParserKeepsInv == ParserSpec => []ParserInv
<1> QED BY ParserInitInv, ParserStepInv, PTL DEF ParserSpec

\* The position stays within the buffer, and every variable holds a value of its
\* type, for every length and every word that is read (nem_parse.c:125).
THEOREM ParserStaysInBuffer == ParserSpec => []ParseTypeOK
<1>1. ParserInv => ParseTypeOK
  BY DEF ParserInv
<1> QED BY <1>1, ParserKeepsInv, PTL

\* Neither a label nor a formatter reads outside the buffer, nor through a pointer
\* to a variable that is gone (app_format.c, nem_parse.c:331, :489).
THEOREM FormattersStayInBuffer == ParserSpec => []FormatterStaysInBuffer
<1>1. ParserInv => FormatterStaysInBuffer
  <2> SUFFICES ASSUME ParserInv, NEW i \in DOMAIN ctx.fields
               PROVE  ReadsInBuffer(ctx.fields[i])
    BY DEF FormatterStaysInBuffer
  <2>1. Recorded(ctx.fields[i], ctx.length) /\ ctx.length \in Nat
    BY InvGood DEF ParserInv, TableRecorded
  <2> QED BY <2>1, FieldReadsInBuffer
<1> QED BY <1>1, ParserKeepsInv, PTL

\* A pair of names is as long as the structure it was taken from, although the
\* lengths are compared modulo 2^32 (nem_parse.c:302).
THEOREM PairsFill == ParserSpec => []PairsFillTheirField
<1>1. ParserInv => PairsFillTheirField
  BY DEF ParserInv, TableRecorded, Recorded, PairsFillTheirField
<1> QED BY <1>1, ParserKeepsInv, PTL

\* Every field that is listed has a label and a formatter, and every quantity is
\* shown in its unit: types, labels and formatters agree (fields.c, app_format.c).
THEOREM TablesOfFieldsAgree == ParserSpec => []FieldTablesAgree
<1>1. ParserInv => FieldTablesAgree
  <2> SUFFICES ASSUME ParserInv, NEW i \in DOMAIN ctx.fields
               PROVE  /\ HasLabelAndFormatter(ctx.fields[i])
                      /\ InItsUnit(ctx.fields[i])
    BY DEF FieldTablesAgree
  <2>1. Recorded(ctx.fields[i], ctx.length) /\ ctx.length \in Nat
    BY InvGood DEF ParserInv, TableRecorded
  <2> QED BY <2>1, FieldIsLabelled, FieldInItsUnit
<1> QED BY <1>1, ParserKeepsInv, PTL

\* A value is blank for want of data and at the limits that are named, whatever
\* the size of the text buffer.
THEOREM BlanksAreAtLimits == ParserSpec => []BlankOnlyAtLimits
<1>1. ParserInv => BlankOnlyAtLimits
  <2> SUFFICES ASSUME ParserInv, NEW i \in DOMAIN ctx.fields,
                      format_field(ctx.fields[i], TRUE) = Blank
               PROVE  BlankAtLimit(ctx.fields[i])
    BY DEF BlankOnlyAtLimits
  <2>1. Recorded(ctx.fields[i], ctx.length) /\ ctx.length \in Nat
    BY InvGood DEF ParserInv, TableRecorded
  <2> QED BY <2>1, FieldBlankAtLimit
<1> QED BY <1>1, ParserKeepsInv, PTL

\* The inner transactions cover every byte announced for them when the loop of
\* parse_multisig_transaction ends.
THEOREM InnerTransactionsCovered == ParserSpec => []InnerCovered
<1>1. ParserInv => InnerCovered
  <2> SUFFICES ASSUME ParserInv, at = Return, frames # <<>>, Remaining <= 0
               PROVE  ctx.offset >= frames[Len(frames)].end
    BY DEF InnerCovered, Last
  <2> DEFINE top == frames[Len(frames)]
  <2>1. frames \in Seq(Frame)
    BY InnerStart
  <2>2. Len(frames) \in DOMAIN frames /\ top \in Frame
    BY <2>1
  <2>3. top.left + top.start = top.end
    BY <2>2, InnerStart
  <2>4. top.left \in Int /\ top.start \in Nat /\ ctx.offset \in Nat
    BY <2>2, InvGood DEF Frame
  <2>5. top.left - (ctx.offset - top.start) <= 0
    BY DEF Remaining
  <2> QED BY <2>3, <2>4, <2>5
<1> QED BY <1>1, ParserKeepsInv, PTL

\* The table of fields bounds how deep cosignatures and multisig transactions
\* are nested, and with it the stack.
THEOREM NestingIsBounded == ParserSpec => []NestingBounded
<1>1. ParserInv => NestingBounded
  <2> SUFFICES ASSUME ParserInv, at # "failed"
               PROVE  4 * Len(frames) <= Len(ctx.fields) + 2
    BY DEF NestingBounded
  <2> DEFINE extra == IF at = SIGNATURE THEN 1 ELSE 2
  <2>1. frames \in Seq(Frame) /\ Len(frames) \in Nat /\ Len(ctx.fields) \in Nat
    BY InvGood DEF ParserInv, ParseTypeOK
  <2>2. extra \in Nat /\ extra <= 2
    OBVIOUS
  <2>3. 4 * Len(frames) <= Len(ctx.fields) + extra
    BY DEF ParserInv, LevelsPaid
  <2> HIDE DEF extra
  <2> QED BY <2>1, <2>2, <2>3
<1> QED BY <1>1, ParserKeepsInv, PTL

\* A buffer that parses holds all that set_sign_data_length says will be signed.
THEOREM ParsedIsLongEnough == ParserSpec => []ParsedHoldsSigned
<1>1. ParserInv => ParsedHoldsSigned
  <2> SUFFICES ASSUME ParserInv, at = "parsed"
               PROVE  /\ ctx.length >= HEADER
                      /\ ctx.transactionType = SIGNATURE
                           => ctx.length >= HEADER + 8 + PUBLICKEY + ADDRESS_T + 4
    BY DEF ParsedHoldsSigned
  <2>1. /\ txn.header + HEADER <= ctx.offset
        /\ ctx.transactionType = SIGNATURE
             => ctx.offset >= HEADER + 8 + PUBLICKEY + ADDRESS_T + 4
    BY DEF ParserInv, BehindHeader, SIGNATURE
  <2>2. ctx.offset <= ctx.length /\ ctx.offset \in Nat /\ ctx.length \in Nat
        /\ txn.header \in Nat
    BY InvGood DEF ParserInv, ParseTypeOK
  <2> QED BY <2>1, <2>2 DEF HEADER, PUBLICKEY, ADDRESS_T
<1> QED BY <1>1, ParserKeepsInv, PTL

\* Of every transaction that was parsed, the inner ones too, the type and the fee
\* are in the list that the review shows.
THEOREM TransactionsAreShown == ParserSpec => []EveryTransactionShown
<1>1. ParserInv => EveryTransactionShown
  BY DEF ParserInv, HeadersListed, EveryTransactionShown, FeePoints
<1> QED BY <1>1, ParserKeepsInv, PTL

\* A transfer lists as many quantities as it announces mosaics, and a modification
\* as many keys as it announces cosignatories.
THEOREM ItemsAreShown == ParserSpec => []EveryItemShown
<1>1. ParserInv => EveryItemShown
  <2> SUFFICES ASSUME ParserInv, at = "parsed"
               PROVE  /\ ctx.transactionType = TRANSFER /\ txn.version = 2
                           => local.count = Many(ctx, ItemIds)
                      /\ ctx.transactionType = AGGREGATE_MODIFICATION
                           => local.count = Many(ctx, KeyIds)
    BY DEF EveryItemShown, Many
  <2>1. at \notin MosaicPoints /\ at # "modification"
    BY DEF MosaicPoints
  <2> QED BY <2>1 DEF ParserInv, ItemsCounted, Many
<1> QED BY <1>1, ParserKeepsInv, PTL
=============================================================================
