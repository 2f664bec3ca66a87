------------------------------- MODULE MCParse -------------------------------
(* An instance of NemParse for TLC.  The length of the transaction says which
   family it is of.  Sizes of the fixed structures are the real ones; the table
   of fields, 60 in the code, and the width of a word are scaled down. *)
EXTENDS NemParseProperties

\* Transfers: names of 0, 3 and 32 bytes, mosaic ids of a pair of them, and
\* the mosaics with such ids.
TransferLengths == {116, 120, 123, 150, 180}
TransferTypes   == {TRANSFER, "unknown"}
TransferWords   == {0, 1, 2, 3, 14, 26, 32, 43, 55, UINT32 - 1, UINT32 - 4}

\* Messages around the size of the buffer that shows them, and around half of it.
MessageLengths == {145, 199}
MessageTypes   == {TRANSFER}
MessageWords   == {0, 1, 2, 20, 36, 37, 38, 73, 74, 75, UINT32 - 1}

\* Multisig transactions and cosignatures, up to two levels of each: inner
\* transactions of 100 bytes, of 248, and of any length that is off.
DeepLengths   == {420}
DeepTypes     == {MULTISIG, SIGNATURE, IMPORTANCE_TRANSFER}
NestedLengths == {59, 144, 147, 148, 164, 208, 312}
NestedTypes   == DeepTypes \cup {AGGREGATE_MODIFICATION, "unknown"}
NestedWords   == {0, 1, 2, 100, 248, UINT32 - 4}

\* Namespaces and mosaics: a pair of names of 3 bytes, a definition of 158
\* bytes with one property and a levy.
MosaicLengths == {125, 274}
MosaicTypes   == {NAMESPACE, MOSAIC_DEFINITION, SUPPLY_CHANGE}
MosaicWords   == {0, 1, 2, 3, 14, 74, 158, UINT32 - 1}

Family(n, transfer, message, nested, deep, mosaic) ==
    CASE n \in TransferLengths -> transfer
      [] n \in MessageLengths  -> message
      [] n \in NestedLengths   -> nested
      [] n \in DeepLengths     -> deep
      [] n \in MosaicLengths   -> mosaic

MCLengths  == TransferLengths \cup MessageLengths \cup NestedLengths
              \cup DeepLengths \cup MosaicLengths
MCWords    == [n \in MCLengths |-> Family(n, TransferWords, MessageWords,
                                          NestedWords, NestedWords, MosaicWords)]
MCTypes    == [n \in MCLengths |-> Family(n, TransferTypes, MessageTypes,
                                          NestedTypes, DeepTypes, MosaicTypes)]
MCVersions == [n \in MCLengths |-> Family(n, {1, 2, 3}, {1}, {1, 2}, {1}, {1})]

\* Names at odd places have no byte that can be printed.
MCCharsOf(place, n) == IF place % 2 = 0 THEN n ELSE (n + 1) \div 2
=============================================================================
