------------------------------ MODULE MCReview ------------------------------
(* An instance of Review for TLC: a mosaic definition of 193 bytes with one
   property, whose eight fields take three pages and wrap around the ring, and
   an importance transfer, with four.  Names have 0 or 1 bytes, and the name of
   the property has no room as a label. *)
EXTENDS ReviewProperties

DefinitionLengths == {193}
ImportanceLengths == {100}

MCLengths  == DefinitionLengths \cup ImportanceLengths
MCWords    == [n \in MCLengths |-> IF n \in DefinitionLengths
                                     THEN {0, 1, 10, 77} ELSE {32, 33}]
MCTypes    == [n \in MCLengths |-> IF n \in DefinitionLengths
                                     THEN {MOSAIC_DEFINITION}
                                     ELSE {IMPORTANCE_TRANSFER}]
MCVersions == [n \in MCLengths |-> {1}]

\* Names at odd places have no byte that can be printed.
MCCharsOf(place, n) == IF place % 2 = 0 THEN n ELSE (n + 1) \div 2
=============================================================================
