-------------------------- MODULE ReviewProperties --------------------------
(* What the user sees of the fields, for whatever was uploaded. *)
EXTENDS Review, NemParseProperties

Slot == [name: Piece, value: Seq(Piece)]
Drawn == [index: Nat, field: Field \cup {ZeroField}]

\* Every variable holds a value of its type, and a page is of a review.
ReviewTypeOK ==
    /\ nbPairs \in 0..MAX_FIELD_COUNT
    /\ bkp_args \in [0..(RING - 1) -> Slot]
    /\ page \in Seq(Drawn)
    /\ \A i \in DOMAIN page : page[i].index < nbPairs
    /\ steps \in [uploads: 0..MaxUploads, turns: 0..MaxTurns]
    /\ at = "idle" \/ at = "reviewed" \/ at \in Points

\* The name of a property that resolve_fieldname does not write.
Refused(f) == resolve_fieldname(f, NoLabel) = NoLabel

\* Each pair of the page on the screen has the value and the label of its own
\* field, although the SDK has asked for other pairs since and the slots are
\* fewer than the fields: a slot is not used again before the page has gone
\* (review_menu.c:58).  The label of a property is the exception.
PageShowsItsFields ==
    \A i \in DOMAIN page :
        LET f    == page[i].field
            slot == bkp_args[bkp_index(page[i].index)]
        IN  /\ slot.value \in {format_field(f, TRUE), format_field(f, FALSE)}
            /\ slot.name = resolve_fieldname(f, NoLabel) \/ Refused(f)

\* A transaction that parsed has a review of its own: as many pairs as it has
\* fields, and on the screen no page of an earlier one.  Reviews outlive their
\* tables, so the count and the page have to be those of the last to open.
ReviewShowsTable ==
    at = "reviewed" /\ nbPairs > 0 =>
        /\ nbPairs = Len(ctx.fields)
        /\ \A i \in DOMAIN page : page[i].field = FieldAt(page[i].index)

\* A page turned to at any moment reads nothing outside the buffer: not over a
\* table that was cleared behind the review, not over one that a failing parser
\* left half filled, not past its end.
PagesStayInBuffer ==
    \A index \in 0..(nbPairs - 1) :
        LET f == FieldAt(index)
        IN  /\ InBuffer(f.at, Prefix(f))
            /\ \A p \in Range(format_field(f, TRUE)) : InBuffer(p.at, p.n)

\* Whatever table a page meets, whole, half filled or cleared: its fields fit in
\* it, and each is one that the parser recorded.
TableHeld ==
    /\ ctx.length \in Nat
    /\ ctx.fields \in Seq(Field)
    /\ Len(ctx.fields) <= MAX_FIELD_COUNT
    /\ TableRecorded

\* The inductive invariant of the composition, from which ReviewProofs proves the
\* properties above for every table, every ring and every size of a page.
ReviewInv ==
    /\ ReviewTypeOK
    /\ TableHeld
    /\ at = "idle" => frames = <<>>
    /\ at \notin {"idle", "reviewed"} => ParserInv
    /\ PageShowsItsFields
    /\ ReviewShowsTable

\* review_menu.c:60: what pairs show must be stored in a buffer of the
\* application: the label of a pair is that of its field.
LabelIsOwn ==
    \A i \in DOMAIN page :
        bkp_args[bkp_index(page[i].index)].name
            = resolve_fieldname(page[i].field, NoLabel)
=============================================================================
