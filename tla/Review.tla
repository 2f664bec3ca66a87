------------------------------- MODULE Review -------------------------------
(* The pages of a review, over the table that the parser fills.

   A review copies nothing when it opens: it keeps the number of pairs, and
   each page reads the table, as it is by then, into a ring of slots, of which
   the SDK keeps the addresses.  NemParse is used as it is; what becomes of the
   session between two uploads is reduced to what it does to the table. *)
EXTENDS NemParse, Fields

CONSTANTS
    RING,   \* MAX_TAG_VALUE_PAIRS_DISPLAYED
    PAGE,   \* how many pairs the SDK puts on a page
    MaxUploads,  \* bound: complete uploads
    MaxTurns     \* bound: pages turned to

VARIABLES
    nbPairs,   \* pairs of the review on the screen; 0 when there is none
    bkp_args,  \* the ring: a label and a value in each slot
    page,      \* the pairs of the page on the screen, with the field each was
               \* drawn for
    steps      \* how many of the bounded steps were taken

reviewVars == <<nbPairs, bkp_args, page>>
vars == <<parseVars, reviewVars, steps>>

ASSUME PageAssumption == RING \in Nat /\ PAGE \in 1..RING
ASSUME BoundsAssumption == MaxUploads \in Nat /\ MaxTurns \in Nat

NoLabel == Word("")
EmptySlot == [name |-> NoLabel, value |-> <<>>]

\* The fields of the table beyond those found are zeros.
ZeroField == [id |-> "0", at |-> 0, length |-> 0, head |-> 0, tail |-> 0]
FieldAt(index) == IF index + 1 \in DOMAIN ctx.fields THEN ctx.fields[index + 1]
                  ELSE ZeroField

NoTransaction == [offset |-> 0, length |-> 0, transactionType |-> "none",
                  fields |-> <<>>, headers |-> {}, ok |-> TRUE]

-----------------------------------------------------------------------------
(* The table: empty, then filled by the parser, then shown; or half filled when
   the parser fails. *)

\* An upload is complete, and parse_txn_context is called.
UploadCompleted ==
    /\ at = "idle"
    /\ steps.uploads < MaxUploads
    /\ steps' = [steps EXCEPT !.uploads = @ + 1]
    /\ \E length \in Lengths : ctx' = [NoTransaction EXCEPT !.length = length]
    /\ at' = "start"
    /\ txn' = [header |-> 0, version |-> 0]
    /\ local' = NoLocals
    /\ UNCHANGED <<frames, reviewVars>>

Parse == ParserStep /\ UNCHANGED <<reviewVars, steps>>

\* Mutant: the length is reset, the table is not.
reset_length_only ==
    /\ ctx' = [NoTransaction EXCEPT !.fields = ctx.fields]
    /\ at' = "idle"
    /\ txn' = [header |-> 0, version |-> 0]
    /\ local' = NoLocals
    /\ frames' = <<>>

reset_transaction_context ==
    /\ ctx' = NoTransaction
    /\ at' = "idle"
    /\ txn' = [header |-> 0, version |-> 0]
    /\ local' = NoLocals
    /\ frames' = <<>>

\* The parser is not running: the user's presses and other commands are handled
\* between two commands, never inside one.
BetweenCommands == at \in {"idle", "reviewed", "failed"}

-----------------------------------------------------------------------------
(* The screen *)

\* Mutant: the ring has fewer slots than the page has pairs.
bkp_index_short(index) == index % (PAGE - 1)

bkp_index(index) == index % RING

\* One call of get_review_pair, on the ring so far.
get_review_pair(ring, index, hashes) ==
    LET f == FieldAt(index)
    IN  [ring EXCEPT ![bkp_index(index)] =
            [name  |-> resolve_fieldname(f, @.name),
             value |-> format_field(f, hashes)]]

get_review_pairs(ring, indices, hashes) ==
    FoldLeft(LAMBDA r, i : get_review_pair(r, i, hashes), ring, indices)

\* Mutant: the page stays when the review goes.
CloseScreen_keeps_page == nbPairs' = 0 /\ UNCHANGED <<page, bkp_args>>

CloseScreen == nbPairs' = 0 /\ page' = <<>> /\ UNCHANGED bkp_args

\* Mutant: the review of before keeps its number of pairs.
display_review_menu_keeps_count ==
    /\ at = "parsed"
    /\ at' = "reviewed"
    /\ nbPairs' = IF nbPairs = 0 THEN Len(ctx.fields) ELSE nbPairs
    /\ page' = <<>>
    /\ UNCHANGED <<bkp_args, ctx, txn, local, frames, steps>>

\* A new review replaces any screen.  It opens on its title; the SDK goes over
\* all pairs to lay out the pages.
display_review_menu ==
    /\ at = "parsed"
    /\ at' = "reviewed"
    /\ nbPairs' = Len(ctx.fields)
    /\ page' = <<>>
    /\ \E hashes \in BOOLEAN :
          bkp_args' = get_review_pairs(bkp_args,
                                       [i \in 1..Len(ctx.fields) |-> i - 1], hashes)
    /\ UNCHANGED <<ctx, txn, local, frames, steps>>

\* The user turns to a page.  The SDK asks for one pair more than fits, and
\* then for those it draws.
TurnPage ==
    /\ BetweenCommands
    /\ nbPairs > 0
    /\ steps.turns < MaxTurns
    /\ steps' = [steps EXCEPT !.turns = @ + 1]
    /\ \E first \in {i \in 0..(nbPairs - 1) : i % PAGE = 0}, hashes \in BOOLEAN :
          LET upTo(n) == [i \in 1..Min({n, nbPairs - first}) |-> first + i - 1]
              drawn   == upTo(PAGE)
          IN  /\ bkp_args' = get_review_pairs(bkp_args, upTo(PAGE + 1) \o drawn,
                                              hashes)
              /\ page' = [i \in DOMAIN drawn |-> [index |-> drawn[i],
                                                  field |-> FieldAt(drawn[i])]]
    /\ UNCHANGED <<parseVars, nbPairs>>

\* The user decides.  The transaction is signed or rejected and the screen
\* goes, or signing fails and the screen stays over a cleared table.
review_choice ==
    /\ BetweenCommands
    /\ nbPairs > 0
    /\ reset_transaction_context
    /\ CloseScreen \/ UNCHANGED reviewVars
    /\ UNCHANGED steps

\* Another instruction: it may put a screen of its own in the place of the
\* review, or leave it up.
ChangeInstruction ==
    /\ BetweenCommands
    /\ at # "idle"
    /\ reset_transaction_context
    /\ CloseScreen \/ UNCHANGED reviewVars
    /\ UNCHANGED steps

Init == /\ ctx = NoTransaction
        /\ at = "idle"
        /\ txn = [header |-> 0, version |-> 0]
        /\ local = NoLocals
        /\ frames = <<>>
        /\ nbPairs = 0
        /\ bkp_args = [s \in 0..(RING - 1) |-> EmptySlot]
        /\ page = <<>>
        /\ steps = [uploads |-> 0, turns |-> 0]

Next == \/ UploadCompleted \/ Parse \/ display_review_menu
        \/ TurnPage \/ review_choice \/ ChangeInstruction

Spec == Init /\ [][Next]_vars
=============================================================================
