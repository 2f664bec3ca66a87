--------------------------- MODULE NemRefinement ---------------------------
(* NemApp implements SignPromise.  An offer is a session in state
   PENDING_REVIEW whose review is up; the user has read it when pages of the
   review were turned to and all of them showed its fields. *)
EXTENDS NemProperties

OfferOf(upload, tx) == [upload |-> upload, tx |-> {tx}]
NoOffer             == [upload |-> 0, tx |-> {}]

Offered == IF screen.kind = "review" /\ session.signState = "PENDING_REVIEW"
             THEN OfferOf(session.upload, Contents(session.rawTx))
             ELSE NoOffer

Promise == INSTANCE SignPromise WITH
    Transaction <- Seq(Payload),
    offered     <- Offered,
    read        <- Offered # NoOffer /\ screen.shown = Offered.tx,
    verdict     <- [outcome |-> verdict.outcome,
                    about   |-> IF verdict.outcome = "none" THEN NoOffer
                                ELSE OfferOf(verdict.upload, verdict.tx)],
    signature   <- IF response.msg.kind = "signature"
                     THEN OfferOf(response.msg.upload, response.msg.tx)
                     ELSE NoOffer

\* Under a host that sends nothing while a screen waits, the handlers and
\* callbacks of SIGN do what SignPromise says, whatever fails: what is signed
\* was offered, read and not decided before, and no signature goes out in any
\* other step (sign_transaction.c:40, review_menu.c:56).
KeepsPromise == Promise!Spec

\* An offer that stays is decided on.
JudgesOffers == Promise!Fairness
=============================================================================
