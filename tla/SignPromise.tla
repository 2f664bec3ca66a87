---------------------------- MODULE SignPromise ----------------------------
(* What SIGN promises the owner of the device, with no mechanism in it: a
   transaction is offered for review, read, and then signed or rejected, once.
   Only what is on offer can be signed, and only after it was read.  There are
   no packets, no screens and no buffers here.

   An offer is a transaction together with the number of the upload it came
   in, so that the same bytes offered twice are two offers. *)
EXTENDS Naturals

CONSTANT Transaction

VARIABLES
    offered,    \* the offer in front of the user, or Nothing
    read,       \* the user has read it, and nothing else since it came up
    verdict,    \* the last decision, and the offer it was about
    signature   \* the signature in the latest message out, or Nothing

vars == <<offered, read, verdict, signature>>

Nothing == [upload |-> 0, tx |-> {}]
Offer   == [upload: Nat \ {0},
            tx: {T \in SUBSET Transaction : \E tx \in T : T = {tx}}]

TypeOK == /\ offered \in Offer \cup {Nothing}
          /\ read \in BOOLEAN
          /\ verdict \in [outcome: {"none", "signed", "rejected"},
                          about: Offer \cup {Nothing}]
          /\ signature \in Offer \cup {Nothing}

Init == /\ offered = Nothing
        /\ read = FALSE
        /\ verdict = [outcome |-> "none", about |-> Nothing]
        /\ signature = Nothing

\* The next message out is about something else.
Supersede == signature' \in {signature, Nothing}

\* A new upload is put before the user, never one that was decided on.
Present ==
    /\ offered = Nothing
    /\ offered' \in Offer
    /\ offered'.upload > verdict.about.upload
    /\ read' = FALSE
    /\ Supersede
    /\ UNCHANGED verdict

ReadIt ==
    /\ offered # Nothing
    /\ read' = TRUE
    /\ UNCHANGED <<offered, verdict, signature>>

Decide(outcome) ==
    /\ offered # Nothing
    /\ verdict' = [outcome |-> outcome, about |-> offered]
    /\ offered' = Nothing
    /\ read' = FALSE

\* The signature goes out, or is lost on the way.
Sign ==
    /\ read
    /\ Decide("signed")
    /\ signature' \in {signature, offered}

Reject == Decide("rejected") /\ Supersede

\* The offer is gone and nothing was decided: a failure.
Withdraw ==
    /\ offered' = Nothing
    /\ read' = FALSE
    /\ Supersede
    /\ UNCHANGED verdict

Next == Present \/ ReadIt \/ Sign \/ Reject \/ Withdraw

Spec == Init /\ [][Next]_vars

\* Whoever is asked decides.
Fairness == WF_vars(Sign \/ Reject)
=============================================================================
