------------------------------- MODULE Screen -------------------------------
(* The screens of the application and the two callbacks that the three screens
   with a decision share: approval_action and rejection_action are one pair of
   globals, whichever screen is up. *)
EXTENDS Link, Sequences

VARIABLES
    screen,           \* what the user is looking at
    approval_action,  \* called when the user approves
    rejection_action  \* called when the user rejects

screenVars == <<screen, approval_action, rejection_action>>

\* What a key command is about: the path, and the network byte (0 where the
\* command has none).
Account == Path \X Byte

\* `about` holds the account whose address is on an address screen and, on the
\* export screen, which shows none, the account it was opened for; `shown` the
\* transactions whose fields the pages of a review have shown so far.
Screens == [kind: {"idle", "review", "address", "choice", "status"},
            about: SUBSET Account, shown: SUBSET Seq(Payload)]

ScreenOf(kind, about) == [kind |-> kind, about |-> about, shown |-> {}]

ApprovalActions  == {"NULL", "sign_transaction", "on_address_confirmed",
                     "on_privatekey_confirmed"}
RejectionActions == {"NULL", "reject_transaction", "on_address_rejected",
                     "on_privatekey_rejected"}

\* The screen waits for a decision that answers a command.
AwaitsUser == screen.kind \in {"review", "address", "choice"}

-----------------------------------------------------------------------------
display_idle_menu ==
    /\ screen' = ScreenOf("idle", {})
    /\ UNCHANGED <<approval_action, rejection_action>>

\* The status screens of the three decisions (display_review_done,
\* display_address_confirmation_done, display_remote_account_done).
display_done ==
    /\ screen' = ScreenOf("status", {})
    /\ UNCHANGED <<approval_action, rejection_action>>

\* Mutant: the approval callback of an earlier screen stays.
review_keeps_approval(onApprove, onReject) ==
    /\ rejection_action' = onReject
    /\ screen' = ScreenOf("review", {})
    /\ UNCHANGED approval_action

\* The review opens on its title page; its pages read the fields later.
review_transaction(onApprove, onReject) ==
    /\ approval_action' = onApprove
    /\ rejection_action' = onReject
    /\ screen' = ScreenOf("review", {})

\* Mutant: likewise.
display_address_keeps_approval(address, onApprove, onReject) ==
    /\ rejection_action' = onReject
    /\ screen' = ScreenOf("address", address)
    /\ UNCHANGED approval_action

display_address_confirmation_ui(address, onApprove, onReject) ==
    /\ approval_action' = onApprove
    /\ rejection_action' = onReject
    /\ screen' = ScreenOf("address", address)

\* Mutant: the second callback is registered with the first one's function.
display_remote_copy_paste(account, onApprove, onReject) ==
    /\ approval_action' = onApprove
    /\ rejection_action' = onApprove
    /\ screen' = ScreenOf("choice", {account})

display_remote_account_confirmation_ui(account, onApprove, onReject) ==
    /\ approval_action' = onApprove
    /\ rejection_action' = onReject
    /\ screen' = ScreenOf("choice", {account})

\* The user leaves a status screen, or it times out.
DismissStatus ==
    /\ running
    /\ screen.kind = "status"
    /\ display_idle_menu

ScreenInit == /\ screen = ScreenOf("idle", {})
              /\ approval_action = "NULL"
              /\ rejection_action = "NULL"
=============================================================================
