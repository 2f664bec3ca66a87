--------------------------- MODULE NemProperties ---------------------------
(* What NemApp is expected to keep.  `MCNem` and the configurations say under
   which host and which faults each property is checked; `NemSafety` proves
   some of them for every value of the constants. *)
EXTENDS NemApp

Messages == [kind: {"status"}, sw: SWO]
            \cup [kind: {"version"}]
            \cup [kind: {"key"}, pub: SUBSET (Path \X Algorithm),
                  addr: SUBSET Account]
            \cup [kind: {"secret"}, path: SUBSET Path]
            \cup [kind: {"signature"}, upload: Nat, tx: Seq(Payload)]

LinkTypeOK == /\ running \in BOOLEAN
              /\ received \in Nat
              /\ awaiting \in Request
              /\ response \in [to: Request, msg: Messages]

ScreenTypeOK == /\ screen \in Screens
                /\ approval_action \in ApprovalActions
                /\ rejection_action \in RejectionActions

SignTypeOK == /\ session \in Session
              /\ verdict \in Verdicts

KeysTypeOK == /\ nem_key \in Keys
              /\ nem_remote_private_key \in SUBSET Path

\* Every variable holds a value of its type.
TypeOK == /\ LinkTypeOK
          /\ ScreenTypeOK
          /\ SignTypeOK
          /\ KeysTypeOK
          /\ lastINS \in Byte
          /\ changedAt \in Nat

-----------------------------------------------------------------------------
(* Screens and callbacks, under any host. *)

\* The two callbacks are those of the screen that is up: three screens share
\* one pair of globals (address_ui.c:29).
ActionsMatchScreen ==
    /\ screen.kind = "review"  => /\ approval_action = "sign_transaction"
                                  /\ rejection_action = "reject_transaction"
    /\ screen.kind = "address" => /\ approval_action = "on_address_confirmed"
                                  /\ rejection_action = "on_address_rejected"
    /\ screen.kind = "choice"  => /\ approval_action = "on_privatekey_confirmed"
                                  /\ rejection_action = "on_privatekey_rejected"

Releases(msg) == msg.kind \in {"key", "secret", "signature"}

\* Pressing Reject never sends a key or a signature.
RejectReleasesNothing ==
    [][UserRejects /\ response' # response => ~Releases(response'.msg)]_vars

-----------------------------------------------------------------------------
(* Signing, under any host. *)

\* A transaction that parses is signed only after the user has read pages of
\* the review, and every page read showed that transaction's fields: however
\* commands and presses interleave, sign_transaction never signs one
\* well-formed transaction on the strength of another one's review.
SignedWasReviewed ==
    verdict.outcome = "signed" /\ Parses(verdict.tx, verdict.length)
        => verdict.shown = {verdict.tx}

\* An upload is signed or rejected at most once: what is in the session has
\* been received after the upload of the last verdict
\* (sign_transaction.c:46 guards against the second signature).
PendingNotJudged == session.upload = 0 \/ session.upload > verdict.upload

\* No byte in the buffer is older than the first packet of its upload, nor
\* than the last change of instruction, nor than the last start: the reset in
\* handle_apdu is against "Instruction Change" attacks (entry.c:35).
UploadSinceChange ==
    \A i \in DOMAIN session.rawTx :
        /\ session.rawTx[i].id >= session.upload
        /\ session.upload >= changedAt

Contiguous(s) ==
    LET tx == s.rawTx
        end(i) == tx[i].offset + tx[i].length
    IN  /\ s.length = IF tx = <<>> THEN 0 ELSE end(Len(tx))
        /\ \A i \in DOMAIN tx :
              /\ tx[i].offset = IF i = 1 THEN 0 ELSE end(i - 1)
              /\ end(i) <= MAX_RAW_TX - PREFIX_LENGTH
              /\ i > 1 => tx[i - 1].id < tx[i].id

\* The packets lie in the buffer in the order received, with no gap and no
\* overlap, and never run past rawTx[MAX_RAW_TX], whatever the 16-bit total
\* of handle_packet_content does.
BufferContiguous == Contiguous(session)

\* What is signed of a transaction that parses lies within the bytes received,
\* and is all of them unless the transaction is a cosignature.
SignsReceivedBytes ==
    verdict.outcome = "signed" /\ Parses(verdict.tx, verdict.length)
        => /\ verdict.signs <= verdict.length
           /\ verdict.signs = verdict.length \/ verdict.tx[1] \in Cosignatures

\* Session `s` among `n` commands received, where the instruction has been
\* the same since command `since` and the last verdict was on upload `last`.
OpenUpload(s, n, since, last) ==
    /\ s.upload <= n
    /\ s.upload = 0 => s = Cleared
    /\ s.upload # 0 => s.armed /\ s.upload >= since /\ s.upload > last
    /\ \A i \in DOMAIN s.rawTx : s.rawTx[i].id \in s.upload..n

\* Where uploads and verdicts lie among the commands received.
UploadInv ==
    /\ verdict.upload <= received
    /\ changedAt <= received + 1
    /\ OpenUpload(session, received, changedAt, verdict.upload)
    /\ session.upload # 0 => lastINS = INS_SIGN

\* While a transaction that parses is pending in `s`, its review is up, and no
\* page of another one's has been shown on it.
Reviewed(s) ==
    s.signState = "PENDING_REVIEW" /\ Parses(Contents(s.rawTx), s.length) =>
        /\ screen.kind = "review"
        /\ screen.shown \subseteq {s.result}
        /\ s.result = Contents(s.rawTx)
        /\ s.rawTxLength <= s.length
        /\ s.rawTxLength = s.length \/ s.result[1] \in Cosignatures

ReviewInv == Reviewed(session)

\* The inductive invariant from which NemSafety proves the properties of
\* signing: they speak of the verdict and of the buffer, and hold because of
\* what is true, between two steps, of the upload that is still open.
IInv == /\ UploadInv
        /\ ReviewInv
        /\ BufferContiguous
        /\ ActionsMatchScreen
        /\ SignedWasReviewed
        /\ SignsReceivedBytes

-----------------------------------------------------------------------------
(* What depends on the host's patience. *)

\* Whatever is signed, well-formed or not, is what the review showed
\* (doc/nemapp.asc:83, "after having the user validate").
SignedIsShown == verdict.outcome = "signed" => verdict.shown = {verdict.tx}

\* An approval sends what the screen was opened for: the address that was
\* displayed, the key of the path whose export was asked, the signature of the
\* transaction whose pages were read.
ApprovalReleasesAsked ==
    [][UserApproves /\ response' # response =>
          \/ /\ screen.kind = "address"
             /\ response'.msg.kind = "key"
             /\ response'.msg.addr = screen.about
          \/ /\ screen.kind = "choice"
             /\ response'.msg.kind = "secret"
             /\ screen.about = {<<p, 0>> : p \in response'.msg.path}
          \/ /\ screen.kind = "review"
             /\ response'.msg.kind = "signature"
             /\ screen.shown = {response'.msg.tx}]_vars

\* The public key and the address of a response belong to one account,
\* although the two globals are written in two steps of which the second can
\* fail.
KeyReplyConsistent ==
    response.msg.kind = "key" =>
        \E account \in response.msg.addr :
            response.msg.pub = PublicKeyOf(account[1], account[2])

\* A response carries what its command asks for.
AnswerFitsCommand ==
    response.to # Nobody =>
        CASE response.msg.kind = "key"       -> response.to.ins = INS_GET_PUBLIC_KEY
          [] response.msg.kind = "secret"    -> response.to.ins = INS_GET_REMOTE_ACCOUNT
          [] response.msg.kind = "signature" ->
                /\ response.to.ins = INS_SIGN
                /\ response.to.id >= response.msg.upload
          [] OTHER -> TRUE

\* The instruction whose handler puts up a screen of this kind.
InstructionOf(kind) == CASE kind = "review"  -> INS_SIGN
                         [] kind = "address" -> INS_GET_PUBLIC_KEY
                         [] kind = "choice"  -> INS_GET_REMOTE_ACCOUNT

\* A screen that awaits the user was put up by the last command, which has had
\* no answer.
ScreenOfLastCommand ==
    AwaitsUser => awaiting = [id |-> received, ins |-> InstructionOf(screen.kind)]

\* Every page turned to showed the contents that are pending, parsed or not.
ReviewOfPending ==
    screen.kind = "review" /\ Pending =>
        /\ session.result = Contents(session.rawTx)
        /\ screen.shown \subseteq {session.result}

\* The key in the buffer is of the account whose address is displayed, and the
\* secret is the one whose export is asked.
BufferOfScreen ==
    /\ screen.kind = "address" =>
           /\ nem_key.addr = screen.about
           /\ \E account \in nem_key.addr :
                 nem_key.pub = PublicKeyOf(account[1], account[2])
    /\ screen.kind = "choice" =>
           screen.about = {<<p, 0>> : p \in nem_remote_private_key}

\* What a patient host can count on between two steps: the globals that a
\* callback will read are still those of the screen the user decides on
\* (address_ui.c:29, get_public_key.c:33, get_remote_account.c:36).  The
\* inductive invariant from which NemPatience proves what depends on patience.
ScreenBound == /\ ScreenOfLastCommand
               /\ ReviewOfPending
               /\ BufferOfScreen

\* Every command is answered in the end, at once or by the user's decision.
EveryCommandAnswered ==
    \A i \in 1..MaxCommands : awaiting.id = i ~> response.to.id = i

-----------------------------------------------------------------------------
(* What the documents, comments and tests say, and the code does not do. *)

\* doc/nemapp.asc:231: a status word is returned for all APDUs.  A command
\* with no response yet has a screen that waits for the user.
NoSilentDrop == running /\ awaiting # Nobody => AwaitsUser
=============================================================================
