-------------------------- MODULE SignTransaction --------------------------
(* SIGN: a transaction arrives in packets, is parsed when the last one is in,
   reviewed, and signed or rejected.

   `session` is everything reset_transaction_context clears: signState,
   parseContext and transactionContext.  The buffer is the sequence of the
   packets' contents, each with the offset it was written at.  The parser is a
   predicate here: CONSTANT WellFormed says which sequences of contents parse
   to the end, and the lengths it checks first are real.

   `session.upload` and `verdict` are history: the command that opened the
   upload, and the last signature or rejection with what it was about. *)
EXTENDS Screen

CONSTANTS
    WellFormed,     \* contents that parse without an error
    Cosignatures,   \* first contents whose header says MULTISIG_SIGNATURE
    MAX_RAW_TX      \* size of the buffer

VARIABLES session, verdict

signVars == <<session, verdict>>

ASSUME WellFormedAssumption == /\ WellFormed \subseteq Seq(Payload)
                               /\ Cosignatures \subseteq Payload
ASSUME MaxRawTxAssumption == MAX_RAW_TX \in 4..(65535 - 259)

PREFIX_LENGTH == 4
UINT16 == 65536
COMMON_HEADER == 60       \* sizeof(common_txn_header_t)
SIGNATURE_HEADER == 84    \* sizeof(multsig_signature_header_t)

-----------------------------------------------------------------------------
Packet  == [id: Nat, data: Payload, offset: Nat, length: Nat]
Session == [signState: {"IDLE", "WAITING_FOR_MORE", "PENDING_REVIEW"},
            armed: BOOLEAN,               \* parseContext.data is set
            length: Nat,                  \* parseContext.length
            result: Seq(Payload),         \* contents the fields come from
            path: SUBSET Path,            \* transactionContext.bip32Path
            rawTx: Seq(Packet), rawTxLength: Nat,
            upload: Nat]

\* What reset_transaction_context leaves.
Cleared == [signState |-> "IDLE", armed |-> FALSE, length |-> 0,
            result |-> <<>>, path |-> {}, rawTx |-> <<>>, rawTxLength |-> 0,
            upload |-> 0]

Verdicts == [outcome: {"none", "signed", "rejected"}, upload: Nat,
             tx: Seq(Payload), length: Nat, signs: Nat,
             shown: SUBSET Seq(Payload)]

Contents(rawTx) == [i \in 1..Len(rawTx) |-> rawTx[i].data]

-----------------------------------------------------------------------------
(* The parser, from the outside. *)

\* Contents `tx`, `length` bytes of them, parse to the end.
Parses(tx, length) ==
    /\ tx \in WellFormed
    /\ length >= COMMON_HEADER
    /\ tx[1] \in Cosignatures => length >= COMMON_HEADER + SIGNATURE_HEADER + 4

\* Mutant: the two lengths are swapped.
set_sign_data_length_swapped(s) ==
    IF Contents(s.rawTx)[1] \in Cosignatures
      THEN s.length
      ELSE COMMON_HEADER + SIGNATURE_HEADER

\* A cosignature signs its headers only; set before the rest is parsed.
set_sign_data_length(s) ==
    IF Contents(s.rawTx)[1] \in Cosignatures
      THEN COMMON_HEADER + SIGNATURE_HEADER
      ELSE s.length

\* Mutant: the last packet is parsed before it is counted.
parse_before_last_packet(s) ==
    IF s.length < COMMON_HEADER THEN s
    ELSE [s EXCEPT !.rawTxLength = set_sign_data_length(s),
                   !.result = Contents(SubSeq(s.rawTx, 1, Len(s.rawTx) - 1))]

\* A buffer without a whole header is left as it is; otherwise the fields are
\* replaced, up to the point where the parser fails.
parse_txn_context(s) ==
    IF s.length < COMMON_HEADER THEN s
    ELSE [s EXCEPT !.rawTxLength = set_sign_data_length(s),
                   !.result = Contents(s.rawTx)]

-----------------------------------------------------------------------------
(* Packets.  `s` is the session after the instruction check of handle_apdu;
   `lc` counts the packet's bytes of transaction. *)

\* Mutant: what is in the buffer is not counted.
totalLengthOfPacket(s, lc) == (PREFIX_LENGTH + lc) % UINT16

totalLength(s, lc) == (PREFIX_LENGTH + s.length + lc) % UINT16

\* The session once the packet's bytes, if it has any, are in the buffer.
Appended(s, cmd, lc, asked) ==
    LET packet == [id |-> asked.id, data |-> cmd.data,
                   offset |-> s.length, length |-> lc]
    IN  [s EXCEPT !.length = s.length + lc,
                  !.rawTx = IF lc = 0 THEN @ ELSE Append(@, packet)]

\* The packet does not fit: dropped, and the session stays as it is.
PacketTooLong(s, lc, asked) ==
    /\ totalLength(s, lc) > MAX_RAW_TX
    /\ session' = s
    /\ NoReply(asked)
    /\ UNCHANGED screenVars

PacketStored(s, cmd, lc, asked) ==
    /\ totalLength(s, lc) <= MAX_RAW_TX
    /\ hasMore(cmd.p1)
    /\ session' = [Appended(s, cmd, lc, asked) EXCEPT
                     !.signState = "WAITING_FOR_MORE"]
    /\ \E sent \in SendResults(asked) : Reply(asked, sent, Status("SUCCESS"))
    /\ UNCHANGED screenVars

Complete(s, cmd, lc, asked) ==
    [Appended(s, cmd, lc, asked) EXCEPT !.signState = "PENDING_REVIEW",
                                        !.rawTxLength = s.length + lc]

\* The last packet.  When the parser fails the session stays PENDING_REVIEW,
\* whatever screen is up stays up, and nothing is sent.
UploadCompleted(s, cmd, lc, asked) ==
    /\ totalLength(s, lc) <= MAX_RAW_TX
    /\ ~hasMore(cmd.p1)
    /\ LET full == Complete(s, cmd, lc, asked)
       IN  /\ session' = parse_txn_context(full)
           /\ IF Parses(Contents(full.rawTx), full.length)
                THEN review_transaction("sign_transaction",
                                        "reject_transaction")
                ELSE UNCHANGED screenVars
    /\ NoReply(asked)

handle_packet_content(s, cmd, lc, asked) ==
    \/ PacketTooLong(s, lc, asked)
    \/ PacketStored(s, cmd, lc, asked)
    \/ UploadCompleted(s, cmd, lc, asked)

Opened(asked) == [Cleared EXCEPT !.armed = TRUE, !.upload = asked.id]

\* Mutant: the path is read from a data field too short to hold it.
FirstPacketUnchecked(cmd) == cmd.lc >= 1 /\ PathLengthOK(cmd)

FirstPacketWellFormed(cmd) == cmd.lc >= 1 + 4 * cmd.n /\ PathLengthOK(cmd)

\* handle_first_packet on a packet that follows no other.
FirstPacketMalformed(cmd, asked) ==
    /\ isFirst(cmd.p1)
    /\ ~FirstPacketWellFormed(cmd)
    /\ session' = Opened(asked)
    /\ NoReply(asked)
    /\ UNCHANGED screenVars

FirstPacketUnknownNetwork(cmd, asked) ==
    /\ isFirst(cmd.p1)
    /\ FirstPacketWellFormed(cmd)
    /\ get_network_type(cmd.path) = {}
    /\ session' = [Opened(asked) EXCEPT !.path = {cmd.path}]
    /\ NoReply(asked)
    /\ UNCHANGED screenVars

FirstPacketAccepted(cmd, asked) ==
    /\ isFirst(cmd.p1)
    /\ FirstPacketWellFormed(cmd)
    /\ get_network_type(cmd.path) # {}
    /\ handle_packet_content([Opened(asked) EXCEPT !.path = {cmd.path}],
                             cmd, cmd.lc - 1 - 4 * cmd.n, asked)

\* A packet out of place: a following one with no upload under way, a first
\* one inside an upload, any one while a transaction is pending.
PacketRefused(s, cmd, asked) ==
    /\ \/ s.signState = "IDLE" /\ ~isFirst(cmd.p1)
       \/ s.signState = "WAITING_FOR_MORE" /\ isFirst(cmd.p1)
       \/ s.signState = "PENDING_REVIEW"
    /\ session' = s
    /\ NoReply(asked)
    /\ UNCHANGED screenVars

handle_first_packet(cmd, asked) == \/ FirstPacketMalformed(cmd, asked)
                                   \/ FirstPacketUnknownNetwork(cmd, asked)
                                   \/ FirstPacketAccepted(cmd, asked)

handle_subsequent_packet(s, cmd, asked) ==
    /\ ~isFirst(cmd.p1)
    /\ handle_packet_content(s, cmd, cmd.lc, asked)

handle_sign(s, cmd, asked) ==
    /\ \/ PacketRefused(s, cmd, asked)
       \/ s.signState = "IDLE" /\ handle_first_packet(cmd, asked)
       \/ /\ s.signState = "WAITING_FOR_MORE"
          /\ handle_subsequent_packet(s, cmd, asked)
    /\ UNCHANGED <<running, verdict>>

-----------------------------------------------------------------------------
(* The user's decision. *)

\* Mutant: any upload under way may be signed.
UploadUnderWay == session.signState # "IDLE"

Pending == session.signState = "PENDING_REVIEW"

Judged(outcome) ==
    [outcome |-> outcome, upload |-> session.upload,
     tx |-> Contents(session.rawTx), length |-> session.length,
     signs |-> session.rawTxLength, shown |-> screen.shown]

\* No transaction is pending: back to the menu, and nothing is sent.
NothingPending ==
    /\ ~Pending
    /\ session' = Cleared
    /\ display_idle_menu
    /\ UNCHANGED <<awaiting, response, verdict>>

Signature == [kind |-> "signature", upload |-> session.upload,
              tx |-> Contents(session.rawTx)]

Signed ==
    /\ Pending
    /\ session.armed
    /\ \E sent \in SendResults(awaiting) : Reply(awaiting, sent, Signature)
    /\ verdict' = Judged("signed")
    /\ display_done
    /\ session' = Cleared

\* Deriving the key or signing fails: the review stays up over a cleared
\* session.
SignFailed ==
    /\ Pending
    /\ session.armed
    /\ "crypto" \in Faults
    /\ session' = Cleared
    /\ UNCHANGED <<awaiting, response, verdict, screenVars>>

sign_transaction == NothingPending \/ Signed \/ SignFailed

\* Mutant: the rejected transaction stays in the session.
RejectedKeepsSession ==
    /\ Pending
    /\ \E sent \in SendResults(awaiting) :
          Reply(awaiting, sent, Status("CONDITIONS_NOT_SATISFIED"))
    /\ verdict' = Judged("rejected")
    /\ session' = session
    /\ display_done

\* Mutant: the answer is sent, and the review stays.
RejectedKeepsReview ==
    /\ Pending
    /\ \E sent \in SendResults(awaiting) :
          Reply(awaiting, sent, Status("CONDITIONS_NOT_SATISFIED"))
    /\ UNCHANGED <<session, verdict, screenVars>>

Rejected ==
    /\ Pending
    /\ \E sent \in SendResults(awaiting) :
          Reply(awaiting, sent, Status("CONDITIONS_NOT_SATISFIED"))
    /\ verdict' = Judged("rejected")
    /\ session' = Cleared
    /\ display_done

reject_transaction == NothingPending \/ Rejected

\* The user turns to another page of the review: get_review_pair reads the
\* fields the global context holds now.
TurnPage ==
    /\ running
    /\ screen.kind = "review"
    /\ screen' = [screen EXCEPT !.shown = @ \cup {session.result}]
    /\ UNCHANGED <<approval_action, rejection_action>>

SignInit ==
    /\ session = Cleared
    /\ verdict = [outcome |-> "none", upload |-> 0, tx |-> <<>>, length |-> 0,
                  signs |-> 0, shown |-> {}]
=============================================================================
