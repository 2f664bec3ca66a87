------------------------------ MODULE NemSafety ------------------------------
(* Theorems about NemApp, for every value of the constants: types, and the
   safety properties of signing. *)
EXTENDS NemProperties, SequenceTheorems, TLAPS

-----------------------------------------------------------------------------
(* Types *)

LEMMA AskedType ==
    ASSUME received \in Nat, NEW ins \in Byte
    PROVE  Asked(ins) \in Request /\ Asked(ins) # Nobody
BY DEF Asked, Request, Nobody, Byte

LEMMA ReplyType ==
    ASSUME NEW asked \in Request, NEW sent \in BOOLEAN, NEW msg \in Messages,
           awaiting \in Request, response \in [to: Request, msg: Messages],
           Reply(asked, sent, msg)
    PROVE  /\ awaiting' \in Request
           /\ response' \in [to: Request, msg: Messages]
BY DEF Reply, Nobody, Request, Byte

LEMMA SendResultsType ==
    ASSUME NEW asked PROVE SendResults(asked) \subseteq BOOLEAN
BY DEF SendResults

LEMMA StatusType ==
    ASSUME NEW sw \in SWO PROVE Status(sw) \in Messages
BY DEF Status, Messages

LEMMA ContentsType ==
    ASSUME NEW tx \in Seq(Packet)
    PROVE  /\ Contents(tx) \in Seq(Payload)
           /\ Len(Contents(tx)) = Len(tx)
<1>1. Len(tx) \in Nat
  BY LenProperties
<1>2. ASSUME NEW i \in 1..Len(tx) PROVE tx[i].data \in Payload
  <2>1. tx[i] \in Packet
    BY ElementOfSeq
  <2> QED BY <2>1 DEF Packet
<1>3. Contents(tx) \in [1..Len(tx) -> Payload]
  BY <1>2 DEF Contents
<1> QED BY <1>1, <1>3

LEMMA ScreenOfType ==
    ASSUME NEW kind \in {"idle", "review", "address", "choice", "status"},
           NEW about \in SUBSET Account
    PROVE  ScreenOf(kind, about) \in Screens
BY DEF ScreenOf, Screens

LEMMA ClearedType == Cleared \in Session
BY DEF Cleared, Session

LEMMA CommandType ==
    ASSUME NEW cmd \in Commands
    PROVE  /\ cmd \in Command
           /\ cmd.ins \in Byte /\ cmd.lc \in Nat /\ cmd.n \in Nat
           /\ cmd.path \in Path /\ cmd.net \in Byte /\ cmd.data \in Payload
BY CommandsAssumption DEF Command, Byte

\* A packet's bytes leave a well-typed session.
LEMMA AppendedType ==
    ASSUME NEW s \in Session, NEW cmd \in Commands, NEW lc \in Nat,
           NEW asked \in Request
    PROVE  Appended(s, cmd, lc, asked) \in Session
<1> DEFINE packet == [id |-> asked.id, data |-> cmd.data,
                      offset |-> s.length, length |-> lc]
           tx == IF lc = 0 THEN s.rawTx ELSE Append(s.rawTx, packet)
<1>1. packet \in Packet
  BY CommandType DEF Packet, Request, Session
<1>2. tx \in Seq(Packet)
  BY <1>1, AppendProperties DEF Session
<1>3. Appended(s, cmd, lc, asked) =
        [s EXCEPT !.length = s.length + lc, !.rawTx = tx]
  BY DEF Appended
<1>4. s.length + lc \in Nat
  BY DEF Session
<1> HIDE DEF packet, tx
<1> QED BY <1>2, <1>3, <1>4 DEF Session

LEMMA ParseType ==
    ASSUME NEW s \in Session
    PROVE  parse_txn_context(s) \in Session
<1>1. Contents(s.rawTx) \in Seq(Payload)
  BY ContentsType DEF Session
<1>2. set_sign_data_length(s) \in Nat
  BY DEF set_sign_data_length, Session, COMMON_HEADER, SIGNATURE_HEADER
<1> QED BY <1>1, <1>2 DEF parse_txn_context, Session

LEMMA DoneType ==
    ASSUME ScreenTypeOK, display_done \/ display_idle_menu
    PROVE  ScreenTypeOK'
BY ScreenOfType DEF display_done, display_idle_menu, ScreenTypeOK

LEMMA NoReplyType ==
    ASSUME NEW asked \in Request, LinkTypeOK, NoReply(asked)
    PROVE  awaiting' \in Request /\ response' \in [to: Request, msg: Messages]
BY DEF NoReply, LinkTypeOK

\* What a packet does to the session and the screen is well typed.
LEMMA PacketType ==
    ASSUME TypeOK, NEW s \in Session, NEW cmd \in Commands, NEW lc \in Nat,
           NEW asked \in Request, handle_packet_content(s, cmd, lc, asked)
    PROVE  /\ session' \in Session
           /\ ScreenTypeOK'
           /\ awaiting' \in Request
           /\ response' \in [to: Request, msg: Messages]
<1> USE DEF TypeOK, LinkTypeOK
<1> DEFINE after == Appended(s, cmd, lc, asked)
<1>0. after \in Session
  BY AppendedType
<1>1. CASE PacketTooLong(s, lc, asked)
  BY <1>1, NoReplyType DEF PacketTooLong, screenVars, ScreenTypeOK
<1>2. CASE PacketStored(s, cmd, lc, asked)
  <2>1. session' \in Session
    BY <1>0, <1>2 DEF PacketStored, Session
  <2>2. ScreenTypeOK'
    BY <1>2 DEF PacketStored, screenVars, ScreenTypeOK
  <2>3. Status("SUCCESS") \in Messages
    BY StatusType DEF SWO
  <2>4. PICK sent \in SendResults(asked) : Reply(asked, sent, Status("SUCCESS"))
    BY <1>2 DEF PacketStored
  <2>5. sent \in BOOLEAN
    BY SendResultsType
  <2> QED BY <2>1, <2>2, <2>3, <2>4, <2>5, ReplyType
<1>3. CASE UploadCompleted(s, cmd, lc, asked)
  <2> DEFINE full == Complete(s, cmd, lc, asked)
  <2>1. full \in Session
    <3>1. s.length + lc \in Nat
      BY DEF Session
    <3>2. full = [after EXCEPT !.signState = "PENDING_REVIEW",
                               !.rawTxLength = s.length + lc]
      BY DEF Complete
    <3> HIDE DEF after, full
    <3> QED BY <1>0, <3>1, <3>2 DEF Session
  <2>2. session' \in Session
    BY <1>3, <2>1, ParseType DEF UploadCompleted
  <2>3. ScreenTypeOK'
    BY <1>3, ScreenOfType
    DEF UploadCompleted, review_transaction, screenVars, ScreenTypeOK,
        ApprovalActions, RejectionActions
  <2> QED BY <1>3, <2>2, <2>3, NoReplyType DEF UploadCompleted
<1> QED BY <1>1, <1>2, <1>3 DEF handle_packet_content

LEMMA SignCommandType ==
    ASSUME TypeOK, NEW s \in Session, NEW cmd \in Commands,
           NEW asked \in Request, handle_sign(s, cmd, asked)
    PROVE  /\ SignTypeOK'
           /\ ScreenTypeOK'
           /\ awaiting' \in Request
           /\ response' \in [to: Request, msg: Messages]
<1> USE DEF TypeOK, LinkTypeOK
<1>1. verdict' \in Verdicts
  BY DEF handle_sign, SignTypeOK
<1>2. Opened(asked) \in Session
  BY ClearedType DEF Opened, Session, Request
<1>3. [Opened(asked) EXCEPT !.path = {cmd.path}] \in Session
  BY <1>2, CommandType DEF Session
<1>4. CASE PacketRefused(s, cmd, asked)
  BY <1>1, <1>4, NoReplyType
  DEF PacketRefused, screenVars, ScreenTypeOK, SignTypeOK
<1>5. CASE FirstPacketMalformed(cmd, asked)
  BY <1>1, <1>2, <1>5, NoReplyType
  DEF FirstPacketMalformed, screenVars, ScreenTypeOK, SignTypeOK
<1>6. CASE FirstPacketUnknownNetwork(cmd, asked)
  BY <1>1, <1>3, <1>6, NoReplyType
  DEF FirstPacketUnknownNetwork, screenVars, ScreenTypeOK, SignTypeOK
<1>7. CASE FirstPacketAccepted(cmd, asked)
  <2>1. cmd.lc - 1 - 4 * cmd.n \in Nat
    BY <1>7, CommandType DEF FirstPacketAccepted, FirstPacketWellFormed
  <2> QED BY <1>1, <1>3, <1>7, <2>1, PacketType
          DEF FirstPacketAccepted, SignTypeOK
<1>8. CASE handle_subsequent_packet(s, cmd, asked)
  BY <1>1, <1>8, PacketType, CommandType
  DEF handle_subsequent_packet, SignTypeOK
<1> QED BY <1>4, <1>5, <1>6, <1>7, <1>8 DEF handle_sign, handle_first_packet

\* An answer, or the lack of one, to the command that is waiting.
LEMMA AnswerType ==
    ASSUME LinkTypeOK, NEW asked \in Request, NEW msg \in Messages,
           \E sent \in SendResults(asked) : Reply(asked, sent, msg)
    PROVE  awaiting' \in Request /\ response' \in [to: Request, msg: Messages]
<1>1. PICK sent \in SendResults(asked) : Reply(asked, sent, msg)
  OBVIOUS
<1>2. sent \in BOOLEAN
  BY SendResultsType
<1> QED BY <1>1, <1>2, ReplyType DEF LinkTypeOK

LEMMA JudgedType ==
    ASSUME TypeOK, NEW outcome \in {"signed", "rejected"}
    PROVE  Judged(outcome) \in Verdicts
<1>1. Contents(session.rawTx) \in Seq(Payload)
  BY ContentsType DEF TypeOK, SignTypeOK, Session
<1> QED BY <1>1
    DEF Judged, Verdicts, TypeOK, SignTypeOK, ScreenTypeOK, Session, Screens

LEMMA SignDecisionType ==
    ASSUME TypeOK, sign_transaction \/ reject_transaction
    PROVE  /\ SignTypeOK'
           /\ ScreenTypeOK'
           /\ awaiting' \in Request
           /\ response' \in [to: Request, msg: Messages]
<1> USE DEF TypeOK
<1>1. CASE NothingPending
  BY <1>1, ClearedType, DoneType DEF NothingPending, SignTypeOK, LinkTypeOK
<1>2. CASE Signed
  <2>1. Signature \in Messages
    BY ContentsType DEF Signature, Messages, SignTypeOK, Session
  <2>2. awaiting \in Request
    BY DEF LinkTypeOK
  <2>3. awaiting' \in Request /\ response' \in [to: Request, msg: Messages]
    BY <1>2, <2>1, <2>2, AnswerType DEF Signed
  <2> QED BY <1>2, <2>3, ClearedType, DoneType, JudgedType
          DEF Signed, SignTypeOK
<1>3. CASE SignFailed
  BY <1>3, ClearedType
  DEF SignFailed, SignTypeOK, LinkTypeOK, screenVars, ScreenTypeOK
<1>4. CASE Rejected
  <2>1. Status("CONDITIONS_NOT_SATISFIED") \in Messages
    BY StatusType DEF SWO
  <2>2. awaiting \in Request
    BY DEF LinkTypeOK
  <2>3. awaiting' \in Request /\ response' \in [to: Request, msg: Messages]
    BY <1>4, <2>1, <2>2, AnswerType DEF Rejected
  <2> QED BY <1>4, <2>3, ClearedType, DoneType, JudgedType
          DEF Rejected, SignTypeOK
<1> QED BY <1>1, <1>2, <1>3, <1>4 DEF sign_transaction, reject_transaction

LEMMA KeyMessagesType ==
    ASSUME KeysTypeOK
    PROVE  KeyMessage \in Messages /\ SecretMessage \in Messages
BY DEF KeyMessage, SecretMessage, Messages, KeysTypeOK, Keys

LEMMA KeyValuesType ==
    ASSUME NEW path \in Path, NEW net \in Byte
    PROVE  /\ PublicKeyOf(path, net) \in SUBSET (Path \X Algorithm)
           /\ AddressOf(path, net) \in SUBSET Account
BY DEF PublicKeyOf, AddressOf, Account, Algorithm, get_algo

LEMMA PublicKeyType ==
    ASSUME TypeOK, NEW cmd \in Commands, NEW asked \in Request,
           handle_public_key(cmd, asked)
    PROVE  /\ KeysTypeOK'
           /\ ScreenTypeOK'
           /\ running' \in BOOLEAN
           /\ awaiting' \in Request
           /\ response' \in [to: Request, msg: Messages]
<1> USE DEF TypeOK
<1>1. ASSUME NEW outcome \in {"done", "no address", "no key"},
             get_public_key(cmd, outcome)
      PROVE  KeysTypeOK'
  <2>1. /\ PublicKeyOf(cmd.path, cmd.net) \in SUBSET (Path \X Algorithm)
        /\ AddressOf(cmd.path, cmd.net) \in SUBSET Account
    BY CommandType, KeyValuesType
  <2>2. nem_key' \in Keys
    BY <1>1, <2>1 DEF get_public_key, KeysTypeOK, Keys
  <2> QED BY <2>2 DEF handle_public_key, KeysTypeOK
<1>2. CASE PublicKeyRefused(cmd, asked)
  BY <1>2, NoReplyType
  DEF PublicKeyRefused, handle_public_key, KeysTypeOK, LinkTypeOK, screenVars,
      ScreenTypeOK
<1>3. CASE PublicKeyFailed(cmd, asked)
  <2>1. PICK outcome \in {"no key", "no address"} : get_public_key(cmd, outcome)
    BY <1>3 DEF PublicKeyFailed, KeyFailures
  <2> QED BY <1>1, <1>3, <2>1, NoReplyType
          DEF PublicKeyFailed, screenVars, ScreenTypeOK
<1>4. CASE PublicKeySent(cmd, asked)
  <2>1. KeysTypeOK'
    BY <1>1, <1>4 DEF PublicKeySent
  <2>2. KeyMessage' \in Messages
    BY <2>1 DEF KeyMessage, Messages, KeysTypeOK, Keys
  <2>3. awaiting' \in Request /\ response' \in [to: Request, msg: Messages]
    BY <1>4, <2>2, AnswerType DEF PublicKeySent
  <2> QED BY <1>4, <2>1, <2>3
          DEF PublicKeySent, LinkTypeOK, screenVars, ScreenTypeOK
<1>5. CASE PublicKeyDisplayed(cmd, asked)
  <2>1. KeysTypeOK'
    BY <1>1, <1>5 DEF PublicKeyDisplayed
  <2>2. nem_key'.addr \in SUBSET Account
    BY <2>1 DEF KeysTypeOK, Keys
  <2>3. ScreenTypeOK'
    BY <1>5, <2>2, ScreenOfType
    DEF PublicKeyDisplayed, display_address_confirmation_ui, ScreenTypeOK,
        ApprovalActions, RejectionActions
  <2> QED BY <1>5, <2>1, <2>3, NoReplyType DEF PublicKeyDisplayed, LinkTypeOK
<1> QED BY <1>2, <1>3, <1>4, <1>5 DEF handle_public_key

LEMMA RemoteType ==
    ASSUME TypeOK, NEW cmd \in Commands, NEW asked \in Request,
           handle_remote_private_key(cmd, asked)
    PROVE  /\ KeysTypeOK'
           /\ ScreenTypeOK'
           /\ running' \in BOOLEAN
           /\ awaiting' \in Request
           /\ response' \in [to: Request, msg: Messages]
<1> USE DEF TypeOK
<1>1. ASSUME NEW outcome \in {"done", "no key"},
             get_harvesting_key(cmd, outcome)
      PROVE  KeysTypeOK'
  BY <1>1, CommandType
  DEF get_harvesting_key, handle_remote_private_key, KeysTypeOK
<1>2. CASE RemoteRefused(cmd, asked)
  BY <1>2, NoReplyType
  DEF RemoteRefused, handle_remote_private_key, KeysTypeOK, LinkTypeOK,
      screenVars, ScreenTypeOK
<1>5. CASE RemoteFailed(cmd, asked)
  <2>1. KeysTypeOK'
    BY <1>1, <1>5 DEF RemoteFailed, KeyFailures
  <2> QED BY <1>5, <2>1, NoReplyType
          DEF RemoteFailed, LinkTypeOK, screenVars, ScreenTypeOK
<1>3. CASE RemoteSent(cmd, asked)
  <2>1. KeysTypeOK'
    BY <1>1, <1>3 DEF RemoteSent
  <2>2. SecretMessage' \in Messages
    BY <2>1 DEF SecretMessage, Messages, KeysTypeOK
  <2>3. awaiting' \in Request /\ response' \in [to: Request, msg: Messages]
    BY <1>3, <2>2, AnswerType DEF RemoteSent
  <2> QED BY <1>3, <2>1, <2>3
          DEF RemoteSent, LinkTypeOK, screenVars, ScreenTypeOK
<1>4. CASE RemoteDisplayed(cmd, asked)
  <2>1. {<<cmd.path, 0>>} \in SUBSET Account
    BY CommandType DEF Account, Byte
  <2>2. ScreenTypeOK'
    BY <1>4, <2>1, ScreenOfType
    DEF RemoteDisplayed, display_remote_account_confirmation_ui, ScreenTypeOK,
        ApprovalActions, RejectionActions
  <2> QED BY <1>1, <1>4, <2>2, NoReplyType DEF RemoteDisplayed, LinkTypeOK
<1> QED BY <1>2, <1>3, <1>4, <1>5 DEF handle_remote_private_key

LEMMA KeyDecisionType ==
    ASSUME TypeOK,
           on_address_confirmed \/ on_privatekey_confirmed \/ on_key_rejected
    PROVE  /\ KeysTypeOK'
           /\ ScreenTypeOK'
           /\ awaiting' \in Request
           /\ response' \in [to: Request, msg: Messages]
<1> USE DEF TypeOK
<1>1. PICK msg \in Messages :
        \E sent \in SendResults(awaiting) : Reply(awaiting, sent, msg)
  BY KeyMessagesType, StatusType
  DEF on_address_confirmed, on_privatekey_confirmed, on_key_rejected, SWO
<1>2. KeysTypeOK'
  BY DEF on_address_confirmed, on_privatekey_confirmed, on_key_rejected,
         keyVars, KeysTypeOK
<1>3. ScreenTypeOK'
  BY DoneType
  DEF on_address_confirmed, on_privatekey_confirmed, on_key_rejected,
      screenVars, ScreenTypeOK
<1>4. awaiting \in Request
  BY DEF LinkTypeOK
<1> QED BY <1>1, <1>2, <1>3, <1>4, AnswerType

LEMMA SessionForType ==
    ASSUME SignTypeOK, NEW ins
    PROVE  SessionFor(ins) \in Session
BY ClearedType DEF SessionFor, SignTypeOK

LEMMA InitType == Init => TypeOK
<1> SUFFICES ASSUME Init PROVE TypeOK
  OBVIOUS
<1>1. LinkTypeOK
  BY StatusType DEF Init, LinkInit, LinkTypeOK, Nobody, Request, Byte, SWO
<1>2. ScreenTypeOK
  BY ScreenOfType
  DEF Init, ScreenInit, ScreenTypeOK, ApprovalActions, RejectionActions
<1>3. SignTypeOK
  BY ClearedType DEF Init, SignInit, SignTypeOK, Verdicts
<1>4. KeysTypeOK
  BY DEF Init, KeysInit, KeysTypeOK, Keys
<1> QED BY <1>1, <1>2, <1>3, <1>4 DEF Init, TypeOK, Byte

\* A status word or the version, sent by the dispatcher itself.
LEMMA ReplyOrExitType ==
    ASSUME LinkTypeOK, NEW asked \in Request, NEW msg \in Messages,
           ReplyOrExit(asked, msg)
    PROVE  /\ running' \in BOOLEAN
           /\ awaiting' \in Request
           /\ response' \in [to: Request, msg: Messages]
<1>1. \E sent \in SendResults(asked) : Reply(asked, sent, msg)
  BY DEF ReplyOrExit
<1>2. running' \in BOOLEAN
  BY SendResultsType DEF ReplyOrExit
<1> QED BY <1>1, <1>2, AnswerType

LEMMA NextType == TypeOK /\ [Next]_vars => TypeOK'
<1> SUFFICES ASSUME TypeOK, [Next]_vars PROVE TypeOK'
  OBVIOUS
<1> USE DEF TypeOK
<1>0. ASSUME NEW ins \in Byte PROVE Asked(ins) \in Request
  BY AskedType DEF LinkTypeOK
<1>1. CASE ReceiveMalformed
  <2>1. Asked(0) \in Request /\ Status("WRONG_DATA_LENGTH") \in Messages
    BY <1>0, StatusType DEF Byte, SWO
  <2>2. awaiting' \in Request /\ response' \in [to: Request, msg: Messages]
    BY <1>1, <2>1, AnswerType DEF ReceiveMalformed
  <2> QED BY <1>1, <2>2
          DEF ReceiveMalformed, LinkTypeOK, screenVars, ScreenTypeOK, signVars,
              SignTypeOK, keyVars, KeysTypeOK
<1>2. CASE ReceiveFails \/ UserQuits
  BY <1>2 DEF ReceiveFails, UserQuits, LinkTypeOK, screenVars, ScreenTypeOK,
              signVars, SignTypeOK, keyVars, KeysTypeOK
<1>3. ASSUME NEW cmd \in Commands, ReceiveWrongClass(cmd) PROVE TypeOK'
  <2>1. Asked(cmd.ins) \in Request /\ Status("INVALID_CLA") \in Messages
    BY <1>0, StatusType, CommandType DEF SWO
  <2> QED BY <1>3, <2>1, ReplyOrExitType
          DEF ReceiveWrongClass, LinkTypeOK, screenVars, ScreenTypeOK, signVars,
              SignTypeOK, keyVars, KeysTypeOK
<1>4. ASSUME NEW cmd \in Commands, NEW ins \in Byte, Dispatch(cmd, ins)
      PROVE  /\ received' \in Nat /\ lastINS' \in Byte /\ changedAt' \in Nat
             /\ Asked(ins) \in Request /\ SessionFor(ins) \in Session
  BY <1>0, <1>4, SessionForType DEF Dispatch, LinkTypeOK
<1>5. ASSUME NEW cmd \in Commands, ReceiveSign(cmd) PROVE TypeOK'
  <2>1. Dispatch(cmd, INS_SIGN) /\ INS_SIGN \in Byte
    BY <1>5 DEF ReceiveSign, INS_SIGN, Byte
  <2>2. handle_sign(SessionFor(INS_SIGN), cmd, Asked(INS_SIGN))
    BY <1>5 DEF ReceiveSign
  <2>3. /\ SignTypeOK' /\ ScreenTypeOK'
        /\ awaiting' \in Request /\ response' \in [to: Request, msg: Messages]
    BY <1>4, <2>1, <2>2, SignCommandType
  <2>4. running' = running
    BY <2>2 DEF handle_sign
  <2> QED BY <1>4, <1>5, <2>1, <2>3, <2>4
          DEF ReceiveSign, LinkTypeOK, keyVars, KeysTypeOK
<1>6. ASSUME NEW cmd \in Commands, ReceiveGetPublicKey(cmd) PROVE TypeOK'
  <2>1. Dispatch(cmd, INS_GET_PUBLIC_KEY) /\ INS_GET_PUBLIC_KEY \in Byte
    BY <1>6 DEF ReceiveGetPublicKey, INS_GET_PUBLIC_KEY, Byte
  <2>2. handle_public_key(cmd, Asked(INS_GET_PUBLIC_KEY))
    BY <1>6 DEF ReceiveGetPublicKey
  <2>3. /\ KeysTypeOK' /\ ScreenTypeOK' /\ running' \in BOOLEAN
        /\ awaiting' \in Request /\ response' \in [to: Request, msg: Messages]
    BY <1>4, <2>1, <2>2, PublicKeyType
  <2> QED BY <1>4, <1>6, <2>1, <2>3
          DEF ReceiveGetPublicKey, LinkTypeOK, SignTypeOK
<1>7. ASSUME NEW cmd \in Commands, ReceiveGetRemoteAccount(cmd) PROVE TypeOK'
  <2>1. Dispatch(cmd, INS_GET_REMOTE_ACCOUNT) /\ INS_GET_REMOTE_ACCOUNT \in Byte
    BY <1>7 DEF ReceiveGetRemoteAccount, INS_GET_REMOTE_ACCOUNT, Byte
  <2>2. handle_remote_private_key(cmd, Asked(INS_GET_REMOTE_ACCOUNT))
    BY <1>7 DEF ReceiveGetRemoteAccount
  <2>3. /\ KeysTypeOK' /\ ScreenTypeOK' /\ running' \in BOOLEAN
        /\ awaiting' \in Request /\ response' \in [to: Request, msg: Messages]
    BY <1>4, <2>1, <2>2, RemoteType
  <2> QED BY <1>4, <1>7, <2>1, <2>3
          DEF ReceiveGetRemoteAccount, LinkTypeOK, SignTypeOK
<1>8. ASSUME NEW cmd \in Commands,
             ReceiveGetAppConfiguration(cmd) \/ ReceiveUnknownInstruction(cmd)
      PROVE  TypeOK'
  <2>1. PICK ins \in Byte : Dispatch(cmd, ins) /\ session' = SessionFor(ins)
    BY <1>8, CommandType
    DEF ReceiveGetAppConfiguration, ReceiveUnknownInstruction,
        INS_GET_APP_CONFIGURATION, Byte
  <2>2. PICK msg \in Messages : ReplyOrExit(Asked(cmd.ins), msg)
    BY <1>8, StatusType
    DEF ReceiveGetAppConfiguration, ReceiveUnknownInstruction, Messages, SWO
  <2>3. /\ running' \in BOOLEAN
        /\ awaiting' \in Request /\ response' \in [to: Request, msg: Messages]
    BY <1>0, <2>2, CommandType, ReplyOrExitType
  <2> QED BY <1>4, <1>8, <2>1, <2>3
          DEF ReceiveGetAppConfiguration, ReceiveUnknownInstruction, LinkTypeOK,
              screenVars, ScreenTypeOK, SignTypeOK, keyVars, KeysTypeOK
<1>9. CASE UserApproves \/ UserRejects
  <2>1. /\ running' = running /\ received' = received /\ lastINS' = lastINS
        /\ changedAt' = changedAt
    BY <1>9 DEF UserApproves, UserRejects, Pressed
  <2>2. \/ (sign_transaction \/ reject_transaction) /\ UNCHANGED keyVars
        \/ /\ on_address_confirmed \/ on_privatekey_confirmed \/ on_key_rejected
           /\ UNCHANGED signVars
    BY <1>9 DEF UserApproves, UserRejects, Call
  <2> QED BY <2>1, <2>2, SignDecisionType, KeyDecisionType
          DEF LinkTypeOK, keyVars, KeysTypeOK, signVars, SignTypeOK
<1>10. CASE UserBrowses
  <2>1. ScreenTypeOK'
    <3>1. CASE TurnPage
      BY <3>1 DEF TurnPage, ScreenTypeOK, SignTypeOK, Screens, Session
    <3>2. CASE DismissStatus
      BY <3>2, DoneType DEF DismissStatus
    <3> QED BY <1>10, <3>1, <3>2 DEF UserBrowses
  <2> QED BY <1>10, <2>1
          DEF UserBrowses, linkVars, LinkTypeOK, signVars, SignTypeOK, keyVars,
              KeysTypeOK
<1>11. CASE Restart
  <2>1. ScreenTypeOK' /\ SignTypeOK'
    BY <1>11, ScreenOfType, ClearedType
    DEF Restart, ScreenTypeOK, SignTypeOK, ApprovalActions, RejectionActions
  <2>2. KeysTypeOK' /\ lastINS' \in Byte
    BY <1>11 DEF Restart, KeysTypeOK, Keys, keyVars, Byte
  <2> QED BY <1>11, <2>1, <2>2
          DEF Restart, LinkTypeOK, Nobody, Request, Byte
<1>12. CASE UNCHANGED vars
  BY <1>12 DEF vars, linkVars, LinkTypeOK, screenVars, ScreenTypeOK, signVars,
               SignTypeOK, keyVars, KeysTypeOK
<1> QED
  BY <1>1, <1>2, <1>3, <1>5, <1>6, <1>7, <1>8, <1>9, <1>10, <1>11, <1>12
  DEF Next, Receive, User

\* Every variable always holds a value of its type, for any set of commands,
\* any host and any faults.
THEOREM TypeCorrect == Spec => []TypeOK
<1> QED BY InitType, NextType, PTL DEF Spec

-----------------------------------------------------------------------------
(* What one SIGN command can do to a session `s`. *)

\* A session opened by `asked`, with nothing in the buffer yet.
Fresh(asked) == {o \in Session : /\ o.signState = "IDLE"
                                 /\ o.armed
                                 /\ o.upload = asked.id
                                 /\ o.length = 0
                                 /\ o.rawTx = <<>>}

\* The command is refused, or opens an upload, or its bytes go to a session.
Effect(base, cmd, lc, asked) ==
    \/ session' = base /\ UNCHANGED screenVars
    \/ PacketStored(base, cmd, lc, asked)
    \/ UploadCompleted(base, cmd, lc, asked)

Base(s, base, asked) ==
    \/ base \in Fresh(asked)
    \/ base = s /\ s.signState = "WAITING_FOR_MORE"
    \/ base = s /\ session' = s /\ UNCHANGED screenVars

LEMMA SignCommandEffect ==
    ASSUME NEW s \in Session, NEW cmd \in Commands, NEW asked \in Request,
           handle_sign(s, cmd, asked)
    PROVE  /\ verdict' = verdict
           /\ \E base \in Session, lc \in Byte :
                 Base(s, base, asked) /\ Effect(base, cmd, lc, asked)
<1>1. verdict' = verdict
  BY DEF handle_sign
<1>2. Opened(asked) \in Fresh(asked)
  BY ClearedType DEF Opened, Fresh, Session, Request, Cleared
<1>3. [Opened(asked) EXCEPT !.path = {cmd.path}] \in Fresh(asked)
  BY <1>2, CommandType DEF Fresh, Session
<1>4. 0 \in Byte /\ Fresh(asked) \subseteq Session
  BY DEF Byte, Fresh
<1>5. CASE PacketRefused(s, cmd, asked)
  <2>1. Base(s, s, asked) /\ Effect(s, cmd, 0, asked)
    BY <1>5 DEF PacketRefused, Base, Effect
  <2> QED BY <1>1, <1>4, <2>1
<1>6. CASE FirstPacketMalformed(cmd, asked)
  <2>1. Base(s, Opened(asked), asked) /\ Effect(Opened(asked), cmd, 0, asked)
    BY <1>2, <1>6 DEF FirstPacketMalformed, Base, Effect
  <2> QED BY <1>1, <1>2, <1>4, <2>1
<1> DEFINE fresh == [Opened(asked) EXCEPT !.path = {cmd.path}]
<1>7. CASE FirstPacketUnknownNetwork(cmd, asked)
  <2>1. Base(s, fresh, asked) /\ Effect(fresh, cmd, 0, asked)
    BY <1>3, <1>7 DEF FirstPacketUnknownNetwork, Base, Effect
  <2> QED BY <1>1, <1>3, <1>4, <2>1
<1>8. CASE FirstPacketAccepted(cmd, asked)
  <2> DEFINE lc == cmd.lc - 1 - 4 * cmd.n
  <2>1. lc \in Byte
    <3>1. cmd.lc \in 0..255 /\ cmd.n \in 0..255
      BY CommandsAssumption DEF Command, Byte
    <3>2. cmd.lc >= 1 + 4 * cmd.n
      BY <1>8 DEF FirstPacketAccepted, FirstPacketWellFormed
    <3>3. \A len, n \in 0..255 : len >= 1 + 4 * n => len - 1 - 4 * n \in 0..255
      OBVIOUS
    <3> QED BY <3>1, <3>2, <3>3 DEF Byte
  <2>2. handle_packet_content(fresh, cmd, lc, asked)
    BY <1>8 DEF FirstPacketAccepted
  <2> HIDE DEF lc
  <2>3. Base(s, fresh, asked) /\ Effect(fresh, cmd, lc, asked)
    BY <1>3, <2>2 DEF handle_packet_content, PacketTooLong, Base, Effect
  <2> QED BY <1>1, <1>3, <1>4, <2>1, <2>3
<1>9. CASE s.signState = "WAITING_FOR_MORE" /\ handle_subsequent_packet(s, cmd, asked)
  <2>1. cmd.lc \in Byte
    BY CommandsAssumption DEF Command
  <2>2. Base(s, s, asked) /\ Effect(s, cmd, cmd.lc, asked)
    BY <1>9 DEF handle_subsequent_packet, handle_packet_content, PacketTooLong,
                Base, Effect
  <2> QED BY <1>1, <2>1, <2>2
<1> QED BY <1>5, <1>6, <1>7, <1>8, <1>9 DEF handle_sign, handle_first_packet

-----------------------------------------------------------------------------
(* Uploads *)

LEMMA AppendedFields ==
    ASSUME NEW s \in Session, NEW cmd, NEW lc, NEW asked
    PROVE  LET t == Appended(s, cmd, lc, asked)
           IN  /\ t.upload = s.upload /\ t.armed = s.armed
               /\ t.length = s.length + lc
               /\ t.rawTx = IF lc = 0 THEN s.rawTx
                            ELSE Append(s.rawTx, [id |-> asked.id, data |-> cmd.data,
                                                  offset |-> s.length, length |-> lc])
BY DEF Appended, Session

\* What the two ways to store a packet keep of Appended.
LEMMA StoredFields ==
    ASSUME NEW s \in Session, NEW cmd \in Commands, NEW lc \in Byte,
           NEW asked \in Request,
           PacketStored(s, cmd, lc, asked) \/ UploadCompleted(s, cmd, lc, asked)
    PROVE  LET t == Appended(s, cmd, lc, asked)
           IN  /\ session'.upload = t.upload /\ session'.armed = t.armed
               /\ session'.length = t.length /\ session'.rawTx = t.rawTx
               /\ totalLength(s, lc) <= MAX_RAW_TX
<1> DEFINE t == Appended(s, cmd, lc, asked)
<1>1. t \in Session
  BY AppendedType DEF Byte
<1>2. CASE PacketStored(s, cmd, lc, asked)
  <2>1. session' = [t EXCEPT !.signState = "WAITING_FOR_MORE"]
    BY <1>2 DEF PacketStored
  <2> HIDE DEF t
  <2>2. /\ session'.upload = t.upload /\ session'.armed = t.armed
        /\ session'.length = t.length /\ session'.rawTx = t.rawTx
    BY <1>1, <2>1 DEF Session
  <2> QED BY <1>2, <2>2 DEF PacketStored, t
<1>3. CASE UploadCompleted(s, cmd, lc, asked)
  <2> DEFINE full == [t EXCEPT !.signState = "PENDING_REVIEW",
                               !.rawTxLength = s.length + lc]
  <2>1. session' = parse_txn_context(full)
    BY <1>3 DEF UploadCompleted, Complete
  <2> HIDE DEF t
  <2>2. /\ full \in Session
        /\ full.upload = t.upload /\ full.armed = t.armed
        /\ full.length = t.length /\ full.rawTx = t.rawTx
    <3>1. s.length + lc \in Nat
      BY DEF Session, Byte
    <3> QED BY <1>1, <3>1 DEF Session
  <2> HIDE DEF full
  <2>3. /\ session'.upload = full.upload /\ session'.armed = full.armed
        /\ session'.length = full.length /\ session'.rawTx = full.rawTx
    BY <2>1, <2>2 DEF parse_txn_context, Session
  <2> QED BY <1>3, <2>2, <2>3 DEF UploadCompleted, t
<1> QED BY <1>2, <1>3

\* Bytes that arrive with command n + 1 extend an open upload.
LEMMA StoredUpload ==
    ASSUME NEW s \in Session, NEW cmd \in Commands, NEW lc \in Byte,
           NEW asked \in Request, NEW n \in Nat, NEW since \in Nat,
           NEW last \in Nat, asked.id = n + 1,
           s.upload # 0, s.upload <= n + 1, s.armed, s.upload >= since,
           s.upload > last,
           \A i \in DOMAIN s.rawTx : s.rawTx[i].id \in s.upload..n,
           PacketStored(s, cmd, lc, asked) \/ UploadCompleted(s, cmd, lc, asked)
    PROVE  OpenUpload(session', n + 1, since, last)
<1> DEFINE packet == [id |-> asked.id, data |-> cmd.data,
                      offset |-> s.length, length |-> lc]
<1>1. /\ session'.upload = s.upload /\ session'.armed
      /\ session'.rawTx = IF lc = 0 THEN s.rawTx ELSE Append(s.rawTx, packet)
  BY AppendedFields, StoredFields
<1>2. packet \in Packet /\ packet.id = n + 1
  <2>1. lc \in Nat
    BY DEF Byte
  <2> QED BY <2>1, CommandType DEF Packet, Request, Session
<1> HIDE DEF packet
<1>3. s.upload \in Nat /\ s.rawTx \in Seq(Packet)
  BY DEF Session
<1>4. ASSUME NEW i \in DOMAIN session'.rawTx
      PROVE  session'.rawTx[i].id \in s.upload..(n + 1)
  <2>1. CASE lc = 0
    BY <1>1, <1>3, <2>1
  <2>2. CASE lc # 0 /\ i = Len(s.rawTx) + 1
    <3>1. session'.rawTx[i] = packet
      BY <1>1, <1>2, <1>3, <2>2, AppendProperties
    <3> QED BY <1>2, <1>3, <3>1
  <2>3. CASE lc # 0 /\ i # Len(s.rawTx) + 1
    <3>1. i \in DOMAIN s.rawTx /\ session'.rawTx[i] = s.rawTx[i]
      BY <1>1, <1>2, <1>3, <2>3, AppendProperties, LenProperties
    <3> QED BY <1>3, <3>1
  <2> QED BY <2>1, <2>2, <2>3
<1> QED BY <1>1, <1>3, <1>4 DEF OpenUpload

LEMMA SignUpload ==
    ASSUME NEW s \in Session, NEW cmd \in Commands, NEW asked \in Request,
           NEW n \in Nat, NEW since \in Nat, NEW last \in Nat,
           asked.id = n + 1, since <= n + 1, last <= n,
           OpenUpload(s, n, since, last),
           handle_sign(s, cmd, asked)
    PROVE  OpenUpload(session', n + 1, since, last)
<1>1. PICK base \in Session, lc \in Byte :
        Base(s, base, asked) /\ Effect(base, cmd, lc, asked)
  BY SignCommandEffect
<1>2. ASSUME NEW t \in Session, OpenUpload(t, n, since, last)
      PROVE  OpenUpload(t, n + 1, since, last)
  <2>1. t.upload \in Nat
    BY DEF Session
  <2>2. t.upload..n \subseteq t.upload..(n + 1)
    BY <2>1
  <2> QED BY <1>2, <2>1, <2>2 DEF OpenUpload
<1>3. CASE base = s /\ session' = s
  BY <1>2, <1>3
<1>4. CASE \/ base \in Fresh(asked)
           \/ base = s /\ s.signState = "WAITING_FOR_MORE"
  <2>1. /\ base.upload # 0 /\ base.upload <= n + 1 /\ base.armed
        /\ base.upload >= since /\ base.upload > last
        /\ \A i \in DOMAIN base.rawTx : base.rawTx[i].id \in base.upload..n
    BY <1>4 DEF Fresh, OpenUpload, Cleared, Session
  <2>2. CASE session' = base
    <3>1. \A i \in DOMAIN base.rawTx : base.rawTx[i].id \in base.upload..(n + 1)
      BY <2>1 DEF Session
    <3> QED BY <2>1, <2>2, <3>1 DEF OpenUpload
  <2>3. CASE PacketStored(base, cmd, lc, asked) \/ UploadCompleted(base, cmd, lc, asked)
    BY <2>1, <2>3, StoredUpload
  <2> QED BY <1>1, <2>2, <2>3 DEF Effect
<1>5. \/ base = s /\ session' = s
      \/ base \in Fresh(asked)
      \/ base = s /\ s.signState = "WAITING_FOR_MORE"
  BY <1>1 DEF Base
<1> QED BY <1>3, <1>4, <1>5

-----------------------------------------------------------------------------
(* The buffer *)

LEMMA BufferSize == MAX_RAW_TX \in Nat /\ 4 <= MAX_RAW_TX /\ MAX_RAW_TX <= 65276
BY MaxRawTxAssumption

LEMMA SmallModulo ==
    ASSUME NEW k \in Nat, NEW m \in Nat, k < m
    PROVE  k % m = k
OBVIOUS

\* The 16-bit total does not wrap on a buffer that is within its bound.
LEMMA NoWrap ==
    ASSUME NEW s \in Session, NEW lc \in Byte,
           s.length <= MAX_RAW_TX - PREFIX_LENGTH
    PROVE  totalLength(s, lc) = PREFIX_LENGTH + s.length + lc
<1> DEFINE total == PREFIX_LENGTH + s.length + lc
<1>1. s.length \in Nat /\ lc \in Nat /\ lc <= 255
  BY DEF Session, Byte
<1>2. MAX_RAW_TX \in Nat /\ MAX_RAW_TX <= 65276
  BY BufferSize
<1>3. total \in Nat /\ total < UINT16 /\ UINT16 \in Nat
  BY <1>1, <1>2 DEF PREFIX_LENGTH, UINT16
<1> HIDE DEF total
<1>4. total % UINT16 = total
  BY <1>3, SmallModulo
<1> QED BY <1>4 DEF totalLength, total

LEMMA ContiguousBound ==
    ASSUME NEW s \in Session, Contiguous(s)
    PROVE  s.length <= MAX_RAW_TX - PREFIX_LENGTH
<1>1. CASE s.rawTx = <<>>
  BY <1>1, BufferSize DEF Contiguous, PREFIX_LENGTH
<1>2. CASE s.rawTx # <<>>
  <2>1. Len(s.rawTx) \in DOMAIN s.rawTx
    BY <1>2 DEF Session
  <2> QED BY <1>2, <2>1 DEF Contiguous
<1> QED BY <1>1, <1>2

LEMMA StoredContiguous ==
    ASSUME NEW s \in Session, NEW cmd \in Commands, NEW lc \in Byte,
           NEW asked \in Request, Contiguous(s),
           \A i \in DOMAIN s.rawTx : s.rawTx[i].id < asked.id,
           PacketStored(s, cmd, lc, asked) \/ UploadCompleted(s, cmd, lc, asked)
    PROVE  Contiguous(session')
<1> DEFINE packet == [id |-> asked.id, data |-> cmd.data,
                      offset |-> s.length, length |-> lc]
<1>1. /\ session'.length = s.length + lc
      /\ session'.rawTx = IF lc = 0 THEN s.rawTx ELSE Append(s.rawTx, packet)
  BY AppendedFields, StoredFields
<1>2. s.length \in Nat /\ s.rawTx \in Seq(Packet) /\ lc \in Nat
  BY DEF Session, Byte
<1>3. /\ packet \in Packet /\ packet.id = asked.id
      /\ packet.offset = s.length /\ packet.length = lc
  BY <1>2, CommandType DEF Packet, Request
<1> HIDE DEF packet
<1>4. s.length + lc <= MAX_RAW_TX - PREFIX_LENGTH
  <2>1. totalLength(s, lc) <= MAX_RAW_TX
    BY StoredFields
  <2>2. totalLength(s, lc) = PREFIX_LENGTH + s.length + lc
    BY ContiguousBound, NoWrap
  <2>3. MAX_RAW_TX \in Nat
    BY BufferSize
  <2>4. PREFIX_LENGTH + s.length + lc <= MAX_RAW_TX
    BY <2>1, <2>2
  <2> QED BY <1>2, <2>3, <2>4 DEF PREFIX_LENGTH
<1>5. CASE lc = 0
  BY <1>1, <1>2, <1>5 DEF Contiguous
<1>6. CASE lc # 0
  <2> DEFINE tx == s.rawTx
             new == Append(tx, packet)
             end(q, i) == q[i].offset + q[i].length
  <2>1. /\ new \in Seq(Packet) /\ new # <<>> /\ Len(new) = Len(tx) + 1
        /\ \A i \in 1..Len(tx) : new[i] = tx[i]
        /\ new[Len(tx) + 1] = packet
    BY <1>2, <1>3, AppendProperties
  <2>2. Len(tx) \in Nat /\ DOMAIN tx = 1..Len(tx)
        /\ DOMAIN new = 1..(Len(tx) + 1)
    BY <1>2, <2>1, LenProperties
  <2>3. session'.rawTx = new /\ session'.length = s.length + lc
    BY <1>1, <1>6
  <2> HIDE DEF new
  <2>4. /\ s.length = IF tx = <<>> THEN 0 ELSE end(tx, Len(tx))
        /\ \A i \in 1..Len(tx) :
              /\ tx[i].offset = IF i = 1 THEN 0 ELSE end(tx, i - 1)
              /\ end(tx, i) <= MAX_RAW_TX - PREFIX_LENGTH
              /\ i > 1 => tx[i - 1].id < tx[i].id
    BY <2>2 DEF Contiguous
  <2>5. end(new, Len(tx) + 1) = s.length + lc
    BY <1>3, <2>1
  <2>6. ASSUME NEW i \in 1..(Len(tx) + 1)
        PROVE  /\ new[i].offset = IF i = 1 THEN 0 ELSE end(new, i - 1)
               /\ end(new, i) <= MAX_RAW_TX - PREFIX_LENGTH
               /\ i > 1 => new[i - 1].id < new[i].id
    <3>1. CASE i = Len(tx) + 1
      <4>1. CASE tx = <<>>
        BY <1>3, <1>4, <2>1, <2>4, <2>5, <3>1, <4>1
      <4>2. CASE tx # <<>>
        <5>1. Len(tx) > 0 /\ i - 1 = Len(tx) /\ i # 1
          BY <1>2, <2>2, <3>1, <4>2, EmptySeq
        <5>2. new[i - 1] = tx[Len(tx)] /\ tx[Len(tx)].id < asked.id
          BY <2>1, <2>2, <5>1
        <5> QED BY <1>3, <1>4, <2>1, <2>4, <2>5, <3>1, <4>2, <5>1, <5>2
      <4> QED BY <4>1, <4>2
    <3>2. CASE i # Len(tx) + 1
      <4>1. i \in 1..Len(tx) /\ (i # 1 => i - 1 \in 1..Len(tx))
        BY <2>2, <3>2
      <4>2. new[i] = tx[i] /\ (i # 1 => new[i - 1] = tx[i - 1])
        BY <2>1, <4>1
      <4>3. i > 1 => i # 1
        OBVIOUS
      <4> HIDE DEF tx
      <4> QED BY <2>4, <4>1, <4>2, <4>3
    <3> QED BY <3>1, <3>2
  <2> QED BY <2>1, <2>2, <2>3, <2>5, <2>6 DEF Contiguous
<1> QED BY <1>5, <1>6

LEMMA SignContiguous ==
    ASSUME NEW s \in Session, NEW cmd \in Commands, NEW asked \in Request,
           Contiguous(s), \A i \in DOMAIN s.rawTx : s.rawTx[i].id < asked.id,
           handle_sign(s, cmd, asked)
    PROVE  Contiguous(session')
<1>1. PICK base \in Session, lc \in Byte :
        Base(s, base, asked) /\ Effect(base, cmd, lc, asked)
  BY SignCommandEffect
<1>2. /\ Contiguous(base)
      /\ \A i \in DOMAIN base.rawTx : base.rawTx[i].id < asked.id
  <2>1. CASE base \in Fresh(asked)
    <3>1. base.rawTx = <<>> /\ base.length = 0
      BY <2>1 DEF Fresh
    <3> QED BY <3>1 DEF Contiguous
  <2>2. CASE base = s
    BY <2>2
  <2> QED BY <1>1, <2>1, <2>2 DEF Base
<1>3. CASE session' = base
  BY <1>2, <1>3
<1>4. CASE PacketStored(base, cmd, lc, asked) \/ UploadCompleted(base, cmd, lc, asked)
  BY <1>2, <1>4, StoredContiguous
<1> QED BY <1>1, <1>3, <1>4 DEF Effect

-----------------------------------------------------------------------------
(* The review *)

LEMMA CompletedReview ==
    ASSUME NEW s \in Session, NEW cmd \in Commands, NEW lc \in Byte,
           NEW asked \in Request, UploadCompleted(s, cmd, lc, asked)
    PROVE  Reviewed(session)'
<1> DEFINE full == Complete(s, cmd, lc, asked)
           tx == Contents(full.rawTx)
<1>1. full \in Session /\ full.rawTxLength = full.length
  <2> DEFINE t == Appended(s, cmd, lc, asked)
  <2>0. lc \in Nat /\ s.length \in Nat
    BY DEF Byte, Session
  <2>1. t \in Session /\ t.length = s.length + lc /\ s.length + lc \in Nat
    <3>1. t \in Session
      BY <2>0, AppendedType
    <3>2. t.length = s.length + lc
      BY DEF Appended, Session
    <3> QED BY <2>0, <3>1, <3>2
  <2>2. full = [t EXCEPT !.signState = "PENDING_REVIEW",
                         !.rawTxLength = s.length + lc]
    BY DEF Complete
  <2> HIDE DEF t, full
  <2> QED BY <2>1, <2>2 DEF Session
<1>2. /\ session' = parse_txn_context(full)
      /\ Parses(tx, full.length) => screen' = ScreenOf("review", {})
  BY DEF UploadCompleted, review_transaction
<1> HIDE DEF full
<1>3. session'.rawTx = full.rawTx /\ session'.length = full.length
  BY <1>1, <1>2 DEF parse_txn_context, Session
<1>4. SUFFICES ASSUME Parses(tx, full.length)
               PROVE  /\ screen'.kind = "review" /\ screen'.shown = {}
                      /\ session'.result = tx
                      /\ session'.rawTxLength <= full.length
                      /\ \/ session'.rawTxLength = full.length
                         \/ tx[1] \in Cosignatures
  BY <1>3 DEF Reviewed
<1>5. screen'.kind = "review" /\ screen'.shown = {}
  BY <1>2, <1>4 DEF ScreenOf
<1>6. /\ full.length >= COMMON_HEADER
      /\ tx[1] \in Cosignatures
           => full.length >= COMMON_HEADER + SIGNATURE_HEADER + 4
  BY <1>4 DEF Parses
<1>7. session' = [full EXCEPT !.rawTxLength = set_sign_data_length(full),
                              !.result = tx]
  BY <1>1, <1>2, <1>6 DEF parse_txn_context, Session, COMMON_HEADER
<1>8. session'.result = tx /\ session'.rawTxLength = set_sign_data_length(full)
  BY <1>1, <1>7 DEF Session
<1> QED BY <1>1, <1>5, <1>6, <1>8
        DEF set_sign_data_length, COMMON_HEADER, SIGNATURE_HEADER, Session

LEMMA SignReview ==
    ASSUME NEW s \in Session, NEW cmd \in Commands, NEW asked \in Request,
           Reviewed(s), handle_sign(s, cmd, asked)
    PROVE  Reviewed(session)'
<1>1. PICK base \in Session, lc \in Byte :
        Base(s, base, asked) /\ Effect(base, cmd, lc, asked)
  BY SignCommandEffect
<1>2. CASE session' = s /\ UNCHANGED screenVars
  BY <1>2 DEF screenVars, Reviewed
<1>3. CASE session'.signState # "PENDING_REVIEW"
  BY <1>3 DEF Reviewed
<1>4. CASE UploadCompleted(base, cmd, lc, asked)
  BY <1>4, CompletedReview
<1>5. CASE PacketStored(base, cmd, lc, asked)
  <2>1. Appended(base, cmd, lc, asked) \in Session
    BY AppendedType DEF Byte
  <2>2. session'.signState = "WAITING_FOR_MORE"
    BY <1>5, <2>1 DEF PacketStored, Session
  <2> QED BY <1>3, <2>2
<1>6. CASE /\ session' = base
           /\ \/ base \in Fresh(asked)
              \/ base = s /\ s.signState = "WAITING_FOR_MORE"
  BY <1>3, <1>6 DEF Fresh
<1> QED BY <1>1, <1>2, <1>4, <1>5, <1>6 DEF Base, Effect

-----------------------------------------------------------------------------
(* The inductive invariant *)

LEMMA ClearedInv ==
    /\ Contiguous(Cleared)
    /\ Reviewed(Cleared)
    /\ \A n, since, last \in Nat : OpenUpload(Cleared, n, since, last)
BY BufferSize DEF Contiguous, Reviewed, OpenUpload, Cleared, PREFIX_LENGTH

\* The callbacks of a screen are set when it is put up, and only then.
LEMMA CallbacksStep ==
    ActionsMatchScreen /\ [Next]_vars => ActionsMatchScreen'
<1> SUFFICES ASSUME ActionsMatchScreen, [Next]_vars PROVE ActionsMatchScreen'
  OBVIOUS
<1>1. CASE UNCHANGED screenVars
  BY <1>1 DEF screenVars, ActionsMatchScreen
<1>2. CASE display_done \/ display_idle_menu \/ Restart
  BY <1>2 DEF display_done, display_idle_menu, Restart, ScreenOf,
              ActionsMatchScreen
<1>3. CASE TurnPage
  <2>1. /\ screen'.kind \in {screen.kind, "review"} /\ screen.kind = "review"
        /\ UNCHANGED <<approval_action, rejection_action>>
    BY <1>3 DEF TurnPage
  <2>2. screen' = [screen EXCEPT !.shown = @ \cup {session.result}]
    BY <1>3 DEF TurnPage
  <2> QED BY <2>1, <2>2 DEF ActionsMatchScreen
<1>4. CASE \/ review_transaction("sign_transaction", "reject_transaction")
           \/ \E address : display_address_confirmation_ui(
                 address, "on_address_confirmed", "on_address_rejected")
           \/ \E account : display_remote_account_confirmation_ui(
                 account, "on_privatekey_confirmed", "on_privatekey_rejected")
  BY <1>4 DEF review_transaction, display_address_confirmation_ui,
              display_remote_account_confirmation_ui, ScreenOf,
              ActionsMatchScreen
<1>5. ASSUME NEW s, NEW cmd, NEW asked, handle_sign(s, cmd, asked)
      PROVE  \/ UNCHANGED screenVars
             \/ review_transaction("sign_transaction", "reject_transaction")
  BY <1>5 DEF handle_sign, PacketRefused, handle_first_packet,
              FirstPacketMalformed, FirstPacketUnknownNetwork,
              FirstPacketAccepted, handle_subsequent_packet,
              handle_packet_content, PacketTooLong, PacketStored,
              UploadCompleted
<1>6. ASSUME NEW cmd, NEW asked, handle_public_key(cmd, asked)
      PROVE  \/ UNCHANGED screenVars
             \/ \E address : display_address_confirmation_ui(
                   address, "on_address_confirmed", "on_address_rejected")
  BY <1>6 DEF handle_public_key, PublicKeyRefused, PublicKeyFailed,
              PublicKeySent, PublicKeyDisplayed
<1>7. ASSUME NEW cmd, NEW asked, handle_remote_private_key(cmd, asked)
      PROVE  \/ UNCHANGED screenVars
             \/ \E account : display_remote_account_confirmation_ui(
                   account, "on_privatekey_confirmed", "on_privatekey_rejected")
  BY <1>7 DEF handle_remote_private_key, RemoteRefused, RemoteFailed,
              RemoteSent, RemoteDisplayed
<1>8. ASSUME Receive PROVE ActionsMatchScreen'
  BY <1>1, <1>4, <1>5, <1>6, <1>7, <1>8
  DEF Receive, ReceiveMalformed, ReceiveFails, ReceiveWrongClass, ReceiveSign,
      ReceiveGetPublicKey, ReceiveGetRemoteAccount, ReceiveGetAppConfiguration,
      ReceiveUnknownInstruction
<1>9. ASSUME UserApproves \/ UserRejects
      PROVE  UNCHANGED screenVars \/ display_done \/ display_idle_menu
  BY <1>9 DEF UserApproves, UserRejects, Call, sign_transaction, reject_transaction,
              NothingPending, Signed, SignFailed, Rejected,
              on_address_confirmed, on_privatekey_confirmed, on_key_rejected
<1>10. ASSUME UserBrowses PROVE TurnPage \/ display_idle_menu
  BY <1>10 DEF UserBrowses, DismissStatus
<1>11. ASSUME UserQuits \/ UNCHANGED vars PROVE UNCHANGED screenVars
  BY <1>11 DEF UserQuits, vars
<1> QED BY <1>1, <1>2, <1>3, <1>8, <1>9, <1>10, <1>11 DEF Next, User

\* The two callbacks are those of the screen that is up, under any host.
THEOREM CallbacksMatch == Spec => []ActionsMatchScreen
<1>1. Init => ActionsMatchScreen
  BY DEF Init, ScreenInit, ScreenOf, ActionsMatchScreen
<1> QED BY <1>1, CallbacksStep, PTL DEF Spec

\* Pressing Reject never sends a key or a signature, under any host.
THEOREM RejectionsReleaseNothing == Spec => RejectReleasesNothing
<1>1. ActionsMatchScreen /\ [Next]_vars
        => [UserRejects /\ response' # response => ~Releases(response'.msg)]_vars
  <2> SUFFICES ASSUME ActionsMatchScreen, UserRejects, response' # response
               PROVE  ~Releases(response'.msg)
    OBVIOUS
  <2>1. rejection_action \in {"reject_transaction", "on_address_rejected",
                              "on_privatekey_rejected"}
    BY DEF UserRejects, Pressed, AwaitsUser, ActionsMatchScreen
  <2>2. reject_transaction \/ on_key_rejected
    BY <2>1 DEF UserRejects, Call
  <2>3. \E sent : Reply(awaiting, sent, Status("CONDITIONS_NOT_SATISFIED"))
    BY <2>2 DEF reject_transaction, NothingPending, Rejected, on_key_rejected
  <2>4. response'.msg = Status("CONDITIONS_NOT_SATISFIED")
    BY <2>3 DEF Reply
  <2> QED BY <2>4 DEF Releases, Status
<1> QED BY <1>1, CallbacksMatch, PTL DEF Spec, RejectReleasesNothing

-----------------------------------------------------------------------------
LEMMA UploadStep ==
    TypeOK /\ UploadInv /\ [Next]_vars => UploadInv'
<1> SUFFICES ASSUME TypeOK, UploadInv, [Next]_vars PROVE UploadInv'
  OBVIOUS
<1>0. /\ received \in Nat /\ changedAt \in Nat /\ session \in Session
      /\ verdict.upload \in Nat /\ session.upload \in Nat
  BY DEF TypeOK, LinkTypeOK, SignTypeOK, Session, Verdicts
<1>1. ASSUME NEW n \in Nat, NEW since \in Nat, NEW last \in Nat, NEW m \in Nat,
             NEW s \in Session, OpenUpload(s, n, since, last), n <= m
      PROVE  OpenUpload(s, m, since, last)
  <2>1. s.upload \in Nat
    BY DEF Session
  <2>2. s.upload..n \subseteq s.upload..m
    BY <1>1, <2>1
  <2> QED BY <1>1, <2>1, <2>2 DEF OpenUpload
<1>2. CASE /\ UNCHANGED <<session, verdict, lastINS, changedAt>>
           /\ received' \in {received, received + 1}
  <2>1. OpenUpload(session, received', changedAt, verdict.upload)
    BY <1>0, <1>1, <1>2 DEF UploadInv
  <2>2. verdict.upload <= received' /\ changedAt <= received' + 1
    <3>1. verdict.upload <= received /\ changedAt <= received + 1
      BY DEF UploadInv
    <3>2. CASE received' = received
      BY <3>1, <3>2
    <3>3. CASE received' = received + 1
      BY <1>0, <3>1, <3>3
    <3> QED BY <1>2, <3>2, <3>3
  <2>3. /\ session' = session /\ verdict' = verdict
        /\ lastINS' = lastINS /\ changedAt' = changedAt
    BY <1>2
  <2>4. session.upload # 0 => lastINS = INS_SIGN
    BY DEF UploadInv
  <2> QED BY <2>1, <2>2, <2>3, <2>4 DEF UploadInv
<1>3. ASSUME session' = Cleared, received' \in Nat, changedAt' \in Nat,
             verdict'.upload \in Nat, verdict'.upload <= received',
             changedAt' <= received' + 1
      PROVE  UploadInv'
  <2>1. OpenUpload(Cleared, received', changedAt', verdict'.upload)
    BY <1>3, ClearedInv
  <2>2. Cleared.upload = 0
    BY DEF Cleared
  <2> QED BY <1>3, <2>1, <2>2 DEF UploadInv
<1>4. ASSUME NEW cmd, NEW ins, Dispatch(cmd, ins)
      PROVE  /\ received' = received + 1 /\ changedAt' \in Nat
             /\ changedAt' <= received + 1 /\ lastINS' = ins
             /\ OpenUpload(SessionFor(ins), received, changedAt', verdict.upload)
             /\ SessionFor(ins).upload # 0
                  => SessionFor(ins) = session /\ changedAt' = changedAt
                     /\ lastINS' = INS_SIGN
             /\ SessionFor(ins) \in Session
  <2>1. CASE ins # lastINS
    <3>1. /\ received' = received + 1 /\ changedAt' = received + 1
          /\ lastINS' = ins
      BY <1>4, <2>1 DEF Dispatch
    <3>2. SessionFor(ins) = Cleared
      BY <2>1 DEF SessionFor
    <3>3. Cleared.upload = 0
      BY DEF Cleared
    <3>4. changedAt' \in Nat /\ changedAt' <= received + 1
      BY <1>0, <3>1
    <3>5. OpenUpload(Cleared, received, changedAt', verdict.upload)
      BY <1>0, <3>4, ClearedInv
    <3> QED BY <3>1, <3>2, <3>3, <3>4, <3>5, ClearedType
  <2>2. CASE ins = lastINS
    BY <1>0, <1>4, <2>2 DEF Dispatch, SessionFor, UploadInv
  <2> QED BY <2>1, <2>2
<1>5. ASSUME NEW cmd, NEW ins, Dispatch(cmd, ins),
             session' = SessionFor(ins), verdict' = verdict
      PROVE  UploadInv'
  <2>1. OpenUpload(SessionFor(ins), received + 1, changedAt', verdict.upload)
    BY <1>0, <1>1, <1>4, <1>5
  <2> QED BY <1>0, <1>4, <1>5, <2>1 DEF UploadInv
<1>6. ASSUME NEW cmd \in Commands, ReceiveSign(cmd) PROVE UploadInv'
  <2> DEFINE s == SessionFor(INS_SIGN)
             asked == Asked(INS_SIGN)
  <2>1. Dispatch(cmd, INS_SIGN) /\ handle_sign(s, cmd, asked)
    BY <1>6 DEF ReceiveSign
  <2>2. asked \in Request /\ asked.id = received + 1
    BY <1>0, AskedType DEF Asked, INS_SIGN, Byte
  <2>3. verdict' = verdict
    BY <2>1 DEF handle_sign
  <2>4. /\ received' = received + 1 /\ changedAt' \in Nat
        /\ changedAt' <= received + 1 /\ lastINS' = INS_SIGN
        /\ OpenUpload(s, received, changedAt', verdict.upload) /\ s \in Session
    BY <1>4, <2>1
  <2>5. verdict.upload <= received
    BY DEF UploadInv
  <2> HIDE DEF s, asked
  <2>6. OpenUpload(session', received + 1, changedAt', verdict.upload)
    BY <1>0, <2>1, <2>2, <2>4, <2>5, SignUpload
  <2> QED BY <1>0, <2>3, <2>4, <2>5, <2>6 DEF UploadInv
<1>7. CASE UserApproves \/ UserRejects
  <2>1. UNCHANGED <<received, lastINS, changedAt>>
    BY <1>7 DEF UserApproves, UserRejects, Pressed
  <2>2. \/ UNCHANGED signVars
        \/ session' = Cleared /\ verdict' = verdict
        \/ session' = Cleared /\ verdict'.upload = session.upload
    BY <1>7 DEF UserApproves, UserRejects, Call, sign_transaction,
                reject_transaction, NothingPending, Signed, SignFailed,
                Rejected, Judged
  <2>3. CASE UNCHANGED signVars
    BY <1>2, <2>1, <2>3 DEF signVars
  <2>4. session.upload <= received /\ verdict.upload <= received
        /\ changedAt <= received + 1
    BY DEF UploadInv, OpenUpload
  <2>5. CASE session' = Cleared /\ verdict'.upload \in {verdict.upload, session.upload}
    BY <1>0, <1>3, <2>1, <2>4, <2>5
  <2> QED BY <2>2, <2>3, <2>5
<1>8. CASE Restart
  BY <1>0, <1>3, <1>8 DEF Restart, UploadInv
<1>9. ASSUME NEW cmd \in Commands,
             \/ ReceiveGetPublicKey(cmd) \/ ReceiveGetRemoteAccount(cmd)
             \/ ReceiveGetAppConfiguration(cmd) \/ ReceiveUnknownInstruction(cmd)
      PROVE  UploadInv'
  BY <1>5, <1>9 DEF ReceiveGetPublicKey, ReceiveGetRemoteAccount,
                    ReceiveGetAppConfiguration, ReceiveUnknownInstruction
<1>10. CASE \/ ReceiveMalformed \/ ReceiveFails \/ UserBrowses \/ UserQuits
            \/ UNCHANGED vars
            \/ \E cmd \in Commands : ReceiveWrongClass(cmd)
  BY <1>2, <1>10 DEF ReceiveMalformed, ReceiveFails, ReceiveWrongClass,
                     UserBrowses, UserQuits, vars, signVars, linkVars
<1> QED BY <1>6, <1>7, <1>8, <1>9, <1>10 DEF Next, Receive, User

LEMMA BufferStep ==
    TypeOK /\ UploadInv /\ BufferContiguous /\ [Next]_vars => BufferContiguous'
<1> SUFFICES ASSUME TypeOK, UploadInv, BufferContiguous, [Next]_vars
             PROVE  Contiguous(session')
  BY DEF BufferContiguous
<1>1. received \in Nat /\ session \in Session
  BY DEF TypeOK, LinkTypeOK, SignTypeOK
<1>2. CASE session' \in {session, Cleared}
  BY <1>2, ClearedInv DEF BufferContiguous
<1>3. ASSUME NEW ins PROVE SessionFor(ins) \in {session, Cleared}
  BY DEF SessionFor
<1>4. ASSUME NEW cmd \in Commands, ReceiveSign(cmd) PROVE Contiguous(session')
  <2> DEFINE s == SessionFor(INS_SIGN)
             asked == Asked(INS_SIGN)
  <2>1. handle_sign(s, cmd, asked)
    BY <1>4 DEF ReceiveSign
  <2>2. asked \in Request /\ asked.id = received + 1
    BY <1>1, AskedType DEF Asked, INS_SIGN, Byte
  <2>3. s \in Session /\ Contiguous(s)
    BY <1>1, <1>3, ClearedInv, ClearedType DEF BufferContiguous
  <2>4. \A i \in DOMAIN session.rawTx : session.rawTx[i].id \in session.upload..received
    BY DEF UploadInv, OpenUpload
  <2>5. session.upload \in Nat
    BY <1>1 DEF Session
  <2>6. \A i \in DOMAIN s.rawTx : s.rawTx[i].id < received + 1
    <3>1. CASE s = session
      BY <1>1, <2>4, <2>5, <3>1
    <3>2. CASE s = Cleared
      BY <3>2 DEF Cleared
    <3> QED BY <1>3, <3>1, <3>2
  <2> HIDE DEF s, asked
  <2> QED BY <2>1, <2>2, <2>3, <2>6, SignContiguous
<1>5. ASSUME NEW cmd \in Commands,
             \/ ReceiveGetPublicKey(cmd) \/ ReceiveGetRemoteAccount(cmd)
             \/ ReceiveGetAppConfiguration(cmd) \/ ReceiveUnknownInstruction(cmd)
      PROVE  session' \in {session, Cleared}
  BY <1>3, <1>5 DEF ReceiveGetPublicKey, ReceiveGetRemoteAccount,
                    ReceiveGetAppConfiguration, ReceiveUnknownInstruction
<1>6. CASE UserApproves \/ UserRejects
  BY <1>2, <1>6 DEF UserApproves, UserRejects, Call, sign_transaction,
                    reject_transaction, NothingPending, Signed, SignFailed,
                    Rejected, signVars
<1>7. CASE \/ Restart \/ ReceiveMalformed \/ ReceiveFails \/ UserBrowses
           \/ UserQuits \/ UNCHANGED vars
           \/ \E cmd \in Commands : ReceiveWrongClass(cmd)
  BY <1>2, <1>7 DEF Restart, ReceiveMalformed, ReceiveFails, ReceiveWrongClass,
                    UserBrowses, UserQuits, vars, signVars
<1> QED BY <1>2, <1>4, <1>5, <1>6, <1>7 DEF Next, Receive, User

\* A session whose review is to be up keeps it while the screen does not change.
LEMMA ReviewKept ==
    ASSUME Reviewed(session), session' = session, UNCHANGED screen
    PROVE  Reviewed(session)'
BY DEF Reviewed

LEMMA ReviewStep ==
    ASSUME TypeOK, UploadInv, ActionsMatchScreen, ReviewInv, [Next]_vars
    PROVE  ReviewInv'
<1> SUFFICES Reviewed(session)'
  BY DEF ReviewInv
<1>1. received \in Nat /\ session \in Session
  BY DEF TypeOK, LinkTypeOK, SignTypeOK
<1>2. Reviewed(session)
  BY DEF ReviewInv
<1>3. CASE session' = Cleared
  BY <1>3 DEF Reviewed, Cleared
<1>4. CASE session' = session /\ UNCHANGED screen
  BY <1>2, <1>4, ReviewKept
<1>5. ASSUME NEW cmd \in Commands, ReceiveSign(cmd) PROVE Reviewed(session)'
  <2> DEFINE s == SessionFor(INS_SIGN)
             asked == Asked(INS_SIGN)
  <2>1. handle_sign(s, cmd, asked)
    BY <1>5 DEF ReceiveSign
  <2>2. asked \in Request
    BY <1>1, AskedType DEF INS_SIGN, Byte
  <2>3. s \in Session /\ Reviewed(s)
    BY <1>1, <1>2, ClearedInv, ClearedType DEF SessionFor
  <2> HIDE DEF s, asked
  <2> QED BY <2>1, <2>2, <2>3, SignReview
<1>6. ASSUME NEW cmd \in Commands,
             \/ ReceiveGetPublicKey(cmd) \/ ReceiveGetRemoteAccount(cmd)
             \/ ReceiveGetAppConfiguration(cmd) \/ ReceiveUnknownInstruction(cmd)
      PROVE  session' = Cleared
  <2>1. PICK ins \in Byte : /\ ins # INS_SIGN /\ session' = SessionFor(ins)
    BY <1>6, CommandsAssumption
    DEF ReceiveGetPublicKey, ReceiveGetRemoteAccount, ReceiveGetAppConfiguration,
        ReceiveUnknownInstruction, Instructions, INS_SIGN, INS_GET_PUBLIC_KEY,
        INS_GET_REMOTE_ACCOUNT, INS_GET_APP_CONFIGURATION, Command, Byte
  <2>2. CASE ins # lastINS
    BY <2>1, <2>2 DEF SessionFor
  <2>3. CASE ins = lastINS
    <3>1. session.upload = 0
      BY <2>1, <2>3 DEF UploadInv
    <3> QED BY <2>1, <2>3, <3>1 DEF SessionFor, UploadInv, OpenUpload
  <2> QED BY <2>2, <2>3
<1>7. ASSUME UserApproves \/ UserRejects PROVE Reviewed(session)'
  <2>1. CASE session' # Cleared
    <3> DEFINE ForKeys(action) == action \in
                 {"on_address_confirmed", "on_privatekey_confirmed",
                  "on_address_rejected", "on_privatekey_rejected"}
    <3>1. /\ ForKeys(approval_action) \/ ForKeys(rejection_action)
          /\ UNCHANGED signVars
      BY <1>7, <2>1 DEF UserApproves, UserRejects, Call, sign_transaction,
                reject_transaction, NothingPending, Signed, SignFailed, Rejected
    <3>2. screen.kind # "review"
      BY <3>1 DEF ActionsMatchScreen
    <3>3. session' = session
      BY <3>1 DEF signVars
    <3> QED BY <1>2, <3>2, <3>3 DEF Reviewed
  <2> QED BY <1>3, <2>1
<1>8. ASSUME UserBrowses PROVE Reviewed(session)'
  <2>1. session' = session
    BY <1>8 DEF UserBrowses, signVars
  <2>2. CASE TurnPage
    <3>1. screen' = [screen EXCEPT !.shown = @ \cup {session.result}]
      BY <2>2 DEF TurnPage
    <3>2. screen \in Screens
      BY DEF TypeOK, ScreenTypeOK
    <3>3. screen'.kind = screen.kind
          /\ screen'.shown = screen.shown \cup {session.result}
      BY <3>1, <3>2 DEF Screens
    <3> QED BY <1>2, <2>1, <3>3 DEF Reviewed
  <2>3. CASE DismissStatus
    <3>1. screen.kind # "review"
      BY <2>3 DEF DismissStatus
    <3> QED BY <1>2, <2>1, <3>1 DEF Reviewed
  <2> QED BY <1>8, <2>2, <2>3 DEF UserBrowses
<1>9. CASE \/ ReceiveMalformed \/ ReceiveFails \/ UserQuits \/ UNCHANGED vars
           \/ \E cmd \in Commands : ReceiveWrongClass(cmd)
  BY <1>4, <1>9 DEF ReceiveMalformed, ReceiveFails, ReceiveWrongClass,
                    UserQuits, vars, signVars, screenVars
<1>10. CASE Restart
  BY <1>3, <1>10 DEF Restart
<1> QED BY <1>3, <1>5, <1>6, <1>7, <1>8, <1>9, <1>10 DEF Next, Receive, User

\* A signature is of what its review has shown, and within its bytes.
LEMMA VerdictStep ==
    ASSUME TypeOK, UploadInv, ActionsMatchScreen, ReviewInv, [Next]_vars,
           SignedWasReviewed, SignsReceivedBytes
    PROVE  SignedWasReviewed' /\ SignsReceivedBytes'
<1>1. CASE verdict' = verdict
  BY <1>1 DEF SignedWasReviewed, SignsReceivedBytes
<1>2. CASE verdict'.outcome = "rejected"
  BY <1>2 DEF SignedWasReviewed, SignsReceivedBytes
<1>3. ASSUME Pressed, sign_transaction,
             screen.kind = "review" => screen.shown # {},
             approval_action = "sign_transaction"
      PROVE  SignedWasReviewed' /\ SignsReceivedBytes'
  <2>1. screen.kind = "review"
    BY <1>3 DEF Pressed, AwaitsUser, ActionsMatchScreen
  <2>2. CASE Signed
    <3> DEFINE tx == Contents(session.rawTx)
    <3>1. /\ verdict'.tx = tx /\ verdict'.length = session.length
          /\ verdict'.signs = session.rawTxLength
          /\ verdict'.shown = screen.shown
      BY <2>2 DEF Signed, Judged
    <3>2. session.signState = "PENDING_REVIEW"
      BY <2>2 DEF Signed, Pending
    <3> HIDE DEF tx
    <3>3. SUFFICES ASSUME Parses(tx, session.length)
                   PROVE  /\ screen.shown = {tx}
                          /\ session.rawTxLength <= session.length
                          /\ \/ session.rawTxLength = session.length
                             \/ tx[1] \in Cosignatures
      BY <3>1 DEF SignedWasReviewed, SignsReceivedBytes
    <3>4. /\ screen.shown \subseteq {session.result} /\ session.result = tx
          /\ session.rawTxLength <= session.length
          /\ \/ session.rawTxLength = session.length
             \/ session.result[1] \in Cosignatures
      BY <3>2, <3>3 DEF ReviewInv, Reviewed, tx
    <3> QED BY <1>3, <2>1, <3>4
  <2>3. CASE ~Signed
    BY <1>1, <1>3, <2>3 DEF sign_transaction, NothingPending, SignFailed
  <2> QED BY <2>2, <2>3
<1>4. ASSUME NEW cmd \in Commands, ReceiveSign(cmd) PROVE verdict' = verdict
  BY <1>4 DEF ReceiveSign, handle_sign
<1>5. CASE UserApproves
  <2>1. \/ sign_transaction /\ approval_action = "sign_transaction"
        \/ reject_transaction
        \/ UNCHANGED signVars
    BY <1>5 DEF UserApproves, Call
  <2>2. CASE reject_transaction
    BY <1>1, <1>2, <2>2 DEF reject_transaction, NothingPending, Rejected, Judged
  <2> QED BY <1>1, <1>3, <1>5, <2>1, <2>2 DEF UserApproves, signVars
<1>6. CASE UserRejects
  <2>1. rejection_action # "sign_transaction"
    BY <1>6 DEF UserRejects, Pressed, AwaitsUser, ActionsMatchScreen
  <2>2. reject_transaction \/ UNCHANGED signVars
    BY <1>6, <2>1 DEF UserRejects, Call
  <2> QED BY <1>1, <1>2, <2>2
          DEF reject_transaction, NothingPending, Rejected, Judged, signVars
<1>7. ASSUME NEW cmd \in Commands,
             \/ ReceiveGetPublicKey(cmd) \/ ReceiveGetRemoteAccount(cmd)
             \/ ReceiveGetAppConfiguration(cmd) \/ ReceiveUnknownInstruction(cmd)
             \/ ReceiveWrongClass(cmd)
      PROVE  verdict' = verdict
  BY <1>7 DEF ReceiveGetPublicKey, ReceiveGetRemoteAccount, ReceiveWrongClass,
              ReceiveGetAppConfiguration, ReceiveUnknownInstruction, signVars
<1>8. CASE \/ Restart \/ ReceiveMalformed \/ ReceiveFails \/ UserBrowses
           \/ UserQuits \/ UNCHANGED vars
  BY <1>1, <1>8 DEF Restart, ReceiveMalformed, ReceiveFails, UserBrowses,
                    UserQuits, vars, signVars
<1> QED BY <1>1, <1>4, <1>5, <1>6, <1>7, <1>8 DEF Next, Receive, User

-----------------------------------------------------------------------------
(* The properties *)

LEMMA InitInv == Init => IInv
<1> SUFFICES ASSUME Init PROVE IInv
  OBVIOUS
<1>1. session = Cleared /\ received = 0 /\ verdict.upload = 0 /\ changedAt = 1
      /\ verdict.outcome = "none"
  BY DEF Init, SignInit, LinkInit
<1>2. UploadInv
  BY <1>1, ClearedInv DEF UploadInv, OpenUpload, Cleared
<1>3. ReviewInv /\ BufferContiguous
  BY <1>1, ClearedInv DEF ReviewInv, BufferContiguous
<1>4. ActionsMatchScreen
  BY DEF Init, ScreenInit, ScreenOf, ActionsMatchScreen
<1> QED BY <1>1, <1>2, <1>3, <1>4 DEF IInv, SignedWasReviewed, SignsReceivedBytes

LEMMA InvStep == TypeOK /\ IInv /\ [Next]_vars => IInv'
BY UploadStep, ReviewStep, BufferStep, CallbacksStep, VerdictStep DEF IInv

\* The invariant of the signing session is inductive, under any host and with
\* any faults.
THEOREM InductiveInvariant == Spec => []IInv
BY InitInv, InvStep, TypeCorrect, PTL DEF Spec

\* A transaction that parses is signed only after its own review.
THEOREM ReviewedBeforeSigned == Spec => []SignedWasReviewed
<1>1. IInv => SignedWasReviewed
  BY DEF IInv
<1> QED BY <1>1, InductiveInvariant, PTL

\* What is signed lies within the bytes received.
THEOREM SignsWhatWasReceived == Spec => []SignsReceivedBytes
<1>1. IInv => SignsReceivedBytes
  BY DEF IInv
<1> QED BY <1>1, InductiveInvariant, PTL

\* The buffer has neither gaps nor overlaps and stays within its size: the
\* 16-bit total of its check does not wrap.
THEOREM BufferIsContiguous == Spec => []BufferContiguous
<1>1. IInv => BufferContiguous
  BY DEF IInv
<1> QED BY <1>1, InductiveInvariant, PTL

\* An upload is judged at most once.
THEOREM JudgedOnce == Spec => []PendingNotJudged
<1>1. TypeOK /\ IInv => PendingNotJudged
  BY DEF IInv, UploadInv, OpenUpload, PendingNotJudged
<1> QED BY <1>1, InductiveInvariant, TypeCorrect, PTL

\* The bytes in the buffer were all received under one instruction.
THEOREM NoBytesAcrossInstructions == Spec => []UploadSinceChange
<1>1. TypeOK /\ IInv => UploadSinceChange
  <2> SUFFICES ASSUME TypeOK, IInv, NEW i \in DOMAIN session.rawTx
               PROVE  /\ session.rawTx[i].id >= session.upload
                      /\ session.upload >= changedAt
    BY DEF UploadSinceChange
  <2>1. session.upload \in Nat /\ received \in Nat
    BY DEF TypeOK, SignTypeOK, Session, LinkTypeOK
  <2>2. session.upload # 0
    BY DEF IInv, UploadInv, OpenUpload, Cleared
  <2> QED BY <2>1, <2>2 DEF IInv, UploadInv, OpenUpload
<1> QED BY <1>1, InductiveInvariant, TypeCorrect, PTL
=============================================================================
