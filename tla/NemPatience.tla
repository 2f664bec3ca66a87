----------------------------- MODULE NemPatience -----------------------------
(* What depends on the host's patience, for every value of the other
   constants: a host that sends nothing while a screen awaits the user. *)
EXTENDS NemSafety, NemRefinement

-----------------------------------------------------------------------------
(* What a step does to the screen *)

\* A SIGN command that puts up a review puts up that of the contents it leaves
\* in the buffer, and is not answered yet.
LEMMA SignPutsUpReview ==
    ASSUME NEW s \in Session, NEW cmd \in Commands, NEW asked \in Request,
           handle_sign(s, cmd, asked)
    PROVE  \/ UNCHANGED screenVars
           \/ /\ screen' = ScreenOf("review", {})
              /\ NoReply(asked)
              /\ Pending' => session'.result = Contents(session'.rawTx)
<1>1. PICK base \in Session, lc \in Byte :
        Base(s, base, asked) /\ Effect(base, cmd, lc, asked)
  BY SignCommandEffect
<1>2. CASE UploadCompleted(base, cmd, lc, asked)
  <2> DEFINE full == Complete(base, cmd, lc, asked)
             t    == Appended(base, cmd, lc, asked)
  <2>1. CASE ~Parses(Contents(full.rawTx), full.length)
    BY <1>2, <2>1 DEF UploadCompleted
  <2>2. CASE Parses(Contents(full.rawTx), full.length)
    <3>1. screen' = ScreenOf("review", {}) /\ NoReply(asked)
      BY <1>2, <2>2 DEF UploadCompleted, review_transaction
    <3>2. session'.rawTx = t.rawTx /\ session'.length = t.length
      BY <1>2, StoredFields
    <3>3. full.rawTx = t.rawTx /\ full.length = t.length
      <4>1. t \in Session
        BY AppendedType DEF Byte
      <4>2. full = [t EXCEPT !.signState = "PENDING_REVIEW",
                             !.rawTxLength = base.length + lc]
        BY DEF Complete
      <4> HIDE DEF t, full
      <4> QED BY <4>1, <4>2 DEF Session
    <3> HIDE DEF t, full
    <3>4. Reviewed(session)'
      BY <1>2, CompletedReview
    <3>5. Pending' => session'.result = Contents(session'.rawTx)
      BY <2>2, <3>2, <3>3, <3>4 DEF Reviewed, Pending
    <3> QED BY <3>1, <3>5
  <2> QED BY <2>1, <2>2
<1>3. CASE UNCHANGED screenVars
  BY <1>3
<1>4. CASE PacketStored(base, cmd, lc, asked)
  BY <1>4 DEF PacketStored
<1> QED BY <1>1, <1>2, <1>3, <1>4 DEF Effect

\* A patient host's command finds no screen that awaits the user.
LEMMA PatientCommand ==
    ASSUME Host # "any", HostMaySend
    PROVE  ~AwaitsUser
BY DEF HostMaySend

LEMMA BoundStep ==
    ASSUME Host # "any", TypeOK, ActionsMatchScreen, ScreenBound, [Next]_vars
    PROVE  ScreenBound'
<1>0. received \in Nat /\ session \in Session /\ screen \in Screens
  BY DEF TypeOK, LinkTypeOK, SignTypeOK, ScreenTypeOK
<1>1. CASE ~AwaitsUser'
  BY <1>1 DEF ScreenBound, ScreenOfLastCommand, ReviewOfPending, BufferOfScreen,
              AwaitsUser
<1>2. CASE UNCHANGED <<received, awaiting, screen, session, keyVars>>
  BY <1>2 DEF ScreenBound, ScreenOfLastCommand, ReviewOfPending, BufferOfScreen,
              AwaitsUser, Pending, keyVars
<1>3. ASSUME HostMaySend, UNCHANGED screenVars PROVE ScreenBound'
  BY <1>1, <1>3, PatientCommand DEF AwaitsUser, screenVars
<1>4. CASE display_done \/ display_idle_menu
  BY <1>1, <1>4 DEF display_done, display_idle_menu, ScreenOf, AwaitsUser
<1>5. ASSUME NEW cmd \in Commands, ReceiveSign(cmd) PROVE ScreenBound'
  <2> DEFINE s == SessionFor(INS_SIGN)
             asked == Asked(INS_SIGN)
  <2>1. handle_sign(s, cmd, asked) /\ HostMaySend /\ received' = received + 1
    BY <1>5 DEF ReceiveSign, Dispatch
  <2>2. asked \in Request
    BY <1>0, AskedType DEF INS_SIGN, Byte
  <2>3. s \in Session
    BY SessionForType DEF TypeOK
  <2>4. asked = [id |-> received', ins |-> INS_SIGN]
    BY <2>1 DEF Asked
  <2> HIDE DEF s, asked
  <2>5. CASE UNCHANGED screenVars
    BY <1>3, <2>1, <2>5
  <2>6. CASE /\ screen' = ScreenOf("review", {})
             /\ NoReply(asked)
             /\ Pending' => session'.result = Contents(session'.rawTx)
    <3>1. screen'.kind = "review" /\ screen'.shown = {}
      BY <2>6 DEF ScreenOf
    <3>2. awaiting' = [id |-> received', ins |-> INS_SIGN]
      BY <2>4, <2>6 DEF NoReply
    <3> QED BY <2>6, <3>1, <3>2
            DEF ScreenBound, ScreenOfLastCommand, ReviewOfPending,
                BufferOfScreen, InstructionOf
  <2> QED BY <2>1, <2>2, <2>3, <2>5, <2>6, SignPutsUpReview
<1>6. ASSUME NEW cmd \in Commands, ReceiveGetPublicKey(cmd) PROVE ScreenBound'
  <2> DEFINE asked == Asked(INS_GET_PUBLIC_KEY)
  <2>1. /\ handle_public_key(cmd, asked)
        /\ HostMaySend /\ received' = received + 1
    BY <1>6 DEF ReceiveGetPublicKey, Dispatch
  <2>2. CASE UNCHANGED screenVars
    BY <1>3, <2>1, <2>2
  <2>3. CASE PublicKeyDisplayed(cmd, asked)
    <3>1. screen' = ScreenOf("address", nem_key'.addr)
      BY <2>3 DEF PublicKeyDisplayed, display_address_confirmation_ui
    <3>2. screen'.kind = "address" /\ screen'.about = nem_key'.addr
      BY <3>1 DEF ScreenOf
    <3>3. nem_key' = [pub  |-> PublicKeyOf(cmd.path, cmd.net),
                      addr |-> {<<cmd.path, cmd.net>>}]
      BY <2>3 DEF PublicKeyDisplayed, get_public_key, AddressOf
    <3>4. \E account \in nem_key'.addr :
            nem_key'.pub = PublicKeyOf(account[1], account[2])
      BY <3>3
    <3>5. awaiting' = [id |-> received', ins |-> INS_GET_PUBLIC_KEY]
      BY <2>1, <2>3 DEF PublicKeyDisplayed, NoReply, Asked
    <3> QED BY <3>2, <3>4, <3>5
            DEF ScreenBound, ScreenOfLastCommand, ReviewOfPending,
                BufferOfScreen, InstructionOf
  <2> QED BY <2>1, <2>2, <2>3
          DEF handle_public_key, PublicKeyRefused, PublicKeyFailed, PublicKeySent
<1>7. ASSUME NEW cmd \in Commands, ReceiveGetRemoteAccount(cmd)
      PROVE  ScreenBound'
  <2> DEFINE asked == Asked(INS_GET_REMOTE_ACCOUNT)
  <2>1. /\ handle_remote_private_key(cmd, asked)
        /\ HostMaySend /\ received' = received + 1
    BY <1>7 DEF ReceiveGetRemoteAccount, Dispatch
  <2>2. CASE UNCHANGED screenVars
    BY <1>3, <2>1, <2>2
  <2>3. CASE RemoteDisplayed(cmd, asked)
    <3>1. screen' = ScreenOf("choice", {<<cmd.path, 0>>})
      BY <2>3 DEF RemoteDisplayed, display_remote_account_confirmation_ui
    <3>2. screen'.kind = "choice" /\ screen'.about = {<<cmd.path, 0>>}
      BY <3>1 DEF ScreenOf
    <3>3. nem_remote_private_key' = {cmd.path}
      BY <2>3 DEF RemoteDisplayed, get_harvesting_key
    <3>4. screen'.about = {<<p, 0>> : p \in nem_remote_private_key'}
      BY <3>2, <3>3
    <3>5. awaiting' = [id |-> received', ins |-> INS_GET_REMOTE_ACCOUNT]
      BY <2>1, <2>3 DEF RemoteDisplayed, NoReply, Asked
    <3> QED BY <3>2, <3>4, <3>5
            DEF ScreenBound, ScreenOfLastCommand, ReviewOfPending,
                BufferOfScreen, InstructionOf
  <2> QED BY <2>1, <2>2, <2>3
          DEF handle_remote_private_key, RemoteRefused, RemoteFailed, RemoteSent
<1>8. ASSUME \/ ReceiveMalformed
             \/ \E cmd \in Commands : \/ ReceiveWrongClass(cmd)
                                      \/ ReceiveGetAppConfiguration(cmd)
                                      \/ ReceiveUnknownInstruction(cmd)
      PROVE  ScreenBound'
  BY <1>3, <1>8 DEF ReceiveMalformed, ReceiveWrongClass,
                    ReceiveGetAppConfiguration, ReceiveUnknownInstruction,
                    Dispatch
<1>9. CASE UserApproves \/ UserRejects
  <2>1. received' = received
    BY <1>9 DEF UserApproves, UserRejects, Pressed
  <2>2. \/ (sign_transaction \/ reject_transaction) /\ UNCHANGED keyVars
        \/ /\ on_address_confirmed \/ on_privatekey_confirmed \/ on_key_rejected
           /\ UNCHANGED signVars
    BY <1>9 DEF UserApproves, UserRejects, Call
  <2>3. CASE SignFailed /\ UNCHANGED keyVars
    <3>1. /\ UNCHANGED <<received, awaiting, screen>>
          /\ session' = Cleared
      BY <2>1, <2>3 DEF SignFailed, screenVars
    <3>2. ~Pending'
      BY <3>1 DEF Pending, Cleared
    <3> QED BY <2>3, <3>1, <3>2
            DEF ScreenBound, ScreenOfLastCommand, ReviewOfPending,
                BufferOfScreen, AwaitsUser, keyVars
  <2>4. ASSUME (sign_transaction \/ reject_transaction) /\ ~SignFailed
        PROVE  display_done \/ display_idle_menu
    BY <2>4 DEF sign_transaction, reject_transaction, NothingPending, Signed,
                Rejected
  <2>5. ASSUME \/ on_address_confirmed \/ on_privatekey_confirmed
               \/ on_key_rejected
        PROVE  \/ display_done
               \/ UNCHANGED <<awaiting, screenVars, keyVars>>
    BY <2>5 DEF on_address_confirmed, on_privatekey_confirmed, on_key_rejected,
                Reply
  <2> QED BY <1>2, <1>4, <2>1, <2>2, <2>3, <2>4, <2>5 DEF screenVars, signVars
<1>10. CASE UserBrowses
  <2>1. UNCHANGED <<received, awaiting, session, keyVars>>
    BY <1>10 DEF UserBrowses, linkVars, signVars
  <2>2. CASE TurnPage
    <3>1. screen' = [screen EXCEPT !.shown = @ \cup {session.result}]
      BY <2>2 DEF TurnPage
    <3>2. /\ screen'.kind = screen.kind /\ screen'.about = screen.about
          /\ screen'.shown = screen.shown \cup {session.result}
      BY <1>0, <3>1 DEF Screens
    <3> QED BY <2>1, <3>2
            DEF ScreenBound, ScreenOfLastCommand, ReviewOfPending,
                BufferOfScreen, AwaitsUser, Pending, keyVars
  <2> QED BY <1>4, <1>10, <2>2 DEF UserBrowses, DismissStatus
<1>11. CASE ReceiveFails \/ UserQuits \/ UNCHANGED vars
  BY <1>2, <1>11 DEF ReceiveFails, UserQuits, vars, linkVars, screenVars, signVars
<1>12. CASE Restart
  BY <1>1, <1>12 DEF Restart, ScreenOf, AwaitsUser
<1> QED BY <1>5, <1>6, <1>7, <1>8, <1>9, <1>10, <1>11, <1>12
        DEF Next, Receive, User

\* Under a patient host the globals that a callback reads are those of the
\* screen that is up.
THEOREM ScreenStaysBound == ASSUME Host # "any" PROVE Spec => []ScreenBound
<1>1. Init => ScreenBound
  BY DEF Init, ScreenInit, ScreenOf, ScreenBound, ScreenOfLastCommand,
         ReviewOfPending, BufferOfScreen, AwaitsUser
<1>2. TypeOK /\ ActionsMatchScreen /\ ScreenBound /\ [Next]_vars => ScreenBound'
  BY BoundStep
<1> QED BY <1>1, <1>2, TypeCorrect, CallbacksMatch, PTL DEF Spec

-----------------------------------------------------------------------------
(* What a step can send *)

\* A callback answers the command that its screen was put up for.
LEMMA CallbackSends ==
    ASSUME Host # "any", TypeOK, IInv, ScreenBound, Pressed,
           \/ UserApproves \/ UserRejects, response' # response
    PROVE  /\ response'.to = [id |-> received, ins |-> InstructionOf(screen.kind)]
           /\ \/ response'.msg = Status("CONDITIONS_NOT_SATISFIED")
              \/ /\ UserApproves /\ screen.kind = "address"
                 /\ response'.msg = KeyMessage
              \/ /\ UserApproves /\ screen.kind = "choice"
                 /\ response'.msg = SecretMessage
              \/ /\ UserApproves /\ screen.kind = "review" /\ Signed
                 /\ response'.msg = Signature
<1>1. awaiting = [id |-> received, ins |-> InstructionOf(screen.kind)]
  BY DEF Pressed, ScreenBound, ScreenOfLastCommand
<1>2. AwaitsUser /\ ActionsMatchScreen
  BY DEF Pressed, IInv
<1>3. CASE UserApproves
  <2>1. CASE screen.kind = "address"
    <3>1. on_address_confirmed
      BY <1>2, <1>3, <2>1 DEF UserApproves, Call, ActionsMatchScreen
    <3>2. response' = [to |-> awaiting, msg |-> KeyMessage]
      BY <3>1 DEF on_address_confirmed, Reply
    <3> QED BY <1>1, <1>3, <2>1, <3>2
  <2>2. CASE screen.kind = "choice"
    <3>1. on_privatekey_confirmed
      BY <1>2, <1>3, <2>2 DEF UserApproves, Call, ActionsMatchScreen
    <3>2. response' = [to |-> awaiting, msg |-> SecretMessage]
      BY <3>1 DEF on_privatekey_confirmed, Reply
    <3> QED BY <1>1, <1>3, <2>2, <3>2
  <2>3. CASE screen.kind = "review"
    <3>1. sign_transaction
      BY <1>2, <1>3, <2>3 DEF UserApproves, Call, ActionsMatchScreen
    <3>2. Signed
      BY <3>1 DEF sign_transaction, NothingPending, SignFailed
    <3>3. response' = [to |-> awaiting, msg |-> Signature]
      BY <3>2 DEF Signed, Reply
    <3> QED BY <1>1, <1>3, <2>3, <3>2, <3>3
  <2> QED BY <1>2, <2>1, <2>2, <2>3 DEF AwaitsUser
<1>4. CASE UserRejects
  <2>1. reject_transaction \/ on_key_rejected
    BY <1>2, <1>4 DEF UserRejects, Call, AwaitsUser, ActionsMatchScreen
  <2>2. response' = [to |-> awaiting, msg |-> Status("CONDITIONS_NOT_SATISFIED")]
    BY <2>1 DEF reject_transaction, NothingPending, Rejected, on_key_rejected,
                Reply
  <2> QED BY <1>1, <2>2
<1> QED BY <1>3, <1>4

\* Whatever a step sends carries what its command asks for, and a public key
\* with its own address.
LEMMA SendsWhatIsAsked ==
    ASSUME Host # "any", TypeOK, IInv, ScreenBound, [Next]_vars,
           response' # response
    PROVE  KeyReplyConsistent' /\ AnswerFitsCommand'
<1>1. ASSUME response'.msg.kind \in {"status", "version"}
      PROVE  KeyReplyConsistent' /\ AnswerFitsCommand'
  BY <1>1 DEF KeyReplyConsistent, AnswerFitsCommand
<1>2. ASSUME NEW sw, response'.msg = Status(sw)
      PROVE  KeyReplyConsistent' /\ AnswerFitsCommand'
  BY <1>1, <1>2 DEF Status
<1>3. ASSUME NEW asked, NEW sent, NEW msg, Reply(asked, sent, msg)
      PROVE  response' = [to |-> asked, msg |-> msg]
  BY <1>3 DEF Reply
<1>4. ASSUME NEW cmd \in Commands, ReceiveSign(cmd)
      PROVE  KeyReplyConsistent' /\ AnswerFitsCommand'
  <2>1. response'.msg = Status("SUCCESS")
    BY <1>3, <1>4
    DEF ReceiveSign, handle_sign, PacketRefused, handle_first_packet,
        FirstPacketMalformed, FirstPacketUnknownNetwork, FirstPacketAccepted,
        handle_subsequent_packet, handle_packet_content, PacketTooLong,
        PacketStored, UploadCompleted, NoReply
  <2> QED BY <1>2, <2>1
<1>5. ASSUME NEW cmd \in Commands, ReceiveGetPublicKey(cmd)
      PROVE  KeyReplyConsistent' /\ AnswerFitsCommand'
  <2> DEFINE asked == Asked(INS_GET_PUBLIC_KEY)
  <2>1. PublicKeySent(cmd, asked)
    BY <1>5 DEF ReceiveGetPublicKey, handle_public_key, PublicKeyRefused,
                PublicKeyFailed, PublicKeyDisplayed, NoReply
  <2>2. response' = [to |-> asked, msg |-> KeyMessage']
    BY <1>3, <2>1 DEF PublicKeySent
  <2>3. nem_key' = [pub  |-> PublicKeyOf(cmd.path, cmd.net),
                    addr |-> {<<cmd.path, cmd.net>>}]
    BY <2>1 DEF PublicKeySent, get_public_key, AddressOf
  <2>4. response'.to.ins = INS_GET_PUBLIC_KEY /\ response'.msg.kind = "key"
    BY <2>2 DEF Asked, KeyMessage
  <2>5. \E account \in response'.msg.addr :
           response'.msg.pub = PublicKeyOf(account[1], account[2])
    BY <2>2, <2>3 DEF KeyMessage
  <2> QED BY <2>4, <2>5 DEF KeyReplyConsistent, AnswerFitsCommand
<1>6. ASSUME NEW cmd \in Commands, ReceiveGetRemoteAccount(cmd)
      PROVE  KeyReplyConsistent' /\ AnswerFitsCommand'
  <2> DEFINE asked == Asked(INS_GET_REMOTE_ACCOUNT)
  <2>1. RemoteSent(cmd, asked)
    BY <1>6 DEF ReceiveGetRemoteAccount, handle_remote_private_key,
                RemoteRefused, RemoteFailed, RemoteDisplayed, NoReply
  <2>2. response' = [to |-> asked, msg |-> SecretMessage']
    BY <1>3, <2>1 DEF RemoteSent
  <2>3. response'.to.ins = INS_GET_REMOTE_ACCOUNT /\ response'.msg.kind = "secret"
    BY <2>2 DEF Asked, SecretMessage
  <2> QED BY <2>3 DEF KeyReplyConsistent, AnswerFitsCommand
<1>7. ASSUME NEW cmd \in Commands,
             ReceiveGetAppConfiguration(cmd) \/ ReceiveUnknownInstruction(cmd)
      PROVE  KeyReplyConsistent' /\ AnswerFitsCommand'
  <2>1. \/ response'.msg = [kind |-> "version"]
        \/ response'.msg = Status("INVALID_INS")
    BY <1>3, <1>7 DEF ReceiveGetAppConfiguration, ReceiveUnknownInstruction,
                      ReplyOrExit
  <2> QED BY <1>1, <1>2, <2>1
<1>8. ASSUME ReceiveMalformed \/ \E cmd \in Commands : ReceiveWrongClass(cmd)
      PROVE  KeyReplyConsistent' /\ AnswerFitsCommand'
  <2>1. \/ response'.msg = Status("WRONG_DATA_LENGTH")
        \/ response'.msg = Status("INVALID_CLA")
    BY <1>3, <1>8 DEF ReceiveMalformed, ReceiveWrongClass, ReplyOrExit
  <2> QED BY <1>2, <2>1
<1>9. CASE UserApproves \/ UserRejects
  <2>1. Pressed
    BY <1>9 DEF UserApproves, UserRejects
  <2>2. response'.to = [id |-> received, ins |-> InstructionOf(screen.kind)]
    BY <1>9, <2>1, CallbackSends
  <2>3. CASE screen.kind = "address" /\ response'.msg = KeyMessage
    <3>1. response'.msg.kind = "key" /\ response'.to.ins = INS_GET_PUBLIC_KEY
      BY <2>2, <2>3 DEF KeyMessage, InstructionOf
    <3>2. \E account \in response'.msg.addr :
             response'.msg.pub = PublicKeyOf(account[1], account[2])
      BY <2>3 DEF KeyMessage, ScreenBound, BufferOfScreen
    <3> QED BY <3>1, <3>2 DEF KeyReplyConsistent, AnswerFitsCommand
  <2>4. CASE screen.kind = "choice" /\ response'.msg = SecretMessage
    <3>1. /\ response'.msg.kind = "secret"
          /\ response'.to.ins = INS_GET_REMOTE_ACCOUNT
      BY <2>2, <2>4 DEF SecretMessage, InstructionOf
    <3> QED BY <3>1 DEF KeyReplyConsistent, AnswerFitsCommand
  <2>5. CASE screen.kind = "review" /\ response'.msg = Signature
    <3>1. /\ response'.msg.kind = "signature" /\ response'.to.ins = INS_SIGN
          /\ response'.to.id = received /\ response'.msg.upload = session.upload
      BY <2>2, <2>5 DEF Signature, InstructionOf
    <3>2. received >= session.upload
      BY DEF TypeOK, LinkTypeOK, SignTypeOK, Session, IInv, UploadInv, OpenUpload
    <3> QED BY <3>1, <3>2 DEF KeyReplyConsistent, AnswerFitsCommand
  <2> QED BY <1>2, <1>9, <2>1, <2>3, <2>4, <2>5, CallbackSends
<1>10. CASE \/ ReceiveFails \/ UserBrowses \/ UserQuits \/ Restart
            \/ UNCHANGED vars
  BY <1>10 DEF ReceiveFails, UserBrowses, UserQuits, Restart, vars, linkVars
<1> QED BY <1>4, <1>5, <1>6, <1>7, <1>8, <1>9, <1>10 DEF Next, Receive, User

-----------------------------------------------------------------------------
(* The properties *)

\* The public key and the address of a response belong to one account, and a
\* response carries what its command asks for.
LEMMA RepliesFit ==
    ASSUME Host # "any"
    PROVE  Spec => [](KeyReplyConsistent /\ AnswerFitsCommand)
<1>1. Init => KeyReplyConsistent /\ AnswerFitsCommand
  BY DEF Init, LinkInit, Status, KeyReplyConsistent, AnswerFitsCommand
<1>2. TypeOK /\ IInv /\ ScreenBound /\ KeyReplyConsistent /\ AnswerFitsCommand
        /\ [Next]_vars => KeyReplyConsistent' /\ AnswerFitsCommand'
  <2>1. ASSUME KeyReplyConsistent, AnswerFitsCommand, response' = response
        PROVE  KeyReplyConsistent' /\ AnswerFitsCommand'
    BY <2>1 DEF KeyReplyConsistent, AnswerFitsCommand
  <2> QED BY <2>1, SendsWhatIsAsked
<1> QED BY <1>1, <1>2, TypeCorrect, InductiveInvariant, ScreenStaysBound, PTL
        DEF Spec

\* Under a patient host, the public key and the address of a response belong
\* to one account, though the buffers are written in two steps of which the
\* second can fail.
THEOREM KeyRepliesConsistent ==
    ASSUME Host # "any" PROVE Spec => []KeyReplyConsistent
BY RepliesFit, PTL

\* Under a patient host, a response carries what its command asks for, also
\* when an earlier command was never answered.
THEOREM AnswersFitCommands ==
    ASSUME Host # "any" PROVE Spec => []AnswerFitsCommand
BY RepliesFit, PTL

\* What a step signs, its review has shown, and nothing else.
LEMMA SignedStep ==
    ASSUME Host # "any", TypeOK, IInv, ScreenBound, [Next]_vars,
           verdict' # verdict
    PROVE  \/ UserApproves /\ Signed /\ screen.kind = "review"
              /\ screen.shown = {Contents(session.rawTx)}
           \/ Rejected /\ screen.kind = "review"
<1>1. UserApproves \/ UserRejects
  BY DEF Next, Receive, User, ReceiveMalformed, ReceiveFails, ReceiveWrongClass,
         ReceiveSign, handle_sign, ReceiveGetPublicKey, ReceiveGetRemoteAccount,
         ReceiveGetAppConfiguration, ReceiveUnknownInstruction, UserBrowses,
         UserQuits, Restart, vars, signVars
<1>2. AwaitsUser /\ ActionsMatchScreen
  BY <1>1 DEF UserApproves, UserRejects, Pressed, IInv
<1>3. screen.kind = "review"
  BY <1>1, <1>2 DEF UserApproves, UserRejects, Call, AwaitsUser,
                    ActionsMatchScreen, signVars
<1>4. CASE UserApproves
  <2>1. sign_transaction
    BY <1>2, <1>3, <1>4 DEF UserApproves, Call, ActionsMatchScreen
  <2>2. Signed
    BY <2>1 DEF sign_transaction, NothingPending, SignFailed
  <2>3. screen.shown \subseteq {Contents(session.rawTx)} /\ screen.shown # {}
    BY <1>3, <1>4, <2>2 DEF Signed, UserApproves, ScreenBound, ReviewOfPending
  <2> QED BY <1>3, <1>4, <2>2, <2>3
<1>5. CASE UserRejects
  BY <1>2, <1>3, <1>5 DEF UserRejects, Call, ActionsMatchScreen,
                          reject_transaction, NothingPending
<1> QED BY <1>1, <1>4, <1>5

\* Under a patient host, whatever is signed, well-formed or not, is what the
\* pages of the review showed.
THEOREM SignsWhatWasShown == ASSUME Host # "any" PROVE Spec => []SignedIsShown
<1>1. Init => SignedIsShown
  BY DEF Init, SignInit, SignedIsShown
<1>2. TypeOK /\ IInv /\ ScreenBound /\ SignedIsShown /\ [Next]_vars
        => SignedIsShown'
  <2> SUFFICES ASSUME TypeOK, IInv, ScreenBound, SignedIsShown, [Next]_vars
               PROVE  SignedIsShown'
    OBVIOUS
  <2>1. CASE verdict' = verdict
    BY <2>1 DEF SignedIsShown
  <2>2. CASE Signed /\ screen.shown = {Contents(session.rawTx)}
    BY <2>2 DEF Signed, Judged, SignedIsShown
  <2>3. CASE Rejected
    BY <2>3 DEF Rejected, Judged, SignedIsShown
  <2> QED BY <2>1, <2>2, <2>3, SignedStep
<1> QED BY <1>1, <1>2, TypeCorrect, InductiveInvariant, ScreenStaysBound, PTL
        DEF Spec

\* Under a patient host, an approval sends what its screen was opened for: the
\* displayed address, the key whose export was asked, the signature of the
\* transaction whose pages were read.
THEOREM ApprovalsReleaseAsked ==
    ASSUME Host # "any" PROVE Spec => ApprovalReleasesAsked
<1> DEFINE Asks ==
      \/ /\ screen.kind = "address"
         /\ response'.msg.kind = "key"
         /\ response'.msg.addr = screen.about
      \/ /\ screen.kind = "choice"
         /\ response'.msg.kind = "secret"
         /\ screen.about = {<<p, 0>> : p \in response'.msg.path}
      \/ /\ screen.kind = "review"
         /\ response'.msg.kind = "signature"
         /\ screen.shown = {response'.msg.tx}
<1>1. TypeOK /\ IInv /\ ScreenBound /\ [Next]_vars
        => [UserApproves /\ response' # response => Asks]_vars
  <2> SUFFICES ASSUME TypeOK, IInv, ScreenBound, UserApproves,
                      response' # response
               PROVE  Asks
    OBVIOUS
  <2>1. Pressed
    BY DEF UserApproves
  <2>2. CASE screen.kind = "address" /\ response'.msg = KeyMessage
    BY <2>2 DEF KeyMessage, ScreenBound, BufferOfScreen
  <2>3. CASE screen.kind = "choice" /\ response'.msg = SecretMessage
    BY <2>3 DEF SecretMessage, ScreenBound, BufferOfScreen
  <2>4. CASE screen.kind = "review" /\ Signed /\ response'.msg = Signature
    <3>1. screen.shown \subseteq {Contents(session.rawTx)} /\ screen.shown # {}
      BY <2>4 DEF Signed, UserApproves, ScreenBound, ReviewOfPending
    <3> QED BY <2>4, <3>1 DEF Signature
  <2>5. response'.msg # Status("CONDITIONS_NOT_SATISFIED")
    <3>1. AwaitsUser /\ ActionsMatchScreen
      BY <2>1 DEF Pressed, IInv
    <3>2. \/ on_address_confirmed \/ on_privatekey_confirmed
          \/ sign_transaction
      BY <3>1 DEF UserApproves, Call, AwaitsUser, ActionsMatchScreen
    <3> QED BY <3>2 DEF on_address_confirmed, on_privatekey_confirmed,
                        sign_transaction, NothingPending, Signed, SignFailed,
                        Reply, KeyMessage, SecretMessage, Signature, Status
  <2> QED BY <2>1, <2>2, <2>3, <2>4, <2>5, CallbackSends
<1> QED BY <1>1, TypeCorrect, InductiveInvariant, ScreenStaysBound, PTL
        DEF Spec, ApprovalReleasesAsked

-----------------------------------------------------------------------------
(* The refinement: every step of NemApp is one of SignPromise, or stutters *)

\* There is an offer exactly while a review is up over a pending transaction.
LEMMA OfferMade ==
    /\ screen.kind = "review" /\ Pending
         => Offered = OfferOf(session.upload, Contents(session.rawTx))
    /\ ~(screen.kind = "review" /\ Pending) => Offered = NoOffer
    /\ Offered # NoOffer <=> screen.kind = "review" /\ Pending
BY DEF Offered, OfferOf, NoOffer, Pending

\* A pending transaction came in an upload that was not decided on.
LEMMA PendingUpload ==
    ASSUME TypeOK, IInv, Pending
    PROVE  session.upload \in Nat \ {0} /\ session.upload > verdict.upload
BY DEF TypeOK, SignTypeOK, Session, IInv, UploadInv, OpenUpload, Pending, Cleared

\* No command is answered by a signature.
LEMMA CommandsSendNoSignature ==
    ASSUME Receive
    PROVE  response' = response \/ response'.msg.kind # "signature"
<1>1. ASSUME NEW asked, NEW sent, NEW msg, Reply(asked, sent, msg),
             msg.kind # "signature"
      PROVE  response' = response \/ response'.msg.kind # "signature"
  BY <1>1 DEF Reply
<1>2. ASSUME NEW asked, NEW msg, msg.kind # "signature",
             \E sent \in SendResults(asked) : Reply(asked, sent, msg)
      PROVE  response' = response \/ response'.msg.kind # "signature"
  BY <1>1, <1>2
<1>3. \A sw : Status(sw).kind # "signature"
  BY DEF Status
<1>4. KeyMessage'.kind # "signature" /\ SecretMessage'.kind # "signature"
  BY DEF KeyMessage, SecretMessage
<1>5. ASSUME NEW asked, NoReply(asked) PROVE response' = response
  BY <1>5 DEF NoReply
<1>6. ASSUME NEW cmd \in Commands, ReceiveSign(cmd)
      PROVE  response' = response \/ response'.msg.kind # "signature"
  BY <1>2, <1>3, <1>5, <1>6
  DEF ReceiveSign, handle_sign, PacketRefused, handle_first_packet,
      FirstPacketMalformed, FirstPacketUnknownNetwork, FirstPacketAccepted,
      handle_subsequent_packet, handle_packet_content, PacketTooLong,
      PacketStored, UploadCompleted
<1>7. ASSUME NEW cmd \in Commands, ReceiveGetPublicKey(cmd)
      PROVE  response' = response \/ response'.msg.kind # "signature"
  BY <1>2, <1>4, <1>5, <1>7
  DEF ReceiveGetPublicKey, handle_public_key, PublicKeyRefused, PublicKeyFailed,
      PublicKeySent, PublicKeyDisplayed
<1>8. ASSUME NEW cmd \in Commands, ReceiveGetRemoteAccount(cmd)
      PROVE  response' = response \/ response'.msg.kind # "signature"
  BY <1>2, <1>4, <1>5, <1>8
  DEF ReceiveGetRemoteAccount, handle_remote_private_key, RemoteRefused,
      RemoteFailed, RemoteSent, RemoteDisplayed
<1>9. ASSUME NEW cmd \in Commands,
             \/ ReceiveGetAppConfiguration(cmd) \/ ReceiveUnknownInstruction(cmd)
             \/ ReceiveWrongClass(cmd)
      PROVE  response' = response \/ response'.msg.kind # "signature"
  BY <1>1, <1>3, <1>9
  DEF ReceiveGetAppConfiguration, ReceiveUnknownInstruction, ReceiveWrongClass,
      ReplyOrExit
<1>10. CASE ReceiveMalformed \/ ReceiveFails
  BY <1>2, <1>3, <1>10 DEF ReceiveMalformed, ReceiveFails
<1> QED BY <1>6, <1>7, <1>8, <1>9, <1>10 DEF Receive

\* A command that changes the screen to a review has put up its title page.
LEMMA CommandPutsUpReview ==
    ASSUME TypeOK, Receive, screen.kind # "review", screen'.kind = "review"
    PROVE  screen'.shown = {}
<1>1. ASSUME NEW cmd \in Commands, ReceiveSign(cmd) PROVE screen'.shown = {}
  <2>1. handle_sign(SessionFor(INS_SIGN), cmd, Asked(INS_SIGN))
    BY <1>1 DEF ReceiveSign
  <2>2. SessionFor(INS_SIGN) \in Session /\ Asked(INS_SIGN) \in Request
    BY SessionForType, AskedType DEF TypeOK, LinkTypeOK, INS_SIGN, Byte
  <2>3. \/ UNCHANGED screenVars
        \/ screen' = ScreenOf("review", {})
    BY <2>1, <2>2, SignPutsUpReview
  <2> QED BY <2>3 DEF screenVars, ScreenOf
<1>2. ASSUME NEW cmd \in Commands,
             ReceiveGetPublicKey(cmd) \/ ReceiveGetRemoteAccount(cmd)
      PROVE  FALSE
  <2>1. \/ UNCHANGED screenVars
        \/ screen' = ScreenOf("address", nem_key'.addr)
        \/ screen' = ScreenOf("choice", {<<cmd.path, 0>>})
    BY <1>2 DEF ReceiveGetPublicKey, ReceiveGetRemoteAccount, handle_public_key,
                handle_remote_private_key, PublicKeyRefused, PublicKeyFailed,
                PublicKeySent, PublicKeyDisplayed, RemoteRefused, RemoteFailed,
                RemoteSent, RemoteDisplayed, display_address_confirmation_ui,
                display_remote_account_confirmation_ui
  <2> QED BY <2>1 DEF ScreenOf, screenVars
<1>3. ASSUME NEW cmd \in Commands,
             \/ ReceiveGetAppConfiguration(cmd) \/ ReceiveUnknownInstruction(cmd)
             \/ ReceiveWrongClass(cmd)
      PROVE  FALSE
  BY <1>3 DEF ReceiveGetAppConfiguration, ReceiveUnknownInstruction,
              ReceiveWrongClass, screenVars
<1>4. CASE ReceiveMalformed \/ ReceiveFails
  BY <1>4 DEF ReceiveMalformed, ReceiveFails, screenVars
<1> QED BY <1>1, <1>2, <1>3, <1>4 DEF Receive

LEMMA PromiseInit == Init => Promise!Init
<1> SUFFICES ASSUME Init PROVE Promise!Init
  OBVIOUS
<1>1. Offered = NoOffer
  BY DEF Init, ScreenInit, ScreenOf, Offered
<1>2. response.msg.kind # "signature" /\ verdict.outcome = "none"
  BY DEF Init, LinkInit, SignInit, Status
<1> QED BY <1>1, <1>2 DEF Promise!Init, Promise!Nothing, NoOffer

LEMMA PromiseStep ==
    ASSUME Host # "any", TypeOK, TypeOK', IInv, IInv', ScreenBound, [Next]_vars
    PROVE  [Promise!Next]_(Promise!vars)
<1> DEFINE Silent == response' = response \/ response'.msg.kind # "signature"
<1>1. ASSUME Offered' = NoOffer, verdict' = verdict, Silent
      PROVE  Promise!Withdraw
  BY <1>1 DEF Promise!Withdraw, Promise!Supersede, Promise!Nothing, NoOffer
<1>2. CASE Receive /\ ~ReceiveFails
  <2>1. Silent
    BY <1>2, CommandsSendNoSignature
  <2>2. verdict' = verdict /\ screen.kind # "review"
    BY <1>2, PatientCommand
    DEF Receive, ReceiveMalformed, ReceiveWrongClass, ReceiveSign, handle_sign,
        ReceiveGetPublicKey, ReceiveGetRemoteAccount, ReceiveGetAppConfiguration,
        ReceiveUnknownInstruction, Dispatch, signVars, AwaitsUser
  <2>3. CASE Offered' = NoOffer
    BY <1>1, <2>1, <2>2, <2>3 DEF Promise!Next
  <2>4. CASE Offered' # NoOffer
    <3>1. /\ screen'.kind = "review" /\ Pending'
          /\ Offered' = OfferOf(session'.upload, Contents(session'.rawTx))
      BY <2>4 DEF Offered, OfferOf, NoOffer, Pending
    <3>2. screen'.shown = {}
      BY <1>2, <2>2, <3>1, CommandPutsUpReview
    <3>3. /\ session'.upload \in Nat \ {0}
          /\ session'.upload > verdict.upload
      BY <2>2, <3>1 DEF TypeOK, SignTypeOK, Session, IInv, UploadInv, OpenUpload,
                        Pending, Cleared
    <3>4. Contents(session'.rawTx) \in Seq(Payload)
      BY ContentsType DEF TypeOK, SignTypeOK, Session
    <3>5. Offered' \in [upload: Nat \ {0},
                        tx: {T \in SUBSET Seq(Payload) :
                               \E tx \in T : T = {tx}}]
      BY <3>1, <3>3, <3>4 DEF OfferOf
    <3>6. Offered = NoOffer
      BY <2>2, OfferMade
    <3>7. ~(Offered' # NoOffer /\ screen'.shown = Offered'.tx)
      BY <3>1, <3>2 DEF OfferOf
    <3>8. Offered'.upload > verdict.upload /\ Offered'.upload > 0
      BY <3>1, <3>3 DEF OfferOf
    <3>9. Promise!Present
      BY <2>1, <2>2, <3>5, <3>6, <3>7, <3>8
      DEF Promise!Present, Promise!Supersede, Promise!Nothing, Promise!Offer,
          NoOffer, OfferOf
    <3> QED BY <3>9 DEF Promise!Next
  <2> QED BY <2>3, <2>4
<1>3. ASSUME UserApproves \/ UserRejects, verdict' # verdict
      PROVE  Promise!Next
  <2>1. screen.kind = "review" /\ (Signed \/ Rejected)
    BY <1>3, SignedStep
  <2>2. Pending /\ session' = Cleared
    BY <2>1 DEF Signed, Rejected
  <2>3. Offered = OfferOf(session.upload, Contents(session.rawTx))
    BY <2>1, <2>2, OfferMade
  <2>4. Offered # NoOffer /\ Offered' = NoOffer
    BY <2>2, <2>3 DEF Offered, Cleared, OfferOf, NoOffer
  <2>5. CASE Signed /\ screen.shown = {Contents(session.rawTx)}
    <3>1. /\ verdict'.outcome = "signed" /\ verdict'.upload = session.upload
          /\ verdict'.tx = Contents(session.rawTx)
      BY <2>5 DEF Signed, Judged
    <3>2. \/ response' = response
          \/ /\ response'.msg.kind = "signature"
             /\ response'.msg.upload = session.upload
             /\ response'.msg.tx = Contents(session.rawTx)
      BY <2>5 DEF Signed, Reply, Signature
    <3>3. screen.shown = Offered.tx
      BY <2>3, <2>5 DEF OfferOf
    <3>4. Promise!Sign
      BY <2>3, <2>4, <3>1, <3>2, <3>3
      DEF Promise!Sign, Promise!Decide, Promise!Nothing, NoOffer
    <3> QED BY <3>4 DEF Promise!Next
  <2>6. CASE Rejected
    <3>1. /\ verdict'.outcome = "rejected" /\ verdict'.upload = session.upload
          /\ verdict'.tx = Contents(session.rawTx)
      BY <2>6 DEF Rejected, Judged
    <3>2. Silent
      BY <2>6 DEF Rejected, Reply, Status
    <3>3. Promise!Reject
      BY <2>3, <2>4, <3>1, <3>2
      DEF Promise!Reject, Promise!Decide, Promise!Supersede, Promise!Nothing,
          NoOffer
    <3> QED BY <3>3 DEF Promise!Next
  <2> QED BY <1>3, <2>5, <2>6, SignedStep
<1>4. ASSUME UserApproves \/ UserRejects, verdict' = verdict
      PROVE  Promise!Next
  <2>1. ~Signed /\ ~Rejected
    <3>1. ASSUME Signed \/ Rejected PROVE FALSE
      <4>1. Pending /\ verdict'.upload = session.upload
        BY <3>1 DEF Signed, Rejected, Judged
      <4> QED BY <1>4, <4>1, PendingUpload
    <3> QED BY <3>1
  <2>2. /\ Pressed
        /\ \/ sign_transaction \/ reject_transaction
           \/ on_address_confirmed \/ on_privatekey_confirmed \/ on_key_rejected
    BY <1>4 DEF UserApproves, UserRejects, Call
  <2>3. Silent
    BY <2>1, <2>2 DEF sign_transaction, reject_transaction, NothingPending,
                      SignFailed, on_address_confirmed, on_privatekey_confirmed,
                      on_key_rejected, Reply, KeyMessage, SecretMessage, Status
  <2>4. Offered' = NoOffer
    <3>1. CASE screen.kind = "review"
      <4>1. sign_transaction \/ reject_transaction
        BY <1>4, <3>1 DEF UserApproves, UserRejects, Call, IInv,
                          ActionsMatchScreen
      <4>2. session' = Cleared
        BY <2>1, <4>1 DEF sign_transaction, reject_transaction, NothingPending,
                          SignFailed
      <4> QED BY <4>2 DEF Offered, Cleared
    <3>2. CASE screen.kind # "review"
      <4>1. screen' = screen \/ display_done \/ display_idle_menu
        BY <2>2 DEF sign_transaction, reject_transaction, NothingPending, Signed,
                    SignFailed, Rejected, on_address_confirmed,
                    on_privatekey_confirmed, on_key_rejected, screenVars
      <4>2. screen'.kind # "review"
        BY <3>2, <4>1 DEF display_done, display_idle_menu, ScreenOf
      <4> QED BY <4>2 DEF Offered
    <3> QED BY <3>1, <3>2
  <2> QED BY <1>1, <1>4, <2>3, <2>4 DEF Promise!Next
<1>5. CASE UserBrowses
  <2>1. /\ session' = session /\ verdict' = verdict /\ response' = response
    BY <1>5 DEF UserBrowses, linkVars, signVars
  <2>2. CASE TurnPage /\ Pending
    <3>1. screen.kind = "review" /\ screen \in Screens
      BY <2>2 DEF TurnPage, TypeOK, ScreenTypeOK
    <3>2. screen' = [screen EXCEPT !.shown = @ \cup {session.result}]
      BY <2>2 DEF TurnPage
    <3>3. /\ screen'.kind = "review"
          /\ screen'.shown = screen.shown \cup {session.result}
      BY <3>1, <3>2 DEF Screens
    <3>4. screen'.shown = {Contents(session.rawTx)}
      BY <2>2, <3>1, <3>3 DEF ScreenBound, ReviewOfPending
    <3>5. Offered = OfferOf(session.upload, Contents(session.rawTx))
      BY <2>2, <3>1, OfferMade
    <3>6. Offered' = Offered
      BY <2>1, <3>1, <3>3 DEF Offered
    <3>7. Offered # NoOffer
      BY <2>2, <3>1, OfferMade
    <3>8. screen'.shown = Offered'.tx
      BY <3>4, <3>5, <3>6 DEF OfferOf
    <3>9. Promise!ReadIt
      BY <2>1, <3>6, <3>7, <3>8 DEF Promise!ReadIt, Promise!Nothing, NoOffer
    <3> QED BY <3>9 DEF Promise!Next
  <2>3. CASE ~Pending
    <3>1. Offered' = NoOffer
      BY <2>1, <2>3 DEF Offered, Pending
    <3> QED BY <1>1, <2>1, <3>1 DEF Promise!Next
  <2>4. CASE DismissStatus
    <3>1. Offered' = NoOffer
      BY <2>4 DEF DismissStatus, display_idle_menu, ScreenOf, Offered
    <3> QED BY <1>1, <2>1, <3>1 DEF Promise!Next
  <2> QED BY <1>5, <2>2, <2>3, <2>4 DEF UserBrowses
<1>6. CASE Restart
  <2>1. /\ Offered' = NoOffer /\ verdict' = verdict /\ response' = response
    BY <1>6 DEF Restart, Offered, ScreenOf
  <2> QED BY <1>1, <2>1 DEF Promise!Next
<1>7. CASE ReceiveFails \/ UserQuits \/ UNCHANGED vars
  <2>1. UNCHANGED <<screen, session, verdict, response>>
    BY <1>7 DEF ReceiveFails, UserQuits, vars, linkVars, screenVars, signVars
  <2>2. Offered' = Offered
    BY <2>1 DEF Offered
  <2> QED BY <2>1, <2>2 DEF Promise!vars
<1> QED BY <1>2, <1>3, <1>4, <1>5, <1>6, <1>7 DEF Next, User, Receive

\* Under a patient host, whatever fails, NemApp implements SignPromise: what is
\* signed was offered, read and not decided before, and a signature goes out in
\* no other step.
THEOREM ImplementsPromise == ASSUME Host # "any" PROVE Spec => KeepsPromise
<1>1. TypeOK /\ TypeOK' /\ IInv /\ IInv' /\ ScreenBound /\ [Next]_vars
        => [Promise!Next]_(Promise!vars)
  BY PromiseStep
<1> QED BY <1>1, PromiseInit, TypeCorrect, InductiveInvariant,
           ScreenStaysBound, PTL DEF Spec, KeepsPromise, Promise!Spec
=============================================================================
