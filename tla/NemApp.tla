------------------------------- MODULE NemApp -------------------------------
(* The application: app_main receives a command, handle_apdu dispatches it,
   and between two commands the user acts on the screen.

   Receiving, handling and answering a command is one step, and so is a press
   with its callback: the code runs on one thread, and the host's next command
   is read only when the handler has returned.  What interleaves is commands
   with the user's presses, and the state they share outlives both: the
   session, the key buffers, the two callbacks and the screen. *)
EXTENDS SignTransaction, KeyCommands

CONSTANT
    Host            \* how the host behaves: see HostMaySend

VARIABLES
    lastINS,        \* instruction of the last command of the right class
    changedAt       \* history: the command that last changed lastINS, or the
                    \* first command after the last start

vars == <<linkVars, screenVars, signVars, keyVars, lastINS, changedAt>>

ASSUME HostAssumption == Host \in {"any", "patient", "orderly"}

-----------------------------------------------------------------------------
Init == /\ LinkInit
        /\ ScreenInit
        /\ SignInit
        /\ KeysInit
        /\ lastINS = 0
        /\ changedAt = 1

\* The host sends at most MaxCommands commands.  A patient one sends none while
\* a screen awaits the user; an orderly one, besides, opens no upload inside
\* another and continues none that is not open.
HostMaySend == /\ running
               /\ received < MaxCommands
               /\ Host # "any" => ~AwaitsUser

InOrder(cmd) ==
    Host = "orderly" /\ cmd.ins = INS_SIGN =>
        (isFirst(cmd.p1) <=> ~ /\ lastINS = INS_SIGN
                               /\ session.signState = "WAITING_FOR_MORE")

-----------------------------------------------------------------------------
(* app_main and handle_apdu *)

\* apdu_parser rejects the bytes received; its response is sent or lost, and
\* the loop goes on.
ReceiveMalformed ==
    /\ HostMaySend
    /\ received' = received + 1
    /\ \E sent \in SendResults(Asked(0)) :
          Reply(Asked(0), sent, Status("WRONG_DATA_LENGTH"))
    /\ UNCHANGED <<running, screenVars, signVars, keyVars, lastINS, changedAt>>

\* A status word that handle_apdu sends itself: the loop ends if it cannot.
ReplyOrExit(asked, msg) ==
    \E sent \in SendResults(asked) : Reply(asked, sent, msg) /\ running' = sent

ReceiveWrongClass(cmd) ==
    /\ HostMaySend
    /\ cmd.cla # CLA
    /\ received' = received + 1
    /\ ReplyOrExit(Asked(cmd.ins), Status("INVALID_CLA"))
    /\ UNCHANGED <<screenVars, signVars, keyVars, lastINS, changedAt>>

\* Mutant: the session survives a change of instruction.
SessionKept(ins) == session

\* The session a handler finds: a change of instruction resets it.
SessionFor(ins) == IF ins # lastINS THEN Cleared ELSE session

Dispatch(cmd, ins) ==
    /\ HostMaySend
    /\ InOrder(cmd)
    /\ cmd.cla = CLA /\ cmd.ins = ins
    /\ received' = received + 1
    /\ lastINS' = ins
    /\ changedAt' = IF ins # lastINS THEN received + 1 ELSE changedAt

ReceiveSign(cmd) ==
    /\ Dispatch(cmd, INS_SIGN)
    /\ handle_sign(SessionFor(INS_SIGN), cmd, Asked(INS_SIGN))
    /\ UNCHANGED keyVars

ReceiveGetPublicKey(cmd) ==
    /\ Dispatch(cmd, INS_GET_PUBLIC_KEY)
    /\ session' = SessionFor(INS_GET_PUBLIC_KEY)
    /\ handle_public_key(cmd, Asked(INS_GET_PUBLIC_KEY))
    /\ UNCHANGED verdict

ReceiveGetRemoteAccount(cmd) ==
    /\ Dispatch(cmd, INS_GET_REMOTE_ACCOUNT)
    /\ session' = SessionFor(INS_GET_REMOTE_ACCOUNT)
    /\ handle_remote_private_key(cmd, Asked(INS_GET_REMOTE_ACCOUNT))
    /\ UNCHANGED verdict

ReceiveGetAppConfiguration(cmd) ==
    /\ Dispatch(cmd, INS_GET_APP_CONFIGURATION)
    /\ session' = SessionFor(INS_GET_APP_CONFIGURATION)
    /\ ReplyOrExit(Asked(cmd.ins), [kind |-> "version"])
    /\ UNCHANGED <<screenVars, verdict, keyVars>>

ReceiveUnknownInstruction(cmd) ==
    /\ cmd.ins \notin Instructions
    /\ Dispatch(cmd, cmd.ins)
    /\ session' = SessionFor(cmd.ins)
    /\ ReplyOrExit(Asked(cmd.ins), Status("INVALID_INS"))
    /\ UNCHANGED <<screenVars, verdict, keyVars>>

\* io_recv_command fails: app_main returns.
ReceiveFails ==
    /\ running
    /\ "receive" \in Faults
    /\ running' = FALSE
    /\ UNCHANGED <<received, awaiting, response, screenVars, signVars, keyVars,
                   lastINS, changedAt>>

Receive == \/ ReceiveMalformed
           \/ ReceiveFails
           \/ \E cmd \in Commands : \/ ReceiveWrongClass(cmd)
                                    \/ ReceiveSign(cmd)
                                    \/ ReceiveGetPublicKey(cmd)
                                    \/ ReceiveGetRemoteAccount(cmd)
                                    \/ ReceiveGetAppConfiguration(cmd)
                                    \/ ReceiveUnknownInstruction(cmd)

-----------------------------------------------------------------------------
(* The user *)

Pressed == running /\ AwaitsUser /\ UNCHANGED <<running, received, lastINS,
                                                changedAt>>

\* The callback a press calls, through one of the two globals.
Call(action) ==
    \/ /\ action = "sign_transaction"
       /\ sign_transaction
       /\ UNCHANGED keyVars
    \/ /\ action = "reject_transaction"
       /\ reject_transaction
       /\ UNCHANGED keyVars
    \/ /\ action = "on_address_confirmed"
       /\ on_address_confirmed
       /\ UNCHANGED signVars
    \/ /\ action = "on_privatekey_confirmed"
       /\ on_privatekey_confirmed
       /\ UNCHANGED signVars
    \/ /\ action \in {"on_address_rejected", "on_privatekey_rejected"}
       /\ on_key_rejected
       /\ UNCHANGED signVars

\* The button that approves a review is on its last page.
UserApproves == /\ Pressed
                /\ screen.kind = "review" => screen.shown # {}
                /\ Call(approval_action)

UserRejects == Pressed /\ Call(rejection_action)

UserBrowses == /\ TurnPage \/ DismissStatus
               /\ UNCHANGED <<linkVars, signVars, keyVars, lastINS, changedAt>>

\* app_exit, from the home screen.
UserQuits ==
    /\ running
    /\ screen.kind = "idle"
    /\ running' = FALSE
    /\ UNCHANGED <<received, awaiting, response, screenVars, signVars, keyVars,
                   lastINS, changedAt>>

User == UserApproves \/ UserRejects \/ UserBrowses \/ UserQuits

-----------------------------------------------------------------------------
\* app_main is entered again: by a new process, whose statics are zero, or in
\* the same one, which keeps them.  The SDK decides which.
Restart ==
    /\ ~running
    /\ running' = TRUE
    /\ awaiting' = Nobody
    /\ session' = Cleared
    /\ screen' = ScreenOf("idle", {})
    /\ \/ /\ approval_action' = "NULL"
          /\ rejection_action' = "NULL"
          /\ nem_key' = [pub |-> {}, addr |-> {}]
          /\ nem_remote_private_key' = {}
          /\ lastINS' = 0
       \/ UNCHANGED <<approval_action, rejection_action, keyVars, lastINS>>
    /\ changedAt' = received + 1
    /\ UNCHANGED <<received, response, verdict>>

Next == Receive \/ User \/ Restart

Spec == Init /\ [][Next]_vars

\* A user in front of a screen that asks for a decision eventually takes one;
\* a status screen is left or times out.
FairSpec == /\ Spec
            /\ WF_vars(UserApproves \/ UserRejects)
            /\ WF_vars(UserBrowses /\ screen.kind = "status")
=============================================================================
