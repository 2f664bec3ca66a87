-------------------------------- MODULE Link --------------------------------
(* The main loop's side of the APDU channel: which command is still without a
   response, the last response sent, and whether the loop is running.

   The channel itself (io_recv_command and io_send_* of the device SDK) is
   external.  A response goes to the most recent command that has none: when a
   handler returns a status word instead of sending it, app_main drops it, and
   the next thing the application sends, possibly from a callback of a later
   screen, is what that host receives. *)
EXTENDS Apdu

CONSTANTS
    MaxCommands,     \* bound on the commands the host sends
    Faults           \* what the environment may do wrong

VARIABLES
    running,         \* app_main is in its loop
    received,        \* number of commands received; the last one's identity
    awaiting,        \* the command that has no response yet, or Nobody
    response         \* the last response, and the command it was sent for

linkVars == <<running, received, awaiting, response>>

ASSUME MaxCommandsAssumption == MaxCommands \in Nat
ASSUME FaultsAssumption == Faults \subseteq {"send", "crypto", "receive"}

-----------------------------------------------------------------------------
Request == [id: Nat, ins: Byte]
Nobody  == [id |-> 0, ins |-> 0]

SWO == {"SUCCESS", "CONDITIONS_NOT_SATISFIED", "WRONG_DATA_LENGTH",
        "INVALID_CLA", "INVALID_INS"}
Status(sw) == [kind |-> "status", sw |-> sw]

\* What has been asked, once a command of instruction `ins` has arrived.
Asked(ins) == [id |-> received + 1, ins |-> ins]

\* io_send_* reports failure when the transport fails, and may report it when
\* there is nothing to respond to.
SendResults(asked) == IF "send" \in Faults \/ asked = Nobody THEN BOOLEAN
                      ELSE {TRUE}

\* A send of `msg` that answers `asked`.
Reply(asked, sent, msg) ==
    IF sent
      THEN /\ response' = [to |-> asked, msg |-> msg]
           /\ awaiting' = Nobody
      ELSE /\ awaiting' = asked
           /\ UNCHANGED response

\* The handler of `asked` returns and has sent nothing.
NoReply(asked) == awaiting' = asked /\ UNCHANGED response

LinkInit == /\ running = TRUE
            /\ received = 0
            /\ awaiting = Nobody
            /\ response = [to |-> Nobody, msg |-> Status("SUCCESS")]
=============================================================================
