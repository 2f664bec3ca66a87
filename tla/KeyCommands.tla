---------------------------- MODULE KeyCommands ----------------------------
(* GET_PUBLIC_KEY and GET_REMOTE_ACCOUNT: each computes its result into a
   global buffer, then sends it at once or after the user's approval.  The
   approval callback sends what the buffer holds when the user presses the
   button.

   A buffer is a set with at most one element, empty until it is first
   written.  The key of a path is named by what it is computed from. *)
EXTENDS Screen

VARIABLES
    nem_key,                 \* nem_publickey and nem_address
    nem_remote_private_key   \* the last delegated harvesting key computed

keyVars == <<nem_key, nem_remote_private_key>>

Algorithm == {"CX_KECCAK", "CX_SHA3"}
Keys == [pub: SUBSET (Path \X Algorithm), addr: SUBSET Account]

PublicKeyOf(path, net) == {<<path, get_algo(net)>>}
AddressOf(path, net)   == {<<path, net>>}

KeyMessage    == [kind |-> "key", pub |-> nem_key.pub, addr |-> nem_key.addr]
SecretMessage == [kind |-> "secret", path |-> nem_remote_private_key]

-----------------------------------------------------------------------------
(* GET_PUBLIC_KEY *)

PublicKeyParametersOK(cmd) ==
    /\ cmd.lc >= 1 + 4 * cmd.n + 1
    /\ cmd.p1 \in {P1_CONFIRM, P1_NON_CONFIRM}
    /\ PathLengthOK(cmd)

\* Mutant: a success leaves the old address in its buffer.
get_public_key_only(cmd, outcome) ==
    nem_key' = IF outcome = "no key" THEN nem_key
               ELSE [nem_key EXCEPT !.pub = PublicKeyOf(cmd.path, cmd.net)]

\* How far the computation gets: the public key is in its global before the
\* hashes of the address can fail.
get_public_key(cmd, outcome) ==
    nem_key' = CASE outcome = "done" ->
                      [pub  |-> PublicKeyOf(cmd.path, cmd.net),
                       addr |-> AddressOf(cmd.path, cmd.net)]
                 [] outcome = "no address" ->
                      [nem_key EXCEPT !.pub = PublicKeyOf(cmd.path, cmd.net)]
                 [] outcome = "no key" -> nem_key

KeyFailures(kinds) == IF "crypto" \in Faults THEN kinds ELSE {}

\* Malformed parameters: the status word is returned and goes nowhere.
PublicKeyRefused(cmd, asked) ==
    /\ ~PublicKeyParametersOK(cmd)
    /\ NoReply(asked)
    /\ UNCHANGED <<running, nem_key, screenVars>>

\* A cryptographic error, negative or not, is returned as it is: app_main
\* leaves its loop on a negative one.
PublicKeyFailed(cmd, asked) ==
    /\ PublicKeyParametersOK(cmd)
    /\ \E outcome \in KeyFailures({"no key", "no address"}) :
          get_public_key(cmd, outcome)
    /\ running' \in BOOLEAN
    /\ NoReply(asked)
    /\ UNCHANGED screenVars

PublicKeySent(cmd, asked) ==
    /\ PublicKeyParametersOK(cmd)
    /\ cmd.p1 = P1_NON_CONFIRM
    /\ get_public_key(cmd, "done")
    /\ \E sent \in SendResults(asked) : Reply(asked, sent, KeyMessage')
    /\ UNCHANGED <<running, screenVars>>

PublicKeyDisplayed(cmd, asked) ==
    /\ PublicKeyParametersOK(cmd)
    /\ cmd.p1 = P1_CONFIRM
    /\ get_public_key(cmd, "done")
    /\ display_address_confirmation_ui(nem_key'.addr, "on_address_confirmed",
                                       "on_address_rejected")
    /\ NoReply(asked)
    /\ UNCHANGED running

handle_public_key(cmd, asked) ==
    /\ \/ PublicKeyRefused(cmd, asked)
       \/ PublicKeyFailed(cmd, asked)
       \/ PublicKeySent(cmd, asked)
       \/ PublicKeyDisplayed(cmd, asked)
    /\ UNCHANGED nem_remote_private_key

on_address_confirmed ==
    /\ \E sent \in SendResults(awaiting) :
          /\ Reply(awaiting, sent, KeyMessage)
          /\ IF sent THEN display_done ELSE UNCHANGED screenVars
    /\ UNCHANGED keyVars

-----------------------------------------------------------------------------
(* GET_REMOTE_ACCOUNT *)

RemoteParametersOK(cmd) ==
    /\ cmd.lc >= 1
    /\ cmd.p1 \in {P1_CONFIRM, P1_NON_CONFIRM}
    /\ cmd.lc >= 1 + 4 * cmd.n
    /\ PathLengthOK(cmd)

\* A derivation that fails leaves the buffer alone; the cipher, which works in
\* place, cannot fail (module Aes).  The result is named by its path.
get_harvesting_key(cmd, outcome) ==
    nem_remote_private_key' =
        IF outcome = "no key" THEN nem_remote_private_key ELSE {cmd.path}

RemoteRefused(cmd, asked) ==
    /\ ~RemoteParametersOK(cmd)
    /\ NoReply(asked)
    /\ UNCHANGED <<running, nem_remote_private_key, screenVars>>

RemoteFailed(cmd, asked) ==
    /\ RemoteParametersOK(cmd)
    /\ \E outcome \in KeyFailures({"no key"}) :
          get_harvesting_key(cmd, outcome)
    /\ running' \in BOOLEAN
    /\ NoReply(asked)
    /\ UNCHANGED screenVars

RemoteSent(cmd, asked) ==
    /\ RemoteParametersOK(cmd)
    /\ cmd.p1 = P1_NON_CONFIRM
    /\ get_harvesting_key(cmd, "done")
    /\ \E sent \in SendResults(asked) : Reply(asked, sent, SecretMessage')
    /\ UNCHANGED <<running, screenVars>>

RemoteDisplayed(cmd, asked) ==
    /\ RemoteParametersOK(cmd)
    /\ cmd.p1 = P1_CONFIRM
    /\ get_harvesting_key(cmd, "done")
    /\ display_remote_account_confirmation_ui(
          <<cmd.path, 0>>, "on_privatekey_confirmed", "on_privatekey_rejected")
    /\ NoReply(asked)
    /\ UNCHANGED running

handle_remote_private_key(cmd, asked) ==
    /\ \/ RemoteRefused(cmd, asked)
       \/ RemoteFailed(cmd, asked)
       \/ RemoteSent(cmd, asked)
       \/ RemoteDisplayed(cmd, asked)
    /\ UNCHANGED nem_key

on_privatekey_confirmed ==
    /\ \E sent \in SendResults(awaiting) :
          /\ Reply(awaiting, sent, SecretMessage)
          /\ IF sent THEN display_done ELSE UNCHANGED screenVars
    /\ UNCHANGED keyVars

-----------------------------------------------------------------------------
\* Mutant: a rejection sends nothing.
on_key_rejected_silently ==
    /\ NoReply(awaiting)
    /\ display_done
    /\ UNCHANGED keyVars

\* on_address_rejected and on_privatekey_rejected do the same.
on_key_rejected ==
    /\ \E sent \in SendResults(awaiting) :
          Reply(awaiting, sent, Status("CONDITIONS_NOT_SATISFIED"))
    /\ display_done
    /\ UNCHANGED keyVars

KeysInit == /\ nem_key = [pub |-> {}, addr |-> {}]
            /\ nem_remote_private_key = {}
=============================================================================
