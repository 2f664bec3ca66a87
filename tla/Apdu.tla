-------------------------------- MODULE Apdu --------------------------------
(* The commands a host can send, as the handlers read them: the header bytes,
   the length byte, and the parts of the data field that a handler looks at.

   A command carries every field; a handler reads only the ones its
   instruction has.  `n` is the path length byte that opens the data field,
   `path` the derivation path it announces, `net` the network byte that
   follows the path in GET_PUBLIC_KEY, and `data` names the bytes of
   transaction that a SIGN packet carries: what two packets carry is the same
   bytes exactly when their `data` is the same. *)
EXTENDS Integers

CONSTANTS
    Commands,        \* the commands the host may send
    Path,            \* derivation paths
    MainnetPaths,    \* those whose second element is 43'
    TestnetPaths,    \* those whose second element is 1'
    Payload          \* names of pieces of transaction

CLA                       == 224  \* 0xE0
INS_GET_PUBLIC_KEY        == 2
INS_SIGN                  == 4
INS_GET_REMOTE_ACCOUNT    == 5
INS_GET_APP_CONFIGURATION == 6
Instructions == {INS_GET_PUBLIC_KEY, INS_SIGN, INS_GET_REMOTE_ACCOUNT,
                 INS_GET_APP_CONFIGURATION}

P1_NON_CONFIRM == 0
P1_CONFIRM     == 1

MAX_BIP32_PATH == 5
MAINNET == 104
TESTNET == 152

Byte == 0..255

Command == [cla: Byte, ins: Byte, p1: Byte, lc: Byte, n: Byte,
            path: Path, net: Byte, data: Payload]

ASSUME CommandsAssumption == Commands \subseteq Command
ASSUME PathsAssumption == /\ MainnetPaths \subseteq Path
                          /\ TestnetPaths \subseteq Path

\* Bit 0 of P1 says that a SIGN packet follows another one, bit 7 that more
\* packets follow it.
isFirst(p1) == p1 % 2 = 0
hasMore(p1) == (p1 \div 128) % 2 = 1

get_network_type(path) == IF path \in MainnetPaths THEN {MAINNET}
                          ELSE IF path \in TestnetPaths THEN {TESTNET}
                          ELSE {}

get_algo(net) == IF net \in {MAINNET, TESTNET} THEN "CX_KECCAK" ELSE "CX_SHA3"

\* The path length byte of `cmd` is one the handlers accept.
PathLengthOK(cmd) == cmd.n \in 1..MAX_BIP32_PATH
=============================================================================
