-------------------------------- MODULE MCNem --------------------------------
(* Instances of NemApp for TLC: sets of commands that the configurations pick
   from.  Lengths are those of the wire: a path of five elements takes 1 + 20
   bytes of the data field, and a transaction has at least 60 bytes.  The
   buffer is scaled down to 400 bytes, so that three packets overflow it. *)
EXTENDS NemRefinement

CONSTANTS p1, p2, p3,     \* paths: mainnet, testnet, no known network
          a, b, c, x, cos \* contents; x parses in no position, `cos` is the
                          \* head of a cosignature

MCPath     == {p1, p2, p3}
MCMainnet  == {p1}
MCTestnet  == {p2}
MCPayload  == {a, b, c, x, cos}
MCWellFormed   == {<<a>>, <<b>>, <<a, c>>, <<b, c>>, <<cos>>}
MCCosignatures == {cos}

Cmd(ins, p1Byte, lc, n, path, net, data) ==
    [cla |-> CLA, ins |-> ins, p1 |-> p1Byte, lc |-> lc, n |-> n,
     path |-> path, net |-> net, data |-> data]

\* SIGN packets, by their place in the upload and `size` bytes of content.
Whole(data, size)  == Cmd(INS_SIGN, 0,   21 + size, 5, p1, 0, data)
First(data, size)  == Cmd(INS_SIGN, 128, 21 + size, 5, p1, 0, data)
Middle(data, size) == Cmd(INS_SIGN, 129, size,      0, p1, 0, data)
Final(data, size)  == Cmd(INS_SIGN, 1,   size,      0, p1, 0, data)
UnknownNetwork     == Cmd(INS_SIGN, 0,   121,       5, p3, 0, a)
TooShort           == Cmd(INS_SIGN, 0,   20,        5, p1, 0, a)
LongPath           == Cmd(INS_SIGN, 0,   121,       6, p1, 0, a)

AskKey(path, net)   == Cmd(INS_GET_PUBLIC_KEY, P1_CONFIRM,     22, 5, path, net, a)
QuietKey(path, net) == Cmd(INS_GET_PUBLIC_KEY, P1_NON_CONFIRM, 22, 5, path, net, a)
BadKey              == Cmd(INS_GET_PUBLIC_KEY, 2,              22, 5, p1, MAINNET, a)
AskRemote(path)     == Cmd(INS_GET_REMOTE_ACCOUNT, P1_CONFIRM,     21, 5, path, 0, a)
QuietRemote(path)   == Cmd(INS_GET_REMOTE_ACCOUNT, P1_NON_CONFIRM, 21, 5, path, 0, a)
BadRemote           == Cmd(INS_GET_REMOTE_ACCOUNT, P1_CONFIRM,     21, 0, p1, 0, a)
Configuration       == Cmd(INS_GET_APP_CONFIGURATION, 0, 0, 0, p1, 0, a)
UnknownInstruction  == Cmd(3, 0, 0, 0, p1, 0, a)
WrongClass          == [Configuration EXCEPT !.cla = 0]

\* One upload after another, in one to three packets, broken off and resumed.
SignCommands == {Whole(a, 100), Whole(x, 100), Whole(cos, 150), First(a, 100),
                 First(b, 160), Middle(c, 200), Final(c, 200), TooShort,
                 UnknownNetwork, Configuration}

\* Uploads with the other screens and instructions in between.
UploadsAndKeys == SignCommands \cup {LongPath, AskKey(p1, MAINNET),
                                    QuietKey(p2, TESTNET), AskRemote(p1),
                                    UnknownInstruction}

\* Every instruction, every refusal.
MixedCommands == {Whole(a, 100), Whole(x, 100), LongPath, AskKey(p1, MAINNET),
                  QuietKey(p2, TESTNET), BadKey, AskRemote(p1), QuietRemote(p2),
                  BadRemote, Configuration, UnknownInstruction, WrongClass}

\* What a careful host sends.
GoodCommands == {Whole(a, 100), First(b, 160), Final(c, 200), Whole(cos, 150),
                 AskKey(p1, MAINNET), QuietKey(p2, TESTNET), AskRemote(p1), QuietRemote(p2),
                 Configuration, UnknownInstruction, WrongClass}
=============================================================================
