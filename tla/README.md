# A TLA+ model of the NEM application

The NEM application runs on a Ledger device. A host sends it commands (APDUs);
the application derives keys, shows screens, and answers with a public key, a
delegated harvesting key or a signature. This directory holds TLA+ modules that
model it, TLC configurations that check them on small instances, and proofs,
checked by TLAPS, of what signing, the parser, the pages of a review and the
conversions to text keep to, for every value of the constants.

Paths below are relative to the repository's C sources (`src/`) unless they
start with `doc/` or `tests/`.

    tlc -workers 2 -config MC_sign.cfg MCNem     # one run
    for m in NemSafety NemPatience FieldProofs ParseLemmas ParseProofs \
             RecursionLemmas ReviewProofs PrinterProofs
    do tlapm $m.tla ; done                       # the proofs

## 1. Inventory

| Component | State it keeps | Operations | Modelled by |
|---|---|---|---|
| Main loop, dispatcher (`main.c`, `apdu/entry.c`, `apdu/global.c`) | `lastINS`; whether the loop runs | receive, check the class, reset on a change of instruction, dispatch | `Link`, `NemApp` |
| SIGN (`apdu/messages/sign_transaction.c`) | `signState`, `parseContext`, `transactionContext` | first packet, following packet, `sign_transaction`, `reject_transaction` | `SignTransaction` |
| GET_PUBLIC_KEY (`get_public_key.c`) | `nem_publickey`, `nem_address` | compute, send or show, confirm, reject | `KeyCommands` |
| GET_REMOTE_ACCOUNT (`get_remote_account.c`) | `nem_remote_private_key` | likewise | `KeyCommands` |
| GET_APP_CONFIGURATION | none | answer the version | `NemApp` |
| Screens (`ui/`, `transaction/transaction.c`) | the screen, `approval_action`, `rejection_action`, `transaction` | open, turn a page, decide, dismiss | `Screen`, `SignTransaction`, `NemApp` |
| Parser (`nem/parse/nem_parse.c`) | offset, table of fields | one function per transaction type | `NemParse` |
| Pages of a review (`ui/transaction/review_menu.c`) | number of pairs, a ring of slots for labels and values | open, turn a page, decide | `Review` |
| Formatters, labels (`nem/format/`) | none | one formatter per data type, a table of labels, conversions to text | `Fields`, `Printers` |
| Helpers (`nem/nem_helpers.c`) | none | network, algorithm, key and address, delegated key | `Apdu`, `KeyCommands`, `Fields`, `Aes`; hashes by their inputs |
| `base32.c` | none | an encoder with an output bound | `Printers` |
| `aes.c` | a context: round keys, the vector of the next call | key schedule, one block, a buffer in CBC mode | `Aes` |
| tests, fuzzing, build files | | | not modelled: they drive the program |

**How they interact.** There is one thread. `app_main` reads a command, calls
`handle_apdu`, and reads the next one when the handler has returned; while it
waits for a command the device SDK delivers the user's presses, which call
callbacks of the application. So handlers and callbacks are atomic with respect
to each other, and what interleaves is *commands* with *presses*. They
communicate through globals that outlive both: the session (`signState` and the
two contexts), the key buffers, the screen, and one pair of callback pointers
that three screens share. A review does not copy what it shows: each page reads
the global table of fields when it is turned to.

**What is hard.** A screen outlives the state it was opened for. A handler can
fail after it changed half of its state. A status word that a handler returns
instead of sending is dropped by `app_main`, so that the command stays
unanswered and a later message answers it. Packets arrive in any order. The
parser trusts nothing: every length is the host's, compared by unsigned
differences that wrap, and formatters later follow lengths found in the buffer.
`PROJECT.json` lists these hazards at their lines, with the properties that
cover them.

**What makes each component correct.**
- *SIGN*: what is signed is what was received, whole, once, since the last
  change of instruction, and is what the user reviewed.
- *Key commands*: a response holds a key and an address of one account; an
  approval releases what was displayed; a rejection releases nothing.
- *Screens*: the callbacks are those of the screen that is up.
- *Link*: each command is answered, by a message of its own kind.
- *Parser*: what a formatter will read lies in the buffer; everything that is
  signed is listed; recursion and loops are bounded.
- *Pages*: each pair of a page shows the label and the value of its own field,
  of the transaction that the review was opened for, whatever happened to the
  table since.
- *Conversions*: a text reads back as what it stands for, or is not there at
  all. The cipher is AES-128 in CBC mode.

## 2. Modules

    Apdu <- Link <- Screen <- SignTransaction --+
                         ^--- KeyCommands ------+-- NemApp <- NemProperties <- NemRefinement <- MCNem
                                                                  ^                 :   ^
                                                                  |        SignPromise  |
                                                              NemSafety <-------- NemPatience
    Printers <- Fields --+
    NemParse ------------+-- NemParseProperties <- MCParse
                         |         ^--- FieldProofs <- ParseLemmas <- ParseProofs <--+
                         +-- Review <- ReviewProperties <- MCReview                  |
                                             ^---------------------- ReviewProofs ---+
    Printers <- PrinterProperties <- PrinterProofs --> RecursionLemmas <- ReviewProofs
                        ^--- MCFunctions --> Aes

An arrow is EXTENDS; `NemRefinement` instantiates `SignPromise`.

**Apdu** – commands as records: header bytes, length byte, path length, path,
network byte, and a *name* for the bytes of transaction a packet carries. Two
packets carry the same bytes exactly when their names are equal. Paths are
values; which of them are on which network is a constant.

**Link** – the channel, seen from the application. `received` counts commands;
`awaiting` is the command that has no response; `response` is the last response
together with the command it went to. The SDK (`io_recv_command`, `io_send_*`)
is external. `SendResults` lets a send fail when `"send" \in Faults`. When
nothing is unanswered, a send may be reported either way.

**Screen** – which screen is up, what it is about, which transactions' fields
its pages have shown, and the two callback globals.

**SignTransaction** – the session. The buffer is a sequence of packets, each
with the offset and the length it was written with, so that gaps and overlaps
are visible; `length` is `parseContext.length`, and the total is computed modulo
2^16 as in the code. The parser is a constant predicate (`WellFormed`) together
with the lengths it checks first; the run `parser` checks on the detailed parser that
those lengths are implied by success (`ParsedHoldsSigned`). `session.upload` and
`verdict` are history variables.

**KeyCommands** – GET_PUBLIC_KEY and GET_REMOTE_ACCOUNT. The public key is
written before the hashes of the address can fail (`"no address"`).

**NemApp** – the composition: one action per way a command is received, one for
each press, `Restart`. `Host` says what is assumed of the host: nothing
(`"any"`), that it sends nothing while a screen waits for the user
(`"patient"`), and that it also sends packets in order (`"orderly"`). These are
assumptions about the environment, stated because the code has no check of its
own: see the findings.

**NemParse** – the parser, one action from one word that decides something to
the next. What is in the buffer is chosen as it is read; the offset never goes
back, so each choice is that of some buffer. A field has the place it points to,
the length recorded for it, and the number of bytes its formatter will read
(`app_format.c`), which for names and properties follows lengths found in the
buffer. Calls of `parse_multisig_transaction` are an explicit stack (`frames`).
All comparisons of lengths are modulo `UINT32`.

**SignPromise** – the abstract specification of SIGN: an offer is presented,
read, and signed or rejected once, or withdrawn. No packets, screens, buffers.

**NemRefinement** – the mapping from `NemApp`. An offer is a session in state
PENDING_REVIEW whose review is on the screen; it was read when the pages turned
to showed its fields and nothing else; the signature is the one in the last
response. `verdict` and `session.upload`, history variables of `SignTransaction`,
give the last decision and tell two uploads of the same bytes apart.
`KeepsPromise` is the abstract specification, `JudgesOffers` its fairness.

**Printers** – the conversions of `printers.c` and `base32.c` character by
character, as functions. A loop is a recursive function of the variables it
changes, or a fold over the bytes it goes over.

**Fields** – labels (`fields.c`) and formatters (`app_format.c`). A text is a
sequence of pieces: a word of the program, or bytes of the buffer in some form
("ascii", "hex", "address"). That keeps what the properties need, which bytes are
read and when a text is empty, and leaves the characters to `Printers`. The data
type of a field is the one that the parser gives its id. How many characters a name
is shown in, fewer than its bytes where some cannot be printed, is up to the contents
of the buffer, and a constant here (`CharsOf`): the second name of a pair goes behind
as many.

**Review** – the pages, over the table that `NemParse` fills: the composition of
the parser, the review and what the session does to the table between two
uploads (`reset_transaction_context`). A page is drawn by `get_review_pair` into
a ring of slots. The SDK asks for one pair more than fits on a page, to find out
that it does not fit, and keeps the addresses of the slots; it may ask for any
page at any time the parser is not running, also for a table that was cleared or
half filled. When the hashes behind an address fail, the address is blank.

**Aes** – `aes.c` as the build compiles it (`Makefile:90` defines
`IOCUSTOMCRYPT`, so the cipher of the SDK is not used): tables, key schedule,
rounds, CBC mode on a buffer, and the harvesting key that
`nem_get_remote_private_key` makes with it from an HMAC (external). It works in
place and cannot fail, which is why `KeyCommands` has only the derivation fail.

**MCNem**, **MCParse**, **MCReview**, **MCFunctions** – instances for TLC, the last
one with the reference definitions that the cipher is compared with.
**NemProperties**, **NemParseProperties**, **ReviewProperties** – type invariants,
safety, action and liveness properties. **PrinterProperties** – what a reader makes of
the texts of `Printers`: readings of digits, hexadecimal digits and bits, written
without a look at how the code makes them.

**NemSafety**, **NemPatience** – theorems about `NemApp`: types and signing under any
host; what a patient host adds, and the refinement.
**FieldProofs**, **ParseLemmas**, **ParseProofs** – what a label and a formatter read
of a field the parser recorded; what reading, requiring and adding do to the
parser; one lemma per action of `NemParse`, and the theorems. **ReviewProofs** –
theorems about `Review`. **RecursionLemmas** – induction over naturals, and what a
recursive function or a fold is. **PrinterProofs** – theorems about `Printers`.

### Correspondence of state

| Code | Model |
|---|---|
| `signState`, `parseContext.data != NULL`, `parseContext.length`, `transactionContext.rawTxLength` | `session.signState`, `.armed`, `.length`, `.rawTxLength` |
| `transactionContext.rawTx` | `session.rawTx`, a sequence of packets |
| `parseContext.result` | `session.result`, the contents that the fields were taken from |
| `transactionContext.bip32Path` (network and algorithm follow from it) | `session.path` |
| `nem_publickey`, `nem_address` | `nem_key.pub`, `nem_key.addr` |
| `lastINS` | `lastINS` |
| `parse_context_t` in `nem_parse.c`; the table `fields` in `Review` | `ctx`; `ctx.fields` |
| `nbPairs`, `bkp_args`, what the SDK drew from them | `nbPairs`, `bkp_args`, `page` |
| locals of the parser's functions; C stack | `local`, `txn`; `frames` |

## 3. Runs

| Run | Checks | Host, faults |
|---|---|---|
| `sign` | `TypeOK`, `ActionsMatchScreen`, `SignedWasReviewed`, `PendingNotJudged`, `UploadSinceChange`, `BufferContiguous`, `SignsReceivedBytes`, `IInv`, `RejectReleasesNothing` | any; crypto, receive |
| `patient` | `SignedIsShown`, `KeyReplyConsistent`, `AnswerFitsCommand`, `ApprovalReleasesAsked`, `KeepsPromise` (refinement), `ScreenBound` | patient; all |
| `answered` | `EveryCommandAnswered`, `JudgesOffers` (liveness) | orderly; none |
| `parser` | `ParserInv` (with `ParseTypeOK`), `FormatterStaysInBuffer`, `PairsFillTheirField`, `EveryTransactionShown`, `EveryItemShown`, `FieldTablesAgree`, `BlankOnlyAtLimits`, `InnerCovered`, `NestingBounded`, `ParsedHoldsSigned` | |
| `review` | `ReviewInv` (with `ReviewTypeOK`), `PageShowsItsFields`, `ReviewShowsTable`, `PagesStayInBuffer` | |
| `functions` | `TokenIsAmount`, `NumberReadsBack`, `AsciiKeepsPrintable`, `HexReadsBack`, `Base32Decodes`; `SboxIsFieldInverse`, `ColumnsMixAsField`, `CipherGivesKnownAnswers`, `DelegatedKeyOpens` | |

Six further runs end in a counterexample on purpose: section 5.

What they show: `sign`, that under any host signing keeps to what was uploaded
and, if it parses, reviewed. `patient`, that a host that waits for the user's
decision gets the whole promise, also when sends and cryptography fail.
`answered`, that commands get answers and offers get decisions. `parser`, that
no contents make the review read outside the buffer, hide what is counted, or show a
quantity in another unit.
`review`, that turning pages at any moment shows fields of the right
transaction. `functions`, that values survive their conversion.

**Bounds of the application runs.** Three or four commands, chosen from ten
to fifteen; a buffer of 400 bytes instead of 10000. Four commands are enough for an
upload in three packets, for a session that another instruction breaks off, for
a second upload behind a review, and for an overflow after which a shorter
packet is accepted. The sizes of packets are those of the wire (a path takes 21
bytes, a transaction at least 60), so that short packets, short transactions and
cosignatures of 144 bytes fall on either side of each test. One path on each
known network and one on none. No symmetry is used: the contents play different
roles. What these bounds leave open for safety of signing is closed by the
proofs, which hold for all bounds.

**Bounds of the parser runs.** There are families of transactions (transfers;
transfers with messages; multisig transactions and cosignatures, shallow and
deep; namespaces and mosaics), and the length of the buffer says which it holds. Each takes the lengths
0 to 3, the exact lengths that make its structures add up, and values such as
2^32-1 and 2^32-4 at which sums and differences wrap. `UINT32` is 2^20 in the runs: TLC's
integers have 32 bits, and all that matters is that it exceeds every length of
the buffer by far. The table has 14 fields instead of 60, so
that both its overflow and complete transactions with two levels of nesting are
reached. In the code the recorded length of a field is a `uint16_t`; it never
truncates, because lengths are bounded by a buffer of 10000 bytes. The buffer of
a value has 74 bytes (`MAX_FIELD_LEN`, 1024 in the code), just above the 64 digits of a
hash, and that of a label 4 (50 in the code), so that messages, names and labels
fall on either side of each. Names at odd places have no printable byte, the others no
other (`MCCharsOf`). The run is there to find a wrong statement quickly; its
properties are proved for all lengths, words, widths and sizes (section 4).

**Bounds of `review`.** Two uploads, of a mosaic definition with eight fields
and an importance transfer with four, and two pages turned to. A page has 3
pairs and the ring 4 slots, one more than a page, so
that eight fields take three pages and wrap around the ring; the code has more
slots. Labels have one byte, so that the name of the property is refused. Two
uploads are a review behind which another one opens, or fails to parse. Turning a
page writes at most five slots and depends on nothing but the table, so a third
turn meets no new case. The proofs hold for any number of uploads and turns, and for
every table, ring and page.

**Bounds of `functions`.** Numbers below 2·10^8 (TLC's integers) with digits 0,
1 and 9, which is every number of digits up to nine with every place of zeros;
byte strings of up to five bytes, which is one whole group of base32, from
bytes that are printable and that are not, in runs of every length to five; 25
bytes, the size of an address; sizes of buffers on either side of each. Of the
conversions the run finds a wrong statement quickly; proved are all numbers, bytes and
sizes (section 4). For AES every byte
of the tables, all columns of five different bytes, the examples of FIPS 197 and SP 800-38A,
and six keys, each with a text of no bytes, of fewer than the key has, and of more.

**Deadlock.** It is checked in the runs of `NemApp`, where `Restart` always leads
on from a loop that ended. It is not checked in the runs of the parser, which ends, nor in `review` and
`functions`, where the bounds are used up.

**Fairness** (`FairSpec`, run `answered`). Weak fairness on the user's decision:
a user in front of a screen that asks for one takes one. Weak fairness on leaving
a status screen: it is left or times out (`nbgl_useCaseReviewStatus`). The fairness of
`SignPromise`, weak fairness of signing or rejecting, follows from the first
(`JudgesOffers`). Nothing is assumed of the host: it need not send anything. Without the orderly host the
property is false (run `silent`), because refused packets are not answered.

## 4. Proofs

Assumed: the named assumptions on the constants, beside their declarations.
They say that constants have their types, and

- `MAX_RAW_TX` plus one packet fits in 16 bits (10000 in the code);
- lengths and words lie below `UINT32`, which is at least 256; versions are bytes;
- the text of a value has room for more than 64 characters (1024 in the code), that
  of a label for at least one (50);
- a page has at least one pair and no more than the ring has slots;
- the sizes of texts are positive numbers.

Nothing is assumed about which transactions parse, what the buffer holds, how many
commands, uploads or turned pages come, or what fails. The size of the table of fields is
any natural number. The theorems of `NemPatience` alone have a hypothesis of their own,
`Host # "any"`: a host that sends nothing while a screen awaits the user. What
happens without it the runs `stale_review` and `stale_key` show.

### Signing, under any host

**NemSafety** proves `TypeCorrect`, one lemma per action, and then the properties of
signing. None of these is inductive alone: they
speak of the last verdict and of the buffer, and hold because of what is true of
the open upload between two steps. The strengthening is `IInv`:

- `UploadInv`: the session's upload is later than the last change of
  instruction and the last verdict; every packet in it is as late as its upload;
  an upload is open only while SIGN is the last instruction; a session with no
  upload is cleared.
- `ReviewInv` of `NemProperties`: while a transaction *that parses* is pending, its
  review is up and only its own pages were shown on it. A session becomes pending only in
  `UploadCompleted`, which opens a fresh review exactly when the parser succeeds;
  any command that could replace the screen is of another instruction, and resets
  the session first. Pages turned later read `session.result`, which does not
  change while pending.
- `BufferContiguous`, `ActionsMatchScreen` and the two statements about the last
  verdict.

Each handler of SIGN is first shown to do one of a few things to the session and
to the screen (`Fresh`, `Effect`), and the parts of the invariant are then proved
of those. `InductiveInvariant` combines the steps; the named properties follow.

| Theorem | Property |
|---|---|
| `TypeCorrect` | `TypeOK` |
| `CallbacksMatch` | `ActionsMatchScreen` |
| `RejectionsReleaseNothing` | `RejectReleasesNothing` |
| `InductiveInvariant` | `IInv` |
| `ReviewedBeforeSigned` | `SignedWasReviewed` |
| `SignsWhatWasReceived` | `SignsReceivedBytes` |
| `BufferIsContiguous` | `BufferContiguous` |
| `JudgedOnce` | `PendingNotJudged` |
| `NoBytesAcrossInstructions` | `UploadSinceChange` |

### The whole promise, under a patient host

**NemPatience** needs one invariant more, `ScreenBound`: a screen that awaits the user
belongs to the last command, which is not answered; a review that is up is of the
contents that are pending; the address or key that is up is the one in the buffer its
callback reads. It is inductive with `TypeOK` and `ActionsMatchScreen`, because no
command arrives behind such a screen. It says nothing of transactions that parse, so
that signing follows for all of them, where `IInv` needs that premise.

`ImplementsPromise` is the refinement: under the mapping of `NemRefinement` the initial
state of `NemApp` is one of `SignPromise`, and each step of `NemApp` is a step of it or
a stutter (`PromiseStep`, action by action). `JudgesOffers`, the fairness of
`SignPromise`, stays with TLC.

| Theorem | Property |
|---|---|
| `ScreenStaysBound` | `ScreenBound` |
| `KeyRepliesConsistent` | `KeyReplyConsistent` |
| `AnswersFitCommands` | `AnswerFitsCommand` |
| `SignsWhatWasShown` | `SignedIsShown` |
| `ApprovalsReleaseAsked` | `ApprovalReleasesAsked` |
| `ImplementsPromise` | `KeepsPromise` |

### The parser

Most of what is said of the parser is about the table of fields, which is written in
one place and read elsewhere, so that the proof has two halves.

**FieldProofs** takes a field as `Recorded` describes it and follows
`resolve_fieldname` and `format_field` through it, one lemma per formatter: every byte
they read is in the buffer, also where the formatter finds lengths there; a label and a
formatter exist; a quantity is shown in its unit, XEM as XEM and units of a mosaic as
their number; and the value is blank only for want of data or at a named limit.
`Texts` lists the words of the program, and a text is proved to be made of them and
of bytes of the buffer.

**ParseLemmas** has what the actions are composed of: a subtraction or an addition modulo
`UINT32` that a comparison has let pass is the true one; `Moves(c, d, n)`, that `d` is
`c` some steps later, `n` bytes read, with a longer table of which the old one is a
prefix; `Counts`, what a step adds to the number of fields of some kind. These compose.

**ParseProofs** shows that every action keeps `ParserInv`. Its parts are there because
the properties are about the end of the parse, or about the table, and hold only for
where the parser stands in between:

- `ParseTypeOK` bounds the position by the length and the table by its size; without
  the first, differences of unsigned lengths are not lengths.
- `GoesOn`: past a failure nothing is read.
- `TableRecorded`: every field is `Recorded`. From it and `FieldProofs` follow
  `FormattersStayInBuffer`, `PairsFill`, `TablesOfFieldsAgree`, `BlanksAreAtLimits`.
- `BehindHeader` and `LocalsBehind`: fields are added from pointers saved before other
  reads; the position is behind what they point to. `BehindHeader` also gives
  `ParsedIsLongEnough`.
- `LevelsPaid`: a level of nesting has listed at least four fields, which bounds the
  stack by the table (`NestingIsBounded`); in each, what is left and where it started
  add up to where it ends (`InnerTransactionsCovered`).
- `HeadersListed`: each header that was read has its type in the table, and its fee once
  the parser is past it (`TransactionsAreShown`).
- `ItemsCounted`: the items listed are those the loop has counted down
  (`ItemsAreShown`).

| Theorem | Property |
|---|---|
| `ParserKeepsInv` | `ParserInv` |
| `ParserStaysInBuffer` | `ParseTypeOK`, part of `ParserInv` |
| `FormattersStayInBuffer` | `FormatterStaysInBuffer` |
| `PairsFill` | `PairsFillTheirField` |
| `TablesOfFieldsAgree` | `FieldTablesAgree` |
| `BlanksAreAtLimits` | `BlankOnlyAtLimits` |
| `InnerTransactionsCovered` | `InnerCovered` |
| `NestingIsBounded` | `NestingBounded` |
| `ParsedIsLongEnough` | `ParsedHoldsSigned` |
| `TransactionsAreShown` | `EveryTransactionShown` |
| `ItemsAreShown` | `EveryItemShown` |

### The pages

**ReviewProofs** proves `ReviewInv` of `ReviewProperties` for the composition. A page may
be turned to when the table is that of the review, that of a later upload, half
filled or cleared; `TableHeld` is what these have in common: fields that fit in the
table and are `Recorded`. While the parser runs, `ParserInv` holds, and `ParseProofs`
gives its steps.

`PageShowsItsFields` is about several writes to a ring of slots, a fold. `Induction` of
`RecursionLemmas` gives the ring after each call
of `get_review_pair` (`PairsInTurn`); `LastPairShown` says that a slot holds the
last pair written to it; `SlotsApart` that two pairs less than a ring apart have
different slots. In a ring of no more slots than a page has pairs, the pair that does
not fit overwrites the first of the page; the page is right because the SDK asks for
its pairs again to draw it, and the proof covers that case (`PageShown`).

| Theorem | Property |
|---|---|
| `ReviewKeepsInv` | `ReviewInv` |
| `PagesShowTheirFields` | `PageShowsItsFields` |
| `ReviewsShowTheirTable` | `ReviewShowsTable` |
| `PagesAreInBuffer` | `PagesStayInBuffer` |

### The conversions

The loops of `printers.c` and `base32.c` are recursive functions and folds, and what
they compute is proved for every input.

**RecursionLemmas** is what this takes. The library's induction theorems have an operator
as a parameter, which no prover here can instantiate; the lemmas are stated with sets and
functions instead. `LeastNat` follows from the library's theorem that naturals are
well-founded, and `Induction`, `NatsIn` and `SmallerIn` from it: a set that holds 0, and
with each natural the next one, holds all. A recursive function is a `CHOOSE`, of which
nothing is known until some function is known to satisfy its body. `Recursion` shows
that there is one when each call is of an argument with a smaller `size`
(`ComesToEnd`): so it is that the loops are shown to end. `Folding` is the same for a
fold over a sequence, whose recursion takes the last place away.

**PrinterProofs** first gives each loop its body (`TensStep`, `Decimal`, `TokenLoop`,
`EncoderLoop`) or the values of each fold in turn (`ReadingInTurn`, `AsciiInTurn`,
`HexInTurn`), and then follows it:

- *Numbers*: `DecimalReads`, by induction from smaller numbers. The digits of v read as
  v, the first is not a zero, and v lies between the powers of ten around them.
- *Amounts*: the loop makes six digits, a point and the whole digits, all reversed
  (`TokenDigits`; an amount below one XEM ends in the code's special case and gives the
  same). Reversed back they read as the amount (`TokenReads`). What is cut are the zeros
  after the last other character, and the point keeps those of the whole digits
  (`AmountText`).
- *Bytes as text*: after i bytes there is a character for each place in `Kept` up to i,
  and `k` is the parity of the run of bytes that are not printable (`AsciiKeeps`).
- *Hexadecimal*: the digits of byte i are the characters 2i-1 and 2i (`HexDigits`).
- *base32*: the invariant of the loop, `EncoderInv`, has the characters written hold the
  first bits of the data (`GivesBits`), the lowest `bitsLeft` bits of the accumulator the
  next ones (`Holds`), and five times the characters and `bitsLeft` add up to the bits
  taken in, unless the data ended and zeros filled the last character.
  `LoopEncodes` is an induction on the room that is left. That the accumulator overflows
  does not matter, because a remainder by `INT` keeps the bits looked at (`MaskedBits`),
  and there are never more than twelve.

| Theorem | Property | For every |
|---|---|---|
| `NumberIsRead` | `NumberReadsBack` | natural number, size |
| `TokenIsRead` | `TokenIsAmount` | number below 10^20, and so every `uint64_t`; size |
| `AsciiIsRead` | `AsciiKeepsPrintable` | string of bytes, size |
| `HexIsRead` | `HexReadsBack` | string of bytes, size, direction |
| `Base32IsRead` | `Base32Decodes` | string of bytes, size |

The bound of `TokenIsRead` is there because the reading is taken of a text in 40
characters; `AmountText` has none.

The proof of `TokenIsRead` found that a text must have room for the point, too, even when
no digit follows it: in a buffer of exactly the whole digits and the terminator,
`snprintf_token` cuts the point off, and then takes the zeros of the whole XEM for zeros
after a point (`printers.c:79`); 100 XEM in a buffer of 4 are "1". TLC finds the same
with the size 4. `TokenIsAmount` says what room it needs; the callers, in
`app_format.c`, have 1024.

### Only model-checked

- Liveness: `EveryCommandAnswered` and `JudgesOffers`. TLAPS does not prove ENABLED, and
  so nothing under fairness.
- The four properties of the cipher: `SboxIsFieldInverse`, `ColumnsMixAsField`,
  `CipherGivesKnownAnswers`, `DelegatedKeyOpens`. `Aes` takes its exclusive-or from
  `Bitwise`, whose recursive operators the prover cannot reach. The first is about a table of
  256 bytes and the third about published examples, which TLC checks entirely; that
  every column mixes as the field says, and that every key opens, is checked on samples.
- The six expected counterexamples of section 5.


## 5. Where documents and code disagree

| Run | What the documents say | What the code does |
|---|---|---|
| `silent` | `doc/nemapp.asc:231`: a status word is returned for all APDUs | refusals inside a handler are returned to `app_main`, which sends nothing (`main.c:64`) |
| `stale_review` | `doc/nemapp.asc:83`: signs after the user validated; comment at `sign_transaction.c:129`: a failing parser resets the context | the session stays in PENDING_REVIEW: bytes that do not parse, uploaded behind an old review, are signed by approving it |
| `stale_key` | `doc/nemapp.asc:31`: the address is checked before being returned | a later command overwrites what the approval sends |
| `xem` | comment at `nem_parse.c:295`: `is_nem` means that the namespace is nem | an empty or long namespace leaves the previous name in `str` |
| `amount` | comment at `nem_parse.c:262`: "Show xem amount" | the amount is listed as a second fee |
| `stale_label` | comment at `review_menu.c:60`: what pairs show is stored in buffers of their own | the name of a property that is empty or too long leaves the label of the field that used the slot before |

`stale_review` and `SignedWasReviewed` belong together: the theorem says that
for transactions that parse the code does keep the promise, under any host; the
run shows that the premise is needed; `KeepsPromise` that under a patient host it
is not.

Two more were found while the model was written and have no run. A cosignature
is signed in its first 144 bytes (`nem_parse.c:825`), while
`tests/functional/test_sign_cmd.py:116` verifies the signature over all bytes
sent; and it parses only with a length of inner transactions after them, which
`doc/transactions_schema.md:402` does not list.

## 6. Abstractions

- Handlers and callbacks are atomic. `io_seproxyhal_io_heartbeat`, which they
  call between cryptographic operations, keeps the channel alive and delivers no
  press to the application.
- Cryptography is named by its inputs, and may fail when `"crypto" \in Faults`.
- The parser's error codes are one: every caller compares with success only.
- `Restart` covers both ways in which the SDK may enter `app_main` again: with
  cleared statics and with those of the previous session.
- In `sign_transaction` the test `parseContext.data == NULL` (line 47) never
  succeeds in state PENDING_REVIEW (`TypeOK` and `UploadInv` give `armed`), so the
  model has no action for it.
- In the parser a transaction without a type, or of an unknown one, still has its
  type listed before it is refused, as in the code. A comment at
  `nem_parse.c:727` names three types for the inner transaction; the code accepts
  more, and the model follows the code.
- In `Fields`, `snprintf` of the SDK ("%d", copies of words) is a piece of its own.
- `InItsUnit` says of a levy only that it is not shown as XEM: it is paid in units of
  its own mosaic, whose decimals the program does not know, and the code writes "micro"
  behind six of them.
- In `Printers`, the accumulator of `base32_encode` is an `int` that is never
  masked and overflows after four bytes; only its lower 12 bits are ever looked at,
  and the model keeps 16.
- Formatters for `uint8`, `uint16` and `uint64` have no field and no definition.
- The value under the delegated key is a text: `strncpy` copies it up to the size of
  the key and fills the rest with zeros. Only encryption is used; `AES_ECB_*`,
  `AES_init_ctx` and `AES_ctx_set_iv` have no caller and no definition.

Not modelled: functional tests, the fuzzing harness and the build files, which
drive the program and are not part of it; the device SDK, except for what the code expects
of it; hashes, curves and the HMAC, which are inputs. The parser's choice of contents
is nondeterministic, so relations between contents that no length or type depends on
(the bytes of a recipient, of a key) are outside the model.

## 7. Plan

Done: all components of section 1; the refinement of the abstract specification; the
proofs of every safety and action property of `NemApp`, of the parser and of the
pages; the proofs of what the conversions write.

Left: that CBC mode chains the blocks of a buffer of every length as its definition
says, whatever the block cipher does. It needs the exclusive-or of `Aes` as an operation
on bits that the prover can follow, and then the argument of `HexInTurn`. Liveness
waits for a prover that handles ENABLED.
