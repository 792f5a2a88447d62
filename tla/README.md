# A specification of myna-card

TLA+ modules for the `myna-card` crate, which talks to the Japanese Individual
Number Card: what its programs do to the card, what the card does to them, and
what holds of both. Source paths below are relative to the repository.

## The system

| component | state it keeps | operations | hard part |
|---|---|---|---|
| `src/transport/pcsc.rs` | a PC/SC connection, its sharing mode | `connect`, `connect_any`, `transmit`, `power_cycle`, drop | other programs on the same card; a reply lost after the card acted |
| `src/card.rs`, `src/apdu.rs`: exchange | nothing between calls | `Card::call`: a command, its `6Cxx` correction, its `61xx` collection | several transmissions that must look like one |
| `src/card.rs`: commands | nothing; the *card* keeps the current EF | `select_df`, `select_ef`, `read_binary*`, `read_record*`, `verify`, `pin_retries`, `change_*`, `get_data` | the end of a file is guessed; `P2=80` names whatever EF is current |
| `src/ap/*.rs`, `src/mf.rs`: wrappers | a borrow of the card | `select`, `read_*`, `verify_*`, `*_retries`, `change_pin`, `sign`, `card()` | methods of several commands with nothing to hold them together |
| `src/sm.rs` | session key, message counter, `broken` | `establish`, `verify`, `select_ef`, `read_binary`, `read_ef*`, drop | two counters that must agree and that no message carries |
| `src/tlv`, `src/data.rs`, record types of `src/ap` | none | parsers, offset tables, signed data, dates | boundaries of lengths and offsets; the value handed out and the value signed are looked up separately |
| `src/certificate.rs`, `src/ca.rs` | tables of roots and authorities | `verify_chain` (twice, in opposite directions), `verify_to_root` | roots that share a name; validity by date |
| the card (not in the repository) | current DF and EF, security status, retry counters, values, session | answers commands | its state outlives every program |

Calls go straight down: wrapper → `Card` → `Transmit`. There are no threads,
callbacks or timers; the crate's concurrency is that of several programs with
a connection to one card. The state that matters is on the card, and no lock
brackets a method: a wrapper method is a sequence of independent commands.

What makes each part correct: an exchange acts once and under `9000` is all or
nothing; a read returns the bytes that are there; a method acts on the key or file it
names, and attempts, values and security status change only as its caller
means them to; the two counters of a session differ only by what was lost,
and a difference does not go unnoticed; objects are taken out of what was read
as they were written; what verifies is what was issued, under an authority
that did not come with it.

## Modules

| module | models | role |
|---|---|---|
| `CardLayout` | the `ef` tables of `src/ap`, `src/mf.rs` | files, keys and access conditions of each DF, as constants |
| `SharedCard` | wrappers, `Card` commands, PC/SC connections | the core: several programs, one card, one action per command |
| `SharedCard_proofs` | | its theorems |
| `MCSharedCard` | | values of its constants for TLC |
| `Exchange` | what `Card::call` promises | abstract: one command, then its whole answer, a front of it under the status that broke it off, or an error |
| `ApduExchange` | `Card::call`, `Command`, `Response` | one action per transmission; implements `Exchange` |
| `ReadBinary` | `read_binary`, `read_binary_all`, `read_binary_physical` | one action per READ BINARY |
| `SecureMessaging`, `MCSecureMessaging` | `SecureSession` | one action per command, both counters |
| `CardObjects` | `MasterFile`, `get_data`, `contact_atr`, record reads | one action per command |
| `CvChain` | `CardVerifiableCertificate::verify*` over `ca::KNOWN` | one action per certificate |
| `CardChain` | `examples/read_card.rs` | composes the two: the chain read is the chain verified |
| `Tlv` | `tlv::ber`, `tlv::simple` | one action per object an iterator yields |
| `SignedRecords` | `TlvFields`, `check_offsets`, the signed files, `Attributes` | files that are interfered with; parsing and verifying as operators |
| `Calendar` | `from_unix_seconds`, `to_era`, `verification_code_b` | the calendar goes on by days; the code's arithmetic as operators |
| `X509Chain` | `verify_to_root`, `issuer_of`, `verify_chain` | one action per root or link |
| `CardData` | | composes the last four: what is made of the data once it has been read |
| `MCCardObjects`, `MCRecords` | | values of the constants of these compositions for TLC |
| `ApduExchange_proofs`, `ReadBinary_proofs`, `SecureMessaging_proofs`, `Tlv_proofs` | | theorems about the modules they are named after |
| `CardObjects_proofs` | | theorems about `CardObjects`, `CvChain` and `CardChain` |
| `Records_proofs` | | theorems about `SignedRecords`, `Calendar`, `X509Chain` and `CardData` |
| `Induction` | | induction over positions, least and greatest of a set, recursive functions |

They are layered as the code is. `ApduExchange` shows that `Card::call` is one
exchange, by refinement of `Exchange`: under `9000` it returns the whole answer.
`Card::call` is public, and its caller can be handed a front of an answer too, under
the status with which the card broke the answer off. `call_ok` and `into_data`, which
every other module goes through, make an error of any status but `9000`. So
`ReadBinary`, `SharedCard`, `SecureMessaging` and `CardObjects` take one command as
one step that succeeds, is refused, never arrives, or is carried out and its reply lost.

### SharedCard

The card is `df`, `ef`, `status` (keys of the current DF whose verification is
in effect), `tries`, `secret` and `awake` (the first command after power-up
has been spent). A program is a connection `mode`, a wrapper `ap`, the method
under way `call` and, for the properties alone, `sure` (by its own commands it
knows which DF is current), `fresh` (it has cleared the card since it
connected) and `mine` (the status its own VERIFYs earned).

- `Connect`, `Disconnect`: `Sharing::Exclusive` is refused while anyone holds
  the card and refuses everyone while it lasts. `Disconnect` is also a crash,
  at any point of a method.
- `Select`, `SelectLost`, `SelectFails`, `NewMasterFile`, `DropWrapper`,
  `SelectBehindWrapper`, `SelectBehindFails` (the `card()` escape hatch),
  `PowerCycle`+`Throwaway`, `PowerCycleFails`: what moves the current DF. A reconnect
  that fails may have cleared the card or not, and sends no throwaway command. A
  program that selects another DF behind its wrapper is taken out of the properties
  until it has a wrapper of the current DF again; one whose SELECT there does not
  arrive, or selects the wrapper's own DF and loses the reply, is not.
- `VerifyKey`, `ChangePin`, `Retries`, `ReadEf`, `CallNamed` begin the methods
  that every wrapper is made of; `CardLayout` says which of them each wrapper
  has on which identifiers. Their commands are `SelectEf`, `VerifyAccepted`,
  `VerifyRejected`, `VerifyBlocked`, `QueryTries`, `Replace`, `ReadChunk`,
  `UseNamed`, each with its refusals.
- `CommandFails` is a transmission that does not reach the card. The loss of
  a reply is a disjunct of each command: the card has acted, `?` returns the error.

`Careful` names the programs that follow the advice of `Card::verify`
(`src/card.rs:592-599`): present a value only right after a query that left
more than one attempt.

Card behaviour that the repository documents but does not implement is marked
external in the map: leaving a DF clears its status and selecting it again
keeps it (`src/lib.rs`), `00 A4 00 00` selects nothing (`src/card.rs:247`),
the first command after power-up fails (`src/transport/pcsc.rs`). Whether a
failed VERIFY ends a status that the key already had is left open. A query is never
answered `6300`, no limit, as each of the keys has a counter. A program
whose shared connection saw another program's power cycle really gets an
error at its next transmission; the model lets it go on as well.

### ApduExchange

`at` and `le` are the next transmission of `Card::call`, `data` what it has
collected; `answer` and `pending` are the card's. The card may hand over any
part of its answer at a time, nothing at all included: it may announce data and
hand over none `MaxHeld` times in a call, and `held` counts these pieces. Bytes
are numbered by place, so that loss, repetition and reordering all show. `acted`
counts how often the card carried the command out, `sent` the transmissions of
the call. Instead of the next piece the card may break its answer off
(`BrokenOff`, `BreakOff`), with a warning, a refusal or a `6Cxx`, with or without some
more of the data. Any status but `61xx` ends the loop of `Card::call`, so that what
was collected is returned under that status; a `6Cxx` to GET RESPONSE is not
corrected. Against a card that hands over nothing for ever `Card::call` does not
return; `TurnsAreBounded` says that only the card can prolong a call, by one
transmission for each such piece.

### ReadBinary

The file has `size` bytes and its first chunk announces an object of `total`
bytes, or none. `Answer` is the card's READ BINARY: the bytes up to the end
of the file, and past it `6B00` or an empty `9000`, whichever the card keeps
to; or `6282`, the warning of ISO 7816-4, as soon as a read meets the end.
`reads` counts the commands sent. `Expected` is what a call is for, the whole file
where it reads until the card signals the end (`UntilTheEnd`). `ReadsWhatIsThere`
holds it to that for every file whose end the offsets reach (`WithinReach`); beyond,
`read_binary` and a read of an object say `OffsetOutOfRange`, but a read until the
end is cut and succeeds, which `WholeFileIsRead` is about.

### SecureMessaging

`skey`, `scount` are the card's session, `sess` is the `SecureSession` value.
Cryptography is reduced to what it does here. VERIFY and SELECT carry
ciphertext: under another key or counter the card cannot strip the padding,
answers `6988` and destroys its session. (That one wrong padding in some
hundreds strips by chance is left out.) READ BINARY carries nothing to
decrypt, so the card answers under its own counter; a wrong IV then garbles
the first block only. `unpad` sees that when there is no other block; data that
fills its block has its padding in the next one, so of a read of one part either may
come (`PaddingLost`, `Plaintext`). `OpenInside` is a second session opened through the first one's `card()`.

A file is a sequence of parts of one cipher block, and offsets and lengths count
parts. An offset goes into P1-P2, where `b8` of P1 is no part of it: it says that
the other bits of P1 name an EF. `Reach` stands for `0x8000`, the first offset that
sets it, and `Places` says where a READ BINARY at any `u16` offset then reads.
`read_binary` takes every offset, `read_ef` goes on from chunk to chunk and so gets
there with a file that is long enough; `InReach` says which files `read_ef` is right
about. `Object` is what the header at the front of a file announces, which may be
no header, less than the file or more than it. `AtOnce` names the files that the card
answers whole when it is asked for no length, as `src/sm.rs:234` says of those of this
application. The code relies on it: `read_ef_physical` sends one such read and returns
what comes, so `ReadsAreRight` promises the whole of a file in `AtOnce` and a part of
any other.

### CardObjects

A card is a record of the data objects, record files and ATR it holds in the
card manager and in an application, and of whether it provides READ RECORDS in
the multiple form. `df` is its current DF. `op`, `at`, `nth`, `out` are the
call under way: which one, its next command, the tag or record it is at, what
it has read. `GetShort` and `GetLong` are the two commands of `get_data`: an
object may refuse the short Le, or both. `SelectFile`, `ReadMulti` and
`ReadSingle` are `read_all_records`. The parsers of the three record files are
operators over parsed objects, with the erased byte `FF` and a cut object as
what ends them. `ExchangeFails` is a lost transmission or a status no branch is
for, at any command. `MasterFile::new`, which selects nothing, is modelled with
`select`, and the properties speak of either kind of master file as long as it
reads from the card manager (`AtManager`): after `select`, or after a `new` while
the card manager is current, as it is after a power cycle. The documentation of
`new` leaves this to its caller. `Stage` is how far a call has come: which
command, and for which object, record and Le; `CallsProceed` says that each step
leads on to a later one. What a card may hold is assumed by name: an ATR was
issued with its checksum, and what is left of it is nothing or differs in one byte at
most (`AtrAssumption`); records hold objects of the tags told apart, no more records
than there are numbers (`FilesAssumption`). Bytes of an ATR are sets of bits, their
sum over it a fold (`XorOf`). `Told` says what a file must be told as without
a loop: the first, the last or each of the objects of a tag.

### CvChain

`chain` is what `verify_chain` was called with, `above` the certificate that
`issuer` refers to, `next` the one verified next. A key accepts the signatures
made with it and no others. Whoever holds an authority's key certifies what is
true; certificates made with any other key may say anything.

### CardChain

`HandOver` calls `verify_chain` with what `certificate_chain` returned, as
`examples/read_card.rs` does; `Elsewhere` is a chain that came from somewhere else.
The two parts share no variable: what passes between them is the chain.

### Tlv

Objects are encoded, tails of filler or damaged headers appended, and the whole
cut anywhere; `NextItem` is one call of the iterator. Header parsing is as in
the code, tag continuation, long lengths and all. `usize` sums wrap, as they do
in a release build; a debug build panics at the same place. `IsTag` and `Fits` say
what a card writes: a tag that is no filler and says where it ends, a length in a
form with room for it (`ObjectsAssumption`). A tail is filler, or nothing can be made of
any part of it but a header that promises more than there is (`TailsAssumption`).

### SignedRecords

A file is a sequence of objects, each a tag of one of two editions of the
record. Before it is read it may lose objects, get some twice, out of order or
of the other edition. `Parses`, `SignedData`, `Verifies`, `DigestSource` are
the code's functions on such a file; a signature or digest over the data of
one edition fits no other data. The layouts, which tags are tables, fields and
signature of each kind, are a constant table after the parse functions. Offsets are
a set: they grow along the file, so two files with the same set have the same list. `Size` makes some objects differ in length from
one edition to the other, so that a foreign table of offsets shows.

### Calendar

`Midnight` is the calendar itself; `DayOf`, `FromDays`, `ToEra` and
`VerificationCodeB` are the code's arithmetic, held against it day by day, the last
with a security code, one that is too short and one with a character that is no digit.

### X509Chain

`IssuerOf` looks at one root after the other, `CheckLeaf` and `CheckLink` are
the steps of `verify_chain`. Validity is in seconds, the date that is passed is
the date of `moment`. So a certificate is accepted on all of its first and its last
day, and so is one whose period ends before it begins if both fall on that day;
`InForceToday` says neither more nor less. All keys are RSA keys, as those on the card
are; a certificate under another one, which `verify_signature` answers with `Malformed`,
is refused here as one with a wrong signature is.

### CardData

The parsers and tables keep nothing between calls and know nothing of each other:
`part` says which of the four modules a behaviour is about, and the others stand
still. What composition adds is that they can be checked and proved together.

## Runs

| run | asks | states | result |
|---|---|---|---|
| `shared_card` | do exclusive programs reach their own key and file, and lose no attempt, value or status to others, whoever else connects? | 724 000 | holds |
| `shared_card_reads` | can two programs read over shared connections? | | violated |
| `apdu_exchange` | is `Card::call` one exchange that acts once, and does it return, after how many transmissions? | 42 500 | holds |
| `apdu_exchange_6100` | is whatever is announced collected? | | violated |
| `read_binary` | do the loops return what is there, of files within reach, and return, after few commands? | 197 000 | holds |
| `read_binary_warning` | and from a card that answers `6282`? | | violated |
| `read_binary_reach` | is a read that goes on until the card signals the end one of the whole file? | | violated |
| `secure_messaging` | do counters drift by losses alone, is it noticed, is `read_ef` right, and `read_binary` but for its first block? | 233 000 | holds |
| `secure_messaging_reads` | is `read_binary` right after a loss? | | violated |
| `secure_messaging_offsets` | does `read_binary` treat every offset as the plain one does? | | violated |
| `card_objects` | are chain, record files and ATR handed out as the card holds them, does every call return, does a verified chain certify true keys, and is it what the card holds? | 129 000 | holds |
| `records` | are objects, signed files, dates, eras and certificates under shared names told right? | 299 000 | holds |

Bounds, and why they are enough:

- *SharedCard*: two programs, as an interference needs one more, each of them in
  either sharing mode. `text` and `common` with three identifiers: a PIN that can be
  changed and the file `0001` behind it; file `0001` of the other application, so
  that a wrong current DF is not harmless; and the key `0019`, which is named without
  a SELECT and moves the current EF. Two values, so right and wrong exist, which
  are interchangeable (`MCSymmetry`); two attempts, so a last one does. The theorems
  cover every application and identifier.
- *ApduExchange*: `MaxLe = 3` for 256, answers of up to 8 bytes: one, exactly
  one, two and nearly three pieces, and more waiting than SW2 can say; `MaxHeld = 2`,
  so that an empty piece can follow another.
- *ReadBinary*: `MaxChunk = 3` for 256 and `MaxOffset = 8` for `0x7FFF`, again
  a multiple of the chunk less one; files and objects of up to 12 bytes and
  reads from any offset up to there cross every boundary by more than one.
- *SecureMessaging*: two seeds, so a second session can replace the first;
  counters up to 5, so two replies can be lost and two methods run after; `Reach = 2`
  parts for `0x8000`, with a file that ends before it, one of three parts with filler
  behind its object, one of six whose object goes on beyond every offset, one that is
  shorter than its header announces and one without a header; two of the four fit
  one response (`AtOnce`), the others may be handed over in pieces.
- *CardObjects*: `MaxRecord = 3` for 255, so files end before, at and beyond
  the last record number, with every sequence of records of a kind; two tags in
  a chain are all there are. Objects that refuse no Le, the short one, or both;
  certificates with parts missing, doubled or misshapen. ATRs of up to three
  bytes of two bits, each with every byte damaged in every way.
- *CvChain*: an authority, one more identifier, two keys, chains of up to three
  certificates: a link may be missing at the start, in the middle and at the
  end. The theorems need none of this.
- *Tlv*: two objects in a row, tags of one and four bytes, every form of length,
  values that look like filler, each cut at every byte; `UsizeBytes = 2` for 8,
  so that a length that wraps fits in a tail.
- *SignedRecords*: all six kinds, two edits: one to damage a file and one to
  repair what would give it away. Filler of no byte or one.
- *Calendar*: every day from 1868 to 2030, with all eras and a century that is
  no leap year, and from 2116 to 2120 around the hundredth year of Reiwa;
  `DaySeconds = 3` for 86400.
- *X509Chain*: two generations of one root, one of them expired early, and a
  test root; chains of up to three; four days of three seconds.

Deadlock is checked except in `ReadBinary`, `CardObjects` and `Records`, where
calls, files and calendars end.

The type invariants of the modules that `CardChain` and `CardData` compose are not
checked on these runs but proved (`CardChainTypes`, `DataTypes`), for every instance;
so is `CallsProceed`, of which `CallsReturn` is the part that a run follows.

Fairness is assumed where a call is followed to its end: `WF_vars(Transmit)` in
`ApduExchange`, `WF_vars(Step)` in `ReadBinary`, `WF_ovars(Step)` in `CardChain`, where
`Step` is a command the card answers: `ExchangeFails` needs none, as all it does is end
a call. A call once begun takes its next step. The code is sequential and transmission
synchronous, and a transmission comes back, with a reply or an error. Programs owe
nobody a call, so `SharedCard` and `SecureMessaging` state no fairness and no liveness,
nor does `Exchange`.

## What the code does not do

Six statements of the repository do not hold of the code; the
violation runs show each.

1. *Sharing for reading* (`src/transport/pcsc.rs:30`). Two programs that only
   read over `Sharing::Shared` do get in each other's way: no transaction
   brackets SELECT and READ BINARY, and a read returns, as a success, data of
   a file of the other program's application. For the same reason VERIFY may compare
   the right value with the other program's key and cost it an attempt, against
   `examples/read_card.rs:9`; that has no run of its own.
2. *`61xx` is collected* (`src/card.rs:193`). Not `6100`: SW2 becomes an Le of
   0, which the encoder refuses.
3. *`6282` is tolerated* (`src/card.rs:705`). The data it comes with is lost.
4. *The whole content, until the card signals the end* (`src/card.rs:366`,
   `src/card.rs:407`). `read_binary_physical`, and `read_binary_all` of a file without a
   header, stop at offset 32768 and succeed, where the other reads that come there say
   `OffsetOutOfRange`.
5. *The counter is tracked* (`src/sm.rs:45`, `src/sm.rs:307`). A lost reply
   leaves it behind. SELECT and VERIFY then fail safely, but a bare
   `SecureSession::read_binary` returns a garbled first block as a success.
6. *The offset goes in P1-P2 as for a plain READ BINARY* (`src/sm.rs:232`). The plain
   one refuses an offset above 32767 (`src/error.rs:63`); the session sends it, and
   from `0x8000` on P1 names an EF, so that data of another file is returned.

Noticed while modelling, without a run of their own:

- `CardVerifiableCertificate::verify` (`src/data.rs:849-856`) says that
  `crate::ca` carries the two production keys and that a test card gets
  `UnknownCertificateAuthority`; the table in `src/ca.rs` has six keys, those of
  the test hierarchy among them, so a test card's certificate verifies.
- `src/certificate.rs:8-10` still says that nothing in the module validates a
  certificate or walks a chain; `verify_chain` does.
- `Attributes::parse` counts offsets from `raw.len() - outer.value.len()`, which
  filler after the object throws off; `read_attributes` trims it, a caller's own
  file may not be. `TlvFields::parse` warns of just this.
- `read_records_one_by_one` takes an empty record for the end of the file, so
  records behind one are told by a card with the multiple form only.
- `Header::total_len` can overflow: a release build wraps and `slice::get` then
  refuses, a debug build panics.
- `verification_code_b` does not look at the number of digits of `expiry_year`.

## Proofs

### SharedCard

`SharedCard_proofs` proves for all programs, applications, identifiers,
values, counters and sharing modes what the first run checks:
`TypeCorrect`, and from `Invariant` the theorems `OwnKeyOnlyHolds`,
`DataOfTargetHolds`, `ReportStillHoldsHolds`, `NoInheritedStatusHolds`,
`AttemptsOnlyOnWrongValueHolds`, `ChangeOnlyByHolderHolds` and
`CarefulNeverBlocksHolds`. They rest on the assumptions on constants in
`SharedCard` alone.

None of the properties is inductive. That a method's VERIFY meets its own key
depends on what its SELECT did and on nobody having moved the card since. So
`IInv` adds, beside types:

- `CallOK`: the method under way is one the program's wrapper has, at one of
  its points;
- `Reserved`: beside an exclusive connection there is no other;
- `Offline`: a program without a connection has no wrapper, no method and no claims;
- `StatusInDf`: `status` holds keys of the current DF only;
- `Own(p)` for each exclusive `p`: the DF it is sure of is the current one; past
  SELECT the current EF is its target; the data and the count of attempts it
  has are those of its target; a value it is about to replace is the one it
  presented; a status is there only if it earned it, once it has cleared the card.

The induction has one step per action. Most actions of *another* program are
impossible beside an exclusive one (`Reserved`), so a step is either `p`'s own
or it leaves `p` without the reservation. The action properties follow from
`Invariant` by the same split.

### The other modules

Each theorem holds for all values of the constants the module's assumptions
admit: any chunk, Le, address range, file, counter bound, key or authority.

- `ApduExchange_proofs`: `ExchangeTypes`, `CarriedOutOnce`, `TurnsBounded` and
  `CallIsExchange`, which is the whole refinement, `Spec => IsOneExchange`, with
  answers that are broken off. The
  invariant is `Collecting`: before the card has acted nothing is collected and
  all is pending, and while collecting, what is collected followed by what is
  pending is the answer. Without it a last piece could be anything. `Turned` counts
  along: every transmission but the first two brought a byte or an empty piece.
- `ReadBinary_proofs`: `ReadTypes`, `RefusesRightly` and, for cards that do not
  answer `6282` (`"6282" \notin Ends`, the case in which the property fails),
  `ReadsRightly`, which speaks of files within reach. The invariant says of the bytes held that they are those from
  `from` on and no others (`Held`), and of each loop what it is after and how far
  it is (`Aims`): that `read_binary_physical` stands on a multiple of the chunk
  is what makes a short answer the end of the file. `ReadsFew` holds for every card,
  `6282` or not: by `Few` every command so far brought a whole chunk, but for one that
  met the end.
- `SecureMessaging_proofs`: `SessionTypes`, `DriftIsLoss`, `BrokenIsGone`,
  `NamedReadsAreRight`, `OneBlockGarbled`, `DriftNoticed`, for any files, headers and
  width of an offset, whichever files fit one response. `Selected` is the strengthening: a `read_ef` that has come past
  its SELECT is in step with the card and in the file it names. `Running` ties every
  method under way to an open session. `InReach` is as narrow as it is for a reason
  that only the proof showed: a file that ends exactly at `Reach`, under a header that
  promises more, is read on there, to find its end, and `b8` is set.
- `CardObjects_proofs`, of `CvChain`: `CvTypes`, `CertifiedTrue`, `Accepts`. `Passed`
  carries two facts down the chain: each certificate so far is signed by the one above,
  and its key is true. The truth of a key follows from that of the key above, so
  neither is inductive without the other.
- `CardObjects_proofs`, of `ObjectsSpec`: `ObjectsTypes`, `ChainComplete`, `FilesTold`,
  `AtrIntact`, and `CallsGoOn`, that each step of a call leads on to a later `Stage`.
  `Gathered` says what the loop holds before each tag: nothing, then the certificate under the first
  tag, which is there. `Reading` says what the loop over single records holds: the
  records before the next one, none of which is empty. `Manager`, that a master file
  opened there reads from the card manager, holds because no step after `Open` moves
  the current DF; `Course` keeps the steps of one call apart from those of another.
  The lemmas below them are about the folds: the folders gathered are the values of
  their tag in order, by induction along the objects; changing one byte of an ATR
  changes the sum over it by the bits changed, so a sum of nothing is the ATR's own.
- `CardObjects_proofs`, of `CardChain`: `CardChainTypes`; `ReadingIsObjects`, that the
  composition implements `ObjectsSpec`; `PartsHold`, that each part keeps in it what it
  promises on its own; and `VerifiedHeld`, which neither part can say: the chain found
  valid is the one the card holds. `Handed` links them: what is being verified is what
  the call on the card returned, unless there was no such call.
- `Tlv_proofs`: `TlvTypes`, `ItemsRight`. `TlvInv` puts the iterator behind the
  object it yielded last (`ItemsYielded`), whose end is where the next one begins
  or the tail does. At an object, the header is read as it was written or, cut short,
  not at all (`HeaderOfObject`), whichever form its length has; the object is then
  found whole or not found (`WholeOfObject`). In a tail nothing is found
  (`NothingWhole`), although the sum of header and length may wrap: a length fits a
  usize (`NumberFits`, for any width), so a sum that wraps comes out below the length
  of the header, and the range runs backwards (`WrappedIsLess`).
- `Records_proofs`, of `SignedRecords`: `RecordsTypes`, `Verified`, `Matched`, `Accepted`,
  for any number of edits and any filler. The first two need no more than the types as
  invariant; their argument is about one file. A signed file that verifies has its
  signature's edition in all that is signed, and what is handed out is
  what is signed because both are looked up by `First`: the bytes before the
  signature include the first object of each field (`BeforeIsIssued`). `Accepted`
  rests on `Untouched`, and all three on `LayoutsAreSound`: table and signature are
  single objects with tags that no field has.
- `Records_proofs`, of `Calendar`: `CalendarTypes`, `DatesTrue`, `ErasInTurn`, `CodesTell`,
  up to year 9999. `CalendarInv` ties the date the calendar has come to to the number
  of the day, `DayNumber`, by the lengths of months and years alone; `Midnight` keeps it
  (`DayAfter`). `CivilDate` then shows that the code's division by eras of 400
  years inverts that number, so `DatesTrue` needs no enumeration, and that the
  order of dates is the order of days (`OrderOfDays`), on which eras and certificates rest.
  `SpansAssumption` says that a span starts with the date of its day.
- `Records_proofs`, of `X509Chain`: `X509Types`, `Rooted`, `ChainsInForce`. `Progress`:
  no root before the one looked at issued the certificate; every link before the one
  checked holds and every certificate up to it is valid. `Answered`: what each answer
  says of the chain. That another root with the right key cannot hide the issuer
  is `RootsAssumption`, no two roots share a key; `CertificatesAssumption`
  types roots, periods and moments.
- `Records_proofs`, of `CardData`: `DataIsItsParts`, that a behaviour of the composition
  is one of each part or leaves it alone, and from it `DataTypes` and `DataHolds`, all
  that the run checks of the four.

Definitions that run along a sequence are recursive functions, and a claim about them
needs induction. The library's induction theorems take the claim as an operator, which
the provers cannot instantiate; `Induction` takes the *set* of positions at which it
holds (`Induct`), from the well-foundedness of `<` on the naturals. `GoesOnce` gives the
other half: that such a definition does define a function.

Model-checked only: liveness (`Returns` of `ApduExchange` and of `ReadBinary`,
`CallsReturn`), which is beyond the prover, and all counterexamples. The safety half of
each is proved: `TurnsBounded` and `ReadsFew` bound what a call sends, `CallsGoOn` that it
does not come back to where it was. What they leave to TLC is that a step can be taken.

## Not modelled

- Decoders of single fields and fixed layouts: `ApIdentification`, `Date::parse`,
  `MyNumber`, `KeyId`, `Sex`, `Image`, `RsaPublicKey::parse`, `CardInfo`,
  `TokenInfo`, `TokenType`, `CertificateAvailability`, both `ApBasicData`. They have
  no control but a length check, and a test of each covers it.
- `src/pin.rs`: two checks of a value and its erasure. `SignatureScheme`'s limits on
  the length of its input.
- `get_challenge`.
- Commands by short EF identifier (`verify_sfi`, `pin_retries_sfi`,
  `read_binary_chunk_sfi`), which no wrapper uses.
- Encoding of commands, cryptography, wording of errors; `transport/mock.rs`.

## Plan

All of these are done, in this order:

1. `CardLayout`, `SharedCard`, a passing run and two violations; proofs.
2. `Exchange`, `ApduExchange` with the refinement; proofs.
3. `ReadBinary`; proofs.
4. `SecureMessaging`; proofs. Offsets and their width.
5. `CardObjects` with `CvChain`; proofs of both. `CardChain`, and proofs of it.
6. `Tlv`, `SignedRecords`, `Calendar`, `X509Chain`; `Induction` and their proofs.
   `CardData`, and proofs of it.

Nothing of the plan is open. Code that changes under it is best looked up in the
section of its module; the lines each definition stands for are in `PROJECT.json`.
