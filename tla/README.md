# Formal model of the Assembly Voting JavaScript client

These are TLA+ models of the voter-side client in `src/`. The TLC runs check
them on small instances, and TLAPS proves theorems about them for every
value of their constants.

## The system and its parts

| Part | Source | Module | Status |
|---|---|---|---|
| Voter session (`AVClient`, second class of the file) | `src/lib/av_client.ts` 117-556 | `AVClientSession`, `AVClientSessionProofs` | modelled |
| Configuration validation | `src/lib/av_client/election_config.ts` 52-99 | inside `AVClientSession` | partly |
| Vote submission and receipt verification (`SubmitVotes`) | `src/lib/av_client/submit_votes.ts` | `SubmitVotes`, `SubmitVotesProofs` | modelled |
| Bulletin board, OTP provider, authorization coordinator | not in `src/` | modelled from the spec by what the client sees | partly |
| Legacy `AVClient` (first class of the file) | `src/lib/av_client.ts` 1-116 | `LegacyAVClient`, `LegacyAVClientProofs` | modelled |
| `deterministicRandomWords` (test randomness) | `src/test/test_helpers.ts` 9-38 | `DeterministicRandomWords`, `DeterministicRandomWordsProofs` | modelled |
| ElGamal, hashing, Schnorr signatures, `encrypt_votes`, `cvr_validation` | not in `src/` | abstracted | not modelled |

How the parts interact:

1. The session calls three collaborators:
   - the bulletin board: configuration, registration and authentication with codes;
   - the voter authorization coordinator: `createSession` and `requestPublicKeyAuthorization`;
   - the OTP provider: `requestOTPAuthorization`.
2. For submission, the session hands its fields to `SubmitVotes.signAndSubmitVotes`.
3. `signAndSubmitVotes` acknowledges the board hash, signs the content, submits it, and verifies the receipt.

Every public session method is `async`. Nothing serialises two calls, so a
caller can have several in flight. JavaScript runs a method atomically up to
its first `await`. The rest runs when the awaited collaborator answers.

## `AVClientSession`: the session

### State
- The AVClient fields, lines 171-182: `electionConfig`, `authorizationSessionId`, `email`, `identityConfirmationToken`, `keyPair`, `voterIdentifier`, `emptyCryptograms`, `contestIds`, `voteEncryptions`, `testCode`.
  - `None` stands for `undefined`.
  - Values are abstracted:
    - a key pair, a session id or a voter identifier is the id of the call that created it;
    - a token is the e-mail it was issued for;
    - empty cryptograms are the registration they came from and the contests they cover;
    - envelopes are the empty cryptograms they were built on and the contests of the vote record.
- `pending`: the continuations of suspended calls. Each holds the values its code read before suspending.
- `calls`: the number of calls started, bounded by `MaxCalls`. Each call's id is fresh.
- `lastError`: how the last call failed, as the method and the error.
- The collaborators:
  - `authSessions`: the coordinator's sessions, each mapped to its e-mail;
  - `registrations`: the board's voter registrations.

### Actions
A method without an `await` is one action:
- `InitializeWith`
- `ConstructBallotCryptograms`
- `GenerateTestCode`
- `SpoilBallotCryptograms`
- `SubmitBallotCryptograms`

A method with awaits is an invocation action, for its synchronous prefix, plus one action per resumption:
- `Initialize` / `InitializeFetched`
- `RequestAccessCode` / `RequestAccessCodeResponse`
- `ValidateAccessCode` / `ValidateAccessCodeResponse`
- `RegisterVoter` / `RegisterVoterAuthorized` / `RegisterVoterRegistered`
- `AuthenticateWithCodes` / `AuthenticateWithCodesResponse`

`NetworkFailure` lets any await fail. Guards follow the code, for example:
- the `||` guards at lines 367 and 459;
- the `getElectionConfig()` throws.

`registerVoter` stores its key pair before the first await (line 319). It
reads `this.keyPair` again after it (line 332). `submitBallotCryptograms`
calls `votesSubmitter.encryptAffidavit`, which class `SubmitVotes` does not
have, so past its guard the action always rejects with a TypeError (line 471).

### Runs (`MC_AVClientSession`)
All runs use one e-mail, one contest, an unknown contest id, and two
configurations (valid, and missing the OTP URL). They allow 5 calls.

`session_concurrent` (pass) allows 2 calls in flight. It checks `TypeOK`,
`Prerequisites` and `PendingSound`. `Prerequisites` says that, whatever calls
are interleaved:
- an e-mail is recorded only with a configuration and a coordinator session;
- a token only with an e-mail;
- a voter identifier only with a key pair, empty cryptograms and a configuration;
- empty cryptograms, contest ids and envelopes only with a voter identifier.

It is why `getElectionConfig()` and `this.keyPair.privateKey` cannot throw
where they are called. `PendingSound` says that each suspended call keeps
what its invocation checked (its configuration, e-mail, token and stored
key) until it resumes.

Neither property sees two things the code does with calls in flight: the
last of two registrations to resume wins, and a second `initialize` may
replace the configuration under a registered session. Their consequences
are the violations below (`KeyPairRegistered`, `RegisteredKeyAuthorized`).
No property states that every call settles. Each continuation settles its
call by the shape of the code, and whether a collaborator answers is not
the code's to ensure: it sets no timeouts, so a collaborator that never
answers leaves the call pending for good.

`authenticateWithCodes` registers a voter from any state before
`Registered`, without the OTP flow of spec 4.5. It is the class's second
authentication path, so no property rejects it. The run reaches 111,380 distinct states. `SessionView`
drops `lastError`, which no invariant of this run reads.

Violation runs, each a finding in `PROJECT.json`:
- `KeyPairRegistered`: a failed `registerVoter` leaves an unregistered key pair (line 319).
- `RegisteredKeyAuthorized`: two overlapping `registerVoter` calls register a key pair the coordinator did not authorize (line 332). This needs 2 calls in flight.
- `ConstructErrorsTyped`: after `authenticateWithCodes`, `constructBallotCryptograms` can pass its `||` guard and throw a TypeError (line 379).
- `SubmitInvokesProtocol`: `submitBallotCryptograms` never reaches the board (line 471).
- `TokenMatchesEmail`: a repeated `requestAccessCode` pairs a new e-mail with an old token (line 268). This run uses two e-mails.

## `LegacyAVClient`: the first class of `av_client.ts`
Lines 1-116. The client persists credentials through the app's `Storage`
and fetches the configuration lazily.

State:
- `electionConfig`: `this.electionConfig`, abstracted to `"empty"` (`{}`),
  `"noElection"` (entries but no `election`, so `electionId()` throws a
  TypeError) and `"valid"`;
- `storage`: each of the three keys maps to the id of the call whose answer
  it holds;
- `pending`: suspended calls, each at its await (`"fetch"`, `"cached"`, `"auth"`);
- `calls` and `crashes`: counters, bounded by `MaxCalls` and `MaxCrashes`.

Actions:
- `AuthenticateWithCodes`: the call starts. `updateElectionConfig` fetches
  only while the configuration is `{}`.
- `ConfigFetched`: the answer replaces `this.electionConfig`, whatever it
  holds.
- `ConfigCached`: the call resumes without a fetch.
- Either resumption goes on to the authentication request, or throws in
  `electionId()` (`ProceedWithConfig`).
- `Authenticated`: the three `storage.set` calls, in one step, since no
  await separates them.
- `RequestFailed`.
- `Crash` and `CrashWhileWriting` are the fault model. The process is
  killed, and a new client starts over the same storage. `CrashWhileWriting`
  is killed after the first one or two `storage.set` calls.

The six other public methods are stubs that change no state.

Runs (`MC_LegacyAVClient`; three configurations served, deadlock not
checked because a client whose calls are spent stops):
- `legacy_concurrent` (pass): 4 calls, 2 in flight, up to two restarts;
  1,840 distinct states. It checks `TypeOK`: storage holds exactly the three
  keys the client sets, each unset or a call's answer. Its mutant stores the
  key pair under a misspelt key.

The run reaches the torn write: a restart between two `storage.set` calls
leaves keys from two authentications. The code neither detects nor repairs
this; a later complete authentication overwrites the torn keys. No property
is spent on it. Without a restart the three writes are one step, since no
await separates them, so they cannot tear; with one, the tear is reached by
construction. Spec 1 leaves the persistence adapter out of scope, so there
is no stated recovery to check.
- `legacy_config_replaced` (violation): `ConfigPopulatedOnce`. Two calls
  started before the first answer both fetch, and the later answer
  replaces a populated configuration. The comment at line 93 says the
  fetch happens only "if it hasn't been populated yet".

The model also reaches a configuration without an election cached for good.
Every later call then skips the fetch and throws at line 102. No property
states that this recovers, because the code never refetches.

The legacy client writes `keyPair`, private key included, to the app's
`Storage`. Spec 3 says the private key is never persisted. No property
reads key material, so this is recorded here only.

## `SubmitVotes`: submission and receipt verification

### Model
- Several voters each run `signAndSubmitVotes` against one board.
- The board appends entries to its hash chain and signs the receipt hash.
- The network answers `submitVotes` either with the board's reply or with a receipt it made up. A made-up receipt is built from:
  - board hashes and times it has seen;
  - a board hash computed to pass the board-hash check;
  - a replayed server signature, or one under its own key;
  - any submission id.
- Hashes are ideal: a record naming what was hashed.
- Signatures are records naming signer and message, and only the board signs with the board key.

### Actions
- `Call`: the method starts.
- `Acknowledge`: `acknowledge`, lines 71-83. It rejects when the hash or the time is absent.
- `BoardAppend`: the board, modelled from the spec.
- `SubmitResponse`: `submit`, then `verifyReceipt`. It rejects for the first check that fails (lines 100 and 112).
- `SubmitError`: `data.error`.
- `NetworkResponse`.

### Runs (`MC_SubmitVotes`)
- `submit_receipts` (pass): two voters, a chain of two entries, two calls per voter, voter symmetry. It checks `TypeOK`, which includes that a call waiting on `submit` holds an acknowledgement of a chain hash and a board time. It also checks `ReceiptSound`: an accepted receipt names a board entry that holds this call's content hash and voter signature, with the receipt's previous board hash, board hash and time. A voter stops when its calls are spent, so deadlock is not checked.
- `submit_receipt_id` (violation): `voteSubmissionId` is not verified, and the network can change it.

## `DeterministicRandomWords`: test randomness
The tests stub sjcl's `prng.randomWords` with `deterministicRandomWords`
(`src/test/test_helpers.ts` 9-28). Each call returns `nwords` consecutive
signed words from the global `deterministicOffset`, wrapping to
`lowestValidNumber` past `highestValidNumber`. It then increments the
offset by one. `resetDeterministicOffset` (36-38) sets the offset to 0. An
undefined offset is reset on the first call.

The loop is the recursive function `Words`, built from one `LoopStep` per
iteration. The word width is the constant `Width`: 32 in the code and 3 in
the run. TLC's integers are 32-bit, and a small width lets a few calls
reach the wrap. The offset itself is never wrapped, as in the code.

The variable `requested` holds the `nwords` argument of the last call.

`random_words` (pass) allows calls of up to 9 words and up to 10 calls
between resets. It checks `WordsMatchReference`: every call returns exactly
`ReferenceWords(offset, nwords)`, a closed form (the `nwords` consecutive
words modulo 2^Width, from the offset, or from the lowest word once the
offset is past the highest). Every reference word is a signed word of the
width, so this also says that sjcl is never handed a word out of range.

The run covers calls that wrap more than once and calls that start past
the highest word. The property is also proved for every width (see
`DeterministicRandomWordsProofs`). The reference counts the words of the
width as `WordCount == highestValidNumber - lowestValidNumber + 1`, which is
2^Width. `PowerAssumption` states that 2^(Width - 1) is a positive natural.
That is arithmetic, not a claim about the code, and TLC evaluates it on
every run; the provers need it because they treat `^` with a symbolic
exponent as uninterpreted.

## Bounds and fairness
Each property's counterexample needs at most two calls in flight and two
voters or e-mails, and the bounds allow that many:
- two calls in flight give the overlapping registrations;
- two voters give replay of another voter's receipt;
- two ledger entries give replay across entries;
- a second attempt gives a retry.

No run assumes fairness: every property is a safety property. The code
sets no timeouts, so nothing it does justifies a liveness assumption.

The legacy runs need two calls in flight for the double fetch; restarts
are allowed between any two storage writes.

## Proofs (`AVClientSessionProofs`)
TLAPS proves three theorems for all constants, from `ConstantsAssumption` and
`NoneAssumption`:
- `TypeCorrect`: `Spec => []TypeOK`
- `PrerequisitesHold`: `Spec => []Prerequisites`
- `PendingSoundHolds`: `Spec => []PendingSound`

`Prerequisites` is not inductive. A continuation sets fields on the strength
of checks its invocation made earlier. `PendingSound` records those checks on
each suspended call:
- every call but `initialize` started with a configuration;
- the e-mail it carries;
- `validateAccessCode` started with an e-mail recorded;
- `registerVoter` stored a key pair and registers a key of its own.

`IInv == TypeOK /\ Prerequisites /\ PendingSound` is inductive. The proof of
that has one lemma per action. `AwaitPreserves` covers the invocations that
only suspend, and `RejectPreserves` covers the synchronous throws. The
session run checks `IInv`'s three conjuncts.

## Proofs (`LegacyAVClientProofs`)
From `LegacyAssumption`, for all constants:
- `TypeCorrect`: `Spec => []TypeOK`, across any number of restarts.

`TypeOK` is inductive as it stands. `WrittenTyped` says that setting the
first `n` keys to a call's answer keeps storage on its three keys, and
`ProceedTyped` that a resuming call leaves or moves on to authentication.

## Proofs (`SubmitVotesProofs`)
`ReceiptSoundHolds`: `Spec => []ReceiptSound`, for any set of voters and any
bounds. The network may answer with any receipt it can build.

`ReceiptSound` is not inductive. The inductive invariant `RInv` adds:
- `LedgerWellFormed`: every chain entry's board hash is the hash of its own
  fields, and its server signature is the board's signature of the receipt
  hash of that board hash and the entry's voter signature;
- `RepliesSigned`: a pending honest reply carries the server signature of a
  chain entry;
- `ReceiptAccepted`: a receipt is held only by an accepted call;
- `LedgerIsSeq` and `VoterFunctions` (types).

The argument: a receipt that verifies carries a board-key signature. Only the
board signs with that key (`KeysDistinct`), so the signature is a chain
entry's. Ideal hashes are injective, so the entry's fields are the ones the
receipt and the call name (`VerifiedReceiptSound`). There is one lemma per
action. `SubmitResponsePreserves` serves both the honest reply and the
network's receipt.

Type correctness is proved too. `TypeCorrect` states `Spec => []TypeOK`.
Its inductive invariant is `TInv == RInv /\ TypeOK`, for two reasons:
- the length bound and the acknowledged hashes need the chain to be a
  sequence, and an append must forget no hash (`KnownHashesGrow`);
- resetting a call's receipt in `Call` needs `receipt` to be a function on
  the voters.

The attempt to prove `TypeOK` changed one conjunct. It used to say that a
call waiting on `submit` has an acknowledgement other than `None`. No
assumption TLC can evaluate says that `None` is not an acknowledgement
record, so that form could not be proved. The conjunct now states what the
proof needs and what the code relies on: the acknowledgement is a record of
a chain hash and a board time.

## Proofs (`DeterministicRandomWordsProofs`)
From `RandomWordsAssumption` and `PowerAssumption`, for every word width,
every offset and every `nwords`:
- `TypeCorrect`: `Spec => []TypeOK`;
- `WordsMatchReferenceHolds`: `Spec => WordsMatchReference`, an action
  property.

The core lemma is `WordsReference`: `Words(offset, n) =
ReferenceWords(offset, n)`. The argument has three parts.
- `Closed(offset, n)` is the closed form of the loop's states: after `i`
  iterations the counter is one past the `i`-th reference word, and the
  output holds the first `i` reference words.
- `ClosedStep`: `Closed` satisfies the loop's recursion. This rests on
  `SignedWordSucc`: the signed word after the highest is the lowest, and
  after any other word it is that word plus one. That lemma is proved from
  `ModSucc` and `ModUnique` about `%`.
- `LoopIsClosed`: the recursive function of `Words` therefore exists, and it
  equals `Closed`. Any index where the two differed would have a least such
  index (`LeastNat`). The two agree one index before it, and both take one
  `LoopStep` from there, which is a contradiction.

`LeastNat` is derived from `WFMin` and `NatLessThanWellFounded` of the
library's `WellFoundedInduction`, which take no operator parameter. This
sidesteps `NatInduction`, whose predicate parameter the provers cannot
instantiate.

## What only TLC checks
- every violation.

Every property of the passing runs is proved.

What the prover cannot do here:
- liveness and `ENABLED` (no run of this project needs them);
- the library's induction theorems, which take an operator parameter (see
  above for the way around it);
- `RECURSIVE` operators: none of the proof modules reaches one.

## Plan for later work
- A composed model in which the session hands its fields to `SubmitVotes`, once the submission path can run.
