----------------------------- MODULE SubmitVotes -----------------------------
(***************************************************************************)
(* The vote submission protocol of src/lib/av_client/submit_votes.ts,      *)
(* class SubmitVotes, run by several voters against one bulletin board     *)
(* through a network that may alter every answer.                          *)
(*                                                                         *)
(* signAndSubmitVotes awaits twice: acknowledge() (getBoardHash) and       *)
(* submit() (submitVotes); verifyReceipt has no await of its own and runs  *)
(* in the continuation of submit.  Each voter's call is a small state      *)
(* machine pc[v]; the board appends accepted ballots to its hash chain;    *)
(* the network hands the client either the board's answer or one it made  *)
(* up from what it has seen (board hashes, server signatures, times).      *)
(*                                                                         *)
(* Hashing (Crypto.hashString of JSON.stringify of a flat object) and      *)
(* Schnorr signatures are taken as ideal: a hash is a record naming what   *)
(* was hashed, so two hashes are equal only if their inputs are; a         *)
(* signature names its signer and message, and only the signer's key       *)
(* verifies it.  The network does not hold the board's signing key.        *)
(***************************************************************************)
EXTENDS Naturals, Sequences

CONSTANTS
    Voters,        \* voter identifiers submitting (one client call each)
    MaxLedger,     \* bound on the length of the board's hash chain
    MaxAttempts,   \* bound on signAndSubmitVotes calls per voter
    None           \* an absent field of an answer

ASSUME SubmitVotesAssumption ==
    /\ MaxLedger \in Nat
    /\ MaxAttempts \in Nat
    /\ None \notin Nat

\* The board's signing key (the election's signingPublicKey verifies it)
\* and a key the network controls.
BoardKey == "board"
NetworkKey == "network"

\* The board hash of the empty chain.
Genesis == [hashOf |-> "genesis"]

\* Times the board's clock (registeredAt, currentTime) can show.
Times == 0 .. MaxLedger

\* Crypto.hashString(JSON.stringify(content)) for the signed content.
ContentHash(ackAt, ackHash, voter) ==
    [hashOf |-> "content", acknowledged_at |-> ackAt,
     acknowledged_board_hash |-> ackHash, voter_identifier |-> voter]

\* The board hash of verifyReceipt: hash of content hash, previous board
\* hash and registration time.
BoardHash(ch, prev, at) ==
    [hashOf |-> "board", content_hash |-> ch, previous_board_hash |-> prev,
     registered_at |-> at]

\* The receipt hash of verifyReceipt: hash of board hash and voter signature.
ReceiptHash(bh, sig) == [hashOf |-> "receipt", board_hash |-> bh, signature |-> sig]

\* Schnorr signature of msg under key, and its verification.
Sign(msg, key) == [signer |-> key, msg |-> msg]
VerifySignature(sig, msg, key) == sig.signer = key /\ sig.msg = msg

\* Each voter's own key pair.
VoterKey(v) == v

VARIABLES
    ledger,     \* the board's chain: sequence of entries
    pc,         \* voter -> where its signAndSubmitVotes call is
    ack,        \* voter -> the acknowledged board answer of the current call
    reply,      \* voter -> the board's receipt for the current call, or None
    receipt,    \* voter -> the receipt the last call returned, or None
    error,      \* voter -> why the last call rejected, or None
    attempts    \* voter -> number of calls made

vars == <<ledger, pc, ack, reply, receipt, error, attempts>>

\* The rejections of signAndSubmitVotes: no board hash (line 75), the
\* board's error description (line 57), corrupt board hash (line 101),
\* corrupt server signature (line 113).
Rejections == {"noBoardHash", "boardError", "corruptBoardHash", "corruptServerSignature"}

\* The board hash at the head of the chain.
HeadHash == IF ledger = <<>> THEN Genesis ELSE ledger[Len(ledger)].boardHash

\* What the network has seen and can replay.
KnownHashes == {Genesis} \cup {ledger[i].boardHash : i \in 1 .. Len(ledger)}
KnownSignatures == {ledger[i].serverSignature : i \in 1 .. Len(ledger)}

\* The content hash and the voter signature of voter v's current call.
CallContentHash(v) == ContentHash(ack[v].currentTime, ack[v].currentBoardHash, v)
VoterSignature(v) == Sign(CallContentHash(v), VoterKey(v))

-----------------------------------------------------------------------------
Init ==
    /\ ledger = <<>>
    /\ pc = [v \in Voters |-> "idle"]
    /\ ack = [v \in Voters |-> None]
    /\ reply = [v \in Voters |-> None]
    /\ receipt = [v \in Voters |-> None]
    /\ error = [v \in Voters |-> None]
    /\ attempts = [v \in Voters |-> 0]

\* The caller invokes signAndSubmitVotes; acknowledge() awaits getBoardHash.
Call(v) ==
    /\ pc[v] \in {"idle", "accepted", "rejected"}
    /\ attempts[v] < MaxAttempts
    /\ pc' = [pc EXCEPT ![v] = "ack"]
    /\ attempts' = [attempts EXCEPT ![v] = @ + 1]
    /\ receipt' = [receipt EXCEPT ![v] = None]
    /\ error' = [error EXCEPT ![v] = None]
    /\ UNCHANGED <<ledger, ack, reply>>

\* Variant of acknowledge() without the presence check of line 74.
AcknowledgeUnchecked(v, h, t) ==
    /\ pc[v] = "ack"
    /\ ack' = [ack EXCEPT ![v] = [currentBoardHash |-> h, currentTime |-> t]]
    /\ pc' = [pc EXCEPT ![v] = "submit"]
    /\ UNCHANGED <<ledger, reply, receipt, error, attempts>>

\* acknowledge(): the answer to getBoardHash must carry both a board hash
\* and a time, else the call rejects.  With both, the content is built,
\* hashed and signed and submitVotes is awaited.
Acknowledge(v, h, t) ==
    /\ pc[v] = "ack"
    /\ \/ /\ h = None \/ t = None
          /\ pc' = [pc EXCEPT ![v] = "rejected"]
          /\ error' = [error EXCEPT ![v] = "noBoardHash"]
          /\ UNCHANGED ack
       \/ /\ h # None /\ t # None
          /\ ack' = [ack EXCEPT ![v] = [currentBoardHash |-> h, currentTime |-> t]]
          /\ pc' = [pc EXCEPT ![v] = "submit"]
          /\ UNCHANGED error
    /\ UNCHANGED <<ledger, reply, receipt, attempts>>

\* The board appends the submitted ballot to its chain and signs the
\* receipt hash; the answer is on its way back.
BoardAppend(v) ==
    /\ pc[v] = "submit" /\ reply[v] = None
    /\ Len(ledger) < MaxLedger
    /\ LET at == Len(ledger) + 1
           bh == BoardHash(CallContentHash(v), HeadHash, at)
           entry == [contentHash |-> CallContentHash(v),
                     signature |-> VoterSignature(v),
                     previousBoardHash |-> HeadHash,
                     boardHash |-> bh,
                     registeredAt |-> at,
                     serverSignature |-> Sign(ReceiptHash(bh, VoterSignature(v)), BoardKey),
                     voteSubmissionId |-> Len(ledger) + 1]
       IN /\ ledger' = Append(ledger, entry)
          /\ reply' = [reply EXCEPT ![v] = [previousBoardHash |-> entry.previousBoardHash,
                                             boardHash |-> bh,
                                             registeredAt |-> at,
                                             serverSignature |-> entry.serverSignature,
                                             voteSubmissionId |-> entry.voteSubmissionId]]
    /\ UNCHANGED <<pc, ack, receipt, error, attempts>>

\* A receipt as submit() builds it from the answer's data.
Receipt(prev, bh, at, sig, id) ==
    [previousBoardHash |-> prev, boardHash |-> bh, registeredAt |-> at,
     serverSignature |-> sig, voteSubmissionId |-> id]

\* verifyReceipt: recompute the board hash, then check the server
\* signature over the receipt hash with the election's signing key.
BoardHashValid(v, r) ==
    BoardHash(CallContentHash(v), r.previousBoardHash, r.registeredAt) = r.boardHash
ServerSignatureValid(v, r) ==
    VerifySignature(r.serverSignature, ReceiptHash(r.boardHash, VoterSignature(v)),
                    BoardKey)
\* Variant of verifyReceipt without the server-signature check (lines 104-114).
VerifyReceiptNoSignature(v, r) == BoardHashValid(v, r)
VerifyReceipt(v, r) == BoardHashValid(v, r) /\ ServerSignatureValid(v, r)

\* submit() resumes with receipt r: if it verifies, the call resolves with
\* it; otherwise it rejects, for the first check that fails.
SubmitResponse(v, r) ==
    /\ pc[v] = "submit"
    /\ \/ /\ VerifyReceipt(v, r)
          /\ pc' = [pc EXCEPT ![v] = "accepted"]
          /\ receipt' = [receipt EXCEPT ![v] = r]
          /\ UNCHANGED error
       \/ /\ ~BoardHashValid(v, r)
          /\ pc' = [pc EXCEPT ![v] = "rejected"]
          /\ error' = [error EXCEPT ![v] = "corruptBoardHash"]
          /\ UNCHANGED receipt
       \/ /\ BoardHashValid(v, r) /\ ~ServerSignatureValid(v, r)
          /\ pc' = [pc EXCEPT ![v] = "rejected"]
          /\ error' = [error EXCEPT ![v] = "corruptServerSignature"]
          /\ UNCHANGED receipt
    /\ reply' = [reply EXCEPT ![v] = None]
    /\ UNCHANGED <<ledger, ack, attempts>>

\* submit() resumes with data.error (or the request failed): the call
\* rejects with the error's description.
SubmitError(v) ==
    /\ pc[v] = "submit"
    /\ pc' = [pc EXCEPT ![v] = "rejected"]
    /\ error' = [error EXCEPT ![v] = "boardError"]
    /\ reply' = [reply EXCEPT ![v] = None]
    /\ UNCHANGED <<ledger, ack, receipt, attempts>>

\* The network answers submitVotes itself with a receipt made of known
\* board hashes and times, a board hash it computed so that the board-hash
\* check passes, a replayed server signature or one under its own key, and
\* any submission id.
NetworkResponse(v) ==
    /\ pc[v] = "submit"
    /\ \E prev \in KnownHashes, at \in Times, id \in 1 .. MaxLedger :
        \E bh \in KnownHashes \cup {BoardHash(CallContentHash(v), prev, at)} :
          \E sig \in KnownSignatures \cup
                     {Sign(ReceiptHash(bh, VoterSignature(v)), NetworkKey)} :
            SubmitResponse(v, Receipt(prev, bh, at, sig, id))

Next ==
    \E v \in Voters :
        \/ Call(v)
        \/ \E h \in KnownHashes \cup {None}, t \in Times \cup {None} :
              Acknowledge(v, h, t)
        \/ BoardAppend(v)
        \/ /\ reply[v] # None
           /\ SubmitResponse(v, reply[v])
        \/ NetworkResponse(v)
        \/ SubmitError(v)

Spec == Init /\ [][Next]_vars

-----------------------------------------------------------------------------
(* Properties                                                              *)

TypeOK ==
    /\ Len(ledger) <= MaxLedger
    /\ pc \in [Voters -> {"idle", "ack", "submit", "accepted", "rejected"}]
    /\ ack \in [Voters -> [currentBoardHash : KnownHashes, currentTime : Times] \cup {None}]
    /\ error \in [Voters -> Rejections \cup {None}]
    /\ attempts \in [Voters -> 0 .. MaxAttempts]
    /\ \A v \in Voters :
          pc[v] = "submit" => ack[v] \in [currentBoardHash : KnownHashes, currentTime : Times]
    /\ \A v \in Voters : receipt[v] # None => pc[v] = "accepted"

\* The point of verifyReceipt (spec 4.4): the client is the final arbiter
\* of receipt validity.  Whatever the network hands back, a receipt the
\* call resolves with names an entry of the board's chain that holds this
\* call's own content hash and voter signature, with that entry's previous
\* board hash, board hash and registration time.
ReceiptSound ==
    \A v \in Voters :
        receipt[v] # None =>
            \E i \in 1 .. Len(ledger) :
                /\ ledger[i].contentHash = CallContentHash(v)
                /\ ledger[i].signature = VoterSignature(v)
                /\ ledger[i].previousBoardHash = receipt[v].previousBoardHash
                /\ ledger[i].boardHash = receipt[v].boardHash
                /\ ledger[i].registeredAt = receipt[v].registeredAt

\* Spec 4.4: "Only if both checks pass is the receipt returned": every field
\* of the returned receipt, voteSubmissionId included, is the board's.
ReceiptMatchesLedger ==
    \A v \in Voters :
        receipt[v] # None =>
            \E i \in 1 .. Len(ledger) :
                /\ ledger[i].contentHash = CallContentHash(v)
                /\ ledger[i].previousBoardHash = receipt[v].previousBoardHash
                /\ ledger[i].boardHash = receipt[v].boardHash
                /\ ledger[i].registeredAt = receipt[v].registeredAt
                /\ ledger[i].voteSubmissionId = receipt[v].voteSubmissionId

=============================================================================
