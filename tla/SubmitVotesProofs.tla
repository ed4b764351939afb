-------------------------- MODULE SubmitVotesProofs --------------------------
(***************************************************************************)
(* Proof that verifyReceipt makes every receipt signAndSubmitVotes returns *)
(* sound (ReceiptSound), for any number of voters, attempts and chain      *)
(* length, against the network of SubmitVotes.                            *)
(*                                                                         *)
(* The argument: a receipt is accepted only if its server signature        *)
(* verifies under the board's key.  The network has no such signature but  *)
(* the ones it saw on the board's chain, and each of those signs the       *)
(* receipt hash of its own entry.  Hashes are injective, so the receipt's  *)
(* board hash and the call's voter signature are that entry's; the board   *)
(* hash check then pins the content hash, previous hash and time.  The     *)
(* chain only grows and a call's acknowledgement changes only in a later   *)
(* call, which first clears the receipt, so soundness persists.            *)
(***************************************************************************)
EXTENDS SubmitVotes, SequenceTheorems, TLAPS

\* The board's chain is a sequence.
LedgerIsSeq == \E S : ledger \in Seq(S)

\* Every entry of the chain carries the board hash of its own fields and
\* the board's signature over the receipt hash of that board hash and the
\* entry's voter signature.
LedgerWellFormed ==
    \A i \in 1 .. Len(ledger) :
        /\ ledger[i].boardHash = BoardHash(ledger[i].contentHash,
                                           ledger[i].previousBoardHash,
                                           ledger[i].registeredAt)
        /\ ledger[i].serverSignature = Sign(ReceiptHash(ledger[i].boardHash,
                                                        ledger[i].signature),
                                            BoardKey)

\* The per-voter variables are functions on the voters.
VoterFunctions ==
    /\ pc = [v \in Voters |-> pc[v]]
    /\ ack = [v \in Voters |-> ack[v]]
    /\ reply = [v \in Voters |-> reply[v]]
    /\ receipt = [v \in Voters |-> receipt[v]]

\* The board's answer in flight carries a server signature of the chain,
\* and only a call waiting on submit has one.
RepliesSigned ==
    \A v \in Voters :
        reply[v] # None =>
            /\ pc[v] = "submit"
            /\ \E i \in 1 .. Len(ledger) :
                   reply[v].serverSignature = ledger[i].serverSignature

\* Only a call that resolved holds a receipt.
ReceiptAccepted == \A v \in Voters : receipt[v] # None => pc[v] = "accepted"

\* The inductive invariant.
RInv == /\ LedgerIsSeq /\ LedgerWellFormed /\ VoterFunctions
        /\ RepliesSigned /\ ReceiptAccepted /\ ReceiptSound

-----------------------------------------------------------------------------
\* No signature the network makes verifies under the board's key.
LEMMA KeysDistinct == BoardKey # NetworkKey
BY DEF BoardKey, NetworkKey

\* Appending an entry keeps the chain a sequence, keeps the old entries,
\* and adds the new one at the end.
LEMMA AppendLedger ==
    ASSUME LedgerIsSeq, NEW e
    PROVE  /\ \E S : Append(ledger, e) \in Seq(S)
           /\ Len(Append(ledger, e)) = Len(ledger) + 1
           /\ Len(ledger) \in Nat
           /\ \A i \in 1 .. Len(ledger) : Append(ledger, e)[i] = ledger[i]
           /\ Append(ledger, e)[Len(ledger) + 1] = e
<1>1. PICK S : ledger \in Seq(S)
  BY DEF LedgerIsSeq
<1>2. ledger \in Seq(S \cup {e})
  BY <1>1, SeqMonotonic
<1>3. QED
  BY <1>2, AppendProperties, LenProperties

\* A receipt whose server signature is one of the chain's and which passes
\* both checks of verifyReceipt names the chain entry of this call.
LEMMA VerifiedReceiptSound ==
    ASSUME LedgerWellFormed, NEW v \in Voters, NEW r,
           NEW j \in 1 .. Len(ledger),
           r.serverSignature = ledger[j].serverSignature,
           VerifyReceipt(v, r)
    PROVE  /\ ledger[j].contentHash = CallContentHash(v)
           /\ ledger[j].signature = VoterSignature(v)
           /\ ledger[j].previousBoardHash = r.previousBoardHash
           /\ ledger[j].boardHash = r.boardHash
           /\ ledger[j].registeredAt = r.registeredAt
<1> DEFINE e == ledger[j]
<1>1. e.serverSignature = Sign(ReceiptHash(e.boardHash, e.signature), BoardKey)
  BY DEF LedgerWellFormed
<1>2. e.boardHash = BoardHash(e.contentHash, e.previousBoardHash, e.registeredAt)
  BY DEF LedgerWellFormed
<1>3. r.serverSignature.msg = ReceiptHash(r.boardHash, VoterSignature(v))
  BY DEF VerifyReceipt, ServerSignatureValid, VerifySignature
<1>4. ReceiptHash(e.boardHash, e.signature) = ReceiptHash(r.boardHash, VoterSignature(v))
  BY <1>1, <1>3 DEF Sign
<1>5. e.boardHash = r.boardHash /\ e.signature = VoterSignature(v)
  <2>1. ReceiptHash(e.boardHash, e.signature).board_hash = e.boardHash
        /\ ReceiptHash(e.boardHash, e.signature).signature = e.signature
    BY DEF ReceiptHash
  <2>2. ReceiptHash(r.boardHash, VoterSignature(v)).board_hash = r.boardHash
        /\ ReceiptHash(r.boardHash, VoterSignature(v)).signature = VoterSignature(v)
    BY DEF ReceiptHash
  <2>3. QED
    BY <1>4, <2>1, <2>2
<1>6. BoardHash(CallContentHash(v), r.previousBoardHash, r.registeredAt)
        = BoardHash(e.contentHash, e.previousBoardHash, e.registeredAt)
  BY <1>2, <1>5 DEF VerifyReceipt, BoardHashValid
<1>7. /\ e.contentHash = CallContentHash(v)
      /\ e.previousBoardHash = r.previousBoardHash
      /\ e.registeredAt = r.registeredAt
  BY <1>6 DEF BoardHash
<1>8. QED
  BY <1>5, <1>7

\* The empty chain of a new board satisfies the inductive invariant.
LEMMA InitRInv == Init => RInv
<1> SUFFICES ASSUME Init PROVE RInv
  OBVIOUS
<1>1. LedgerIsSeq
  BY EmptySeq DEF Init, LedgerIsSeq
<1>2. Len(ledger) = 0
  BY EmptySeq DEF Init
<1>3. QED
  BY <1>1, <1>2 DEF Init, RInv, LedgerWellFormed, VoterFunctions,
     RepliesSigned, ReceiptAccepted, ReceiptSound

\* signAndSubmitVotes starts: the call's receipt is cleared.
LEMMA CallPreserves ==
    ASSUME RInv, NEW v \in Voters, Call(v)
    PROVE  RInv'
<1>1. reply[v] = None
  BY DEF RInv, RepliesSigned, Call
<1>2. RepliesSigned'
  BY <1>1 DEF RInv, RepliesSigned, VoterFunctions, Call
<1>3. ReceiptAccepted' /\ ReceiptSound'
  BY DEF RInv, ReceiptAccepted, ReceiptSound, VoterFunctions, Call,
     CallContentHash, VoterSignature
<1>4. QED
  BY <1>2, <1>3 DEF RInv, LedgerIsSeq, LedgerWellFormed, VoterFunctions, Call

\* acknowledge() stores the board's answer for a call that holds neither a
\* receipt nor a reply.
LEMMA AcknowledgePreserves ==
    ASSUME RInv, NEW v \in Voters, NEW h, NEW t, Acknowledge(v, h, t)
    PROVE  RInv'
<1>1. reply[v] = None /\ receipt[v] = None
  BY DEF RInv, RepliesSigned, ReceiptAccepted, Acknowledge
<1>2. \A w \in Voters \ {v} : CallContentHash(w)' = CallContentHash(w)
                             /\ VoterSignature(w)' = VoterSignature(w)
  BY DEF RInv, VoterFunctions, Acknowledge, CallContentHash, VoterSignature,
     ContentHash, Sign, VoterKey
<1>3. RepliesSigned'
  BY <1>1 DEF RInv, RepliesSigned, VoterFunctions, Acknowledge
<1>4. ReceiptAccepted'
  BY DEF RInv, ReceiptAccepted, VoterFunctions, Acknowledge
<1>5. ReceiptSound'
  BY <1>1, <1>2 DEF RInv, ReceiptSound, VoterFunctions, Acknowledge
<1>6. QED
  BY <1>3, <1>4, <1>5 DEF RInv, LedgerIsSeq, LedgerWellFormed, VoterFunctions,
     Acknowledge

\* The board appends a well-formed entry for the call and its answer
\* carries that entry's server signature.
LEMMA BoardAppendPreserves ==
    ASSUME RInv, NEW v \in Voters, BoardAppend(v)
    PROVE  RInv'
<1> DEFINE at == Len(ledger) + 1
           bh == BoardHash(CallContentHash(v), HeadHash, at)
           entry == [contentHash |-> CallContentHash(v),
                     signature |-> VoterSignature(v),
                     previousBoardHash |-> HeadHash,
                     boardHash |-> bh,
                     registeredAt |-> at,
                     serverSignature |-> Sign(ReceiptHash(bh, VoterSignature(v)), BoardKey),
                     voteSubmissionId |-> Len(ledger) + 1]
<1>1. /\ ledger' = Append(ledger, entry)
      /\ reply' = [reply EXCEPT ![v] = [previousBoardHash |-> entry.previousBoardHash,
                                        boardHash |-> bh,
                                        registeredAt |-> at,
                                        serverSignature |-> entry.serverSignature,
                                        voteSubmissionId |-> entry.voteSubmissionId]]
      /\ UNCHANGED <<pc, ack, receipt, error, attempts>>
  BY DEF BoardAppend
<1>2. /\ \E S : ledger' \in Seq(S)
      /\ Len(ledger') = Len(ledger) + 1
      /\ Len(ledger) \in Nat
      /\ \A i \in 1 .. Len(ledger) : ledger'[i] = ledger[i]
      /\ ledger'[Len(ledger) + 1] = entry
  BY <1>1, AppendLedger DEF RInv
<1>3. \A w \in Voters : CallContentHash(w)' = CallContentHash(w)
                       /\ VoterSignature(w)' = VoterSignature(w)
  BY <1>1 DEF CallContentHash, VoterSignature
<1>4. LedgerIsSeq'
  BY <1>2 DEF LedgerIsSeq
<1>5. LedgerWellFormed'
  <2> SUFFICES ASSUME NEW i \in 1 .. Len(ledger')
               PROVE  /\ ledger'[i].boardHash = BoardHash(ledger'[i].contentHash,
                                                          ledger'[i].previousBoardHash,
                                                          ledger'[i].registeredAt)
                      /\ ledger'[i].serverSignature =
                            Sign(ReceiptHash(ledger'[i].boardHash, ledger'[i].signature),
                                 BoardKey)
    BY DEF LedgerWellFormed
  <2>1. CASE i \in 1 .. Len(ledger)
    BY <1>2, <2>1 DEF RInv, LedgerWellFormed
  <2>2. CASE i = Len(ledger) + 1
    BY <1>2, <2>2
  <2>3. QED
    BY <1>2, <2>1, <2>2
<1>6. VoterFunctions'
  BY <1>1 DEF RInv, VoterFunctions
<1>7. RepliesSigned'
  <2> SUFFICES ASSUME NEW w \in Voters, reply'[w] # None
               PROVE  /\ pc'[w] = "submit"
                      /\ \E i \in 1 .. Len(ledger') :
                            reply'[w].serverSignature = ledger'[i].serverSignature
    BY DEF RepliesSigned
  <2>1. CASE w = v
    <3>1. pc[v] = "submit"
      BY DEF BoardAppend
    <3>2. reply'[v].serverSignature = ledger'[Len(ledger) + 1].serverSignature
      BY <1>1, <1>2 DEF RInv, VoterFunctions
    <3>3. QED
      BY <1>1, <1>2, <2>1, <3>1, <3>2
  <2>2. CASE w # v
    <3>1. reply'[w] = reply[w]
      BY <1>1, <2>2 DEF RInv, VoterFunctions
    <3>2. QED
      BY <1>1, <1>2, <3>1 DEF RInv, RepliesSigned
  <2>3. QED
    BY <2>1, <2>2
<1>8. ReceiptAccepted'
  BY <1>1 DEF RInv, ReceiptAccepted
<1>9. ReceiptSound'
  <2> SUFFICES ASSUME NEW w \in Voters, receipt'[w] # None
               PROVE  \E i \in 1 .. Len(ledger') :
                         /\ ledger'[i].contentHash = CallContentHash(w)'
                         /\ ledger'[i].signature = VoterSignature(w)'
                         /\ ledger'[i].previousBoardHash = receipt'[w].previousBoardHash
                         /\ ledger'[i].boardHash = receipt'[w].boardHash
                         /\ ledger'[i].registeredAt = receipt'[w].registeredAt
    BY DEF ReceiptSound
  <2>1. PICK i \in 1 .. Len(ledger) :
                /\ ledger[i].contentHash = CallContentHash(w)
                /\ ledger[i].signature = VoterSignature(w)
                /\ ledger[i].previousBoardHash = receipt[w].previousBoardHash
                /\ ledger[i].boardHash = receipt[w].boardHash
                /\ ledger[i].registeredAt = receipt[w].registeredAt
    BY <1>1 DEF RInv, ReceiptSound
  <2>2. QED
    BY <1>1, <1>2, <1>3, <2>1
<1>10. QED
  BY <1>4, <1>5, <1>6, <1>7, <1>8, <1>9 DEF RInv

\* submit() resumes with receipt r, whose server signature is the chain's
\* whenever the receipt verifies: the call resolves with a sound receipt
\* or rejects without one.
LEMMA SubmitResponsePreserves ==
    ASSUME RInv, NEW v \in Voters, NEW r, SubmitResponse(v, r),
           VerifyReceipt(v, r) =>
               \E j \in 1 .. Len(ledger) : r.serverSignature = ledger[j].serverSignature
    PROVE  RInv'
<1>1. receipt[v] = None
  BY DEF RInv, ReceiptAccepted, SubmitResponse
<1>2. /\ reply' = [reply EXCEPT ![v] = None]
      /\ UNCHANGED <<ledger, ack>>
      /\ pc' = [pc EXCEPT ![v] = pc'[v]]
      /\ receipt' = [receipt EXCEPT ![v] = receipt'[v]]
      /\ pc'[v] \in {"accepted", "rejected"}
      /\ receipt'[v] # None => pc'[v] = "accepted" /\ receipt'[v] = r /\ VerifyReceipt(v, r)
  BY <1>1 DEF RInv, VoterFunctions, SubmitResponse
<1>3. \A w \in Voters : CallContentHash(w)' = CallContentHash(w)
                       /\ VoterSignature(w)' = VoterSignature(w)
  BY <1>2 DEF CallContentHash, VoterSignature
<1>4. VoterFunctions'
  BY <1>2 DEF RInv, VoterFunctions
<1>5. RepliesSigned'
  BY <1>2 DEF RInv, RepliesSigned, VoterFunctions
<1>6. ReceiptAccepted'
  BY <1>2 DEF RInv, ReceiptAccepted, VoterFunctions
<1>7. ReceiptSound'
  <2> SUFFICES ASSUME NEW w \in Voters, receipt'[w] # None
               PROVE  \E i \in 1 .. Len(ledger') :
                         /\ ledger'[i].contentHash = CallContentHash(w)'
                         /\ ledger'[i].signature = VoterSignature(w)'
                         /\ ledger'[i].previousBoardHash = receipt'[w].previousBoardHash
                         /\ ledger'[i].boardHash = receipt'[w].boardHash
                         /\ ledger'[i].registeredAt = receipt'[w].registeredAt
    BY DEF ReceiptSound
  <2>1. CASE w = v
    <3>1. receipt'[v] = r /\ VerifyReceipt(v, r)
      BY <1>2, <2>1
    <3>2. PICK j \in 1 .. Len(ledger) : r.serverSignature = ledger[j].serverSignature
      BY <3>1
    <3>3. /\ ledger[j].contentHash = CallContentHash(v)
          /\ ledger[j].signature = VoterSignature(v)
          /\ ledger[j].previousBoardHash = r.previousBoardHash
          /\ ledger[j].boardHash = r.boardHash
          /\ ledger[j].registeredAt = r.registeredAt
      BY <3>1, <3>2, VerifiedReceiptSound DEF RInv
    <3>4. QED
      BY <1>2, <1>3, <2>1, <3>1, <3>3
  <2>2. CASE w # v
    <3>1. receipt'[w] = receipt[w]
      BY <1>2, <2>2 DEF RInv, VoterFunctions
    <3>2. QED
      BY <1>2, <1>3, <3>1 DEF RInv, ReceiptSound
  <2>3. QED
    BY <2>1, <2>2
<1>8. QED
  BY <1>2, <1>4, <1>5, <1>6, <1>7 DEF RInv, LedgerIsSeq, LedgerWellFormed

\* The network's receipt verifies only with a server signature it saw on
\* the chain: the one it signs itself is not the board's.
LEMMA NetworkResponsePreserves ==
    ASSUME RInv, NEW v \in Voters, NetworkResponse(v)
    PROVE  RInv'
<1>1. PICK prev \in KnownHashes, at \in Times, id \in 1 .. MaxLedger :
         \E bh \in KnownHashes \cup {BoardHash(CallContentHash(v), prev, at)} :
           \E sig \in KnownSignatures \cup
                      {Sign(ReceiptHash(bh, VoterSignature(v)), NetworkKey)} :
             SubmitResponse(v, Receipt(prev, bh, at, sig, id))
  BY DEF NetworkResponse
<1>a. PICK bh \in KnownHashes \cup {BoardHash(CallContentHash(v), prev, at)} :
         \E sig \in KnownSignatures \cup
                    {Sign(ReceiptHash(bh, VoterSignature(v)), NetworkKey)} :
           SubmitResponse(v, Receipt(prev, bh, at, sig, id))
  BY <1>1
<1>b. PICK sig \in KnownSignatures \cup
                   {Sign(ReceiptHash(bh, VoterSignature(v)), NetworkKey)} :
         SubmitResponse(v, Receipt(prev, bh, at, sig, id))
  BY <1>a
<1> DEFINE r == Receipt(prev, bh, at, sig, id)
<1>2. r.serverSignature = sig
  BY DEF Receipt
<1>3. VerifyReceipt(v, r) => sig # Sign(ReceiptHash(bh, VoterSignature(v)), NetworkKey)
  BY <1>2, KeysDistinct DEF VerifyReceipt, ServerSignatureValid, VerifySignature, Sign
<1>4. VerifyReceipt(v, r) =>
        \E j \in 1 .. Len(ledger) : r.serverSignature = ledger[j].serverSignature
  BY <1>2, <1>3 DEF KnownSignatures
<1>5. QED
  BY <1>b, <1>4, SubmitResponsePreserves

\* The board's error rejects the call without a receipt.
LEMMA SubmitErrorPreserves ==
    ASSUME RInv, NEW v \in Voters, SubmitError(v)
    PROVE  RInv'
<1>1. receipt[v] = None
  BY DEF RInv, ReceiptAccepted, SubmitError
<1>2. \A w \in Voters : CallContentHash(w)' = CallContentHash(w)
                       /\ VoterSignature(w)' = VoterSignature(w)
  BY DEF SubmitError, CallContentHash, VoterSignature
<1>3. RepliesSigned' /\ ReceiptAccepted' /\ VoterFunctions'
  BY DEF RInv, RepliesSigned, ReceiptAccepted, VoterFunctions, SubmitError
<1>4. ReceiptSound'
  BY <1>1, <1>2 DEF RInv, ReceiptSound, VoterFunctions, SubmitError
<1>5. QED
  BY <1>3, <1>4 DEF RInv, LedgerIsSeq, LedgerWellFormed, SubmitError

\* Every step of the voters, the board and the network preserves the
\* inductive invariant.
LEMMA NextRInv == RInv /\ [Next]_vars => RInv'
<1> SUFFICES ASSUME RInv, [Next]_vars PROVE RInv'
  OBVIOUS
<1>1. ASSUME NEW v \in Voters,
             \/ Call(v)
             \/ \E h \in KnownHashes \cup {None}, t \in Times \cup {None} :
                   Acknowledge(v, h, t)
             \/ BoardAppend(v)
             \/ reply[v] # None /\ SubmitResponse(v, reply[v])
             \/ NetworkResponse(v)
             \/ SubmitError(v)
      PROVE RInv'
  <2>1. CASE reply[v] # None /\ SubmitResponse(v, reply[v])
    <3>1. \E j \in 1 .. Len(ledger) : reply[v].serverSignature = ledger[j].serverSignature
      BY <2>1 DEF RInv, RepliesSigned
    <3>2. QED
      BY <2>1, <3>1, SubmitResponsePreserves
  <2>2. QED
    BY <1>1, <2>1, CallPreserves, AcknowledgePreserves, BoardAppendPreserves,
       NetworkResponsePreserves, SubmitErrorPreserves
<1>2. CASE UNCHANGED vars
  BY <1>2 DEF vars, RInv, LedgerIsSeq, LedgerWellFormed, VoterFunctions,
     RepliesSigned, ReceiptAccepted, ReceiptSound, CallContentHash, VoterSignature
<1>3. QED
  BY <1>1, <1>2 DEF Next

\* verifyReceipt is sound (spec 4.4, the property ReceiptSound of the run
\* submit_receipts): whatever the network answers, every receipt
\* signAndSubmitVotes resolves with names the board's chain entry holding
\* the call's own content hash and voter signature, with the receipt's
\* previous board hash, board hash and registration time; for any number
\* of voters, attempts and entries.
THEOREM ReceiptSoundHolds == Spec => []ReceiptSound
<1>1. RInv => ReceiptSound
  BY DEF RInv
<1>2. QED
  BY <1>1, InitRInv, NextRInv, PTL DEF Spec

-----------------------------------------------------------------------------
(* Type correctness.  TypeOK is not inductive on its own: the length bound *)
(* and the known hashes of the acknowledgements need the chain to be a     *)
(* sequence, and resetting a call's receipt needs receipt to be a function *)
(* on the voters, so TInv adds the invariant RInv of soundness.            *)

TInv == RInv /\ TypeOK

\* Appending to the chain forgets no board hash: an acknowledgement of an
\* earlier head stays one of the chain's hashes.
LEMMA KnownHashesGrow ==
    ASSUME LedgerIsSeq, NEW e, ledger' = Append(ledger, e)
    PROVE  KnownHashes \subseteq KnownHashes'
<1>1. /\ Len(ledger') = Len(ledger) + 1
      /\ Len(ledger) \in Nat
      /\ \A i \in 1 .. Len(ledger) : ledger'[i] = ledger[i]
  BY AppendLedger
<1>2. \A i \in 1 .. Len(ledger) : i \in 1 .. Len(ledger')
  BY <1>1
<1>3. QED
  BY <1>1, <1>2 DEF KnownHashes

LEMMA InitTInv == Init => TInv
<1> SUFFICES ASSUME Init PROVE TInv
  OBVIOUS
<1>1. LedgerIsSeq /\ Len(ledger) = 0
  BY EmptySeq DEF Init, LedgerIsSeq
<1>2. TypeOK
  BY <1>1, SubmitVotesAssumption DEF Init, TypeOK
<1>3. QED
  BY <1>2, InitRInv DEF TInv

\* The step of one voter's call, of the board or of the network keeps the
\* types; the chain changes only in BoardAppend, which needs KnownHashesGrow.
LEMMA NextTInv == TInv /\ [Next]_vars => TInv'
<1> SUFFICES ASSUME TInv, [Next]_vars PROVE TypeOK'
  BY NextRInv DEF TInv
<1>a. LedgerIsSeq /\ VoterFunctions /\ TypeOK
  BY DEF TInv, RInv
<1>0. ledger' = ledger => /\ LedgerIsSeq'
                         /\ KnownHashes' = KnownHashes
                         /\ Len(ledger') <= MaxLedger
  BY <1>a DEF LedgerIsSeq, KnownHashes, TypeOK
<1>1. ASSUME NEW v \in Voters, Call(v) PROVE TypeOK'
  <2>1. attempts' \in [Voters -> 0 .. MaxAttempts]
    <3>1. attempts \in [Voters -> 0 .. MaxAttempts] /\ attempts[v] < MaxAttempts
      BY <1>a, <1>1 DEF Call, TypeOK, VoterFunctions
    <3>2. attempts[v] + 1 \in 0 .. MaxAttempts
      BY <3>1, SubmitVotesAssumption
    <3>3. QED
      BY <1>1, <3>1, <3>2 DEF Call
  <2>2. pc' \in [Voters -> {"idle", "ack", "submit", "accepted", "rejected"}]
        /\ error' \in [Voters -> Rejections \cup {None}]
    BY <1>a, <1>1 DEF Call, TypeOK, VoterFunctions
  <2>3. /\ \A w \in Voters :
              pc'[w] = "submit" =>
                 ack'[w] \in [currentBoardHash : KnownHashes, currentTime : Times]
        /\ \A w \in Voters : receipt'[w] # None => pc'[w] = "accepted"
    BY <1>a, <1>1 DEF Call, TypeOK, VoterFunctions
  <2>4. LedgerIsSeq' /\ Len(ledger') <= MaxLedger /\ ack' = ack
        /\ KnownHashes' = KnownHashes
    BY <1>0, <1>1 DEF Call
  <2>5. QED
    BY <1>a, <2>1, <2>2, <2>3, <2>4 DEF TypeOK, VoterFunctions
<1>2. ASSUME NEW v \in Voters, NEW h \in KnownHashes \cup {None},
             NEW t \in Times \cup {None}, Acknowledge(v, h, t)
      PROVE  TypeOK'
  <2>1. /\ ledger' = ledger
        /\ UNCHANGED <<receipt, attempts>>
        /\ pc[v] = "ack"
    BY <1>2 DEF Acknowledge
  <2>2. LedgerIsSeq' /\ Len(ledger') <= MaxLedger /\ KnownHashes' = KnownHashes
    BY <1>0, <2>1
  <2>3. CASE h = None \/ t = None
    <3>1. /\ pc' = [pc EXCEPT ![v] = "rejected"]
          /\ error' = [error EXCEPT ![v] = "noBoardHash"]
          /\ ack' = ack
      BY <1>2, <2>3 DEF Acknowledge
    <3>2. QED
      BY <1>a, <2>1, <2>2, <3>1 DEF TypeOK, Rejections, VoterFunctions
  <2>4. CASE h # None /\ t # None
    <3>1. /\ ack' = [ack EXCEPT ![v] = [currentBoardHash |-> h, currentTime |-> t]]
          /\ pc' = [pc EXCEPT ![v] = "submit"]
          /\ error' = error
      BY <1>2, <2>4 DEF Acknowledge
    <3>2. h \in KnownHashes /\ t \in Times
      BY <2>4
    <3>3. ack' \in [Voters -> [currentBoardHash : KnownHashes', currentTime : Times]
                             \cup {None}]
      BY <1>a, <2>2, <3>1, <3>2 DEF TypeOK
    <3>4. pc' \in [Voters -> {"idle", "ack", "submit", "accepted", "rejected"}]
      BY <1>a, <3>1 DEF TypeOK
    <3>5. \A w \in Voters :
             pc'[w] = "submit" =>
                ack'[w] \in [currentBoardHash : KnownHashes', currentTime : Times]
      BY <1>a, <2>2, <3>1, <3>2 DEF TypeOK, VoterFunctions
    <3>6. \A w \in Voters : receipt'[w] # None => pc'[w] = "accepted"
      <4> SUFFICES ASSUME NEW w \in Voters, receipt'[w] # None
                   PROVE  pc'[w] = "accepted"
        OBVIOUS
      <4>1. receipt[v] = None
        BY <1>a, <2>1 DEF TypeOK
      <4>2. w # v
        BY <2>1, <4>1
      <4>3. receipt[w] # None => pc[w] = "accepted"
        BY <1>a DEF TypeOK
      <4>4. pc'[w] = pc[w] /\ receipt'[w] = receipt[w]
        BY <1>a, <2>1, <3>1, <4>2 DEF TypeOK
      <4>5. QED
        BY <4>3, <4>4
    <3>7. QED
      BY <1>a, <2>1, <2>2, <3>1, <3>3, <3>4, <3>5, <3>6 DEF TypeOK
  <2>5. QED
    BY <2>3, <2>4
<1>3. ASSUME NEW v \in Voters, BoardAppend(v) PROVE TypeOK'
  <2> DEFINE at == Len(ledger) + 1
             bh == BoardHash(CallContentHash(v), HeadHash, at)
             entry == [contentHash |-> CallContentHash(v),
                       signature |-> VoterSignature(v),
                       previousBoardHash |-> HeadHash,
                       boardHash |-> bh,
                       registeredAt |-> at,
                       serverSignature |-> Sign(ReceiptHash(bh, VoterSignature(v)), BoardKey),
                       voteSubmissionId |-> Len(ledger) + 1]
  <2>1. /\ ledger' = Append(ledger, entry)
        /\ Len(ledger) < MaxLedger
        /\ UNCHANGED <<pc, ack, receipt, error, attempts>>
    BY <1>3 DEF BoardAppend
  <2>2. /\ \E S : ledger' \in Seq(S)
        /\ Len(ledger') = Len(ledger) + 1
        /\ Len(ledger) \in Nat
    BY <1>a, <2>1, AppendLedger
  <2>3. LedgerIsSeq'
    BY <2>2 DEF LedgerIsSeq
  <2>7. Len(ledger') <= MaxLedger
    BY <2>1, <2>2, SubmitVotesAssumption
  <2>4. KnownHashes \subseteq KnownHashes'
    BY <1>a, <2>1, KnownHashesGrow
  <2>5. ack' \in [Voters -> [currentBoardHash : KnownHashes', currentTime : Times]
                            \cup {None}]
    <3>1. ack \in [Voters -> [currentBoardHash : KnownHashes, currentTime : Times]
                             \cup {None}]
      BY <1>a DEF TypeOK
    <3>2. QED
      BY <2>1, <2>4, <3>1
  <2>8. \A w \in Voters :
           pc'[w] = "submit" =>
              ack'[w] \in [currentBoardHash : KnownHashes', currentTime : Times]
    <3>1. \A w \in Voters :
             pc[w] = "submit" =>
                ack[w] \in [currentBoardHash : KnownHashes, currentTime : Times]
      BY <1>a DEF TypeOK
    <3>2. QED
      BY <2>1, <2>4, <3>1
  <2>6. QED
    BY <1>a, <2>1, <2>3, <2>5, <2>7, <2>8 DEF TypeOK
<1>4. ASSUME NEW v \in Voters, NEW r, SubmitResponse(v, r) PROVE TypeOK'
  <2>1. /\ pc[v] = "submit"
        /\ UNCHANGED <<ledger, ack, attempts>>
        /\ pc' = [pc EXCEPT ![v] = pc'[v]]
        /\ pc'[v] \in {"accepted", "rejected"}
        /\ error' = [error EXCEPT ![v] = error'[v]]
        /\ error'[v] \in Rejections \cup {None}
        /\ receipt' = [receipt EXCEPT ![v] = receipt'[v]]
        /\ receipt'[v] # None => pc'[v] = "accepted"
    BY <1>a, <1>4 DEF SubmitResponse, TypeOK, Rejections, VoterFunctions
  <2>2. LedgerIsSeq' /\ Len(ledger') <= MaxLedger /\ KnownHashes' = KnownHashes
    BY <1>0, <2>1
  <2>3. pc' \in [Voters -> {"idle", "ack", "submit", "accepted", "rejected"}]
        /\ error' \in [Voters -> Rejections \cup {None}]
    BY <1>a, <2>1 DEF TypeOK
  <2>4. /\ \A w \in Voters :
              pc'[w] = "submit" =>
                 ack'[w] \in [currentBoardHash : KnownHashes, currentTime : Times]
        /\ \A w \in Voters : receipt'[w] # None => pc'[w] = "accepted"
    <3> SUFFICES ASSUME NEW w \in Voters
                 PROVE  /\ pc'[w] = "submit" =>
                            ack'[w] \in [currentBoardHash : KnownHashes,
                                         currentTime : Times]
                        /\ receipt'[w] # None => pc'[w] = "accepted"
      OBVIOUS
    <3>1. CASE w = v
      BY <2>1, <3>1 DEF TypeOK
    <3>2. CASE w # v
      <4>1. pc'[w] = pc[w] /\ receipt'[w] = receipt[w] /\ ack'[w] = ack[w]
        BY <1>a, <2>1, <3>2 DEF TypeOK, VoterFunctions
      <4>2. /\ pc[w] = "submit" =>
                ack[w] \in [currentBoardHash : KnownHashes, currentTime : Times]
            /\ receipt[w] # None => pc[w] = "accepted"
        BY <1>a DEF TypeOK
      <4>3. QED
        BY <4>1, <4>2
    <3>3. QED
      BY <3>1, <3>2
  <2>5. QED
    BY <1>a, <2>1, <2>2, <2>3, <2>4 DEF TypeOK
<1>5. ASSUME NEW v \in Voters, NetworkResponse(v) PROVE TypeOK'
  <2>1. \E r : SubmitResponse(v, r)
    BY <1>5 DEF NetworkResponse
  <2>2. QED
    BY <1>4, <2>1
<1>6. ASSUME NEW v \in Voters, SubmitError(v) PROVE TypeOK'
  BY <1>a, <1>0, <1>6 DEF SubmitError, TypeOK, Rejections, VoterFunctions
<1>7. CASE UNCHANGED vars
  BY <1>a, <1>0, <1>7 DEF vars, TypeOK, VoterFunctions
<1>8. QED
  BY <1>1, <1>2, <1>3, <1>4, <1>5, <1>6, <1>7 DEF Next

\* Type correctness of vote submission (the invariant TypeOK of the run
\* submit_receipts): the chain stays within MaxLedger entries, every call
\* acknowledges a board hash that is on the chain (or the genesis hash)
\* and a time the board handed out, a call waits on submit only after an
\* acknowledgement, and only an accepted call holds a receipt; for any
\* number of voters, attempts and entries.
THEOREM TypeCorrect == Spec => []TypeOK
<1>1. TInv => TypeOK
  BY DEF TInv
<1>2. QED
  BY <1>1, InitTInv, NextTInv, PTL DEF Spec

=============================================================================
