------------------------ MODULE AVClientSessionProofs ------------------------
(***************************************************************************)
(* Proofs about the voter session of AVClientSession, for every choice of  *)
(* the constants: the type invariant, Prerequisites and PendingSound hold  *)
(* in every reachable state, however many calls are in flight.             *)
(*                                                                         *)
(* Prerequisites alone is not inductive: a continuation that resumes sets  *)
(* session fields on the strength of what its invocation checked, long     *)
(* before.  PendingSound records those facts on the suspended calls, and   *)
(* the three together are inductive.                                       *)
(***************************************************************************)
EXTENDS AVClientSession, TLAPS

\* The inductive invariant.
IInv == TypeOK /\ Prerequisites /\ PendingSound

-----------------------------------------------------------------------------
\* The initial state of a new AVClient satisfies the inductive invariant:
\* every field is unset and nothing is in flight.
LEMMA InitIInv == Init => IInv
BY ConstantsAssumption DEF Init, IInv, TypeOK, Prerequisites, PendingSound

\* The fresh id a starting call takes is an id of the model, and no id is
\* None.
LEMMA FreshId ==
    ASSUME TypeOK, CanInvoke
    PROVE  Fresh \in Ids /\ Fresh # None
BY ConstantsAssumption, NoneAssumption DEF TypeOK, CanInvoke, Fresh, Ids

\* A continuation record built by Call, with the values an invocation
\* captures, is a well-typed continuation.
LEMMA CallTyped ==
    ASSUME NEW id \in Ids, NEW op \in Ops, NEW step \in Steps,
           NEW e \in Emails \cup {None}, NEW s \in Ids \cup {None},
           NEW t \in Token \cup {None}, NEW a \in Ids \cup {None}
    PROVE  [Call(id, op, step) EXCEPT !.email = e, !.session = s, !.token = t,
                                      !.authKey = a] \in CallType
BY DEF Call, CallType

\* A method whose synchronous prefix leaves the session alone and suspends
\* with a sound, well-typed continuation preserves the inductive invariant.
LEMMA AwaitPreserves ==
    ASSUME IInv, CanInvoke, NEW c \in CallType, CallSound(c), Await(c),
           UNCHANGED <<session, env>>
    PROVE  IInv'
<1>1. TypeOK'
  <2>1. pending' \subseteq CallType
    BY DEF IInv, TypeOK, Await
  <2>4. calls' \in 0 .. MaxCalls
    BY ConstantsAssumption DEF IInv, TypeOK, CanInvoke, Await
  <2>2. UNCHANGED <<electionConfig, authorizationSessionId, email,
                    identityConfirmationToken, keyPair, voterIdentifier,
                    emptyCryptograms, contestIds, voteEncryptions, testCode,
                    lastError, authSessions, registrations>>
    BY DEF Await, session, env
  <2>3. QED
    BY <2>1, <2>2, <2>4 DEF IInv, TypeOK
<1>2. Prerequisites'
  BY DEF IInv, Prerequisites, session
<1>3. PendingSound'
  <2> SUFFICES ASSUME NEW q \in pending' PROVE CallSound(q)'
    BY DEF PendingSound
  <2>1. CallSound(q)' = CallSound(q)
    BY DEF CallSound, session
  <2>2. q \in pending \/ q = c
    BY DEF Await
  <2>3. CASE q \in pending
    BY <2>1, <2>3 DEF IInv, PendingSound
  <2>4. CASE q = c
    BY <2>1, <2>4
  <2>5. QED
    BY <2>2, <2>3, <2>4
<1>4. QED
  BY <1>1, <1>2, <1>3 DEF IInv

\* A method that rejects before its first await preserves the inductive
\* invariant: only the last error changes.
LEMMA RejectPreserves ==
    ASSUME IInv, NEW op \in Ops, NEW err \in Errors, Reject(op, err)
    PROVE  IInv'
BY DEF IInv, TypeOK, Prerequisites, PendingSound, CallSound, Reject, Failures,
       session, env

\* initialize() suspends on fetchElectionConfig with nothing to rely on.
LEMMA InitializePreserves ==
    ASSUME IInv, Initialize
    PROVE  IInv'
<1>1. Call(Fresh, "initialize", "fetch") \in CallType
  BY FreshId DEF IInv, Initialize, Call, CallType, Ops, Steps
<1>2. CallSound(Call(Fresh, "initialize", "fetch"))
  BY DEF Call, CallSound
<1>3. QED
  BY <1>1, <1>2, AwaitPreserves DEF Initialize

\* requestAccessCode either throws InvalidState or suspends, with a
\* configuration loaded, on the coordinator, carrying the caller's e-mail.
LEMMA RequestAccessCodePreserves ==
    ASSUME IInv, NEW e \in Emails, RequestAccessCode(e)
    PROVE  IInv'
<1>1. CASE electionConfig = None /\ Reject("requestAccessCode", "InvalidState")
  BY <1>1, RejectPreserves DEF Ops, Errors
<1>2. CASE /\ electionConfig # None /\ CanInvoke
           /\ Await([Call(Fresh, "requestAccessCode", "fetch") EXCEPT !.email = e])
           /\ UNCHANGED <<session, env>>
  <2> DEFINE c == [Call(Fresh, "requestAccessCode", "fetch") EXCEPT !.email = e]
  <2>1. c \in CallType
    BY <1>2, FreshId DEF IInv, Call, CallType, Ops, Steps
  <2>2. CallSound(c)
    BY <1>2 DEF Call, CallSound
  <2>3. QED
    BY <1>2, <2>1, <2>2, AwaitPreserves
<1>3. QED
  BY <1>1, <1>2 DEF RequestAccessCode

\* validateAccessCode either throws InvalidState or suspends on the OTP
\* provider with the recorded e-mail.
LEMMA ValidateAccessCodePreserves ==
    ASSUME IInv, ValidateAccessCode
    PROVE  IInv'
<1>1. CASE email = None /\ Reject("validateAccessCode", "InvalidState")
  BY <1>1, RejectPreserves DEF Ops, Errors
<1>2. CASE /\ email # None /\ CanInvoke
           /\ Await([Call(Fresh, "validateAccessCode", "fetch") EXCEPT !.email = email])
           /\ UNCHANGED <<session, env>>
  <2> DEFINE c == [Call(Fresh, "validateAccessCode", "fetch") EXCEPT !.email = email]
  <2>1. email \in Emails /\ electionConfig # None
    BY <1>2 DEF IInv, TypeOK, Prerequisites
  <2>2. c \in CallType
    BY <1>2, <2>1, FreshId DEF IInv, Call, CallType, Ops, Steps
  <2>3. CallSound(c)
    BY <1>2, <2>1 DEF Call, CallSound
  <2>4. QED
    BY <1>2, <2>2, <2>3, AwaitPreserves
<1>3. QED
  BY <1>1, <1>2 DEF ValidateAccessCode

\* authenticateWithCodes either throws InvalidState or suspends on the
\* board with a configuration loaded.
LEMMA AuthenticateWithCodesPreserves ==
    ASSUME IInv, AuthenticateWithCodes
    PROVE  IInv'
<1>1. CASE electionConfig = None /\ Reject("authenticateWithCodes", "InvalidState")
  BY <1>1, RejectPreserves DEF Ops, Errors
<1>2. CASE /\ electionConfig # None /\ CanInvoke
           /\ Await(Call(Fresh, "authenticateWithCodes", "board"))
           /\ UNCHANGED <<session, env>>
  <2>1. Call(Fresh, "authenticateWithCodes", "board") \in CallType
    BY <1>2, FreshId DEF IInv, Call, CallType, Ops, Steps
  <2>2. CallSound(Call(Fresh, "authenticateWithCodes", "board"))
    BY <1>2 DEF Call, CallSound
  <2>3. QED
    BY <1>2, <2>1, <2>2, AwaitPreserves
<1>3. QED
  BY <1>1, <1>2 DEF AuthenticateWithCodes

\* registerVoter either throws InvalidState or stores a fresh key pair and
\* suspends on the coordinator; the stored key pair is what lets the
\* continuation register a key of its own.
LEMMA RegisterVoterPreserves ==
    ASSUME IInv, RegisterVoter
    PROVE  IInv'
<1>1. CASE identityConfirmationToken = None /\ Reject("registerVoter", "InvalidState")
  BY <1>1, RejectPreserves DEF Ops, Errors
<1>2. CASE /\ identityConfirmationToken # None /\ CanInvoke
           /\ keyPair' = Fresh
           /\ Await([Call(Fresh, "registerVoter", "authorize") EXCEPT
                        !.session = authorizationSessionId,
                        !.token = identityConfirmationToken,
                        !.authKey = Fresh])
           /\ UNCHANGED <<electionConfig, authorizationSessionId, email,
                          identityConfirmationToken, voterIdentifier,
                          emptyCryptograms, contestIds, voteEncryptions,
                          testCode, env>>
  <2> DEFINE c == [Call(Fresh, "registerVoter", "authorize") EXCEPT
                      !.session = authorizationSessionId,
                      !.token = identityConfirmationToken,
                      !.authKey = Fresh]
  <2>1. Fresh \in Ids /\ Fresh # None
    BY <1>2, FreshId DEF IInv
  <2>2. electionConfig # None
    BY <1>2 DEF IInv, Prerequisites
  <2>3. c \in CallType
    BY <1>2, <2>1 DEF IInv, TypeOK, Call, CallType, Ops, Steps
  <2>4. TypeOK'
    BY <1>2, <2>1, <2>3, ConstantsAssumption
    DEF IInv, TypeOK, CanInvoke, Await, env
  <2>5. Prerequisites'
    BY <1>2, <2>1 DEF IInv, Prerequisites
  <2>6. PendingSound'
    BY <1>2, <2>1, <2>2 DEF IInv, PendingSound, CallSound, Await, Call
  <2>7. QED
    BY <2>4, <2>5, <2>6 DEF IInv
<1>3. QED
  BY <1>1, <1>2 DEF RegisterVoter

\* constructBallotCryptograms stores envelopes only past its guard, which
\* some registration field satisfies: each of them implies a voter
\* identifier.
LEMMA ConstructBallotCryptogramsPreserves ==
    ASSUME IInv, NEW cvr \in Cvrs, ConstructBallotCryptograms(cvr)
    PROVE  IInv'
<1>1. CASE Reject("constructBallotCryptograms", "InvalidState")
  BY <1>1, RejectPreserves DEF Ops, Errors
<1>2. CASE Reject("constructBallotCryptograms", "CorruptCvr")
  BY <1>2, RejectPreserves DEF Ops, Errors
<1>3. CASE Reject("constructBallotCryptograms", "TypeError")
  BY <1>3, RejectPreserves DEF Ops, Errors
<1>4. CASE /\ ~(voterIdentifier = None /\ emptyCryptograms = None /\ contestIds = None)
           /\ CvrValid(cvr)
           /\ voteEncryptions' = [ec |-> emptyCryptograms, contests |-> cvr.contests]
           /\ lastError' = None
           /\ UNCHANGED <<electionConfig, authorizationSessionId, email,
                          identityConfirmationToken, keyPair,
                          voterIdentifier, emptyCryptograms, contestIds,
                          testCode, pending, calls, env>>
  <2>1. voterIdentifier # None
    BY <1>4 DEF IInv, Prerequisites
  <2>2. voteEncryptions' \in Envelopes
    BY <1>4 DEF IInv, TypeOK, CvrValid, Cvrs, Envelopes
  <2>3. TypeOK'
    BY <1>4, <2>2 DEF IInv, TypeOK, env
  <2>4. Prerequisites'
    BY <1>4, <2>1 DEF IInv, Prerequisites
  <2>5. PendingSound'
    BY <1>4 DEF IInv, PendingSound, CallSound
  <2>6. QED
    BY <2>3, <2>4, <2>5 DEF IInv
<1>5. QED
  BY <1>1, <1>2, <1>3, <1>4 DEF ConstructBallotCryptograms

\* generateTestCode only stores the test code.
LEMMA GenerateTestCodePreserves ==
    ASSUME IInv, GenerateTestCode
    PROVE  IInv'
BY DEF IInv, TypeOK, Prerequisites, PendingSound, CallSound, GenerateTestCode, env

\* A fetched configuration replaces the loaded one only when it is valid:
\* electionConfig never goes back to None.
LEMMA InitializeFetchedPreserves ==
    ASSUME IInv, NEW p \in pending, NEW cfg \in ConfigChoices,
           InitializeFetched(p, cfg)
    PROVE  IInv'
<1>1. cfg \in ConfigType /\ cfg # None
  BY ConstantsAssumption, NoneAssumption
<1>2. electionConfig # None => electionConfig' # None
  BY <1>1 DEF InitializeFetched, StoreConfig
<1>3. TypeOK'
  BY <1>1 DEF IInv, TypeOK, InitializeFetched, StoreConfig, Failures, Ops,
     Errors, env
<1>4. Prerequisites'
  BY <1>2 DEF IInv, Prerequisites, InitializeFetched
<1>5. PendingSound'
  BY <1>2 DEF IInv, PendingSound, CallSound, InitializeFetched
<1>6. QED
  BY <1>3, <1>4, <1>5 DEF IInv

\* The coordinator's session id and the e-mail are stored together, with a
\* configuration loaded.
LEMMA RequestAccessCodeResponsePreserves ==
    ASSUME IInv, NEW p \in pending, RequestAccessCodeResponse(p)
    PROVE  IInv'
<1>1. p \in CallType /\ CallSound(p)
  BY DEF IInv, TypeOK, PendingSound
<1>2. p.email \in Emails /\ p.id \in Ids /\ electionConfig # None
  BY <1>1 DEF RequestAccessCodeResponse, CallSound, CallType
<1>3. TypeOK'
  BY <1>2 DEF IInv, TypeOK, RequestAccessCodeResponse, Settle
<1>4. Prerequisites'
  BY <1>2, NoneAssumption DEF IInv, Prerequisites, RequestAccessCodeResponse
<1>5. PendingSound'
  BY <1>2, NoneAssumption
  DEF IInv, PendingSound, CallSound, RequestAccessCodeResponse, Settle
<1>6. QED
  BY <1>3, <1>4, <1>5 DEF IInv

\* The OTP provider's token is stored for the e-mail the call captured,
\* while an e-mail is recorded.
LEMMA ValidateAccessCodeResponsePreserves ==
    ASSUME IInv, NEW p \in pending, ValidateAccessCodeResponse(p)
    PROVE  IInv'
<1>1. p \in CallType /\ CallSound(p)
  BY DEF IInv, TypeOK, PendingSound
<1>2. p.email \in Emails /\ email # None
  BY <1>1 DEF ValidateAccessCodeResponse, CallSound
<1>3. [email |-> p.email] \in Token /\ [email |-> p.email] # None
  BY <1>2, NoneAssumption DEF Token
<1>4. TypeOK'
  BY <1>3 DEF IInv, TypeOK, ValidateAccessCodeResponse, Settle, env
<1>5. Prerequisites'
  BY <1>2, <1>3 DEF IInv, Prerequisites, ValidateAccessCodeResponse
<1>6. PendingSound'
  BY <1>3 DEF IInv, PendingSound, CallSound, ValidateAccessCodeResponse, Settle
<1>7. QED
  BY <1>4, <1>5, <1>6 DEF IInv

\* After the coordinator's answer, registerVoter goes on with the key pair
\* the session holds now, which is set.
LEMMA RegisterVoterAuthorizedPreserves ==
    ASSUME IInv, NEW p \in pending, RegisterVoterAuthorized(p)
    PROVE  IInv'
<1> DEFINE q == [p EXCEPT !.step = "board", !.key = keyPair]
<1>1. p \in CallType /\ CallSound(p)
  BY DEF IInv, TypeOK, PendingSound
<1>2. keyPair \in Ids
  BY <1>1 DEF IInv, TypeOK, CallSound, RegisterVoterAuthorized
<1>3. q \in CallType /\ CallSound(q)
  BY <1>1, <1>2 DEF CallType, CallSound, Steps, RegisterVoterAuthorized
<1>4. TypeOK'
  BY <1>3 DEF IInv, TypeOK, RegisterVoterAuthorized, session, env
<1>5. Prerequisites'
  BY DEF IInv, Prerequisites, RegisterVoterAuthorized, session
<1>6. PendingSound'
  BY <1>3 DEF IInv, PendingSound, CallSound, RegisterVoterAuthorized, session
<1>7. QED
  BY <1>4, <1>5, <1>6 DEF IInv

\* The board's registration sets the voter identifier, the empty
\* cryptograms and the contest ids together, for a session that holds a
\* key pair and a configuration.
LEMMA RegisterVoterRegisteredPreserves ==
    ASSUME IInv, NEW p \in pending, NEW C \in SUBSET Contests,
           RegisterVoterRegistered(p, C)
    PROVE  IInv'
<1>1. p \in CallType /\ CallSound(p)
  BY DEF IInv, TypeOK, PendingSound
<1>2. /\ p.id \in Ids /\ p.key \in Ids
      /\ keyPair # None /\ electionConfig # None
  BY <1>1 DEF RegisterVoterRegistered, CallSound, CallType
<1>3. [voter |-> p.id, contests |-> C] \in EmptyCryptogramSets
      /\ [voter |-> p.id, contests |-> C] # None /\ C # None
  BY <1>2, NoneAssumption DEF EmptyCryptogramSets
<1>4. TypeOK'
  BY <1>2, <1>3 DEF IInv, TypeOK, RegisterVoterRegistered, Settle
<1>5. Prerequisites'
  BY <1>2, <1>3, NoneAssumption DEF IInv, Prerequisites, RegisterVoterRegistered
<1>6. PendingSound'
  BY DEF IInv, PendingSound, CallSound, RegisterVoterRegistered, Settle
<1>7. QED
  BY <1>4, <1>5, <1>6 DEF IInv

\* authenticateWithCodes' answer sets the voter identifier, the key pair
\* and the empty cryptograms together, with a configuration loaded.
LEMMA AuthenticateWithCodesResponsePreserves ==
    ASSUME IInv, NEW p \in pending, NEW C \in SUBSET Contests,
           AuthenticateWithCodesResponse(p, C)
    PROVE  IInv'
<1>1. p \in CallType /\ CallSound(p)
  BY DEF IInv, TypeOK, PendingSound
<1>2. p.id \in Ids /\ p.id # None /\ electionConfig # None
  BY <1>1, NoneAssumption DEF AuthenticateWithCodesResponse, CallSound, CallType
<1>3. [voter |-> p.id, contests |-> C] \in EmptyCryptogramSets
      /\ [voter |-> p.id, contests |-> C] # None
  BY <1>2, NoneAssumption DEF EmptyCryptogramSets
<1>4. TypeOK'
  BY <1>2, <1>3 DEF IInv, TypeOK, AuthenticateWithCodesResponse, Settle
<1>5. Prerequisites'
  BY <1>2, <1>3 DEF IInv, Prerequisites, AuthenticateWithCodesResponse
<1>6. PendingSound'
  BY <1>2 DEF IInv, PendingSound, CallSound, AuthenticateWithCodesResponse, Settle
<1>7. QED
  BY <1>4, <1>5, <1>6 DEF IInv

\* A failed await drops its continuation and changes no session field.
LEMMA NetworkFailurePreserves ==
    ASSUME IInv, NEW p \in pending, NetworkFailure(p)
    PROVE  IInv'
<1>1. p.op \in Ops
  BY DEF IInv, TypeOK, CallType
<1>2. TypeOK'
  BY <1>1 DEF IInv, TypeOK, NetworkFailure, Settle, Failures, Errors, session, env
<1>3. Prerequisites' /\ PendingSound'
  BY DEF IInv, Prerequisites, PendingSound, CallSound, NetworkFailure, Settle,
     session
<1>4. QED
  BY <1>2, <1>3 DEF IInv

-----------------------------------------------------------------------------
\* Every step of the session, a method's synchronous prefix or the
\* resumption of a suspended call, preserves the inductive invariant.
LEMMA NextIInv == IInv /\ [Next]_vars => IInv'
<1> SUFFICES ASSUME IInv, [Next]_vars PROVE IInv'
  OBVIOUS
<1>1. CASE Initialize
  BY <1>1, InitializePreserves
<1>2. CASE \E cfg \in ConfigChoices : InitializeWith(cfg)
  <2>1. PICK cfg \in ConfigChoices : InitializeWith(cfg)
    BY <1>2
  <2>2. cfg \in ConfigType /\ cfg # None
    BY ConstantsAssumption, NoneAssumption
  <2>3. QED
    BY <2>1, <2>2 DEF IInv, TypeOK, Prerequisites, PendingSound, CallSound,
       InitializeWith, StoreConfig, Failures, Ops, Errors, env
<1>3. CASE \E e \in Emails : RequestAccessCode(e)
  BY <1>3, RequestAccessCodePreserves
<1>4. CASE ValidateAccessCode
  BY <1>4, ValidateAccessCodePreserves
<1>5. CASE RegisterVoter
  BY <1>5, RegisterVoterPreserves
<1>6. CASE AuthenticateWithCodes
  BY <1>6, AuthenticateWithCodesPreserves
<1>7. CASE \E cvr \in Cvrs : ConstructBallotCryptograms(cvr)
  BY <1>7, ConstructBallotCryptogramsPreserves
<1>8. CASE GenerateTestCode
  BY <1>8, GenerateTestCodePreserves
<1>9. CASE SpoilBallotCryptograms
  BY <1>9, RejectPreserves DEF SpoilBallotCryptograms, Ops, Errors
<1>10. CASE SubmitBallotCryptograms
  BY <1>10, RejectPreserves DEF SubmitBallotCryptograms, Ops, Errors
<1>11. ASSUME NEW p \in pending,
              \/ \E cfg \in ConfigChoices : InitializeFetched(p, cfg)
              \/ RequestAccessCodeResponse(p)
              \/ ValidateAccessCodeResponse(p)
              \/ RegisterVoterAuthorized(p)
              \/ \E C \in SUBSET Contests : RegisterVoterRegistered(p, C)
              \/ \E C \in SUBSET Contests : AuthenticateWithCodesResponse(p, C)
              \/ NetworkFailure(p)
       PROVE IInv'
  BY <1>11, InitializeFetchedPreserves, RequestAccessCodeResponsePreserves,
     ValidateAccessCodeResponsePreserves, RegisterVoterAuthorizedPreserves,
     RegisterVoterRegisteredPreserves, AuthenticateWithCodesResponsePreserves,
     NetworkFailurePreserves
<1>12. CASE UNCHANGED vars
  BY <1>12 DEF IInv, TypeOK, Prerequisites, PendingSound, CallSound, vars,
     session, env
<1>13. QED
  BY <1>1, <1>2, <1>3, <1>4, <1>5, <1>6, <1>7, <1>8, <1>9, <1>10, <1>11,
     <1>12 DEF Next, Continue

\* The type invariant of the session: every field of AVClient, every
\* suspended continuation and the collaborators' records keep their types
\* in every reachable state, for every value of the constants.
THEOREM TypeCorrect == Spec => []TypeOK
<1>1. IInv => TypeOK
  BY DEF IInv
<1>2. QED
  BY <1>1, InitIInv, NextIInv, PTL DEF Spec

\* The lifecycle's prerequisites hold as nested presence of session fields
\* whatever calls the caller interleaves (the property Prerequisites of
\* the run session_concurrent), so getElectionConfig() and
\* this.keyPair.privateKey cannot throw where the methods call them.
THEOREM PrerequisitesHold == Spec => []Prerequisites
<1>1. IInv => Prerequisites
  BY DEF IInv
<1>2. QED
  BY <1>1, InitIInv, NextIInv, PTL DEF Spec

\* Every suspended call keeps what its invocation checked until it resumes.
THEOREM PendingSoundHolds == Spec => []PendingSound
<1>1. IInv => PendingSound
  BY DEF IInv
<1>2. QED
  BY <1>1, InitIInv, NextIInv, PTL DEF Spec

=============================================================================
