--------------------------- MODULE AVClientSession ---------------------------
(***************************************************************************)
(* The voter session of the Assembly Voting client: class AVClient of      *)
(* src/lib/av_client.ts (second file of that path, lines 117-556).         *)
(*                                                                         *)
(* Every public method is an async function.  JavaScript runs the code of  *)
(* one method up to its first `await` atomically, then suspends; the rest  *)
(* of the method runs when the awaited collaborator answers.  A method     *)
(* with awaits is therefore an invocation action (the synchronous prefix)  *)
(* that parks a continuation record in `pending`, and one action per       *)
(* resumption.  Nothing in the class serialises two calls, so the caller   *)
(* may have up to MaxInFlight calls suspended at once.                     *)
(*                                                                         *)
(* The collaborators (voter authorizer, OTP provider, bulletin board) are  *)
(* modelled by what the session observes of them: the coordinator's        *)
(* sessions and the board's voter registrations.  Any awaited request may *)
(* fail (NetworkFailure).                                                  *)
(***************************************************************************)
EXTENDS Naturals, FiniteSets

CONSTANTS
    Emails,          \* e-mail addresses a caller may pass to requestAccessCode
    Contests,        \* ids of the contests in the configuration's ballots
    UnknownContest,  \* a contest id no ballot of the configuration has
    ConfigChoices,   \* configurations the backend may serve or a caller inject
    MaxCalls,        \* bound on started calls (each gets a fresh id)
    MaxInFlight,     \* bound on calls suspended at the same time
    None             \* the JavaScript `undefined` of an unset field

\* The six service fields validateElectionConfig requires.
RequiredServiceFields ==
    {"otp_url", "otp_context", "otp_key", "va_url", "va_context", "va_key"}

\* A configuration, abstracted to the service fields it carries.
ConfigType == [services : SUBSET RequiredServiceFields]

\* Ids of calls; a call's id also names the fresh values it creates
\* (coordinator session, key pair, voter identifier).
Ids == 1 .. MaxCalls

\* An identity confirmation token, issued by the OTP provider for an e-mail.
Token == [email : Emails]

\* The empty cryptograms the board issues at registration: the registration
\* (voter identifier) they belong to and the contests they cover.
EmptyCryptogramSets == [voter : Ids, contests : SUBSET Contests]

\* The envelopes constructBallotCryptograms stores: the empty cryptograms
\* they were encrypted onto and the contests of the cast vote record.
Envelopes == [ec : EmptyCryptogramSets \cup {None}, contests : SUBSET Contests]

\* A cast vote record: its contest ids, and whether every option it names
\* is an option of its contest.
Cvrs == [contests : SUBSET (Contests \cup {UnknownContest}),
         optionsValid : BOOLEAN]

\* The random test code of generateTestCode, abstracted to one value.
TestCode == "testCode"

\* The public methods; the first five await collaborators.
Ops == {"initialize", "requestAccessCode", "validateAccessCode",
        "registerVoter", "authenticateWithCodes", "constructBallotCryptograms",
        "spoilBallotCryptograms", "submitBallotCryptograms"}

\* The await a suspended call waits on.
Steps == {"fetch", "authorize", "board"}

\* The continuation of a suspended call, with the values its code read
\* before suspending.
CallType == [id : Ids, op : Ops, step : Steps,
             email : Emails \cup {None}, session : Ids \cup {None},
             token : Token \cup {None}, authKey : Ids \cup {None},
             key : Ids \cup {None}]

Errors == {"InvalidState", "InvalidConfig", "CorruptCvr", "TypeError",
           "NotImplemented", "Network"}

\* How the last call failed: the method and the error it rejected with.
Failures == [op : Ops, err : Errors]

ASSUME ConstantsAssumption ==
    /\ MaxCalls \in Nat
    /\ MaxInFlight \in Nat \ {0}
    /\ ConfigChoices \subseteq ConfigType
    /\ UnknownContest \notin Contests

ASSUME NoneAssumption ==
    /\ None \notin Ids \cup Emails
    /\ \A x \in Token \cup EmptyCryptogramSets \cup Envelopes \cup ConfigType :
          x # None
    /\ \A S \in SUBSET Contests : S # None

VARIABLES
    \* fields of AVClient (av_client.ts 171-182)
    electionConfig, authorizationSessionId, email, identityConfirmationToken,
    keyPair, voterIdentifier, emptyCryptograms, contestIds, voteEncryptions,
    testCode,
    \* suspended calls, the number of calls started, the last call's error
    pending, calls, lastError,
    \* collaborators: coordinator sessions (id -> e-mail) and the board's
    \* voter registrations
    authSessions, registrations

session == <<electionConfig, authorizationSessionId, email,
             identityConfirmationToken, keyPair, voterIdentifier,
             emptyCryptograms, contestIds, voteEncryptions, testCode>>
env == <<authSessions, registrations>>
vars == <<session, pending, calls, lastError, env>>

-----------------------------------------------------------------------------
(* Helpers                                                                 *)

\* validateElectionConfig: the error list, one entry per missing field.
ValidateElectionConfig(cfg) == RequiredServiceFields \ cfg.services

\* A continuation record with no captured values yet.
Call(id, op, step) ==
    [id |-> id, op |-> op, step |-> step, email |-> None, session |-> None,
     token |-> None, authKey |-> None, key |-> None]

\* A new call may start: an id is left and the caller's concurrency bound
\* is not reached.
CanInvoke == calls < MaxCalls /\ Cardinality(pending) < MaxInFlight

Fresh == calls + 1

\* The synchronous prefix ran and the call suspends on its first await.
Await(c) ==
    /\ pending' = pending \cup {c}
    /\ calls' = calls + 1
    /\ UNCHANGED lastError

\* The async method throws before its first await: the promise rejects
\* and nothing else changes.
Reject(op, err) ==
    /\ lastError' = [op |-> op, err |-> err]
    /\ UNCHANGED <<session, pending, calls, env>>

\* A suspended call resumes for the last time and settles: it resolves, or
\* rejects with err.
Settle(p, err) ==
    /\ pending' = pending \ {p}
    /\ lastError' = IF err = None THEN None ELSE [op |-> p.op, err |-> err]
    /\ UNCHANGED calls

-----------------------------------------------------------------------------
Init ==
    /\ electionConfig = None /\ authorizationSessionId = None /\ email = None
    /\ identityConfirmationToken = None /\ keyPair = None
    /\ voterIdentifier = None /\ emptyCryptograms = None /\ contestIds = None
    /\ voteEncryptions = None /\ testCode = None
    /\ pending = {} /\ calls = 0 /\ lastError = None
    /\ authSessions = [i \in Ids |-> None]
    /\ registrations = {}

\* initialize(): fetch the configuration from the board, then validate it.
Initialize ==
    /\ CanInvoke
    /\ Await(Call(Fresh, "initialize", "fetch"))
    /\ UNCHANGED <<session, env>>

\* The fetched (or injected) configuration is validated; it replaces the
\* current one only if validateElectionConfig finds no error.
StoreConfig(cfg) ==
    \/ /\ ValidateElectionConfig(cfg) = {}
       /\ electionConfig' = cfg
       /\ lastError' = None
    \/ /\ ValidateElectionConfig(cfg) # {}
       /\ lastError' = [op |-> "initialize", err |-> "InvalidConfig"]
       /\ UNCHANGED electionConfig

InitializeFetched(p, cfg) ==
    /\ p.op = "initialize"
    /\ pending' = pending \ {p}
    /\ StoreConfig(cfg)
    /\ UNCHANGED <<authorizationSessionId, email, identityConfirmationToken,
                   keyPair, voterIdentifier, emptyCryptograms, contestIds,
                   voteEncryptions, testCode, calls, env>>

\* initialize(electionConfig): no await, the whole method is one step.
InitializeWith(cfg) ==
    /\ StoreConfig(cfg)
    /\ UNCHANGED <<authorizationSessionId, email, identityConfirmationToken,
                   keyPair, voterIdentifier, emptyCryptograms, contestIds,
                   voteEncryptions, testCode, pending, calls, env>>

\* requestAccessCode(opaqueVoterId, e): getElectionConfig() throws when no
\* configuration is loaded; otherwise the coordinator is asked for a session.
RequestAccessCode(e) ==
    \/ /\ electionConfig = None
       /\ Reject("requestAccessCode", "InvalidState")
    \/ /\ electionConfig # None
       /\ CanInvoke
       /\ Await([Call(Fresh, "requestAccessCode", "fetch") EXCEPT !.email = e])
       /\ UNCHANGED <<session, env>>

\* Variant of the continuation below that stores the two answers in each
\* other's fields (sessionId into this.email and back).
RequestAccessCodeResponseSwapped(p) ==
    /\ p.op = "requestAccessCode"
    /\ authSessions' = [authSessions EXCEPT ![p.id] = p.email]
    /\ authorizationSessionId' = p.email
    /\ email' = p.id
    /\ Settle(p, None)
    /\ UNCHANGED <<electionConfig, identityConfirmationToken, keyPair,
                   voterIdentifier, emptyCryptograms, contestIds,
                   voteEncryptions, testCode, registrations>>

\* The coordinator created session p.id for the e-mail; both fields are set.
RequestAccessCodeResponse(p) ==
    /\ p.op = "requestAccessCode"
    /\ authSessions' = [authSessions EXCEPT ![p.id] = p.email]
    /\ authorizationSessionId' = p.id
    /\ email' = p.email
    /\ Settle(p, None)
    /\ UNCHANGED <<electionConfig, identityConfirmationToken, keyPair,
                   voterIdentifier, emptyCryptograms, contestIds,
                   voteEncryptions, testCode, registrations>>

\* validateAccessCode(code): requires a recorded e-mail; the OTP request
\* carries the e-mail read now.
ValidateAccessCode ==
    \/ /\ email = None
       /\ Reject("validateAccessCode", "InvalidState")
    \/ /\ email # None
       /\ CanInvoke
       /\ Await([Call(Fresh, "validateAccessCode", "fetch") EXCEPT
                    !.email = email])
       /\ UNCHANGED <<session, env>>

\* The OTP provider accepted the code and returned a token for the e-mail.
ValidateAccessCodeResponse(p) ==
    /\ p.op = "validateAccessCode"
    /\ identityConfirmationToken' = [email |-> p.email]
    /\ Settle(p, None)
    /\ UNCHANGED <<electionConfig, authorizationSessionId, email, keyPair,
                   voterIdentifier, emptyCryptograms, contestIds,
                   voteEncryptions, testCode, env>>

\* Variant of registerVoter that leaves this.keyPair alone and asks the
\* coordinator to authorize the fresh public key only.
RegisterVoterLateKey ==
    \/ /\ identityConfirmationToken = None
       /\ Reject("registerVoter", "InvalidState")
    \/ /\ identityConfirmationToken # None
       /\ CanInvoke
       /\ Await([Call(Fresh, "registerVoter", "authorize") EXCEPT
                    !.session = authorizationSessionId,
                    !.token = identityConfirmationToken,
                    !.authKey = Fresh])
       /\ UNCHANGED <<session, env>>

\* registerVoter(): requires a token; a fresh key pair is stored BEFORE the
\* first await, and the coordinator is asked to authorize its public key
\* for the current session with the current token.
RegisterVoter ==
    \/ /\ identityConfirmationToken = None
       /\ Reject("registerVoter", "InvalidState")
    \/ /\ identityConfirmationToken # None
       /\ CanInvoke
       /\ keyPair' = Fresh
       /\ Await([Call(Fresh, "registerVoter", "authorize") EXCEPT
                    !.session = authorizationSessionId,
                    !.token = identityConfirmationToken,
                    !.authKey = Fresh])
       /\ UNCHANGED <<electionConfig, authorizationSessionId, email,
                      identityConfirmationToken, voterIdentifier,
                      emptyCryptograms, contestIds, voteEncryptions,
                      testCode, env>>

\* The coordinator authorized the key (it does so only for a token issued
\* for the session's e-mail).  The continuation reads this.keyPair AGAIN
\* and registers that key pair on the board.
RegisterVoterAuthorized(p) ==
    /\ p.op = "registerVoter" /\ p.step = "authorize"
    /\ authSessions[p.session] = p.token.email
    /\ pending' = (pending \ {p}) \cup
                    {[p EXCEPT !.step = "board", !.key = keyPair]}
    /\ UNCHANGED <<session, calls, lastError, env>>

\* The board registered the key pair and answered with a voter identifier,
\* the empty cryptograms and the contest ids for the eligible contests C.
RegisterVoterRegistered(p, C) ==
    /\ p.op = "registerVoter" /\ p.step = "board"
    /\ registrations' = registrations \cup {[voter |-> p.id, key |-> p.key]}
    /\ voterIdentifier' = p.id
    /\ emptyCryptograms' = [voter |-> p.id, contests |-> C]
    /\ contestIds' = C
    /\ Settle(p, None)
    /\ UNCHANGED <<electionConfig, authorizationSessionId, email,
                   identityConfirmationToken, keyPair, voteEncryptions,
                   testCode, authSessions>>

\* authenticateWithCodes(codes): electionId() needs a configuration; the
\* board authenticates the codes.
AuthenticateWithCodes ==
    \/ /\ electionConfig = None
       /\ Reject("authenticateWithCodes", "InvalidState")
    \/ /\ electionConfig # None
       /\ CanInvoke
       /\ Await(Call(Fresh, "authenticateWithCodes", "board"))
       /\ UNCHANGED <<session, env>>

\* The board registered a fresh key pair for the codes; voterIdentifier,
\* keyPair and emptyCryptograms are set, contestIds is left as it was.
AuthenticateWithCodesResponse(p, C) ==
    /\ p.op = "authenticateWithCodes"
    /\ registrations' = registrations \cup {[voter |-> p.id, key |-> p.id]}
    /\ voterIdentifier' = p.id
    /\ keyPair' = p.id
    /\ emptyCryptograms' = [voter |-> p.id, contests |-> C]
    /\ Settle(p, None)
    /\ UNCHANGED <<electionConfig, authorizationSessionId, email,
                   identityConfirmationToken, contestIds, voteEncryptions,
                   testCode, authSessions>>

\* validateCvr: every contest id must be configured, then every option.
CvrValid(cvr) == cvr.contests \subseteq Contests /\ cvr.optionsValid

\* this.emptyCryptograms[contestId].empty_cryptogram for every contest of
\* the record: a TypeError unless each has empty cryptograms.
EmptyCryptogramsCover(cvr) ==
    cvr.contests = {} \/
    (emptyCryptograms # None /\ cvr.contests \subseteq emptyCryptograms.contests)

\* Variant of constructBallotCryptograms without the registration guard of
\* line 367.
ConstructBallotCryptogramsUnguarded(cvr) ==
    \/ /\ ~CvrValid(cvr)
       /\ Reject("constructBallotCryptograms", "CorruptCvr")
    \/ /\ CvrValid(cvr) /\ ~EmptyCryptogramsCover(cvr)
       /\ Reject("constructBallotCryptograms", "TypeError")
    \/ /\ CvrValid(cvr) /\ EmptyCryptogramsCover(cvr)
       /\ voteEncryptions' = [ec |-> emptyCryptograms, contests |-> cvr.contests]
       /\ lastError' = None
       /\ UNCHANGED <<electionConfig, authorizationSessionId, email,
                      identityConfirmationToken, keyPair, voterIdentifier,
                      emptyCryptograms, contestIds, testCode, pending, calls, env>>

\* constructBallotCryptograms(cvr): no await, one step.  The guard throws
\* only when ALL of voterIdentifier, emptyCryptograms, contestIds are unset.
ConstructBallotCryptograms(cvr) ==
    \/ /\ voterIdentifier = None /\ emptyCryptograms = None /\ contestIds = None
       /\ Reject("constructBallotCryptograms", "InvalidState")
    \/ /\ ~(voterIdentifier = None /\ emptyCryptograms = None /\ contestIds = None)
       /\ \/ /\ ~CvrValid(cvr)
             /\ Reject("constructBallotCryptograms", "CorruptCvr")
          \/ /\ CvrValid(cvr) /\ ~EmptyCryptogramsCover(cvr)
             /\ Reject("constructBallotCryptograms", "TypeError")
          \/ /\ CvrValid(cvr) /\ EmptyCryptogramsCover(cvr)
             /\ voteEncryptions' = [ec |-> emptyCryptograms,
                                    contests |-> cvr.contests]
             /\ lastError' = None
             /\ UNCHANGED <<electionConfig, authorizationSessionId, email,
                            identityConfirmationToken, keyPair,
                            voterIdentifier, emptyCryptograms, contestIds,
                            testCode, pending, calls, env>>

\* generateTestCode(): stores a random test code.  Nothing of the session
\* reads it (spoilBallotCryptograms is not implemented), so every code is
\* the one value TestCode.
GenerateTestCode ==
    /\ testCode' = TestCode
    /\ lastError' = None
    /\ UNCHANGED <<electionConfig, authorizationSessionId, email,
                   identityConfirmationToken, keyPair, voterIdentifier,
                   emptyCryptograms, contestIds, voteEncryptions, pending,
                   calls, env>>

\* spoilBallotCryptograms(): throws 'Not implemented yet'.
SpoilBallotCryptograms == Reject("spoilBallotCryptograms", "NotImplemented")

\* submitBallotCryptograms(affidavit): the guard throws only when BOTH
\* voterIdentifier and voteEncryptions are unset.  Past it, the method reads
\* the session's fields (electionId() and privateKey() cannot throw there,
\* by Prerequisites) and calls votesSubmitter.encryptAffidavit, which class
\* SubmitVotes does not have: a TypeError before the first await, every time.
SubmitBallotCryptograms ==
    \/ /\ voterIdentifier = None /\ voteEncryptions = None
       /\ Reject("submitBallotCryptograms", "InvalidState")
    \/ /\ ~(voterIdentifier = None /\ voteEncryptions = None)
       /\ Reject("submitBallotCryptograms", "TypeError")

\* The awaited collaborator failed (or, after delivery, the receipt did not
\* verify): the promise rejects and the continuation never runs.
NetworkFailure(p) ==
    /\ Settle(p, "Network")
    /\ UNCHANGED <<session, env>>

\* A suspended call resumes with its collaborator's answer, or the request
\* fails.
Continue(p) ==
    \/ \E cfg \in ConfigChoices : InitializeFetched(p, cfg)
    \/ RequestAccessCodeResponse(p)
    \/ ValidateAccessCodeResponse(p)
    \/ RegisterVoterAuthorized(p)
    \/ \E C \in SUBSET Contests : RegisterVoterRegistered(p, C)
    \/ \E C \in SUBSET Contests : AuthenticateWithCodesResponse(p, C)
    \/ NetworkFailure(p)

Next ==
    \/ Initialize
    \/ \E cfg \in ConfigChoices : InitializeWith(cfg)
    \/ \E e \in Emails : RequestAccessCode(e)
    \/ ValidateAccessCode
    \/ RegisterVoter
    \/ AuthenticateWithCodes
    \/ \E cvr \in Cvrs : ConstructBallotCryptograms(cvr)
    \/ GenerateTestCode
    \/ SpoilBallotCryptograms
    \/ SubmitBallotCryptograms
    \/ \E p \in pending : Continue(p)

Spec == Init /\ [][Next]_vars

-----------------------------------------------------------------------------
(* Properties                                                              *)

TypeOK ==
    /\ electionConfig \in ConfigType \cup {None}
    /\ authorizationSessionId \in Ids \cup {None}
    /\ email \in Emails \cup {None}
    /\ identityConfirmationToken \in Token \cup {None}
    /\ keyPair \in Ids \cup {None}
    /\ voterIdentifier \in Ids \cup {None}
    /\ emptyCryptograms \in EmptyCryptogramSets \cup {None}
    /\ contestIds \in (SUBSET Contests) \cup {None}
    /\ voteEncryptions \in Envelopes \cup {None}
    /\ testCode \in {TestCode, None}
    /\ pending \subseteq CallType
    /\ calls \in 0 .. MaxCalls
    /\ lastError \in Failures \cup {None}
    /\ authSessions \in [Ids -> Emails \cup {None}]
    /\ registrations \subseteq [voter : Ids, key : Ids]

\* The prerequisites of the lifecycle hold as nested presence of fields,
\* whatever order and interleaving of calls the caller chooses: an e-mail
\* only with a loaded configuration and a coordinator session, a token only
\* with an e-mail, a voter identifier only with a key pair, empty
\* cryptograms and a configuration, envelopes only for a voter identifier.
\* This is what makes getElectionConfig() in validateAccessCode,
\* registerVoter and submitBallotCryptograms, and this.keyPair.privateKey in
\* submitBallotCryptograms, unable to throw.
Prerequisites ==
    /\ email # None => electionConfig # None /\ authorizationSessionId # None
    /\ identityConfirmationToken # None => email # None
    /\ voterIdentifier # None => /\ keyPair # None
                                 /\ emptyCryptograms # None
                                 /\ electionConfig # None
    /\ emptyCryptograms # None => voterIdentifier # None
    /\ contestIds # None => voterIdentifier # None
    /\ voteEncryptions # None => voterIdentifier # None


\* What a suspended call relies on when it resumes, given what its
\* invocation checked: every call but initialize() started with a loaded
\* configuration; requestAccessCode and validateAccessCode carry an
\* e-mail, and validateAccessCode started with one recorded; registerVoter
\* started with a token, stored its key pair before suspending and
\* registers a key of its own.
\* Together with the type invariant and Prerequisites this is the
\* inductive invariant the proofs of AVClientSessionProofs rest on.
CallSound(p) ==
    /\ p.op # "initialize" => electionConfig # None
    /\ p.op \in {"requestAccessCode", "validateAccessCode"} => p.email \in Emails
    /\ p.op = "validateAccessCode" => email # None
    /\ p.op = "registerVoter" => keyPair # None /\ identityConfirmationToken # None
    /\ p.op = "registerVoter" /\ p.step = "board" => p.key \in Ids

\* Every call suspended on an await is sound in the sense of CallSound.
PendingSound == \A p \in pending : CallSound(p)

\* Spec 5: "a call either completes, or fails and leaves the state machine
\* in its pre-call state".  Whenever no call is in flight, the session's key
\* pair is the one the board registered for the session's voter
\* identifier, so submitBallotCryptograms signs with the registered key.
\* registerVoter stores its new key pair before its first await, so a
\* failed second registration breaks this.
KeyPairRegistered ==
    pending = {} /\ voterIdentifier # None =>
        [voter |-> voterIdentifier, key |-> keyPair] \in registrations

\* Spec 7: a failure of constructBallotCryptograms is InvalidState or
\* CorruptCvr (a closed error taxonomy); the method never fails with an
\* untyped TypeError.
ConstructErrorsTyped ==
    lastError # None /\ lastError.op = "constructBallotCryptograms" =>
        lastError.err \in {"InvalidState", "CorruptCvr"}

\* Spec 4.5 and 7: submitBallotCryptograms fails before the network only
\* for a missing prerequisite (InvalidState); past its guard it invokes
\* the submission protocol, whose failures are network or integrity errors.
SubmitInvokesProtocol ==
    lastError # None /\ lastError.op = "submitBallotCryptograms" =>
        lastError.err \in {"InvalidState", "Network"}

\* Spec 5: lifecycle operations on one instance are serialised.  A
\* registerVoter that resumes after the coordinator's answer registers on
\* the board the very key pair the coordinator just authorized.
RegisteredKeyAuthorized ==
    \A p \in pending :
        p.op = "registerVoter" /\ p.step = "board" => p.key = p.authKey

\* Spec 4.5: requestAccessCode requires Unstarted, so the identity
\* confirmation token the session holds was issued for the e-mail the
\* session has recorded, the one its coordinator session belongs to.
TokenMatchesEmail ==
    identityConfirmationToken # None => identityConfirmationToken.email = email

=============================================================================
