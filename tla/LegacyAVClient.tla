---------------------------- MODULE LegacyAVClient ----------------------------
(***************************************************************************)
(* The first AVClient class of src/lib/av_client.ts (lines 1-116): a       *)
(* client that persists the voter's credentials through the app's Storage  *)
(* and fetches the election configuration lazily.                          *)
(*                                                                         *)
(* authenticateWithCodes awaits updateElectionConfig, which fetches the    *)
(* configuration only while this.electionConfig is still {}, then awaits   *)
(* the board's authentication and writes three storage keys.  Calls are    *)
(* not serialised: several may be suspended at once.  Storage outlives     *)
(* the client; the process may be killed at any point, between two         *)
(* storage.set calls included, and a new client starts with an empty       *)
(* configuration over the same storage.                                    *)
(*                                                                         *)
(* getBallotList, getBallot, submitBallotChoices, submitAttestation,       *)
(* cryptogramsForConfirmation and submissionReceipt are stubs that change  *)
(* no state.                                                               *)
(***************************************************************************)
EXTENDS Naturals, FiniteSets

CONSTANTS
    Served,       \* what the backend may answer the configuration request with
    MaxCalls,     \* bound on started calls (each gets a fresh id)
    MaxInFlight,  \* bound on calls suspended at the same time
    MaxCrashes,   \* bound on process restarts
    None          \* an unset storage key

\* A configuration, abstracted to what electionId() makes of it: "empty" is
\* {} (no entries), "noElection" has entries but no election object, and
\* "valid" has election.id.
Configs == {"empty", "noElection", "valid"}

Ids == 1 .. MaxCalls

\* The storage keys authenticateWithCodes writes, in the order it writes them.
Keys == <<"precinctId", "keyPair", "emptyCryptograms">>

StorageKeys == {Keys[j] : j \in 1 .. 3}

\* A suspended call: its id and the await it waits on ("fetch": the
\* configuration request; "cached": updateElectionConfig's resolved promise;
\* "auth": the board's authentication).
CallType == [id : Ids, step : {"fetch", "cached", "auth"}]

ASSUME LegacyAssumption ==
    /\ Served \subseteq Configs
    /\ MaxCalls \in Nat /\ MaxInFlight \in Nat \ {0} /\ MaxCrashes \in Nat
    /\ None \notin Ids

VARIABLES
    electionConfig,  \* this.electionConfig
    storage,         \* the app's Storage: key -> id of the call whose answer it holds
    pending,         \* suspended calls
    calls,           \* calls started
    crashes          \* restarts so far

vars == <<electionConfig, storage, pending, calls, crashes>>

-----------------------------------------------------------------------------
CanInvoke == calls < MaxCalls /\ Cardinality(pending) < MaxInFlight

\* Storage after the first n keys of Keys were set to call i's answer.
Written(n, i) ==
    [k \in DOMAIN storage |->
        IF \E j \in 1 .. n : Keys[j] = k THEN i ELSE storage[k]]

\* electionId() reads this.electionConfig['election']['id']: a TypeError
\* unless the configuration has an election; otherwise the board is asked
\* to authenticate the codes.
ProceedWithConfig(p) ==
    IF electionConfig' = "valid"
    THEN pending' = (pending \ {p}) \cup {[p EXCEPT !.step = "auth"]}
    ELSE pending' = pending \ {p}

Init ==
    /\ electionConfig = "empty"
    /\ storage = [k \in StorageKeys |-> None]
    /\ pending = {}
    /\ calls = 0
    /\ crashes = 0

\* authenticateWithCodes(codes): updateElectionConfig() fetches the
\* configuration if this.electionConfig has no entries; either way the
\* call suspends on its await.
AuthenticateWithCodes ==
    /\ CanInvoke
    /\ pending' = pending \cup
         {[id |-> calls + 1,
           step |-> IF electionConfig = "empty" THEN "fetch" ELSE "cached"]}
    /\ calls' = calls + 1
    /\ UNCHANGED <<electionConfig, storage, crashes>>

\* The backend answered the configuration request with cfg, which replaces
\* this.electionConfig whatever it holds now.
ConfigFetched(p, cfg) ==
    /\ p.step = "fetch"
    /\ electionConfig' = cfg
    /\ ProceedWithConfig(p)
    /\ UNCHANGED <<storage, calls, crashes>>

\* updateElectionConfig resolved without a request: the configuration is
\* whatever this.electionConfig holds when the call resumes.
ConfigCached(p) ==
    /\ p.step = "cached"
    /\ UNCHANGED electionConfig
    /\ ProceedWithConfig(p)
    /\ UNCHANGED <<storage, calls, crashes>>

\* Variant of the continuation below that sets the key pair under the
\* misspelt key "keypair".
AuthenticatedMisspeltKey(p) ==
    /\ p.step = "auth"
    /\ storage' = [k \in StorageKeys \cup {"keypair"} |->
                     IF k \in {"precinctId", "keypair", "emptyCryptograms"}
                     THEN p.id ELSE storage[k]]
    /\ pending' = pending \ {p}
    /\ UNCHANGED <<electionConfig, calls, crashes>>

\* The board authenticated the codes: precinctId, keyPair and
\* emptyCryptograms are set, in that order, with no await between them.
Authenticated(p) ==
    /\ p.step = "auth"
    /\ storage' = Written(3, p.id)
    /\ pending' = pending \ {p}
    /\ UNCHANGED <<electionConfig, calls, crashes>>

\* A request failed, or the board rejected the codes: the call rejects and
\* its continuation never runs.
RequestFailed(p) ==
    /\ p.step \in {"fetch", "auth"}
    /\ pending' = pending \ {p}
    /\ UNCHANGED <<electionConfig, storage, calls, crashes>>

\* The process is killed and the app creates a new AVClient over the same
\* storage: suspended calls are gone and the configuration is {} again.
Crash ==
    /\ crashes < MaxCrashes
    /\ crashes' = crashes + 1
    /\ electionConfig' = "empty"
    /\ pending' = {}
    /\ UNCHANGED <<storage, calls>>

\* The process is killed while the board's answer to call p is being
\* written: only the first n storage keys were set.
CrashWhileWriting(p, n) ==
    /\ p.step = "auth"
    /\ crashes < MaxCrashes
    /\ storage' = Written(n, p.id)
    /\ crashes' = crashes + 1
    /\ electionConfig' = "empty"
    /\ pending' = {}
    /\ UNCHANGED calls

Next ==
    \/ AuthenticateWithCodes
    \/ Crash
    \/ \E p \in pending :
          \/ \E cfg \in Served : ConfigFetched(p, cfg)
          \/ ConfigCached(p)
          \/ Authenticated(p)
          \/ RequestFailed(p)
          \/ \E n \in 1 .. 2 : CrashWhileWriting(p, n)

Spec == Init /\ [][Next]_vars

-----------------------------------------------------------------------------
(* Properties                                                              *)

\* The legacy client stays well formed across restarts: the app's storage
\* holds exactly the three keys that authenticateWithCodes sets (lines
\* 41-43, the keys the app reads back), each unset or the answer of a call,
\* and the suspended calls, call count and restart count are in range.
TypeOK ==
    /\ electionConfig \in Configs
    /\ storage \in [StorageKeys -> Ids \cup {None}]
    /\ pending \subseteq CallType
    /\ calls \in 0 .. MaxCalls
    /\ crashes \in 0 .. MaxCrashes

\* updateElectionConfig populates the configuration "if it hasn't been
\* populated yet" (its comment, line 93): no step of a running client
\* replaces a configuration that has entries.
ConfigPopulatedOnce ==
    [][electionConfig # "empty" /\ crashes' = crashes =>
         electionConfig' = electionConfig]_vars

=============================================================================
