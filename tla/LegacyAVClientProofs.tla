------------------------- MODULE LegacyAVClientProofs -------------------------
(***************************************************************************)
(* Proof of the type invariant of the legacy AVClient, for every choice of *)
(* the constants and across any number of restarts: storage maps exactly   *)
(* the three keys authenticateWithCodes writes to call ids or None, and    *)
(* the suspended calls stay well formed.  TypeOK is inductive as it        *)
(* stands; the lemmas say what the helpers Written and ProceedWithConfig   *)
(* preserve.                                                               *)
(***************************************************************************)
EXTENDS LegacyAVClient, TLAPS

-----------------------------------------------------------------------------
\* Setting the first n keys to a call's answer keeps storage well typed.
LEMMA WrittenTyped ==
    ASSUME TypeOK, NEW n \in 1 .. 3, NEW i \in Ids
    PROVE  Written(n, i) \in [StorageKeys -> Ids \cup {None}]
BY DEF TypeOK, Written

\* Resuming a call after updateElectionConfig keeps the suspended calls
\* well typed: the call leaves, or moves on to the authentication request.
LEMMA ProceedTyped ==
    ASSUME TypeOK, NEW p \in pending, ProceedWithConfig(p)
    PROVE  pending' \subseteq CallType
BY DEF TypeOK, ProceedWithConfig, CallType

LEMMA InitTypeOK == Init => TypeOK
BY LegacyAssumption DEF Init, TypeOK, Configs

LEMMA NextTypeOK == TypeOK /\ [Next]_vars => TypeOK'
<1> SUFFICES ASSUME TypeOK, [Next]_vars PROVE TypeOK'
  OBVIOUS
<1>1. CASE AuthenticateWithCodes
  <2>1. calls + 1 \in Ids
    BY <1>1, LegacyAssumption DEF AuthenticateWithCodes, CanInvoke, TypeOK,
                                  Ids
  <2>2. pending' \subseteq CallType
    BY <1>1, <2>1 DEF AuthenticateWithCodes, TypeOK, CallType
  <2>3. QED
    BY <1>1, <2>1, <2>2 DEF AuthenticateWithCodes, TypeOK, Ids
<1>2. CASE Crash
  BY <1>2, LegacyAssumption DEF Crash, TypeOK, Configs
<1>3. CASE \E p \in pending :
            \/ \E cfg \in Served : ConfigFetched(p, cfg)
            \/ ConfigCached(p)
            \/ Authenticated(p)
            \/ RequestFailed(p)
            \/ \E n \in 1 .. 2 : CrashWhileWriting(p, n)
  <2> PICK p \in pending :
            \/ \E cfg \in Served : ConfigFetched(p, cfg)
            \/ ConfigCached(p)
            \/ Authenticated(p)
            \/ RequestFailed(p)
            \/ \E n \in 1 .. 2 : CrashWhileWriting(p, n)
    BY <1>3
  <2>1. p.id \in Ids
    BY DEF TypeOK, CallType
  <2>2. CASE \E cfg \in Served : ConfigFetched(p, cfg)
    <3>1. PICK cfg \in Served : ConfigFetched(p, cfg)
      BY <2>2
    <3>2. pending' \subseteq CallType
      BY <3>1, ProceedTyped DEF ConfigFetched
    <3>3. QED
      BY <3>1, <3>2, LegacyAssumption DEF ConfigFetched, TypeOK
  <2>3. CASE ConfigCached(p)
    <3>1. pending' \subseteq CallType
      BY <2>3, ProceedTyped DEF ConfigCached
    <3>2. QED
      BY <2>3, <3>1 DEF ConfigCached, TypeOK
  <2>4. CASE Authenticated(p)
    <3>1. storage' \in [StorageKeys -> Ids \cup {None}]
      BY <2>1, <2>4, WrittenTyped DEF Authenticated
    <3>2. QED
      BY <2>4, <3>1 DEF Authenticated, TypeOK
  <2>5. CASE RequestFailed(p)
    BY <2>5 DEF RequestFailed, TypeOK
  <2>6. CASE \E n \in 1 .. 2 : CrashWhileWriting(p, n)
    <3>1. PICK n \in 1 .. 2 : CrashWhileWriting(p, n)
      BY <2>6
    <3>2. storage' \in [StorageKeys -> Ids \cup {None}]
      BY <2>1, <3>1, WrittenTyped DEF CrashWhileWriting
    <3>3. QED
      BY <3>1, <3>2, LegacyAssumption DEF CrashWhileWriting, TypeOK, Configs
  <2>7. QED
    BY <2>2, <2>3, <2>4, <2>5, <2>6
<1>4. CASE UNCHANGED vars
  BY <1>4 DEF vars, TypeOK
<1>5. QED
  BY <1>1, <1>2, <1>3, <1>4 DEF Next

-----------------------------------------------------------------------------
\* Type correctness of the legacy client: storage maps its three keys to
\* call ids or None, and the suspended calls, call count and restart count
\* stay well formed, across restarts.
THEOREM TypeCorrect == Spec => []TypeOK
BY InitTypeOK, NextTypeOK, PTL DEF Spec

=============================================================================
