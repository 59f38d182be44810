------------------------- MODULE SingleProcessProofs -------------------------
(* Proofs about the two models of what one process does by itself: the in-memory *)
(* replay guard, for every set of calls and authorizations, every validity       *)
(* window, clock skew and capacity of the store; and one POST /route call, for   *)
(* every header, key, identifier, group and code.  The two share no state, and   *)
(* no theorem about one uses the other.                                          *)
EXTENDS MemoryReplayGuard, RouteRequest, FiniteSetTheorems, TLAPS

-----------------------------------------------------------------------------
(* The in-memory replay guard: type correctness.                                 *)

TypeInv == TypeOK /\ IsFiniteSet(entries)

(* The purge only drops entries.                                                *)
LEMMA LiveEntriesFit ==
    ASSUME TypeInv
    PROVE  /\ LiveEntries \subseteq entries /\ IsFiniteSet(LiveEntries)
           /\ Cardinality(LiveEntries) \in Nat /\ Cardinality(LiveEntries) <= MaxEntries
<1>1. LiveEntries \in SUBSET entries
  BY DEF LiveEntries
<1>2. Cardinality(entries) \in Nat /\ Cardinality(entries) <= MaxEntries
  BY FS_CardinalityType DEF TypeInv, TypeOK
<1>3. IsFiniteSet(LiveEntries) /\ Cardinality(LiveEntries) <= Cardinality(entries)
  BY <1>1, FS_Subset DEF TypeInv
<1>4. Cardinality(LiveEntries) \in Nat
  BY <1>3, FS_CardinalityType
<1> QED
  BY <1>1, <1>2, <1>3, <1>4, GuardAssumption

LEMMA TypeInit == Init => TypeInv
<1>1. Cardinality({}) = 0 /\ IsFiniteSet({})
  BY FS_EmptySet
<1> QED
  BY <1>1, GuardAssumption DEF Init, TypeInv, TypeOK, Outcomes

(* Every step keeps every variable in its type, and the store in its capacity.  *)
LEMMA TypeStep == TypeInv /\ [Next]_vars => TypeInv'
<1> SUFFICES ASSUME TypeInv, [Next]_vars PROVE TypeInv'
  OBVIOUS
<1> USE DEF TypeInv, TypeOK
<1>1. ASSUME NEW r \in Requests, Verify(r) PROVE TypeInv'
  <2> DEFINE a == auth[r]
  <2>1. a \in Auths /\ Verdict(a) \in Outcomes
    BY DEF Verdict, Outcomes
  <2>2. outcome' \in [Requests -> Outcomes] /\ grants' \in [Auths -> SUBSET (Requests \X Nat)]
    BY <1>1, <2>1 DEF Verify
  <2>3. entries' \subseteq Auths /\ IsFiniteSet(entries') /\ Cardinality(entries') <= MaxEntries
    <3>1. CASE entries' = entries \/ entries' = LiveEntries
      BY <3>1, LiveEntriesFit
    <3>2. CASE Verdict(a) = "granted"
      <4>1. entries' = LiveEntries \cup {a}
        BY <1>1, <3>2 DEF Verify
      <4>2. Cardinality(LiveEntries) < MaxEntries
        BY <3>2, LiveEntriesFit, GuardAssumption DEF Verdict, Full
      <4>3. Cardinality(LiveEntries \cup {a}) <= Cardinality(LiveEntries) + 1
            /\ IsFiniteSet(LiveEntries \cup {a})
        <5>1. IsFiniteSet(LiveEntries) /\ Cardinality(LiveEntries) \in Nat
          BY LiveEntriesFit, FS_CardinalityType
        <5>2. CASE a \in LiveEntries
          <6>1. LiveEntries \cup {a} = LiveEntries
            BY <5>2
          <6>2. Cardinality(LiveEntries) <= Cardinality(LiveEntries) + 1
            BY <5>1
          <6> QED BY <5>1, <6>1, <6>2
        <5>3. CASE a \notin LiveEntries
          <6>1. /\ Cardinality(LiveEntries \cup {a}) = Cardinality(LiveEntries) + 1
                /\ IsFiniteSet(LiveEntries \cup {a})
            BY <5>1, <5>3, FS_AddElement
          <6> QED BY <5>1, <6>1
        <5> QED BY <5>2, <5>3
      <4>4. Cardinality(LiveEntries \cup {a}) \in Nat
        BY <4>3, FS_CardinalityType
      <4> QED
        BY <2>1, <4>1, <4>2, <4>3, <4>4, LiveEntriesFit, GuardAssumption
    <3> QED
      BY <1>1, <3>1, <3>2 DEF Verify
  <2> QED
    BY <1>1, <2>2, <2>3 DEF Verify
<1>2. ASSUME NEW r \in Requests, Decide(r) PROVE TypeInv'
  BY <1>2 DEF Decide, Outcomes
<1>3. CASE Tick
  BY <1>3 DEF Tick
<1>4. CASE UNCHANGED vars
  BY <1>4 DEF vars
<1> QED
  BY <1>1, <1>2, <1>3, <1>4 DEF Next, Finished

LEMMA TypeInvariant == Spec => []TypeInv
  BY TypeInit, TypeStep, PTL DEF Spec

(* The types of the process's state: a finite store within                      *)
(* RUNTIME_AUTHORIZATION_REPLAY_MAX_ENTRIES among them.                          *)
THEOREM TypeCorrect == Spec => []TypeOK
<1>1. TypeInv => TypeOK
  BY DEF TypeInv
<1> QED
  BY <1>1, TypeInvariant, PTL

-----------------------------------------------------------------------------
(* The entries and the calls are accounted for by the consumptions.             *)

(* The store remembers what is consumed and live, and nothing else.             *)
Remembered ==
    /\ \A a \in Auths : grants[a] # {} /\ ExpiresAt[a] > time => a \in entries
    /\ \A a \in entries : grants[a] # {}

(* A consumption belongs to the call that was granted it.                       *)
Owned ==
    \A a \in Auths : \A g \in grants[a] : auth[g[1]] = a /\ outcome[g[1]] # "none"

(* A call the guard granted has consumed.                                       *)
Spent(r) == \E g \in grants[auth[r]] : g[1] = r

GrantedSpent == \A r \in Requests : outcome[r] = "granted" => Spent(r)

GuardInv == Remembered /\ Owned /\ GrantedSpent

LEMMA GuardInit == Init => GuardInv
  BY DEF Init, GuardInv, Remembered, Owned, GrantedSpent

LEMMA GuardStep == TypeInv /\ GuardInv /\ [Next]_vars => GuardInv'
<1> SUFFICES ASSUME TypeInv, GuardInv, [Next]_vars PROVE GuardInv'
  OBVIOUS
<1> USE DEF TypeInv, TypeOK, GuardInv, Remembered, Owned, GrantedSpent, Spent
<1>1. ASSUME NEW r \in Requests, Verify(r) PROVE GuardInv'
  <2> DEFINE a == auth[r]
  <2>1. a \in Auths /\ auth' = auth /\ time' = time
    BY <1>1 DEF Verify
  <2>2. CASE Verdict(a) = "granted"
    <3>1. /\ entries' = LiveEntries \cup {a}
          /\ grants' = [grants EXCEPT ![a] = @ \cup {<<r, time>>}]
          /\ outcome' = [outcome EXCEPT ![r] = "granted"]
      BY <1>1, <2>2 DEF Verify
    <3>2. Remembered'
      <4>1. grants'[a] # {} /\ \A b \in Auths \ {a} : grants'[b] = grants[b]
        BY <2>1, <3>1
      <4>2. ASSUME NEW b \in Auths, grants'[b] # {}, ExpiresAt[b] > time PROVE b \in entries'
        BY <3>1, <4>1, <4>2 DEF LiveEntries
      <4>3. ASSUME NEW b \in entries' PROVE grants'[b] # {}
        BY <3>1, <4>1, <4>3 DEF LiveEntries
      <4> QED
        BY <2>1, <4>2, <4>3
    <3>3. Owned'
      BY <2>1, <3>1
    <3>4. GrantedSpent'
      <4>1. <<r, time>> \in grants'[a] /\ <<r, time>>[1] = r
        BY <2>1, <3>1
      <4>2. ASSUME NEW s \in Requests, s # r, outcome'[s] = "granted" PROVE Spent(s)'
        BY <2>1, <3>1, <4>2
      <4> QED
        BY <2>1, <4>1, <4>2
    <3> QED
      BY <3>2, <3>3, <3>4
  <2>3. CASE Verdict(a) # "granted"
    <3>1. grants' = grants /\ outcome' = [outcome EXCEPT ![r] = Verdict(a)]
          /\ entries' \in {entries, LiveEntries} /\ Verdict(a) # "none"
      BY <1>1, <2>3 DEF Verify, Verdict
    <3> QED
      BY <2>1, <2>3, <3>1 DEF LiveEntries
  <2> QED
    BY <2>2, <2>3
<1>2. ASSUME NEW r \in Requests, Decide(r) PROVE GuardInv'
  BY <1>2 DEF Decide
<1>3. CASE Tick
  BY <1>3, GuardAssumption DEF Tick
<1>4. CASE UNCHANGED vars
  BY <1>4 DEF vars
<1> QED
  BY <1>1, <1>2, <1>3, <1>4 DEF Next, Finished

LEMMA GuardInvariant == Spec => []GuardInv
  BY GuardInit, GuardStep, TypeInvariant, PTL DEF Spec

-----------------------------------------------------------------------------
(* What the guard promises.                                                     *)

(* The store keeps its capacity, and a caller is told that it is full only for  *)
(* as many other authorizations as are consumed and still live.                 *)
LEMMA FullStep ==
    ASSUME TypeInv, TypeInv', GuardInv, [Next]_vars,
           NEW r \in Requests, outcome[r] = "none", outcome'[r] = "replay_store_full"
    PROVE  Cardinality({a \in Auths \ {auth[r]} : grants[a] # {} /\ ExpiresAt[a] > time})
             >= MaxEntries
<1>1. Verify(r)
  BY DEF Next, Verify, Decide, Tick, Finished, vars, TypeInv, TypeOK
<1>2. Verdict(auth[r]) = "replay_store_full"
  BY <1>1 DEF Verify, TypeInv, TypeOK
<1>3. auth[r] \notin LiveEntries /\ Full
  BY <1>2 DEF Verdict
<1>4. {a \in Auths \ {auth[r]} : grants[a] # {} /\ ExpiresAt[a] > time} = LiveEntries
  BY <1>3 DEF LiveEntries, GuardInv, Remembered, TypeInv, TypeOK
<1> QED
  BY <1>3, <1>4 DEF Full

(* An expired entry never keeps a caller out of the store, for any capacity: the *)
(* purge at the start of consume (InMemoryRuntimeAuthorizationReplayGuard).      *)
THEOREM FullStoresAreLive == Spec => FullHasCause
<1>1. TypeInv /\ TypeInv' /\ GuardInv /\ [Next]_vars =>
        [/\ Cardinality(entries') <= MaxEntries
         /\ \A r \in Requests :
              outcome[r] = "none" /\ outcome'[r] = "replay_store_full" =>
                Cardinality({a \in Auths \ {auth[r]} :
                               grants[a] # {} /\ ExpiresAt[a] > time}) >= MaxEntries]_vars
  <2>1. TypeInv' => Cardinality(entries') <= MaxEntries
    BY DEF TypeInv, TypeOK
  <2> QED
    BY <2>1, FullStep
<1> QED
  BY <1>1, TypeInvariant, GuardInvariant, PTL DEF Spec, FullHasCause

-----------------------------------------------------------------------------
(* The refinement.                                                              *)

Verdicts == [r \in Requests |->
               IF outcome[r] \in {"none", "granted"} THEN "pending"
               ELSE IF outcome[r] = "routed" THEN "routed" ELSE "refused"]

LEMMA LedgerInitRefines == Init => Ledger!LedgerInit
  BY DEF Init, Ledger!LedgerInit

(* Each step of the process is one step of the ledger, or none: a verification   *)
(* spends or refuses, and the end of a granted call routes or refuses.           *)
LEMMA LedgerStepRefines ==
    ASSUME TypeInv, GuardInv, [Next]_vars
    PROVE  [Ledger!LedgerNext]_(Ledger!ledger)
<1> USE DEF TypeInv, TypeOK
<1>1. ASSUME NEW r \in Requests, Verify(r) PROVE Ledger!LedgerNext
  <2> DEFINE a == auth[r]
  <2>1. a \in Auths /\ time' = time /\ outcome[r] = "none"
        /\ outcome' = [outcome EXCEPT ![r] = Verdict(a)]
    BY <1>1 DEF Verify
  <2>2. CASE Verdict(a) = "granted"
    <3>1. grants' = [grants EXCEPT ![a] = @ \cup {<<r, time>>}]
      BY <1>1, <2>2 DEF Verify
    <3>2. Verdicts' = Verdicts
      BY <2>1, <2>2 DEF Verdicts
    <3>3. time < ExpiresAt[a] => grants[a] = {}
      BY <2>1, <2>2, GuardAssumption DEF Verdict, LiveEntries, GuardInv, Remembered
    <3>4. \A b \in Auths \ {a} : \A g \in grants[b] : g[1] # r
      BY <2>1 DEF GuardInv, Owned
    <3> QED
      BY <2>1, <3>1, <3>2, <3>3, <3>4
         DEF Ledger!LedgerNext, Ledger!Spend, Ledger!Live, Verdicts
  <2>3. CASE Verdict(a) # "granted"
    <3>1. grants' = grants /\ Verdict(a) \notin {"none", "granted", "routed"}
      BY <1>1, <2>3 DEF Verify, Verdict
    <3>2. Verdicts[r] = "pending" /\ Verdicts' = [Verdicts EXCEPT ![r] = "refused"]
      BY <2>1, <3>1 DEF Verdicts
    <3> QED
      BY <2>1, <3>1, <3>2 DEF Ledger!LedgerNext, Ledger!Refuse, Verdicts
  <2> QED
    BY <2>2, <2>3
<1>2. ASSUME NEW r \in Requests, Decide(r) PROVE Ledger!LedgerNext
  <2>1. PICK code \in {"routed", "refused"} : outcome' = [outcome EXCEPT ![r] = code]
    BY <1>2 DEF Decide
  <2>2. Verdicts[r] = "pending" /\ Verdicts' = [Verdicts EXCEPT ![r] = code]
    BY <1>2, <2>1 DEF Decide, Verdicts
  <2>3. \E a \in Auths : \E g \in grants[a] : g[1] = r
    BY <1>2 DEF Decide, GuardInv, GrantedSpent, Spent
  <2> QED
    BY <1>2, <2>1, <2>2, <2>3
       DEF Decide, Ledger!LedgerNext, Ledger!Route, Ledger!Refuse, Verdicts
<1>3. CASE Tick
  BY <1>3 DEF Tick, Ledger!LedgerNext, Ledger!Advance
<1>4. CASE UNCHANGED vars
  BY <1>4 DEF vars, Ledger!ledger
<1> QED
  BY <1>1, <1>2, <1>3, <1>4 DEF Next, Finished

(* The store in the process keeps the promise of ADR-0012 that the shared one    *)
(* keeps: a live authorization is consumed once, and every routed call consumed  *)
(* its own.                                                                      *)
THEOREM GuardImplementsLedger == Spec => ImplementsLedger
<1>1. Init /\ [][Next]_vars /\ []TypeInv /\ []GuardInv
        => Ledger!LedgerInit /\ [][Ledger!LedgerNext]_(Ledger!ledger)
  BY LedgerInitRefines, LedgerStepRefines, PTL
<1> QED
  BY <1>1, TypeInvariant, GuardInvariant, PTL DEF Spec, ImplementsLedger, Ledger!LedgerSpec

-----------------------------------------------------------------------------
(* What the ledger amounts to.                                                   *)

(* The consumptions of authorization a by call r.                                *)
Consumptions(a, r) == {g \in grants[a] : g[1] = r}

(* At most one consumption of an authorization is at a time it was live.         *)
SpentOnce ==
    \A a \in Auths : \A g, h \in grants[a] :
        g[2] < ExpiresAt[a] /\ h[2] < ExpiresAt[a] => g = h

(* Every routed call consumed, and no call consumed two authorizations.          *)
RoutedSpent ==
    \A r \in Requests :
        /\ Verdicts[r] = "routed" => \E a \in Auths : Consumptions(a, r) # {}
        /\ \A a, b \in Auths : Consumptions(a, r) # {} /\ Consumptions(b, r) # {} => a = b

Promised ==
    /\ SpentOnce
    /\ RoutedSpent
    /\ grants \in [Auths -> SUBSET (Requests \X Nat)]
    /\ time \in Nat

(* A step of the ledger spends only what is not live or not spent, for a call    *)
(* that has spent nothing else.                                                  *)
LEMMA LedgerStep == Promised /\ [Ledger!LedgerNext]_(Ledger!ledger) => Promised'
<1> SUFFICES ASSUME Promised, [Ledger!LedgerNext]_(Ledger!ledger) PROVE Promised'
  OBVIOUS
<1> USE DEF Promised, SpentOnce, RoutedSpent, Consumptions
<1>1. CASE Ledger!Advance
  BY <1>1 DEF Ledger!Advance, Verdicts
<1>2. ASSUME NEW r \in Requests, Ledger!Route(r) PROVE Promised'
  <2>1. UNCHANGED <<time, grants>> /\ Verdicts' = [Verdicts EXCEPT ![r] = "routed"]
        /\ \E a \in Auths : \E g \in grants[a] : g[1] = r
    BY <1>2 DEF Ledger!Route, Verdicts
  <2> QED
    BY <2>1 DEF Verdicts
<1>3. ASSUME NEW r \in Requests, Ledger!Refuse(r) PROVE Promised'
  <2>1. UNCHANGED <<time, grants>> /\ Verdicts' = [Verdicts EXCEPT ![r] = "refused"]
    BY <1>3 DEF Ledger!Refuse, Verdicts
  <2> QED
    BY <2>1 DEF Verdicts
<1>4. ASSUME NEW r \in Requests, NEW a \in Auths, Ledger!Spend(r, a) PROVE Promised'
  <2>1. /\ time < ExpiresAt[a] => grants[a] = {}
        /\ \A b \in Auths \ {a} : \A g \in grants[b] : g[1] # r
        /\ grants' = [grants EXCEPT ![a] = @ \cup {<<r, time>>}]
        /\ time' = time /\ Verdicts' = Verdicts
    BY <1>4 DEF Ledger!Spend, Ledger!Live, Verdicts
  <2>2. SpentOnce'
    BY <2>1
  <2>3. RoutedSpent'
    BY <2>1
  <2> QED
    BY <2>1, <2>2, <2>3
<1>5. CASE UNCHANGED Ledger!ledger
  BY <1>5 DEF Ledger!ledger, Verdicts
<1> QED
  BY <1>1, <1>2, <1>3, <1>4, <1>5 DEF Ledger!LedgerNext

(* What refining the ledger is worth: in every behaviour of AuthorizationLedger   *)
(* an authorization is consumed at most once while it is live, a routed call has  *)
(* consumed, and no call has consumed two.  ADR-0012 asks this of every replay   *)
(* guard the verifier may be given.                                              *)
THEOREM LedgerKeepsPromise == Ledger!LedgerSpec => [](SpentOnce /\ RoutedSpent)
<1>1. Ledger!LedgerInit => Promised
  BY DEF Ledger!LedgerInit, Promised, SpentOnce, RoutedSpent, Consumptions, Verdicts
<1>2. Promised => SpentOnce /\ RoutedSpent
  BY DEF Promised
<1> QED
  BY <1>1, <1>2, LedgerStep, PTL DEF Ledger!LedgerSpec

(* InMemoryRuntimeAuthorizationReplayGuard.consume therefore spends an           *)
(* authorization once while it is live, although it purges on every call and     *)
(* forgets what expired, and a call is routed only after a consumption of its    *)
(* own.                                                                          *)
THEOREM GuardSpendsOnce == Spec => [](SpentOnce /\ RoutedSpent)
  BY GuardImplementsLedger, LedgerKeepsPromise, PTL DEF ImplementsLedger

-----------------------------------------------------------------------------
(* One POST /route call.                                                        *)

LEMMA StageNames ==
    /\ Len(Stages) = 9
    /\ Stages[1] = "envelope" /\ Stages[2] = "identity" /\ Stages[3] = "key"
    /\ Stages[4] = "signature" /\ Stages[5] = "binding" /\ Stages[6] = "provenance"
    /\ Stages[7] = "control" /\ Stages[8] = "consume" /\ Stages[9] = "model"
  BY DEF Stages

LEMMA StageCodes ==
    ASSUME NEW s \in 1..Len(Stages), NEW code \in Codes(Stages[s])
    PROVE  code \in AllCodes /\ code \notin {"none", "runtime_authorization_not_configured"}
<1>1. code \in AllCodes
  BY DEF AllCodes
<1>2. s \in 1..9
  BY StageNames
<1>3. code \notin {"none", "runtime_authorization_not_configured"}
  BY <1>2, StageNames DEF Codes
<1> QED
  BY <1>1, <1>3

LEMMA CallTypeInit == CallInit => CallTypeOK
<1>1. NoEvent \in [category : Categories \cup {"none"}, group : BOOLEAN,
                   state : {"none", "absent", "present", "verified"},
                   id : {"none", "plain", "stripped", "generated", "unbound-request"}]
  BY DEF NoEvent
<1>2. 1 \in 1..Len(Stages) + 1 /\ NoDenial.code = "none"
  BY StageNames DEF NoDenial
<1>3. CallInit => EvidenceTypeOK
  <2> SUFFICES ASSUME CallInit PROVE EvidenceTypeOK
    OBVIOUS
  <2>1. (answer = 403) = (event # NoEvent)
    BY DEF CallInit, EvidenceInit
  <2> HIDE DEF NoEvent
  <2> QED
    BY <1>1, <1>2, <2>1 DEF CallInit, EvidenceInit, EvidenceTypeOK
<1> QED
  BY <1>3, Zenon DEF CallInit, CallTypeOK, Places

(* Every step keeps every variable in its type.                                  *)
LEMMA CallTypeStep == CallTypeOK /\ [CallNext]_callVars => CallTypeOK'
<1> SUFFICES ASSUME CallTypeOK, [CallNext]_callVars PROVE CallTypeOK'
  OBVIOUS
<1> USE DEF CallTypeOK, EvidenceTypeOK, call, inner, outer
<1>0. CorrelationId \in {"plain", "edged", "blank", "generated"}
  BY DEF CorrelationId
<1>1. CASE ThrottleIp
  <2>1. counted' \subseteq Labels
    <3>1. PICK label \in {"per_ip_allowed", "per_ip_blocked"} : counted' = counted \cup {label}
      BY <1>1 DEF ThrottleIp, Count
    <3> QED
      BY <3>1 DEF Labels
  <2> QED
    BY <1>0, <1>1, <2>1 DEF ThrottleIp, Proceed, Answer, Places
<1>2. CASE AdmitBody
  BY <1>0, <1>2 DEF AdmitBody, Proceed, Answer, Places
<1>3. CASE ParseBody
  BY <1>0, <1>3 DEF ParseBody, Proceed, Answer, Places
<1>4. CASE ThrottleAgent
  <2>1. counted' \subseteq Labels
    <3>1. PICK label \in {"per_agent_allowed", "per_agent_blocked"} :
             counted' = counted \cup {label}
      BY <1>4 DEF ThrottleAgent, Count
    <3> QED
      BY <3>1 DEF Labels
  <2> QED
    BY <1>0, <1>4, <2>1 DEF ThrottleAgent, Proceed, Answer, Places
<1>5. CASE _authenticate
  BY <1>0, <1>5 DEF _authenticate, Proceed, Answer, Crash, Places
<1>6. CASE PassStage
  <2>1. stage < Len(Stages) /\ stage' = stage + 1 /\ stateVerified' \in BOOLEAN
        /\ UNCHANGED <<call, stateGroup, denial, answer, event>>
    BY <1>6 DEF PassStage, Pass
  <2> QED
    BY <1>6, <2>1, StageNames DEF PassStage, Count, Labels
<1>7. CASE Deny403
  <2>1. denial'.code \in AllCodes \cup {"runtime_authorization_not_configured"}
    <3>1. CASE RefuseUnconfigured
      BY <3>1 DEF RefuseUnconfigured, Deny
    <3>2. CASE Raise
      <4>1. PICK code \in Codes(Stages[stage]) :
               denial' = [code |-> code, verified |-> Stages[stage] = "control"]
        BY <3>2 DEF Raise, Deny
      <4> QED
        BY <3>2, <4>1, StageCodes DEF Raise
    <3> QED
      BY <1>7, <3>1, <3>2 DEF Deny403
  <2>2. UNCHANGED <<call, stage, stateVerified, stateGroup, answer, event>>
    BY <1>7 DEF Deny403, RefuseUnconfigured, Raise, Deny
  <2> QED
    BY <1>7, <2>1, <2>2 DEF Deny403
<1>8. CASE Refuse
  BY <1>0, <1>8 DEF Refuse, RefuseRouting, Running, Count, Legacy, Labels, EchoIfAnswered, Stay
<1>9. CASE Select
  <2>1. counted' \subseteq Labels
    BY <1>9 DEF Select, Count, Legacy, Labels
  <2> QED
    <3>1. UNCHANGED <<call, stage, stateVerified, denial, event, api_key, configured, at>>
      BY <1>9 DEF Select, SelectGroup, Stay
    <3>2. /\ answer = 0
          /\ answer' = 0 \/ answer' = 200
          /\ stateGroup' = TRUE \/ stateGroup' = stateGroup
      <4>1. SelectGroup
        BY <1>9 DEF Select
      <4> HIDE DEF CallTypeOK, EvidenceTypeOK, call, inner, outer
      <4> QED
        BY <4>1, Zenon DEF SelectGroup, Running
    <3>3. echo' \in {echo, CorrelationId}
      BY <1>9, Zenon DEF Select, EchoIfAnswered
    <3>4. stateGroup' \in BOOLEAN /\ answer' \in {0, 200}
      <4>1. CASE stateGroup' = TRUE
        BY <3>2, <4>1
      <4>2. CASE stateGroup' = stateGroup
        BY <3>2, <4>2
      <4> QED
        BY <3>2, <4>1, <4>2
    <3>5. echo' \in {"none", "plain", "edged", "blank", "generated"}
      BY <1>0, <3>3
    <3>6. (answer' = 403) = (event' # NoEvent)
      BY <3>1, <3>2, <3>4
    <3> QED
      BY <2>1, <3>1, <3>4, <3>5, <3>6
<1>10. CASE Conclude
  <2>1. stage = Len(Stages) \/ stage = 1
    BY <1>10 DEF Conclude, Authorize, AtRouting
  <2> QED
    BY <1>0, <1>10, <2>1, StageNames
       DEF Conclude, Authorize, Running, Count, Labels, EchoIfAnswered, Stay
<1>11. CASE Handle
  <2>1. ASSUME Valid(Event)
        PROVE  /\ Event \in [category : Categories \cup {"none"}, group : BOOLEAN,
                             state : {"none", "absent", "present", "verified"},
                             id : {"none", "plain", "stripped", "generated", "unbound-request"}]
               /\ Event # NoEvent
    <3>1. strip(CorrelationId) \in {"plain", "stripped", "empty", "generated"}
      BY <1>0 DEF strip
    <3>2. strip(CorrelationId) # "empty"
      BY <2>1, Zenon DEF Valid, Event
    <3> QED
      BY <3>1, <3>2 DEF Event, NoEvent, violation_category, Categories
  <2> QED
    BY <1>0, <1>11, <2>1 DEF Handle, Report, Count, Labels, Stay
<1>12. CASE UNCHANGED callVars
  BY <1>12 DEF callVars, evidenceVars
<1> QED
  BY <1>1, <1>2, <1>3, <1>4, <1>5, <1>6, <1>7, <1>8, <1>9, <1>10, <1>11, <1>12
     DEF CallNext, Answered

(* The types of a call's state, and 403 answered exactly with an event.          *)
THEOREM CallTypeCorrect == CallSpec => []CallTypeOK
  BY CallTypeInit, CallTypeStep, PTL DEF CallSpec

-----------------------------------------------------------------------------
(* The order of the checks.                                                      *)

Ordered ==
    /\ at # "authenticated" =>
         counted \subseteq {"per_ip_allowed", "per_ip_blocked", "per_agent_allowed",
                            "per_agent_blocked"}
    /\ at # "arrived" => "per_ip_allowed" \in counted
    /\ at \in {"throttled", "authenticated"} => "per_agent_allowed" \in counted
    /\ at = "authenticated" => configured /\ api_key = "right"
    /\ at # "authenticated" => /\ stage = 1 /\ ~stateVerified /\ ~stateGroup
                               /\ denial = NoDenial /\ answer \notin {200, 403}
    /\ answer \in {401, 500} => at \in {"throttled", "authenticated"}

LEMMA OrderedStep == CallTypeOK /\ Ordered /\ [CallNext]_callVars => Ordered'
<1> SUFFICES ASSUME CallTypeOK, Ordered, [CallNext]_callVars PROVE Ordered'
  OBVIOUS
<1> USE DEF Ordered, inner, outer, Proceed, Answer, Count
<1>0. at \in Places
  BY DEF CallTypeOK
<1>1. CASE ThrottleIp
  BY <1>1 DEF ThrottleIp
<1>2. CASE AdmitBody
  BY <1>2 DEF AdmitBody
<1>3. CASE ParseBody
  BY <1>3 DEF ParseBody
<1>4. CASE ThrottleAgent
  BY <1>4 DEF ThrottleAgent
<1>5. CASE _authenticate
  BY <1>5 DEF _authenticate, Crash
<1>6. CASE PassStage
  BY <1>6 DEF PassStage, Pass, Authenticated
<1>7. CASE Deny403
  BY <1>7 DEF Deny403, RefuseUnconfigured, Raise, Deny, Authenticated
<1>8. CASE Refuse
  BY <1>8 DEF Refuse, RefuseRouting, Stay, Authenticated
<1>9. CASE Select
  BY <1>9 DEF Select, SelectGroup, Running, Stay, Authenticated
<1>10. CASE Conclude
  BY <1>10 DEF Conclude, Authorize, Stay, Authenticated
<1>11. CASE Handle
  BY <1>11 DEF Handle, Report, Stay, Authenticated
<1>12. CASE UNCHANGED callVars
  BY <1>12 DEF callVars, evidenceVars, call
<1> QED
  BY <1>1, <1>2, <1>3, <1>4, <1>5, <1>6, <1>7, <1>8, <1>9, <1>10, <1>11, <1>12
     DEF CallNext, Answered

LEMMA OrderedInvariant == CallSpec => []Ordered
<1>1. CallInit => Ordered
  BY DEF CallInit, EvidenceInit, Ordered
<1> QED
  BY <1>1, OrderedStep, CallTypeCorrect, PTL DEF CallSpec

(* Nothing about an authorization is done or told before both limiters admitted  *)
(* the call and its key was the agent's, in whatever way the call ends; and a    *)
(* 401 has been counted by both tiers (ThrottleIp, ThrottleAgent, _authenticate  *)
(* before the handler of entrypoints/http.py turns to the authorization).        *)
THEOREM AuthorizationComesLast == CallSpec => []ThrottledThenAuthenticated
<1>1. Ordered => ThrottledThenAuthenticated
  BY DEF Ordered, ThrottledThenAuthenticated
<1> QED
  BY <1>1, OrderedInvariant, PTL
-----------------------------------------------------------------------------
(* The correlation id.                                                           *)

Echoed ==
    /\ echo \in {"none", CorrelationId}
    /\ answer = 0 => echo = "none"
    /\ answer \notin {0, 500} => echo = CorrelationId
    /\ event # NoEvent => answer = 403 /\ event.id = strip(CorrelationId)

LEMMA EchoedStep == Echoed /\ [CallNext]_callVars => Echoed'
<1> SUFFICES ASSUME Echoed, [CallNext]_callVars PROVE Echoed'
  OBVIOUS
<1> USE DEF Echoed, inner, outer, Proceed, Answer
<1>0. /\ CorrelationId' = CorrelationId /\ CorrelationId # "none"
      /\ strip(CorrelationId)' = strip(CorrelationId)
  <2>1. correlation' = correlation
    BY DEF CallNext, Answered, ThrottleIp, AdmitBody, ParseBody, ThrottleAgent, _authenticate,
           Crash, call, callVars, evidenceVars, PassStage, Pass, Deny403, RefuseUnconfigured,
           Raise, Deny, Refuse, RefuseRouting, Select, SelectGroup, Conclude, Authorize,
           Handle, Report
  <2> QED
    BY <2>1 DEF CorrelationId, strip
<1>1. CASE ThrottleIp
  BY <1>0, <1>1 DEF ThrottleIp
<1>2. CASE AdmitBody
  BY <1>0, <1>2 DEF AdmitBody
<1>3. CASE ParseBody
  BY <1>0, <1>3 DEF ParseBody
<1>4. CASE ThrottleAgent
  BY <1>0, <1>4 DEF ThrottleAgent
<1>5. CASE _authenticate
  BY <1>0, <1>5 DEF _authenticate, Crash
<1>6. CASE PassStage
  BY <1>0, <1>6 DEF PassStage, Pass
<1>7. CASE Deny403
  BY <1>0, <1>7 DEF Deny403, RefuseUnconfigured, Raise, Deny
<1>8. CASE Refuse
  BY <1>0, <1>8 DEF Refuse, RefuseRouting, Running, EchoIfAnswered
<1>9. CASE Select
  BY <1>0, <1>9 DEF Select, SelectGroup, Running, EchoIfAnswered
<1>10. CASE Conclude
  BY <1>0, <1>10 DEF Conclude, Authorize, Running, EchoIfAnswered
<1>11. CASE Handle
  <2>1. Event.id = strip(CorrelationId)
    BY DEF Event
  <2> QED
    BY <1>0, <1>11, <2>1 DEF Handle, Report
<1>12. CASE UNCHANGED callVars
  BY <1>0, <1>12 DEF callVars, evidenceVars
<1> QED
  BY <1>1, <1>2, <1>3, <1>4, <1>5, <1>6, <1>7, <1>8, <1>9, <1>10, <1>11, <1>12
     DEF CallNext, Answered

(* Every answer carries the correlation id that does not come of an exception    *)
(* nobody handles, and the event of a denial carries that of its answer, less    *)
(* the blanks the contract takes off its edges (_bind_correlation_id,            *)
(* _handle_runtime_authorization_error and the _StrictModel of the event).       *)
THEOREM EvidenceIsJoined == CallSpec => []EvidenceJoinsAnswer
<1>1. CallInit => Echoed
  BY DEF CallInit, EvidenceInit, Echoed
<1>2. Echoed => EvidenceJoinsAnswer
  BY DEF Echoed, EvidenceJoinsAnswer
<1> QED
  BY <1>1, <1>2, EchoedStep, PTL DEF CallSpec

-----------------------------------------------------------------------------
(* The metrics.                                                                  *)

Counted ==
    /\ answer = 0 =>
         counted \subseteq {"per_ip_allowed", "per_agent_allowed", "verified", "duration"}
    /\ "verified" \in counted => required
    /\ "legacy_dev" \in counted => ~required
    /\ MetricsMatchAnswer

LEMMA CountedStep == CallTypeOK /\ Ordered /\ Counted /\ [CallNext]_callVars => Counted'
<1> SUFFICES ASSUME CallTypeOK, Ordered, Counted, [CallNext]_callVars PROVE Counted'
  OBVIOUS
<1> USE DEF Counted, MetricsMatchAnswer, inner, outer, call, Proceed, Answer, Count
<1>1. CASE ThrottleIp
  BY <1>1 DEF ThrottleIp, Ordered
<1>2. CASE AdmitBody
  BY <1>2 DEF AdmitBody, Ordered
<1>3. CASE ParseBody
  BY <1>3 DEF ParseBody, Ordered
<1>4. CASE ThrottleAgent
  BY <1>4 DEF ThrottleAgent, Ordered
<1>5. CASE _authenticate
  BY <1>5 DEF _authenticate, Crash, Ordered
<1>6. CASE PassStage
  BY <1>6 DEF PassStage, Pass, Running
<1>7. CASE Deny403
  BY <1>7 DEF Deny403, RefuseUnconfigured, Raise, Deny, Running
<1>8. CASE Refuse
  BY <1>8 DEF Refuse, RefuseRouting, Running, Legacy
<1>9. CASE Select
  BY <1>9 DEF Select, SelectGroup, Running, Legacy
<1>10. CASE Conclude
  BY <1>10 DEF Conclude, Authorize, Running
<1>11. CASE Handle
  BY <1>11 DEF Handle, Report
<1>12. CASE UNCHANGED callVars
  BY <1>12 DEF callVars, evidenceVars
<1> QED
  BY <1>1, <1>2, <1>3, <1>4, <1>5, <1>6, <1>7, <1>8, <1>9, <1>10, <1>11, <1>12
     DEF CallNext, Answered

(* Each answer is counted as what it is: decided, rejected, denied or blocked,   *)
(* and as nothing else (the counters of entrypoints/http.py), although the       *)
(* handler counts before it knows how the call will end.                         *)
THEOREM MetricsTellAnswersApart == CallSpec => []MetricsMatchAnswer
<1>1. CallInit => Counted
  BY DEF CallInit, EvidenceInit, Counted, MetricsMatchAnswer
<1>2. Counted => MetricsMatchAnswer
  BY DEF Counted
<1> QED
  BY <1>1, <1>2, CountedStep, CallTypeCorrect, OrderedInvariant, PTL DEF CallSpec

-----------------------------------------------------------------------------
(* The stage a denial comes from.                                                *)

(* What was true of the call when the stage raised.                              *)
DeniedAt(s) ==
    /\ denial.code \in Codes(Stages[s])
    /\ Stages[s] = "envelope" <=> ~present
    /\ Stages[s] = "model" => stateGroup

Staged ==
    /\ stage > 1 => required /\ present
    /\ stage > 8 => stateVerified
    /\ stateGroup => stage > 8
    /\ denial # NoDenial =>
         \/ denial.code = "runtime_authorization_not_configured" /\ stage = 1 /\ present
         \/ required /\ stage < 10 /\ DeniedAt(stage)

LEMMA StagedStep == CallTypeOK /\ Ordered /\ Staged /\ [CallNext]_callVars => Staged'
<1> SUFFICES ASSUME CallTypeOK, Ordered, Staged, [CallNext]_callVars PROVE Staged'
  OBVIOUS
<1>0. stage \in 1..10 /\ Len(Stages) = 9
  BY StageNames DEF CallTypeOK, EvidenceTypeOK
<1>1. CASE UNCHANGED inner
  BY <1>1 DEF inner, call, Staged, DeniedAt
<1>2. CASE PassStage
  <2>1. /\ required /\ present /\ denial = NoDenial /\ stage < 9 /\ stage' = stage + 1
        /\ stateVerified' = (stateVerified \/ Stages[stage] = "consume")
        /\ UNCHANGED <<required, present, stateGroup, denial>>
    BY <1>0, <1>2 DEF PassStage, Pass, Running, call
  <2>2. stage' > 8 => stateVerified'
    <3>1. stage' > 8 => stage = 8
      BY <1>0, <2>1
    <3> QED
      BY <2>1, <3>1, StageNames, Zenon
  <2> QED
    BY <1>0, <2>1, <2>2 DEF Staged
<1>3. CASE Deny403
  <2>1. UNCHANGED <<required, present, stage, stateVerified, stateGroup>>
    BY <1>3 DEF Deny403, RefuseUnconfigured, Raise, Deny, call
  <2>2. CASE RefuseUnconfigured
    BY <2>1, <2>2 DEF RefuseUnconfigured, Deny, Staged
  <2>3. CASE Raise
    <3>1. required /\ stage < 10 /\ DeniedAt(stage)'
      BY <1>0, <2>1, <2>3 DEF Raise, Deny, DeniedAt
    <3> QED
      BY <2>1, <3>1 DEF Staged, DeniedAt
  <2> QED
    BY <1>3, <2>1, <2>2, <2>3 DEF Deny403
<1>4. CASE Refuse \/ Handle
  <2>1. UNCHANGED <<required, present, stage, stateVerified, stateGroup, denial>>
    BY <1>4 DEF Refuse, RefuseRouting, Handle, Report, call
  <2> QED
    BY <2>1 DEF Staged, DeniedAt
<1>5. CASE Select
  <2>1. /\ UNCHANGED <<required, present, stage, stateVerified, denial>> /\ denial = NoDenial
        /\ required => stage = 9
        /\ ~required => UNCHANGED stateGroup
    BY <1>0, <1>5 DEF Select, SelectGroup, AtRouting, Running, call
  <2> QED
    BY <1>0, <2>1 DEF Staged
<1>6. CASE Conclude
  <2>1. /\ UNCHANGED <<required, present, stateVerified, stateGroup, denial>> /\ denial = NoDenial
        /\ stage' = stage + 1 /\ stateGroup
    BY <1>6 DEF Conclude, Authorize, Running, call
  <2> QED
    BY <1>0, <2>1 DEF Staged
<1>7. ThrottleIp \/ AdmitBody \/ ParseBody \/ ThrottleAgent \/ _authenticate
        \/ UNCHANGED callVars => UNCHANGED inner
  BY DEF ThrottleIp, AdmitBody, ParseBody, ThrottleAgent, _authenticate, Proceed, Answer, Crash,
         callVars, evidenceVars, inner
<1> QED
  BY <1>1, <1>2, <1>3, <1>4, <1>5, <1>6, <1>7 DEF CallNext, Answered

LEMMA StagedInvariant == CallSpec => []Staged
<1>1. CallInit => Staged
  BY DEF CallInit, EvidenceInit, Staged
<1> QED
  BY <1>1, StagedStep, CallTypeCorrect, OrderedInvariant, PTL DEF CallSpec

(* Only a code of the model stage is of the model scope, and only one that the   *)
(* call without an authorization can meet is of the category authorization.      *)
LEMMA CategoryOfStage ==
    ASSUME NEW s \in 1..9, NEW code \in Codes(Stages[s])
    PROVE  /\ violation_category(code) = "model_scope" <=> s = 9
           /\ s = 1 => violation_category(code) = "authorization"
<1>1. /\ code \in Codes("consume") <=> s = 8
      /\ code \in Codes("binding") <=> s = 5
      /\ code \in Codes("provenance") <=> s = 6
      /\ code \in Codes("model") <=> s = 9
  BY StageNames DEF Codes
<1> QED
  BY <1>1 DEF violation_category

(* What the contract of the event can carry.                                     *)
Representable == identifier = "plain" /\ correlation # "blank" /\ group <= 100

CarriesGroup == stateGroup => group <= 100

LEMMA ValidEvent ==
    ASSUME CallTypeOK, Staged, denial # NoDenial
    PROVE  Valid(Event) <=> identifier = "plain" /\ correlation # "blank" /\ CarriesGroup
<1> DEFINE e == Event
<1>0. e.id # "empty" <=> correlation # "blank"
  BY DEF Event, CorrelationId, strip
<1>1. /\ e.category = violation_category(denial.code) /\ e.group = stateGroup
      /\ e.state = "absent" <=> ~present
      /\ stateVerified /\ present => e.state = "verified"
  BY DEF Event
<1>2. /\ e.category # "authorization" => e.state # "absent"
      /\ IF e.category = "model_scope" THEN e.state = "verified" /\ stateGroup ELSE ~stateGroup
  <2>1. CASE denial.code = "runtime_authorization_not_configured" /\ stage = 1 /\ present
    <3>1. violation_category(denial.code) = "authorization"
      BY <2>1 DEF violation_category, Codes
    <3> QED
      BY <1>1, <2>1, <3>1 DEF Staged
  <2>2. CASE required /\ stage < 10 /\ DeniedAt(stage)
    <3>1. stage \in 1..9 /\ denial.code \in Codes(Stages[stage])
      BY <2>2, StageNames DEF CallTypeOK, EvidenceTypeOK, DeniedAt
    <3>2. /\ e.category = "model_scope" <=> stage = 9
          /\ stage = 1 => e.category = "authorization"
      BY <1>1, <3>1, CategoryOfStage
    <3>3. ~present => stage = 1
      BY <2>2, <3>1, StageNames DEF DeniedAt
    <3>4. stage = 9 => stateGroup /\ stateVerified /\ present
      BY <2>2, <3>3, StageNames DEF DeniedAt, Staged
    <3>5. stage # 9 => ~stateGroup
      BY <3>1 DEF Staged
    <3> QED
      BY <1>1, <3>1, <3>2, <3>3, <3>4, <3>5
  <2> QED
    BY <2>1, <2>2 DEF Staged
<1> HIDE DEF e
<1> QED
  BY <1>0, <1>1, <1>2 DEF Valid, CarriesGroup, e

(* A denial that is answered is answered 403 exactly if its event can be carried. *)
Enveloped ==
    denial # NoDenial /\ answer # 0 =>
      (answer = 403 <=> identifier = "plain" /\ correlation # "blank" /\ CarriesGroup)

LEMMA EnvelopedStep ==
    CallTypeOK /\ Ordered /\ Staged /\ Enveloped /\ [CallNext]_callVars => Enveloped'
<1> SUFFICES ASSUME CallTypeOK, Ordered, Staged, Enveloped, [CallNext]_callVars
             PROVE  Enveloped'
  OBVIOUS
<1>1. CASE ThrottleIp \/ AdmitBody \/ ParseBody \/ ThrottleAgent \/ _authenticate
  <2>1. denial' = denial /\ at # "authenticated"
    BY <1>1 DEF ThrottleIp, AdmitBody, ParseBody, ThrottleAgent, _authenticate,
                Proceed, Answer, Crash, inner
  <2> QED
    BY <2>1 DEF Ordered, Enveloped
<1>2. CASE PassStage \/ Deny403
  <2>1. answer' = 0
    BY <1>2 DEF PassStage, Pass, Deny403, RefuseUnconfigured, Raise, Deny, Running
  <2> QED
    BY <2>1 DEF Enveloped
<1>3. CASE Refuse \/ Select \/ Conclude
  <2>1. denial' = NoDenial
    BY <1>3 DEF Refuse, RefuseRouting, Select, SelectGroup, Conclude, Authorize, Running
  <2> QED
    BY <2>1 DEF Enveloped, NoDenial
<1>4. CASE Handle
  <2>1. /\ UNCHANGED <<call, stateGroup>> /\ denial # NoDenial
        /\ answer' = IF Valid(Event) THEN 403 ELSE 500
    BY <1>4 DEF Handle, Report
  <2> QED
    BY <2>1, ValidEvent DEF Enveloped, CarriesGroup, call
<1>5. CASE UNCHANGED callVars
  BY <1>5 DEF Enveloped, CarriesGroup, callVars, evidenceVars, call
<1> QED
  BY <1>1, <1>2, <1>3, <1>4, <1>5 DEF CallNext, Answered

LEMMA EnvelopedInvariant == CallSpec => []Enveloped
<1>1. CallInit => Enveloped
  BY DEF CallInit, EvidenceInit, Enveloped
<1> QED
  BY <1>1, EnvelopedStep, CallTypeCorrect, OrderedInvariant, StagedInvariant, PTL DEF CallSpec

(* No denial of a call with identifiers, a correlation id and a group that the   *)
(* contract can carry loses its evidence: what the handler left on request.state *)
(* agrees with the validators of RuntimeViolationEvent at every stage            *)
(* (build_runtime_violation, _handle_runtime_authorization_error).               *)
THEOREM DenialsAreEnveloped == CallSpec => [](Representable => DenialIsEnveloped)
<1>1. Enveloped => (Representable => DenialIsEnveloped)
  BY DEF Enveloped, Representable, CarriesGroup, DenialIsEnveloped
<1> QED
  BY <1>1, EnvelopedInvariant, PTL
===============================================================================
