-------------------------- MODULE MemoryReplayGuard ---------------------------
(* Runtime authorization in one process without Redis: the verifier with the     *)
(* InMemoryRuntimeAuthorizationReplayGuard and no runtime control (the factory   *)
(* builds no enforcer without REDIS_URL).  From the clock reading to the end of  *)
(* consume nothing suspends - the lock is never contended, since its holder      *)
(* awaits nothing - so verification is one step; routing is another.             *)
EXTENDS Integers, FiniteSets

CONSTANTS
    Requests,   \* POST /route calls
    Auths,      \* genuine authorizations; the others never reach the guard
    NotBefore, ExpiresAt,  \* their claims, in ticks
    ClockSkew,
    MaxEntries, \* RUNTIME_AUTHORIZATION_REPLAY_MAX_ENTRIES
    MaxTime     \* bound: the clock stops here

ASSUME GuardAssumption ==
    /\ NotBefore \in [Auths -> Nat]
    /\ ExpiresAt \in [Auths -> Nat]
    /\ ClockSkew \in Nat
    /\ MaxEntries \in Nat \ {0}
    /\ MaxTime \in Nat

VARIABLES
    time,     \* the process's clock
    entries,  \* ids in _entries; the expiry of each is its expires_at claim
    auth,     \* the authorization of each call that was verified
    outcome,  \* none, granted, routed or the error code
    \* History, read by the properties only:
    grants    \* grants[a]: <<request, time>> of each consumption of a

vars == <<time, entries, auth, outcome, grants>>

Outcomes == {"none", "not_yet_valid", "expired", "replay_detected", "replay_store_full",
             "granted", "routed", "refused"}

TypeOK ==
    /\ time \in Nat
    /\ entries \subseteq Auths /\ Cardinality(entries) <= MaxEntries
    /\ auth \in [Requests -> Auths]
    /\ outcome \in [Requests -> Outcomes]
    /\ grants \in [Auths -> SUBSET (Requests \X Nat)]

Init ==
    /\ time = 0
    /\ entries = {}
    /\ auth \in [Requests -> Auths]
    /\ outcome = [r \in Requests |-> "none"]
    /\ grants = [a \in Auths |-> {}]

-------------------------------------------------------------------------------
(* Definitions named Slip_... are faults the code does not have: each is the     *)
(* next definition of the code with one plausible mistake, and substituting it   *)
(* must break a property.                                                        *)

(* The purge looks at the wrong claim.                                           *)
Slip_KeepNotYetValid == {a \in entries : NotBefore[a] > time}

(* Nothing is purged.                                                            *)
Slip_NoPurge == entries

(* {key: expiry for key, expiry in self._entries.items() if expiry > now}        *)
LiveEntries == {a \in entries : ExpiresAt[a] > time}

(* The capacity tested after the insertion.                                      *)
Slip_FullLate == Cardinality(LiveEntries) > MaxEntries

Full == Cardinality(LiveEntries) >= MaxEntries

(* consume, with the purge it starts with.                                       *)
Verdict(a) ==
    IF NotBefore[a] > time + ClockSkew       THEN "not_yet_valid"
    ELSE IF ExpiresAt[a] <= time - ClockSkew THEN "expired"
    ELSE IF a \in LiveEntries                THEN "replay_detected"
    ELSE IF Full                             THEN "replay_store_full"
    ELSE "granted"

Verify(r) ==
    LET a == auth[r] IN
    /\ outcome[r] = "none"
    /\ outcome' = [outcome EXCEPT ![r] = Verdict(a)]
    /\ entries' = CASE Verdict(a) \in {"not_yet_valid", "expired"} -> entries
                    [] Verdict(a) = "granted" -> LiveEntries \cup {a}
                    [] OTHER -> LiveEntries
    /\ grants' = IF Verdict(a) = "granted"
                 THEN [grants EXCEPT ![a] = @ \cup {<<r, time>>}]
                 ELSE grants
    /\ UNCHANGED <<time, auth>>

(* use_case.route and require_selected_model, or the end of the call.            *)
Decide(r) ==
    /\ outcome[r] = "granted"
    /\ \E code \in {"routed", "refused"} : outcome' = [outcome EXCEPT ![r] = code]
    /\ UNCHANGED <<time, entries, auth, grants>>

Tick ==
    /\ time < MaxTime
    /\ time' = time + 1
    /\ UNCHANGED <<entries, auth, outcome, grants>>

Finished ==
    /\ \A r \in Requests : outcome[r] \notin {"none", "granted"}
    /\ UNCHANGED vars

Next ==
    \/ \E r \in Requests : Verify(r) \/ Decide(r)
    \/ Tick
    \/ Finished

Spec == Init /\ [][Next]_vars

-------------------------------------------------------------------------------
(* The in-process guard keeps the promise the Redis guard keeps: it implements   *)
(* the same ledger, so an authorization is consumed at most once while it is     *)
(* live and every routed call consumed its own.                                  *)
Ledger == INSTANCE AuthorizationLedger WITH
    verdict <- [r \in Requests |->
                  IF outcome[r] \in {"none", "granted"} THEN "pending"
                  ELSE IF outcome[r] = "routed" THEN "routed" ELSE "refused"]
ImplementsLedger == Ledger!LedgerSpec

(* The store never holds more than its capacity, and replay_store_full is        *)
(* answered only while as many other authorizations are really consumed and      *)
(* live: expired ones never keep a caller out.                                   *)
FullHasCause ==
    [][/\ Cardinality(entries') <= MaxEntries
       /\ \A r \in Requests :
            outcome[r] = "none" /\ outcome'[r] = "replay_store_full" =>
              Cardinality({a \in Auths \ {auth[r]} :
                             grants[a] # {} /\ ExpiresAt[a] > time}) >= MaxEntries]_vars
===============================================================================
