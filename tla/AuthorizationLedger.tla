------------------------- MODULE AuthorizationLedger -------------------------
(* What runtime authorization promises, with the mechanism left out: no         *)
(* network, no Redis, no order of checks.  ADR-0012 promises that an            *)
(* authorization id is consumed atomically, once; and POST /route answers 200   *)
(* only for a request that consumed one itself.  The promise is stated for the  *)
(* time an authorization is live; RuntimeAdmission is shown to implement it.    *)
EXTENDS Integers

CONSTANTS
    Requests,   \* the POST /route calls
    Auths,      \* the authorization ids Governance issued
    ExpiresAt   \* claims.expires_at of each

VARIABLES
    time,       \* the clock of the shared replay store
    grants,     \* grants[a]: <<request, time>> of each consumption of a
    verdict     \* verdict[r]: pending, routed (200) or refused (anything else)

ledger == <<time, grants, verdict>>

Live(a, t) == t < ExpiresAt[a]

LedgerInit ==
    /\ time = 0
    /\ grants = [a \in Auths |-> {}]
    /\ verdict = [r \in Requests |-> "pending"]

Advance ==
    /\ time' = time + 1
    /\ UNCHANGED <<grants, verdict>>

(* A request consumes one authorization and is bound to it.  While the          *)
(* authorization is live nobody can have consumed it before.  The store may     *)
(* carry out the consumption after the request was answered.                    *)
Spend(r, a) ==
    /\ Live(a, time) => grants[a] = {}
    /\ \A b \in Auths \ {a} : \A g \in grants[b] : g[1] # r
    /\ grants' = [grants EXCEPT ![a] = @ \cup {<<r, time>>}]
    /\ UNCHANGED <<time, verdict>>

Route(r) ==
    /\ verdict[r] = "pending"
    /\ \E a \in Auths : \E g \in grants[a] : g[1] = r
    /\ verdict' = [verdict EXCEPT ![r] = "routed"]
    /\ UNCHANGED <<time, grants>>

(* A refusal may come before or after the consumption.                          *)
Refuse(r) ==
    /\ verdict[r] = "pending"
    /\ verdict' = [verdict EXCEPT ![r] = "refused"]
    /\ UNCHANGED <<time, grants>>

LedgerNext ==
    \/ Advance
    \/ \E r \in Requests : Route(r) \/ Refuse(r)
    \/ \E r \in Requests, a \in Auths : Spend(r, a)

LedgerSpec == LedgerInit /\ [][LedgerNext]_ledger
==============================================================================
