--------------------------- MODULE RuntimeAdmission ---------------------------
(* The admission of POST /route calls in a deployed Router, from the parsed     *)
(* body to the answer: the handler in entrypoints/http.py, the                  *)
(* RuntimeAuthorizationVerifier, the RuntimeControlEnforcer and the Redis       *)
(* replay guard.  Each await of the code is a step boundary, so the requests    *)
(* of all replicas, Governance and the clock interleave there.                  *)
EXTENDS Integers, FiniteSets

CONSTANTS
    Requests,      \* POST /route calls, on any replica
    Auths,         \* signed authorizations Governance has issued
    NoAuth,        \* the flat body: a call without an authorization
    Agents,        \* Governance agents
    Groups,        \* model groups the policy may select
    AgentOf,       \* claims.subject.agent_id of each authorization
    Version,       \* claims.subject.agent_version
    NotBefore,     \* claims.not_before, in ticks
    ExpiresAt,     \* claims.expires_at, in ticks
    Scope,         \* groups signed for the authorization's data class
    ClockSkew,     \* RUNTIME_AUTHORIZATION_CLOCK_SKEW_SECONDS, in ticks
    Second,        \* ticks in a second
    Drifts,        \* how far a replica's clock may be from the store's
    ControlStates, \* projections Governance may publish for an agent
    MaxResends,    \* commands the Redis client sends again by itself
    MaxTime        \* bound: the clock stops here

Projections == [status : {"readable", "missing", "invalid"},
                killed : BOOLEAN, floor : Nat]

ASSUME ConstantsAssumption ==
    /\ NoAuth \notin Auths
    /\ AgentOf \in [Auths -> Agents]
    /\ Version \in [Auths -> Nat]
    /\ NotBefore \in [Auths -> Nat]
    /\ ExpiresAt \in [Auths -> Nat]
    /\ Scope \in [Auths -> SUBSET Groups]
    /\ ClockSkew \in Nat
    /\ Second \in Nat \ {0}
    /\ Drifts \subseteq Int
    /\ ControlStates \subseteq Projections
    /\ MaxResends \in Nat
    /\ MaxTime \in Nat

Refusals == {"refused_upstream", "runtime_authorization_required", "untrusted",
             "not_yet_valid", "expired", "runtime_control_unavailable",
             "kill_switch_engaged", "runtime_authorization_revoked",
             "replay_detected", "replay_store_unavailable",
             "no_viable_model_group", "misconfigured_routing_policy",
             "selected_model_not_authorized", "dropped"}
Outcomes == Refusals \cup {"none", "routed"}
Phases == {"idle", "received", "control", "consume", "replied", "granted", "answered"}

VARIABLES
    time,       \* clock of the shared Redis
    keyExpiry,  \* keyExpiry[a]: when the replay key of a lapses, 0 if never set
    control,    \* control[g]: the Governance projection of agent g
    phase,      \* where the handler of each request is
    auth,       \* the authorization the request carries
    genuine,    \* its signature, key, bindings and provenance all verify
    now,        \* SystemClock().now() as captured before the first await
    commands,   \* <<r, k>>: attempt k of r's SET NX EX, sent and not executed
    reply,      \* what Redis answered and the client has not read
    resends,    \* times the client has sent the command again
    outcome,    \* the answer: an error code, or routed for 200
    evidence,   \* authorization.state of the violation the denial carries
    \* History, read by the properties only:
    grants,     \* grants[a]: <<request, time>> of each SET NX that took effect
    permitted   \* control permitted the request at some instant since it came

store == <<keyExpiry, grants>>
wire == <<commands, reply, resends>>
local == <<auth, genuine, now>>
vars == <<time, keyExpiry, control, phase, auth, genuine, now, commands,
          reply, resends, outcome, evidence, grants, permitted>>

TypeOK ==
    /\ time \in Nat
    /\ keyExpiry \in [Auths -> Nat]
    /\ control \in [Agents -> Projections]
    /\ phase \in [Requests -> Phases]
    /\ auth \in [Requests -> Auths \cup {NoAuth}]
    /\ genuine \in [Requests -> BOOLEAN]
    /\ now \in [Requests -> Int]
    /\ commands \subseteq Requests \X (0..MaxResends)
    /\ reply \in [Requests -> {"none", "OK", "nil"}]
    /\ resends \in [Requests -> 0..MaxResends]
    /\ outcome \in [Requests -> Outcomes]
    /\ evidence \in [Requests -> {"none", "absent", "present", "verified"}]
    /\ grants \in [Auths -> SUBSET (Requests \X Nat)]
    /\ permitted \in [Requests -> BOOLEAN]

Init ==
    /\ time = 0
    /\ keyExpiry = [a \in Auths |-> 0]
    /\ control \in [Agents -> ControlStates]
    /\ phase = [r \in Requests |-> "idle"]
    /\ auth = [r \in Requests |-> NoAuth]
    /\ genuine = [r \in Requests |-> FALSE]
    /\ now = [r \in Requests |-> 0]
    /\ commands = {}
    /\ reply = [r \in Requests |-> "none"]
    /\ resends = [r \in Requests |-> 0]
    /\ outcome = [r \in Requests |-> "none"]
    /\ evidence = [r \in Requests |-> "none"]
    /\ grants = [a \in Auths |-> {}]
    /\ permitted = [r \in Requests |-> FALSE]

-------------------------------------------------------------------------------
(* The checks, as the code computes them.                                       *)

(* claims.expires_at <= now - skew is expired; now = expires_at is still live   *)
(* under any positive skew.  issued_at never exceeds not_before (the contract), *)
(* so the issued_in_future test refuses no request the not_before test admits.  *)
(* An artifact with several defects is refused for one of them; no property     *)
(* tells which.                                                                 *)
ArtifactVerdict(a, isGenuine, t) ==
    IF a = NoAuth                         THEN "runtime_authorization_required"
    ELSE IF NotBefore[a] > t + ClockSkew  THEN "not_yet_valid"
    ELSE IF ExpiresAt[a] <= t - ClockSkew THEN "expired"
    ELSE IF ~isGenuine                    THEN "untrusted"
    ELSE "trusted"

(* Definitions named Slip_... are faults the code does not have: each is the    *)
(* next definition with one plausible mistake, and substituting it must break   *)
(* a property.                                                                  *)

(* The revocation floor taken as exclusive.                                     *)
Slip_FloorExclusive(c, version) ==
    IF c.status # "readable"  THEN "runtime_control_unavailable"
    ELSE IF c.killed          THEN "kill_switch_engaged"
    ELSE IF version < c.floor THEN "runtime_authorization_revoked"
    ELSE "allowed"

(* RuntimeControlEnforcer.enforce on the projection it read.                    *)
EnforceVerdict(c, version) ==
    IF c.status # "readable"   THEN "runtime_control_unavailable"
    ELSE IF c.killed           THEN "kill_switch_engaged"
    ELSE IF version <= c.floor THEN "runtime_authorization_revoked"
    ELSE "allowed"

Slip_TtlFloor(d) == IF d < Second THEN Second ELSE Second * (d \div Second)

Slip_TtlMayBeZero(d) == IF d <= 0 THEN 0 ELSE Second * ((d + Second - 1) \div Second)

(* max(1, math.ceil((expires_at - now).total_seconds())), in ticks.             *)
TtlTicks(d) == IF d <= 0 THEN Second ELSE Second * ((d + Second - 1) \div Second)

(* SET without NX.                                                              *)
Slip_AlwaysSet(a) == FALSE

(* SET NX finds the key.                                                        *)
KeyLives(a) == time < keyExpiry[a]

(* Governance's own words, independent of the code: the agent may run now.      *)
Permits(c, a) == c.status = "readable" /\ ~c.killed /\ c.floor < Version[a]

-------------------------------------------------------------------------------
(* The handler.                                                                 *)

Answer(r, code, state) ==
    /\ phase' = [phase EXCEPT ![r] = "answered"]
    /\ outcome' = [outcome EXCEPT ![r] = code]
    /\ evidence' = [evidence EXCEPT ![r] = state]

Continue(r, next) ==
    /\ phase' = [phase EXCEPT ![r] = next]
    /\ UNCHANGED <<outcome, evidence>>

(* A call arrives; its first await is the per-agent rate limiter.               *)
Receive(r) ==
    /\ phase[r] = "idle"
    /\ \E a \in Auths \cup {NoAuth}, g \in BOOLEAN :
         /\ auth' = [auth EXCEPT ![r] = a]
         /\ genuine' = [genuine EXCEPT ![r] = g]
         /\ permitted' = [permitted EXCEPT ![r] =
                             a \in Auths /\ Permits(control[AgentOf[a]], a)]
    /\ Continue(r, "received")
    /\ UNCHANGED <<time, store, control, now, wire>>

(* 429 from the limiter or 401 from the API key check.                          *)
RefuseUpstream(r) ==
    /\ phase[r] = "received"
    /\ Answer(r, "refused_upstream", "none")
    /\ UNCHANGED <<time, store, control, local, wire, permitted>>

(* A signature that verified is reported as a verified authorization.           *)
Slip_SignatureIsVerified(r) ==
    /\ phase[r] = "received"
    /\ \E d \in Drifts :
         LET verdict == ArtifactVerdict(auth[r], genuine[r], time + d)
         IN /\ now' = [now EXCEPT ![r] = time + d]
            /\ IF verdict = "trusted"
               THEN Continue(r, "control")
               ELSE Answer(r, verdict, IF genuine[r] THEN "verified" ELSE "present")
    /\ UNCHANGED <<time, store, control, auth, genuine, wire, permitted>>

(* verify up to its first await: one clock reading, then every check that needs *)
(* no store.                                                                    *)
VerifyArtifact(r) ==
    /\ phase[r] = "received"
    /\ \E d \in Drifts :
         LET verdict == ArtifactVerdict(auth[r], genuine[r], time + d)
         IN /\ now' = [now EXCEPT ![r] = time + d]
            /\ IF verdict = "trusted"
               THEN Continue(r, "control")
               ELSE Answer(r, verdict, IF auth[r] = NoAuth THEN "absent" ELSE "present")
    /\ UNCHANGED <<time, store, control, auth, genuine, wire, permitted>>

(* The replay guard sends SET NX EX with a time to live fixed by now.           *)
Send(r, k) == commands' = commands \cup {<<r, k>>}

(* The control read and the consumption started together.                       *)
Slip_ReadWhileConsuming(r) ==
    /\ phase[r] = "control"
    /\ Send(r, 0)
    /\ LET verdict == EnforceVerdict(control[AgentOf[auth[r]]], Version[auth[r]])
       IN IF verdict = "allowed"
          THEN Continue(r, "consume")
          ELSE Answer(r, verdict, "verified")
    /\ UNCHANGED <<time, store, control, local, reply, resends, permitted>>

(* RuntimeControlEnforcer.enforce: the GET takes effect, or its reply is lost.  *)
(* A control denial is raised with authorization_verified=True.                 *)
ReadControl(r) ==
    /\ phase[r] = "control"
    /\ \/ UNCHANGED commands /\ Answer(r, "runtime_control_unavailable", "verified")
       \/ LET verdict == EnforceVerdict(control[AgentOf[auth[r]]], Version[auth[r]])
          IN IF verdict = "allowed"
             THEN Send(r, 0) /\ Continue(r, "consume")
             ELSE UNCHANGED commands /\ Answer(r, verdict, "verified")
    /\ UNCHANGED <<time, store, control, local, reply, resends, permitted>>

TakeReply(r) ==
    /\ phase[r] = "replied"
    /\ IF reply[r] = "OK"
       THEN Continue(r, "granted")
       ELSE Answer(r, "replay_detected", "present")
    /\ UNCHANGED <<time, store, control, local, wire, permitted>>

(* Fail open, as the rate limiter does.                                         *)
Slip_FailOpen(r) ==
    /\ phase[r] \in {"consume", "replied"}
    /\ Continue(r, "granted")
    /\ reply' = [reply EXCEPT ![r] = "none"]
    /\ UNCHANGED <<time, store, control, local, commands, resends, permitted>>

(* A store failure reported as a replay.                                        *)
Slip_FailureIsReplay(r) ==
    /\ phase[r] \in {"consume", "replied"}
    /\ Answer(r, "replay_detected", "present")
    /\ reply' = [reply EXCEPT ![r] = "none"]
    /\ UNCHANGED <<time, store, control, local, commands, resends, permitted>>

(* Resending without giving up.                                                 *)
Slip_ResendForever(r) ==
    /\ phase[r] \in {"consume", "replied"}
    /\ Send(r, resends[r])
    /\ Continue(r, "consume")
    /\ reply' = [reply EXCEPT ![r] = "none"]
    /\ UNCHANGED <<time, store, control, local, resends, permitted>>

(* The socket fails or times out: the client sends the command again, or the    *)
(* guard raises replay_store_unavailable.  What was sent may still be executed. *)
LoseReply(r) ==
    /\ phase[r] \in {"consume", "replied"}
    /\ \/ /\ resends[r] < MaxResends
          /\ resends' = [resends EXCEPT ![r] = @ + 1]
          /\ Send(r, resends[r] + 1)
          /\ Continue(r, "consume")
       \/ /\ Answer(r, "replay_store_unavailable", "present")
          /\ UNCHANGED <<resends, commands>>
    /\ reply' = [reply EXCEPT ![r] = "none"]
    /\ UNCHANGED <<time, store, control, local, permitted>>

(* use_case.route, then require_selected_model on the group it chose.           *)
Decide(r) ==
    /\ phase[r] = "granted"
    /\ \/ \E code \in {"no_viable_model_group", "misconfigured_routing_policy"} :
            Answer(r, code, "none")
       \/ \E g \in Groups :
            IF g \in Scope[auth[r]]
            THEN Answer(r, "routed", "none")
            ELSE Answer(r, "selected_model_not_authorized", "verified")
    /\ UNCHANGED <<time, store, control, local, wire, permitted>>

(* The replica dies, or the call is cancelled, and no answer is ever sent.      *)
Crash(r) ==
    /\ phase[r] \notin {"idle", "answered"}
    /\ Answer(r, "dropped", "none")
    /\ UNCHANGED <<time, store, control, local, wire, permitted>>

-------------------------------------------------------------------------------
(* The environment.                                                             *)

(* Redis executes attempt k of r, at any time after it was sent and whatever    *)
(* became of the caller.  Only the attempt the client waits for is answered.    *)
StoreSetNx(r, k) ==
    LET a == auth[r]
        Reply(word) == IF phase[r] = "consume" /\ k = resends[r]
                       THEN /\ reply' = [reply EXCEPT ![r] = word]
                            /\ Continue(r, "replied")
                       ELSE UNCHANGED <<reply, phase, outcome, evidence>>
    IN
    /\ <<r, k>> \in commands
    /\ commands' = commands \ {<<r, k>>}
    /\ IF KeyLives(a)
       THEN Reply("nil") /\ UNCHANGED store
       ELSE /\ Reply("OK")
            /\ keyExpiry' = [keyExpiry EXCEPT ![a] =
                                time + TtlTicks(ExpiresAt[a] - now[r])]
            /\ grants' = [grants EXCEPT ![a] = @ \cup {<<r, time>>}]
    /\ UNCHANGED <<time, control, local, resends, permitted>>

(* Governance replaces a projection.  Its revocation floor only grows; a        *)
(* missing or invalid record carries the floor Governance still holds.          *)
Publish(ag) ==
    /\ \E c \in ControlStates \ {control[ag]} :
         /\ c.floor >= control[ag].floor
         /\ control' = [control EXCEPT ![ag] = c]
    /\ permitted' = [r \in Requests |->
           \/ permitted[r]
           \/ /\ phase[r] # "idle" /\ auth[r] \in Auths
              /\ Permits(control'[AgentOf[auth[r]]], auth[r])]
    /\ UNCHANGED <<time, store, phase, local, wire, outcome, evidence>>

Tick ==
    /\ time < MaxTime
    /\ time' = time + 1
    /\ UNCHANGED <<store, control, phase, local, wire, outcome, evidence, permitted>>

(* Every call has been answered: the instance is exhausted.                     *)
Finished ==
    /\ \A r \in Requests : phase[r] = "answered"
    /\ UNCHANGED vars

Handle(r) ==
    \/ RefuseUpstream(r)
    \/ VerifyArtifact(r)
    \/ ReadControl(r)
    \/ TakeReply(r)
    \/ LoseReply(r)
    \/ Decide(r)

Next ==
    \/ \E r \in Requests : Receive(r) \/ Handle(r) \/ Crash(r)
    \/ \E c \in commands : StoreSetNx(c[1], c[2])
    \/ \E ag \in Agents : Publish(ag)
    \/ Tick
    \/ Finished

Spec == Init /\ [][Next]_vars

(* Every await of the handler ends: the Redis clients have socket timeouts, and *)
(* the rest is computation.  Nothing is assumed of Redis, of arrivals, crashes,  *)
(* Governance or the clock.                                                     *)
FairSpec == Spec /\ \A r \in Requests : WF_vars(Handle(r))
-------------------------------------------------------------------------------
(* Properties.                                                                  *)

(* The replay guard consumes an authorization at most once while it is live     *)
(* (Redis time before expires_at), whatever the interleaving of the replicas,   *)
(* the delay of the commands, the retries and the crashes.                      *)
LiveSingleUse ==
    \A a \in Auths : \A g, h \in grants[a] :
        g[2] < ExpiresAt[a] /\ h[2] < ExpiresAt[a] => g = h

(* Even after expires_at, where the clock skew still admits requests, the       *)
(* one-second minimum of the guard's TTL keeps two consumptions of an           *)
(* authorization at least one second apart.                                     *)
ConsumptionsSpaced ==
    \A a \in Auths : \A g, h \in grants[a] :
        g # h => g[2] >= h[2] + Second \/ h[2] >= g[2] + Second

(* The kill switch, the revocation floor and the loss of the projection are a   *)
(* cut-off: a request is routed only if Governance permitted its agent and      *)
(* version at some instant between its arrival and its answer.                  *)
KillSwitchCutoff ==
    \A r \in Requests : outcome[r] = "routed" => permitted[r]

NoSpendOutcomes == {"refused_upstream", "runtime_authorization_required", "untrusted",
                    "not_yet_valid", "expired", "runtime_control_unavailable",
                    "kill_switch_engaged", "runtime_authorization_revoked"}

Spent(r) == auth[r] \in Auths /\ \E g \in grants[auth[r]] : g[1] = r

(* A request denied by the limiter, the artifact checks or runtime control has  *)
(* not consumed its authorization and has no command left that could: the       *)
(* order of verify keeps a valid authorization from being spent by a kill.      *)
DenialSpendsNothing ==
    \A r \in Requests : outcome[r] \in NoSpendOutcomes =>
        ~Spent(r) /\ \A k \in 0..MaxResends : <<r, k>> \notin commands

(* A 200 answer rests on a consumption by that very request of a genuine        *)
(* authorization, never on one of another request or on a failed store.         *)
RoutedOnOwnGrant ==
    \A r \in Requests : outcome[r] = "routed" => genuine[r] /\ Spent(r)

(* replay_detected is answered only when the authorization has been consumed,   *)
(* by another request or by an earlier attempt of this one; never because the   *)
(* store failed.                                                                *)
ReplayDeniedHasCause ==
    \A r \in Requests : outcome[r] = "replay_detected" => grants[auth[r]] # {}

(* Violation evidence never overstates: state verified is reported only for a   *)
(* genuine artifact whose validity window, widened by the clock skew, held at   *)
(* the clock reading the verifier used.                                         *)
EvidenceNeverOverstates ==
    \A r \in Requests : evidence[r] = "verified" =>
        /\ auth[r] \in Auths /\ genuine[r]
        /\ NotBefore[auth[r]] - ClockSkew <= now[r]
        /\ now[r] < ExpiresAt[auth[r]] + ClockSkew

(* Every call that reached the handler is answered, or its replica died: no     *)
(* interleaving of waits on Redis leaves a caller hanging.                      *)
EveryCallAnswered ==
    \A r \in Requests : (phase[r] = "received") ~> (phase[r] = "answered")

(* The whole admission implements the ledger that ADR-0012 promises.            *)
Ledger == INSTANCE AuthorizationLedger WITH
    verdict <- [r \in Requests |->
                  IF outcome[r] = "none" THEN "pending"
                  ELSE IF outcome[r] = "routed" THEN "routed" ELSE "refused"]
ImplementsLedger == Ledger!LedgerSpec

-------------------------------------------------------------------------------
(* What the documents say and the code does not do.                             *)

(* docs/runtime-authorization-operations.md: "the authorization_id is consumed  *)
(* atomically; a replay is denied".  Not so within the clock skew after         *)
(* expires_at, not even for calls that never overlap: once a call was routed on *)
(* an authorization, no call that arrives later is routed on it.                *)
LaterReplayDenied ==
    \A r, s \in Requests, a \in Auths :
        [](outcome[s] = "routed" /\ auth[s] = a /\ phase[r] = "idle"
             => [](auth[r] = a => outcome[r] # "routed"))
===============================================================================
