---------------------------- MODULE ServiceLifecycle ----------------------------
(* The life of one worker: the lifespan from its configuration to the last close,  *)
(* around the reloads and the calls of PolicyReload.  Each await of the lifespan    *)
(* ends a step.  SIGHUP ends the process whenever no handler is installed.          *)
EXTENDS PolicyReload, Sequences

CONSTANT Environments   \* the configurations a worker is started with

(* What may be wrong besides the routing policy, each a cause of its own: a value   *)
(* the settings refuse, API_KEYS, the trust material, or redis is not installed.    *)
Defects == {"settings", "api_keys", "key_set_path", "policy_digest", "catalog_digest",
            "key_set", "bindings", "redis_package"}

(* Development and test differ in nothing; nor do staging and production.  A blank  *)
(* REDIS_URL is unset, and redis-py refuses a URL of no scheme it knows.            *)
AllEnvironments ==
    [deployed : BOOLEAN, required : BOOLEAN, control : BOOLEAN,
     redis : {"unset", "redis", "rediss", "unix", "unknown"},
     handles : BOOLEAN,     \* the event loop can handle SIGHUP
     defects : SUBSET Defects]

ASSUME EnvironmentsAssumption == Environments \subseteq AllEnvironments

(* In the order the lifespan awaits their ping.                                     *)
Clients == <<"replay", "control", "agent", "ip">>
ClientNames == {Clients[i] : i \in 1..4}
Closers == {"agent", "ip", "verifier"}
CloserOf(c) == IF c \in {"replay", "control"} THEN "verifier" ELSE c
URLs == {"redis", "rediss", "unix"}

VARIABLES
    env,        \* the configuration
    phase,      \* configuring, pinging, serving, draining, closing, or an end
    verifier,   \* none, disabled or enforcing: what the factory built
    backend,    \* backend[c]: absent, memory, or the kind of URL of client c
    pinged,     \* clients whose ping has returned
    closed,     \* closed[c]: no, yes, or raised
    ended,      \* the coroutines of the last gather that have ended
    sighup      \* disposition of SIGHUP: default or handled

life == <<env, phase, verifier, backend, pinged, closed, ended, sighup>>
reload == <<files, reloads, running, calls>>
allVars == <<life, reload>>

Ends == {"failed", "killed", "stopped"}
Started == {"serving", "draining", "closing", "stopped"}

ServiceTypeOK ==
    /\ TypeOK
    /\ env \in Environments
    /\ phase \in {"configuring", "pinging"} \cup Started \cup Ends
    /\ verifier \in {"none", "disabled", "enforcing"}
    /\ backend \in [ClientNames -> {"absent", "memory"} \cup URLs]
    /\ pinged \in 0..4
    /\ closed \in [ClientNames -> {"no", "yes", "raised"}]
    /\ ended \subseteq Closers
    /\ sighup \in {"default", "handled"}

ServiceInit ==
    /\ ReloadInit
    /\ env \in Environments
    /\ phase = "configuring"
    /\ verifier = "none"
    /\ backend = [c \in ClientNames |-> "absent"]
    /\ pinged = 0
    /\ closed = [c \in ClientNames |-> "no"]
    /\ ended = {}
    /\ sighup = "default"

-------------------------------------------------------------------------------
(* What the configuration makes of each part.                                       *)

(* Redis.from_url after the import of the optional package.                         *)
Client(e) == IF e.redis \in URLs /\ "redis_package" \notin e.defects
             THEN e.redis ELSE "refused"

(* Definitions named Slip_... are faults the code does not have: each is the next   *)
(* definition of the code with one plausible mistake, and substituting it must      *)
(* break a property.                                                                *)

_build_replay_guard(e) ==
    IF e.redis # "unset" THEN Client(e)
    ELSE IF e.deployed THEN "refused" ELSE "memory"

(* The scheme is checked, and TLS is not.                                           *)
Slip_AnyTransport(e) ==
    IF ~e.control THEN "absent"
    ELSE IF e.redis \notin {"redis", "rediss"} THEN "refused" ELSE Client(e)

_build_runtime_control_enforcer(e) ==
    IF ~e.control THEN "absent"
    ELSE IF \/ e.redis \notin {"redis", "rediss"}
            \/ e.deployed /\ e.redis # "rediss"
         THEN "refused" ELSE Client(e)

_build_rate_limiter(e) == IF e.redis = "unset" THEN "memory" ELSE Client(e)

build_runtime_authorization_verifier(e) ==
    IF \/ e.deployed /\ ~(e.required /\ e.control)
       \/ e.control /\ ~e.required
    THEN "refused"
    ELSE IF ~e.required THEN "disabled"
    ELSE IF \/ e.defects \cap {"key_set_path", "policy_digest", "catalog_digest",
                               "key_set", "bindings"} # {}
            \/ _build_replay_guard(e) = "refused"
            \/ _build_runtime_control_enforcer(e) = "refused"
    THEN "refused"
    ELSE "enforcing"

Settings(e) == "settings" \notin e.defects
_required_api_keys(e) == "api_keys" \notin e.defects

(* Up to the first await: any exception ends the startup.                           *)
Configurable(e) ==
    /\ Settings(e) /\ kind[file] = "valid" /\ _required_api_keys(e)
    /\ build_runtime_authorization_verifier(e) # "refused"

-------------------------------------------------------------------------------
(* Startup.                                                                         *)

Fail == /\ phase' = "failed"
        /\ UNCHANGED <<env, verifier, backend, pinged, closed, ended, sighup>>

Configure ==
    /\ phase = "configuring"
    /\ IF ~Configurable(env)
       THEN Fail /\ UNCHANGED reload
       ELSE /\ phase' = "pinging"
            /\ verifier' = build_runtime_authorization_verifier(env)
            /\ backend' = IF verifier' = "disabled" THEN backend
                          ELSE [backend EXCEPT
                                  !["replay"] = _build_replay_guard(env),
                                  !["control"] = _build_runtime_control_enforcer(env)]
            /\ running' = file /\ unread' = FALSE
            /\ UNCHANGED <<env, pinged, closed, ended, sighup, file, kind, reloads, calls>>

(* Between the verifier's ping and the limiters'.                                   *)
BuildLimiters ==
    /\ phase = "pinging" /\ pinged = 2 /\ backend["agent"] = "absent"
    /\ IF _build_rate_limiter(env) = "refused"
       THEN Fail
       ELSE /\ backend' = [backend EXCEPT !["agent"] = _build_rate_limiter(env),
                                          !["ip"] = _build_rate_limiter(env)]
            /\ UNCHANGED <<env, phase, verifier, pinged, closed, ended, sighup>>
    /\ UNCHANGED reload

Remote(c) == backend[c] \in URLs

(* Readiness is announced and the handler left for later.                           *)
Slip_NoHandler ==
    /\ phase = "pinging"
    /\ pinged = 2 => backend["agent"] # "absent"
    /\ \/ /\ pinged' = pinged + 1
          /\ phase' = IF pinged' = 4 THEN "serving" ELSE phase
          /\ UNCHANGED <<env, verifier, backend, closed, ended, sighup>>
       \/ Remote(Clients[pinged + 1]) /\ Fail
    /\ UNCHANGED reload

(* The next ping returns or, on a Redis client, raises.  After the last one the     *)
(* handler is installed, if the loop can, and the server starts to accept.          *)
Ping ==
    /\ phase = "pinging"
    /\ pinged = 2 => backend["agent"] # "absent"
    /\ \/ /\ pinged' = pinged + 1
          /\ IF pinged' = 4
             THEN phase' = "serving" /\ sighup' = IF env.handles THEN "handled" ELSE sighup
             ELSE UNCHANGED <<phase, sighup>>
          /\ UNCHANGED <<env, verifier, backend, closed, ended>>
       \/ Remote(Clients[pinged + 1]) /\ Fail
    /\ UNCHANGED reload

-------------------------------------------------------------------------------
(* Shutdown.                                                                        *)

(* SIGTERM: the server accepts no more and lets the calls in progress end.          *)
Terminate ==
    /\ phase = "serving"
    /\ phase' = "draining"
    /\ UNCHANGED <<env, verifier, backend, pinged, closed, ended, sighup, reload>>

(* The lifespan resumes after its yield.  A signal not yet taken from the loop is   *)
(* dropped with the handler; a callback already queued still runs.                  *)
RemoveHandler ==
    /\ phase = "draining"
    /\ \A c \in Calls : call[c] \in {"absent", "answered"}
    /\ phase' = "closing" /\ sighup' = "default"
    /\ signalled' \in {signalled, FALSE}
    /\ UNCHANGED <<env, verifier, backend, pinged, closed, ended, files, task, loaded, succeeded,
                   failed, overlapped, running, calls>>

(* A coroutine ends with its release; the verifier's goes on to the control client, *)
(* if there is one and the replay guard's release returned.                         *)
EndsCloser(c, result) ==
    ~(c = "replay" /\ result = "yes" /\ backend["control"] # "absent")

(* gather starts three coroutines.  Each release returns or, on a Redis client,     *)
(* raises; an error ends its own coroutine.                                         *)
Close(c) ==
    /\ phase = "closing" /\ CloserOf(c) \notin ended
    /\ c = "control" <=> CloserOf(c) = "verifier" /\ closed["replay"] # "no"
    /\ \E result \in {"yes"} \cup (IF Remote(c) THEN {"raised"} ELSE {}) :
          /\ closed' = [closed EXCEPT ![c] = result]
          /\ ended' = IF EndsCloser(c, result) THEN ended \cup {CloserOf(c)} ELSE ended
    /\ UNCHANGED <<env, phase, verifier, backend, pinged, sighup, reload>>

(* gather without return_exceptions: the first error ends the wait.                 *)
Slip_FirstErrorEnds ==
    /\ phase = "closing"
    /\ ended = Closers \/ \E c \in ClientNames : closed[c] = "raised"
    /\ phase' = "stopped"
    /\ UNCHANGED <<env, verifier, backend, pinged, closed, ended, sighup, reload>>

(* The shutdown waits until every client has been released.                         *)
Slip_WaitForRelease ==
    /\ phase = "closing"
    /\ \A c \in ClientNames : closed[c] = "yes" \/ ~Remote(c)
    /\ phase' = "stopped"
    /\ UNCHANGED <<env, verifier, backend, pinged, closed, ended, sighup, reload>>

(* gather returns once each coroutine has; the process ends, and with it any task.  *)
Stop ==
    /\ phase = "closing" /\ ended = Closers
    /\ phase' = "stopped"
    /\ UNCHANGED <<env, verifier, backend, pinged, closed, ended, sighup, reload>>

-------------------------------------------------------------------------------
(* The operator's signal, and the worker of PolicyReload.                           *)

Running == phase \notin Ends

Hangup ==
    /\ Running
    /\ IF sighup = "handled"
       THEN Signal /\ UNCHANGED life
       ELSE /\ phase' = "killed"
            /\ UNCHANGED <<env, verifier, backend, pinged, closed, ended, sighup, reload>>

ReloadStep(t) == Running /\ (ScheduleReload(t) \/ Load(t) \/ FinishReload(t)) /\ UNCHANGED life

ServeCall(c) ==
    /\ \/ phase = "serving" /\ Arrive(c)
       \/ phase \in {"serving", "draining"} /\ (Resolve(c) \/ Evaluate(c) \/ Report(c))
    /\ UNCHANGED life

Ended == ~Running /\ UNCHANGED allVars

Lifespan == Configure \/ BuildLimiters \/ Ping \/ RemoveHandler
            \/ (\E c \in ClientNames : Close(c)) \/ Stop

ServiceNext ==
    \/ Lifespan \/ Terminate \/ Hangup
    \/ Running /\ WritePolicy /\ UNCHANGED life
    \/ \E t \in Tasks : ReloadStep(t)
    \/ \E c \in Calls : ServeCall(c)
    \/ Ended

(* The lifespan's awaits end, for the clients have socket timeouts; so do the calls, *)
(* which past their body only compute.  Nothing is assumed of the operator, of the   *)
(* callers or of the thread that reads the file.                                     *)
ServiceSpec ==
    /\ ServiceInit /\ [][ServiceNext]_allVars
    /\ WF_allVars(Lifespan)
    /\ \A c \in Calls : WF_allVars(ServeCall(c) /\ call[c] # "absent")

-------------------------------------------------------------------------------
(* Properties.                                                                      *)

(* Whatever the configuration, a staging or production worker that started          *)
(* verifies every authorization, and keeps the consumed ids, the runtime control    *)
(* and both limiters in a Redis it shares over TLS (docs/adr/0012, 0014).           *)
DeployedPosture ==
    phase \in Started /\ env.deployed =>
        verifier = "enforcing" /\ \A c \in ClientNames : backend[c] = "rediss"

(* From startup to the end of the drain, a policy that loads is in effect.          *)
ReadyServesLoadable == phase \in Started => ServesLoadablePolicy

(* While the service is ready a SIGHUP never ends it, if the loop handles signals.  *)
ReadySurvivesHangup ==
    [][(phase \in {"serving", "draining"} /\ env.handles) => phase' # "killed"]_allVars

(* A worker that stopped attempted to release every client it had opened, whichever *)
(* releases raised and in whatever order; only the control client may be left, and  *)
(* only when the replay guard's own release raised.                                 *)
StoppedReleasedClients ==
    phase = "stopped" =>
        \A c \in ClientNames : Remote(c) /\ closed[c] = "no" =>
            c = "control" /\ closed["replay"] = "raised"

(* A startup comes to readiness or to an end, and a shutdown to an end, whatever    *)
(* pings and releases fail on the way.                                              *)
LifecycleSettles ==
    /\ phase = "configuring" ~> phase \in {"serving"} \cup Ends
    /\ phase = "draining" ~> phase \in Ends
===============================================================================
