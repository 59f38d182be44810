------------------------ MODULE ServiceLifecycleProofs ------------------------
(* Proofs about ServiceLifecycle, with the reloads and the calls of PolicyReload  *)
(* in it, for every set of calls, tasks and configurations and every number of    *)
(* rewrites of the policy file.                                                   *)
EXTENDS ServiceLifecycle, TLAPS

-----------------------------------------------------------------------------
(* Type correctness.                                                            *)

(* What the factories build.                                                    *)
LEMMA BuiltParts ==
    ASSUME NEW e \in AllEnvironments
    PROVE  /\ build_runtime_authorization_verifier(e) \in {"refused", "disabled", "enforcing"}
           /\ build_runtime_authorization_verifier(e) = "enforcing" =>
                 /\ _build_replay_guard(e) \in {"memory"} \cup URLs
                 /\ _build_runtime_control_enforcer(e) \in {"absent"} \cup URLs
           /\ _build_rate_limiter(e) \in {"refused", "memory"} \cup URLs
  BY DEF build_runtime_authorization_verifier, _build_replay_guard, Client, URLs,
         _build_runtime_control_enforcer, _build_rate_limiter, AllEnvironments

(* A deployed worker gets no verifier but one that enforces with both its parts. *)
LEMMA DeployedBuild ==
    ASSUME NEW e \in AllEnvironments, e.deployed,
           build_runtime_authorization_verifier(e) # "refused"
    PROVE  /\ build_runtime_authorization_verifier(e) = "enforcing"
           /\ e.required /\ e.control
           /\ _build_replay_guard(e) # "refused"
           /\ _build_runtime_control_enforcer(e) # "refused"
  BY DEF build_runtime_authorization_verifier

(* The four clients by their place in the order of the pings.                   *)
LEMMA ClientNamesAre == ClientNames = {"replay", "control", "agent", "ip"}
<1>1. \A i \in 1..4 : Clients[i] \in {"replay", "control", "agent", "ip"}
  BY DEF Clients
<1>2. Clients[1] = "replay" /\ Clients[2] = "control" /\ Clients[3] = "agent" /\ Clients[4] = "ip"
  BY DEF Clients
<1> QED
  BY <1>1, <1>2 DEF ClientNames

(* Pings are left as long as the startup waits for one.                         *)
PingLeft == /\ phase = "configuring" => pinged = 0
            /\ phase = "pinging" => pinged < 4

TypeInv == ServiceTypeOK /\ PingLeft

LEMMA TypeInit == ServiceInit => TypeInv
<1> SUFFICES ASSUME ServiceInit PROVE TypeInv
  OBVIOUS
<1>1. 0 \in Versions
  BY ReloadAssumption DEF Versions
<1>2. TypeOK
  BY <1>1 DEF ServiceInit, ReloadInit, TypeOK, Kinds
<1> QED
  BY <1>2 DEF ServiceInit, TypeInv, PingLeft, ServiceTypeOK, Started, Ends, Closers

(* Every step of the worker keeps every variable in its type.                   *)
LEMMA TypeStep == TypeInv /\ [ServiceNext]_allVars => TypeInv'
<1> SUFFICES ASSUME TypeInv, [ServiceNext]_allVars PROVE TypeInv'
  OBVIOUS
<1> USE DEF TypeInv, PingLeft, ServiceTypeOK, Started, Ends
<1>a. env \in AllEnvironments
  BY EnvironmentsAssumption
<1>1. CASE Configure
  <2>1. CASE Fail /\ UNCHANGED reload
    BY <2>1 DEF Fail, reload, TypeOK, files, reloads, calls
  <2>2. CASE ~(Fail /\ UNCHANGED reload)
    <3>1. build_runtime_authorization_verifier(env) \in {"disabled", "enforcing"}
          /\ verifier' = build_runtime_authorization_verifier(env)
      BY <1>a, <1>1, <2>2, BuiltParts DEF Configure, Configurable
    <3>2. backend' \in [ClientNames -> {"absent", "memory"} \cup URLs]
      BY <1>a, <1>1, <2>2, <3>1, BuiltParts DEF Configure
    <3>3. TypeOK'
      BY <1>1, <2>2 DEF Configure, TypeOK, reloads, calls
    <3> QED
      BY <1>1, <2>2, <3>1, <3>2, <3>3 DEF Configure
  <2> QED
    BY <2>1, <2>2
<1>2. CASE BuildLimiters
  BY <1>a, <1>2, BuiltParts DEF BuildLimiters, Fail, reload, TypeOK, files, reloads, calls
<1>3. CASE Ping
  BY <1>3 DEF Ping, Fail, reload, TypeOK, files, reloads, calls
<1>4. CASE RemoveHandler
  BY <1>4 DEF RemoveHandler, TypeOK, files, calls
<1>5. ASSUME NEW c \in ClientNames, Close(c) PROVE TypeInv'
  <2>1. CloserOf(c) \in Closers
    BY <1>5, ClientNamesAre DEF CloserOf, Closers
  <2> QED
    BY <1>5, <2>1 DEF Close, reload, TypeOK, files, reloads, calls
<1>6. CASE Stop
  BY <1>6 DEF Stop, reload, TypeOK, files, reloads, calls
<1>7. CASE Terminate
  BY <1>7 DEF Terminate, reload, TypeOK, files, reloads, calls
<1>8. CASE Hangup
  <2>1. CASE Signal /\ UNCHANGED life
    <3>1. TypeOK'
      BY <2>1 DEF Signal, TypeOK, files, calls
    <3> QED
      BY <2>1, <3>1 DEF life
  <2>2. CASE /\ phase' = "killed"
             /\ UNCHANGED <<env, verifier, backend, pinged, closed, ended, sighup, reload>>
    <3>1. TypeOK'
      BY <2>2 DEF reload, TypeOK, files, reloads, calls
    <3> QED
      BY <2>2, <3>1
  <2> QED
    BY <1>8, <2>1, <2>2 DEF Hangup
<1>9. CASE Running /\ WritePolicy /\ UNCHANGED life
  <2>1. file + 1 \in Versions
    BY <1>9, ReloadAssumption DEF WritePolicy, TypeOK, Versions
  <2> QED
    BY <1>9, <2>1 DEF WritePolicy, life, TypeOK, reloads, calls
<1>10. ASSUME NEW t \in Tasks, ReloadStep(t) PROVE TypeInv'
  <2>1. CASE ScheduleReload(t)
    BY <1>10, <2>1 DEF ReloadStep, ScheduleReload, life, TypeOK, files, calls
  <2>2. CASE Load(t)
    BY <1>10, <2>2 DEF ReloadStep, Load, life, TypeOK, calls
  <2>3. CASE FinishReload(t)
    <3>1. running' \in Versions
      BY <2>3 DEF FinishReload, TypeOK, Outcome
    <3>2. ranDuring' \in [Calls -> SUBSET Versions]
      BY <2>3, <3>1 DEF FinishReload, TypeOK
    <3>3. succeeded' \in Nat /\ failed' \in Nat
      BY <2>3 DEF FinishReload, TypeOK
    <3> QED
      BY <1>10, <2>3, <3>1, <3>2, <3>3 DEF ReloadStep, FinishReload, life, TypeOK, files
  <2> QED
    BY <1>10, <2>1, <2>2, <2>3 DEF ReloadStep
<1>11. ASSUME NEW c \in Calls, ServeCall(c) PROVE TypeInv'
  BY <1>11 DEF ServeCall, Arrive, Resolve, Evaluate, Report, life, TypeOK, files, reloads
<1>12. CASE UNCHANGED allVars
  BY <1>12 DEF allVars, life, reload, TypeOK, files, reloads, calls
<1> QED
  BY <1>1, <1>2, <1>3, <1>4, <1>5, <1>6, <1>7, <1>8, <1>9, <1>10, <1>11, <1>12
     DEF ServiceNext, Lifespan, Ended

LEMMA TypeInvariant == ServiceSpec => []TypeInv
  BY TypeInit, TypeStep, PTL DEF ServiceSpec

(* Every variable of the worker keeps its type: the lifespan of http.py and the  *)
(* reloads and calls that run in it.                                             *)
THEOREM TypeCorrect == ServiceSpec => []ServiceTypeOK
<1>1. TypeInv => ServiceTypeOK
  BY DEF TypeInv
<1> QED
  BY <1>1, TypeInvariant, PTL

-----------------------------------------------------------------------------
(* The calls: one policy decides a call and is reported by it, although reloads *)
(* swap app.state.route_model_use_case between any two of its steps.            *)

(* Before the server accepts nothing calls, nothing reloads, and no handler is  *)
(* there for a SIGHUP to reach.                                                 *)
IdleBeforeReady ==
    phase \in {"configuring", "pinging"} =>
        /\ \A c \in Calls : call[c] = "absent"
        /\ \A t \in Tasks : task[t] = "unborn"
        /\ ~signalled /\ sighup = "default"

(* A call works with the policy it resolved, which ran while it was in progress. *)
HoldsOnePolicy ==
    \A c \in Calls :
        /\ call[c] \in {"evaluated", "answered"} => decider[c] = held[c]
        /\ call[c] = "answered" => digest[c] = held[c]
        /\ call[c] \notin {"absent", "answered"} => running \in ranDuring[c]
        /\ call[c] \in {"resolved", "evaluated", "answered"} => held[c] \in ranDuring[c]

CallInv == IdleBeforeReady /\ HoldsOnePolicy

LEMMA CallInit == ServiceInit => CallInv
  BY DEF ServiceInit, ReloadInit, CallInv, IdleBeforeReady, HoldsOnePolicy

LEMMA CallStep == TypeInv /\ CallInv /\ [ServiceNext]_allVars => CallInv'
<1> SUFFICES ASSUME TypeInv, CallInv, [ServiceNext]_allVars PROVE CallInv'
  OBVIOUS
<1> USE DEF CallInv, IdleBeforeReady, HoldsOnePolicy
<1>1. CASE Configure
  BY <1>1 DEF Configure, Fail, reload, files, reloads, calls
<1>2. CASE BuildLimiters
  BY <1>2 DEF BuildLimiters, Fail, reload, files, reloads, calls
<1>3. CASE Ping
  BY <1>3 DEF Ping, Fail, reload, files, reloads, calls
<1>4. CASE RemoveHandler
  BY <1>4 DEF RemoveHandler, files, calls
<1>5. ASSUME NEW c \in ClientNames, Close(c) PROVE CallInv'
  BY <1>5 DEF Close, reload, files, reloads, calls
<1>6. CASE Stop
  BY <1>6 DEF Stop, reload, files, reloads, calls
<1>7. CASE Terminate
  BY <1>7 DEF Terminate, reload, files, reloads, calls
<1>8. CASE Hangup
  BY <1>8 DEF Hangup, Signal, life, reload, files, reloads, calls
<1>9. CASE Running /\ WritePolicy /\ UNCHANGED life
  BY <1>9 DEF WritePolicy, life, reloads, calls
<1>10. ASSUME NEW t \in Tasks, ReloadStep(t) PROVE CallInv'
  <2>1. CASE ScheduleReload(t)
    BY <1>10, <2>1 DEF ReloadStep, ScheduleReload, life, files, calls
  <2>2. CASE Load(t)
    BY <1>10, <2>2 DEF ReloadStep, Load, life, calls
  <2>3. CASE FinishReload(t)
    BY <1>10, <2>3 DEF ReloadStep, FinishReload, life, files, TypeInv, ServiceTypeOK, TypeOK
  <2> QED
    BY <1>10, <2>1, <2>2, <2>3 DEF ReloadStep
<1>11. ASSUME NEW c \in Calls, ServeCall(c) PROVE CallInv'
  <2> USE DEF ServeCall, life, files, reloads, TypeInv, ServiceTypeOK, TypeOK
  <2>1. CASE Arrive(c)
    BY <1>11, <2>1 DEF Arrive
  <2>2. CASE Resolve(c)
    BY <1>11, <2>2 DEF Resolve
  <2>3. CASE Evaluate(c)
    BY <1>11, <2>3 DEF Evaluate
  <2>4. CASE Report(c)
    BY <1>11, <2>4 DEF Report
  <2> QED
    BY <1>11, <2>1, <2>2, <2>3, <2>4
<1>12. CASE UNCHANGED allVars
  BY <1>12 DEF allVars, life, reload, files, reloads, calls
<1> QED
  BY <1>1, <1>2, <1>3, <1>4, <1>5, <1>6, <1>7, <1>8, <1>9, <1>10, <1>11, <1>12
     DEF ServiceNext, Lifespan, Ended

LEMMA CallInvariant == ServiceSpec => []CallInv
  BY CallInit, CallStep, TypeInvariant, PTL DEF ServiceSpec

(* The policy_digest of an answer is that of the policy that decided it, however *)
(* many reloads end between the two.                                             *)
THEOREM DigestsNameDeciders == ServiceSpec => []DigestNamesDecider
<1>1. CallInv => DigestNamesDecider
  BY DEF CallInv, HoldsOnePolicy, DigestNamesDecider
<1> QED
  BY <1>1, CallInvariant, PTL

(* The policy that decides a call was in effect between its arrival and its      *)
(* answer.                                                                       *)
THEOREM DecidedByPolicyInEffect == ServiceSpec => []DecidedByCurrentPolicy
<1>1. CallInv => DecidedByCurrentPolicy
  BY DEF CallInv, HoldsOnePolicy, DecidedByCurrentPolicy
<1> QED
  BY <1>1, CallInvariant, PTL

-----------------------------------------------------------------------------
(* The policy in effect.                                                        *)

(* Nothing was loaded that has not been written, and nothing before the load.   *)
LoadedWasWritten ==
    /\ running <= file
    /\ \A t \in Tasks : /\ loaded[t] <= file
                        /\ task[t] \in {"unborn", "scheduled"} => loaded[t] = NoVersion

ServesLoadable == phase \in {"pinging"} \cup Started => ServesLoadablePolicy

(* While reloads never overlapped there is one at a time; once it has read the  *)
(* file as it is now, the file is in effect or about to be.                     *)
SoleReload ==
    ~overlapped =>
        /\ \A t, u \in Alive : t = u
        /\ ~unread =>
             /\ \A t \in Tasks : task[t] = "loaded" => loaded[t] \in {file, NoVersion}
             /\ kind[file] = "valid" =>
                  running = file \/ \E t \in Tasks : task[t] = "loaded" /\ loaded[t] = file

PolicyInv == LoadedWasWritten /\ ServesLoadable /\ SoleReload

LEMMA PolicyInit == ServiceInit => PolicyInv
  BY DEF ServiceInit, ReloadInit, PolicyInv, LoadedWasWritten, ServesLoadable, SoleReload,
         NoVersion, Started, Alive

LEMMA PolicyStep == TypeInv /\ CallInv /\ PolicyInv /\ [ServiceNext]_allVars => PolicyInv'
<1> SUFFICES ASSUME TypeInv, CallInv, PolicyInv, [ServiceNext]_allVars PROVE PolicyInv'
  OBVIOUS
<1> USE DEF PolicyInv, LoadedWasWritten, ServesLoadable, SoleReload, ServesLoadablePolicy,
            Alive, Started, NoVersion
<1>a. /\ file \in Nat /\ file # NoVersion /\ running \in Versions /\ kind \in [Versions -> Kinds]
      /\ task \in [Tasks -> {"unborn", "scheduled", "loaded", "done"}]
      /\ loaded \in [Tasks -> Versions \cup {NoVersion}]
      /\ Versions \subseteq Int
  BY ReloadAssumption DEF TypeInv, ServiceTypeOK, TypeOK, Versions
<1>1. CASE Configure
  <2>1. \A t \in Tasks : task[t] = "unborn"
    BY <1>1 DEF Configure, CallInv, IdleBeforeReady
  <2>2. CASE Fail
    BY <1>1, <2>2 DEF Configure, Fail, reload, files, reloads
  <2>3. CASE ~Fail
    BY <1>a, <1>1, <2>1, <2>3 DEF Configure, Configurable, reloads
  <2> QED
    BY <2>2, <2>3
<1>2. CASE BuildLimiters
  BY <1>2 DEF BuildLimiters, Fail, reload, files, reloads
<1>3. CASE Ping
  BY <1>3 DEF Ping, Fail, reload, files, reloads
<1>4. CASE RemoveHandler
  BY <1>4 DEF RemoveHandler, files
<1>5. ASSUME NEW c \in ClientNames, Close(c) PROVE PolicyInv'
  BY <1>5 DEF Close, reload, files, reloads
<1>6. CASE Stop
  BY <1>6 DEF Stop, reload, files, reloads
<1>7. CASE Terminate
  BY <1>7 DEF Terminate, reload, files, reloads
<1>8. CASE Hangup
  BY <1>8 DEF Hangup, Signal, life, reload, files, reloads
<1>9. CASE Running /\ WritePolicy /\ UNCHANGED life
  <2>1. LoadedWasWritten'
    <3>1. ASSUME NEW t \in Tasks PROVE loaded[t] <= file + 1
      <4>1. loaded[t] \in Versions \cup {NoVersion}
        BY <1>a
      <4>2. loaded[t] \in Int
        BY <4>1, ReloadAssumption DEF Versions
      <4> QED
        BY <1>a, <4>2
    <3> QED
      BY <1>a, <1>9, <3>1 DEF WritePolicy, life, reloads
  <2>2. ServesLoadable'
    <3>1. running \in Versions /\ running # file + 1 /\ running' = running
      BY <1>a, <1>9 DEF WritePolicy
    <3>2. kind'[running] = kind[running]
      BY <1>a, <1>9, <3>1 DEF WritePolicy
    <3> QED
      BY <1>9, <3>1, <3>2 DEF life
  <2>3. SoleReload'
    BY <1>9 DEF WritePolicy, life, reloads
  <2> QED
    BY <2>1, <2>2, <2>3
<1>10. ASSUME NEW t \in Tasks, ReloadStep(t) PROVE PolicyInv'
  <2>1. CASE ScheduleReload(t)
    BY <1>a, <1>10, <2>1 DEF ReloadStep, ScheduleReload, life, files
  <2>2. CASE Load(t)
    BY <1>a, <1>10, <2>2 DEF ReloadStep, Load, life
  <2>3. CASE FinishReload(t)
    <3>1. running' = IF Outcome(loaded[t]) = "valid" THEN loaded[t] ELSE running
      BY <2>3 DEF FinishReload
    <3>2. LoadedWasWritten'
      BY <1>a, <2>3, <3>1 DEF FinishReload, files
    <3>3. ServesLoadable'
      BY <1>a, <1>10, <2>3, <3>1 DEF ReloadStep, FinishReload, files, life, Outcome
    <3>4. SoleReload'
      <4> SUFFICES ASSUME ~overlapped PROVE SoleReload'
        BY <2>3 DEF FinishReload
      <4>1. \A u \in Tasks : u # t => task[u] \notin {"scheduled", "loaded"}
        BY <2>3 DEF FinishReload
      <4>2. Alive' = {}
        BY <1>a, <2>3, <4>1 DEF FinishReload
      <4>3. \A u \in Tasks : task'[u] # "loaded"
        BY <4>2
      <4>4. ASSUME ~unread, kind[file] = "valid" PROVE running' = file
        BY <1>a, <2>3, <3>1, <4>1, <4>4 DEF Outcome, FinishReload
      <4> QED
        BY <2>3, <4>2, <4>3, <4>4 DEF FinishReload, files
    <3> QED
      BY <3>2, <3>3, <3>4
  <2> QED
    BY <1>10, <2>1, <2>2, <2>3 DEF ReloadStep
<1>11. ASSUME NEW c \in Calls, ServeCall(c) PROVE PolicyInv'
  BY <1>11 DEF ServeCall, Arrive, Resolve, Evaluate, Report, life, files, reloads
<1>12. CASE UNCHANGED allVars
  BY <1>12 DEF allVars, life, reload, files, reloads
<1> QED
  BY <1>1, <1>2, <1>3, <1>4, <1>5, <1>6, <1>7, <1>8, <1>9, <1>10, <1>11, <1>12
     DEF ServiceNext, Lifespan, Ended

LEMMA PolicyInvariant == ServiceSpec => []PolicyInv
  BY PolicyInit, PolicyStep, TypeInvariant, CallInvariant, PTL DEF ServiceSpec

(* A file that does not load, or that crashes the load, never serves: neither    *)
(* from startup nor after any sequence of reloads.                               *)
THEOREM ReadyOnLoadablePolicy == ServiceSpec => []ReadyServesLoadable
<1>1. PolicyInv => ReadyServesLoadable
  BY DEF PolicyInv, ServesLoadable, ReadyServesLoadable
<1> QED
  BY <1>1, PolicyInvariant, PTL

(* Reloads that never overlapped end on the file as it was last read.            *)
THEOREM SoleReloadsTakeEffect == ServiceSpec => []SoleReloadTakesEffect
<1>1. PolicyInv => SoleReloadTakesEffect
  BY DEF PolicyInv, SoleReload, SoleReloadTakesEffect, Quiet, Alive
<1> QED
  BY <1>1, PolicyInvariant, PTL

-----------------------------------------------------------------------------
(* What a worker is built of, and what it releases.                             *)

(* The parts are those the factories make of the configuration.                 *)
BuiltOfConfiguration ==
    /\ phase = "configuring" => \A c \in ClientNames : backend[c] = "absent"
    /\ phase \in {"pinging"} \cup Started =>
         /\ verifier = build_runtime_authorization_verifier(env) /\ verifier # "refused"
         /\ verifier = "enforcing" =>
              /\ backend["replay"] = _build_replay_guard(env)
              /\ backend["control"] = _build_runtime_control_enforcer(env)
         /\ backend["agent"] = backend["ip"]
         /\ backend["agent"] \in {"absent", _build_rate_limiter(env)}
         /\ phase # "pinging" \/ pinged > 2 => backend["agent"] # "absent"

HandledWhenReady == phase \in {"serving", "draining"} /\ env.handles => sighup = "handled"

(* A coroutine of the gather ends only with what it had to release.             *)
EndedReleased ==
    /\ phase \in {"configuring", "pinging", "serving", "draining"} => ended = {}
    /\ phase = "stopped" => ended = Closers
    /\ "agent" \in ended => closed["agent"] # "no"
    /\ "ip" \in ended => closed["ip"] # "no"
    /\ "verifier" \in ended =>
         /\ closed["replay"] # "no"
         /\ \/ closed["control"] # "no"
            \/ backend["control"] = "absent"
            \/ closed["replay"] = "raised"

BuildInv == BuiltOfConfiguration /\ HandledWhenReady /\ EndedReleased

LEMMA BuildInit == ServiceInit => BuildInv
  BY DEF ServiceInit, BuildInv, BuiltOfConfiguration, HandledWhenReady, EndedReleased,
         Started, Ends

LEMMA BuildStep == TypeInv /\ BuildInv /\ [ServiceNext]_allVars => BuildInv'
<1> SUFFICES ASSUME TypeInv, BuildInv, [ServiceNext]_allVars PROVE BuildInv'
  OBVIOUS
<1> USE DEF BuildInv, BuiltOfConfiguration, HandledWhenReady, EndedReleased, Started
<1>a. /\ {"replay", "control", "agent", "ip"} \subseteq ClientNames
      /\ backend \in [ClientNames -> {"absent", "memory"} \cup URLs]
      /\ closed \in [ClientNames -> {"no", "yes", "raised"}]
      /\ ended \subseteq Closers /\ pinged \in 0..4
  BY ClientNamesAre DEF TypeInv, ServiceTypeOK
<1>1. CASE Configure
  <2>1. CASE Fail
    BY <1>1, <2>1 DEF Configure, Fail
  <2>2. CASE ~Fail
    <3>1. /\ phase' = "pinging" /\ pinged' = pinged /\ env' = env /\ UNCHANGED <<ended, closed>>
          /\ verifier' = build_runtime_authorization_verifier(env) /\ verifier' # "refused"
          /\ \A c \in ClientNames : backend[c] = "absent"
      BY <1>1, <2>2 DEF Configure, Configurable
    <3>2. /\ backend'["agent"] = "absent" /\ backend'["ip"] = "absent"
          /\ verifier' = "enforcing" =>
                /\ backend'["replay"] = _build_replay_guard(env)
                /\ backend'["control"] = _build_runtime_control_enforcer(env)
      BY <1>a, <1>1, <2>2, <3>1 DEF Configure
    <3> QED
      BY <1>1, <3>1, <3>2 DEF Configure, TypeInv, PingLeft
  <2> QED
    BY <2>1, <2>2
<1>2. CASE BuildLimiters
  BY <1>a, <1>2 DEF BuildLimiters, Fail
<1>3. CASE Ping
  BY <1>a, <1>3 DEF Ping, Fail
<1>4. CASE RemoveHandler
  BY <1>4 DEF RemoveHandler
<1>5. ASSUME NEW c \in ClientNames, Close(c) PROVE BuildInv'
  <2> PICK result \in {"yes", "raised"} :
         /\ closed' = [closed EXCEPT ![c] = result]
         /\ ended' = IF EndsCloser(c, result) THEN ended \cup {CloserOf(c)} ELSE ended
    BY <1>5 DEF Close
  <2>1. EndedReleased'
    <3>1. CASE c = "control"
      BY <1>a, <1>5, <3>1 DEF Close, CloserOf, EndsCloser
    <3>2. CASE c = "replay"
      BY <1>a, <1>5, <3>2 DEF Close, CloserOf, EndsCloser
    <3>3. CASE c \in {"agent", "ip"}
      BY <1>a, <1>5, <3>3 DEF Close, CloserOf, EndsCloser
    <3> QED
      BY <3>1, <3>2, <3>3, ClientNamesAre
  <2> QED
    BY <1>5, <2>1 DEF Close
<1>6. CASE Stop
  BY <1>6 DEF Stop
<1>7. CASE Terminate
  BY <1>7 DEF Terminate
<1>8. CASE Hangup
  BY <1>8 DEF Hangup, life
<1>9. CASE UNCHANGED life
  BY <1>9 DEF life
<1> QED
  BY <1>1, <1>2, <1>3, <1>4, <1>5, <1>6, <1>7, <1>8, <1>9
     DEF ServiceNext, Lifespan, ReloadStep, ServeCall, Ended, allVars

LEMMA BuildInvariant == ServiceSpec => []BuildInv
  BY BuildInit, BuildStep, TypeInvariant, PTL DEF ServiceSpec

(* No configuration brings a staging or production worker to readiness without   *)
(* a verifier that enforces and four Redis clients over TLS: the checks of       *)
(* runtime_authorization_factory.py, and what the limiters' fallback to memory   *)
(* would allow without them.                                                     *)
THEOREM DeployedWorkersEnforce == ServiceSpec => []DeployedPosture
<1>1. TypeInv /\ BuildInv => DeployedPosture
  <2> SUFFICES ASSUME TypeInv, BuildInv, phase \in Started, env.deployed
               PROVE  verifier = "enforcing" /\ \A c \in ClientNames : backend[c] = "rediss"
    BY DEF DeployedPosture
  <2>1. /\ verifier = build_runtime_authorization_verifier(env) /\ verifier # "refused"
        /\ verifier = "enforcing" =>
             /\ backend["replay"] = _build_replay_guard(env)
             /\ backend["control"] = _build_runtime_control_enforcer(env)
        /\ backend["agent"] = backend["ip"] /\ backend["agent"] = _build_rate_limiter(env)
    BY DEF BuildInv, BuiltOfConfiguration, Started
  <2>2. /\ env.required /\ env.control
        /\ _build_replay_guard(env) # "refused"
        /\ _build_runtime_control_enforcer(env) # "refused"
        /\ verifier = "enforcing"
    BY <2>1, DeployedBuild, EnvironmentsAssumption DEF TypeInv, ServiceTypeOK
  <2>3. env.redis = "rediss" /\ _build_runtime_control_enforcer(env) = Client(env)
    BY <2>2 DEF _build_runtime_control_enforcer
  <2>4. Client(env) = "rediss"
    BY <2>2, <2>3 DEF Client
  <2> QED
    BY <2>1, <2>2, <2>3, <2>4, ClientNamesAre DEF _build_replay_guard, _build_rate_limiter
<1> QED
  BY <1>1, TypeInvariant, BuildInvariant, PTL

(* A shutdown attempts every release, except that of the control client when the *)
(* replay guard's raised, in whatever order the releases end.                    *)
THEOREM StoppedWorkersReleased == ServiceSpec => []StoppedReleasedClients
<1>1. BuildInv => StoppedReleasedClients
  BY ClientNamesAre
     DEF BuildInv, EndedReleased, StoppedReleasedClients, Closers, Remote, URLs
<1> QED
  BY <1>1, BuildInvariant, PTL

(* Once the handler is installed, and until it is removed after the drain, no    *)
(* SIGHUP ends the process.                                                      *)
THEOREM ReadyWorkersSurviveHangup == ServiceSpec => ReadySurvivesHangup
<1>1. BuildInv /\ [ServiceNext]_allVars =>
        [(phase \in {"serving", "draining"} /\ env.handles) => phase' # "killed"]_allVars
  <2> SUFFICES ASSUME BuildInv, ServiceNext, phase \in {"serving", "draining"}, env.handles
               PROVE  phase' # "killed"
    OBVIOUS
  <2>1. sighup = "handled"
    BY DEF BuildInv, HandledWhenReady
  <2> QED
    BY <2>1 DEF ServiceNext, Lifespan, Configure, BuildLimiters, Ping, RemoveHandler, Close, Stop,
                Terminate, Hangup, ReloadStep, ServeCall, Ended, allVars, life
<1> QED
  BY <1>1, BuildInvariant, PTL DEF ServiceSpec, ReadySurvivesHangup
===============================================================================
