----------------------------- MODULE PolicyReload -----------------------------
(* Hot reload of the routing policy in one worker: SIGHUP, the asyncio task it  *)
(* creates, the load in a thread, the swap of app.state.route_model_use_case,   *)
(* and the /route calls that resolve the use case once and hold it.             *)
(* Policies are the successive contents of the policy file, named by their      *)
(* position.  The actions are enabled by the life of the worker, which is       *)
(* ServiceLifecycle's.                                                          *)
EXTENDS Integers, FiniteSets

CONSTANTS
    Calls,      \* POST /route calls
    Tasks,      \* bound: the reload tasks SIGHUP may create
    MaxWrites   \* bound: times the operator rewrites the policy file

ASSUME ReloadAssumption == MaxWrites \in Nat

(* What load_routing_policy makes of a content: a policy, a                     *)
(* RoutingPolicyLoadError, or an exception of another type, which it raises for *)
(* bytes that are not UTF-8 and for a mapping key that cannot be hashed.        *)
Kinds == {"valid", "refused", "crashes"}
Versions == 0..MaxWrites
NoVersion == -1

VARIABLES
    file,       \* the content now on disk
    kind,       \* kind[v]: what loading content v gives
    signalled,  \* SIGHUP is pending in the process; the kernel keeps one
    task,       \* task[t]: unborn, scheduled, loaded or done
    loaded,     \* loaded[t]: the content its thread read, NoVersion if unreadable
    running,    \* the policy of app.state.route_model_use_case
    succeeded,  \* POLICY_RELOADS_TOTAL{outcome=succeeded}
    failed,     \* POLICY_RELOADS_TOTAL{outcome=failed}
    call,       \* call[c]: absent, arrived, resolved, evaluated or answered
    held,       \* held[c]: the use case get_route_model_use_case returned to c
    decider,    \* decider[c]: the policy whose constraints decided c
    digest,     \* digest[c]: the policy_digest its answer reports
    \* History, read by the properties only:
    ranDuring,  \* ranDuring[c]: the policies that ran between arrival and answer
    overlapped, \* two reload tasks have been alive at once
    unread      \* the file was rewritten and no task has read it since

files == <<file, kind, unread>>
reloads == <<signalled, task, loaded, succeeded, failed, overlapped>>
calls == <<call, held, decider, digest, ranDuring>>
vars == <<files, reloads, running, calls>>

TypeOK ==
    /\ file \in Versions
    /\ kind \in [Versions -> Kinds]
    /\ signalled \in BOOLEAN
    /\ task \in [Tasks -> {"unborn", "scheduled", "loaded", "done"}]
    /\ loaded \in [Tasks -> Versions \cup {NoVersion}]
    /\ running \in Versions
    /\ succeeded \in Nat /\ failed \in Nat
    /\ call \in [Calls -> {"absent", "arrived", "resolved", "evaluated", "answered"}]
    /\ held \in [Calls -> Versions]
    /\ decider \in [Calls -> Versions]
    /\ digest \in [Calls -> Versions]
    /\ ranDuring \in [Calls -> SUBSET Versions]
    /\ overlapped \in BOOLEAN /\ unread \in BOOLEAN

(* The variables before the lifespan loads the file; content 0 is on disk.      *)
ReloadInit ==
    /\ file = 0
    /\ kind \in {k \in [Versions -> Kinds] : \A v \in Versions \ {0} : k[v] = "valid"}
    /\ signalled = FALSE
    /\ task = [t \in Tasks |-> "unborn"]
    /\ loaded = [t \in Tasks |-> NoVersion]
    /\ running = 0
    /\ succeeded = 0 /\ failed = 0
    /\ call = [c \in Calls |-> "absent"]
    /\ held = [c \in Calls |-> 0]
    /\ decider = [c \in Calls |-> 0]
    /\ digest = [c \in Calls |-> 0]
    /\ ranDuring = [c \in Calls |-> {}]
    /\ overlapped = FALSE /\ unread = FALSE

-------------------------------------------------------------------------------
(* The operator.                                                                *)

WritePolicy ==
    /\ file < MaxWrites
    /\ file' = file + 1
    /\ \E k \in Kinds : kind' = [kind EXCEPT ![file + 1] = k]
    /\ unread' = TRUE
    /\ UNCHANGED <<reloads, running, calls>>

Signal ==
    /\ ~signalled
    /\ signalled' = TRUE
    /\ UNCHANGED <<files, task, loaded, succeeded, failed, overlapped, running, calls>>

-------------------------------------------------------------------------------
(* The worker.                                                                  *)

Alive == {t \in Tasks : task[t] \in {"scheduled", "loaded"}}

(* _schedule_reload: one task per delivered signal, whatever else is running.   *)
ScheduleReload(t) ==
    /\ signalled /\ task[t] = "unborn"
    /\ signalled' = FALSE
    /\ task' = [task EXCEPT ![t] = "scheduled"]
    /\ overlapped' = (overlapped \/ Alive # {})
    /\ UNCHANGED <<files, loaded, succeeded, failed, running, calls>>

(* load_routing_policy in a thread: the file is read once, and parsed,          *)
(* validated and digested from that one text.                                   *)
Load(t) ==
    /\ task[t] = "scheduled"
    /\ task' = [task EXCEPT ![t] = "loaded"]
    /\ \/ /\ loaded' = [loaded EXCEPT ![t] = file]
          /\ unread' = FALSE
       \/ UNCHANGED <<loaded, unread>>   \* OSError
    /\ UNCHANGED <<file, kind, signalled, succeeded, failed, overlapped, running, calls>>

Outcome(v) == IF v = NoVersion THEN "refused" ELSE kind[v]

(* Definitions named Slip_... are faults the code does not have: each is the    *)
(* next definition of the code with one plausible mistake, and substituting it  *)
(* must break a property.                                                       *)

(* The use case is replaced before the result was looked at.                    *)
Slip_SwapFirst(t) ==
    /\ task[t] = "loaded"
    /\ task' = [task EXCEPT ![t] = "done"]
    /\ running' = IF loaded[t] = NoVersion THEN running ELSE loaded[t]
    /\ ranDuring' = [c \in Calls |-> IF call[c] \in {"absent", "answered"} THEN ranDuring[c]
                                     ELSE ranDuring[c] \cup {running'}]
    /\ succeeded' = succeeded + 1 /\ UNCHANGED failed
    /\ UNCHANGED <<files, signalled, loaded, overlapped, call, held, decider, digest>>

(* The new use case is built and counted, but app.state keeps the old one.      *)
Slip_CountOnly(t) ==
    /\ task[t] = "loaded"
    /\ task' = [task EXCEPT ![t] = "done"]
    /\ CASE Outcome(loaded[t]) = "valid"   -> succeeded' = succeeded + 1 /\ UNCHANGED failed
         [] Outcome(loaded[t]) = "refused" -> failed' = failed + 1 /\ UNCHANGED succeeded
         [] OTHER                          -> UNCHANGED <<succeeded, failed>>
    /\ UNCHANGED <<files, signalled, loaded, overlapped, running, calls>>

(* reload_routing_policy after its await: swap and count, count, or let the     *)
(* exception end the task.                                                      *)
FinishReload(t) ==
    /\ task[t] = "loaded"
    /\ task' = [task EXCEPT ![t] = "done"]
    /\ CASE Outcome(loaded[t]) = "valid" ->
              /\ running' = loaded[t]
              /\ succeeded' = succeeded + 1 /\ UNCHANGED failed
         [] Outcome(loaded[t]) = "refused" ->
              /\ failed' = failed + 1 /\ UNCHANGED <<running, succeeded>>
         [] OTHER -> UNCHANGED <<running, succeeded, failed>>
    /\ ranDuring' = [c \in Calls |-> IF call[c] \in {"absent", "answered"} THEN ranDuring[c]
                                     ELSE ranDuring[c] \cup {running'}]
    /\ UNCHANGED <<files, signalled, loaded, overlapped, call, held, decider, digest>>

-------------------------------------------------------------------------------
(* A /route call.                                                               *)

Arrive(c) ==
    /\ call[c] = "absent"
    /\ call' = [call EXCEPT ![c] = "arrived"]
    /\ ranDuring' = [ranDuring EXCEPT ![c] = {running}]
    /\ UNCHANGED <<files, reloads, running, held, decider, digest>>

(* The use case is the one the application was built with.                      *)
Slip_ResolveAtStartup(c) ==
    /\ call[c] = "arrived"
    /\ call' = [call EXCEPT ![c] = "resolved"]
    /\ UNCHANGED held
    /\ UNCHANGED <<files, reloads, running, decider, digest, ranDuring>>

(* get_route_model_use_case, a dependency resolved before the handler runs.     *)
Resolve(c) ==
    /\ call[c] = "arrived"
    /\ call' = [call EXCEPT ![c] = "resolved"]
    /\ held' = [held EXCEPT ![c] = running]
    /\ UNCHANGED <<files, reloads, running, decider, digest, ranDuring>>

(* use_case.route up to its await of the availability provider: the workload's  *)
(* rule and the candidates are taken from the policy.                           *)
Evaluate(c) ==
    /\ call[c] = "resolved"
    /\ call' = [call EXCEPT ![c] = "evaluated"]
    /\ decider' = [decider EXCEPT ![c] = held[c]]
    /\ UNCHANGED <<files, reloads, running, held, digest, ranDuring>>

(* The provenance is read from app.state when the answer is built.              *)
Slip_ReportRunning(c) ==
    /\ call[c] = "evaluated"
    /\ call' = [call EXCEPT ![c] = "answered"]
    /\ digest' = [digest EXCEPT ![c] = running]
    /\ UNCHANGED <<files, reloads, running, held, decider, ranDuring>>

(* The decision, or the rejection, with the provenance it reports.              *)
Report(c) ==
    /\ call[c] = "evaluated"
    /\ call' = [call EXCEPT ![c] = "answered"]
    /\ digest' = [digest EXCEPT ![c] = held[c]]
    /\ UNCHANGED <<files, reloads, running, held, decider, ranDuring>>

-------------------------------------------------------------------------------
(* Properties.                                                                  *)

(* A file that does not load never replaces the policy in effect, in whatever   *)
(* order the reloads end.                                                       *)
ServesLoadablePolicy == kind[running] = "valid"

(* The digest an answer reports is that of the policy that decided it, although *)
(* a reload may end between the two (docstring of reload_routing_policy).       *)
DigestNamesDecider ==
    \A c \in Calls : call[c] = "answered" => digest[c] = decider[c]

(* A call is decided by a policy that was in effect at some instant of that     *)
(* call: neither one replaced before it arrived nor one that never ran.         *)
DecidedByCurrentPolicy ==
    \A c \in Calls : call[c] = "answered" => decider[c] \in ranDuring[c]

Quiet == ~signalled /\ Alive = {}

(* As long as reloads never overlapped, a worker with no reload left to do      *)
(* whose last reload read the file as it is now runs that file, if it loads.    *)
SoleReloadTakesEffect ==
    Quiet /\ ~overlapped /\ ~unread /\ kind[file] = "valid" => running = file

===============================================================================
