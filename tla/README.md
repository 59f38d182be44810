# A verification development of policy-model-router

policy-model-router answers one question over HTTP: which model group may serve
this workload, for this agent, with this data. `POST /route` admits a bounded
body, limits its caller, checks an API key, verifies a signed runtime
authorization from Governance, consults Governance's kill switch, consumes the
authorization once, evaluates the routing policy and answers with a decision or
with digest-bound evidence of the denial. This directory holds TLA+ models of
that program, the TLC configurations that check them, and proofs checked by
TLAPS. Paths below are relative to `src/policy_model_router/` unless they start
with `docs/`.

## 1. Inventory

| Component | State it keeps | Operations | What makes it correct |
|---|---|---|---|
| Body admission, `_BodySizeAndIpRateLimitMiddleware` (`entrypoints/http.py:160`) | per call: `body`, `admitted_message` | IP limit, declared length, reading loop, `receive_admitted` | the parser gets the whole body once, or none; never more than the cap is held |
| Rate limiters (`adapters/rate_limiter.py`, `adapters/redis_rate_limiter.py`) | windows by key, in memory or in Redis | `allow` | fixed windows; bounded memory; a failing Redis never blocks; no counter without an expiry |
| API keys (`entrypoints/http.py:649`) | constant mapping | `_authenticate` | refuses before anything is spent |
| Trusted key set (`adapters/runtime_authorization.py:115`, `application/runtime_authorization.py:242`) | the set read at startup | load, `resolve`, `_require_key` | rotation refuses no live authorization; a revocation holds wherever it was loaded |
| Authorization verifier (`application/runtime_authorization.py`) | constant trust set | `verify`, `require_selected_model`, `ping`, `close` | nothing routed without a genuine, live, unspent authorization |
| Replay guards (`adapters/runtime_authorization.py`) | ids consumed, until their expiry | `consume` | an id is consumed at most once while live |
| Runtime control (`application/runtime_control.py`, `adapters/runtime_control.py`) | none; reads Governance's projection | `enforce` | kill, revocation floor and loss of the record cut off |
| Violation evidence (`entrypoints/runtime_violation*.py`) | flags on `request.state` | `build_runtime_violation` | every denial has evidence, which never overstates |
| Routing use case (`application/route_model.py`, `domain/constraints.py`) | one immutable policy | `route` | only the mapped group; all constraints; the explanation decides nothing |
| Policy loader (`adapters/routing_policy_loader.py`) | none | `load_routing_policy` | references closed, every group reachable or staged |
| Policy reload (`entrypoints/http.py:392`) | `app.state.route_model_use_case`, pending tasks | SIGHUP, load, swap | a bad file never serves; a decision reports the policy that made it |
| Startup and shutdown (`entrypoints/http.py:478`, `entrypoints/runtime_authorization_factory.py`) | `app.state`, clients, disposition of SIGHUP | `_lifespan`, builders | a deployed worker enforces everything or does not start; releases what it opened; always settles |
| Correlation and metrics (`entrypoints/http.py:589`, `:90`) | per request: the id; counters | binder, counters | evidence and answer carry one id, up to the blanks at its edges; the counters tell the answers apart |
| Contracts, settings, logging, tracing, probes | none that decides | | |

How they interact. A `/route` call passes the correlation binder, the body
admission (which awaits the IP limiter and then the client), FastAPI's parser,
the use case dependency, and then the handler, which awaits the agent limiter,
the control store, the replay store and the availability provider. All replicas
share one Redis with separate keys for limiters, replay and control; Governance
writes the control keys. SIGHUP starts a task that reads the policy file in a
thread and swaps one attribute of `app.state`.

What is hard. Python code between two awaits runs alone, so every interleaving
is between awaits: the clock is read before two network waits and used after
them; the projection is read before the consumption; a reload ends in the middle
of a call. Redis commands may be executed after their caller gave up, or twice.
Replicas crash and their clocks drift. Windows, expiries, caps and capacities
have boundaries. Nothing is persisted by the process itself. The hazards are
listed, each at its line, in `PROJECT.json`.

## 2. Modules

| Module | Models | Runs |
|---|---|---|
| `AuthorizationLedger` | abstract: what single use promises | refined by two modules |
| `RuntimeAdmission` | handler, verifier, enforcer, Redis replay guard, several replicas | `MCRuntimeAdmission` |
| `MemoryReplayGuard` | the verifier with the in-process guard | `MCMemoryReplayGuard` |
| `PolicyReload` | SIGHUP reloads against calls: variables, actions and properties | composed by `ServiceLifecycle` |
| `ServiceLifecycle` | the lifespan and the factories, around the reloads and the calls | `MCServiceLifecycle` |
| `TrustedKeySet` | key-set files, replicas that load them, rotation and revocation | `MCTrustedKeySet` |
| `FixedWindow` | abstract: a fixed-window limiter that may forget under pressure | refined by two modules |
| `MemoryRateLimiter`, `RedisRateLimiter` | the two limiters | `MC...` of each |
| `ContentLength`, `BodyAdmission` | declared length; the ASGI middleware | `MCBodyAdmission` |
| `RoutingRules`, `ModelRouting` | constraints and policy closure; the use case | `MCModelRouting` |
| `ViolationEvidence` | denial evidence and its validators | itself |
| `RouteRequest` | one call from its headers to its answer, around `ViolationEvidence` | itself |
| `RuntimeAdmissionProofs`, `ServiceLifecycleProofs`, `BodyAdmissionProofs`, `TrustedKeySetProofs`, `RedisRateLimiterProofs`, `MemoryRateLimiterProofs`, `ModelRoutingProofs` | theorems about the module each is named after (section 4) | |
| `SingleProcessProofs` | theorems about `MemoryReplayGuard`, `AuthorizationLedger` and `RouteRequest` | |

Every definition that stands for code is listed under `map` in `PROJECT.json`
with the lines it stands for. Definitions named `Slip_...` are plausible faults
the code does not have: each is the definition that follows it with one mistake
in it, and with that mistake the property named under `mutants` fails.

**RuntimeAdmission.** A request's `phase` is the await it is at: `received` (the
limiter), `control` (the GET), `consume` (the SET), `replied`, `granted`,
`answered`. `VerifyArtifact` reads the clock and runs every check that needs no
store; `ReadControl` is the enforcer; `StoreSetNx` is Redis executing an attempt
at any time after it was sent, whatever became of the caller; `LoseReply` is a
failure or a resend by the client; `Crash` ends a call without an answer and
leaves its commands in flight. `now[r]` is the reading of `http.py:861`, which
also fixes the TTL. `Drifts` is how far a replica's clock may be from the
store's, `Second` the number of ticks in a second, so that the rounding up of the
TTL is visible. `grants` and `permitted` are history.

The two limiters called from the handler are here one refusal; they are modelled
by themselves. Signature, key, bindings and provenance are the Boolean `genuine`,
and an artifact with several defects is refused for one of them, in an order no
property depends on.

**MemoryReplayGuard.** Without Redis there is no enforcer and the guard's lock is
never contended, so verification is one step. Its refinement to the ledger is the
same as the Redis guard's.

**PolicyReload.** `file` is the number of the file's content, `kind` whether it
loads, is refused (`RoutingPolicyLoadError`) or raises something else. Signals
are coalesced by the operating system until the loop runs the handler; each
delivered one starts a task. A call records the contents that were running while
it was in progress. The module has no specification of its own: when its actions
may happen is the life of the worker.

**ServiceLifecycle** extends it with that life. `env` is the configuration the
worker was started with and never changes: deployed or not, the two switches, the
kind of `REDIS_URL`, whether the loop can handle signals, and what is wrong with
it (`defects`). `Configure` is the lifespan up to its first await, with every
check of `build_runtime_authorization_verifier` and the two builders it calls;
`Ping` one awaited ping, `BuildLimiters` what happens between two of them. After
the last ping the SIGHUP handler is installed in the same step in which the
server becomes ready, as no await is between them. `Terminate` is SIGTERM:
uvicorn stops to accept and waits for the calls in progress; `RemoveHandler` is
the lifespan after its `yield`, `Close` one release of one client, `Stop` the end
of `gather`. `Hangup` is SIGHUP at any time: it ends the process whenever no
handler is installed. A process that ended takes its tasks with it.

**TrustedKeySet.** A document is what the loader distinguishes: readable,
generation, and entries with key, status, window and soundness. `Restart` of a
replica is the only time a file is read; a file that does not load leaves it
down. `Publish` and `Issue` are Governance and the operator. `docs/adr/0012:61`
says only that a new generation is activated by a restart; the discipline of
rotation is an assumption of this model about its environment: a generation
follows the one before, keeps the entry of a key whose authorizations are alive,
never brings a revoked key back, and a key signs once every running replica
trusts it, within its window. Nothing under `src/` enforces it, and section 4
says which property needs which part.
`newest` and `revoked` are history. `last` is the verification the last step
made. Whether the bytes were altered is the Boolean `intact`.

**MemoryRateLimiter** is one step per call, since `allow` awaits nothing.
**RedisRateLimiter** separates sending, execution and reading of the reply.
`FixedWindow` is their common promise, stated on the log of counted hits and the
open windows. A hit counts even when it is refused, in both. `Capacity` is the
number of keys that may be tracked: beyond it the in-memory limiter forgets the
least recently touched key, and only that one, and a limiter that never forgets
has a capacity of all its keys. `order` is the `OrderedDict`, and `Touched` what
the assignment and `move_to_end` make of it. `Strays` are the counts a
key may be found with and no TTL, which only Redis can have.

**BodyAdmission.** The channel holds the events of the ASGI server. `ReadEvent` is
one turn of the loop and, with the `finally` clause, each of its ways out.
A disconnect stays at the head of the channel, as ASGI servers do. Other paths
than `POST /route` skip the loop and are left out.

**ModelRouting.** The availability answer is any partial map, as the port allows,
and the shipped provider's is one of them. Costs are integers of micro-dollars. `ProfileType` and
`RoutingAssumption` are the field types of the profile, the rule and the request,
with `Names` for the classifications, risk levels and agents.

**ViolationEvidence.** `Stages` are the raising steps of the handler in order. The
event validates itself and a refused event is a 500 answer. `CorrelationId` is
the id of the call: the caller's header as it came, which may have a blank at its
edge (`edged`) or be all blank, or a generated one. The answer carries it as it
is; `strip` is what the contract makes of it in the event.

**RouteRequest** extends it: `at` is how far the call came before its
authorization, `counted` the metrics it has incremented, `echo` the
`X-Correlation-Id` of its answer. An exception that no handler takes is answered
outside of the binder, and so without that header.

## 3. Runs

Passing runs (their bounds are in the `.cfg` files):

| Run | Question | Why the bounds are enough |
|---|---|---|
| `AdmissionReplay` | can a replay get through, across expiry, delay, retry and crash? | two calls, one authorization, one resend each, half-second ticks from before `not_before` to past `expires_at + skew`, a clock exact or behind: a violation needs two consumptions |
| `AdmissionControl` | does Governance cut off, does a denial spend nothing, what does its evidence claim, is every call answered? | two calls, two versions, six projections; every change of the projection at every await; times before, within and past the validity |
| `ServiceLifecycle` | what may a worker be when it serves, what do reloads do to calls, how does it end? | every configuration with at most one defect that is refused, every deployed one that can serve, and a development one for each choice of parts; two tasks and one rewrite of every kind, enough for two reloads to overlap and disagree; one call; every ping and close may raise |
| `KeyRotation` | do replicas on different generations refuse or accept what they should not? | two keys and two replicas are the fewest that disagree; thirteen files with each status and each defect; a life of two ticks, a skew of one and five ticks of time reach every window and what is beyond it |
| `MemoryLimiter` | is the in-memory limiter a fixed window that forgets only under pressure? | three keys for two entries, two requests a window, over three windows and their boundaries: three admissions within one stretch, the bound, are reached |
| `RedisLimiter` | do overlapping, failing and resent calls keep the window, and less than two windows' worth in any stretch; is a counter without TTL repaired? | three calls with one resend each are six executions, over two windows of two ticks and two requests each: three admissions within one stretch, the bound, are reached, and three executions are left to exceed it; a counter that had no TTL at the start |
| `BodyAdmission` | does the parser ever see a wrong body, twice, or one declared too large? | a cap of 12; chunks equal to the cap, one over it, and over it in one chunk, in up to four events; declared values of up to four bytes against a cap of two digits |
| `MemoryGuard` | is the in-process guard a ledger? | four calls, three authorizations, two entries, past all expiries |
| `ModelRouting` | what decides; is a loaded policy closed? | each constraint on the mapped group failing or not in every combination; every policy over two workloads and two groups; every partial availability |
| `RouteRequest` | in which order is a call checked, and do its answer, its evidence and its metrics agree? | one call, as calls share no state here; every code at every stage, every kind of header and key; group names within the lengths that can be signed or just outside of them |

Runs that violate a sentence of the repository, with the trace TLC gives:

| Run | Sentence | What happens |
|---|---|---|
| `DocSingleUseSkew` | `docs/runtime-authorization-operations.md:77`, a replay is denied | the key lapses at `expires_at`, the skew admits the artifact longer, and a later call is routed on it |
| `DocDenialWithoutEvidence` | `docs/adr/0013-structured-runtime-violation-evidence.md:13` | blank identifiers, a correlation header of blanks outside of ASCII, or a group name over 100 characters, fail the event's own validation |

Other sentences that say more than the code does, met while modelling. They have
no run of their own; the models allow the behaviour and the properties state what
does hold:

- `docs/adr/0012-signed-runtime-authorization.md:44`, single-use consumption:
  even without skew a SET delayed past `expires_at` succeeds a second time, and in
  process each call made within the skew purges what the one before inserted.
  What holds is `LiveSingleUse` and `ConsumptionsSpaced`.
- `docs/runtime-kill-switch-threat-model.md:5`, never routed when the switch is
  active: it may be engaged between the control read and the answer. What holds is
  `KillSwitchCutoff`: the call was permitted at some instant of its own life.
- `docs/adr/0013-structured-runtime-violation-evidence.md:28`, `verified` means the
  verification completed: a kill denial is `verified` although nothing was
  consumed. What holds is `EvidenceNeverOverstates`.
- the docstring at `entrypoints/http.py:403`, a failed load is counted and logged:
  a file that is not UTF-8, or has an unhashable key, raises past the handler of
  `RoutingPolicyLoadError` and reaches neither. What holds is
  `ReadyServesLoadable`: the running policy stays.
- the docstring at `entrypoints/http.py:595`, a caller's logs and the service's
  can be joined on the same `X-Correlation-Id`: the answer echoes the header as it
  came, but the event, and the `runtime_violation` log line that names it
  (`entrypoints/http.py:758`), carry it without the blanks at its edges
  (`entrypoints/runtime_violation_contract.py:58`), where an HTTP parser passes
  U+00A0 and U+0085 on. What holds is `EvidenceJoinsAnswer`: the two ids are equal
  after that strip.
- the docstrings at `entrypoints/http.py:652` and `:715`, a wrong key is a stable
  401: `secrets.compare_digest` raises on a string outside of ASCII, in the header
  or in `API_KEYS`, and the call is a 500 without envelope. What holds is
  `ThrottledThenAuthenticated`: nothing but that is told to a caller without the
  key.
- the comment at `entrypoints/http.py:456`, no reload the operator asked for is
  dropped: of two overlapping reloads the older file may be swapped in last, and
  both are counted as succeeded. What holds is `SoleReloadTakesEffect`, which says
  nothing of reloads that overlap.

Fairness. `RuntimeAdmission` assumes weak fairness of each call's own handler: its
awaits are on clients with socket timeouts, so each either gets its reply or
fails. Nothing is assumed of Redis, Governance, arrivals, crashes or the clock.
`BodyAdmission` assumes weak fairness of the middleware and of the application,
and nothing of the client; a client that stalls is never answered, which the code
documents (`entrypoints/http.py:175`). `ServiceLifecycle` assumes weak fairness of
the lifespan, whose awaits are on clients with socket timeouts, and of a call that
has arrived, which past its body only computes; it assumes nothing of signals,
the operator, the callers or the thread that reads the policy file.
`LifecycleSettles` needs no more, because the drain waits for calls and not for
reloads. Deadlock is checked in every run; the
states in which an instance is exhausted are named (`Finished`, `Stalled`).

## 4. Proofs

Each module ending in `Proofs` proves theorems of the specification it is named
after, for every value of its constants within the assumption named there;
`SingleProcessProofs` does so for the in-process guard and for one call. These
assumptions (`ConstantsAssumption`, `GuardAssumption`, `BodyAssumption`, ...) say
only what the types and the settings of the code say: naturals where it has
them, at least one where pydantic or the constructor demands it. TLC evaluates
each of them on the runs. The list of the results is under `theorems` in
`PROJECT.json`.

Hardly any of the properties is inductive by itself. Each
proof module first proves the types, and then one invariant per question, in
named conjuncts, each a sentence of its own.

**RuntimeAdmission.** `TypeOK`, `LiveSingleUse`, `ConsumptionsSpaced`,
`KillSwitchCutoff`, `DenialSpendsNothing`, `RoutedOnOwnGrant`,
`ReplayDeniedHasCause`, `EvidenceNeverOverstates` and `ImplementsLedger`. They
rest on `ConstantsAssumption` alone, except `LiveSingleUse`, `ConsumptionsSpaced`
and `ImplementsLedger`, which also need `NoFastClock`: no replica's clock is ahead
of Redis's. A fast clock shortens the TTL of the replay key, and the properties
then fail; the code does not check its clock, so this is an assumption about the
deployment. The argument for single use: the key of an authorization outlives its
`expires_at` whenever it was set, because `now <= time` at the reading and the TTL
is rounded up, and each consumption is at or before the last `keyExpiry` less a
second. So a second SET can only succeed after `keyExpiry`, which is after
`expires_at` and a second after the last one. `TypeInv` adds to `TypeOK` that a
call past its arrival carries its own authorization (`Carried`); `SingleUseInv`
adds `KeyOutlives`, the lower bound on `keyExpiry`; `CutoffInv` says that a call
past the control read was permitted, and that an answer comes from there;
`OwnedInv` that commands in flight and grants belong to calls that reached the
consumption (`Unanswered`, `Owned`); `GroundedInv` that an `OK` reply was earned by
a grant of this call and a `nil` reply by some earlier grant (`Grounded`);
`EvidenceInv` that a call past the artifact checks passed them at its own `now`.
The refinement maps every step of the admission to one of the ledger or to a
stutter.

**MemoryReplayGuard.** `FullHasCause` and `ImplementsLedger`, without any
assumption on clocks, since one clock stamps and purges. `GuardInv`: what was
consumed and is live is in the store, and what is in the store was consumed
(`Remembered`), a consumption belongs to the call that carries the authorization
(`Owned`), and a call that was granted consumed (`GrantedSpent`). The purge keeps
`Remembered` because it drops only what `expires_at <= time` says is no longer live.
What the refinement is worth is proved of the ledger itself: in every behaviour of
it, an authorization is consumed once at most while it is live (`SpentOnce`), a
routed call consumed, and no call consumed two (`RoutedSpent`). `GuardSpendsOnce`
carries that over to the guard.

**ServiceLifecycle.** All its seven safety properties. `CallInv` carries the two
about reloads in the middle of a call: a call holds one policy from its start,
which ran while it did (`HoldsOnePolicy`). `PolicyInv` carries the two about the
policy: what a thread loaded was written (`LoadedWasWritten`), a worker past its
configuration serves a loadable file, and a task alone is about the last file
(`SoleReload`). `BuildInv` carries the three about the worker: its parts are what
the factories make of its configuration (`BuiltOfConfiguration`), so that
`DeployedPosture` is a fact about the factories; the handler is there when it is
ready; and a coroutine of the `gather` ends only with what it had to release
(`EndedReleased`).

**TrustedKeySet.** All its three. `KeyInv`: generations grow one by one
(`Numbered`), and the file in place and every set a replica still works with,
however old, hold each revocation up to their generation (`HoldsRevocations`) and
cover, from issue to expiry, each live authorization of a key not revoked
(`CoversLive`). The first needs that no revoked key is brought back; the second
is why Governance must let every running replica trust a key before it signs with
it, and keep its entry while its authorizations are alive: without those guards
of `Issue` and `Publish` it is not inductive. `AcceptanceBounded` needs nothing
of the environment.

**BodyAdmission.** All its three safety properties. `Accounted` is the heart of
it: until the loop ends, what is held and what is queued is what was sent, stated as the offsets
at which the queued events begin, so that no sum over a sequence is needed.
`Ordered` says that nothing of a body follows its last chunk, and `Handed` that
the application is handed the whole body or the disconnect.
`TooLargeIsCaused` says that a 413 has one of two causes, and that nothing is read
of a declaration that is refused, for the comparison of digits the code makes.
That this is the comparison of the numbers, for a `Content-Length` of any length
and any cap, is `DeclaredSizeIsCompared`. `DecimalDigits` and `NumberOf` are
recursive functions, and the library's induction theorems cannot be used here, as
they take an operator as a parameter; so `Induction` is stated for a set of
naturals and derived from the well-foundedness of `<` on them. The comparison rests
on two facts about strings without leading zeros: the longer one denotes the
greater number (`LongerIsGreater`), and of two of one length the one that is greater
at the first place of difference does (`BytesGreaterIsGreater`).

**RedisRateLimiter.** `CounterAlwaysExpires`, which is inductive, `BlockedIsCounted`,
`AtMostTwoWindows` and the refinement of `FixedWindow`. A counter holds at most the executions since
its window opened, unless that window was opened by the repair of a key found with
a count and no TTL at the start (`Counted`, with the history variable `stray`); a
refusal in the log was earned when it was made, and stays so (`RefusalsEarned`);
and a reply was logged (`RepliesLogged`).
The window the refinement shows began a `Window` before the key expires. `Within`
says what a stretch of one window has admitted while it lasts: what the open
window has less the hit that opened it, when that window ends within the stretch,
and no more than that window and such a rest of one other when it outlasts it. A
window that closes while a stretch lasts was opened by a hit before it, so a third
has no room, also when a resend or a late execution opens it, and the bound is one
less than `2 * max_requests`.

**MemoryRateLimiter.** `TypeOK`, the refinement of `FixedWindow`, `RefusalEarned` and
`AtMostTwoWindows`. The order of the `OrderedDict` is the order of the last hits
(`Recency`): an evicted key was followed by as many others as the table holds,
which is what allows the abstract limiter to forget it. `CountCovered` says that a
count is covered by what was admitted since its window opened, up to the limit:
refused calls are counted in vain. `Within` says what a stretch of one window may
have admitted so far, by whether the window now open began before it or in it: in
the first case the hit that opened it, which every entry counts (`Counted`), is
not among them.

**ModelRouting.** `SelectsOnlyTheMappedGroup` and `ExplanationDecidesNothing`, for
every policy, request and partial answer. `CallAsDecided` says what a call knows at
each phase; a policy that loaded is closed (`Accepted`), so its mapped group is
declared, and the first failing of the nine constraints is the reason. That
there is none exactly when the group suits is a lemma (`ConstraintsMeanSuits`).

**RouteRequest and ViolationEvidence.** All their four, for every header, key, code,
identifier and group name. `Ordered` ties how far a call came to what it has
counted and stored, so that nothing about an authorization is done before the key
was the agent's. `Echoed` ties the event's correlation id to the answer's, up to
the strip of the contract, and `EvidenceIsJoined` says no more than that.
`Counted` says which metrics a call in progress and each answer may have
incremented. `Staged` says which codes a denial may carry at each stage and what
the request's state knows by then; `Enveloped` is the exact condition under which
a denial keeps its envelope: the identifier is plain, the correlation id is not
blank, and the event has room for the group, if it carries one. `DenialIsEnveloped` therefore holds
of the calls that satisfy `Representable`; the run `DocDenialWithoutEvidence` shows
what becomes of the others. `ValidEvent` shows that the validators of the event accept every
event the handler builds for such a call.

Left to TLC, and why: liveness under fairness and anything with ENABLED
(`EveryCallAnswered`, `EndsOnceClientIsDone`, `LifecycleSettles`), as the prover has
no rules for them; and the two properties the code violates, which are shown by
their traces.

No module here declares a RECURSIVE operator. In the models, alternatives that
overlap are tested in the order of the code, by IF and ELSE.

## 5. Not modelled

- The parse of a runtime-control record, which is its three outcomes, and the
  in-memory control store, which no factory builds.
- Field types and patterns of the contracts, canonical JSON, and the normalisation
  of signed collections: stateless data validation, of which the lengths, blanks
  and windows that matter elsewhere are modelled.
- `runtime_authorization_unavailable`: the factory builds no verifier that could
  make the handler raise it. `invalid_time`: the service's own clock is UTC.
- SIGTERM during the startup, upon which uvicorn skips the lifespan's shutdown,
  and an upload that stalls the drain: the calls of `ServiceLifecycle` are past
  their body.
- The numeric settings, which are constants; spans, log lines and probes, which
  keep no state that decides; the rounding of Decimals; the repository's scripts
  and deployment files.

## 6. Plan

Done: the modules above, in the order admission, ledger, proofs, reload, limiters,
body, in-process guard, routing, evidence, lifecycle, key set, request.

The suite stays at a dozen runs, one per question, and at forty properties. The
types are proved, in every proof module, and are not a property of the runs, but for the
in-memory limiter, where they bound the table of tracked keys.

Proved: every safety and action property of the passing runs, the refinements of
`AuthorizationLedger` (twice) and of `FixedWindow` (twice), and that the ledger
means single use.

What remains:

1. The three liveness properties rest on their runs alone.
2. `FixedWindow` by itself: that it implies `AtMostTwoWindows`, which both limiters
   are now shown to have directly, for every `Capacity` and every choice of what is
   forgotten.
3. The hazards in `PROJECT.json` with a note and no property. Most are of a check the
   code does not make (a generation, an epoch or a clock that goes back, an upload
   that stalls), where a property would state what the deployment must guarantee
   instead.
