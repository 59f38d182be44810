----------------------- MODULE RuntimeAdmissionProofs -----------------------
(* Proofs about RuntimeAdmission, for every number of requests, replicas,       *)
(* authorizations and agents, every clock skew and every Governance behaviour.  *)
EXTENDS RuntimeAdmission, TLAPS

(* The guard's TTL is a positive number of whole seconds that reaches at least  *)
(* to the expiry it was computed for.                                           *)
LEMMA TtlCovers ==
    ASSUME NEW d \in Int
    PROVE  /\ TtlTicks(d) \in Nat
           /\ TtlTicks(d) >= Second
           /\ TtlTicks(d) >= d
<1>1. Second \in Nat /\ Second >= 1
  BY ConstantsAssumption
<1>2. CASE d <= 0
  BY <1>1, <1>2 DEF TtlTicks
<1>3. CASE d > 0
  <2> DEFINE q == (d + Second - 1) \div Second
  <2>1. q \in Int /\ Second * q <= d + Second - 1 /\ d + Second - 1 < Second * q + Second
    BY <1>1, <1>3
  <2>2. q >= 1
    BY <1>1, <1>3, <2>1
  <2>3. Second * q >= Second /\ Second * q >= d /\ Second * q \in Nat
    BY <1>1, <2>1, <2>2
  <2> QED
    BY <1>3, <2>3 DEF TtlTicks
<1> QED
  BY <1>2, <1>3

-----------------------------------------------------------------------------
(* Type correctness.                                                            *)

(* What the checks can answer.                                                  *)
LEMMA VerdictRange ==
    /\ \A a \in Auths \cup {NoAuth}, g \in BOOLEAN, t \in Int :
         ArtifactVerdict(a, g, t) \in Refusals \cup {"trusted"}
    /\ \A c \in Projections, v \in Nat :
         EnforceVerdict(c, v) \in Refusals \cup {"allowed"}
  BY DEF ArtifactVerdict, EnforceVerdict, Refusals

(* A handler past the artifact checks, and every command it sent, carries an    *)
(* authorization; a command exists only once runtime control was passed.        *)
Carried ==
    /\ \A r \in Requests :
         phase[r] \in {"control", "consume", "replied", "granted"} => auth[r] \in Auths
    /\ \A c \in commands :
         auth[c[1]] \in Auths /\ phase[c[1]] \notin {"idle", "received", "control"}

TypeInv == TypeOK /\ Carried

LEMMA TypeInit == Init => TypeInv
  BY ConstantsAssumption
     DEF Init, TypeInv, TypeOK, Carried, Phases, Outcomes

(* Every step of the admission keeps every variable in its type.                *)
LEMMA TypeStep == TypeInv /\ [Next]_vars => TypeInv'
<1> SUFFICES ASSUME TypeInv, [Next]_vars PROVE TypeInv'
  OBVIOUS
<1> USE ConstantsAssumption DEF TypeInv, TypeOK, Carried, store, wire, local, Phases, Outcomes
<1>1. ASSUME NEW r \in Requests, Receive(r) PROVE TypeInv'
  BY <1>1 DEF Receive, Continue
<1>2. ASSUME NEW r \in Requests, RefuseUpstream(r) PROVE TypeInv'
  BY <1>2 DEF RefuseUpstream, Answer, Refusals
<1>3. ASSUME NEW r \in Requests, VerifyArtifact(r) PROVE TypeInv'
  <2> PICK d \in Drifts :
         LET verdict == ArtifactVerdict(auth[r], genuine[r], time + d)
         IN /\ now' = [now EXCEPT ![r] = time + d]
            /\ IF verdict = "trusted"
               THEN Continue(r, "control")
               ELSE Answer(r, verdict, IF auth[r] = NoAuth THEN "absent" ELSE "present")
    BY <1>3 DEF VerifyArtifact
  <2>1. ArtifactVerdict(auth[r], genuine[r], time + d) \in Refusals \cup {"trusted"}
    BY VerdictRange
  <2>2. ArtifactVerdict(NoAuth, genuine[r], time + d) # "trusted"
    BY DEF ArtifactVerdict
  <2>3. CASE ArtifactVerdict(auth[r], genuine[r], time + d) = "trusted"
    BY <1>3, <2>2, <2>3 DEF VerifyArtifact, Continue
  <2>4. CASE ArtifactVerdict(auth[r], genuine[r], time + d) # "trusted"
    BY <1>3, <2>1, <2>4 DEF VerifyArtifact, Answer
  <2> QED
    BY <2>3, <2>4
<1>4. ASSUME NEW r \in Requests, ReadControl(r) PROVE TypeInv'
  <2> DEFINE verdict == EnforceVerdict(control[AgentOf[auth[r]]], Version[auth[r]])
  <2>1. auth[r] \in Auths /\ verdict \in Refusals \cup {"allowed"}
    BY <1>4, VerdictRange DEF ReadControl
  <2>2. CASE UNCHANGED commands /\ Answer(r, "runtime_control_unavailable", "verified")
    BY <1>4, <2>2 DEF ReadControl, Answer, Refusals
  <2>3. CASE verdict = "allowed" /\ Send(r, 0) /\ Continue(r, "consume")
    BY <1>4, <2>1, <2>3 DEF ReadControl, Send, Continue
  <2>4. CASE verdict # "allowed" /\ UNCHANGED commands /\ Answer(r, verdict, "verified")
    BY <1>4, <2>1, <2>4 DEF ReadControl, Answer
  <2> QED
    BY <1>4, <2>2, <2>3, <2>4 DEF ReadControl
<1>5. ASSUME NEW r \in Requests, TakeReply(r) PROVE TypeInv'
  BY <1>5 DEF TakeReply, Continue, Answer, Refusals
<1>6. ASSUME NEW r \in Requests, LoseReply(r) PROVE TypeInv'
  <2>1. CASE resends[r] < MaxResends /\ resends' = [resends EXCEPT ![r] = @ + 1]
             /\ Send(r, resends[r] + 1) /\ Continue(r, "consume")
    BY <1>6, <2>1 DEF LoseReply, Send, Continue
  <2>2. CASE Answer(r, "replay_store_unavailable", "present") /\ UNCHANGED <<resends, commands>>
    BY <1>6, <2>2 DEF LoseReply, Answer, Refusals
  <2> QED
    BY <1>6, <2>1, <2>2 DEF LoseReply
<1>7. ASSUME NEW r \in Requests, Decide(r) PROVE TypeInv'
  BY <1>7 DEF Decide, Answer, Refusals
<1>8. ASSUME NEW r \in Requests, Crash(r) PROVE TypeInv'
  BY <1>8 DEF Crash, Answer, Refusals
<1>9. ASSUME NEW c \in commands, StoreSetNx(c[1], c[2]) PROVE TypeInv'
  <2> DEFINE r == c[1]
             a == auth[r]
  <2>1. r \in Requests /\ a \in Auths /\ c = <<r, c[2]>>
    OBVIOUS
  <2>2. TtlTicks(ExpiresAt[a] - now[r]) \in Nat
    BY <2>1, TtlCovers
  <2>3. CASE KeyLives(a)
    BY <1>9, <2>1, <2>3 DEF StoreSetNx, Continue
  <2>4. CASE ~KeyLives(a)
    <3>1. /\ commands' \subseteq commands
          /\ \/ phase' = phase
             \/ phase[r] = "consume" /\ phase' = [phase EXCEPT ![r] = "replied"]
          /\ reply' \in [Requests -> {"none", "OK", "nil"}]
      BY <1>9, <2>1, <2>4 DEF StoreSetNx, Continue
    <3>2. /\ keyExpiry' = [keyExpiry EXCEPT ![a] = time + TtlTicks(ExpiresAt[a] - now[r])]
          /\ grants' = [grants EXCEPT ![a] = @ \cup {<<r, time>>}]
      BY <1>9, <2>4 DEF StoreSetNx
    <3>3. UNCHANGED <<outcome, evidence, auth>>
      BY <1>9, <2>4 DEF StoreSetNx, Continue
    <3>4. time + TtlTicks(ExpiresAt[a] - now[r]) \in Nat
      BY <2>2
    <3>5. Carried'
      BY <3>1, <3>3
    <3> QED
      BY <1>9, <2>1, <2>4, <3>1, <3>2, <3>3, <3>4, <3>5 DEF StoreSetNx
  <2> QED
    BY <2>3, <2>4
<1>10. ASSUME NEW ag \in Agents, Publish(ag) PROVE TypeInv'
  BY <1>10 DEF Publish
<1>11. CASE Tick
  BY <1>11 DEF Tick
<1>12. CASE UNCHANGED vars
  BY <1>12 DEF vars
<1> QED
  BY <1>1, <1>2, <1>3, <1>4, <1>5, <1>6, <1>7, <1>8, <1>9, <1>10, <1>11, <1>12
     DEF Next, Handle, Finished

LEMMA TypeInvariant == Spec => []TypeInv
  BY TypeInit, TypeStep, PTL DEF Spec

(* Every variable of the admission keeps its type.                              *)
THEOREM TypeCorrect == Spec => []TypeOK
<1>1. TypeInv => TypeOK
  BY DEF TypeInv
<1> QED
  BY <1>1, TypeInvariant, PTL

-----------------------------------------------------------------------------
(* Single use while live.                                                       *)

(* No replica's clock is ahead of the store's.  A fast clock shortens the TTL   *)
(* it computes, and the key then lapses before the authorization does.          *)
NoFastClock == \A d \in Drifts : d <= 0

(* While the authorization of a grant is live, so is its replay key; and a key  *)
(* outlives its grant by a second at least.                                     *)
KeyOutlives ==
    /\ \A r \in Requests : now[r] <= time
    /\ \A a \in Auths : \A g \in grants[a] :
         /\ g[2] <= time
         /\ g[2] + Second <= keyExpiry[a]
         /\ g[2] < ExpiresAt[a] => ExpiresAt[a] <= keyExpiry[a]

SingleUseInv == KeyOutlives /\ LiveSingleUse /\ ConsumptionsSpaced

LEMMA SingleUseInit == Init => SingleUseInv
  BY DEF Init, SingleUseInv, KeyOutlives, LiveSingleUse, ConsumptionsSpaced

LEMMA SingleUseStep ==
    ASSUME NoFastClock, TypeInv, SingleUseInv, [Next]_vars
    PROVE  SingleUseInv'
<1> USE ConstantsAssumption DEF SingleUseInv, KeyOutlives, LiveSingleUse, ConsumptionsSpaced
<1>1. ASSUME UNCHANGED <<time, now, store>> PROVE SingleUseInv'
  BY <1>1 DEF store
<1>2. ASSUME NEW r \in Requests, VerifyArtifact(r) PROVE SingleUseInv'
  <2>1. PICK d \in Drifts : now' = [now EXCEPT ![r] = time + d]
    BY <1>2 DEF VerifyArtifact
  <2>2. d \in Int /\ d <= 0 /\ time \in Nat /\ now \in [Requests -> Int]
    BY NoFastClock DEF NoFastClock, TypeInv, TypeOK
  <2>3. \A q \in Requests : now'[q] <= time
    BY <2>1, <2>2
  <2> QED
    BY <1>2, <2>3 DEF VerifyArtifact, store
<1>3. ASSUME NEW c \in commands, StoreSetNx(c[1], c[2]) PROVE SingleUseInv'
  <2> DEFINE r == c[1]
             a == auth[r]
             ttl == TtlTicks(ExpiresAt[a] - now[r])
  <2>1. /\ r \in Requests /\ a \in Auths
        /\ time \in Nat /\ keyExpiry \in [Auths -> Nat] /\ now[r] \in Int
        /\ grants \in [Auths -> SUBSET (Requests \X Nat)]
        /\ ExpiresAt[a] \in Nat
    BY DEF TypeInv, TypeOK, Carried
  <2>2. CASE KeyLives(a)
    BY <1>3, <2>2, <1>1 DEF StoreSetNx, local
  <2>3. CASE ~KeyLives(a)
    <3>1. /\ keyExpiry' = [keyExpiry EXCEPT ![a] = time + ttl]
          /\ grants' = [grants EXCEPT ![a] = @ \cup {<<r, time>>}]
          /\ time' = time /\ now' = now
      BY <1>3, <2>3 DEF StoreSetNx, local
    <3>2. ttl \in Nat /\ ttl >= Second /\ time + ttl >= ExpiresAt[a]
      BY <2>1, TtlCovers
    <3>3. keyExpiry[a] <= time
      BY <2>1, <2>3 DEF KeyLives
    <3>4. ASSUME NEW h \in grants[a]
          PROVE  /\ h[2] \in Nat
                 /\ h[2] + Second <= time
                 /\ ~(h[2] < ExpiresAt[a] /\ time < ExpiresAt[a])
      BY <2>1, <3>3
    <3>5. KeyOutlives'
      BY <2>1, <3>1, <3>2, <3>4
    <3>6. LiveSingleUse'
      BY <2>1, <3>1, <3>4
    <3>7. ConsumptionsSpaced'
      BY <2>1, <3>1, <3>4
    <3> QED
      BY <3>5, <3>6, <3>7
  <2> QED
    BY <2>2, <2>3
<1>4. CASE Tick
  <2>1. time \in Nat /\ time' = time + 1 /\ UNCHANGED <<now, store>>
    BY <1>4 DEF Tick, local, TypeInv, TypeOK
  <2>2. now \in [Requests -> Int] /\ grants \in [Auths -> SUBSET (Requests \X Nat)]
    BY DEF TypeInv, TypeOK
  <2> QED
    BY <2>1, <2>2 DEF store
<1> QED
  BY <1>1, <1>2, <1>3, <1>4
     DEF Next, Handle, Finished, vars, local, wire,
         Receive, RefuseUpstream, ReadControl, TakeReply, LoseReply, Decide, Crash, Publish

LEMMA SingleUseInvariant == ASSUME NoFastClock PROVE Spec => []SingleUseInv
  BY SingleUseInit, SingleUseStep, TypeInvariant, PTL DEF Spec

(* However many replicas, retries and delays: while an authorization is live    *)
(* the replay guard lets one consumption of it succeed.                         *)
THEOREM SingleUseWhileLive == ASSUME NoFastClock PROVE Spec => []LiveSingleUse
<1>1. SingleUseInv => LiveSingleUse
  BY DEF SingleUseInv
<1> QED
  BY <1>1, SingleUseInvariant, PTL

(* And in the clock skew past its expiry, at most one a second.                 *)
THEOREM OneConsumptionPerSecond == ASSUME NoFastClock PROVE Spec => []ConsumptionsSpaced
<1>1. SingleUseInv => ConsumptionsSpaced
  BY DEF SingleUseInv
<1> QED
  BY <1>1, SingleUseInvariant, PTL

-----------------------------------------------------------------------------
(* The kill switch cut-off.                                                     *)

Unanswered ==
    \A r \in Requests : phase[r] # "answered" => outcome[r] = "none" /\ evidence[r] = "none"

LEMMA UnansweredStep == TypeInv /\ Unanswered /\ [Next]_vars => Unanswered'
<1> SUFFICES ASSUME TypeInv, Unanswered, [Next]_vars PROVE Unanswered'
  OBVIOUS
<1> USE DEF TypeInv, TypeOK, Unanswered, Continue, Answer
<1>1. ASSUME NEW r \in Requests, Receive(r) PROVE Unanswered'
  BY <1>1 DEF Receive
<1>2. ASSUME NEW r \in Requests, RefuseUpstream(r) PROVE Unanswered'
  BY <1>2 DEF RefuseUpstream
<1>3. ASSUME NEW r \in Requests, VerifyArtifact(r) PROVE Unanswered'
  BY <1>3 DEF VerifyArtifact
<1>4. ASSUME NEW r \in Requests, ReadControl(r) PROVE Unanswered'
  BY <1>4 DEF ReadControl
<1>5. ASSUME NEW r \in Requests, TakeReply(r) PROVE Unanswered'
  BY <1>5 DEF TakeReply
<1>6. ASSUME NEW r \in Requests, LoseReply(r) PROVE Unanswered'
  BY <1>6 DEF LoseReply
<1>7. ASSUME NEW r \in Requests, Decide(r) PROVE Unanswered'
  BY <1>7 DEF Decide
<1>8. ASSUME NEW r \in Requests, Crash(r) PROVE Unanswered'
  BY <1>8 DEF Crash
<1>9. ASSUME NEW c \in commands, StoreSetNx(c[1], c[2]) PROVE Unanswered'
  BY <1>9 DEF StoreSetNx
<1>10. CASE UNCHANGED <<phase, outcome, evidence>>
  BY <1>10
<1> QED
  BY <1>1, <1>2, <1>3, <1>4, <1>5, <1>6, <1>7, <1>8, <1>9, <1>10
     DEF Next, Handle, Finished, vars, Publish, Tick

(* permitted is set from the instant of arrival on, so a request that waits     *)
(* while Governance permits it has it, and a request past the control read saw  *)
(* such an instant: the read itself.                                            *)
CutoffInv ==
    /\ Unanswered
    /\ \A r \in Requests :
         /\ phase[r] \in {"consume", "replied", "granted"} => permitted[r]
         /\ outcome[r] = "routed" => permitted[r]
         /\ /\ phase[r] \in {"received", "control"}
            /\ auth[r] \in Auths
            /\ Permits(control[AgentOf[auth[r]]], auth[r])
            => permitted[r]

LEMMA CutoffInit == Init => CutoffInv
  BY DEF Init, CutoffInv, Unanswered

LEMMA CutoffStep == TypeInv /\ CutoffInv /\ [Next]_vars => CutoffInv'
<1> SUFFICES ASSUME TypeInv, CutoffInv, [Next]_vars PROVE CutoffInv'
  OBVIOUS
<1>0. Unanswered'
  BY UnansweredStep DEF CutoffInv
<1> USE <1>0 DEF TypeInv, TypeOK, CutoffInv, Unanswered, Continue, Answer, local, store, wire
<1>1. ASSUME NEW r \in Requests, Receive(r) PROVE CutoffInv'
  <2>1. PICK a \in Auths \cup {NoAuth} :
          /\ auth' = [auth EXCEPT ![r] = a]
          /\ permitted' = [permitted EXCEPT ![r] =
                              a \in Auths /\ Permits(control[AgentOf[a]], a)]
    BY <1>1 DEF Receive
  <2>2. /\ phase' = [phase EXCEPT ![r] = "received"] /\ phase[r] = "idle"
        /\ control' = control /\ outcome' = outcome
    BY <1>1 DEF Receive
  <2>3. \A q \in Requests \ {r} : /\ permitted'[q] = permitted[q] /\ auth'[q] = auth[q]
                                  /\ phase'[q] = phase[q] /\ outcome'[q] = outcome[q]
    BY <2>1, <2>2
  <2>4. /\ phase'[r] = "received" /\ outcome'[r] = "none" /\ auth'[r] = a
        /\ permitted'[r] = (a \in Auths /\ Permits(control[AgentOf[a]], a))
    BY <2>1, <2>2
  <2>5. ASSUME NEW q \in Requests \ {r}
        PROVE /\ phase'[q] \in {"consume", "replied", "granted"} => permitted'[q]
              /\ outcome'[q] = "routed" => permitted'[q]
              /\ /\ phase'[q] \in {"received", "control"} /\ auth'[q] \in Auths
                 /\ Permits(control'[AgentOf[auth'[q]]], auth'[q])
                 => permitted'[q]
    BY <2>2, <2>3
  <2>6. /\ phase'[r] \in {"received", "control"} /\ auth'[r] \in Auths
        /\ Permits(control'[AgentOf[auth'[r]]], auth'[r])
        => permitted'[r]
    BY <2>2, <2>4
  <2> QED
    BY <2>4, <2>5, <2>6
<1>2. ASSUME NEW r \in Requests, RefuseUpstream(r) PROVE CutoffInv'
  BY <1>2 DEF RefuseUpstream
<1>3. ASSUME NEW r \in Requests, VerifyArtifact(r) PROVE CutoffInv'
  <2>1. \A d \in Drifts : ArtifactVerdict(auth[r], genuine[r], time + d) # "routed"
    BY DEF ArtifactVerdict
  <2> QED
    BY <1>3, <2>1 DEF VerifyArtifact
<1>4. ASSUME NEW r \in Requests, ReadControl(r) PROVE CutoffInv'
  <2> DEFINE c == control[AgentOf[auth[r]]]
             v == Version[auth[r]]
  <2>1. auth[r] \in Auths /\ c \in Projections /\ v \in Nat
    BY <1>4, ConstantsAssumption DEF ReadControl, Carried
  <2>2. EnforceVerdict(c, v) # "routed"
    BY DEF EnforceVerdict
  <2>3. ASSUME EnforceVerdict(c, v) = "allowed" PROVE permitted[r]
    <3>1. Permits(c, auth[r])
      BY <2>1, <2>3 DEF EnforceVerdict, Permits, Projections
    <3> QED
      BY <1>4, <2>1, <3>1 DEF ReadControl
  <2> QED
    BY <1>4, <2>2, <2>3 DEF ReadControl
<1>5. ASSUME NEW r \in Requests, TakeReply(r) PROVE CutoffInv'
  BY <1>5 DEF TakeReply
<1>6. ASSUME NEW r \in Requests, LoseReply(r) PROVE CutoffInv'
  BY <1>6 DEF LoseReply
<1>7. ASSUME NEW r \in Requests, Decide(r) PROVE CutoffInv'
  BY <1>7 DEF Decide
<1>8. ASSUME NEW r \in Requests, Crash(r) PROVE CutoffInv'
  BY <1>8 DEF Crash
<1>9. ASSUME NEW c \in commands, StoreSetNx(c[1], c[2]) PROVE CutoffInv'
  BY <1>9 DEF StoreSetNx
<1>10. ASSUME NEW ag \in Agents, Publish(ag) PROVE CutoffInv'
  BY <1>10 DEF Publish
<1>11. CASE UNCHANGED <<phase, outcome, auth, control, permitted>>
  BY <1>11
<1> QED
  BY <1>1, <1>2, <1>3, <1>4, <1>5, <1>6, <1>7, <1>8, <1>9, <1>10, <1>11
     DEF Next, Handle, Finished, vars, Tick

(* A kill, a revocation or a lost projection stops every request that arrives   *)
(* after it, until Governance permits the agent again; the floor never falls,   *)
(* so a revoked version stays revoked.                                          *)
THEOREM KillSwitchCutsOff == Spec => []KillSwitchCutoff
<1>1. CutoffInv => KillSwitchCutoff
  BY DEF CutoffInv, KillSwitchCutoff
<1> QED
  BY <1>1, CutoffInit, CutoffStep, TypeInvariant, PTL DEF Spec

-----------------------------------------------------------------------------
(* Who owns a consumption.                                                      *)

Early == {"idle", "received", "control"}

(* Every grant and every command belongs to a request that carries that         *)
(* authorization, passed the artifact checks and runtime control, and was not   *)
(* refused by them.                                                             *)
Owned ==
    /\ \A a \in Auths : \A g \in grants[a] :
         /\ auth[g[1]] = a /\ genuine[g[1]]
         /\ phase[g[1]] \notin Early /\ outcome[g[1]] \notin NoSpendOutcomes
    /\ \A c \in commands :
         /\ genuine[c[1]]
         /\ phase[c[1]] \notin Early /\ outcome[c[1]] \notin NoSpendOutcomes
    /\ \A r \in Requests :
         phase[r] \in {"control", "consume", "replied", "granted"} => genuine[r]

OwnedInv == Unanswered /\ Owned

LEMMA OwnedInit == Init => OwnedInv
  BY DEF Init, OwnedInv, Unanswered, Owned

LEMMA OwnedStep == TypeInv /\ OwnedInv /\ [Next]_vars => OwnedInv'
<1> SUFFICES ASSUME TypeInv, OwnedInv, [Next]_vars PROVE Owned'
  BY UnansweredStep DEF OwnedInv
<1>0. Unanswered
  BY DEF OwnedInv
<1>t. /\ TypeOK /\ Carried
      /\ grants \in [Auths -> SUBSET (Requests \X Nat)]
      /\ commands \subseteq Requests \X (0..MaxResends)
      /\ \A a \in Auths : \A g \in grants[a] : g[1] \in Requests
      /\ \A c \in commands : c[1] \in Requests
  BY DEF TypeInv, TypeOK
<1> USE <1>0, <1>t DEF TypeOK, OwnedInv, Owned, Unanswered, Early, NoSpendOutcomes,
                       Continue, Answer, local, store, wire
<1>1. ASSUME NEW r \in Requests, Receive(r) PROVE Owned'
  BY <1>1 DEF Receive
<1>2. ASSUME NEW r \in Requests, RefuseUpstream(r) PROVE Owned'
  BY <1>2 DEF RefuseUpstream
<1>3. ASSUME NEW r \in Requests, VerifyArtifact(r) PROVE Owned'
  <2>1. \A d \in Drifts :
          ArtifactVerdict(auth[r], genuine[r], time + d) = "trusted" => genuine[r]
    BY DEF ArtifactVerdict
  <2> QED
    BY <1>3, <2>1 DEF VerifyArtifact
<1>4. ASSUME NEW r \in Requests, ReadControl(r) PROVE Owned'
  BY <1>4 DEF ReadControl, Send
<1>5. ASSUME NEW r \in Requests, TakeReply(r) PROVE Owned'
  BY <1>5 DEF TakeReply
<1>6. ASSUME NEW r \in Requests, LoseReply(r) PROVE Owned'
  BY <1>6 DEF LoseReply, Send
<1>7. ASSUME NEW r \in Requests, Decide(r) PROVE Owned'
  BY <1>7 DEF Decide
<1>8. ASSUME NEW r \in Requests, Crash(r) PROVE Owned'
  BY <1>8 DEF Crash
<1>9. ASSUME NEW c \in commands, StoreSetNx(c[1], c[2]) PROVE Owned'
  <2>1. c[1] \in Requests /\ auth[c[1]] \in Auths
    BY DEF Carried
  <2>2. CASE KeyLives(auth[c[1]])
    BY <1>9, <2>1, <2>2 DEF StoreSetNx
  <2>3. CASE ~KeyLives(auth[c[1]])
    BY <1>9, <2>1, <2>3 DEF StoreSetNx
  <2> QED
    BY <2>2, <2>3
<1>10. CASE UNCHANGED <<phase, outcome, auth, genuine, commands, grants>>
  BY <1>10
<1> QED
  BY <1>1, <1>2, <1>3, <1>4, <1>5, <1>6, <1>7, <1>8, <1>9, <1>10
     DEF Next, Handle, Finished, vars, Publish, Tick

LEMMA OwnedInvariant == Spec => []OwnedInv
  BY OwnedInit, OwnedStep, TypeInvariant, PTL DEF Spec

(* A denial by the limiter, the artifact checks or runtime control neither has  *)
(* consumed the authorization nor still can.                                    *)
THEOREM DenialsSpendNothing == Spec => []DenialSpendsNothing
<1>1. TypeInv /\ OwnedInv => DenialSpendsNothing
  BY DEF OwnedInv, Owned, DenialSpendsNothing, Spent
<1> QED
  BY <1>1, OwnedInvariant, TypeInvariant, PTL

-----------------------------------------------------------------------------
(* What an answer rests on.                                                     *)

(* A reply OK was given to the request's own SET NX; any other reply, and a     *)
(* live replay key, show that somebody consumed the authorization.              *)
Grounded ==
    /\ \A a \in Auths : keyExpiry[a] > 0 => grants[a] # {}
    /\ \A r \in Requests :
         /\ phase[r] = "replied" /\ reply[r] = "OK" => Spent(r)
         /\ phase[r] = "replied" /\ reply[r] # "OK" => grants[auth[r]] # {}
         /\ phase[r] = "granted" => Spent(r)
         /\ outcome[r] = "routed" => genuine[r] /\ Spent(r)
         /\ outcome[r] = "replay_detected" => grants[auth[r]] # {}

GroundedInv == OwnedInv /\ Grounded

LEMMA GroundedInit == Init => GroundedInv
  BY OwnedInit DEF Init, GroundedInv, Grounded

LEMMA GroundedStep == TypeInv /\ GroundedInv /\ [Next]_vars => GroundedInv'
<1> SUFFICES ASSUME TypeInv, GroundedInv, [Next]_vars PROVE Grounded'
  BY OwnedStep DEF GroundedInv
<1>0. Unanswered /\ Grounded
  BY DEF GroundedInv, OwnedInv
<1>t. /\ TypeOK /\ Carried
      /\ \A r \in Requests : phase[r] = "granted" => genuine[r]
  BY DEF TypeInv, GroundedInv, OwnedInv, Owned
<1> USE <1>0, <1>t DEF TypeOK, Grounded, Unanswered, Spent, Continue, Answer, local, store, wire
<1>1. ASSUME NEW r \in Requests, Receive(r) PROVE Grounded'
  BY <1>1 DEF Receive
<1>2. ASSUME NEW r \in Requests, RefuseUpstream(r) PROVE Grounded'
  BY <1>2 DEF RefuseUpstream
<1>3. ASSUME NEW r \in Requests, VerifyArtifact(r) PROVE Grounded'
  <2>1. \A d \in Drifts :
          ArtifactVerdict(auth[r], genuine[r], time + d) \notin {"routed", "replay_detected"}
    BY DEF ArtifactVerdict
  <2> QED
    BY <1>3, <2>1 DEF VerifyArtifact
<1>4. ASSUME NEW r \in Requests, ReadControl(r) PROVE Grounded'
  <2>1. EnforceVerdict(control[AgentOf[auth[r]]], Version[auth[r]])
          \notin {"routed", "replay_detected"}
    BY DEF EnforceVerdict
  <2> QED
    BY <1>4, <2>1 DEF ReadControl
<1>5. ASSUME NEW r \in Requests, TakeReply(r) PROVE Grounded'
  BY <1>5 DEF TakeReply
<1>6. ASSUME NEW r \in Requests, LoseReply(r) PROVE Grounded'
  BY <1>6 DEF LoseReply
<1>7. ASSUME NEW r \in Requests, Decide(r) PROVE Grounded'
  BY <1>7 DEF Decide
<1>8. ASSUME NEW r \in Requests, Crash(r) PROVE Grounded'
  BY <1>8 DEF Crash
<1>9. ASSUME NEW c \in commands, StoreSetNx(c[1], c[2]) PROVE Grounded'
  <2>1. c[1] \in Requests /\ auth[c[1]] \in Auths
    BY DEF Carried
  <2>2. CASE KeyLives(auth[c[1]])
    <3>1. keyExpiry[auth[c[1]]] > 0
      BY <2>1, <2>2 DEF KeyLives
    <3> QED
      BY <1>9, <2>1, <2>2, <3>1 DEF StoreSetNx
  <2>3. CASE ~KeyLives(auth[c[1]])
    <3> DEFINE q == c[1]
    <3>1. /\ grants' = [grants EXCEPT ![auth[q]] = @ \cup {<<q, time>>}]
          /\ auth' = auth /\ genuine' = genuine
          /\ \E n \in Int : keyExpiry' = [keyExpiry EXCEPT ![auth[q]] = n]
      <4>1. TtlTicks(ExpiresAt[auth[q]] - now[q]) \in Nat
        BY <2>1, TtlCovers, ConstantsAssumption
      <4> QED
        BY <1>9, <2>3, <4>1 DEF StoreSetNx
    <3>2. \A a \in Auths : grants[a] \subseteq grants'[a]
      BY <3>1
    <3>g. /\ grants'[auth[q]] = grants[auth[q]] \cup {<<q, time>>}
          /\ \A a \in Auths \ {auth[q]} : grants'[a] = grants[a] /\ keyExpiry'[a] = keyExpiry[a]
      BY <2>1, <3>1
    <3>3. Spent(q)'
      <4>1. <<q, time>> \in grants'[auth[q]] /\ <<q, time>>[1] = q
        BY <3>g
      <4> QED
        BY <2>1, <3>1, <4>1
    <3>4. \A r \in Requests : Spent(r) => Spent(r)'
      BY <3>1, <3>2
    <3>5. \A a \in Auths : keyExpiry'[a] > 0 => grants'[a] # {}
      <4> SUFFICES ASSUME NEW a \in Auths, keyExpiry'[a] > 0 PROVE grants'[a] # {}
        OBVIOUS
      <4>1. CASE a = auth[q]
        BY <3>g, <4>1
      <4>2. CASE a # auth[q]
        <5>1. keyExpiry[a] > 0 => grants[a] # {}
          OBVIOUS
        <5> QED
          BY <3>g, <4>2, <5>1
      <4> QED
        BY <4>1, <4>2
    <3>6. \A r \in Requests : r # q => /\ phase'[r] = phase[r] /\ reply'[r] = reply[r]
                                       /\ outcome'[r] = outcome[r]
      BY <1>9, <2>1, <2>3 DEF StoreSetNx
    <3>7. /\ grants'[auth[q]] # {}
          /\ outcome'[q] = outcome[q]
          /\ phase'[q] \in {phase[q], "replied"}
      <4>1. grants'[auth[q]] # {}
        BY <3>g
      <4>2. outcome' = outcome /\ phase'[q] \in {phase[q], "replied"}
        BY <1>9, <2>1, <2>3 DEF StoreSetNx
      <4> QED
        BY <4>1, <4>2
    <3> HIDE DEF Spent
    <3>8. ASSUME NEW r \in Requests, r # q
          PROVE /\ phase'[r] = "replied" /\ reply'[r] = "OK" => Spent(r)'
                /\ phase'[r] = "replied" /\ reply'[r] # "OK" => grants'[auth'[r]] # {}
                /\ phase'[r] = "granted" => Spent(r)'
                /\ outcome'[r] = "routed" => genuine'[r] /\ Spent(r)'
                /\ outcome'[r] = "replay_detected" => grants'[auth'[r]] # {}
      BY <3>1, <3>4, <3>6, <3>8
    <3>9. /\ phase'[q] = "replied" /\ reply'[q] = "OK" => Spent(q)'
          /\ phase'[q] = "replied" /\ reply'[q] # "OK" => grants'[auth'[q]] # {}
          /\ phase'[q] = "granted" => Spent(q)'
          /\ outcome'[q] = "routed" => genuine'[q] /\ Spent(q)'
          /\ outcome'[q] = "replay_detected" => grants'[auth'[q]] # {}
      BY <2>1, <3>1, <3>3, <3>7
    <3> QED
      BY <2>1, <3>5, <3>8, <3>9
  <2> QED
    BY <2>2, <2>3
<1>10. CASE UNCHANGED <<phase, outcome, auth, genuine, reply, store>>
  BY <1>10
<1> QED
  BY <1>1, <1>2, <1>3, <1>4, <1>5, <1>6, <1>7, <1>8, <1>9, <1>10
     DEF Next, Handle, Finished, vars, Publish, Tick

LEMMA GroundedInvariant == Spec => []GroundedInv
  BY GroundedInit, GroundedStep, TypeInvariant, PTL DEF Spec

(* A 200 rests on the request's own consumption of a genuine authorization.     *)
THEOREM RoutedRequestsConsumed == Spec => []RoutedOnOwnGrant
<1>1. GroundedInv => RoutedOnOwnGrant
  BY DEF GroundedInv, Grounded, RoutedOnOwnGrant
<1> QED
  BY <1>1, GroundedInvariant, PTL

(* A replay denial rests on a consumption, never on a failure of the store.     *)
THEOREM ReplayDenialsHaveCause == Spec => []ReplayDeniedHasCause
<1>1. GroundedInv => ReplayDeniedHasCause
  BY DEF GroundedInv, Grounded, ReplayDeniedHasCause
<1> QED
  BY <1>1, GroundedInvariant, PTL

-----------------------------------------------------------------------------
(* The evidence a denial carries.                                               *)

Checked(r) ==
    /\ auth[r] \in Auths /\ genuine[r]
    /\ NotBefore[auth[r]] - ClockSkew <= now[r]
    /\ now[r] < ExpiresAt[auth[r]] + ClockSkew

EvidenceInv ==
    /\ Unanswered
    /\ \A r \in Requests :
         /\ phase[r] \in {"control", "consume", "replied", "granted"} => Checked(r)
         /\ evidence[r] = "verified" => Checked(r)

LEMMA EvidenceInit == Init => EvidenceInv
  BY DEF Init, EvidenceInv, Unanswered

LEMMA EvidenceStep == TypeInv /\ EvidenceInv /\ [Next]_vars => EvidenceInv'
<1> SUFFICES ASSUME TypeInv, EvidenceInv, [Next]_vars PROVE EvidenceInv'
  OBVIOUS
<1>0. Unanswered'
  BY UnansweredStep DEF EvidenceInv
<1>t. TypeOK /\ ClockSkew \in Nat /\ NotBefore \in [Auths -> Nat] /\ ExpiresAt \in [Auths -> Nat]
  BY ConstantsAssumption DEF TypeInv
<1> USE <1>0, <1>t DEF TypeOK, EvidenceInv, Unanswered, Checked, Continue, Answer, local
<1>1. ASSUME NEW r \in Requests, Receive(r) PROVE EvidenceInv'
  BY <1>1 DEF Receive
<1>2. ASSUME NEW r \in Requests, RefuseUpstream(r) PROVE EvidenceInv'
  BY <1>2 DEF RefuseUpstream
<1>3. ASSUME NEW r \in Requests, VerifyArtifact(r) PROVE EvidenceInv'
  <2>1. PICK d \in Drifts :
         LET verdict == ArtifactVerdict(auth[r], genuine[r], time + d)
         IN /\ now' = [now EXCEPT ![r] = time + d]
            /\ IF verdict = "trusted"
               THEN Continue(r, "control")
               ELSE Answer(r, verdict, IF auth[r] = NoAuth THEN "absent" ELSE "present")
    BY <1>3 DEF VerifyArtifact
  <2>2. d \in Int
    BY ConstantsAssumption
  <2>3. ASSUME ArtifactVerdict(auth[r], genuine[r], time + d) = "trusted"
        PROVE  /\ auth[r] \in Auths /\ genuine[r]
               /\ NotBefore[auth[r]] - ClockSkew <= time + d
               /\ time + d < ExpiresAt[auth[r]] + ClockSkew
    BY <2>2, <2>3 DEF ArtifactVerdict
  <2>4. /\ now'[r] = time + d /\ auth' = auth /\ genuine' = genuine
        /\ \A q \in Requests \ {r} : now'[q] = now[q]
    BY <1>3, <2>1 DEF VerifyArtifact
  <2>5. CASE ArtifactVerdict(auth[r], genuine[r], time + d) = "trusted"
    BY <1>3, <2>1, <2>3, <2>4, <2>5 DEF VerifyArtifact
  <2>6. CASE ArtifactVerdict(auth[r], genuine[r], time + d) # "trusted"
    BY <1>3, <2>1, <2>4, <2>6 DEF VerifyArtifact
  <2> QED
    BY <2>5, <2>6
<1>4. ASSUME NEW r \in Requests, ReadControl(r) PROVE EvidenceInv'
  BY <1>4 DEF ReadControl
<1>5. ASSUME NEW r \in Requests, TakeReply(r) PROVE EvidenceInv'
  BY <1>5 DEF TakeReply
<1>6. ASSUME NEW r \in Requests, LoseReply(r) PROVE EvidenceInv'
  BY <1>6 DEF LoseReply
<1>7. ASSUME NEW r \in Requests, Decide(r) PROVE EvidenceInv'
  BY <1>7 DEF Decide
<1>8. ASSUME NEW r \in Requests, Crash(r) PROVE EvidenceInv'
  BY <1>8 DEF Crash
<1>9. ASSUME NEW c \in commands, StoreSetNx(c[1], c[2]) PROVE EvidenceInv'
  BY <1>9 DEF StoreSetNx
<1>10. CASE UNCHANGED <<phase, outcome, evidence, auth, genuine, now>>
  BY <1>10
<1> QED
  BY <1>1, <1>2, <1>3, <1>4, <1>5, <1>6, <1>7, <1>8, <1>9, <1>10
     DEF Next, Handle, Finished, vars, Publish, Tick

(* A violation never reports as verified an authorization whose artifact checks *)
(* failed or whose validity window, widened by the skew, was missed.            *)
THEOREM EvidenceSound == Spec => []EvidenceNeverOverstates
<1>1. EvidenceInv => EvidenceNeverOverstates
  BY DEF EvidenceInv, EvidenceNeverOverstates, Checked
<1> QED
  BY <1>1, EvidenceInit, EvidenceStep, TypeInvariant, PTL DEF Spec

-----------------------------------------------------------------------------
(* The refinement.                                                              *)

Verdict == [r \in Requests |->
              IF outcome[r] = "none" THEN "pending"
              ELSE IF outcome[r] = "routed" THEN "routed" ELSE "refused"]

LEMMA LedgerInitRefines == Init => Ledger!LedgerInit
  BY DEF Init, Ledger!LedgerInit

(* Each step of the admission is one step of the ledger, or none.               *)
LEMMA LedgerStepRefines ==
    ASSUME TypeInv, GroundedInv, SingleUseInv, [Next]_vars
    PROVE  [Ledger!LedgerNext]_(Ledger!ledger)
<1>0. /\ TypeOK /\ Carried /\ Unanswered /\ Owned /\ Grounded /\ KeyOutlives
  BY DEF TypeInv, GroundedInv, OwnedInv, SingleUseInv
<1> USE <1>0
<1>1. ASSUME UNCHANGED <<time, grants, outcome>> PROVE [Ledger!LedgerNext]_(Ledger!ledger)
  BY <1>1 DEF Ledger!ledger
(* An answer resolves the request's pending verdict.                            *)
<1>2. ASSUME NEW r \in Requests, NEW code \in Refusals \cup {"routed"},
             outcome[r] = "none", outcome' = [outcome EXCEPT ![r] = code],
             UNCHANGED <<time, grants>>, code = "routed" => Spent(r)
      PROVE  Ledger!LedgerNext
  <2>1. Verdict[r] = "pending"
    BY <1>2 DEF Verdict
  <2>2. CASE code = "routed"
    <3>1. Verdict' = [Verdict EXCEPT ![r] = "routed"]
      BY <1>2, <2>2 DEF Verdict, TypeOK
    <3>2. \E a \in Auths : \E g \in grants[a] : g[1] = r
      BY <1>2, <2>2 DEF Spent
    <3> QED
      BY <1>2, <2>1, <3>1, <3>2 DEF Ledger!LedgerNext, Ledger!Route, Verdict
  <2>3. CASE code # "routed"
    <3>1. code # "none"
      BY <1>2 DEF Refusals
    <3>2. Verdict' = [Verdict EXCEPT ![r] = "refused"]
      BY <1>2, <2>3, <3>1 DEF Verdict, TypeOK
    <3> QED
      BY <1>2, <2>1, <3>2 DEF Ledger!LedgerNext, Ledger!Refuse, Verdict
  <2> QED
    BY <2>2, <2>3
<1> DEFINE Resolves(r) ==
             \E code \in Refusals \cup {"routed"} :
               /\ outcome[r] = "none" /\ outcome' = [outcome EXCEPT ![r] = code]
               /\ UNCHANGED <<time, grants>> /\ (code = "routed" => Spent(r))
           Silent == UNCHANGED <<time, grants, outcome>>
<1> USE DEF Continue, Answer, store
<1>3. ASSUME NEW r \in Requests, Receive(r) \/ Handle(r) \/ Crash(r)
      PROVE  Resolves(r) \/ Silent
  <2>1. CASE Receive(r)
    BY <2>1 DEF Receive
  <2>2. CASE RefuseUpstream(r)
    BY <2>2 DEF RefuseUpstream, Refusals, Unanswered
  <2>3. CASE VerifyArtifact(r)
    <3>1. \A d \in Drifts : ArtifactVerdict(auth[r], genuine[r], time + d)
                              \in (Refusals \cup {"trusted"})
      BY DEF ArtifactVerdict, Refusals
    <3>2. "routed" \notin Refusals
      BY DEF Refusals
    <3> QED
      BY <2>3, <3>1, <3>2 DEF VerifyArtifact, Unanswered
  <2>4. CASE ReadControl(r)
    <3> DEFINE verdict == EnforceVerdict(control[AgentOf[auth[r]]], Version[auth[r]])
    <3>1. verdict \in Refusals \cup {"allowed"}
      BY <2>4, VerdictRange, ConstantsAssumption DEF ReadControl, Carried, TypeOK
    <3>2. "routed" \notin Refusals /\ "runtime_control_unavailable" \in Refusals
      BY DEF Refusals
    <3> QED
      BY <2>4, <3>1, <3>2 DEF ReadControl, Unanswered
  <2>5. CASE TakeReply(r)
    BY <2>5 DEF TakeReply, Refusals, Unanswered
  <2>6. CASE LoseReply(r)
    BY <2>6 DEF LoseReply, Refusals, Unanswered
  <2>7. CASE Decide(r)
    BY <2>7 DEF Decide, Refusals, Unanswered, Grounded
  <2>8. CASE Crash(r)
    BY <2>8 DEF Crash, Refusals, Unanswered
  <2> QED
    BY <1>3, <2>1, <2>2, <2>3, <2>4, <2>5, <2>6, <2>7, <2>8 DEF Handle
<1>4. ASSUME NEW c \in commands, StoreSetNx(c[1], c[2])
      PROVE  [Ledger!LedgerNext]_(Ledger!ledger)
  <2> DEFINE r == c[1]
             a == auth[r]
  <2>1. r \in Requests /\ a \in Auths
    BY DEF Carried, TypeOK
  <2>2. outcome' = outcome /\ time' = time
    BY <1>4 DEF StoreSetNx
  <2>3. CASE KeyLives(a)
    BY <1>1, <1>4, <2>2, <2>3 DEF StoreSetNx
  <2>4. CASE ~KeyLives(a)
    <3>1. grants' = [grants EXCEPT ![a] = @ \cup {<<r, time>>}]
      BY <1>4, <2>4 DEF StoreSetNx
    <3>2. time < ExpiresAt[a] => grants[a] = {}
      <4> SUFFICES ASSUME time < ExpiresAt[a], NEW g \in grants[a] PROVE FALSE
        OBVIOUS
      <4>1. time \in Nat /\ keyExpiry[a] \in Nat /\ ExpiresAt[a] \in Nat /\ g[2] \in Nat
        BY <2>1, ConstantsAssumption DEF TypeOK
      <4>2. g[2] <= time /\ (g[2] < ExpiresAt[a] => ExpiresAt[a] <= keyExpiry[a])
        BY <2>1 DEF KeyOutlives
      <4> QED
        BY <2>4, <4>1, <4>2 DEF KeyLives
    <3>3. \A b \in Auths \ {a} : \A g \in grants[b] : g[1] # r
      BY DEF Owned
    <3> QED
      BY <2>1, <2>2, <3>1, <3>2, <3>3
         DEF Ledger!LedgerNext, Ledger!Spend, Ledger!Live, Verdict
  <2> QED
    BY <2>3, <2>4
<1>5. ASSUME NEW ag \in Agents, Publish(ag) PROVE Silent
  BY <1>5 DEF Publish
<1>6. CASE Tick
  BY <1>6 DEF Tick, Ledger!LedgerNext, Ledger!Advance
<1>7. CASE UNCHANGED vars
  BY <1>1, <1>7 DEF vars
<1> HIDE DEF Resolves, Silent
<1>8. ASSUME NEW r \in Requests, Resolves(r) PROVE Ledger!LedgerNext
  BY <1>2, <1>8 DEF Resolves
<1>9. ASSUME Silent PROVE [Ledger!LedgerNext]_(Ledger!ledger)
  BY <1>1, <1>9 DEF Silent
<1> QED
  BY <1>3, <1>4, <1>5, <1>6, <1>7, <1>8, <1>9 DEF Next, Finished

(* The admission implements the ledger of ADR-0012: it consumes a live          *)
(* authorization at most once and routes only requests that consumed one.       *)
THEOREM AdmissionImplementsLedger == ASSUME NoFastClock PROVE Spec => ImplementsLedger
<1>1. Init /\ [][Next]_vars /\ []TypeInv /\ []GroundedInv /\ []SingleUseInv
        => Ledger!LedgerInit /\ [][Ledger!LedgerNext]_(Ledger!ledger)
  BY LedgerInitRefines, LedgerStepRefines, PTL
<1> QED
  BY <1>1, TypeInvariant, GroundedInvariant, SingleUseInvariant, PTL
     DEF Spec, ImplementsLedger, Ledger!LedgerSpec
=============================================================================
