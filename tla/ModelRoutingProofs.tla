-------------------------- MODULE ModelRoutingProofs ---------------------------
(* Proofs about the choice of the model group: for every policy the loader        *)
(* accepts, every request and every answer of the availability provider, a call   *)
(* is given its workload's group exactly when that group suits it, and asking for *)
(* an explanation never changes the decision.                                     *)
EXTENDS ModelRouting, FiniteSetTheorems, TLAPS

-------------------------------------------------------------------------------
(* The constraints.                                                               *)

(* The first of the failing constraints exists as soon as one fails.              *)
LEMMA FirstOfNine ==
    ASSUME NEW S \in SUBSET (1..9), S # {}
    PROVE  (CHOOSE i \in S : \A j \in S : i <= j) \in S
<1>1. \E i \in S : \A j \in S : i <= j
  <2>1. CASE \E i \in S : i <= 3
    <3>1. PICK i \in S : i <= 3
      BY <2>1
    <3>2. i \in {1, 2, 3}
      BY <3>1
    <3> QED BY <3>1, <3>2
  <2>2. CASE (\A i \in S : i > 3) /\ (\E i \in S : i <= 6)
    <3>1. PICK i \in S : i <= 6
      BY <2>2
    <3>2. i \in {4, 5, 6}
      BY <2>2, <3>1
    <3> QED BY <2>2, <3>1, <3>2
  <2>3. CASE \A i \in S : i > 6
    <3>1. PICK i \in S : TRUE
      OBVIOUS
    <3>2. i \in {7, 8, 9}
      BY <2>3
    <3> QED BY <2>3, <3>2
  <2> QED BY <2>1, <2>2, <2>3
<1> QED BY <1>1

LEMMA ConstraintNames ==
    /\ Len(Constraints) = 9
    /\ Constraints[1] = "data_classification_not_authorized"
    /\ Constraints[2] = "risk_level_not_authorized"
    /\ Constraints[3] = "structured_output_unsupported"
    /\ Constraints[4] = "tool_calling_unsupported"
    /\ Constraints[5] = "context_window_exceeded"
    /\ Constraints[6] = "cost_ceiling_exceeded"
    /\ Constraints[7] = "latency_ceiling_exceeded"
    /\ Constraints[8] = "model_group_unavailable"
    /\ Constraints[9] = "agent_not_allowed"
BY DEF Constraints

(* A reason code of a constraint is none of the other outcomes of a call.         *)
LEMMA ReasonCode ==
    ASSUME NEW i \in 1..9
    PROVE  /\ Constraints[i] \in Codes
           /\ Constraints[i] \notin {"none", "selected", "incomplete_policy", "key_error",
                                     "workload_mapped_elsewhere"}
<1>1. Constraints[i] \in Codes
  BY ConstraintNames DEF Codes
<1>2. \/ i = 1 \/ i = 2 \/ i = 3 \/ i = 4 \/ i = 5 \/ i = 6 \/ i = 7 \/ i = 8 \/ i = 9
  OBVIOUS
<1> QED BY <1>1, <1>2, ConstraintNames

(* The loop over the constraints: a reason code when one of them rejects the      *)
(* profile, none when all of them let it pass.                                    *)
LEMMA FirstFailureIs ==
    ASSUME NEW r, NEW p, NEW u
    PROVE  /\ FirstFailure(r, p, u) = "none"
                <=> \A i \in 1..9 : ~Rejects(Constraints[i], r, p, u)
           /\ FirstFailure(r, p, u) # "none" =>
                \E i \in 1..9 : FirstFailure(r, p, u) = Constraints[i]
<1> DEFINE S == Failures(r, p, u)
<1>1. /\ S \in SUBSET (1..9)
      /\ S = {} <=> \A i \in 1..9 : ~Rejects(Constraints[i], r, p, u)
  BY ConstraintNames DEF Failures
<1>2. CASE S = {}
  BY <1>1, <1>2 DEF FirstFailure
<1>3. CASE S # {}
  <2>1. PICK i \in S : i = CHOOSE k \in S : \A j \in S : k <= j
    BY <1>1, <1>3, FirstOfNine
  <2>2. FirstFailure(r, p, u) = Constraints[i]
    BY <1>3, <2>1 DEF FirstFailure
  <2>3. i \in 1..9
    BY <1>1
  <2> QED BY <1>1, <1>3, <2>2, <2>3, ReasonCode
<1> QED BY <1>2, <1>3

(* The nine constraints together ask what Suits asks, and that the group be       *)
(* reported available, for the profile as it is declared.                         *)
LEMMA ConstraintsMeanSuits ==
    ASSUME NEW r \in Requests, NEW d \in Documents, NEW g \in d.groups,
           NEW w \in DOMAIN d.rule, NEW up \in BOOLEAN
    PROVE  (\A i \in 1..9 : ~Rejects(Constraints[i], r, [d.profile[g] EXCEPT !.available = up],
                                     d.rule[w]))
             <=> /\ up
                 /\ LET p == d.profile[g] IN
                    /\ r.class \in p.classes /\ r.risk \in p.risks
                    /\ r.structured => p.structured
                    /\ d.rule[w].tools => p.tools
                    /\ r.input + r.output <= p.window
                    /\ r.input * p.inputRate + r.output * p.outputRate <= r.cost
                    /\ p.latency <= r.latency
                    /\ p.agents = {} \/ r.agent \in p.agents
<1> DEFINE p == d.profile[g]
           q == [p EXCEPT !.available = up]
           rule == d.rule[w]
<1>1. p \in ProfileType
  BY RoutingAssumption
<1>2. /\ q.classes = p.classes /\ q.risks = p.risks /\ q.agents = p.agents
      /\ q.structured = p.structured /\ q.tools = p.tools
      /\ q.window = p.window /\ q.latency = p.latency
      /\ q.inputRate = p.inputRate /\ q.outputRate = p.outputRate
      /\ q.available = up
  BY <1>1 DEF ProfileType
<1>3. /\ p.window \in Nat /\ p.latency \in Nat /\ p.inputRate \in Nat /\ p.outputRate \in Nat
      /\ r.input \in Nat /\ r.output \in Nat /\ r.cost \in Nat /\ r.latency \in Nat
  BY <1>1, RoutingAssumption DEF ProfileType
<1>p. r.input * p.inputRate \in Nat /\ r.output * p.outputRate \in Nat
  BY <1>3
<1> HIDE DEF p, q, rule
<1>r1. Rejects(Constraints[1], r, q, rule) <=> r.class \notin p.classes
  BY <1>2, ConstraintNames DEF Rejects
<1>r2. Rejects(Constraints[2], r, q, rule) <=> r.risk \notin p.risks
  BY <1>2, ConstraintNames DEF Rejects
<1>r3. Rejects(Constraints[3], r, q, rule) <=> r.structured /\ ~p.structured
  BY <1>2, ConstraintNames DEF Rejects
<1>r4. Rejects(Constraints[4], r, q, rule) <=> rule.tools /\ ~p.tools
  BY <1>2, ConstraintNames DEF Rejects
<1>r5. Rejects(Constraints[5], r, q, rule) <=> ~(r.input + r.output <= p.window)
  <2>1. Rejects(Constraints[5], r, q, rule) <=> r.input + r.output > p.window
    BY <1>2, ConstraintNames DEF Rejects
  <2> QED BY <1>3, <2>1
<1>r6. Rejects(Constraints[6], r, q, rule)
         <=> ~(r.input * p.inputRate + r.output * p.outputRate <= r.cost)
  <2>1. Rejects(Constraints[6], r, q, rule)
          <=> r.input * p.inputRate + r.output * p.outputRate > r.cost
    BY <1>2, ConstraintNames DEF Rejects, EstimatedCost
  <2> QED BY <1>3, <1>p, <2>1
<1>r7. Rejects(Constraints[7], r, q, rule) <=> ~(p.latency <= r.latency)
  <2>1. Rejects(Constraints[7], r, q, rule) <=> p.latency > r.latency
    BY <1>2, ConstraintNames DEF Rejects
  <2> QED BY <1>3, <2>1
<1>r8. Rejects(Constraints[8], r, q, rule) <=> ~up
  BY <1>2, ConstraintNames DEF Rejects
<1>r9. Rejects(Constraints[9], r, q, rule) <=> ~(p.agents = {} \/ r.agent \in p.agents)
  BY <1>2, ConstraintNames DEF Rejects
<1>4. (\A i \in 1..9 : ~Rejects(Constraints[i], r, q, rule))
        <=> /\ ~Rejects(Constraints[1], r, q, rule) /\ ~Rejects(Constraints[2], r, q, rule)
            /\ ~Rejects(Constraints[3], r, q, rule) /\ ~Rejects(Constraints[4], r, q, rule)
            /\ ~Rejects(Constraints[5], r, q, rule) /\ ~Rejects(Constraints[6], r, q, rule)
            /\ ~Rejects(Constraints[7], r, q, rule) /\ ~Rejects(Constraints[8], r, q, rule)
            /\ ~Rejects(Constraints[9], r, q, rule)
  <2>1. \A i \in 1..9 : \/ i = 1 \/ i = 2 \/ i = 3 \/ i = 4 \/ i = 5 \/ i = 6 \/ i = 7
                        \/ i = 8 \/ i = 9
    OBVIOUS
  <2> QED BY <2>1
<1>5. (\A i \in 1..9 : ~Rejects(Constraints[i], r, q, rule))
        <=> /\ up
            /\ r.class \in p.classes /\ r.risk \in p.risks
            /\ r.structured => p.structured
            /\ rule.tools => p.tools
            /\ r.input + r.output <= p.window
            /\ r.input * p.inputRate + r.output * p.outputRate <= r.cost
            /\ p.latency <= r.latency
            /\ p.agents = {} \/ r.agent \in p.agents
  BY <1>4, <1>r1, <1>r2, <1>r3, <1>r4, <1>r5, <1>r6, <1>r7, <1>r8, <1>r9, Zenon
<1> QED BY <1>5, Zenon DEF p, q, rule
-------------------------------------------------------------------------------
(* A call.                                                                        *)

(* The evaluation of a call's mapped group, and what its selection explains.      *)
Decision(c) == IF Failure(c, Selected(c)) = "none" THEN "selected" ELSE Failure(c, Selected(c))

Explanation(c) ==
    [g \in Candidates(c) \ {Selected(c)} |->
        IF Failure(c, g) = "none" THEN "workload_mapped_elsewhere" ELSE Failure(c, g)]

Mapped(c) == request[c].workload \in DOMAIN doc.rule

(* What a call knows at its phase: it starts under a policy the loader accepted,  *)
(* goes on if its workload has a rule, and ends as the rules decide.              *)
CallAsDecided(c) ==
    /\ phase[c] # "idle" => policy = "loaded"
    /\ phase[c] \in {"resolving", "resolved"} => Mapped(c)
    /\ phase[c] # "ended" => outcome[c] = "none"
    /\ phase[c] = "ended" =>
          \/ ~Mapped(c) /\ outcome[c] = "incomplete_policy"
          \/ Mapped(c) /\ outcome[c] = Decision(c)
             /\ (outcome[c] = "selected" => rejected[c] = Explanation(c))

RoutingInv ==
    /\ policy = "loaded" => Accepted(doc)
    /\ \A c \in Calls : CallAsDecided(c)

(* Under an accepted policy the group of a mapped workload is declared.           *)
LEMMA MappedIsDeclared ==
    ASSUME NEW c, Accepted(doc), Mapped(c)
    PROVE  Selected(c) \in doc.groups /\ Selected(c) \in Candidates(c)
BY DEF Accepted, Targets, Mapped, Selected, Rule, Candidates

LEMMA FailureCode ==
    ASSUME NEW c, NEW g, Failure(c, g) # "none"
    PROVE  /\ Failure(c, g) \in Codes
           /\ Failure(c, g) \notin {"selected", "incomplete_policy", "key_error",
                                    "workload_mapped_elsewhere"}
BY FirstFailureIs, ReasonCode DEF Failure

-------------------------------------------------------------------------------
(* Types.                                                                         *)

LEMMA TypeInit == Init => TypeOK
<1> SUFFICES ASSUME Init PROVE TypeOK
  OBVIOUS
<1>1. \A S : NoGroups \in Answers(S)
  <2> SUFFICES ASSUME NEW S PROVE NoGroups \in Answers(S)
    OBVIOUS
  <2>1. {} \in SUBSET Groups /\ NoGroups \in [{} -> S]
    BY DEF NoGroups
  <2> QED BY <2>1 DEF Answers
<1>2. Cardinality(DOMAIN NoGroups) <= 1
  BY FS_EmptySet DEF NoGroups
<1> QED BY <1>1, <1>2 DEF Init, TypeOK

LEMMA TypeNext == TypeOK /\ RoutingInv /\ [Next]_vars => TypeOK'
<1> SUFFICES ASSUME TypeOK, RoutingInv, [Next]_vars PROVE TypeOK'
  OBVIOUS
<1> USE DEF TypeOK
<1>0. \A S : NoGroups \in Answers(S)
  <2> SUFFICES ASSUME NEW S PROVE NoGroups \in Answers(S)
    OBVIOUS
  <2>1. {} \in SUBSET Groups /\ NoGroups \in [{} -> S]
    BY DEF NoGroups
  <2> QED BY <2>1 DEF Answers
<1>1. CASE Load
  BY <1>1 DEF Load
<1>2. ASSUME NEW c \in Calls, Start(c) PROVE TypeOK'
  <2>1. UNCHANGED <<doc, policy, request, explain, effective>>
    BY <1>2 DEF Start
  <2>2. \/ End(c, "incomplete_policy", NoGroups) \/ End(c, "key_error", NoGroups)
        \/ phase' = [phase EXCEPT ![c] = "resolving"] /\ UNCHANGED <<outcome, rejected>>
    BY <1>2 DEF Start
  <2> QED BY <1>0, <2>1, <2>2 DEF End
<1>3. ASSUME NEW c \in Calls, Resolve(c) PROVE TypeOK'
  <2>0. PICK answered \in SUBSET Candidates(c) :
           \E answer \in [answered -> BOOLEAN] : effective' = [effective EXCEPT ![c] = answer]
    BY <1>3 DEF Resolve
  <2>1. PICK answer \in [answered -> BOOLEAN] : effective' = [effective EXCEPT ![c] = answer]
    BY <2>0
  <2>2. Candidates(c) \subseteq Groups
    <3>1. Accepted(doc) /\ Mapped(c)
      BY <1>3 DEF Resolve, RoutingInv, CallAsDecided
    <3>2. Selected(c) \in doc.groups
      BY <3>1, MappedIsDeclared
    <3> QED BY <3>2 DEF Candidates, Groups
  <2>3. answer \in Answers(BOOLEAN)
    BY <2>2 DEF Answers
  <2>4. ~explain[c] => Cardinality(DOMAIN answer) <= 1
    <3> SUFFICES ASSUME ~explain[c] PROVE Cardinality(DOMAIN answer) <= 1
      OBVIOUS
    <3>1. DOMAIN answer \subseteq {Selected(c)}
      BY DEF Candidates
    <3>2. IsFiniteSet({Selected(c)}) /\ Cardinality({Selected(c)}) = 1
      BY FS_Singleton
    <3> QED BY <3>1, <3>2, FS_Subset
  <2>5. effective' \in [Calls -> Answers(BOOLEAN)]
    BY <2>1, <2>3
  <2>6. \A d \in Calls : ~explain'[d] => Cardinality(DOMAIN effective'[d]) <= 1
    BY <1>3, <2>1, <2>4 DEF Resolve
  <2>7. phase' \in [Calls -> {"idle", "resolving", "resolved", "ended"}]
    BY <1>3 DEF Resolve
  <2> QED BY <1>3, <2>5, <2>6, <2>7 DEF Resolve
<1>4. ASSUME NEW c \in Calls, Evaluate(c) PROVE TypeOK'
  <2>1. UNCHANGED <<doc, policy, request, explain, effective>>
    BY <1>4 DEF Evaluate
  <2>2. /\ Accepted(doc) /\ Mapped(c)
        /\ Selected(c) \in doc.groups /\ Selected(c) \in Candidates(c)
    <3>1. Accepted(doc) /\ Mapped(c)
      BY <1>4 DEF Evaluate, RoutingInv, CallAsDecided
    <3> QED BY <3>1, MappedIsDeclared
  <2>3. \/ Failure(c, Selected(c)) # "none" /\ End(c, Failure(c, Selected(c)), NoGroups)
        \/ End(c, "selected", Explanation(c))
    BY <1>4, <2>2 DEF Evaluate, Explanation
  <2>4. Explanation(c) \in Answers(Codes)
    <3>1. DOMAIN Explanation(c) \subseteq Groups
      BY <2>2 DEF Explanation, Candidates, Groups
    <3>2. \A g \in DOMAIN Explanation(c) : Explanation(c)[g] \in Codes
      BY FailureCode DEF Explanation, Codes
    <3>3. Explanation(c) \in [DOMAIN Explanation(c) -> Codes]
      BY <3>2 DEF Explanation
    <3> QED BY <3>1, <3>3 DEF Answers
  <2> QED BY <1>0, <2>1, <2>3, <2>4, FailureCode DEF End
<1>5. CASE UNCHANGED vars
  BY <1>5 DEF vars
<1> QED BY <1>1, <1>2, <1>3, <1>4, <1>5 DEF Next, Finished

-------------------------------------------------------------------------------
(* The invariant.                                                                 *)

LEMMA RoutingInit == Init => RoutingInv
BY DEF Init, RoutingInv, CallAsDecided

(* What a call is given is a matter of its own phase, request and answer.         *)
LEMMA OtherCallsKept ==
    ASSUME TypeOK, TypeOK', UNCHANGED <<doc, request, explain>>, NEW c \in Calls,
           policy' = policy, CallAsDecided(c), phase'[c] = phase[c], outcome'[c] = outcome[c],
           rejected'[c] = rejected[c], effective'[c] = effective[c]
    PROVE  CallAsDecided(c)'
<1>1. /\ Mapped(c)' = Mapped(c) /\ Selected(c)' = Selected(c)
      /\ Candidates(c)' = Candidates(c) /\ \A g : Failure(c, g)' = Failure(c, g)
  BY DEF Mapped, Failure, Available, Selected, Rule, Candidates
<1>2. Decision(c)' = Decision(c) /\ Explanation(c)' = Explanation(c)
  BY <1>1 DEF Decision, Explanation
<1> QED BY <1>1, <1>2 DEF CallAsDecided

LEMMA RoutingNext == TypeOK /\ TypeOK' /\ RoutingInv /\ [Next]_vars => RoutingInv'
<1> SUFFICES ASSUME TypeOK, TypeOK', RoutingInv, [Next]_vars PROVE RoutingInv'
  OBVIOUS
<1>1. CASE Load
  <2>1. UNCHANGED <<doc, phase, request, explain, effective, outcome, rejected>>
    BY <1>1 DEF Load
  <2>2. \A c \in Calls : phase[c] = "idle"
    BY <1>1 DEF Load, RoutingInv, CallAsDecided
  <2>3. \A c \in Calls : CallAsDecided(c)'
    BY <2>1, <2>2 DEF RoutingInv, CallAsDecided
  <2>4. policy' = "loaded" => Accepted(doc)'
    BY <1>1 DEF Load
  <2> QED BY <2>3, <2>4 DEF RoutingInv
<1>2. ASSUME NEW c \in Calls, Start(c) PROVE RoutingInv'
  <2>1. /\ UNCHANGED <<doc, policy, request, explain, effective>>
        /\ policy = "loaded" /\ Accepted(doc)
    BY <1>2 DEF Start, RoutingInv
  <2>2. \A d \in Calls \ {c} : phase'[d] = phase[d] /\ outcome'[d] = outcome[d]
                                /\ rejected'[d] = rejected[d]
    BY <1>2 DEF Start, End, TypeOK
  <2>3. CASE ~Mapped(c)
    <3>1. phase'[c] = "ended" /\ outcome'[c] = "incomplete_policy"
      BY <1>2, <2>3 DEF Start, End, Mapped, TypeOK
    <3>2. CallAsDecided(c)'
      BY <2>1, <2>3, <3>1 DEF CallAsDecided, Mapped
    <3> QED BY <2>1, <2>2, <3>2, OtherCallsKept DEF RoutingInv
  <2>4. CASE Mapped(c)
    <3>1. Selected(c) \in doc.groups
      BY <2>1, <2>4, MappedIsDeclared
    <3>2. phase' = [phase EXCEPT ![c] = "resolving"] /\ UNCHANGED <<outcome, rejected>>
      BY <1>2, <2>4, <3>1 DEF Start, Mapped
    <3>3. phase[c] = "idle" /\ outcome[c] = "none"
      BY <1>2 DEF Start, RoutingInv, CallAsDecided
    <3>4. CallAsDecided(c)'
      BY <2>1, <2>4, <3>2, <3>3 DEF CallAsDecided, Mapped, TypeOK
    <3> QED BY <2>1, <2>2, <3>4, OtherCallsKept DEF RoutingInv
  <2> QED BY <2>3, <2>4
<1>3. ASSUME NEW c \in Calls, Resolve(c) PROVE RoutingInv'
  <2>1. /\ UNCHANGED <<doc, policy, request, explain, outcome, rejected>>
        /\ phase[c] = "resolving" /\ phase' = [phase EXCEPT ![c] = "resolved"]
        /\ \A d \in Calls \ {c} : effective'[d] = effective[d]
    BY <1>3 DEF Resolve, TypeOK
  <2>2. CallAsDecided(c)'
    BY <2>1 DEF RoutingInv, CallAsDecided, Mapped, TypeOK
  <2>3. \A d \in Calls \ {c} : phase'[d] = phase[d]
    BY <2>1 DEF TypeOK
  <2> QED BY <2>1, <2>2, <2>3, OtherCallsKept DEF RoutingInv
<1>4. ASSUME NEW c \in Calls, Evaluate(c) PROVE RoutingInv'
  <2>1. UNCHANGED <<doc, policy, request, explain, effective>>
    BY <1>4 DEF Evaluate
  <2>2. policy = "loaded" /\ Accepted(doc) /\ Mapped(c) /\ Selected(c) \in Candidates(c)
    <3>1. policy = "loaded" /\ Accepted(doc) /\ Mapped(c)
      BY <1>4 DEF Evaluate, RoutingInv, CallAsDecided
    <3> QED BY <3>1, MappedIsDeclared
  <2>3. \/ Failure(c, Selected(c)) # "none" /\ End(c, Failure(c, Selected(c)), NoGroups)
        \/ Failure(c, Selected(c)) = "none" /\ End(c, "selected", Explanation(c))
    BY <1>4, <2>2 DEF Evaluate, Explanation
  <2>4. /\ phase'[c] = "ended" /\ outcome'[c] = Decision(c)
        /\ outcome'[c] = "selected" => rejected'[c] = Explanation(c)
    BY <2>3, FailureCode DEF End, Decision, TypeOK
  <2>5. /\ Decision(c)' = Decision(c) /\ Explanation(c)' = Explanation(c)
        /\ Mapped(c)' = Mapped(c)
    BY <2>1 DEF Decision, Explanation, Mapped, Failure, Available, Selected, Rule, Candidates
  <2>6. CallAsDecided(c)'
    BY <2>1, <2>2, <2>4, <2>5 DEF CallAsDecided
  <2>7. \A d \in Calls \ {c} : phase'[d] = phase[d] /\ outcome'[d] = outcome[d]
                                /\ rejected'[d] = rejected[d]
    BY <2>3 DEF End, TypeOK
  <2> QED BY <2>1, <2>6, <2>7, OtherCallsKept DEF RoutingInv
<1>5. CASE UNCHANGED vars
  BY <1>5, OtherCallsKept DEF vars, RoutingInv
<1> QED BY <1>1, <1>2, <1>3, <1>4, <1>5 DEF Next, Finished

LEMMA RoutingCorrect == Spec => [](TypeOK /\ RoutingInv)
<1>1. TypeOK /\ RoutingInv /\ [Next]_vars => (TypeOK /\ RoutingInv)'
  BY TypeNext, RoutingNext
<1> QED BY TypeInit, RoutingInit, <1>1, PTL DEF Spec

-------------------------------------------------------------------------------
(* Theorems.                                                                      *)

(* Every call keeps to its phases, and its outcome to the codes of the API.       *)
THEOREM TypeCorrect == Spec => []TypeOK
BY RoutingCorrect, PTL

(* A group passes the evaluation exactly when it suits the request and the        *)
(* provider reported it.                                                          *)
LEMMA PassesWhenItSuits ==
    ASSUME TypeOK, NEW c \in Calls, Mapped(c), NEW g \in doc.groups
    PROVE  Failure(c, g) = "none"
             <=> /\ Suits(request[c], g, Rule(c).tools)
                 /\ g \in DOMAIN effective[c] /\ effective[c][g]
<1>1. Available(c, g) \in BOOLEAN
  BY DEF Available
<1>2. request[c] \in Requests /\ doc \in Documents
  BY DEF TypeOK
<1>3. Failure(c, g) = "none"
        <=> \A i \in 1..9 : ~Rejects(Constraints[i], request[c],
                 [doc.profile[g] EXCEPT !.available = Available(c, g)], Rule(c))
  BY FirstFailureIs DEF Failure
<1>4. Failure(c, g) = "none" <=> Available(c, g) /\ Suits(request[c], g, Rule(c).tools)
  BY <1>1, <1>2, <1>3, ConstraintsMeanSuits DEF Suits, Mapped, Rule
<1> QED BY <1>4 DEF Available

(* A call is given its workload's group exactly when the group suits the request  *)
(* and the provider reported it available: there is no fallback, and the order of *)
(* the constraints decides only which reason is reported.                         *)
THEOREM OnlyTheMappedGroup == Spec => []SelectsOnlyTheMappedGroup
<1>1. TypeOK /\ RoutingInv => SelectsOnlyTheMappedGroup
  <2> SUFFICES ASSUME TypeOK, RoutingInv, NEW c \in Calls, phase[c] = "ended",
                      outcome[c] # "incomplete_policy"
               PROVE  /\ outcome[c] # "key_error"
                      /\ outcome[c] = "selected" <=>
                           /\ Suits(request[c], Selected(c), Rule(c).tools)
                           /\ Selected(c) \in {g \in DOMAIN effective[c] : effective[c][g]}
    BY DEF SelectsOnlyTheMappedGroup
  <2>1. Mapped(c) /\ outcome[c] = Decision(c) /\ Selected(c) \in doc.groups
    BY MappedIsDeclared DEF RoutingInv, CallAsDecided
  <2>2. outcome[c] = "selected" <=> Failure(c, Selected(c)) = "none"
    BY <2>1, FailureCode DEF Decision
  <2>3. outcome[c] # "key_error"
    BY <2>1, FailureCode DEF Decision
  <2> QED BY <2>1, <2>2, <2>3, PassesWhenItSuits
<1> QED BY <1>1, RoutingCorrect, PTL

(* Asking for an explanation never changes the decision, and the explanation      *)
(* accounts for every other group of the policy, truly.                           *)
THEOREM ExplanationIsOnlyThat == Spec => []ExplanationDecidesNothing
<1>1. TypeOK /\ RoutingInv => DecidesAlike
  <2> SUFFICES ASSUME TypeOK, RoutingInv, NEW c \in Calls, NEW d \in Calls,
                      phase[c] = "ended", phase[d] = "ended", request[c] = request[d],
                      outcome[c] # "incomplete_policy",
                      Available(c, Selected(c)) = Available(d, Selected(c))
               PROVE  outcome[c] = outcome[d]
    BY DEF DecidesAlike
  <2>1. Mapped(c) /\ Mapped(d) /\ outcome[c] = Decision(c) /\ outcome[d] = Decision(d)
    BY DEF RoutingInv, CallAsDecided, Mapped
  <2>2. Selected(d) = Selected(c) /\ Rule(d) = Rule(c)
    BY DEF Selected, Rule
  <2>3. Failure(d, Selected(d)) = Failure(c, Selected(c))
    BY <2>2 DEF Failure
  <2> QED BY <2>1, <2>3 DEF Decision
<1>2. TypeOK /\ RoutingInv => EveryOtherGroupExplained
  <2> SUFFICES ASSUME TypeOK, RoutingInv, NEW c \in Calls, outcome[c] = "selected"
               PROVE  /\ DOMAIN rejected[c] = IF explain[c] THEN doc.groups \ {Selected(c)} ELSE {}
                      /\ \A g \in DOMAIN rejected[c] :
                            rejected[c][g] = "workload_mapped_elsewhere"
                              <=> /\ Suits(request[c], g, Rule(c).tools)
                                  /\ g \in DOMAIN effective[c] /\ effective[c][g]
    BY DEF EveryOtherGroupExplained
  <2>1. Mapped(c) /\ rejected[c] = Explanation(c)
    BY DEF RoutingInv, CallAsDecided
  <2>2. DOMAIN rejected[c] = IF explain[c] THEN doc.groups \ {Selected(c)} ELSE {}
    BY <2>1 DEF Explanation, Candidates
  <2>3. \A g \in DOMAIN rejected[c] :
           g \in doc.groups
           /\ (rejected[c][g] = "workload_mapped_elsewhere" <=> Failure(c, g) = "none")
    BY <2>1, <2>2, FailureCode DEF Explanation
  <2> QED BY <2>1, <2>2, <2>3, PassesWhenItSuits
<1> QED BY <1>1, <1>2, RoutingCorrect, PTL DEF ExplanationDecidesNothing
===============================================================================
