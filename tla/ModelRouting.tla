----------------------------- MODULE ModelRouting -----------------------------
(* RouteModelUseCase.route: routing calls against one loaded policy, with the    *)
(* await of the availability provider between the choice of the candidates and   *)
(* their evaluation.  The provider is a port: it may report any availability and *)
(* omit any group, and its answer may differ from one call to the next.          *)
EXTENDS RoutingRules, FiniteSets

CONSTANTS
    Calls,
    Documents,  \* policy files
    Requests,   \* request bodies: [workload, agent, class, risk, ...]
    Names       \* classifications, risk levels and agents

ProfileType ==
    [classes : SUBSET Names, risks : SUBSET Names, agents : SUBSET Names,
     structured : BOOLEAN, tools : BOOLEAN, available : BOOLEAN,
     window : Nat, latency : Nat, inputRate : Nat, outputRate : Nat]

(* What the field types of the loader, of WorkloadRule and of the contract say.    *)
ASSUME RoutingAssumption ==
    /\ \A d \in Documents :
          /\ \A g \in d.groups : d.profile[g] \in ProfileType
          /\ \A w \in DOMAIN d.rule : d.rule[w].tools \in BOOLEAN
    /\ \A r \in Requests :
          /\ r.structured \in BOOLEAN
          /\ r.input \in Nat /\ r.output \in Nat /\ r.cost \in Nat /\ r.latency \in Nat

VARIABLES
    doc,        \* the policy file
    policy,     \* unread, loaded, or refused (RoutingPolicyLoadError)
    phase,      \* phase[c]: idle, resolving, resolved or ended
    request,    \* request[c]
    explain,    \* include_rejected_candidates of c
    effective,  \* effective[c]: the provider's answer, group by group
    outcome,    \* outcome[c]: none, selected, incomplete_policy, key_error, or
                \* the reason code of the rejection of the mapped group
    rejected    \* rejected[c]: the reason code of each rejected candidate

vars == <<doc, policy, phase, request, explain, effective, outcome, rejected>>

Groups == UNION {d.groups : d \in Documents}
Codes == {Constraints[i] : i \in 1..Len(Constraints)} \cup {"workload_mapped_elsewhere"}
NoGroups == [g \in {} |-> TRUE]
Answers(value) == UNION {[gs -> value] : gs \in SUBSET Groups}

TypeOK ==
    /\ doc \in Documents
    /\ policy \in {"unread", "loaded", "refused"}
    /\ phase \in [Calls -> {"idle", "resolving", "resolved", "ended"}]
    /\ request \in [Calls -> Requests]
    /\ explain \in [Calls -> BOOLEAN]
    /\ effective \in [Calls -> Answers(BOOLEAN)]
    /\ \A c \in Calls : ~explain[c] => Cardinality(DOMAIN effective[c]) <= 1
    /\ outcome \in [Calls -> Codes \cup {"none", "selected", "incomplete_policy", "key_error"}]
    /\ rejected \in [Calls -> Answers(Codes)]

Init ==
    /\ doc \in Documents
    /\ policy = "unread"
    /\ phase = [c \in Calls |-> "idle"]
    /\ request \in [Calls -> Requests]
    /\ explain \in [Calls -> BOOLEAN]
    /\ effective = [c \in Calls |-> NoGroups]
    /\ outcome = [c \in Calls |-> "none"]
    /\ rejected = [c \in Calls |-> NoGroups]

-------------------------------------------------------------------------------
Load ==
    /\ policy = "unread"
    /\ policy' = IF Accepted(doc) THEN "loaded" ELSE "refused"
    /\ UNCHANGED <<doc, phase, request, explain, effective, outcome, rejected>>

Rule(c) == doc.rule[request[c].workload]
Selected(c) == Rule(c).group
Candidates(c) == IF explain[c] THEN doc.groups ELSE {Selected(c)}

End(c, code, others) ==
    /\ phase' = [phase EXCEPT ![c] = "ended"]
    /\ outcome' = [outcome EXCEPT ![c] = code]
    /\ rejected' = [rejected EXCEPT ![c] = others]

(* Up to the await: the rule of the workload, the mapped group, the candidates.  *)
Start(c) ==
    /\ policy = "loaded" /\ phase[c] = "idle"
    /\ IF request[c].workload \notin DOMAIN doc.rule
       THEN End(c, "incomplete_policy", NoGroups)
       ELSE IF ~explain[c] /\ Selected(c) \notin doc.groups
       THEN End(c, "key_error", NoGroups)
       ELSE phase' = [phase EXCEPT ![c] = "resolving"] /\ UNCHANGED <<outcome, rejected>>
    /\ UNCHANGED <<doc, policy, request, explain, effective>>

(* availability.resolve: the shipped provider returns the declared flags.        *)
Resolve(c) ==
    /\ phase[c] = "resolving"
    /\ \E answered \in SUBSET Candidates(c) :
         \E answer \in [answered -> BOOLEAN] :
            effective' = [effective EXCEPT ![c] = answer]
    /\ phase' = [phase EXCEPT ![c] = "resolved"]
    /\ UNCHANGED <<doc, policy, request, explain, outcome, rejected>>

(* A group the provider omitted keeps its declared flag.                         *)
Slip_OmittedAsDeclared(c, g) ==
    IF g \in DOMAIN effective[c] THEN effective[c][g] ELSE doc.profile[g].available

(* effective_availability.get(model_group, False)                                *)
Available(c, g) == g \in DOMAIN effective[c] /\ effective[c][g]

Failure(c, g) ==
    FirstFailure(request[c], [doc.profile[g] EXCEPT !.available = Available(c, g)], Rule(c))

(* Another candidate is taken when the mapped group is rejected.                 *)
Slip_FallBack(c) ==
    /\ phase[c] = "resolved"
    /\ IF \E g \in Candidates(c) : Failure(c, g) = "none"
       THEN End(c, "selected", NoGroups)
       ELSE End(c, Failure(c, Selected(c)), NoGroups)
    /\ UNCHANGED <<doc, policy, request, explain, effective>>

(* A rejected candidate is explained only when a constraint failed.              *)
Slip_ExplainFailuresOnly(c) ==
    /\ phase[c] = "resolved"
    /\ LET reason == Failure(c, Selected(c))
           failing == {g \in Candidates(c) \ {Selected(c)} : Failure(c, g) # "none"}
       IN IF reason # "none"
          THEN End(c, reason, NoGroups)
          ELSE End(c, "selected", [g \in failing |-> Failure(c, g)])
    /\ UNCHANGED <<doc, policy, request, explain, effective>>

(* After the await: every candidate is evaluated, and the mapped group decides   *)
(* if it is one of them.                                                         *)
Evaluate(c) ==
    /\ phase[c] = "resolved"
    /\ LET reason == IF Selected(c) \in Candidates(c) THEN Failure(c, Selected(c)) ELSE "none"
           explained(g) == IF Failure(c, g) = "none" THEN "workload_mapped_elsewhere"
                           ELSE Failure(c, g)
       IN IF reason # "none"
          THEN End(c, reason, NoGroups)
          ELSE End(c, "selected",
                   [g \in Candidates(c) \ {Selected(c)} |-> explained(g)])
    /\ UNCHANGED <<doc, policy, request, explain, effective>>

Finished ==
    /\ policy = "refused" \/ \A c \in Calls : phase[c] = "ended"
    /\ UNCHANGED vars

Next ==
    \/ Load
    \/ \E c \in Calls : Start(c) \/ Resolve(c) \/ Evaluate(c)
    \/ Finished

Spec == Init /\ [][Next]_vars

-------------------------------------------------------------------------------
(* Properties.                                                                   *)

(* What may be asked of a group, without an order of tests and without a loop.   *)
Suits(r, g, tools) ==
    LET p == doc.profile[g] IN
    /\ r.class \in p.classes /\ r.risk \in p.risks
    /\ r.structured => p.structured
    /\ tools => p.tools
    /\ r.input + r.output <= p.window
    /\ r.input * p.inputRate + r.output * p.outputRate <= r.cost
    /\ p.latency <= r.latency
    /\ p.agents = {} \/ r.agent \in p.agents

(* A call selects its workload's group exactly when that group suits the request *)
(* and the provider reported it available; there is no fallback to another       *)
(* group, and a group the provider left out of its answer is never selected.     *)
(* Under a policy the loader accepted, that group is always one it declares.     *)
SelectsOnlyTheMappedGroup ==
    \A c \in Calls : phase[c] = "ended" /\ outcome[c] # "incomplete_policy" =>
        /\ outcome[c] # "key_error"
        /\ outcome[c] = "selected" <=>
            /\ Suits(request[c], Selected(c), Rule(c).tools)
            /\ Selected(c) \in {g \in DOMAIN effective[c] : effective[c][g]}

(* Two calls with one request that learnt the same of the mapped group end       *)
(* alike, reason code included.                                                  *)
DecidesAlike ==
    \A c, d \in Calls :
        /\ phase[c] = "ended" /\ phase[d] = "ended" /\ request[c] = request[d]
        /\ outcome[c] # "incomplete_policy"
        /\ Available(c, Selected(c)) = Available(d, Selected(c))
        => outcome[c] = outcome[d]

(* An explained selection accounts for every other group of the policy, and says *)
(* workload_mapped_elsewhere only of a group that could have served the request. *)
EveryOtherGroupExplained ==
    \A c \in Calls : outcome[c] = "selected" =>
        /\ DOMAIN rejected[c] = IF explain[c] THEN doc.groups \ {Selected(c)} ELSE {}
        /\ \A g \in DOMAIN rejected[c] :
              rejected[c][g] = "workload_mapped_elsewhere"
                <=> /\ Suits(request[c], g, Rule(c).tools)
                    /\ g \in DOMAIN effective[c] /\ effective[c][g]

(* include_rejected_candidates changes how much is explained, never the decision *)
(* (docstring of route), and what is explained is complete and true.             *)
ExplanationDecidesNothing == DecidesAlike /\ EveryOtherGroupExplained
===============================================================================
