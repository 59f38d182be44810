---------------------------- MODULE MCModelRouting ----------------------------
EXTENDS ModelRouting, TLC

CONSTANTS c1, c2, g1, g2, w1, w2

Able == [classes |-> {"internal"}, risks |-> {"high"}, structured |-> TRUE, tools |-> TRUE,
         window |-> 3, latency |-> 2, inputRate |-> 1, outputRate |-> 2,
         available |-> TRUE, agents |-> {}]

(* Profiles that fail any combination of the constraints MCRequest meets.        *)
Profiles ==
    [classes : {{"internal"}, {"public"}}, risks : {{"high"}, {"low"}},
     structured : BOOLEAN, tools : BOOLEAN, window : {2, 3}, latency : {2, 3},
     inputRate : {1}, outputRate : {2, 3}, available : {TRUE},
     agents : {{}, {"other"}}]

MCRequest(w) ==
    [workload |-> w, agent |-> "caller", class |-> "internal", risk |-> "high",
     structured |-> TRUE, input |-> 2, output |-> 1, latency |-> 2, cost |-> 4]

(* One workload mapped to g1, g2 in reserve: the constraints on g1.              *)
OneRule(p, q, tools) ==
    [groups |-> {g1, g2}, profile |-> g1 :> p @@ g2 :> q, staged |-> {g2},
     rule |-> w1 :> [group |-> g1, tools |-> tools]]
ConstraintDocuments == {OneRule(p, Able, TRUE) : p \in Profiles}
                         \cup {OneRule(p, [Able EXCEPT !.tools = FALSE], FALSE) : p \in Profiles}

(* Every shape of a policy over two workloads and two groups: the loader.        *)
ShapeDocuments ==
    {[groups |-> gs, profile |-> [g \in {g1, g2} |-> Able], staged |-> st, rule |-> rule] :
        gs \in SUBSET {g1, g2}, st \in SUBSET {g1, g2},
        rule \in UNION {[ws -> [group : {g1, g2}, tools : {FALSE}]] : ws \in SUBSET {w1, w2}}}

MCDocuments == ConstraintDocuments \cup ShapeDocuments
MCRequests == {MCRequest(w1), [MCRequest(w2) EXCEPT !.input = 3]}

Symmetry == Permutations(Calls)
===============================================================================
