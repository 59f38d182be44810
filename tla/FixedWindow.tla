----------------------------- MODULE FixedWindow ------------------------------
(* What a fixed-window rate limiter promises: ADR-0008 says that the Redis      *)
(* limiter mirrors the fixed-window semantics of the in-memory one exactly, so  *)
(* that switching backends changes nothing.  Both are shown to implement this.  *)
EXTENDS Integers, Sequences, FiniteSets

CONSTANTS
    Keys,        \* rate-limit keys: "ip:host" or "host:agent"
    MaxRequests, \* requests a key may make in one window
    Window,      \* length of a window
    Capacity,    \* keys that are never forgotten to make room for others
    Strays       \* counts a key may be found with before its first window

NotOpen == -1

VARIABLES
    time,
    used,        \* used[k]: hits counted against k now
    opened,      \* opened[k]: when the window of k opened
    log          \* every hit: its key, its time and whether it was allowed

window == <<time, used, opened, log>>

WindowInit ==
    /\ time = 0
    /\ used \in [Keys -> {0} \cup Strays]
    /\ opened = [k \in Keys |-> NotOpen]
    /\ log = <<>>

(* With k, Capacity keys have been hit since j was hit for the last time.       *)
Crowded(j, k) ==
    LET since == {i \in 1..Len(log) : \A h \in i..Len(log) : log[h].key # j}
    IN Cardinality({log[i].key : i \in since} \cup {k}) >= Capacity

(* A hit counts whether or not it is allowed.  It may push out keys that        *)
(* Capacity others were hit after.                                              *)
Hit(k) ==
    \E forgotten \in SUBSET {j \in Keys \ {k} : opened[j] # NotOpen /\ Crowded(j, k)} :
        /\ used' = [j \in Keys |-> IF j = k THEN used[j] + 1
                                   ELSE IF j \in forgotten THEN 0 ELSE used[j]]
        /\ opened' = [j \in Keys |-> IF j = k /\ opened[j] = NotOpen THEN time
                                     ELSE IF j \in forgotten THEN NotOpen ELSE opened[j]]
        /\ log' = Append(log, [key |-> k, at |-> time, ok |-> used[k] < MaxRequests])
        /\ UNCHANGED time

(* A window closes when its length has passed, whatever was hit in it.          *)
Elapse ==
    LET closes(k) == opened[k] # NotOpen /\ time + 1 - opened[k] >= Window IN
    /\ time' = time + 1
    /\ used' = [k \in Keys |-> IF closes(k) THEN 0 ELSE used[k]]
    /\ opened' = [k \in Keys |-> IF closes(k) THEN NotOpen ELSE opened[k]]
    /\ UNCHANGED log

WindowSpec == WindowInit /\ [][Elapse \/ \E k \in Keys : Hit(k)]_window

Admitted(k, from, to) ==
    {i \in 1..Len(log) : log[i].key = k /\ log[i].ok /\ log[i].at \in from..to}

OthersHit(k, from, to) ==
    {j \in Keys \ {k} : \E i \in 1..Len(log) : log[i].key = j /\ log[i].at \in from..to}

(* A stretch of one window's length meets two windows at most, and of the first  *)
(* it misses the hit that opened it: the end of one and the start of the next    *)
(* admit one less than twice the limit, unless so many other keys are hit in the *)
(* stretch that the key may be forgotten.                                        *)
AtMostTwoWindows ==
    \A k \in Keys : \A t \in 0..time :
        Cardinality(OthersHit(k, t, t + Window - 1)) < Capacity =>
            Cardinality(Admitted(k, t, t + Window - 1)) <= 2 * MaxRequests - 1

(* A refusal is earned: within the window before it the key was admitted        *)
(* MaxRequests times.  Refused hits never prolong a refusal.                    *)
RefusalEarned ==
    \A i \in 1..Len(log) : ~log[i].ok =>
        Cardinality(Admitted(log[i].key, log[i].at - Window + 1, log[i].at)) >= MaxRequests
===============================================================================
