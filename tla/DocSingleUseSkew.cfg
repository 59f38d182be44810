\* A replay that arrives inside the clock skew, after the replay key lapsed.
SPECIFICATION FairSpec
CONSTANTS
    r1 = r1
    r2 = r2
    r3 = r3
    a1 = a1
    a2 = a2
    ag1 = ag1
    g1 = g1
    g2 = g2
    NoAuth = NoAuth
    Requests = {r1, r2}
    Auths <- OneAuth
    Agents = {ag1}
    Groups = {g1, g2}
    AgentOf <- MCAgentOf
    Version <- MCVersion
    NotBefore <- MCNotBefore
    ExpiresAt <- MCExpiresAt
    Scope <- MCScope
    Second = 1
    ClockSkew = 1
    Drifts <- Exact
    ControlStates <- AlwaysPermitted
    MaxResends = 0
    MaxTime = 4
PROPERTIES
    LaterReplayDenied
