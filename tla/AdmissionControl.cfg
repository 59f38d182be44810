\* Governance kills, restores, revokes and loses the projection while calls are in flight.
SPECIFICATION FairSpec
CONSTANTS
    r1 = r1
    r2 = r2
    r3 = r3
    a1 = a1
    a2 = a2
    ag1 = ag1
    g1 = g1
    g2 = g2
    NoAuth = NoAuth
    Requests = {r1, r2}
    Auths <- TwoAuths
    Agents = {ag1}
    Groups = {g1, g2}
    AgentOf <- MCAgentOf
    Version <- MCVersion
    NotBefore <- MCNotBefore
    ExpiresAt <- MCExpiresAt
    Scope <- MCScope
    Second = 1
    ClockSkew = 0
    Drifts <- Exact
    ControlStates <- KillAndRevoke
    MaxResends = 0
    MaxTime = 3
INVARIANTS
    KillSwitchCutoff
    DenialSpendsNothing
    EvidenceNeverOverstates
PROPERTIES
    EveryCallAnswered
