\* Two calls race for one authorization across its expiry, with resent commands.
SPECIFICATION Spec
CONSTANTS
    r1 = r1
    r2 = r2
    r3 = r3
    a1 = a1
    a2 = a2
    ag1 = ag1
    g1 = g1
    g2 = g2
    NoAuth = NoAuth
    Requests = {r1, r2}
    Auths <- OneAuth
    Agents = {ag1}
    Groups = {g1, g2}
    AgentOf <- MCAgentOf
    Version <- MCVersion
    NotBefore <- MCNotBefore
    ExpiresAt <- MCExpiresAt
    Scope <- MCScope
    Second = 2
    ClockSkew = 2
    Drifts <- Behind
    ControlStates <- AlwaysPermitted
    MaxResends = 1
    MaxTime = 5
INVARIANTS
    LiveSingleUse
    ConsumptionsSpaced
    RoutedOnOwnGrant
    ReplayDeniedHasCause
PROPERTIES
    ImplementsLedger
