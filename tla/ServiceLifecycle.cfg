\* One call, two reloads and a rewrite of the policy file, in each configuration.
SPECIFICATION ServiceSpec
CONSTANTS
    c1 = c1
    t1 = t1
    t2 = t2
    Calls = {c1}
    Tasks = {t1, t2}
    MaxWrites = 1
    Environments <- MCEnvironments
INVARIANTS
    DeployedPosture
    ReadyServesLoadable
    StoppedReleasedClients
    DigestNamesDecider
    DecidedByCurrentPolicy
    SoleReloadTakesEffect
PROPERTIES
    ReadySurvivesHangup
    LifecycleSettles
