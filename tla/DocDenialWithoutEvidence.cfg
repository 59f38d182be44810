\* Identifiers and groups that the request and policy contracts admit.
SPECIFICATION EvidenceSpec
CONSTANTS
    Identifiers = {"plain", "blank"}
    Correlations = {"plain", "blank"}
    GroupLengths = {20, 101}
INVARIANTS
    EveryDenialHasEnvelope
