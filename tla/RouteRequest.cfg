\* Every header, key and code at every stage; identifiers the evidence contract can carry.
SPECIFICATION CallSpec
CONSTANTS
    Identifiers = {"plain"}
    Correlations = {"absent", "oversized", "plain", "edged"}
    GroupLengths = {1, 20, 100}
INVARIANTS
    ThrottledThenAuthenticated
    EvidenceJoinsAnswer
    MetricsMatchAnswer
    DenialIsEnveloped
