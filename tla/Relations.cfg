SPECIFICATION Spec
CONSTANTS
    s1 = s1
    s2 = s2
    t1 = t1
    t2 = t2
    Units = {s1, s2, t1, t2}
    ArmOf <- MCArmOf
    Contracts <- MCContracts
    Specs <- MCSpecs
    EvidenceOf <- MCEvidenceOf
    Scale = 4
    MaxUnits = 2
    MaxEdges = 4
    MaxProjections = 2
    MaxComparisons = 1
    MaxOutcomes = 1
    MaxInvalidations = 1
    MaxFailures = 1
INVARIANTS NoSilentDrop MatchesPay TwinsAlike Mirrored AssertionsAccepted
CHECK_DEADLOCK FALSE
