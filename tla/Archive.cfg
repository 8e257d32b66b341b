SPECIFICATION Spec
CONSTANTS
    Importers = {p}
    Sealers = {s1}
    Names = {n}
    x = x
    y = y
    NoBytes = NoBytes
    Surface <- MCSurface
    Inputs <- MCInputs
    Policies <- MCPolicies
    Authority <- MCAuthority
    MaxEvents = 3
    Told = {"apparatus"}
    Clients = {}
    Captures = {}
    Maxima = {}
    Arrays = {}
    MaxAnswers = 0
INVARIANTS
    AcquisitionsBacked
    AperturesWithin
    Snapshot
    BytesIncluded
    NoSilentOmission
PROPERTIES
    SealedForever
CHECK_DEADLOCK FALSE
