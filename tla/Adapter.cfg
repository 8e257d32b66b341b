SPECIFICATION Spec
CONSTANTS
    Importers = {p}
    Clients = {c1, c2}
    Arrays = {d1}
    x = x
    y = y
    values = values
    others = others
    NoBytes = NoBytes
    Surface <- MCSurface
    Inputs <- MCInputs
    Policies <- MCPolicies
    Captures <- MCCaptures
    Maxima = {1, 2}
    MaxEvents = 6
    MaxAnswers = 1
    Sealers = {}
    Names = {}
    Authority <- MCAuthority
    Told = {}
INVARIANTS
    CapturesBacked
    CaptureWithinAperture
    CatalogueWhole
    OnlyAddressable
SYMMETRY Symmetry
CHECK_DEADLOCK FALSE
