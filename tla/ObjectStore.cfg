\* Three calls over one digest and one dense id, two media types.
SPECIFICATION Spec
CONSTANTS
    Writers = {w1, w2, w3}
    Digests = {d1}
    MediaTypes = {audio, text}
    DenseIds = {z1}
SYMMETRY Alike
INVARIANTS
    RegisteredIntact
    RecordsBacked
    ClosedWhenQuiet
PROPERTIES
    AcceptedIsExact
CHECK_DEADLOCK FALSE
