SPECIFICATION Spec
CONSTANTS
    Ids <- MCIds
    Types <- MCTypes
    Relations <- MCLineageRelations
    LineageRelations <- MCLineageRelations
    Bodies <- MCBodies
    Documents <- MCDocuments
    Acquisition = "AcquisitionEvent"
    NoRecord = NoRecord
    MaxEvents = 2
    MaxEdges = 5
INVARIANTS
    ClosedWorkspace
    EventsGapless
    AcquisitionOrder
    
PROPERTY
    ImplementsLog
