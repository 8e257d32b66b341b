SPECIFICATION Spec
CONSTANTS
    Ids <- MCIds
    Types <- MCTypes
    Relations <- MCRelations
    LineageRelations <- MCLineageRelations
    Bodies <- MCBodies
    Documents <- MCUnlistedDocuments
    Acquisition = "AcquisitionEvent"
    NoRecord = NoRecord
    MaxEvents = 2
    MaxEdges = 5
INVARIANT EdgesListed
