SPECIFICATION Spec
CONSTANTS
    Objects <- MCObjects
    Originals <- MCLineage
    Governors = {g1, g2}
    Users = {}
    Authorities = {named, stranger}
    Named = {named}
    Requests = {"correct"}
    Permitted <- MCPermitted
    Outcomes = {"upheld", "denied"}
    Plans <- MCFeasibleOrNot
    MaxCases = 3
INVARIANTS
    TypeOK
    
    EventsExplained
    PropagationComplete
    
PROPERTY
    DecisionsReachAll
