SPECIFICATION Spec
CONSTANTS
    Processes = {p1, p2}
    b = b
    v1 = v1
    v2 = v2
    named = named
    stranger = stranger
    None = None
    study = study
    Boundaries = {b, study}
    PermittedActions <- MCPermitted
    MutableFields <- MCMutable
    HumanActions <- MCHuman
    Approvers <- MCApprovers
    Ceiling <- MCCeiling
    Authorities = {named, stranger}
    Values = {v1, v2}
    InitialStates <- MCStates
    ActionLists <- MCLists
    Proposals <- MCProposals
    Requests <- MCRequests
    Answers <- MCAnswers
    Imported = {}
    MaxHarnesses = 1
    MaxPayloads = 1
    MaxTreatments <- MCMaxTreatments
    MaxPlans <- MCMaxPlans
    MaxDecisions <- MCMaxDecisions
    MaxClaims = 1
    MaxFailures = 1
INVARIANTS
    Lineage
    SuccessorsPermitted
    
    StudyHonest
SYMMETRY Symmetry
CHECK_DEADLOCK FALSE
