SPECIFICATION Spec
CONSTANTS
    Objects <- MCObjects
    Originals <- MCSourceOnly
    Governors = {g1}
    Users = {}
    Authorities = {named}
    Named = {named}
    Requests = {"revoke", "release_pause"}
    Permitted <- MCPermitted
    Outcomes = {"upheld"}
    Plans <- MCFeasible
    MaxCases = 6
INVARIANT RevocationHolds
