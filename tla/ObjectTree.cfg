CONSTANTS
    MaxInstance = 2
    ObjectOp = {"get", "put", "post"}
    FirstTree <- MCFirstTree
    Templates <- MCTemplates
    AppValues <- MCAppValues
    Requests <- MCRequests
    Careless = {}
    MaxSteps = 2
    MaxTokens = 2
SPECIFICATION Spec
CHECK_DEADLOCK FALSE
INVARIANTS PathsMatchTree  
