SPECIFICATION Spec
CONSTANTS
    asks1 = asks1
    asks2 = asks2
    other = other
    NoClient = NoClient
    Clients <- ClientsDef
    command <- commandDef
    MaxConfigures = 2
    MaxDepth = 1
    Circumstances = {}
INVARIANTS OneCopy WaitEnds
PROPERTIES ZeroMeansConfigured EveryClientAnswered
