SPECIFICATION RenderSpec
CONSTANTS
    s1 = s1
    s2 = s2
    b1 = b1
    b2 = b2
    Loops = {s1, s2}
    Renderers = {}
    KindTypes = {""}
    Replicas <- MCReplicas
    Request <- MCRequest
    Ref <- MCRef
    FirstSpecs <- MCFirstSpecs
    LaterSpecs <- MCLaterSpecs
    Keys = {1, 2, 3, 4, 5, 6}
    MaxTemplate = 1
    Budget <- MCBudget
    MaxFaults = 2
INVARIANTS KeyCustody KeyPair
PROPERTY KeyNeverReplaced
CHECK_DEADLOCK FALSE
