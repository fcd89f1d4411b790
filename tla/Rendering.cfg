SPECIFICATION RenderFairSpec
CONSTANTS
    s1 = s1
    a1 = a1
    b1 = b1
    Loops = {s1, a1}
    Renderers = {s1, a1}
    KindTypes = {"", "Pod"}
    Replicas <- MCReplicas
    Request <- MCRequest
    Ref <- MCRef
    FirstSpecs <- MCFirstSpecs
    LaterSpecs <- MCLaterSpecs
    Keys = {1, 2, 3, 4, 5, 6}
    MaxTemplate = 2
    Budget <- MCBudget
    MaxFaults = 1
INVARIANTS TypeOK KeyCustody KeyPair ScriptOfOperation ManifestKeys SecretsCoverVars KindsAsPublished
PROPERTIES KeyNeverReplaced EventuallyServed
CHECK_DEADLOCK FALSE
