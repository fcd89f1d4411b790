SPECIFICATION Spec
CONSTANTS
    r1 = r1
    r2 = r2
    o1 = o1
    o2 = o2
    Reconcilers = {r1}
    Observers = {o1}
    Replicas <- MCOneReplica
    Docs <- MCDocs
    RetrySteps = 2
    Budget <- MCEach
    MaxFaults = 1
    Key = Key
    None = None
INVARIANTS TypeOK ProcessedMeansApplied TrackedOrInFlight
