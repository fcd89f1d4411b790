SPECIFICATION FairSpec
CONSTANTS
    r1 = r1
    r2 = r2
    o1 = o1
    o2 = o2
    Reconcilers = {r1}
    Observers = {o1}
    Replicas <- MCOneReplica
    Docs <- MCOneJob
    RetrySteps = 2
    Budget <- MCEachAndTouches
    MaxFaults = 2
    Key = Key
    None = None
INVARIANTS AppliedOnce TrackedOrInFlight
PROPERTIES EventuallyProcessed EventuallyReported
