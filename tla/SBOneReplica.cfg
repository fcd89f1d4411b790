SPECIFICATION FairSpec
CONSTANTS
    r1 = r1
    o1 = o1
    Reconcilers = {r1}
    Observers = {o1}
    Replicas <- MCOneReplica
    NDocs = 2
    MaxSpec = 2
    RetrySteps = 2
    Budget <- MCEach
    MaxFaults = 1
    Key = Key
    None = None
INVARIANTS TypeOK NeverFalselyApplied
PROPERTIES EventuallyApplied RecordRepaired
