SPECIFICATION Spec
CONSTANTS
    r1 = r1
    r2 = r2
    o1 = o1
    o2 = o2
    Reconcilers = {r1, r2}
    Observers = {o1, o2}
    Replicas <- MCTwoReplicas
    Docs <- MCOneJob
    RetrySteps = 2
    Budget <- MCEach
    MaxFaults = 1
    Key = Key
    None = None
PROPERTIES StatusMonotone FailureSticks
