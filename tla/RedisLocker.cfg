SPECIFICATION FairLockSpec
CONSTANTS
    Procs = {p1, p2, p3}
    Keys = {k1, k2}
    None = None
INVARIANTS LockTypeOK LeaseInv InLeaseExclusion
PROPERTIES LockFreed ImplementsLocker
