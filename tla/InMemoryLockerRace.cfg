SPECIFICATION Spec
CONSTANTS
    Procs = {p1, p2}
    Keys = {k1}
    None = None
INVARIANT MutualExclusion
