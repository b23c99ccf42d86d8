CONSTANTS
    Events = {e1, e2}
    Legacy = {e1}
    Ids = {i1, i2}
    Sessions = {s1, s2}
    Binaries = {2}
    MaxGen = 1
    NoRow = NoRow
SPECIFICATION Spec
SYMMETRY Symmetry
INVARIANT RecoveryNeverErased
