\* All migrations up and down beside instances of this repository's binary.
SPECIFICATION Spec
CONSTANTS
    Events = {e1, e2}
    Legacy = {e1}
    Ids = {i1, i2}
    Sessions = {s1, s2}
    Binaries = {3}
    MaxGen = 1
    NoRow = NoRow
SYMMETRY Symmetry
INVARIANTS RequestIdsDurable RecoveryNeverErased
PROPERTY TooNewBinaryIdle
