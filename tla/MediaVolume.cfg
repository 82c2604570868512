CONSTANTS
    Upload = {u1, u2}
    Old = m0
    Worker = {w1, w2}
    Content = {c0, c1}
    SampleSize = 1
    Null = Null
SPECIFICATION Spec
SYMMETRY Symmetry
CHECK_DEADLOCK FALSE
INVARIANTS VolumeInv NeverTruncated RowsBacked RemovedIsKept
