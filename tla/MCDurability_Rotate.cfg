\* Two writers, snapshots that may fail, rotations, a crash.
CONSTANTS
    c = c
    i32 = i32
    i64 = i64
    s = s
    Null = Null
    Gone = Gone
    Partial = Partial
    Cols = {c}
    Vals = {i32, i64, s}
    Typed = {i32, i64, s}
    Schema <- MCSchema
    Json <- MCJson
    RowInputs <- MCRows
    Writers = {w1, w2}
    Serialised = TRUE
    Starting = {"periodic", "rotate"}
    Overlap = FALSE
    SnapshotFails = TRUE
    ChanCap = 1
    MaxId = 2
    MaxRequests = 3
    MaxEvents = 2
    MaxCrashes = 1
SYMMETRY WriterSymmetry
SPECIFICATION DurabilitySpec
INVARIANTS AckedSurvive
