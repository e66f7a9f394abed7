\* The snapshot of the shutdown overlaps a periodic one.
CONSTANTS
    c = c
    i32 = i32
    i64 = i64
    s = s
    Null = Null
    Gone = Gone
    Partial = Partial
    Cols = {c}
    Vals = {i32, i64, s}
    Typed = {i32, i64, s}
    Schema <- MCSchema
    Json <- MCJson
    RowInputs <- MCRows
    Writers = {w1}
    Serialised = TRUE
    Starting = {"periodic", "shutdown"}
    Overlap = TRUE
    SnapshotFails = FALSE
    ChanCap = 1
    MaxId = 2
    MaxRequests = 3
    MaxEvents = 2
    MaxCrashes = 0
SPECIFICATION DurabilitySpec
INVARIANT AckedSurvive
