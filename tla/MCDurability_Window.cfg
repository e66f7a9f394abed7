\* A crash while a rotation replaces the cluster.
CONSTANTS
    c = c
    i32 = i32
    i64 = i64
    s = s
    Null = Null
    Gone = Gone
    Partial = Partial
    Cols = {c}
    Vals = {i32, i64, s}
    Typed = {i32, i64, s}
    Schema <- MCSchema
    Json <- MCJson
    RowInputs <- MCRows
    Writers = {w1, w2}
    Serialised = TRUE
    Starting = {"periodic", "shutdown", "rotate"}
    Overlap = FALSE
    SnapshotFails = FALSE
    ChanCap = 1
    MaxId = 2
    MaxRequests = 3
    MaxEvents = 1
    MaxCrashes = 0
SPECIFICATION DurabilitySpec
INVARIANT AckedSurviveAlways
