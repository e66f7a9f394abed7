\* Two writers update the same row at once.
CONSTANTS
    c = c
    i32 = i32
    i64 = i64
    s = s
    Null = Null
    Gone = Gone
    Partial = Partial
    Cols = {c}
    Vals = {i32, i64, s}
    Typed = {i32, i64, s}
    Schema <- MCSchema
    Json <- MCJson
    RowInputs <- MCRows
    Writers = {w1, w2}
    Serialised = FALSE
    Starting = {"periodic", "shutdown", "rotate"}
    Overlap = FALSE
    SnapshotFails = FALSE
    ChanCap = 3
    MaxId = 2
    MaxRequests = 3
    MaxEvents = 0
    MaxCrashes = 0
SPECIFICATION DurabilitySpec
INVARIANT DiskMatchesMemory
