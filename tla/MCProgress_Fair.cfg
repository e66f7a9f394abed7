\* Commits: two transactions that write two rows without reading them, in any
\* order, and one write outside transactions.
CONSTANTS
    c = c
    a = a
    x = x
    Null = Null
    Cols = {c}
    Vals = {a, x}
    Typed = {a}
    Stripes = {1, 2}
    Txs = {t1, t2}
    RepeatableRead = {t1, t2}
    Checked = {}
    Schema <- MCPlain
    RowInputs <- MCValid
    InitTable <- MCTwoRows
    MaxId = 2
    MaxWrites = 2
    MaxReads = 0
    MaxDirect = 1
    stripe_index <- MCStripes
\* The log file: crashes that may cut the record being written.
    p = p
    q = q
    Payloads = {p, q}
    Misses = {1, 2}
    Reuse = FALSE
    MaxSeq = 4
    MaxWalCrashes = 2
\* The feed: two writers with one stream, or with one poller.  A channel of one
\* record and three records make the stream lag; a log of two records trims;
\* pages of one record.
    w1 = w1 w2 = w2 s1 = s1 p1 = p1
    Writers = {w1, w2}
    Streams = {s1}
    Pollers = {p1}
    Mixes <- MCMixes
    MAX_CHANGES_PER_TABLE = 2
    Capacity = 1
    Limit = 1
    MaxTs <- MCMaxTs
    MaxRecords = 3
\* Jobs: three submissions for two places in the store.
    NJobs = 3
    MAX_WASM_JOBS = 2
    MAX_WASM_BYTES = 1
    Guests <- MCGuests
    Retries <- MCRetries
    MemoryMax = 4
    InputLen = 1
    HostFails = TRUE
    Absent = Absent
    NoJob = NoJob
    Threads = {1, 2}
    SchedJobs = {"a", "b", "c"}
    Handler <- MCHandler
    Priority <- MCPriority
SPECIFICATION MCSpec
INVARIANTS WriteWriteRejected  SyncedReadable FeedFaithful
    StoreKeepsLive
PROPERTIES CommitTerminates ImplementsAppendLog EvictedEnds  TerminalIsFinal
