CONSTANTS
\* The door: four attempts for two slots and two places per address; the
\* watermark equals the limit, so that both refuse.
    c1 = c1 c2 = c2 c3 = c3 c4 = c4 a = a
    Conns = {c1, c2, c3, c4}
    Ips = {a}
    peer_ip <- MCPeers
    NoIp = NoIp
    NoShed = NoShed
    max_connections = 2
    max_connections_per_ip = 2
    shed_at_connections = 2
\* The wire: a byte has 128 values, words have 2, 3 and 4 of them.
    BYTE = 128 W16 = 2 W32 = 3 W64 = 4 WUUID = 2
    Fail = Fail
    None = None
    MAX_FRAME = 200
    MAX_ARRAY = 2
    MAX_MAP = 2
    MAX_BATCH = 2
    MAX_ROWS = 2
    UuidStrings <- MCUuids
    MAX_SAFE = 1000000
    Departures = FALSE
\* Authorisation: two connections, two shards of two rows, pages of one row and
\* polls of as many records as the log holds.
    Clients = {1, 2}
    Scanners = {1}
    Updaters = {1}
    ChangePollers = {2}
    Shards = 2
    MaxLocal = 2
    MaxWrites = 2
    InitialRows <- MCRows
    ScanLimit = 1
    PollLimit = 2
    LogCap = 2
    Identities <- MCIdentities
    Sessions <- MCSessions
    Rules <- MCRules
    MaxRules = 3
    Resources = {"t", "u"}
    Subjects = {"ann", "bob"}
    Nobody = Nobody
    NoRow = NoRow
    Gone = Gone
    NoOp = NoOp
    NoScan = NoScan
\* Frames: three requests in one, two or three frames.
    FrameOps <- MCFrameOps
    FrameIds = {1, 2, 3, 4, 5}
    FrameTokens = {"tb", NoToken}
    FrameTables <- MCFrameTables
    MaxFrameOps = 3
    MidTokens = FALSE
    NoKey = NoKey
    NoToken = NoToken
    NoFrame = NoFrame
\* Procedures: two calls among two deployments and one other commit.
    Envelopes <- MCReturnEnvelopes
    Builtins = {"abs", "coalesce"}
    LateFunctions = {"late"}
    Callers = {1, 2}
    VarNames <- MCVars
    Args <- MCArgs
    Ids = {1, 2, 3}
    ProcRows <- MCProcRows
    Columns = {"n", "m"}
    MaxDeploys = 2
    MaxOther = 1
    DEFAULT_FUEL = 6
    MAX_DEPLOY_STEPS = 5
    MAX_DEPLOY_DEPTH = 1
    MAX_LITERAL = 4
    NoProc = NoProc
    NoProcRow = NoProcRow
\* Posts: two requests, three posts, two words indexed per post, two postings
\* per word; a queue of one job and two timeline rows per post.
    Posters = {1, 2}
    Posts = {1, 2, 3}
    Authors = {"a"}
    Bodies <- MCBodies
    FollowTables = {1, 2}
    Followings <- MCFollowings
    MaxFollowings = 3
    MaxDeletes = 1
    MaxRestarts = 1
    MAX_TERMS = 2
    POSTING_CAP = 2
    MAX_HITS = 2
    FANOUT_QUEUE = 1
    FANOUT_PER_POST_CAP = 2
    NoPost = NoPost
    NoDeque = NoDeque
    NoTask = NoTask
\* Notifications: two threads and two rows, two events and deltas kept.
    RowCallers = {1, 2}
    MaxRows = 2
    RowColumns = {"k"}
    Subscribers = {1}
    Filters <- MCFilters
    Listeners = {1}
    EventFilters <- MCEventFilters
    MaxToggles = 1
    MaxDrains = 1
    max_history = 2
    max_log_size = 2
    Unrestricted = Unrestricted
    Off = Off
    NoCall = NoCall
SPECIFICATION ProcSpec
INVARIANT RunsAsDocumented
CHECK_DEADLOCK FALSE
