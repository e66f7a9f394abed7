\* Two threads, two table objects under one name, one unique column that an
\* insert must give: row operations race with create_table and drop_table.
CONSTANTS
    u = u
    Null = Null
    Cols = {u}
    Schema <- MCSchema
    Vals = {a}
    Typed = {a}
    Threads = {t1, t2}
    Names = {posts}
    MaxTables = 2
    MaxId = 2
\* Queries over tables of up to three rows; a float counts in sixths.
    QueryRows <- MCQueryRows
    Queries <- MCQueries
    MaxQueryRows = 3
    SIGN = 1000
    UNIT = 6
    NoFilter = NoFilter
    NoQuery = NoQuery
\* Indexes of three rows; a pool of two objects; two threads and four calls of
\* the search engine, an id indexed again only after its removal.
    IndexValues <- MCIndexValues
    IndexRows = {1, 2, 3}
    NoValue = NoValue
    PoolInitial = 1
    PoolMax = 2
    MaxMade = 4
    SearchThreads = {1, 2}
    SearchDocs <- MCSearchDocs
    ShortWords = {"a"}
    MaxSearchOps = 4
    Reindex = FALSE
    NoDoc = NoDoc
\* Stores: four entries of a log; four calls of the facades, two routes.
    StoreRows <- MCStoreRows
    StoreColumns <- MCStoreColumns
    MAX_I64 = 7
    MaxLogged = 4
    MaxStoreOps = 4
    MaxRoutes = 2
    Paths = {"/a"}
    Handlers = {1, 2}
    NoStore = NoStore
    NoSnap = NoSnap
    NotFound = NotFound
\* The replicator keeps two of four operations; two nodes know up to three.
    Peers = {1}
    max_oplog_size = 2
    MaxAppends = 4
    MaxLeaves = 1
    Members = {1, 2, 3}
    Views = {1, 2}
    Unknown = Unknown
SYMMETRY ThreadSymmetry
SPECIFICATION MCSpec
INVARIANTS TypeOK IndexConsistent NextIdFresh
    QueriesRight  SearchExact   ReplicasFollow
PROPERTY ImplementsUniqueTables
