\* Appending behind a record that a crash cut.
CONSTANTS
    Payloads = {"p", "q"}
    Misses = {1, 2}
    Reuse = TRUE
    MaxSeq = 4
    MaxWalCrashes = 2
SPECIFICATION WalSpec
INVARIANT SyncedReadable
