SPECIFICATION SyncSpec
CONSTANTS
    Synced = {k1}
    Schedulers = {s1, s2}
    Minutes = 1
    SyncRequests = {}
    Syncers = {g1}
    SyncWorkerIds = {g1}
    SyncWorkerId <- MCSyncWorkerId
    SyncAttempts = 2
    SyncFaults = 1
    Readabilities = {}
    Nobody = Nobody
INVARIANT SelectionIsCommitted
