CONSTANTS
    h1 = h1
    h2 = h2
    Handlers = {h1, h2}
    Entries <- TwoEntries
    Retries = 1
    TreeRequests = 2
    DownloadRequests = 2
    UploadRequests = 3
    MaxRequests <- Bounds
    MaxFailures = 1
SPECIFICATION Spec
INVARIANTS TypeOK NothingLost
PROPERTIES KeepsExisting TransferFaithful
SYMMETRY HandlerSymmetry
CHECK_DEADLOCK FALSE
