CONSTANTS
    h1 = h1
    h2 = h2
    Handlers = {h1}
    Entries <- TwoEntries
    Retries = 1
    TreeRequests = 0
    DownloadRequests = 2
    UploadRequests = 0
    MaxRequests <- Bounds
    MaxFailures = 1
SPECIFICATION Spec
INVARIANTS KeptPartResumes
CHECK_DEADLOCK FALSE
