SPECIFICATION MCSpec
CONSTANTS
    p1 = p1
    p2 = p2
    p3 = p3
    f1 = f1
    here = here
    there = there
    Process <- MCProcess
    HostOf <- MCHostOf
    PidOf <- MCPidOf
    Inode <- MCInode
    Attempts = 2
    NoDir = NoDir
    Nobody = Nobody
    j1 = j1
    j2 = j2
    Jobs <- MCJobs
    Runner = {w1, w2}
    MaxMishaps = 0
    NoJob = NoJob
    x = x
    y = y
    z = z
    nx = nx
    nz = nz
    StoredRecord <- MCStoredRecord
    NameOf <- MCNameOf
    Recorder = {k1, k2}
    Lister = {l1}
    WriteFaults = 1
    Missing = Missing
    Begun = Begun
    NoRecord = NoRecord
    Parts = {"training"}
PROPERTIES NotTrainedTwice
CHECK_DEADLOCK FALSE
