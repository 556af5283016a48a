\* One fault: a crash, a stop, a lane that dies, a cleanup that fails or an expiry.
SPECIFICATION FairSpec
CONSTANTS
    Notes <- Three
    MaxJobs = 3
    MaxAttempts = 2
    Capacity = 2
    MaxFaults = 1
    NoNote = NoNote
ACTION_CONSTRAINT NotesInOrder
\* An idle service waits for its clients.
CHECK_DEADLOCK FALSE
INVARIANTS
    SpentOnce
    PublishedHasFiles
PROPERTIES
    OldAttemptIsSilent
    JobsEnd
