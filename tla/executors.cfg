SPECIFICATION FairSpec
CONSTANTS
    t1 = t1
    NoThread = NoThread
    Tasks = {t1}
    Kinds = {"scan", "repeating", "trigger", "decimated"}
    Entries = 2
    MaxCaptures = 2
INVARIANTS TypeOK OneReader CapturesFed 
PROPERTIES ExecutorsEnd
CHECK_DEADLOCK FALSE
