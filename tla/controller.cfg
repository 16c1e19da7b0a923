SPECIFICATION FairSpec
CONSTANTS
    r1 = r1
    r2 = r2
    None = None
    Requests = {r1, r2}
    Snapshots = {r2}
    MaxDrops = 1
INVARIANTS TypeOK QuietClose NoDangling OneAnswer
  
CHECK_DEADLOCK FALSE
