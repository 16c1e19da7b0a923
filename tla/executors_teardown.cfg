SPECIFICATION Spec
CONSTANTS
    t1 = t1
    NoThread = NoThread
    Tasks = {t1}
    Kinds = {"trigger"}
    Entries = 2
    MaxCaptures = 2
INVARIANTS CaptureOwned
CHECK_DEADLOCK FALSE
