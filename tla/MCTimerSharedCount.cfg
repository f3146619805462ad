SPECIFICATION Spec
CONSTANTS
    Timers = {a, b}
    MaxDuration = 0
    MaxCount = 1
    MaxLag = 0
    None = None
INVARIANTS
    FiresAtMost
