SPECIFICATION Spec
CONSTANTS
    Timers = {a}
    MaxDuration = 2
    MaxCount = 3
    MaxLag = 2
    None = None
PROPERTIES
    StopsItselfAfterItFires
