SPECIFICATION Spec
CONSTANTS
    N = 4
\* A flag that is set from the start may block everybody.
CHECK_DEADLOCK FALSE
INVARIANTS
    OneHolderEach
    SomebodyCanMove
PROPERTIES
    FeastGoesOn
    FeastSpec
