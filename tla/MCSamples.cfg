SPECIFICATION MCSpec
CONSTANTS
    MaxCount = 10
    Count = 10
    MaxAccidents = 2
    Size = 7
    \* Narrower than some fields and wider than others.
    Width = 4
    \* Single bits, whole bytes, the 40 to 50 of the source and its neighbours, and
    \* marks in, at and behind the end of the record.
    Marks = {0, 2, 7, 8, 15, 40, 43, 50, 55, 56, 58, 63, 64, 200, 255}
\* A sample ends, or its consumer waits for ever.
CHECK_DEADLOCK FALSE
INVARIANTS
    SleepsOnlyOnEmpty
    NeverPopsEmpty
    EndsByAccidentOnly
    FillsTheMarkedBits
    OneByteBeyondAtMost
PROPERTIES
    LostNotificationsAreSurvived
