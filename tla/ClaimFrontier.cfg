SPECIFICATION Spec
CONSTANTS
    Slots = 2
    MaxSeq = 15
    MaxOrder = 12
    RetainedLimit = 4
    Cap = 8
    Headroom = 2
    MaxCrashes = 1
CHECK_DEADLOCK FALSE
INVARIANTS  AccountingExact
PROPERTIES MarkerSurvives RecordTells BootEnds
