SPECIFICATION Spec
CONSTANTS
    Settle = 2
    Horizon = 5
    MaxLog = 5
INVARIANTS
    SettledIffHeld
    OnlyTheLastVerdictHolds
    TrackerIsLastRun
CHECK_DEADLOCK FALSE
