SPECIFICATION Spec
CONSTANTS
    NumCandidates = 2
    LastPort = 3
    MaxAttempts = 2
    None = none
INVARIANTS
    ChoiceUnambiguous
    HealthyAfterBootstrap
    PortJustified
    SuggestionJustified
    FirstHealthySaved
    DoctorZeroMeansAll
    DInv
CHECK_DEADLOCK FALSE
