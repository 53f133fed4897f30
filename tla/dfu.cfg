SPECIFICATION Spec
CONSTANTS
    Blocks = 2
    Kinds <- MCKinds
    Buses <- MCBuses
    Wanted <- MCWanted
    MaxFaults = 2
    MaxRuns = 2
INVARIANTS OutcomeIsTrue
PROPERTIES ManifestsWhole Ends Completes
CHECK_DEADLOCK FALSE
