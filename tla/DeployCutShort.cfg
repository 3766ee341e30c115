SPECIFICATION WizardSpec
CONSTANTS
    Requests = {q1}
    MaxMishaps = 2
    Line = 1
CHECK_DEADLOCK FALSE
INVARIANTS
    RollsBackToWhatRan
