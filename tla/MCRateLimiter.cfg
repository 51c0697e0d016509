SPECIFICATION Spec
CONSTANTS
    Tick    = 40
    MaxRate = 200
    Burst   = 2
    Steps     <- MCSteps
    StepBacks <- MCStepBacks
    MaxNow  = 520
    MaxBack = 80
INVARIANTS
    TypeOK
    WindowBound
    DebtBounded
PROPERTY
    RetryHonoured
