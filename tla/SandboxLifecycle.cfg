SPECIFICATION Spec
CONSTANTS
    ReadinessTimeout = 6
    PollInitialDelay = 1
    PollMaxDelay = 3
    MaxRequest = 1
    MaxSteps = 1
    Callers = {c1, c2}
    MaxSessionPages = 2
    PageSize = 1
    MaxSessions = 3
CHECK_DEADLOCK FALSE
INVARIANTS
    TemplateFromBuild
    WaitBounded
    NoticedInTime
    SessionsWhole
PROPERTIES
    HandleAdvances
    CreationEnds
