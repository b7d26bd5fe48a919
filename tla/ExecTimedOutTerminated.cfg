SPECIFICATION Spec
CONSTANTS
    Options <- MCOptions
    MaxKills = 1
CHECK_DEADLOCK FALSE
INVARIANT TimedOutTerminated
