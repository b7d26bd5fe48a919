SPECIFICATION Spec
CONSTANTS
    Options <- MCOptions
    MaxKills = 1
CHECK_DEADLOCK FALSE
INVARIANTS
    AtMostOneCommand
    ResultExplained
    UnconfirmedIsTrue
    NothingLeftOver
PROPERTIES
    DetachedLeftAlone
    ContractHolds
    StoppedEnds
