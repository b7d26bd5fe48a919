SPECIFICATION AlgorithmsSpec
CONSTANTS
    Streams <- MCStreams
    Limits = {0, 1, 2, 4}
    Families <- MCFamilies
    CodeSizes <- MCCodeSizes
    FlagValues <- MCFlagValues
    FlagExpressions <- Expressions
    FlagFamilies <- MCFlagFamilies
\* One evaluation each: a behaviour ends when it is done.
CHECK_DEADLOCK FALSE
INVARIANTS
    EvaluatorsAgree
    RuleOrderIrrelevant
    OutputExact
    SpellingsAgree
    FunctionFits
