SPECIFICATION MCSpec
CONSTANTS
    ChoiceRequests = {c}
    DecisionRequests = {d}
    MaxChanges = 3
    MaxCompletions = 1
INVARIANTS ClaimsFit AtMostOneAnswer
PROPERTY GraceIsFixed
CHECK_DEADLOCK FALSE
