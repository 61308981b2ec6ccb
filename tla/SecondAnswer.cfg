SPECIFICATION Spec
CONSTANTS
    ChoiceRequests = {c}
    DecisionRequests = {d}
    MaxChanges = 2
    MaxCompletions = 1
INVARIANTS
    NeverASecondAnswer
CHECK_DEADLOCK FALSE
