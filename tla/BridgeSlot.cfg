CONSTANTS
    Ops = {"observe", "disband", "move"}
    DialogKinds = {}
    MaxRequests = 5
    MaxDialogs = 0
SPECIFICATION Spec
INVARIANTS
    ExecutedOnce
    AnsweredByItself
    AcceptedOnce
CHECK_DEADLOCK FALSE
