CONSTANTS
    Ops = {"observe", "respond", "move"}
    DialogKinds = {"move"}
    MaxRequests = 3
    MaxDialogs = 1
SPECIFICATION FairSpec
PROPERTIES
    AnswerIsTaken
CHECK_DEADLOCK FALSE
