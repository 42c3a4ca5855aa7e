SPECIFICATION HttpSpec
CONSTANTS
    Kinds <- MCKinds
    Answers <- MCAnswers
    MaxResponse = 27
INVARIANTS
    CutIsNoticed
    WholeIsTaken
PROPERTIES
    EndsInTime
CHECK_DEADLOCK FALSE
