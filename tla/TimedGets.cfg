SPECIFICATION FairGetsSpec
CONSTANT
    Programs <- MCPrograms
INVARIANT
    Answers
PROPERTIES
    Quiet
    InTime
\* the program exits
CHECK_DEADLOCK FALSE
