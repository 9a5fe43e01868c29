SPECIFICATION TasksFairSpec
CONSTANT MaxStarts = 3
INVARIANTS
    ResultsAreOfOneRun
    SaidToBeOverIsOver
PROPERTIES
    UiComesBack
CHECK_DEADLOCK FALSE
