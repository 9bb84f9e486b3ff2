SPECIFICATION Spec
PROPERTIES
    NothingStuck
    SteadyIsUsed
    LetGo
CHECK_DEADLOCK FALSE
