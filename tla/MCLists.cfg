SPECIFICATION Spec
CONSTANTS
    Nodes = {x1, x2, x3}
    NULL = NULL
    Tasks <- SomeTasks
    Keys <- SomeKeys
INVARIANTS
    LinksAreLive
    CountIsLength
PROPERTIES
    ImplementsTaskList
    CallsEnd
CHECK_DEADLOCK FALSE
