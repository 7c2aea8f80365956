SPECIFICATION Spec
CONSTANTS
    p1 = p1   n1 = n1  n2 = n2  d1 = d1  d2 = d2  d3 = d3
    Requests <- MCFewRequests
    CommandOf <- MCCommandOf
    PriorityCommands <- MCPriorityCommands
    NormalCommands <- MCNormalCommands
    Concurrency = 1
PROPERTIES EveryPromiseSettles ImplementsService
CHECK_DEADLOCK FALSE
