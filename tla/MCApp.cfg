SPECIFICATION Spec
CONSTANTS
    Names = {"a", "b"}
    MaxObjs = 5
    MaxEngines = 5
    MaxTasks = 2
    Ports = {"p", "q"}
    MaxServers = 6
    Workers = {"w"}
    Budgets <- MCBudgets
    Starting <- MCSettings
    Projects <- MCProjects
CHECK_DEADLOCK FALSE
INVARIANT SessionsFindEngine
INVARIANT HostInStep
