SPECIFICATION TabsSpec
CONSTANTS
    Letters = {"a", "b"}
    ReplaceIds = {r1, r2}
    InterceptIds = {i1, i2}
    ReplaceForms <- MCReplaceForms
    InterceptForms <- MCInterceptForms
    Versions = {"no_apply", "raises"}
    Sessions = {"s1", "s2"}
    Indices = {0, 1}
    MaxEdits = 4
    MaxFrames = 2
    MaxScripts = 1
    Books = {"p", "q"}
    FrameIds = {"f1", "f2", "f3"}
    Texts = {"", "one", "two", "new", "bad", "unborn"}
    Typed = {"new", "bad"}
    Opened <- MCOpened
    Unborn = "unborn"
    Bad = "bad"
    MaxOps = 4
    MaxTasks = 2
    MaxQueued = 2
CHECK_DEADLOCK FALSE
INVARIANT RestartChangesNothing
INVARIANT EditsStay
INVARIANT RunsAreFaithful
PROPERTY ClickTouchesSelected
PROPERTY RepairedScriptIsUsed
