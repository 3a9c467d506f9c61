SPECIFICATION Spec
CONSTANTS
    \* tasks
    Workers = {w1, w2}
    Tasks = {t1}
    Concurrency = 1
    MaxTaskRetries = 1
    MaxManual = 1
    MaxStarts = 2
    \* routing
    m1 = m1
    a = a
    Messages = {m1}
    Home <- MCHome
    Chats = {a, b}
    Directs = {d1}
    Helpers = {h1}
    System = System
    Cli = Cli
    \* models
    gpt = gpt
    glm = glm
    p1 = p1
    main = main
    u1 = u1
    Loops = {main, sub}
    Managers = {sub}
    ModelTurns = {u1, u2}
    Models <- MCModels
    ProfilesOf <- MCProfiles
    FloatLimit = 2
    MaxRounds = 2
    NoProfile = NoProfile
    \* collaboration
    Jobs = {j1, j2, j3}
    Fallback = j1
    MaxConcurrent = 2
    MaxRetries = 1
    Topics = 2
    TalkRounds = 1
INVARIANTS TypesOK WorkIsDoneOnceAndTold ToolsServeTheirTurn
    ErrorTriedEverything
PROPERTIES QueuedIsSettled EveryoneHears CollaborationEnds
CHECK_DEADLOCK FALSE
