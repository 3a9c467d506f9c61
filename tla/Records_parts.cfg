SPECIFICATION RecordsFairSpec
CONSTANTS
    \* lanes
    Requests = {r1, r2, r3, r4}
    RunIds = {r1, r2, r3, r4}
    KeyOf <- MCKeys
    NodeRequests = {}
    Sessions = {se1}
    Conns = {c1}
    Unreliable = {}
    TraceMayFail = FALSE
    MaxPending = 2
    Abortable = {r1}
    Waiters = {}
    NoRun = NoRun
    NoSession = NoSession
    NoConn = NoConn
    \* tables
    Sockets = {s1, s2, s3}
    Instances = {x}
    Broadcasts = {b1}
    Tables = {d1, d2, d3}
    MaxEntries = 2
    MaxFrames = 1
    Gateway = Gateway
    Nobody = Nobody
    \* alerts
    Profiles = {au1}
    ProviderOf <- MCProviderOf
    Channels = {ch1, ch2}
    MaxRecent = 2
    Patience = 0
    Instants = 2
    MaxChanges = 2
    NoProvider = NoProvider
    \* wallets
    PrivateKeys = {k1, k2}
    Passwords = {pw1, pw2}
    PaidCalls = {x1}
    Prices = {1}
    MaxSingle = 1
    MaxHourly = 1
    WalletSteps = 3
    NoKey = NoKey
    \* configuration
    AgentIds = {g1}
    Names = {"plain", "APP-Code", "aPP-Code", "a_p_p-_code"}
    CamelToSnake <- MCSnake
    SnakeToCamel <- MCCamel
    ConfigSteps = 2
    \* plugins
    pa = pa
    pb = pb
    sv1 = sv1
    cn1 = cn1
    Discovered <- MCDiscovered
    Early = {pb}
    Units = {sv1, cn1}
    PluginOf <- MCPluginOf
    ServiceUnits = {sv1}
    ToolCalls = {tc1}
    CircuitThreshold = 1
    MaxLoads = 2
    MaxStops = 1
    NoPlugin = NoPlugin
    \* mail
    Mails = {e1, e2}
    MaxProcessed = 1
    MailSteps = 5
    \* knowledge
    AgentLoops = {l1, l2}
    Docs = {k9}
    Modes = {TRUE, FALSE}
    Versions = 2
    ChunkCount = 2
    LoopStarts = 2
INVARIANTS RecordsTypesOK OneRunPerSession BroadcastsAreHeard HistoryIsTrue
    KeysSurvive ConfigIsCoherent PluginsAreKept MailIsReadOnce
    IndexIsWhole
PROPERTY ServesInOrder
CHECK_DEADLOCK FALSE
