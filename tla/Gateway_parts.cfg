SPECIFICATION GatewaySpec
CONSTANTS
    \* nodes
    c2 = c2
    n1 = n1
    Conns = {c1, c2}
    NodeIds = {n1, n2}
    Invokes = {i1}
    IdsOf <- MCIdsOf
    None = None
    \* cron
    MaxJobs = 2
    MaxNow = 2
    Schedules <- MCSchedules
    CronNext <- MCCronNext
    Runners = {r1}
    MaxCalls = 2
    DiskFaults = TRUE
INVARIANTS GatewayTypesOK NodesAreTrue TimerCovers DiskIsCurrent
PROPERTIES DeadConnectionsGo BeginsOnlyDue RepeatsOnlyCancelled DueJobsRun
CHECK_DEADLOCK FALSE
