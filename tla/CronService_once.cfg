SPECIFICATION FairSpec
CONSTANTS
  MaxJobs = 2
  MaxNow = 2
  Schedules <- MCReminders
  CronNext <- MCCronNext
  Runners = {r1}
  MaxCalls = 0
  DiskFaults = FALSE
PROPERTY RunsOnce
CHECK_DEADLOCK FALSE
