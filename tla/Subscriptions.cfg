SPECIFICATION FairSpec
CONSTANTS
  daily = daily
  dead = dead
  ams = ams
  bogus = bogus
  UTC = UTC
  Subs = {s1}
  Crons = {daily, dead}
  Zones = {UTC, ams, bogus}
  ValidCrons = {daily}
  ValidZones = {UTC, ams}
  Occurrences <- Fire
  MaxTime = 2
  PauseThreshold = 2
  MaxFailures = 3
  Schedulers = {p1, p2}
  Unlocked = Unlocked
  Lookahead = 1
  Clients = {c1}
  Bodies <- SomeBodies
  Absent = Absent
  NoRequest = NoRequest
  Never = Never
INVARIANT TypeOK
INVARIANT AtMostOneStray
INVARIANT NoWindowLost
PROPERTY JobsFollowTheRow
PROPERTY TickNeverGoesBack
PROPERTY DueIsProcessed
CHECK_DEADLOCK FALSE
