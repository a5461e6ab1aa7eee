SPECIFICATION Spec
CONSTANTS
  daily = daily
  dead = dead
  ams = ams
  bogus = bogus
  UTC = UTC
  Subs = {s1}
  Crons = {daily, dead}
  Zones = {UTC, ams, bogus}
  ValidCrons = {daily}
  ValidZones = {UTC, ams}
  Occurrences <- Fire
  MaxTime = 2
  PauseThreshold = 2
  MaxFailures = 2
  Schedulers = {p1}
  Unlocked = Unlocked
  Lookahead = 1
  Clients = {c1}
  Bodies <- SomeBodies
  Absent = Absent
  NoRequest = NoRequest
  Never = Never
PROPERTY TickAdvances
CHECK_DEADLOCK FALSE
