\* Two processes race for one schedule, stop in mid-flight and lose it to a client.
CONSTANTS
  ScheduleIds = {s1}
  Processors = {p1, p2}
  Callers = {client1}
  NoSchedule = NoSchedule
  Interval = 2
  MaxCrashes = 1
  MaxDisables = 1
  MaxVersion = 4
SPECIFICATION FairSpec
INVARIANTS RunsSound
PROPERTIES KeepsRunning
CHECK_DEADLOCK FALSE
