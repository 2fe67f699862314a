SPECIFICATION FairPushes
CONSTANTS
  Events = {e1}
  Devices = {d1}
  Crons = {k1, k2}
  Consumers = {q1}
INVARIANTS RingsOnce
PROPERTIES FinalStands PushIsSent
CHECK_DEADLOCK FALSE
