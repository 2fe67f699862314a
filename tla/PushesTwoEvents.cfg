SPECIFICATION PushSpec
CONSTANTS
  Events = {e1, e2}
  Devices = {d1}
  Crons = {k1}
  Consumers = {q1}
INVARIANTS RingsOnce SentHasRung
PROPERTY FinalStands
CHECK_DEADLOCK FALSE
