SPECIFICATION TeamSpec
CONSTANTS
  Users = {u1, u2}
  Founder = u1
  Leavers = {u1}
  Agents = {a1, a2}
  Seats = 2
  MaxRows <- MCRows
CHECK_DEADLOCK FALSE
SYMMETRY MCSymmetry
PROPERTY AcceptedIsNotRewritten
