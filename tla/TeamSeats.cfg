SPECIFICATION TeamSpec
CONSTANTS
  Users = {u1, u2, u3}
  Founder = u1
  Leavers = {}
  Agents = {a1, a2}
  Seats = 2
  MaxRows <- MCOneRow
CHECK_DEADLOCK FALSE
SYMMETRY MCSeatSymmetry
INVARIANTS SeatsAreBounded
