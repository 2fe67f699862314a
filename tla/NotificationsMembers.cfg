SPECIFICATION MCTurns
CONSTANTS
  Events = {e1}
  moved = {e1}
  byCustomer = {}
  Users = {u1, u2}
  Customer = u2
  Devices = {u2}
  Founders = {u1}
  Publishers = {p1}
  Consumers = {c1, c2}
  Copies = {k1}
  MaxRetries = 1
  Nothing = Nothing
PROPERTY CustomerHears
