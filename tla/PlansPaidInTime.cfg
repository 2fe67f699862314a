SPECIFICATION MCPaidInTime
CONSTANTS
  Shops = {s1}
  Agents = {a1, a2}
  Acceptors = {x1}
  Paid = {"EMPRENDE", "BUSINESS"}
  Priced = {"EMPRENDE"}
  Cadences = {1, 2}
  Unlimited = {"BUSINESS"}
  Quota <- MCQuota
  MaxExpress = 0
  GraceDays = 1
  HiddenDays = 2
  Horizon = 6
  MaxOutage = 2
INVARIANT PaidShopIsListed
SYMMETRY MCSymmetry
