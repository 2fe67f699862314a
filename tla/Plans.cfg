SPECIFICATION FairPlans
CONSTANTS
  Shops = {s1}
  Agents = {a1}
  Acceptors = {x1, x2}
  Paid = {"EMPRENDE", "BUSINESS"}
  Priced = {"EMPRENDE"}
  Cadences = {1, 2}
  Unlimited = {"BUSINESS"}
  Quota <- MCQuota
  MaxExpress = 3
  GraceDays = 1
  HiddenDays = 2
  Horizon = 6
  MaxOutage = 2
INVARIANTS AccessIsPaidFor FreeShopIsListed ExpressIsBounded
PROPERTY LapsedComesIntoLine
