-------------------------------- MODULE Plans --------------------------------
(***************************************************************************)
(* What a shop pays for and what it gets: changePlan, assignPlan,          *)
(* recordPayment and sweepLapsed of subscription.ts, the status            *)
(* arithmetic of shared/plans.ts, the plan a request is granted by         *)
(* loadBilling, and the express quota an acceptance spends.                *)
(*                                                                         *)
(* The subscription row holds what was bought and until when; business     *)
(* holds a copy of the plan and whether the shop is in the feed.  The      *)
(* status is derived on read, but the copy is materialised: whoever        *)
(* touches the subscription writes it along, and a cron corrects the       *)
(* copies of the shops nobody touched.                                     *)
(*                                                                         *)
(* Time passes in days.  Prices, references and books are left out: a      *)
(* payment here is a sufficient one.  gracedUntil is null on every row the *)
(* code writes, and is left out.                                           *)
(***************************************************************************)
EXTENDS Naturals, FiniteSets

CONSTANTS Shops,
          Agents,       \* owners, operators and crons, as handlers in flight
          Acceptors,    \* requests that accept an express order
          Paid,         \* the tiers that cost money
          Priced,       \* those of them the price book sells
          Cadences,     \* lengths of a period, in days
          Unlimited,    \* the plans whose expressPerDay is Infinity
          Quota,        \* expressPerDay of the others
          GraceDays,    \* GRACE_DAYS
          HiddenDays,   \* HIDDEN_AFTER_DAYS
          MaxExpress,   \* bound: express orders of a day, with one more per acceptance in flight
          Horizon,      \* bound: the last day
          MaxOutage     \* bound: days in a row without a sweep that ends

ASSUME PlansAssumption ==
  /\ Shops # {}
  /\ IsFiniteSet(Acceptors) /\ Acceptors # {}
  /\ Priced \subseteq Paid
  /\ "FREE" \notin Paid
  /\ Cadences \subseteq Nat \ {0}
  /\ Unlimited \subseteq Paid
  /\ Quota \in [(Paid \cup {"FREE"}) \ Unlimited -> Nat \ {0}]
  /\ MaxExpress \in Nat
  /\ {GraceDays, HiddenDays, Horizon, MaxOutage} \subseteq Nat \ {0}
  /\ GraceDays < HiddenDays

VARIABLES subscription,  \* the rows
          business,      \* plan and listed of each business
          express,       \* express orders accepted today and still standing
          held,          \* history: the plans each business held today
          now,           \* today
          swept,         \* the last day a sweep ended
          call           \* the handlers in flight, and the acceptances

plansVars == <<subscription, business, express, held, now, swept, call>>

-----------------------------------------------------------------------------
Plan == Paid \cup {"FREE"}

\* cadence and periodEnd are 0 where the column is null: a FREE plan.
SubscriptionRow ==
  [plan : Plan, cadence : Cadences \cup {0}, periodEnd : Nat, createdAt : 0..Horizon]
NoRow == [plan |-> "FREE", cadence |-> 0, periodEnd |-> 0, createdAt |-> 0]

CallRow == [pc : {"idle", "change", "assign", "owed", "renew", "audit", "fix", "accept"},
            shop : Shops, row : SubscriptionRow, at : 0..Horizon,
            fixes : SUBSET (Shops \X Plan \X BOOLEAN)]
NoCall == [pc |-> "idle", shop |-> CHOOSE s \in Shops : TRUE, row |-> NoRow, at |-> 0,
           fixes |-> {}]

PlansInit == /\ subscription = [s \in Shops |-> NoRow]
             /\ business = [s \in Shops |-> [plan |-> "FREE", listed |-> TRUE]]
             /\ express = [s \in Shops |-> 0]
             /\ held = [s \in Shops |-> {"FREE"}]
             /\ now = 1
             /\ swept = 1
             /\ call = [c \in Agents \cup Acceptors |-> NoCall]

-----------------------------------------------------------------------------
(* The arithmetic.                                                         *)

\* The status of a plan on a day, by its row's dates.
subscriptionStatusAt(plan, row, day) ==
  LET periodEnd == IF row.periodEnd = 0 THEN row.createdAt ELSE row.periodEnd
  IN  IF plan = "FREE" \/ periodEnd > day THEN "ACTIVE"
      ELSE IF day < periodEnd + GraceDays THEN "GRACE"
      ELSE IF day >= periodEnd + HiddenDays THEN "SUSPENDED"
      ELSE "PAST_DUE"

grantsFullAccess(status) == status \in {"ACTIVE", "GRACE"}
isListed(status) == status # "SUSPENDED"
effectivePlan(plan, status) == IF grantsFullAccess(status) THEN plan ELSE "FREE"

\* The copy a row asks for on a day.
Copy(row, day) ==
  LET status == subscriptionStatusAt(row.plan, row, day)
  IN  [plan |-> effectivePlan(row.plan, status), listed |-> isListed(status)]

\* Mutant: the copied plan alone.
loadBillingStored(s) == business[s].plan

\* The limits a request of the shop is held to: the copied plan, and the
\* status of that plan by the subscription's dates.
loadBilling(s) ==
  IF subscription[s].createdAt = 0 THEN business[s].plan
  ELSE effectivePlan(business[s].plan,
                     subscriptionStatusAt(business[s].plan, subscription[s], now))

-----------------------------------------------------------------------------
(* The handlers; their clock is read when they start.                      *)

At(c, pc) == call[c].pc = pc
Start(c, pc, s, row, fixes) ==
  /\ At(c, "idle")
  /\ call' = [call EXCEPT ![c] = [pc |-> pc, shop |-> s, row |-> row, at |-> now,
                                  fixes |-> fixes]]
Goto(c, pc) == call' = [call EXCEPT ![c].pc = pc]
Over(c) == call' = [call EXCEPT ![c] = NoCall]

\* A period of the plan that starts on the day the call began.
Position(plan, cadence, row, at) ==
  [plan |-> plan, cadence |-> cadence,
   periodEnd |-> IF plan = "FREE" THEN 0 ELSE at + cadence,
   createdAt |-> IF row.createdAt = 0 THEN at ELSE row.createdAt]

\* changePlan, assignPlan and the admin's check all begin with this read.
ReadRow(c, pc, s) == /\ Start(c, pc, s, subscription[s], {})
                     /\ UNCHANGED <<subscription, business, express, held, now, swept>>

\* What the copies say now is among what they said today.
Hold == held' = [s \in Shops |-> held[s] \cup {business'[s].plan}]

\* Mutant: the subscription without its copy.
PlaceUnsynced(c, plan, cadence) ==
  /\ Over(c)
  /\ subscription' = [subscription EXCEPT ![call[c].shop] =
                        Position(plan, cadence, call[c].row, call[c].at)]
  /\ UNCHANGED <<business, express, held, now, swept>>

\* The subscription, its copy and the audit row, in one batch.  A row another
\* call inserted meanwhile aborts it: business_id is unique.
Place(c, plan, cadence) ==
  LET s == call[c].shop
      row == call[c].row
  IN  /\ Over(c)
      /\ UNCHANGED <<express, now, swept>>
      /\ IF row.createdAt = 0 /\ subscription[s].createdAt # 0
         THEN UNCHANGED <<subscription, business, held>>
         ELSE LET placed == Position(plan, cadence, row, call[c].at)
              IN  /\ subscription' = [subscription EXCEPT ![s] = placed]
                  /\ business' = [business EXCEPT ![s] =
                                    [plan |-> plan, listed |-> isListed("ACTIVE")]]
                  /\ Hold

\* The merchant's own move.  Nothing is written when there is nothing to settle.
Settled(row, plan, cadence, day) ==
  /\ row.createdAt # 0
  /\ row.plan = plan /\ row.cadence = cadence
  /\ plan = "FREE" \/ subscriptionStatusAt(row.plan, row, day) = "ACTIVE"

changePlan(c) ==
  /\ At(c, "change")
  /\ \E position \in (Priced \X Cadences) \cup {<<"FREE", 0>>} :
       /\ ~Settled(call[c].row, position[1], position[2], call[c].at)
       /\ Place(c, position[1], position[2])

\* An operator's agreement, at a price of its own.
assignPlan(c) == /\ At(c, "assign")
                 /\ \E plan \in Paid, cadence \in Cadences : Place(c, plan, cadence)

\* recordSubscriptionPayment refuses while the period runs.
ReadOwed(c, s) == /\ subscription[s].periodEnd \in 1..now
                  /\ ReadRow(c, "owed", s)

\* recordPayment reads the row again; a plan without a period is refused.
ReadToRenew(c) ==
  LET row == subscription[call[c].shop]
  IN  /\ At(c, "owed")
      /\ row.plan # "FREE"
      /\ call' = [call EXCEPT ![c].pc = "renew", ![c].row = row]
      /\ UNCHANGED <<subscription, business, express, held, now, swept>>

recordPayment(c) ==
  LET s == call[c].shop
      row == call[c].row
  IN  /\ At(c, "renew")
      /\ subscription' = [subscription EXCEPT ![s].periodEnd = call[c].at + row.cadence]
      /\ Goto(c, "audit")
      /\ UNCHANGED <<business, express, held, now, swept>>

Audit(c) == /\ At(c, "audit")
            /\ Over(c)
            /\ UNCHANGED <<subscription, business, express, held, now, swept>>

\* Whom the sweep asks for: a period that ended, and not longer ago than the
\* hidden window and a day.
Swept(s, day) ==
  /\ subscription[s].periodEnd \in 1..day
  /\ day <= subscription[s].periodEnd + GraceDays + HiddenDays + 1

\* Mutant: only the plan is compared.
DriftedPlan(s, day) == /\ Swept(s, day)
                       /\ Copy(subscription[s], day).plan # business[s].plan

Drifted(s, day) == /\ Swept(s, day)
                   /\ Copy(subscription[s], day) # business[s]

ReadSweep(c) ==
  /\ Start(c, "fix", CHOOSE s \in Shops : TRUE, NoRow,
           {<<s, Copy(subscription[s], now).plan, Copy(subscription[s], now).listed>> :
              s \in {t \in Shops : Drifted(t, now)}})
  /\ UNCHANGED <<subscription, business, express, held, now, swept>>

\* One statement for all of them, by the shops' ids alone.
sweepLapsed(c) ==
  /\ At(c, "fix")
  /\ business' = [s \in Shops |->
       IF \E fix \in call[c].fixes : fix[1] = s
       THEN LET fix == CHOOSE f \in call[c].fixes : f[1] = s
            IN  [plan |-> fix[2], listed |-> fix[3]]
       ELSE business[s]]
  /\ Hold
  /\ swept' = call[c].at
  /\ Over(c)
  /\ UNCHANGED <<subscription, express, now>>

\* A refusal, or a Worker that goes away; what it wrote stays.
Dies(c) == /\ ~At(c, "idle")
           /\ Over(c)
           /\ UNCHANGED <<subscription, business, express, held, now, swept>>

-----------------------------------------------------------------------------
(* The express quota: counted in one statement, spent in another.          *)

\* Mutant: one order more than the quota.
canAcceptExpressInclusive(plan, used) == plan \notin Unlimited => used <= Quota[plan]

canAcceptExpress(plan, used) == plan \notin Unlimited => used < Quota[plan]

\* advance is no business procedure: the plan is the copied one.
CountExpress(c, s) ==
  /\ express[s] < MaxExpress
  /\ canAcceptExpress(business[s].plan, express[s])
  /\ Start(c, "accept", s, NoRow, {})
  /\ UNCHANGED <<subscription, business, express, held, now, swept>>

AcceptExpress(c) == /\ At(c, "accept")
                    /\ express' = [express EXCEPT ![call[c].shop] = @ + 1]
                    /\ Over(c)
                    /\ UNCHANGED <<subscription, business, held, now, swept>>

\* A cancelled order is not counted any more.
CancelExpress(s) == /\ express[s] > 0
                    /\ express' = [express EXCEPT ![s] = @ - 1]
                    /\ UNCHANGED <<subscription, business, held, now, swept, call>>

\* The next day opens a new window.
Tomorrow == /\ now < Horizon
            /\ now - swept < MaxOutage
            /\ now' = now + 1
            /\ express' = [s \in Shops |-> 0]
            /\ held' = [s \in Shops |-> {business[s].plan}]
            /\ UNCHANGED <<subscription, business, swept, call>>

-----------------------------------------------------------------------------
ReadHandler(c, s) == \/ ReadRow(c, "change", s)
                     \/ ReadRow(c, "assign", s)
                     \/ ReadOwed(c, s)

HandlerStep(c) == \/ \E s \in Shops : ReadHandler(c, s)
                  \/ changePlan(c)
                  \/ assignPlan(c)
                  \/ ReadToRenew(c)
                  \/ recordPayment(c)
                  \/ Audit(c)

SweepStep(c) == ReadSweep(c) \/ sweepLapsed(c)

ExpressStep(c) == \/ \E s \in Shops : CountExpress(c, s)
                  \/ AcceptExpress(c)

PlansNext == \/ \E c \in Agents : HandlerStep(c) \/ SweepStep(c)
             \/ \E c \in Acceptors : ExpressStep(c)
             \/ \E c \in Agents \cup Acceptors : Dies(c)
             \/ \E s \in Shops : CancelExpress(s)
             \/ Tomorrow

PlansSpec == PlansInit /\ [][PlansNext]_plansVars

\* Every handler ends; the cron comes every minute, whoever else comes, and of
\* its sweeps some end.
FairPlans == PlansSpec /\ \A c \in Agents : /\ WF_plansVars(HandlerStep(c) \/ Dies(c))
                                            /\ SF_plansVars(ReadSweep(c))
                                            /\ SF_plansVars(sweepLapsed(c))

-----------------------------------------------------------------------------
\* Every row, count, day and handler holds a value of its type.
PlansTypeOK ==
  /\ subscription \in [Shops -> SubscriptionRow]
  /\ business \in [Shops -> [plan : Plan, listed : BOOLEAN]]
  /\ express \in [Shops -> Nat]
  /\ held \in [Shops -> SUBSET Plan]
  /\ now \in 1..Horizon
  /\ swept \in 1..now
  /\ call \in [Agents \cup Acceptors -> CallRow]

\* While no plan changes under a sweep, no shop is granted a paid tier it does
\* not hold, or that it stopped paying for longer ago than the grace window, on
\* any day and whether or not the cron ran: business.plan may be behind, the
\* status is read by the dates.  This is of the requests loadBilling answers;
\* an express acceptance is not one (LapsedIsHeldToFree).
AccessIsPaidFor ==
  \A s \in Shops : loadBilling(s) # "FREE" =>
    /\ loadBilling(s) = subscription[s].plan
    /\ now < subscription[s].periodEnd + GraceDays

\* A shop on the free tier is never charged, so while no plan changes under a
\* sweep it is never out of the feed, whatever it owed before it moved there.
FreeShopIsListed ==
  \A s \in Shops : subscription[s].plan = "FREE" => business[s].listed

\* No plan is being changed or assigned for a shop whose copy a sweep has read
\* and is about to write.  Whatever else is in flight may overlap.
SweepsApart ==
  \A c, d \in Agents :
    At(c, "fix") /\ call[d].pc \in {"change", "assign"}
      => \A fix \in call[c].fixes : fix[1] # call[d].shop

\* No payment is being recorded for a shop that is out of the feed, or that a sweep
\* has read as one to take out of it.
PaidInTime ==
  \A d \in Agents : At(d, "renew") =>
    /\ business[call[d].shop].listed
    /\ \A c \in Agents : At(c, "fix") =>
         \A fix \in call[c].fixes : fix[1] = call[d].shop => fix[3]

\* Two acceptances may both count the last free slot, but what a shop accepted
\* today stays within the quota of a plan that its own copy gave it today, but
\* for the requests in flight: however plans change between a count and its
\* acceptance, nobody spends the quota of a plan the shop did not hold.
ExpressIsBounded ==
  \A s \in Shops : \E plan \in held[s] :
    \/ plan \in Unlimited
    \/ express[s] + Cardinality({c \in Acceptors : At(c, "accept") /\ call[c].shop = s})
         < Quota[plan] + Cardinality(Acceptors)

\* A shop that stopped paying, and that nobody touches, loses its tools and then
\* its place in the feed: its copy comes into line with its dates.
Owes(s) == subscription[s].periodEnd \in 1..now
LapsedComesIntoLine ==
  \A s \in Shops :
    (Owes(s) /\ Copy(subscription[s], now) # business[s])
      ~> (~Owes(s) \/ Copy(subscription[s], now) = business[s])

\* subscription.ts:444-450 says of business.plan and business.listed that both
\* are derived from the subscription's row, and that the batch keeps them true:
\* a shop whose period runs is listed.
PaidShopIsListed ==
  \A s \in Shops : subscription[s].periodEnd > now => business[s].listed

\* orders.ts:1111 says of the express quota that "a lapsed shop is held to FREE
\* and cannot be the one place that is not": an acceptance is within the quota of
\* the plan the dates pay for.
LapsedIsHeldToFree ==
  [][\A c \in Acceptors : At(c, "idle") /\ At(c, "accept")'
       => LET s == call'[c].shop IN canAcceptExpress(loadBilling(s), express[s])]_plansVars

=============================================================================
