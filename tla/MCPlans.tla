------------------------------ MODULE MCPlans ------------------------------
(* One shop and the three tiers that differ: free, sold by the book, and    *)
(* agreed by hand.                                                          *)
EXTENDS Plans, TLC

MCQuota == [p \in (Paid \cup {"FREE"}) \ Unlimited |-> IF p = "FREE" THEN 1 ELSE 2]
MCSymmetry == Permutations(Agents)

\* The behaviours of PlansSpec in which SweepsApart always holds.
MCApart == PlansInit /\ [][PlansNext /\ SweepsApart']_plansVars

\* And those of them in which PaidInTime does.
MCPaidInTime == PlansInit /\ [][PlansNext /\ SweepsApart' /\ PaidInTime']_plansVars
=============================================================================
