-------------------------- MODULE MCNotifications --------------------------
(* Instances of Notifications for TLC: consumers that race.                *)
EXTENDS Notifications, TLC

MCConsumers == Permutations(Consumers)

\* The behaviours of NotifySpec in which LeaversTakeTurns always holds.
MCTurns == NotifyInit /\ [][NotifyNext /\ LeaversTakeTurns']_notifyVars
=============================================================================
