-------------------------- MODULE MCNotifications --------------------------
EXTENDS Notifications, TLC

CONSTANTS wish, note

Wishes == wish :> 0 @@ note :> 1
Runs == Permutations(Run)
Tails == wish :> 9 @@ note :> 2
=============================================================================
