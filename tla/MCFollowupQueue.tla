--------------------------- MODULE MCFollowupQueue ----------------------------
(* FollowupQueue for TLC. *)
EXTENDS FollowupQueue
MCModes == {"followup", "collect", "steer", "steer-backlog", "interrupt", "queue"}
MCPolicies == {"old", "new"}
MCElsewhere == {3}
=============================================================================
