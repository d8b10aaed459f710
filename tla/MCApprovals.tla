----------------------------- MODULE MCApprovals ------------------------------
(* Approvals for TLC. *)
EXTENDS Approvals
MCDecision == {"allow-once", "deny"}
=============================================================================
