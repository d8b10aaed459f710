----------------------------- MODULE MCSupervisor -----------------------------
(* Supervisor for TLC: one CLI session. *)
EXTENDS Supervisor
CONSTANT session
MCScope == {session}
=============================================================================
