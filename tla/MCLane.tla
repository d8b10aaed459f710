------------------------------- MODULE MCLane -------------------------------
(* Lane for TLC: the limits a lane may be given. *)
EXTENDS Lane
MCLimits == {1, 2}
=============================================================================
