------------------------------- MODULE MCCron --------------------------------
(* Cron for TLC: a one-shot and a recurring job. *)
EXTENDS Cron
CONSTANTS once, often
MCJob == {once, often}
MCOneShot == {once}
MCAgentsUseCron == {often}
MCNone == {}
(* "skipped" leads where "ok" does, except that a one-shot job may be      *)
(* re-enabled after it.                                                    *)
MCOutcomes == {"ok", "transient", "fatal"}
=============================================================================
