------------------------------ MODULE Supervisor ------------------------------
(***************************************************************************)
(* The process supervisor (openclaw/process/supervisor.py), which runs the *)
(* command-line backends of agents (agents/cli_runner.py).  A spawn names  *)
(* a scope, the CLI session that it resumes, and cancels what runs under   *)
(* it.  Two timers watch each process; its own end, and the end of its     *)
(* output, settle the run, unless the turn that waits for it is cancelled. *)
(*                                                                         *)
(* A process leads a group (os.setsid), here with one descendant at most   *)
(* that keeps the output open.  Death and reaping are one step; a process  *)
(* may die at any time, so SIGTERM has no step of its own.                 *)
(***************************************************************************)
EXTENDS Naturals

CONSTANTS
  NumRuns,  \* bound: calls of spawn(), numbered in their order
  Scope,    \* scope keys
  NoScope   \* "no scope key": the first turn of a CLI session

Run == 1..NumRuns

ASSUME ConstantsAssumption == NumRuns \in Nat /\ NoScope \notin Scope

VARIABLES
  call,      \* how far the spawn and the wait of a run are
  scope,     \* its scope key
  unseen,    \* the runs that were being created when it was spawned
  leader,    \* the process: "none", "up", "down"
  heir,      \* its descendant that holds the output
  active,    \* ProcessSupervisor._active
  forced,    \* forced_reason of the run's closure
  overall,   \* whether timeout_timer is armed
  quiet,     \* whether no_output_timer is armed
  killing,   \* whether a kill task is in its grace period
  state,     \* RunRecord.state, "none" before there is a record
  reason,    \* RunRecord.termination_reason
  result     \* RunExit.reason

recordVars == <<state, reason>>
processVars == <<leader, heir>>
timerVars == <<overall, quiet>>
vars == <<call, scope, unseen, processVars, active, forced, timerVars, killing,
          recordVars, result>>

Timeouts == {"overall-timeout", "no-output-timeout"}
Reasons == Timeouts \union {"manual-cancel", "spawn-error", "exit"}

Init ==
  /\ call = [r \in Run |-> "none"]
  /\ scope = [r \in Run |-> NoScope] /\ unseen = [r \in Run |-> {}]
  /\ leader = [r \in Run |-> "none"] /\ heir = [r \in Run |-> "none"]
  /\ active = {} /\ forced = [r \in Run |-> "none"]
  /\ overall = [r \in Run |-> FALSE] /\ quiet = [r \in Run |-> FALSE]
  /\ killing = [r \in Run |-> FALSE]
  /\ state = [r \in Run |-> "none"] /\ reason = [r \in Run |-> "none"]
  /\ result = [r \in Run |-> "none"]

GroupUp(r) == leader[r] = "up" \/ heir[r] = "up"

-----------------------------------------------------------------------------
(* Cancelling. *)

(* cancel(): the record takes the reason, the closure keeps its first one, *)
(* and a kill task starts when a process of the group is there.            *)
Cancelled(replaced) ==
  /\ forced' = [q \in Run |-> IF q \in replaced /\ forced[q] = "none"
                              THEN "manual-cancel" ELSE forced[q]]
  /\ killing' = [q \in Run |-> killing[q] \/ (q \in replaced /\ GroupUp(q))]

(* request_cancel() from a timer: the first reason stands. *)
RequestCancel(r, why) ==
  /\ forced' = [forced EXCEPT ![r] = IF @ = "none" THEN why ELSE @]
  /\ IF forced[r] = "none"
     THEN state' = [state EXCEPT ![r] = "exiting"] /\ reason' = [reason EXCEPT ![r] = why]
     ELSE UNCHANGED recordVars
  /\ killing' = [killing EXCEPT ![r] = @ \/ GroupUp(r)]

-----------------------------------------------------------------------------
(* spawn() and the wait for the run. *)

Creating == {q \in Run : call[q] = "creating"}
Replaced(s) == {q \in active : s # NoScope /\ scope[q] = s}

(* Up to the await of the creation: cancel_scope, then the new record. *)
Spawn(r, s) ==
  /\ call[r] = "none" /\ \A q \in Run : q < r => call[q] # "none"
  /\ call' = [call EXCEPT ![r] = "creating"]
  /\ scope' = [scope EXCEPT ![r] = s] /\ unseen' = [unseen EXCEPT ![r] = Creating]
  /\ Cancelled(Replaced(s))
  /\ state' = [q \in Run |-> IF q = r THEN "starting"
                             ELSE IF q \in Replaced(s) THEN "exiting" ELSE state[q]]
  /\ reason' = [q \in Run |-> IF q \in Replaced(s) THEN "manual-cancel" ELSE reason[q]]
  /\ UNCHANGED <<processVars, active, timerVars, result>>

Created(r) ==
  /\ call[r] = "creating" /\ call' = [call EXCEPT ![r] = "running"]
  /\ leader' = [leader EXCEPT ![r] = "up"] /\ active' = active \union {r}
  /\ overall' = [overall EXCEPT ![r] = TRUE] /\ quiet' = [quiet EXCEPT ![r] = TRUE]
  /\ state' = [state EXCEPT ![r] = "running"]
  /\ UNCHANGED <<scope, unseen, heir, forced, killing, reason, result>>

CreationFails(r) ==
  /\ call[r] = "creating" /\ call' = [call EXCEPT ![r] = "failed"]
  /\ state' = [state EXCEPT ![r] = "exited"]
  /\ reason' = [reason EXCEPT ![r] = "spawn-error"]
  /\ UNCHANGED <<scope, unseen, processVars, active, forced, timerVars, killing, result>>

(* The turn is cancelled while the process is created: asyncio kills it,   *)
(* and the record stays "starting".                                        *)
CreationCancelled(r) ==
  /\ call[r] = "creating" /\ call' = [call EXCEPT ![r] = "cancelled"]
  /\ UNCHANGED <<scope, unseen, processVars, active, forced, timerVars, killing,
                 recordVars, result>>

(* wait_for_exit after the process has died and its output has closed.     *)
(* Nothing in adapter.wait() raises but the name of a real-time signal that*)
(* Python does not know (supervisor.py:409): that end is left out.         *)
TimersAfterSettling_StillArmed(r) == UNCHANGED timerVars
TimersAfterSettling(r) ==
  overall' = [overall EXCEPT ![r] = FALSE] /\ quiet' = [quiet EXCEPT ![r] = FALSE]
Reported_Raw(r) == "exit"
Reported(r) == IF forced[r] = "none" THEN "exit" ELSE forced[r]

Settle(r) ==
  /\ call[r] = "running" /\ ~GroupUp(r) /\ call' = [call EXCEPT ![r] = "settled"]
  /\ TimersAfterSettling(r) /\ active' = active \ {r}
  /\ result' = [result EXCEPT ![r] = Reported(r)]
  /\ state' = [state EXCEPT ![r] = "exited"]
  /\ reason' = [reason EXCEPT ![r] = IF @ = "none" THEN Reported(r) ELSE @]
  /\ UNCHANGED <<scope, unseen, processVars, forced, killing>>

(* The turn that awaits the run is aborted or out of time.  Awaiting a     *)
(* future passes the cancellation on: wait_for_exit ends where it is.      *)
AbandonedStays_Deregisters(r) == active' = active \ {r} /\ UNCHANGED timerVars
AbandonedStays_NoTimers(r) == TimersAfterSettling(r) /\ UNCHANGED active
AbandonedStays(r) == UNCHANGED <<active, timerVars>>

Abandon(r) ==
  /\ call[r] = "running" /\ call' = [call EXCEPT ![r] = "abandoned"]
  /\ AbandonedStays(r)
  /\ UNCHANGED <<scope, unseen, processVars, forced, killing, recordVars, result>>

-----------------------------------------------------------------------------
(* Processes, timers and kill tasks. *)

Fork(r) ==
  /\ leader[r] = "up" /\ heir[r] # "up" /\ heir' = [heir EXCEPT ![r] = "up"]
  /\ UNCHANGED <<call, scope, unseen, leader, active, forced, timerVars, killing,
                 recordVars, result>>

Dies(r) ==
  /\ \/ leader[r] = "up" /\ leader' = [leader EXCEPT ![r] = "down"] /\ UNCHANGED heir
     \/ heir[r] = "up" /\ heir' = [heir EXCEPT ![r] = "down"] /\ UNCHANGED leader
  /\ UNCHANGED <<call, scope, unseen, active, forced, timerVars, killing,
                 recordVars, result>>

(* touch_output(): the no-output timer starts again, even after it fired. *)
Output(r) ==
  /\ GroupUp(r) /\ call[r] \in {"running", "abandoned"} /\ ~quiet[r]
  /\ quiet' = [quiet EXCEPT ![r] = TRUE]
  /\ UNCHANGED <<call, scope, unseen, processVars, active, forced, overall,
                 killing, recordVars, result>>

OverallTimeout(r) ==
  /\ overall[r] /\ overall' = [overall EXCEPT ![r] = FALSE]
  /\ RequestCancel(r, "overall-timeout")
  /\ UNCHANGED <<call, scope, unseen, processVars, active, quiet, result>>

NoOutputTimeout(r) ==
  /\ quiet[r] /\ quiet' = [quiet EXCEPT ![r] = FALSE]
  /\ RequestCancel(r, "no-output-timeout")
  /\ UNCHANGED <<call, scope, unseen, processVars, active, overall, result>>

(* The end of the grace period: SIGKILL, if the leader is still there.     *)
SigKill_WhenGone(r) ==
  IF leader[r] = "up" THEN UNCHANGED processVars
  ELSE heir' = [heir EXCEPT ![r] = IF @ = "up" THEN "down" ELSE @] /\ UNCHANGED leader
SigKill(r) ==
  IF leader[r] = "up"
  THEN leader' = [leader EXCEPT ![r] = "down"]
       /\ heir' = [heir EXCEPT ![r] = IF @ = "up" THEN "down" ELSE @]
  ELSE UNCHANGED processVars

GraceOver(r) ==
  /\ killing[r] /\ killing' = [killing EXCEPT ![r] = FALSE] /\ SigKill(r)
  /\ UNCHANGED <<call, scope, unseen, active, forced, timerVars, recordVars, result>>

-----------------------------------------------------------------------------
Environment(r) ==
  \/ \E s \in Scope \union {NoScope} : Spawn(r, s)
  \/ CreationCancelled(r) \/ Abandon(r) \/ Fork(r) \/ Dies(r) \/ Output(r)
GoesOn(r) ==
  Created(r) \/ CreationFails(r) \/ Settle(r) \/ OverallTimeout(r) \/ GraceOver(r)
Next == \E r \in Run : Environment(r) \/ GoesOn(r) \/ NoOutputTimeout(r)

Spec == Init /\ [][Next]_vars

(* Creation returns, timers fire, tasks go on.  No process need die, nor   *)
(* be silent.                                                              *)
FairSpec ==
  /\ Spec
  /\ \A r \in Run :
       /\ WF_vars(Created(r) \/ CreationFails(r)) /\ WF_vars(Settle(r))
       /\ WF_vars(OverallTimeout(r)) /\ WF_vars(GraceOver(r))

-----------------------------------------------------------------------------
(* Type correctness. *)
TypeOK ==
  /\ call \in [Run -> {"none", "creating", "running", "settled", "failed",
                       "cancelled", "abandoned"}]
  /\ scope \in [Run -> Scope \union {NoScope}] /\ unseen \in [Run -> SUBSET Run]
  /\ leader \in [Run -> {"none", "up", "down"}] /\ heir \in [Run -> {"none", "up", "down"}]
  /\ active \subseteq Run /\ forced \in [Run -> Reasons \union {"none"}]
  /\ overall \in [Run -> BOOLEAN] /\ quiet \in [Run -> BOOLEAN]
  /\ killing \in [Run -> BOOLEAN]
  /\ state \in [Run -> {"none", "starting", "running", "exiting", "exited"}]
  /\ reason \in [Run -> Reasons \union {"none"}]
  /\ result \in [Run -> Reasons \union {"none"}]

(* A run is in _active while it is awaited, and for ever once its wait was *)
(* cancelled; only a created run has processes and timers.                 *)
ActiveAgrees ==
  /\ active = {r \in Run : call[r] \in {"running", "abandoned"}}
  /\ \A r \in Run :
       /\ leader[r] = "none" <=> call[r] \in {"none", "creating", "failed", "cancelled"}
       /\ overall[r] \/ quiet[r] => r \in active
       /\ call[r] = "settled" => ~GroupUp(r)
       /\ leader[r] = "none" => heir[r] # "up"
       /\ forced[r] # "none" => leader[r] # "none"

(* A live process always has a timer that will kill it or a kill under way *)
(* -- also when nobody waits for it any more.                              *)
AlwaysWatched == \A r \in Run : leader[r] = "up" => overall[r] \/ killing[r]

(* The record and the closure agree on whether the run is being ended.     *)
RecordAgrees ==
  \A r \in Run :
    /\ state[r] = "exited" <=> call[r] \in {"settled", "failed"}
    /\ result[r] # "none" <=> call[r] = "settled"
    /\ r \in active => (state[r] = "exiting" <=> forced[r] # "none")
    /\ call[r] \in {"creating", "cancelled"} <=> state[r] = "starting"
    /\ call[r] = "none" <=> state[r] = "none"
    /\ forced[r] = "none" /\ state[r] # "exited" => reason[r] = "none"
    /\ forced[r] # "none" => reason[r] \in {forced[r], "manual-cancel"}
    /\ forced[r] \in Timeouts \union {"manual-cancel", "none"}

IInv == TypeOK /\ ActiveAgrees /\ AlwaysWatched /\ RecordAgrees

(* A spawn that resumes a CLI session ends every process of the session    *)
(* that was registered by then, those that an aborted turn left behind     *)
(* included: each is down or about to be.  It does not see one that was    *)
(* still being created.                                                    *)
ResumedAlone ==
  \A q, r \in Run :
    /\ q < r /\ call[r] # "none" /\ scope[r] = scope[q] /\ scope[r] # NoScope
    /\ q \notin unseen[r] /\ leader[q] = "up"
    => killing[q]

(* The caller and the record are told the same reason, except when a run   *)
(* that had timed out was replaced while it was being killed: cancel()     *)
(* overwrites the record's reason, and the caller still gets the time-out. *)
EndTold ==
  \A r \in Run : call[r] = "settled" =>
    \/ reason[r] = result[r]
    \/ result[r] \in Timeouts /\ reason[r] = "manual-cancel"

(* A record that says "exited" is final. *)
ExitedIsFinal ==
  [][\A r \in Run : state[r] = "exited" => state'[r] = "exited" /\ reason'[r] = reason[r]]_vars

(* How far a run's process is from its end: not created, watched by the    *)
(* overall timer, in the grace period of a kill, gone.                     *)
Stage(r) ==
  CASE leader[r] = "none" -> 3
    [] leader[r] = "up" -> IF killing[r] THEN 1 ELSE 2
    [] leader[r] = "down" -> 0

(* A process only comes nearer to its end.  Whoever is cancelled, replaced *)
(* or abandoned meanwhile, nothing takes a kill back or leaves the process *)
(* without its timer, and when the timer fires, or the grace period is     *)
(* over, it enters the next stage.                                         *)
NearerItsEnd ==
  [][\A r \in Run :
       /\ Stage(r)' <= Stage(r)
       /\ Stage(r) = 2 => overall[r]
       /\ OverallTimeout(r) => Stage(r)' < 2
       /\ Stage(r) \in {1, 2} /\ GraceOver(r) => Stage(r)' = 0]_vars

(* Of a cancellation and two time-outs the first decides what the caller   *)
(* is told: the reason a run is ended for never changes, and neither does  *)
(* what was reported.                                                      *)
FirstReasonStands ==
  [][\A r \in Run :
       /\ forced[r] # "none" => forced'[r] = forced[r]
       /\ result[r] # "none" => result'[r] = result[r] /\ forced'[r] = forced[r]
       /\ result[r] = "none" /\ result'[r] # "none"
            => result'[r] = (IF forced[r] = "none" THEN "exit" ELSE forced[r])]_vars

(* Every process ends, be it silent, deaf to SIGTERM or left behind.       *)
EveryProcessEnds == \A r \in Run : leader[r] = "up" ~> leader[r] = "down"

(* Every awaited run settles, unless a descendant outlives its process and *)
(* keeps the output open: SIGKILL is for groups whose leader lives.        *)
EveryRunSettles ==
  \A r \in Run :
    call[r] = "running" ~>
      (call[r] # "running" \/ (leader[r] = "down" /\ heir[r] = "up"))
=============================================================================
