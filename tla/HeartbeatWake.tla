----------------------------- MODULE HeartbeatWake -----------------------------
(***************************************************************************)
(* Wake-ups of the heartbeat (openclaw/infra/heartbeat_wake.py).  A request *)
(* is kept under its target, at most one for each; a timer collects what   *)
(* is pending into a batch and gives it, one wake after another, to the    *)
(* handler that is installed.  A wake the handler puts off is queued again, *)
(* and one that raises puts the whole batch back.  Installing a handler    *)
(* starts a new life of timer and flags, while a batch of the old life may *)
(* still be under way.                                                     *)
(*                                                                         *)
(* Time is abstract: a timer may fire whenever it is set, so that one set  *)
(* for earlier and the one it replaces are the same.  Nothing bounds how   *)
(* often the handler raises or puts a wake off: the one that the gateway   *)
(* installs (gateway/bootstrap.py:925) takes one dict, is called with      *)
(* keyword arguments and so raises at every call (Replies = {"raises"}).   *)
(***************************************************************************)
EXTENDS Naturals, FiniteSets

CONSTANTS
  Target,      \* wake_target_key: an agent and a session
  MaxPriority, \* REASON_PRIORITY, from 1 to it; 0 stands for no wake
  MaxRequests, \* bound: requests
  MaxHandlers, \* bound: handlers installed
  Replies      \* what a call of the handler may come to

ASSUME ConstantsAssumption ==
  /\ MaxPriority \in Nat \ {0} /\ MaxRequests \in Nat
  /\ MaxHandlers \in Nat
  /\ Replies \subseteq {"ran", "requests-in-flight", "raises"}

Batch == 1..(MaxHandlers + 1)  \* enough: see OneBatchPerHandler
Kinds == {"normal", "retry"}

VARIABLES
  handler,   \* _handler, by the number of its installation; 0 for None
  installed, \* how many handlers were installed
  pending,   \* _pending_wakes: the priority of each target's wake
  timer,     \* _timer_task and _timer_kind, "none" when there is no task
  running,   \* _running
  scheduled, \* _scheduled
  toSchedule,\* the task that set_heartbeat_wake_handler creates
  taken,     \* pending_batch of each batch under way
  todo,      \* the wakes of the batch that have not been dealt with
  owed,      \* history: requested, and not handled since
  requests

wakeVars == <<pending, owed>>
timerVars == <<timer, running, scheduled, toSchedule>>
batchVars == <<taken, todo>>
vars == <<handler, installed, wakeVars, timerVars, batchVars, requests>>

Executing == {b \in Batch : todo[b] # {}}

Init ==
  /\ handler = 0 /\ installed = 0
  /\ pending = [k \in Target |-> 0] /\ owed = [k \in Target |-> FALSE]
  /\ timer = "none" /\ running = FALSE /\ scheduled = FALSE /\ toSchedule = FALSE
  /\ taken = [b \in Batch |-> [k \in Target |-> 0]]
  /\ todo = [b \in Batch |-> {}]
  /\ requests = 0

-----------------------------------------------------------------------------
(* _queue_pending_wake_reason: of two wakes of a target the more urgent    *)
(* stays.                                                                  *)
Queued_Newest(p, q) == q
Queued(p, q) == IF q >= p THEN q ELSE p

(* _schedule, when the timer would be `t' otherwise: one that retries is   *)
(* kept, and so is a normal one that is due earlier.                       *)
AfterSchedule(t, kind) ==
  CASE t = "none" -> {kind} [] t = "retry" -> {"retry"} [] OTHER -> {"normal", kind}

(* request_heartbeat_now *)
Request(k, p) ==
  /\ requests < MaxRequests /\ requests' = requests + 1
  /\ pending' = [pending EXCEPT ![k] = Queued(@, p)]
  /\ owed' = [owed EXCEPT ![k] = TRUE]
  /\ timer' \in AfterSchedule(timer, "normal")
  /\ UNCHANGED <<handler, installed, running, scheduled, toSchedule, batchVars>>

-----------------------------------------------------------------------------
(* The timer's task (_execute_wakes). *)

FiresWithoutHandler ==
  /\ timer # "none" /\ handler = 0
  /\ timer' = "none" /\ scheduled' = FALSE
  /\ UNCHANGED <<handler, installed, wakeVars, running, toSchedule, batchVars,
                 requests>>

(* A batch is under way: the timer is set again. *)
FiresWhileRunning ==
  /\ timer # "none" /\ handler # 0 /\ running
  /\ scheduled' = TRUE
  /\ UNCHANGED <<handler, installed, wakeVars, timer, running, toSchedule,
                 batchVars, requests>>

Free_IgnoresFlag == TRUE
Free == ~running
Starts ==
  /\ timer # "none" /\ handler # 0 /\ Free
  /\ timer' = "none" /\ scheduled' = FALSE
  /\ LET due == {k \in Target : pending[k] # 0}
         b == CHOOSE b \in Batch : b \notin Executing IN
     IF due = {} THEN UNCHANGED <<pending, running, batchVars>>
     ELSE /\ Batch \ Executing # {}
          /\ taken' = [taken EXCEPT ![b] = pending]
          /\ todo' = [todo EXCEPT ![b] = due]
          /\ pending' = [k \in Target |-> 0] /\ running' = TRUE
  /\ UNCHANGED <<handler, installed, owed, toSchedule, requests>>

(* The `finally' of a batch, when the timer would be `t' and the pending   *)
(* wakes are pending' already.  It clears the flag whoever set it.         *)
Finally(t) ==
  /\ running' = FALSE
  /\ IF scheduled \/ \E k \in Target : pending'[k] # 0
     THEN timer' \in AfterSchedule(t, "normal") ELSE timer' = t

(* The handler is done with k, the batch goes on or ends. *)
GoesOnOrEnds(b, k, t) ==
  /\ todo' = [todo EXCEPT ![b] = @ \ {k}]
  /\ IF todo[b] = {k} THEN Finally(t) ELSE timer' = t /\ UNCHANGED running

Ran(b, k) ==
  /\ k \in todo[b] /\ "ran" \in Replies
  /\ owed' = [owed EXCEPT ![k] = pending[k] # 0]
  /\ UNCHANGED pending /\ GoesOnOrEnds(b, k, timer)
  /\ UNCHANGED <<handler, installed, scheduled, toSchedule, taken, requests>>

(* "requests-in-flight": the wake is queued again. *)
Skipped_Dropped(b, k) ==
  /\ k \in todo[b] /\ "requests-in-flight" \in Replies
  /\ UNCHANGED pending
  /\ \E t \in AfterSchedule(timer, "retry") : GoesOnOrEnds(b, k, t)
  /\ UNCHANGED <<handler, installed, owed, scheduled, toSchedule, taken, requests>>
Skipped(b, k) ==
  /\ k \in todo[b] /\ "requests-in-flight" \in Replies
  /\ pending' = [pending EXCEPT ![k] = Queued(@, taken[b][k])]
  /\ \E t \in AfterSchedule(timer, "retry") : GoesOnOrEnds(b, k, t)
  /\ UNCHANGED <<handler, installed, owed, scheduled, toSchedule, taken, requests>>

(* The rest of the batch is not tried, and all of it is queued again, what *)
(* was handled before the failure included.                                *)
Raised(b, k) ==
  /\ k \in todo[b] /\ "raises" \in Replies
  /\ pending' = [j \in Target |-> IF taken[b][j] = 0 THEN pending[j]
                                  ELSE Queued(pending[j], taken[b][j])]
  /\ todo' = [todo EXCEPT ![b] = {}]
  /\ \E t \in AfterSchedule(timer, "retry") : Finally(t)
  /\ UNCHANGED <<handler, installed, owed, scheduled, toSchedule, taken, requests>>

-----------------------------------------------------------------------------
(* set_heartbeat_wake_handler, with a handler. *)
Install_KeepsPendingForTimer ==
  /\ installed < MaxHandlers /\ installed' = installed + 1
  /\ handler' = installed' /\ timer' = "none"
  /\ running' = FALSE /\ scheduled' = FALSE
  /\ UNCHANGED <<toSchedule, wakeVars, batchVars, requests>>
Install ==
  /\ installed < MaxHandlers /\ installed' = installed + 1
  /\ handler' = installed' /\ timer' = "none"
  /\ running' = FALSE /\ scheduled' = FALSE
  /\ toSchedule' = (toSchedule \/ \E k \in Target : pending[k] # 0)
  /\ UNCHANGED <<wakeVars, batchVars, requests>>

SchedulesLate ==
  /\ toSchedule /\ toSchedule' = FALSE /\ timer' \in AfterSchedule(timer, "normal")
  /\ UNCHANGED <<handler, installed, wakeVars, running, scheduled, batchVars,
                 requests>>

(* The disposer of installation g, which does nothing when another handler *)
(* has been installed since.                                               *)
Dispose(g) ==
  /\ handler = g /\ handler' = 0
  /\ UNCHANGED <<installed, wakeVars, timerVars, batchVars, requests>>

-----------------------------------------------------------------------------
TimerFires == FiresWithoutHandler \/ FiresWhileRunning \/ Starts
HandlerReturns ==
  \E b \in Batch, k \in Target : Ran(b, k) \/ Skipped(b, k) \/ Raised(b, k)
Next ==
  \/ \E k \in Target, p \in 1..MaxPriority : Request(k, p)
  \/ TimerFires \/ HandlerReturns
  \/ Install \/ SchedulesLate \/ \E g \in 1..MaxHandlers : Dispose(g)

Spec == Init /\ [][Next]_vars

(* Timers fire, tasks run and a call of the handler comes to an end.       *)
FairSpec ==
  Spec /\ WF_vars(Starts) /\ WF_vars(FiresWithoutHandler)
       /\ WF_vars(SchedulesLate) /\ WF_vars(HandlerReturns)

-----------------------------------------------------------------------------
(* Type correctness. *)
TypeOK ==
  /\ installed \in 0..MaxHandlers /\ handler \in 0..installed
  /\ pending \in [Target -> 0..MaxPriority]
  /\ timer \in Kinds \union {"none"}
  /\ running \in BOOLEAN /\ scheduled \in BOOLEAN /\ toSchedule \in BOOLEAN
  /\ taken \in [Batch -> [Target -> 0..MaxPriority]]
  /\ todo \in [Batch -> SUBSET Target]
  /\ \A b \in Batch : \A k \in todo[b] : taken[b][k] # 0
  /\ owed \in [Target -> BOOLEAN]
  /\ requests \in Nat

(* A wake that was requested and not handled since is pending or in a      *)
(* batch: coalescing, failures of other wakes, a batch that overlaps with  *)
(* another and the replacement of the handler lose none.                   *)
NoWakeLost ==
  \A k \in Target : owed[k] =>
    pending[k] # 0 \/ \E b \in Batch : k \in todo[b]

(* While there is a handler, pending wakes have something to start them: a *)
(* timer, the end of the batch that runs, or the task of the installation. *)
PendingIsScheduled ==
  handler # 0 /\ (\E k \in Target : pending[k] # 0) =>
    timer # "none" \/ toSchedule \/ (running /\ Executing # {})

(* Batches overlap only by replacing the handler: there are never more     *)
(* than handlers installed, and fewer while the running flag is clear.     *)
(* With one handler the wakes never overlap.                               *)
OneBatchPerHandler ==
  /\ Cardinality(Executing) <= installed
  /\ installed # 0 /\ ~running => Cardinality(Executing) < installed

(* What the flags, the timer and the batches are to each other, in one: it *)
(* is kept by every step.                                                  *)
IInv == TypeOK /\ PendingIsScheduled /\ OneBatchPerHandler

(* A pending wake becomes no less urgent, whatever is queued behind it and *)
(* whatever is put back by a batch that started before.                    *)
UrgencyKept ==
  [][\A k \in Target :
       pending[k] # 0 /\ pending'[k] # 0 => pending'[k] >= pending[k]]_vars

(* A pending wake is collected in the end, however often the handler       *)
(* raises or puts wakes off and whenever it is replaced, unless there is   *)
(* no handler: retries never stop the timer for good.                      *)
WakesCollected == \A k \in Target : pending[k] # 0 ~> (pending[k] = 0 \/ handler = 0)

(* gateway/bootstrap.py:924: the handler is wired "so cron / manual        *)
(* triggers reach all managers": a wake is handled in the end, unless the  *)
(* handler is gone.                                                        *)
WakesReachManagers == \A k \in Target : owed[k] ~> (~owed[k] \/ handler = 0)
=============================================================================
