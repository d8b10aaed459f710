-------------------------------- MODULE Lane --------------------------------
(***************************************************************************)
(* One execution lane of the gateway: class Lane of agents/queuing/lane.py *)
(* with the operations QueueManager (agents/queuing/queue.py) performs on  *)
(* a lane.  A caller enqueues a coroutine and awaits its future; a worker  *)
(* task pops entries and starts at most max_concurrent of them at a time.  *)
(*                                                                         *)
(* One action is what the event loop runs between two awaits.  Tasks are   *)
(* named by their task_id, which enqueue() hands out in order.             *)
(***************************************************************************)
EXTENDS Integers, Sequences, FiniteSets

CONSTANTS MaxTasks,        \* bound on _next_task_id
          Limits,          \* the values set_lane_concurrency() may install
          MaxGeneration    \* bound on generation

ASSUME LimitsAssumption == Limits \subseteq Nat \ {0} /\ Limits # {}
ASSUME BoundsAssumption == MaxTasks \in Nat /\ MaxGeneration \in Nat

Task == 1..MaxTasks
NoTask == 0
NoGen == -1

VARIABLES
  queue,        \* the asyncio.Queue, as task ids
  held,         \* the entry the worker popped and has not started yet
  active,       \* self.active
  limit,        \* self.max_concurrent
  running,      \* self._running
  worker,       \* where the worker task is; "none": no live worker task
  generation,   \* self.generation
  nextTaskId,   \* self._next_task_id
  taskGen,      \* the generation each entry was enqueued with
  activeTasks,  \* self._active_tasks; NoGen where the key is absent
  body,         \* progress of the coroutine _execute_task awaits
  future,       \* what the caller's future holds
  discarded,    \* ghost: entries drop policy "old" threw away
  cutLoose      \* ghost: entries a reset found executing

vars == <<queue, held, active, limit, running, worker, generation, nextTaskId,
          taskGen, activeTasks, body, future, discarded, cutLoose>>

workerVars == <<held, limit, generation, nextTaskId, taskGen, discarded, cutLoose>>
entryVars  == <<nextTaskId, taskGen, generation, limit, cutLoose>>

Executing == {t \in Task : body[t] = "running"}
Registered == {t \in Task : activeTasks[t] # NoGen}
Pending(t) == future[t] = "pending"
InQueue(t) == \E i \in 1..Len(queue) : queue[i] = t

-----------------------------------------------------------------------------
Init ==
  /\ queue = <<>> /\ held = NoTask
  /\ active = 0 /\ limit \in Limits
  /\ running = FALSE /\ worker = "none"
  /\ generation = 0 /\ nextTaskId = 1
  /\ taskGen = [t \in Task |-> 0]
  /\ activeTasks = [t \in Task |-> NoGen]
  /\ body = [t \in Task |-> "idle"]
  /\ future = [t \in Task |-> "none"]
  /\ discarded = {} /\ cutLoose = {}

(* _start_worker(): a no-op while the previous worker task is not done. *)
StartWorker ==
  IF worker = "none" THEN running' = TRUE /\ worker' = "loop"
                     ELSE UNCHANGED <<running, worker>>

(* enqueue() up to its await: the entry is queued behind `ahead`, the      *)
(* caller awaits the future.                                               *)
PutBehind(ahead) ==
  /\ nextTaskId \in Task
  /\ queue' = Append(ahead, nextTaskId)
  /\ nextTaskId' = nextTaskId + 1
  /\ taskGen' = [taskGen EXCEPT ![nextTaskId] = generation]
  /\ future' = [future EXCEPT ![nextTaskId] = "pending"]
  /\ IF running THEN UNCHANGED <<running, worker>> ELSE StartWorker
  /\ UNCHANGED <<held, active, limit, generation, activeTasks, body, cutLoose>>

Enqueue == PutBehind(queue) /\ UNCHANGED discarded

(* drop_policy "old": the oldest queued entry is taken out and forgotten;  *)
(* nobody settles its future.  ("summarize" is Enqueue; "new" raises       *)
(* before it touches the lane.)                                            *)
EnqueueDropOld ==
  /\ queue # <<>>
  /\ PutBehind(Tail(queue))
  /\ discarded' = discarded \cup {Head(queue)}

(* The caller's timeout expires or the caller is cancelled: its future is  *)
(* cancelled, the entry stays where it is.                                 *)
CallerGivesUp(t) ==
  /\ Pending(t)
  /\ future' = [future EXCEPT ![t] = "cancelled"]
  /\ UNCHANGED <<queue, held, active, running, worker, activeTasks, body,
                 discarded, entryVars>>

-----------------------------------------------------------------------------
(* The worker. *)

(* `while self._running`: await the next entry, or end. *)
WorkerLoop ==
  /\ worker = "loop"
  /\ worker' = IF running THEN "get" ELSE "none"
  /\ UNCHANGED <<queue, active, running, activeTasks, body, future, workerVars>>

(* The negation of `self.active >= self.max_concurrent`. *)
HasRoom_OffByOne == active <= limit
HasRoom == active < limit

(* Register the entry and create its _execute_task task. *)
StartExecution(t) ==
  /\ activeTasks' = [activeTasks EXCEPT ![t] = taskGen[t]]
  /\ active' = active + 1
  /\ body' = [body EXCEPT ![t] = "running"]
  /\ worker' = "loop"

(* queue.get() returns an entry: it starts at once below the limit, and is *)
(* held (already out of the queue) at the limit.                           *)
WorkerPop ==
  /\ worker = "get" /\ queue # <<>>
  /\ queue' = Tail(queue)
  /\ \/ /\ HasRoom
        /\ StartExecution(Head(queue))
        /\ UNCHANGED held
     \/ /\ ~HasRoom
        /\ held' = Head(queue)
        /\ worker' = "full"
        /\ UNCHANGED <<active, activeTasks, body>>
  /\ UNCHANGED <<running, future, discarded, entryVars>>

(* The poll of the `while self.active >= self.max_concurrent` loop. *)
WorkerPoll ==
  /\ worker = "full" /\ HasRoom
  /\ StartExecution(held)
  /\ held' = NoTask
  /\ UNCHANGED <<queue, running, future, discarded, entryVars>>

(* wait_for(queue.get(), 1.0) times out: an idle worker ends, any other    *)
(* goes round the loop.                                                    *)
LaneIdle == queue = <<>> /\ active = 0

EndWorker == running' = FALSE /\ worker' = "none"

WorkerIdle ==
  /\ worker = "get"
  /\ IF LaneIdle
     THEN EndWorker
     ELSE running' = running /\ worker' = "loop"
  /\ UNCHANGED <<queue, active, activeTasks, body, future, workerVars>>

Worker == WorkerLoop \/ WorkerPop \/ WorkerPoll \/ WorkerIdle

(* What the end of a coroutine leaves in its future: the outcome, if the   *)
(* entry is still registered under its generation and the future not done. *)
Settled_LatestGeneration(t, outcome) ==
  IF activeTasks[t] = generation /\ Pending(t) THEN outcome ELSE future[t]
Settled_DropsErrors(t, outcome) ==
  IF Pending(t) /\ outcome = "result" THEN outcome ELSE future[t]
Settled(t, outcome) ==
  IF activeTasks[t] = taskGen[t] /\ Pending(t) THEN outcome ELSE future[t]

(* The finally clause counts every coroutine out. *)
ActiveAfter_OnlyAwaited(t) == IF Pending(t) THEN active - 1 ELSE active
ActiveAfter(t) == active - 1

(* _execute_task() after `await task()`.  Nothing in the code cancels this  *)
(* task; were it cancelled, the future would stay pending (only Exception  *)
(* is caught).                                                             *)
Finish(t, outcome) ==
  /\ body[t] = "running"
  /\ body' = [body EXCEPT ![t] = "over"]
  /\ future' = [future EXCEPT ![t] = Settled(t, outcome)]
  /\ activeTasks' = [activeTasks EXCEPT ![t] = NoGen]
  /\ active' = ActiveAfter(t)
  /\ UNCHANGED <<queue, held, running, worker, discarded, entryVars>>

-----------------------------------------------------------------------------
(* Administration. *)

(* clear(): every entry still in the queue is rejected. *)
Rejected_Nobody == future
Rejected ==
  [t \in Task |-> IF InQueue(t) /\ Pending(t) THEN "cleared" ELSE future[t]]

Clear ==
  /\ queue # <<>>
  /\ queue' = <<>>
  /\ future' = Rejected
  /\ UNCHANGED <<held, active, running, worker, activeTasks, body, discarded,
                 entryVars>>

(* set_lane_concurrency(). *)
SetLimit ==
  /\ limit' \in Limits
  /\ UNCHANGED <<queue, held, active, running, worker, generation, nextTaskId,
                 taskGen, activeTasks, body, future, discarded, cutLoose>>

(* reset_generation(). *)
NextGeneration == generation + 1

ResetGeneration ==
  /\ generation < MaxGeneration
  /\ generation' = NextGeneration
  /\ UNCHANGED <<queue, held, active, limit, running, worker, nextTaskId,
                 taskGen, activeTasks, body, future, discarded, cutLoose>>

(* stop() up to its await of the worker task. *)
Stop ==
  /\ running
  /\ running' = FALSE
  /\ UNCHANGED <<queue, held, active, worker, activeTasks, body, future,
                 discarded, entryVars>>

(* reset_all_lanes() on this lane. *)
ResetLane ==
  /\ generation < MaxGeneration
  /\ generation' = NextGeneration
  /\ activeTasks' = [t \in Task |-> NoGen]
  /\ active' = 0
  /\ running' = (queue # <<>> /\ worker = "none")
  /\ worker' = IF queue # <<>> /\ worker = "none" THEN "loop" ELSE worker
  /\ cutLoose' = cutLoose \cup Executing
  /\ UNCHANGED <<queue, held, limit, nextTaskId, taskGen, body, future,
                 discarded>>

-----------------------------------------------------------------------------
FinishSome(t) == \E outcome \in {"result", "error"} : Finish(t, outcome)

Serve ==
  \/ Enqueue \/ EnqueueDropOld
  \/ \E t \in Task : CallerGivesUp(t) \/ FinishSome(t)
  \/ Worker
  \/ Clear \/ SetLimit

Next == Serve \/ Stop \/ ResetGeneration

(* The event loop runs the worker whenever it is ready (its timers always  *)
(* fire); get() on a non-empty queue returns in the next iteration, so its *)
(* one-second timer cannot win for ever; tasks are assumed to end.         *)
Fairness ==
  /\ WF_vars(Worker) /\ SF_vars(WorkerPop)
  /\ \A t \in Task : WF_vars(FinishSome(t))

Spec == Init /\ [][Next]_vars
ServeSpec == Init /\ [][Serve]_vars /\ Fairness
ResetSpec == Init /\ [][Serve \/ Stop \/ ResetLane]_vars

-----------------------------------------------------------------------------
TypeOK ==
  /\ queue \in Seq(Task)
  /\ held \in Task \cup {NoTask}
  /\ active \in Int
  /\ limit \in Limits
  /\ running \in BOOLEAN
  /\ worker \in {"none", "loop", "get", "full"}
  /\ generation \in Nat
  /\ nextTaskId \in 1..(MaxTasks + 1)
  /\ taskGen \in [Task -> Nat]
  /\ activeTasks \in [Task -> Nat \cup {NoGen}]
  /\ body \in [Task -> {"idle", "running", "over"}]
  /\ future \in [Task -> {"none", "pending", "result", "error", "cleared",
                          "cancelled"}]
  /\ discarded \subseteq Task /\ cutLoose \subseteq Task

(* Entries start in the order they were enqueued: whatever is queued is in *)
(* ascending order, behind the held entry, behind everything that started. *)
Started(t) == body[t] # "idle"
FifoOrder ==
  /\ \A i, j \in 1..Len(queue) : i < j => queue[i] < queue[j]
  /\ \A i \in 1..Len(queue) : held < queue[i]
  /\ \A t \in Task : Started(t) =>
       /\ held # NoTask => t < held
       /\ \A i \in 1..Len(queue) : t < queue[i]

(* The counter the worker, the idle check and wait_for_active_tasks() read *)
(* is the number of coroutines that are executing, and these are the keys  *)
(* of _active_tasks.                                                       *)
ActiveCountsExecuting ==
  /\ Registered = Executing
  /\ active = Cardinality(Executing)

(* No caller waits for a future that nobody will settle: its entry is      *)
(* queued, held or executing, unless a drop policy discarded it.           *)
NothingLost ==
  \A t \in Task : Pending(t) =>
    InQueue(t) \/ held = t \/ body[t] = "running" \/ t \in discarded

(* The strengthening that makes the three invariants above inductive.      *)
Unissued ==
  /\ \A t \in Task : t >= nextTaskId => body[t] = "idle" /\ future[t] = "none"
  /\ \A i \in 1..Len(queue) : queue[i] < nextTaskId
  /\ held < nextTaskId
HeldMeansFull == worker = "full" <=> held # NoTask
RegisteredByGeneration ==
  \A t \in Task :
    activeTasks[t] = IF body[t] = "running" THEN taskGen[t] ELSE NoGen
LaneInv ==
  /\ TypeOK /\ Unissued /\ HeldMeansFull /\ RegisteredByGeneration
  /\ FifoOrder /\ active = Cardinality(Executing) /\ NothingLost

(* A coroutine only starts while fewer than max_concurrent execute: the    *)
(* bound holds at every start, whatever set_lane_concurrency() did before. *)
StartsUnderLimit ==
  [][\A t \in Task : body[t] = "idle" /\ body'[t] = "running"
       => Cardinality(Executing') <= limit]_vars

(* clear() and a caller's timeout never stop or settle what is executing:  *)
(* only the coroutine's own end settles an executing entry's future with a *)
(* value, and the future never changes again.                              *)
SettledOnce ==
  [][\A t \in Task :
       /\ future[t] \notin {"none", "pending"} => future'[t] = future[t]
       /\ future'[t] = "cleared" /\ future[t] # "cleared"
            => body[t] = "idle" /\ held # t]_vars

(* Every caller whose entry was not discarded gets an answer, as long as   *)
(* nobody stops the lane.                                                  *)
EveryCallerAnswered ==
  \A t \in Task :
    (Pending(t) /\ t \notin discarded) ~> (~Pending(t) \/ t \in discarded)

(* After reset_all_lanes() the counter is only a lower bound: it never     *)
(* exceeds the registered coroutines, which are all still executing, so    *)
(* wait_for_active_tasks() may give up too early but never waits for a     *)
(* coroutine that is over.                                                 *)
CounterNeverOver ==
  Registered \subseteq Executing /\ active <= Cardinality(Registered)

(* reset_all_lanes() leaves without an answer only the callers whose       *)
(* coroutine it found executing.  An entry that was queued or held when it *)
(* came keeps its place and its future, and is answered when it has run,   *)
(* although its generation is over by then (queue.py:345).                 *)
ResetLosesOnlyInFlight ==
  \A t \in Task : Pending(t) =>
    \/ InQueue(t) \/ held = t \/ body[t] = "running" \/ t \in discarded
    \/ body[t] = "over" /\ t \in cutLoose

(* While nobody stops the lane, what it has to do has a live worker that   *)
(* goes on: the worker's idle check, the flag that enqueue() reads and     *)
(* _start_worker()'s test of the task never leave an entry behind.  Only a *)
(* worker at the limit holds an entry, and there somebody else executes.   *)
WorkHasWorker ==
  /\ queue # <<>> \/ held # NoTask => running /\ worker # "none"
  /\ worker = "full" <=> held # NoTask
  /\ held # NoTask => HasRoom \/ Executing # {}

(* However the lane was stopped and reset before, whoever enqueues finds   *)
(* or starts a worker task: the flag is never set without one              *)
(* (lane.py:70).  After a stop or a reset of a lane at work that worker    *)
(* may be on its way out.                                                  *)
EnqueueFindsWorker ==
  [][nextTaskId' # nextTaskId => worker' # "none" /\ (running' \/ worker # "none")]_vars

(* The lane implements the abstract pool: its worker, with the entry it    *)
(* holds back at the limit and its ends and restarts, is invisible.        *)
Pool == INSTANCE FifoPool WITH
  Caps <- Limits, cap <- limit, answer <- future,
  executing <- Executing,
  waiting <- IF held = NoTask THEN queue ELSE <<held>> \o queue

(* Every step of a serving lane, resets of the generation and stop()       *)
(* included, is a step of the pool or a stutter (class Lane's docstring).  *)
ImplementsPool == Pool!Spec
(* ... and a lane nobody stops also admits and ends what the pool must.    *)
ImplementsFairPool == Pool!FairSpec
=============================================================================
