# openclaw-python: models, checks and proofs

TLA+ modules for the concurrent core of the openclaw gateway: the part that
decides which agent turn runs when, what happens to work that has to wait, who
is told when it ends, and what is left after an abort, a restart, a lost
connection or a crash. The gateway is one asyncio
process. Nothing runs in parallel, but every `await` is a point where any other
coroutine may run, and most state lives in module-level or per-gateway
dictionaries that are read before an `await` and written after it. In all the
modules **one action is what the event loop runs between two awaits**. The
repository has no tests for these interleavings.

Contents: 1 the system, 2 the plan, 3 the modules, 4 the runs, 5 the proofs,
6 disagreements between code and documentation, 7 what is not modelled.

## 1. The system

```
 channels ──► auto_reply/reply (FollowupQueue) ──► agent turn ──► command-line backends
                                                     ▲              (Supervisor)
 WebSocket clients ──► connections ──► handlers ──► lanes (AgentRuns, Lane)
                      (Connections)   │   │          ▲
 nodes ◄──────────────────────────────┘   └─► approvals (Approvals)
       (Nodes)                                       │
 cron service (Cron) ────────────────────────────────┘ (isolated agent turns)
 heartbeat wake-ups (HeartbeatWake) ─────────────────┘
```

| component | state it keeps | operations | what is hard | what makes it correct |
|---|---|---|---|---|
| Execution lane, `agents/queuing/lane.py`, and the operations of `QueueManager` on one lane | an `asyncio.Queue`, the entry popped and held back at the limit, active count, limit, worker task, generation, callers' futures | enqueue, drop oldest, caller time-out, worker loop, clear, stop, generation bump, change of limit, reset | the worker ends and restarts by itself; callers give up while their entry is queued, held or executing; limits change while coroutines execute | FIFO start, bounded starts, conservation of entries, each future settled once, a live worker whenever something is queued |
| Agent runs, `gateway/handlers.py`, `queuing/queue.py`, `gateway/api/chat.py`, `gateway/services_manager.py` | `agent_dedupe`, `active_runs`, `agent_run_status`, background tasks, one lane per session, a command lane, the draining flag | the `agent` RPC, `chat.send`, their background tasks, `chat.abort`, restart with drain | nested lanes; the draining flag is read twice; a task, its lane entry and its status end at different moments | one writer per session, one run per idempotency key, truthful status, abort reaches the live task, a drain converges, every accepted run is reported |
| Followup queue, `auto_reply/reply/` | one queue object per busy session, its drain task, the active-run registry `ACTIVE_EMBEDDED_RUNS` | a message arrives (run, steer, interrupt, enqueue), drop, drain, clear, a turn's registration and end | decisions are taken on a registry that the turn enters many awaits later; queue objects are unregistered while a drain holds them | no message answered twice, none forgotten while nothing interferes, order kept, dropped messages reported |
| Cron, `cron/service.py`, `timer.py`, `locked.py` | jobs in memory and in a file, one timer task, a store lock, running markers | timer tick, add, update, remove, run, start with missed jobs, stop | the tick works outside the lock on a snapshot; every operation cancels the timer's task, in which the tick runs; crashes between mark and result | the timer never falls asleep, executing jobs are marked on disk, a stale snapshot starts nothing it should not, due jobs run |
| Gateway connections, `gateway/server.py` | one object per WebSocket | connect handshake, dispatch, close, clean-up | a connection handles its requests in sequence: while one blocks, it hears neither the next nor its own closing | a connection is deaf only while a handler of it waits; its end takes what it owned |
| Node registry, `gateway/node_registry.py`, `node.invoke` | the connection of each node, pending calls with futures and timers | register, unregister, invoke, result, time-out | reconnect before close; an answer or an end before the caller has registered its future; nodes that call each other | a live node is reachable; each call ends once, with the node's answer if it came in time |
| Approvals, `exec/approval_manager.py`, `infra/plugin_approvals_manager.py` | pending requests, decisions, one event per request | request, wait, resolve, expire | several waiters with their own time-outs; reused ids; whoever waits cannot decide on the same connection | a decision reaches who waited for it and nobody who asked for something else; every wait ends |
| Heartbeat wake-ups, `infra/heartbeat_wake.py` | pending wakes by target, timer, flags, the handler | request, batch, retry, change of handler | a batch that fails half-way; a handler installed during a batch | no wake lost, none made less urgent, pending ones always scheduled |
| Process supervisor, `process/supervisor.py`, called by `agents/cli_runner.py` | active runs, records, two timers and kill tasks for each, the process group | spawn with replacement of a scope, output, time-outs, cancel, wait | an aborted turn leaves its process; two turns resume one session; a descendant outlives the process and keeps its output open | nothing runs unwatched; a resumed session is run by one process; caller and record are told the end |
| Delivery queue, `infra/outbound/delivery_queue.py` | files of pending deliveries | enqueue, ack, fail, recover | crash between delivery and ack | at least once; but nothing calls it |
| ACP control plane, `acp/control_plane/` | tail task per session, cached runtimes | run operation, idle eviction | eviction outside the session's queue | operations of a session in order |
| Chat runs, `gateway/chat_state.py`, `auto_reply/reply/reply_dispatcher.py`, `debounce.py` | run buffers, reply chain, debounce buffers | send, stream, abort, flush | ordering of replies, flush racing new input | replies in order, nothing buffered for ever |

`PROJECT.json` lists every component, the ones without concurrency of their
own too, and each hazard at its line.

**How they interact.** A channel message enters through the followup queue,
which decides from `ACTIVE_EMBEDDED_RUNS` whether it runs, steers or waits; that
path does not pass the lanes. A client's `agent` call passes a session lane and,
inside it, the command lane; its turn registers in `ACTIVE_EMBEDDED_RUNS` too,
which is why FollowupQueue has *outside* runs. Cron runs its jobs in its own
timer task (the gateway passes it neither a lane manager nor a cron
configuration, `gateway/cron_bootstrap.py:544`); their agents may call back into
the cron service through the cron tool, and the store lock is not re-entrant. A
restart marks the lanes as draining, waits for them and replaces the process.
Nodes and operators share the connections: a handler that waits for a node or for
a decision keeps its connection deaf, so what a call can get depends on which
connections are left to answer it. A turn of a command-line backend awaits the
supervisor; aborting the turn cancels that await and not the process.

## 2. The plan

In the order of importance. On disk, with the proofs of each:

1. `Lane` with the abstract `FifoPool`. The lane is what bounds and orders all
   agent work.
2. `AgentRuns`: composes lanes *through the abstraction*: a lane appears as the
   pool that `Lane` is shown to implement.
3. `Cron`: timer, lock, file, crash.
4. `FollowupQueue`: one session's messages.
5. `Connections`, and its two compositions: `Nodes`, in which a node reconnects
   before its old connection closes and nodes call each other, and `Approvals`,
   in which a decision is asked for on one connection and taken on another. The
   two share nothing but the connections, so they are two systems and not one.
6. `HeartbeatWake`.
7. `Supervisor`.

Left:

8. `ChatRuns`: what a run of `chat.send` (which AgentRuns has as a task in
   `active_runs`) streams, its buffers and the order of its events.
9. In modules that exist: `agent.wait` in AgentRuns; jobs whose schedule cannot
   be computed in Cron; broadcasts in Connections.
10. The delivery queue and the ACP control plane, once the code has callers for
    them.

11. Proofs: the fairness-free cores of the liveness properties that have none yet
    (approvals, node calls, heartbeat wake-ups).

Abstract specifications: `FifoPool`, which `Lane` implements and which each lane
of `AgentRuns` is shown to be, the command lane and every session lane. For
nodes, "a call ends once" is stated as an action property, `SettledOnce`.

## 3. The modules

### Lane (class `Lane`, one lane)

Tasks are named by `task_id`, which `enqueue` hands out in order. `queue` is the
`asyncio.Queue`; `held` is the entry the worker has taken out of it and not yet
started because the lane is full; `worker` is where the worker task stands:
`"loop"` (at the `while self._running`), `"get"` (in `wait_for(queue.get(), 1)`),
`"full"` (polling for room), `"none"` (no live task). `running`, `active`,
`limit`, `generation`, `nextTaskId`, `activeTasks` are the fields of the same
meaning; `body` is the progress of the coroutine and `future` the state of the
caller's future. `discarded` and `cutLoose` are history: the entries that the drop
policy threw away without settling, and those a reset found executing.

| action | code |
|---|---|
| `Enqueue`, `EnqueueDropOld`, `StartWorker` | `enqueue` up to its await, `QueueManager.enqueue_in_lane` with policy `old`, `_start_worker` |
| `CallerGivesUp` | the caller's `wait_for` expires or the caller is cancelled |
| `WorkerLoop`, `WorkerPop`, `WorkerPoll`, `WorkerIdle` | the segments of `_worker` between its awaits |
| `Finish` | `_execute_task` after `await task()`, with its `finally` |
| `Clear`, `Stop`, `ResetGeneration` | the methods of these names |
| `SetLimit`, `ResetLane` | `set_lane_concurrency`, `reset_all_lanes` on this lane |

Policy `summarize` enqueues like no policy at all and policy `new` raises before
the lane is touched, so neither has an action. The polling interval and the
lengths of time-outs are not modelled: time-outs may fire at any moment.

`FifoPool` is what a lane promises: a line, a set of executing entries, a cap;
entries start in line order while the cap has room, and every future is answered
at most once. Tasks may be of any kind and each is submitted once; a pool that
takes no new work refuses (`Refuse`), a full line may forget one of its two oldest
(`SubmitDiscarding`). `Lane!Pool` maps `<<held>> \o queue` to the line, so the worker
with its ends and restarts is invisible.

### AgentRuns (the `agent` RPC through two lanes, `chat.send` beside it)

A call (`Req`) has a session, a run id (its idempotency key or a clock reading)
and may be a `/reset`, which awaits the session reset before it is accepted.
`caller` is the background task that awaits `enqueue_session_then_lane`, `stage`
how far the entry behind it has come: in the session lane's line, holding the
session's only slot (`entering`, `commandQueued`, `executing`, `returning`), or
over. Task and entry are separate because `chat.abort` cancels the task and
leaves the entry.

| action | code |
|---|---|
| `AgentCall`, `ResetReturns`, `Accept` | `handle_agent`: dedupe, reset, registration, answer |
| `EnterSessionLane`, `EnterCommandLane` | the two calls of `enqueue_in_lane`, each with its look at the draining flag |
| `SessionLaneStarts`, `CommandLaneStarts`, `SessionEntryEnds` | the lanes, as pools |
| `RunEnds`, `CleanupRun` | the turn's end, the done callback |
| `Abort`, `AbortReturns` | `chat.abort` before and after it awaits the cancelled task |
| `MarkDraining`, `WaitEnds`, `ReplaceProcess` | `_handle_restart` |
| `ChatSend`, `ChatTurnEnds`, `ChatCleanup` | `chat.send`, `_execute_agent_turn`, `_cleanup` |
| `CancelChats` | the text `/stop`, `sessions.reset`, `sessions.delete` |

The turn itself is a coroutine that ends well or badly. The calls in `Chats` are
those of `chat.send`: their task is registered in `active_runs` as an agent run's
is, but runs outside the lanes, so no drain refuses or counts it and no session
lane orders it. `CommandLane` and `SessionLane(s)` are instances of `FifoPool`: an
entry of a session lane executes, for that lane, all the time it waits for and
uses the command lane (`queue.py:255`). A cancelled task counts as ended at once:
what it still does within the three seconds that `chat.abort` gives it
(`chat.py:1053`) is not modelled. `ReplaceProcess` always succeeds: see section 7 for
an `execv` that fails. `chat.abort` with a session key is a series of `Abort` steps. The
buffers of `chat_registry` are left out.

### Cron

Time is only what the code compares. `next` is a moment `later` or `due`;
`marker` is `running_at_ms`, `fresh` or older than two hours (`stuck`).
`TimePasses` ages either, in memory and in the file alike. `mem` and `disk` are
the two copies of the jobs; a write of the file is atomic (`cron/store.py`
writes a temporary file and renames it). `tick` is where `_on_timer` stands,
`todo` its snapshot of due jobs, `results` what it will apply. `lock` is recorded
only while it is held across an await (`start`, `run`); the other critical
sections are single actions.

Abstractions worth knowing: a cancelled tick and its `finally` are one step with
the call that cancelled it; jobs of a batch run one at a time, which is the
default of the configuration the gateway passes; an agent's result is any of
`Outcomes`, whatever the job. The agents in `AgentsUseCron` call the cron tool. In
a tick, which holds no lock while its jobs execute, the call is answered, or the
job's time limit ends it (`service.py:1056`). In a job that `run` or `start`
executes it is not answered, because they hold the lock the tool needs: the agent
waits until the runtime cuts its turn off after 300 seconds
(`gateway/pi_runtime.py:1943`), or the job's own limit does before
(`gateway/cron_bootstrap.py:296`). So such a job ends, and the lock is released,
with one of `CutOff`: "error", or "ok" with the text that had come, since
`_collect_response` takes no notice of an error event
(`gateway/cron_bootstrap.py:286`). Left out: a `run` that is cancelled with the turn
of the agent that called it.

| action | code |
|---|---|
| `Fire`, `TickPick`, `TickStarts`, `TickBodyEnds`, `TickApply` | `CronTimer._wait`, `_pick_due_jobs`, `_run_single_job`, `_apply_results` |
| `Arm`, `EndTick` | `_arm_timer` from outside (it cancels the tick) and from the tick's `finally` |
| `Start`, `MissedEnds`, `StartEnds`, `Stop` | `start` with `_run_missed_jobs`, `stop` |
| `Add`, `Update`, `Remove`, `RunBegins`, `RunEnds` | the operations under the lock |
| `Crash` | the process dies; the next start loads the file |

### FollowupQueue

One session, since sessions share nothing. A queue is an *object*, named by the
message that created it, because clearing unregisters the object while a drain
may hold it. A *turn* is `_run_agent_now` for a message, a drain, or an outside
run; it passes `setup`, `running` (it is the entry of `ACTIVE_EMBEDDED_RUNS`) and
`delivery`. `fate` says what became of each message; `dropped` holds what the
next summary will report.

| action | code |
|---|---|
| `Arrive` with `Enqueue`, `Interrupt`, `Steer`, `RunNow` | `run_prepared_reply`, `resolve_active_run_queue_action`, `enqueue_followup_run` with its drop policy |
| `Register`, `RunEnds` | `set_active_embedded_run`, `clear_active_embedded_run` |
| `Finalize` | the `finally` of `_run_agent_now`: `schedule_followup_drain` |
| `DrainTakes`, `DrainTurnEnds`, `DrainFindsNothing` | the loop of `_drain` and its `finally`, which pops the session key |
| `Stop` | `clear_session_queues` from /stop, `sessions.reset`, `sessions.delete` |
| `OutsideBegins` | a turn of the session that no channel message started |

A turn registers once. The code's retry after a transient error
(`agent_runner_execution.py:577`) registers again; between the two the registry is
empty, as it is here between a turn's run and its delivery, and the second
registration does to the registry what `OutsideBegins` does. The cap is one for the
session, although each message could bring another (`queue.py:110`). Mode
`steer-backlog` steers *and* enqueues; only the second shows here. Left out:
messages with empty text, resolution of settings (mode may differ from message to message, the drop
policy is one for the session), the length of debouncing, what a turn says.
Policy `summarize` treats the queue as `old` does and is not an own value.

### Connections

What a WebSocket connection is to the handlers that wait. `stage` goes from
`"new"` (only `connect` is served) to a role and, when the loop has found the
socket closed, to `"gone"`; `closed` is the socket, `busy` says that the loop is
inside a handler. It is a part, not a system: `Nodes` and `Approvals` extend it
and conjoin its actions with those of their handlers.

| action | code |
|---|---|
| `Authenticate` | `connect`, up to `authenticated = True` and the role |
| `Reads`, `Blocks`, `Unblocks` | `async for msg in ws`, which awaits `_handle_request` |
| `PeerCloses`, `LoopEnds` | the end of the socket; the loop's end with the `finally` of `handle_websocket` |

Since the loop is one task, a closed socket is noticed only when its handler has
returned, and what was received before is served first. Authentication and scopes
decide only whether a request is served at all.

### Nodes (`NodeRegistry` and `node.invoke`)

`registered` is `_nodes`: one connection for each node id. A call is `"sending"`
while `send_event` awaits the transport, `"pending"` from the registration of its
future and its timer, `"settled"` when the future has a result, `"over"` when its
caller was answered. `received` says whether the node gets the request: what is
written to an open socket, even to one whose end the gateway does not know yet.
`latest` and `crossed` are history.

| action | code |
|---|---|
| `ConnectNode`, `CleanUp` with `Unregister` | `register_node`; the connection's `finally` with `unregister`, *by node id* |
| `NotConnected`, `Invoke`, `SendFails`, `SendReturns` | `handle_node_invoke` and `invoke` up to, and after, its await of the send |
| `Result`, `Timeout`, `Return` | `node.invoke.result`, the timer, the caller that wakes up |

The result may come over any connection of the node, also before the future is
registered (then it settles nothing). Capabilities, event subscriptions and the
index by device are data. The pending-work store is left out: the node role may
not call `node.pending.drain`, `pull` or `ack` (`gateway/authorization.py`), so
nothing takes from it.

### Approvals

Requests are numbered as they are made and have an id, which the caller of an
exec request may choose, and choose again once it is no longer pending. `pending`
and `decisions` are the manager's tables by id, `isSet` the request's event. A
wait is one call of `await_decision`, in the handler that made the request or in
`waitDecision`; it ends at *its* time-out, which expires whatever is pending under
the id. A wait may come when nothing is pending any more: it is answered at once
with the decision kept under the id (`MeantBy`), or with None, which changes nothing.
`decided` is history.

| action | code |
|---|---|
| `RequestTwoPhase`, `RequestAndWait`, `WaitDecision` | the handlers with `_create_record` and `await_decision` up to its await |
| `Resolve` | `resolve_sync`, from any connection that reads |
| `Woken`, `TimesOut` with `Expire` | the two ends of `await_decision` |

The plugin approvals manager is the same code without chosen ids. A prefix that
stands for an id and the list of allowed decisions only say which request and
which value is meant.

### HeartbeatWake

`pending` keeps for each target the priority of its wake, 0 for none. `timer` is
the timer's kind, `running` and `scheduled` the module's flags, `handler` the
number of the installation. A batch has what it took (`taken`) and what is left to
do (`todo`); several exist only because installing a handler clears `running`
while a batch of the old one is under way. `owed` is history: requested and not
handled since.

| action | code |
|---|---|
| `Request` | `request_heartbeat_now` with `_queue_pending_wake_reason` and `_schedule` |
| `FiresWithoutHandler`, `FiresWhileRunning`, `Starts` | `_execute_wakes` up to the first handler call |
| `Ran`, `Skipped`, `Raised` | the ways a handler call ends, each with the rest of the loop and the `finally` |
| `Install`, `SchedulesLate`, `Dispose` | `set_heartbeat_wake_handler`, the task it creates, the disposer it returns |

Time is abstract: a timer may fire whenever it is set. `Replies` says what a call
of the handler may come to: in the run `heartbeat` anything, as often as it likes;
in `heartbeat_gateway` only an exception, because that is all that can come of the
handler the gateway installs (section 6). The order in which a batch takes its wakes
is left open: `todo` is a set.

### Supervisor

A run is one call of `spawn` and the wait for it. `call` is how far the caller is;
`leader` the process, `heir` a descendant that keeps the output open. `active` is
`_active`, `forced` the closure's `forced_reason`, `overall` and `quiet` are the
two timers, `killing` a kill task in its grace period, `state` and `reason` the
record, `result` what the caller was told. A run has a scope only when it resumes
a CLI session (`cli_runner_helpers.py:508`); `unseen` is history: the runs still
being created when it was spawned.

| action | code |
|---|---|
| `Spawn` with `Cancelled` | `spawn` up to the await of the process: `cancel_scope`, the record |
| `Created`, `CreationFails`, `CreationCancelled` | the three ends of that await |
| `Settle`, `Abandon` | `wait_for_exit` after both awaits; the cancellation of the turn, which no handler there catches |
| `OverallTimeout`, `NoOutputTimeout`, `GraceOver`, `Output` | the timers with `request_cancel`, the kill task after the grace period, `touch_output` |
| `Fork`, `Dies` | the processes themselves |

A process's death and its reaping are one step, and it may die at any time, so
SIGTERM has no step. Overlapping kill tasks of a run are one flag. The ways a
process ends are one reason, `"exit"`. The branch of `wait_for_exit` for an exception
(`supervisor.py:707`) is left out: what can raise there is only the name of a
real-time signal that Python does not know. The pruning of more than 2000 old records
and the reuse of process ids are left out.

## 4. The runs

Bounds are constants of the modules; every one is named as a bound where it is
declared. Deadlock is checked for the lane; the other runs switch it off because
their systems really may stop (all calls made, process replaced, every message
answered, every connection gone).

| run | question | instance | why this size |
|---|---|---|---|
| `lane_serving` | with everything that can happen to a lane: count, conservation, and step refinement of the pool | 4 tasks, limits {1, 2}, one generation bump | one executing, one held, two queued is the fullest configuration that differs in kind; a limit can be lowered below the active count |
| `lane_liveness` | a lane nobody stops serves everybody; fair refinement | 3 tasks, limits {1, 2} | the race of the idle worker needs one task before and one after |
| `lane_reset` | whom `reset_all_lanes` leaves without an answer and what it does to the counter | 3 tasks, 2 resets | a completion from before the first, between and after |
| `agent_runs` | the RPC, its retry, a /reset and a `chat.send` to the same session, abort and restart at any point | 4 calls, 3 run ids, 1 session, cap 2; the retry comes after its call (`RetryFollows`, the two are interchangeable), one abort at a time (`OneAbort`) | contention on a session, on a key, on `active_runs` and on the draining flag at once; aborts of two ids touch different entries |
| `cron` | the scheduler under operations, time and a crash | a one-shot and a recurring job, whose agent calls the cron tool, 2 operations, 1 crash, 1 retry | two jobs are a batch in which one outlives the other; two operations can remove and re-add a job or run and disable it during one tick |
| `followup_queue` | messages in every mix of modes through queue, drop, drain and stop | 4 messages, cap 2, both policies, one message from another channel, 1 outside run, 1 stop | the turn, a full queue and one dropped; a clear and a new object while a drain is at work |
| `followup_lost` | a comment's claim, refuted (section 6) | the same | |
| `nodes` | calls, answers, time-outs and ends of connections in every order | 3 connections, each an operator's or one of 2 nodes', 2 calls | an old and a new connection of a node and one that calls it; two nodes that call each other; a node that calls itself |
| `approvals` | requests, waits and decisions on several connections | 3 connections, 2 ids, 2 requests, 3 waits, 2 decisions | two waits for one request and an id used twice; two operators who wait for each other and a third who may come |
| `heartbeat` | wakes through batches, failures and changes of the handler | 2 targets, 2 priorities, 3 requests, 2 handlers; failures without a bound | a batch of two that fails after the first; a second batch under the second handler while the first is under way |
| `heartbeat_gateway` | a comment's claim, refuted (section 6) | the same, 1 handler, of which every call raises | |
| `processes` | processes through spawn, timers, kills, aborts and replacement | 2 runs, 1 scope | a run that another replaces, was created beside, or was left behind by |

**What the properties say**, beyond the type invariants:

- *Lane.* `ActiveCountsExecuting` (the counter the idle check and the drain read
  is the truth), `NothingLost` (each pending future has an entry that will settle
  it), `ImplementsPool`, which includes FIFO starts under the limit and answers
  given once, `EveryCallerAnswered`, `ImplementsFairPool`; after resets
  `CounterNeverOver`, and `ResetLosesOnlyInFlight`: every pending future has an
  entry that is queued, held or executing, or its coroutine was executing at a reset.
  An entry that was only queued or held then is no exception: it runs and answers.
- *AgentRuns.* `SessionSerial` holds although an abort frees the client and not
  the session; `StatusTruthful`, `AbortReachesRun` and `OneRunPerKey` relate the
  registries to the tasks (the second for ids that only one run has, the third
  for calls other than `/reset`: the code promises no more, see section 6), and
  `AbortReachesRun` is about chat turns too; `DrainConverges` and `EveryRunReported` are about the restart.
- *Cron.* `SchedulerAwake` (no operation, tick end or start leaves an enabled job
  with a moment to run at and nobody to wake up), `ExecutingIsMarked`,
  `SnapshotStillCurrent`, `DueJobRuns`. The last needs the time limit of a turn: one
  of its mutants is the code without it, in which a job that waits for the lock held
  for it blocks the scheduler for ever.
- *FollowupQueue.* `OnePlace`, `SummaryHasCarrier`, `TakenInOrder`,
  `EveryoneHeard`. The last stops at the first interference (a cleared queue, an
  outside run), because after it the code makes no such promise;
  `followup_lost` shows what happens then.
- *Nodes.* The parts of `IInv` that say something of the code are
  `RegistryIsCurrent` (no call goes over a superseded connection or one whose end
  the gateway has seen) and `BusyIsOneCall`. `LostOnlyToReconnect`: a node that is
  there is NOT_CONNECTED only if another connection of it has ended. `PendingHasNode`: a call waits only for a node whose end will settle
  it, unless the entry went away during its send. `CircleGetsNoResult`: nodes that
  wait for each other get only time-outs and disconnects; the case of one node
  that invokes itself is in it. `EveryCallAnswered`.
- *Approvals.* `IInv` holds the agreement of the tables and `NoLostWakeUp`.
  `OwnDecision` says exactly how far an answer may be trusted: it was decided for
  this request if its id was used once, else for some request of that id.
  `ExpiredForAll`: one short time-out speaks for every waiter.
  `NoDecisionWhileAllWait` is the deadlock of operators who all wait.
  `EveryWaitAnswered`.
- *HeartbeatWake.* `IInv` holds `PendingIsScheduled` and `OneBatchPerHandler`;
  `NoWakeLost`, `UrgencyKept`, and `WakesCollected`: while there is a handler each
  pending wake is put in a batch in the end, and again whenever it came back. That it
  is *handled* depends on the handler, and the module promises nothing of it.
- *Supervisor.* `IInv` holds `AlwaysWatched` (a live process has a timer that will
  kill it or a kill under way, also when nobody waits for it any more) and the
  agreement of closure, record and registry. `ResumedAlone`: a turn that resumes a
  CLI session ends every process of it that was registered by then.
  `EveryProcessEnds`, `EveryRunSettles`.

**Fairness.** The event loop runs ready callbacks in order and timers fire, hence
weak fairness of whatever a task does next. Particular assumptions:

- Lane: strong fairness of `WorkerPop`. A worker in `"get"` alternates between
  its time-out and the queue; `get()` of a non-empty queue returns in the next
  iteration, so a one-second timer cannot win for ever. Coroutines are assumed to
  end.
- AgentRuns: each run's next step, each lane's start; nothing is assumed of
  clients, aborts or the restart.
- Cron: one weak fairness for the scheduler as a whole, one for each job's end
  and for time. A job ends because its turn is bounded: ten minutes or the job's own
  limit in a tick (`service.py:1271`), 300 seconds in the runtime otherwise
  (`pi_runtime.py:1943`). The scheduler's fairness is weaker than fairness per action: which of several enabled
  scheduler steps goes on is left open.
- FollowupQueue: one weak fairness for the turns together. Nobody has to write,
  stop, or start an outside run.
- Nodes, Approvals: one weak fairness of what goes on by itself: timers, woken
  handlers, loops that notice a closed socket. No node need answer, nobody need
  decide or close. A send to a peer that has stopped reading blocks until that
  socket closes, so it is fair only then, and `EveryCallAnswered` is about calls
  whose send is through: the code bounds nothing else.
- HeartbeatWake: timers, the late scheduling and the handler's return. The timer
  that finds a batch running and sets itself again is not made fair. Nothing is
  assumed of what a call comes to: the handler may raise or put off for ever.
- Supervisor: creation returns, the overall timer and the grace period end, and
  `wait_for_exit` goes on when process and output have ended. No process need die,
  fork or be silent; the no-output timer, which output may push back for ever, has
  no fairness.

Each property has a mutant of the code (a definition named
`Definition_WhatWentWrong` next to the one it replaces) that the same run
refutes; `PROJECT.json` lists them.

## 5. The proofs

One module of proofs for each of the eight components. They hold for every number
of tasks, calls, sessions, messages, jobs, connections, requests, targets or runs,
every limit, cap, mode and policy. The assumptions are those the modules state on
their constants (`LimitsAssumption`, `BoundsAssumption`, `ConstantsAssumption`,
`NumConnsAssumption`), nothing else. A run's invariant named `IInv` is the
inductive one itself.

**LaneProofs.** From one inductive invariant, `LaneInv`: `TypeCorrect`,
`FifoOrderHolds`, `NothingLostHolds`, `ActiveCountsExecutingHolds`,
`StartsUnderLimitHolds` (at the moment of each start, even after the limit was
lowered), `SettledOnceHolds`. The invariants are not inductive alone:

- `Unissued`: ids not handed out yet have no trace, and whatever is queued or
  held has been handed out. Without it a new entry could already be executing.
- `HeldMeansFull`: the worker holds an entry exactly when it polls for room.
  Otherwise `WorkerPop` could overwrite a held entry and lose its future.
- `RegisteredByGeneration`: what `_active_tasks` says of an executing entry is
  the generation it was enqueued with, which is what lets `Finish` settle its
  future; with it "executing" and "registered" are the same set.

`ImplementsPoolHolds` is the refinement: with the held entry in front of the
queue, each step of the lane is a step of `FifoPool` or a stutter. One lemma per
kind of step (`EnqueueRefines`, `DropRefines`, `AdmitRefines`, `WorkerRefines`,
`AnswersRefine`, `ClearRefines`); `FrontTaken` says that the worker's pop moves
an entry within the line and changes nothing of it.

With `ResetLane` (specification `ResetSpec`) the counter is not exact, and
`ResetInv` replaces `LaneInv`: what survives a reset (`LineInv`), and
`RegistrationInv`: a coroutine that executes without being registered is one that a
reset found executing. From it `ResetLosesOnlyInFlightHolds` and
`CounterNeverOverHolds`.

Two theorems are about the worker. `WorkHasWorkerHolds`: while nobody stops the
lane, whatever is queued or held has a live worker, and an entry is held only
while there is room for it or others execute. That is what `EveryCallerAnswered`
needs besides fairness; `Served` (the flag is the worker) is its invariant.
`EnqueueFindsWorkerHolds`: through any stops and resets, each `enqueue` finds or
starts a worker task. It says no more because the code does no more: after a stop
or a reset of a lane at work the worker that is found may be the old one on its
way out (section 6).

**AgentRunsProofs.** `TypeCorrect`, `SessionSerialHolds`, `OneRunPerKeyHolds`,
`AbortReachesRunHolds`, `StatusTruthfulHolds`, and what the lanes and the drain
rest on, in layers:

- `SessionInv`: at most one run of a session is anywhere between the start and
  the end of its session-lane entry (`OneHolder`; "executing" alone would not be
  inductive), the lines hold each waiting run once and in its own session, and a
  task that has not made its first step has no entry yet. `HolderMoves` and
  `CallerMoves` are the two patterns most steps follow.
- `RegistryInv`: a key is remembered as long as a run made with it is known, an
  id leads to a run of that id, an abort that awaits its task awaits a dead one.
  The last is what makes `AbortReturns`, which clears the registration without
  looking, harmless. An entry that returns has an outcome (`EndedHasOutcome`).
- `TruthInv`: a task that ended "ok" has an entry that is over and ended well,
  and such an entry never moves again (`FinishedStays`, which needs
  `SessionInv`: whatever a lane starts comes from its line).
- `LinesInv`: an entry that is in line stands in its line, the command lane has no
  more holders than its cap, and a task that awaits has an entry in the lanes.
  From it `CommandLaneBoundedHolds`, `WaitingHasEntryHolds` and
  `NoLaneDeadlockHolds`: the two kinds of lanes are nested and both bounded, and
  yet an entry always waits behind one that can go on, or its own lane can start
  the next. The argument is the order of the nesting: whoever holds a session
  waits at most for the command lane, and nobody in the command lane waits for a
  session. `EntriesAdvanceHolds` says that no entry moves back and none joins a
  line during a drain, `NoneForgottenHolds` that an accepted run has a live task, a
  status or a done callback that is due. The three are `DrainConverges` and
  `EveryRunReported` without their fairness. `LaneSteps` says once what each
  action does to both kinds of lines.
- `CommandLaneIsPoolHolds` and `SessionLanesArePoolsHold`: until the process is
  replaced, each step is, for each lane, a step of `FifoPool` or a stutter
  (`CommandLaneStep`, `SessionLaneStep`, one case for each way an entry moves).
  With `ImplementsPoolHolds` this joins the two models: what AgentRuns assumes of
  a lane is what Lane does.

**CronProofs.** `TypeCorrect`, `SchedulerAwakeHolds`, `ExecutingIsMarkedHolds`,
`SnapshotStillCurrentHolds`, from one invariant with a lemma for each action:

- `Phases`: what each phase of the service excludes; while `start` holds the lock
  there is no tick and no timer, and a tick's snapshot exists only while it
  executes. Without it an operation could find a timer armed that it must arm.
- `Bodies`: an executing body belongs to the tick in its execution phase, to a
  `run` that holds the lock, or to a `start`, and a tick and a `run` have one body
  at most. That is what ties a body to somebody who will clear its marker.
- `Finished`, of memory and of the file: a one-shot job that ended well has no next
  moment. The file needs it too, because a reload brings it back.
- `Snapshot`: each job the tick still has to start is marked in the file and
  enabled and due in memory. This is the fact `SnapshotStillCurrent` rests on:
  operations that would change such a job first cancel the tick.

The same invariant, with small additions, gives:

- `TickStagesHolds`: a picked job waits, executes or is done, never two of these,
  and each phase of a tick has something that takes it on.
- `LockHasHolderHolds`: the store lock, while it is held across an await, is
  `run`'s or `start`'s, and the jobs executed under it are all that it waits for.
- `FileKeepsUpHolds`: outside `start`, memory and file differ in running markers
  only. So a crash, which leaves the file alone, forgets no operation that was
  answered and no result that was applied.
- `StopIsNearlyFinalHolds`: of the race that `stop` loses (section 6) one more tick
  is all that comes.

**FollowupProofs.** `TypeCorrect` includes the cap on every object.
`SummaryHasCarrierHolds` is inductive with the type invariant; the step that
matters is the drop, where the cap being positive makes a full queue a non-empty
one. `OnePlaceHolds` is inductive with the type invariant as well, since it
covers *all* queue objects, the forgotten ones included; restricted to the
registered object it would not be, because a drain takes from objects that are
not. Its proof restates it over the sets of messages in each object
(`InPlaceIsOnePlace`) and has one lemma each for enqueueing, clearing and taking.
`TakenInOrderHolds` adds `InOrder`: each object is sorted, and messages come one
after the other, so that what is appended is behind all that waits (`ComesLast`,
which needs `OnePlace` to know that what waits has come). `FatesAreKeptHolds`: what
was taken, told, steered or cleared stays so, which is "nobody is answered twice"
as an action property. `NobodyStrandedHolds` is what `EveryoneHeard` needs besides
fairness: while nothing interferes, a queue that holds messages is registered and
has a drain, or a turn that will schedule one when it ends. Its two invariants are
`Watched` (who is registered as active does run, and a message has no turn before it
comes) and `Unstranded`; the step
that matters is the end of a drain, which pops the session key (`UnstrandedDrained`).

**NodesProofs.** `InvariantHolds` (the whole `IInv`), and from it
`LostOnlyToReconnectHolds`, `PendingHasNodeHolds`, `CircleGetsNoResultHolds`,
`SettledOnceHolds`. `BusyIsOneCall` is what makes the circle argument work for
every set of nodes: a connection that waits for a node of the set reads nothing,
so the answer that would settle a call of the set has no connection to come over.

**ApprovalsProofs.** `InvariantHolds`; then `OwnDecisionHolds`, and on top of it
`ExpiredForAllHolds`; `PendingIsWatchedHolds`, `NoDecisionWhileAllWaitHolds`,
`EndsAreFinalHolds`. The order matters: that nobody gets a decision for an expired
request needs that answers are decisions for the request waited for.
`PendingIsWatched` is not checked by a run of its own: a request that its maker
waits for has a waiter whose time-out removes it, unless its id was reused.

**HeartbeatProofs.** `InvariantHolds`, `NoWakeLostHolds`, `UrgencyKeptHolds`.
`OneBatchPerHandler` bounds the batches by the handlers installed (counting
arguments `BatchStarts`, `BatchEnds`); it is also what justifies that the model
has one batch more than handlers and never needs another.

**SupervisorProofs.** `InvariantHolds`, `ResumedAloneHolds`, `EndToldHolds`
(caller and record are told the same reason, except that a run
that had timed out and was then replaced is "manual-cancel" in its record) and
`ExitedIsFinalHolds`. `ResumedAlone` rests on `ActiveAgrees`, that an abandoned
run stays in `_active`: that is what lets the next turn find it.
`NearerItsEndHolds`: the stages of a process (watched, being killed, gone) only
advance, a watched one has its timer armed, and the timer and the end of the grace
period each bring it into the next stage; with fairness of these two,
`EveryProcessEnds`. `FirstReasonStandsHolds`: a later time-out or cancellation
changes neither why a run is ended nor what its caller is told.

**Only model-checked**: the liveness properties (`EveryCallerAnswered`,
`DrainConverges`, `EveryRunReported`, `DueJobRuns`, `EveryoneHeard`,
`EveryCallAnswered`, `EveryWaitAnswered`, `WakesCollected`, `EveryProcessEnds`,
`EveryRunSettles`) and the fair refinement `ImplementsFairPool`: fairness and
ENABLED are out of the prover's reach. For those of lanes, runs, messages and
processes the safety part of the argument is proved, as said above. Every other
property of a passing run is proved. The theorems that no run names were checked
by TLC on the runs' instances before they were proved.

## 6. Where the code and its documentation disagree

Two of these are runs that TLC refutes:

- `heartbeat_gateway`: the gateway wires the heartbeat's handler "so cron / manual
  triggers reach all managers" (`bootstrap.py:924`), as a function of one dictionary
  (`bootstrap.py:925`). The module calls its handler with keyword arguments
  (`heartbeat_wake.py:186`), so each call raises, its batch is put back, and the timer
  tries again for ever: no wake reaches a manager.
- `followup_lost`: new items schedule another drain "so they are not silently
  lost" (`reply/queue.py:430`). The drain of a cleared queue pops the session key
  when it ends, and with it the queue a later message created.

Others are visible in the models, without a run:

- `reset_all_lanes` "starts each lane's worker so preserved work drains
  immediately" (`queue.py:354`). It first sets `_running` to false, then asks for
  a worker (`queue.py:366`), which is refused while the old worker task is alive;
  that one then ends. Queued work waits for the next `enqueue`.
- Completions from before a reset still decrement the counter (`queue.py:350`
  says they are ignored), which can take it to -1 and the lane above its limit;
  and they still settle their futures (`lane.py:191` says otherwise).
- `wait_for_active_tasks` counts executing entries only, though it promises idle
  lanes (`queue.py:276`): queued entries are lost with the process.
- `chat.abort` is to "abort running agent execution" (`chat.py:981`). A run that
  still waits in a lane is reported as aborted; its entry stays and executes later.
- "Abort any active runs for this session" (`chat.py:709`, the text `/stop`) and
  "Abort any active agent turn task" (`sessions_methods.py:99`, a reset) look for
  tasks with `_openclaw_meta`, which only `chat.send` sets (`chat.py:829`), and so
  does `chat.abort` with a session key (`chat.py:1032`): runs of the `agent` RPC
  are not among those they find (`RegisteredChats`).
- `chat.send` requires an idempotency key (`chat.py:685`) and never looks it up:
  a call that is sent again makes a second turn under the same id, and the end of
  the first takes the second out of `active_runs` (`chat.py:850`). Its turns are
  neither refused nor counted by a drain, and run beside a lane run of the session.
- Two calls without a key in the same millisecond share a run id
  (`handlers.py:537`), and two `/reset` calls with the same key are both accepted
  while the reset awaits (`handlers.py:479`).
- `stop_async` "ensures the timer callback won't execute after stop() returns"
  (`timer.py:93`). If it cancels a tick, the tick's `finally` arms the timer once
  more, and that task is forgotten, not cancelled (`timer.py:98`).
- `run` and `start` execute jobs while they hold the store lock (`service.py:961`),
  which is not re-entrant and which every call of the cron tool takes
  (`agents/tools/cron.py:534`): an agent they run that calls the tool waits for a lock
  that is held for it, until its turn is cut off, and the scheduler and every other
  operation wait as long. The job is then recorded as failed, or as ok with the text
  so far.
- `run(force)` executes a job that a tick is executing; a one-shot job that
  succeeded never fires again when it is given a new time (`service.py:250`).
- A message that arrives between a run's end and its delivery overtakes the
  queued ones; one that arrives during an outside run waits for the next channel
  turn.
- The supervisor means to kill the process tree (`supervisor.py:240`). SIGKILL is
  sent only while the leader lives, so a descendant that survived SIGTERM keeps
  the output open and its run unsettled (`EveryRunSettles` has that exception).
- `agent.wait` waits for an event that only `notify_agent_waiters`
  (`handlers.py:5624`) sets, and nothing calls it.

## 7. What is not modelled

Section 2 says what comes next. Out of scope, with the reason for each in
`PROJECT.json`: the agent turn itself (model calls, tools, compaction), channel
adapters, storage formats, configuration, plugins, hooks, memory, media, front
ends, security policies. They are data transformation or I/O, or run in sequence.
That is most of the repository by size: the maps of the modules cover the
concurrent core, a small part of its lines.

Some parts have interesting state and no life in this code, so a model would be of
a library without its protocol: the delivery queue, the ACP control plane and
`ReplyDispatcher` have no callers; node pending work has no one who may drain it;
the channel manager's restart monitors run only with `start_all`, and the gateway
starts channels one by one; the announcements of subagents end before their
registry's retries matter. Of the heartbeat's requests only Telegram's reach it
(`channels/telegram/channel.py:546`): Feishu's is not awaited, and cron's is a
stub that logs (`gateway/cron_bootstrap.py:114`).

Within the modelled components, the handlers of `handlers.py` and `chat.py` other
than those named in section 3, the cron service's alerts, run log and
schedule-computation errors, a connection's broadcasts and session subscriptions,
and the wording, streaming and typing indicators of replies are left out. So are:

- `os.execv` that fails (`services_manager.py:154`). The process then lives on with
  lanes that `reset_all_lanes` has reset. If the drain had timed out there are
  coroutines in flight: `lane_reset` shows what becomes of a lane (its counter
  under-counts, so a session lane may start a second run), and AgentRuns, whose
  `SessionSerial` holds as long as the process is replaced, does not cover it.
- A `CancelledError` raised inside a lane's coroutine: `_execute_task` catches
  `Exception` only (`lane.py:144`), so the caller's future stays pending. A caller that
  gives up cancels its future and never the coroutine.
- The retry of a turn and per-message caps in FollowupQueue, and the winding down of
  cancelled chat turns in AgentRuns (section 3).
