----------------------------- MODULE AgentRuns ------------------------------
(***************************************************************************)
(* Agent runs in the gateway: the `agent` RPC (gateway/handlers.py) accepts*)
(* a request, answers at once, and runs the turn in the background through *)
(* a session lane (one run per session) and then a command lane (at most   *)
(* Cap runs), QueueManager.enqueue_session_then_lane.  chat.abort cancels  *)
(* the background task; a restart request drains the lanes.                *)
(*                                                                         *)
(* A lane appears here as the pool it implements (Lane!ImplementsPool): a  *)
(* line and the entries that execute.                                      *)
(*                                                                         *)
(* chat.send (gateway/api/chat.py) is the other client of active_runs: its *)
(* turn is a background task too, registered under the same ids, but it    *)
(* goes through no lane, so no drain counts it.                            *)
(***************************************************************************)
EXTENDS Naturals, Sequences, FiniteSets

CONSTANTS
  Req,        \* calls of the agent RPC and of chat.send
  Id,         \* run ids: idempotency keys or millisecond time stamps
  Session,
  NoReq,
  IdOf,       \* the run id of each call
  SessionOf,  \* the session key of each call
  Keyed,      \* calls that carry an idempotency key
  Resetting,  \* calls whose message is /new or /reset
  Chats,      \* calls of chat.send
  Cap         \* concurrency of the command lane

ASSUME ConstantsAssumption ==
  /\ IdOf \in [Req -> Id] /\ SessionOf \in [Req -> Session]
  /\ Keyed \subseteq Req /\ Resetting \subseteq Req
  /\ Chats \subseteq Req \ (Keyed \cup Resetting)
  /\ Cap \in Nat \ {0} /\ NoReq \notin Req

VARIABLES
  rpc,         \* the RPC call: not yet called, awaiting the session reset, answered
  dedupe,      \* gateway.agent_dedupe
  activeRuns,  \* gateway.active_runs
  status,      \* gateway.agent_run_status
  caller,      \* the background task awaiting enqueue_session_then_lane()
  stage,       \* how far the run's entry has come in the two lanes
  outcome,     \* how the run's coroutine ended
  sessionLine, commandLine,   \* entries queued in each lane
  draining,    \* QueueManager._gateway_draining
  restart,     \* _handle_restart: idle, waiting for the lanes, or done waiting
  aborting     \* run ids whose chat.abort awaits the cancelled task

vars == <<rpc, dedupe, activeRuns, status, caller, stage, outcome,
          sessionLine, commandLine, draining, restart, aborting>>
laneVars == <<stage, outcome, sessionLine, commandLine>>
gatewayVars == <<rpc, dedupe, activeRuns, status, aborting>>
drainVars == <<draining, restart>>

At(st) == {r \in Req : stage[r] = st}
InCommandLane == At("executing")
(* A session lane's single slot is taken from the start of the wrapped     *)
(* task until the inner enqueue has returned.                              *)
HoldsSession == At("entering") \cup At("commandQueued") \cup At("executing")
                \cup At("returning")
SessionBusy(s) == \E r \in HoldsSession : SessionOf[r] = s
Alive(r) == caller[r] \in {"created", "waiting"}

Init ==
  /\ rpc = [r \in Req |-> "new"]
  /\ dedupe = [i \in Id |-> "none"]
  /\ activeRuns = [i \in Id |-> NoReq]
  /\ status = [i \in Id |-> "none"]
  /\ caller = [r \in Req |-> "none"]
  /\ stage = [r \in Req |-> "idle"]
  /\ outcome = [r \in Req |-> "none"]
  /\ sessionLine = [s \in Session |-> <<>>] /\ commandLine = <<>>
  /\ draining = FALSE /\ restart = "idle" /\ aborting = {}

-----------------------------------------------------------------------------
(* The RPC. *)

(* Remember the key, create the background task, register it, answer.      *)
Accept(r) ==
  /\ rpc' = [rpc EXCEPT ![r] = "accepted"]
  /\ dedupe' = IF r \in Keyed THEN [dedupe EXCEPT ![IdOf[r]] = "accepted"]
                              ELSE dedupe
  /\ caller' = [caller EXCEPT ![r] = "created"]
  /\ activeRuns' = [activeRuns EXCEPT ![IdOf[r]] = r]
  /\ UNCHANGED <<status, aborting>>

KnownKey_OnlyFinal(r) == r \in Keyed /\ dedupe[IdOf[r]] = "final"
KnownKey(r) == r \in Keyed /\ dedupe[IdOf[r]] # "none"

(* The tasks of a session that carry _openclaw_meta, which chat.send alone *)
(* sets: an agent run of the session is not among them.                    *)
RegisteredChats(s) ==
  {r \in Chats : SessionOf[r] = s /\ activeRuns[IdOf[r]] = r /\ Alive(r)}
ChatsCancelled(s) ==
  [r \in Req |-> IF r \in RegisteredChats(s) THEN "aborted" ELSE caller[r]]

(* The reset runs up to its hooks, and cancels the chat turns, in the call.*)
AgentCall(r) ==
  /\ rpc[r] = "new" /\ r \notin Chats
  /\ \/ /\ KnownKey(r)
        /\ rpc' = [rpc EXCEPT ![r] = "cached"]
        /\ UNCHANGED <<dedupe, activeRuns, status, caller, aborting>>
     \/ /\ ~KnownKey(r) /\ r \in Resetting
        /\ rpc' = [rpc EXCEPT ![r] = "resetting"]
        /\ caller' = ChatsCancelled(SessionOf[r])
        /\ UNCHANGED <<dedupe, activeRuns, status, aborting>>
     \/ /\ ~KnownKey(r) /\ r \notin Resetting
        /\ Accept(r)
  /\ UNCHANGED <<laneVars, drainVars>>

(* `await _sessions_reset_method.execute(...)` returns. *)
ResetReturns(r) ==
  /\ rpc[r] = "resetting"
  /\ Accept(r)
  /\ UNCHANGED <<laneVars, drainVars>>

-----------------------------------------------------------------------------
(* The background task and the lanes. *)

(* First step of enqueue_session_then_lane(). *)
Refused == draining

EnterSessionLane(r) ==
  /\ caller[r] = "created" /\ r \notin Chats
  /\ IF Refused
     THEN /\ caller' = [caller EXCEPT ![r] = "error"]
          /\ UNCHANGED laneVars
     ELSE /\ caller' = [caller EXCEPT ![r] = "waiting"]
          /\ stage' = [stage EXCEPT ![r] = "sessionQueued"]
          /\ sessionLine' = [sessionLine EXCEPT ![SessionOf[r]] = Append(@, r)]
          /\ UNCHANGED <<outcome, commandLine>>
  /\ UNCHANGED <<gatewayVars, drainVars>>

(* The session lane starts its next entry. *)
SessionFree_WhenAbandoned(s) ==
  \A r \in HoldsSession : SessionOf[r] = s => ~Alive(r)
SessionFree(s) == ~SessionBusy(s)

SessionLaneStarts(s) ==
  /\ sessionLine[s] # <<>> /\ SessionFree(s)
  /\ stage' = [stage EXCEPT ![Head(sessionLine[s])] = "entering"]
  /\ sessionLine' = [sessionLine EXCEPT ![s] = Tail(@)]
  /\ UNCHANGED <<caller, outcome, commandLine, gatewayVars, drainVars>>

(* Bug variant: a refused inner enqueue is not returned to the session lane.*)
EnterCommandLane_WaitsForDrain(r) ==
  /\ stage[r] = "entering" /\ ~draining
  /\ stage' = [stage EXCEPT ![r] = "commandQueued"]
  /\ commandLine' = Append(commandLine, r)
  /\ UNCHANGED <<outcome, caller, sessionLine, gatewayVars, drainVars>>

(* wrapped_task() calls enqueue_in_lane(), which looks at the draining flag*)
(* again.                                                                  *)
EnterCommandLane(r) ==
  /\ stage[r] = "entering"
  /\ IF Refused
     THEN /\ stage' = [stage EXCEPT ![r] = "returning"]
          /\ outcome' = [outcome EXCEPT ![r] = "error"]
          /\ UNCHANGED commandLine
     ELSE /\ stage' = [stage EXCEPT ![r] = "commandQueued"]
          /\ commandLine' = Append(commandLine, r)
          /\ UNCHANGED outcome
  /\ UNCHANGED <<caller, sessionLine, gatewayVars, drainVars>>

CommandLaneStarts ==
  /\ commandLine # <<>> /\ Cardinality(InCommandLane) < Cap
  /\ stage' = [stage EXCEPT ![Head(commandLine)] = "executing"]
  /\ commandLine' = Tail(commandLine)
  /\ UNCHANGED <<caller, outcome, sessionLine, gatewayVars, drainVars>>

(* _run_agent_turn() returns (it swallows the turn's own exceptions, so a  *)
(* failed turn returns too), or the run's time limit raises.               *)
RunEnds(r) ==
  /\ stage[r] = "executing"
  /\ stage' = [stage EXCEPT ![r] = "returning"]
  /\ \E o \in {"ok", "error"} : outcome' = [outcome EXCEPT ![r] = o]
  /\ UNCHANGED <<caller, sessionLine, commandLine, gatewayVars, drainVars>>

(* The session lane's entry ends and settles the caller's future, if the   *)
(* caller still waits for it.                                              *)
SessionEntryEnds(r) ==
  /\ stage[r] = "returning"
  /\ stage' = [stage EXCEPT ![r] = "over"]
  /\ caller' = IF caller[r] = "waiting" THEN [caller EXCEPT ![r] = outcome[r]]
                                        ELSE caller
  /\ UNCHANGED <<outcome, sessionLine, commandLine, gatewayVars, drainVars>>

(* _cleanup_run(), the done callback of the background task. *)
Unregister(r) == [activeRuns EXCEPT ![IdOf[r]] = NoReq]

Reported_IgnoresException(r) == IF caller[r] = "aborted" THEN "aborted" ELSE "ok"
Reported(r) == caller[r]

Terminal_NotCancelled(r) == caller[r] \in {"ok", "error"}
Terminal(r) == caller[r] \in {"ok", "error", "aborted"}

CleanupRun(r) ==
  /\ Terminal(r) /\ r \notin Chats
  /\ status' = [status EXCEPT ![IdOf[r]] = Reported(r)]
  /\ caller' = [caller EXCEPT ![r] = "done"]
  /\ activeRuns' = Unregister(r)
  /\ dedupe' = IF r \in Keyed THEN [dedupe EXCEPT ![IdOf[r]] = "final"]
                              ELSE dedupe
  /\ UNCHANGED <<rpc, aborting, laneVars, drainVars>>

-----------------------------------------------------------------------------
(* chat.send.  The idempotency key is the run id and is not looked up: a   *)
(* retry is another turn.  The draining flag is not looked at either.      *)
ChatSend(r) ==
  /\ rpc[r] = "new" /\ r \in Chats
  /\ Accept(r)
  /\ UNCHANGED <<laneVars, drainVars>>

(* _execute_agent_turn() returns, its exceptions swallowed. *)
ChatTurnEnds(r) ==
  /\ caller[r] = "created" /\ r \in Chats
  /\ caller' = [caller EXCEPT ![r] = "ok"]
  /\ stage' = [stage EXCEPT ![r] = "over"]
  /\ outcome' = [outcome EXCEPT ![r] = "ok"]
  /\ UNCHANGED <<sessionLine, commandLine, gatewayVars, drainVars>>

ChatCleanup(r) ==
  /\ Terminal(r) /\ r \in Chats
  /\ caller' = [caller EXCEPT ![r] = "done"]
  /\ activeRuns' = Unregister(r)
  /\ UNCHANGED <<rpc, dedupe, status, aborting, laneVars, drainVars>>

(* The text "/stop", sessions.reset and sessions.delete: the session's chat*)
(* turns are cancelled, their own cleanup takes the ids out.               *)
CancelChats(s) ==
  /\ RegisteredChats(s) # {}
  /\ caller' = ChatsCancelled(s)
  /\ UNCHANGED <<laneVars, gatewayVars, drainVars>>

-----------------------------------------------------------------------------
(* chat.abort with a run id: cancel the registered task, await it for at   *)
(* most three seconds, then take the id out of active_runs.  The entry in  *)
(* the lanes does not belong to the cancelled task and stays.  With a      *)
(* session key it does so for one chat turn after the other.  A cancelled  *)
(* task is "aborted" at once: what it still does in those seconds is data. *)
Cancelled_OnlyWaiting(r) ==
  IF caller[r] = "waiting" THEN [caller EXCEPT ![r] = "aborted"] ELSE caller
Cancelled(r) == IF Alive(r) THEN [caller EXCEPT ![r] = "aborted"] ELSE caller

Abort(i) ==
  /\ activeRuns[i] # NoReq /\ i \notin aborting
  /\ aborting' = aborting \cup {i}
  /\ caller' = Cancelled(activeRuns[i])
  /\ UNCHANGED <<rpc, dedupe, activeRuns, status, laneVars, drainVars>>

AbortReturns(i) ==
  /\ i \in aborting
  /\ aborting' = aborting \ {i}
  /\ activeRuns' = [activeRuns EXCEPT ![i] = NoReq]
  /\ UNCHANGED <<rpc, dedupe, status, caller, laneVars, drainVars>>

-----------------------------------------------------------------------------
(* _handle_restart(): mark the gateway as draining, wait for the lanes to  *)
(* go idle or for thirty seconds, then replace the process: nothing of the *)
(* lanes, the registries and the background tasks survives.  An exec that  *)
(* fails is left out: the process then lives on after reset_all_lanes(),   *)
(* which Lane!ResetLane models, and nothing here is said of it.            *)
ActiveTasks == Cardinality(HoldsSession) + Cardinality(InCommandLane)
LanesIdle == ActiveTasks = 0

MarkDraining ==
  /\ restart = "idle"
  /\ draining' = TRUE /\ restart' = "waiting"
  /\ UNCHANGED <<caller, laneVars, gatewayVars>>

WaitEnds ==
  /\ restart = "waiting"
  /\ restart' \in {"timedOut"} \cup (IF LanesIdle THEN {"drained"} ELSE {})
  /\ UNCHANGED <<draining, caller, laneVars, gatewayVars>>

ReplaceProcess ==
  /\ restart \in {"timedOut", "drained"}
  /\ restart' = "restarted" /\ draining' = FALSE /\ aborting' = {}
  /\ rpc' = [r \in Req |-> IF rpc[r] = "resetting" THEN "accepted" ELSE rpc[r]]
  /\ dedupe' = [i \in Id |-> "none"] /\ status' = [i \in Id |-> "none"]
  /\ activeRuns' = [i \in Id |-> NoReq]
  /\ caller' = [r \in Req |-> "none"]
  /\ stage' = [r \in Req |-> "idle"] /\ outcome' = [r \in Req |-> "none"]
  /\ sessionLine' = [s \in Session |-> <<>>] /\ commandLine' = <<>>

-----------------------------------------------------------------------------
Progress(r) ==
  EnterSessionLane(r) \/ EnterCommandLane(r) \/ RunEnds(r)
  \/ SessionEntryEnds(r) \/ CleanupRun(r) \/ ResetReturns(r)
  \/ ChatTurnEnds(r) \/ ChatCleanup(r)

Lanes == CommandLaneStarts \/ \E s \in Session : SessionLaneStarts(s)

Next ==
  \/ \E r \in Req : AgentCall(r) \/ ChatSend(r) \/ Progress(r)
  \/ Lanes
  \/ \E s \in Session : CancelChats(s)
  \/ \E i \in Id : Abort(i) \/ AbortReturns(i)
  \/ MarkDraining \/ WaitEnds \/ ReplaceProcess

Spec == Init /\ [][Next]_vars

(* Background tasks and lanes run when they are ready (Lane: a lane nobody *)
(* stops admits), and every run ends.                                      *)
FairSpec ==
  /\ Spec
  /\ \A r \in Req : WF_vars(Progress(r))
  /\ WF_vars(CommandLaneStarts)
  /\ \A s \in Session : WF_vars(SessionLaneStarts(s))

-----------------------------------------------------------------------------
TypeOK ==
  /\ rpc \in [Req -> {"new", "cached", "resetting", "accepted"}]
  /\ dedupe \in [Id -> {"none", "accepted", "final"}]
  /\ activeRuns \in [Id -> Req \cup {NoReq}]
  /\ status \in [Id -> {"none", "ok", "error", "aborted"}]
  /\ caller \in [Req -> {"none", "created", "waiting", "ok", "error",
                         "aborted", "done"}]
  /\ stage \in [Req -> {"idle", "sessionQueued", "entering", "commandQueued",
                        "executing", "returning", "over"}]
  /\ outcome \in [Req -> {"none", "ok", "error"}]
  /\ sessionLine \in [Session -> Seq(Req)] /\ commandLine \in Seq(Req)
  /\ draining \in BOOLEAN /\ aborting \subseteq Id
  /\ restart \in {"idle", "waiting", "timedOut", "drained", "restarted"}

(* One agent run per session, even when the client aborted the run that    *)
(* holds the session and sent another (queue.py:255, "Session lane         *)
(* serializes per-session").  A turn of chat.send is in no lane and is     *)
(* promised nothing.                                                       *)
SessionSerial ==
  \A q, r \in InCommandLane : SessionOf[q] = SessionOf[r] => q = r

(* A drain converges: the lanes are idle in the end, unless the thirty     *)
(* seconds are over first (queue.py:266).                                  *)
DrainConverges == draining ~> (~draining \/ LanesIdle)

(* Every answered call reaches a terminal status that agent.wait can see,  *)
(* with the drain, aborts and the second look at the draining flag on the  *)
(* way, and every chat turn, cancelled or not, its cleanup, unless the     *)
(* process is replaced first.                                              *)
EveryRunReported ==
  \A r \in Req : rpc[r] = "accepted" ~>
    \/ IF r \in Chats THEN caller[r] = "done" ELSE status[IdOf[r]] # "none"
    \/ restart = "restarted"

(* The status agent.wait returns is the truth about the run: "ok" only     *)
(* when its turn was executed to its end, never when it was refused by a   *)
(* drain, cut off by its time limit or aborted (handlers.py:610).          *)
StatusTruthful ==
  \A i \in Id : status[i] = "ok" =>
    \E r \in Req : IdOf[r] = i /\ stage[r] = "over" /\ outcome[r] = "ok"

(* server.py:622, "Track active agent runs for abort": as long as the      *)
(* background task of a run lives and no abort of it is under way, its id  *)
(* leads to it, unless another call was accepted with the same id (two     *)
(* unkeyed calls of one millisecond, two /reset calls with one key, a      *)
(* chat.send that is sent again).                                          *)
SoleRunOfId(r) ==
  \A q \in Req : q # r /\ IdOf[q] = IdOf[r] => caller[q] = "none"
AbortReachesRun ==
  \A r \in Req : Alive(r) /\ SoleRunOfId(r) => activeRuns[IdOf[r]] = r

(* handlers.py:410, "Idempotency dedupe": within one process, calls with   *)
(* one idempotency key make one run.  A /reset call looks for its key      *)
(* before the reset and remembers it after it, so nothing is promised of   *)
(* those.                                                                  *)
OneRunPerKey ==
  \A q, r \in Keyed \ Resetting :
    IdOf[q] = IdOf[r] /\ caller[q] # "none" /\ caller[r] # "none" => q = r

(* The nesting of the lanes cannot lock up: whoever holds a session waits  *)
(* for the command lane, and nobody in the command lane waits for a        *)
(* session.  So an entry that waits does so behind one that can go on, or  *)
(* its own lane can start the next (queue.py:255).                         *)
InLanes(r) == stage[r] \notin {"idle", "over"}
GoesOn(r) == stage[r] \in {"entering", "executing", "returning"}
CommandLaneReady == commandLine # <<>> /\ Cardinality(InCommandLane) < Cap
SessionLaneReady(s) == sessionLine[s] # <<>> /\ SessionFree(s)
NoLaneDeadlock ==
  \A r \in Req : InLanes(r) =>
    \/ \E k \in Req : GoesOn(k) /\ (SessionOf[k] = SessionOf[r] \/ k \in InCommandLane)
    \/ CommandLaneReady
    \/ SessionLaneReady(SessionOf[r])

(* A background task that awaits its entry has one: no refusal, drain,     *)
(* abort or end leaves a task waiting for lanes that do not know of it.    *)
WaitingHasEntry ==
  \A r \in Req : caller[r] = "waiting" =>
    /\ InLanes(r)
    /\ stage[r] = "sessionQueued" =>
         \E i \in 1..Len(sessionLine[SessionOf[r]]) : sessionLine[SessionOf[r]][i] = r
    /\ stage[r] = "commandQueued" => \E i \in 1..Len(commandLine) : commandLine[i] = r

(* No accepted run is forgotten while the process lives: its task lives, or*)
(* its done callback is due, or its status can be read (handlers.py:610).  *)
NoneForgotten ==
  \A r \in Req : rpc[r] = "accepted" /\ restart # "restarted" =>
    \/ Alive(r) \/ Terminal(r)
    \/ caller[r] = "done" /\ (r \in Chats \/ status[IdOf[r]] # "none")

(* The command lane never executes more than its concurrency.              *)
CommandLaneBounded == Cardinality(InCommandLane) <= Cap

(* No entry moves back or runs twice, and while the gateway drains none    *)
(* joins a line: a drain only has to wait for what it found.               *)
Rank(st) == CASE st = "idle" -> 0 [] st = "sessionQueued" -> 1
              [] st = "entering" -> 2 [] st = "commandQueued" -> 3
              [] st = "executing" -> 4 [] st = "returning" -> 5 [] st = "over" -> 6
Advances(r) ==
  /\ Rank(stage[r]) <= Rank(stage'[r])
  /\ draining => stage'[r] = stage[r]
                 \/ stage'[r] \notin {"sessionQueued", "commandQueued"}
EntriesAdvance == [][~ReplaceProcess => \A r \in Req : Advances(r)]_vars

(* Both kinds of lane are the pool that Lane implements: what becomes of   *)
(* entries here is what a lane promises (queue.py:255, "command lane caps  *)
(* global concurrency").  A replaced process begins with new lanes.  An    *)
(* entry is followed whether or not its caller still waits for it.         *)
Entry == Req \ Chats
EndOf(r) == IF outcome[r] = "ok" THEN "result" ELSE "error"
CommandAnswer(r) ==
  IF stage[r] \in {"idle", "sessionQueued", "entering"} THEN "none"
  ELSE IF stage[r] \in {"commandQueued", "executing"} THEN "pending" ELSE EndOf(r)
SessionAnswer(r) ==
  IF stage[r] = "idle" THEN "none"
  ELSE IF stage[r] = "over" THEN EndOf(r) ELSE "pending"
EntriesOf(s) == {r \in Entry : SessionOf[r] = s}
HoldersOf(s) == {r \in HoldsSession : SessionOf[r] = s}

CommandLane == INSTANCE FifoPool WITH
  Task <- Entry, Caps <- {Cap}, cap <- Cap, waiting <- commandLine,
  executing <- InCommandLane, answer <- [r \in Entry |-> CommandAnswer(r)]
SessionLane(s) == INSTANCE FifoPool WITH
  Task <- EntriesOf(s), Caps <- {1}, cap <- 1, waiting <- sessionLine[s],
  executing <- HoldersOf(s), answer <- [r \in EntriesOf(s) |-> SessionAnswer(r)]

CommandLaneIsPool ==
  /\ CommandLane!Init
  /\ [][~ReplaceProcess => [CommandLane!Next]_(CommandLane!vars)]_vars
SessionLanesArePools ==
  /\ \A s \in Session : SessionLane(s)!Init
  /\ [][~ReplaceProcess =>
          \A s \in Session : [SessionLane(s)!Next]_(SessionLane(s)!vars)]_vars
=============================================================================
