---------------------------- MODULE FollowupQueue -----------------------------
(***************************************************************************)
(* What happens to channel messages that arrive while their session is     *)
(* busy (openclaw/auto_reply/reply: agent_runner.py, queue.py,             *)
(* followup_runner.py): a message starts a turn, steers the active run, or *)
(* waits in the session's followup queue, which the turn that ends         *)
(* schedules a drain of.  Sessions share nothing, so the module models one.*)
(*                                                                         *)
(* A queue is a Python object registered under the session key; clearing   *)
(* unregisters it while a drain may still hold it, and the next message    *)
(* makes another one.  An object is named by the message that created it.  *)
(* A turn awaits freely before it registers as the active run ("setup"),   *)
(* while it is registered ("running") and after ("delivery").              *)
(***************************************************************************)
EXTENDS Naturals, Sequences, Functions

CONSTANTS
  NumMsgs,     \* bound: messages, numbered as they arrive
  Modes,       \* queue modes, which may differ from message to message
  Policies,    \* drop policies; one of them is configured
  Elsewhere,   \* messages that come from a second channel
  Cap,         \* QueueSettings.cap, one for the session
  MaxOutside,  \* bound: runs of this session that no channel message started
  MaxStops     \* bound: /stop, sessions.reset and sessions.delete

Msg == 1..NumMsgs

ASSUME ConstantsAssumption ==
  /\ NumMsgs \in Nat /\ Cap \in Nat \ {0} /\ MaxStops \in Nat
  /\ MaxOutside \in Nat /\ Elsewhere \subseteq Msg
  /\ Modes \subseteq {"followup", "collect", "steer", "steer-backlog", "interrupt", "queue"}
  /\ Policies \subseteq {"old", "new"} \* "summarize" does what "old" does

VARIABLES
  fate,        \* "new", "taken" (by a turn), "queued", "dropped", "told", ...
  items,       \* _FollowupQueueState.items of each object
  dropped,     \* what dropped_count counts and summary_lines lists
  mode,        \* _FollowupQueueState.mode
  registered,  \* the object in _FOLLOWUP_QUEUES, if any: a set of at most one
  phase,       \* where each turn is; a drain is between turns in "wait"
  active,      \* ACTIVE_EMBEDDED_RUNS of the session: at most one turn
  policy,      \* QueueSettings.drop_policy
  disturbed,   \* history: the queue was cleared or an outside run began
  stops

vars == <<fate, items, dropped, mode, registered, phase, active, policy,
          disturbed, stops>>
queueVars == <<fate, items, dropped, mode, registered>>

Main(m) == <<"main", m>>          \* _run_agent_now for m
Drain(q) == <<"drain", q>>        \* _drain over the object q
Outside(k) == <<"outside", k>>    \* RPC, cron and heartbeat turns
Turn == ({"main", "drain"} \X Msg) \union ({"outside"} \X (1..MaxOutside))
Phases == {"none", "wait", "setup", "running", "delivery", "over"}
Fates == {"new", "taken", "steered", "queued", "dropped", "told", "cleared"}

Draining(q) == phase[Drain(q)] # "none"
Waiting(q) == Range(items[q])
Depth == IF registered = {} THEN 0
         ELSE LET q == CHOOSE r \in registered : TRUE IN Len(items[q])

Init ==
  /\ fate = [m \in Msg |-> "new"]
  /\ items = [q \in Msg |-> <<>>] /\ dropped = [q \in Msg |-> {}]
  /\ mode \in [Msg -> {"none"}]
  /\ registered = {} /\ active = {}
  /\ phase = [t \in Turn |-> "none"]
  /\ policy \in Policies
  /\ disturbed = FALSE /\ stops = 0

-----------------------------------------------------------------------------
(* Messages (run_prepared_reply). *)

NextToCome(m) == fate[m] = "new" /\ \A k \in Msg : k < m => fate[k] # "new"
RunNow(m) == phase' = [phase EXCEPT ![Main(m)] = "setup"]

Full_OffByOne(q) == Len(items[q]) > Cap
Full(q) == Len(items[q]) >= Cap

(* enqueue_followup_run, with _get_followup_queue and _apply_drop_policy.   *)
(* Channel messages carry no message id, so nothing is deduplicated.        *)
Enqueue_NewerFirst(m, md) ==
  \E q \in (IF registered = {} THEN {m} ELSE registered) :
    /\ registered' = {q} /\ mode' = [mode EXCEPT ![q] = md]
    /\ items' = [items EXCEPT ![q] = <<m>> \o @]
    /\ fate' = [fate EXCEPT ![m] = "queued"] /\ UNCHANGED dropped
Enqueue(m, md) ==
  \E q \in (IF registered = {} THEN {m} ELSE registered) :
    /\ registered' = {q} /\ mode' = [mode EXCEPT ![q] = md]
    /\ \/ /\ ~Full(q)
          /\ items' = [items EXCEPT ![q] = Append(@, m)]
          /\ fate' = [fate EXCEPT ![m] = "queued"]
          /\ UNCHANGED dropped
       \/ /\ Full(q) /\ policy = "new"
          /\ dropped' = [dropped EXCEPT ![q] = @ \union {m}]
          /\ fate' = [fate EXCEPT ![m] = "dropped"]
          /\ UNCHANGED items
       \/ /\ Full(q) /\ policy = "old"
          /\ dropped' = [dropped EXCEPT ![q] = @ \union {Head(items[q])}]
          /\ items' = [items EXCEPT ![q] = Append(Tail(@), m)]
          /\ fate' = [fate EXCEPT ![m] = "queued", ![Head(items[q])] = "dropped"]

(* clear_followup_queue; `f' are the fates of the messages otherwise. *)
ClearQueue(f) ==
  LET gone == UNION {Waiting(q) \union dropped[q] : q \in registered} IN
  /\ items' = [q \in Msg |-> IF q \in registered THEN <<>> ELSE items[q]]
  /\ dropped' = [q \in Msg |-> IF q \in registered THEN {} ELSE dropped[q]]
  /\ fate' = [m \in Msg |-> IF m \in gone THEN "cleared" ELSE f[m]]
  /\ registered' = {} /\ disturbed' = (disturbed \/ registered # {})
  /\ UNCHANGED mode

Interrupt(m) ==
  LET f == [fate EXCEPT ![m] = "taken"] IN
  /\ IF Depth > 0 \/ active # {} THEN ClearQueue(f)
     ELSE fate' = f /\ UNCHANGED <<items, dropped, mode, registered, disturbed>>
  /\ RunNow(m)

Steer(m) ==
  /\ active # {}
  /\ fate' = [fate EXCEPT ![m] = "steered"]
  /\ UNCHANGED <<items, dropped, mode, registered, phase, disturbed>>

(* Mode "steer-backlog" may steer too, and queues the message all the same.*)
Arrive(m, md) ==
  /\ NextToCome(m)
  /\ \/ md = "interrupt" /\ Interrupt(m)
     \/ md = "steer" /\ Steer(m)
     \/ /\ md \in {"followup", "collect", "steer", "steer-backlog"} /\ active # {}
        /\ Enqueue(m, md) /\ UNCHANGED <<phase, disturbed>>
     \/ /\ md = "queue" \/ (md # "interrupt" /\ active = {})
        /\ RunNow(m) /\ fate' = [fate EXCEPT ![m] = "taken"]
        /\ UNCHANGED <<items, dropped, mode, registered, disturbed>>
  /\ UNCHANGED <<active, policy, stops>>

(* The session is stopped, reset or deleted; its run is asked to abort.    *)
Stop ==
  /\ stops < MaxStops /\ stops' = stops + 1
  /\ ClearQueue(fate)
  /\ UNCHANGED <<phase, active, policy>>

-----------------------------------------------------------------------------
(* Turns. *)

(* A turn registers once here.  One that meets a transient error registers *)
(* again (agent_runner_execution.py:577), as an outside run does during its*)
(* delivery.                                                               *)
Register(t) ==
  /\ phase[t] = "setup" /\ phase' = [phase EXCEPT ![t] = "running"]
  /\ active' = {t}
  /\ UNCHANGED <<queueVars, policy, disturbed, stops>>

(* Answered, failed, aborted or timed out.  The registry is left alone     *)
(* when a later run has taken the entry over.                              *)
RunEnds(t) ==
  /\ phase[t] = "running"
  /\ phase' = [phase EXCEPT ![t] = "delivery"] /\ active' = active \ {t}
  /\ UNCHANGED <<queueVars, policy, disturbed, stops>>

(* An outside run touches nothing here but the registry. *)
OutsideBegins(k) ==
  /\ phase[Outside(k)] = "none"
  /\ phase' = [phase EXCEPT ![Outside(k)] = "running"]
  /\ active' = {Outside(k)} /\ disturbed' = TRUE
  /\ UNCHANGED <<queueVars, policy, stops>>

(* finalize_with_followup and schedule_followup_drain. *)
ToDrain == {q \in registered : items[q] # <<>> /\ ~Draining(q)}

(* The `finally' of _run_agent_now, from every way out of it. *)
Finalize(m) ==
  /\ phase[Main(m)] \in {"setup", "delivery"}
  /\ phase' = [t \in Turn |-> IF t = Main(m) THEN "over"
                              ELSE IF t \in {Drain(q) : q \in ToDrain} THEN "wait"
                              ELSE phase[t]]
  /\ UNCHANGED <<queueVars, active, policy, disturbed, stops>>

-----------------------------------------------------------------------------
(* The drain of an object (_drain).  Debouncing takes any time. *)

CrossChannel(q) == ~(Waiting(q) \subseteq Elsewhere \/ Waiting(q) \cap Elsewhere = {})
Batch(q) == IF mode[q] = "collect" /\ Len(items[q]) > 1 /\ ~CrossChannel(q)
            THEN Waiting(q) ELSE {Head(items[q])}
Leftover_KeepsBatch(q) == IF Batch(q) = Waiting(q) THEN items[q] ELSE Tail(items[q])
Leftover(q) == IF Batch(q) = Waiting(q) THEN <<>> ELSE Tail(items[q])

(* The summary of what was dropped rides along with the batch. *)
DrainTakes_KeepsSummary(q) ==
  /\ phase[Drain(q)] = "wait" /\ items[q] # <<>>
  /\ items' = [items EXCEPT ![q] = Leftover(q)]
  /\ fate' = [m \in Msg |-> IF m \in Batch(q) THEN "taken" ELSE fate[m]]
  /\ phase' = [phase EXCEPT ![Drain(q)] = "setup"]
  /\ UNCHANGED <<dropped, mode, registered, active, policy, disturbed, stops>>
DrainTakes(q) ==
  /\ phase[Drain(q)] = "wait" /\ items[q] # <<>>
  /\ items' = [items EXCEPT ![q] = Leftover(q)]
  /\ dropped' = [dropped EXCEPT ![q] = {}]
  /\ fate' = [m \in Msg |-> IF m \in Batch(q) THEN "taken"
                            ELSE IF m \in dropped[q] THEN "told" ELSE fate[m]]
  /\ phase' = [phase EXCEPT ![Drain(q)] = "setup"]
  /\ UNCHANGED <<mode, registered, active, policy, disturbed, stops>>

(* The `finally' of _drain: the key is popped, whatever object it holds.   *)
Pop(q) == registered' = IF dropped[q] = {} THEN {} ELSE registered

(* run_followup returns (its errors are logged) and the loop goes round.   *)
DrainTurnEnds_NoLoop(q) ==
  /\ phase[Drain(q)] \in {"setup", "delivery"}
  /\ phase' = [phase EXCEPT ![Drain(q)] = "none"]
  /\ IF items[q] = <<>> THEN Pop(q) ELSE UNCHANGED registered
  /\ UNCHANGED <<fate, items, dropped, mode, active, policy, disturbed, stops>>
DrainTurnEnds(q) ==
  /\ phase[Drain(q)] \in {"setup", "delivery"}
  /\ IF items[q] = <<>> /\ dropped[q] = {}
     THEN phase' = [phase EXCEPT ![Drain(q)] = "none"] /\ Pop(q)
     ELSE phase' = [phase EXCEPT ![Drain(q)] = "wait"] /\ UNCHANGED registered
  /\ UNCHANGED <<fate, items, dropped, mode, active, policy, disturbed, stops>>

DrainFindsNothing(q) ==
  /\ phase[Drain(q)] = "wait" /\ items[q] = <<>>
  /\ phase' = [phase EXCEPT ![Drain(q)] = "none"] /\ Pop(q)
  /\ UNCHANGED <<fate, items, dropped, mode, active, policy, disturbed, stops>>

TurnStep ==
  \/ \E t \in Turn : Register(t) \/ RunEnds(t)
  \/ \E m \in Msg : Finalize(m)
  \/ \E q \in Msg : DrainTakes(q) \/ DrainTurnEnds(q) \/ DrainFindsNothing(q)

Next ==
  \/ \E m \in Msg, md \in Modes : Arrive(m, md)
  \/ Stop
  \/ \E k \in 1..MaxOutside : OutsideBegins(k)
  \/ TurnStep

Spec == Init /\ [][Next]_vars

(* Turns run under asyncio.wait_for with a timeout, and debouncing polls a *)
(* clock: some turn goes on while there is one.  No order among the turns  *)
(* is assumed, and nobody has to write or to stop.                         *)
FairSpec == Spec /\ WF_vars(TurnStep)

-----------------------------------------------------------------------------
(* Type correctness, with the cap. *)
TypeOK ==
  /\ fate \in [Msg -> Fates]
  /\ items \in [Msg -> Seq(Msg)] /\ \A q \in Msg : Len(items[q]) <= Cap
  /\ dropped \in [Msg -> SUBSET Msg]
  /\ mode \in [Msg -> Modes \union {"none"}]
  /\ registered \in {{}} \union {{q} : q \in Msg}
  /\ phase \in [Turn -> Phases]
  /\ active \in {{}} \union {{t} : t \in Turn}
  /\ policy \in Policies /\ disturbed \in BOOLEAN /\ stops \in 0..MaxStops

(* A message that waits does so in one place, once; a dropped one is in    *)
(* one summary; and what a turn has taken or a stop has cleared is in no   *)
(* object any more, the forgotten ones included: no message is answered or *)
(* told twice.                                                             *)
OnePlace ==
  /\ \A q, r \in Msg : \A i \in 1..Len(items[q]), j \in 1..Len(items[r]) :
       items[q][i] = items[r][j] => q = r /\ i = j
  /\ \A q, r \in Msg : dropped[q] \cap dropped[r] # {} => q = r
  /\ \A m \in Msg : fate[m] = "queued" <=> \E q \in Msg : m \in Waiting(q)
  /\ \A m \in Msg : fate[m] = "dropped" <=> \E q \in Msg : m \in dropped[q]

(* What a full queue drops is told to the agent with a later message of    *)
(* the same object: an object with a summary to tell has one waiting, so   *)
(* the drain neither forgets a summary nor waits for a message to carry it.*)
SummaryHasCarrier ==
  \A q \in Msg : dropped[q] # {} => items[q] # <<>>

(* A drain takes the messages of its object in the order they came.        *)
TakenInOrder ==
  [][\A q \in Msg : \A m \in Waiting(q), k \in Range(items'[q]) :
       (m \notin Range(items'[q]) /\ fate'[m] = "taken") => m < k]_vars

(* While nothing interferes, each waiting message is taken by a turn, or   *)
(* dropped for newer ones and its summary told.                            *)
EveryoneHeard ==
  \A m \in Msg : fate[m] \in {"queued", "dropped"} ~>
                   (fate[m] \in {"taken", "told"} \/ disturbed)

(* A fate is not taken back: what a turn has taken, a summary told, a run  *)
(* been steered by or a stop cleared is answered by nobody else, and a     *)
(* dropped message is not revived.                                         *)
After(f) == CASE f = "new" -> Fates \ {"told"}
              [] f = "queued" -> {"queued", "taken", "dropped", "cleared"}
              [] f = "dropped" -> {"dropped", "told", "cleared"}
              [] OTHER -> {f}
FatesAreKept == [][\A m \in Msg : fate'[m] \in After(fate[m])]_vars

(* While nothing interferes, a queue that holds messages is the registered *)
(* one and somebody will drain it: its drain exists, or a message's turn is*)
(* under way that schedules one when it ends.                              *)
MainUnderWay == \E m \in Msg : phase[Main(m)] \in {"setup", "running", "delivery"}
NobodyStranded ==
  ~disturbed => \A q \in Msg : items[q] # <<>> =>
                  q \in registered /\ (Draining(q) \/ MainUnderWay)

(* "if new items arrived while we were draining, schedule another drain    *)
(* pass so they are not silently lost" (queue.py:430): what waits is in    *)
(* the registered object or in one that is being drained.                  *)
NotSilentlyLost ==
  \A q \in Msg : items[q] # <<>> => q \in registered \/ Draining(q)
=============================================================================
