-------------------------------- MODULE Cron --------------------------------
(***************************************************************************)
(* The cron service (openclaw/cron/service.py, timer.py, locked.py): one   *)
(* timer task that wakes for due jobs and runs them outside the store lock,*)
(* operations that run under it, and the jobs file that survives a crash.  *)
(*                                                                         *)
(* Time is what the code compares: `next' is a moment still to come        *)
(* ("later") or reached ("due"); `marker' is running_at_ms, younger        *)
(* ("fresh") or older ("stuck") than STUCK_RUN_MS.  The gateway gives the  *)
(* service no lane manager and no cron configuration (cron_bootstrap.py:   *)
(* 544), so jobs execute in the timer's own task, one at a time.           *)
(***************************************************************************)
EXTENDS Naturals, FiniteSets

CONSTANTS
  Job,
  OneShot,         \* jobs with an AtSchedule; the others recur
  DeleteAfterRun,  \* one-shot jobs with delete_after_run
  AgentsUseCron,   \* jobs whose agent calls the cron tool
  Gone,            \* "no such job"
  Outcomes,        \* what executing a job may return
  MaxRetries,      \* DEFAULT_MAX_TRANSIENT_RETRIES
  MaxOps,          \* bound: add, update, remove and run calls
  MaxCrashes       \* bound: process deaths

ASSUME ConstantsAssumption ==
  /\ OneShot \subseteq Job /\ DeleteAfterRun \subseteq OneShot
  /\ AgentsUseCron \subseteq Job
  /\ Outcomes \subseteq {"ok", "skipped", "transient", "fatal"}
  /\ MaxRetries \in Nat /\ MaxOps \in Nat /\ MaxCrashes \in Nat

ErrorCap == MaxRetries + 1    \* bound: errors are counted up to here
Entry == [enabled : BOOLEAN, next : {"none", "later", "due"},
          marker : {"no", "fresh", "stuck"},
          last : {"none", "ok", "skipped", "error"}, errors : 0..ErrorCap]
NewEntry == [enabled |-> TRUE, next |-> "later", marker |-> "no",
             last |-> "none", errors |-> 0]
ASSUME GoneAssumption == Gone \notin Entry

VARIABLES
  mem,        \* CronService.jobs
  disk,       \* the jobs file
  atPassed,   \* one-shot jobs whose `at' moment has passed
  svc,        \* "down", "starting" (start() holds the lock), "up", "stopped"
  lock,       \* the store lock, when held across an await: "free", "start", "run"
  armed,      \* CronTimer._task sleeps
  orphan,     \* a sleeping timer task that no CronTimer refers to
  tick,       \* _on_timer: "none", "pick", "exec", "apply"
  todo,       \* due_snapshots not started yet
  results,    \* what _run_single_job returned
  body,       \* who executes each job: the tick, run(), start()
  ops, crashes

vars == <<mem, disk, atPassed, svc, lock, armed, orphan, tick, todo, results,
          body, ops, crashes>>
tickVars == <<tick, todo, results>>

NoResult == [j \in Job |-> "none"]
Present(m) == {j \in Job : m[j] # Gone}
Idle(j) == body[j] = {}

Init ==
  /\ disk \in [Job -> {NewEntry, Gone}] /\ mem = disk
  /\ atPassed = {} /\ svc = "down" /\ lock = "free"
  /\ armed = FALSE /\ orphan = FALSE
  /\ tick = "none" /\ todo = {} /\ results = NoResult
  /\ body = [j \in Job |-> {}] /\ ops = 0 /\ crashes = 0

-----------------------------------------------------------------------------
(* Pure functions of service.py. *)

(* compute_job_next_run_at_ms *)
Computed(j, e, passed) ==
  CASE ~e.enabled -> "none"
    [] e.enabled /\ j \notin OneShot -> "later"
    [] e.enabled /\ j \in OneShot /\ e.last = "ok" -> "none"
    [] OTHER -> IF j \in passed THEN "due" ELSE "later"

(* _normalize_job_tick_state *)
Normalized_NoSweep(e) ==
  IF e.enabled THEN e ELSE [e EXCEPT !.next = "none", !.marker = "no"]
Normalized(e) ==
  CASE ~e.enabled -> [e EXCEPT !.next = "none", !.marker = "no"]
    [] e.enabled /\ e.marker = "stuck" -> [e EXCEPT !.marker = "no"]
    [] OTHER -> e

(* _recompute_next_runs_for_maintenance.  The full recompute at the end of *)
(* start() differs only for recurring jobs that were due when it began, and*)
(* those have just run.                                                    *)
Maintained(m) ==
  [j \in Job |->
     IF m[j] = Gone THEN Gone
     ELSE LET e == Normalized(m[j])
          IN IF e.next = "none" THEN [e EXCEPT !.next = Computed(j, e, atPassed)]
                                ELSE e]

Failed(o) == o \in {"transient", "fatal"}

(* _apply_job_result, and the removal its callers add. *)
Applied(j, e, o) ==
  LET errs == IF ~Failed(o) THEN 0
              ELSE IF e.errors < ErrorCap THEN e.errors + 1 ELSE ErrorCap
      r == [e EXCEPT !.marker = "no", !.errors = errs,
                     !.last = IF Failed(o) THEN "error" ELSE o]
  IN IF j \in DeleteAfterRun /\ o = "ok" THEN Gone
     ELSE IF j \notin OneShot
     THEN [r EXCEPT !.next = IF e.enabled THEN "later" ELSE "none"]
     ELSE IF o = "transient" /\ errs <= MaxRetries
     THEN [r EXCEPT !.next = "later"]
     ELSE [r EXCEPT !.enabled = FALSE, !.next = "none"]

(* _is_job_runnable *)
Runnable(e) == e # Gone /\ e.enabled /\ e.marker = "no" /\ e.next = "due"

(* _next_wake_at_ms is not None *)
HasWake_OnlyUnmarked(m) ==
  \E j \in Present(m) : m[j].enabled /\ m[j].next # "none" /\ m[j].marker = "no"
HasWake(m) == \E j \in Present(m) : m[j].enabled /\ m[j].next # "none"

-----------------------------------------------------------------------------
(* The timer. *)

TickGone == tick' = "none" /\ todo' = {} /\ results' = NoResult
WithoutTick(b) == [j \in Job |-> b[j] \ {"tick"}]

(* _arm_timer() outside the tick: CronTimer.arm() cancels its task, and    *)
(* with it the tick that runs in it, whose `finally' arms again.           *)
Arm_LeavesTick(m, b) ==
  IF svc # "up" THEN UNCHANGED <<armed, tickVars>> /\ body' = b
  ELSE /\ armed' = (HasWake(m) /\ tick = "none")
       /\ UNCHANGED tickVars /\ body' = b
Arm(m, b) ==
  IF svc # "up" THEN UNCHANGED <<armed, tickVars>> /\ body' = b
  ELSE /\ armed' = HasWake(m)
       /\ TickGone /\ body' = WithoutTick(b)

(* The `finally' of _on_timer. *)
EndTick(m) ==
  /\ TickGone
  /\ armed' = (svc = "up" /\ HasWake(m))

Fire ==
  /\ \/ armed /\ armed' = FALSE /\ UNCHANGED orphan
     \/ orphan /\ orphan' = FALSE /\ UNCHANGED armed
  /\ tick = "none" /\ tick' = "pick"
  /\ UNCHANGED <<mem, disk, atPassed, svc, lock, todo, results, body, ops, crashes>>

(* _pick_due_jobs under the lock: reload, mark, persist. *)
PickSaved_MemoryOnly(m) == disk
PickSaved(m) == m

TickPick ==
  /\ tick = "pick" /\ lock = "free"
  /\ LET due == {j \in Job : Runnable(disk[j])}
         marked == [j \in Job |-> IF j \in due
                                  THEN [disk[j] EXCEPT !.marker = "fresh"]
                                  ELSE disk[j]]
     IN \/ /\ due = {}
           /\ mem' = Maintained(disk) /\ disk' = mem' /\ EndTick(mem')
        \/ /\ due # {}
           /\ mem' = marked /\ disk' = PickSaved(marked)
           /\ tick' = "exec" /\ todo' = due /\ UNCHANGED <<results, armed>>
  /\ UNCHANGED <<atPassed, svc, lock, orphan, body, ops, crashes>>

(* _run_single_job, in batches of one. *)
TickStarts(j) ==
  /\ tick = "exec" /\ j \in todo /\ \A k \in Job : "tick" \notin body[k]
  /\ todo' = todo \ {j}
  /\ body' = [body EXCEPT ![j] = @ \cup {"tick"}]
  /\ mem' = IF mem[j] = Gone THEN mem ELSE [mem EXCEPT ![j].marker = "fresh"]
  /\ UNCHANGED <<disk, atPassed, svc, lock, armed, orphan, tick, results, ops, crashes>>

TickBodyEnds(j) ==
  /\ "tick" \in body[j]
  /\ body' = [body EXCEPT ![j] = @ \ {"tick"}]
  /\ \E o \in Outcomes : results' = [results EXCEPT ![j] = o]
  /\ tick' = IF todo = {} THEN "apply" ELSE "exec"
  /\ UNCHANGED <<mem, disk, atPassed, svc, lock, armed, orphan, todo, ops, crashes>>

(* _apply_results under the lock: reload, apply, maintain, persist. *)
TickApply ==
  /\ tick = "apply" /\ lock = "free"
  /\ mem' = Maintained([j \in Job |->
               IF results[j] # "none" /\ disk[j] # Gone
               THEN Applied(j, disk[j], results[j]) ELSE disk[j]])
  /\ disk' = mem' /\ EndTick(mem')
  /\ UNCHANGED <<atPassed, svc, lock, orphan, body, ops, crashes>>

-----------------------------------------------------------------------------
(* start(), stop() and the end of the process. *)

Missed(j) ==
  Runnable([mem[j] EXCEPT !.marker = "no"])
  /\ (j \in OneShot => mem[j].last = "none")

(* start() takes the lock, clears the markers and starts the missed jobs.  *)
Start ==
  /\ svc = "down" /\ svc' = "starting" /\ lock' = "start"
  /\ mem' = [j \in Job |-> IF mem[j] = Gone THEN Gone
                           ELSE [mem[j] EXCEPT !.marker =
                                   IF Missed(j) THEN "fresh" ELSE "no"]]
  /\ body' = [j \in Job |-> IF mem[j] # Gone /\ Missed(j) THEN {"missed"} ELSE {}]
  /\ UNCHANGED <<disk, atPassed, armed, orphan, tickVars, ops, crashes>>

(* start() and run() hold the store lock while a job executes, and the cron*)
(* tool takes the same lock: an agent that calls it here is not answered.  *)
(* Its turn goes on until the runtime's time limit cuts it off             *)
(* (pi_runtime.py:1943), which leaves no result "skipped".                 *)
CutOff_NoTimeLimit == {}
CutOff == Outcomes \ {"skipped"}
HeldResults(j) == IF j \in AgentsUseCron THEN CutOff ELSE Outcomes

MissedEnds(j) ==
  /\ "missed" \in body[j]
  /\ \E o \in HeldResults(j) : mem' = [mem EXCEPT ![j] = Applied(j, @, o)]
  /\ body' = [body EXCEPT ![j] = {}]
  /\ UNCHANGED <<disk, atPassed, svc, lock, armed, orphan, tickVars, ops, crashes>>

(* gather() has returned: recompute, persist, arm, release. *)
StartEnds ==
  /\ svc = "starting" /\ \A j \in Job : Idle(j)
  /\ mem' = Maintained(mem) /\ disk' = mem'
  /\ armed' = HasWake(mem')
  /\ svc' = "up" /\ lock' = "free"
  /\ UNCHANGED <<atPassed, orphan, tickVars, body, ops, crashes>>

(* stop(): stop_async() cancels the timer's task.  If that is the tick, its*)
(* `finally' arms the timer once more, and stop_async() forgets that task. *)
Stop ==
  /\ svc = "up" /\ svc' = "stopped"
  /\ orphan' = (tick # "none" /\ HasWake(mem))
  /\ armed' = FALSE /\ TickGone /\ body' = WithoutTick(body)
  /\ UNCHANGED <<mem, disk, atPassed, lock, ops, crashes>>

Crash ==
  /\ svc # "down" /\ svc' = "down" /\ lock' = "free"
  /\ crashes < MaxCrashes /\ crashes' = crashes + 1
  /\ mem' = disk /\ body' = [j \in Job |-> {}]
  /\ armed' = FALSE /\ orphan' = FALSE /\ TickGone
  /\ UNCHANGED <<disk, atPassed, ops>>

-----------------------------------------------------------------------------
(* Operations of users and agents, under the lock. *)

CallArrives == svc = "up" /\ lock = "free" /\ ops < MaxOps /\ ops' = ops + 1

(* add_job, update_job and remove_job end alike: persist, arm. *)
Replace(j, e) ==
  /\ mem' = [mem EXCEPT ![j] = e] /\ disk' = mem' /\ Arm(mem', body)
  /\ UNCHANGED <<svc, lock, orphan, crashes>>

Add(j) ==
  /\ CallArrives /\ mem[j] = Gone
  /\ atPassed' = atPassed \ {j}
  /\ Replace(j, NewEntry)

(* A patch may toggle `enabled' and set a schedule with a moment to come.  *)
Update(j) ==
  /\ CallArrives /\ mem[j] # Gone
  /\ \E enabled, reschedule \in BOOLEAN :
       LET passed == IF reschedule THEN atPassed \ {j} ELSE atPassed
           e == [mem[j] EXCEPT !.enabled = enabled]
       IN /\ atPassed' = passed
          /\ Replace(j, [e EXCEPT !.next = Computed(j, e, passed),
                                  !.marker = IF enabled THEN @ ELSE "no"])

Remove(j) ==
  /\ CallArrives /\ mem[j] # Gone
  /\ Replace(j, Gone) /\ UNCHANGED atPassed

(* run(): force, or due and runnable.  The lock is held while the job runs.*)
RunBegins(j) ==
  /\ CallArrives /\ mem[j] # Gone
  /\ lock' = "run"
  /\ mem' = [mem EXCEPT ![j].marker = "fresh"]
  /\ body' = [body EXCEPT ![j] = @ \cup {"run"}]
  /\ UNCHANGED <<disk, atPassed, svc, armed, orphan, tickVars, crashes>>

RunEnds(j) ==
  /\ "run" \in body[j]
  /\ \E o \in HeldResults(j) : mem' = [mem EXCEPT ![j] = Applied(j, @, o)]
  /\ disk' = mem' /\ lock' = "free"
  /\ Arm(mem', [body EXCEPT ![j] = @ \ {"run"}])
  /\ UNCHANGED <<atPassed, svc, orphan, ops, crashes>>

-----------------------------------------------------------------------------
(* Time: a moment arrives, or a running marker passes two hours. *)
Aged(m, j) ==
  IF m[j] = Gone THEN m
  ELSE [m EXCEPT ![j].next = IF @ = "later" THEN "due" ELSE @]
Stale(m, j) ==
  IF m[j] = Gone THEN m
  ELSE [m EXCEPT ![j].marker = IF @ = "fresh" THEN "stuck" ELSE @]

TimePasses(j) ==
  /\ \/ /\ mem' = Aged(mem, j) /\ disk' = Aged(disk, j)
        /\ atPassed' = atPassed \cup ({j} \cap OneShot)
     \/ mem' = Stale(mem, j) /\ disk' = Stale(disk, j) /\ UNCHANGED atPassed
  /\ <<mem', disk', atPassed'>> # <<mem, disk, atPassed>>
  /\ UNCHANGED <<svc, lock, armed, orphan, tickVars, body, ops, crashes>>

-----------------------------------------------------------------------------
BodyEnds(j) == TickBodyEnds(j) \/ MissedEnds(j) \/ RunEnds(j)
Scheduler ==
  Start \/ StartEnds \/ Fire \/ TickPick \/ TickApply
  \/ \E j \in Job : TickStarts(j)

Next ==
  \/ Scheduler \/ Stop \/ Crash
  \/ \E j \in Job : \/ BodyEnds(j) \/ TimePasses(j)
                    \/ Add(j) \/ Update(j) \/ Remove(j) \/ RunBegins(j)

(* The event loop runs what is ready, time passes, somebody starts the     *)
(* gateway again, and every job ends: the tick limits the time of its jobs *)
(* (service.py:1271), and the runtime that of an agent's turn.             *)
Spec ==
  /\ Init /\ [][Next]_vars
  /\ WF_vars(Scheduler)
  /\ \A j \in Job : WF_vars(BodyEnds(j)) /\ WF_vars(TimePasses(j))

-----------------------------------------------------------------------------
TypeOK ==
  /\ mem \in [Job -> Entry \cup {Gone}] /\ disk \in [Job -> Entry \cup {Gone}]
  /\ atPassed \subseteq OneShot
  /\ svc \in {"down", "starting", "up", "stopped"}
  /\ lock \in {"free", "start", "run"}
  /\ armed \in BOOLEAN /\ orphan \in BOOLEAN
  /\ tick \in {"none", "pick", "exec", "apply"}
  /\ (tick \in {"none", "pick"} => todo = {} /\ results = NoResult)
  /\ todo \subseteq Job /\ results \in [Job -> Outcomes \cup {"none"}]
  /\ body \in [Job -> SUBSET {"tick", "run", "missed"}]
  /\ ops \in 0..MaxOps /\ crashes \in 0..MaxCrashes

(* The scheduler never falls asleep: while some enabled job has a moment   *)
(* to run at, a timer task sleeps towards it or a tick is under way, though*)
(* every operation cancels and replaces the timer's task (timer.py:45).    *)
SchedulerAwake ==
  svc = "up" /\ (\E j \in Present(mem) : mem[j].enabled /\ mem[j].next # "none")
    => armed \/ tick # "none"

(* A job that a tick executes carries its running marker in the file, so a *)
(* reload, a crash and a later tick all know of it (service.py:1149).      *)
ExecutingIsMarked ==
  \A j \in Job : "tick" \in body[j] => disk[j] # Gone /\ disk[j].marker # "no"

(* The tick starts jobs from a snapshot taken earlier; whatever was done to*)
(* a job in between, it is started only if it is still there, enabled, due *)
(* and, for a one-shot job, not finished.                                  *)
SnapshotStillCurrent ==
  [][\A j \in Job : "tick" \in body'[j] /\ "tick" \notin body[j] =>
       /\ mem[j] # Gone /\ mem[j].enabled /\ mem[j].next = "due"
       /\ j \in OneShot => mem[j].last # "ok"]_vars

(* A due job is executed in the end, whatever calls cancel the tick,       *)
(* wherever the process dies and though agents wait for the store lock that*)
(* is held for their own jobs, unless it is disabled, removed or           *)
(* rescheduled or the service is stopped.                                  *)
DueJobRuns ==
  \A j \in Job : (disk[j] # Gone /\ disk[j].enabled /\ disk[j].next = "due") ~>
     \/ body[j] # {} \/ svc = "stopped"
     \/ disk[j] = Gone \/ ~disk[j].enabled \/ disk[j].next # "due"

(* A tick executes each job that it picked once and then applies all their *)
(* results: a job is waiting, executing or done, never two of these, and   *)
(* in each phase there is something that takes the tick to the next.       *)
TickStages ==
  /\ \A j \in Job :
       /\ j \in todo => "tick" \notin body[j]
       /\ j \in todo \/ "tick" \in body[j] => results[j] = "none"
  /\ tick = "exec" => todo # {} \/ \E j \in Job : "tick" \in body[j]
  /\ tick = "apply" =>
       /\ todo = {} /\ \A j \in Job : "tick" \notin body[j]
       /\ \E j \in Job : results[j] # "none"

(* The store lock, when it is held across an await, has one holder that    *)
(* releases it when the jobs it executes have ended: run() with its job, or*)
(* start(), during which nobody else executes anything.                    *)
LockHasHolder ==
  /\ lock = "run" <=> \E j \in Job : "run" \in body[j]
  /\ \A j, k \in Job : "run" \in body[j] /\ "run" \in body[k] => j = k
  /\ lock = "start" <=> svc = "starting"
  /\ \A j \in Job : "missed" \in body[j] => svc = "starting"
  /\ svc = "starting" => \A j \in Job : body[j] \subseteq {"missed"}

(* Outside start() the file says what memory says of every job, but for    *)
(* its running marker: a crash forgets no operation that was answered and  *)
(* no result that was applied.                                             *)
SameButMarker(d, e) ==
  \/ d = Gone /\ e = Gone
  \/ d # Gone /\ e # Gone /\ [d EXCEPT !.marker = "no"] = [e EXCEPT !.marker = "no"]
FileKeepsUp ==
  lock # "start" => \A j \in Job : SameButMarker(mem[j], disk[j])

(* stop() may leave one timer behind, the one that the cancelled tick      *)
(* arms; after it has fired no tick begins while the service is stopped.   *)
StopIsNearlyFinal ==
  [][svc = "stopped" /\ svc' = "stopped" =>
       /\ ~armed' /\ (orphan' => orphan)
       /\ tick = "none" /\ tick' # "none" => orphan /\ ~orphan']_vars
=============================================================================
