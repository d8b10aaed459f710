----------------------------- MODULE LaneProofs -----------------------------
(***************************************************************************)
(* Proofs about Lane, for any number of tasks, generations and limits.     *)
(***************************************************************************)
EXTENDS Lane, FiniteSetTheorems, SequenceTheorems, TLAPS

(* The typing step, used by every proof below. *)
LEMMA TypeStep == TypeOK /\ [Next]_vars => TypeOK'
<1> USE LimitsAssumption, BoundsAssumption DEF Task, NoTask, NoGen
<1> SUFFICES ASSUME TypeOK, [Next]_vars PROVE TypeOK'
  OBVIOUS
<1> USE DEF TypeOK
<1>0. queue # <<>> => Head(queue) \in Task /\ Tail(queue) \in Seq(Task)
  BY HeadTailProperties
<1>1. ASSUME NEW ahead \in Seq(Task), PutBehind(ahead),
             discarded' \subseteq Task
      PROVE  TypeOK'
  <2> USE <1>1 DEF PutBehind
  <2>1. queue' \in Seq(Task) /\ nextTaskId' \in 1..(MaxTasks + 1)
    OBVIOUS
  <2>2. taskGen' \in [Task -> Nat]
    OBVIOUS
  <2>3. future' \in [Task -> {"none", "pending", "result", "error", "cleared",
                             "cancelled"}]
    OBVIOUS
  <2>4. running' \in BOOLEAN /\ worker' \in {"none", "loop", "get", "full"}
    BY DEF StartWorker
  <2> QED
    BY <2>1, <2>2, <2>3, <2>4
<1>a. ASSUME NEW t \in Task \cup {NoTask}, StartExecution(t)
      PROVE  /\ active' \in Int /\ worker' = "loop"
             /\ activeTasks' \in [Task -> Nat \cup {NoGen}]
             /\ body' \in [Task -> {"idle", "running", "over"}]
  <2>1. CASE t \in Task
    <3> USE <1>a, <2>1 DEF StartExecution
    <3>1. active' \in Int /\ worker' = "loop"
      OBVIOUS
    <3>2. taskGen[t] \in Nat \cup {NoGen}
      OBVIOUS
    <3>3. activeTasks' \in [Task -> Nat \cup {NoGen}]
      BY <3>2
    <3>4. body' \in [Task -> {"idle", "running", "over"}]
      OBVIOUS
    <3> QED
      BY <3>1, <3>3, <3>4
  <2>2. CASE t \notin Task
    <3>1. activeTasks' = activeTasks /\ body' = body
      BY <1>a, <2>2 DEF StartExecution
    <3>2. active' \in Int /\ worker' = "loop"
      BY <1>a DEF StartExecution
    <3> QED
      BY <3>1, <3>2
  <2> QED
    BY <2>1, <2>2
<1>2. CASE Enqueue
  BY <1>1, <1>2 DEF Enqueue
<1>3. CASE EnqueueDropOld
  BY <1>0, <1>1, <1>3 DEF EnqueueDropOld
<1>4. CASE Worker
  <2>1. CASE WorkerLoop
    BY <2>1 DEF WorkerLoop, workerVars
  <2>2. CASE WorkerPop
    <3>1. CASE HasRoom
      <4>1. StartExecution(Head(queue)) /\ UNCHANGED <<held, running, future, discarded, entryVars>>
        BY <2>2, <3>1 DEF WorkerPop
      <4> QED
        BY <1>0, <1>a, <2>2, <4>1 DEF WorkerPop, entryVars
    <3>2. CASE ~HasRoom
      BY <1>0, <2>2, <3>2 DEF WorkerPop, entryVars
    <3> QED
      BY <3>1, <3>2
  <2>3. CASE WorkerPoll
    BY <1>a, <2>3 DEF WorkerPoll, entryVars
  <2>4. CASE WorkerIdle
    BY <2>4 DEF WorkerIdle, EndWorker, workerVars
  <2> QED
    BY <1>4, <2>1, <2>2, <2>3, <2>4 DEF Worker
<1>5. ASSUME NEW t \in Task, CallerGivesUp(t)
      PROVE  TypeOK'
  BY <1>5 DEF CallerGivesUp, entryVars
<1>6. ASSUME NEW t \in Task, NEW outcome \in {"result", "error"},
             Finish(t, outcome)
      PROVE  TypeOK'
  BY <1>6 DEF Finish, Settled, ActiveAfter, entryVars
<1>7. CASE Clear
  BY <1>7 DEF Clear, Rejected, entryVars
<1>8. CASE SetLimit
  BY <1>8 DEF SetLimit
<1>9. CASE ResetGeneration
  BY <1>9 DEF ResetGeneration, NextGeneration
<1>10. CASE Stop
  BY <1>10 DEF Stop, entryVars
<1>11. CASE UNCHANGED vars
  BY <1>11 DEF vars
<1> QED
  BY <1>2, <1>3, <1>4, <1>5, <1>6, <1>7, <1>8, <1>9, <1>10, <1>11
     DEF Next, Serve, FinishSome

LEMMA InitTyped == Init => TypeOK
<1> USE LimitsAssumption, BoundsAssumption DEF Task, NoTask, NoGen
<1> SUFFICES ASSUME Init PROVE TypeOK
  OBVIOUS
<1> USE DEF Init
<1>1. queue \in Seq(Task)
  OBVIOUS
<1>2. nextTaskId \in 1..(MaxTasks + 1) /\ active \in Int /\ generation \in Nat
  OBVIOUS
<1>3. taskGen \in [Task -> Nat] /\ activeTasks \in [Task -> Nat \cup {NoGen}]
  OBVIOUS
<1>4. /\ body \in [Task -> {"idle", "running", "over"}]
      /\ future \in [Task -> {"none", "pending", "result", "error",
                             "cleared", "cancelled"}]
  OBVIOUS
<1>5. /\ held \in Task \cup {NoTask} /\ running \in BOOLEAN
      /\ limit \in Limits /\ discarded \subseteq Task /\ cutLoose \subseteq Task
      /\ worker \in {"none", "loop", "get", "full"}
  OBVIOUS
<1> QED
  BY <1>1, <1>2, <1>3, <1>4, <1>5 DEF TypeOK

(* Type correctness: every step of the lane keeps every variable in its    *)
(* range (the fields of class Lane, lane.py:25-43).                        *)
THEOREM TypeCorrect == Spec => []TypeOK
BY InitTyped, TypeStep, PTL DEF Spec

-----------------------------------------------------------------------------
(* The two ways the queue changes. *)
LEMMA TailFacts ==
  ASSUME NEW q \in Seq(Task), q # <<>>
  PROVE  /\ Len(q) \in Nat \ {0} /\ Head(q) = q[1]
         /\ Tail(q) \in Seq(Task) /\ Len(Tail(q)) = Len(q) - 1
         /\ \A i \in 1..Len(Tail(q)) : Tail(q)[i] = q[i + 1] /\ i + 1 \in 1..Len(q)
         /\ \A j \in 1..Len(q) : j # 1 => j - 1 \in 1..Len(Tail(q)) /\ q[j] = Tail(q)[j - 1]
<1>1. Len(q) \in Nat \ {0} /\ Head(q) = q[1]
  BY EmptySeq
<1>2. /\ Tail(q) \in Seq(Task) /\ Len(Tail(q)) = Len(q) - 1
      /\ \A i \in 1..Len(Tail(q)) : Tail(q)[i] = q[i + 1]
  BY HeadTailProperties
<1> QED
  BY <1>1, <1>2

LEMMA AppendFacts ==
  ASSUME NEW q \in Seq(Task), NEW t \in Task
  PROVE  /\ Len(q) \in Nat /\ Len(Append(q, t)) = Len(q) + 1
         /\ \A i \in 1..Len(q) : Append(q, t)[i] = q[i]
         /\ Append(q, t)[Len(q) + 1] = t
  OBVIOUS

(* Executing is a finite set, so that its cardinality is a number. *)
LEMMA ExecutingFinite == IsFiniteSet(Executing) /\ IsFiniteSet(Executing')
<1>1. IsFiniteSet(Task)
  BY FS_Interval, BoundsAssumption DEF Task
<1> QED
  BY <1>1, FS_Subset DEF Executing

(* Parts of the invariant that mention the queue, as facts about any queue *)
(* q and held entry h: below `next`, ascending, behind what started.       *)
Ordered(q, h, next) ==
  /\ \A i \in 1..Len(q) : q[i] < next
  /\ \A i, j \in 1..Len(q) : i < j => q[i] < q[j]
  /\ \A i \in 1..Len(q) : h < q[i]
Behind(q, h, b) ==
  \A t \in Task : b[t] # "idle" =>
    /\ h # NoTask => t < h
    /\ \A i \in 1..Len(q) : t < q[i]
Holds(q, t) == \E i \in 1..Len(q) : q[i] = t

LEMMA TailOrdered ==
  ASSUME NEW q \in Seq(Task), q # <<>>, NEW h \in Task \cup {NoTask},
         NEW next \in Int, NEW b, Ordered(q, h, next)
  PROVE  /\ Ordered(Tail(q), h, next)
         /\ Ordered(Tail(q), Head(q), next)
         /\ Behind(q, h, b) => Behind(Tail(q), h, b)
         /\ h < Head(q) /\ Head(q) < next /\ Head(q) \in Task
         /\ \A t : Holds(q, t) <=> t = Head(q) \/ Holds(Tail(q), t)
<1> USE TailFacts DEF Ordered, Behind, Holds
<1>0. \A i \in 1..Len(q) : q[i] \in Task
  BY ElementOfSeq
<1>1. Ordered(Tail(q), h, next)
  OBVIOUS
<1>2. Ordered(Tail(q), Head(q), next)
  OBVIOUS
<1>3. Behind(q, h, b) => Behind(Tail(q), h, b)
  OBVIOUS
<1>4. h < Head(q) /\ Head(q) < next /\ Head(q) \in Task
  BY <1>0
<1>5. \A t : Holds(q, t) <=> t = Head(q) \/ Holds(Tail(q), t)
  <2> TAKE t
  <2>1. ASSUME Holds(q, t), t # Head(q) PROVE Holds(Tail(q), t)
    <3>1. PICK i \in 1..Len(q) : q[i] = t
      BY <2>1
    <3>2. i # 1
      BY <2>1, <3>1
    <3>3. i - 1 \in 1..Len(Tail(q)) /\ Tail(q)[i - 1] = t
      BY <3>1, <3>2
    <3> QED
      BY <3>3
  <2>2. Holds(Tail(q), t) => Holds(q, t)
    OBVIOUS
  <2>3. Holds(q, Head(q))
    OBVIOUS
  <2> QED
    BY <2>1, <2>2, <2>3
<1> QED
  BY <1>1, <1>2, <1>3, <1>4, <1>5

LEMMA AppendOrdered ==
  ASSUME NEW q \in Seq(Task), NEW h \in Task \cup {NoTask}, NEW t \in Task,
         Ordered(q, h, t), h < t
  PROVE  /\ Ordered(Append(q, t), h, t + 1)
         /\ \A b : Behind(q, h, b) /\ (\A u \in Task : b[u] # "idle" => u < t)
                  => Behind(Append(q, t), h, b)
         /\ \A u : Holds(Append(q, t), u) <=> Holds(q, u) \/ u = t
<1> USE AppendFacts DEF Ordered, Behind, Holds
<1>0. \A i \in 1..Len(q) : q[i] \in Task
  BY ElementOfSeq
<1>a. \A i \in 1..Len(Append(q, t)) : i \in 1..Len(q) \/ i = Len(q) + 1
  OBVIOUS
<1>1. Ordered(Append(q, t), h, t + 1)
  BY <1>0, <1>a DEF Task
<1>2. \A b : Behind(q, h, b) /\ (\A u \in Task : b[u] # "idle" => u < t)
           => Behind(Append(q, t), h, b)
  BY <1>a
<1>3. \A u : Holds(Append(q, t), u) <=> Holds(q, u) \/ u = t
  BY <1>a
<1> QED
  BY <1>1, <1>2, <1>3

-----------------------------------------------------------------------------
(* The non-queue half of the invariant, over the state of each entry. *)
LEMMA InvParts ==
  LaneInv <=> /\ TypeOK /\ HeldMeansFull /\ RegisteredByGeneration /\ NothingLost
              /\ active = Cardinality(Executing)
              /\ Ordered(queue, held, nextTaskId) /\ held < nextTaskId
              /\ Behind(queue, held, body)
              /\ \A t \in Task : t >= nextTaskId => body[t] = "idle" /\ future[t] = "none"
BY DEF LaneInv, Unissued, FifoOrder, Started, Ordered, Behind

(* Enqueueing behind `ahead`, which is the queue or its tail. *)
LEMMA PutBehindStep ==
  ASSUME LaneInv, TypeOK', NEW ahead \in Seq(Task), PutBehind(ahead),
         Ordered(ahead, held, nextTaskId), Behind(ahead, held, body),
         discarded \subseteq discarded',
         \A t \in Task : Holds(queue, t) => Holds(ahead, t) \/ t \in discarded'
  PROVE  LaneInv'
<1> DEFINE n == nextTaskId
<1> USE InvParts
<1>1. n \in Task /\ held \in Task \cup {NoTask} /\ held < n /\ n' = n + 1
  BY DEF PutBehind, TypeOK
<1>2. /\ queue' = Append(ahead, n) /\ UNCHANGED <<held, active, activeTasks, body>>
      /\ future' = [future EXCEPT ![n] = "pending"]
      /\ taskGen' = [taskGen EXCEPT ![n] = generation]
  BY DEF PutBehind
<1>3. \A t \in Task : t >= n => body[t] = "idle" /\ future[t] = "none"
  OBVIOUS
<1>4. Ordered(queue', held', n') /\ Behind(queue', held', body')
      /\ \A u : Holds(queue', u) <=> Holds(ahead, u) \/ u = n
  <2>1. \A u \in Task : body[u] # "idle" => u < n
    BY <1>1, <1>3 DEF Task
  <2> QED
    BY <1>1, <1>2, <2>1, AppendOrdered
<1>5. HeldMeansFull'
  BY <1>2 DEF PutBehind, StartWorker, HeldMeansFull, NoTask
<1>6. RegisteredByGeneration'
  BY <1>1, <1>2, <1>3 DEF RegisteredByGeneration, TypeOK, Task
<1>7. NothingLost'
  <2> SUFFICES ASSUME NEW t \in Task, future'[t] = "pending"
               PROVE  Holds(queue', t) \/ held' = t \/ body'[t] = "running"
                        \/ t \in discarded'
    BY DEF NothingLost, Pending, InQueue, Holds
  <2>1. CASE t = n
    BY <1>4, <2>1
  <2>2. CASE t # n
    <3>1. future[t] = "pending"
      BY <1>2, <2>2 DEF TypeOK
    <3>2. Holds(queue, t) \/ held = t \/ body[t] = "running" \/ t \in discarded
      BY <3>1 DEF NothingLost, Pending, InQueue, Holds
    <3> QED
      BY <1>2, <1>4, <3>2
  <2> QED
    BY <2>1, <2>2
<1>8. active' = Cardinality(Executing')
  BY <1>2 DEF Executing
<1>9. held' < n' /\ \A t \in Task : t >= n' => body'[t] = "idle" /\ future'[t] = "none"
  BY <1>1, <1>2, <1>3 DEF Task, NoTask, TypeOK
<1> QED
  BY <1>4, <1>5, <1>6, <1>7, <1>8, <1>9
     DEF LaneInv, Unissued, FifoOrder, Started, Ordered, Behind

(* Starting an entry that is neither queued nor started. *)
LEMMA StartStep ==
  ASSUME LaneInv, TypeOK', NEW t \in Task, StartExecution(t),
         held' = NoTask, UNCHANGED <<future, discarded, entryVars>>,
         t < nextTaskId, body[t] = "idle",
         Ordered(queue', t, nextTaskId), Behind(queue', t, body),
         \A u \in Task : Holds(queue, u) \/ held = u => u = t \/ Holds(queue', u)
  PROVE  LaneInv'
<1> USE InvParts
<1>1. /\ activeTasks' = [activeTasks EXCEPT ![t] = taskGen[t]]
      /\ body' = [body EXCEPT ![t] = "running"] /\ active' = active + 1
      /\ worker' = "loop" /\ held' = NoTask /\ queue' \in Seq(Task)
      /\ UNCHANGED <<future, discarded, nextTaskId, taskGen>>
  BY DEF StartExecution, entryVars, TypeOK
<1>2. \A u \in Task : body'[u] = IF u = t THEN "running" ELSE body[u]
  BY <1>1 DEF TypeOK
<1>3. Ordered(queue', held', nextTaskId')
  <2>1. \A i \in 1..Len(queue') : queue'[i] \in Task
    BY <1>1, ElementOfSeq
  <2> QED
    BY <1>1, <2>1 DEF Ordered, NoTask, Task
<1>4. Behind(queue', held', body')
  BY <1>1, <1>2 DEF Behind, Ordered
<1>5. HeldMeansFull'
  BY <1>1 DEF HeldMeansFull
<1>6. RegisteredByGeneration'
  BY <1>1, <1>2 DEF RegisteredByGeneration, TypeOK
<1>7. NothingLost'
  BY <1>1, <1>2 DEF NothingLost, Pending, InQueue, Holds
<1>8. active' = Cardinality(Executing')
  <2>1. Executing' = Executing \cup {t} /\ t \notin Executing
    BY <1>2 DEF Executing
  <2> QED
    BY <1>1, <2>1, ExecutingFinite, FS_AddElement
<1>9. held' < nextTaskId' /\ \A u \in Task : u >= nextTaskId' =>
                                body'[u] = "idle" /\ future'[u] = "none"
  BY <1>1, <1>2 DEF NoTask, Task, TypeOK
<1> QED
  BY <1>3, <1>4, <1>5, <1>6, <1>7, <1>8, <1>9
     DEF LaneInv, Unissued, FifoOrder, Started, Ordered, Behind

(* The end of a coroutine. *)
LEMMA FinishStep ==
  ASSUME LaneInv, TypeOK', NEW t \in Task, NEW outcome \in {"result", "error"},
         Finish(t, outcome)
  PROVE  LaneInv'
<1> USE InvParts
<1>1. /\ body[t] = "running" /\ body' = [body EXCEPT ![t] = "over"]
      /\ future' = [future EXCEPT ![t] = Settled(t, outcome)]
      /\ activeTasks' = [activeTasks EXCEPT ![t] = NoGen] /\ active' = active - 1
      /\ UNCHANGED <<queue, held, worker, discarded, nextTaskId, taskGen>>
  BY DEF Finish, ActiveAfter, entryVars
<1>2. \A u \in Task : body'[u] = IF u = t THEN "over" ELSE body[u]
  BY <1>1 DEF TypeOK
<1>3. \A u \in Task : future'[u] = "pending" => u # t /\ future[u] = "pending"
  BY <1>1 DEF Settled, Pending, RegisteredByGeneration, TypeOK
<1>4. Ordered(queue', held', nextTaskId') /\ held' < nextTaskId' /\ HeldMeansFull'
  BY <1>1 DEF Ordered, HeldMeansFull
<1>5. Behind(queue', held', body')
  BY <1>1, <1>2 DEF Behind
<1>6. RegisteredByGeneration'
  BY <1>1, <1>2 DEF RegisteredByGeneration, TypeOK
<1>7. NothingLost'
  BY <1>1, <1>2, <1>3 DEF NothingLost, Pending, InQueue
<1>8. active' = Cardinality(Executing')
  <2>1. Executing' = Executing \ {t} /\ t \in Executing
    BY <1>1, <1>2 DEF Executing
  <2> QED
    BY <1>1, <2>1, ExecutingFinite, FS_RemoveElement
<1>9. \A u \in Task : u >= nextTaskId' => body'[u] = "idle" /\ future'[u] = "none"
  BY <1>1, <1>2 DEF TypeOK
<1> QED
  BY <1>4, <1>5, <1>6, <1>7, <1>8, <1>9
     DEF LaneInv, Unissued, FifoOrder, Started, Ordered, Behind

(* Steps that leave the queue, the worker and the coroutines alone and     *)
(* settle at most some futures.                                            *)
LEMMA FutureStep ==
  ASSUME LaneInv, TypeOK',
         UNCHANGED <<queue, held, active, activeTasks, body, taskGen, nextTaskId,
                     discarded>>,
         worker' = "full" <=> worker = "full",
         \A t \in Task : (future'[t] = "pending" => future[t] = "pending")
                       /\ (future[t] = "none" => future'[t] = "none")
  PROVE  LaneInv'
<1> USE InvParts
<1>1. HeldMeansFull' /\ RegisteredByGeneration' /\ NothingLost' /\ Executing' = Executing
  BY DEF HeldMeansFull, RegisteredByGeneration, NothingLost, Pending, InQueue, Executing
<1>2. Ordered(queue', held', nextTaskId') /\ held' < nextTaskId' /\ Behind(queue', held', body')
  BY DEF Ordered, Behind
<1>3. \A t \in Task : t >= nextTaskId' => body'[t] = "idle" /\ future'[t] = "none"
  OBVIOUS
<1> QED
  BY <1>1, <1>2, <1>3
     DEF LaneInv, Unissued, FifoOrder, Started, Ordered, Behind

LEMMA LaneInvStep == LaneInv /\ [Next]_vars => LaneInv'
<1> SUFFICES ASSUME LaneInv, [Next]_vars PROVE LaneInv'
  OBVIOUS
<1> USE InvParts
<1>0. TypeOK' /\ queue \in Seq(Task) /\ held \in Task \cup {NoTask} /\ nextTaskId \in Int
  BY TypeStep DEF TypeOK
<1>1. CASE Enqueue
  <2>1. PutBehind(queue) /\ discarded' = discarded
    BY <1>1 DEF Enqueue
  <2> QED
    BY <1>0, <2>1, PutBehindStep
<1>2. CASE EnqueueDropOld
  <2>1. queue # <<>> /\ PutBehind(Tail(queue)) /\ discarded' = discarded \cup {Head(queue)}
    BY <1>2 DEF EnqueueDropOld
  <2>2. Tail(queue) \in Seq(Task)
    BY <1>0, <2>1, TailFacts
  <2>3. Ordered(Tail(queue), held, nextTaskId) /\ Behind(Tail(queue), held, body)
        /\ \A t : Holds(queue, t) <=> t = Head(queue) \/ Holds(Tail(queue), t)
    BY <1>0, <2>1, TailOrdered
  <2> QED
    BY <1>0, <2>1, <2>2, <2>3, PutBehindStep
<1>3. CASE WorkerLoop
  <2>1. \A t \in Task : (future'[t] = "pending" => future[t] = "pending")
                       /\ (future[t] = "none" => future'[t] = "none")
    BY <1>3 DEF WorkerLoop
  <2>2. /\ worker' = "full" <=> worker = "full"
        /\ UNCHANGED <<queue, held, active, activeTasks, body, taskGen, nextTaskId, discarded>>
    BY <1>3 DEF WorkerLoop, workerVars
  <2> QED
    BY <1>0, <2>1, <2>2, FutureStep
<1>4. CASE WorkerPop
  <2> DEFINE h == Head(queue)
  <2>1. /\ worker = "get" /\ queue # <<>> /\ queue' = Tail(queue)
        /\ UNCHANGED <<running, future, discarded, entryVars>>
    BY <1>4 DEF WorkerPop
  <2>2. held = NoTask
    BY <2>1 DEF HeldMeansFull
  <2>3. /\ Ordered(queue', h, nextTaskId) /\ h < nextTaskId /\ h \in Task /\ held < h
        /\ Behind(queue', held, body)
        /\ \A t : Holds(queue, t) <=> t = h \/ Holds(queue', t)
    BY <1>0, <2>1, TailOrdered
  <2>4. body[h] = "idle" /\ \A u \in Task : body[u] # "idle" => u < h
    <3>1. h = queue[1] /\ 1 \in 1..Len(queue)
      BY <1>0, <2>1, TailFacts
    <3>2. \A u \in Task : body[u] # "idle" => u < h
      BY <3>1 DEF Behind
    <3> QED
      BY <2>3, <3>2 DEF Task
  <2>5. Behind(queue', h, body)
    BY <2>3, <2>4 DEF Behind
  <2>6. CASE HasRoom
    <3>1. StartExecution(h) /\ held' = NoTask
      BY <1>4, <2>2, <2>6 DEF WorkerPop
    <3>2. \A u \in Task : Holds(queue, u) \/ held = u => u = h \/ Holds(queue', u)
      BY <2>2, <2>3 DEF Task, NoTask
    <3> QED
      BY <1>0, <2>1, <2>3, <2>4, <2>5, <3>1, <3>2, StartStep
  <2>7. CASE ~HasRoom
    <3>1. held' = h /\ worker' = "full" /\ UNCHANGED <<active, activeTasks, body>>
      BY <1>4, <2>7 DEF WorkerPop
    <3>2. UNCHANGED <<taskGen, nextTaskId>>
      BY <2>1 DEF entryVars
    <3>3. HeldMeansFull' /\ RegisteredByGeneration' /\ Executing' = Executing
      BY <2>3, <3>1, <3>2 DEF HeldMeansFull, RegisteredByGeneration, Executing, Task, NoTask
    <3>4. NothingLost'
      BY <2>1, <2>2, <2>3, <3>1 DEF NothingLost, Pending, InQueue, Holds, Task, NoTask
    <3> QED
      BY <1>0, <2>1, <2>3, <2>5, <3>1, <3>2, <3>3, <3>4
         DEF LaneInv, Unissued, FifoOrder, Started, Ordered, Behind
  <2> QED
    BY <2>6, <2>7
<1>5. CASE WorkerPoll
  <2>1. /\ worker = "full" /\ StartExecution(held) /\ held' = NoTask
        /\ UNCHANGED <<queue, future, discarded, entryVars>>
    BY <1>5 DEF WorkerPoll
  <2>2. held \in Task /\ held # NoTask
    BY <1>0, <2>1 DEF HeldMeansFull
  <2>3. body[held] = "idle"
    BY <2>2 DEF Behind, Task
  <2>4. queue' = queue /\ \A u \in Task : Holds(queue, u) \/ held = u => u = held \/ Holds(queue', u)
    BY <2>1
  <2> QED
    BY <1>0, <2>1, <2>2, <2>3, <2>4, StartStep
<1>6. CASE WorkerIdle
  <2>1. \A t \in Task : (future'[t] = "pending" => future[t] = "pending")
                       /\ (future[t] = "none" => future'[t] = "none")
    BY <1>6 DEF WorkerIdle
  <2>2. /\ worker' = "full" <=> worker = "full"
        /\ UNCHANGED <<queue, held, active, activeTasks, body, taskGen, nextTaskId, discarded>>
    BY <1>6 DEF WorkerIdle, EndWorker, workerVars
  <2> QED
    BY <1>0, <2>1, <2>2, FutureStep
<1>7. ASSUME NEW t \in Task, CallerGivesUp(t) PROVE LaneInv'
  <2>1. \A u \in Task : (future'[u] = "pending" => future[u] = "pending")
                       /\ (future[u] = "none" => future'[u] = "none")
    <3>1. future \in [Task -> {"none", "pending", "result", "error", "cleared",
                              "cancelled"}]
      BY DEF TypeOK
    <3>2. future[t] = "pending" /\ future' = [future EXCEPT ![t] = "cancelled"]
      BY <1>7 DEF CallerGivesUp, Pending
    <3> QED
      BY <3>1, <3>2
  <2>2. UNCHANGED <<queue, held, active, worker, activeTasks, body, taskGen, nextTaskId, discarded>>
    BY <1>7 DEF CallerGivesUp, entryVars
  <2> QED
    BY <1>0, <2>1, <2>2, FutureStep
<1>8. ASSUME NEW t \in Task, NEW outcome \in {"result", "error"}, Finish(t, outcome)
      PROVE  LaneInv'
  BY <1>0, <1>8, FinishStep
<1>9. CASE Clear
  <2>1. /\ queue' = <<>> /\ future' = Rejected
        /\ UNCHANGED <<held, active, worker, activeTasks, body, taskGen, nextTaskId, discarded>>
    BY <1>9 DEF Clear, entryVars
  <2>2. \A t \in Task : future'[t] = IF Holds(queue, t) /\ future[t] = "pending"
                                      THEN "cleared" ELSE future[t]
    BY <2>1 DEF Rejected, InQueue, Holds, Pending
  <2>3. Len(queue') = 0
    BY <2>1
  <2>4. HeldMeansFull' /\ RegisteredByGeneration' /\ Executing' = Executing
    BY <2>1 DEF HeldMeansFull, RegisteredByGeneration, Executing
  <2>5. NothingLost'
    BY <2>1, <2>2 DEF NothingLost, Pending, InQueue, Holds
  <2>6. Ordered(queue', held', nextTaskId') /\ held' < nextTaskId' /\ Behind(queue', held', body')
    BY <2>1, <2>3 DEF Ordered, Behind
  <2>7. \A t \in Task : t >= nextTaskId' => body'[t] = "idle" /\ future'[t] = "none"
    BY <2>1, <2>2
  <2> QED
    BY <1>0, <2>1, <2>4, <2>5, <2>6, <2>7
       DEF LaneInv, Unissued, FifoOrder, Started, Ordered, Behind
<1>10. CASE SetLimit \/ ResetGeneration \/ Stop \/ UNCHANGED vars
  <2>1. UNCHANGED <<queue, held, active, worker, activeTasks, body, taskGen, nextTaskId,
                    discarded, future>>
    BY <1>10 DEF SetLimit, ResetGeneration, Stop, entryVars, vars
  <2>2. worker' = "full" <=> worker = "full"
    BY <2>1
  <2>3. \A t \in Task : (future'[t] = "pending" => future[t] = "pending")
                       /\ (future[t] = "none" => future'[t] = "none")
    BY <2>1
  <2> QED
    BY <1>0, <2>1, <2>2, <2>3, FutureStep
<1> QED
  BY <1>1, <1>2, <1>3, <1>4, <1>5, <1>6, <1>7, <1>8, <1>9, <1>10
     DEF Next, Serve, Worker, FinishSome

LEMMA LaneInvInit == Init => LaneInv
<1> SUFFICES ASSUME Init PROVE LaneInv
  OBVIOUS
<1>1. TypeOK
  BY InitTyped
<1>2. Executing = {} /\ active = 0
  BY DEF Init, Executing
<1>3. active = Cardinality(Executing)
  BY <1>2, FS_EmptySet
<1>4. /\ \A t \in Task : body[t] = "idle" /\ future[t] = "none" /\ activeTasks[t] = NoGen
      /\ Len(queue) = 0 /\ held = NoTask /\ worker = "none" /\ nextTaskId = 1
  BY DEF Init
<1>5. Unissued /\ HeldMeansFull /\ RegisteredByGeneration /\ FifoOrder /\ NothingLost
  BY <1>4 DEF Unissued, HeldMeansFull, RegisteredByGeneration, FifoOrder, Started,
              NothingLost, Pending, NoTask
<1> QED
  BY <1>1, <1>3, <1>5 DEF LaneInv

LEMMA LaneInvariant == Spec => []LaneInv
BY LaneInvInit, LaneInvStep, PTL DEF Spec

(* Entries start in the order they were enqueued (lane.py:97-110), for any *)
(* number of tasks, with callers giving up, clears and stops in between.   *)
THEOREM FifoOrderHolds == Spec => []FifoOrder
<1>1. LaneInv => FifoOrder
  BY DEF LaneInv
<1> QED
  BY <1>1, LaneInvariant, PTL

(* No pending future is ever left without an entry that will settle it,    *)
(* except behind a discarded entry (queue.py:128).                         *)
THEOREM NothingLostHolds == Spec => []NothingLost
<1>1. LaneInv => NothingLost
  BY DEF LaneInv
<1> QED
  BY <1>1, LaneInvariant, PTL

(* The active counter is exact as long as nobody resets the lane.          *)
THEOREM ActiveCountsExecutingHolds == Spec => []ActiveCountsExecuting
<1>1. LaneInv => ActiveCountsExecuting
  <2> SUFFICES ASSUME LaneInv PROVE Registered = Executing
    BY DEF ActiveCountsExecuting, LaneInv
  <2> QED
    BY DEF LaneInv, TypeOK, RegisteredByGeneration, Registered, Executing, NoGen
<1> QED
  BY <1>1, LaneInvariant, PTL

(* At every start, the coroutines executing do not exceed max_concurrent:  *)
(* the check of lane.py:102 and the count of lane.py:107 suffice.          *)
THEOREM StartsUnderLimitHolds == Spec => StartsUnderLimit
<1> DEFINE Bounded == \A t \in Task : body[t] = "idle" /\ body'[t] = "running"
                        => Cardinality(Executing') <= limit
<1>1. LaneInv /\ LaneInv' /\ [Next]_vars => Bounded
  <2> SUFFICES ASSUME LaneInv, LaneInv', [Next]_vars, NEW t \in Task,
                      body[t] = "idle", body'[t] = "running"
               PROVE  Cardinality(Executing') <= limit
    OBVIOUS
  <2>1. active' = Cardinality(Executing') /\ limit \in Int /\ active \in Int
    BY LimitsAssumption DEF LaneInv, TypeOK
  <2>2. body' # body
    OBVIOUS
  <2>3. CASE WorkerPop \/ WorkerPoll
    <3>1. HasRoom /\ active' = active + 1
      BY <2>2, <2>3 DEF WorkerPop, WorkerPoll, StartExecution
    <3> QED
      BY <2>1, <3>1 DEF HasRoom
  <2>4. ASSUME NEW u \in Task, NEW outcome \in {"result", "error"}, Finish(u, outcome)
        PROVE  FALSE
    BY <2>4 DEF Finish, LaneInv, TypeOK
  <2> QED
    BY <2>2, <2>3, <2>4
       DEF Next, Serve, Worker, FinishSome, Enqueue, EnqueueDropOld, PutBehind,
           CallerGivesUp, WorkerLoop, WorkerIdle, Clear, SetLimit,
           ResetGeneration, Stop, vars
<1>2. LaneInv /\ LaneInv' /\ [Next]_vars
        => [\A t \in Task : body[t] = "idle" /\ body'[t] = "running"
             => Cardinality(Executing') <= limit]_vars
  BY <1>1
<1> QED
  BY <1>2, LaneInvariant, PTL DEF Spec, StartsUnderLimit
-----------------------------------------------------------------------------
(* The refinement: with the held entry in front of the queue, every step   *)
(* is a step of the pool or a stutter.                                     *)
Line == IF held = NoTask THEN queue ELSE <<held>> \o queue

LEMMA LineFacts ==
  ASSUME TypeOK
  PROVE  /\ Line \in Seq(Task)
         /\ held = NoTask => Line = queue
         /\ held # NoTask => /\ held \in Task /\ <<held>> \in Seq(Task) /\ Len(<<held>>) = 1
                             /\ Line = <<held>> \o queue
                             /\ Len(Line) = Len(queue) + 1 /\ Line[1] = held
                             /\ \A i \in 1..Len(queue) : Line[i + 1] = queue[i]
<1> USE DEF TypeOK
<1>1. CASE held = NoTask
  BY <1>1 DEF Line
<1>2. CASE held # NoTask
  <2>1. held \in Task /\ <<held>> \in Seq(Task) /\ Len(<<held>>) = 1 /\ <<held>>[1] = held
    BY <1>2
  <2>2. Line = <<held>> \o queue
    BY <1>2 DEF Line
  <2>3. /\ Line \in Seq(Task) /\ Len(Line) = 1 + Len(queue) /\ Len(queue) \in Nat
        /\ \A i \in 1..(1 + Len(queue)) :
             Line[i] = IF i <= 1 THEN <<held>>[i] ELSE queue[i - 1]
    BY <2>1, <2>2, ConcatProperties
  <2>4. Line[1] = held /\ \A i \in 1..Len(queue) : Line[i + 1] = queue[i]
    BY <2>1, <2>3
  <2> QED BY <1>2, <2>1, <2>2, <2>3, <2>4
<1> QED BY <1>1, <1>2

(* Taking the first entry out and putting it in front changes nothing.     *)
LEMMA HeadInFront ==
  ASSUME NEW s \in Seq(Task), s # <<>>
  PROVE  <<Head(s)>> \o Tail(s) = s
<1>1. Len(s) \in Nat \ {0} /\ Head(s) = s[1]
  BY EmptySeq, LenProperties
<1>2. SubSeq(s, 1, Len(s)) = <<s[1]>> \o SubSeq(s, 2, Len(s))
  BY <1>1, SubSeqRecursiveFirst
<1> QED BY <1>1, <1>2, SubSeqFull, TailIsSubSeq

LEMMA FrontTaken ==
  ASSUME NEW h \in Task, NEW s \in Seq(Task)
  PROVE  <<h>> \o s # <<>> /\ Head(<<h>> \o s) = h /\ Tail(<<h>> \o s) = s
<1> DEFINE w == <<h>> \o s
<1>1. <<h>> \in Seq(Task) /\ Len(<<h>>) = 1 /\ <<h>>[1] = h
  OBVIOUS
<1>2. /\ w \in Seq(Task) /\ Len(w) = 1 + Len(s) /\ Len(s) \in Nat
      /\ \A i \in 1..(1 + Len(s)) : w[i] = IF i <= 1 THEN <<h>>[i] ELSE s[i - 1]
  BY <1>1, ConcatProperties
<1>3. w # <<>> /\ Head(w) = h
  BY <1>1, <1>2
<1>4. Tail(w) \in Seq(Task) /\ Len(Tail(w)) = Len(s)
      /\ \A i \in 1..Len(Tail(w)) : Tail(w)[i] = w[i + 1]
  BY <1>2, <1>3, HeadTailProperties
<1>5. \A i \in 1..Len(Tail(w)) : Tail(w)[i] = s[i]
  BY <1>2, <1>4
<1>6. Tail(w) = s
  BY <1>4, <1>5, SeqEqual
<1> QED BY <1>3, <1>6

LEMMA QueuedRefines ==
  ASSUME LaneInv, NEW ahead \in Seq(Task), PutBehind(ahead), NEW line \in Seq(Task),
         held = NoTask => line = ahead,
         held # NoTask => line = <<held>> \o ahead
  PROVE  nextTaskId \in Task /\ Pool!Queued(nextTaskId, line)
<1> USE LimitsAssumption, BoundsAssumption
<1>1. nextTaskId \in Task /\ held' = held
  BY DEF PutBehind
<1>2. Line' = Append(line, nextTaskId)
  <2>1. queue' = Append(ahead, nextTaskId)
    BY DEF PutBehind
  <2>2. CASE held = NoTask
    BY <1>1, <2>1, <2>2 DEF Line
  <2>3. CASE held # NoTask
    <3>1. held \in Task /\ <<held>> \in Seq(Task) /\ <<nextTaskId>> \in Seq(Task)
      BY <2>3, <1>1 DEF LaneInv, TypeOK
    <3>2. Append(ahead, nextTaskId) = ahead \o <<nextTaskId>>
      BY <1>1, AppendIsConcat
    <3>3. Append(line, nextTaskId) = line \o <<nextTaskId>>
      BY <1>1, AppendIsConcat
    <3>4. (<<held>> \o ahead) \o <<nextTaskId>> = <<held>> \o (ahead \o <<nextTaskId>>)
      BY <3>1, ConcatAssociative
    <3>5. Line' = <<held>> \o queue'
      BY <1>1, <2>3 DEF Line
    <3> QED BY <2>1, <2>3, <3>2, <3>3, <3>4, <3>5
  <2> QED BY <2>2, <2>3
<1>3. Executing' = Executing
  BY DEF PutBehind, Executing
<1>4. /\ limit' = limit /\ future' = [future EXCEPT ![nextTaskId] = "pending"]
  BY DEF PutBehind
<1>5. future[nextTaskId] = "none"
  BY <1>1 DEF LaneInv, Unissued, Task
<1> QED BY <1>1, <1>2, <1>3, <1>4, <1>5 DEF Pool!Queued, Line

LEMMA EnqueueRefines ==
  ASSUME LaneInv, Enqueue
  PROVE  nextTaskId \in Task /\ Pool!Submit(nextTaskId)
<1>1. PutBehind(queue) /\ queue \in Seq(Task)
  BY DEF Enqueue, LaneInv, TypeOK
<1>2. /\ Line \in Seq(Task) /\ (held = NoTask => Line = queue)
      /\ (held # NoTask => Line = <<held>> \o queue)
  BY LineFacts DEF LaneInv
<1>3. nextTaskId \in Task /\ Pool!Queued(nextTaskId, Line)
  BY <1>1, <1>2, QueuedRefines
<1> QED BY <1>3 DEF Pool!Submit, Line

(* Dropping the oldest queued entry is dropping one of the two oldest of   *)
(* the line.                                                               *)
LEMMA DropRefines ==
  ASSUME LaneInv, EnqueueDropOld
  PROVE  nextTaskId \in Task /\ Pool!SubmitDiscarding(nextTaskId)
<1>1. /\ PutBehind(Tail(queue)) /\ queue # <<>> /\ queue \in Seq(Task)
      /\ Len(queue) \in Nat \ {0} /\ Tail(queue) \in Seq(Task)
  BY HeadTailProperties, EmptySeq DEF EnqueueDropOld, LaneInv, TypeOK
<1>2. TypeOK
  BY DEF LaneInv
<1> DEFINE Rest(i) == SubSeq(Line, 1, i - 1) \o SubSeq(Line, i + 1, Len(Line))
<1>3. CASE held = NoTask
  <2>1. Line = queue
    BY <1>3 DEF Line
  <2>2. SubSeq(Line, 1, 0) = <<>> /\ SubSeq(Line, 2, Len(Line)) = Tail(queue)
    BY <1>1, <2>1, SubSeqEmpty, TailIsSubSeq
  <2>3. Rest(1) = Tail(queue)
    BY <1>1, <2>2, ConcatEmptySeq
  <2>4. Rest(1) \in Seq(Task)
    BY <1>1, <2>3
  <2>5. nextTaskId \in Task /\ Pool!Queued(nextTaskId, Rest(1))
    BY <1>1, <1>3, <2>3, <2>4, QueuedRefines
  <2>6. 1 <= Len(Line)
    BY <1>1, <2>1
  <2> QED BY <2>5, <2>6 DEF Pool!SubmitDiscarding, Pool!Without, Line
<1>4. CASE held # NoTask
  <2>1. /\ Line \in Seq(Task) /\ held \in Task /\ <<held>> \in Seq(Task) /\ Len(<<held>>) = 1
        /\ Line = <<held>> \o queue /\ Len(Line) = Len(queue) + 1 /\ Line[1] = held
    BY <1>2, <1>4, LineFacts
  <2>2. SubSeq(Line, 1, 1) = <<held>>
    <3>1. SubSeq(Line, 1, 1) = SubSeq(<<held>>, 1, 1)
      BY <2>1, <1>1, SubSeqOfConcat1
    <3>2. SubSeq(<<held>>, 1, 1) = <<held>>
      BY <2>1, SubSeqFull
    <3> QED BY <3>1, <3>2
  <2>3. SubSeq(Line, 3, Len(Line)) = Tail(queue)
    <3>1. CASE Len(queue) = 1
      <4>1. SubSeq(Line, 3, Len(Line)) = <<>>
        BY <3>1, <2>1, SubSeqEmpty
      <4>2. SubSeq(queue, 2, Len(queue)) = <<>>
        BY <3>1, SubSeqEmpty
      <4> QED BY <4>1, <4>2, <1>1, TailIsSubSeq
    <3>2. CASE Len(queue) # 1
      <4>1. SubSeq(<<held>> \o queue, 3, Len(queue) + 1) = SubSeq(queue, 3 - 1, Len(queue) + 1 - 1)
        BY <3>2, <1>1, <2>1, SubSeqOfConcat2
      <4>2. 3 - 1 = 2 /\ Len(queue) + 1 - 1 = Len(queue)
        BY <1>1
      <4> QED BY <4>1, <4>2, <2>1, <1>1, TailIsSubSeq
    <3> QED BY <3>1, <3>2
  <2>4. Rest(2) = <<held>> \o Tail(queue) /\ Rest(2) \in Seq(Task)
    BY <1>1, <2>1, <2>2, <2>3, ConcatProperties
  <2>5. nextTaskId \in Task /\ Pool!Queued(nextTaskId, Rest(2))
    BY <1>1, <1>4, <2>4, QueuedRefines
  <2>6. 2 <= Len(Line)
    BY <1>1, <2>1
  <2> QED BY <2>5, <2>6 DEF Pool!SubmitDiscarding, Pool!Without, Line
<1> QED BY <1>3, <1>4

LEMMA SameCardinality ==
  ASSUME NEW S PROVE Pool!Cardinality(S) = Cardinality(S)
  BY DEF Pool!Cardinality, Cardinality

(* A start from the queue, or of the held entry, is an admission.          *)
LEMMA AdmitRefines ==
  ASSUME LaneInv, LaneInv', NEW t \in Task, StartExecution(t), HasRoom, body[t] = "idle",
         Line # <<>>, Head(Line) = t, Line' = Tail(Line),
         UNCHANGED <<future, limit>>
  PROVE  Pool!Admit
<1>1. Executing' = Executing \union {t}
  BY DEF StartExecution, Executing, LaneInv, TypeOK
<1>2. Cardinality(Executing) < limit
  BY DEF HasRoom, LaneInv
<1>3. Line # <<>> /\ Executing' = Executing \union {Head(Line)} /\ Line' = Tail(Line)
  BY <1>1
<1> QED BY ONLY <1>2, <1>3, SameCardinality, UNCHANGED <<future, limit>> DEF Pool!Admit, Line

LEMMA WorkerRefines ==
  ASSUME LaneInv, LaneInv', Worker
  PROVE  Pool!Admit \/ UNCHANGED Pool!vars
<1>1. /\ queue \in Seq(Task) /\ (worker = "full" <=> held # NoTask)
      /\ held \in Task \union {NoTask} /\ queue' \in Seq(Task)
  BY DEF LaneInv, TypeOK, HeldMeansFull
<1>2. CASE WorkerLoop
  <2>1. UNCHANGED <<queue, held, body, future, limit>>
    BY <1>2 DEF WorkerLoop, workerVars
  <2> QED BY <2>1 DEF Pool!vars, Executing
<1>3. CASE WorkerIdle
  <2>1. UNCHANGED <<queue, held, body, future, limit>>
    BY <1>3 DEF WorkerIdle, workerVars
  <2> QED BY <2>1 DEF Pool!vars, Executing
<1>4. CASE WorkerPop
  <2>1. /\ held = NoTask /\ queue # <<>> /\ queue' = Tail(queue) /\ Line = queue
        /\ UNCHANGED <<future, limit>>
    BY <1>1, <1>4 DEF WorkerPop, entryVars, Line
  <2>2. Head(queue) \in Task /\ Tail(queue) \in Seq(Task)
    BY <1>1, <2>1, HeadTailProperties
  <2>3. CASE HasRoom
    <3>1. StartExecution(Head(queue)) /\ held' = held
      BY <1>4, <2>3 DEF WorkerPop
    <3>2. Line' = Tail(Line)
      BY <2>1, <3>1 DEF Line
    <3>3. body[Head(queue)] = "idle"
      <4>1. 1 \in 1..Len(queue) /\ Head(queue) = queue[1]
        BY <1>1, <2>1, EmptySeq
      <4>2. ~(Head(queue) < queue[1])
        BY <2>2, <4>1 DEF Task
      <4> QED BY <2>2, <4>1, <4>2 DEF LaneInv, FifoOrder, Started
    <3> QED BY <2>1, <2>2, <2>3, <3>1, <3>2, <3>3, AdmitRefines
  <2>4. CASE ~HasRoom
    <3>1. held' = Head(queue) /\ body' = body
      BY <1>4, <2>4 DEF WorkerPop
    <3>2. held' # NoTask
      BY <2>2, <3>1 DEF Task, NoTask
    <3>3. Line' = Line
      BY <1>1, <2>1, <3>1, <3>2, HeadInFront DEF Line
    <3>4. Executing' = Executing
      BY <3>1 DEF Executing
    <3> QED BY <2>1, <3>3, <3>4 DEF Pool!vars, Line
  <2> QED BY <2>3, <2>4
<1>5. CASE WorkerPoll
  <2>1. /\ HasRoom /\ StartExecution(held) /\ held' = NoTask /\ held # NoTask
        /\ UNCHANGED <<queue, future, limit>>
    BY <1>1, <1>5 DEF WorkerPoll, entryVars
  <2>2. held \in Task /\ Line = <<held>> \o queue /\ Line' = queue
    BY <1>1, <2>1 DEF Line
  <2>3. Line # <<>> /\ Head(Line) = held /\ Line' = Tail(Line)
    BY <1>1, <2>2, FrontTaken
  <2>4. body[held] = "idle"
    BY <2>1, <2>2 DEF LaneInv, FifoOrder, Started, TypeOK, Task
  <2> QED BY <2>1, <2>2, <2>3, <2>4, AdmitRefines
<1> QED BY <1>2, <1>3, <1>4, <1>5 DEF Worker

(* The end of a coroutine and a caller's time-out. *)
LEMMA AnswersRefine ==
  ASSUME LaneInv, NEW t \in Task, FinishSome(t) \/ CallerGivesUp(t)
  PROVE  Pool!End(t) \/ Pool!Abandon(t)
<1>1. CASE CallerGivesUp(t)
  <2>1. /\ future[t] = "pending" /\ future' = [future EXCEPT ![t] = "cancelled"]
        /\ UNCHANGED <<queue, held, body, limit>>
    BY <1>1 DEF CallerGivesUp, Pending, entryVars
  <2>2. future' = [future EXCEPT ![t] = IF @ = "pending" THEN "cancelled" ELSE @]
    BY <2>1
  <2> QED BY <2>1, <2>2 DEF Pool!Abandon, Pool!Answer, Executing
<1>2. CASE FinishSome(t)
  <2>1. PICK a \in {"result", "error"} : Finish(t, a)
    BY <1>2 DEF FinishSome
  <2>2. /\ body[t] = "running" /\ body' = [body EXCEPT ![t] = "over"]
        /\ future' = [future EXCEPT ![t] = Settled(t, a)]
        /\ UNCHANGED <<queue, held, limit>>
    BY <2>1 DEF Finish, entryVars
  <2>3. activeTasks[t] = taskGen[t]
    BY <2>2 DEF LaneInv, RegisteredByGeneration
  <2>4. future' = [future EXCEPT ![t] = IF @ = "pending" THEN a ELSE @]
    BY <2>2, <2>3 DEF Settled, Pending
  <2>5. t \in Executing /\ Executing' = Executing \ {t}
    BY <2>2 DEF Executing, LaneInv, TypeOK
  <2> QED BY <2>2, <2>4, <2>5 DEF Pool!End, Pool!Answer
<1> QED BY <1>1, <1>2

LEMMA ClearRefines ==
  ASSUME LaneInv, Clear
  PROVE  Pool!Reject
<1> DEFINE Out(k) == {Line[i] : i \in (k + 1)..Len(Line)}
           Answers(k) == [t \in Task |-> IF t \in Out(k) /\ future[t] = "pending"
                                         THEN "cleared" ELSE future[t]]
<1>1. /\ queue # <<>> /\ queue' = <<>> /\ future' = Rejected
      /\ UNCHANGED <<held, body, limit>>
  BY DEF Clear, entryVars
<1>2. TypeOK /\ queue \in Seq(Task) /\ Len(queue) \in Nat \ {0}
  BY <1>1, EmptySeq DEF LaneInv, TypeOK
<1>3. \E k \in 0..1 : /\ k < Len(Line) /\ Line' = SubSeq(Line, 1, k)
                      /\ \A t : t \in Out(k) <=> InQueue(t)
  <2>1. CASE held = NoTask
    <3>1. Line = queue /\ Line' = <<>>
      BY <1>1, <2>1 DEF Line
    <3>2. 0 < Len(Line) /\ Line' = SubSeq(Line, 1, 0)
      BY <1>2, <3>1, SubSeqEmpty
    <3>3. \A t : t \in Out(0) <=> InQueue(t)
      BY <3>1 DEF InQueue
    <3> QED BY <3>2, <3>3
  <2>2. CASE held # NoTask
    <3>1. /\ Line \in Seq(Task) /\ held \in Task /\ <<held>> \in Seq(Task) /\ Len(<<held>>) = 1
          /\ Line = <<held>> \o queue /\ Len(Line) = Len(queue) + 1
          /\ \A i \in 1..Len(queue) : Line[i + 1] = queue[i]
      BY <1>2, <2>2, LineFacts
    <3>2. Line' = <<held>>
      <4>1. Line' = <<held>> \o <<>>
        BY <1>1, <2>2 DEF Line
      <4> QED BY <3>1, <4>1, ConcatEmptySeq
    <3>3. SubSeq(Line, 1, 1) = <<held>>
      <4>1. SubSeq(Line, 1, 1) = SubSeq(<<held>>, 1, 1)
        BY <3>1, <1>2, SubSeqOfConcat1
      <4>2. SubSeq(<<held>>, 1, 1) = <<held>>
        BY <3>1, SubSeqFull
      <4> QED BY <4>1, <4>2
    <3>4. \A t : t \in Out(1) <=> InQueue(t)
      <4> TAKE t
      <4>1. ASSUME t \in Out(1) PROVE InQueue(t)
        <5>1. PICK i \in 2..Len(Line) : t = Line[i]
          BY <4>1
        <5>2. i - 1 \in 1..Len(queue) /\ Line[(i - 1) + 1] = queue[i - 1] /\ (i - 1) + 1 = i
          BY <3>1, <5>1, <1>2
        <5> QED BY <5>1, <5>2 DEF InQueue
      <4>2. ASSUME InQueue(t) PROVE t \in Out(1)
        <5>1. PICK i \in 1..Len(queue) : queue[i] = t
          BY <4>2 DEF InQueue
        <5>2. i + 1 \in 2..Len(Line) /\ Line[i + 1] = t
          BY <3>1, <5>1, <1>2
        <5> QED BY <5>2
      <4> QED BY <4>1, <4>2
    <3>5. 1 < Len(Line)
      BY <3>1, <1>2
    <3>6. 1 < Len(Line) /\ Line' = SubSeq(Line, 1, 1) /\ \A t : t \in Out(1) <=> InQueue(t)
      BY <3>2, <3>3, <3>4, <3>5
    <3> WITNESS 1 \in 0..1
    <3> QED BY <3>6
  <2> QED BY <2>1, <2>2
<1>4. PICK k \in 0..1 : /\ k < Len(Line) /\ Line' = SubSeq(Line, 1, k)
                        /\ \A t : t \in Out(k) <=> InQueue(t)
  BY <1>3
<1>5. future' = Answers(k)
  BY <1>1, <1>4 DEF Rejected, Pending
<1>6. Executing' = Executing
  BY <1>1 DEF Executing
<1> QED BY <1>1, <1>4, <1>5, <1>6 DEF Pool!Reject, Line

LEMMA PoolStep ==
  LaneInv /\ LaneInv' /\ [Next]_vars => [Pool!Next]_(Pool!vars)
<1> SUFFICES ASSUME LaneInv, LaneInv', [Next]_vars PROVE Pool!Next \/ UNCHANGED Pool!vars
  OBVIOUS
<1>1. CASE Enqueue
  BY <1>1, EnqueueRefines DEF Pool!Next
<1>2. CASE EnqueueDropOld
  BY <1>2, DropRefines DEF Pool!Next
<1>3. CASE \E t \in Task : CallerGivesUp(t) \/ FinishSome(t)
  <2>1. PICK t \in Task : CallerGivesUp(t) \/ FinishSome(t)
    BY <1>3
  <2>2. Pool!End(t) \/ Pool!Abandon(t)
    BY <2>1, AnswersRefine
  <2> QED BY <2>2 DEF Pool!Next
<1>4. CASE Worker
  BY <1>4, WorkerRefines DEF Pool!Next
<1>5. CASE Clear
  BY <1>5, ClearRefines DEF Pool!Next
<1>6. CASE SetLimit
  <2>1. Pool!SetCap
    BY <1>6 DEF SetLimit, Pool!SetCap, Executing
  <2> QED BY <2>1 DEF Pool!Next
<1>7. CASE Stop \/ ResetGeneration \/ UNCHANGED vars
  <2>1. UNCHANGED <<queue, held, body, future, limit>>
    BY <1>7 DEF Stop, ResetGeneration, vars, entryVars
  <2> QED BY <2>1 DEF Pool!vars, Executing
<1> QED BY <1>1, <1>2, <1>3, <1>4, <1>5, <1>6, <1>7 DEF Next, Serve

LEMMA PoolInit == Init => Pool!Init
  BY DEF Init, Pool!Init, Task, Executing

(* The lane implements the abstract pool: whatever the worker, its         *)
(* time-outs, the callers, clear(), stop() and a generation bump do, what  *)
(* callers see is a line whose tasks are admitted in order, at most        *)
(* max_concurrent at a time, and answered once.                            *)
THEOREM ImplementsPoolHolds == Spec => ImplementsPool
<1>1. Init => Pool!Init
  BY PoolInit
<1>2. LaneInv /\ LaneInv' /\ [Next]_vars => [Pool!Next]_(Pool!vars)
  BY PoolStep
<1> QED BY <1>1, <1>2, LaneInvariant, PTL DEF Spec, ImplementsPool, Pool!Spec
-----------------------------------------------------------------------------
(* Under reset_all_lanes(): the queue is as before, but a coroutine may run*)
(* without being registered, and then a reset found it executing.          *)
LineInv ==
  /\ TypeOK /\ HeldMeansFull
  /\ Ordered(queue, held, nextTaskId) /\ held < nextTaskId
  /\ Behind(queue, held, body)
  /\ \A t \in Task : t >= nextTaskId => body[t] = "idle"
RegistrationInv ==
  \A t \in Task :
    /\ activeTasks[t] # NoGen => activeTasks[t] = taskGen[t] /\ body[t] = "running"
    /\ body[t] = "running" /\ activeTasks[t] = NoGen => t \in cutLoose
ResetInv ==
  /\ LineInv /\ RegistrationInv
  /\ active <= Cardinality(Registered) /\ ResetLosesOnlyInFlight

LEMMA RegisteredFinite ==
  /\ IsFiniteSet(Registered) /\ IsFiniteSet(Registered')
  /\ Cardinality(Registered) \in Nat
<1>1. IsFiniteSet(Task)
  BY FS_Interval, BoundsAssumption DEF Task
<1>2. IsFiniteSet(Registered) /\ IsFiniteSet(Registered')
  BY <1>1, FS_Subset DEF Registered
<1> QED
  BY <1>2, FS_CardinalityType

LEMMA ResetPutBehind ==
  ASSUME ResetInv, TypeOK', NEW ahead \in Seq(Task), PutBehind(ahead),
         Ordered(ahead, held, nextTaskId), Behind(ahead, held, body),
         discarded \subseteq discarded',
         \A t \in Task : Holds(queue, t) => Holds(ahead, t) \/ t \in discarded'
  PROVE  ResetInv'
<1> DEFINE n == nextTaskId
<1>1. /\ n \in Task /\ held \in Task \cup {NoTask} /\ held < n /\ n' = n + 1
  BY DEF PutBehind, TypeOK, ResetInv, LineInv
<1>2. /\ queue' = Append(ahead, n)
      /\ UNCHANGED <<held, active, activeTasks, body, cutLoose>>
      /\ future' = [future EXCEPT ![n] = "pending"]
      /\ taskGen' = [taskGen EXCEPT ![n] = generation]
  BY DEF PutBehind
<1>3. /\ \A t \in Task : t >= n => body[t] = "idle"
      /\ RegistrationInv /\ ResetLosesOnlyInFlight /\ HeldMeansFull /\ TypeOK
  BY DEF ResetInv, LineInv
<1>4. Ordered(queue', held', n') /\ Behind(queue', held', body')
      /\ \A u : Holds(queue', u) <=> Holds(ahead, u) \/ u = n
  <2>1. \A u \in Task : body[u] # "idle" => u < n
    BY <1>1, <1>3 DEF Task
  <2> QED
    BY <1>1, <1>2, <2>1, AppendOrdered
<1>5. HeldMeansFull'
  BY <1>2, <1>3 DEF PutBehind, StartWorker, HeldMeansFull, NoTask
<1>6. RegistrationInv'
  <2>1. \A t \in Task : taskGen'[t] = IF t = n THEN generation ELSE taskGen[t]
    BY <1>2, <1>3 DEF TypeOK
  <2>2. activeTasks[n] = NoGen /\ body[n] # "running"
    BY <1>1, <1>3 DEF RegistrationInv, Task
  <2> QED
    BY <1>1, <1>2, <1>3, <2>1, <2>2 DEF RegistrationInv
<1>7. ResetLosesOnlyInFlight'
  <2> SUFFICES ASSUME NEW t \in Task, future'[t] = "pending"
               PROVE  \/ Holds(queue', t) \/ held' = t \/ body'[t] = "running"
                      \/ t \in discarded' \/ (body'[t] = "over" /\ t \in cutLoose')
    BY DEF ResetLosesOnlyInFlight, Pending, InQueue, Holds
  <2>1. CASE t = n
    BY <1>4, <2>1
  <2>2. CASE t # n
    <3>1. future[t] = "pending"
      BY <1>2, <1>3, <2>2 DEF TypeOK
    <3>2. \/ Holds(queue, t) \/ held = t \/ body[t] = "running" \/ t \in discarded
          \/ body[t] = "over" /\ t \in cutLoose
      BY <1>3, <3>1 DEF ResetLosesOnlyInFlight, Pending, InQueue, Holds
    <3> QED
      BY <1>2, <1>4, <3>1, <3>2
  <2> QED
    BY <2>1, <2>2
<1>8. active' <= Cardinality(Registered')
  BY <1>2 DEF Registered, ResetInv
<1>9. held' < n' /\ \A t \in Task : t >= n' => body'[t] = "idle"
  BY <1>1, <1>2, <1>3 DEF Task, NoTask
<1> QED
  BY <1>4, <1>5, <1>6, <1>7, <1>8, <1>9 DEF ResetInv, LineInv

LEMMA ResetStart ==
  ASSUME ResetInv, TypeOK', NEW t \in Task, StartExecution(t),
         held' = NoTask, UNCHANGED <<future, discarded, entryVars>>,
         t < nextTaskId, body[t] = "idle",
         Ordered(queue', t, nextTaskId), Behind(queue', t, body),
         \A u \in Task : Holds(queue, u) \/ held = u => u = t \/ Holds(queue', u)
  PROVE  ResetInv'
<1>0. /\ LineInv /\ RegistrationInv /\ ResetLosesOnlyInFlight /\ TypeOK
      /\ active <= Cardinality(Registered)
  BY DEF ResetInv, LineInv
<1>1. /\ activeTasks' = [activeTasks EXCEPT ![t] = taskGen[t]]
      /\ body' = [body EXCEPT ![t] = "running"] /\ active' = active + 1
      /\ worker' = "loop" /\ held' = NoTask /\ queue' \in Seq(Task)
      /\ UNCHANGED <<future, discarded, nextTaskId, taskGen, cutLoose>>
  BY DEF StartExecution, entryVars, TypeOK
<1>2. /\ \A u \in Task : body'[u] = IF u = t THEN "running" ELSE body[u]
      /\ \A u \in Task : activeTasks'[u] = IF u = t THEN taskGen[t] ELSE activeTasks[u]
      /\ taskGen[t] \in Nat
  BY <1>0, <1>1 DEF TypeOK
<1>3. Ordered(queue', held', nextTaskId')
  <2>1. \A i \in 1..Len(queue') : queue'[i] \in Task
    BY <1>1, ElementOfSeq
  <2> QED
    BY <1>1, <2>1 DEF Ordered, NoTask, Task
<1>4. Behind(queue', held', body')
  BY <1>1, <1>2 DEF Behind, Ordered
<1>5. HeldMeansFull'
  BY <1>1 DEF HeldMeansFull
<1>6. RegistrationInv'
  BY <1>0, <1>1, <1>2 DEF RegistrationInv, NoGen
<1>7. ResetLosesOnlyInFlight'
  BY <1>0, <1>1, <1>2 DEF ResetLosesOnlyInFlight, Pending, InQueue, Holds
<1>8. active' <= Cardinality(Registered')
  <2>1. Registered' = Registered \cup {t} /\ t \notin Registered
    BY <1>0, <1>2 DEF Registered, NoGen, RegistrationInv
  <2>2. Cardinality(Registered') = Cardinality(Registered) + 1
    BY <2>1, RegisteredFinite, FS_AddElement
  <2> QED
    BY <1>0, <1>1, <2>2, RegisteredFinite DEF TypeOK
<1>9. held' < nextTaskId' /\ \A u \in Task : u >= nextTaskId' => body'[u] = "idle"
  <2>1. nextTaskId \in Nat \ {0}
    BY <1>0, BoundsAssumption DEF TypeOK
  <2> QED
    BY <1>0, <1>1, <1>2, <2>1 DEF NoTask, Task, LineInv
<1> QED
  BY <1>3, <1>4, <1>5, <1>6, <1>7, <1>8, <1>9 DEF ResetInv, LineInv

LEMMA ResetFinish ==
  ASSUME ResetInv, TypeOK', NEW t \in Task, NEW outcome \in {"result", "error"},
         Finish(t, outcome)
  PROVE  ResetInv'
<1>0. /\ LineInv /\ RegistrationInv /\ ResetLosesOnlyInFlight /\ TypeOK
      /\ active <= Cardinality(Registered)
  BY DEF ResetInv, LineInv
<1>1. /\ body[t] = "running" /\ body' = [body EXCEPT ![t] = "over"]
      /\ future' = [future EXCEPT ![t] = Settled(t, outcome)]
      /\ activeTasks' = [activeTasks EXCEPT ![t] = NoGen] /\ active' = active - 1
      /\ UNCHANGED <<queue, held, worker, discarded, nextTaskId, taskGen, cutLoose>>
  BY DEF Finish, ActiveAfter, entryVars
<1>2. /\ \A u \in Task : body'[u] = IF u = t THEN "over" ELSE body[u]
      /\ \A u \in Task : activeTasks'[u] = IF u = t THEN NoGen ELSE activeTasks[u]
  BY <1>0, <1>1 DEF TypeOK
<1>3. \A u \in Task : future'[u] = "pending" =>
        /\ future[u] = "pending"
        /\ u = t => activeTasks[t] # taskGen[t]
  BY <1>0, <1>1 DEF Settled, Pending, TypeOK
<1>4. t \in cutLoose \/ activeTasks[t] = taskGen[t]
  BY <1>0, <1>1 DEF RegistrationInv
<1>5. LineInv'
  <2>1. Ordered(queue', held', nextTaskId') /\ held' < nextTaskId' /\ HeldMeansFull'
    BY <1>0, <1>1 DEF LineInv, Ordered, HeldMeansFull
  <2>2. Behind(queue', held', body')
    BY <1>0, <1>1, <1>2 DEF LineInv, Behind
  <2>3. \A u \in Task : u >= nextTaskId' => body'[u] = "idle"
    BY <1>0, <1>1, <1>2 DEF LineInv
  <2> QED
    BY <2>1, <2>2, <2>3 DEF LineInv
<1>6. RegistrationInv'
  BY <1>0, <1>1, <1>2 DEF RegistrationInv
<1>7. ResetLosesOnlyInFlight'
  BY <1>0, <1>1, <1>2, <1>3, <1>4 DEF ResetLosesOnlyInFlight, Pending, InQueue
<1>8. active' <= Cardinality(Registered')
  <2>0. Registered' = Registered \ {t}
    BY <1>2 DEF Registered
  <2>1. CASE t \in Registered
    <3>1. Cardinality(Registered') = Cardinality(Registered) - 1
      BY <2>0, <2>1, RegisteredFinite, FS_RemoveElement
    <3> QED
      BY <1>0, <1>1, <3>1, RegisteredFinite DEF TypeOK
  <2>2. CASE t \notin Registered
    <3>1. Registered' = Registered
      BY <2>0, <2>2
    <3> QED
      BY <1>0, <1>1, <3>1, RegisteredFinite DEF TypeOK
  <2> QED
    BY <2>1, <2>2
<1> QED
  BY <1>5, <1>6, <1>7, <1>8 DEF ResetInv

(* Steps that start and end no coroutine and take nothing out of the line, *)
(* except for entries that clear() answers.                                *)
LEMMA ResetOther ==
  ASSUME ResetInv, TypeOK', HeldMeansFull',
         UNCHANGED <<held, active, activeTasks, body, taskGen, nextTaskId, discarded,
                     cutLoose>>,
         Ordered(queue', held, nextTaskId), Behind(queue', held, body),
         \A t \in Task : future'[t] = "pending" =>
            future[t] = "pending" /\ (Holds(queue, t) => Holds(queue', t))
  PROVE  ResetInv'
<1>0. /\ LineInv /\ RegistrationInv /\ ResetLosesOnlyInFlight /\ TypeOK
      /\ active <= Cardinality(Registered)
  BY DEF ResetInv, LineInv
<1>1. LineInv'
  BY <1>0 DEF LineInv
<1>2. RegistrationInv'
  BY <1>0 DEF RegistrationInv
<1>3. ResetLosesOnlyInFlight'
  BY <1>0 DEF ResetLosesOnlyInFlight, Pending, InQueue, Holds
<1>4. active' <= Cardinality(Registered')
  BY <1>0 DEF Registered
<1> QED
  BY <1>1, <1>2, <1>3, <1>4 DEF ResetInv

(* reset_all_lanes(): nothing is registered, all that runs is cut loose.   *)
LEMMA ResetLaneStep == ASSUME ResetInv, ResetLane PROVE ResetInv'
<1>0. /\ LineInv /\ RegistrationInv /\ ResetLosesOnlyInFlight /\ TypeOK
  BY DEF ResetInv, LineInv
<1>1. /\ generation' = generation + 1 /\ active' = 0
      /\ cutLoose' = cutLoose \cup Executing
      /\ \A t \in Task : activeTasks'[t] = NoGen
      /\ UNCHANGED <<queue, held, nextTaskId, taskGen, body, future, discarded, limit>>
  BY DEF ResetLane, NextGeneration
<1>2. (worker' = "full" <=> worker = "full") /\ worker' \in {"none", "loop", "get", "full"}
      /\ running' \in BOOLEAN
  <2>1. worker \in {"none", "loop", "get", "full"}
    BY <1>0 DEF TypeOK
  <2>2. running' \in BOOLEAN
    BY DEF ResetLane
  <2>3. worker' = worker \/ (worker = "none" /\ worker' = "loop")
    BY DEF ResetLane
  <2> QED
    BY <2>1, <2>2, <2>3
<1>3. TypeOK'
  <2>1. activeTasks' \in [Task -> Nat \cup {NoGen}]
    BY DEF ResetLane
  <2>2. active' \in Int /\ generation' \in Nat /\ cutLoose' \subseteq Task
    BY <1>0, <1>1 DEF TypeOK, Executing
  <2> QED
    BY <1>0, <1>1, <1>2, <2>1, <2>2 DEF TypeOK
<1>4. LineInv'
  BY <1>0, <1>1, <1>2, <1>3 DEF LineInv, HeldMeansFull, Ordered, Behind
<1>5. RegistrationInv'
  BY <1>0, <1>1 DEF RegistrationInv, Executing
<1>6. ResetLosesOnlyInFlight'
  BY <1>0, <1>1 DEF ResetLosesOnlyInFlight, Pending, InQueue
<1>7. active' <= Cardinality(Registered')
  <2>1. Registered' = {}
    BY <1>1 DEF Registered
  <2> QED
    BY <1>1, <2>1, FS_EmptySet
<1> QED
  BY <1>4, <1>5, <1>6, <1>7 DEF ResetInv

LEMMA ResetStep == ResetInv /\ [Serve \/ Stop \/ ResetLane]_vars => ResetInv'
<1> SUFFICES ASSUME ResetInv, Serve \/ Stop \/ ResetLane \/ UNCHANGED vars
             PROVE ResetInv'
  OBVIOUS
<1>1. CASE ResetLane
  BY <1>1, ResetLaneStep
<1> SUFFICES ASSUME Serve \/ Stop \/ UNCHANGED vars PROVE ResetInv'
  BY <1>1
<1>0. /\ TypeOK' /\ queue \in Seq(Task) /\ held \in Task \cup {NoTask} /\ nextTaskId \in Int
      /\ Ordered(queue, held, nextTaskId) /\ held < nextTaskId /\ HeldMeansFull
      /\ Behind(queue, held, body)
  <2>1. TypeOK /\ TypeOK'
    BY TypeStep DEF Next, ResetInv, LineInv
  <2> QED
    BY <2>1, BoundsAssumption DEF TypeOK, ResetInv, LineInv
<1>2. CASE Enqueue
  <2>1. PutBehind(queue) /\ discarded' = discarded
    BY <1>2 DEF Enqueue
  <2> QED
    BY <1>0, <2>1, ResetPutBehind
<1>3. CASE EnqueueDropOld
  <2>1. queue # <<>> /\ PutBehind(Tail(queue)) /\ discarded' = discarded \cup {Head(queue)}
    BY <1>3 DEF EnqueueDropOld
  <2>2. Tail(queue) \in Seq(Task)
    BY <1>0, <2>1, TailFacts
  <2>3. Ordered(Tail(queue), held, nextTaskId) /\ Behind(Tail(queue), held, body)
        /\ \A t : Holds(queue, t) <=> t = Head(queue) \/ Holds(Tail(queue), t)
    BY <1>0, <2>1, TailOrdered
  <2> QED
    BY <1>0, <2>1, <2>2, <2>3, ResetPutBehind
<1>4. CASE WorkerPop
  <2> DEFINE h == Head(queue)
  <2>1. /\ worker = "get" /\ queue # <<>> /\ queue' = Tail(queue)
        /\ UNCHANGED <<running, future, discarded, entryVars>>
    BY <1>4 DEF WorkerPop
  <2>2. held = NoTask
    BY <1>0, <2>1 DEF HeldMeansFull
  <2>3. /\ Ordered(queue', h, nextTaskId) /\ h < nextTaskId /\ h \in Task /\ held < h
        /\ Behind(queue', held, body)
        /\ \A t : Holds(queue, t) <=> t = h \/ Holds(queue', t)
    BY <1>0, <2>1, TailOrdered
  <2>4. body[h] = "idle" /\ \A u \in Task : body[u] # "idle" => u < h
    <3>1. h = queue[1] /\ 1 \in 1..Len(queue)
      BY <1>0, <2>1, TailFacts
    <3>2. \A u \in Task : body[u] # "idle" => u < h
      BY <1>0, <3>1 DEF Behind
    <3> QED
      BY <2>3, <3>2 DEF Task
  <2>5. Behind(queue', h, body)
    BY <2>3, <2>4 DEF Behind
  <2>6. CASE HasRoom
    <3>1. StartExecution(h) /\ held' = NoTask
      BY <1>4, <2>2, <2>6 DEF WorkerPop
    <3>2. \A u \in Task : Holds(queue, u) \/ held = u => u = h \/ Holds(queue', u)
      BY <2>2, <2>3 DEF Task, NoTask
    <3> QED
      BY <1>0, <2>1, <2>3, <2>4, <2>5, <3>1, <3>2, ResetStart
  <2>7. CASE ~HasRoom
    <3>1. held' = h /\ worker' = "full" /\ UNCHANGED <<active, activeTasks, body>>
      BY <1>4, <2>7 DEF WorkerPop
    <3>2. UNCHANGED <<taskGen, nextTaskId, cutLoose>>
      BY <2>1 DEF entryVars
    <3>3. HeldMeansFull'
      BY <2>3, <3>1 DEF HeldMeansFull, Task, NoTask
    <3>4. RegistrationInv' /\ active' <= Cardinality(Registered')
      <4>1. RegistrationInv /\ active <= Cardinality(Registered)
        BY DEF ResetInv
      <4> QED
        BY <3>1, <3>2, <4>1 DEF RegistrationInv, Registered
    <3>5. ResetLosesOnlyInFlight'
      <4>1. ResetLosesOnlyInFlight
        BY DEF ResetInv
      <4> QED
        BY <2>1, <2>2, <2>3, <3>1, <3>2, <4>1
           DEF ResetLosesOnlyInFlight, Pending, InQueue, Holds, Task, NoTask
    <3>6. \A t \in Task : t >= nextTaskId' => body'[t] = "idle"
      BY <3>1, <3>2 DEF ResetInv, LineInv
    <3>7. Ordered(queue', held', nextTaskId') /\ Behind(queue', held', body') /\ held' < nextTaskId'
      BY <2>3, <2>5, <3>1, <3>2
    <3> QED
      BY <1>0, <3>3, <3>4, <3>5, <3>6, <3>7 DEF ResetInv, LineInv
  <2> QED
    BY <2>6, <2>7
<1>5. CASE WorkerPoll
  <2>1. /\ worker = "full" /\ StartExecution(held) /\ held' = NoTask
        /\ UNCHANGED <<queue, future, discarded, entryVars>>
    BY <1>5 DEF WorkerPoll
  <2>2. held \in Task /\ held # NoTask
    BY <1>0, <2>1 DEF HeldMeansFull
  <2>3. body[held] = "idle"
    BY <1>0, <2>2 DEF Behind, Task
  <2>4. queue' = queue /\ \A u \in Task : Holds(queue, u) \/ held = u => u = held \/ Holds(queue', u)
    BY <2>1
  <2> QED
    BY <1>0, <2>1, <2>2, <2>3, <2>4, ResetStart
<1>6. ASSUME NEW t \in Task, NEW outcome \in {"result", "error"}, Finish(t, outcome)
      PROVE  ResetInv'
  BY <1>0, <1>6, ResetFinish
<1>7. ASSUME NEW t \in Task, CallerGivesUp(t) PROVE ResetInv'
  <2>1. \A u \in Task : future'[u] = "pending" => future[u] = "pending"
    <3>1. future \in [Task -> {"none", "pending", "result", "error", "cleared",
                              "cancelled"}]
      BY DEF TypeOK, ResetInv, LineInv
    <3>2. future' = [future EXCEPT ![t] = "cancelled"]
      BY <1>7 DEF CallerGivesUp
    <3> QED
      BY <3>1, <3>2
  <2>2. UNCHANGED <<queue, held, active, worker, activeTasks, body, taskGen, nextTaskId,
                    discarded, cutLoose>>
    BY <1>7 DEF CallerGivesUp, entryVars
  <2>3. HeldMeansFull'
    BY <1>0, <2>2 DEF HeldMeansFull
  <2> QED
    BY <1>0, <2>1, <2>2, <2>3, ResetOther
<1>8. CASE Clear
  <2>1. /\ queue' = <<>> /\ future' = Rejected
        /\ UNCHANGED <<held, active, worker, activeTasks, body, taskGen, nextTaskId,
                       discarded, cutLoose>>
    BY <1>8 DEF Clear, entryVars
  <2>2. \A t \in Task : future'[t] = "pending" => future[t] = "pending" /\ ~Holds(queue, t)
    BY <2>1 DEF Rejected, InQueue, Holds, Pending
  <2>3. HeldMeansFull' /\ Len(queue') = 0
    BY <1>0, <2>1 DEF HeldMeansFull
  <2>4. Ordered(queue', held, nextTaskId) /\ Behind(queue', held, body)
    BY <1>0, <2>3 DEF Ordered, Behind
  <2> QED
    BY <1>0, <2>1, <2>2, <2>3, <2>4, ResetOther
<1>9. CASE WorkerLoop \/ WorkerIdle \/ SetLimit \/ Stop \/ UNCHANGED vars
  <2>1. UNCHANGED <<queue, held, active, activeTasks, body, taskGen, nextTaskId,
                    discarded, future, cutLoose>>
    BY <1>9 DEF WorkerLoop, WorkerIdle, SetLimit, Stop, workerVars, entryVars, vars
  <2>2. worker' = "full" <=> worker = "full"
    BY <1>9 DEF WorkerLoop, WorkerIdle, EndWorker, SetLimit, Stop, vars
  <2>3. HeldMeansFull'
    BY <1>0, <2>1, <2>2 DEF HeldMeansFull
  <2> QED
    BY <1>0, <2>1, <2>3, ResetOther
<1> QED
  BY <1>2, <1>3, <1>4, <1>5, <1>6, <1>7, <1>8, <1>9 DEF Serve, Worker, FinishSome

LEMMA ResetInit == Init => ResetInv
<1> SUFFICES ASSUME Init PROVE ResetInv
  OBVIOUS
<1>1. TypeOK
  BY InitTyped
<1>2. /\ \A t \in Task : /\ body[t] = "idle" /\ future[t] = "none"
                         /\ activeTasks[t] = NoGen /\ taskGen[t] = 0
      /\ Len(queue) = 0 /\ held = NoTask /\ worker = "none" /\ nextTaskId = 1
      /\ active = 0
  BY DEF Init
<1>3. LineInv /\ RegistrationInv /\ ResetLosesOnlyInFlight
  BY <1>1, <1>2 DEF LineInv, RegistrationInv, ResetLosesOnlyInFlight, HeldMeansFull,
     Ordered, Behind, Pending, NoTask
<1>4. active <= Cardinality(Registered)
  BY <1>2, RegisteredFinite
<1> QED
  BY <1>3, <1>4 DEF ResetInv

LEMMA ResetInvariant == ResetSpec => []ResetInv
BY ResetInit, ResetStep, PTL DEF ResetSpec

(* However often reset_all_lanes() is called, the only callers it leaves   *)
(* without an answer are those whose coroutine it found executing.  An     *)
(* entry that was queued or held then has its answer when it has run.      *)
THEOREM ResetLosesOnlyInFlightHolds == ResetSpec => []ResetLosesOnlyInFlight
<1>1. ResetInv => ResetLosesOnlyInFlight
  BY DEF ResetInv
<1> QED
  BY <1>1, ResetInvariant, PTL

(* ... and the counter that drains wait for never exceeds what executes.   *)
THEOREM CounterNeverOverHolds == ResetSpec => []CounterNeverOver
<1>1. ResetInv => CounterNeverOver
  BY DEF ResetInv, RegistrationInv, CounterNeverOver, Registered, Executing
<1> QED
  BY <1>1, ResetInvariant, PTL

-----------------------------------------------------------------------------
(* A future that is settled never changes again, and clear() rejects only  *)
(* entries that neither execute nor are held by the worker (queue.py:218). *)
THEOREM SettledOnceHolds == Spec => SettledOnce
<1> DEFINE Once == \A t \in Task :
              /\ future[t] \notin {"none", "pending"} => future'[t] = future[t]
              /\ future'[t] = "cleared" /\ future[t] # "cleared"
                   => body[t] = "idle" /\ held # t
<1>1. LaneInv /\ [Next]_vars => Once
  <2> SUFFICES ASSUME LaneInv, [Next]_vars, NEW t \in Task,
                      future'[t] # future[t]
               PROVE  /\ future[t] \in {"none", "pending"}
                      /\ future'[t] = "cleared" => body[t] = "idle" /\ held # t
    OBVIOUS
  <2>0. /\ future \in [Task -> {"none", "pending", "result", "error", "cleared",
                                "cancelled"}]
        /\ nextTaskId \in Int /\ \A u \in Task : u >= nextTaskId => future[u] = "none"
        /\ Ordered(queue, held, nextTaskId) /\ Behind(queue, held, body)
    BY BoundsAssumption, InvParts DEF TypeOK
  <2>1. ASSUME NEW ahead, PutBehind(ahead)
        PROVE  future[t] \in {"none", "pending"} /\ future'[t] # "cleared"
    BY <2>0, <2>1 DEF PutBehind
  <2>2. ASSUME NEW u \in Task, CallerGivesUp(u)
        PROVE  future[t] \in {"none", "pending"} /\ future'[t] # "cleared"
    BY <2>0, <2>2 DEF CallerGivesUp, Pending
  <2>3. ASSUME NEW u \in Task, NEW outcome \in {"result", "error"}, Finish(u, outcome)
        PROVE  future[t] \in {"none", "pending"} /\ future'[t] # "cleared"
    BY <2>0, <2>3 DEF Finish, Settled, Pending
  <2>4. CASE Clear
    <3>1. future[t] = "pending" /\ Holds(queue, t)
      BY <2>4 DEF Clear, Rejected, InQueue, Holds, Pending
    <3>2. body[t] = "idle" /\ held # t
      BY <2>0, <3>1 DEF Holds, Behind, Ordered, Task
    <3> QED
      BY <3>1, <3>2
  <2> QED
    BY <2>1, <2>2, <2>3, <2>4
       DEF Next, Serve, Worker, FinishSome, Enqueue, EnqueueDropOld, WorkerLoop,
           WorkerPop, WorkerPoll, WorkerIdle, SetLimit, ResetGeneration, Stop, vars
<1>2. LaneInv /\ [Next]_vars =>
        [\A t \in Task :
              /\ future[t] \notin {"none", "pending"} => future'[t] = future[t]
              /\ future'[t] = "cleared" /\ future[t] # "cleared"
                   => body[t] = "idle" /\ held # t]_vars
  BY <1>1
<1> QED
  BY <1>2, LaneInvariant, PTL DEF Spec, SettledOnce

-----------------------------------------------------------------------------
(* The flag that enqueue() reads and the worker task.                      *)

(* Under ServeSpec the flag is the worker, and an idle lane has no work.   *)
Served ==
  /\ running <=> worker # "none"
  /\ queue # <<>> => running

LEMMA ServedStep == ASSUME TypeOK, Served, [Serve]_vars PROVE Served'
<1> USE DEF Served
<1>1. CASE UNCHANGED <<queue, running, worker>>
  BY <1>1
<1>2. ASSUME NEW ahead, PutBehind(ahead) PROVE Served'
  BY <1>2 DEF PutBehind, StartWorker
<1>3. CASE Enqueue \/ EnqueueDropOld
  BY <1>2, <1>3 DEF Enqueue, EnqueueDropOld
<1>4. CASE WorkerLoop
  BY <1>4 DEF WorkerLoop
<1>5. CASE WorkerPop
  <2>1. running' = running /\ worker = "get" /\ worker' \in {"loop", "full"}
    BY <1>5 DEF WorkerPop, StartExecution
  <2> QED
    BY <2>1
<1>6. CASE WorkerPoll
  <2>1. UNCHANGED <<queue, running>> /\ worker = "full" /\ worker' = "loop"
    BY <1>6 DEF WorkerPoll, StartExecution
  <2> QED
    BY <2>1
<1>7. CASE WorkerIdle
  BY <1>7 DEF WorkerIdle, LaneIdle, EndWorker
<1>8. CASE Clear
  BY <1>8 DEF Clear
<1>9. ASSUME NEW t \in Task, CallerGivesUp(t) \/ FinishSome(t) PROVE Served'
  BY <1>1, <1>9 DEF CallerGivesUp, FinishSome, Finish
<1>10. CASE SetLimit
  BY <1>1, <1>10 DEF SetLimit
<1>11. CASE UNCHANGED vars
  BY <1>1, <1>11 DEF vars
<1> HIDE DEF Served
<1> QED
  BY <1>3, <1>4, <1>5, <1>6, <1>7, <1>8, <1>9, <1>10, <1>11, Zenon DEF Serve, Worker

(* A lane that nobody stops serves what it was given: queued and held      *)
(* entries always have a live worker, and an entry is held only by a       *)
(* worker behind others that execute (lane.py:102).                        *)
THEOREM WorkHasWorkerHolds == ServeSpec => []WorkHasWorker
<1>1. Init => Served
  BY DEF Init, Served
<1>2. LaneInv /\ [Serve]_vars => LaneInv'
  BY LaneInvStep DEF Next
<1>3. LaneInv /\ Served /\ [Serve]_vars => Served'
  BY ServedStep DEF LaneInv
<1>4. ASSUME LaneInv, Served PROVE WorkHasWorker
  <2>1. worker = "full" <=> held # NoTask
    BY <1>4 DEF LaneInv, HeldMeansFull
  <2>2. ASSUME ~HasRoom PROVE Executing # {}
    <3>1. limit \in Nat \ {0} /\ active = Cardinality(Executing)
      BY <1>4, LimitsAssumption DEF LaneInv, TypeOK
    <3>2. Cardinality({}) = 0
      BY FS_EmptySet
    <3> QED
      BY <2>2, <3>1, <3>2 DEF HasRoom
  <2> QED
    BY <1>4, <2>1, <2>2 DEF Served, WorkHasWorker
<1> QED
  BY <1>1, <1>2, <1>3, <1>4, LaneInvInit, PTL DEF ServeSpec

(* With stop() and resets: the flag is set only while there is a worker.   *)
FlagHasWorker == running => worker # "none"

LEMMA FlagStep ==
  ASSUME FlagHasWorker, [Serve \/ Stop \/ ResetLane]_vars
  PROVE  /\ FlagHasWorker'
         /\ nextTaskId' # nextTaskId => worker' # "none" /\ (running' \/ worker # "none")
<1> DEFINE Good ==
      /\ FlagHasWorker'
      /\ nextTaskId' # nextTaskId => worker' # "none" /\ (running' \/ worker # "none")
<1> SUFFICES Good
  OBVIOUS
<1> USE DEF FlagHasWorker
<1>1. CASE UNCHANGED <<running, worker, nextTaskId>>
  BY <1>1
<1>2. ASSUME NEW ahead, PutBehind(ahead) PROVE Good
  BY <1>2 DEF PutBehind, StartWorker
<1>3. CASE Enqueue \/ EnqueueDropOld
  BY <1>2, <1>3 DEF Enqueue, EnqueueDropOld
<1>4. CASE WorkerLoop
  BY <1>4 DEF WorkerLoop, workerVars
<1>5. CASE WorkerPop \/ WorkerPoll
  <2>1. nextTaskId' = nextTaskId /\ worker' \in {"loop", "full"}
    BY <1>5 DEF WorkerPop, WorkerPoll, StartExecution, entryVars
  <2> QED
    BY <2>1
<1>6. CASE WorkerIdle
  BY <1>6 DEF WorkerIdle, EndWorker, workerVars
<1>7. CASE Stop
  BY <1>7 DEF Stop, entryVars
<1>8. CASE ResetLane
  BY <1>8 DEF ResetLane
<1>9. ASSUME NEW t \in Task, CallerGivesUp(t) \/ FinishSome(t) PROVE Good
  BY <1>1, <1>9 DEF CallerGivesUp, FinishSome, Finish, entryVars
<1>10. CASE Clear \/ SetLimit \/ UNCHANGED vars
  BY <1>1, <1>10 DEF Clear, SetLimit, entryVars, vars
<1> HIDE DEF Good
<1> QED
  BY <1>3, <1>4, <1>5, <1>6, <1>7, <1>8, <1>9, <1>10, Zenon DEF Serve, Worker

(* Every call of enqueue() finds or starts a worker, however the lane was  *)
(* stopped and reset before: the flag it trusts (lane.py:70) never         *)
(* outlives the task.                                                      *)
THEOREM EnqueueFindsWorkerHolds == ResetSpec => EnqueueFindsWorker
<1>1. Init => FlagHasWorker
  BY DEF Init, FlagHasWorker
<1>2. FlagHasWorker /\ [Serve \/ Stop \/ ResetLane]_vars => FlagHasWorker'
  BY FlagStep
<1>3. FlagHasWorker /\ [Serve \/ Stop \/ ResetLane]_vars =>
        [nextTaskId' # nextTaskId => worker' # "none" /\ (running' \/ worker # "none")]_vars
  BY FlagStep
<1> QED
  BY <1>1, <1>2, <1>3, PTL DEF ResetSpec, EnqueueFindsWorker
=============================================================================
