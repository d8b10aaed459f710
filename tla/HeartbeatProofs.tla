---------------------------- MODULE HeartbeatProofs ----------------------------
(***************************************************************************)
(* Proofs about HeartbeatWake, for any targets, priorities, requests,      *)
(* failures and replacements of the handler.                               *)
(***************************************************************************)
EXTENDS HeartbeatWake, FiniteSetTheorems, TLAPS

(* What is queued over a wake is a wake, and no less urgent.               *)
LEMMA QueuedIsUrgent ==
  ASSUME NEW p \in 0..MaxPriority, NEW q \in 0..MaxPriority, q # 0
  PROVE  Queued(p, q) \in 1..MaxPriority /\ Queued(p, q) >= p
BY ConstantsAssumption DEF Queued

LEMMA AfterScheduleKinds ==
  ASSUME NEW t \in Kinds \union {"none"}, NEW kind \in Kinds
  PROVE  AfterSchedule(t, kind) \subseteq Kinds
BY DEF AfterSchedule, Kinds

LEMMA FinallyTimer ==
  ASSUME NEW t \in Kinds \union {"none"}, Finally(t)
  PROVE  /\ timer' \in Kinds \union {"none"} /\ running' = FALSE
         /\ (\E k \in Target : pending'[k] # 0) => timer' # "none"
<1>1. AfterSchedule(t, "normal") \subseteq Kinds
  BY AfterScheduleKinds DEF Kinds
<1> QED
  BY <1>1 DEF Finally, Kinds

(* The handler's end with k in batch b, whatever it left of the wakes.     *)
LEMMA GoesOnTyped ==
  ASSUME TypeOK, NEW b \in Batch, NEW k \in Target, NEW t \in Kinds \union {"none"},
         GoesOnOrEnds(b, k, t)
  PROVE  /\ timer' \in Kinds \union {"none"} /\ running' \in BOOLEAN
         /\ todo' \in [Batch -> SUBSET Target]
         /\ \A c \in Batch : todo'[c] \subseteq todo[c]
<1>1. CASE todo[b] = {k}
  BY <1>1, FinallyTimer DEF GoesOnOrEnds, TypeOK
<1>2. CASE todo[b] # {k}
  BY <1>2 DEF GoesOnOrEnds, TypeOK
<1> QED
  BY <1>1, <1>2

-----------------------------------------------------------------------------
(* Types. *)

LEMMA InitTyped == Init => TypeOK
<1> SUFFICES ASSUME Init PROVE TypeOK
  OBVIOUS
<1> USE ConstantsAssumption DEF Init
<1>1. installed \in 0..MaxHandlers /\ handler \in 0..installed
  OBVIOUS
<1>2. pending \in [Target -> 0..MaxPriority] /\ owed \in [Target -> BOOLEAN]
  OBVIOUS
<1>3. taken \in [Batch -> [Target -> 0..MaxPriority]]
  OBVIOUS
<1>4. todo \in [Batch -> SUBSET Target] /\ \A b \in Batch : todo[b] = {}
  OBVIOUS
<1> QED
  BY <1>1, <1>2, <1>3, <1>4 DEF TypeOK

LEMMA RequestTyped ==
  ASSUME TypeOK, NEW k \in Target, NEW p \in 1..MaxPriority, Request(k, p)
  PROVE  TypeOK'
<1> USE ConstantsAssumption
<1>1. timer' \in Kinds \union {"none"}
  BY AfterScheduleKinds DEF Request, TypeOK, Kinds
<1>2. Queued(pending[k], p) \in 0..MaxPriority
  BY QueuedIsUrgent DEF TypeOK
<1>3. pending' \in [Target -> 0..MaxPriority]
  BY <1>2 DEF Request, TypeOK
<1>4. owed' \in [Target -> BOOLEAN] /\ requests' \in Nat
  BY DEF Request, TypeOK
<1> QED
  BY <1>1, <1>3, <1>4 DEF Request, TypeOK, batchVars

LEMMA StartsTyped == ASSUME TypeOK, Starts PROVE TypeOK'
<1> USE ConstantsAssumption
<1> DEFINE due == {k \in Target : pending[k] # 0}
           b == CHOOSE c \in Batch : c \notin Executing
<1>1. CASE due = {}
  BY <1>1 DEF Starts, TypeOK, batchVars
<1>2. CASE due # {}
  <2>1. b \in Batch
    BY <1>2 DEF Starts
  <2>2. /\ taken' = [taken EXCEPT ![b] = pending] /\ todo' = [todo EXCEPT ![b] = due]
        /\ pending' = [k \in Target |-> 0] /\ running' = TRUE
    BY <1>2 DEF Starts
  <2>3. /\ taken' \in [Batch -> [Target -> 0..MaxPriority]]
        /\ todo' \in [Batch -> SUBSET Target]
        /\ pending' \in [Target -> 0..MaxPriority]
    BY <2>1, <2>2 DEF TypeOK
  <2>4. \A c \in Batch : \A k \in todo'[c] : taken'[c][k] # 0
    BY <2>1, <2>2 DEF TypeOK
  <2> QED
    BY <2>2, <2>3, <2>4 DEF Starts, TypeOK
<1> QED
  BY <1>1, <1>2

LEMMA HandlerTyped ==
  ASSUME TypeOK, NEW b \in Batch, NEW k \in Target,
         Ran(b, k) \/ Skipped(b, k) \/ Raised(b, k)
  PROVE  TypeOK'
<1> USE ConstantsAssumption
<1>1. CASE Ran(b, k)
  <2>1. GoesOnOrEnds(b, k, timer) /\ UNCHANGED <<pending, taken>>
    BY <1>1 DEF Ran
  <2>2. /\ timer' \in Kinds \union {"none"} /\ running' \in BOOLEAN
        /\ todo' \in [Batch -> SUBSET Target] /\ \A c \in Batch : todo'[c] \subseteq todo[c]
    BY <2>1, GoesOnTyped DEF TypeOK
  <2>3. owed' \in [Target -> BOOLEAN]
    BY <1>1 DEF Ran, TypeOK
  <2> QED
    BY <1>1, <2>1, <2>2, <2>3 DEF Ran, TypeOK
<1>2. CASE Skipped(b, k)
  <2>1. PICK t \in AfterSchedule(timer, "retry") : GoesOnOrEnds(b, k, t)
    BY <1>2 DEF Skipped
  <2>2. t \in Kinds \union {"none"}
    BY <2>1, AfterScheduleKinds DEF TypeOK, Kinds
  <2>3. /\ timer' \in Kinds \union {"none"} /\ running' \in BOOLEAN
        /\ todo' \in [Batch -> SUBSET Target] /\ \A c \in Batch : todo'[c] \subseteq todo[c]
    BY <2>1, <2>2, GoesOnTyped
  <2>4. taken[b][k] \in 0..MaxPriority /\ taken[b][k] # 0
    BY <1>2 DEF Skipped, TypeOK
  <2>5. Queued(pending[k], taken[b][k]) \in 0..MaxPriority
    BY <2>4, QueuedIsUrgent DEF TypeOK
  <2>6. pending' \in [Target -> 0..MaxPriority]
    BY <1>2, <2>5 DEF Skipped, TypeOK
  <2> QED
    BY <1>2, <2>3, <2>6 DEF Skipped, TypeOK
<1>3. CASE Raised(b, k)
  <2>1. PICK t \in AfterSchedule(timer, "retry") : Finally(t)
    BY <1>3 DEF Raised
  <2>2. t \in Kinds \union {"none"}
    BY <2>1, AfterScheduleKinds DEF TypeOK, Kinds
  <2>3. timer' \in Kinds \union {"none"} /\ running' \in BOOLEAN
    BY <2>1, <2>2, FinallyTimer
  <2>4. /\ todo' \in [Batch -> SUBSET Target]
        /\ \A c \in Batch : todo'[c] \subseteq todo[c]
    BY <1>3 DEF Raised, TypeOK
  <2>5. ASSUME NEW j \in Target
        PROVE  (IF taken[b][j] = 0 THEN pending[j] ELSE Queued(pending[j], taken[b][j]))
                 \in 0..MaxPriority
    BY QueuedIsUrgent DEF TypeOK
  <2>6. pending' \in [Target -> 0..MaxPriority]
    BY <1>3, <2>5 DEF Raised
  <2> QED
    BY <1>3, <2>3, <2>4, <2>6 DEF Raised, TypeOK
<1> QED
  BY <1>1, <1>2, <1>3

LEMMA TypeStep == ASSUME TypeOK, [Next]_vars PROVE TypeOK'
<1> USE ConstantsAssumption
<1>1. CASE \E k \in Target, p \in 1..MaxPriority : Request(k, p)
  BY <1>1, RequestTyped
<1>2. CASE FiresWithoutHandler
  BY <1>2 DEF FiresWithoutHandler, TypeOK, wakeVars, batchVars
<1>3. CASE FiresWhileRunning
  BY <1>3 DEF FiresWhileRunning, TypeOK, wakeVars, batchVars
<1>4. CASE Starts
  BY <1>4, StartsTyped
<1>5. CASE HandlerReturns
  BY <1>5, HandlerTyped DEF HandlerReturns
<1>6. CASE Install
  <2>1. installed' \in 0..MaxHandlers /\ handler' \in 0..installed'
    BY <1>6 DEF Install, TypeOK
  <2>2. toSchedule' \in BOOLEAN
    BY <1>6, Zenon DEF Install
  <2> QED
    BY <1>6, <2>1, <2>2 DEF Install, TypeOK, wakeVars, batchVars
<1>7. CASE SchedulesLate
  <2>1. timer' \in Kinds \union {"none"}
    BY <1>7, AfterScheduleKinds DEF SchedulesLate, TypeOK, Kinds
  <2> QED
    BY <1>7, <2>1 DEF SchedulesLate, TypeOK, wakeVars, batchVars
<1>8. CASE \E g \in 1..MaxHandlers : Dispose(g)
  BY <1>8 DEF Dispose, TypeOK, wakeVars, timerVars, batchVars
<1>9. CASE UNCHANGED vars
  BY <1>9 DEF vars, TypeOK, wakeVars, timerVars, batchVars
<1> QED
  BY <1>1, <1>2, <1>3, <1>4, <1>5, <1>6, <1>7, <1>8, <1>9 DEF Next, TimerFires

-----------------------------------------------------------------------------
(* How many batches are under way. *)

LEMMA BatchesFinite ==
  ASSUME NEW S \in SUBSET Batch
  PROVE  IsFiniteSet(S) /\ Cardinality(S) \in Nat
<1>1. IsFiniteSet(Batch)
  BY ConstantsAssumption, FS_Interval DEF Batch
<1> QED
  BY <1>1, FS_Subset, FS_CardinalityType

LEMMA OneBatchInit == Init => OneBatchPerHandler
BY FS_EmptySet DEF Init, OneBatchPerHandler, Executing

(* The `finally' of a batch takes one away and leaves the flag clear.      *)
LEMMA BatchEnds ==
  ASSUME TypeOK, OneBatchPerHandler, NEW b \in Batch, todo[b] # {},
         todo' = [todo EXCEPT ![b] = {}], installed' = installed
  PROVE  OneBatchPerHandler'
<1>1. Executing \in SUBSET Batch /\ b \in Executing
  BY DEF Executing
<1>2. Executing' = Executing \ {b}
  BY DEF Executing, TypeOK
<1>3. Cardinality(Executing') = Cardinality(Executing) - 1
  BY <1>1, <1>2, BatchesFinite, FS_RemoveElement
<1>4. Cardinality(Executing) \in Nat /\ installed \in Nat
  BY <1>1, BatchesFinite, ConstantsAssumption DEF TypeOK
<1> QED
  BY <1>3, <1>4 DEF OneBatchPerHandler

LEMMA BatchGoesOn ==
  ASSUME TypeOK, OneBatchPerHandler, NEW b \in Batch, NEW k \in todo[b],
         NEW t, GoesOnOrEnds(b, k, t), installed' = installed
  PROVE  OneBatchPerHandler'
<1>1. CASE todo[b] = {k}
  <2>1. todo' = [todo EXCEPT ![b] = {}]
    BY <1>1 DEF GoesOnOrEnds, TypeOK
  <2> QED
    BY <2>1, BatchEnds
<1>2. CASE todo[b] # {k}
  <2>1. Executing' = Executing /\ running' = running
    BY <1>2 DEF GoesOnOrEnds, TypeOK, Executing
  <2> QED
    BY <2>1 DEF OneBatchPerHandler
<1> QED
  BY <1>1, <1>2

LEMMA BatchStarts ==
  ASSUME TypeOK, OneBatchPerHandler, Starts
  PROVE  OneBatchPerHandler'
<1> DEFINE due == {k \in Target : pending[k] # 0}
           b == CHOOSE c \in Batch : c \notin Executing
<1>1. CASE due = {}
  BY <1>1 DEF Starts, batchVars, OneBatchPerHandler, Executing
<1>2. CASE due # {}
  <2>1. b \in Batch /\ b \notin Executing
    BY <1>2 DEF Starts
  <2>2. todo' = [todo EXCEPT ![b] = due] /\ running' = TRUE
    BY <1>2 DEF Starts
  <2>3. Executing' = Executing \cup {b}
    BY <1>2, <2>1, <2>2 DEF Executing, TypeOK
  <2>4. Executing \in SUBSET Batch
    BY DEF Executing
  <2>5. Cardinality(Executing') = Cardinality(Executing) + 1
    BY <2>1, <2>3, <2>4, BatchesFinite, FS_AddElement
  <2>6. Cardinality(Executing) \in Nat
    BY <2>4, BatchesFinite
  <2>7. installed \in Nat /\ installed # 0 /\ installed' = installed
    BY ConstantsAssumption DEF Starts, TypeOK
  <2>8. Cardinality(Executing) < installed
    BY <2>7 DEF Starts, Free, OneBatchPerHandler
  <2> QED
    BY <2>2, <2>5, <2>6, <2>7, <2>8 DEF OneBatchPerHandler
<1> QED
  BY <1>1, <1>2

LEMMA OneBatchStep ==
  ASSUME TypeOK, OneBatchPerHandler, [Next]_vars
  PROVE  OneBatchPerHandler'
<1>1. CASE \/ \E k \in Target, p \in 1..MaxPriority : Request(k, p)
           \/ FiresWithoutHandler \/ FiresWhileRunning \/ SchedulesLate
           \/ \E g \in 1..MaxHandlers : Dispose(g)
           \/ UNCHANGED vars
  <2>1. todo' = todo /\ installed' = installed /\ running' = running
    BY <1>1 DEF Request, FiresWithoutHandler, FiresWhileRunning, SchedulesLate, Dispose,
                vars, batchVars, timerVars
  <2> QED
    BY <2>1 DEF OneBatchPerHandler, Executing
<1>2. CASE Starts
  BY <1>2, BatchStarts
<1>3. CASE HandlerReturns
  <2>1. PICK b \in Batch, k \in Target : Ran(b, k) \/ Skipped(b, k) \/ Raised(b, k)
    BY <1>3 DEF HandlerReturns
  <2>2. CASE Ran(b, k)
    BY <2>2, BatchGoesOn DEF Ran
  <2>3. CASE Skipped(b, k)
    BY <2>3, BatchGoesOn DEF Skipped
  <2>4. CASE Raised(b, k)
    BY <2>4, BatchEnds DEF Raised
  <2> QED
    BY <2>1, <2>2, <2>3, <2>4
<1>4. CASE Install
  <2>1. Executing' = Executing /\ installed' = installed + 1
    BY <1>4 DEF Install, batchVars, Executing
  <2>2. Cardinality(Executing) \in Nat /\ installed \in Nat
    BY BatchesFinite, ConstantsAssumption DEF Executing, TypeOK
  <2> QED
    BY <2>1, <2>2 DEF OneBatchPerHandler
<1> QED
  BY <1>1, <1>2, <1>3, <1>4 DEF Next, TimerFires

-----------------------------------------------------------------------------
(* Something will start what is pending. *)

LEMMA ScheduledStep ==
  ASSUME IInv, [Next]_vars
  PROVE  PendingIsScheduled'
<1> USE DEF PendingIsScheduled
<1>0. TypeOK /\ PendingIsScheduled
  BY DEF IInv
<1>1. CASE \E k \in Target, p \in 1..MaxPriority : Request(k, p)
  <2>1. timer' \in Kinds
    BY <1>0, <1>1, AfterScheduleKinds DEF Request, TypeOK, Kinds
  <2> QED
    BY <2>1 DEF Kinds
<1>2. CASE FiresWithoutHandler
  BY <1>2 DEF FiresWithoutHandler
<1>3. CASE FiresWhileRunning
  BY <1>3 DEF FiresWhileRunning
<1>4. CASE Starts
  BY <1>0, <1>4 DEF Starts, TypeOK
<1>5. CASE HandlerReturns
  <2>1. PICK b \in Batch, k \in Target : Ran(b, k) \/ Skipped(b, k) \/ Raised(b, k)
    BY <1>5 DEF HandlerReturns
  <2>2. CASE Ran(b, k)
    <3>1. CASE todo[b] = {k}
      <4>1. Finally(timer) /\ handler' = handler
        BY <2>2, <3>1 DEF Ran, GoesOnOrEnds
      <4> QED
        BY <1>0, <4>1, FinallyTimer DEF TypeOK
    <3>2. CASE todo[b] # {k}
      <4>1. Executing' = Executing
        BY <1>0, <2>2, <3>2 DEF Ran, GoesOnOrEnds, Executing, TypeOK
      <4> QED
        BY <1>0, <2>2, <3>2, <4>1 DEF Ran, GoesOnOrEnds
    <3> QED
      BY <3>1, <3>2
  <2>3. CASE Skipped(b, k)
    <3>1. PICK t \in AfterSchedule(timer, "retry") : GoesOnOrEnds(b, k, t)
      BY <2>3 DEF Skipped
    <3>2. t \in Kinds
      BY <1>0, <3>1, AfterScheduleKinds DEF TypeOK, Kinds
    <3>3. CASE todo[b] = {k}
      BY <3>1, <3>2, <3>3, FinallyTimer DEF GoesOnOrEnds
    <3>4. CASE todo[b] # {k}
      BY <3>1, <3>2, <3>4 DEF GoesOnOrEnds, Kinds
    <3> QED
      BY <3>3, <3>4
  <2>4. CASE Raised(b, k)
    <3>1. PICK t \in AfterSchedule(timer, "retry") : Finally(t)
      BY <2>4 DEF Raised
    <3>2. t \in Kinds
      BY <1>0, <3>1, AfterScheduleKinds DEF TypeOK, Kinds
    <3> QED
      BY <3>1, <3>2, FinallyTimer
  <2> QED
    BY <2>1, <2>2, <2>3, <2>4
<1>6. CASE Install
  BY <1>6 DEF Install, wakeVars
<1>7. CASE SchedulesLate
  <2>1. timer' \in Kinds
    BY <1>0, <1>7, AfterScheduleKinds DEF SchedulesLate, TypeOK, Kinds
  <2> QED
    BY <2>1 DEF Kinds
<1>8. CASE \E g \in 1..MaxHandlers : Dispose(g)
  BY <1>8 DEF Dispose
<1>9. CASE UNCHANGED vars
  BY <1>0, <1>9 DEF vars, wakeVars, timerVars, batchVars, Executing
<1> QED
  BY <1>1, <1>2, <1>3, <1>4, <1>5, <1>6, <1>7, <1>8, <1>9 DEF Next, TimerFires

-----------------------------------------------------------------------------
(* Types, the timer and the number of batches, in every reachable state.   *)
THEOREM InvariantHolds == Spec => []IInv
<1>1. Init => IInv
  BY InitTyped, OneBatchInit DEF IInv, Init, PendingIsScheduled
<1>2. IInv /\ [Next]_vars => IInv'
  BY TypeStep, OneBatchStep, ScheduledStep DEF IInv
<1> QED
  BY <1>1, <1>2, PTL DEF Spec

-----------------------------------------------------------------------------
(* No wake is lost. *)

LEMMA StartsKeepsWakes ==
  ASSUME TypeOK, NoWakeLost, Starts
  PROVE  NoWakeLost'
<1> DEFINE due == {k \in Target : pending[k] # 0}
           b == CHOOSE c \in Batch : c \notin Executing
<1>1. CASE due = {}
  BY <1>1 DEF Starts, batchVars, NoWakeLost
<1>2. CASE due # {}
  <2>1. b \in Batch /\ b \notin Executing
    BY <1>2 DEF Starts
  <2>2. todo' = [todo EXCEPT ![b] = due] /\ owed' = owed
    BY <1>2 DEF Starts
  <2>3. todo[b] = {}
    BY <2>1 DEF Executing
  <2>4. /\ todo'[b] = due
        /\ \A c \in Batch : c # b => todo'[c] = todo[c]
    BY <2>1, <2>2 DEF TypeOK
  <2>5. ASSUME NEW k \in Target, owed'[k] PROVE \E c \in Batch : k \in todo'[c]
    <3>1. pending[k] # 0 \/ \E c \in Batch : k \in todo[c]
      BY <2>2, <2>5 DEF NoWakeLost
    <3>2. CASE pending[k] # 0
      BY <2>1, <2>4, <3>2
    <3>3. CASE \E c \in Batch : k \in todo[c]
      BY <2>3, <2>4, <3>3
    <3> QED
      BY <3>1, <3>2, <3>3
  <2> QED
    BY <2>5 DEF NoWakeLost
<1> QED
  BY <1>1, <1>2

(* What the handler did not take from a batch is still there.              *)
LEMMA OthersStay ==
  ASSUME TypeOK, NEW b \in Batch, NEW k \in Target, NEW t, GoesOnOrEnds(b, k, t),
         NEW c \in Batch, NEW j \in todo[c], j # k
  PROVE  j \in todo'[c]
BY DEF GoesOnOrEnds, TypeOK

LEMMA HandlerKeepsWakes ==
  ASSUME TypeOK, NoWakeLost, NEW b \in Batch, NEW k \in Target,
         Ran(b, k) \/ Skipped(b, k) \/ Raised(b, k)
  PROVE  NoWakeLost'
<1>1. CASE Ran(b, k)
  <2>1. /\ owed' = [owed EXCEPT ![k] = pending[k] # 0] /\ pending' = pending
        /\ GoesOnOrEnds(b, k, timer)
    BY <1>1 DEF Ran
  <2>2. owed'[k] => pending'[k] # 0
    BY <2>1 DEF TypeOK
  <2>3. ASSUME NEW j \in Target, j # k, owed'[j]
        PROVE  pending'[j] # 0 \/ \E c \in Batch : j \in todo'[c]
    <3>1. owed[j]
      BY <2>1, <2>3 DEF TypeOK
    <3> QED
      BY <2>1, <2>3, <3>1, OthersStay DEF NoWakeLost
  <2> QED
    BY <2>2, <2>3 DEF NoWakeLost
<1>2. CASE Skipped(b, k)
  <2>1. PICK t \in AfterSchedule(timer, "retry") : GoesOnOrEnds(b, k, t)
    BY <1>2 DEF Skipped
  <2>2. /\ pending' = [pending EXCEPT ![k] = Queued(@, taken[b][k])] /\ owed' = owed
        /\ k \in todo[b]
    BY <1>2 DEF Skipped
  <2>3. taken[b][k] \in 0..MaxPriority /\ taken[b][k] # 0 /\ pending[k] \in 0..MaxPriority
    BY <2>2 DEF TypeOK
  <2>4. pending'[k] # 0
    BY <2>2, <2>3, QueuedIsUrgent DEF TypeOK
  <2>5. ASSUME NEW j \in Target, j # k, owed'[j]
        PROVE  pending'[j] # 0 \/ \E c \in Batch : j \in todo'[c]
    <3>1. pending'[j] = pending[j] /\ owed[j]
      BY <2>2, <2>5 DEF TypeOK
    <3> QED
      BY <2>1, <2>5, <3>1, OthersStay DEF NoWakeLost
  <2> QED
    BY <2>4, <2>5 DEF NoWakeLost
<1>3. CASE Raised(b, k)
  <2>1. /\ pending' = [j \in Target |-> IF taken[b][j] = 0 THEN pending[j]
                                        ELSE Queued(pending[j], taken[b][j])]
        /\ todo' = [todo EXCEPT ![b] = {}] /\ owed' = owed
    BY <1>3 DEF Raised
  <2>2. ASSUME NEW j \in Target, owed'[j]
        PROVE  pending'[j] # 0 \/ \E c \in Batch : j \in todo'[c]
    <3>1. taken[b][j] \in 0..MaxPriority /\ pending[j] \in 0..MaxPriority
      BY DEF TypeOK
    <3>2. CASE taken[b][j] # 0
      BY <2>1, <3>1, <3>2, QueuedIsUrgent
    <3>3. CASE taken[b][j] = 0
      <4>1. pending'[j] = pending[j] /\ j \notin todo[b]
        BY <2>1, <3>3 DEF TypeOK
      <4> QED
        BY <2>1, <2>2, <4>1 DEF NoWakeLost, TypeOK
    <3> QED
      BY <3>2, <3>3
  <2> QED
    BY <2>2 DEF NoWakeLost
<1> QED
  BY <1>1, <1>2, <1>3

LEMMA WakesStep == ASSUME TypeOK, NoWakeLost, [Next]_vars PROVE NoWakeLost'
<1>1. ASSUME NEW k \in Target, NEW p \in 1..MaxPriority, Request(k, p)
      PROVE  NoWakeLost'
  <2>1. /\ pending' = [pending EXCEPT ![k] = Queued(@, p)]
        /\ owed' = [owed EXCEPT ![k] = TRUE] /\ todo' = todo
    BY <1>1 DEF Request, batchVars
  <2>2. pending[k] \in 0..MaxPriority
    BY DEF TypeOK
  <2>3. pending'[k] # 0
    BY <2>1, <2>2, QueuedIsUrgent, ConstantsAssumption DEF TypeOK
  <2> QED
    BY <2>1, <2>3 DEF NoWakeLost, TypeOK
<1>2. CASE \/ FiresWithoutHandler \/ FiresWhileRunning \/ Install \/ SchedulesLate
           \/ \E g \in 1..MaxHandlers : Dispose(g)
           \/ UNCHANGED vars
  BY <1>2 DEF FiresWithoutHandler, FiresWhileRunning, Install, SchedulesLate, Dispose,
              vars, wakeVars, batchVars, NoWakeLost
<1>3. CASE Starts
  BY <1>3, StartsKeepsWakes
<1>4. CASE HandlerReturns
  BY <1>4, HandlerKeepsWakes DEF HandlerReturns
<1> QED
  BY <1>1, <1>2, <1>3, <1>4 DEF Next, TimerFires

(* No wake is lost, for any number of requests, failures and replacements  *)
(* of the handler.                                                         *)
THEOREM NoWakeLostHolds == Spec => []NoWakeLost
<1>1. Init => NoWakeLost
  BY DEF Init, NoWakeLost
<1>2. IInv /\ NoWakeLost /\ [Next]_vars => NoWakeLost'
  BY WakesStep DEF IInv
<1> QED
  BY <1>1, <1>2, InvariantHolds, PTL DEF Spec

-----------------------------------------------------------------------------
(* No pending wake becomes less urgent, until a batch takes it.            *)
THEOREM UrgencyKeptHolds == Spec => UrgencyKept
<1> DEFINE Kept == \A k \in Target :
                     pending[k] # 0 /\ pending'[k] # 0 => pending'[k] >= pending[k]
<1>1. ASSUME TypeOK, [Next]_vars PROVE Kept
  <2>0. \A k \in Target : pending[k] \in 0..MaxPriority
    BY <1>1 DEF TypeOK
  <2>1. ASSUME pending' = pending PROVE Kept
    BY <2>0, <2>1, ConstantsAssumption
  <2>2. ASSUME NEW k \in Target, NEW p \in 1..MaxPriority, Request(k, p) PROVE Kept
    <3>1. pending' = [pending EXCEPT ![k] = Queued(@, p)]
      BY <2>2 DEF Request
    <3>2. Queued(pending[k], p) >= pending[k]
      BY <2>0, QueuedIsUrgent, ConstantsAssumption
    <3> QED
      BY <1>1, <2>0, <3>1, <3>2, ConstantsAssumption DEF TypeOK
  <2>3. CASE Starts
    <3>1. pending' = pending \/ \A k \in Target : pending'[k] = 0
      BY <2>3 DEF Starts
    <3> QED
      BY <2>1, <3>1
  <2>4. ASSUME NEW b \in Batch, NEW k \in Target, Skipped(b, k) PROVE Kept
    <3>1. /\ pending' = [pending EXCEPT ![k] = Queued(@, taken[b][k])]
          /\ taken[b][k] \in 0..MaxPriority /\ taken[b][k] # 0
      BY <1>1, <2>4 DEF Skipped, TypeOK
    <3>2. Queued(pending[k], taken[b][k]) >= pending[k]
      BY <2>0, <3>1, QueuedIsUrgent
    <3> QED
      BY <1>1, <2>0, <3>1, <3>2, ConstantsAssumption DEF TypeOK
  <2>5. ASSUME NEW b \in Batch, NEW k \in Target, Raised(b, k) PROVE Kept
    <3>1. pending' = [j \in Target |-> IF taken[b][j] = 0 THEN pending[j]
                                      ELSE Queued(pending[j], taken[b][j])]
      BY <2>5 DEF Raised
    <3>2. ASSUME NEW j \in Target, taken[b][j] # 0
          PROVE  Queued(pending[j], taken[b][j]) >= pending[j]
      <4>1. taken[b][j] \in 0..MaxPriority
        BY <1>1 DEF TypeOK
      <4> QED
        BY <2>0, <3>2, <4>1, QueuedIsUrgent
    <3> QED
      BY <2>0, <3>1, <3>2, ConstantsAssumption
  <2>6. CASE \/ FiresWithoutHandler \/ FiresWhileRunning \/ Install \/ SchedulesLate
             \/ \E g \in 1..MaxHandlers : Dispose(g)
             \/ UNCHANGED vars
    BY <2>1, <2>6 DEF FiresWithoutHandler, FiresWhileRunning, Install, SchedulesLate,
                      Dispose, vars, wakeVars
  <2>7. ASSUME NEW b \in Batch, NEW k \in Target, Ran(b, k) PROVE Kept
    BY <2>1, <2>7 DEF Ran
  <2> QED
    BY <1>1, <2>2, <2>3, <2>4, <2>5, <2>6, <2>7 DEF Next, TimerFires, HandlerReturns
<1> QED
  BY <1>1, InvariantHolds, PTL DEF Spec, UrgencyKept, IInv
=============================================================================
