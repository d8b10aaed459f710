--------------------------- MODULE SupervisorProofs ---------------------------
(***************************************************************************)
(* Proofs about Supervisor, for any number of spawns and any scopes: its   *)
(* invariant, that a resumed session is alone, what the end of a run       *)
(* tells, and that a record that says "exited" is final.                   *)
(***************************************************************************)
EXTENDS Supervisor, TLAPS

(* Spawns begin in their order, and a run that is still being created was  *)
(* so when any later one was spawned.                                      *)
Ordered ==
  \A q, r \in Run : q < r /\ call[r] # "none" =>
    call[q] # "none" /\ (call[q] = "creating" => q \in unseen[r])

Inv == IInv /\ Ordered /\ ResumedAlone /\ EndTold

USE DEF Run, Timeouts, Reasons

LEMMA InitHolds == Init => Inv
  BY DEF Init, Inv, IInv, TypeOK, ActiveAgrees, AlwaysWatched, RecordAgrees, Ordered,
         ResumedAlone, EndTold, GroupUp

-----------------------------------------------------------------------------
(* The spawn: what it replaces is registered, so each live process of the  *)
(* scope gets a kill task.                                                 *)
LEMMA SpawnKeeps ==
  ASSUME Inv, NEW r \in Run, NEW s \in Scope \union {NoScope}, Spawn(r, s)
  PROVE  Inv'
<1> USE DEF Inv, IInv
<1>1. TypeOK'
  BY DEF TypeOK, Spawn, Cancelled, Replaced, Creating, GroupUp, processVars, timerVars
<1>2. ActiveAgrees'
  BY DEF TypeOK, ActiveAgrees, Spawn, Cancelled, Replaced, Creating, GroupUp, processVars,
         timerVars
<1>3. AlwaysWatched'
  BY DEF TypeOK, AlwaysWatched, Spawn, Cancelled, Replaced, GroupUp, processVars, timerVars
<1>4. RecordAgrees'
  BY DEF TypeOK, ActiveAgrees, RecordAgrees, Spawn, Cancelled, Replaced
<1>5. Ordered'
  BY DEF TypeOK, Ordered, Spawn, Creating
<1>6. ResumedAlone'
  <2> SUFFICES ASSUME NEW q \in Run, NEW t \in Run, q < t, call'[t] # "none",
                      scope'[t] = scope'[q], scope'[t] # NoScope,
                      q \notin unseen'[t], leader'[q] = "up"
               PROVE  killing'[q]
    BY DEF ResumedAlone
  <2>1. leader[q] = "up"
    BY DEF Spawn, processVars
  <2>2. q \in active
    BY <2>1 DEF TypeOK, ActiveAgrees, GroupUp
  <2>3. q # r
    BY <2>2 DEF ActiveAgrees, Spawn
  <2>4. CASE t = r
    <3>1. q \in Replaced(s)
      BY <2>2, <2>3, <2>4 DEF TypeOK, Replaced, Spawn
    <3> QED BY <3>1, <2>1 DEF Spawn, Cancelled, GroupUp
  <2>5. CASE t # r
    BY <2>1, <2>3, <2>5 DEF TypeOK, ResumedAlone, Spawn, Cancelled
  <2> QED BY <2>4, <2>5
<1>7. EndTold'
  BY DEF TypeOK, ActiveAgrees, EndTold, Spawn, Replaced
<1> QED BY <1>1, <1>2, <1>3, <1>4, <1>5, <1>6, <1>7

(* The end of the creation. *)
LEMMA CreationKeeps ==
  ASSUME Inv, NEW r \in Run, Created(r) \/ CreationFails(r) \/ CreationCancelled(r)
  PROVE  Inv'
<1> USE DEF Inv, IInv
<1>1. CASE Created(r)
  <2>1. TypeOK'
    BY <1>1 DEF TypeOK, Created
  <2>2. ActiveAgrees'
    BY <1>1 DEF TypeOK, ActiveAgrees, Created, GroupUp
  <2>3. AlwaysWatched'
    BY <1>1 DEF TypeOK, AlwaysWatched, Created
  <2>4. RecordAgrees'
    BY <1>1 DEF TypeOK, ActiveAgrees, RecordAgrees, Created
  <2>5. Ordered'
    BY <1>1 DEF TypeOK, Ordered, Created
  <2>6. ResumedAlone'
    BY <1>1 DEF TypeOK, Ordered, ResumedAlone, Created
  <2>7. EndTold'
    BY <1>1 DEF TypeOK, EndTold, Created
  <2> QED BY <2>1, <2>2, <2>3, <2>4, <2>5, <2>6, <2>7
<1>2. CASE CreationFails(r)
  <2>1. TypeOK'
    BY <1>2 DEF TypeOK, CreationFails, processVars, timerVars
  <2>2. ActiveAgrees' /\ AlwaysWatched'
    BY <1>2 DEF TypeOK, ActiveAgrees, AlwaysWatched, CreationFails, GroupUp, processVars,
                timerVars
  <2>3. RecordAgrees'
    BY <1>2 DEF TypeOK, ActiveAgrees, RecordAgrees, CreationFails
  <2>4. Ordered' /\ ResumedAlone' /\ EndTold'
    BY <1>2 DEF TypeOK, Ordered, ResumedAlone, EndTold, CreationFails, processVars
  <2> QED BY <2>1, <2>2, <2>3, <2>4
<1>3. CASE CreationCancelled(r)
  <2>1. TypeOK'
    BY <1>3 DEF TypeOK, CreationCancelled, processVars, timerVars, recordVars
  <2>2. ActiveAgrees' /\ AlwaysWatched'
    BY <1>3 DEF TypeOK, ActiveAgrees, AlwaysWatched, CreationCancelled, GroupUp,
                processVars, timerVars
  <2>3. RecordAgrees'
    BY <1>3 DEF TypeOK, ActiveAgrees, RecordAgrees, CreationCancelled, recordVars
  <2>4. Ordered' /\ ResumedAlone' /\ EndTold'
    BY <1>3 DEF TypeOK, Ordered, ResumedAlone, EndTold, CreationCancelled, processVars,
                recordVars
  <2> QED BY <2>1, <2>2, <2>3, <2>4
<1> QED BY <1>1, <1>2, <1>3

(* The end of the wait, with the process or before it. *)
LEMMA WaitKeeps ==
  ASSUME Inv, NEW r \in Run, Settle(r) \/ Abandon(r)
  PROVE  Inv'
<1> USE DEF Inv, IInv
<1>1. CASE Settle(r)
  <2> USE <1>1 DEF Settle, TimersAfterSettling, Reported
  <2>1. TypeOK'
    BY DEF TypeOK, processVars
  <2>2. ActiveAgrees' /\ AlwaysWatched'
    BY DEF TypeOK, ActiveAgrees, AlwaysWatched, GroupUp, processVars
  <2>3. RecordAgrees'
    BY DEF TypeOK, ActiveAgrees, RecordAgrees
  <2>4. Ordered' /\ ResumedAlone'
    BY DEF TypeOK, Ordered, ResumedAlone, processVars
  <2>5. EndTold'
    BY DEF TypeOK, RecordAgrees, EndTold
  <2> QED BY <2>1, <2>2, <2>3, <2>4, <2>5
<1>2. CASE Abandon(r)
  <2> USE <1>2 DEF Abandon, AbandonedStays, processVars, timerVars, recordVars
  <2>1. TypeOK'
    BY DEF TypeOK
  <2>2. ActiveAgrees' /\ AlwaysWatched'
    BY DEF TypeOK, ActiveAgrees, AlwaysWatched, GroupUp
  <2>3. RecordAgrees'
    BY DEF TypeOK, ActiveAgrees, RecordAgrees
  <2>4. Ordered' /\ ResumedAlone' /\ EndTold'
    BY DEF TypeOK, Ordered, ResumedAlone, EndTold
  <2> QED BY <2>1, <2>2, <2>3, <2>4
<1> QED BY <1>1, <1>2

-----------------------------------------------------------------------------
(* Timers: they are armed for registered runs only. *)
LEMMA RequestCancelKeeps ==
  ASSUME Inv, NEW r \in Run, NEW why \in Timeouts, r \in active, RequestCancel(r, why),
         UNCHANGED <<call, scope, unseen, leader, heir, active, result>>
  PROVE  /\ RecordAgrees' /\ Ordered' /\ ResumedAlone' /\ EndTold'
         /\ forced' \in [Run -> Reasons \union {"none"}]
         /\ killing' \in [Run -> BOOLEAN]
         /\ state' \in [Run -> {"none", "starting", "running", "exiting", "exited"}]
         /\ reason' \in [Run -> Reasons \union {"none"}]
         /\ \A q \in Run : killing[q] => killing'[q]
         /\ leader[r] = "up" => killing'[r]
         /\ \A q \in Run : forced'[q] # "none" => q = r \/ forced[q] # "none"
<1> USE DEF Inv, IInv
<1>1. /\ call[r] \in {"running", "abandoned"} /\ state[r] \notin {"none", "starting", "exited"}
      /\ result[r] = "none"
  BY DEF TypeOK, ActiveAgrees, RecordAgrees
<1>2. /\ \A q \in Run : q # r => /\ forced'[q] = forced[q] /\ state'[q] = state[q]
                                 /\ reason'[q] = reason[q]
      /\ forced[r] = "none" =>
           forced'[r] = why /\ state'[r] = "exiting" /\ reason'[r] = why
      /\ forced[r] # "none" =>
           forced'[r] = forced[r] /\ state'[r] = state[r] /\ reason'[r] = reason[r]
  <2>1. /\ forced \in [Run -> Reasons \union {"none"}]
        /\ state \in [Run -> {"none", "starting", "running", "exiting", "exited"}]
        /\ reason \in [Run -> Reasons \union {"none"}]
    BY DEF TypeOK
  <2> HIDE DEF Inv, IInv
  <2>2. forced' = [forced EXCEPT ![r] = IF @ = "none" THEN why ELSE @]
    BY DEF RequestCancel
  <2>3. CASE forced[r] = "none"
    <3>1. state' = [state EXCEPT ![r] = "exiting"] /\ reason' = [reason EXCEPT ![r] = why]
      BY <2>3 DEF RequestCancel
    <3> QED
      BY <2>1, <2>2, <2>3, <3>1
  <2>4. CASE forced[r] # "none"
    <3>1. state' = state /\ reason' = reason
      BY <2>4 DEF RequestCancel, recordVars
    <3> QED
      BY <2>1, <2>2, <2>4, <3>1
  <2> QED
    BY <2>3, <2>4
<1>3. \A q \in Run : q # r => (killing'[q] <=> killing[q])
  BY DEF TypeOK, RequestCancel
<1>4. (killing[r] => killing'[r]) /\ (leader[r] = "up" => killing'[r])
  BY DEF TypeOK, RequestCancel, GroupUp
<1>5. RecordAgrees'
  BY <1>1, <1>2 DEF RecordAgrees
<1>6. Ordered'
  BY DEF Ordered
<1>7. ResumedAlone'
  BY <1>3, <1>4 DEF ResumedAlone
<1>8. EndTold'
  BY <1>1, <1>2 DEF EndTold
<1>9. /\ forced' \in [Run -> Reasons \union {"none"}]
      /\ killing' \in [Run -> BOOLEAN]
      /\ state' \in [Run -> {"none", "starting", "running", "exiting", "exited"}]
      /\ reason' \in [Run -> Reasons \union {"none"}]
  BY DEF TypeOK, GroupUp, RequestCancel, recordVars
<1> QED BY <1>2, <1>3, <1>4, <1>5, <1>6, <1>7, <1>8, <1>9

LEMMA TimersKeep ==
  ASSUME Inv, NEW r \in Run, OverallTimeout(r) \/ NoOutputTimeout(r)
  PROVE  Inv'
<1>1. r \in active /\ leader[r] # "none"
  BY DEF Inv, IInv, TypeOK, ActiveAgrees, OverallTimeout, NoOutputTimeout
<1>2. /\ UNCHANGED <<call, scope, unseen, leader, heir, active, result>>
      /\ \E why \in Timeouts : RequestCancel(r, why)
  BY DEF OverallTimeout, NoOutputTimeout, processVars
<1>3. PICK why \in Timeouts : RequestCancel(r, why)
  BY <1>2
<1>4. /\ RecordAgrees' /\ Ordered' /\ ResumedAlone' /\ EndTold'
      /\ forced' \in [Run -> Reasons \union {"none"}]
      /\ killing' \in [Run -> BOOLEAN]
      /\ state' \in [Run -> {"none", "starting", "running", "exiting", "exited"}]
      /\ reason' \in [Run -> Reasons \union {"none"}]
      /\ \A q \in Run : killing[q] => killing'[q]
      /\ leader[r] = "up" => killing'[r]
      /\ \A q \in Run : forced'[q] # "none" => q = r \/ forced[q] # "none"
  BY <1>1, <1>2, <1>3, RequestCancelKeeps
<1>5. /\ overall' \in [Run -> BOOLEAN] /\ quiet' \in [Run -> BOOLEAN]
      /\ \A q \in Run : /\ overall'[q] => overall[q]
                        /\ quiet'[q] => quiet[q]
                        /\ q # r => (overall'[q] <=> overall[q])
  <2>1. overall \in [Run -> BOOLEAN] /\ quiet \in [Run -> BOOLEAN]
    BY DEF Inv, IInv, TypeOK
  <2>2. CASE overall' = [overall EXCEPT ![r] = FALSE] /\ quiet' = quiet
    BY <2>1, <2>2
  <2>3. CASE quiet' = [quiet EXCEPT ![r] = FALSE] /\ overall' = overall
    BY <2>1, <2>3
  <2> QED BY <2>2, <2>3 DEF OverallTimeout, NoOutputTimeout
<1>6. TypeOK'
  BY <1>2, <1>4, <1>5 DEF Inv, IInv, TypeOK
<1>7. ActiveAgrees'
  BY <1>1, <1>2, <1>4, <1>5 DEF Inv, IInv, ActiveAgrees, GroupUp
<1>8. AlwaysWatched'
  BY <1>2, <1>4, <1>5 DEF Inv, IInv, AlwaysWatched
<1> QED BY <1>4, <1>6, <1>7, <1>8 DEF Inv, IInv

(* Processes: only the end of the grace period clears a kill, and it ends  *)
(* the leader.                                                             *)
LEMMA ProcessesKeep ==
  ASSUME Inv, NEW r \in Run, Fork(r) \/ Dies(r) \/ Output(r) \/ GraceOver(r)
  PROVE  Inv'
<1> USE DEF Inv, IInv, timerVars, recordVars
<1>1. CASE Fork(r)
  <2> USE <1>1 DEF Fork
  <2>1. TypeOK'
    BY DEF TypeOK
  <2>2. ActiveAgrees' /\ AlwaysWatched'
    BY DEF TypeOK, ActiveAgrees, AlwaysWatched, GroupUp
  <2>3. RecordAgrees' /\ Ordered' /\ ResumedAlone' /\ EndTold'
    BY DEF TypeOK, RecordAgrees, Ordered, ResumedAlone, EndTold
  <2> QED BY <2>1, <2>2, <2>3
<1>2. CASE Dies(r)
  <2>1. TypeOK'
    BY <1>2 DEF Dies, TypeOK
  <2>2. ActiveAgrees' /\ AlwaysWatched'
    <3>1. \A q \in Run : /\ leader'[q] = "none" <=> leader[q] = "none"
                         /\ leader'[q] = "up" => leader[q] = "up"
                         /\ heir'[q] = "up" => heir[q] = "up"
      <4>1. CASE leader[r] = "up" /\ leader' = [leader EXCEPT ![r] = "down"] /\ heir' = heir
        BY <4>1 DEF TypeOK
      <4>2. CASE heir' = [heir EXCEPT ![r] = "down"] /\ leader' = leader
        BY <4>2 DEF TypeOK
      <4> QED BY <1>2, <4>1, <4>2 DEF Dies
    <3>2. UNCHANGED <<call, active, forced, overall, quiet, killing>>
      BY <1>2 DEF Dies
    <3>3. ActiveAgrees'
      BY <3>1, <3>2 DEF ActiveAgrees, GroupUp
    <3>4. AlwaysWatched'
      BY <3>1, <3>2 DEF AlwaysWatched
    <3> QED BY <3>3, <3>4
  <2>3. RecordAgrees' /\ Ordered' /\ EndTold'
    BY <1>2 DEF Dies, TypeOK, RecordAgrees, Ordered, EndTold
  <2>4. ResumedAlone'
    BY <1>2 DEF Dies, TypeOK, ResumedAlone
  <2> QED BY <2>1, <2>2, <2>3, <2>4
<1>3. CASE Output(r)
  <2> USE <1>3 DEF Output, processVars
  <2>1. TypeOK'
    BY DEF TypeOK
  <2>2. ActiveAgrees' /\ AlwaysWatched'
    BY DEF TypeOK, ActiveAgrees, AlwaysWatched, GroupUp
  <2>3. RecordAgrees' /\ Ordered' /\ ResumedAlone' /\ EndTold'
    BY DEF TypeOK, RecordAgrees, Ordered, ResumedAlone, EndTold
  <2> QED BY <2>1, <2>2, <2>3
<1>4. CASE GraceOver(r)
  <2> USE <1>4 DEF GraceOver
  <2>1. TypeOK'
    BY DEF TypeOK, SigKill, processVars
  <2>2. /\ leader'[r] # "up" /\ (leader'[r] = "none" <=> leader[r] = "none")
        /\ heir'[r] = "up" => heir[r] = "up"
        /\ \A q \in Run : q # r => leader'[q] = leader[q] /\ heir'[q] = heir[q]
    <3>0. leader \in [Run -> {"none", "up", "down"}] /\ heir \in [Run -> {"none", "up", "down"}]
          /\ SigKill(r)
      BY DEF TypeOK
    <3> HIDE <1>4
    <3> HIDE DEF Inv, IInv, GraceOver
    <3>1. CASE leader[r] = "up"
      <4>1. /\ leader' = [leader EXCEPT ![r] = "down"]
            /\ heir' = [heir EXCEPT ![r] = IF heir[r] = "up" THEN "down" ELSE heir[r]]
        BY <3>0, <3>1 DEF SigKill
      <4> QED BY <3>0, <3>1, <4>1
    <3>2. CASE leader[r] # "up"
      BY <3>0, <3>2 DEF SigKill, processVars
    <3> QED BY <3>1, <3>2
  <2>3. \A q \in Run : q # r => (killing'[q] <=> killing[q])
    BY DEF TypeOK
  <2>4. ActiveAgrees'
    BY <2>2 DEF ActiveAgrees, GroupUp
  <2>5. AlwaysWatched'
    BY <2>2, <2>3 DEF AlwaysWatched
  <2>6. RecordAgrees' /\ Ordered' /\ EndTold'
    BY DEF TypeOK, RecordAgrees, Ordered, EndTold
  <2>7. ResumedAlone'
    BY <2>2, <2>3 DEF ResumedAlone
  <2> QED BY <2>1, <2>4, <2>5, <2>6, <2>7
<1> QED BY <1>1, <1>2, <1>3, <1>4

-----------------------------------------------------------------------------
LEMMA NextKeeps == Inv /\ [Next]_vars => Inv'
<1> SUFFICES ASSUME Inv, [Next]_vars PROVE Inv'
  OBVIOUS
<1>1. CASE Next
  <2>1. PICK r \in Run : Environment(r) \/ GoesOn(r) \/ NoOutputTimeout(r)
    BY <1>1 DEF Next
  <2>2. CASE \E s \in Scope \union {NoScope} : Spawn(r, s)
    BY <2>2, SpawnKeeps
  <2>3. CASE Created(r) \/ CreationFails(r) \/ CreationCancelled(r)
    BY <2>3, CreationKeeps
  <2>4. CASE Settle(r) \/ Abandon(r)
    BY <2>4, WaitKeeps
  <2>5. CASE OverallTimeout(r) \/ NoOutputTimeout(r)
    BY <2>5, TimersKeep
  <2>6. CASE Fork(r) \/ Dies(r) \/ Output(r) \/ GraceOver(r)
    BY <2>6, ProcessesKeep
  <2> QED BY <2>1, <2>2, <2>3, <2>4, <2>5, <2>6 DEF Environment, GoesOn
<1>2. CASE UNCHANGED vars
  BY <1>2 DEF vars, processVars, timerVars, recordVars, Inv, IInv, TypeOK, ActiveAgrees,
              AlwaysWatched, RecordAgrees, Ordered, ResumedAlone, EndTold, GroupUp
<1> QED BY <1>1, <1>2

LEMMA InvAlways == Spec => []Inv
<1> QED BY InitHolds, NextKeeps, PTL DEF Spec

(* The registry of active runs, the timers, the processes and the records  *)
(* agree, and every live process has a timer or a kill task to end it,     *)
(* whatever aborted turns leave behind.                                    *)
THEOREM InvariantHolds == Spec => []IInv
<1>1. Inv => IInv
  BY DEF Inv
<1> QED BY <1>1, InvAlways, PTL

(* A spawn that resumes a CLI session finds every earlier process of it    *)
(* down or being killed, but for those that were still being created when  *)
(* it was called.                                                          *)
THEOREM ResumedAloneHolds == Spec => []ResumedAlone
<1>1. Inv => ResumedAlone
  BY DEF Inv
<1> QED BY <1>1, InvAlways, PTL

(* Caller and record are told the same reason, but for a time-out that a   *)
(* replacement overtakes.                                                  *)
THEOREM EndToldHolds == Spec => []EndTold
<1>1. Inv => EndTold
  BY DEF Inv
<1> QED BY <1>1, InvAlways, PTL

(* No late timer, cancellation or second settling reopens a record that    *)
(* says "exited".                                                          *)
THEOREM ExitedIsFinalHolds == Spec => ExitedIsFinal
<1> DEFINE Final == \A r \in Run :
              state[r] = "exited" => state'[r] = "exited" /\ reason'[r] = reason[r]
<1>1. Inv /\ [Next]_vars => Final
  <2> SUFFICES ASSUME Inv, [Next]_vars PROVE Final
    OBVIOUS
  <2> USE DEF Inv, IInv
  <2>1. \A q \in Run : state[q] = "exited" => q \notin active /\ call[q] \in {"settled", "failed"}
    BY DEF ActiveAgrees, RecordAgrees
  <2>2. CASE Next
    <3>1. PICK r \in Run : Environment(r) \/ GoesOn(r) \/ NoOutputTimeout(r)
      BY <2>2 DEF Next
    <3>2. CASE \E s \in Scope \union {NoScope} : Spawn(r, s)
      BY <3>2, <2>1 DEF TypeOK, Spawn, Replaced
    <3>3. CASE Created(r) \/ CreationFails(r) \/ Settle(r)
      <4>1. call[r] \in {"creating", "running"}
        BY <3>3 DEF Created, CreationFails, Settle
      <4>2. /\ state[r] # "exited"
            /\ \A q \in Run : q # r => state'[q] = state[q] /\ reason'[q] = reason[q]
        <5>1. CASE Created(r)
          BY <5>1, <4>1, <2>1 DEF TypeOK, Created
        <5>2. CASE CreationFails(r)
          BY <5>2, <4>1, <2>1 DEF TypeOK, CreationFails
        <5>3. CASE Settle(r)
          BY <5>3, <4>1, <2>1 DEF TypeOK, Settle
        <5> QED BY <3>3, <5>1, <5>2, <5>3
      <4> QED BY <4>2
    <3>4. CASE CreationCancelled(r) \/ Abandon(r)
      BY <3>4 DEF CreationCancelled, Abandon, recordVars
    <3>5. CASE OverallTimeout(r) \/ NoOutputTimeout(r)
      <4>1. r \in active
        BY <3>5 DEF ActiveAgrees, OverallTimeout, NoOutputTimeout
      <4>2. PICK why \in Timeouts : RequestCancel(r, why)
        BY <3>5 DEF OverallTimeout, NoOutputTimeout
      <4>3. \A q \in Run : q # r => state'[q] = state[q] /\ reason'[q] = reason[q]
        BY <4>2 DEF TypeOK, RequestCancel, recordVars
      <4> QED BY <4>1, <4>3, <2>1
    <3>6. CASE Fork(r) \/ Dies(r) \/ Output(r) \/ GraceOver(r)
      BY <3>6 DEF Fork, Dies, Output, GraceOver, recordVars
    <3> QED BY <3>1, <3>2, <3>3, <3>4, <3>5, <3>6 DEF Environment, GoesOn
  <2>3. CASE UNCHANGED vars
    BY <2>3 DEF vars, recordVars
  <2> QED BY <2>2, <2>3
<1>2. Spec => [][Final]_vars
  BY <1>1, InvAlways, PTL DEF Spec
<1> QED BY <1>2 DEF ExitedIsFinal

-----------------------------------------------------------------------------
(* What one step does to a process and to the kill that is under way.      *)
Nearer(q) ==
  /\ leader[q] = "up" => leader'[q] \in {"up", "down"}
  /\ leader[q] = "down" => leader'[q] = "down"
  /\ leader[q] = "up" /\ killing[q] /\ leader'[q] = "up" => killing'[q]

LEMMA ProcessMoves == ASSUME Inv, [Next]_vars PROVE \A q \in Run : Nearer(q)
<1>0. /\ leader \in [Run -> {"none", "up", "down"}] /\ killing \in [Run -> BOOLEAN]
      /\ \A q \in Run : leader[q] = "none" <=>
                          call[q] \in {"none", "creating", "failed", "cancelled"}
  BY DEF Inv, IInv, TypeOK, ActiveAgrees
<1>1. ASSUME UNCHANGED <<leader, killing>> PROVE \A q \in Run : Nearer(q)
  BY <1>0, <1>1 DEF Nearer
<1>2. ASSUME NEW r \in Run, NEW s, Spawn(r, s) PROVE \A q \in Run : Nearer(q)
  BY <1>0, <1>2 DEF Spawn, Cancelled, processVars, Nearer
<1>3. ASSUME NEW r \in Run, Created(r) PROVE \A q \in Run : Nearer(q)
  <2>1. leader[r] = "none"
    BY <1>0, <1>3 DEF Created
  <2> QED
    BY <1>0, <1>3, <2>1 DEF Created, Nearer
<1>4. ASSUME NEW r \in Run, CreationFails(r) \/ CreationCancelled(r) \/ Settle(r) \/ Abandon(r)
                              \/ Fork(r) \/ Output(r)
      PROVE  \A q \in Run : Nearer(q)
  <2>1. UNCHANGED <<leader, killing>>
    BY <1>4 DEF CreationFails, CreationCancelled, Settle, Abandon, Fork, Output, processVars
  <2> QED
    BY <1>1, <2>1
<1>5. ASSUME NEW r \in Run, Dies(r) PROVE \A q \in Run : Nearer(q)
  BY <1>0, <1>5 DEF Dies, Nearer
<1>6. ASSUME NEW r \in Run, OverallTimeout(r) \/ NoOutputTimeout(r)
      PROVE  \A q \in Run : Nearer(q)
  <2>1. UNCHANGED leader /\ killing' = [killing EXCEPT ![r] = @ \/ GroupUp(r)]
    BY <1>6 DEF OverallTimeout, NoOutputTimeout, RequestCancel, processVars
  <2>2. \A q \in Run : killing[q] => killing'[q]
    BY <1>0, <2>1
  <2>3. leader' = leader
    BY <2>1
  <2> QED
    BY <1>0, <2>2, <2>3 DEF Nearer
<1>7. ASSUME NEW r \in Run, GraceOver(r) PROVE \A q \in Run : Nearer(q)
  BY <1>0, <1>7 DEF GraceOver, SigKill, processVars, Nearer
<1>8. ASSUME NEW r \in Run, Environment(r) \/ GoesOn(r) \/ NoOutputTimeout(r)
      PROVE  \A q \in Run : Nearer(q)
  BY <1>2, <1>3, <1>4, <1>5, <1>6, <1>7, <1>8, Zenon DEF Environment, GoesOn
<1>9. CASE UNCHANGED vars
  BY <1>1, <1>9 DEF vars, processVars
<1> QED
  BY <1>8, <1>9, Zenon DEF Next

LEMMA StageStep ==
  ASSUME Inv, [Next]_vars, NEW r \in Run
  PROVE  /\ Stage(r)' <= Stage(r)
         /\ Stage(r) = 2 => overall[r]
         /\ OverallTimeout(r) => Stage(r)' < 2
         /\ Stage(r) \in {1, 2} /\ GraceOver(r) => Stage(r)' = 0
<1>1. Inv'
  BY NextKeeps
<1>2. /\ leader[r] \in {"none", "up", "down"} /\ leader'[r] \in {"none", "up", "down"}
      /\ Nearer(r)
  BY <1>1, ProcessMoves DEF Inv, IInv, TypeOK
<1>3. /\ Stage(r) = IF leader[r] = "none" THEN 3
                    ELSE IF leader[r] = "down" THEN 0 ELSE IF killing[r] THEN 1 ELSE 2
      /\ Stage(r)' = IF leader'[r] = "none" THEN 3
                     ELSE IF leader'[r] = "down" THEN 0 ELSE IF killing'[r] THEN 1 ELSE 2
  BY <1>2 DEF Stage
<1>4. Stage(r)' <= Stage(r)
  BY <1>2, <1>3 DEF Nearer
<1>5. Stage(r) = 2 => overall[r]
  BY <1>2, <1>3 DEF Inv, IInv, AlwaysWatched
<1>6. ASSUME OverallTimeout(r) PROVE Stage(r)' < 2
  <2>1. leader[r] # "none" /\ leader' = leader
    BY <1>6 DEF Inv, IInv, ActiveAgrees, OverallTimeout, processVars
  <2>2. leader[r] = "up" => killing'[r]
    BY <1>6 DEF Inv, IInv, TypeOK, OverallTimeout, RequestCancel, GroupUp
  <2> QED
    BY <1>2, <1>3, <2>1, <2>2
<1>7. ASSUME Stage(r) \in {1, 2}, GraceOver(r) PROVE Stage(r)' = 0
  <2>1. leader[r] = "up"
    BY <1>2, <1>3, <1>7
  <2>2. leader'[r] = "down"
    BY <1>7, <2>1 DEF Inv, IInv, TypeOK, GraceOver, SigKill
  <2> QED
    BY <1>3, <2>2
<1> QED
  BY <1>4, <1>5, <1>6, <1>7

(* A live process comes nearer to its end with its timer and with its kill *)
(* and is never put back: what EveryProcessEnds rests on, for any number   *)
(* of spawns (supervisor.py:239, supervisor.py:673).                       *)
THEOREM NearerItsEndHolds == Spec => NearerItsEnd
<1>1. Inv /\ [Next]_vars =>
        [\A r \in Run :
           /\ Stage(r)' <= Stage(r)
           /\ Stage(r) = 2 => overall[r]
           /\ OverallTimeout(r) => Stage(r)' < 2
           /\ Stage(r) \in {1, 2} /\ GraceOver(r) => Stage(r)' = 0]_vars
  BY StageStep
<1> QED
  BY <1>1, InvAlways, PTL DEF Spec, NearerItsEnd

-----------------------------------------------------------------------------
(* What one step does to the reason a run is ended for and to its result.  *)
Kept(q) ==
  /\ forced[q] # "none" => forced'[q] = forced[q]
  /\ result[q] # "none" => result'[q] = result[q] /\ forced'[q] = forced[q]
  /\ result[q] = "none" /\ result'[q] # "none"
       => result'[q] = (IF forced[q] = "none" THEN "exit" ELSE forced[q])

LEMMA ReasonsStay == ASSUME Inv, [Next]_vars PROVE \A q \in Run : Kept(q)
<1> USE DEF Inv, IInv
<1>0. \A q \in Run : result[q] # "none" => q \notin active /\ call[q] = "settled"
  BY DEF ActiveAgrees, RecordAgrees
<1>1. ASSUME UNCHANGED <<forced, result>> PROVE \A q \in Run : Kept(q)
  BY <1>1 DEF Kept
<1>2. ASSUME NEW r \in Run, NEW s, Spawn(r, s) PROVE \A q \in Run : Kept(q)
  BY <1>0, <1>2 DEF TypeOK, Spawn, Cancelled, Replaced, Kept
<1>3. ASSUME NEW r \in Run, Created(r) \/ CreationFails(r) \/ CreationCancelled(r)
                              \/ Abandon(r) \/ Fork(r) \/ Dies(r) \/ Output(r) \/ GraceOver(r)
      PROVE  \A q \in Run : Kept(q)
  <2>1. UNCHANGED <<forced, result>>
    BY <1>3 DEF Created, CreationFails, CreationCancelled, Abandon, Fork, Dies, Output,
                GraceOver
  <2> QED
    BY <1>1, <2>1
<1>4. ASSUME NEW r \in Run, Settle(r) PROVE \A q \in Run : Kept(q)
  BY <1>0, <1>4 DEF TypeOK, Settle, Reported, Kept
<1>5. ASSUME NEW r \in Run, OverallTimeout(r) \/ NoOutputTimeout(r)
      PROVE  \A q \in Run : Kept(q)
  <2>1. /\ r \in active /\ UNCHANGED result
        /\ \E why : forced' = [forced EXCEPT ![r] = IF @ = "none" THEN why ELSE @]
    BY <1>5 DEF ActiveAgrees, OverallTimeout, NoOutputTimeout, RequestCancel
  <2> QED
    BY <1>0, <2>1 DEF TypeOK, Kept
<1>6. ASSUME NEW r \in Run, Environment(r) \/ GoesOn(r) \/ NoOutputTimeout(r)
      PROVE  \A q \in Run : Kept(q)
  BY <1>2, <1>3, <1>4, <1>5, <1>6, Zenon DEF Environment, GoesOn
<1> HIDE DEF Inv, IInv
<1>7. CASE UNCHANGED vars
  BY <1>1, <1>7 DEF vars
<1> QED
  BY <1>6, <1>7, Zenon DEF Next

(* The first of a cancellation and two time-outs stands, and the caller is *)
(* told it; later ones change neither (supervisor.py:620).                 *)
THEOREM FirstReasonStandsHolds == Spec => FirstReasonStands
<1>1. Inv /\ [Next]_vars =>
        [\A r \in Run :
           /\ forced[r] # "none" => forced'[r] = forced[r]
           /\ result[r] # "none" => result'[r] = result[r] /\ forced'[r] = forced[r]
           /\ result[r] = "none" /\ result'[r] # "none"
                => result'[r] = (IF forced[r] = "none" THEN "exit" ELSE forced[r])]_vars
  BY ReasonsStay DEF Kept
<1> QED
  BY <1>1, InvAlways, PTL DEF Spec, FirstReasonStands
=============================================================================
