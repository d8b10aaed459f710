----------------------------- MODULE CronProofs ------------------------------
(***************************************************************************)
(* Proofs about Cron, for any jobs, outcomes, retries, operations and      *)
(* crashes.  The invariant says what each phase of the service excludes,   *)
(* who may be executing then, and that a tick's snapshot is still right.   *)
(***************************************************************************)
EXTENDS Cron, TLAPS

Table == [Job -> Entry \cup {Gone}]

Phases ==
  /\ svc = "down" => /\ lock = "free" /\ tick = "none" /\ ~armed /\ ~orphan
                     /\ \A j \in Job : body[j] = {}
  /\ svc = "starting" <=> lock = "start"
  /\ svc = "starting" => tick = "none" /\ ~armed /\ ~orphan
  /\ svc = "stopped" /\ lock = "run" => tick \in {"none", "pick"}
  /\ todo # {} => tick = "exec"

Bodies ==
  /\ \A j \in Job :
       /\ "tick" \in body[j] => tick = "exec"
       /\ "run" \in body[j] => lock = "run" /\ mem[j] # Gone
       /\ "missed" \in body[j] => svc = "starting" /\ mem[j] # Gone
  /\ \A j, k \in Job : "tick" \in body[j] /\ "tick" \in body[k] => j = k
  /\ \A j, k \in Job : "run" \in body[j] /\ "run" \in body[k] => j = k

(* A one-shot job that ended well is not scheduled again. *)
Finished(m) ==
  \A j \in OneShot : m[j] # Gone /\ m[j].last = "ok" => m[j].next = "none"

(* What a tick still has to start is in the state it was picked in. *)
Snapshot ==
  \A j \in todo :
    /\ disk[j] # Gone /\ disk[j].marker # "no"
    /\ mem[j] # Gone /\ mem[j].enabled /\ mem[j].next = "due"
    /\ j \in OneShot => mem[j].last # "ok"

Inv ==
  /\ TypeOK /\ Phases /\ Bodies /\ Finished(mem) /\ Finished(disk)
  /\ Snapshot /\ SchedulerAwake /\ ExecutingIsMarked

-----------------------------------------------------------------------------
(* The pure functions keep entries in their ranges, and never schedule a   *)
(* one-shot job that ended well.                                           *)
LEMMA NewEntryFacts == NewEntry \in Entry /\ NewEntry.last = "none"
  BY ConstantsAssumption DEF NewEntry, Entry, ErrorCap

LEMMA ComputedFacts ==
  ASSUME NEW j \in Job, NEW e \in Entry, NEW passed
  PROVE  /\ Computed(j, e, passed) \in {"none", "later", "due"}
         /\ j \in OneShot /\ e.last = "ok" => Computed(j, e, passed) = "none"
<1>1. CASE ~e.enabled
  BY <1>1 DEF Computed, Entry
<1>2. CASE e.enabled /\ j \notin OneShot
  BY <1>2 DEF Computed, Entry
<1>3. CASE e.enabled /\ j \in OneShot /\ e.last = "ok"
  BY <1>3 DEF Computed, Entry
<1>4. CASE e.enabled /\ j \in OneShot /\ e.last # "ok"
  BY <1>4 DEF Computed, Entry
<1> QED
  BY <1>1, <1>2, <1>3, <1>4

LEMMA NormalizedFacts ==
  ASSUME NEW e \in Entry
  PROVE  /\ Normalized(e) \in Entry /\ Normalized(e).last = e.last
         /\ e.next = "none" => Normalized(e).next = "none"
<1>1. CASE ~e.enabled
  <2>1. Normalized(e) = [e EXCEPT !.next = "none", !.marker = "no"]
    BY <1>1 DEF Normalized
  <2> QED
    BY <2>1 DEF Entry
<1>2. CASE e.enabled /\ e.marker = "stuck"
  <2>1. Normalized(e) = [e EXCEPT !.marker = "no"]
    BY <1>2 DEF Normalized
  <2> QED
    BY <2>1 DEF Entry
<1>3. CASE e.enabled /\ e.marker # "stuck"
  <2>1. Normalized(e) = e
    BY <1>3 DEF Normalized
  <2> QED
    BY <2>1
<1> QED
  BY <1>1, <1>2, <1>3

LEMMA MaintainedFacts ==
  ASSUME NEW m \in Table, Finished(m)
  PROVE  Maintained(m) \in Table /\ Finished(Maintained(m))
<1>1. ASSUME NEW j \in Job, m[j] # Gone
      PROVE  /\ Maintained(m)[j] \in Entry
             /\ j \in OneShot /\ Maintained(m)[j].last = "ok" => Maintained(m)[j].next = "none"
  <2> DEFINE e == Normalized(m[j])
             c == Computed(j, e, atPassed)
  <2>1. m[j] \in Entry /\ (j \in OneShot /\ m[j].last = "ok" => m[j].next = "none")
    BY <1>1 DEF Table, Finished
  <2>2. e \in Entry /\ e.last = m[j].last /\ (m[j].next = "none" => e.next = "none")
    BY <2>1, NormalizedFacts
  <2>3. c \in {"none", "later", "due"} /\ (j \in OneShot /\ e.last = "ok" => c = "none")
    BY <2>2, ComputedFacts
  <2>4. Maintained(m)[j] = IF e.next = "none" THEN [e EXCEPT !.next = c] ELSE e
    BY <1>1 DEF Maintained
  <2> HIDE DEF e, c
  <2>5. CASE e.next = "none"
    <3>1. Maintained(m)[j] = [e EXCEPT !.next = c]
      BY <2>4, <2>5
    <3>2. [e EXCEPT !.next = c] \in Entry /\ [e EXCEPT !.next = c].last = e.last
          /\ [e EXCEPT !.next = c].next = c
      BY <2>2, <2>3 DEF Entry
    <3> QED
      BY <2>3, <3>1, <3>2
  <2>6. CASE e.next # "none"
    BY <2>1, <2>2, <2>4, <2>6
  <2> QED
    BY <2>5, <2>6
<1>2. ASSUME NEW j \in Job, m[j] = Gone PROVE Maintained(m)[j] = Gone
  BY <1>2 DEF Maintained
<1>3. Maintained(m) \in Table
  <2>1. Maintained(m) = [j \in Job |-> Maintained(m)[j]]
    BY DEF Maintained
  <2>2. \A j \in Job : Maintained(m)[j] \in Entry \cup {Gone}
    BY <1>1, <1>2
  <2> HIDE DEF Maintained
  <2> QED
    BY <2>1, <2>2 DEF Table
<1>4. Finished(Maintained(m))
  BY <1>1, <1>2, ConstantsAssumption DEF Finished
<1> QED
  BY <1>3, <1>4

LEMMA AppliedFacts ==
  ASSUME NEW j \in Job, NEW e \in Entry, NEW o \in Outcomes
  PROVE  /\ Applied(j, e, o) \in Entry \cup {Gone}
         /\ j \in OneShot /\ Applied(j, e, o) # Gone /\ Applied(j, e, o).last = "ok"
              => Applied(j, e, o).next = "none"
<1> DEFINE errs == IF ~Failed(o) THEN 0
                   ELSE IF e.errors < ErrorCap THEN e.errors + 1 ELSE ErrorCap
           r == [e EXCEPT !.marker = "no", !.errors = errs,
                          !.last = IF Failed(o) THEN "error" ELSE o]
           r1 == [r EXCEPT !.next = IF e.enabled THEN "later" ELSE "none"]
           r2 == [r EXCEPT !.next = "later"]
           r3 == [r EXCEPT !.enabled = FALSE, !.next = "none"]
<1>1. errs \in 0..ErrorCap
  <2>1. ErrorCap \in Nat /\ e.errors \in 0..ErrorCap
    BY ConstantsAssumption DEF Entry, ErrorCap
  <2> QED
    BY <2>1
<1>2. (IF Failed(o) THEN "error" ELSE o) \in {"ok", "skipped", "error"}
  BY ConstantsAssumption DEF Failed
<1>3. r \in Entry /\ (Failed(o) => r.last # "ok")
  <2> HIDE DEF errs
  <2> QED
    BY <1>1, <1>2 DEF Entry
<1> HIDE DEF errs, r
<1>4. r1 \in Entry /\ r2 \in Entry /\ r3 \in Entry /\ r2.last = r.last /\ r3.next = "none"
  BY <1>3 DEF Entry
<1>5. \/ Applied(j, e, o) = Gone
      \/ j \notin OneShot /\ Applied(j, e, o) = r1
      \/ o = "transient" /\ Applied(j, e, o) = r2
      \/ Applied(j, e, o) = r3
  BY DEF Applied, errs, r
<1> HIDE DEF r1, r2, r3
<1> QED
  BY <1>3, <1>4, <1>5 DEF Failed

(* One entry of a table replaced. *)
LEMMA ReplacedFacts ==
  ASSUME NEW m \in Table, NEW j \in Job, NEW e \in Entry \cup {Gone}, Finished(m),
         j \in OneShot /\ e # Gone /\ e.last = "ok" => e.next = "none",
         NEW n, n = [m EXCEPT ![j] = e]
  PROVE  /\ n \in Table /\ Finished(n) /\ n[j] = e
         /\ \A k \in Job : k # j => n[k] = m[k]
<1>1. n \in Table
  BY DEF Table
<1>2. n[j] = e /\ \A k \in Job : k # j => n[k] = m[k]
  BY DEF Table
<1> QED
  BY <1>1, <1>2, ConstantsAssumption DEF Finished

LEMMA Moved ==
  ASSUME NEW e \in Entry
  PROVE  /\ \A n \in {"none", "later", "due"} :
              /\ [e EXCEPT !.next = n] \in Entry /\ [e EXCEPT !.next = n].next = n
              /\ [e EXCEPT !.next = n].last = e.last
              /\ [e EXCEPT !.next = n].marker = e.marker
              /\ [e EXCEPT !.next = n].enabled = e.enabled
         /\ \A r \in {"no", "fresh", "stuck"} :
              /\ [e EXCEPT !.marker = r] \in Entry /\ [e EXCEPT !.marker = r].marker = r
              /\ [e EXCEPT !.marker = r].last = e.last
              /\ [e EXCEPT !.marker = r].next = e.next
              /\ [e EXCEPT !.marker = r].enabled = e.enabled
  BY DEF Entry
(* The marker of one entry set. *)
LEMMA MarkedFacts ==
  ASSUME NEW m \in Table, NEW j \in Job, m[j] # Gone, Finished(m),
         NEW r \in {"no", "fresh", "stuck"},
         NEW n, n = [m EXCEPT ![j].marker = r]
  PROVE  /\ n \in Table /\ Finished(n) /\ n[j].marker = r
         /\ \A k \in Job : k # j => n[k] = m[k]
         /\ \A k \in Job : /\ (n[k] = Gone) <=> (m[k] = Gone)
                           /\ m[k] # Gone => /\ n[k].enabled = m[k].enabled
                                             /\ n[k].next = m[k].next
                                             /\ n[k].last = m[k].last
<1> DEFINE e == [m[j] EXCEPT !.marker = r]
<1>1. m[j] \in Entry
  BY DEF Table
<1>2. /\ e \in Entry /\ e.marker = r /\ e.last = m[j].last
      /\ e.next = m[j].next /\ e.enabled = m[j].enabled
  BY <1>1, Moved
<1>3. n[j] = e /\ \A k \in Job : k # j => n[k] = m[k]
  BY DEF Table
<1>4. n \in Table
  BY <1>2 DEF Table
<1> HIDE DEF e
<1>5. ASSUME NEW k \in Job
      PROVE  /\ (n[k] = Gone) <=> (m[k] = Gone)
             /\ m[k] # Gone => /\ n[k].enabled = m[k].enabled
                               /\ n[k].next = m[k].next
                               /\ n[k].last = m[k].last
  BY <1>1, <1>2, <1>3, GoneAssumption
<1>6. Finished(n)
  BY <1>5, ConstantsAssumption DEF Finished
<1> QED
  BY <1>2, <1>3, <1>4, <1>5, <1>6

-----------------------------------------------------------------------------
(* Steps that end a tick, or find none, and leave the timer as            *)
(* _arm_timer() would.                                                     *)
LEMMA WithoutTickStep ==
  ASSUME TickGone, mem' \in Table, disk' \in Table, Finished(mem'), Finished(disk'),
         armed' \in BOOLEAN, orphan' \in BOOLEAN, atPassed' \subseteq OneShot,
         svc' \in {"up", "stopped"}, lock' \in {"free", "run"},
         ops' \in 0..MaxOps, crashes' \in 0..MaxCrashes,
         body' \in [Job -> SUBSET {"tick", "run", "missed"}],
         \A j \in Job : "tick" \notin body'[j] /\ "missed" \notin body'[j],
         \A j \in Job : "run" \in body'[j] => lock' = "run" /\ mem'[j] # Gone,
         \A j, k \in Job : "run" \in body'[j] /\ "run" \in body'[k] => j = k,
         svc' = "up" => armed' = HasWake(mem')
  PROVE  Inv'
<1>1. tick' = "none" /\ todo' = {} /\ results' = NoResult
  BY DEF TickGone
<1>2. TypeOK'
  <2>1. results' \in [Job -> Outcomes \cup {"none"}]
    BY <1>1 DEF NoResult
  <2> QED
    BY <1>1, <2>1 DEF TypeOK, Table, NoResult
<1>3. Phases'
  BY <1>1 DEF Phases
<1>4. Bodies'
  BY DEF Bodies
<1>5. Snapshot' /\ ExecutingIsMarked'
  BY <1>1 DEF Snapshot, ExecutingIsMarked
<1>6. SchedulerAwake'
  <2>1. HasWake(mem') <=> \E j \in Present(mem') : mem'[j].enabled /\ mem'[j].next # "none"
    BY DEF HasWake
  <2> QED
    BY <2>1 DEF SchedulerAwake
<1> QED
  BY <1>2, <1>3, <1>4, <1>5, <1>6 DEF Inv

(* What the invariant says of the store when the lock is free. *)
LEMMA LockFree ==
  ASSUME Inv, lock = "free"
  PROVE  /\ svc # "starting"
         /\ \A j \in Job : "run" \notin body[j] /\ "missed" \notin body[j]
         /\ mem \in Table /\ disk \in Table
         /\ body \in [Job -> SUBSET {"tick", "run", "missed"}]
  BY DEF Inv, Phases, Bodies, TypeOK, Table

LEMMA FireStep == ASSUME Inv, Fire PROVE Inv'
<1> USE DEF Fire
<1>1. TypeOK'
  BY DEF Inv, TypeOK
<1>2. Phases'
  BY DEF Inv, Phases
<1>3. Bodies'
  BY DEF Inv, Bodies
<1>4. Snapshot' /\ SchedulerAwake' /\ ExecutingIsMarked' /\ Finished(mem)' /\ Finished(disk)'
  BY DEF Inv, Snapshot, SchedulerAwake, ExecutingIsMarked, Finished
<1> QED
  BY <1>1, <1>2, <1>3, <1>4 DEF Inv

LEMMA TickPickStep == ASSUME Inv, TickPick PROVE Inv'
<1> DEFINE due == {j \in Job : Runnable(disk[j])}
           marked == [j \in Job |-> IF j \in due THEN [disk[j] EXCEPT !.marker = "fresh"]
                                    ELSE disk[j]]
<1>1. /\ tick = "pick" /\ lock = "free"
      /\ UNCHANGED <<atPassed, svc, lock, orphan, body, ops, crashes>>
      /\ \/ mem' = Maintained(disk) /\ disk' = mem' /\ EndTick(mem')
         \/ /\ mem' = marked /\ disk' = marked
            /\ tick' = "exec" /\ todo' = due /\ UNCHANGED <<results, armed>>
  BY DEF TickPick, PickSaved
<1> HIDE DEF due, marked
<1>2. /\ TypeOK /\ Phases /\ Bodies /\ Finished(disk) /\ mem \in Table /\ disk \in Table
      /\ svc \in {"up", "stopped"}
      /\ \A j \in Job : /\ "run" \notin body[j] /\ "missed" \notin body[j]
                        /\ "tick" \notin body[j]
  <2>1. Inv /\ svc # "starting" /\ svc # "down" /\ mem \in Table /\ disk \in Table
    BY <1>1, LockFree DEF Inv, Phases
  <2>2. \A j \in Job : "run" \notin body[j] /\ "missed" \notin body[j]
    BY <1>1, LockFree
  <2>3. \A j \in Job : "tick" \notin body[j]
    BY <1>1 DEF Inv, Bodies
  <2> QED
    BY <2>1, <2>2, <2>3 DEF Inv, TypeOK
<1>3. CASE mem' = Maintained(disk) /\ disk' = mem' /\ EndTick(mem')
  <2>1. mem' \in Table /\ Finished(mem')
    BY <1>2, <1>3, MaintainedFacts
  <2>2. TickGone /\ armed' = (svc = "up" /\ HasWake(mem'))
    BY <1>3 DEF EndTick
  <2>3. armed' \in BOOLEAN /\ (svc' = "up" => armed' = HasWake(mem'))
    BY <1>1, <2>2 DEF HasWake
  <2>4. /\ orphan' \in BOOLEAN /\ atPassed' \subseteq OneShot
        /\ svc' \in {"up", "stopped"} /\ lock' \in {"free", "run"}
        /\ ops' \in 0..MaxOps /\ crashes' \in 0..MaxCrashes
        /\ body' \in [Job -> SUBSET {"tick", "run", "missed"}]
    BY <1>1, <1>2 DEF TypeOK
  <2>5. \A j \in Job : /\ "run" \notin body'[j] /\ "missed" \notin body'[j]
                       /\ "tick" \notin body'[j]
    BY <1>1, <1>2
  <2>6. disk' \in Table /\ Finished(disk')
    BY <1>3, <2>1
  <2> QED
    BY <2>1, <2>2, <2>3, <2>4, <2>5, <2>6, WithoutTickStep
<1>4. CASE /\ mem' = marked /\ disk' = marked
           /\ tick' = "exec" /\ todo' = due /\ UNCHANGED <<results, armed>>
  <2>1. ASSUME NEW j \in Job
        PROVE  /\ marked[j] \in Entry \cup {Gone}
               /\ (marked[j] = Gone) <=> (disk[j] = Gone)
               /\ j \in due => /\ marked[j] # Gone /\ disk[j] # Gone
                               /\ marked[j].marker # "no" /\ marked[j].enabled
                               /\ marked[j].next = "due"
               /\ disk[j] # Gone => /\ marked[j].last = disk[j].last
                                    /\ marked[j].next = disk[j].next
    <3>1. disk[j] \in Entry \cup {Gone}
      BY <1>2 DEF Table
    <3>2. CASE j \in due
      <4>1. /\ marked[j] = [disk[j] EXCEPT !.marker = "fresh"] /\ disk[j] \in Entry
            /\ disk[j].enabled /\ disk[j].next = "due"
        BY <3>1, <3>2 DEF marked, due, Runnable
      <4> DEFINE e == [disk[j] EXCEPT !.marker = "fresh"]
      <4>2. /\ e \in Entry /\ e.marker = "fresh" /\ e.last = disk[j].last
            /\ e.next = disk[j].next /\ e.enabled = disk[j].enabled
        BY <4>1, Moved
      <4>3. marked[j] = e
        BY <4>1
      <4> HIDE DEF e
      <4>4. e # Gone /\ disk[j] # Gone
        BY <4>1, <4>2, GoneAssumption
      <4> QED
        BY <4>1, <4>2, <4>3, <4>4
    <3>3. CASE j \notin due
      <4>1. marked[j] = disk[j]
        BY <3>3 DEF marked
      <4> QED
        BY <3>1, <3>3, <4>1
    <3> QED
      BY <3>2, <3>3
  <2>2. marked \in Table
    <3>1. marked = [j \in Job |-> marked[j]]
      BY DEF marked
    <3> QED
      BY <2>1, <3>1 DEF Table
  <2>3. Finished(marked)
    BY <1>2, <2>1, ConstantsAssumption DEF Finished
  <2>4. due \subseteq Job
    BY DEF due
  <2>5. TypeOK'
    BY <1>1, <1>2, <1>4, <2>2, <2>4 DEF TypeOK, Table
  <2>6. Phases' /\ Bodies' /\ ExecutingIsMarked' /\ SchedulerAwake'
    BY <1>1, <1>2, <1>4 DEF Phases, Bodies, ExecutingIsMarked, SchedulerAwake
  <2>7. Snapshot'
    <3>1. ASSUME NEW j \in Job, j \in due, j \in OneShot PROVE marked[j].last # "ok"
      BY <1>2, <2>1, <3>1 DEF Finished
    <3> QED
      BY <1>4, <2>1, <2>4, <3>1 DEF Snapshot
  <2> QED
    BY <1>4, <2>3, <2>5, <2>6, <2>7 DEF Inv
<1> QED
  BY <1>1, <1>3, <1>4

LEMMA TickStartsStep == ASSUME Inv, NEW j \in Job, TickStarts(j) PROVE Inv'
<1>1. /\ tick = "exec" /\ j \in todo /\ \A k \in Job : "tick" \notin body[k]
      /\ todo' = todo \ {j}
      /\ body' = [body EXCEPT ![j] = @ \cup {"tick"}]
      /\ mem' = IF mem[j] = Gone THEN mem ELSE [mem EXCEPT ![j].marker = "fresh"]
      /\ UNCHANGED <<disk, atPassed, svc, lock, armed, orphan, tick, results, ops, crashes>>
  BY DEF TickStarts
<1>2. /\ TypeOK /\ Phases /\ Bodies /\ Finished(mem) /\ Finished(disk) /\ Snapshot
      /\ ExecutingIsMarked
  BY DEF Inv
<1>3. mem[j] \in Entry /\ mem[j] # Gone /\ disk[j] # Gone /\ disk[j].marker # "no"
  BY <1>1, <1>2 DEF Snapshot, TypeOK
<1>4. /\ mem' \in Table /\ Finished(mem')
      /\ \A k \in Job : /\ (mem'[k] = Gone) <=> (mem[k] = Gone)
                        /\ mem[k] # Gone => /\ mem'[k].enabled = mem[k].enabled
                                            /\ mem'[k].next = mem[k].next
                                            /\ mem'[k].last = mem[k].last
  <2>1. mem \in Table /\ mem' = [mem EXCEPT ![j].marker = "fresh"]
    BY <1>1, <1>2, <1>3 DEF TypeOK, Table
  <2>2. mem[j] # Gone /\ Finished(mem)
    BY <1>2, <1>3
  <2>3. mem' \in Table
    BY <2>1, <2>2, MarkedFacts
  <2>4. Finished(mem')
    BY <2>1, <2>2, MarkedFacts
  <2>5. \A k \in Job : /\ (mem'[k] = Gone) <=> (mem[k] = Gone)
                       /\ mem[k] # Gone => /\ mem'[k].enabled = mem[k].enabled
                                           /\ mem'[k].next = mem[k].next
                                           /\ mem'[k].last = mem[k].last
    BY <2>1, <2>2, MarkedFacts
  <2> QED
    BY <2>3, <2>4, <2>5
<1>5. /\ body' \in [Job -> SUBSET {"tick", "run", "missed"}]
      /\ \A k \in Job : body'[k] = IF k = j THEN body[j] \cup {"tick"} ELSE body[k]
  BY <1>1, <1>2 DEF TypeOK
<1>6. TypeOK'
  <2>1. todo' \subseteq Job /\ mem' \in [Job -> Entry \cup {Gone}]
    BY <1>1, <1>2, <1>4 DEF TypeOK, Table
  <2> QED
    BY <1>1, <1>2, <1>5, <2>1 DEF TypeOK
<1>7. Phases'
  <2>1. \/ svc # "down"
        \/ FALSE
    BY <1>1, <1>2 DEF Phases
  <2> QED
    BY <1>1, <1>2, <2>1 DEF Phases
<1>8. Bodies'
  <2>1. \A k \in Job : "tick" \in body'[k] => k = j
    BY <1>1, <1>5
  <2>2. \A k \in Job : ("run" \in body'[k] <=> "run" \in body[k])
                       /\ ("missed" \in body'[k] <=> "missed" \in body[k])
    BY <1>5
  <2> QED
    BY <1>1, <1>2, <1>4, <2>1, <2>2 DEF Bodies
<1>9. Snapshot' /\ SchedulerAwake' /\ ExecutingIsMarked'
  <2>1. Snapshot'
    <3>1. \A k \in todo' : k \in todo /\ k \in Job
      BY <1>1, <1>2 DEF TypeOK
    <3> QED
      BY <1>1, <1>2, <1>4, <3>1 DEF Snapshot
  <2>2. SchedulerAwake'
    BY <1>1 DEF SchedulerAwake
  <2>3. ExecutingIsMarked'
    BY <1>1, <1>3, <1>5 DEF ExecutingIsMarked
  <2> QED
    BY <2>1, <2>2, <2>3
<1>10. Finished(disk)'
  BY <1>1, <1>2 DEF Finished
<1> QED
  BY <1>4, <1>6, <1>7, <1>8, <1>9, <1>10 DEF Inv

LEMMA TickBodyEndsStep == ASSUME Inv, NEW j \in Job, TickBodyEnds(j) PROVE Inv'
<1>1. /\ "tick" \in body[j]
      /\ body' = [body EXCEPT ![j] = @ \ {"tick"}]
      /\ tick' = IF todo = {} THEN "apply" ELSE "exec"
      /\ UNCHANGED <<mem, disk, atPassed, svc, lock, armed, orphan, todo, ops, crashes>>
  BY DEF TickBodyEnds
<1>2. TypeOK /\ Phases /\ Bodies /\ Snapshot /\ ExecutingIsMarked /\ tick = "exec"
  BY <1>1 DEF Inv, Bodies
<1>3. /\ body' \in [Job -> SUBSET {"tick", "run", "missed"}]
      /\ \A k \in Job : body'[k] \subseteq body[k] /\ "tick" \notin body'[k]
  <2>1. \A k \in Job : body'[k] = IF k = j THEN body[j] \ {"tick"} ELSE body[k]
    BY <1>1, <1>2 DEF TypeOK
  <2>2. \A k \in Job : k # j => "tick" \notin body[k]
    BY <1>1, <1>2 DEF Bodies
  <2>3. body' \in [Job -> SUBSET {"tick", "run", "missed"}]
    BY <1>1, <1>2 DEF TypeOK
  <2> QED
    BY <2>1, <2>2, <2>3
<1>4. TypeOK'
  <2>1. results' \in [Job -> Outcomes \cup {"none"}]
    BY <1>2 DEF TickBodyEnds, TypeOK
  <2> QED
    BY <1>1, <1>2, <1>3, <2>1 DEF TypeOK
<1>5. Phases'
  BY <1>1, <1>2 DEF Phases
<1>6. Bodies'
  BY <1>1, <1>2, <1>3 DEF Bodies
<1>7. Snapshot' /\ SchedulerAwake' /\ ExecutingIsMarked'
  BY <1>1, <1>2, <1>3 DEF Snapshot, SchedulerAwake, ExecutingIsMarked
<1>8. Finished(mem)' /\ Finished(disk)'
  BY <1>1 DEF Inv, Finished
<1> QED
  BY <1>4, <1>5, <1>6, <1>7, <1>8 DEF Inv

LEMMA TickApplyStep == ASSUME Inv, TickApply PROVE Inv'
<1> DEFINE m == [j \in Job |-> IF results[j] # "none" /\ disk[j] # Gone
                               THEN Applied(j, disk[j], results[j]) ELSE disk[j]]
<1>1. /\ tick = "apply" /\ lock = "free"
      /\ mem' = Maintained(m) /\ disk' = mem' /\ EndTick(mem')
      /\ UNCHANGED <<atPassed, svc, lock, orphan, body, ops, crashes>>
  BY DEF TickApply
<1>2. /\ TypeOK /\ Finished(disk) /\ disk \in Table /\ svc \in {"up", "stopped"}
      /\ \A j \in Job : /\ "run" \notin body[j] /\ "missed" \notin body[j]
                        /\ "tick" \notin body[j]
  <2>1. TypeOK /\ svc # "starting" /\ svc # "down" /\ Finished(disk) /\ disk \in Table
    BY <1>1, LockFree DEF Inv, Phases
  <2>2. \A j \in Job : "run" \notin body[j] /\ "missed" \notin body[j]
    BY <1>1, LockFree
  <2>3. \A j \in Job : "tick" \notin body[j]
    BY <1>1 DEF Inv, Bodies
  <2> QED
    BY <2>1, <2>2, <2>3 DEF TypeOK
<1>3. m \in Table /\ Finished(m)
  <2>1. ASSUME NEW j \in Job
        PROVE  /\ m[j] \in Entry \cup {Gone}
               /\ j \in OneShot /\ m[j] # Gone /\ m[j].last = "ok" => m[j].next = "none"
    <3>1. CASE results[j] # "none" /\ disk[j] # Gone
      <4>1. m[j] = Applied(j, disk[j], results[j])
        BY <3>1
      <4>2. results[j] \in Outcomes /\ disk[j] \in Entry
        BY <1>2, <3>1 DEF TypeOK
      <4> HIDE DEF m
      <4> QED
        BY <4>1, <4>2, AppliedFacts
    <3>2. CASE ~(results[j] # "none" /\ disk[j] # Gone)
      <4>1. m[j] = disk[j]
        BY <3>2
      <4> HIDE DEF m
      <4> QED
        BY <1>2, <4>1 DEF Table, Finished
    <3> QED
      BY <3>1, <3>2
  <2>2. m \in Table
    BY <2>1 DEF Table
  <2> HIDE DEF m
  <2>3. Finished(m)
    BY <2>1, ConstantsAssumption DEF Finished
  <2> QED
    BY <2>2, <2>3
<1> HIDE DEF m
<1>4. mem' \in Table /\ Finished(mem')
  BY <1>1, <1>3, MaintainedFacts
<1>5. TickGone /\ armed' = (svc = "up" /\ HasWake(mem'))
  BY <1>1 DEF EndTick
<1>6. armed' \in BOOLEAN /\ (svc' = "up" => armed' = HasWake(mem'))
  BY <1>1, <1>5 DEF HasWake
<1>7. /\ orphan' \in BOOLEAN /\ atPassed' \subseteq OneShot
      /\ svc' \in {"up", "stopped"} /\ lock' \in {"free", "run"}
      /\ ops' \in 0..MaxOps /\ crashes' \in 0..MaxCrashes
      /\ body' \in [Job -> SUBSET {"tick", "run", "missed"}]
  BY <1>1, <1>2 DEF TypeOK
<1>8. \A j \in Job : /\ "run" \notin body'[j] /\ "missed" \notin body'[j]
                     /\ "tick" \notin body'[j]
  BY <1>1, <1>2
<1>9. disk' \in Table /\ Finished(disk')
  BY <1>1, <1>4
<1> QED
  BY <1>4, <1>5, <1>6, <1>7, <1>8, <1>9, WithoutTickStep

-----------------------------------------------------------------------------
(* start(), stop() and crashes. *)
LEMMA StartStep == ASSUME Inv, Start PROVE Inv'
<1>1. /\ svc = "down" /\ svc' = "starting" /\ lock' = "start"
      /\ mem' = [j \in Job |-> IF mem[j] = Gone THEN Gone
                               ELSE [mem[j] EXCEPT !.marker =
                                       IF Missed(j) THEN "fresh" ELSE "no"]]
      /\ body' = [j \in Job |-> IF mem[j] # Gone /\ Missed(j) THEN {"missed"} ELSE {}]
      /\ UNCHANGED <<disk, atPassed, armed, orphan, tick, todo, results, ops, crashes>>
  BY DEF Start, tickVars
<1>2. /\ TypeOK /\ Finished(mem) /\ Finished(disk) /\ mem \in Table
      /\ tick = "none" /\ todo = {} /\ ~armed /\ ~orphan
  BY <1>1 DEF Inv, Phases, TypeOK, Table
<1>3. ASSUME NEW j \in Job
      PROVE  /\ mem'[j] \in Entry \cup {Gone}
             /\ (mem'[j] = Gone) <=> (mem[j] = Gone)
             /\ mem[j] # Gone => mem'[j].last = mem[j].last /\ mem'[j].next = mem[j].next
  <2>1. CASE mem[j] = Gone
    BY <1>1, <2>1
  <2>2. CASE mem[j] # Gone
    <3> DEFINE r == IF Missed(j) THEN "fresh" ELSE "no"
    <3>1. mem'[j] = [mem[j] EXCEPT !.marker = r] /\ mem[j] \in Entry
      BY <1>1, <1>2, <2>2 DEF Table
    <3>2. r \in {"no", "fresh", "stuck"}
      OBVIOUS
    <3> HIDE DEF r
    <3>3. /\ mem'[j] \in Entry /\ mem'[j].last = mem[j].last
          /\ mem'[j].next = mem[j].next
      BY <3>1, <3>2 DEF Entry
    <3>4. mem'[j] # Gone
      BY <3>3, GoneAssumption
    <3> QED
      BY <2>2, <3>3, <3>4
  <2> QED
    BY <2>1, <2>2
<1>4. mem' \in Table
  <2>1. mem' = [j \in Job |-> mem'[j]]
    BY <1>1
  <2>2. \A j \in Job : mem'[j] \in Entry \cup {Gone}
    BY <1>3
  <2> QED
    BY <2>1, <2>2 DEF Table
<1>5. Finished(mem')
  BY <1>2, <1>3, ConstantsAssumption DEF Finished
<1>6. /\ body' \in [Job -> SUBSET {"tick", "run", "missed"}]
      /\ \A j \in Job : /\ "tick" \notin body'[j] /\ "run" \notin body'[j]
                        /\ "missed" \in body'[j] => mem[j] # Gone
  BY <1>1
<1>7. TypeOK'
  BY <1>1, <1>2, <1>4, <1>6 DEF TypeOK, Table
<1>8. Phases' /\ Snapshot' /\ SchedulerAwake' /\ ExecutingIsMarked'
  BY <1>1, <1>2, <1>6 DEF Phases, Snapshot, SchedulerAwake, ExecutingIsMarked
<1>9. Bodies'
  BY <1>1, <1>3, <1>6 DEF Bodies
<1>10. Finished(disk')
  BY <1>1, <1>2
<1> QED
  BY <1>5, <1>7, <1>8, <1>9, <1>10 DEF Inv

LEMMA MissedEndsStep == ASSUME Inv, NEW j \in Job, MissedEnds(j) PROVE Inv'
<1>1. PICK o \in Outcomes : mem' = [mem EXCEPT ![j] = Applied(j, mem[j], o)]
  BY DEF MissedEnds, HeldResults, CutOff
<1>2. /\ "missed" \in body[j] /\ body' = [body EXCEPT ![j] = {}]
      /\ UNCHANGED <<disk, atPassed, svc, lock, armed, orphan, tick, todo, results, ops, crashes>>
  BY DEF MissedEnds, tickVars
<1>3. /\ TypeOK /\ Phases /\ Bodies /\ Finished(mem) /\ Finished(disk) /\ mem \in Table
      /\ svc = "starting" /\ mem[j] \in Entry
  BY <1>2 DEF Inv, Bodies, TypeOK, Table
<1>4. /\ mem' \in Table /\ Finished(mem')
      /\ \A k \in Job : k # j => mem'[k] = mem[k]
  <2> DEFINE e == Applied(j, mem[j], o)
  <2>1. e \in Entry \cup {Gone} /\ (j \in OneShot /\ e # Gone /\ e.last = "ok" => e.next = "none")
    BY <1>3, AppliedFacts
  <2>2. mem' = [mem EXCEPT ![j] = e]
    BY <1>1
  <2> HIDE DEF e
  <2>3. mem' \in Table /\ Finished(mem')
    BY <1>3, <2>1, <2>2, ReplacedFacts
  <2>4. \A k \in Job : k # j => mem'[k] = mem[k]
    BY <1>3, <2>1, <2>2, ReplacedFacts
  <2> QED
    BY <2>3, <2>4
<1>5. /\ body' \in [Job -> SUBSET {"tick", "run", "missed"}]
      /\ \A k \in Job : body'[k] = IF k = j THEN {} ELSE body[k]
  BY <1>2, <1>3 DEF TypeOK
<1>6. TypeOK'
  BY <1>2, <1>3, <1>4, <1>5 DEF TypeOK, Table
<1>7. Phases'
  BY <1>2, <1>3, <1>5 DEF Phases
<1>8. Bodies'
  BY <1>2, <1>3, <1>4, <1>5 DEF Bodies
<1>9. Snapshot' /\ SchedulerAwake' /\ ExecutingIsMarked'
  <2>1. todo = {} /\ \A k \in Job : "tick" \notin body'[k]
    BY <1>2, <1>3, <1>5 DEF Phases, Bodies
  <2> QED
    BY <1>2, <1>3, <2>1 DEF Snapshot, SchedulerAwake, ExecutingIsMarked
<1>10. Finished(disk')
  BY <1>2, <1>3
<1> QED
  BY <1>4, <1>6, <1>7, <1>8, <1>9, <1>10 DEF Inv

LEMMA StartEndsStep == ASSUME Inv, StartEnds PROVE Inv'
<1>1. /\ svc = "starting" /\ (\A j \in Job : body[j] = {})
      /\ mem' = Maintained(mem) /\ disk' = mem'
      /\ armed' = HasWake(mem') /\ svc' = "up" /\ lock' = "free"
      /\ UNCHANGED <<atPassed, orphan, tick, todo, results, body, ops, crashes>>
  BY DEF StartEnds, tickVars, Idle
<1>2. /\ TypeOK /\ Finished(mem) /\ mem \in Table /\ tick = "none" /\ todo = {}
      /\ results = NoResult
  BY <1>1 DEF Inv, Phases, TypeOK, Table
<1>3. mem' \in Table /\ Finished(mem') /\ disk' \in Table /\ Finished(disk')
  BY <1>1, <1>2, MaintainedFacts
<1>4. TickGone
  BY <1>1, <1>2 DEF TickGone
<1>5. /\ armed' \in BOOLEAN /\ (svc' = "up" => armed' = HasWake(mem'))
  BY <1>1 DEF HasWake
<1>6. /\ orphan' \in BOOLEAN /\ atPassed' \subseteq OneShot
      /\ svc' \in {"up", "stopped"} /\ lock' \in {"free", "run"}
      /\ ops' \in 0..MaxOps /\ crashes' \in 0..MaxCrashes
      /\ body' \in [Job -> SUBSET {"tick", "run", "missed"}]
  BY <1>1, <1>2 DEF TypeOK
<1>7. \A j \in Job : /\ "run" \notin body'[j] /\ "missed" \notin body'[j]
                     /\ "tick" \notin body'[j]
  BY <1>1
<1> QED
  BY <1>3, <1>4, <1>5, <1>6, <1>7, WithoutTickStep

LEMMA StopStep == ASSUME Inv, Stop PROVE Inv'
<1>1. /\ svc = "up" /\ svc' = "stopped"
      /\ orphan' = (tick # "none" /\ HasWake(mem)) /\ armed' = FALSE /\ TickGone
      /\ body' = [j \in Job |-> body[j] \ {"tick"}]
      /\ UNCHANGED <<mem, disk, atPassed, lock, ops, crashes>>
  BY DEF Stop, WithoutTick
<1>2. /\ TypeOK /\ Phases /\ Bodies /\ Finished(mem) /\ Finished(disk)
      /\ mem \in Table /\ disk \in Table
  BY DEF Inv, TypeOK, Table
<1>3. mem' \in Table /\ Finished(mem') /\ disk' \in Table /\ Finished(disk')
  BY <1>1, <1>2
<1>4. /\ orphan' \in BOOLEAN /\ armed' \in BOOLEAN
  BY <1>1
<1>5. /\ atPassed' \subseteq OneShot
      /\ svc' \in {"up", "stopped"} /\ lock' \in {"free", "run"}
      /\ ops' \in 0..MaxOps /\ crashes' \in 0..MaxCrashes
      /\ body' \in [Job -> SUBSET {"tick", "run", "missed"}]
  <2>1. lock # "start"
    BY <1>1, <1>2 DEF Phases
  <2> QED
    BY <1>1, <1>2, <2>1 DEF TypeOK
<1>6. \A j \in Job : /\ "tick" \notin body'[j] /\ "missed" \notin body'[j]
                     /\ "run" \in body'[j] => "run" \in body[j]
  BY <1>1, <1>2 DEF Bodies
<1>7. /\ \A j \in Job : "run" \in body'[j] => lock' = "run" /\ mem'[j] # Gone
      /\ \A j, k \in Job : "run" \in body'[j] /\ "run" \in body'[k] => j = k
  BY <1>1, <1>2, <1>6 DEF Bodies
<1>8. svc' # "up"
  BY <1>1
<1> QED
  BY <1>1, <1>3, <1>4, <1>5, <1>6, <1>7, <1>8, WithoutTickStep

LEMMA CrashStep == ASSUME Inv, Crash PROVE Inv'
<1>1. /\ svc' = "down" /\ lock' = "free" /\ crashes < MaxCrashes /\ crashes' = crashes + 1
      /\ mem' = disk /\ body' = [j \in Job |-> {}]
      /\ armed' = FALSE /\ orphan' = FALSE
      /\ tick' = "none" /\ todo' = {} /\ results' = NoResult
      /\ UNCHANGED <<disk, atPassed, ops>>
  BY DEF Crash, TickGone
<1>2. TypeOK /\ Finished(disk)
  BY DEF Inv
<1>3. TypeOK'
  <2>1. results' \in [Job -> Outcomes \cup {"none"}] /\ crashes' \in 0..MaxCrashes
    BY <1>1, <1>2, ConstantsAssumption DEF NoResult, TypeOK
  <2> QED
    BY <1>1, <1>2, <2>1 DEF TypeOK, NoResult
<1>4. Phases' /\ Bodies' /\ Snapshot' /\ SchedulerAwake' /\ ExecutingIsMarked'
  BY <1>1 DEF Phases, Bodies, Snapshot, SchedulerAwake, ExecutingIsMarked
<1>5. Finished(mem') /\ Finished(disk')
  BY <1>1, <1>2
<1> QED
  BY <1>3, <1>4, <1>5 DEF Inv

-----------------------------------------------------------------------------
(* Operations. *)

(* Replace, with the lock free: the tick goes, the timer is armed. *)
LEMMA ReplaceStep ==
  ASSUME Inv, lock = "free", svc = "up", ops' \in 0..MaxOps, atPassed' \subseteq OneShot,
         NEW j \in Job, NEW e \in Entry \cup {Gone}, Replace(j, e),
         j \in OneShot /\ e # Gone /\ e.last = "ok" => e.next = "none"
  PROVE  Inv'
<1>1. /\ mem' = [mem EXCEPT ![j] = e] /\ disk' = mem'
      /\ armed' = HasWake(mem') /\ TickGone /\ body' = [k \in Job |-> body[k] \ {"tick"}]
      /\ UNCHANGED <<svc, lock, orphan, crashes>>
  BY DEF Replace, Arm, WithoutTick
<1>2. /\ TypeOK /\ Finished(mem) /\ mem \in Table
      /\ \A k \in Job : "run" \notin body[k] /\ "missed" \notin body[k]
  BY LockFree DEF Inv
<1>3. mem' \in Table /\ Finished(mem')
  BY <1>1, <1>2, ReplacedFacts
<1>4. disk' \in Table /\ Finished(disk')
  BY <1>1, <1>3
<1>5. armed' \in BOOLEAN /\ (svc' = "up" => armed' = HasWake(mem'))
  BY <1>1 DEF HasWake
<1>6. /\ orphan' \in BOOLEAN
      /\ svc' \in {"up", "stopped"} /\ lock' \in {"free", "run"}
      /\ crashes' \in 0..MaxCrashes
      /\ body' \in [Job -> SUBSET {"tick", "run", "missed"}]
  BY <1>1, <1>2 DEF TypeOK
<1>7. \A k \in Job : /\ "tick" \notin body'[k] /\ "missed" \notin body'[k]
                     /\ "run" \notin body'[k]
  BY <1>1, <1>2
<1> QED
  BY <1>1, <1>3, <1>4, <1>5, <1>6, <1>7, WithoutTickStep

LEMMA CallFacts ==
  ASSUME Inv, CallArrives
  PROVE  lock = "free" /\ svc = "up" /\ ops' \in 0..MaxOps
  BY ConstantsAssumption DEF CallArrives, Inv, TypeOK

LEMMA AddStep == ASSUME Inv, NEW j \in Job, Add(j) PROVE Inv'
<1>1. CallArrives /\ atPassed' = atPassed \ {j} /\ Replace(j, NewEntry)
  BY DEF Add
<1>2. atPassed' \subseteq OneShot
  BY <1>1 DEF Inv, TypeOK
<1> QED
  BY <1>1, <1>2, CallFacts, NewEntryFacts, ReplaceStep

LEMMA UpdateStep == ASSUME Inv, NEW j \in Job, Update(j) PROVE Inv'
<1>1. CallArrives /\ mem[j] # Gone
  BY DEF Update
<1>2. PICK enabled \in BOOLEAN, reschedule \in BOOLEAN :
        LET passed == IF reschedule THEN atPassed \ {j} ELSE atPassed
            e == [mem[j] EXCEPT !.enabled = enabled]
        IN /\ atPassed' = passed
           /\ Replace(j, [e EXCEPT !.next = Computed(j, e, passed),
                                   !.marker = IF enabled THEN @ ELSE "no"])
  BY DEF Update
<1> DEFINE passed == IF reschedule THEN atPassed \ {j} ELSE atPassed
           e == [mem[j] EXCEPT !.enabled = enabled]
           c == Computed(j, e, passed)
           r == IF enabled THEN e.marker ELSE "no"
           f == [e EXCEPT !.next = c, !.marker = r]
<1>3. atPassed' = passed /\ Replace(j, f)
  BY <1>2
<1>4. mem[j] \in Entry /\ atPassed \subseteq OneShot
  BY <1>1 DEF Inv, TypeOK
<1>5. atPassed' \subseteq OneShot
  BY <1>3, <1>4
<1>6. e \in Entry
  BY <1>4 DEF Entry
<1>7. r \in {"no", "fresh", "stuck"}
  BY <1>6 DEF Entry
<1> HIDE DEF e, passed
<1>8. c \in {"none", "later", "due"} /\ (j \in OneShot /\ e.last = "ok" => c = "none")
  BY <1>6, ComputedFacts
<1> HIDE DEF c, r
<1>9. f \in Entry /\ f.last = e.last /\ f.next = c
  BY <1>6, <1>7, <1>8 DEF Entry
<1> HIDE DEF f
<1>10. j \in OneShot /\ f # Gone /\ f.last = "ok" => f.next = "none"
  BY <1>8, <1>9
<1>11. f \in Entry \cup {Gone}
  BY <1>9
<1>12. lock = "free" /\ svc = "up" /\ ops' \in 0..MaxOps
  BY <1>1, CallFacts
<1> QED
  BY <1>3, <1>5, <1>10, <1>11, <1>12, ReplaceStep

LEMMA RemoveStep == ASSUME Inv, NEW j \in Job, Remove(j) PROVE Inv'
<1>1. CallArrives /\ atPassed' = atPassed /\ Replace(j, Gone)
  BY DEF Remove
<1>2. atPassed' \subseteq OneShot
  BY <1>1 DEF Inv, TypeOK
<1> QED
  BY <1>1, <1>2, CallFacts, ReplaceStep

LEMMA RunBeginsStep == ASSUME Inv, NEW j \in Job, RunBegins(j) PROVE Inv'
<1>1. /\ mem[j] # Gone /\ lock' = "run" /\ mem' = [mem EXCEPT ![j].marker = "fresh"]
      /\ body' = [body EXCEPT ![j] = @ \cup {"run"}]
      /\ UNCHANGED <<disk, atPassed, svc, armed, orphan, tick, todo, results, crashes>>
      /\ lock = "free" /\ svc = "up" /\ ops' \in 0..MaxOps
  BY CallFacts DEF RunBegins, tickVars
<1>2. /\ TypeOK /\ Phases /\ Bodies /\ Snapshot /\ ExecutingIsMarked /\ SchedulerAwake
      /\ Finished(mem) /\ Finished(disk) /\ mem \in Table
      /\ \A k \in Job : "run" \notin body[k] /\ "missed" \notin body[k]
  BY <1>1, LockFree DEF Inv
<1>a. mem[j] # Gone /\ mem' = [mem EXCEPT ![j].marker = "fresh"]
      /\ mem \in Table /\ Finished(mem)
  BY <1>1, <1>2
<1>3. mem' \in Table
  BY <1>a, MarkedFacts
<1>4. Finished(mem')
  BY <1>a, MarkedFacts
<1>5. ASSUME NEW k \in Job
      PROVE  /\ (mem'[k] = Gone) <=> (mem[k] = Gone)
             /\ mem[k] # Gone => /\ mem'[k].enabled = mem[k].enabled
                                 /\ mem'[k].next = mem[k].next
                                 /\ mem'[k].last = mem[k].last
  BY <1>a, MarkedFacts
<1>6. /\ body' \in [Job -> SUBSET {"tick", "run", "missed"}]
      /\ \A k \in Job : body'[k] = IF k = j THEN body[j] \cup {"run"} ELSE body[k]
  BY <1>1, <1>2 DEF TypeOK
<1>7. TypeOK'
  BY <1>1, <1>2, <1>3, <1>6 DEF TypeOK, Table
<1>8. Phases'
  BY <1>1, <1>2 DEF Phases
<1>9. Bodies'
  <2>1. \A k \in Job : /\ "run" \in body'[k] => k = j
                       /\ "missed" \notin body'[k]
                       /\ "tick" \in body'[k] => "tick" \in body[k]
    BY <1>2, <1>6
  <2> QED
    BY <1>1, <1>2, <1>5, <2>1 DEF Bodies
<1>10. Snapshot'
  <2>1. \A k \in todo : k \in Job
    BY <1>2 DEF TypeOK
  <2> QED
    BY <1>1, <1>2, <1>5, <2>1 DEF Snapshot
<1>11. SchedulerAwake'
  BY <1>1, <1>2, <1>5 DEF SchedulerAwake, Present
<1>12. ExecutingIsMarked'
  BY <1>1, <1>2, <1>6 DEF ExecutingIsMarked
<1>13. Finished(disk')
  BY <1>1, <1>2
<1> QED
  BY <1>4, <1>7, <1>8, <1>9, <1>10, <1>11, <1>12, <1>13 DEF Inv

LEMMA RunEndsStep == ASSUME Inv, NEW j \in Job, RunEnds(j) PROVE Inv'
<1>1. PICK o \in Outcomes : mem' = [mem EXCEPT ![j] = Applied(j, mem[j], o)]
  BY DEF RunEnds, HeldResults, CutOff
<1>2. /\ "run" \in body[j] /\ disk' = mem' /\ lock' = "free"
      /\ Arm(mem', [body EXCEPT ![j] = @ \ {"run"}])
      /\ UNCHANGED <<atPassed, svc, orphan, ops, crashes>>
  BY DEF RunEnds
<1>3. /\ TypeOK /\ Phases /\ Bodies /\ Finished(mem) /\ mem \in Table
      /\ lock = "run" /\ mem[j] \in Entry /\ svc \in {"up", "stopped"}
  <2>1. TypeOK /\ Phases /\ Bodies /\ Finished(mem) /\ mem \in Table
    BY DEF Inv, TypeOK, Table
  <2>2. lock = "run" /\ mem[j] # Gone
    BY <1>2, <2>1 DEF Bodies
  <2>3. svc \in {"up", "stopped"}
    BY <2>1, <2>2 DEF Phases, TypeOK
  <2> QED
    BY <2>1, <2>2, <2>3 DEF Table
<1>4. mem' \in Table /\ Finished(mem') /\ disk' \in Table /\ Finished(disk')
  <2> DEFINE e == Applied(j, mem[j], o)
  <2>1. e \in Entry \cup {Gone} /\ (j \in OneShot /\ e # Gone /\ e.last = "ok" => e.next = "none")
    BY <1>3, AppliedFacts
  <2>2. mem' = [mem EXCEPT ![j] = e]
    BY <1>1
  <2> HIDE DEF e
  <2>3. mem' \in Table /\ Finished(mem')
    BY <1>3, <2>1, <2>2, ReplacedFacts
  <2> QED
    BY <1>2, <2>3
<1> DEFINE b == [body EXCEPT ![j] = body[j] \ {"run"}]
<1>5. /\ b \in [Job -> SUBSET {"tick", "run", "missed"}]
      /\ \A k \in Job : "run" \notin b[k] /\ b[k] \subseteq body[k]
  <2>1. b \in [Job -> SUBSET {"tick", "run", "missed"}]
    BY <1>3 DEF TypeOK
  <2>2. \A k \in Job : b[k] = IF k = j THEN body[j] \ {"run"} ELSE body[k]
    BY <1>3 DEF TypeOK
  <2>3. \A k \in Job : k # j => "run" \notin body[k]
    BY <1>2, <1>3 DEF Bodies
  <2> QED
    BY <2>1, <2>2, <2>3
<1>6. Arm(mem', b)
  BY <1>2
<1> HIDE DEF b
<1>7. \A k \in Job : "missed" \notin body[k]
  BY <1>3 DEF Bodies
<1>8. CASE svc = "up"
  <2>1. armed' = HasWake(mem') /\ TickGone /\ body' = [k \in Job |-> b[k] \ {"tick"}]
    BY <1>6, <1>8 DEF Arm, WithoutTick
  <2>2. armed' \in BOOLEAN /\ (svc' = "up" => armed' = HasWake(mem'))
    BY <2>1 DEF HasWake
  <2>3. /\ orphan' \in BOOLEAN /\ atPassed' \subseteq OneShot
        /\ svc' \in {"up", "stopped"} /\ lock' \in {"free", "run"}
        /\ ops' \in 0..MaxOps /\ crashes' \in 0..MaxCrashes
    BY <1>2, <1>3 DEF TypeOK
  <2>4. body' \in [Job -> SUBSET {"tick", "run", "missed"}]
    BY <1>5, <2>1
  <2>5. \A k \in Job : /\ "tick" \notin body'[k] /\ "missed" \notin body'[k]
                       /\ "run" \notin body'[k]
    BY <1>5, <1>7, <2>1
  <2> QED
    BY <1>4, <2>1, <2>2, <2>3, <2>4, <2>5, WithoutTickStep
<1>9. CASE svc = "stopped"
  <2>1. UNCHANGED <<armed, tick, todo, results>> /\ body' = b
    BY <1>6, <1>9 DEF Arm, tickVars
  <2>2. \A k \in Job : body'[k] = {}
    <3>1. \A k \in Job : "tick" \notin body[k]
      BY <1>3, <1>9 DEF Phases, Bodies
    <3> QED
      BY <1>5, <1>7, <2>1, <3>1
  <2>3. TypeOK'
    BY <1>2, <1>3, <1>4, <1>5, <2>1 DEF TypeOK, Table
  <2>4. Phases' /\ Bodies'
    BY <1>2, <1>3, <1>9, <2>1, <2>2 DEF Phases, Bodies
  <2>5. Snapshot' /\ SchedulerAwake' /\ ExecutingIsMarked'
    <3>1. todo' = {}
      BY <1>3, <1>9, <2>1 DEF Phases
    <3> QED
      BY <1>2, <1>9, <2>2, <3>1 DEF Snapshot, SchedulerAwake, ExecutingIsMarked
  <2> QED
    BY <1>4, <2>3, <2>4, <2>5 DEF Inv
<1> QED
  BY <1>3, <1>8, <1>9

-----------------------------------------------------------------------------
(* Time only brings moments nearer and makes markers old. *)
Ages(m, n) ==
  /\ n \in Table
  /\ \A k \in Job :
       /\ (n[k] = Gone) <=> (m[k] = Gone)
       /\ m[k] # Gone => /\ n[k].enabled = m[k].enabled
                         /\ n[k].last = m[k].last
                         /\ (n[k].next = "none") <=> (m[k].next = "none")
                         /\ m[k].next = "due" => n[k].next = "due"
                         /\ (n[k].marker = "no") <=> (m[k].marker = "no")

LEMMA AgedAges == ASSUME NEW m \in Table, NEW j \in Job PROVE Ages(m, Aged(m, j))
<1>1. CASE m[j] = Gone
  BY <1>1 DEF Aged, Ages
<1>2. CASE m[j] # Gone
  <2> DEFINE x == IF m[j].next = "later" THEN "due" ELSE m[j].next
             e == [m[j] EXCEPT !.next = x]
             n == [m EXCEPT ![j] = e]
  <2>1. m[j] \in Entry
    BY <1>2 DEF Table
  <2>2. x \in {"none", "later", "due"}
    BY <2>1 DEF Entry
  <2>3. Aged(m, j) = n
    BY <1>2 DEF Aged
  <2>4. /\ (x = "none") <=> (m[j].next = "none")
        /\ m[j].next = "due" => x = "due"
    OBVIOUS
  <2> HIDE DEF x
  <2>5. /\ e \in Entry /\ e.next = x /\ e.last = m[j].last /\ e.marker = m[j].marker
        /\ e.enabled = m[j].enabled
    BY <2>1, <2>2 DEF Entry
  <2> HIDE DEF e
  <2>6. n \in Table /\ \A k \in Job : n[k] = IF k = j THEN e ELSE m[k]
    BY <2>5 DEF Table
  <2> HIDE DEF n
  <2>7. Ages(m, n)
    BY <1>2, <2>4, <2>5, <2>6, GoneAssumption DEF Ages
  <2> QED
    BY <2>3, <2>7
<1> QED
  BY <1>1, <1>2

LEMMA StaleAges == ASSUME NEW m \in Table, NEW j \in Job PROVE Ages(m, Stale(m, j))
<1>1. CASE m[j] = Gone
  BY <1>1 DEF Stale, Ages
<1>2. CASE m[j] # Gone
  <2> DEFINE x == IF m[j].marker = "fresh" THEN "stuck" ELSE m[j].marker
             e == [m[j] EXCEPT !.marker = x]
             n == [m EXCEPT ![j] = e]
  <2>1. m[j] \in Entry
    BY <1>2 DEF Table
  <2>2. x \in {"no", "fresh", "stuck"}
    BY <2>1 DEF Entry
  <2>3. Stale(m, j) = n
    BY <1>2 DEF Stale
  <2>4. (x = "no") <=> (m[j].marker = "no")
    OBVIOUS
  <2> HIDE DEF x
  <2>5. /\ e \in Entry /\ e.marker = x /\ e.last = m[j].last /\ e.next = m[j].next
        /\ e.enabled = m[j].enabled
    BY <2>1, <2>2 DEF Entry
  <2> HIDE DEF e
  <2>6. n \in Table /\ \A k \in Job : n[k] = IF k = j THEN e ELSE m[k]
    BY <2>5 DEF Table
  <2> HIDE DEF n
  <2>7. Ages(m, n)
    BY <1>2, <2>4, <2>5, <2>6, GoneAssumption DEF Ages
  <2> QED
    BY <2>3, <2>7
<1> QED
  BY <1>1, <1>2

LEMMA TimePassesStep == ASSUME Inv, NEW j \in Job, TimePasses(j) PROVE Inv'
<1>1. /\ UNCHANGED <<svc, lock, armed, orphan, tick, todo, results, body, ops, crashes>>
      /\ \/ mem' = Aged(mem, j) /\ disk' = Aged(disk, j)
         \/ mem' = Stale(mem, j) /\ disk' = Stale(disk, j)
      /\ atPassed' = atPassed \/ atPassed' = atPassed \cup ({j} \cap OneShot)
  BY DEF TimePasses, tickVars
<1>2. /\ TypeOK /\ Phases /\ Bodies /\ Snapshot /\ ExecutingIsMarked /\ SchedulerAwake
      /\ Finished(mem) /\ Finished(disk) /\ mem \in Table /\ disk \in Table
  BY DEF Inv, TypeOK, Table
<1>3. Ages(mem, mem') /\ Ages(disk, disk')
  BY <1>1, <1>2, AgedAges, StaleAges
<1>4. Finished(mem') /\ Finished(disk')
  BY <1>2, <1>3, ConstantsAssumption DEF Ages, Finished
<1>5. TypeOK'
  <2>1. mem' \in Table /\ disk' \in Table
    BY <1>3 DEF Ages
  <2>2. atPassed' \subseteq OneShot
    BY <1>1, <1>2 DEF TypeOK
  <2> QED
    BY <1>1, <1>2, <2>1, <2>2 DEF TypeOK, Table
<1>6. Phases'
  BY <1>1, <1>2 DEF Phases
<1>7. Bodies'
  BY <1>1, <1>2, <1>3 DEF Bodies, Ages
<1>8. Snapshot'
  <2>1. todo' = todo /\ \A k \in todo : k \in Job
    BY <1>1, <1>2 DEF TypeOK
  <2> QED
    BY <1>2, <1>3, <2>1 DEF Snapshot, Ages
<1>9. SchedulerAwake'
  BY <1>1, <1>2, <1>3 DEF SchedulerAwake, Ages, Present
<1>10. ExecutingIsMarked'
  BY <1>1, <1>2, <1>3 DEF ExecutingIsMarked, Ages
<1> QED
  BY <1>4, <1>5, <1>6, <1>7, <1>8, <1>9, <1>10 DEF Inv

-----------------------------------------------------------------------------
LEMMA InvInit == Init => Inv
<1> SUFFICES ASSUME Init PROVE Inv
  OBVIOUS
<1>1. disk \in [Job -> {NewEntry, Gone}] /\ mem = disk
  BY DEF Init
<1>2. /\ disk \in Table
      /\ \A j \in Job : disk[j] = Gone \/ disk[j].last = "none"
  BY <1>1, NewEntryFacts DEF Table
<1>3. Finished(mem) /\ Finished(disk)
  BY <1>1, <1>2, ConstantsAssumption DEF Finished
<1>4. /\ atPassed = {} /\ svc = "down" /\ lock = "free" /\ armed = FALSE /\ orphan = FALSE
      /\ tick = "none" /\ todo = {} /\ results = NoResult
      /\ body = [j \in Job |-> {}] /\ ops = 0 /\ crashes = 0
  BY DEF Init
<1>5. TypeOK
  <2>1. results \in [Job -> Outcomes \cup {"none"}]
    BY <1>4 DEF NoResult
  <2>2. body \in [Job -> SUBSET {"tick", "run", "missed"}]
    BY <1>4
  <2>3. ops \in 0..MaxOps /\ crashes \in 0..MaxCrashes
    BY <1>4, ConstantsAssumption
  <2> QED
    BY <1>1, <1>2, <1>4, <2>1, <2>2, <2>3 DEF TypeOK, Table
<1>6. Phases /\ Bodies /\ Snapshot /\ SchedulerAwake /\ ExecutingIsMarked
  BY <1>4 DEF Phases, Bodies, Snapshot, SchedulerAwake, ExecutingIsMarked
<1> QED
  BY <1>3, <1>5, <1>6 DEF Inv

LEMMA InvStep == Inv /\ [Next]_vars => Inv'
<1> SUFFICES ASSUME Inv, [Next]_vars PROVE Inv'
  OBVIOUS
<1>1. CASE UNCHANGED vars
  <2>1. /\ TypeOK' /\ Phases' /\ Bodies' /\ SchedulerAwake' /\ ExecutingIsMarked'
    BY <1>1 DEF vars, Inv, TypeOK, Phases, Bodies, SchedulerAwake, Present, ExecutingIsMarked
  <2>2. Finished(mem)' /\ Finished(disk)' /\ Snapshot'
    BY <1>1 DEF vars, Inv, Finished, Snapshot
  <2> QED
    BY <2>1, <2>2 DEF Inv
<1>2. CASE Scheduler \/ Stop \/ Crash
  BY <1>2, StartStep, StartEndsStep, FireStep, TickPickStep, TickApplyStep,
     TickStartsStep, StopStep, CrashStep DEF Scheduler
<1>3. ASSUME NEW j \in Job, BodyEnds(j) \/ TimePasses(j)
      PROVE  Inv'
  BY <1>3, TickBodyEndsStep, MissedEndsStep, RunEndsStep, TimePassesStep DEF BodyEnds
<1>4. ASSUME NEW j \in Job, Add(j) \/ Update(j) \/ Remove(j) \/ RunBegins(j)
      PROVE  Inv'
  BY <1>4, AddStep, UpdateStep, RemoveStep, RunBeginsStep
<1> QED
  BY <1>1, <1>2, <1>3, <1>4 DEF Next

LEMMA Invariant == Spec => []Inv
  BY InvInit, InvStep, PTL DEF Spec

(* Every step keeps the service in its states. *)
THEOREM TypeCorrect == Spec => []TypeOK
<1>1. Inv => TypeOK
  BY DEF Inv
<1> QED
  BY <1>1, Invariant, PTL

(* The timer never falls asleep while a job has a moment to run at         *)
(* (service.py:688).                                                       *)
THEOREM SchedulerAwakeHolds == Spec => []SchedulerAwake
<1>1. Inv => SchedulerAwake
  BY DEF Inv
<1> QED
  BY <1>1, Invariant, PTL

(* A job that a tick executes is marked in the file (service.py:1164).     *)
THEOREM ExecutingIsMarkedHolds == Spec => []ExecutingIsMarked
<1>1. Inv => ExecutingIsMarked
  BY DEF Inv
<1> QED
  BY <1>1, Invariant, PTL

(* What a tick starts is still due, whatever was done since it was picked  *)
(* (service.py:1128).                                                      *)
THEOREM SnapshotStillCurrentHolds == Spec => SnapshotStillCurrent
<1>1. Inv /\ [Next]_vars =>
        \A j \in Job : "tick" \in body'[j] /\ "tick" \notin body[j] =>
          /\ mem[j] # Gone /\ mem[j].enabled /\ mem[j].next = "due"
          /\ j \in OneShot => mem[j].last # "ok"
  <2> SUFFICES ASSUME Inv, [Next]_vars, NEW j \in Job,
                      "tick" \in body'[j], "tick" \notin body[j]
               PROVE  j \in todo
    BY DEF Inv, Snapshot
  <2>0. body \in [Job -> SUBSET {"tick", "run", "missed"}]
    BY DEF Inv, TypeOK
  <2>1. ASSUME NEW k \in Job, TickStarts(k) PROVE j \in todo
    BY <2>0, <2>1 DEF TickStarts
  <2>2. ASSUME NEW k \in Job, BodyEnds(k) \/ TimePasses(k) PROVE FALSE
    <3>1. CASE TickBodyEnds(k)
      BY <2>0, <3>1 DEF TickBodyEnds
    <3>2. CASE MissedEnds(k)
      BY <2>0, <3>2 DEF MissedEnds
    <3>3. CASE RunEnds(k)
      BY <2>0, <3>3 DEF RunEnds, Arm, WithoutTick
    <3>4. CASE TimePasses(k)
      BY <3>4 DEF TimePasses
    <3> QED
      BY <2>2, <3>1, <3>2, <3>3, <3>4 DEF BodyEnds
  <2>3. ASSUME NEW k \in Job, Add(k) \/ Update(k) \/ Remove(k) \/ RunBegins(k) PROVE FALSE
    <3>1. ASSUME NEW e, Replace(k, e) PROVE FALSE
      BY <2>0, <3>1 DEF Replace, Arm, WithoutTick
    <3>2. CASE RunBegins(k)
      BY <2>0, <3>2 DEF RunBegins
    <3> QED
      BY <2>3, <3>1, <3>2 DEF Add, Update, Remove
  <2>4. CASE Start \/ StartEnds \/ Fire \/ TickPick \/ TickApply
    BY <2>0, <2>4 DEF Start, StartEnds, Fire, TickPick, TickApply
  <2>5. CASE Stop \/ Crash \/ UNCHANGED vars
    BY <2>0, <2>5 DEF Stop, Crash, WithoutTick, vars
  <2> QED
    BY <2>1, <2>2, <2>3, <2>4, <2>5 DEF Next, Scheduler
<1>2. Inv /\ [Next]_vars =>
        [\A j \in Job : "tick" \in body'[j] /\ "tick" \notin body[j] =>
           /\ mem[j] # Gone /\ mem[j].enabled /\ mem[j].next = "due"
           /\ j \in OneShot => mem[j].last # "ok"]_vars
  BY <1>1
<1> QED
  BY <1>2, Invariant, PTL DEF Spec, SnapshotStillCurrent

-----------------------------------------------------------------------------
(* The store lock.  What a step does to the lock and to who executes the   *)
(* jobs outside the tick.                                                  *)

OnlyTheTick == \A j \in Job : body'[j] \ {"tick"} = body[j] \ {"tick"}

LEMMA LockMoves ==
  ASSUME Inv, [Next]_vars
  PROVE  \/ /\ OnlyTheTick /\ lock' = lock
            /\ svc' = svc \/ (svc = "up" /\ svc' = "stopped")
         \/ svc = "down" /\ lock' = "start"
         \/ \E j \in Job : /\ "missed" \in body[j]
                           /\ \A k \in Job : k # j => body'[k] = body[k]
                           /\ UNCHANGED <<lock, svc>>
         \/ svc = "starting" /\ lock' = "free" /\ (\A j \in Job : body[j] = {})
         \/ svc' = "down" /\ lock' = "free"
         \/ \E j \in Job : lock = "free" /\ lock' = "run" /\ "run" \in body'[j]
         \/ \E j \in Job : "run" \in body[j] /\ lock' = "free"
<1>0. body \in [Job -> SUBSET {"tick", "run", "missed"}]
  BY DEF Inv, TypeOK
<1>1. CASE UNCHANGED vars \/ Fire \/ TickPick \/ TickApply
  BY <1>1 DEF vars, Fire, TickPick, TickApply, OnlyTheTick
<1>2. ASSUME NEW j \in Job, TickStarts(j) \/ TickBodyEnds(j)
      PROVE  OnlyTheTick /\ UNCHANGED <<lock, svc>>
  <2>1. CASE TickStarts(j)
    BY <1>0, <2>1 DEF TickStarts, OnlyTheTick
  <2>2. CASE TickBodyEnds(j)
    BY <1>0, <2>2 DEF TickBodyEnds, OnlyTheTick
  <2> QED
    BY <1>2, <2>1, <2>2
<1>3. ASSUME NEW j \in Job, NEW e, Replace(j, e)
      PROVE  OnlyTheTick /\ UNCHANGED <<lock, svc>>
  <2>1. CASE svc # "up"
    BY <1>3, <2>1 DEF Replace, Arm, OnlyTheTick
  <2>2. CASE svc = "up"
    <3>1. body' = [k \in Job |-> body[k] \ {"tick"}] /\ UNCHANGED <<lock, svc>>
      BY <1>3, <2>2 DEF Replace, Arm, WithoutTick
    <3> QED
      BY <1>0, <3>1 DEF OnlyTheTick
  <2> QED
    BY <2>1, <2>2
<1>4. ASSUME NEW j \in Job, Add(j) \/ Update(j) \/ Remove(j)
      PROVE  OnlyTheTick /\ UNCHANGED <<lock, svc>>
  BY <1>3, <1>4, Zenon DEF Add, Update, Remove
<1>5. CASE Stop
  BY <1>0, <1>5 DEF Stop, WithoutTick, OnlyTheTick
<1>6. ASSUME NEW j \in Job, TimePasses(j) PROVE OnlyTheTick /\ UNCHANGED <<lock, svc>>
  BY <1>6 DEF TimePasses, OnlyTheTick
<1>7. CASE Start
  BY <1>7 DEF Start
<1>8. CASE StartEnds
  BY <1>8 DEF StartEnds, Idle
<1>9. CASE Crash
  BY <1>9 DEF Crash
<1>10. ASSUME NEW j \in Job, MissedEnds(j)
       PROVE  /\ "missed" \in body[j]
              /\ \A k \in Job : k # j => body'[k] = body[k]
              /\ UNCHANGED <<lock, svc>>
  BY <1>0, <1>10 DEF MissedEnds
<1>11. ASSUME NEW j \in Job, RunBegins(j)
       PROVE  lock = "free" /\ lock' = "run" /\ "run" \in body'[j]
  BY <1>0, <1>11 DEF RunBegins, CallArrives
<1>12. ASSUME NEW j \in Job, RunEnds(j)
       PROVE  "run" \in body[j] /\ lock' = "free"
  BY <1>12 DEF RunEnds
<1>13. CASE Scheduler \/ Stop \/ Crash
  BY <1>1, <1>2, <1>5, <1>7, <1>8, <1>9, <1>13 DEF Scheduler
<1>14. ASSUME NEW j \in Job,
              \/ BodyEnds(j) \/ TimePasses(j)
              \/ Add(j) \/ Update(j) \/ Remove(j) \/ RunBegins(j)
       PROVE  \/ OnlyTheTick /\ UNCHANGED <<lock, svc>>
              \/ MissedEnds(j) \/ RunBegins(j) \/ RunEnds(j)
  BY <1>2, <1>4, <1>6, <1>14 DEF BodyEnds
<1>15. ASSUME Next PROVE \/ Scheduler \/ Stop \/ Crash
                         \/ \E j \in Job : \/ OnlyTheTick /\ UNCHANGED <<lock, svc>>
                                           \/ MissedEnds(j) \/ RunBegins(j) \/ RunEnds(j)
  BY <1>14, <1>15 DEF Next
<1>16. CASE \E j \in Job : \/ OnlyTheTick /\ UNCHANGED <<lock, svc>>
                           \/ MissedEnds(j) \/ RunBegins(j) \/ RunEnds(j)
  BY <1>10, <1>11, <1>12, <1>16
<1> QED
  BY <1>1, <1>13, <1>15, <1>16

LEMMA HolderStep ==
  ASSUME Inv, [Next]_vars, lock = "run" => \E j \in Job : "run" \in body[j]
  PROVE  lock' = "run" => \E j \in Job : "run" \in body'[j]
<1> SUFFICES ASSUME lock' = "run" PROVE \E j \in Job : "run" \in body'[j]
  OBVIOUS
<1>1. Phases /\ Bodies
  BY DEF Inv
<1>2. CASE OnlyTheTick /\ lock' = lock
  BY <1>2 DEF OnlyTheTick
<1>3. ASSUME NEW j \in Job, "missed" \in body[j], lock' = lock PROVE FALSE
  BY <1>1, <1>3 DEF Phases, Bodies
<1> QED
  BY <1>2, <1>3, LockMoves

LEMMA HolderInv ==
  Inv /\ (lock = "run" => \E j \in Job : "run" \in body[j]) => LockHasHolder
<1> SUFFICES ASSUME Inv, lock = "run" => \E j \in Job : "run" \in body[j]
             PROVE  LockHasHolder
  OBVIOUS
<1>1. Phases /\ Bodies /\ body \in [Job -> SUBSET {"tick", "run", "missed"}]
  BY DEF Inv, TypeOK
<1>2. svc = "starting" => \A j \in Job : body[j] \subseteq {"missed"}
  BY <1>1 DEF Phases, Bodies
<1> QED
  BY <1>1, <1>2 DEF Phases, Bodies, LockHasHolder

(* Whatever the jobs do, and wherever run(), start(), stop() and a crash   *)
(* meet: a lock that is held has one holder, a run() or a start(), which   *)
(* releases it when its jobs end.                                          *)
THEOREM LockHasHolderHolds == Spec => []LockHasHolder
<1> DEFINE Held == lock = "run" => \E j \in Job : "run" \in body[j]
<1>1. Init => Held
  BY DEF Init
<1>2. Inv /\ Held /\ [Next]_vars => Held'
  BY HolderStep
<1>3. Inv /\ Held => LockHasHolder
  BY HolderInv
<1> QED
  BY <1>1, <1>2, <1>3, Invariant, PTL DEF Spec

-----------------------------------------------------------------------------
(* The stages of a tick.                                                   *)

(* Where a tick is not moved on, it is where it was, or gone.              *)
SameTick ==
  /\ UNCHANGED <<tick, todo, results>>
  /\ \A j \in Job : "tick" \in body'[j] <=> "tick" \in body[j]
NoTick == tick' \in {"none", "pick"} /\ todo' = {} /\ results' = NoResult
          /\ \A j \in Job : "tick" \notin body'[j]

LEMMA TickMoves ==
  ASSUME Inv, [Next]_vars
  PROVE  \/ SameTick \/ NoTick \/ TickPick
         \/ \E j \in Job : TickStarts(j) \/ TickBodyEnds(j)
<1>0. /\ body \in [Job -> SUBSET {"tick", "run", "missed"}]
      /\ tick \in {"none", "pick"} => todo = {} /\ results = NoResult
      /\ \A j \in Job : "tick" \in body[j] => tick = "exec"
  BY DEF Inv, TypeOK, Bodies
<1>1. ASSUME NEW m, NEW b, Arm(m, b), b \in [Job -> SUBSET {"tick", "run", "missed"}],
             \A j \in Job : "tick" \in b[j] <=> "tick" \in body[j]
      PROVE  SameTick \/ NoTick
  <2>1. CASE svc # "up"
    BY <1>1, <2>1 DEF Arm, SameTick, tickVars
  <2>2. CASE svc = "up"
    BY <1>1, <2>2 DEF Arm, NoTick, TickGone, WithoutTick
  <2> QED
    BY <2>1, <2>2
<1>2. CASE UNCHANGED vars \/ Fire
  BY <1>0, <1>2 DEF vars, Fire, SameTick, NoTick
<1>3. CASE TickApply \/ Crash
  BY <1>0, <1>3 DEF TickApply, Crash, EndTick, TickGone, NoTick
<1>4. CASE Start \/ StartEnds
  <2>1. tick = "none" /\ UNCHANGED <<tick, todo, results>>
    BY <1>4 DEF Start, StartEnds, tickVars, Inv, Phases
  <2>2. \A j \in Job : "tick" \notin body'[j]
    BY <1>0, <1>4, <2>1 DEF Start, StartEnds
  <2> QED
    BY <1>0, <2>1, <2>2 DEF NoTick
<1>5. CASE Stop
  BY <1>0, <1>5 DEF Stop, TickGone, WithoutTick, NoTick
<1>6. ASSUME NEW j \in Job, MissedEnds(j) PROVE SameTick
  <2>1. svc = "starting" /\ \A k \in Job : "tick" \notin body[k]
    BY <1>0, <1>6 DEF MissedEnds, Inv, Bodies, Phases
  <2> QED
    BY <1>0, <1>6, <2>1 DEF MissedEnds, SameTick, tickVars
<1>7. ASSUME NEW j \in Job, RunEnds(j) PROVE SameTick \/ NoTick
  <2> DEFINE b == [body EXCEPT ![j] = @ \ {"run"}]
  <2>1. b \in [Job -> SUBSET {"tick", "run", "missed"}]
    BY <1>0
  <2>2. \A k \in Job : "tick" \in b[k] <=> "tick" \in body[k]
    BY <1>0
  <2>3. Arm(mem', b)
    BY <1>7 DEF RunEnds
  <2> HIDE DEF b
  <2> QED
    BY <1>1, <2>1, <2>2, <2>3
<1>8. ASSUME NEW j \in Job, RunBegins(j) PROVE SameTick
  BY <1>0, <1>8 DEF RunBegins, SameTick, tickVars
<1>9. ASSUME NEW j \in Job, TimePasses(j) PROVE SameTick
  BY <1>9 DEF TimePasses, SameTick, tickVars
<1>10. ASSUME NEW j \in Job, NEW e, Replace(j, e) PROVE SameTick \/ NoTick
  BY <1>0, <1>1, <1>10 DEF Replace
<1>11. ASSUME NEW j \in Job, Add(j) \/ Update(j) \/ Remove(j) PROVE SameTick \/ NoTick
  BY <1>10, <1>11, Zenon DEF Add, Update, Remove
<1>12. CASE Scheduler \/ Stop \/ Crash
  BY <1>2, <1>3, <1>4, <1>5, <1>12, Zenon DEF Scheduler
<1>13. CASE \E j \in Job : BodyEnds(j) \/ TimePasses(j)
  BY <1>6, <1>7, <1>9, <1>13, Zenon DEF BodyEnds
<1>14. CASE \E j \in Job : Add(j) \/ Update(j) \/ Remove(j) \/ RunBegins(j)
  BY <1>8, <1>11, <1>14, Zenon
<1> QED
  BY <1>2, <1>12, <1>13, <1>14, Zenon DEF Next

LEMMA StagesStep ==
  ASSUME Inv, TickStages, [Next]_vars
  PROVE  TickStages'
<1>0. /\ body \in [Job -> SUBSET {"tick", "run", "missed"}]
      /\ results \in [Job -> Outcomes \cup {"none"}] /\ todo \subseteq Job
      /\ tick \in {"none", "pick"} => todo = {} /\ results = NoResult
      /\ \A j \in Job : "tick" \in body[j] => tick = "exec"
      /\ \A j, k \in Job : "tick" \in body[j] /\ "tick" \in body[k] => j = k
      /\ "none" \notin Outcomes
  BY ConstantsAssumption DEF Inv, TypeOK, Bodies
<1>1. CASE SameTick
  BY <1>1 DEF SameTick, TickStages
<1>2. CASE NoTick
  BY <1>2 DEF NoTick, NoResult, TickStages
<1>3. CASE TickPick
  <2> DEFINE due == {j \in Job : Runnable(disk[j])}
  <2>1. /\ tick = "pick" /\ body' = body
        /\ \/ EndTick(mem')
           \/ due # {} /\ tick' = "exec" /\ todo' = due /\ results' = results
    BY <1>3 DEF TickPick
  <2>2. todo = {} /\ results = NoResult /\ \A j \in Job : "tick" \notin body[j]
    BY <1>0, <2>1
  <2>3. CASE EndTick(mem')
    BY <2>1, <2>2, <2>3 DEF EndTick, TickGone, NoResult, TickStages
  <2>4. CASE due # {} /\ tick' = "exec" /\ todo' = due /\ results' = results
    <3> HIDE DEF due
    <3> QED
      BY <2>1, <2>2, <2>4 DEF NoResult, TickStages
  <2> QED
    BY <2>1, <2>3, <2>4
<1>4. ASSUME NEW j \in Job, TickStarts(j) PROVE TickStages'
  <2>1. /\ tick = "exec" /\ j \in todo /\ todo' = todo \ {j}
        /\ \A k \in Job : "tick" \notin body[k]
        /\ \A k \in Job : "tick" \in body'[k] <=> k = j
        /\ UNCHANGED <<tick, results>>
    BY <1>0, <1>4 DEF TickStarts
  <2> QED
    BY <2>1 DEF TickStages
<1>5. ASSUME NEW j \in Job, TickBodyEnds(j) PROVE TickStages'
  <2>1. /\ "tick" \in body[j] /\ todo' = todo
        /\ tick' = IF todo = {} THEN "apply" ELSE "exec"
        /\ \E o \in Outcomes : results' = [results EXCEPT ![j] = o]
        /\ \A k \in Job : "tick" \notin body'[k]
    BY <1>0, <1>5 DEF TickBodyEnds
  <2>2. results'[j] # "none" /\ \A k \in Job : k # j => results'[k] = results[k]
    BY <1>0, <2>1
  <2>3. j \notin todo
    BY <2>1 DEF TickStages
  <2> QED
    BY <1>0, <2>1, <2>2, <2>3 DEF TickStages
<1> QED
  BY <1>1, <1>2, <1>3, <1>4, <1>5, TickMoves

(* However calls, run()s and stops cancel ticks: a tick executes each job  *)
(* that it picked once, one at a time, and in each phase something takes   *)
(* it to the next (service.py:1106).                                       *)
THEOREM TickStagesHolds == Spec => []TickStages
<1>1. Init => TickStages
  BY DEF Init, TickStages
<1> QED
  BY <1>1, StagesStep, Invariant, PTL DEF Spec

-----------------------------------------------------------------------------
(* Memory and file.                                                        *)

LEMMA SameFields ==
  ASSUME NEW d \in Entry, NEW e \in Entry
  PROVE  SameButMarker(d, e) <=> /\ d.enabled = e.enabled /\ d.next = e.next
                                 /\ d.last = e.last /\ d.errors = e.errors
<1>1. d # Gone /\ e # Gone
  BY GoneAssumption
<1>2. [d EXCEPT !.marker = "no"] = [e EXCEPT !.marker = "no"]
        <=> /\ d.enabled = e.enabled /\ d.next = e.next
            /\ d.last = e.last /\ d.errors = e.errors
  BY DEF Entry
<1> QED
  BY <1>1, <1>2 DEF SameButMarker

LEMMA SameAsItself == \A d : SameButMarker(d, d)
  BY DEF SameButMarker

(* A marker that is set, in memory, in both or in neither, is not told.    *)
LEMMA MarkerIsNotTold ==
  ASSUME NEW d \in Entry, NEW e \in Entry \cup {Gone}, SameButMarker(d, e),
         NEW r \in {"no", "fresh", "stuck"}
  PROVE  SameButMarker([d EXCEPT !.marker = r], e)
<1>1. e \in Entry
  BY GoneAssumption DEF SameButMarker
<1> DEFINE c == [d EXCEPT !.marker = r]
<1>2. /\ c \in Entry /\ c.enabled = d.enabled /\ c.next = d.next
      /\ c.last = d.last /\ c.errors = d.errors
  BY DEF Entry
<1> HIDE DEF c
<1>3. SameButMarker(c, e)
  BY <1>1, <1>2, SameFields
<1> QED
  BY <1>3 DEF c

LEMMA SymmetricMarker ==
  ASSUME NEW d, NEW e, SameButMarker(d, e) PROVE SameButMarker(e, d)
  BY DEF SameButMarker

(* A moment that comes, comes in memory and in the file.                   *)
LEMMA BothMove ==
  ASSUME NEW d \in Entry, NEW e \in Entry, SameButMarker(d, e)
  PROVE  SameButMarker([d EXCEPT !.next = IF d.next = "later" THEN "due" ELSE d.next],
                       [e EXCEPT !.next = IF e.next = "later" THEN "due" ELSE e.next])
<1> DEFINE x == IF d.next = "later" THEN "due" ELSE d.next
           y == IF e.next = "later" THEN "due" ELSE e.next
           c == [d EXCEPT !.next = x]
           f == [e EXCEPT !.next = y]
<1>1. /\ d.enabled = e.enabled /\ d.next = e.next /\ d.last = e.last
      /\ d.errors = e.errors
  BY SameFields
<1>2. x = y /\ x \in {"none", "later", "due"}
  BY <1>1 DEF Entry
<1> HIDE DEF x, y
<1>3. /\ c \in Entry /\ c.enabled = d.enabled /\ c.next = x
      /\ c.last = d.last /\ c.errors = d.errors
  BY <1>2 DEF Entry
<1>4. /\ f \in Entry /\ f.enabled = e.enabled /\ f.next = y
      /\ f.last = e.last /\ f.errors = e.errors
  BY <1>2 DEF Entry
<1> HIDE DEF c, f
<1>5. SameButMarker(c, f)
  BY <1>1, <1>2, <1>3, <1>4, SameFields
<1> QED
  BY <1>5 DEF c, f, x, y

LEMMA FileTime ==
  ASSUME mem \in Table, disk \in Table, NEW j \in Job, TimePasses(j),
         \A k \in Job : SameButMarker(mem[k], disk[k])
  PROVE  \A k \in Job : SameButMarker(mem'[k], disk'[k])
<1>1. SameButMarker(mem[j], disk[j])
  OBVIOUS
<1>2. CASE mem[j] = Gone
  <2>1. disk[j] = Gone
    BY <1>1, <1>2 DEF SameButMarker
  <2>2. mem' = mem /\ disk' = disk
    BY <1>2, <2>1 DEF TimePasses, Aged, Stale
  <2> QED
    BY <2>2
<1>3. CASE mem[j] # Gone
  <2>1. disk[j] # Gone
    BY <1>1, <1>3 DEF SameButMarker
  <2>2. mem[j] \in Entry /\ disk[j] \in Entry
    BY <1>3, <2>1 DEF Table
  <2>3. CASE mem' = Aged(mem, j) /\ disk' = Aged(disk, j)
    <3> DEFINE c == [mem[j] EXCEPT !.next = IF mem[j].next = "later" THEN "due" ELSE mem[j].next]
               f == [disk[j] EXCEPT !.next = IF disk[j].next = "later" THEN "due" ELSE disk[j].next]
    <3>1. mem' = [mem EXCEPT ![j] = c] /\ disk' = [disk EXCEPT ![j] = f]
      BY <1>3, <2>1, <2>3 DEF Aged
    <3>2. SameButMarker(c, f)
      BY <1>1, <2>2, BothMove
    <3> HIDE DEF c, f
    <3> QED
      BY <3>1, <3>2 DEF Table
  <2>4. CASE mem' = Stale(mem, j) /\ disk' = Stale(disk, j)
    <3> DEFINE x == IF mem[j].marker = "fresh" THEN "stuck" ELSE mem[j].marker
               y == IF disk[j].marker = "fresh" THEN "stuck" ELSE disk[j].marker
               c == [mem[j] EXCEPT !.marker = x]
               f == [disk[j] EXCEPT !.marker = y]
    <3>1. mem' = [mem EXCEPT ![j] = c] /\ disk' = [disk EXCEPT ![j] = f]
      BY <1>3, <2>1, <2>4 DEF Stale
    <3>2. x \in {"no", "fresh", "stuck"} /\ y \in {"no", "fresh", "stuck"}
      BY <2>2 DEF Entry
    <3> HIDE DEF x, y
    <3>3. c \in Entry /\ SameButMarker(c, disk[j])
      BY <1>1, <2>2, <3>2, MarkerIsNotTold, Moved
    <3> HIDE DEF c
    <3>4. SameButMarker(f, c)
      BY <2>2, <3>2, <3>3, MarkerIsNotTold, SymmetricMarker
    <3> HIDE DEF f
    <3>5. SameButMarker(c, f)
      BY <3>4, SymmetricMarker
    <3> QED
      BY <3>1, <3>5 DEF Table
  <2> QED
    BY <2>3, <2>4 DEF TimePasses
<1> QED
  BY <1>2, <1>3

LEMMA FileStep ==
  ASSUME Inv, FileKeepsUp, [Next]_vars
  PROVE  FileKeepsUp'
<1> SUFFICES ASSUME lock' # "start" PROVE \A k \in Job : SameButMarker(mem'[k], disk'[k])
  BY Zenon DEF FileKeepsUp, SameButMarker
<1>0. mem \in Table /\ disk \in Table
  BY DEF Inv, TypeOK, Table
<1>1. CASE mem' = disk'
  BY <1>1, SameAsItself
<1>2. CASE UNCHANGED <<mem, disk, lock>>
  BY <1>2 DEF FileKeepsUp
<1>3. ASSUME NEW j \in Job, lock # "start", disk' = disk,
             mem' = mem \/ (mem[j] # Gone /\ mem' = [mem EXCEPT ![j].marker = "fresh"])
      PROVE  \A k \in Job : SameButMarker(mem'[k], disk'[k])
  <2>1. CASE mem' = mem
    BY <1>3, <2>1 DEF FileKeepsUp
  <2>2. CASE mem[j] # Gone /\ mem' = [mem EXCEPT ![j].marker = "fresh"]
    <3> DEFINE c == [mem[j] EXCEPT !.marker = "fresh"]
    <3>1. SameButMarker(mem[j], disk[j]) /\ mem[j] \in Entry /\ disk[j] \in Entry \cup {Gone}
      BY <1>0, <1>3, <2>2 DEF FileKeepsUp, Table
    <3>2. SameButMarker(c, disk[j])
      BY <3>1, MarkerIsNotTold
    <3>3. mem' = [mem EXCEPT ![j] = c]
      BY <2>2
    <3> HIDE DEF c
    <3> QED
      BY <1>0, <1>3, <3>2, <3>3 DEF FileKeepsUp, Table
  <2> QED
    BY <1>3, <2>1, <2>2
<1>4. ASSUME NEW j \in Job, TickStarts(j)
      PROVE  \A k \in Job : SameButMarker(mem'[k], disk'[k])
  <2>1. lock # "start"
    BY <1>4 DEF TickStarts
  <2> QED
    BY <1>3, <1>4, <2>1 DEF TickStarts
<1>5. ASSUME NEW j \in Job, RunBegins(j)
      PROVE  \A k \in Job : SameButMarker(mem'[k], disk'[k])
  BY <1>3, <1>5 DEF RunBegins, CallArrives
<1>6. ASSUME NEW j \in Job, TimePasses(j)
      PROVE  \A k \in Job : SameButMarker(mem'[k], disk'[k])
  <2>1. lock # "start"
    BY <1>6 DEF TimePasses
  <2> QED
    BY <1>0, <1>6, <2>1, FileTime DEF FileKeepsUp
<1>7. ASSUME NEW j \in Job, MissedEnds(j) PROVE FALSE
  <2>1. lock = "start"
    BY <1>7 DEF MissedEnds, Inv, Phases, Bodies
  <2> QED
    BY <1>7, <2>1 DEF MissedEnds
<1>8. CASE Fire \/ Stop \/ UNCHANGED vars
  BY <1>2, <1>8 DEF Fire, Stop, vars
<1>9. CASE TickPick \/ TickApply \/ StartEnds
  BY <1>1, <1>9 DEF TickPick, PickSaved, TickApply, StartEnds
<1>10. CASE Start
  BY <1>10 DEF Start
<1>11. CASE Crash
  BY <1>1, <1>11 DEF Crash
<1>12. ASSUME NEW j \in Job, RunEnds(j) PROVE mem' = disk'
  BY <1>12 DEF RunEnds
<1>13. ASSUME NEW j \in Job, TickBodyEnds(j) PROVE UNCHANGED <<mem, disk, lock>>
  BY <1>13 DEF TickBodyEnds
<1>14. ASSUME NEW j \in Job, NEW e, Replace(j, e) PROVE mem' = disk'
  BY <1>14 DEF Replace
<1>15. ASSUME NEW j \in Job, Add(j) \/ Update(j) \/ Remove(j) PROVE mem' = disk'
  BY <1>14, <1>15, Zenon DEF Add, Update, Remove
<1>16. CASE Scheduler \/ Stop \/ Crash
  BY <1>4, <1>8, <1>9, <1>10, <1>11, <1>16, Zenon DEF Scheduler
<1>17. CASE \E j \in Job : BodyEnds(j) \/ TimePasses(j)
  BY <1>1, <1>2, <1>6, <1>7, <1>12, <1>13, <1>17, Zenon DEF BodyEnds
<1>18. CASE \E j \in Job : Add(j) \/ Update(j) \/ Remove(j) \/ RunBegins(j)
  BY <1>1, <1>5, <1>15, <1>18, Zenon
<1> QED
  BY <1>8, <1>16, <1>17, <1>18, Zenon DEF Next

(* At any moment outside start() at which the process dies, the file has   *)
(* every operation that was answered and every result that was applied:    *)
(* it differs from memory in running markers only (service.py:1149).       *)
THEOREM FileKeepsUpHolds == Spec => []FileKeepsUp
<1>1. Init => FileKeepsUp
  BY SameAsItself DEF Init, FileKeepsUp
<1> QED
  BY <1>1, FileStep, Invariant, PTL DEF Spec

-----------------------------------------------------------------------------
(* A stopped service.                                                      *)

LEMMA QuietStep ==
  ASSUME Inv, svc = "stopped" => ~armed, [Next]_vars
  PROVE  /\ svc' = "stopped" => ~armed'
         /\ svc = "stopped" /\ svc' = "stopped" =>
              /\ ~armed' /\ (orphan' => orphan)
              /\ tick = "none" /\ tick' # "none" => orphan /\ ~orphan'
<1> DEFINE Good == /\ svc' = "stopped" => ~armed'
                   /\ svc = "stopped" /\ svc' = "stopped" =>
                        /\ ~armed' /\ (orphan' => orphan)
                        /\ tick = "none" /\ tick' # "none" => orphan /\ ~orphan'
<1> SUFFICES Good
  OBVIOUS
<1>1. CASE UNCHANGED <<svc, armed, orphan>> /\ (tick = "none" => tick' = "none")
  BY <1>1
<1>2. CASE svc' # "stopped" \/ Stop
  <2>1. svc' # "stopped" \/ (svc = "up" /\ ~armed')
    BY <1>2 DEF Stop
  <2> QED
    BY <2>1
<1>3. CASE Fire
  BY <1>3 DEF Fire
<1>4. CASE TickPick \/ TickApply
  <2>1. /\ UNCHANGED <<svc, orphan>> /\ tick # "none"
        /\ (\E m : EndTick(m)) \/ UNCHANGED armed
    BY <1>4, Zenon DEF TickPick, TickApply
  <2>2. CASE \E m : EndTick(m)
    <3>1. svc = "stopped" => ~armed'
      BY <2>2, Zenon DEF EndTick
    <3> QED
      BY <2>1, <3>1
  <2>3. CASE UNCHANGED armed
    BY <1>1, <2>1, <2>3
  <2> QED
    BY <2>1, <2>2, <2>3
<1>5. CASE Start \/ StartEnds \/ Crash
  BY <1>5 DEF Start, StartEnds, Crash
<1>6. ASSUME NEW j \in Job, TickStarts(j) \/ TickBodyEnds(j) PROVE Good
  <2>1. tick # "none" /\ UNCHANGED <<svc, armed, orphan>>
    BY <1>6 DEF TickStarts, TickBodyEnds, Inv, Bodies
  <2> QED
    BY <1>1, <2>1
<1>7. ASSUME NEW j \in Job, MissedEnds(j) \/ TimePasses(j) \/ RunBegins(j) PROVE Good
  BY <1>1, <1>7 DEF MissedEnds, TimePasses, RunBegins, tickVars
<1>8. ASSUME NEW m, NEW b, Arm(m, b), UNCHANGED <<svc, orphan>> PROVE Good
  <2>1. CASE svc = "up"
    BY <1>2, <1>8, <2>1
  <2>2. CASE svc # "up"
    <3>1. UNCHANGED <<svc, armed, orphan, tick>>
      BY <1>8, <2>2 DEF Arm, tickVars
    <3> QED
      BY <1>1, <3>1
  <2> QED
    BY <2>1, <2>2
<1> HIDE DEF Good
<1>9. ASSUME NEW j \in Job, RunEnds(j) PROVE Good
  BY <1>8, <1>9 DEF RunEnds
<1>10. ASSUME NEW j \in Job, NEW e, Replace(j, e) PROVE Good
  BY <1>8, <1>10 DEF Replace
<1>11. ASSUME NEW j \in Job, Add(j) \/ Update(j) \/ Remove(j) PROVE Good
  BY <1>10, <1>11, Zenon DEF Add, Update, Remove
<1>12. CASE UNCHANGED vars
  BY <1>1, <1>12 DEF vars
<1>13. CASE Scheduler \/ Stop \/ Crash
  BY <1>2, <1>3, <1>4, <1>5, <1>6, <1>13, Zenon DEF Scheduler
<1>14. CASE \E j \in Job : BodyEnds(j) \/ TimePasses(j)
  BY <1>6, <1>7, <1>9, <1>14, Zenon DEF BodyEnds
<1>15. CASE \E j \in Job : Add(j) \/ Update(j) \/ Remove(j) \/ RunBegins(j)
  BY <1>7, <1>11, <1>15, Zenon
<1> QED
  BY <1>12, <1>13, <1>14, <1>15, Zenon DEF Next

(* After stop() one tick at most begins, that of the timer which the       *)
(* cancelled tick armed (timer.py:98); once it has fired, none ever does.  *)
THEOREM StopIsNearlyFinalHolds == Spec => StopIsNearlyFinal
<1> DEFINE Quiet == svc = "stopped" => ~armed
<1>1. Init => Quiet
  BY DEF Init
<1>2. Inv /\ Quiet /\ [Next]_vars => Quiet'
  BY QuietStep
<1>3. Inv /\ Quiet /\ [Next]_vars =>
        [svc = "stopped" /\ svc' = "stopped" =>
           /\ ~armed' /\ (orphan' => orphan)
           /\ tick = "none" /\ tick' # "none" => orphan /\ ~orphan']_vars
  BY QuietStep
<1> QED
  BY <1>1, <1>2, <1>3, Invariant, PTL DEF Spec, StopIsNearlyFinal
=============================================================================
