------------------------------ MODULE FifoPool ------------------------------
(***************************************************************************)
(* What an execution lane promises its callers (agents/queuing/lane.py:17, *)
(* "Lanes ensure that tasks are executed in order or with limited          *)
(* concurrency"): tasks wait in line, at most `cap` of them execute at a   *)
(* time when one is admitted, and whoever waits for a task learns how it   *)
(* ended.  There is no worker here: Lane implements this module, and each  *)
(* of the nested lanes of AgentRuns is an instance of it.                  *)
(***************************************************************************)
EXTENDS Integers, Sequences, FiniteSets

CONSTANTS
  Task,   \* whatever may be submitted, each once
  Caps    \* the values the concurrency may have

VARIABLES
  waiting,    \* tasks in line
  executing,  \* tasks admitted and not over
  answer,     \* what the caller of each task has been told
  cap         \* the concurrency in force

vars == <<waiting, executing, answer, cap>>

Init ==
  /\ waiting = <<>> /\ executing = {} /\ cap \in Caps
  /\ answer = [t \in Task |-> "none"]

Queued(t, line) ==
  /\ answer[t] = "none"
  /\ waiting' = Append(line, t)
  /\ answer' = [answer EXCEPT ![t] = "pending"]
  /\ UNCHANGED <<executing, cap>>

Submit(t) == Queued(t, waiting)

(* The lane takes no new tasks: the caller is told at once.                *)
Refuse(t) ==
  /\ answer[t] = "none"
  /\ answer' = [answer EXCEPT ![t] = "error"]
  /\ UNCHANGED <<waiting, executing, cap>>

Without(i) == SubSeq(waiting, 1, i - 1) \o SubSeq(waiting, i + 1, Len(waiting))

(* A full line makes room by forgetting one of its two oldest tasks. *)
SubmitDiscarding(t) ==
  \E i \in 1..2 : i <= Len(waiting) /\ Queued(t, Without(i))

Admit ==
  /\ waiting # <<>> /\ Cardinality(executing) < cap
  /\ executing' = executing \cup {Head(waiting)}
  /\ waiting' = Tail(waiting)
  /\ UNCHANGED <<answer, cap>>

Answer(t, a) ==
  answer' = [answer EXCEPT ![t] = IF @ = "pending" THEN a ELSE @]

End(t) ==
  /\ t \in executing
  /\ executing' = executing \ {t}
  /\ \E a \in {"result", "error"} : Answer(t, a)
  /\ UNCHANGED <<waiting, cap>>

Abandon(t) ==
  /\ answer[t] = "pending" /\ Answer(t, "cancelled")
  /\ UNCHANGED <<waiting, executing, cap>>

(* The line is emptied, except for a task at its head that is about to be  *)
(* admitted.                                                               *)
Reject ==
  /\ \E k \in 0..1 :
       /\ k < Len(waiting)
       /\ waiting' = SubSeq(waiting, 1, k)
       /\ LET out == {waiting[i] : i \in (k + 1)..Len(waiting)}
          IN  answer' = [t \in Task |->
                IF t \in out /\ answer[t] = "pending" THEN "cleared"
                                                      ELSE answer[t]]
  /\ UNCHANGED <<executing, cap>>

SetCap == cap' \in Caps /\ UNCHANGED <<waiting, executing, answer>>

Next ==
  \/ \E t \in Task : Submit(t) \/ SubmitDiscarding(t) \/ Refuse(t)
  \/ Admit \/ Reject \/ SetCap
  \/ \E t \in Task : End(t) \/ Abandon(t)

Spec == Init /\ [][Next]_vars

FairSpec == Spec /\ WF_vars(Admit) /\ \A t \in Task : WF_vars(End(t))
=============================================================================
