--------------------------- MODULE AgentRunsProofs ---------------------------
(***************************************************************************)
(* Proofs about AgentRuns, for any number of calls, sessions, run ids and  *)
(* any capacity of the command lane.                                       *)
(***************************************************************************)
EXTENDS AgentRuns, SequenceTheorems, FiniteSetTheorems, TLAPS

(* Lines are sequences without repetition: what appending and popping do   *)
(* to their elements.                                                      *)
LEMMA InRange ==
  ASSUME NEW S, NEW s \in Seq(S), NEW x
  PROVE  x \in Range(s) <=> \E i \in 1..Len(s) : x = s[i]
<1>1. DOMAIN s = 1..Len(s)
  OBVIOUS
<1> QED
  BY <1>1, Zenon DEF Range

LEMMA InjectiveSeq ==
  ASSUME NEW S, NEW s \in Seq(S)
  PROVE  IsInjective(s) <=> \A i, j \in 1..Len(s) : s[i] = s[j] => i = j
  BY DEF IsInjective

LEMMA InjectiveEmpty == IsInjective(<<>>) /\ Range(<<>>) = {}
  BY DEF IsInjective, Range

LEMMA InjectiveAppend ==
  ASSUME NEW S, NEW s \in Seq(S), NEW m \in S, IsInjective(s), m \notin Range(s)
  PROVE  IsInjective(Append(s, m)) /\ Range(Append(s, m)) = Range(s) \union {m}
<1>1. /\ Append(s, m) \in Seq(S) /\ Len(Append(s, m)) = Len(s) + 1 /\ Len(s) \in Nat
      /\ \A i \in 1..Len(s) : Append(s, m)[i] = s[i]
      /\ Append(s, m)[Len(s) + 1] = m
  BY AppendProperties
<1>0. \A x : x \in Range(s) <=> \E i \in 1..Len(s) : x = s[i]
  <2> TAKE x
  <2> QED
    BY InRange
<1>2. \A i \in 1..Len(s) : s[i] # m
  BY <1>0
<1>3. IsInjective(Append(s, m))
  <2> SUFFICES ASSUME NEW i \in 1..(Len(s) + 1), NEW j \in 1..(Len(s) + 1),
                      Append(s, m)[i] = Append(s, m)[j]
               PROVE  i = j
    BY <1>1, InjectiveSeq
  <2>1. CASE i \in 1..Len(s) /\ j \in 1..Len(s)
    BY <1>1, <2>1, InjectiveSeq
  <2>2. CASE i = Len(s) + 1 \/ j = Len(s) + 1
    BY <1>1, <1>2, <2>2
  <2> QED
    BY <1>1, <2>1, <2>2
<1>4. \A x : x \in Range(Append(s, m)) <=> x \in Range(s) \union {m}
  <2>1. \A x : x \in Range(Append(s, m)) <=> \E i \in 1..(Len(s) + 1) : x = Append(s, m)[i]
    <3>1. Append(s, m) \in Seq(S)
      BY <1>1
    <3> TAKE x
    <3>2. x \in Range(Append(s, m)) <=>
            \E i \in 1..Len(Append(s, m)) : x = Append(s, m)[i]
      BY <3>1, InRange
    <3> QED
      BY <1>1, <3>2
  <2>2. 1..(Len(s) + 1) = (1..Len(s)) \union {Len(s) + 1}
    BY <1>1
  <2>3. \A x : x \in Range(Append(s, m)) <=>
              (\E i \in 1..Len(s) : x = s[i]) \/ x = m
    BY <1>1, <2>1, <2>2
  <2> QED
    BY <1>0, <2>3
<1> QED
  BY <1>3, <1>4

LEMMA InjectiveTail ==
  ASSUME NEW S, NEW s \in Seq(S), s # <<>>, IsInjective(s)
  PROVE  /\ IsInjective(Tail(s)) /\ Range(Tail(s)) = Range(s) \ {Head(s)}
         /\ Head(s) \in Range(s)
<1>1. /\ Tail(s) \in Seq(S) /\ Len(Tail(s)) = Len(s) - 1 /\ Len(s) \in Nat \ {0}
      /\ \A i \in 1..Len(Tail(s)) : Tail(s)[i] = s[i + 1]
      /\ Head(s) = s[1]
  BY HeadTailProperties
<1>0. \A x : x \in Range(s) <=> \E i \in 1..Len(s) : x = s[i]
  <2> TAKE x
  <2> QED
    BY InRange
<1>2. \A i, j \in 1..Len(s) : s[i] = s[j] => i = j
  BY InjectiveSeq
<1>3. IsInjective(Tail(s))
  <2>1. \A i, j \in 1..Len(Tail(s)) : Tail(s)[i] = Tail(s)[j] => i = j
    BY <1>1, <1>2
  <2> QED
    BY <1>1, <2>1, InjectiveSeq
<1>4. \A x : x \in Range(Tail(s)) <=> \E i \in 1..Len(Tail(s)) : x = Tail(s)[i]
  <2>1. Tail(s) \in Seq(S)
    BY <1>1
  <2> TAKE x
  <2> QED
    BY <2>1, InRange
<1>5. Head(s) \in Range(s)
  BY <1>0, <1>1
<1>6. ASSUME NEW x, x \in Range(Tail(s)) PROVE x \in Range(s) \ {Head(s)}
  <2>1. PICK i \in 1..Len(Tail(s)) : x = Tail(s)[i]
    BY <1>4, <1>6
  <2>2. x = s[i + 1] /\ i + 1 \in 1..Len(s) /\ i + 1 # 1 /\ 1 \in 1..Len(s)
    BY <1>1, <2>1
  <2> QED
    BY <1>0, <1>1, <1>2, <2>2
<1>7. ASSUME NEW x, x \in Range(s) \ {Head(s)} PROVE x \in Range(Tail(s))
  <2>1. PICK i \in 1..Len(s) : x = s[i]
    BY <1>0, <1>7
  <2>2. i - 1 \in 1..Len(Tail(s)) /\ x = Tail(s)[i - 1]
    BY <1>1, <1>7, <2>1
  <2> QED
    BY <1>4, <2>2
<1> QED
  BY <1>3, <1>5, <1>6, <1>7

-----------------------------------------------------------------------------

(* The typing step, used by every proof below. *)
LEMMA EmptyLines == [s \in Session |-> <<>>] \in [Session -> Seq(Req)] /\ <<>> \in Seq(Req)
<1>1. <<>> \in Seq(Req)
  OBVIOUS
<1> QED
  BY <1>1, Zenon

LEMMA TypeInit == Init => TypeOK
<1> SUFFICES ASSUME Init PROVE TypeOK
  OBVIOUS
<1>1. sessionLine \in [Session -> Seq(Req)] /\ commandLine \in Seq(Req)
  BY EmptyLines, Zenon DEF Init
<1> QED
  BY <1>1 DEF Init, TypeOK

LEMMA AcceptTypes ==
  ASSUME TypeOK, NEW r \in Req, Accept(r)
  PROVE  /\ rpc' \in [Req -> {"new", "cached", "resetting", "accepted"}]
         /\ dedupe' \in [Id -> {"none", "accepted", "final"}]
         /\ activeRuns' \in [Id -> Req \cup {NoReq}]
         /\ status' = status /\ aborting' = aborting
         /\ caller' \in [Req -> {"none", "created", "waiting", "ok", "error",
                                "aborted", "done"}]
<1> USE ConstantsAssumption DEF TypeOK, Accept
<1>1. rpc' \in [Req -> {"new", "cached", "resetting", "accepted"}]
  OBVIOUS
<1>2. dedupe' \in [Id -> {"none", "accepted", "final"}]
  <2>1. CASE r \in Keyed
    BY <2>1
  <2>2. CASE r \notin Keyed
    BY <2>2
  <2> QED
    BY <2>1, <2>2
<1>3. activeRuns' \in [Id -> Req \cup {NoReq}]
  OBVIOUS
<1>4. caller' \in [Req -> {"none", "created", "waiting", "ok", "error",
                          "aborted", "done"}]
  OBVIOUS
<1> QED
  BY <1>1, <1>2, <1>3, <1>4

LEMMA LineTypes ==
  ASSUME TypeOK
  PROVE  /\ \A s \in Session : sessionLine[s] # <<>> =>
              Head(sessionLine[s]) \in Req /\ Tail(sessionLine[s]) \in Seq(Req)
         /\ commandLine # <<>> =>
              Head(commandLine) \in Req /\ Tail(commandLine) \in Seq(Req)
  BY HeadTailProperties DEF TypeOK

(* A cancelled chat turn was alive, and nothing else changes. *)
LEMMA ChatsCancelledOnly ==
  ASSUME TypeOK, NEW s, caller' = ChatsCancelled(s)
  PROVE  /\ caller' \in [Req -> {"none", "created", "waiting", "ok", "error",
                                "aborted", "done"}]
         /\ \A k \in Req :
              caller'[k] = caller[k] \/ (Alive(k) /\ caller'[k] = "aborted")
<1>1. \A k \in Req : caller'[k] = IF k \in RegisteredChats(s) THEN "aborted"
                                                            ELSE caller[k]
  BY DEF ChatsCancelled
<1>2. \A k \in RegisteredChats(s) : Alive(k)
  BY DEF RegisteredChats
<1> QED
  BY <1>1, <1>2 DEF ChatsCancelled, TypeOK

LEMMA TypeStep == TypeOK /\ [Next]_vars => TypeOK'
<1> SUFFICES ASSUME TypeOK, [Next]_vars PROVE TypeOK'
  OBVIOUS
<1> USE ConstantsAssumption DEF TypeOK, laneVars, gatewayVars, drainVars
<1>1. ASSUME NEW r \in Req, AgentCall(r) PROVE TypeOK'
  <2>1. CASE Accept(r)
    BY <1>1, <2>1, AcceptTypes DEF AgentCall
  <2>2. CASE ~Accept(r)
    <3>1. caller' = caller \/ caller' = ChatsCancelled(SessionOf[r])
      BY <1>1, <2>2 DEF AgentCall
    <3>2. caller' \in [Req -> {"none", "created", "waiting", "ok", "error",
                              "aborted", "done"}]
      BY <3>1, ChatsCancelledOnly
    <3> QED
      BY <1>1, <2>2, <3>2 DEF AgentCall
  <2> QED
    BY <2>1, <2>2
<1>2. ASSUME NEW r \in Req, ResetReturns(r) \/ ChatSend(r) PROVE TypeOK'
  BY <1>2, AcceptTypes DEF ResetReturns, ChatSend
<1>3. ASSUME NEW r \in Req, EnterSessionLane(r) PROVE TypeOK'
  <2>1. CASE Refused
    BY <1>3, <2>1 DEF EnterSessionLane
  <2>2. CASE ~Refused
    <3>1. caller' \in [Req -> {"none", "created", "waiting", "ok", "error",
                              "aborted", "done"}]
      BY <1>3, <2>2 DEF EnterSessionLane
    <3>2. stage' \in [Req -> {"idle", "sessionQueued", "entering", "commandQueued",
                             "executing", "returning", "over"}]
      BY <1>3, <2>2 DEF EnterSessionLane
    <3>3. sessionLine' \in [Session -> Seq(Req)]
      <4> DEFINE line == Append(sessionLine[SessionOf[r]], r)
      <4>1. line \in Seq(Req) /\ SessionOf[r] \in Session
        BY AppendProperties
      <4>2. sessionLine' = [sessionLine EXCEPT ![SessionOf[r]] = line]
        BY <1>3, <2>2 DEF EnterSessionLane
      <4> HIDE DEF line
      <4> QED
        BY <4>1, <4>2
    <3> QED
      BY <1>3, <2>2, <3>1, <3>2, <3>3 DEF EnterSessionLane
  <2> QED
    BY <2>1, <2>2
<1>4. ASSUME NEW r \in Req, EnterCommandLane(r) PROVE TypeOK'
  <2>1. CASE Refused
    BY <1>4, <2>1 DEF EnterCommandLane
  <2>2. CASE ~Refused
    <3>1. commandLine' \in Seq(Req)
      <4>1. commandLine \in Seq(Req) /\ commandLine' = Append(commandLine, r)
        BY <1>4, <2>2 DEF EnterCommandLane
      <4> QED
        BY <4>1, AppendProperties
    <3> QED
      BY <1>4, <2>2, <3>1 DEF EnterCommandLane
  <2> QED
    BY <2>1, <2>2
<1>5. ASSUME NEW r \in Req, RunEnds(r) PROVE TypeOK'
  BY <1>5 DEF RunEnds
<1>6. ASSUME NEW r \in Req, SessionEntryEnds(r) PROVE TypeOK'
  BY <1>6 DEF SessionEntryEnds
<1>7. ASSUME NEW r \in Req, CleanupRun(r) PROVE TypeOK'
  <2> USE <1>7 DEF CleanupRun
  <2>1. /\ caller[r] \in {"ok", "error", "aborted"}
        /\ status' \in [Id -> {"none", "ok", "error", "aborted"}]
    BY DEF Terminal, Reported
  <2>2. caller' \in [Req -> {"none", "created", "waiting", "ok", "error",
                            "aborted", "done"}]
    OBVIOUS
  <2>3. activeRuns' \in [Id -> Req \cup {NoReq}]
    BY DEF Unregister
  <2>4. dedupe' \in [Id -> {"none", "accepted", "final"}]
    OBVIOUS
  <2> QED
    BY <2>1, <2>2, <2>3, <2>4
<1>8. CASE CommandLaneStarts
  BY <1>8, LineTypes DEF CommandLaneStarts
<1>9. ASSUME NEW s \in Session, SessionLaneStarts(s) PROVE TypeOK'
  BY <1>9, LineTypes DEF SessionLaneStarts
<1>10. ASSUME NEW i \in Id, Abort(i) PROVE TypeOK'
  BY <1>10 DEF Abort, Cancelled
<1>11. ASSUME NEW i \in Id, AbortReturns(i) PROVE TypeOK'
  BY <1>11 DEF AbortReturns
<1>12. CASE MarkDraining
  BY <1>12 DEF MarkDraining
<1>13. CASE WaitEnds
  BY <1>13 DEF WaitEnds
<1>14. CASE ReplaceProcess
  <2>1. sessionLine' \in [Session -> Seq(Req)] /\ commandLine' \in Seq(Req)
    BY <1>14, EmptyLines, Zenon DEF ReplaceProcess
  <2>2. rpc' \in [Req -> {"new", "cached", "resetting", "accepted"}]
    BY <1>14 DEF ReplaceProcess
  <2> QED
    BY <1>14, <2>1, <2>2 DEF ReplaceProcess
<1>15. CASE UNCHANGED vars
  BY <1>15 DEF vars
<1>16. ASSUME NEW r \in Req, ChatTurnEnds(r) PROVE TypeOK'
  BY <1>16 DEF ChatTurnEnds
<1>17. ASSUME NEW r \in Req, ChatCleanup(r) PROVE TypeOK'
  BY <1>17 DEF ChatCleanup, Unregister
<1>18. ASSUME NEW s \in Session, CancelChats(s) PROVE TypeOK'
  BY <1>18, ChatsCancelledOnly DEF CancelChats
<1> QED
  BY <1>1, <1>2, <1>3, <1>4, <1>5, <1>6, <1>7, <1>8, <1>9, <1>10, <1>11,
     <1>12, <1>13, <1>14, <1>15, <1>16, <1>17, <1>18 DEF Next, Progress, Lanes

(* The values of the variables stay in their sets: in particular the      *)
(* registries only name runs and a line only holds runs.                  *)
THEOREM TypeCorrect == Spec => []TypeOK
<1> QED
  BY TypeInit, TypeStep, PTL DEF Spec

-----------------------------------------------------------------------------
(* One run per session.  The slot of a session is taken from "entering" to *)
(* "returning", so at most one run of a session is anywhere between, which *)
(* is inductive once the lines are known to hold each waiting run once and *)
(* a background task is known not to have an entry before its first step.  *)

Holding == {"entering", "commandQueued", "executing", "returning"}

OneHolder ==
  \A q, r \in Req : stage[q] \in Holding /\ stage[r] \in Holding
                    /\ SessionOf[q] = SessionOf[r] => q = r

SessionLines ==
  /\ \A s \in Session : IsInjective(sessionLine[s])
  /\ \A s \in Session : \A r \in Req :
       r \in Range(sessionLine[s]) => stage[r] = "sessionQueued" /\ SessionOf[r] = s

CommandLineHoldsWaiting ==
  /\ IsInjective(commandLine)
  /\ \A r \in Req : r \in Range(commandLine) => stage[r] = "commandQueued"

EntryAfterTask ==
  /\ \A r \in Req : caller[r] = "created" => stage[r] = "idle"
  /\ \A r \in Req : rpc[r] \in {"new", "resetting"} =>
                       caller[r] = "none" /\ stage[r] = "idle"

SessionInv == OneHolder /\ SessionLines /\ CommandLineHoldsWaiting /\ EntryAfterTask

LEMMA SessionInit == Init => SessionInv
<1> SUFFICES ASSUME Init PROVE SessionInv
  OBVIOUS
<1> USE DEF Init
<1>1. OneHolder
  BY DEF OneHolder, Holding
<1>2. \A s \in Session : sessionLine[s] = <<>>
  OBVIOUS
<1>3. SessionLines
  BY <1>2, InjectiveEmpty DEF SessionLines
<1>4. CommandLineHoldsWaiting
  BY InjectiveEmpty DEF CommandLineHoldsWaiting
<1>5. EntryAfterTask
  BY DEF EntryAfterTask
<1> QED
  BY <1>1, <1>3, <1>4, <1>5 DEF SessionInv

(* The lanes' own steps. *)
LEMMA SessionEnter ==
  ASSUME TypeOK, SessionInv, NEW r \in Req, EnterSessionLane(r)
  PROVE  SessionInv'
<1> USE DEF SessionInv
<1>1. CASE Refused
  BY <1>1 DEF EnterSessionLane, TypeOK, laneVars, gatewayVars, OneHolder,
              SessionLines, CommandLineHoldsWaiting, EntryAfterTask
<1>2. CASE ~Refused
  <2> DEFINE s == SessionOf[r]
             line == Append(sessionLine[s], r)
  <2>1. /\ s \in Session /\ sessionLine[s] \in Seq(Req)
        /\ caller[r] = "created" /\ stage[r] = "idle"
        /\ caller' = [caller EXCEPT ![r] = "waiting"] /\ rpc' = rpc
        /\ commandLine' = commandLine
    BY <1>2, ConstantsAssumption DEF TypeOK, EnterSessionLane, EntryAfterTask, gatewayVars
  <2>2. \A k \in Req : stage'[k] = IF k = r THEN "sessionQueued" ELSE stage[k]
    BY <1>2 DEF EnterSessionLane, TypeOK
  <2>3. r \notin Range(sessionLine[s]) /\ r \notin Range(commandLine)
    BY <2>1 DEF SessionLines, CommandLineHoldsWaiting
  <2>4. IsInjective(line) /\ Range(line) = Range(sessionLine[s]) \union {r}
    BY <2>1, <2>3, InjectiveAppend DEF SessionLines
  <2>5. \A t \in Session : sessionLine'[t] = IF t = s THEN line ELSE sessionLine[t]
    BY <1>2 DEF EnterSessionLane, TypeOK
  <2> HIDE DEF line
  <2>6. OneHolder'
    BY <2>2 DEF OneHolder, Holding
  <2>7. SessionLines'
    BY <2>2, <2>4, <2>5 DEF SessionLines
  <2>8. CommandLineHoldsWaiting'
    BY <2>1, <2>2, <2>3 DEF CommandLineHoldsWaiting
  <2>9. EntryAfterTask'
    <3>1. \A k \in Req : caller'[k] = IF k = r THEN "waiting" ELSE caller[k]
      BY <2>1 DEF TypeOK
    <3> QED
      BY <2>1, <2>2, <3>1 DEF EntryAfterTask
  <2> QED
    BY <2>6, <2>7, <2>8, <2>9
<1> QED
  BY <1>1, <1>2

LEMMA SessionStarts ==
  ASSUME TypeOK, SessionInv, NEW s \in Session, SessionLaneStarts(s)
  PROVE  SessionInv'
<1> USE DEF SessionInv
<1> DEFINE h == Head(sessionLine[s])
           rest == Tail(sessionLine[s])
<1>1. /\ h \in Req /\ sessionLine[s] \in Seq(Req) /\ sessionLine[s] # <<>>
      /\ commandLine' = commandLine /\ caller' = caller /\ rpc' = rpc
  BY LineTypes DEF TypeOK, SessionLaneStarts, gatewayVars
<1>2. /\ IsInjective(rest) /\ Range(rest) = Range(sessionLine[s]) \ {h}
      /\ h \in Range(sessionLine[s])
  BY <1>1, InjectiveTail DEF SessionLines
<1>3. stage[h] = "sessionQueued" /\ SessionOf[h] = s
  BY <1>1, <1>2 DEF SessionLines
<1>4. \A k \in Req : stage[k] \in Holding => SessionOf[k] # s
  BY DEF SessionLaneStarts, SessionFree, SessionBusy, HoldsSession, At, Holding
<1>5. \A k \in Req : stage'[k] = IF k = h THEN "entering" ELSE stage[k]
  BY DEF SessionLaneStarts, TypeOK
<1>6. \A t \in Session : sessionLine'[t] = IF t = s THEN rest ELSE sessionLine[t]
  BY DEF SessionLaneStarts, TypeOK
<1> HIDE DEF h, rest
<1>7. OneHolder'
  BY <1>3, <1>4, <1>5 DEF OneHolder
<1>8. SessionLines'
  BY <1>1, <1>2, <1>3, <1>5, <1>6 DEF SessionLines
<1>9. CommandLineHoldsWaiting'
  BY <1>1, <1>3, <1>5 DEF CommandLineHoldsWaiting
<1>10. EntryAfterTask'
  BY <1>1, <1>3, <1>5 DEF EntryAfterTask
<1> QED
  BY <1>7, <1>8, <1>9, <1>10

LEMMA CommandStarts ==
  ASSUME TypeOK, SessionInv, CommandLaneStarts
  PROVE  SessionInv'
<1> USE DEF SessionInv
<1> DEFINE h == Head(commandLine)
           rest == Tail(commandLine)
<1>1. /\ h \in Req /\ commandLine \in Seq(Req) /\ commandLine # <<>>
      /\ commandLine' = rest /\ sessionLine' = sessionLine
      /\ caller' = caller /\ rpc' = rpc
  BY LineTypes DEF TypeOK, CommandLaneStarts, gatewayVars
<1>2. /\ IsInjective(rest) /\ Range(rest) = Range(commandLine) \ {h}
      /\ h \in Range(commandLine)
  BY <1>1, InjectiveTail DEF CommandLineHoldsWaiting
<1>3. stage[h] = "commandQueued"
  BY <1>1, <1>2 DEF CommandLineHoldsWaiting
<1>4. \A k \in Req : stage'[k] = IF k = h THEN "executing" ELSE stage[k]
  BY DEF CommandLaneStarts, TypeOK
<1> HIDE DEF h, rest
<1>5. OneHolder'
  BY <1>3, <1>4 DEF OneHolder, Holding
<1>6. SessionLines'
  BY <1>1, <1>3, <1>4 DEF SessionLines
<1>7. CommandLineHoldsWaiting'
  BY <1>1, <1>2, <1>4 DEF CommandLineHoldsWaiting
<1>8. EntryAfterTask'
  BY <1>1, <1>3, <1>4 DEF EntryAfterTask
<1> QED
  BY <1>5, <1>6, <1>7, <1>8

(* A run that holds its session moves on or gives the slot back. *)
LEMMA HolderMoves ==
  ASSUME TypeOK, SessionInv, NEW r \in Req,
         stage[r] \in Holding \ {"commandQueued"},
         stage' = [stage EXCEPT ![r] = stage'[r]],
         stage'[r] \in Holding \cup {"over"}, sessionLine' = sessionLine,
         \/ commandLine' = commandLine
         \/ stage'[r] = "commandQueued" /\ commandLine' = Append(commandLine, r),
         rpc' = rpc, \A k \in Req : caller'[k] = "created" => caller[k] = "created",
         \A k \in Req : caller[k] = "none" => caller'[k] = "none"
  PROVE  SessionInv'
<1> USE DEF SessionInv
<1>1. \A k \in Req : k # r => stage'[k] = stage[k]
  BY DEF TypeOK
<1>2. OneHolder'
  BY <1>1 DEF OneHolder, Holding
<1>3. SessionLines'
  BY <1>1 DEF SessionLines, Holding
<1>4. r \notin Range(commandLine) /\ commandLine \in Seq(Req)
  BY DEF CommandLineHoldsWaiting, TypeOK
<1>5. CommandLineHoldsWaiting'
  <2>1. CASE commandLine' = commandLine
    BY <1>1, <1>4, <2>1 DEF CommandLineHoldsWaiting
  <2>2. CASE stage'[r] = "commandQueued" /\ commandLine' = Append(commandLine, r)
    <3>1. /\ IsInjective(commandLine')
          /\ Range(commandLine') = Range(commandLine) \union {r}
      BY <1>4, <2>2, InjectiveAppend DEF CommandLineHoldsWaiting
    <3> QED
      BY <1>1, <2>2, <3>1 DEF CommandLineHoldsWaiting
  <2> QED
    BY <2>1, <2>2
<1>6. EntryAfterTask'
  BY <1>1 DEF EntryAfterTask, Holding
<1> QED
  BY <1>2, <1>3, <1>5, <1>6

(* The RPC and the abort do not touch the lanes. *)
LEMMA CallerMoves ==
  ASSUME TypeOK, SessionInv, UNCHANGED <<stage, sessionLine, commandLine>>,
         \A k \in Req : caller'[k] = "created" => stage[k] = "idle",
         \A k \in Req : rpc'[k] \in {"new", "resetting"} =>
                          /\ rpc[k] \in {"new", "resetting"}
                          /\ caller'[k] = caller[k]
  PROVE  SessionInv'
  BY DEF SessionInv, OneHolder, SessionLines, CommandLineHoldsWaiting, EntryAfterTask

LEMMA SessionReplace == ReplaceProcess => SessionInv'
<1> SUFFICES ASSUME ReplaceProcess PROVE SessionInv'
  OBVIOUS
<1> USE DEF ReplaceProcess
<1>1. OneHolder'
  BY DEF OneHolder, Holding
<1>2. \A s \in Session : sessionLine'[s] = <<>>
  OBVIOUS
<1>3. SessionLines'
  BY <1>2, InjectiveEmpty DEF SessionLines
<1>4. CommandLineHoldsWaiting'
  BY InjectiveEmpty DEF CommandLineHoldsWaiting
<1>5. EntryAfterTask'
  BY DEF EntryAfterTask
<1> QED
  BY <1>1, <1>3, <1>4, <1>5 DEF SessionInv

LEMMA SessionStep == TypeOK /\ SessionInv /\ [Next]_vars => SessionInv'
<1> SUFFICES ASSUME TypeOK, SessionInv, [Next]_vars PROVE SessionInv'
  OBVIOUS
<1>0. \A r \in Req : /\ caller[r] = "created" => stage[r] = "idle"
                     /\ rpc[r] \in {"new", "resetting"} =>
                         caller[r] = "none" /\ stage[r] = "idle"
  BY DEF SessionInv, EntryAfterTask
<1> DEFINE TaskKept(k) == /\ caller'[k] = "created" => stage[k] = "idle"
                          /\ rpc'[k] \in {"new", "resetting"} =>
                               rpc[k] \in {"new", "resetting"} /\ caller'[k] = caller[k]
<1>b. ASSUME UNCHANGED laneVars, \A k \in Req : TaskKept(k) PROVE SessionInv'
  BY <1>b, CallerMoves DEF laneVars
<1>a. ASSUME NEW r \in Req, Accept(r), rpc[r] \in {"new", "resetting"},
             UNCHANGED laneVars
      PROVE  SessionInv'
  <2>1. \A k \in Req : TaskKept(k)
    BY <1>0, <1>a DEF Accept, TypeOK
  <2> QED
    BY <1>a, <1>b, <2>1
<1>1. ASSUME NEW r \in Req, AgentCall(r) PROVE SessionInv'
  <2>1. CASE Accept(r)
    BY <1>1, <1>a, <2>1 DEF AgentCall
  <2>2. CASE ~Accept(r)
    <3>1. /\ rpc[r] = "new" /\ UNCHANGED laneVars
          /\ caller' = caller \/ caller' = ChatsCancelled(SessionOf[r])
          /\ \A k \in Req \ {r} : rpc'[k] = rpc[k]
      BY <1>1, <2>2 DEF AgentCall, TypeOK
    <3>2. \A k \in Req :
            caller'[k] = caller[k] \/ (Alive(k) /\ caller'[k] = "aborted")
      BY <3>1, ChatsCancelledOnly
    <3>3. \A k \in Req : TaskKept(k)
      BY <1>0, <3>1, <3>2 DEF Alive
    <3> QED
      BY <1>b, <3>1, <3>3
  <2> QED
    BY <2>1, <2>2
<1>2. ASSUME NEW r \in Req, ResetReturns(r) \/ ChatSend(r) PROVE SessionInv'
  BY <1>2, <1>a DEF ResetReturns, ChatSend
<1>3. ASSUME NEW r \in Req, EnterSessionLane(r) PROVE SessionInv'
  BY <1>3, SessionEnter
<1>4. ASSUME NEW r \in Req, EnterCommandLane(r) PROVE SessionInv'
  <2>1. /\ stage[r] = "entering" /\ stage'[r] \in {"returning", "commandQueued"}
        /\ stage' = [stage EXCEPT ![r] = stage'[r]]
        /\ rpc' = rpc /\ caller' = caller /\ sessionLine' = sessionLine
        /\ \/ commandLine' = commandLine
           \/ stage'[r] = "commandQueued" /\ commandLine' = Append(commandLine, r)
    BY <1>4 DEF EnterCommandLane, gatewayVars, TypeOK
  <2> QED
    BY <2>1, HolderMoves DEF Holding
<1>5. ASSUME NEW r \in Req, RunEnds(r) PROVE SessionInv'
  <2>1. /\ stage[r] = "executing" /\ stage'[r] = "returning"
        /\ stage' = [stage EXCEPT ![r] = stage'[r]]
        /\ rpc' = rpc /\ caller' = caller
        /\ sessionLine' = sessionLine /\ commandLine' = commandLine
    BY <1>5 DEF RunEnds, gatewayVars, TypeOK
  <2> QED
    BY <2>1, HolderMoves DEF Holding
<1>6. ASSUME NEW r \in Req, SessionEntryEnds(r) PROVE SessionInv'
  <2>1. /\ stage[r] = "returning" /\ stage'[r] = "over"
        /\ stage' = [stage EXCEPT ![r] = stage'[r]] /\ rpc' = rpc
        /\ sessionLine' = sessionLine /\ commandLine' = commandLine
    BY <1>6 DEF SessionEntryEnds, gatewayVars, TypeOK
  <2>2. /\ \A k \in Req : caller'[k] = "created" => caller[k] = "created"
        /\ \A k \in Req : caller[k] = "none" => caller'[k] = "none"
    BY <1>6 DEF SessionEntryEnds, TypeOK
  <2> QED
    BY <2>1, <2>2, HolderMoves DEF Holding
<1>7. ASSUME NEW r \in Req, CleanupRun(r) \/ ChatCleanup(r) PROVE SessionInv'
  <2>1. \A k \in Req : TaskKept(k)
    BY <1>0, <1>7 DEF CleanupRun, ChatCleanup, Terminal, TypeOK
  <2> QED
    BY <1>7, <1>b, <2>1 DEF CleanupRun, ChatCleanup
<1>8. CASE CommandLaneStarts
  BY <1>8, CommandStarts
<1>9. ASSUME NEW s \in Session, SessionLaneStarts(s) PROVE SessionInv'
  BY <1>9, SessionStarts
<1>10. ASSUME NEW i \in Id, Abort(i) PROVE SessionInv'
  <2>1. \A k \in Req : TaskKept(k)
    BY <1>0, <1>10 DEF Abort, Cancelled, Alive, TypeOK
  <2> QED
    BY <1>10, <1>b, <2>1 DEF Abort
<1>c. ASSUME UNCHANGED <<rpc, caller, laneVars>> PROVE SessionInv'
  <2>1. \A k \in Req : TaskKept(k)
    BY <1>0, <1>c
  <2> QED
    BY <1>c, <1>b, <2>1
<1>11. ASSUME NEW i \in Id, AbortReturns(i) PROVE SessionInv'
  BY <1>c, <1>11 DEF AbortReturns
<1>12. CASE MarkDraining
  BY <1>c, <1>12 DEF MarkDraining, gatewayVars
<1>13. CASE WaitEnds
  BY <1>c, <1>13 DEF WaitEnds, gatewayVars
<1>14. CASE ReplaceProcess
  BY <1>14, SessionReplace
<1>15. CASE UNCHANGED vars
  BY <1>c, <1>15 DEF vars, laneVars
<1>16. ASSUME NEW r \in Req, ChatTurnEnds(r) PROVE SessionInv'
  <2>1. /\ stage[r] = "idle" /\ rpc' = rpc /\ rpc[r] \notin {"new", "resetting"}
        /\ \A k \in Req : stage'[k] = IF k = r THEN "over" ELSE stage[k]
        /\ \A k \in Req : caller'[k] = IF k = r THEN "ok" ELSE caller[k]
        /\ sessionLine' = sessionLine /\ commandLine' = commandLine
    BY <1>0, <1>16 DEF ChatTurnEnds, gatewayVars, TypeOK
  <2>2. OneHolder'
    BY <2>1 DEF SessionInv, OneHolder, Holding
  <2>3. SessionLines' /\ CommandLineHoldsWaiting'
    BY <2>1 DEF SessionInv, SessionLines, CommandLineHoldsWaiting
  <2>4. EntryAfterTask'
    BY <2>1 DEF SessionInv, EntryAfterTask
  <2> QED
    BY <2>2, <2>3, <2>4 DEF SessionInv
<1>17. ASSUME NEW s \in Session, CancelChats(s) PROVE SessionInv'
  <2>1. \A k \in Req :
          caller'[k] = caller[k] \/ (Alive(k) /\ caller'[k] = "aborted")
    BY <1>17, ChatsCancelledOnly DEF CancelChats
  <2>2. \A k \in Req : TaskKept(k)
    BY <1>0, <1>17, <2>1 DEF CancelChats, gatewayVars, Alive
  <2> QED
    BY <1>17, <1>b, <2>2 DEF CancelChats
<1> QED
  BY <1>1, <1>2, <1>3, <1>4, <1>5, <1>6, <1>7, <1>8, <1>9, <1>10, <1>11,
     <1>12, <1>13, <1>14, <1>15, <1>16, <1>17 DEF Next, Progress, Lanes

(* One run per session: however many calls, aborts and restarts there are, *)
(* two runs of one session never execute at once.                          *)
THEOREM SessionSerialHolds == Spec => []SessionSerial
<1>1. SessionInv => SessionSerial
  BY DEF SessionInv, OneHolder, Holding, SessionSerial, InCommandLane, At
<1> QED
  BY <1>1, TypeInit, TypeStep, SessionInit, SessionStep, PTL DEF Spec

-----------------------------------------------------------------------------
(* The registries of the gateway.  A key is remembered as long as a run    *)
(* made with it is known, an id leads to a run of that id or to none, and  *)
(* an abort that awaits its task awaits a dead one.                        *)

KeyRemembered ==
  \A r \in Keyed : caller[r] # "none" => dedupe[IdOf[r]] # "none"

IdsLeadToRuns ==
  \A i \in Id : activeRuns[i] # NoReq =>
    IdOf[activeRuns[i]] = i /\ caller[activeRuns[i]] # "none"

AbortsAwaitTheDead ==
  \A i \in aborting : \E r \in Req : IdOf[r] = i /\ caller[r] # "none" /\ ~Alive(r)

EndedHasOutcome == \A r \in Req : stage[r] = "returning" => outcome[r] # "none"

RegistryInv ==
  /\ KeyRemembered /\ OneRunPerKey
  /\ IdsLeadToRuns /\ AbortsAwaitTheDead /\ AbortReachesRun
  /\ EndedHasOutcome

LEMMA RegistryInit == Init => RegistryInv
  BY ConstantsAssumption
     DEF Init, RegistryInv, KeyRemembered, OneRunPerKey, IdsLeadToRuns,
         AbortsAwaitTheDead, AbortReachesRun, Alive, EndedHasOutcome

(* Steps after which the same runs are known, the living ones lived before *)
(* and the registries are what they were.                                  *)
LEMMA RegistryKept ==
  ASSUME TypeOK, RegistryInv, UNCHANGED <<dedupe, activeRuns, aborting>>,
         \A k \in Req : caller'[k] = "none" <=> caller[k] = "none",
         \A k \in Req : caller'[k] \in {"created", "waiting"} => Alive(k),
         \A k \in Req : stage'[k] = "returning" => outcome'[k] # "none"
  PROVE  RegistryInv'
<1> USE ConstantsAssumption DEF RegistryInv
<1>1. KeyRemembered' /\ OneRunPerKey'
  BY DEF KeyRemembered, OneRunPerKey
<1>2. IdsLeadToRuns'
  BY DEF IdsLeadToRuns, TypeOK
<1>3. AbortsAwaitTheDead'
  BY DEF AbortsAwaitTheDead, Alive
<1>4. AbortReachesRun'
  BY DEF AbortReachesRun, SoleRunOfId, Alive
<1>5. EndedHasOutcome'
  BY DEF EndedHasOutcome
<1> QED
  BY <1>1, <1>2, <1>3, <1>4, <1>5

LEMMA RegistryAccept ==
  ASSUME TypeOK, RegistryInv, NEW r \in Req, Accept(r), caller[r] = "none",
         r \notin Keyed \/ r \in Resetting \/ ~KnownKey(r), UNCHANGED laneVars
  PROVE  RegistryInv'
<1> USE ConstantsAssumption DEF RegistryInv
<1>1. /\ \A k \in Req : caller'[k] = IF k = r THEN "created" ELSE caller[k]
      /\ \A i \in Id : activeRuns'[i] = IF i = IdOf[r] THEN r ELSE activeRuns[i]
      /\ \A i \in Id : dedupe'[i] = IF r \in Keyed /\ i = IdOf[r] THEN "accepted"
                                                               ELSE dedupe[i]
      /\ aborting' = aborting /\ stage' = stage /\ outcome' = outcome
      /\ IdOf[r] \in Id /\ \A k \in Req : IdOf[k] \in Id
  BY DEF Accept, TypeOK, laneVars
<1>2. KeyRemembered'
  BY <1>1 DEF KeyRemembered
<1>3. OneRunPerKey'
  BY <1>1 DEF OneRunPerKey, KeyRemembered, KnownKey
<1>4. IdsLeadToRuns'
  <2> SUFFICES ASSUME NEW i \in Id, activeRuns'[i] # NoReq
               PROVE  IdOf[activeRuns'[i]] = i /\ caller'[activeRuns'[i]] # "none"
    BY DEF IdsLeadToRuns
  <2>1. CASE i = IdOf[r]
    BY <1>1, <2>1
  <2>2. CASE i # IdOf[r]
    <3>1. activeRuns[i] \in Req /\ activeRuns'[i] = activeRuns[i]
      BY <1>1, <2>2 DEF TypeOK
    <3> QED
      BY <1>1, <3>1 DEF IdsLeadToRuns
  <2> QED
    BY <2>1, <2>2
<1>5. AbortsAwaitTheDead'
  BY <1>1 DEF AbortsAwaitTheDead, Alive
<1>6. AbortReachesRun'
  BY <1>1 DEF AbortReachesRun, SoleRunOfId, Alive
<1>7. EndedHasOutcome'
  BY <1>1 DEF EndedHasOutcome
<1> QED
  BY <1>2, <1>3, <1>4, <1>5, <1>6, <1>7

LEMMA RegistryCleanup ==
  ASSUME TypeOK, RegistryInv, NEW r \in Req, CleanupRun(r) \/ ChatCleanup(r)
  PROVE  RegistryInv'
<1> USE ConstantsAssumption DEF RegistryInv
<1>1. /\ caller[r] \in {"ok", "error", "aborted"}
      /\ \A k \in Req : caller'[k] = IF k = r THEN "done" ELSE caller[k]
      /\ \A i \in Id : activeRuns'[i] = IF i = IdOf[r] THEN NoReq ELSE activeRuns[i]
      /\ \A i \in Id : dedupe[i] # "none" => dedupe'[i] # "none"
      /\ aborting' = aborting /\ stage' = stage /\ outcome' = outcome
      /\ IdOf[r] \in Id /\ \A k \in Req : IdOf[k] \in Id
  BY DEF CleanupRun, ChatCleanup, Terminal, Unregister, TypeOK, laneVars
<1>2. KeyRemembered' /\ OneRunPerKey'
  BY <1>1 DEF KeyRemembered, OneRunPerKey
<1>3. IdsLeadToRuns'
  BY <1>1 DEF IdsLeadToRuns, TypeOK
<1>4. AbortsAwaitTheDead'
  BY <1>1 DEF AbortsAwaitTheDead, Alive
<1>5. AbortReachesRun'
  BY <1>1 DEF AbortReachesRun, SoleRunOfId, Alive
<1>6. EndedHasOutcome'
  BY <1>1 DEF EndedHasOutcome
<1> QED
  BY <1>2, <1>3, <1>4, <1>5, <1>6

LEMMA RegistryAbort ==
  ASSUME TypeOK, RegistryInv, NEW i \in Id, Abort(i) \/ AbortReturns(i)
  PROVE  RegistryInv'
<1> USE ConstantsAssumption DEF RegistryInv
<1>1. CASE Abort(i)
  <2> DEFINE r == activeRuns[i]
  <2>1. /\ r \in Req /\ IdOf[r] = i /\ caller[r] # "none"
        /\ caller'[r] # "none" /\ caller'[r] \notin {"created", "waiting"}
        /\ \A k \in Req \ {r} : caller'[k] = caller[k]
        /\ aborting' = aborting \union {i} /\ activeRuns' = activeRuns
        /\ dedupe' = dedupe /\ stage' = stage /\ outcome' = outcome
    BY <1>1 DEF Abort, Cancelled, Alive, IdsLeadToRuns, TypeOK, laneVars
  <2> HIDE DEF r
  <2>2. KeyRemembered' /\ OneRunPerKey'
    BY <2>1 DEF KeyRemembered, OneRunPerKey
  <2>3. IdsLeadToRuns'
    BY <2>1 DEF IdsLeadToRuns, TypeOK
  <2>4. AbortsAwaitTheDead'
    BY <2>1 DEF AbortsAwaitTheDead, Alive
  <2>5. AbortReachesRun'
    BY <2>1 DEF AbortReachesRun, SoleRunOfId, Alive
  <2>6. EndedHasOutcome'
    BY <2>1 DEF EndedHasOutcome
  <2> QED
    BY <2>2, <2>3, <2>4, <2>5, <2>6
<1>2. CASE AbortReturns(i)
  <2>1. /\ i \in aborting /\ aborting' = aborting \ {i}
        /\ \A j \in Id : activeRuns'[j] = IF j = i THEN NoReq ELSE activeRuns[j]
        /\ caller' = caller /\ dedupe' = dedupe
        /\ stage' = stage /\ outcome' = outcome
    BY <1>2 DEF AbortReturns, TypeOK, laneVars
  <2>2. KeyRemembered' /\ OneRunPerKey'
    BY <2>1 DEF KeyRemembered, OneRunPerKey
  <2>3. IdsLeadToRuns'
    BY <2>1 DEF IdsLeadToRuns, TypeOK
  <2>4. AbortsAwaitTheDead'
    BY <2>1 DEF AbortsAwaitTheDead, Alive
  <2>5. AbortReachesRun'
    <3> SUFFICES ASSUME NEW r \in Req, Alive(r), SoleRunOfId(r)
                 PROVE  activeRuns'[IdOf[r]] = r
      BY <2>1 DEF AbortReachesRun, SoleRunOfId, Alive
    <3>1. IdOf[r] # i
      BY <2>1 DEF AbortsAwaitTheDead, SoleRunOfId
    <3> QED
      BY <2>1, <3>1 DEF AbortReachesRun
  <2>6. EndedHasOutcome'
    BY <2>1 DEF EndedHasOutcome
  <2> QED
    BY <2>2, <2>3, <2>4, <2>5, <2>6
<1> QED
  BY <1>1, <1>2

LEMMA RegistryReplace == ReplaceProcess => RegistryInv'
  BY ConstantsAssumption
     DEF ReplaceProcess, RegistryInv, KeyRemembered, OneRunPerKey, IdsLeadToRuns,
         AbortsAwaitTheDead, AbortReachesRun, Alive, EndedHasOutcome

(* Only calls that ask for a reset await one. *)
ResetsAwaited == \A r \in Req : rpc[r] = "resetting" => r \in Resetting

LEMMA ResetsStep == TypeOK /\ ResetsAwaited /\ [Next]_vars => ResetsAwaited'
<1> SUFFICES ASSUME TypeOK, ResetsAwaited, [Next]_vars PROVE ResetsAwaited'
  OBVIOUS
<1>1. ASSUME NEW r \in Req, AgentCall(r) \/ ResetReturns(r) \/ ChatSend(r)
      PROVE  ResetsAwaited'
  BY <1>1 DEF AgentCall, ResetReturns, ChatSend, Accept, ResetsAwaited, TypeOK
<1>2. CASE ReplaceProcess
  BY <1>2 DEF ReplaceProcess, ResetsAwaited
<1>3. CASE rpc' = rpc
  BY <1>3 DEF ResetsAwaited
<1>4. ASSUME NEW r \in Req, Progress(r) PROVE ResetReturns(r) \/ rpc' = rpc
  BY <1>4 DEF Progress, EnterSessionLane, EnterCommandLane, RunEnds,
              SessionEntryEnds, CleanupRun, ChatTurnEnds, ChatCleanup, gatewayVars
<1>5. ASSUME Lanes \/ MarkDraining \/ WaitEnds PROVE rpc' = rpc
  BY <1>5 DEF Lanes, CommandLaneStarts, SessionLaneStarts, MarkDraining,
              WaitEnds, gatewayVars
<1>6. ASSUME NEW i \in Id, Abort(i) \/ AbortReturns(i) PROVE rpc' = rpc
  BY <1>6 DEF Abort, AbortReturns
<1>7. ASSUME NEW s \in Session, CancelChats(s) PROVE rpc' = rpc
  BY <1>7 DEF CancelChats, gatewayVars
<1> QED
  BY <1>1, <1>2, <1>3, <1>4, <1>5, <1>6, <1>7 DEF Next, vars

LEMMA RegistryStep ==
  TypeOK /\ SessionInv /\ ResetsAwaited /\ RegistryInv /\ [Next]_vars => RegistryInv'
<1> SUFFICES ASSUME TypeOK, SessionInv, ResetsAwaited, RegistryInv, [Next]_vars
             PROVE  RegistryInv'
  OBVIOUS
<1>0. /\ \A r \in Req : caller[r] = "created" => stage[r] = "idle"
      /\ \A r \in Req : rpc[r] \in {"new", "resetting"} => caller[r] = "none"
  BY DEF SessionInv, EntryAfterTask
<1>00. \A r \in Req : stage[r] = "returning" => outcome[r] # "none"
  BY DEF RegistryInv, EndedHasOutcome
<1> DEFINE RunKept(k) == /\ caller'[k] = "none" <=> caller[k] = "none"
                         /\ caller'[k] \in {"created", "waiting"} => Alive(k)
                         /\ stage'[k] = "returning" => outcome'[k] # "none"
<1>a. ASSUME UNCHANGED <<dedupe, activeRuns, aborting>>, \A k \in Req : RunKept(k)
      PROVE  RegistryInv'
  BY <1>a, RegistryKept
<1>b. ASSUME UNCHANGED <<dedupe, activeRuns, aborting, caller, outcome>>,
             \A k \in Req : stage'[k] = stage[k] \/ stage'[k] # "returning"
      PROVE  RegistryInv'
  <2>1. \A k \in Req : RunKept(k)
    BY <1>00, <1>b DEF Alive
  <2> QED
    BY <1>a, <1>b, <2>1
<1>c. ASSUME NEW s, caller' = caller \/ caller' = ChatsCancelled(s),
             UNCHANGED <<dedupe, activeRuns, aborting, stage, outcome>>
      PROVE  RegistryInv'
  <2>1. \A k \in Req :
          caller'[k] = caller[k] \/ (Alive(k) /\ caller'[k] = "aborted")
    BY <1>c, ChatsCancelledOnly
  <2>2. \A k \in Req : RunKept(k)
    BY <1>00, <1>c, <2>1 DEF Alive
  <2> QED
    BY <1>a, <1>c, <2>2
<1>1. ASSUME NEW r \in Req, AgentCall(r) PROVE RegistryInv'
  <2>1. CASE Accept(r)
    <3>1. ~KnownKey(r) /\ UNCHANGED laneVars /\ caller[r] = "none"
      BY <1>0, <1>1, <2>1, ConstantsAssumption DEF AgentCall, Accept, TypeOK
    <3> QED
      BY <2>1, <3>1, RegistryAccept
  <2>2. CASE ~Accept(r)
    <3>1. /\ caller' = caller \/ caller' = ChatsCancelled(SessionOf[r])
          /\ UNCHANGED <<dedupe, activeRuns, aborting, stage, outcome>>
      BY <1>1, <2>2 DEF AgentCall, laneVars
    <3> QED
      BY <1>c, <3>1
  <2> QED
    BY <2>1, <2>2
<1>2. ASSUME NEW r \in Req, ResetReturns(r) \/ ChatSend(r) PROVE RegistryInv'
  <2>1. Accept(r) /\ UNCHANGED laneVars /\ caller[r] = "none"
    BY <1>0, <1>2 DEF ResetReturns, ChatSend
  <2>2. r \in Resetting \/ r \notin Keyed
    BY <1>2, ConstantsAssumption DEF ResetReturns, ChatSend, ResetsAwaited
  <2> QED
    BY <2>1, <2>2, RegistryAccept
<1>3. ASSUME NEW r \in Req, EnterSessionLane(r) PROVE RegistryInv'
  <2>1. \A k \in Req : RunKept(k)
    BY <1>00, <1>3 DEF EnterSessionLane, TypeOK, Alive, laneVars
  <2> QED
    BY <1>3, <1>a, <2>1 DEF EnterSessionLane, gatewayVars
<1>4. ASSUME NEW r \in Req, EnterCommandLane(r) PROVE RegistryInv'
  <2>1. \A k \in Req : RunKept(k)
    BY <1>00, <1>4 DEF EnterCommandLane, TypeOK, Alive
  <2> QED
    BY <1>4, <1>a, <2>1 DEF EnterCommandLane, gatewayVars
<1>5. ASSUME NEW r \in Req, RunEnds(r) PROVE RegistryInv'
  <2>1. \A k \in Req : RunKept(k)
    BY <1>00, <1>5 DEF RunEnds, TypeOK, Alive
  <2> QED
    BY <1>5, <1>a, <2>1 DEF RunEnds, gatewayVars
<1>6. ASSUME NEW r \in Req, SessionEntryEnds(r) PROVE RegistryInv'
  <2>1. \A k \in Req : RunKept(k)
    BY <1>00, <1>6 DEF SessionEntryEnds, TypeOK, Alive
  <2> QED
    BY <1>6, <1>a, <2>1 DEF SessionEntryEnds, gatewayVars
<1>7. ASSUME NEW r \in Req, CleanupRun(r) \/ ChatCleanup(r) PROVE RegistryInv'
  BY <1>7, RegistryCleanup
<1>8. CASE CommandLaneStarts
  BY <1>8, <1>b, LineTypes DEF CommandLaneStarts, gatewayVars, TypeOK
<1>9. ASSUME NEW s \in Session, SessionLaneStarts(s) PROVE RegistryInv'
  BY <1>9, <1>b, LineTypes DEF SessionLaneStarts, gatewayVars, TypeOK
<1>10. ASSUME NEW i \in Id, Abort(i) \/ AbortReturns(i) PROVE RegistryInv'
  BY <1>10, RegistryAbort
<1>11. CASE MarkDraining \/ WaitEnds
  BY <1>11, <1>b DEF MarkDraining, WaitEnds, laneVars, gatewayVars
<1>12. CASE ReplaceProcess
  BY <1>12, RegistryReplace
<1>13. CASE UNCHANGED vars
  BY <1>13, <1>b DEF vars
<1>14. ASSUME NEW r \in Req, ChatTurnEnds(r) PROVE RegistryInv'
  <2>1. \A k \in Req : RunKept(k)
    BY <1>00, <1>14 DEF ChatTurnEnds, TypeOK, Alive
  <2> QED
    BY <1>14, <1>a, <2>1 DEF ChatTurnEnds, gatewayVars
<1>15. ASSUME NEW s \in Session, CancelChats(s) PROVE RegistryInv'
  BY <1>15, <1>c DEF CancelChats, laneVars, gatewayVars
<1> QED
  BY <1>1, <1>2, <1>3, <1>4, <1>5, <1>6, <1>7, <1>8, <1>9, <1>10, <1>11,
     <1>12, <1>13, <1>14, <1>15 DEF Next, Progress, Lanes

LEMMA RegistryAlways == Spec => [](TypeOK /\ SessionInv /\ RegistryInv)
<1>1. Init => ResetsAwaited
  BY DEF Init, ResetsAwaited
<1> QED
  BY <1>1, TypeInit, TypeStep, SessionInit, SessionStep, ResetsStep,
     RegistryInit, RegistryStep, PTL DEF Spec

(* Idempotency: plain calls with one key never make two runs within one    *)
(* process, whatever aborts, drains and ends come between.                 *)
THEOREM OneRunPerKeyHolds == Spec => []OneRunPerKey
<1>1. RegistryInv => OneRunPerKey
  BY DEF RegistryInv
<1> QED
  BY <1>1, RegistryAlways, PTL

(* Abort: the id of a living run leads chat.abort to its task.             *)
THEOREM AbortReachesRunHolds == Spec => []AbortReachesRun
<1>1. RegistryInv => AbortReachesRun
  BY DEF RegistryInv
<1> QED
  BY <1>1, RegistryAlways, PTL

-----------------------------------------------------------------------------
(* The reported status.  A task ends "ok" only with its entry over and its *)
(* turn executed to the end, and an entry that is over stays over, because *)
(* every step of the lanes moves an entry that is not.                     *)

Finished(r) == stage[r] = "over" /\ outcome[r] = "ok"

TruthInv ==
  /\ \A r \in Req : caller[r] = "ok" => Finished(r)
  /\ \A i \in Id : status[i] = "ok" => \E r \in Req : IdOf[r] = i /\ Finished(r)

LEMMA FinishedStays ==
  ASSUME TypeOK, SessionInv, [Next]_vars, ~ReplaceProcess, NEW r \in Req, Finished(r)
  PROVE  Finished(r)'
<1> USE DEF Finished
<1>1. ASSUME UNCHANGED laneVars PROVE Finished(r)'
  BY <1>1 DEF laneVars
<1>2. ASSUME NEW k \in Req, EnterSessionLane(k) \/ EnterCommandLane(k) \/ RunEnds(k)
                            \/ SessionEntryEnds(k) \/ ChatTurnEnds(k)
      PROVE  Finished(r)'
  <2>1. stage[k] # "over"
    BY <1>2 DEF EnterSessionLane, EnterCommandLane, RunEnds, SessionEntryEnds,
                ChatTurnEnds, SessionInv, EntryAfterTask
  <2> QED
    BY <1>1, <1>2, <2>1 DEF EnterSessionLane, EnterCommandLane, RunEnds,
                            SessionEntryEnds, ChatTurnEnds, TypeOK
<1>3. CASE CommandLaneStarts
  <2>1. /\ Head(commandLine) \in Req
        /\ Head(commandLine) \in Range(commandLine)
    BY <1>3, LineTypes, InjectiveTail
       DEF CommandLaneStarts, SessionInv, CommandLineHoldsWaiting, TypeOK
  <2>2. stage[Head(commandLine)] # "over"
    BY <2>1 DEF SessionInv, CommandLineHoldsWaiting
  <2> QED
    BY <1>3, <2>1, <2>2 DEF CommandLaneStarts, TypeOK
<1>4. ASSUME NEW s \in Session, SessionLaneStarts(s) PROVE Finished(r)'
  <2>1. /\ Head(sessionLine[s]) \in Req
        /\ Head(sessionLine[s]) \in Range(sessionLine[s])
    <3>1. sessionLine[s] \in Seq(Req) /\ IsInjective(sessionLine[s]) /\ sessionLine[s] # <<>>
      BY <1>4 DEF SessionLaneStarts, SessionInv, SessionLines, TypeOK
    <3> QED
      BY <3>1, LineTypes, InjectiveTail
  <2>2. stage[Head(sessionLine[s])] # "over"
    BY <2>1 DEF SessionInv, SessionLines
  <2> QED
    BY <1>4, <2>1, <2>2 DEF SessionLaneStarts, TypeOK
<1>5. ASSUME NEW k \in Req, AgentCall(k) \/ ResetReturns(k) \/ CleanupRun(k)
                            \/ ChatSend(k) \/ ChatCleanup(k)
      PROVE  Finished(r)'
  BY <1>1, <1>5 DEF AgentCall, ResetReturns, CleanupRun, ChatSend, ChatCleanup
<1>6. ASSUME NEW i \in Id, Abort(i) \/ AbortReturns(i) PROVE Finished(r)'
  BY <1>1, <1>6 DEF Abort, AbortReturns
<1>7. CASE MarkDraining \/ WaitEnds \/ UNCHANGED vars
  BY <1>1, <1>7 DEF MarkDraining, WaitEnds, vars, laneVars
<1>8. ASSUME NEW s \in Session, CancelChats(s) PROVE Finished(r)'
  BY <1>1, <1>8 DEF CancelChats
<1> QED
  BY <1>2, <1>3, <1>4, <1>5, <1>6, <1>7, <1>8 DEF Next, Progress, Lanes

LEMMA TruthStep == TypeOK /\ SessionInv /\ TruthInv /\ [Next]_vars => TruthInv'
<1> SUFFICES ASSUME TypeOK, SessionInv, TruthInv, [Next]_vars PROVE TruthInv'
  OBVIOUS
<1>1. CASE ReplaceProcess
  BY <1>1 DEF ReplaceProcess, TruthInv
<1>2. CASE ~ReplaceProcess
  <2>0. \A r \in Req : Finished(r) => Finished(r)'
    BY <1>2, FinishedStays
  <2> DEFINE StatusFrom(i) == status'[i] = "ok" =>
               status[i] = "ok" \/ \E r \in Req : IdOf[r] = i /\ caller[r] = "ok"
             CallerFrom(r) == caller'[r] = "ok" => caller[r] = "ok" \/ Finished(r)'
  <2>1. ASSUME \A r \in Req : CallerFrom(r), \A i \in Id : StatusFrom(i)
        PROVE  TruthInv'
    <3> HIDE DEF Finished
    <3>1. \A r \in Req : (caller'[r] = "ok" => Finished(r)')
      BY <2>0, <2>1 DEF TruthInv
    <3>2. \A i \in Id : (status'[i] = "ok" => \E r \in Req : IdOf[r] = i /\ Finished(r)')
      BY <2>0, <2>1 DEF TruthInv
    <3> QED
      BY <3>1, <3>2 DEF TruthInv
  <2>2. ASSUME UNCHANGED status, \A r \in Req : caller'[r] # "ok" \/ caller[r] = "ok"
        PROVE  TruthInv'
    BY <2>1, <2>2
  <2>3. ASSUME NEW r \in Req, AgentCall(r) \/ ResetReturns(r) \/ EnterSessionLane(r)
                              \/ EnterCommandLane(r) \/ RunEnds(r) \/ ChatSend(r)
                              \/ ChatCleanup(r)
        PROVE  TruthInv'
    <3>1. UNCHANGED status /\ \A k \in Req : caller'[k] # "ok" \/ caller[k] = "ok"
      BY <2>3 DEF AgentCall, ResetReturns, Accept, EnterSessionLane,
                  EnterCommandLane, RunEnds, ChatSend, ChatCleanup,
                  ChatsCancelled, gatewayVars, TypeOK
    <3> QED
      BY <2>2, <3>1
  <2>4. ASSUME NEW r \in Req, SessionEntryEnds(r) \/ ChatTurnEnds(r) PROVE TruthInv'
    <3>1. UNCHANGED status /\ \A k \in Req \ {r} : caller'[k] = caller[k]
      BY <2>4 DEF SessionEntryEnds, ChatTurnEnds, gatewayVars, TypeOK
    <3>2. CallerFrom(r)
      BY <2>4 DEF SessionEntryEnds, ChatTurnEnds, Finished, TypeOK
    <3> QED
      BY <2>1, <3>1, <3>2
  <2>5. ASSUME NEW r \in Req, CleanupRun(r) PROVE TruthInv'
    <3>1. /\ \A k \in Req : caller'[k] = IF k = r THEN "done" ELSE caller[k]
          /\ \A i \in Id : status'[i] = IF i = IdOf[r] THEN caller[r] ELSE status[i]
      BY <2>5 DEF CleanupRun, Reported, TypeOK
    <3> QED
      BY <2>1, <3>1
  <2>6. CASE Lanes \/ MarkDraining \/ WaitEnds \/ UNCHANGED vars
    BY <2>2, <2>6 DEF Lanes, CommandLaneStarts, SessionLaneStarts, MarkDraining,
                      WaitEnds, vars, gatewayVars
  <2>7. ASSUME NEW i \in Id, Abort(i) \/ AbortReturns(i) PROVE TruthInv'
    <3>1. UNCHANGED status /\ \A k \in Req : caller'[k] # "ok" \/ caller[k] = "ok"
      BY <2>7 DEF Abort, AbortReturns, Cancelled, TypeOK
    <3> QED
      BY <2>2, <3>1
  <2>8. ASSUME NEW s \in Session, CancelChats(s) PROVE TruthInv'
    <3>1. UNCHANGED status /\ \A k \in Req : caller'[k] # "ok" \/ caller[k] = "ok"
      BY <2>8 DEF CancelChats, ChatsCancelled, gatewayVars
    <3> QED
      BY <2>2, <3>1
  <2> QED
    BY <1>2, <2>3, <2>4, <2>5, <2>6, <2>7, <2>8 DEF Next, Progress
<1> QED
  BY <1>1, <1>2

(* The status agent.wait returns: "ok" is said only of a turn that was     *)
(* executed to its end.                                                    *)
THEOREM StatusTruthfulHolds == Spec => []StatusTruthful
<1>1. Init => TruthInv
  BY DEF Init, TruthInv
<1>2. TruthInv => StatusTruthful
  BY DEF TruthInv, StatusTruthful, Finished
<1> QED
  BY <1>1, <1>2, TypeInit, TypeStep, SessionInit, SessionStep, TruthStep, PTL DEF Spec

-----------------------------------------------------------------------------
(* The nested lanes.  What is in a line and what a stage says are the same *)
(* thing, in both directions: SessionInv has one, LinesInv the other.      *)

LinesInv ==
  /\ \A r \in Req : stage[r] = "sessionQueued" => r \in Range(sessionLine[SessionOf[r]])
  /\ \A r \in Req : stage[r] = "commandQueued" => r \in Range(commandLine)
  /\ \A r \in Req : caller[r] = "waiting" => InLanes(r)
  /\ \A r \in Chats : stage[r] \in {"idle", "over"} /\ caller[r] # "waiting"
  /\ IsFiniteSet(InCommandLane) /\ Cardinality(InCommandLane) <= Cap

(* What a step does to the entries: nothing, or it moves one of them to    *)
(* another stage, with its line.                                           *)
Moves(r, st) == stage' = [stage EXCEPT ![r] = st]
JoinsSessionLine(r) ==
  /\ stage[r] = "idle" /\ Moves(r, "sessionQueued") /\ ~draining
  /\ sessionLine' = [sessionLine EXCEPT ![SessionOf[r]] = Append(@, r)]
  /\ UNCHANGED <<outcome, commandLine>>
LeavesSessionLine(r) ==
  LET s == SessionOf[r]
  IN  /\ stage[r] = "sessionQueued" /\ Moves(r, "entering") /\ SessionFree(s)
      /\ sessionLine[s] # <<>> /\ Head(sessionLine[s]) = r
      /\ sessionLine' = [sessionLine EXCEPT ![s] = Tail(@)]
      /\ UNCHANGED <<outcome, commandLine>>
JoinsCommandLine(r) ==
  /\ stage[r] = "entering" /\ Moves(r, "commandQueued") /\ ~draining
  /\ commandLine' = Append(commandLine, r)
  /\ UNCHANGED <<outcome, sessionLine>>
IsRefused(r) ==
  /\ stage[r] = "entering" /\ Moves(r, "returning")
  /\ outcome' = [outcome EXCEPT ![r] = "error"]
  /\ UNCHANGED <<sessionLine, commandLine>>
LeavesCommandLine(r) ==
  /\ stage[r] = "commandQueued" /\ Moves(r, "executing")
  /\ commandLine # <<>> /\ Head(commandLine) = r /\ Cardinality(InCommandLane) < Cap
  /\ commandLine' = Tail(commandLine)
  /\ UNCHANGED <<outcome, sessionLine>>
Ends(r) ==
  /\ stage[r] = "executing" /\ Moves(r, "returning")
  /\ \E o \in {"ok", "error"} : outcome' = [outcome EXCEPT ![r] = o]
  /\ UNCHANGED <<sessionLine, commandLine>>
Returns(r) ==
  /\ stage[r] = "returning" /\ Moves(r, "over")
  /\ UNCHANGED <<outcome, sessionLine, commandLine>>
ChatEnds(r) ==
  /\ r \in Chats /\ stage[r] = "idle" /\ Moves(r, "over")
  /\ outcome' = [outcome EXCEPT ![r] = "ok"]
  /\ UNCHANGED <<sessionLine, commandLine>>

EntryMoves(r) ==
  \/ JoinsSessionLine(r) \/ LeavesSessionLine(r) \/ JoinsCommandLine(r)
  \/ IsRefused(r) \/ LeavesCommandLine(r) \/ Ends(r) \/ Returns(r)

LEMMA LaneSteps ==
  ASSUME TypeOK, SessionInv, [Next]_vars, ~ReplaceProcess,
         \A r \in Chats : stage[r] \in {"idle", "over"}
  PROVE  \/ UNCHANGED laneVars
         \/ \E r \in Entry : EntryMoves(r)
         \/ \E r \in Req : ChatEnds(r)
<1> USE DEF Moves
<1>0. \A r \in Req : stage[r] \notin {"idle", "over"} => r \in Entry
  BY DEF Entry
<1>1. ASSUME NEW r \in Req, EnterSessionLane(r)
      PROVE  UNCHANGED laneVars \/ (r \in Entry /\ EntryMoves(r))
  <2>1. stage[r] = "idle" /\ r \in Entry
    BY <1>1 DEF EnterSessionLane, SessionInv, EntryAfterTask, Entry
  <2> QED
    BY <1>1, <2>1 DEF EnterSessionLane, Refused, EntryMoves, JoinsSessionLine
<1>2. ASSUME NEW s \in Session, SessionLaneStarts(s)
      PROVE  \E r \in Entry : EntryMoves(r)
  <2> DEFINE h == Head(sessionLine[s])
  <2>1. h \in Req /\ stage[h] = "sessionQueued" /\ SessionOf[h] = s
    <3>1. sessionLine[s] \in Seq(Req) /\ IsInjective(sessionLine[s]) /\ sessionLine[s] # <<>>
      BY <1>2 DEF SessionLaneStarts, SessionInv, SessionLines, TypeOK
    <3>2. h \in Req /\ h \in Range(sessionLine[s])
      BY <3>1, LineTypes, InjectiveTail
    <3> QED
      BY <3>2 DEF SessionInv, SessionLines
  <2>2. h \in Entry
    BY <1>0, <2>1
  <2>3. LeavesSessionLine(h)
    BY <1>2, <2>1 DEF SessionLaneStarts, LeavesSessionLine
  <2> QED
    BY <2>2, <2>3 DEF EntryMoves
<1>3. CASE CommandLaneStarts
  <2> DEFINE h == Head(commandLine)
  <2>1. h \in Req /\ stage[h] = "commandQueued"
    <3>1. commandLine \in Seq(Req) /\ IsInjective(commandLine) /\ commandLine # <<>>
      BY <1>3 DEF CommandLaneStarts, SessionInv, CommandLineHoldsWaiting, TypeOK
    <3>2. h \in Req /\ h \in Range(commandLine)
      BY <3>1, LineTypes, InjectiveTail
    <3> QED
      BY <3>2 DEF SessionInv, CommandLineHoldsWaiting
  <2>2. h \in Entry
    BY <1>0, <2>1
  <2>3. LeavesCommandLine(h)
    BY <1>3, <2>1 DEF CommandLaneStarts, LeavesCommandLine
  <2> QED
    BY <2>2, <2>3 DEF EntryMoves
<1>4. ASSUME NEW r \in Req, EnterCommandLane(r) \/ RunEnds(r) \/ SessionEntryEnds(r)
      PROVE  r \in Entry /\ EntryMoves(r)
  <2>1. r \in Entry
    BY <1>0, <1>4 DEF EnterCommandLane, RunEnds, SessionEntryEnds
  <2>2. CASE EnterCommandLane(r)
    BY <2>1, <2>2 DEF EnterCommandLane, Refused, EntryMoves, JoinsCommandLine, IsRefused
  <2>3. CASE RunEnds(r)
    BY <2>1, <2>3 DEF RunEnds, EntryMoves, Ends
  <2>4. CASE SessionEntryEnds(r)
    BY <2>1, <2>4 DEF SessionEntryEnds, EntryMoves, Returns
  <2> QED
    BY <1>4, <2>2, <2>3, <2>4
<1>5. ASSUME NEW r \in Req, ChatTurnEnds(r) PROVE ChatEnds(r)
  BY <1>5 DEF ChatTurnEnds, ChatEnds, SessionInv, EntryAfterTask
<1>6. ASSUME NEW r \in Req, AgentCall(r) \/ ResetReturns(r) \/ CleanupRun(r)
                            \/ ChatSend(r) \/ ChatCleanup(r)
      PROVE  UNCHANGED laneVars
  BY <1>6 DEF AgentCall, ResetReturns, CleanupRun, ChatSend, ChatCleanup
<1>7. ASSUME NEW i \in Id, Abort(i) \/ AbortReturns(i) PROVE UNCHANGED laneVars
  BY <1>7 DEF Abort, AbortReturns
<1>8. ASSUME NEW s \in Session, CancelChats(s) PROVE UNCHANGED laneVars
  BY <1>8 DEF CancelChats
<1>9. CASE MarkDraining \/ WaitEnds \/ UNCHANGED vars
  BY <1>9 DEF MarkDraining, WaitEnds, vars, laneVars
<1> QED
  BY <1>1, <1>2, <1>3, <1>4, <1>5, <1>6, <1>7, <1>8, <1>9
     DEF Next, Progress, Lanes, Entry

(* The lines.  The caller of an entry that moves goes on waiting until the *)
(* entry is over.                                                          *)
LEMMA LinesInit == Init => LinesInv
<1> SUFFICES ASSUME Init PROVE LinesInv
  OBVIOUS
<1>1. InCommandLane = {}
  BY DEF Init, InCommandLane, At
<1>2. IsFiniteSet(InCommandLane) /\ Cardinality(InCommandLane) = 0
  BY <1>1, FS_EmptySet
<1> QED
  BY <1>2, ConstantsAssumption DEF Init, LinesInv, InLanes

LEMMA WaitingCallers ==
  ASSUME TypeOK, SessionInv, LinesInv, [Next]_vars, ~ReplaceProcess
  PROVE  /\ \A r \in Req : caller'[r] = "waiting" => InLanes(r)'
         /\ \A r \in Chats : stage'[r] \in {"idle", "over"} /\ caller'[r] # "waiting"
<1> DEFINE Kept(r) == caller'[r] = "waiting" => caller[r] = "waiting"
           Good == /\ \A r \in Req : caller'[r] = "waiting" => InLanes(r)'
                   /\ \A r \in Chats : stage'[r] \in {"idle", "over"} /\ caller'[r] # "waiting"
<1> USE ConstantsAssumption DEF InLanes
<1>a. ASSUME UNCHANGED laneVars, \A r \in Req : Kept(r) PROVE Good
  BY <1>a DEF LinesInv, laneVars
<1>b. ASSUME UNCHANGED caller, NEW r \in Req, r \notin Chats, NEW st, Moves(r, st),
             st \notin {"idle", "over"}
      PROVE  Good
  BY <1>b DEF LinesInv, Moves, TypeOK
<1>1. ASSUME NEW r \in Req, EnterSessionLane(r) PROVE Good
  <2>1. CASE Refused
    <3>1. \A k \in Req : Kept(k)
      BY <1>1, <2>1 DEF EnterSessionLane, TypeOK
    <3> QED
      BY <1>1, <1>a, <2>1, <3>1 DEF EnterSessionLane
  <2>2. CASE ~Refused
    <3>1. /\ r \notin Chats
          /\ \A k \in Req : caller'[k] = IF k = r THEN "waiting" ELSE caller[k]
          /\ \A k \in Req : stage'[k] = IF k = r THEN "sessionQueued" ELSE stage[k]
      BY <1>1, <2>2 DEF EnterSessionLane, TypeOK
    <3> QED
      BY <3>1 DEF LinesInv
  <2> QED
    BY <2>1, <2>2
<1>2. ASSUME NEW s \in Session, SessionLaneStarts(s) PROVE Good
  <2>1. PICK r \in Req : r \notin Chats /\ Moves(r, "entering")
    <3> DEFINE h == Head(sessionLine[s])
    <3>1. sessionLine[s] \in Seq(Req) /\ IsInjective(sessionLine[s]) /\ sessionLine[s] # <<>>
      BY <1>2 DEF SessionLaneStarts, SessionInv, SessionLines, TypeOK
    <3>2. h \in Req /\ h \in Range(sessionLine[s])
      BY <3>1, LineTypes, InjectiveTail
    <3>3. stage[h] = "sessionQueued"
      BY <3>2 DEF SessionInv, SessionLines
    <3> QED
      BY <1>2, <3>2, <3>3 DEF SessionLaneStarts, Moves, LinesInv
  <2> QED
    BY <1>2, <1>b, <2>1 DEF SessionLaneStarts
<1>3. CASE CommandLaneStarts
  <2>1. PICK r \in Req : r \notin Chats /\ Moves(r, "executing")
    <3> DEFINE h == Head(commandLine)
    <3>1. commandLine \in Seq(Req) /\ IsInjective(commandLine) /\ commandLine # <<>>
      BY <1>3 DEF CommandLaneStarts, SessionInv, CommandLineHoldsWaiting, TypeOK
    <3>2. h \in Req /\ h \in Range(commandLine)
      BY <3>1, LineTypes, InjectiveTail
    <3>3. stage[h] = "commandQueued"
      BY <3>2 DEF SessionInv, CommandLineHoldsWaiting
    <3> QED
      BY <1>3, <3>2, <3>3 DEF CommandLaneStarts, Moves, LinesInv
  <2> QED
    BY <1>3, <1>b, <2>1 DEF CommandLaneStarts
<1>4. ASSUME NEW r \in Req, EnterCommandLane(r) \/ RunEnds(r) PROVE Good
  <2>1. r \notin Chats /\ UNCHANGED caller
    BY <1>4 DEF EnterCommandLane, RunEnds, LinesInv
  <2>2. Moves(r, "commandQueued") \/ Moves(r, "returning")
    BY <1>4 DEF EnterCommandLane, RunEnds, Moves
  <2> QED
    BY <1>b, <2>1, <2>2
<1>5. ASSUME NEW r \in Req, SessionEntryEnds(r) PROVE Good
  <2>1. /\ r \notin Chats /\ caller'[r] # "waiting"
        /\ \A k \in Req \ {r} : caller'[k] = caller[k]
        /\ \A k \in Req : stage'[k] = IF k = r THEN "over" ELSE stage[k]
    <3>1. outcome[r] # "waiting"
      BY DEF TypeOK
    <3> QED
      BY <1>5, <3>1 DEF SessionEntryEnds, LinesInv, TypeOK
  <2> QED
    BY <2>1 DEF LinesInv
<1>6. ASSUME NEW r \in Req, ChatTurnEnds(r) PROVE Good
  <2>1. /\ r \in Chats /\ caller'[r] = "ok"
        /\ \A k \in Req \ {r} : caller'[k] = caller[k]
        /\ \A k \in Req : stage'[k] = IF k = r THEN "over" ELSE stage[k]
    BY <1>6 DEF ChatTurnEnds, TypeOK
  <2> QED
    BY <2>1 DEF LinesInv
<1>c. ASSUME NEW s, caller' = caller \/ caller' = ChatsCancelled(s), UNCHANGED laneVars
      PROVE  Good
  <2>1. \A k \in Req : Kept(k)
    BY <1>c, ChatsCancelledOnly
  <2> QED
    BY <1>a, <1>c, <2>1
<1>7. ASSUME NEW r \in Req, AgentCall(r) \/ ResetReturns(r) \/ ChatSend(r) PROVE Good
  <2>1. CASE Accept(r)
    <3>1. \A k \in Req : Kept(k)
      BY <2>1 DEF Accept, TypeOK
    <3> QED
      BY <1>7, <1>a, <3>1 DEF AgentCall, ResetReturns, ChatSend
  <2>2. CASE ~Accept(r)
    BY <1>7, <1>c, <2>2 DEF AgentCall, ResetReturns, ChatSend
  <2> QED
    BY <2>1, <2>2
<1>8. ASSUME NEW r \in Req, CleanupRun(r) \/ ChatCleanup(r) PROVE Good
  <2>1. \A k \in Req : Kept(k)
    BY <1>8 DEF CleanupRun, ChatCleanup, TypeOK
  <2> QED
    BY <1>8, <1>a, <2>1 DEF CleanupRun, ChatCleanup
<1>9. ASSUME NEW i \in Id, Abort(i) \/ AbortReturns(i) PROVE Good
  <2>1. \A k \in Req : Kept(k)
    BY <1>9 DEF Abort, AbortReturns, Cancelled, TypeOK
  <2> QED
    BY <1>9, <1>a, <2>1 DEF Abort, AbortReturns
<1>10. ASSUME NEW s \in Session, CancelChats(s) PROVE Good
  BY <1>10, <1>c DEF CancelChats
<1>11. CASE MarkDraining \/ WaitEnds \/ UNCHANGED vars
  BY <1>11, <1>a DEF MarkDraining, WaitEnds, vars, laneVars
<1> QED
  BY <1>1, <1>2, <1>3, <1>4, <1>5, <1>6, <1>7, <1>8, <1>9, <1>10, <1>11
     DEF Next, Progress, Lanes

LEMMA CommandLaneCount ==
  ASSUME TypeOK, IsFiniteSet(InCommandLane), Cardinality(InCommandLane) <= Cap,
         NEW r \in Req, NEW st, Moves(r, st),
         st = "executing" => Cardinality(InCommandLane) < Cap
  PROVE  IsFiniteSet(InCommandLane') /\ Cardinality(InCommandLane') <= Cap
<1>1. \A k \in Req : stage'[k] = IF k = r THEN st ELSE stage[k]
  BY DEF Moves, TypeOK
<1>2. Cardinality(InCommandLane) \in Nat /\ Cap \in Nat
  BY FS_CardinalityType, ConstantsAssumption
<1>3. CASE st = "executing"
  <2>1. InCommandLane' = InCommandLane \union {r}
    BY <1>1, <1>3 DEF InCommandLane, At
  <2>2. /\ IsFiniteSet(InCommandLane \union {r})
        /\ Cardinality(InCommandLane \union {r}) <= Cardinality(InCommandLane) + 1
    BY <1>2, FS_AddElement
  <2>3. Cardinality(InCommandLane \union {r}) \in Nat
    BY <2>2, FS_CardinalityType
  <2> QED
    BY <1>2, <1>3, <2>1, <2>2, <2>3
<1>4. CASE st # "executing"
  <2>1. InCommandLane' = InCommandLane \ {r}
    BY <1>1, <1>4 DEF InCommandLane, At
  <2>2. InCommandLane' \subseteq InCommandLane
    BY <2>1
  <2>3. IsFiniteSet(InCommandLane') /\ Cardinality(InCommandLane') <= Cardinality(InCommandLane)
    BY <2>2, FS_Subset
  <2>4. Cardinality(InCommandLane') \in Nat
    BY <2>3, FS_CardinalityType
  <2> QED
    BY <1>2, <2>3, <2>4
<1> QED
  BY <1>3, <1>4

LEMMA LinesStep ==
  TypeOK /\ TypeOK' /\ SessionInv /\ LinesInv /\ [Next]_vars => LinesInv'
<1> SUFFICES ASSUME TypeOK, TypeOK', SessionInv, LinesInv, [Next]_vars PROVE LinesInv'
  OBVIOUS
<1> USE ConstantsAssumption
<1> DEFINE InSessionLine(r) == stage[r] = "sessionQueued" =>
                                 r \in Range(sessionLine[SessionOf[r]])
           InLine(r) == stage[r] = "commandQueued" => r \in Range(commandLine)
<1>1. CASE ReplaceProcess
  <2>1. \A r \in Req : stage'[r] = "idle" /\ caller'[r] = "none"
    BY <1>1 DEF ReplaceProcess
  <2>2. InCommandLane' = {}
    BY <2>1 DEF InCommandLane, At
  <2>3. IsFiniteSet(InCommandLane') /\ Cardinality(InCommandLane') = 0
    BY <2>2, FS_EmptySet
  <2> QED
    BY <2>1, <2>3 DEF LinesInv
<1>2. CASE ~ReplaceProcess
  <2>0. \A r \in Req : InSessionLine(r) /\ InLine(r)
    BY DEF LinesInv
  <2>00. /\ commandLine \in Seq(Req) /\ IsInjective(commandLine)
         /\ \A s \in Session : sessionLine[s] \in Seq(Req) /\ IsInjective(sessionLine[s])
         /\ \A k \in Req : stage[k] # "commandQueued" => k \notin Range(commandLine)
         /\ \A k \in Req : \A s \in Session :
              stage[k] # "sessionQueued" => k \notin Range(sessionLine[s])
    BY DEF TypeOK, SessionInv, SessionLines, CommandLineHoldsWaiting
  <2>1. ASSUME \A r \in Req : InSessionLine(r)' /\ InLine(r)',
               IsFiniteSet(InCommandLane'), Cardinality(InCommandLane') <= Cap
        PROVE  LinesInv'
    BY <1>2, <2>1, WaitingCallers DEF LinesInv
  <2>2. CASE UNCHANGED laneVars
    <3>1. InCommandLane' = InCommandLane
      BY <2>2 DEF laneVars, InCommandLane, At
    <3> QED
      BY <2>0, <2>1, <2>2, <3>1 DEF laneVars, LinesInv
  <2>3. ASSUME NEW r \in Entry, EntryMoves(r) PROVE LinesInv'
    <3>0. r \in Req /\ SessionOf[r] \in Session
      BY DEF Entry
    <3>m. ASSUME NEW st, Moves(r, st) PROVE \A k \in Req : stage'[k] = IF k = r THEN st ELSE stage[k]
      BY <3>m DEF Moves, TypeOK
    <3>1. IsFiniteSet(InCommandLane') /\ Cardinality(InCommandLane') <= Cap
      <4>1. PICK st : Moves(r, st) /\ (st = "executing" => Cardinality(InCommandLane) < Cap)
        BY <2>3 DEF EntryMoves, JoinsSessionLine, LeavesSessionLine, JoinsCommandLine,
                    IsRefused, LeavesCommandLine, Ends, Returns
      <4> QED
        BY <3>0, <4>1, CommandLaneCount DEF LinesInv
    <3>2. CASE JoinsSessionLine(r)
      <4> DEFINE s == SessionOf[r]
                 line == Append(sessionLine[s], r)
      <4>1. /\ \A k \in Req : stage'[k] = IF k = r THEN "sessionQueued" ELSE stage[k]
            /\ \A t \in Session : sessionLine'[t] = IF t = s THEN line ELSE sessionLine[t]
            /\ commandLine' = commandLine
        BY <3>0, <3>2, <3>m DEF JoinsSessionLine, TypeOK
      <4>2. Range(line) = Range(sessionLine[s]) \union {r}
        BY <2>00, <3>0, <3>2, InjectiveAppend DEF JoinsSessionLine
      <4> HIDE DEF line
      <4>3. \A k \in Req : InSessionLine(k)' /\ InLine(k)'
        BY <2>0, <3>0, <4>1, <4>2
      <4> QED
        BY <2>1, <3>1, <4>3
    <3>3. CASE LeavesSessionLine(r)
      <4> DEFINE s == SessionOf[r]
                 rest == Tail(sessionLine[s])
      <4>1. /\ \A k \in Req : stage'[k] = IF k = r THEN "entering" ELSE stage[k]
            /\ \A t \in Session : sessionLine'[t] = IF t = s THEN rest ELSE sessionLine[t]
            /\ commandLine' = commandLine
        BY <3>0, <3>3, <3>m DEF LeavesSessionLine, TypeOK
      <4>2. Range(rest) = Range(sessionLine[s]) \ {r}
        BY <2>00, <3>0, <3>3, InjectiveTail DEF LeavesSessionLine
      <4> HIDE DEF rest
      <4>3. \A k \in Req : InSessionLine(k)' /\ InLine(k)'
        BY <2>0, <3>0, <4>1, <4>2
      <4> QED
        BY <2>1, <3>1, <4>3
    <3>4. CASE JoinsCommandLine(r)
      <4>1. /\ \A k \in Req : stage'[k] = IF k = r THEN "commandQueued" ELSE stage[k]
            /\ sessionLine' = sessionLine /\ commandLine' = Append(commandLine, r)
        BY <3>4, <3>m DEF JoinsCommandLine
      <4>2. Range(commandLine') = Range(commandLine) \union {r}
        BY <2>00, <3>0, <3>4, <4>1, InjectiveAppend DEF JoinsCommandLine
      <4>3. \A k \in Req : InSessionLine(k)' /\ InLine(k)'
        BY <2>0, <4>1, <4>2
      <4> QED
        BY <2>1, <3>1, <4>3
    <3>5. CASE LeavesCommandLine(r)
      <4>1. /\ \A k \in Req : stage'[k] = IF k = r THEN "executing" ELSE stage[k]
            /\ sessionLine' = sessionLine /\ commandLine' = Tail(commandLine)
        BY <3>5, <3>m DEF LeavesCommandLine
      <4>2. Range(commandLine') = Range(commandLine) \ {r}
        BY <2>00, <3>5, <4>1, InjectiveTail DEF LeavesCommandLine
      <4>3. \A k \in Req : InSessionLine(k)' /\ InLine(k)'
        BY <2>0, <4>1, <4>2
      <4> QED
        BY <2>1, <3>1, <4>3
    <3>6. CASE IsRefused(r) \/ Ends(r) \/ Returns(r)
      <4>1. /\ \A k \in Req : stage'[k] = stage[k]
                              \/ stage'[k] \notin {"sessionQueued", "commandQueued"}
            /\ sessionLine' = sessionLine /\ commandLine' = commandLine
        BY <3>6, <3>m DEF IsRefused, Ends, Returns
      <4>2. \A k \in Req : InSessionLine(k)' /\ InLine(k)'
        BY <2>0, <4>1
      <4> QED
        BY <2>1, <3>1, <4>2
    <3> QED
      BY <2>3, <3>2, <3>3, <3>4, <3>5, <3>6 DEF EntryMoves
  <2>4. ASSUME NEW r \in Req, ChatEnds(r) PROVE LinesInv'
    <3>1. /\ \A k \in Req : stage'[k] = IF k = r THEN "over" ELSE stage[k]
          /\ sessionLine' = sessionLine /\ commandLine' = commandLine
      BY <2>4 DEF ChatEnds, Moves, TypeOK
    <3>2. \A k \in Req : InSessionLine(k)' /\ InLine(k)'
      BY <2>0, <3>1
    <3>3. IsFiniteSet(InCommandLane') /\ Cardinality(InCommandLane') <= Cap
      BY <2>4, CommandLaneCount DEF ChatEnds, LinesInv
    <3> QED
      BY <2>1, <3>2, <3>3
  <2> QED
    BY <1>2, <2>2, <2>3, <2>4, LaneSteps DEF LinesInv
<1> QED
  BY <1>1, <1>2

LEMMA LinesAlways == Spec => [](TypeOK /\ SessionInv /\ LinesInv)
  BY TypeInit, TypeStep, SessionInit, SessionStep, LinesInit, LinesStep, PTL DEF Spec

(* The command lane's concurrency, counted over a set that is finite       *)
(* because it grew one entry at a time.                                    *)
THEOREM CommandLaneBoundedHolds == Spec => []CommandLaneBounded
<1>1. LinesInv => CommandLaneBounded
  BY DEF LinesInv, CommandLaneBounded
<1> QED
  BY <1>1, LinesAlways, PTL

(* Who awaits an entry has one, in the line its stage says.                *)
THEOREM WaitingHasEntryHolds == Spec => []WaitingHasEntry
<1>1. ASSUME TypeOK, LinesInv PROVE WaitingHasEntry
  <2> SUFFICES ASSUME NEW r \in Req, caller[r] = "waiting"
               PROVE  /\ InLanes(r)
                      /\ stage[r] = "sessionQueued" =>
                           \E i \in 1..Len(sessionLine[SessionOf[r]]) :
                             sessionLine[SessionOf[r]][i] = r
                      /\ stage[r] = "commandQueued" =>
                           \E i \in 1..Len(commandLine) : commandLine[i] = r
    BY DEF WaitingHasEntry
  <2>1. commandLine \in Seq(Req) /\ sessionLine[SessionOf[r]] \in Seq(Req)
    BY <1>1, ConstantsAssumption DEF TypeOK
  <2>2. /\ r \in Range(commandLine) =>
             \E i \in 1..Len(commandLine) : commandLine[i] = r
        /\ r \in Range(sessionLine[SessionOf[r]]) =>
             \E i \in 1..Len(sessionLine[SessionOf[r]]) : sessionLine[SessionOf[r]][i] = r
    BY <2>1, InRange
  <2> QED
    BY <1>1, <2>2 DEF LinesInv
<1> QED
  BY <1>1, LinesAlways, PTL

(* No deadlock of the two lanes: a session's holder waits at most for the  *)
(* command lane, and the command lane for nobody but its own runs.         *)
THEOREM NoLaneDeadlockHolds == Spec => []NoLaneDeadlock
<1>1. ASSUME TypeOK, LinesInv PROVE NoLaneDeadlock
  <2> SUFFICES ASSUME NEW r \in Req, InLanes(r)
               PROVE  \/ \E k \in Req : GoesOn(k) /\ (SessionOf[k] = SessionOf[r]
                                                     \/ k \in InCommandLane)
                      \/ CommandLaneReady \/ SessionLaneReady(SessionOf[r])
    BY DEF NoLaneDeadlock
  <2>1. ASSUME NEW k \in Req, stage[k] = "commandQueued"
        PROVE  CommandLaneReady \/ \E q \in Req : GoesOn(q) /\ q \in InCommandLane
    <3>1. commandLine # <<>>
      BY <1>1, <2>1, InjectiveEmpty DEF LinesInv
    <3>2. CASE InCommandLane = {}
      <4>1. Cardinality(InCommandLane) = 0
        BY <3>2, FS_EmptySet
      <4> QED
        BY <3>1, <4>1, ConstantsAssumption DEF CommandLaneReady
    <3>3. CASE InCommandLane # {}
      BY <3>3 DEF InCommandLane, At, GoesOn
    <3> QED
      BY <3>2, <3>3
  <2>2. ASSUME NEW k \in Req, k \in HoldsSession, SessionOf[k] = SessionOf[r]
        PROVE  \/ \E q \in Req : GoesOn(q) /\ (SessionOf[q] = SessionOf[r]
                                              \/ q \in InCommandLane)
               \/ CommandLaneReady
    BY <2>1, <2>2 DEF HoldsSession, At, GoesOn
  <2>3. CASE stage[r] = "sessionQueued"
    <3>1. sessionLine[SessionOf[r]] # <<>>
      BY <1>1, <2>3, InjectiveEmpty DEF LinesInv
    <3>2. CASE SessionFree(SessionOf[r])
      BY <3>1, <3>2 DEF SessionLaneReady
    <3>3. CASE ~SessionFree(SessionOf[r])
      BY <2>2, <3>3 DEF SessionFree, SessionBusy, HoldsSession, At
    <3> QED
      BY <3>2, <3>3
  <2>4. CASE stage[r] # "sessionQueued"
    <3>1. r \in HoldsSession
      BY <1>1, <2>4 DEF InLanes, HoldsSession, At, TypeOK
    <3> QED
      BY <2>2, <3>1
  <2> QED
    BY <2>3, <2>4
<1> QED
  BY <1>1, LinesAlways, PTL

(* No run is forgotten.  A task ends in its callback, which writes the     *)
(* status, and a status once written stays as long as the process.         *)
Accounted(r) ==
  /\ caller[r] # "none"
  /\ caller[r] = "done" => r \in Chats \/ status[IdOf[r]] # "none"
AllAccounted ==
  \A r \in Req : rpc[r] = "accepted" /\ restart # "restarted" => Accounted(r)

LEMMA AccountedStep ==
  TypeOK /\ RegistryInv /\ AllAccounted /\ [Next]_vars => AllAccounted'
<1> SUFFICES ASSUME TypeOK, RegistryInv, AllAccounted, [Next]_vars PROVE AllAccounted'
  OBVIOUS
<1> USE ConstantsAssumption DEF AllAccounted, Accounted
<1>1. ASSUME UNCHANGED <<rpc, status>>, restart' # "restarted" => restart # "restarted",
             \A r \in Req : /\ caller[r] # "none" => caller'[r] # "none"
                            /\ caller'[r] = "done" => caller[r] = "done" \/ r \in Chats
      PROVE  AllAccounted'
  BY <1>1
<1>2. ASSUME NEW r \in Req, Accept(r), UNCHANGED restart PROVE AllAccounted'
  BY <1>2 DEF Accept, TypeOK
<1>3. ASSUME NEW s, caller' = caller \/ caller' = ChatsCancelled(s)
      PROVE  \A r \in Req : /\ caller[r] # "none" => caller'[r] # "none"
                            /\ caller'[r] = "done" => caller[r] = "done"
  BY <1>3, ChatsCancelledOnly
<1>4. ASSUME NEW r \in Req, AgentCall(r) PROVE AllAccounted'
  <2>1. CASE Accept(r)
    BY <1>2, <1>4, <2>1 DEF AgentCall, drainVars
  <2>2. CASE ~Accept(r)
    <3>1. /\ caller' = caller \/ caller' = ChatsCancelled(SessionOf[r])
          /\ UNCHANGED <<status, restart>>
          /\ \A k \in Req : rpc'[k] = "accepted" => rpc[k] = "accepted"
      BY <1>4, <2>2 DEF AgentCall, drainVars, TypeOK
    <3> QED
      BY <1>3, <3>1
  <2> QED
    BY <2>1, <2>2
<1>5. ASSUME NEW r \in Req, ResetReturns(r) \/ ChatSend(r) PROVE AllAccounted'
  BY <1>2, <1>5 DEF ResetReturns, ChatSend, drainVars
<1>6. ASSUME NEW r \in Req, EnterSessionLane(r) \/ EnterCommandLane(r) \/ RunEnds(r)
                            \/ SessionEntryEnds(r) \/ ChatTurnEnds(r)
      PROVE  AllAccounted'
  <2>1. UNCHANGED <<rpc, status, restart>>
    BY <1>6 DEF EnterSessionLane, EnterCommandLane, RunEnds, SessionEntryEnds,
                ChatTurnEnds, gatewayVars, drainVars
  <2>2. \A k \in Req : caller'[k] = caller[k] \/ caller'[k] \in {"waiting", "ok", "error"}
    <3>1. SessionEntryEnds(r) => outcome[r] \in {"ok", "error"}
      BY DEF SessionEntryEnds, RegistryInv, EndedHasOutcome, TypeOK
    <3> QED
      BY <1>6, <3>1 DEF EnterSessionLane, EnterCommandLane, RunEnds, SessionEntryEnds,
                        ChatTurnEnds, TypeOK
  <2> QED
    BY <1>1, <2>1, <2>2
<1>7. ASSUME NEW r \in Req, CleanupRun(r) PROVE AllAccounted'
  BY <1>7 DEF CleanupRun, Terminal, Reported, drainVars, TypeOK
<1>8. ASSUME NEW r \in Req, ChatCleanup(r) PROVE AllAccounted'
  BY <1>1, <1>8 DEF ChatCleanup, drainVars, TypeOK
<1>9. CASE Lanes
  BY <1>1, <1>9 DEF Lanes, CommandLaneStarts, SessionLaneStarts, gatewayVars, drainVars
<1>10. ASSUME NEW s \in Session, CancelChats(s) PROVE AllAccounted'
  BY <1>1, <1>3, <1>10 DEF CancelChats, gatewayVars, drainVars
<1>11. ASSUME NEW i \in Id, Abort(i) \/ AbortReturns(i) PROVE AllAccounted'
  <2>1. UNCHANGED <<rpc, status, restart>>
    BY <1>11 DEF Abort, AbortReturns, drainVars
  <2>2. \A k \in Req : caller'[k] = caller[k] \/ caller'[k] = "aborted"
    BY <1>11 DEF Abort, AbortReturns, Cancelled, TypeOK
  <2> QED
    BY <1>1, <2>1, <2>2
<1>12. CASE MarkDraining \/ WaitEnds \/ UNCHANGED vars
  BY <1>1, <1>12 DEF MarkDraining, WaitEnds, vars, gatewayVars
<1>13. CASE ReplaceProcess
  BY <1>13 DEF ReplaceProcess
<1> QED
  BY <1>4, <1>5, <1>6, <1>7, <1>8, <1>9, <1>10, <1>11, <1>12, <1>13 DEF Next, Progress

THEOREM NoneForgottenHolds == Spec => []NoneForgotten
<1>1. Init => AllAccounted
  BY DEF Init, AllAccounted
<1>2. ASSUME TypeOK, AllAccounted PROVE NoneForgotten
  BY <1>2 DEF AllAccounted, Accounted, NoneForgotten, Alive, Terminal, TypeOK
<1> QED
  BY <1>1, <1>2, RegistryAlways, AccountedStep, PTL DEF Spec

(* Entries only move forward, and none joins a line during a drain.        *)
THEOREM EntriesAdvanceHolds == Spec => EntriesAdvance
<1>1. ASSUME TypeOK, SessionInv, LinesInv, [Next]_vars, ~ReplaceProcess, NEW k \in Req
      PROVE  Advances(k)
  <2>0. \A st \in {"idle", "sessionQueued", "entering", "commandQueued", "executing",
                   "returning", "over"} : Rank(st) \in Nat
    BY DEF Rank
  <2>1. CASE UNCHANGED laneVars
    BY <1>1, <2>0, <2>1 DEF laneVars, TypeOK, Advances
  <2>2. ASSUME NEW r \in Req, EntryMoves(r) \/ ChatEnds(r)
        PROVE  Advances(k)
    <3>1. CASE k # r
      <4>1. PICK st : Moves(r, st)
        BY <2>2 DEF EntryMoves, JoinsSessionLine, LeavesSessionLine, JoinsCommandLine,
                    IsRefused, LeavesCommandLine, Ends, Returns, ChatEnds
      <4>2. stage'[k] = stage[k]
        BY <1>1, <3>1, <4>1 DEF Moves, TypeOK
      <4>3. Rank(stage[k]) \in Nat
        BY <1>1, <2>0 DEF TypeOK
      <4>4. Rank(stage'[k]) <= Rank(stage'[k])
        BY <4>2, <4>3
      <4> QED
        BY <4>2, <4>4 DEF Advances
    <3>2. CASE k = r
      <4>1. /\ Rank("idle") = 0 /\ Rank("sessionQueued") = 1 /\ Rank("entering") = 2
            /\ Rank("commandQueued") = 3 /\ Rank("executing") = 4
            /\ Rank("returning") = 5 /\ Rank("over") = 6
        BY DEF Rank
      <4>2. \A st : Moves(k, st) => stage'[k] = st
        BY <1>1 DEF Moves, TypeOK
      <4> QED
        BY <2>2, <3>2, <4>1, <4>2
           DEF EntryMoves, JoinsSessionLine, LeavesSessionLine, JoinsCommandLine,
               IsRefused, LeavesCommandLine, Ends, Returns, ChatEnds, Advances
    <3> QED
      BY <3>1, <3>2
  <2>3. \A r \in Chats : stage[r] \in {"idle", "over"}
    BY <1>1 DEF LinesInv
  <2>4. UNCHANGED laneVars \/ \E r \in Req : EntryMoves(r) \/ ChatEnds(r)
    BY <1>1, <2>3, LaneSteps DEF Entry
  <2> QED
    BY <2>1, <2>2, <2>4
<1>2. TypeOK /\ SessionInv /\ LinesInv /\ [Next]_vars =>
        [~ReplaceProcess =>
           \A r \in Req : Advances(r)]_vars
  BY <1>1
<1> QED
  BY <1>2, LinesAlways, PTL DEF Spec, EntriesAdvance

-----------------------------------------------------------------------------
(* The lanes are pools.  Each move of an entry is one step of the pool of  *)
(* its lane and leaves the other pools alone.                              *)

CommandAnswers == [r \in Entry |-> CommandAnswer(r)]

LEMMA CommandCardinality ==
  ASSUME NEW S PROVE CommandLane!Cardinality(S) = Cardinality(S)
  BY DEF CommandLane!Cardinality, Cardinality

(* What an entry's move does to the stages, outcomes and answers.          *)
LEMMA Moved ==
  ASSUME TypeOK, NEW r \in Req, NEW st, Moves(r, st)
  PROVE  /\ \A k \in Req : stage'[k] = IF k = r THEN st ELSE stage[k]
         /\ InCommandLane' = IF st = "executing" THEN InCommandLane \union {r}
                                                 ELSE InCommandLane \ {r}
  BY DEF Moves, TypeOK, InCommandLane, At

LEMMA CommandAnswered ==
  ASSUME TypeOK, NEW r \in Entry, NEW a,
         \A k \in Entry : CommandAnswer(k)' = IF k = r THEN a ELSE CommandAnswer(k)
  PROVE  CommandAnswers' = [CommandAnswers EXCEPT ![r] = a]
  BY DEF CommandAnswers

LEMMA OthersAnswered ==
  ASSUME TypeOK, NEW r \in Req, NEW st, Moves(r, st), outcome' = [outcome EXCEPT ![r] = outcome'[r]]
  PROVE  \A k \in Entry \ {r} : /\ CommandAnswer(k)' = CommandAnswer(k)
                                /\ SessionAnswer(k)' = SessionAnswer(k)
<1>1. \A k \in Req \ {r} : stage'[k] = stage[k] /\ outcome'[k] = outcome[k]
  BY Moved DEF TypeOK
<1> QED
  BY <1>1 DEF CommandAnswer, SessionAnswer, EndOf, Entry

LEMMA CommandLaneStep ==
  ASSUME TypeOK, NEW r \in Entry, EntryMoves(r)
  PROVE  CommandLane!Next \/ UNCHANGED CommandLane!vars
<1>0. r \in Req
  BY DEF Entry
<1>1. \A k \in Entry \ {r} : CommandAnswer(k)' = CommandAnswer(k)
  <2>1. PICK st : Moves(r, st)
    BY DEF EntryMoves, JoinsSessionLine, LeavesSessionLine, JoinsCommandLine,
           IsRefused, LeavesCommandLine, Ends, Returns
  <2>2. outcome' = [outcome EXCEPT ![r] = outcome'[r]]
    BY <1>0 DEF EntryMoves, JoinsSessionLine, LeavesSessionLine, JoinsCommandLine,
           IsRefused, LeavesCommandLine, Ends, Returns, TypeOK
  <2> QED
    BY <1>0, <2>1, <2>2, OthersAnswered
<1>2. CASE JoinsSessionLine(r) \/ LeavesSessionLine(r)
  <2>1. /\ stage[r] \in {"idle", "sessionQueued"} /\ stage'[r] \in {"sessionQueued", "entering"}
        /\ InCommandLane' = InCommandLane /\ commandLine' = commandLine
    BY <1>0, <1>2, Moved DEF JoinsSessionLine, LeavesSessionLine, InCommandLane, At
  <2>2. CommandAnswer(r)' = CommandAnswer(r)
    BY <2>1 DEF CommandAnswer
  <2>3. CommandAnswers' = CommandAnswers
    BY <1>1, <2>2 DEF CommandAnswers
  <2> QED
    BY <2>1, <2>3 DEF CommandLane!vars, CommandAnswers
<1>3. CASE JoinsCommandLine(r)
  <2>1. /\ stage[r] = "entering" /\ stage'[r] = "commandQueued"
        /\ InCommandLane' = InCommandLane /\ commandLine' = Append(commandLine, r)
    BY <1>0, <1>3, Moved DEF JoinsCommandLine, InCommandLane, At
  <2>2. CommandAnswer(r) = "none" /\ CommandAnswer(r)' = "pending"
    BY <2>1 DEF CommandAnswer
  <2>3. CommandAnswers' = [CommandAnswers EXCEPT ![r] = "pending"] /\ CommandAnswers[r] = "none"
    BY <1>1, <2>2, CommandAnswered DEF CommandAnswers
  <2>4. CommandLane!Submit(r)
    BY <2>1, <2>3 DEF CommandLane!Submit, CommandLane!Queued, CommandAnswers
  <2> QED
    BY <2>4 DEF CommandLane!Next
<1>4. CASE IsRefused(r)
  <2>1. /\ stage[r] = "entering" /\ stage'[r] = "returning" /\ outcome'[r] = "error"
        /\ InCommandLane' = InCommandLane /\ commandLine' = commandLine
    BY <1>0, <1>4, Moved DEF IsRefused, InCommandLane, At, TypeOK
  <2>2. CommandAnswer(r) = "none" /\ CommandAnswer(r)' = "error"
    BY <2>1 DEF CommandAnswer, EndOf
  <2>3. CommandAnswers' = [CommandAnswers EXCEPT ![r] = "error"] /\ CommandAnswers[r] = "none"
    BY <1>1, <2>2, CommandAnswered DEF CommandAnswers
  <2>4. CommandLane!Refuse(r)
    BY <2>1, <2>3 DEF CommandLane!Refuse, CommandAnswers
  <2> QED
    BY <2>4 DEF CommandLane!Next
<1>5. CASE LeavesCommandLine(r)
  <2>1. /\ stage[r] = "commandQueued" /\ stage'[r] = "executing"
        /\ InCommandLane' = InCommandLane \union {Head(commandLine)}
        /\ commandLine # <<>> /\ commandLine' = Tail(commandLine)
        /\ Cardinality(InCommandLane) < Cap
    BY <1>0, <1>5, Moved DEF LeavesCommandLine
  <2>2. CommandAnswer(r)' = CommandAnswer(r)
    BY <2>1 DEF CommandAnswer
  <2>3. CommandAnswers' = CommandAnswers
    BY <1>1, <2>2 DEF CommandAnswers
  <2>4. CommandLane!Admit
    BY <2>1, <2>3, CommandCardinality DEF CommandLane!Admit, CommandAnswers
  <2> QED
    BY <2>4 DEF CommandLane!Next
<1>6. CASE Ends(r)
  <2>1. /\ stage[r] = "executing" /\ stage'[r] = "returning" /\ outcome'[r] \in {"ok", "error"}
        /\ InCommandLane' = InCommandLane \ {r} /\ commandLine' = commandLine
    BY <1>0, <1>6, Moved DEF Ends, TypeOK
  <2>2. PICK a \in {"result", "error"} : CommandAnswer(r)' = a
    BY <2>1 DEF CommandAnswer, EndOf
  <2>3. CommandAnswer(r) = "pending" /\ r \in InCommandLane
    BY <1>0, <2>1 DEF CommandAnswer, InCommandLane, At
  <2>4. CommandAnswers' = [CommandAnswers EXCEPT ![r] = IF @ = "pending" THEN a ELSE @]
    BY <1>1, <2>2, <2>3, CommandAnswered DEF CommandAnswers
  <2>5. CommandLane!End(r)
    BY <2>1, <2>3, <2>4 DEF CommandLane!End, CommandLane!Answer, CommandAnswers
  <2> QED
    BY <2>5 DEF CommandLane!Next
<1>7. CASE Returns(r)
  <2>1. /\ stage[r] = "returning" /\ stage'[r] = "over" /\ outcome' = outcome
        /\ InCommandLane' = InCommandLane /\ commandLine' = commandLine
    BY <1>0, <1>7, Moved DEF Returns, InCommandLane, At
  <2>2. CommandAnswer(r)' = CommandAnswer(r)
    BY <2>1 DEF CommandAnswer, EndOf
  <2>3. CommandAnswers' = CommandAnswers
    BY <1>1, <2>2 DEF CommandAnswers
  <2> QED
    BY <2>1, <2>3 DEF CommandLane!vars, CommandAnswers
<1> QED
  BY <1>2, <1>3, <1>4, <1>5, <1>6, <1>7 DEF EntryMoves

(* A chat turn is no entry. *)
LEMMA ChatsAreNoEntries ==
  ASSUME TypeOK, NEW r \in Req, ChatEnds(r)
  PROVE  /\ \A k \in Entry : stage'[k] = stage[k] /\ outcome'[k] = outcome[k]
         /\ \A k \in Req : stage'[k] = stage[k] \/ {stage[k], stage'[k]} \subseteq {"idle", "over"}
         /\ UNCHANGED <<sessionLine, commandLine>>
<1>1. r \notin Entry /\ stage[r] = "idle" /\ Moves(r, "over")
  BY DEF ChatEnds, Entry
<1>2. \A k \in Req : stage'[k] = IF k = r THEN "over" ELSE stage[k]
  BY <1>1, Moved
<1> QED
  BY <1>1, <1>2 DEF ChatEnds, TypeOK, Entry

THEOREM CommandLaneIsPoolHolds == Spec => CommandLaneIsPool
<1>1. Init => CommandLane!Init
  BY DEF Init, CommandLane!Init, CommandAnswer, InCommandLane, At, Entry
<1>2. TypeOK /\ SessionInv /\ LinesInv /\ [Next]_vars =>
        [~ReplaceProcess => [CommandLane!Next]_(CommandLane!vars)]_vars
  <2> SUFFICES ASSUME TypeOK, SessionInv, LinesInv, [Next]_vars, ~ReplaceProcess
               PROVE  CommandLane!Next \/ UNCHANGED CommandLane!vars
    OBVIOUS
  <2>1. CASE UNCHANGED laneVars
    <3>1. CommandAnswers' = CommandAnswers
      BY <2>1 DEF laneVars, CommandAnswers, CommandAnswer, EndOf
    <3> QED
      BY <2>1, <3>1 DEF laneVars, CommandLane!vars, CommandAnswers, InCommandLane, At
  <2>2. ASSUME NEW r \in Req, ChatEnds(r) PROVE UNCHANGED CommandLane!vars
    <3>1. CommandAnswers' = CommandAnswers
      BY <2>2, ChatsAreNoEntries DEF CommandAnswers, CommandAnswer, EndOf
    <3>2. InCommandLane' = InCommandLane /\ commandLine' = commandLine
      BY <2>2, ChatsAreNoEntries DEF InCommandLane, At
    <3> QED
      BY <3>1, <3>2 DEF CommandLane!vars, CommandAnswers
  <2> QED
    BY <2>1, <2>2, CommandLaneStep, LaneSteps DEF LinesInv
<1> QED
  BY <1>1, <1>2, LinesAlways, PTL DEF Spec, CommandLaneIsPool

SessionAnswers(s) == [r \in EntriesOf(s) |-> SessionAnswer(r)]

LEMMA SessionCardinality ==
  ASSUME NEW s, NEW S PROVE SessionLane(s)!Cardinality(S) = Cardinality(S)
  BY DEF SessionLane!Cardinality, Cardinality

LEMMA SessionAnswered ==
  ASSUME NEW s, NEW r \in EntriesOf(s), NEW a,
         \A k \in EntriesOf(s) : SessionAnswer(k)' = IF k = r THEN a ELSE SessionAnswer(k)
  PROVE  SessionAnswers(s)' = [SessionAnswers(s) EXCEPT ![r] = a]
  BY DEF SessionAnswers, EntriesOf

(* Holding a session is being somewhere between "entering" and "returning".*)
LEMMA HoldersMoved ==
  ASSUME TypeOK, NEW r \in Req, NEW st, Moves(r, st), NEW s
  PROVE  HoldersOf(s)' = IF st \in Holding /\ SessionOf[r] = s
                         THEN HoldersOf(s) \union {r} ELSE HoldersOf(s) \ {r}
<1>1. \A k \in Req : stage'[k] = IF k = r THEN st ELSE stage[k]
  BY Moved
<1>2. /\ HoldersOf(s) = {k \in Req : stage[k] \in Holding /\ SessionOf[k] = s}
      /\ HoldersOf(s)' = {k \in Req : stage'[k] \in Holding /\ SessionOf[k] = s}
  BY DEF HoldersOf, HoldsSession, At, Holding
<1> QED
  BY <1>1, <1>2

LEMMA SessionLaneStep ==
  ASSUME TypeOK, NEW s \in Session, NEW r \in Entry, EntryMoves(r)
  PROVE  SessionLane(s)!Next \/ UNCHANGED SessionLane(s)!vars
<1>0. r \in Req
  BY DEF Entry
<1>1. \A k \in EntriesOf(s) \ {r} : SessionAnswer(k)' = SessionAnswer(k)
  <2>1. PICK st : Moves(r, st)
    BY DEF EntryMoves, JoinsSessionLine, LeavesSessionLine, JoinsCommandLine,
           IsRefused, LeavesCommandLine, Ends, Returns
  <2>2. outcome' = [outcome EXCEPT ![r] = outcome'[r]]
    BY <1>0 DEF EntryMoves, JoinsSessionLine, LeavesSessionLine, JoinsCommandLine,
           IsRefused, LeavesCommandLine, Ends, Returns, TypeOK
  <2> QED
    BY <1>0, <2>1, <2>2, OthersAnswered DEF EntriesOf
<1>2. ASSUME SessionAnswer(r)' = SessionAnswer(r) \/ SessionOf[r] # s,
             HoldersOf(s)' = HoldersOf(s), sessionLine'[s] = sessionLine[s]
      PROVE  UNCHANGED SessionLane(s)!vars
  <2>1. SessionAnswers(s)' = SessionAnswers(s)
    BY <1>1, <1>2 DEF SessionAnswers, EntriesOf
  <2> QED
    BY <1>2, <2>1 DEF SessionLane!vars, SessionAnswers
<1>3. CASE SessionOf[r] # s
  <2>1. sessionLine'[s] = sessionLine[s]
    BY <1>3 DEF EntryMoves, JoinsSessionLine, LeavesSessionLine, JoinsCommandLine,
                IsRefused, LeavesCommandLine, Ends, Returns, TypeOK
  <2>2. HoldersOf(s)' = HoldersOf(s)
    <3>1. PICK st : Moves(r, st)
      BY DEF EntryMoves, JoinsSessionLine, LeavesSessionLine, JoinsCommandLine,
             IsRefused, LeavesCommandLine, Ends, Returns
    <3>2. r \notin HoldersOf(s)
      BY <1>3 DEF HoldersOf
    <3> QED
      BY <1>0, <1>3, <3>1, <3>2, HoldersMoved
  <2> QED
    BY <1>2, <1>3, <2>1, <2>2
<1>4. CASE SessionOf[r] = s
  <2>0. r \in EntriesOf(s)
    BY <1>4 DEF EntriesOf
  <2>1. CASE JoinsSessionLine(r)
    <3>1. /\ stage[r] = "idle" /\ stage'[r] = "sessionQueued"
          /\ HoldersOf(s)' = HoldersOf(s) /\ sessionLine'[s] = Append(sessionLine[s], r)
      <4>1. Moves(r, "sessionQueued") /\ stage[r] = "idle"
        BY <2>1 DEF JoinsSessionLine
      <4>2. r \notin HoldersOf(s)
        BY <4>1 DEF HoldersOf, HoldsSession, At
      <4>3. stage'[r] = "sessionQueued"
        BY <1>0, <4>1, Moved
      <4>4. HoldersOf(s)' = HoldersOf(s)
        BY <1>0, <4>1, <4>2, HoldersMoved DEF Holding
      <4>5. sessionLine'[s] = Append(sessionLine[s], r)
        BY <1>4, <2>1 DEF JoinsSessionLine, TypeOK
      <4> QED
        BY <4>1, <4>3, <4>4, <4>5
    <3>2. SessionAnswer(r) = "none" /\ SessionAnswer(r)' = "pending"
      BY <3>1 DEF SessionAnswer
    <3>3. /\ SessionAnswers(s)' = [SessionAnswers(s) EXCEPT ![r] = "pending"]
          /\ SessionAnswers(s)[r] = "none"
      BY <1>1, <2>0, <3>2, SessionAnswered DEF SessionAnswers
    <3>4. SessionLane(s)!Submit(r)
      BY <3>1, <3>3 DEF SessionLane!Submit, SessionLane!Queued, SessionAnswers
    <3> QED
      BY <2>0, <3>4 DEF SessionLane!Next
  <2>2. CASE LeavesSessionLine(r)
    <3>1. /\ stage[r] = "sessionQueued" /\ stage'[r] = "entering"
          /\ HoldersOf(s)' = HoldersOf(s) \union {Head(sessionLine[s])}
          /\ sessionLine[s] # <<>> /\ sessionLine'[s] = Tail(sessionLine[s])
      <4>1. Moves(r, "entering") /\ stage[r] = "sessionQueued"
        BY <1>4, <2>2 DEF LeavesSessionLine
      <4> QED
        BY <1>0, <1>4, <2>2, <4>1, Moved, HoldersMoved DEF LeavesSessionLine, Holding, TypeOK
    <3>2. HoldersOf(s) = {}
      BY <1>4, <2>2 DEF LeavesSessionLine, SessionFree, SessionBusy, HoldersOf
    <3>3. SessionLane(s)!Cardinality(HoldersOf(s)) < 1
      <4>1. Cardinality(HoldersOf(s)) = 0
        BY <3>2, FS_EmptySet
      <4> QED
        BY <4>1, SessionCardinality
    <3>4. SessionAnswer(r)' = SessionAnswer(r)
      BY <3>1 DEF SessionAnswer
    <3>5. SessionAnswers(s)' = SessionAnswers(s)
      BY <1>1, <3>4 DEF SessionAnswers, EntriesOf
    <3>6. SessionLane(s)!Admit
      BY <3>1, <3>3, <3>5 DEF SessionLane!Admit, SessionAnswers
    <3> QED
      BY <3>6 DEF SessionLane!Next
  <2>3. CASE JoinsCommandLine(r) \/ IsRefused(r) \/ LeavesCommandLine(r) \/ Ends(r)
    <3>1. PICK st : Moves(r, st) /\ st \in Holding /\ stage[r] \in Holding
      BY <2>3 DEF JoinsCommandLine, IsRefused, LeavesCommandLine, Ends, Holding
    <3>2. HoldersOf(s)' = HoldersOf(s)
      <4>1. r \in HoldersOf(s)
        BY <1>0, <1>4, <3>1 DEF HoldersOf, HoldsSession, At, Holding
      <4> QED
        BY <1>0, <1>4, <3>1, <4>1, HoldersMoved
    <3>3. stage'[r] \in Holding
      BY <1>0, <3>1, Moved
    <3>4. SessionAnswer(r)' = SessionAnswer(r)
      BY <3>1, <3>3 DEF SessionAnswer, Holding
    <3>5. sessionLine' = sessionLine
      BY <2>3 DEF JoinsCommandLine, IsRefused, LeavesCommandLine, Ends
    <3> QED
      BY <1>2, <3>2, <3>4, <3>5
  <2>4. CASE Returns(r)
    <3>1. /\ stage[r] = "returning" /\ stage'[r] = "over" /\ outcome' = outcome
          /\ HoldersOf(s)' = HoldersOf(s) \ {r} /\ sessionLine' = sessionLine
      BY <1>0, <2>4, Moved, HoldersMoved DEF Returns, Holding
    <3>2. PICK a \in {"result", "error"} : SessionAnswer(r)' = a
      BY <3>1 DEF SessionAnswer, EndOf
    <3>3. SessionAnswer(r) = "pending" /\ r \in HoldersOf(s)
      BY <1>0, <1>4, <3>1 DEF SessionAnswer, HoldersOf, HoldsSession, At
    <3>4. SessionAnswers(s)' = [SessionAnswers(s) EXCEPT ![r] = IF @ = "pending" THEN a ELSE @]
      BY <1>1, <2>0, <3>2, <3>3, SessionAnswered DEF SessionAnswers
    <3>5. SessionLane(s)!End(r)
      BY <3>1, <3>3, <3>4 DEF SessionLane!End, SessionLane!Answer, SessionAnswers
    <3> QED
      BY <2>0, <3>5 DEF SessionLane!Next
  <2> QED
    BY <2>1, <2>2, <2>3, <2>4 DEF EntryMoves
<1> QED
  BY <1>3, <1>4

THEOREM SessionLanesArePoolsHold == Spec => SessionLanesArePools
<1>1. Init => \A s \in Session : SessionLane(s)!Init
  <2> SUFFICES ASSUME Init, NEW s \in Session PROVE SessionLane(s)!Init
    OBVIOUS
  <2>1. HoldersOf(s) = {} /\ sessionLine[s] = <<>>
    BY DEF Init, HoldersOf, HoldsSession, At
  <2>2. SessionAnswers(s) = [r \in EntriesOf(s) |-> "none"]
    BY DEF Init, SessionAnswers, SessionAnswer, EntriesOf, Entry
  <2> QED
    BY <2>1, <2>2 DEF SessionLane!Init, SessionAnswers
<1>2. TypeOK /\ SessionInv /\ LinesInv /\ [Next]_vars =>
        [~ReplaceProcess =>
           \A s \in Session : [SessionLane(s)!Next]_(SessionLane(s)!vars)]_vars
  <2> SUFFICES ASSUME TypeOK, SessionInv, LinesInv, [Next]_vars, ~ReplaceProcess,
                      NEW s \in Session
               PROVE  SessionLane(s)!Next \/ UNCHANGED SessionLane(s)!vars
    OBVIOUS
  <2>1. CASE UNCHANGED laneVars
    <3>1. SessionAnswers(s)' = SessionAnswers(s) /\ HoldersOf(s)' = HoldersOf(s)
      BY <2>1 DEF laneVars, SessionAnswers, SessionAnswer, EndOf, HoldersOf, HoldsSession, At
    <3> QED
      BY <2>1, <3>1 DEF laneVars, SessionLane!vars, SessionAnswers
  <2>2. ASSUME NEW r \in Req, ChatEnds(r) PROVE UNCHANGED SessionLane(s)!vars
    <3>1. SessionAnswers(s)' = SessionAnswers(s)
      BY <2>2, ChatsAreNoEntries DEF SessionAnswers, SessionAnswer, EndOf, EntriesOf
    <3>2. HoldersOf(s)' = HoldersOf(s) /\ sessionLine' = sessionLine
      BY <2>2, ChatsAreNoEntries DEF HoldersOf, HoldsSession, At
    <3> QED
      BY <3>1, <3>2 DEF SessionLane!vars, SessionAnswers
  <2> QED
    BY <2>1, <2>2, SessionLaneStep, LaneSteps DEF LinesInv
<1> QED
  BY <1>1, <1>2, LinesAlways, PTL DEF Spec, SessionLanesArePools
=============================================================================
