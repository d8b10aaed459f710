--------------------------- MODULE FollowupProofs -----------------------------
(***************************************************************************)
(* Proofs about FollowupQueue, for any number of messages, any cap, any    *)
(* modes and policies, and any number of stops and outside runs.           *)
(***************************************************************************)
EXTENDS FollowupQueue, SequenceTheorems, TLAPS

(* Lines are sequences without repetition: what appending and popping do   *)
(* to their elements.                                                      *)
LEMMA InRange ==
  ASSUME NEW S, NEW s \in Seq(S), NEW x
  PROVE  x \in Range(s) <=> \E i \in 1..Len(s) : x = s[i]
<1>1. DOMAIN s = 1..Len(s)
  OBVIOUS
<1> QED
  BY <1>1, Zenon DEF Range

LEMMA InjectiveSeq ==
  ASSUME NEW S, NEW s \in Seq(S)
  PROVE  IsInjective(s) <=> \A i, j \in 1..Len(s) : s[i] = s[j] => i = j
  BY DEF IsInjective

LEMMA InjectiveEmpty == IsInjective(<<>>) /\ Range(<<>>) = {}
  BY DEF IsInjective, Range

LEMMA InjectiveAppend ==
  ASSUME NEW S, NEW s \in Seq(S), NEW m \in S, IsInjective(s), m \notin Range(s)
  PROVE  IsInjective(Append(s, m)) /\ Range(Append(s, m)) = Range(s) \union {m}
<1>1. /\ Append(s, m) \in Seq(S) /\ Len(Append(s, m)) = Len(s) + 1 /\ Len(s) \in Nat
      /\ \A i \in 1..Len(s) : Append(s, m)[i] = s[i]
      /\ Append(s, m)[Len(s) + 1] = m
  BY AppendProperties
<1>0. \A x : x \in Range(s) <=> \E i \in 1..Len(s) : x = s[i]
  <2> TAKE x
  <2> QED
    BY InRange
<1>2. \A i \in 1..Len(s) : s[i] # m
  BY <1>0
<1>3. IsInjective(Append(s, m))
  <2> SUFFICES ASSUME NEW i \in 1..(Len(s) + 1), NEW j \in 1..(Len(s) + 1),
                      Append(s, m)[i] = Append(s, m)[j]
               PROVE  i = j
    BY <1>1, InjectiveSeq
  <2>1. CASE i \in 1..Len(s) /\ j \in 1..Len(s)
    BY <1>1, <2>1, InjectiveSeq
  <2>2. CASE i = Len(s) + 1 \/ j = Len(s) + 1
    BY <1>1, <1>2, <2>2
  <2> QED
    BY <1>1, <2>1, <2>2
<1>4. \A x : x \in Range(Append(s, m)) <=> x \in Range(s) \union {m}
  <2>1. \A x : x \in Range(Append(s, m)) <=> \E i \in 1..(Len(s) + 1) : x = Append(s, m)[i]
    <3>1. Append(s, m) \in Seq(S)
      BY <1>1
    <3> TAKE x
    <3>2. x \in Range(Append(s, m)) <=>
            \E i \in 1..Len(Append(s, m)) : x = Append(s, m)[i]
      BY <3>1, InRange
    <3> QED
      BY <1>1, <3>2
  <2>2. 1..(Len(s) + 1) = (1..Len(s)) \union {Len(s) + 1}
    BY <1>1
  <2>3. \A x : x \in Range(Append(s, m)) <=>
              (\E i \in 1..Len(s) : x = s[i]) \/ x = m
    BY <1>1, <2>1, <2>2
  <2> QED
    BY <1>0, <2>3
<1> QED
  BY <1>3, <1>4

LEMMA InjectiveTail ==
  ASSUME NEW S, NEW s \in Seq(S), s # <<>>, IsInjective(s)
  PROVE  /\ IsInjective(Tail(s)) /\ Range(Tail(s)) = Range(s) \ {Head(s)}
         /\ Head(s) \in Range(s)
<1>1. /\ Tail(s) \in Seq(S) /\ Len(Tail(s)) = Len(s) - 1 /\ Len(s) \in Nat \ {0}
      /\ \A i \in 1..Len(Tail(s)) : Tail(s)[i] = s[i + 1]
      /\ Head(s) = s[1]
  BY HeadTailProperties
<1>0. \A x : x \in Range(s) <=> \E i \in 1..Len(s) : x = s[i]
  <2> TAKE x
  <2> QED
    BY InRange
<1>2. \A i, j \in 1..Len(s) : s[i] = s[j] => i = j
  BY InjectiveSeq
<1>3. IsInjective(Tail(s))
  <2>1. \A i, j \in 1..Len(Tail(s)) : Tail(s)[i] = Tail(s)[j] => i = j
    BY <1>1, <1>2
  <2> QED
    BY <1>1, <2>1, InjectiveSeq
<1>4. \A x : x \in Range(Tail(s)) <=> \E i \in 1..Len(Tail(s)) : x = Tail(s)[i]
  <2>1. Tail(s) \in Seq(S)
    BY <1>1
  <2> TAKE x
  <2> QED
    BY <2>1, InRange
<1>5. Head(s) \in Range(s)
  BY <1>0, <1>1
<1>6. ASSUME NEW x, x \in Range(Tail(s)) PROVE x \in Range(s) \ {Head(s)}
  <2>1. PICK i \in 1..Len(Tail(s)) : x = Tail(s)[i]
    BY <1>4, <1>6
  <2>2. x = s[i + 1] /\ i + 1 \in 1..Len(s) /\ i + 1 # 1 /\ 1 \in 1..Len(s)
    BY <1>1, <2>1
  <2> QED
    BY <1>0, <1>1, <1>2, <2>2
<1>7. ASSUME NEW x, x \in Range(s) \ {Head(s)} PROVE x \in Range(Tail(s))
  <2>1. PICK i \in 1..Len(s) : x = s[i]
    BY <1>0, <1>7
  <2>2. i - 1 \in 1..Len(Tail(s)) /\ x = Tail(s)[i - 1]
    BY <1>1, <1>7, <2>1
  <2> QED
    BY <1>4, <2>2
<1> QED
  BY <1>3, <1>5, <1>6, <1>7

-----------------------------------------------------------------------------

(* What the drop policy does to the items of an object. *)
LEMMA Dropping ==
  ASSUME NEW s \in Seq(Msg), NEW m \in Msg, s # <<>>
  PROVE  /\ Head(s) \in Msg /\ Tail(s) \in Seq(Msg) /\ Len(Tail(s)) = Len(s) - 1
         /\ Append(Tail(s), m) \in Seq(Msg) /\ Len(Append(Tail(s), m)) = Len(s)
  BY HeadTailProperties, AppendProperties

LEMMA QueueOfMsg ==
  ASSUME TypeOK, NEW m \in Msg, NEW q \in (IF registered = {} THEN {m} ELSE registered)
  PROVE  q \in Msg
  BY DEF TypeOK

(* What enqueueing, clearing and draining do to the types of the queues. *)
LEMMA EnqueueType ==
  ASSUME TypeOK, NEW m \in Msg, NEW md \in Modes, Enqueue(m, md)
  PROVE  /\ fate' \in [Msg -> Fates]
         /\ items' \in [Msg -> Seq(Msg)] /\ \A q \in Msg : Len(items'[q]) <= Cap
         /\ dropped' \in [Msg -> SUBSET Msg]
         /\ mode' \in [Msg -> Modes \union {"none"}]
         /\ registered' \in {{}} \union {{q} : q \in Msg}
<1> USE ConstantsAssumption
<1>1. PICK q \in (IF registered = {} THEN {m} ELSE registered) :
        /\ registered' = {q} /\ mode' = [mode EXCEPT ![q] = md]
        /\ \/ /\ ~Full(q)
              /\ items' = [items EXCEPT ![q] = Append(@, m)]
              /\ fate' = [fate EXCEPT ![m] = "queued"]
              /\ UNCHANGED dropped
           \/ /\ Full(q) /\ policy = "new"
              /\ dropped' = [dropped EXCEPT ![q] = @ \union {m}]
              /\ fate' = [fate EXCEPT ![m] = "dropped"]
              /\ UNCHANGED items
           \/ /\ Full(q) /\ policy = "old"
              /\ dropped' = [dropped EXCEPT ![q] = @ \union {Head(items[q])}]
              /\ items' = [items EXCEPT ![q] = Append(Tail(@), m)]
              /\ fate' = [fate EXCEPT ![m] = "queued", ![Head(items[q])] = "dropped"]
  BY DEF Enqueue
<1>2. q \in Msg
  BY QueueOfMsg
<1>3. registered' \in {{}} \union {{r} : r \in Msg} /\ mode' \in [Msg -> Modes \union {"none"}]
  BY <1>1, <1>2 DEF TypeOK
<1>4. CASE ~Full(q)
  <2>1. Append(items[q], m) \in Seq(Msg) /\ Len(Append(items[q], m)) <= Cap
    BY <1>2, <1>4, AppendProperties DEF TypeOK, Full
  <2>2. /\ items' = [items EXCEPT ![q] = Append(items[q], m)]
        /\ fate' = [fate EXCEPT ![m] = "queued"] /\ dropped' = dropped
    BY <1>1, <1>4
  <2> QED
    BY <1>2, <1>3, <2>1, <2>2 DEF TypeOK, Fates
<1>5. CASE Full(q) /\ policy = "new"
  <2>1. /\ dropped' = [dropped EXCEPT ![q] = dropped[q] \union {m}]
        /\ fate' = [fate EXCEPT ![m] = "dropped"] /\ items' = items
    BY <1>1, <1>5
  <2> QED
    BY <1>2, <1>3, <2>1 DEF TypeOK, Fates
<1>6. CASE Full(q) /\ policy = "old"
  <2>1. items[q] \in Seq(Msg) /\ items[q] # <<>> /\ Len(items[q]) <= Cap
    BY <1>2, <1>6 DEF TypeOK, Full
  <2>2. /\ items' = [items EXCEPT ![q] = Append(Tail(items[q]), m)]
        /\ fate' = [fate EXCEPT ![m] = "queued", ![Head(items[q])] = "dropped"]
        /\ dropped' = [dropped EXCEPT ![q] = dropped[q] \union {Head(items[q])}]
    BY <1>1, <1>6
  <2>3. /\ Head(items[q]) \in Msg /\ Append(Tail(items[q]), m) \in Seq(Msg)
        /\ Len(Append(Tail(items[q]), m)) <= Cap
    BY <2>1, Dropping
  <2> QED
    BY <1>2, <1>3, <2>2, <2>3 DEF TypeOK, Fates
<1>7. policy \in {"old", "new"}
  BY DEF TypeOK
<1> QED
  BY <1>1, <1>4, <1>5, <1>6, <1>7

LEMMA ClearType ==
  ASSUME TypeOK, NEW f \in [Msg -> Fates], ClearQueue(f)
  PROVE  /\ fate' \in [Msg -> Fates]
         /\ items' \in [Msg -> Seq(Msg)] /\ \A q \in Msg : Len(items'[q]) <= Cap
         /\ dropped' \in [Msg -> SUBSET Msg]
         /\ mode' \in [Msg -> Modes \union {"none"}]
         /\ registered' \in {{}} \union {{q} : q \in Msg}
         /\ disturbed' \in BOOLEAN
<1> USE ConstantsAssumption DEF ClearQueue, TypeOK
<1>1. fate' \in [Msg -> Fates]
  BY DEF Fates
<1>2. items' \in [Msg -> Seq(Msg)]
  <2>1. <<>> \in Seq(Msg)
    OBVIOUS
  <2> QED
    BY <2>1
<1>3. \A q \in Msg : Len(items'[q]) <= Cap
  OBVIOUS
<1>4. dropped' \in [Msg -> SUBSET Msg]
  OBVIOUS
<1> QED
  BY <1>1, <1>2, <1>3, <1>4

LEMMA LeftoverType ==
  ASSUME TypeOK, NEW q \in Msg, items[q] # <<>>
  PROVE  Leftover(q) \in Seq(Msg) /\ Len(Leftover(q)) <= Cap
<1>1. items[q] \in Seq(Msg) /\ Len(items[q]) <= Cap /\ Cap \in Nat
  BY ConstantsAssumption DEF TypeOK
<1>2. Tail(items[q]) \in Seq(Msg) /\ Len(Tail(items[q])) = Len(items[q]) - 1
  BY <1>1, HeadTailProperties
<1>3. Len(items[q]) \in Nat
  BY <1>1
<1> QED
  BY <1>1, <1>2, <1>3 DEF Leftover

(* Every step keeps the state in its range, and the queues under the cap.  *)
LEMMA TypeStep == TypeOK /\ [Next]_vars => TypeOK'
<1> SUFFICES ASSUME TypeOK, [Next]_vars PROVE TypeOK'
  OBVIOUS
<1>0. \A m \in Msg : Main(m) \in Turn /\ Drain(m) \in Turn
  BY DEF Main, Drain, Turn
<1>1. ASSUME NEW m \in Msg, NEW md \in Modes, Arrive(m, md) PROVE TypeOK'
  <2>0. /\ phase' \in [Turn -> Phases] /\ UNCHANGED <<active, policy, stops>>
    BY <1>0, <1>1 DEF Arrive, Interrupt, Steer, RunNow, TypeOK, Phases
  <2>1. CASE Interrupt(m)
    <3>1. [fate EXCEPT ![m] = "taken"] \in [Msg -> Fates]
      BY DEF TypeOK, Fates
    <3>2. CASE ClearQueue([fate EXCEPT ![m] = "taken"])
      BY <2>0, <3>1, <3>2, ClearType DEF TypeOK
    <3>3. CASE /\ fate' = [fate EXCEPT ![m] = "taken"]
               /\ UNCHANGED <<items, dropped, mode, registered, disturbed>>
      BY <2>0, <3>1, <3>3 DEF TypeOK
    <3> QED
      BY <2>1, <3>2, <3>3 DEF Interrupt
  <2>2. CASE Steer(m)
    BY <2>0, <2>2 DEF Steer, TypeOK, Fates
  <2>3. CASE Enqueue(m, md) /\ UNCHANGED <<phase, disturbed>>
    BY <2>0, <2>3, EnqueueType DEF TypeOK
  <2>4. CASE /\ fate' = [fate EXCEPT ![m] = "taken"]
             /\ UNCHANGED <<items, dropped, mode, registered, disturbed>>
    BY <2>0, <2>4 DEF TypeOK, Fates
  <2> QED
    BY <1>1, <2>1, <2>2, <2>3, <2>4 DEF Arrive
<1>2. CASE Stop
  <2>1. fate \in [Msg -> Fates] /\ ClearQueue(fate)
    BY <1>2 DEF TypeOK, Stop
  <2>2. stops' \in 0..MaxStops /\ UNCHANGED <<phase, active, policy>>
    BY <1>2, ConstantsAssumption DEF TypeOK, Stop
  <2> QED
    BY <2>1, <2>2, ClearType DEF TypeOK
<1>3. ASSUME NEW k \in 1..MaxOutside, OutsideBegins(k) PROVE TypeOK'
  <2>1. Outside(k) \in Turn
    BY DEF Outside, Turn
  <2> QED
    BY <1>3, <2>1 DEF OutsideBegins, queueVars, TypeOK, Phases
<1>4. CASE TurnStep
  <2>1. ASSUME NEW t \in Turn, Register(t) PROVE TypeOK'
    BY <2>1 DEF Register, queueVars, TypeOK, Phases
  <2>2. ASSUME NEW t \in Turn, RunEnds(t) PROVE TypeOK'
    <3>1. active' \in {{}} \union {{u} : u \in Turn}
      BY <2>2 DEF RunEnds, TypeOK
    <3> QED
      BY <2>2, <3>1 DEF RunEnds, queueVars, TypeOK, Phases
  <2>3. ASSUME NEW m \in Msg, Finalize(m) PROVE TypeOK'
    BY <2>3 DEF Finalize, queueVars, TypeOK, Phases
  <2>4. ASSUME NEW q \in Msg, DrainTakes(q) PROVE TypeOK'
    <3>1. items' = [items EXCEPT ![q] = Leftover(q)] /\ items[q] # <<>>
      BY <2>4 DEF DrainTakes
    <3>2. items' \in [Msg -> Seq(Msg)] /\ \A r \in Msg : Len(items'[r]) <= Cap
      BY <3>1, LeftoverType DEF TypeOK
    <3>3. fate' \in [Msg -> Fates] /\ dropped' \in [Msg -> SUBSET Msg]
      BY <2>4 DEF DrainTakes, TypeOK, Fates
    <3>4. phase' \in [Turn -> Phases]
      BY <1>0, <2>4 DEF DrainTakes, TypeOK, Phases
    <3> QED
      BY <2>4, <3>2, <3>3, <3>4 DEF DrainTakes, TypeOK
  <2>5. ASSUME NEW q \in Msg, DrainTurnEnds(q) PROVE TypeOK'
    BY <1>0, <2>5 DEF DrainTurnEnds, Pop, TypeOK, Phases
  <2>6. ASSUME NEW q \in Msg, DrainFindsNothing(q) PROVE TypeOK'
    BY <1>0, <2>6 DEF DrainFindsNothing, Pop, TypeOK, Phases
  <2> QED
    BY <1>4, <2>1, <2>2, <2>3, <2>4, <2>5, <2>6 DEF TurnStep
<1>5. CASE UNCHANGED vars
  BY <1>5 DEF vars, TypeOK
<1> QED
  BY <1>1, <1>2, <1>3, <1>4, <1>5 DEF Next

LEMMA TypeInit == Init => TypeOK
<1> SUFFICES ASSUME Init PROVE TypeOK
  OBVIOUS
<1> USE ConstantsAssumption DEF Init, TypeOK
<1>1. fate \in [Msg -> Fates] /\ phase \in [Turn -> Phases]
  BY DEF Fates, Phases
<1>2. items \in [Msg -> Seq(Msg)] /\ \A q \in Msg : Len(items[q]) <= Cap
  OBVIOUS
<1>3. mode \in [Msg -> Modes \union {"none"}]
  OBVIOUS
<1>4. dropped \in [Msg -> SUBSET Msg] /\ stops \in 0..MaxStops
  OBVIOUS
<1> QED
  BY <1>1, <1>2, <1>3, <1>4

(* Every step keeps the state in its range; no queue object ever holds more *)
(* than the cap (_apply_drop_policy), whatever the policy.                  *)
THEOREM TypeCorrect == Spec => []TypeOK
  BY TypeInit, TypeStep, PTL DEF Spec

-----------------------------------------------------------------------------
(* The summary of what was dropped always has a message to ride along with. *)

LEMMA CarrierEnqueue ==
  ASSUME TypeOK, SummaryHasCarrier, NEW m \in Msg, NEW md \in Modes, Enqueue(m, md)
  PROVE  SummaryHasCarrier'
<1>1. PICK q \in (IF registered = {} THEN {m} ELSE registered) :
        \/ /\ items' = [items EXCEPT ![q] = Append(items[q], m)]
           /\ UNCHANGED dropped
        \/ /\ Full(q) /\ UNCHANGED items
           /\ dropped' = [dropped EXCEPT ![q] = dropped[q] \union {m}]
        \/ /\ Full(q)
           /\ dropped' = [dropped EXCEPT ![q] = dropped[q] \union {Head(items[q])}]
           /\ items' = [items EXCEPT ![q] = Append(Tail(items[q]), m)]
  BY DEF Enqueue
<1>2. q \in Msg /\ items[q] \in Seq(Msg)
  BY QueueOfMsg DEF TypeOK
<1>3. CASE /\ items' = [items EXCEPT ![q] = Append(items[q], m)]
           /\ UNCHANGED dropped
  <2>1. Append(items[q], m) # <<>>
    BY <1>2, AppendProperties
  <2> QED
    BY <1>2, <1>3, <2>1 DEF SummaryHasCarrier, TypeOK
<1>4. CASE /\ Full(q) /\ UNCHANGED items
           /\ dropped' = [dropped EXCEPT ![q] = dropped[q] \union {m}]
  <2>1. items[q] # <<>>
    BY <1>2, <1>4, ConstantsAssumption DEF Full
  <2> QED
    BY <1>2, <1>4, <2>1 DEF SummaryHasCarrier, TypeOK
<1>5. CASE /\ Full(q)
           /\ dropped' = [dropped EXCEPT ![q] = dropped[q] \union {Head(items[q])}]
           /\ items' = [items EXCEPT ![q] = Append(Tail(items[q]), m)]
  <2>1. items[q] # <<>>
    BY <1>2, <1>5, ConstantsAssumption DEF Full
  <2>2. Append(Tail(items[q]), m) # <<>>
    BY <1>2, <2>1, HeadTailProperties, AppendProperties
  <2> QED
    BY <1>2, <1>5, <2>2 DEF SummaryHasCarrier, TypeOK
<1> QED
  BY <1>1, <1>3, <1>4, <1>5

LEMMA CarrierStep ==
  TypeOK /\ SummaryHasCarrier /\ [Next]_vars => SummaryHasCarrier'
<1> SUFFICES ASSUME TypeOK, SummaryHasCarrier, [Next]_vars PROVE SummaryHasCarrier'
  OBVIOUS
<1>1. CASE UNCHANGED <<items, dropped>>
  BY <1>1 DEF SummaryHasCarrier
<1>2. ASSUME NEW f, ClearQueue(f) PROVE SummaryHasCarrier'
  BY <1>2 DEF ClearQueue, SummaryHasCarrier
<1>3. ASSUME NEW m \in Msg, NEW md \in Modes, Arrive(m, md) PROVE SummaryHasCarrier'
  BY <1>1, <1>2, <1>3, CarrierEnqueue DEF Arrive, Interrupt, Steer
<1>4. ASSUME NEW q \in Msg, DrainTakes(q) PROVE SummaryHasCarrier'
  BY <1>4 DEF DrainTakes, SummaryHasCarrier, TypeOK
<1>5. CASE TurnStep
  BY <1>1, <1>4, <1>5
     DEF TurnStep, Register, RunEnds, Finalize, DrainTurnEnds, DrainFindsNothing, queueVars
<1> QED
  BY <1>1, <1>2, <1>3, <1>5 DEF Next, Stop, OutsideBegins, queueVars, vars

(* Whatever the order of messages, turns and stops: an object with dropped  *)
(* messages to report holds a message to report them with.                  *)
THEOREM SummaryHasCarrierHolds == Spec => []SummaryHasCarrier
<1>1. Init => SummaryHasCarrier
  BY DEF Init, SummaryHasCarrier
<1> QED
  BY <1>1, CarrierStep, TypeInit, TypeStep, PTL DEF Spec

-----------------------------------------------------------------------------
(* A message is in one place.  The argument is about the set of messages in *)
(* each object, so OnePlace is first restated: no object repeats a message  *)
(* and no two objects share one.                                            *)

InPlace(it, d, f) ==
  /\ \A q \in Msg : IsInjective(it[q])
  /\ \A q, r \in Msg : \A x : x \in Range(it[q]) /\ x \in Range(it[r]) => q = r
  /\ \A q, r \in Msg : \A x : x \in d[q] /\ x \in d[r] => q = r
  /\ \A m \in Msg : f[m] = "queued" <=> \E q \in Msg : m \in Range(it[q])
  /\ \A m \in Msg : f[m] = "dropped" <=> \E q \in Msg : m \in d[q]

LEMMA InPlaceIsOnePlace ==
  TypeOK => (OnePlace <=> InPlace(items, dropped, fate))
<1> SUFFICES ASSUME TypeOK PROVE OnePlace <=> InPlace(items, dropped, fate)
  OBVIOUS
<1>1. \A q \in Msg : \A x : x \in Range(items[q]) <=> \E i \in 1..Len(items[q]) : x = items[q][i]
  <2>1. ASSUME NEW q \in Msg
        PROVE  \A x : x \in Range(items[q]) <=> \E i \in 1..Len(items[q]) : x = items[q][i]
    <3>1. items[q] \in Seq(Msg)
      BY DEF TypeOK
    <3> TAKE x
    <3> QED
      BY <3>1, InRange
  <2> QED
    BY <2>1
<1>2. (\A q, r \in Msg : \A i \in 1..Len(items[q]), j \in 1..Len(items[r]) :
          items[q][i] = items[r][j] => q = r /\ i = j)
      <=> /\ \A q \in Msg : IsInjective(items[q])
          /\ \A q, r \in Msg : \A x :
               x \in Range(items[q]) /\ x \in Range(items[r]) => q = r
  <2>1. ASSUME \A q, r \in Msg : \A i \in 1..Len(items[q]), j \in 1..Len(items[r]) :
                 items[q][i] = items[r][j] => q = r /\ i = j
        PROVE  /\ \A q \in Msg : IsInjective(items[q])
               /\ \A q, r \in Msg : \A x :
                    x \in Range(items[q]) /\ x \in Range(items[r]) => q = r
    <3>1. \A q \in Msg : IsInjective(items[q])
      BY <2>1, InjectiveSeq DEF TypeOK
    <3>2. ASSUME NEW q \in Msg, NEW r \in Msg, NEW x,
                 x \in Range(items[q]), x \in Range(items[r])
          PROVE  q = r
      <4>1. PICK i \in 1..Len(items[q]) : x = items[q][i]
        BY <1>1, <3>2
      <4>2. PICK j \in 1..Len(items[r]) : x = items[r][j]
        BY <1>1, <3>2
      <4> QED
        BY <2>1, <4>1, <4>2
    <3> QED
      BY <3>1, <3>2
  <2>2. ASSUME \A q \in Msg : IsInjective(items[q]),
               \A q, r \in Msg : \A x :
                 x \in Range(items[q]) /\ x \in Range(items[r]) => q = r,
               NEW q \in Msg, NEW r \in Msg,
               NEW i \in 1..Len(items[q]), NEW j \in 1..Len(items[r]),
               items[q][i] = items[r][j]
        PROVE  q = r /\ i = j
    <3>1. items[q][i] \in Range(items[q]) /\ items[r][j] \in Range(items[r])
      BY <1>1
    <3>2. q = r
      BY <2>2, <3>1
    <3> QED
      BY <2>2, <3>2, InjectiveSeq DEF TypeOK
  <2> QED
    BY <2>1, <2>2
<1>3. \A q, r \in Msg : dropped[q] \cap dropped[r] # {} <=>
                        \E x : x \in dropped[q] /\ x \in dropped[r]
  OBVIOUS
<1> QED
  BY <1>2, <1>3 DEF OnePlace, InPlace, Waiting

(* What enqueueing, clearing and draining do to the places. *)
LEMMA PlaceEnqueue ==
  ASSUME TypeOK, InPlace(items, dropped, fate),
         NEW m \in Msg, NEW md \in Modes, fate[m] = "new", Enqueue(m, md)
  PROVE  InPlace(items', dropped', fate')
<1>1. PICK q \in (IF registered = {} THEN {m} ELSE registered) :
        \/ /\ items' = [items EXCEPT ![q] = Append(items[q], m)]
           /\ fate' = [fate EXCEPT ![m] = "queued"]
           /\ dropped' = dropped
        \/ /\ Full(q) /\ items' = items
           /\ dropped' = [dropped EXCEPT ![q] = dropped[q] \union {m}]
           /\ fate' = [fate EXCEPT ![m] = "dropped"]
        \/ /\ Full(q)
           /\ dropped' = [dropped EXCEPT ![q] = dropped[q] \union {Head(items[q])}]
           /\ items' = [items EXCEPT ![q] = Append(Tail(items[q]), m)]
           /\ fate' = [fate EXCEPT ![m] = "queued", ![Head(items[q])] = "dropped"]
  BY DEF Enqueue
<1>2. /\ q \in Msg /\ items[q] \in Seq(Msg) /\ IsInjective(items[q])
      /\ items \in [Msg -> Seq(Msg)] /\ dropped \in [Msg -> SUBSET Msg]
      /\ fate \in [Msg -> Fates]
  BY QueueOfMsg DEF TypeOK, InPlace
<1>3. \A r \in Msg : m \notin Range(items[r]) /\ m \notin dropped[r]
  BY DEF InPlace
<1>4. CASE /\ items' = [items EXCEPT ![q] = Append(items[q], m)]
           /\ fate' = [fate EXCEPT ![m] = "queued"]
           /\ dropped' = dropped
  <2>1. IsInjective(items'[q]) /\ Range(items'[q]) = Range(items[q]) \union {m}
    BY <1>2, <1>3, <1>4, InjectiveAppend
  <2>2. /\ \A r \in Msg \ {q} : items'[r] = items[r]
        /\ \A r \in Msg : \A x : x \in Range(items'[r]) <=>
             x \in Range(items[r]) \/ (r = q /\ x = m)
    BY <1>2, <1>4, <2>1
  <2>3. \A k \in Msg : fate'[k] = IF k = m THEN "queued" ELSE fate[k]
    BY <1>2, <1>4
  <2>4. \A r \in Msg : IsInjective(items'[r])
    BY <2>1, <2>2 DEF InPlace
  <2> QED
    BY <1>2, <1>3, <1>4, <2>2, <2>3, <2>4 DEF InPlace
<1>5. CASE /\ items' = items
           /\ dropped' = [dropped EXCEPT ![q] = dropped[q] \union {m}]
           /\ fate' = [fate EXCEPT ![m] = "dropped"]
  <2>1. \A r \in Msg : dropped'[r] = IF r = q THEN dropped[q] \union {m} ELSE dropped[r]
    BY <1>2, <1>5
  <2>2. \A k \in Msg : fate'[k] = IF k = m THEN "dropped" ELSE fate[k]
    BY <1>2, <1>5
  <2> QED
    BY <1>2, <1>3, <1>5, <2>1, <2>2 DEF InPlace
<1>6. CASE /\ Full(q)
           /\ dropped' = [dropped EXCEPT ![q] = dropped[q] \union {Head(items[q])}]
           /\ items' = [items EXCEPT ![q] = Append(Tail(items[q]), m)]
           /\ fate' = [fate EXCEPT ![m] = "queued", ![Head(items[q])] = "dropped"]
  <2> DEFINE h == Head(items[q])
  <2>1. items[q] # <<>>
    BY <1>2, <1>6, ConstantsAssumption DEF Full
  <2>2. /\ h \in Msg /\ Tail(items[q]) \in Seq(Msg) /\ h \in Range(items[q])
        /\ IsInjective(Tail(items[q])) /\ Range(Tail(items[q])) = Range(items[q]) \ {h}
    BY <1>2, <2>1, Dropping, InjectiveTail
  <2>3. h # m /\ fate[h] = "queued"
    BY <1>2, <1>3, <2>2 DEF InPlace
  <2>4. /\ IsInjective(items'[q])
        /\ Range(items'[q]) = (Range(items[q]) \ {h}) \union {m}
    <3> DEFINE rest == Tail(items[q])
    <3>1. rest \in Seq(Msg) /\ IsInjective(rest) /\ m \notin Range(rest)
      BY <1>2, <1>3, <2>2
    <3>2. items'[q] = Append(rest, m)
      BY <1>2, <1>6
    <3>3. Range(rest) = Range(items[q]) \ {h}
      BY <2>2
    <3> HIDE DEF rest
    <3>4. IsInjective(Append(rest, m)) /\ Range(Append(rest, m)) = Range(rest) \union {m}
      BY <3>1, InjectiveAppend
    <3> QED
      BY <3>2, <3>3, <3>4
  <2>5. /\ \A r \in Msg \ {q} : items'[r] = items[r]
        /\ \A r \in Msg : h \in Range(items[r]) => r = q
    BY <1>2, <1>6, <2>2 DEF InPlace
  <2>6. \A r \in Msg : \A x : x \in dropped'[r] <=> x \in dropped[r] \/ (r = q /\ x = h)
    BY <1>2, <1>6
  <2>a. \A r \in Msg : \A x : x \in Range(items'[r]) <=>
          (x \in Range(items[r]) /\ x # h) \/ (r = q /\ x = m)
    BY <2>4, <2>5
  <2>7. \A k \in Msg : fate'[k] = IF k = h THEN "dropped"
                                 ELSE IF k = m THEN "queued" ELSE fate[k]
    BY <1>2, <1>6, <2>2
  <2>8. \A r \in Msg : h \notin dropped[r]
    BY <2>2, <2>3 DEF InPlace
  <2> HIDE DEF h
  <2>9. /\ \A r \in Msg : IsInjective(items'[r])
        /\ \A r, t \in Msg : \A x :
             x \in Range(items'[r]) /\ x \in Range(items'[t]) => r = t
    BY <1>3, <2>4, <2>5, <2>a DEF InPlace
  <2>10. \A r, t \in Msg : \A x : x \in dropped'[r] /\ x \in dropped'[t] => r = t
    BY <2>6, <2>8 DEF InPlace
  <2>11. \A k \in Msg : fate'[k] = "queued" <=> \E r \in Msg : k \in Range(items'[r])
    BY <1>2, <2>2, <2>3, <2>7, <2>a DEF InPlace
  <2>12. ASSUME NEW k \in Msg
         PROVE  fate'[k] = "dropped" <=> \E r \in Msg : k \in dropped'[r]
    <3>1. CASE k = h
      BY <1>2, <2>6, <2>7, <3>1
    <3>2. CASE k # h
      <4>1. fate'[k] = "dropped" <=> fate[k] = "dropped"
        BY <2>7, <3>2
      <4>2. \A r \in Msg : k \in dropped'[r] <=> k \in dropped[r]
        BY <2>6, <3>2
      <4> QED
        BY <4>1, <4>2 DEF InPlace
    <3> QED
      BY <3>1, <3>2
  <2> QED
    BY <2>9, <2>10, <2>11, <2>12 DEF InPlace
<1> QED
  BY <1>1, <1>4, <1>5, <1>6

LEMMA PlaceClear ==
  ASSUME TypeOK, InPlace(items, dropped, fate),
         NEW f \in [Msg -> Fates], ClearQueue(f),
         \A m \in Msg : f[m] # fate[m] => {f[m], fate[m]} \cap {"queued", "dropped"} = {}
  PROVE  InPlace(items', dropped', fate')
<1>1. IsInjective(<<>>) /\ Range(<<>>) = {}
  BY InjectiveEmpty
<1>2. /\ \A q \in registered : q \in Msg => items'[q] = <<>> /\ dropped'[q] = {}
      /\ \A q \in Msg \ registered : items'[q] = items[q] /\ dropped'[q] = dropped[q]
  BY DEF ClearQueue
<1>3. registered \subseteq Msg
  BY DEF TypeOK
<1>a. /\ \A q \in Msg : \A x :
           x \in Range(items'[q]) <=> q \notin registered /\ x \in Range(items[q])
      /\ \A q \in Msg : \A x :
           x \in dropped'[q] <=> q \notin registered /\ x \in dropped[q]
  BY <1>1, <1>2
<1>4. \A m \in Msg :
        IF \E q \in registered : m \in Range(items[q]) \union dropped[q]
        THEN fate'[m] = "cleared" ELSE fate'[m] = f[m]
  BY <1>3 DEF ClearQueue, Waiting
<1>b. ASSUME NEW m \in Msg
      PROVE  /\ fate'[m] = "queued" <=> \E q \in Msg : m \in Range(items'[q])
             /\ fate'[m] = "dropped" <=> \E q \in Msg : m \in dropped'[q]
  <2>1. CASE \E q \in registered : m \in Range(items[q])
    <3>1. fate'[m] = "cleared" /\ fate[m] = "queued"
      BY <1>3, <1>4, <2>1 DEF InPlace
    <3> QED
      BY <1>3, <1>a, <2>1, <3>1 DEF InPlace
  <2>2. CASE \E q \in registered : m \in dropped[q]
    <3>1. fate'[m] = "cleared" /\ fate[m] = "dropped"
      BY <1>3, <1>4, <2>2 DEF InPlace
    <3> QED
      BY <1>3, <1>a, <2>2, <3>1 DEF InPlace
  <2>3. CASE \A q \in registered : m \notin Range(items[q]) /\ m \notin dropped[q]
    <3>1. fate'[m] = f[m]
      BY <1>4, <2>3
    <3>2. /\ f[m] = "queued" <=> fate[m] = "queued"
          /\ f[m] = "dropped" <=> fate[m] = "dropped"
      OBVIOUS
    <3> QED
      BY <1>a, <2>3, <3>1, <3>2 DEF InPlace
  <2> QED
    BY <2>1, <2>2, <2>3
<1>5. /\ \A q \in Msg : IsInjective(items'[q])
      /\ \A q, r \in Msg : \A x :
           x \in Range(items'[q]) /\ x \in Range(items'[r]) => q = r
      /\ \A q, r \in Msg : \A x : x \in dropped'[q] /\ x \in dropped'[r] => q = r
  BY <1>1, <1>2, <1>a DEF InPlace
<1> QED
  BY <1>5, <1>b DEF InPlace

LEMMA PlaceTakes ==
  ASSUME TypeOK, InPlace(items, dropped, fate), NEW q \in Msg, DrainTakes(q)
  PROVE  InPlace(items', dropped', fate')
<1>1. /\ items[q] \in Seq(Msg) /\ items[q] # <<>> /\ IsInjective(items[q])
      /\ items' = [items EXCEPT ![q] = Leftover(q)]
      /\ dropped' = [dropped EXCEPT ![q] = {}]
      /\ \A m \in Msg : fate'[m] = IF m \in Batch(q) THEN "taken"
                                   ELSE IF m \in dropped[q] THEN "told" ELSE fate[m]
  BY DEF DrainTakes, TypeOK, InPlace
<1>2. Batch(q) \subseteq Range(items[q])
  BY <1>1, InjectiveTail DEF Batch, Waiting
<1>3. IsInjective(Leftover(q)) /\ Range(Leftover(q)) = Range(items[q]) \ Batch(q)
  <2>1. CASE Batch(q) = Range(items[q])
    <3>1. Leftover(q) = <<>> /\ IsInjective(<<>>) /\ Range(<<>>) = {}
      BY <2>1, InjectiveEmpty DEF Leftover, Waiting
    <3> QED
      BY <2>1, <3>1
  <2>2. CASE Batch(q) # Range(items[q])
    <3>1. Leftover(q) = Tail(items[q]) /\ Batch(q) = {Head(items[q])}
      BY <2>2 DEF Leftover, Batch, Waiting
    <3> QED
      BY <1>1, <3>1, InjectiveTail
  <2> QED
    BY <2>1, <2>2
<1>4. /\ \A r \in Msg : items'[r] = IF r = q THEN Leftover(q) ELSE items[r]
      /\ \A r \in Msg : dropped'[r] = IF r = q THEN {} ELSE dropped[r]
  BY <1>1 DEF TypeOK
<1>a. /\ \A r \in Msg : \A x : x \in Range(items'[r]) <=>
           x \in Range(items[r]) /\ (r = q => x \notin Batch(q))
      /\ \A r \in Msg : \A x : x \in dropped'[r] <=> r # q /\ x \in dropped[r]
  BY <1>3, <1>4
<1>5. /\ \A r \in Msg : IsInjective(items'[r])
      /\ \A r, t \in Msg : \A x :
           x \in Range(items'[r]) /\ x \in Range(items'[t]) => r = t
      /\ \A r, t \in Msg : \A x : x \in dropped'[r] /\ x \in dropped'[t] => r = t
  BY <1>3, <1>4, <1>a DEF InPlace
<1>6. \A m \in Msg : fate'[m] = "queued" <=> \E r \in Msg : m \in Range(items'[r])
  BY <1>1, <1>2, <1>a DEF InPlace
<1>7. \A m \in Msg : fate'[m] = "dropped" <=> \E r \in Msg : m \in dropped'[r]
  BY <1>1, <1>2, <1>a DEF InPlace
<1> QED
  BY <1>5, <1>6, <1>7 DEF InPlace

LEMMA PlaceStep == TypeOK /\ OnePlace /\ [Next]_vars => OnePlace'
<1> SUFFICES ASSUME TypeOK, OnePlace, [Next]_vars PROVE OnePlace'
  OBVIOUS
<1>1. InPlace(items, dropped, fate)
  BY InPlaceIsOnePlace
<1>2. TypeOK'
  BY TypeStep
<1>3. (OnePlace <=> InPlace(items, dropped, fate))'
  BY <1>2, InPlaceIsOnePlace, PTL
<1> SUFFICES InPlace(items', dropped', fate')
  BY <1>3 DEF InPlace, IsInjective, Range
<1>4. CASE UNCHANGED <<items, dropped, fate>>
  BY <1>1, <1>4
<1>5. ASSUME NEW m \in Msg, NEW md \in Modes, Arrive(m, md)
      PROVE  InPlace(items', dropped', fate')
  <2> DEFINE gets(x) == [fate EXCEPT ![m] = x]
  <2>1. fate[m] = "new" /\ fate \in [Msg -> Fates]
    BY <1>5 DEF Arrive, NextToCome, TypeOK
  <2>2. CASE ClearQueue(gets("taken"))
    <3>1. gets("taken") \in [Msg -> Fates]
      BY <2>1 DEF Fates
    <3>2. \A k \in Msg : gets("taken")[k] # fate[k] =>
             {gets("taken")[k], fate[k]} \cap {"queued", "dropped"} = {}
      BY <2>1
    <3> QED
      BY <1>1, <2>2, <3>1, <3>2, PlaceClear
  <2>3. ASSUME NEW x \in {"taken", "steered"}, fate' = gets(x), UNCHANGED <<items, dropped>>
        PROVE  InPlace(items', dropped', fate')
    <3>1. \A k \in Msg : fate'[k] = IF k = m THEN x ELSE fate[k]
      BY <2>1, <2>3
    <3> QED
      BY <1>1, <2>1, <2>3, <3>1 DEF InPlace
  <2>4. CASE Enqueue(m, md)
    BY <1>1, <2>1, <2>4, PlaceEnqueue
  <2> QED
    BY <1>5, <2>2, <2>3, <2>4 DEF Arrive, Interrupt, Steer
<1>6. CASE Stop
  BY <1>1, <1>6, PlaceClear DEF Stop, TypeOK
<1>7. CASE TurnStep
  BY <1>1, <1>4, <1>7, PlaceTakes
     DEF TurnStep, Register, RunEnds, Finalize, DrainTurnEnds, DrainFindsNothing, queueVars
<1> QED
  BY <1>4, <1>5, <1>6, <1>7 DEF Next, OutsideBegins, queueVars, vars

(* No interleaving of arrivals, drains, drops and clears, on however many   *)
(* queue objects, answers a message twice or tells it twice.                *)
THEOREM OnePlaceHolds == Spec => []OnePlace
<1>1. Init => OnePlace
  BY DEF Init, OnePlace, Waiting, Range
<1> QED
  BY <1>1, PlaceStep, TypeInit, TypeStep, PTL DEF Spec

-----------------------------------------------------------------------------
(* The order in which a drain takes messages.  Each object holds its       *)
(* messages in the order they came, and a message comes after all those    *)
(* that have come.                                                         *)

Sorted(s) == \A i, j \in 1..Len(s) : i < j => s[i] < s[j]
InOrder ==
  /\ \A q \in Msg : Sorted(items[q])
  /\ \A k, l \in Msg : k < l /\ fate[k] = "new" => fate[l] = "new"

LEMMA SortedTail ==
  ASSUME NEW s \in Seq(Msg), s # <<>>, Sorted(s)
  PROVE  /\ Sorted(Tail(s)) /\ Tail(s) \in Seq(Msg)
         /\ \A x \in Range(Tail(s)) : Head(s) < x /\ x \in Range(s)
<1>1. /\ Len(s) \in Nat \ {0} /\ Tail(s) \in Seq(Msg) /\ Len(Tail(s)) = Len(s) - 1
      /\ \A i \in 1..Len(Tail(s)) : Tail(s)[i] = s[i + 1]
      /\ Head(s) = s[1]
  BY HeadTailProperties
<1>2. Sorted(Tail(s))
  BY <1>1 DEF Sorted
<1>3. ASSUME NEW x \in Range(Tail(s)) PROVE Head(s) < x /\ x \in Range(s)
  <2>0. Tail(s) \in Seq(Msg)
    BY <1>1
  <2>1. PICK i \in 1..Len(Tail(s)) : x = Tail(s)[i]
    BY <2>0, InRange, Zenon
  <2>2. x = s[i + 1] /\ i + 1 \in 1..Len(s) /\ 1 \in 1..Len(s) /\ 1 < i + 1
    BY <1>1, <2>1
  <2>3. x \in Range(s)
    BY <2>2, InRange
  <2> QED
    BY <1>1, <2>2, <2>3 DEF Sorted
<1> QED
  BY <1>1, <1>2, <1>3

LEMMA SortedAppend ==
  ASSUME NEW s \in Seq(Msg), NEW m \in Msg, Sorted(s), \A x \in Range(s) : x < m
  PROVE  Sorted(Append(s, m))
<1>1. /\ Len(s) \in Nat /\ Len(Append(s, m)) = Len(s) + 1
      /\ \A i \in 1..Len(s) : Append(s, m)[i] = s[i]
      /\ Append(s, m)[Len(s) + 1] = m
  BY AppendProperties
<1>2. \A i \in 1..Len(s) : s[i] < m
  <2> TAKE i \in 1..Len(s)
  <2> s[i] \in Range(s)
    BY InRange
  <2> QED
    OBVIOUS
<1> QED
  BY <1>1, <1>2 DEF Sorted

(* A message that comes is behind all that wait, in whatever object.       *)
LEMMA ComesLast ==
  ASSUME TypeOK, InPlace(items, dropped, fate), InOrder, NEW m \in Msg, NextToCome(m),
         NEW q \in Msg, NEW x \in Range(items[q])
  PROVE  x < m
<1>0. items[q] \in Seq(Msg)
  BY DEF TypeOK
<1>1. x \in Msg
  <2>1. PICK i \in 1..Len(items[q]) : x = items[q][i]
    BY <1>0, InRange, Zenon
  <2> QED
    BY <1>0, <2>1
<1>2. fate[x] = "queued" /\ fate[m] = "new"
  BY <1>1 DEF InPlace, NextToCome
<1>3. ~(m < x)
  BY <1>1, <1>2 DEF InOrder
<1>4. x \in Nat /\ m \in Nat /\ x # m
  BY <1>1, <1>2, ConstantsAssumption DEF Msg
<1> QED
  BY <1>3, <1>4

(* What comes is the first that had not come.                              *)
LEMMA CameInOrder ==
  ASSUME InOrder, NEW m \in Msg, NextToCome(m),
         \A k \in Msg \ {m} : fate'[k] = "new" <=> fate[k] = "new", fate'[m] # "new"
  PROVE  \A k, l \in Msg : k < l /\ fate'[k] = "new" => fate'[l] = "new"
<1> SUFFICES ASSUME NEW k \in Msg, NEW l \in Msg, k < l, fate'[k] = "new"
             PROVE  fate'[l] = "new"
  OBVIOUS
<1>1. k # m /\ fate[k] = "new"
  OBVIOUS
<1>2. l # m
  BY <1>1 DEF NextToCome
<1>3. fate[l] = "new"
  BY <1>1 DEF InOrder
<1> QED
  BY <1>2, <1>3

LEMMA OrderEnqueue ==
  ASSUME TypeOK, InPlace(items, dropped, fate), InOrder,
         NEW m \in Msg, NEW md \in Modes, NextToCome(m), Enqueue(m, md)
  PROVE  /\ InOrder'
         /\ \A k \in Msg : fate'[k] # "taken" \/ fate[k] = "taken"
<1>1. PICK q \in (IF registered = {} THEN {m} ELSE registered) :
        \/ /\ items' = [items EXCEPT ![q] = Append(items[q], m)]
           /\ fate' = [fate EXCEPT ![m] = "queued"]
        \/ /\ items' = items
           /\ fate' = [fate EXCEPT ![m] = "dropped"]
        \/ /\ Full(q)
           /\ items' = [items EXCEPT ![q] = Append(Tail(items[q]), m)]
           /\ fate' = [fate EXCEPT ![m] = "queued", ![Head(items[q])] = "dropped"]
  BY DEF Enqueue
<1>2. q \in Msg /\ items[q] \in Seq(Msg) /\ Sorted(items[q])
  BY QueueOfMsg DEF TypeOK, InOrder
<1>3. \A x \in Range(items[q]) : x < m
  BY <1>2, ComesLast
<1>4. fate[m] = "new" /\ fate \in [Msg -> Fates]
  BY DEF NextToCome, TypeOK
<1>5. CASE /\ items' = [items EXCEPT ![q] = Append(items[q], m)]
           /\ fate' = [fate EXCEPT ![m] = "queued"]
  <2>1. Sorted(Append(items[q], m))
    BY <1>2, <1>3, SortedAppend
  <2>2. \A r \in Msg : Sorted(items'[r])
    BY <1>5, <2>1 DEF InOrder, TypeOK
  <2>3. \A k, l \in Msg : k < l /\ fate'[k] = "new" => fate'[l] = "new"
    BY <1>4, <1>5, CameInOrder
  <2> QED
    BY <1>4, <1>5, <2>2, <2>3 DEF InOrder, Sorted
<1>6. CASE items' = items /\ fate' = [fate EXCEPT ![m] = "dropped"]
  <2>1. \A k, l \in Msg : k < l /\ fate'[k] = "new" => fate'[l] = "new"
    BY <1>4, <1>6, CameInOrder
  <2> QED
    BY <1>4, <1>6, <2>1 DEF InOrder, Sorted
<1>7. CASE /\ Full(q)
           /\ items' = [items EXCEPT ![q] = Append(Tail(items[q]), m)]
           /\ fate' = [fate EXCEPT ![m] = "queued", ![Head(items[q])] = "dropped"]
  <2>1. items[q] # <<>>
    BY <1>2, <1>7, ConstantsAssumption DEF Full
  <2>2. Sorted(Append(Tail(items[q]), m))
    BY <1>2, <1>3, <2>1, SortedTail, SortedAppend
  <2>3. \A r \in Msg : Sorted(items'[r])
    BY <1>7, <2>2 DEF InOrder, TypeOK
  <2>4. Head(items[q]) \in Range(items[q]) /\ Head(items[q]) \in Msg
    <3>1. Head(items[q]) = items[q][1] /\ 1 \in 1..Len(items[q])
      BY <1>2, <2>1
    <3> QED
      BY <1>2, <3>1, InRange
  <2>5. fate[Head(items[q])] = "queued"
    BY <1>2, <2>4 DEF InPlace
  <2>6. \A k, l \in Msg : k < l /\ fate'[k] = "new" => fate'[l] = "new"
    BY <1>4, <1>7, <2>4, <2>5, CameInOrder
  <2> QED
    BY <1>4, <1>7, <2>3, <2>6 DEF InOrder, Sorted
<1> QED
  BY <1>1, <1>5, <1>6, <1>7

LEMMA OrderClear ==
  ASSUME TypeOK, InOrder, NEW f \in [Msg -> Fates], ClearQueue(f),
         InPlace(items, dropped, fate), \A k \in Msg : f[k] = "new" => fate[k] = "new"
  PROVE  /\ \A q \in Msg : Sorted(items'[q])
         /\ \A k \in Msg : fate'[k] = f[k] \/ (fate[k] # "new" /\ fate'[k] = "cleared")
<1>1. Sorted(<<>>)
  BY DEF Sorted
<1>2. \A q \in Msg : Sorted(items'[q])
  BY <1>1 DEF ClearQueue, InOrder
<1>3. \A k \in Msg : fate'[k] = f[k] \/
        (fate'[k] = "cleared" /\ \E q \in registered : k \in Range(items[q]) \/ k \in dropped[q])
  BY DEF ClearQueue, Waiting
<1>4. registered \subseteq Msg
  BY DEF TypeOK
<1> QED
  BY <1>2, <1>3, <1>4 DEF InPlace

(* A drain takes all of its object, or the first of it.                    *)
LEMMA OrderTakes ==
  ASSUME TypeOK, InPlace(items, dropped, fate), InOrder, NEW q \in Msg, DrainTakes(q)
  PROVE  /\ InOrder'
         /\ \A r \in Msg : \A m \in Range(items[r]), k \in Range(items'[r]) :
              m \notin Range(items'[r]) /\ fate'[m] = "taken" => m < k
<1>1. /\ items[q] \in Seq(Msg) /\ items[q] # <<>> /\ Sorted(items[q])
      /\ items' = [items EXCEPT ![q] = Leftover(q)]
      /\ \A m \in Msg : fate'[m] = IF m \in Batch(q) THEN "taken"
                                   ELSE IF m \in dropped[q] THEN "told" ELSE fate[m]
  BY DEF DrainTakes, TypeOK, InOrder
<1>2. /\ Head(items[q]) \in Range(items[q])
      /\ Batch(q) # Range(items[q]) => Batch(q) = {Head(items[q])}
  <2>1. Head(items[q]) = items[q][1] /\ 1 \in 1..Len(items[q])
    BY <1>1
  <2> QED
    BY <1>1, <2>1, InRange DEF Batch, Waiting
<1>3. Batch(q) \subseteq Range(items[q])
  BY <1>2
<1>4. Leftover(q) = IF Batch(q) = Range(items[q]) THEN <<>> ELSE Tail(items[q])
  BY DEF Leftover, Waiting
<1>5. Sorted(<<>>) /\ Range(<<>>) = {}
  BY DEF Sorted, Range
<1>6. Sorted(Leftover(q))
  BY <1>1, <1>4, <1>5, SortedTail
<1>7. \A r \in Msg : items'[r] = IF r = q THEN Leftover(q) ELSE items[r]
  BY <1>1 DEF TypeOK
<1>8. \A k \in Msg : fate'[k] = "new" <=> fate[k] = "new"
  BY <1>1, <1>3 DEF InPlace
<1>9. InOrder'
  BY <1>6, <1>7, <1>8 DEF InOrder, Sorted
<1>10. ASSUME NEW r \in Msg, NEW m \in Range(items[r]), NEW k \in Range(items'[r]),
              m \notin Range(items'[r]), fate'[m] = "taken"
       PROVE  m < k
  <2>1. r = q
    BY <1>7, <1>10
  <2>2. m \in Msg
    BY <1>1, <2>1, InRange
  <2>3. m \in Batch(q)
    BY <1>1, <1>10, <2>1, <2>2 DEF InPlace
  <2>4. Batch(q) # Range(items[q]) /\ k \in Range(Tail(items[q]))
    BY <1>4, <1>5, <1>7, <1>10, <2>1
  <2>5. m = Head(items[q])
    BY <1>2, <2>3, <2>4
  <2> QED
    BY <1>1, <2>4, <2>5, SortedTail
<1> QED
  BY <1>9, <1>10

LEMMA OrderStep ==
  ASSUME TypeOK, OnePlace, InOrder, [Next]_vars
  PROVE  /\ InOrder'
         /\ \A q \in Msg : \A m \in Waiting(q), k \in Range(items'[q]) :
              (m \notin Range(items'[q]) /\ fate'[m] = "taken") => m < k
<1>1. InPlace(items, dropped, fate)
  BY InPlaceIsOnePlace
<1>2. ASSUME \A m \in Msg : fate'[m] = "taken" =>
               fate[m] # "queued"
      PROVE  \A q \in Msg : \A m \in Waiting(q), k \in Range(items'[q]) :
              (m \notin Range(items'[q]) /\ fate'[m] = "taken") => m < k
  <2> SUFFICES ASSUME NEW q \in Msg, NEW m \in Waiting(q) PROVE fate'[m] # "taken"
    OBVIOUS
  <2>0. items[q] \in Seq(Msg) /\ m \in Range(items[q])
    BY DEF TypeOK, Waiting
  <2>1. m \in Msg
    <3>1. PICK i \in 1..Len(items[q]) : m = items[q][i]
      BY <2>0, InRange, Zenon
    <3> QED
      BY <2>0, <3>1
  <2> QED
    BY <1>1, <1>2, <2>0, <2>1 DEF InPlace
<1>3. CASE UNCHANGED <<items, fate>>
  <2>1. InOrder'
    BY <1>3 DEF InOrder, Sorted
  <2> QED
    BY <1>2, <1>3, <2>1
<1>4. ASSUME NEW m \in Msg, NEW md \in Modes, Arrive(m, md)
      PROVE  /\ InOrder'
             /\ \A k \in Msg : fate'[k] = "taken" => fate[k] # "queued"
  <2> DEFINE gets(x) == [fate EXCEPT ![m] = x]
  <2>1. NextToCome(m) /\ fate[m] = "new" /\ fate \in [Msg -> Fates]
    BY <1>4 DEF Arrive, NextToCome, TypeOK
  <2>2. CASE ClearQueue(gets("taken"))
    <3>1. gets("taken") \in [Msg -> Fates]
      BY <2>1 DEF Fates
    <3>2. \A k \in Msg : gets("taken")[k] = IF k = m THEN "taken" ELSE fate[k]
      BY <2>1
    <3>3. /\ \A q \in Msg : Sorted(items'[q])
          /\ \A k \in Msg : fate'[k] = gets("taken")[k]
                              \/ (fate[k] # "new" /\ fate'[k] = "cleared")
      BY <1>1, <2>1, <2>2, <3>1, <3>2, OrderClear
    <3>4. \A k \in Msg \ {m} : fate'[k] = "new" <=> fate[k] = "new"
      BY <3>2, <3>3
    <3>5. fate'[m] # "new"
      BY <3>2, <3>3
    <3>6. \A k, l \in Msg : k < l /\ fate'[k] = "new" => fate'[l] = "new"
      BY <2>1, <3>4, <3>5, CameInOrder
    <3> QED
      BY <2>1, <3>2, <3>3, <3>6 DEF InOrder, Sorted
  <2>3. ASSUME NEW x \in {"taken", "steered"}, fate' = gets(x), UNCHANGED items
        PROVE  /\ InOrder'
               /\ \A k \in Msg : fate'[k] = "taken" => fate[k] # "queued"
    <3>1. \A k \in Msg : fate'[k] = IF k = m THEN x ELSE fate[k]
      BY <2>1, <2>3
    <3>2. \A k, l \in Msg : k < l /\ fate'[k] = "new" => fate'[l] = "new"
      BY <2>1, <3>1, CameInOrder
    <3> QED
      BY <2>1, <2>3, <3>1, <3>2 DEF InOrder, Sorted
  <2>4. CASE Enqueue(m, md)
    BY <1>1, <2>1, <2>4, OrderEnqueue
  <2> QED
    BY <1>4, <2>2, <2>3, <2>4 DEF Arrive, Interrupt, Steer
<1>5. CASE Stop
  <2>1. ClearQueue(fate) /\ fate \in [Msg -> Fates]
    BY <1>5 DEF Stop, TypeOK
  <2>2. /\ \A q \in Msg : Sorted(items'[q])
        /\ \A k \in Msg : fate'[k] = fate[k] \/ (fate[k] # "new" /\ fate'[k] = "cleared")
    BY <1>1, <2>1, OrderClear
  <2>3. InOrder' /\ \A k \in Msg : fate'[k] = "taken" => fate[k] # "queued"
    BY <2>2 DEF InOrder, Sorted
  <2> QED
    BY <1>2, <2>3
<1>6. ASSUME NEW q \in Msg, DrainTakes(q)
      PROVE  /\ InOrder'
             /\ \A r \in Msg : \A m \in Waiting(r), k \in Range(items'[r]) :
                  (m \notin Range(items'[r]) /\ fate'[m] = "taken") => m < k
  BY <1>1, <1>6, OrderTakes DEF Waiting
<1>7. CASE TurnStep
  BY <1>3, <1>6, <1>7
     DEF TurnStep, Register, RunEnds, Finalize, DrainTurnEnds, DrainFindsNothing, queueVars
<1> QED
  BY <1>2, <1>3, <1>4, <1>5, <1>7 DEF Next, OutsideBegins, queueVars, vars

(* A drain takes the messages of its object in the order they came, on any *)
(* object, registered or forgotten, and whether it takes one or a batch.   *)
THEOREM TakenInOrderHolds == Spec => TakenInOrder
<1>1. Init => OnePlace /\ InOrder
  BY DEF Init, OnePlace, Waiting, Range, InOrder, Sorted
<1>2. TypeOK /\ OnePlace /\ InOrder /\ [Next]_vars
        => /\ InOrder'
           /\ [\A q \in Msg : \A m \in Waiting(q), k \in Range(items'[q]) :
                 (m \notin Range(items'[q]) /\ fate'[m] = "taken") => m < k]_vars
  BY OrderStep
<1> QED
  BY <1>1, <1>2, PlaceStep, TypeInit, TypeStep, PTL DEF Spec, TakenInOrder

-----------------------------------------------------------------------------
(* A fate is not taken back.  Where a message is (InPlace) says what its   *)
(* fate is, so whoever moves it knows what it was.                         *)

LEMMA Fatal ==
  /\ \A f \in Fates : f \in After(f)
  /\ \A f \in Fates \ {"told"} : f \in After("new")
  /\ {"taken", "dropped", "cleared"} \subseteq After("queued")
  /\ {"told", "cleared"} \subseteq After("dropped")
  BY DEF After, Fates

LEMMA HeadWaits ==
  ASSUME TypeOK, InPlace(items, dropped, fate), NEW q \in Msg, items[q] # <<>>
  PROVE  Head(items[q]) \in Msg /\ fate[Head(items[q])] = "queued"
<1>1. items[q] \in Seq(Msg) /\ IsInjective(items[q])
  BY DEF TypeOK, InPlace
<1>2. Head(items[q]) \in Msg /\ Head(items[q]) \in Range(items[q])
  BY <1>1, Dropping, InjectiveTail
<1> QED
  BY <1>2 DEF InPlace

LEMMA FateEnqueue ==
  ASSUME TypeOK, InPlace(items, dropped, fate), NEW m \in Msg, NEW md \in Modes,
         fate[m] = "new", Enqueue(m, md)
  PROVE  \A k \in Msg : fate'[k] \in After(fate[k])
<1>1. PICK q \in (IF registered = {} THEN {m} ELSE registered) :
        \/ fate' = [fate EXCEPT ![m] = "queued"]
        \/ fate' = [fate EXCEPT ![m] = "dropped"]
        \/ /\ Full(q)
           /\ fate' = [fate EXCEPT ![m] = "queued", ![Head(items[q])] = "dropped"]
  BY DEF Enqueue
<1>2. q \in Msg /\ items[q] \in Seq(Msg) /\ fate \in [Msg -> Fates]
  BY QueueOfMsg DEF TypeOK
<1>3. ASSUME Full(q) PROVE Head(items[q]) \in Msg /\ fate[Head(items[q])] = "queued"
  <2>1. items[q] # <<>>
    BY <1>2, <1>3, ConstantsAssumption DEF Full
  <2> QED
    BY <1>2, <2>1, HeadWaits
<1>4. ASSUME NEW k \in Msg PROVE fate'[k] \in After(fate[k])
  <2>1. CASE fate'[k] = fate[k]
    BY <1>2, <2>1, Fatal
  <2>2. CASE k = m /\ fate'[k] \in {"queued", "dropped"}
    BY <2>2, Fatal DEF Fates
  <2>3. CASE fate[k] = "queued" /\ fate'[k] = "dropped"
    BY <2>3, Fatal
  <2> QED
    BY <1>1, <1>2, <1>3, <2>1, <2>2, <2>3
<1> QED
  BY <1>4

LEMMA FateClear ==
  ASSUME TypeOK, InPlace(items, dropped, fate), NEW f \in [Msg -> Fates], ClearQueue(f)
  PROVE  \A k \in Msg : \/ fate'[k] = f[k]
                        \/ fate'[k] = "cleared" /\ fate[k] \in {"queued", "dropped"}
<1>1. registered \subseteq Msg
  BY DEF TypeOK
<1>2. \A k \in Msg : \/ fate'[k] = f[k]
                     \/ /\ fate'[k] = "cleared"
                        /\ \E q \in registered : k \in Range(items[q]) \/ k \in dropped[q]
  BY DEF ClearQueue, Waiting
<1> QED
  BY <1>1, <1>2 DEF InPlace

LEMMA FateTakes ==
  ASSUME TypeOK, InPlace(items, dropped, fate), NEW q \in Msg, DrainTakes(q)
  PROVE  \A k \in Msg : fate'[k] \in After(fate[k])
<1>1. /\ items[q] \in Seq(Msg) /\ items[q] # <<>> /\ fate \in [Msg -> Fates]
      /\ \A k \in Msg : fate'[k] = IF k \in Batch(q) THEN "taken"
                                   ELSE IF k \in dropped[q] THEN "told" ELSE fate[k]
  BY DEF DrainTakes, TypeOK
<1>2. Batch(q) \subseteq Range(items[q])
  BY <1>1, InjectiveTail DEF Batch, Waiting, InPlace
<1>3. ASSUME NEW k \in Msg PROVE fate'[k] \in After(fate[k])
  <2>1. CASE fate[k] = "queued" /\ fate'[k] = "taken"
    BY <2>1, Fatal
  <2>2. CASE fate[k] = "dropped" /\ fate'[k] = "told"
    BY <2>2, Fatal
  <2>3. CASE fate'[k] = fate[k]
    BY <1>1, <2>3, Fatal
  <2> QED
    BY <1>1, <1>2, <2>1, <2>2, <2>3 DEF InPlace
<1> QED
  BY <1>3

LEMMA FateStep ==
  ASSUME TypeOK, OnePlace, [Next]_vars
  PROVE  \A m \in Msg : fate'[m] \in After(fate[m])
<1>1. InPlace(items, dropped, fate) /\ fate \in [Msg -> Fates]
  BY InPlaceIsOnePlace DEF TypeOK
<1>2. CASE UNCHANGED fate
  BY <1>1, <1>2, Fatal
<1>3. ASSUME NEW f \in [Msg -> Fates], ClearQueue(f), NEW k \in Msg, f[k] \in After(fate[k])
      PROVE  fate'[k] \in After(fate[k])
  BY <1>1, <1>3, FateClear, Fatal
<1>4. ASSUME NEW m \in Msg, NEW md \in Modes, Arrive(m, md), NEW k \in Msg
      PROVE  fate'[k] \in After(fate[k])
  <2>1. fate[m] = "new"
    BY <1>4 DEF Arrive, NextToCome
  <2>2. ASSUME NEW x \in {"taken", "steered"}
        PROVE  /\ [fate EXCEPT ![m] = x] \in [Msg -> Fates]
               /\ [fate EXCEPT ![m] = x][k] \in After(fate[k])
    <3>1. x \in Fates \ {"told"} /\ fate[k] \in Fates
      BY <1>1 DEF Fates
    <3> QED
      BY <1>1, <2>1, <3>1, Fatal
  <2>3. CASE Enqueue(m, md)
    BY <1>1, <2>1, <2>3, FateEnqueue
  <2> QED
    BY <1>3, <1>4, <2>2, <2>3 DEF Arrive, Interrupt, Steer
<1>5. CASE Stop
  BY <1>1, <1>3, <1>5, Fatal DEF Stop
<1>6. CASE TurnStep
  BY <1>1, <1>2, <1>6, FateTakes
     DEF TurnStep, Register, RunEnds, Finalize, DrainTurnEnds, DrainFindsNothing, queueVars
<1> QED
  BY <1>2, <1>4, <1>5, <1>6 DEF Next, OutsideBegins, queueVars, vars

(* What a turn has taken, a summary told, a run been steered by or a stop  *)
(* cleared stays so, on whatever object the message was and whichever      *)
(* drains still hold it: nobody answers it again, and no message that was  *)
(* dropped waits again.                                                    *)
THEOREM FatesAreKeptHolds == Spec => FatesAreKept
<1>1. Init => OnePlace
  BY DEF Init, OnePlace, Waiting, Range
<1>2. TypeOK /\ OnePlace /\ [Next]_vars
        => [\A m \in Msg : fate'[m] \in After(fate[m])]_vars
  BY FateStep
<1> QED
  BY <1>1, <1>2, PlaceStep, TypeInit, TypeStep, PTL DEF Spec, FatesAreKept

-----------------------------------------------------------------------------
(* Nobody is stranded while nothing interferes: the run that a message was *)
(* queued behind is a message's turn or a drain of the very object it went *)
(* to.                                                                     *)

Watched ==
  /\ \A t \in active : phase[t] = "running"
  /\ \A m \in Msg : fate[m] = "new" => phase[Main(m)] = "none"
Unstranded ==
  ~disturbed =>
    /\ \A k \in 1..MaxOutside : phase[Outside(k)] = "none"
    /\ \A q \in Msg : items[q] # <<>> \/ Draining(q) => q \in registered
    /\ \A q \in Msg : items[q] # <<>> => Draining(q) \/ MainUnderWay

LEMMA Turns ==
  /\ \A m \in Msg : Main(m) \in Turn /\ Drain(m) \in Turn
  /\ \A k \in 1..MaxOutside : Outside(k) \in Turn
  /\ \A m, q \in Msg : /\ Main(m) # Drain(q)
                       /\ Main(m) = Main(q) => m = q
                       /\ Drain(m) = Drain(q) => m = q
  /\ \A m \in Msg, k \in 1..MaxOutside : Outside(k) # Main(m) /\ Outside(k) # Drain(m)
  /\ \A t \in Turn : \/ \E m \in Msg : t = Main(m) \/ t = Drain(m)
                     \/ \E k \in 1..MaxOutside : t = Outside(k)
  BY DEF Main, Drain, Outside, Turn

LEMMA WatchedStep ==
  ASSUME TypeOK, OnePlace, Watched, [Next]_vars
  PROVE  Watched'
<1>0. /\ \A m \in Msg : fate'[m] = "new" => fate[m] = "new"
      /\ phase \in [Turn -> Phases] /\ active \subseteq Turn
  <2>1. \A m \in Msg : fate'[m] \in After(fate[m]) /\ fate[m] \in Fates
    BY FateStep DEF TypeOK
  <2>2. \A f \in Fates : "new" \in After(f) => f = "new"
    BY DEF After, Fates
  <2> QED
    BY <2>1, <2>2 DEF TypeOK
<1>1. CASE UNCHANGED <<phase, active>>
  BY <1>0, <1>1 DEF Watched
<1>2. ASSUME NEW m \in Msg, RunNow(m), fate[m] = "new", fate'[m] # "new", active' = active
      PROVE  Watched'
  <2>1. \A t \in Turn : phase'[t] = IF t = Main(m) THEN "setup" ELSE phase[t]
    BY <1>0, <1>2 DEF RunNow
  <2>2. Main(m) \notin active
    BY <1>2 DEF Watched
  <2>3. \A t \in active' : phase'[t] = "running"
    BY <1>0, <1>2, <2>1, <2>2 DEF Watched
  <2>4. \A k \in Msg : fate'[k] = "new" => phase'[Main(k)] = "none"
    BY <1>0, <1>2, <2>1, Turns DEF Watched
  <2> QED
    BY <2>3, <2>4 DEF Watched
<1>3. ASSUME NEW m \in Msg, NEW md \in Modes, Arrive(m, md) PROVE Watched'
  <2>1. fate[m] = "new" /\ active' = active /\ fate \in [Msg -> Fates]
    BY <1>3 DEF Arrive, NextToCome, TypeOK
  <2>2. CASE Interrupt(m)
    <3>1. [fate EXCEPT ![m] = "taken"] \in [Msg -> Fates]
      BY <2>1 DEF Fates
    <3>2. fate'[m] # "new"
      <4>1. CASE ClearQueue([fate EXCEPT ![m] = "taken"])
        BY <2>1, <4>1 DEF ClearQueue
      <4>2. CASE fate' = [fate EXCEPT ![m] = "taken"]
        BY <2>1, <4>2
      <4> QED
        BY <2>2, <4>1, <4>2 DEF Interrupt
    <3> QED
      BY <1>2, <2>1, <2>2, <3>2 DEF Interrupt
  <2>3. CASE RunNow(m) /\ fate' = [fate EXCEPT ![m] = "taken"]
    BY <1>2, <2>1, <2>3
  <2>4. CASE UNCHANGED phase
    BY <1>1, <2>1, <2>4
  <2> QED
    BY <1>3, <2>2, <2>3, <2>4 DEF Arrive, Steer
<1>4. ASSUME NEW t \in Turn, phase[t] # "none", NEW x,
             phase' = [phase EXCEPT ![t] = x], active' \subseteq active \union {t},
             t \in active' => x = "running"
      PROVE  Watched'
  <2>1. \A u \in Turn : phase'[u] = IF u = t THEN x ELSE phase[u]
    BY <1>0, <1>4
  <2>2. \A u \in active' : phase'[u] = "running"
    BY <1>0, <1>4, <2>1 DEF Watched
  <2>3. \A k \in Msg : fate'[k] = "new" => phase'[Main(k)] = "none"
    BY <1>0, <1>4, <2>1, Turns DEF Watched
  <2> QED
    BY <2>2, <2>3 DEF Watched
<1>5. ASSUME NEW k \in 1..MaxOutside, OutsideBegins(k) PROVE Watched'
  <2>1. \A u \in Turn : phase'[u] = IF u = Outside(k) THEN "running" ELSE phase[u]
    BY <1>0, <1>5 DEF OutsideBegins
  <2>2. active' = {Outside(k)} /\ fate' = fate /\ Outside(k) \in Turn
    BY <1>5, Turns DEF OutsideBegins, queueVars
  <2>3. \A m \in Msg : Main(m) # Outside(k) /\ Main(m) \in Turn
    BY Turns
  <2> QED
    BY <2>1, <2>2, <2>3 DEF Watched
<1>6. CASE TurnStep
  <2>1. ASSUME NEW t \in Turn, Register(t) PROVE Watched'
    BY <1>4, <2>1 DEF Register
  <2>2. ASSUME NEW t \in Turn, RunEnds(t) PROVE Watched'
    BY <1>4, <2>2 DEF RunEnds
  <2>3. ASSUME NEW m \in Msg, Finalize(m) PROVE Watched'
    <3>1. \A t \in Turn : phase'[t] = IF t = Main(m) THEN "over"
                                      ELSE IF t \in {Drain(q) : q \in ToDrain} THEN "wait"
                                      ELSE phase[t]
      BY <2>3 DEF Finalize
    <3>2. /\ active' = active /\ fate' = fate
          /\ phase[Main(m)] \in {"setup", "delivery"}
      BY <2>3 DEF Finalize, queueVars
    <3>3. \A q \in ToDrain : phase[Drain(q)] = "none" /\ q \in Msg
      BY DEF ToDrain, Draining, TypeOK
    <3>4. \A t \in active' : phase'[t] = "running"
      <4> SUFFICES ASSUME NEW t \in active PROVE phase'[t] = "running"
        BY <3>2
      <4>1. phase[t] = "running" /\ t \in Turn
        BY <1>0 DEF Watched
      <4>2. t # Main(m) /\ t \notin {Drain(q) : q \in ToDrain}
        BY <3>2, <3>3, <4>1
      <4> QED
        BY <3>1, <4>1, <4>2
    <3>5. \A k \in Msg : fate'[k] = "new" => phase'[Main(k)] = "none"
      <4> SUFFICES ASSUME NEW k \in Msg, fate[k] = "new" PROVE phase'[Main(k)] = "none"
        BY <3>2
      <4>1. phase[Main(k)] = "none"
        BY DEF Watched
      <4>2. Main(k) \in Turn /\ Main(k) # Main(m) /\ Main(k) \notin {Drain(q) : q \in ToDrain}
        BY <3>2, <3>3, <4>1, Turns
      <4> QED
        BY <3>1, <4>1, <4>2
    <3> QED
      BY <3>4, <3>5 DEF Watched
  <2>4. ASSUME NEW q \in Msg, DrainTakes(q) PROVE Watched'
    BY <1>4, <2>4, Turns DEF DrainTakes, Watched
  <2>5. ASSUME NEW q \in Msg, DrainTurnEnds(q) PROVE Watched'
    BY <1>4, <2>5, Turns DEF DrainTurnEnds, Watched
  <2>6. ASSUME NEW q \in Msg, DrainFindsNothing(q) PROVE Watched'
    BY <1>4, <2>6, Turns DEF DrainFindsNothing, Watched
  <2> QED
    BY <1>6, <2>1, <2>2, <2>3, <2>4, <2>5, <2>6 DEF TurnStep
<1> QED
  BY <1>1, <1>3, <1>5, <1>6 DEF Next, Stop, vars

(* The queue that an arriving message joins is being drained, or a turn is *)
(* under way, because it joins one only while a run is active.             *)
LEMMA UnstrandedEnqueue ==
  ASSUME TypeOK, Watched, Unstranded, NEW m \in Msg, NEW md \in Modes,
         active # {}, Enqueue(m, md), UNCHANGED <<phase, disturbed>>
  PROVE  Unstranded'
<1> SUFFICES ASSUME ~disturbed PROVE Unstranded'
  BY DEF Unstranded
<1>1. PICK q \in (IF registered = {} THEN {m} ELSE registered) :
        /\ registered' = {q}
        /\ \/ items' = [items EXCEPT ![q] = Append(items[q], m)]
           \/ items' = items
           \/ items' = [items EXCEPT ![q] = Append(Tail(items[q]), m)]
  BY DEF Enqueue
<1>2. q \in Msg /\ registered \subseteq {q}
  BY <1>1, QueueOfMsg DEF TypeOK
<1>a. \A r \in Msg : r # q => items'[r] = items[r]
  BY <1>1, <1>2 DEF TypeOK
<1>3. \A r \in Msg : items'[r] # <<>> \/ Draining(r)' => r \in registered'
  BY <1>1, <1>2, <1>a DEF Unstranded, Draining
<1>4. Draining(q) \/ MainUnderWay
  <2>1. PICK t \in active : t \in Turn /\ phase[t] = "running"
    BY DEF TypeOK, Watched
  <2>2. CASE \E k \in Msg : t = Main(k)
    BY <2>1, <2>2 DEF MainUnderWay
  <2>3. ASSUME NEW r \in Msg, t = Drain(r) PROVE Draining(q)
    <3>1. Draining(r)
      BY <2>1, <2>3 DEF Draining
    <3> QED
      BY <1>2, <3>1 DEF Unstranded
  <2>4. \A k \in 1..MaxOutside : t # Outside(k)
    BY <2>1 DEF Unstranded
  <2> QED
    BY <2>1, <2>2, <2>3, <2>4, Turns
<1>5. \A r \in Msg : items'[r] # <<>> => Draining(r)' \/ MainUnderWay'
  BY <1>2, <1>4, <1>a DEF Unstranded, Draining, MainUnderWay
<1> QED
  BY <1>3, <1>5 DEF Unstranded

(* A turn that goes on is still a turn; no object gets messages by it.     *)
LEMMA UnstrandedTurn ==
  ASSUME TypeOK, Unstranded, NEW t \in Turn, NEW x \in {"setup", "running", "delivery", "wait"},
         phase' = [phase EXCEPT ![t] = x], registered' = registered, disturbed' = disturbed,
         \A q \in Msg : items'[q] # <<>> => items[q] # <<>>,
         \/ \E m \in Msg : t = Main(m) /\ x # "wait"
         \/ \E q \in Msg : t = Drain(q) /\ phase[t] # "none"
         \/ disturbed
  PROVE  Unstranded'
<1> SUFFICES ASSUME ~disturbed PROVE Unstranded'
  BY DEF Unstranded
<1>1. \A u \in Turn : phase'[u] = IF u = t THEN x ELSE phase[u]
  BY DEF TypeOK
<1>2. \A k \in 1..MaxOutside : phase'[Outside(k)] = "none"
  BY <1>1, Turns DEF Unstranded
<1>3. \A q \in Msg : Draining(q)' <=> Draining(q)
  BY <1>1, Turns DEF Draining
<1>4. MainUnderWay => MainUnderWay'
  BY <1>1, Turns DEF MainUnderWay
<1> QED
  BY <1>2, <1>3, <1>4 DEF Unstranded

(* A drain that ends leaves nothing behind, and only its own object was in *)
(* the registry.                                                           *)
LEMMA UnstrandedDrained ==
  ASSUME TypeOK, SummaryHasCarrier, Unstranded, NEW q \in Msg,
         Draining(q), items[q] = <<>>, items' = items, disturbed' = disturbed,
         phase' = [phase EXCEPT ![Drain(q)] = "none"]
  PROVE  Unstranded'
<1> SUFFICES ASSUME ~disturbed PROVE Unstranded'
  BY DEF Unstranded
<1>1. \A u \in Turn : phase'[u] = IF u = Drain(q) THEN "none" ELSE phase[u]
  BY DEF TypeOK
<1>2. registered = {q}
  BY DEF Unstranded, TypeOK
<1>3. \A r \in Msg : items'[r] = <<>> /\ ~Draining(r)'
  <2> SUFFICES ASSUME NEW r \in Msg PROVE items'[r] = <<>> /\ ~Draining(r)'
    OBVIOUS
  <2>1. CASE r = q
    BY <1>1, <2>1, Turns DEF Draining
  <2>2. CASE r # q
    <3>1. items[r] = <<>> /\ ~Draining(r)
      BY <1>2, <2>2 DEF Unstranded
    <3> QED
      BY <1>1, <2>2, <3>1, Turns DEF Draining
  <2> QED
    BY <2>1, <2>2
<1>4. \A k \in 1..MaxOutside : phase'[Outside(k)] = "none"
  BY <1>1, Turns DEF Unstranded
<1> QED
  BY <1>3, <1>4 DEF Unstranded

LEMMA UnstrandedStep ==
  ASSUME TypeOK, SummaryHasCarrier, Watched, Unstranded, [Next]_vars
  PROVE  Unstranded'
<1>0. phase \in [Turn -> Phases] /\ disturbed \in BOOLEAN
  BY DEF TypeOK
<1>1. CASE UNCHANGED <<items, registered, phase, disturbed>>
  BY <1>1 DEF Unstranded, Draining, MainUnderWay
<1>2. ASSUME NEW f, ClearQueue(f), ~disturbed'
      PROVE  UNCHANGED <<items, registered, disturbed>>
  <2>1. ~disturbed /\ registered = {}
    BY <1>0, <1>2 DEF ClearQueue
  <2>2. disturbed = FALSE /\ disturbed' = FALSE
    BY <1>0, <1>2, <2>1 DEF ClearQueue
  <2> QED
    BY <1>2, <2>1, <2>2 DEF ClearQueue, TypeOK
<1>3. ASSUME NEW m \in Msg, RunNow(m), UNCHANGED <<items, registered, disturbed>>
      PROVE  Unstranded'
  BY <1>3, UnstrandedTurn, Turns DEF RunNow
<1>4. ASSUME NEW m \in Msg, NEW md \in Modes, Arrive(m, md) PROVE Unstranded'
  <2>1. CASE Interrupt(m)
    <3>1. CASE ClearQueue([fate EXCEPT ![m] = "taken"])
      <4>1. CASE disturbed'
        BY <4>1 DEF Unstranded
      <4>2. CASE ~disturbed'
        <5>1. UNCHANGED <<items, registered, disturbed>>
          BY <1>2, <3>1, <4>2
        <5> QED
          BY <1>3, <2>1, <5>1 DEF Interrupt
      <4> QED
        BY <4>1, <4>2
    <3>2. CASE UNCHANGED <<items, registered, disturbed>>
      BY <1>3, <2>1, <3>2 DEF Interrupt
    <3> QED
      BY <2>1, <3>1, <3>2 DEF Interrupt
  <2>2. CASE Steer(m)
    BY <1>1, <2>2 DEF Steer
  <2>3. CASE active # {} /\ Enqueue(m, md) /\ UNCHANGED <<phase, disturbed>>
    BY <2>3, UnstrandedEnqueue
  <2>4. CASE RunNow(m) /\ UNCHANGED <<items, registered, disturbed>>
    BY <1>3, <2>4
  <2> QED
    BY <1>4, <2>1, <2>2, <2>3, <2>4 DEF Arrive
<1>5. CASE Stop
  <2>1. CASE disturbed'
    BY <2>1 DEF Unstranded
  <2>2. CASE ~disturbed'
    <3>1. UNCHANGED <<items, registered, disturbed, phase>>
      BY <1>2, <1>5, <2>2 DEF Stop
    <3> QED
      BY <1>1, <3>1
  <2> QED
    BY <2>1, <2>2
<1>6. ASSUME NEW k \in 1..MaxOutside, OutsideBegins(k) PROVE Unstranded'
  BY <1>6 DEF OutsideBegins, Unstranded
<1>7. CASE TurnStep
  <2>1. ASSUME NEW t \in Turn, Register(t) \/ RunEnds(t) PROVE Unstranded'
    <3>1. PICK x \in {"running", "delivery"} :
            /\ phase' = [phase EXCEPT ![t] = x] /\ phase[t] # "none"
            /\ UNCHANGED <<items, registered, disturbed>>
      BY <2>1 DEF Register, RunEnds, queueVars
    <3>2. CASE \E k \in 1..MaxOutside : t = Outside(k)
      <4>1. disturbed
        BY <3>1, <3>2 DEF Unstranded
      <4> QED
        BY <3>1, <4>1 DEF Unstranded
    <3>3. CASE \E m \in Msg : t = Main(m) \/ t = Drain(m)
      BY <3>1, <3>3, UnstrandedTurn
    <3> QED
      BY <3>2, <3>3, Turns
  <2>2. ASSUME NEW m \in Msg, Finalize(m) PROVE Unstranded'
    <3> SUFFICES ASSUME ~disturbed PROVE Unstranded'
      BY <2>2 DEF Finalize, Unstranded
    <3>1. \A t \in Turn : phase'[t] = IF t = Main(m) THEN "over"
                                      ELSE IF t \in {Drain(q) : q \in ToDrain} THEN "wait"
                                      ELSE phase[t]
      BY <2>2 DEF Finalize
    <3>2. UNCHANGED <<items, registered, disturbed>>
      BY <2>2 DEF Finalize, queueVars
    <3>3. \A q \in Msg : Draining(q)' <=> Draining(q) \/ q \in ToDrain
      <4> SUFFICES ASSUME NEW q \in Msg PROVE Draining(q)' <=> Draining(q) \/ q \in ToDrain
        OBVIOUS
      <4>1. Drain(q) \in Turn /\ Drain(q) # Main(m)
        BY Turns
      <4>2. Drain(q) \in {Drain(r) : r \in ToDrain} <=> q \in ToDrain
        BY Turns DEF ToDrain, TypeOK
      <4> QED
        BY <3>1, <4>1, <4>2 DEF Draining
    <3>4. \A k \in 1..MaxOutside : phase'[Outside(k)] = "none"
      <4> SUFFICES ASSUME NEW k \in 1..MaxOutside PROVE phase'[Outside(k)] = "none"
        OBVIOUS
      <4>1. /\ Outside(k) \in Turn /\ Outside(k) # Main(m)
            /\ Outside(k) \notin {Drain(q) : q \in ToDrain}
        BY Turns DEF ToDrain, TypeOK
      <4> QED
        BY <3>1, <4>1 DEF Unstranded
    <3>5. \A q \in Msg : items[q] # <<>> => Draining(q) \/ q \in ToDrain
      BY DEF ToDrain, Unstranded
    <3>6. \A q \in ToDrain : q \in registered
      BY DEF ToDrain
    <3> QED
      BY <3>2, <3>3, <3>4, <3>5, <3>6 DEF Unstranded
  <2>3. ASSUME NEW q \in Msg, DrainTakes(q) PROVE Unstranded'
    <3>1. \A r \in Msg : items'[r] # <<>> => items[r] # <<>>
      BY <2>3 DEF DrainTakes, TypeOK
    <3>2. Drain(q) \in Turn /\ phase[Drain(q)] # "none"
      BY <2>3, Turns DEF DrainTakes
    <3> QED
      BY <2>3, <3>1, <3>2, UnstrandedTurn DEF DrainTakes
  <2>4. ASSUME NEW q \in Msg, DrainTurnEnds(q) PROVE Unstranded'
    <3>1. CASE items[q] = <<>> /\ dropped[q] = {}
      BY <2>4, <3>1, UnstrandedDrained DEF DrainTurnEnds, Draining
    <3>2. CASE ~(items[q] = <<>> /\ dropped[q] = {})
      BY <2>4, <3>2, UnstrandedTurn, Turns DEF DrainTurnEnds
    <3> QED
      BY <3>1, <3>2
  <2>5. ASSUME NEW q \in Msg, DrainFindsNothing(q) PROVE Unstranded'
    BY <2>5, UnstrandedDrained DEF DrainFindsNothing, Draining
  <2> QED
    BY <1>7, <2>1, <2>2, <2>3, <2>4, <2>5 DEF TurnStep
<1> QED
  BY <1>1, <1>4, <1>5, <1>6, <1>7 DEF Next, vars

(* While no stop cleared a queue and no outside run began, a queue that    *)
(* holds messages is the registered one, and its drain exists or a         *)
(* message's turn is under way whose end schedules it: what EveryoneHeard  *)
(* says must happen always has somebody to do it.                          *)
THEOREM NobodyStrandedHolds == Spec => []NobodyStranded
<1>1. Init => OnePlace /\ SummaryHasCarrier /\ Watched /\ Unstranded
  <2> SUFFICES ASSUME Init PROVE OnePlace /\ SummaryHasCarrier /\ Watched /\ Unstranded
    OBVIOUS
  <2>1. OnePlace /\ SummaryHasCarrier
    BY DEF Init, OnePlace, Waiting, Range, SummaryHasCarrier
  <2>2. \A t \in Turn : phase[t] = "none"
    BY DEF Init
  <2>3. Watched /\ Unstranded
    BY <2>2, Turns DEF Init, Watched, Unstranded, Draining
  <2> QED
    BY <2>1, <2>3
<1>2. Unstranded => NobodyStranded
  BY DEF Unstranded, NobodyStranded
<1>3. TypeOK /\ OnePlace /\ Watched /\ [Next]_vars => Watched'
  BY WatchedStep
<1>4. TypeOK /\ SummaryHasCarrier /\ Watched /\ Unstranded /\ [Next]_vars => Unstranded'
  BY UnstrandedStep
<1> QED
  BY <1>1, <1>2, <1>3, <1>4, PlaceStep, CarrierStep, TypeInit, TypeStep, PTL DEF Spec
=============================================================================
