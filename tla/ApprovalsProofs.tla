---------------------------- MODULE ApprovalsProofs ----------------------------
(***************************************************************************)
(* Proofs about Approvals, for any number of connections, ids, requests    *)
(* and waits.                                                              *)
(***************************************************************************)
EXTENDS Approvals, TLAPS

(* A step is one on the requests and one on the waits; each part of the    *)
(* invariant is about one of the two, but for a few.                       *)
Made(r) ==
  /\ \E d \in Id : Create(r, d)
  /\ blocking' \in {blocking, [blocking EXCEPT ![r] = TRUE]}
Decided(d, decision) ==
  LET r == pending[d] IN
  /\ r # NoRequest
  /\ status' = [status EXCEPT ![r] = "resolved"]
  /\ decided' = [decided EXCEPT ![r] = decision]
  /\ decisions' = [decisions EXCEPT ![d] = decision]
  /\ pending' = [pending EXCEPT ![d] = NoRequest]
  /\ isSet' = [isSet EXCEPT ![r] = TRUE]
  /\ UNCHANGED <<idOf, blocking>>
Expired(d) == Expire(d) /\ UNCHANGED <<idOf, decisions, isSet, blocking, decided>>
RequestStep ==
  \/ UNCHANGED reqVars
  \/ \E r \in Request : Made(r)
  \/ \E d \in Id, decision \in Decision : Decided(d, decision)
  \/ \E d \in Id : Expired(d)

ConnStep ==
  /\ UNCHANGED waitVars
  /\ \/ UNCHANGED connVars
     \/ \E c \in Conn : Authenticate(c, "operator") \/ PeerCloses(c) \/ LoopEnds(c)

(* What Next is made of. *)
LEMMA NextCases ==
  ASSUME [Next]_vars
  PROVE  \/ ConnStep /\ UNCHANGED reqVars
         \/ ConnStep /\ \E r \in Request : Made(r) /\ blocking' = blocking
         \/ \E c \in Conn, r \in Request, d \in Id, w \in Wait : RequestAndWait(c, r, d, w)
         \/ \E c \in Conn, d \in Id, w \in Wait : WaitDecision(c, d, w)
         \/ ConnStep /\ \E c \in Conn, d \in Id, x \in Decision :
              Reads(c) /\ Decided(d, x)
         \/ \E w \in Wait : Woken(w)
         \/ \E w \in Wait : TimesOut(w)
<1>1. CASE UNCHANGED vars
  BY <1>1 DEF vars, ConnStep
<1>2. ASSUME NEW c \in Conn, Connect(c) \/ Close(c) \/ CleanUp(c)
      PROVE  ConnStep /\ UNCHANGED reqVars
  BY <1>2 DEF Connect, Close, CleanUp, ConnStep
<1>3. ASSUME NEW c \in Conn, NEW r \in Request, NEW d \in Id, RequestTwoPhase(c, r, d)
      PROVE  ConnStep /\ Made(r) /\ blocking' = blocking
  BY <1>3 DEF RequestTwoPhase, ConnStep, Made
<1>4. ASSUME NEW c \in Conn, NEW d \in Id, NEW x \in Decision, Resolve(c, d, x)
      PROVE  ConnStep /\ Reads(c) /\ Decided(d, x)
  BY <1>4 DEF Resolve, ConnStep, Decided
<1> QED
  BY <1>1, <1>2, <1>3, <1>4 DEF Next

LEMMA NoneOutside == NoConn \notin Conn /\ NoId \notin Id /\ NoRequest \notin Request
BY NumConnsAssumption, ConstantsAssumption
   DEF NoConn, Conn, NoId, Id, NoRequest, Request

-----------------------------------------------------------------------------
(* Types. *)

ReqTyped ==
  /\ idOf \in [Request -> Id \union {NoId}]
  /\ status \in [Request -> {"none", "pending", "resolved", "expired"}]
  /\ pending \in [Id -> Request \union {NoRequest}]
  /\ decisions \in [Id -> Decision \union {Undecided}]
  /\ isSet \in [Request -> BOOLEAN] /\ blocking \in [Request -> BOOLEAN]
  /\ decided \in [Request -> Decision \union {Undecided}]
  /\ \A r \in Request : status[r] # "none" => idOf[r] \in Id
WaitTyped ==
  /\ wait \in [Wait -> {"none", "waiting", "over"}]
  /\ asker \in [Wait -> Conn \union {NoConn}]
  /\ about \in [Wait -> Request \union {NoRequest}]
  /\ answer \in [Wait -> Decision \union {Undecided}]
  /\ \A w \in Waiting : asker[w] \in Conn /\ about[w] \in Request

LEMMA TypeParts == TypeOK <=> ConnTypeOK /\ ReqTyped /\ WaitTyped
BY DEF TypeOK, ReqTyped, WaitTyped

LEMMA RequestsTyped == ReqTyped /\ PendingAgrees /\ RequestStep => ReqTyped'
<1> SUFFICES ASSUME ReqTyped, PendingAgrees, RequestStep PROVE ReqTyped'
  OBVIOUS
<1>1. CASE UNCHANGED reqVars
  BY <1>1 DEF reqVars, ReqTyped
<1>2. ASSUME NEW r \in Request, Made(r) PROVE ReqTyped'
  <2>1. PICK d \in Id : Create(r, d)
    BY <1>2 DEF Made
  <2>2. blocking' \in [Request -> BOOLEAN]
    BY <1>2 DEF Made, ReqTyped
  <2> QED
    BY <2>1, <2>2 DEF Create, ReqTyped
<1>3. ASSUME NEW d \in Id, NEW x \in Decision, Decided(d, x) PROVE ReqTyped'
  <2>1. pending[d] \in Request
    BY <1>3 DEF Decided, ReqTyped
  <2>2. idOf[pending[d]] \in Id
    BY <2>1 DEF PendingAgrees
  <2>3. /\ status' = [status EXCEPT ![pending[d]] = "resolved"]
        /\ decided' = [decided EXCEPT ![pending[d]] = x]
        /\ decisions' = [decisions EXCEPT ![d] = x]
        /\ pending' = [pending EXCEPT ![d] = NoRequest]
        /\ isSet' = [isSet EXCEPT ![pending[d]] = TRUE]
        /\ idOf' = idOf /\ blocking' = blocking
    BY <1>3 DEF Decided
  <2> QED
    BY <2>1, <2>2, <2>3 DEF ReqTyped
<1>4. ASSUME NEW d \in Id, Expired(d) PROVE ReqTyped'
  <2>1. CASE pending[d] = NoRequest
    BY <1>4, <2>1 DEF Expired, Expire, ReqTyped
  <2>2. CASE pending[d] # NoRequest
    <3>1. pending[d] \in Request
      BY <2>2 DEF ReqTyped
    <3>2. idOf[pending[d]] \in Id
      BY <3>1 DEF PendingAgrees
    <3>3. /\ status' = [status EXCEPT ![pending[d]] = "expired"]
          /\ pending' = [pending EXCEPT ![d] = NoRequest]
          /\ UNCHANGED <<idOf, decisions, isSet, blocking, decided>>
      BY <1>4, <2>2 DEF Expired, Expire
    <3> QED
      BY <3>1, <3>2, <3>3 DEF ReqTyped
  <2> QED
    BY <2>1, <2>2
<1> QED
  BY <1>1, <1>2, <1>3, <1>4 DEF RequestStep

LEMMA AwaitTyped ==
  ASSUME ConnTypeOK, WaitTyped, decisions \in [Id -> Decision \union {Undecided}],
         NEW w \in Wait, NEW c \in Conn, NEW d \in Id, NEW r \in Request,
         AwaitDecision(w, c, d, r)
  PROVE  ConnTypeOK' /\ WaitTyped'
<1>1. CASE decisions[d] # Undecided
  <2>1. wait' = [wait EXCEPT ![w] = "over"] /\ UNCHANGED <<asker, connVars>>
    BY <1>1 DEF AwaitDecision
  <2>2. answer' \in [Wait -> Decision \union {Undecided}]
    BY <1>1 DEF AwaitDecision, WaitTyped
  <2>3. about' = [about EXCEPT ![w] = r]
    BY DEF AwaitDecision
  <2>4. ConnTypeOK'
    BY <2>1 DEF connVars, ConnTypeOK
  <2> QED
    BY <2>1, <2>2, <2>3, <2>4 DEF WaitTyped, Waiting
<1>2. CASE decisions[d] = Undecided
  <2>1. /\ wait' = [wait EXCEPT ![w] = "waiting"] /\ asker' = [asker EXCEPT ![w] = c]
        /\ about' = [about EXCEPT ![w] = r] /\ UNCHANGED answer
    BY <1>2 DEF AwaitDecision
  <2>2. ConnTypeOK'
    BY <1>2 DEF AwaitDecision, Blocks, ConnTypeOK
  <2> QED
    BY <2>1, <2>2 DEF WaitTyped, Waiting
<1> QED
  BY <1>1, <1>2

LEMMA AnswerTyped ==
  ASSUME ConnTypeOK, WaitTyped, NEW w \in Wait, NEW a \in Decision \union {Undecided},
         Answer(w, a)
  PROVE  ConnTypeOK' /\ WaitTyped'
<1>1. ConnTypeOK'
  BY DEF Answer, Unblocks, ConnTypeOK
<1>2. /\ wait' = [wait EXCEPT ![w] = "over"] /\ asker' = [asker EXCEPT ![w] = NoConn]
      /\ answer' = [answer EXCEPT ![w] = a] /\ about' = about
  BY DEF Answer
<1> QED
  BY <1>1, <1>2 DEF WaitTyped, Waiting

LEMMA ConnStepTyped == ConnTypeOK /\ WaitTyped /\ ConnStep => ConnTypeOK' /\ WaitTyped'
<1> SUFFICES ASSUME ConnTypeOK, WaitTyped, ConnStep PROVE ConnTypeOK' /\ WaitTyped'
  OBVIOUS
<1>1. WaitTyped'
  BY DEF ConnStep, waitVars, WaitTyped, Waiting
<1>2. CASE UNCHANGED connVars
  BY <1>1, <1>2 DEF connVars, ConnTypeOK
<1>3. ASSUME NEW c \in Conn, Authenticate(c, "operator") \/ PeerCloses(c) \/ LoopEnds(c)
      PROVE  ConnTypeOK'
  BY <1>3 DEF Authenticate, PeerCloses, LoopEnds, ConnTypeOK, Roles
<1> QED
  BY <1>1, <1>2, <1>3 DEF ConnStep

LEMMA WaitingForMade ==
  ASSUME TypeOK, WaitsAgree, NEW w \in Wait, wait[w] = "waiting"
  PROVE  about[w] \in Request /\ status[about[w]] # "none" /\ idOf[about[w]] \in Id
<1>1. about[w] \in Request
  BY DEF TypeOK, Waiting
<1>2. status[about[w]] # "none"
  BY <1>1, NoneOutside DEF WaitsAgree
<1> QED
  BY <1>1, <1>2 DEF TypeOK

(* Every step makes one on the requests, and one on the waits. *)
LEMMA StepParts ==
  ASSUME TypeOK, WaitsAgree, [Next]_vars
  PROVE  /\ RequestStep
         /\ \/ ConnStep
            \/ \E w \in Wait, c \in Conn, d \in Id, r \in Request :
                 AwaitDecision(w, c, d, r)
            \/ \E w \in Wait, a \in Decision \union {Undecided} : Answer(w, a)
<1>1. ASSUME NEW c \in Conn, NEW r \in Request, NEW d \in Id, NEW w \in Wait,
             RequestAndWait(c, r, d, w)
      PROVE  Made(r) /\ AwaitDecision(w, c, d, r)
  BY <1>1 DEF RequestAndWait, Made
<1>2. ASSUME NEW c \in Conn, NEW d \in Id, NEW w \in Wait, WaitDecision(c, d, w)
      PROVE  UNCHANGED reqVars /\ \E r \in Request : AwaitDecision(w, c, d, r)
  BY <1>2 DEF WaitDecision
<1>3. ASSUME NEW w \in Wait, Woken(w)
      PROVE  UNCHANGED reqVars /\ \E a \in Decision \union {Undecided} : Answer(w, a)
  <2>1. idOf[about[w]] \in Id
    BY <1>3, WaitingForMade DEF Woken, Waiting
  <2>2. decisions[idOf[about[w]]] \in Decision \union {Undecided}
    BY <2>1 DEF TypeOK
  <2> QED
    BY <1>3, <2>2 DEF Woken
<1>4. ASSUME NEW w \in Wait, TimesOut(w)
      PROVE  RequestStep /\ Answer(w, Undecided)
  <2>1. idOf[about[w]] \in Id
    BY <1>4, WaitingForMade DEF TimesOut, Answer
  <2> QED
    BY <1>4, <2>1 DEF TimesOut, RequestStep, Expired
<1> QED
  BY <1>1, <1>2, <1>3, <1>4, NextCases DEF RequestStep

LEMMA NextTyped == IInv /\ [Next]_vars => TypeOK'
<1> SUFFICES ASSUME IInv, [Next]_vars PROVE TypeOK'
  OBVIOUS
<1>1. ConnTypeOK /\ ReqTyped /\ WaitTyped
  BY TypeParts DEF IInv
<1>2. ReqTyped'
  BY <1>1, StepParts, RequestsTyped DEF IInv
<1>3. decisions \in [Id -> Decision \union {Undecided}]
  BY <1>1 DEF ReqTyped
<1>4. ConnTypeOK' /\ WaitTyped'
  BY <1>1, <1>3, StepParts, ConnStepTyped, AwaitTyped, AnswerTyped DEF IInv
<1>5. (ConnTypeOK /\ ReqTyped /\ WaitTyped)' => TypeOK'
  BY DEF TypeOK, ReqTyped, WaitTyped
<1> QED
  BY <1>2, <1>4, <1>5

-----------------------------------------------------------------------------
(* Requests: what agrees in them. *)

RequestParts == ReqTyped /\ PendingAgrees /\ DecisionsAreRequests /\ RequestsAgree

LEMMA MadeAgrees ==
  ASSUME RequestParts, NEW r \in Request, Made(r)
  PROVE  PendingAgrees' /\ DecisionsAreRequests' /\ RequestsAgree'
<1>1. PICK d \in Id : Create(r, d)
  BY DEF Made
<1>2. /\ status[r] = "none" /\ pending[d] = NoRequest
      /\ status' = [status EXCEPT ![r] = "pending"] /\ idOf' = [idOf EXCEPT ![r] = d]
      /\ pending' = [pending EXCEPT ![d] = r]
      /\ decisions' = decisions /\ isSet' = isSet /\ decided' = decided
  BY <1>1 DEF Create, MayCreate, NextRequest
<1>3. PendingAgrees'
  <2> SUFFICES ASSUME NEW s \in Request, NEW e \in Id
               PROVE  pending'[e] = s <=> status'[s] = "pending" /\ idOf'[s] = e
    BY DEF PendingAgrees
  <2>1. pending[e] = s <=> status[s] = "pending" /\ idOf[s] = e
    BY DEF RequestParts, PendingAgrees
  <2> QED
    BY <1>2, <2>1, NoneOutside DEF RequestParts, ReqTyped
<1>4. DecisionsAreRequests'
  <2> SUFFICES ASSUME NEW e \in Id, decisions[e] # Undecided
               PROVE  \E s \in Request : idOf'[s] = e /\ decided[s] = decisions[e]
    BY <1>2 DEF DecisionsAreRequests
  <2>1. PICK s \in Request : idOf[s] = e /\ decided[s] = decisions[e]
    BY DEF RequestParts, DecisionsAreRequests
  <2>2. s # r
    BY <1>2, <2>1, NoneOutside DEF RequestParts, RequestsAgree
  <2> QED
    BY <1>2, <2>1, <2>2 DEF RequestParts, ReqTyped
<1>5. RequestsAgree'
  <2> SUFFICES ASSUME NEW s \in Request
               PROVE  /\ status'[s] = "none" <=> idOf'[s] = NoId
                      /\ decided'[s] # Undecided => status'[s] = "resolved"
                      /\ isSet'[s] => status'[s] = "resolved"
                      /\ blocking'[s] => status'[s] # "none"
    BY DEF RequestsAgree
  <2>1. s # r => blocking'[s] = blocking[s]
    BY DEF Made, RequestParts, ReqTyped
  <2> QED
    BY <1>2, <2>1, NoneOutside DEF RequestParts, ReqTyped, RequestsAgree
<1> QED
  BY <1>3, <1>4, <1>5

LEMMA DecidedAgrees ==
  ASSUME RequestParts, NEW d \in Id, NEW x \in Decision, Decided(d, x)
  PROVE  PendingAgrees' /\ DecisionsAreRequests' /\ RequestsAgree'
<1> DEFINE r == pending[d]
<1>1. r \in Request
  BY DEF Decided, RequestParts, ReqTyped
<1>2. /\ status' = [status EXCEPT ![r] = "resolved"]
      /\ decided' = [decided EXCEPT ![r] = x]
      /\ decisions' = [decisions EXCEPT ![d] = x]
      /\ pending' = [pending EXCEPT ![d] = NoRequest]
      /\ isSet' = [isSet EXCEPT ![r] = TRUE]
      /\ idOf' = idOf /\ blocking' = blocking
  BY DEF Decided
<1>3. status[r] = "pending" /\ idOf[r] = d
  BY <1>1 DEF RequestParts, PendingAgrees
<1> HIDE DEF r
<1>4. PendingAgrees'
  <2> SUFFICES ASSUME NEW s \in Request, NEW e \in Id
               PROVE  pending'[e] = s <=> status'[s] = "pending" /\ idOf'[s] = e
    BY DEF PendingAgrees
  <2>1. pending[e] = s <=> status[s] = "pending" /\ idOf[s] = e
    BY DEF RequestParts, PendingAgrees
  <2>2. pending[d] = s <=> status[s] = "pending" /\ idOf[s] = d
    BY DEF RequestParts, PendingAgrees
  <2> QED
    BY <1>1, <1>2, <1>3, <2>1, <2>2, NoneOutside DEF RequestParts, ReqTyped, r
<1>5. DecisionsAreRequests'
  <2> SUFFICES ASSUME NEW e \in Id, decisions'[e] # Undecided
               PROVE  \E s \in Request : idOf'[s] = e /\ decided'[s] = decisions'[e]
    BY DEF DecisionsAreRequests
  <2>1. CASE e = d
    BY <1>1, <1>2, <1>3, <2>1 DEF RequestParts, ReqTyped
  <2>2. CASE e # d
    <3>1. decisions'[e] = decisions[e]
      BY <1>2, <2>2 DEF RequestParts, ReqTyped
    <3>2. PICK s \in Request : idOf[s] = e /\ decided[s] = decisions[e]
      BY <3>1 DEF RequestParts, DecisionsAreRequests
    <3> QED
      BY <1>2, <1>3, <2>2, <3>1, <3>2 DEF RequestParts, ReqTyped
  <2> QED
    BY <2>1, <2>2
<1>6. RequestsAgree'
  BY <1>1, <1>2, <1>3, NoneOutside DEF RequestParts, ReqTyped, RequestsAgree
<1> QED
  BY <1>4, <1>5, <1>6

LEMMA ExpiredAgrees ==
  ASSUME RequestParts, NEW d \in Id, Expired(d)
  PROVE  PendingAgrees' /\ DecisionsAreRequests' /\ RequestsAgree'
<1>1. CASE pending[d] = NoRequest
  <2>1. pending' = pending /\ status' = status
    BY <1>1 DEF Expired, Expire, RequestParts, ReqTyped
  <2> QED
    BY <2>1 DEF Expired, RequestParts, PendingAgrees, DecisionsAreRequests, RequestsAgree
<1>2. CASE pending[d] # NoRequest
  <2> DEFINE r == pending[d]
  <2>1. r \in Request
    BY <1>2 DEF RequestParts, ReqTyped
  <2>2. /\ pending' = [pending EXCEPT ![d] = NoRequest]
        /\ status' = [status EXCEPT ![r] = "expired"]
        /\ UNCHANGED <<idOf, decisions, isSet, blocking, decided>>
    BY <1>2 DEF Expired, Expire
  <2>3. status[r] = "pending" /\ idOf[r] = d
    BY <2>1 DEF RequestParts, PendingAgrees
  <2> HIDE DEF r
  <2>4. PendingAgrees'
    <3> SUFFICES ASSUME NEW s \in Request, NEW e \in Id
                 PROVE  pending'[e] = s <=> status'[s] = "pending" /\ idOf'[s] = e
      BY DEF PendingAgrees
    <3>1. pending[e] = s <=> status[s] = "pending" /\ idOf[s] = e
      BY DEF RequestParts, PendingAgrees
    <3>2. pending[d] = s <=> status[s] = "pending" /\ idOf[s] = d
      BY DEF RequestParts, PendingAgrees
    <3> QED
      BY <2>1, <2>2, <2>3, <3>1, <3>2, NoneOutside DEF RequestParts, ReqTyped, r
  <2>5. DecisionsAreRequests'
    BY <2>2 DEF RequestParts, DecisionsAreRequests
  <2>6. RequestsAgree'
    BY <2>1, <2>2, <2>3, NoneOutside DEF RequestParts, ReqTyped, RequestsAgree
  <2> QED
    BY <2>4, <2>5, <2>6
<1> QED
  BY <1>1, <1>2

LEMMA RequestsKept ==
  ASSUME RequestParts, RequestStep
  PROVE  PendingAgrees' /\ DecisionsAreRequests' /\ RequestsAgree'
<1>1. CASE UNCHANGED reqVars
  BY <1>1 DEF reqVars, RequestParts, PendingAgrees, DecisionsAreRequests, RequestsAgree
<1> QED
  BY <1>1, MadeAgrees, DecidedAgrees, ExpiredAgrees DEF RequestStep

-----------------------------------------------------------------------------
(* Waits, the connections they keep and the requests they are about. *)

LEMMA AwaitBusy ==
  ASSUME ConnTypeOK, WaitTyped, BusyIsOneWait,
         NEW w \in Wait, NEW c \in Conn, NEW d \in Id, NEW r \in Request,
         AwaitDecision(w, c, d, r)
  PROVE  BusyIsOneWait'
<1>1. wait[w] = "none" /\ Reads(c)
  BY DEF AwaitDecision, MayWait
<1>2. CASE decisions[d] # Undecided
  <2>1. wait' = [wait EXCEPT ![w] = "over"] /\ UNCHANGED <<asker, connVars>>
    BY <1>2 DEF AwaitDecision
  <2>2. \A v \in Wait : v \in Waiting' <=> v \in Waiting
    BY <1>1, <2>1 DEF WaitTyped, Waiting
  <2> QED
    BY <2>1, <2>2 DEF BusyIsOneWait, connVars, Waiting
<1>3. CASE decisions[d] = Undecided
  <2>1. /\ wait' = [wait EXCEPT ![w] = "waiting"] /\ asker' = [asker EXCEPT ![w] = c]
        /\ busy' = [busy EXCEPT ![c] = TRUE] /\ stage' = stage
    BY <1>3 DEF AwaitDecision, Blocks
  <2>2. \A v \in Wait : v \in Waiting' <=> v \in Waiting \/ v = w
    BY <1>1, <2>1 DEF WaitTyped, Waiting
  <2>3. \A v \in Waiting : v # w /\ asker[v] # c /\ asker'[v] = asker[v]
    BY <1>1, <2>1 DEF BusyIsOneWait, Reads, WaitTyped, Waiting
  <2>4. asker'[w] = c
    BY <2>1 DEF WaitTyped
  <2>5. ASSUME NEW b \in Conn
        PROVE  stage'[b] # "node" /\ (busy'[b] <=> \E v \in Waiting' : asker'[v] = b)
    <3>1. stage[b] # "node" /\ (busy[b] <=> \E v \in Waiting : asker[v] = b)
      BY DEF BusyIsOneWait
    <3>2. Waiting \subseteq Wait /\ Waiting' \subseteq Wait
      BY DEF Waiting
    <3>3. CASE b = c
      <4>1. busy'[b]
        BY <2>1, <3>3 DEF ConnTypeOK
      <4> QED
        BY <2>1, <2>2, <2>4, <3>1, <3>3, <4>1
    <3>4. CASE b # c
      <4>1. busy'[b] = busy[b]
        BY <2>1, <3>4 DEF ConnTypeOK
      <4>2. (\E v \in Waiting' : asker'[v] = b) <=> (\E v \in Waiting : asker[v] = b)
        BY <2>2, <2>3, <2>4, <3>2, <3>4
      <4> QED
        BY <2>1, <3>1, <4>1, <4>2
    <3> QED
      BY <3>3, <3>4
  <2>6. \A u, v \in Waiting' : asker'[u] = asker'[v] => u = v
    BY <2>2, <2>3, <2>4 DEF BusyIsOneWait, Waiting
  <2> QED
    BY <2>5, <2>6 DEF BusyIsOneWait
<1> QED
  BY <1>2, <1>3

LEMMA AnswerBusy ==
  ASSUME ConnTypeOK, WaitTyped, BusyIsOneWait,
         NEW w \in Wait, NEW a, Answer(w, a)
  PROVE  BusyIsOneWait'
<1>1. /\ wait[w] = "waiting" /\ wait' = [wait EXCEPT ![w] = "over"]
      /\ busy' = [busy EXCEPT ![asker[w]] = FALSE] /\ stage' = stage
      /\ asker' = [asker EXCEPT ![w] = NoConn]
  BY DEF Answer, Unblocks
<1>2. Waiting \subseteq Wait /\ w \in Waiting
  BY <1>1 DEF Waiting
<1>3. \A v \in Wait : v \in Waiting' <=> v \in Waiting /\ v # w
  BY <1>1 DEF WaitTyped, Waiting
<1>4. Waiting' \subseteq Wait
  BY DEF Waiting
<1>5. \A v \in Waiting' : asker'[v] = asker[v] /\ asker[v] # asker[w]
  BY <1>1, <1>2, <1>3, <1>4 DEF BusyIsOneWait, WaitTyped
<1>6. ASSUME NEW b \in Conn
      PROVE  stage'[b] # "node" /\ (busy'[b] <=> \E v \in Waiting' : asker'[v] = b)
  <2>1. stage[b] # "node" /\ (busy[b] <=> \E v \in Waiting : asker[v] = b)
    BY DEF BusyIsOneWait
  <2>2. CASE b = asker[w]
    <3>1. ~busy'[b]
      BY <1>1, <2>2 DEF ConnTypeOK
    <3> QED
      BY <1>1, <1>5, <2>1, <2>2, <3>1
  <2>3. CASE b # asker[w]
    <3>1. busy'[b] = busy[b]
      BY <1>1, <2>3 DEF ConnTypeOK
    <3>2. (\E v \in Waiting' : asker'[v] = b) <=> (\E v \in Waiting : asker[v] = b)
      BY <1>2, <1>3, <1>4, <1>5, <2>3
    <3> QED
      BY <1>1, <2>1, <3>1, <3>2
  <2> QED
    BY <2>2, <2>3
<1>7. \A u, v \in Waiting' : asker'[u] = asker'[v] => u = v
  BY <1>3, <1>4, <1>5 DEF BusyIsOneWait
<1> QED
  BY <1>6, <1>7 DEF BusyIsOneWait

LEMMA ConnStepBusy ==
  ASSUME ConnTypeOK, BusyIsOneWait, ConnStep
  PROVE  BusyIsOneWait'
<1>1. busy' = busy /\ Waiting' = Waiting /\ asker' = asker
  BY DEF ConnStep, connVars, waitVars, Authenticate, PeerCloses, LoopEnds, Waiting
<1>2. \A c \in Conn : stage'[c] # "node"
  BY DEF ConnStep, connVars, Authenticate, PeerCloses, LoopEnds, BusyIsOneWait, ConnTypeOK
<1> QED
  BY <1>1, <1>2 DEF BusyIsOneWait

(* A request that was made stays made, under its id. *)
LEMMA MadeStays ==
  ASSUME ReqTyped, RequestStep, NEW r \in Request, status[r] # "none"
  PROVE  status'[r] # "none" /\ idOf'[r] = idOf[r]
<1>1. ASSUME NEW s \in Request, Made(s) PROVE status'[r] # "none" /\ idOf'[r] = idOf[r]
  BY <1>1 DEF Made, Create, MayCreate, NextRequest, ReqTyped
<1>2. ASSUME NEW d \in Id, NEW x \in Decision, Decided(d, x)
      PROVE  status'[r] # "none" /\ idOf'[r] = idOf[r]
  BY <1>2 DEF Decided, ReqTyped
<1>3. ASSUME NEW d \in Id, Expired(d) PROVE status'[r] # "none" /\ idOf'[r] = idOf[r]
  BY <1>3 DEF Expired, Expire, ReqTyped
<1> QED
  BY <1>1, <1>2, <1>3 DEF RequestStep, reqVars

(* A wait is about a pending request, or is answered a decision that is    *)
(* kept.                                                                   *)
LEMMA MeantIsLive ==
  ASSUME IInv, NEW d \in Id, NEW r \in Request, MeantBy(r, d)
  PROVE  /\ idOf[r] = d
         /\ \/ status[r] = "pending"
            \/ status[r] = "resolved" /\ decisions[d] # Undecided
<1>1. CASE r = pending[d]
  BY <1>1 DEF IInv, PendingAgrees
<1>2. CASE r # pending[d]
  BY <1>2 DEF MeantBy, IInv, RequestsAgree
<1> QED
  BY <1>1, <1>2

(* What a step does to one wait. *)
Untouched(v) == wait'[v] = wait[v] /\ about'[v] = about[v] /\ answer'[v] = answer[v]
AboutLive(v) ==
  /\ wait[v] = "none" /\ about'[v] \in Request
  /\ status[about'[v]] \in {"none", "pending"} /\ status'[about'[v]] = "pending"
Begins(v) == AboutLive(v) /\ wait'[v] = "waiting" /\ answer'[v] = answer[v]
AtOnce(v) ==
  /\ wait[v] = "none" /\ wait'[v] = "over"
  /\ about'[v] \in Request /\ status'[about'[v]] \in {"pending", "resolved"}
  /\ idOf'[about'[v]] \in Id /\ answer'[v] = decisions[idOf'[about'[v]]]
  /\ answer'[v] # Undecided
Ends(v) == wait[v] = "waiting" /\ wait'[v] = "over" /\ about'[v] = about[v]
EndsWoken(v) ==
  /\ Ends(v) /\ isSet[about[v]] /\ UNCHANGED reqVars
  /\ answer'[v] = decisions[idOf[about[v]]]
EndsUnanswered(v) == Ends(v) /\ answer'[v] = Undecided /\ Expired(idOf[about[v]])

LEMMA AwaitCases ==
  ASSUME WaitTyped, NEW w \in Wait, NEW c \in Conn, NEW d \in Id, NEW r \in Request,
         AwaitDecision(w, c, d, r),
         idOf'[r] = d,
         \/ status[r] \in {"none", "pending"} /\ status'[r] = "pending"
         \/ status'[r] = "resolved" /\ decisions[d] # Undecided,
         NEW v \in Wait
  PROVE  Untouched(v) \/ Begins(v) \/ AtOnce(v)
<1>1. about' = [about EXCEPT ![w] = r] /\ wait[w] = "none"
  BY DEF AwaitDecision, MayWait
<1>2. CASE decisions[d] # Undecided
  <2>1. /\ wait' = [wait EXCEPT ![w] = "over"]
        /\ answer' = [answer EXCEPT ![w] = decisions[d]]
    BY <1>2 DEF AwaitDecision
  <2> QED
    BY <1>1, <1>2, <2>1 DEF WaitTyped, Untouched, AtOnce
<1>3. CASE decisions[d] = Undecided
  <2>1. wait' = [wait EXCEPT ![w] = "waiting"] /\ answer' = answer
    BY <1>3 DEF AwaitDecision
  <2> QED
    BY <1>1, <1>3, <2>1 DEF WaitTyped, Untouched, Begins, AboutLive
<1> QED
  BY <1>2, <1>3

LEMMA WaitSteps ==
  ASSUME IInv, [Next]_vars, NEW v \in Wait
  PROVE  Untouched(v) \/ Begins(v) \/ AtOnce(v) \/ EndsWoken(v) \/ EndsUnanswered(v)
<1>0. WaitTyped /\ ReqTyped
  BY TypeParts DEF IInv
<1>1. CASE ConnStep
  BY <1>1 DEF ConnStep, waitVars, Untouched
<1>2. ASSUME NEW c \in Conn, NEW r \in Request, NEW d \in Id, NEW w \in Wait,
             RequestAndWait(c, r, d, w)
      PROVE  Untouched(v) \/ Begins(v) \/ AtOnce(v)
  <2>1. status[r] = "none" /\ status'[r] = "pending" /\ idOf'[r] = d
    BY <1>0, <1>2 DEF RequestAndWait, Create, MayCreate, NextRequest, ReqTyped
  <2> QED
    BY <1>0, <1>2, <2>1, AwaitCases DEF RequestAndWait
<1>3. ASSUME NEW c \in Conn, NEW d \in Id, NEW w \in Wait, WaitDecision(c, d, w)
      PROVE  Untouched(v) \/ Begins(v) \/ AtOnce(v)
  <2>1. PICK r \in Request : MeantBy(r, d) /\ AwaitDecision(w, c, d, r)
    BY <1>3 DEF WaitDecision
  <2>2. status' = status /\ idOf' = idOf
    BY <1>3 DEF WaitDecision, reqVars
  <2> QED
    BY <1>0, <2>1, <2>2, MeantIsLive, AwaitCases
<1>4. ASSUME NEW w \in Wait, Woken(w) PROVE Untouched(v) \/ EndsWoken(v)
  BY <1>0, <1>4 DEF Woken, Answer, WaitTyped, Untouched, EndsWoken, Ends
<1>5. ASSUME NEW w \in Wait, TimesOut(w) PROVE Untouched(v) \/ EndsUnanswered(v)
  BY <1>0, <1>5 DEF TimesOut, Answer, WaitTyped, Untouched, EndsUnanswered, Ends, Expired
<1> QED
  BY <1>1, <1>2, <1>3, <1>4, <1>5, NextCases

LEMMA NextWaitsAgree ==
  ASSUME IInv, [Next]_vars
  PROVE  WaitsAgree' /\ NoLostWakeUp'
<1>1. ReqTyped /\ WaitTyped /\ RequestStep
  BY TypeParts, StepParts DEF IInv
<1>2. ASSUME NEW v \in Wait
      PROVE  /\ wait'[v] # "none" <=> about'[v] # NoRequest
             /\ wait'[v] # "over" => answer'[v] = Undecided
             /\ about'[v] # NoRequest => status'[about'[v]] # "none"
  <2>1. /\ wait[v] # "none" <=> about[v] # NoRequest
        /\ wait[v] # "over" => answer[v] = Undecided
        /\ about[v] # NoRequest => status[about[v]] # "none"
    BY DEF IInv, WaitsAgree
  <2>2. about[v] # NoRequest => about[v] \in Request
    BY <1>1 DEF WaitTyped
  <2>3. about[v] # NoRequest => status'[about[v]] # "none"
    BY <1>1, <2>1, <2>2, MadeStays
  <2>4. CASE Untouched(v) \/ Ends(v)
    BY <2>1, <2>3, <2>4 DEF Untouched, Ends
  <2>5. CASE Begins(v) \/ AtOnce(v)
    BY <2>1, <2>5, NoneOutside DEF Begins, AtOnce, AboutLive
  <2> QED
    BY <2>4, <2>5, WaitSteps DEF EndsWoken, EndsUnanswered
<1>3. ASSUME NEW r \in Request, status[r] = "resolved" => isSet[r]
      PROVE  status'[r] = "resolved" => isSet'[r]
  <2>1. ASSUME NEW s \in Request, Made(s) PROVE status'[r] = "resolved" => isSet'[r]
    BY <1>1, <1>3, <2>1 DEF Made, Create, ReqTyped
  <2>2. ASSUME NEW d \in Id, NEW x \in Decision, Decided(d, x)
        PROVE  status'[r] = "resolved" => isSet'[r]
    BY <1>1, <1>3, <2>2 DEF Decided, ReqTyped
  <2>3. ASSUME NEW d \in Id, Expired(d) PROVE status'[r] = "resolved" => isSet'[r]
    BY <1>1, <1>3, <2>3 DEF Expired, Expire, ReqTyped
  <2> QED
    BY <1>1, <1>3, <2>1, <2>2, <2>3 DEF RequestStep, reqVars
<1>4. ASSUME NEW v \in Wait, wait'[v] = "waiting"
      PROVE  status'[about'[v]] = "resolved" => isSet'[about'[v]]
  <2>1. CASE Untouched(v)
    <3>1. about[v] \in Request /\ (status[about[v]] = "resolved" => isSet[about[v]])
      BY <1>1, <1>4, <2>1 DEF Untouched, IInv, NoLostWakeUp, WaitTyped, Waiting
    <3> QED
      BY <1>3, <2>1, <3>1 DEF Untouched
  <2>2. CASE Begins(v)
    BY <2>2 DEF Begins, AboutLive
  <2> QED
    BY <1>4, <2>1, <2>2, WaitSteps DEF AtOnce, EndsWoken, EndsUnanswered, Ends
<1> QED
  BY <1>2, <1>4 DEF WaitsAgree, NoLostWakeUp, Waiting

-----------------------------------------------------------------------------
(* The invariant. *)

LEMMA InitIInv == Init => IInv
<1> SUFFICES ASSUME Init PROVE IInv
  OBVIOUS
<1>1. Waiting = {}
  BY DEF Init, Waiting
<1>2. TypeOK
  BY <1>1 DEF Init, TypeOK, ConnInit, ConnTypeOK
<1>3. BusyIsOneWait
  BY <1>1 DEF Init, ConnInit, BusyIsOneWait
<1>4. PendingAgrees /\ DecisionsAreRequests /\ RequestsAgree /\ WaitsAgree
  BY NoneOutside
     DEF Init, PendingAgrees, DecisionsAreRequests, RequestsAgree, WaitsAgree
<1> QED
  BY <1>1, <1>2, <1>3, <1>4 DEF IInv, NoLostWakeUp

LEMMA NextIInv == IInv /\ [Next]_vars => IInv'
<1> SUFFICES ASSUME IInv, [Next]_vars PROVE IInv'
  OBVIOUS
<1>1. ConnTypeOK /\ WaitTyped /\ RequestParts
  BY TypeParts DEF IInv, RequestParts
<1>2. PendingAgrees' /\ DecisionsAreRequests' /\ RequestsAgree'
  BY <1>1, StepParts, RequestsKept DEF IInv
<1>3. BusyIsOneWait'
  BY <1>1, StepParts, ConnStepBusy, AwaitBusy, AnswerBusy DEF IInv
<1> QED
  BY <1>2, <1>3, NextTyped, NextWaitsAgree DEF IInv

(* The parts of the state agree in every reachable state: in particular no *)
(* wake-up is lost, since who waits for a resolved request (resolve_sync)  *)
(* finds its event set.                                                    *)
THEOREM InvariantHolds == Spec => []IInv
BY InitIInv, NextIInv, PTL DEF Spec

-----------------------------------------------------------------------------
(* Decisions and who gets them. *)

(* A decision, once made, stays, and an id used twice stays so. *)
LEMMA DecidedStays ==
  ASSUME RequestParts, RequestStep, NEW r \in Request, decided[r] # Undecided
  PROVE  decided'[r] = decided[r]
<1>1. status[r] = "resolved"
  BY DEF RequestParts, RequestsAgree
<1>2. ASSUME NEW s \in Request, Made(s) PROVE decided' = decided
  BY <1>2 DEF Made, Create
<1>3. ASSUME NEW d \in Id, NEW x \in Decision, Decided(d, x) PROVE decided'[r] = decided[r]
  <2>1. pending[d] \in Request
    BY <1>3 DEF Decided, RequestParts, ReqTyped
  <2>2. status[pending[d]] = "pending"
    BY <2>1 DEF RequestParts, PendingAgrees
  <2> QED
    BY <1>1, <1>3, <2>2 DEF Decided, RequestParts, ReqTyped
<1> QED
  BY <1>2, <1>3 DEF RequestStep, reqVars, Expired

LEMMA FreshStays ==
  ASSUME RequestParts, RequestStep, NEW r \in Request, status[r] # "none", Fresh(r)'
  PROVE  Fresh(r)
<1> SUFFICES ASSUME NEW s \in Request, NEW u \in Request, s # u,
                    idOf[s] = idOf[r], idOf[u] = idOf[r]
             PROVE  FALSE
  BY DEF Fresh, Reused
<1>1. idOf[r] \in Id
  BY DEF RequestParts, ReqTyped
<1>2. status[s] # "none" /\ status[u] # "none"
  BY <1>1, NoneOutside DEF RequestParts, RequestsAgree
<1>3. idOf'[r] = idOf[r] /\ idOf'[s] = idOf[s] /\ idOf'[u] = idOf[u]
  BY <1>2, MadeStays DEF RequestParts
<1> QED
  BY <1>3 DEF Fresh, Reused

AnswerOf(w) ==
  \E r \in Request :
    /\ idOf[r] = idOf[about[w]] /\ decided[r] = answer[w]
    /\ Fresh(about[w]) => r = about[w]

(* A decision found under an id is, and stays, that of a request with it. *)
LEMMA KeptDecision ==
  ASSUME RequestParts, RequestStep, NEW d \in Id, decisions[d] # Undecided
  PROVE  \E s \in Request : idOf'[s] = d /\ decided'[s] = decisions[d]
<1>1. PICK s \in Request : idOf[s] = d /\ decided[s] = decisions[d]
  BY DEF RequestParts, DecisionsAreRequests
<1>2. status[s] # "none"
  BY <1>1, NoneOutside DEF RequestParts, RequestsAgree
<1> QED
  BY <1>1, <1>2, DecidedStays, MadeStays DEF RequestParts

LEMMA OwnDecisionStep == IInv /\ OwnDecision /\ [Next]_vars => OwnDecision'
<1> SUFFICES ASSUME IInv, OwnDecision, [Next]_vars,
                    NEW v \in Wait, about'[v] # NoRequest, answer'[v] # Undecided
             PROVE  AnswerOf(v)'
  BY DEF OwnDecision, AnswerOf
<1>1. RequestParts /\ WaitTyped /\ RequestStep /\ IInv'
  BY TypeParts, StepParts, NextIInv DEF IInv, RequestParts
<1>2. CASE Untouched(v)
  <2>1. about[v] \in Request /\ status[about[v]] # "none" /\ AnswerOf(v)
    BY <1>1, <1>2 DEF Untouched, OwnDecision, AnswerOf, IInv, WaitsAgree, WaitTyped
  <2>2. PICK r \in Request : /\ idOf[r] = idOf[about[v]] /\ decided[r] = answer[v]
                             /\ Fresh(about[v]) => r = about[v]
    BY <2>1 DEF AnswerOf
  <2>3. decided'[r] = decided[r]
    BY <1>1, <1>2, <2>2, DecidedStays DEF Untouched
  <2>4. status[r] # "none"
    BY <2>1, <2>2 DEF IInv, RequestsAgree
  <2>5. idOf'[r] = idOf[r] /\ idOf'[about[v]] = idOf[about[v]]
    BY <1>1, <2>1, <2>4, MadeStays DEF RequestParts
  <2>6. ASSUME NEW q \in Request, q = about[v], Fresh(q)' PROVE r = q
    BY <1>1, <2>1, <2>2, <2>6, FreshStays
  <2>7. Fresh(about[v])' => r = about[v]
    BY <1>2, <2>1, <2>6 DEF Untouched
  <2> QED
    BY <1>2, <2>2, <2>3, <2>5, <2>7 DEF Untouched, AnswerOf
<1>3. CASE AtOnce(v)
  <2>1. PICK q \in Request : q = about'[v] /\ idOf'[q] \in Id
    BY <1>3 DEF AtOnce
  <2>2. PICK s \in Request : idOf'[s] = idOf'[q] /\ decided'[s] = answer'[v]
    BY <1>1, <1>3, <2>1, KeptDecision DEF AtOnce
  <2>3. Fresh(q)' => s = q
    BY <2>1, <2>2 DEF Fresh, Reused
  <2>4. Fresh(about[v])' => s = about'[v]
    BY <2>1, <2>3
  <2> QED
    BY <2>1, <2>2, <2>4 DEF AnswerOf
<1>4. CASE EndsWoken(v)
  <2>1. PICK q \in Request : q = about[v] /\ idOf[q] \in Id
    BY <1>4, WaitingForMade DEF EndsWoken, Ends, IInv
  <2>2. about'[v] = q /\ idOf' = idOf /\ answer'[v] = decisions[idOf[q]]
    BY <1>4, <2>1 DEF EndsWoken, Ends, reqVars
  <2>3. PICK s \in Request : idOf'[s] = idOf'[q] /\ decided'[s] = answer'[v]
    BY <1>1, <2>1, <2>2, KeptDecision
  <2>4. Fresh(q)' => s = q
    BY <2>1, <2>3 DEF Fresh, Reused
  <2>5. Fresh(about[v])' => s = about'[v]
    BY <2>2, <2>4
  <2> QED
    BY <2>2, <2>3, <2>5 DEF AnswerOf
<1>5. CASE Begins(v) \/ EndsUnanswered(v)
  BY <1>1, <1>5 DEF Begins, AboutLive, EndsUnanswered, IInv, WaitsAgree
<1> QED
  BY <1>2, <1>3, <1>4, <1>5, WaitSteps

LEMMA OwnDecisionKept == Spec => [](IInv /\ OwnDecision)
<1>1. Init => OwnDecision
  BY DEF Init, OwnDecision
<1> QED
  BY <1>1, InitIInv, NextIInv, OwnDecisionStep, PTL DEF Spec

(* What a wait is answered was decided for the request it is about, unless *)
(* its id was used twice: then it may be the decision of the other one     *)
(* (await_decision reads _decisions by id).                                *)
THEOREM OwnDecisionHolds == Spec => []OwnDecision
BY OwnDecisionKept, PTL

-----------------------------------------------------------------------------
(* Requests that expire. *)

(* Nothing but the time-out of a wait expires a request. *)
LEMMA OnlyTimeOutsExpire ==
  ASSUME IInv, [Next]_vars, NEW r \in Request,
         status[r] # "expired", status'[r] = "expired"
  PROVE  \E w \in Wait : TimesOut(w)
<1>1. ReqTyped
  BY TypeParts DEF IInv
<1>2. CASE UNCHANGED reqVars
  BY <1>2 DEF reqVars
<1>3. ASSUME NEW s \in Request, Made(s) PROVE FALSE
  BY <1>1, <1>3 DEF Made, Create, ReqTyped
<1>4. ASSUME NEW d \in Id, NEW x \in Decision, Decided(d, x) PROVE FALSE
  BY <1>1, <1>4 DEF Decided, ReqTyped
<1>5. ASSUME NEW c \in Conn, NEW s \in Request, NEW d \in Id, NEW w \in Wait,
             RequestAndWait(c, s, d, w)
      PROVE  FALSE
  BY <1>3, <1>5 DEF RequestAndWait, Made
<1> QED
  BY <1>2, <1>3, <1>4, <1>5, NextCases DEF WaitDecision, Woken

LEMMA ExpiredStep == IInv /\ OwnDecision /\ ExpiredForAll /\ [Next]_vars => ExpiredForAll'
<1> SUFFICES ASSUME IInv, OwnDecision, ExpiredForAll, [Next]_vars,
                    NEW r \in Request, status'[r] = "expired", Fresh(r)'
             PROVE  /\ \E w \in Wait : about'[w] = r /\ wait'[w] = "over"
                    /\ \A w \in Wait : about'[w] = r => answer'[w] = Undecided
  BY DEF ExpiredForAll
<1>1. RequestParts /\ WaitTyped /\ RequestStep
  BY TypeParts, StepParts DEF IInv, RequestParts
<1>2. status[r] \in {"pending", "expired"}
  <2>1. ASSUME NEW s \in Request, Made(s) PROVE status[r] = "expired"
    BY <1>1, <2>1 DEF Made, Create, RequestParts, ReqTyped
  <2>2. ASSUME NEW d \in Id, NEW x \in Decision, Decided(d, x) PROVE status[r] = "expired"
    BY <1>1, <2>2 DEF Decided, RequestParts, ReqTyped
  <2>3. ASSUME NEW d \in Id, Expired(d) PROVE status[r] \in {"pending", "expired"}
    <3>1. CASE pending[d] = NoRequest
      BY <2>3, <3>1 DEF Expired, Expire
    <3>2. CASE pending[d] # NoRequest
      BY <1>1, <2>3, <3>2 DEF Expired, Expire, RequestParts, ReqTyped, PendingAgrees
    <3> QED
      BY <3>1, <3>2
  <2> QED
    BY <1>1, <2>1, <2>2, <2>3 DEF RequestStep, reqVars
<1>3. Fresh(r)
  BY <1>1, <1>2, FreshStays
<1>4. decided[r] = Undecided
  BY <1>1, <1>2 DEF RequestParts, RequestsAgree
<1>5. \A w \in Wait : about[w] = r => answer[w] = Undecided
  BY <1>3, <1>4, NoneOutside DEF OwnDecision
<1>6. ASSUME NEW w \in Wait, about'[w] = r PROVE answer'[w] = Undecided
  <2>1. CASE Untouched(w)
    BY <1>5, <1>6, <2>1 DEF Untouched
  <2>2. CASE EndsWoken(w)
    BY <1>1, <1>2, <1>6, <2>2 DEF EndsWoken, Ends, RequestParts, RequestsAgree
  <2>3. CASE Begins(w) \/ AtOnce(w)
    BY <1>6, <2>3 DEF Begins, AtOnce, AboutLive
  <2> QED
    BY <2>1, <2>2, <2>3, WaitSteps DEF EndsUnanswered
<1>7. \E w \in Wait : about'[w] = r /\ wait'[w] = "over"
  <2>1. CASE status[r] = "expired"
    <3>1. PICK w \in Wait : about[w] = r /\ wait[w] = "over"
      BY <1>3, <2>1 DEF ExpiredForAll
    <3> QED
      BY <3>1, WaitSteps
         DEF Untouched, Begins, AtOnce, AboutLive, EndsWoken, EndsUnanswered, Ends
  <2>2. CASE status[r] = "pending"
    <3>1. PICK w \in Wait : TimesOut(w)
      BY <2>2, OnlyTimeOutsExpire
    <3>2. wait[w] = "waiting" /\ wait'[w] = "over" /\ about'[w] = about[w]
      BY <1>1, <3>1 DEF TimesOut, Answer, WaitTyped
    <3>3. about[w] \in Request /\ idOf[about[w]] \in Id
      BY <3>2, WaitingForMade DEF IInv
    <3>4. pending[idOf[about[w]]] = r
      BY <1>1, <2>2, <3>1, <3>3 DEF TimesOut, Expire, RequestParts, ReqTyped
    <3>5. idOf[r] = idOf[about[w]]
      BY <1>1, <3>3, <3>4 DEF RequestParts, PendingAgrees
    <3>6. about[w] = r
      BY <1>3, <3>3, <3>5 DEF Fresh, Reused
    <3> QED
      BY <3>2, <3>6
  <2> QED
    BY <1>2, <2>1, <2>2
<1> QED
  BY <1>6, <1>7

(* A request whose id was used once expires because some wait for it ended *)
(* without a decision, and no wait for it is then answered one (_expire    *)
(* removes it for all).                                                    *)
THEOREM ExpiredForAllHolds == Spec => []ExpiredForAll
<1>1. Init => ExpiredForAll
  BY DEF Init, ExpiredForAll
<1> QED
  BY <1>1, OwnDecisionKept, ExpiredStep, PTL DEF Spec

-----------------------------------------------------------------------------
(* Requests that are pending. *)

LEMMA OnlyRequestAndWaitBlocks ==
  ASSUME IInv, [Next]_vars, NEW r \in Request, ~blocking[r], blocking'[r]
  PROVE  \E c \in Conn, s \in Request, d \in Id, w \in Wait : RequestAndWait(c, s, d, w)
BY NextCases DEF reqVars, Decided, WaitDecision, Woken, TimesOut

(* A request that was made before, and is pending, was so before. *)
LEMMA MadeKeepsBlocking ==
  ASSUME RequestParts, RequestStep, NEW r \in Request,
         status[r] # "none", status'[r] = "pending"
  PROVE  status[r] = "pending" /\ blocking'[r] = blocking[r]
<1>1. ASSUME NEW s \in Request, Made(s)
      PROVE  status[r] = "pending" /\ blocking'[r] = blocking[r]
  <2>1. s # r
    BY <1>1 DEF Made, Create, MayCreate, NextRequest
  <2> QED
    BY <1>1, <2>1 DEF Made, Create, RequestParts, ReqTyped
<1>2. ASSUME NEW d \in Id, NEW x \in Decision, Decided(d, x)
      PROVE  status[r] = "pending" /\ blocking'[r] = blocking[r]
  BY <1>2 DEF Decided, RequestParts, ReqTyped
<1>3. ASSUME NEW d \in Id, Expired(d)
      PROVE  status[r] = "pending" /\ blocking'[r] = blocking[r]
  BY <1>3 DEF Expired, Expire, RequestParts, ReqTyped
<1> QED
  BY <1>1, <1>2, <1>3 DEF RequestStep, reqVars

LEMMA WatchedStep == IInv /\ PendingIsWatched /\ [Next]_vars => PendingIsWatched'
<1> SUFFICES ASSUME IInv, PendingIsWatched, [Next]_vars,
                    NEW r \in Request, status'[r] = "pending", blocking'[r], Fresh(r)'
             PROVE  \E w \in Wait : about'[w] = r /\ wait'[w] = "waiting"
  BY DEF PendingIsWatched, Waiting
<1>1. RequestParts /\ WaitTyped /\ RequestStep
  BY TypeParts, StepParts DEF IInv, RequestParts
<1>2. CASE status[r] = "none"
  <2>1. ~blocking[r]
    BY <1>2 DEF IInv, RequestsAgree
  <2>2. PICK c \in Conn, s \in Request, d \in Id, w \in Wait : RequestAndWait(c, s, d, w)
    BY <2>1, OnlyRequestAndWaitBlocks
  <2>3. s = r /\ idOf'[r] = d
    BY <1>1, <1>2, <2>2 DEF RequestAndWait, Create, RequestParts, ReqTyped
  <2>4. AwaitDecision(w, c, d, r) /\ decisions' = decisions
    BY <2>2, <2>3 DEF RequestAndWait, Create
  <2>5. decisions[d] = Undecided
    <3> SUFFICES ASSUME decisions[d] # Undecided PROVE FALSE
      OBVIOUS
    <3>1. PICK q \in Request : idOf[q] = d /\ decided[q] = decisions[d]
      BY <1>1 DEF RequestParts, DecisionsAreRequests
    <3>2. status[q] # "none"
      BY <3>1, NoneOutside DEF IInv, RequestsAgree
    <3>3. q # r /\ idOf'[q] = d
      BY <1>1, <1>2, <3>1, <3>2, MadeStays DEF RequestParts
    <3> QED
      BY <2>3, <3>3 DEF Fresh, Reused
  <2> QED
    BY <1>1, <2>4, <2>5 DEF AwaitDecision, WaitTyped
<1>3. CASE status[r] # "none"
  <2>1. Fresh(r)
    BY <1>1, <1>3, FreshStays
  <2>2. status[r] = "pending" /\ blocking[r]
    BY <1>1, <1>3, MadeKeepsBlocking
  <2>3. PICK w \in Wait : wait[w] = "waiting" /\ about[w] = r
    BY <2>1, <2>2 DEF PendingIsWatched, Waiting
  <2>4. ~EndsWoken(w)
    BY <2>2, <2>3 DEF EndsWoken, IInv, RequestsAgree
  <2>5. ~EndsUnanswered(w)
    <3>1. idOf[r] \in Id /\ pending[idOf[r]] = r
      BY <1>1, <2>2 DEF RequestParts, ReqTyped, PendingAgrees
    <3> QED
      BY <1>1, <2>3, <3>1, NoneOutside DEF EndsUnanswered, Expired, Expire, RequestParts, ReqTyped
  <2> QED
    BY <2>3, <2>4, <2>5, WaitSteps DEF Untouched, Begins, AtOnce, AboutLive
<1> QED
  BY <1>2, <1>3

(* A request that its maker waits for is watched by a wait as long as it   *)
(* is pending, so that it does not stay in pending_approvals for ever; a   *)
(* request that reuses a decided id does (request_approval_from_params).   *)
THEOREM PendingIsWatchedHolds == Spec => []PendingIsWatched
<1>1. Init => PendingIsWatched
  BY DEF Init, PendingIsWatched
<1> QED
  BY <1>1, InitIInv, NextIInv, WatchedStep, PTL DEF Spec

-----------------------------------------------------------------------------
(* Steps. *)

LEMMA EndedStays ==
  ASSUME RequestParts, RequestStep, NEW r \in Request,
         status[r] \in {"resolved", "expired"}
  PROVE  status'[r] = status[r] /\ decided'[r] = decided[r]
<1>1. ASSUME NEW s \in Request, Made(s)
      PROVE  status'[r] = status[r] /\ decided'[r] = decided[r]
  BY <1>1 DEF Made, Create, MayCreate, NextRequest, RequestParts, ReqTyped
<1>2. ASSUME NEW d \in Id, pending[d] # NoRequest PROVE pending[d] # r
  BY DEF RequestParts, PendingAgrees
<1>3. ASSUME NEW d \in Id, NEW x \in Decision, Decided(d, x)
      PROVE  status'[r] = status[r] /\ decided'[r] = decided[r]
  BY <1>2, <1>3 DEF Decided, RequestParts, ReqTyped
<1>4. ASSUME NEW d \in Id, Expired(d)
      PROVE  status'[r] = status[r] /\ decided'[r] = decided[r]
  BY <1>2, <1>4 DEF Expired, Expire, RequestParts, ReqTyped
<1> QED
  BY <1>1, <1>3, <1>4 DEF RequestStep, reqVars

(* A connection that waits in a handler does not read, and a decision is   *)
(* read from a connection (handle_request is awaited).                     *)
THEOREM NoDecisionWhileAllWaitHolds == Spec => NoDecisionWhileAllWait
<1>1. ASSUME IInv, [Next]_vars, NobodyListens
      PROVE  decided' = decided /\ decisions' = decisions
  <2>1. ASSUME NEW c \in Conn, Reads(c) PROVE FALSE
    BY <1>1, <2>1 DEF NobodyListens, Reads, Roles, IInv, BusyIsOneWait
  <2>2. ASSUME NEW r \in Request, Made(r) PROVE decided' = decided /\ decisions' = decisions
    BY <2>2 DEF Made, Create
  <2> QED
    BY <1>1, <2>1, <2>2, NextCases
       DEF reqVars, RequestAndWait, Create, WaitDecision, Woken, TimesOut
<1> QED
  BY <1>1, InvariantHolds, PTL DEF Spec, NoDecisionWhileAllWait

(* What is decided or has expired stays, and so does what a wait was       *)
(* answered, whatever comes later with the same id.                        *)
THEOREM EndsAreFinalHolds == Spec => EndsAreFinal
<1> DEFINE Final ==
      /\ \A r \in Request : status[r] \in {"resolved", "expired"} =>
           status'[r] = status[r] /\ decided'[r] = decided[r]
      /\ \A w \in Wait : wait[w] = "over" => answer'[w] = answer[w]
<1>1. ASSUME IInv, [Next]_vars PROVE Final
  <2>1. ReqTyped /\ RequestParts /\ RequestStep
    BY <1>1, TypeParts, StepParts DEF IInv, RequestParts
  <2>2. ASSUME NEW r \in Request, status[r] \in {"resolved", "expired"}
        PROVE  status'[r] = status[r] /\ decided'[r] = decided[r]
    BY <2>1, <2>2, EndedStays
  <2>3. ASSUME NEW w \in Wait, wait[w] = "over" PROVE answer'[w] = answer[w]
    BY <1>1, <2>3, WaitSteps
       DEF Untouched, Begins, AtOnce, AboutLive, EndsWoken, EndsUnanswered, Ends
  <2> QED
    BY <2>2, <2>3
<1>2. Final => [Final]_vars
  OBVIOUS
<1> QED
  BY <1>1, InvariantHolds, PTL DEF Spec, EndsAreFinal
=============================================================================
