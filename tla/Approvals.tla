------------------------------ MODULE Approvals -------------------------------
(***************************************************************************)
(* Approval requests of the gateway: openclaw/exec/approval_manager.py and *)
(* its twin openclaw/infra/plugin_approvals_manager.py, with their handlers *)
(* in gateway/handlers.py.  A request is made on one connection and decided *)
(* on another; who asked waits on the request's event, for his own time-out *)
(* and not the request's, and so may any other connection.                 *)
(*                                                                         *)
(* Requests are numbered as they are made.  A caller may choose the id of  *)
(* an exec request, and choose one that was used before; the manager keeps *)
(* decisions by id.                                                        *)
(***************************************************************************)
EXTENDS Connections

CONSTANTS
  NumIds,      \* bound: approval ids, numbered as they are first used
  NumRequests, \* bound: requests
  NumWaits,    \* bound: calls of await_decision, numbered
  Decision,    \* VALID_DECISIONS
  Undecided

Id == 1..NumIds
NoId == 0
Request == 1..NumRequests
Wait == 1..NumWaits
NoRequest == 0

ASSUME ConstantsAssumption ==
  /\ NumIds \in Nat /\ NumRequests \in Nat /\ NumWaits \in Nat
  /\ Undecided \notin Decision

VARIABLES
  idOf,       \* id of each request made
  status,     \* ApprovalRequest.status, "none" before it is made
  pending,    \* pending_approvals (and _waiters, which has the same keys)
  decisions,  \* _decisions
  isSet,      \* whether the event of the request is set
  blocking,   \* whether the request was made without twoPhase
  decided,    \* history: the decision each request got
  wait,       \* of a wait: "none", "waiting", "over"
  asker,      \* the connection whose handler waits
  about,      \* the request it is about
  answer      \* what it was answered

reqVars == <<idOf, status, pending, decisions, isSet, blocking, decided>>
waitVars == <<wait, asker, about, answer>>
vars == <<connVars, reqVars, waitVars>>

Init ==
  /\ ConnInit
  /\ idOf = [r \in Request |-> NoId] /\ status = [r \in Request |-> "none"]
  /\ pending = [d \in Id |-> NoRequest] /\ decisions = [d \in Id |-> Undecided]
  /\ isSet = [r \in Request |-> FALSE] /\ blocking = [r \in Request |-> FALSE]
  /\ decided = [r \in Request |-> Undecided]
  /\ wait = [w \in Wait |-> "none"] /\ asker = [w \in Wait |-> NoConn]
  /\ about = [w \in Wait |-> NoRequest] /\ answer = [w \in Wait |-> Undecided]

Reused(d) == \E r, s \in Request : r # s /\ idOf[r] = d /\ idOf[s] = d
Fresh(r) == ~Reused(idOf[r])
Waiting == {w \in Wait : wait[w] = "waiting"}

-----------------------------------------------------------------------------
(* Connections of operators; an approval has no part in their ends. *)

Connect(c) == Authenticate(c, "operator") /\ UNCHANGED <<reqVars, waitVars>>
Close_Expires(c) ==
  /\ PeerCloses(c)
  /\ status' = [r \in Request |->
       IF \E w \in Waiting : asker[w] = c /\ about[w] = r THEN "expired" ELSE status[r]]
  /\ pending' = [d \in Id |->
       IF \E w \in Waiting : asker[w] = c /\ about[w] = pending[d] THEN NoRequest
       ELSE pending[d]]
  /\ UNCHANGED <<idOf, decisions, isSet, blocking, decided, waitVars>>
Close(c) == PeerCloses(c) /\ UNCHANGED <<reqVars, waitVars>>
CleanUp(c) == LoopEnds(c) /\ UNCHANGED <<reqVars, waitVars>>

-----------------------------------------------------------------------------
(* Requests. *)

(* _create_record.  An id that is pending is refused; one that was decided *)
(* or has expired is not.                                                  *)
NextRequest(r) == status[r] = "none" /\ \A s \in Request : s < r => status[s] # "none"
Used(d) == \E r \in Request : idOf[r] = d
NextId(d) == ~Used(d) => \A e \in Id : e < d => Used(e)
MayCreate(r, d) == NextRequest(r) /\ NextId(d) /\ pending[d] = NoRequest
Create(r, d) ==
  /\ MayCreate(r, d)
  /\ idOf' = [idOf EXCEPT ![r] = d] /\ status' = [status EXCEPT ![r] = "pending"]
  /\ pending' = [pending EXCEPT ![d] = r]
  /\ UNCHANGED <<decisions, isSet, decided>>

(* await_decision(d) in a handler of c; `now' is what is pending under d.  *)
(* A decision of any request of that id is an answer.  When there is none  *)
(* and nothing is pending, the answer is None at once and nothing changes. *)
MayWait(w) == wait[w] = "none" /\ \A v \in Wait : v < w => wait[v] # "none"
AwaitDecision(w, c, d, now) ==
  /\ MayWait(w) /\ Reads(c) /\ about' = [about EXCEPT ![w] = now]
  /\ IF decisions[d] # Undecided
     THEN /\ wait' = [wait EXCEPT ![w] = "over"]
          /\ answer' = [answer EXCEPT ![w] = decisions[d]]
          /\ UNCHANGED <<asker, connVars>>
     ELSE /\ wait' = [wait EXCEPT ![w] = "waiting"]
          /\ asker' = [asker EXCEPT ![w] = c]
          /\ Blocks(c) /\ UNCHANGED answer

RequestTwoPhase(c, r, d) ==
  /\ Reads(c) /\ Create(r, d)
  /\ UNCHANGED <<connVars, blocking, waitVars>>
RequestAndWait(c, r, d, w) ==
  /\ Create(r, d) /\ AwaitDecision(w, c, d, r)
  /\ blocking' = [blocking EXCEPT ![r] = TRUE]

(* A wait under d is about what is pending, else about a request whose     *)
(* decision is kept under d.                                               *)
MeantBy(r, d) ==
  \/ r = pending[d]
  \/ /\ pending[d] = NoRequest /\ idOf[r] = d
     /\ decided[r] = decisions[d] /\ decided[r] # Undecided
WaitDecision(c, d, w) ==
  /\ \E r \in Request : MeantBy(r, d) /\ AwaitDecision(w, c, d, r)
  /\ UNCHANGED reqVars

(* resolve_sync, on any connection that reads. *)
Resolve_NoWakeUp(c, d, decision) ==
  LET r == pending[d] IN
  /\ Reads(c) /\ r # NoRequest
  /\ status' = [status EXCEPT ![r] = "resolved"]
  /\ decided' = [decided EXCEPT ![r] = decision]
  /\ decisions' = [decisions EXCEPT ![d] = decision]
  /\ pending' = [pending EXCEPT ![d] = NoRequest]
  /\ UNCHANGED <<connVars, idOf, isSet, blocking, waitVars>>
Resolve(c, d, decision) ==
  LET r == pending[d] IN
  /\ Reads(c) /\ r # NoRequest
  /\ status' = [status EXCEPT ![r] = "resolved"]
  /\ decided' = [decided EXCEPT ![r] = decision]
  /\ decisions' = [decisions EXCEPT ![d] = decision]
  /\ pending' = [pending EXCEPT ![d] = NoRequest]
  /\ isSet' = [isSet EXCEPT ![r] = TRUE]
  /\ UNCHANGED <<connVars, idOf, blocking, waitVars>>

(* _expire: whatever is pending under the id; its event is not set.        *)
Expire(d) ==
  /\ pending' = [pending EXCEPT ![d] = NoRequest]
  /\ status' = IF pending[d] = NoRequest THEN status
               ELSE [status EXCEPT ![pending[d]] = "expired"]

-----------------------------------------------------------------------------
(* The end of a wait. *)

Answer(w, a) ==
  /\ wait[w] = "waiting" /\ wait' = [wait EXCEPT ![w] = "over"]
  /\ answer' = [answer EXCEPT ![w] = a]
  /\ Unblocks(asker[w]) /\ asker' = [asker EXCEPT ![w] = NoConn]
  /\ UNCHANGED about

(* The event was set: the decision now kept under the id. *)
Woken(w) ==
  /\ w \in Waiting /\ isSet[about[w]] /\ Answer(w, decisions[idOf[about[w]]])
  /\ UNCHANGED reqVars

(* The time-out of this wait; it may win over an event that is already set.*)
TimesOut_Denies(w) ==
  /\ Answer(w, CHOOSE d \in Decision : TRUE) /\ Expire(idOf[about[w]])
  /\ UNCHANGED <<idOf, decisions, isSet, blocking, decided>>
TimesOut_OnlyIfPending(w) ==
  /\ Answer(w, Undecided) /\ pending[idOf[about[w]]] = about[w]
  /\ Expire(idOf[about[w]])
  /\ UNCHANGED <<idOf, decisions, isSet, blocking, decided>>
TimesOut(w) ==
  /\ Answer(w, Undecided) /\ Expire(idOf[about[w]])
  /\ UNCHANGED <<idOf, decisions, isSet, blocking, decided>>

-----------------------------------------------------------------------------
Next ==
  \/ \E c \in Conn :
       \/ Connect(c) \/ Close(c) \/ CleanUp(c)
       \/ \E r \in Request, d \in Id :
            RequestTwoPhase(c, r, d) \/ \E w \in Wait : RequestAndWait(c, r, d, w)
       \/ \E d \in Id :
            \/ \E w \in Wait : WaitDecision(c, d, w)
            \/ \E decision \in Decision : Resolve(c, d, decision)
  \/ \E w \in Wait : Woken(w) \/ TimesOut(w)

Spec == Init /\ [][Next]_vars

(* Woken handlers go on, timers fire and loops notice closed sockets.      *)
(* Nobody need decide.                                                     *)
GoesOn ==
  (\E w \in Wait : Woken(w) \/ TimesOut(w)) \/ (\E c \in Conn : CleanUp(c))
FairSpec == Spec /\ WF_vars(GoesOn)

-----------------------------------------------------------------------------
(* Type correctness. *)
TypeOK ==
  /\ ConnTypeOK
  /\ idOf \in [Request -> Id \union {NoId}]
  /\ status \in [Request -> {"none", "pending", "resolved", "expired"}]
  /\ pending \in [Id -> Request \union {NoRequest}]
  /\ decisions \in [Id -> Decision \union {Undecided}]
  /\ isSet \in [Request -> BOOLEAN] /\ blocking \in [Request -> BOOLEAN]
  /\ decided \in [Request -> Decision \union {Undecided}]
  /\ wait \in [Wait -> {"none", "waiting", "over"}]
  /\ asker \in [Wait -> Conn \union {NoConn}]
  /\ about \in [Wait -> Request \union {NoRequest}]
  /\ answer \in [Wait -> Decision \union {Undecided}]
  /\ \A w \in Waiting : asker[w] \in Conn /\ about[w] \in Request
  /\ \A r \in Request : status[r] # "none" => idOf[r] \in Id

(* The table of pending requests and the requests agree. *)
PendingAgrees ==
  \A r \in Request, d \in Id :
    pending[d] = r <=> status[r] = "pending" /\ idOf[r] = d

(* No wake-up is lost: who waits for a request waits for one that is still *)
(* pending, or whose event is set, or that another's time-out has expired. *)
NoLostWakeUp == \A w \in Waiting : status[about[w]] = "resolved" => isSet[about[w]]

(* What a wait for a request is answered was decided for that very request *)
(* when its id was used once, and for one of the same id otherwise.        *)
OwnDecision ==
  \A w \in Wait : about[w] # NoRequest /\ answer[w] # Undecided =>
    \E r \in Request :
      /\ idOf[r] = idOf[about[w]] /\ decided[r] = answer[w]
      /\ Fresh(about[w]) => r = about[w]

(* One time-out speaks for all: a request expires because a wait for it    *)
(* ended without an answer, and then no wait for it, however long its own  *)
(* time-out, is answered a decision.                                       *)
ExpiredForAll ==
  \A r \in Request : status[r] = "expired" /\ Fresh(r) =>
    /\ \E w \in Wait : about[w] = r /\ wait[w] = "over"
    /\ \A w \in Wait : about[w] = r => answer[w] = Undecided

(* A pending request that its maker waits for is watched by a wait, whose  *)
(* time-out will remove it; only the reuse of an id leaves one behind.     *)
PendingIsWatched ==
  \A r \in Request : status[r] = "pending" /\ blocking[r] /\ Fresh(r) =>
    \E w \in Waiting : about[w] = r

(* Decisions kept under an id are those of requests with the id, and only  *)
(* a resolved request has one.                                             *)
DecisionsAreRequests ==
  \A d \in Id : decisions[d] # Undecided =>
    \E r \in Request : idOf[r] = d /\ decided[r] = decisions[d]
RequestsAgree ==
  \A r \in Request :
    /\ status[r] = "none" <=> idOf[r] = NoId
    /\ decided[r] # Undecided => status[r] = "resolved"
    /\ isSet[r] => status[r] = "resolved"
    /\ blocking[r] => status[r] # "none"

(* A wait is about a request that was made, and is answered at its end. *)
WaitsAgree ==
  \A w \in Wait :
    /\ wait[w] # "none" <=> about[w] # NoRequest
    /\ wait[w] # "over" => answer[w] = Undecided
    /\ about[w] # NoRequest => status[about[w]] # "none"

(* One wait at a time on a connection, which is deaf exactly so long. *)
BusyIsOneWait ==
  /\ \A c \in Conn : stage[c] # "node" /\ (busy[c] <=> \E w \in Waiting : asker[w] = c)
  /\ \A v, w \in Waiting : asker[v] = asker[w] => v = w

(* What the parts of the state are to each other, kept by every step. *)
IInv ==
  /\ TypeOK /\ PendingAgrees /\ NoLostWakeUp /\ DecisionsAreRequests
  /\ RequestsAgree /\ WaitsAgree /\ BusyIsOneWait

(* While every operator waits, nobody decides: one who asks on his only    *)
(* connection, or two who wait for each other, get no decision.            *)
NobodyListens ==
  \A c \in Conn : stage[c] = "operator" => \E w \in Waiting : asker[w] = c
NoDecisionWhileAllWait ==
  [][NobodyListens => decided' = decided /\ decisions' = decisions]_vars

(* A decided or expired request stays what it is, and so does an answer.   *)
EndsAreFinal ==
  [][/\ \A r \in Request : status[r] \in {"resolved", "expired"} =>
          status'[r] = status[r] /\ decided'[r] = decided[r]
     /\ \A w \in Wait : wait[w] = "over" => answer'[w] = answer[w]]_vars

(* Every wait ends, by a decision or by its own time-out, whatever the     *)
(* other waits did to the request.                                         *)
EveryWaitAnswered == \A w \in Wait : wait[w] = "waiting" ~> wait[w] = "over"
=============================================================================
