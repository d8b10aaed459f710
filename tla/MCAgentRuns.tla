---------------------------- MODULE MCAgentRuns -----------------------------
(* AgentRuns for TLC: r1 and r2 are a client's call and its retry with the *)
(* same key, r3 is another call (/reset) and c1 a chat.send to the same    *)
(* session.                                                                *)
EXTENDS AgentRuns, TLC
CONSTANTS r1, r2, r3, c1, i1, i3, ic, s1
MCReq == {r1, r2, r3, c1}
MCSession == {s1}
MCId == {i1, i3, ic}
MCSessionOf == [r \in MCReq |-> s1]
MCIdOf == r1 :> i1 @@ r2 :> i1 @@ r3 :> i3 @@ c1 :> ic
MCKeyed == {r1, r2, r3}
MCResetting == {r3}
MCChats == {c1}

(* A retry follows the call it repeats (r1 and r2 are interchangeable, so  *)
(* the other order shows nothing new).                                     *)
RetryFollows == rpc[r2] # "new" => rpc[r1] # "new"

(* Aborts of different ids touch different entries: one at a time.         *)
OneAbort == Cardinality(aborting) <= 1
=============================================================================
