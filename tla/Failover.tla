------------------------------- MODULE Failover -------------------------------
(***************************************************************************)
(* What an upstream block promises its clients, without counters, deadlines *)
(* or clocks: a request is sent to a peer in rotation; a failed peer leaves *)
(* the rotation and the request goes to another one in it; it is refused    *)
(* only when its tries are used up or nobody is in rotation.                *)
(***************************************************************************)
EXTENDS Naturals

CONSTANTS Peer, Request, MaxTries, NoPeer

VARIABLES
    rotation,  \* the peers requests may be sent to
    request    \* per request: [pc, slot, attempt]

vars == <<rotation, request>>

New(pc) == [pc |-> pc, slot |-> NoPeer, attempt |-> 0]

Init == rotation = Peer /\ request = [r \in Request |-> New("idle")]

Submit(r) ==
    /\ request[r].pc \in {"idle", "served", "refused"}
    /\ request' = [request EXCEPT ![r] = New("buffering")]
    /\ UNCHANGED rotation

\* The client's request was never complete.
Reject(r) ==
    /\ request[r].pc = "buffering"
    /\ request' = [request EXCEPT ![r].pc = "refused"]
    /\ UNCHANGED rotation

\* Send r to a peer among those offered, or refuse it if there is none or it
\* has been tried often enough.
Try(r, offered) ==
    \/ /\ request[r].attempt < MaxTries
       /\ \E p \in offered :
            request' = [request EXCEPT ![r] =
              [pc |-> "waiting", slot |-> p, attempt |-> @.attempt + 1]]
    \/ /\ request[r].attempt = MaxTries \/ offered = {}
       /\ request' = [request EXCEPT ![r].pc = "refused"]

Send(r) ==
    /\ request[r].pc = "buffering"
    /\ Try(r, rotation)
    /\ UNCHANGED rotation

Fail(r) ==
    /\ request[r].pc = "waiting"
    /\ rotation' = rotation \ {request[r].slot}
    /\ Try(r, rotation')

Serve(r) ==
    /\ request[r].pc = "waiting"
    /\ rotation' = rotation \cup {request[r].slot}
    /\ request' = [request EXCEPT ![r].pc = "served"]

Abandon(r) ==
    /\ request[r].pc \in {"buffering", "waiting"}
    /\ request' = [request EXCEPT ![r] = New("idle")]
    /\ UNCHANGED rotation

\* Peers that failed are given another chance in time.
Rejoin ==
    /\ \E back \in SUBSET Peer : rotation' = rotation \cup back
    /\ UNCHANGED request

Next ==
    \/ \E r \in Request :
         Submit(r) \/ Reject(r) \/ Send(r) \/ Fail(r) \/ Serve(r) \/ Abandon(r)
    \/ Rejoin

Spec == Init /\ [][Next]_vars

\* The promise where others than the requests judge peers: besides, any may be
\* taken out at any time.
Expel ==
    /\ \E out \in SUBSET Peer : rotation' = rotation \ out
    /\ UNCHANGED request

SharedSpec == Init /\ [][Next \/ Expel]_vars

=============================================================================
