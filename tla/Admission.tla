------------------------------ MODULE Admission -------------------------------
(***************************************************************************)
(* What a worker promises those who connect to it, without the steps of    *)
(* its start, its handlers and its relays: a client in the queue is let in *)
(* by a worker that serves, while there is room, and never lost otherwise  *)
(* than with the worker; one that is in may have a peer connected to it if *)
(* there is room for that too; who leaves makes room.                      *)
(***************************************************************************)
EXTENDS Naturals, FiniteSets

CONSTANTS Client, Capacity

VARIABLES
    worker,  \* starting, serving or down
    client,  \* per client: out, queued, in, left or reset
    peer     \* per client: whether a peer is connected for it

vars == <<worker, client, peer>>

Init ==
    /\ worker = "starting"
    /\ client = [c \in Client |-> "out"]
    /\ peer = [c \in Client |-> FALSE]

Used == Cardinality({c \in Client : client[c] = "in"}) + Cardinality({c \in Client : peer[c]})

Room == Used < Capacity

Serve ==
    /\ worker = "starting" /\ worker' = "serving"
    /\ UNCHANGED <<client, peer>>

Queue(c) ==
    /\ worker # "down" /\ client[c] = "out"
    /\ client' = [client EXCEPT ![c] = "queued"]
    /\ UNCHANGED <<worker, peer>>

Admit(c) ==
    /\ worker = "serving" /\ client[c] = "queued" /\ Room
    /\ client' = [client EXCEPT ![c] = "in"]
    /\ UNCHANGED <<worker, peer>>

Reach(c) ==
    /\ client[c] = "in" /\ ~peer[c] /\ Room
    /\ peer' = [peer EXCEPT ![c] = TRUE]
    /\ UNCHANGED <<worker, client>>

\* A client leaves, with its peer or before it.
Leave(c) ==
    /\ client[c] = "in"
    /\ client' = [client EXCEPT ![c] = "left"]
    /\ peer' \in {peer, [peer EXCEPT ![c] = FALSE]}
    /\ UNCHANGED worker

LoseTouch(c) ==
    /\ peer[c]
    /\ peer' = [peer EXCEPT ![c] = FALSE]
    /\ UNCHANGED <<worker, client>>

\* The worker fails to start, or is killed.
Die ==
    /\ worker # "down" /\ worker' = "down"
    /\ client' = [c \in Client |-> IF client[c] \in {"queued", "in"} THEN "reset" ELSE client[c]]
    /\ peer' = [c \in Client |-> FALSE]

Next ==
    \/ Serve \/ Die
    \/ \E c \in Client :
         Queue(c) \/ Admit(c) \/ Reach(c) \/ Leave(c) \/ LoseTouch(c)

Spec == Init /\ [][Next]_vars

=============================================================================
