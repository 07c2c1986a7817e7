---------------------------- MODULE FifoService -----------------------------
(***************************************************************************)
(* What the queue of NodeSession promises (src/internal/server/registry.go,*)
(* comments at 199-203 and 351-355): capacity goes to the longest parked,  *)
(* newcomers never compete with the parked, and a request is either in the *)
(* queue once, or served, or neither.  NodePool implements it.             *)
(***************************************************************************)
EXTENDS Naturals, Sequences

CONSTANT Clients
VARIABLES queue, served

vars == <<queue, served>>

Queued(r) == \E i \in 1..Len(queue) : queue[i] = r

\* The first k of the queue are served, on top of those in S.
ServeFirst(k, S) ==
    /\ queue' = SubSeq(queue, k + 1, Len(queue))
    /\ served' = S \cup {queue[i] : i \in 1..k}

\* A newcomer is served at once only when nobody is queued ...
ServeDirectly(r) ==
    /\ queue = <<>>
    /\ r \notin served
    /\ served' = served \cup {r}
    /\ UNCHANGED queue

\* ... otherwise it joins the tail, once.
Join(r) ==
    /\ r \notin served
    /\ ~Queued(r)
    /\ queue' = Append(queue, r)
    /\ UNCHANGED served

\* New capacity serves a prefix of the queue.
Grow == \E k \in 1..Len(queue) : ServeFirst(k, served)

\* So does the capacity one client gives back.
GiveBack(r) ==
    /\ r \in served
    /\ \E k \in 0..Len(queue) : ServeFirst(k, served \ {r})

\* A client may lose patience wherever it stands; the others keep their order.
GiveUp(r) ==
    /\ \E i \in 1..Len(queue) :
        /\ queue[i] = r
        /\ queue' = SubSeq(queue, 1, i - 1) \o SubSeq(queue, i + 1, Len(queue))
    /\ UNCHANGED served

Init == queue = <<>> /\ served = {}

Next ==
    \/ Grow
    \/ \E r \in Clients :
        ServeDirectly(r) \/ Join(r) \/ GiveBack(r) \/ GiveUp(r)

Spec == Init /\ [][Next]_vars
=============================================================================
