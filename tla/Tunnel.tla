-------------------------------- MODULE Tunnel --------------------------------
(***************************************************************************)
(* What a tunnelled connection promises to the two TCP peers it joins: a   *)
(* pair of byte streams that end one by one, as a direct TCP connection    *)
(* would give them (src/internal/protocol/frame.go:12-17,                  *)
(* src/internal/server/listener.go:337-338 and 366-367).  It may break at  *)
(* any time; then a peer may see an end of data that is none.              *)
(* StreamForward implements it.                                            *)
(***************************************************************************)
EXTENDS Naturals, Sequences

CONSTANT MaxChunks
VARIABLES user, service,    \* the peers
          intact            \* whether the tunnel has not been disturbed

vars == <<user, service, intact>>

\* A chunk is delivered in two pieces; these are the k-th of all.
Piece(k) == IF k % 2 = 1 THEN <<"head", (k + 1) \div 2>> ELSE <<"tail", (k + 1) \div 2>>

Fresh == [sent |-> 0, fin |-> "no", got |-> <<>>, eof |-> FALSE]

Sends(peer) ==
    /\ peer.fin = "no"
    /\ peer.sent < MaxChunks
    /\ peer' = [peer EXCEPT !.sent = @ + 1]

\* A peer ends its sending, and perhaps its receiving.
Stops(peer, how) ==
    /\ peer.fin \in {"no", "half"} \ {how}
    /\ peer' = [peer EXCEPT !.fin = how]

\* A peer breaks its connection, and the tunnel with it.
BreaksOff(peer) ==
    /\ peer.fin \in {"no", "half"}
    /\ peer' = [peer EXCEPT !.fin = "broken"]
    /\ intact' = FALSE

Listens(peer) == peer.fin \notin {"closed", "broken"} /\ ~peer.eof

\* The next piece of what the other one sent: none is lost, repeated, made up or
\* delivered behind the end.
Receives(to, from) ==
    /\ Listens(to)
    /\ Len(to.got) < 2 * from.sent
    /\ to' = [to EXCEPT !.got = Append(@, Piece(Len(@) + 1))]

\* The end of data, once: of an intact tunnel only when the other one has ended
\* its sending and nothing is missing.
SeesEnd(to, from) ==
    /\ Listens(to)
    /\ intact => from.fin # "no" /\ Len(to.got) = 2 * from.sent
    /\ to' = [to EXCEPT !.eof = TRUE]

PeerStep(peer, other) ==
    \/ Sends(peer)
    \/ \E how \in {"half", "closed"} : Stops(peer, how)
    \/ Receives(peer, other)
    \/ SeesEnd(peer, other)

Breaks == intact /\ intact' = FALSE

Init == user = Fresh /\ service = Fresh /\ intact = TRUE

Next ==
    \/ PeerStep(user, service) /\ UNCHANGED <<service, intact>>
    \/ PeerStep(service, user) /\ UNCHANGED <<user, intact>>
    \/ BreaksOff(user) /\ UNCHANGED service
    \/ BreaksOff(service) /\ UNCHANGED user
    \/ Breaks /\ UNCHANGED <<user, service>>

Spec == Init /\ [][Next]_vars
===============================================================================
