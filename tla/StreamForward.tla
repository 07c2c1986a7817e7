---------------------------- MODULE StreamForward ----------------------------
(***************************************************************************)
(* One tunnelled connection from end to end: Server.forward and its        *)
(* upstream goroutine (src/internal/server/listener.go), Client.           *)
(* handleStream, its upstream goroutine and the accept loop of             *)
(* serveChannel (src/internal/client/client.go), with the stream header,   *)
(* the ack and the payload framing between them (src/internal/protocol).   *)
(*                                                                         *)
(* A chunk is what one Read of io.Copy returns.  It travels as one frame   *)
(* of two pieces, a head and a tail, because a full frame does not fit one *)
(* smux frame.  External: the two TCP peers, the two TCP connections, the  *)
(* smux stream (two FIFO directions, version 1: Close sends a FIN behind   *)
(* the data) and the data channel under it, which may die at any time and  *)
(* take an unread suffix of both directions with it.                       *)
(***************************************************************************)
EXTENDS Naturals, Sequences

CONSTANT MaxChunks   \* bound: how many chunks each peer sends

ASSUME MaxChunksAssumption == MaxChunks \in Nat

VARIABLES
    channel,    \* the data channel: "up" or "dead"
    up, down,   \* the stream: what is on its way to the client, to the server
    stServer, stClient,   \* whether each end has called st.Close
    user,       \* the external peer: what it sent, got, saw of the end
    service,    \* the local service, likewise
    conn,       \* the server's end of the external connection
    srv,        \* progress of forward
    srvUp,      \* progress of its upstream goroutine
    upRead,     \* how many chunks that has read
    result,     \* what RecordResult was told
    cli,        \* progress of handleStream
    cliUp,      \* progress of its upstream goroutine
    downRead,   \* how many chunks handleStream has read from the service
    accept      \* progress of serveChannel's loop

serverVars == <<stServer, conn, srv, srvUp, upRead, result>>
clientVars == <<stClient, cli, cliUp, downRead, accept>>
peerVars   == <<user, service>>
vars == <<channel, up, down, serverVars, clientVars, peerVars>>

\* A peer: chunks sent, how it ended its sending, pieces it got, FIN it saw.
NewPeer == [sent |-> 0, fin |-> "no", got |-> <<>>, eof |-> FALSE]

Header == <<"header", 0>>
EndOfData == <<"frameEOF", 0>>
Ack(status) == <<"ack", status>>
Frame(k) == << <<"head", k>>, <<"tail", k>> >>
Pieces == {"head", "tail"}

\* Everything a peer that sent n chunks has sent.
Sent(n) == [i \in 1..(2 * n) |-> Frame((i + 1) \div 2)[IF i % 2 = 1 THEN 1 ELSE 2]]

\* Writing to the stream: fails once the channel died or the writer closed its
\* end; what is written behind the reader's Close is dropped (smux, external).
CanWrite(end) == channel = "up" /\ end = "open"
Sending(q, items, reader) == IF reader = "open" THEN q \o items ELSE q

\* Reading from the stream ends, without an error anybody looks at, when
\* nothing is left and the other end closed or the channel died.
Ended(q, writer) == q = <<>> /\ (channel = "dead" \/ writer = "closed")

At(q, kinds) == q # <<>> /\ Head(q)[1] \in kinds

\* Writing to a TCP peer: fails when either side closed the connection, or broke
\* it (a reset, or the kernel gave it up).
Deaf(peer) == peer.fin \in {"closed", "broken"}
Delivered(peer, piece) == [peer EXCEPT !.got = Append(@, piece)]

ConnGone == conn \in {"cut", "closed"}

-----------------------------------------------------------------------------
\* forward.  OpenStream has succeeded when the behaviour starts.

\* The header, in one write; then the upstream goroutine starts: the ack is
\* not waited for.
WriteHeader ==
    /\ srv = "opened"
    /\ IF CanWrite(stServer)
       THEN /\ up' = Sending(up, <<Header>>, stClient)
            /\ srv' = "awaitAck"
            /\ srvUp' = "copying"
            /\ UNCHANGED result
       ELSE /\ result' = "rejected"
            /\ srv' = "closing"
            /\ UNCHANGED <<up, srvUp>>
    /\ UNCHANGED <<channel, down, stServer, conn, upRead, clientVars, peerVars>>

\* Mutant of UpCopies: off by one.
UpCopiesOnceMore ==
    /\ srvUp = "copying"
    /\ ~ConnGone
    /\ upRead <= user.sent
    /\ CanWrite(stServer)
    /\ up' = Sending(up, Frame(upRead + 1), stClient)
    /\ upRead' = upRead + 1
    /\ UNCHANGED <<channel, down, stServer, conn, srv, srvUp, result, clientVars, peerVars>>

\* io.Copy(fw, conn): one chunk, framed.
UpCopies ==
    /\ srvUp = "copying"
    /\ ~ConnGone
    /\ upRead < user.sent
    /\ CanWrite(stServer)
    /\ up' = Sending(up, Frame(upRead + 1), stClient)
    /\ upRead' = upRead + 1
    /\ UNCHANGED <<channel, down, stServer, conn, srv, srvUp, result, clientVars, peerVars>>

\* The copy ends: the peer's FIN, a read that failed, a connection closed under it
\* or a write that failed, all alike; fw.CloseWrite follows.
UpEnds ==
    /\ srvUp = "copying"
    /\ \/ ConnGone \/ user.fin = "broken"
       \/ upRead = user.sent /\ user.fin # "no"
       \/ upRead < user.sent /\ ~CanWrite(stServer)
    /\ up' = IF CanWrite(stServer) THEN Sending(up, <<EndOfData>>, stClient) ELSE up
    /\ srvUp' = "done"
    /\ UNCHANGED <<channel, down, stServer, conn, srv, upRead, result, clientVars, peerVars>>

\* ReadAck fails: the dial timeout passed, or the stream ended.
AckFails ==
    /\ srv = "awaitAck"
    /\ result' = "timeout"
    /\ srv' = "closing"
    /\ UNCHANGED <<channel, up, down, stServer, conn, srvUp, upRead, clientVars, peerVars>>

\* The ack arrived.
ReadAck ==
    /\ srv = "awaitAck"
    /\ At(down, {"ack"})
    /\ result' = Head(down)[2]
    /\ down' = Tail(down)
    /\ srv' = IF Head(down)[2] = "ok" THEN "copying" ELSE "closing"
    /\ UNCHANGED <<channel, up, stServer, conn, srvUp, upRead, clientVars, peerVars>>

\* io.Copy(conn, FrameReader): one piece.
DownCopies ==
    /\ srv = "copying"
    /\ At(down, Pieces)
    /\ ~ConnGone
    /\ ~Deaf(user)
    /\ user' = Delivered(user, Head(down))
    /\ down' = Tail(down)
    /\ UNCHANGED <<channel, up, serverVars, clientVars, service>>

\* Mutant of DownEnds: no FIN for the external peer.
DownEndsSilently ==
    /\ srv = "copying"
    /\ \/ At(down, {"frameEOF"}) \/ Ended(down, stClient)
       \/ At(down, Pieces) /\ (ConnGone \/ Deaf(user))
    /\ srv' = "awaitUp"
    /\ UNCHANGED <<channel, up, down, stServer, conn, srvUp, upRead, result, clientVars,
                   peerVars>>

\* The copy ends, cleanly or not, and the FIN is relayed.
DownEnds ==
    /\ srv = "copying"
    /\ \/ At(down, {"frameEOF"}) \/ Ended(down, stClient)
       \/ At(down, Pieces) /\ (ConnGone \/ Deaf(user))
    /\ user' = [user EXCEPT !.eof = @ \/ ~(ConnGone \/ Deaf(user))]
    /\ srv' = "awaitUp"
    /\ UNCHANGED <<channel, up, down, stServer, conn, srvUp, upRead, result, clientVars,
                   service>>

CloseConn == conn' = IF conn = "cut" THEN conn ELSE "closed"

\* Mutant of AwaitUp: it does not wait.
AwaitNothing ==
    /\ srv = "awaitUp"
    /\ CloseConn
    /\ srv' = "closing"
    /\ UNCHANGED <<channel, up, down, stServer, srvUp, upRead, result, clientVars, peerVars>>

\* <-upDone, conn.Close().
AwaitUp ==
    /\ srv = "awaitUp"
    /\ srvUp = "done"
    /\ CloseConn
    /\ srv' = "closing"
    /\ UNCHANGED <<channel, up, down, stServer, srvUp, upRead, result, clientVars, peerVars>>

\* The deferred CloseStream ...
CloseStream ==
    /\ srv = "closing"
    /\ stServer' = "closed"
    /\ srv' = "returned"
    /\ UNCHANGED <<channel, up, down, conn, srvUp, upRead, result, clientVars, peerVars>>

\* ... and accept's deferred untrack.
Untrack ==
    /\ srv = "returned"
    /\ CloseConn
    /\ srv' = "gone"
    /\ UNCHANGED <<channel, up, down, stServer, srvUp, upRead, result, clientVars, peerVars>>

\* A non-graceful portListener.stop closes the tracked connection.
StopCuts ==
    /\ conn = "open"
    /\ conn' = "cut"
    /\ UNCHANGED <<channel, up, down, stServer, srv, srvUp, upRead, result, clientVars,
                   peerVars>>

-----------------------------------------------------------------------------
\* serveChannel's loop and handleStream.

AcceptStream ==
    /\ accept = "accepting"
    /\ cli = "none"
    /\ cli' = "reading"
    /\ UNCHANGED <<channel, up, down, serverVars, stClient, cliUp, downRead, accept, peerVars>>

\* AcceptStream fails; the deferred wg.Wait comes first.
AcceptFails ==
    /\ accept = "accepting"
    /\ channel = "dead"
    /\ accept' = "waiting"
    /\ UNCHANGED <<channel, up, down, serverVars, stClient, cli, cliUp, downRead, peerVars>>

\* serveChannel returns, and runChannel may dial the channel anew.
ServeChannelReturns ==
    /\ accept = "waiting"
    /\ cli \in {"none", "gone"}
    /\ accept' = "returned"
    /\ UNCHANGED <<channel, up, down, serverVars, stClient, cli, cliUp, downRead, peerVars>>

WriteAck(status) ==
    down' = IF CanWrite(stClient) THEN Sending(down, <<Ack(status)>>, stServer) ELSE down

\* The header is read; a draining client refuses, and so does one whose
\* allow-list does not name the port.
ReadHeader ==
    /\ cli = "reading"
    /\ up # <<>>
    /\ up' = Tail(up)
    /\ \/ /\ cli' = "dialing"
          /\ Head(up) = Header
          /\ UNCHANGED down
       \/ /\ cli' = "closing"
          /\ \E status \in {"rejected", "not_allowed"} : WriteAck(status)
    /\ UNCHANGED <<channel, serverVars, stClient, cliUp, downRead, accept, peerVars>>

\* The stream ended before the header came.
NoHeader ==
    /\ cli = "reading"
    /\ Ended(up, stServer)
    /\ cli' = "closing"
    /\ UNCHANGED <<channel, up, down, serverVars, stClient, cliUp, downRead, accept, peerVars>>

\* Mutant of DialFails: the upstream copy starts all the same.
DialFailsThenCopies ==
    /\ cli = "dialing"
    /\ cli' = "closing"
    /\ cliUp' = "copying"
    /\ WriteAck("dial_failed")
    /\ UNCHANGED <<channel, up, serverVars, stClient, downRead, accept, peerVars>>

DialFails ==
    /\ cli = "dialing"
    /\ cli' = "closing"
    /\ WriteAck("dial_failed")
    /\ UNCHANGED <<channel, up, serverVars, stClient, cliUp, downRead, accept, peerVars>>

\* The service was reached: ack, then both copies; no ack, no copies.
DialSucceeds ==
    /\ cli = "dialing"
    /\ WriteAck("ok")
    /\ IF CanWrite(stClient)
       THEN cli' = "copying" /\ cliUp' = "copying"
       ELSE cli' = "closing" /\ UNCHANGED cliUp
    /\ UNCHANGED <<channel, up, serverVars, stClient, downRead, accept, peerVars>>

\* io.Copy(local, FrameReader): one piece.
CliUpCopies ==
    /\ cliUp = "copying"
    /\ At(up, Pieces)
    /\ ~Deaf(service)
    /\ service' = Delivered(service, Head(up))
    /\ up' = Tail(up)
    /\ UNCHANGED <<channel, down, serverVars, clientVars, user>>

\* The copy ends, cleanly or not, and the FIN is relayed.
CliUpEnds ==
    /\ cliUp = "copying"
    /\ \/ At(up, {"frameEOF"}) \/ Ended(up, stServer)
       \/ At(up, Pieces) /\ Deaf(service)
    /\ service' = [service EXCEPT !.eof = @ \/ ~Deaf(service)]
    /\ cliUp' = "done"
    /\ UNCHANGED <<channel, up, down, serverVars, stClient, cli, downRead, accept, user>>

\* io.Copy(fw, local): one chunk, framed.
CliDownCopies ==
    /\ cli = "copying"
    /\ downRead < service.sent
    /\ CanWrite(stClient)
    /\ down' = Sending(down, Frame(downRead + 1), stServer)
    /\ downRead' = downRead + 1
    /\ UNCHANGED <<channel, up, serverVars, stClient, cli, cliUp, accept, peerVars>>

\* Mutant of CliDownEnds: the stream is closed to relay the FIN.
CliDownEndsByClosing ==
    /\ cli = "copying"
    /\ \/ service.fin = "broken"
       \/ downRead = service.sent /\ service.fin # "no"
       \/ downRead < service.sent /\ ~CanWrite(stClient)
    /\ stClient' = "closed"
    /\ cli' = "awaitUp"
    /\ UNCHANGED <<channel, up, down, serverVars, cliUp, downRead, accept, peerVars>>

\* The service's FIN, a failed read or a failed write; fw.CloseWrite follows.
CliDownEnds ==
    /\ cli = "copying"
    /\ \/ service.fin = "broken"
       \/ downRead = service.sent /\ service.fin # "no"
       \/ downRead < service.sent /\ ~CanWrite(stClient)
    /\ down' = IF CanWrite(stClient) THEN Sending(down, <<EndOfData>>, stServer) ELSE down
    /\ cli' = "awaitUp"
    /\ UNCHANGED <<channel, up, serverVars, stClient, cliUp, downRead, accept, peerVars>>

\* wg.Wait().
CliAwaitUp ==
    /\ cli = "awaitUp"
    /\ cliUp = "done"
    /\ cli' = "closing"
    /\ UNCHANGED <<channel, up, down, serverVars, stClient, cliUp, downRead, accept, peerVars>>

\* The deferred closes of the local connection and of the stream.
CliCloses ==
    /\ cli = "closing"
    /\ stClient' = "closed"
    /\ cli' = "gone"
    /\ UNCHANGED <<channel, up, down, serverVars, cliUp, downRead, accept, peerVars>>

-----------------------------------------------------------------------------
\* The environment.

\* The channel dies: each reader keeps a prefix of what was on its way.
ChannelDies ==
    /\ channel = "up"
    /\ channel' = "dead"
    /\ \E i \in 0..Len(up) : up' = SubSeq(up, 1, i)
    /\ \E i \in 0..Len(down) : down' = SubSeq(down, 1, i)
    /\ UNCHANGED <<serverVars, clientVars, peerVars>>

Sends(peer) ==
    /\ peer.fin = "no"
    /\ peer.sent < MaxChunks
    /\ peer' = [peer EXCEPT !.sent = @ + 1]

\* It ends its sending and keeps reading, closes altogether, or breaks the
\* connection, with which data that was not read yet may be lost.
Stops(peer) ==
    \E how \in {"half", "closed", "broken"} :
        /\ peer.fin \in {"no", "half"} \ {how}
        /\ peer' = [peer EXCEPT !.fin = how]

UserStep ==
    /\ ~ConnGone
    /\ Sends(user) \/ Stops(user)
    /\ UNCHANGED <<channel, up, down, serverVars, clientVars, service>>

ServiceStep ==
    /\ cli \in {"copying", "awaitUp"}
    /\ Sends(service) \/ Stops(service)
    /\ UNCHANGED <<channel, up, down, serverVars, clientVars, user>>

-----------------------------------------------------------------------------
Init ==
    /\ channel = "up"
    /\ up = <<>> /\ down = <<>>
    /\ stServer = "open" /\ stClient = "open"
    /\ user = NewPeer /\ service = NewPeer
    /\ conn = "open"
    /\ srv = "opened" /\ srvUp = "none" /\ upRead = 0 /\ result = "none"
    /\ cli = "none" /\ cliUp = "none" /\ downRead = 0
    /\ accept = "accepting"

ForwardStep ==
    \/ WriteHeader \/ AckFails \/ ReadAck \/ DownCopies \/ DownEnds \/ AwaitUp
    \/ CloseStream \/ Untrack
UpStep == UpCopies \/ UpEnds
HandlerStep ==
    \/ ReadHeader \/ NoHeader \/ DialFails \/ DialSucceeds
    \/ CliDownCopies \/ CliDownEnds \/ CliAwaitUp \/ CliCloses
CliUpStep == CliUpCopies \/ CliUpEnds
AcceptStep == AcceptStream \/ AcceptFails \/ ServeChannelReturns

Next ==
    \/ ForwardStep \/ UpStep \/ StopCuts
    \/ AcceptStep \/ HandlerStep \/ CliUpStep
    \/ ChannelDies \/ UserStep \/ ServiceStep

Spec == Init /\ [][Next]_vars

\* Fairness: every goroutine takes the step it can take, the ack deadline
\* passes, a dial ends.  Peers need neither send nor stop, the channel need not
\* die.
Fairness ==
    /\ WF_vars(ForwardStep) /\ WF_vars(UpStep)
    /\ WF_vars(AcceptStep) /\ WF_vars(HandlerStep) /\ WF_vars(CliUpStep)

FairSpec == Spec /\ Fairness

-----------------------------------------------------------------------------
\* Properties.

Results == {"ok", "not_allowed", "dial_failed", "rejected", "timeout"}
Peers(P) ==
    /\ P.sent \in 0..MaxChunks
    /\ P.fin \in {"no", "half", "closed", "broken"}
    /\ P.got \in Seq(Pieces \X (1..MaxChunks))
    /\ P.eof \in BOOLEAN

TypeOK ==
    /\ channel \in {"up", "dead"}
    /\ {stServer, stClient} \subseteq {"open", "closed"}
    /\ Peers(user) /\ Peers(service)
    /\ conn \in {"open", "cut", "closed"}
    /\ srv \in {"opened", "awaitAck", "copying", "awaitUp", "closing", "returned", "gone"}
    /\ {srvUp, cliUp} \subseteq {"none", "copying", "done"}
    /\ result \in Results \cup {"none"}
    /\ cli \in {"none", "reading", "dialing", "copying", "awaitUp", "closing", "gone"}
    /\ {upRead, downRead} \subseteq 0..MaxChunks
    /\ accept \in {"accepting", "waiting", "returned"}

\* Header, ack and end markers never reach a peer, and what does is a prefix of
\* what the other one sent, although the payload follows the header before the
\* ack is there and both share the stream with it (listener.go:328-331).
PayloadIsPrefix ==
    /\ service.got = SubSeq(Sent(user.sent), 1, Len(service.got))
    /\ user.got = SubSeq(Sent(service.sent), 1, Len(user.got))

\* Nothing happened to the connection that may cost data.
Undisturbed ==
    /\ channel = "up" /\ conn # "cut" /\ result # "timeout"
    /\ user.fin # "broken" /\ service.fin # "broken"

\* While the channel and both TCP connections live and the ack was in time, a FIN
\* reaches a peer only behind all the data of the other one and not
\* before that one stopped sending ("a real FIN", listener.go:366).
FinComesLast ==
    Undisturbed =>
        /\ service.eof => user.fin # "no" /\ service.got = Sent(user.sent)
        /\ user.eof => service.fin # "no" /\ user.got = Sent(service.sent)

\* The whole connection, with its framing, its goroutines and its two closes,
\* looks to the peers like a pair of byte streams that may break: no piece is
\* lost, repeated or delivered behind the end, and no end comes early.
T == INSTANCE Tunnel WITH intact <- Undisturbed
TunnelSpec == T!Spec

\* A stream the client refused has not touched a service: not a byte of the
\* payload that was pipelined behind the header gets out.
RefusedIsUntouched ==
    result \in {"not_allowed", "dial_failed", "rejected"} => service.got = <<>> /\ ~service.eof

\* A peer that half-closed still gets the whole answer, and everything it sent
\* still arrives ("Closing the stream here would also kill our read side",
\* listener.go:337-338).  Peers are taken to go on reading: what is written to
\* an open connection is delivered.
HalfCloseLosesNothing ==
    /\ [](srv = "copying" /\ service.fin # "no" =>
            <>(user.got = Sent(service.sent) \/ Deaf(user) \/ ~Undisturbed))
    /\ [](cliUp = "copying" /\ user.fin # "no" =>
            <>(service.got = Sent(user.sent) \/ Deaf(service) \/ ~Undisturbed))

\* The goroutines and the stream's end on each side are gone ...
ServerIsDone == srv = "gone" /\ srvUp # "copying" /\ stServer = "closed"
ClientIsDone == cli \in {"none", "gone"} /\ cliUp # "copying"

\* ... or wait for a peer that was told the end and neither ends nor sends.
WaitsForUser == srv = "awaitUp" /\ conn = "open" /\ user.eof /\ user.fin = "no"
WaitsForService == cli = "copying" /\ cliUp = "done" /\ service.eof /\ service.fin = "no"

\* Once its channel died or its server end was closed, nothing holds a connection
\* but a peer that has been told and keeps silent: whoever ends, breaks off or
\* sends leaves no goroutine and no open stream behind, on either side and
\* whatever was under way (listener.go:333-375, client.go:510-547).
OnlySilentPeersHoldIt ==
    [](channel = "dead" \/ stServer = "closed" =>
        <>[]((ServerIsDone \/ WaitsForUser) /\ (ClientIsDone \/ WaitsForService)))

\* What the design document promises of a dead data channel (line 314): the
\* external connections of its streams are closed.  False, and so in no run: forward
\* relays a FIN and waits at <-upDone, where a silent peer keeps it for ever.
DeadChannelClosesConnection == channel = "dead" ~> ConnGone

\* "do not present a truncated frame as a clean end of data" (frame.go:130-131):
\* a peer that sees a FIN has not got half a frame.
TruncationIsNoCleanEnd ==
    \A peer \in {user, service} :
        peer.eof /\ peer.got # <<>> => peer.got[Len(peer.got)][1] = "tail"
=============================================================================
