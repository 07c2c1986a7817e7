---------------------------- MODULE ClientSession ----------------------------
(***************************************************************************)
(* The process of tunnel-client (src/internal/client/client.go): Run with  *)
(* its reconnects, runSession and controlLoop, the supervisor with the     *)
(* goroutines that hold the data channels, the part of the stream handlers *)
(* that Shutdown looks at, and Shutdown itself, called by main on a        *)
(* signal.                                                                 *)
(*                                                                         *)
(* External: the server (which session it holds for this node, what it     *)
(* sends), the network (a dial or a connection may fail at any time) and   *)
(* the local services.  What a handler copies is in StreamForward, how     *)
(* long a silence ends a session in ControlLink.                           *)
(***************************************************************************)
EXTENDS Integers, FiniteSets

CONSTANTS
    Streams,       \* streams the server may have open at a time
    Counts,        \* channel counts the server may push
    MaxWorkers,    \* bound: data-channel goroutines a supervisor may start
    MaxSessions    \* bound: sessions the server grants

ASSUME CountsAssumption == Counts \subseteq Int
ASSUME BoundsAssumption == {MaxWorkers, MaxSessions} \subseteq Nat
ASSUME StreamsAssumption == IsFiniteSet(Streams)

VARIABLES
    run,          \* where Run is
    granted,      \* how many sessions the server has granted: they are numbered
    registered,   \* the session the server holds for this node, 0 if none
    session,      \* c.session
    draining,     \* c.draining
    ctrl,         \* whether c.ctrl is set
    target,       \* supervisor.target
    nextID,       \* supervisor.nextID
    slots,        \* the keys of supervisor.workers
    worker,       \* what goroutine i of the supervisor does
    said,         \* the session its hello carried
    stream,       \* what the handler of a stream does
    on,           \* the data channel the stream is on
    active,       \* c.activeStreams
    leave,        \* how far Shutdown and the end of main are
    leaving       \* whether the grace ran out, and whether a new session has
                  \* reset the flag that Shutdown had set

supervisorVars == <<target, nextID, slots, worker, said>>
streamVars == <<stream, on, active>>
leaveVars == <<leave, leaving>>
serverVars == <<granted, registered>>
sessionVars == <<run, session, ctrl, serverVars>>
vars == <<sessionVars, draining, supervisorVars, streamVars, leaveVars>>

Ids == 1..MaxWorkers

\* The process context; main cancels it behind Shutdown.
Cancelled == leave = "cancelled"
\* The context of goroutine i: cancelled with its key, or with the process.
Stopped(i) == i \notin slots \/ Cancelled

Live == {i \in Ids : worker[i] \notin {"none", "gone"}}

-----------------------------------------------------------------------------
\* supervisor.SetTarget and Stop.

\* New goroutines while there are too few keys, or else any of the keys are
\* cancelled and deleted; what a cancelled goroutine still does is not waited for.
SetTarget(n, keys, last) ==
    LET want == IF n < 1 THEN 1 ELSE n
        more == want - Cardinality(keys)
    IN  /\ target' = want
        /\ IF more >= 0
           THEN /\ last + more <= MaxWorkers
                /\ slots' = keys \cup (last + 1 .. last + more)
                /\ nextID' = last + more
           ELSE /\ \E kept \in SUBSET keys : Cardinality(kept) = want /\ slots' = kept
                /\ nextID' = last

Started == [i \in Ids |-> IF i \in slots' \ slots THEN "dialing" ELSE worker[i]]

-----------------------------------------------------------------------------
\* Run and runSession.

\* The server registers a new session for the node.
Grant ==
    /\ registered = 0
    /\ granted < MaxSessions
    /\ granted' = granted + 1
    /\ registered' = granted'

\* The dial, the hello or the welcome fails, or the server refuses.
ConnectFails ==
    /\ run = "dialing"
    /\ run' = "backoff"
    /\ Grant \/ UNCHANGED serverVars
    /\ UNCHANGED <<session, ctrl, draining, supervisorVars, streamVars, leaveVars>>

\* The welcome arrives: setConfig, setSession.
Welcome ==
    /\ run = "dialing"
    /\ ~Cancelled
    /\ Grant
    /\ session' = granted'
    /\ run' = "welcomed"
    /\ UNCHANGED <<ctrl, draining, supervisorVars, streamVars, leaveVars>>

\* The flag, the control connection, a new supervisor.
Establish ==
    /\ run = "welcomed"
    /\ draining' = FALSE
    /\ leaving' = [leaving EXCEPT !.reset = @ \/ leave # "no"]
    /\ ctrl' = TRUE
    /\ \E n \in Counts : SetTarget(n, {}, 0)
    /\ worker' = Started
    /\ run' = "up"
    /\ UNCHANGED <<session, serverVars, said, streamVars, leave>>

\* reload_config.
Reload ==
    /\ run = "up"
    /\ registered = session
    /\ \E n \in Counts : SetTarget(n, slots, nextID)
    /\ worker' = Started
    /\ UNCHANGED <<sessionVars, draining, said, streamVars, leaveVars>>

\* drain.
Drain ==
    /\ run = "up"
    /\ registered = session
    /\ draining' = TRUE
    /\ UNCHANGED <<sessionVars, supervisorVars, streamVars, leaveVars>>

\* Mutant of ControlEnds: Stop waits without cancelling.
ControlEndsOnly ==
    /\ run = "up"
    /\ run' = "stopping"
    /\ UNCHANGED <<session, ctrl, serverVars, draining, supervisorVars, streamVars, leaveVars>>

\* controlLoop returns: the connection ended, was silent for too long, carried a
\* bye or a fatal error, or the process ends.  Stop cancels every goroutine.
ControlEnds ==
    /\ run = "up"
    /\ run' = "stopping"
    /\ slots' = {}
    /\ UNCHANGED <<session, ctrl, serverVars, draining, target, nextID, worker, said,
                   streamVars, leaveVars>>

\* Mutant of Stop: it does not wait for the goroutines.
StopAtOnce ==
    /\ run = "stopping"
    /\ run' = "backoff"
    /\ ctrl' = FALSE
    /\ UNCHANGED <<session, serverVars, draining, supervisorVars, streamVars, leaveVars>>

\* Stop has waited for them; setCtrl(nil), CloseNow, and the supervisor is dropped.
Stop ==
    /\ run = "stopping"
    /\ Live = {}
    /\ run' = "backoff"
    /\ ctrl' = FALSE
    /\ target' = 0 /\ nextID' = 0 /\ slots' = {}
    /\ worker' = [i \in Ids |-> "none"]
    /\ UNCHANGED <<session, serverVars, draining, said, streamVars, leaveVars>>

\* The backoff passed, or the process ends meanwhile.
Again ==
    /\ run = "backoff"
    /\ run' = IF Cancelled THEN "exited" ELSE "dialing"
    /\ UNCHANGED <<session, ctrl, serverVars, draining, supervisorVars, streamVars, leaveVars>>

\* The server gives a session up: it saw the connection end or a silence, was
\* restarted, or disconnects the node.
ServerDrops ==
    /\ registered # 0
    /\ registered' = 0
    /\ UNCHANGED <<run, session, ctrl, granted, draining, supervisorVars, streamVars,
                   leaveVars>>

-----------------------------------------------------------------------------
\* runChannel and serveChannel.

\* Goroutine i goes to `next`.
Goes(i, next) ==
    /\ worker' = [worker EXCEPT ![i] = next]
    /\ UNCHANGED <<sessionVars, draining, target, nextID, streamVars, leaveVars>>

\* Mutant of Pauses: a goroutine that has nothing to do is given up.
PausesForGood(i, next) ==
    /\ slots' = slots \ {i}
    /\ said' = [said EXCEPT ![i] = 0]
    /\ Goes(i, "gone")

\* Between two attempts the goroutine looks at its context: cancelled, it
\* deletes its key, if that is still there, and is gone.
Pauses(i, next) ==
    /\ said' = [said EXCEPT ![i] = 0]
    /\ IF Stopped(i)
       THEN slots' = slots \ {i} /\ Goes(i, "gone")
       ELSE slots' = slots /\ Goes(i, next)

\* The dialled connection's hello carries c.Session().
Greet(i) ==
    /\ worker[i] = "dialing"
    /\ ~Stopped(i)
    /\ said' = [said EXCEPT ![i] = session]
    /\ UNCHANGED slots
    /\ Goes(i, "greeting")

\* The server knows the session; the smux session is up.
Welcomed(i) ==
    /\ worker[i] = "greeting"
    /\ registered # 0 /\ said[i] = registered
    /\ UNCHANGED <<slots, said>>
    /\ Goes(i, "serving")

\* The dial or the handshake fails or is cut short, or the server refuses.
ChannelFails(i) ==
    /\ worker[i] \in {"dialing", "greeting"}
    /\ Pauses(i, "backoff")

\* AcceptStream fails: the channel died, was closed by the server, or the
\* context was cancelled.
AcceptFails(i) ==
    /\ worker[i] = "serving"
    /\ UNCHANGED <<slots, said>>
    /\ Goes(i, "leaving")

\* The deferred wait for the handlers of the channel.
ChannelReturns(i) ==
    /\ worker[i] = "leaving"
    /\ \A s \in Streams : on[s] # i
    /\ Pauses(i, "backoff")

BackoffEnds(i) ==
    /\ worker[i] = "backoff"
    /\ Pauses(i, "dialing")

-----------------------------------------------------------------------------
\* handleStream, and the accept loop that starts it.

\* A stream the server opened on channel i is accepted; its handler is counted
\* by the wait group, not yet by activeStreams.
Accept(s, i) ==
    /\ stream[s] = "none"
    /\ worker[i] = "serving"
    /\ stream' = [stream EXCEPT ![s] = "accepted"]
    /\ on' = [on EXCEPT ![s] = i]
    /\ UNCHANGED <<sessionVars, draining, supervisorVars, active, leaveVars>>

Handles(s, from, to) ==
    /\ stream[s] = from
    /\ stream' = [stream EXCEPT ![s] = to]
    /\ UNCHANGED <<sessionVars, draining, supervisorVars, on, leaveVars>>

\* activeStreams.Add(1), then the header is read.
Enter(s) ==
    /\ Handles(s, "accepted", "entered")
    /\ active' = active + 1

\* handleStream returns, for whatever reason.
Return(s) ==
    /\ stream' = [stream EXCEPT ![s] = "none"]
    /\ on' = [on EXCEPT ![s] = 0]
    /\ active' = active - 1
    /\ UNCHANGED <<sessionVars, draining, supervisorVars, leaveVars>>

\* The header was read and the client is not draining.
PassesDrain(s) ==
    /\ ~draining
    /\ Handles(s, "entered", "dialing")
    /\ UNCHANGED active

\* There is no header, which may happen at any time, or the client is draining.
Rejects(s) ==
    /\ stream[s] = "entered"
    /\ Return(s)

\* The port is not allowed, the service does not answer, the ack is not written.
DialFails(s) ==
    /\ stream[s] = "dialing"
    /\ Return(s)

DialSucceeds(s) ==
    /\ Handles(s, "dialing", "copying")
    /\ UNCHANGED active

\* Both copies have ended.  While the channel lives that takes both peers; when
\* it died, the local service still has to close or to write.
CopiesEnd(s) ==
    /\ stream[s] = "copying"
    /\ Return(s)

-----------------------------------------------------------------------------
\* Shutdown, and main behind it.

Shutdown ==
    /\ leave = "no"
    /\ leave' = "polling"
    /\ draining' = TRUE
    /\ UNCHANGED <<sessionVars, supervisorVars, streamVars, leaving>>

\* Mutant of SeesNone: it looks at the flag instead of the count.
SeesDraining ==
    /\ leave = "polling"
    /\ draining
    /\ leave' = "sayingBye"
    /\ UNCHANGED <<sessionVars, draining, supervisorVars, streamVars, leaving>>

\* A look at activeStreams finds none.
SeesNone ==
    /\ leave = "polling"
    /\ active = 0
    /\ leave' = "sayingBye"
    /\ UNCHANGED <<sessionVars, draining, supervisorVars, streamVars, leaving>>

\* Mutant of GraceEnds: the deadline is looked at when there is nothing to wait for.
GraceEndsIdle ==
    /\ leave = "polling"
    /\ active = 0
    /\ leave' = "sayingBye"
    /\ leaving' = [leaving EXCEPT !.late = TRUE]
    /\ UNCHANGED <<sessionVars, draining, supervisorVars, streamVars>>

\* ShutdownGrace is over.
GraceEnds ==
    /\ leave = "polling"
    /\ leave' = "sayingBye"
    /\ leaving' = [leaving EXCEPT !.late = TRUE]
    /\ UNCHANGED <<sessionVars, draining, supervisorVars, streamVars>>

\* bye, if there is a control connection and it is not lost; the server ends
\* the session with it.
SayBye ==
    /\ leave = "sayingBye"
    /\ leave' = "bye"
    /\ \/ ctrl /\ registered = session /\ registered' = 0
       \/ registered' = registered
    /\ UNCHANGED <<run, session, ctrl, granted, draining, supervisorVars, streamVars,
                   leaving>>

\* main's cancel.
Cancel ==
    /\ leave = "bye"
    /\ leave' = "cancelled"
    /\ UNCHANGED <<sessionVars, draining, supervisorVars, streamVars, leaving>>

-----------------------------------------------------------------------------
Init ==
    /\ run = "dialing" /\ session = 0 /\ ctrl = FALSE
    /\ granted = 0 /\ registered = 0
    /\ draining = FALSE
    /\ target = 0 /\ nextID = 0 /\ slots = {}
    /\ worker = [i \in Ids |-> "none"]
    /\ said = [i \in Ids |-> 0]
    /\ stream = [s \in Streams |-> "none"]
    /\ on = [s \in Streams |-> 0]
    /\ active = 0
    /\ leave = "no"
    /\ leaving = [late |-> FALSE, reset |-> FALSE]

RunStep == ConnectFails \/ Welcome \/ Establish \/ Stop \/ Again
WorkerStep(i) ==
    Greet(i) \/ Welcomed(i) \/ ChannelFails(i) \/ AcceptFails(i) \/ ChannelReturns(i)
    \/ BackoffEnds(i)
HandlerStep(s) ==
    Enter(s) \/ PassesDrain(s) \/ Rejects(s) \/ DialFails(s) \/ DialSucceeds(s)
    \/ CopiesEnd(s)
ShutdownStep == SeesNone \/ GraceEnds \/ SayBye \/ Cancel

Next ==
    \/ RunStep \/ Reload \/ Drain \/ ControlEnds \/ ServerDrops
    \/ \E i \in Ids : WorkerStep(i)
    \/ \E s \in Streams : HandlerStep(s) \/ \E i \in Ids : Accept(s, i)
    \/ Shutdown \/ ShutdownStep

Spec == Init /\ [][Next]_vars

\* Fairness: goroutines take the steps they can take, dials, handshakes and the
\* grace period are timed, a connection the server has given up and a context
\* that was cancelled are noticed.  That the client ever gets through, that a
\* session ends or that streams do is not assumed.
Fairness ==
    /\ WF_vars(RunStep)
    /\ WF_vars(ControlEnds /\ (registered # session \/ Cancelled))
    /\ WF_vars(ShutdownStep)
    /\ \A i \in Ids :
        /\ WF_vars(Greet(i) \/ Welcomed(i) \/ ChannelFails(i) \/ BackoffEnds(i))
        /\ WF_vars(AcceptFails(i) /\ (Stopped(i) \/ registered # said[i]))
        /\ WF_vars(ChannelReturns(i))
    /\ \A s \in Streams :
        WF_vars(Enter(s) \/ PassesDrain(s) \/ Rejects(s) \/ DialFails(s) \/ DialSucceeds(s))

FairSpec == Spec /\ Fairness

\* What the environment may add to it: a service whose channel died gives up.
ServicesAnswer ==
    \A s \in Streams :
        WF_vars(on[s] # 0 /\ worker[on[s]] = "leaving" /\ CopiesEnd(s))

-----------------------------------------------------------------------------
\* Properties.

TypeOK ==
    /\ run \in {"dialing", "welcomed", "up", "stopping", "backoff", "exited"}
    /\ {granted, registered, session} \subseteq 0..MaxSessions
    /\ {draining, ctrl} \subseteq BOOLEAN
    /\ target \in Int
    /\ nextID \in 0..MaxWorkers
    /\ slots \subseteq Ids
    /\ worker \in [Ids -> {"none", "dialing", "greeting", "serving", "leaving",
                           "backoff", "gone"}]
    /\ said \in [Ids -> 0..MaxSessions]
    /\ stream \in [Streams -> {"none", "accepted", "entered", "dialing", "copying"}]
    /\ on \in [Streams -> 0..MaxWorkers]
    /\ active \in Nat
    /\ leave \in {"no", "polling", "sayingBye", "bye", "cancelled"}
    /\ leaving \in [late : BOOLEAN, reset : BOOLEAN]

\* "supervisor keeps exactly `channels` data channels up, rebuilding any that
\* drop" (client.go:313): while the session lasts, the keys are as many as the
\* last count pushed, at least one, and each has a goroutine that is at work,
\* however many cancelled ones are still on their way out.
ExactlyTarget ==
    run = "up" /\ ~Cancelled => Cardinality(slots) = target /\ target >= 1 /\ slots \subseteq Live

\* "all data channels rebuilt, nothing carried over" (client.go:64): between two
\* sessions no goroutine and no stream handler is left, and a data channel never
\* presents another session than the one it was started in.
NothingCarriedOver ==
    /\ run \notin {"up", "stopping"} =>
           Live = {} /\ active = 0 /\ \A s \in Streams : stream[s] = "none"
    /\ \A i \in Live : worker[i] \in {"greeting", "serving"} => said[i] = session

\* When Shutdown says bye before its grace is over, no stream that was let in is
\* still at work, unless a new session has reset the flag meanwhile
\* (client.go:238-245): a handler counts itself before it looks at the flag.
ByeAfterStreams ==
    leave \in {"sayingBye", "bye"} /\ ~leaving.late /\ ~leaving.reset =>
        \A s \in Streams : stream[s] \notin {"dialing", "copying"}

\* A session that ended is followed by the next attempt (client.go:62), provided
\* that the local services give up when their channel has died.
TeardownEnds ==
    ServicesAnswer => (run = "stopping" ~> run \in {"dialing", "exited"})

\* Under the same proviso a client that was told to leave leaves (client.go:236).
LeavingEnds ==
    ServicesAnswer => (leave # "no" ~> run = "exited")

\* "stop taking new streams" (client.go:236): once Shutdown has begun, no stream
\* gets past the look at the flag that comes after it.
LeavingTakesNoStreams ==
    [][\A s \in Streams :
           leave # "no" /\ stream[s] = "entered" => stream'[s] # "dialing"]_vars
=============================================================================
