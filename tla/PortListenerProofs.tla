--------------------------- MODULE PortListenerProofs ---------------------------
(***************************************************************************)
(* Theorems about the listeners of a reverse port, for any number of them  *)
(* and of connections.                                                     *)
(***************************************************************************)
EXTENDS PortListener, TLAPS

\* Who is stopped was started, and the listener in m.items is not stopped.
ItemIsWanted ==
    /\ item # NoListener => run[item] # "none" /\ stop[item] = "no"
    /\ \A pl \in Listeners : stop[pl] # "no" => run[pl] # "none"

\* Where the goroutine is tells what its socket may be: it is open behind a bind
\* unless stop has closed it, and not before.
SocketFollowsRun ==
    \A pl \in Listeners :
        /\ sock[pl] = "open" => run[pl] \in {"bound", "accepting", "tracking"}
        /\ run[pl] \in {"bound", "accepting", "tracking"} /\ stop[pl] # "done" =>
               sock[pl] = "open"
        /\ run[pl] = "bound" => ~sawSock[pl] /\ ~published[pl]
        /\ listening[pl] => run[pl] \in {"accepting", "tracking", "ended"}

\* stop cancels before it does anything else.
CancelledFirst ==
    \A pl \in Listeners : stop[pl] \in {"cancelled", "read", "done"} => cancelled[pl]

PInv == TypeOK /\ ItemIsWanted /\ SocketFollowsRun /\ CancelledFirst

\* What a stop that has read the open socket has reached for good.
Released(pl) ==
    /\ cancelled[pl] /\ sawSock[pl]
    /\ stop[pl] \in {"read", "done"}
    /\ run[pl] \in {"accepting", "tracking", "ended", "exited"}
    /\ stop[pl] = "done" => sock[pl] = "closed"

-----------------------------------------------------------------------------
\* The initial state.
LEMMA InitInv == Init => PInv
<1> SUFFICES ASSUME Init PROVE PInv
  OBVIOUS
<1>1. TypeOK
  BY DEF Init, TypeOK, Tracked
<1>2. ItemIsWanted
  BY DEF Init, ItemIsWanted
<1>3. SocketFollowsRun
  BY DEF Init, SocketFollowsRun
<1>4. CancelledFirst
  BY DEF Init, CancelledFirst
<1> QED
  BY <1>1, <1>2, <1>3, <1>4 DEF PInv

\* A listener is started.
LEMMA StartInv ==
    ASSUME PInv, StartPort, node' \in {"down", "up", "leaving"},
           UNCHANGED <<sock, published, listening, stopVars, connVars, foreign>>
    PROVE  PInv'
<1>1. PICK pl \in Listeners :
        run[pl] = "none" /\ item' = pl /\ run' = [run EXCEPT ![pl] = "top"]
  BY DEF StartPort
<1>2. TypeOK'
  BY <1>1 DEF PInv, TypeOK, stopVars, connVars
<1>3. ItemIsWanted'
  BY <1>1 DEF PInv, TypeOK, ItemIsWanted, stopVars
<1>4. SocketFollowsRun'
  BY <1>1 DEF PInv, TypeOK, SocketFollowsRun, stopVars
<1>5. CancelledFirst'
  BY <1>1 DEF PInv, CancelledFirst, stopVars
<1> QED
  BY <1>2, <1>3, <1>4, <1>5 DEF PInv

\* The listener in m.items is taken out and its stop is called.
LEMMA CallStopInv ==
    ASSUME PInv, item # NoListener, NEW g \in BOOLEAN, CallStop(g),
           node' \in {"down", "up", "leaving"},
           UNCHANGED <<runVars, cancelled, sawSock, victims, connVars, foreign>>
    PROVE  PInv'
<1>1. item \in Listeners
  BY DEF PInv, TypeOK
<1>2. TypeOK'
  BY <1>1 DEF PInv, TypeOK, CallStop, runVars, connVars
<1>3. ItemIsWanted'
  BY <1>1, ListenerAssumption DEF PInv, TypeOK, ItemIsWanted, CallStop, runVars
<1>4. SocketFollowsRun'
  BY <1>1 DEF PInv, TypeOK, ItemIsWanted, SocketFollowsRun, CallStop, runVars
<1>5. CancelledFirst'
  BY <1>1 DEF PInv, TypeOK, CancelledFirst, CallStop
<1> QED
  BY <1>2, <1>3, <1>4, <1>5 DEF PInv

\* The callers of the listener manager.
LEMMA CallerInv == PInv /\ CallerStep => PInv'
<1> SUFFICES ASSUME PInv, CallerStep PROVE PInv'
  OBVIOUS
<1>1. CASE NodeComesUp \/ PortIsAdded
  BY <1>1, StartInv DEF NodeComesUp, PortIsAdded, PInv, TypeOK
<1>2. CASE NodeLeaves
  <2>1. CASE item = NoListener
    BY <1>2, <2>1
    DEF NodeLeaves, runVars, connVars, PInv, TypeOK, ItemIsWanted, SocketFollowsRun,
        CancelledFirst
  <2>2. CASE item # NoListener
    BY <1>2, <2>2, CallStopInv DEF NodeLeaves
  <2> QED
    BY <2>1, <2>2
<1>3. CASE NodeIsGone
  <2>1. /\ node' = "down"
        /\ UNCHANGED <<item, runVars, stopVars, shut, owner, foreign>>
        /\ conn' = [c \in Conns |-> IF conn[c] = "forwarding" THEN "orphaned" ELSE conn[c]]
    BY <1>3 DEF NodeIsGone
  <2>2. /\ conn' \in [Conns -> {"new", "accepted", "gone"} \cup Tracked]
        /\ \A c \in Conns : conn'[c] # "new" => conn[c] # "new"
    BY <2>1 DEF PInv, TypeOK, Tracked
  <2> QED
    BY <2>1, <2>2
    DEF runVars, stopVars, PInv, TypeOK, ItemIsWanted, SocketFollowsRun, CancelledFirst
<1>4. CASE GracefulStop
  BY <1>4, CallStopInv, GracefulAssumption DEF GracefulStop, PInv, TypeOK
<1> QED
  BY <1>1, <1>2, <1>3, <1>4 DEF CallerStep

\* pl.stop.
LEMMA StopInv == \A pl \in Listeners : PInv /\ StopStep(pl) => PInv'
<1> SUFFICES ASSUME NEW pl \in Listeners, PInv, StopStep(pl) PROVE PInv'
  OBVIOUS
<1>1. CASE StopCancels(pl)
  <2> USE <1>1 DEF StopCancels, PInv, TypeOK
  <2>1. TypeOK'
    BY DEF runVars, connVars
  <2>2. ItemIsWanted'
    BY DEF ItemIsWanted, runVars
  <2>3. SocketFollowsRun'
    BY DEF SocketFollowsRun, runVars
  <2>4. CancelledFirst'
    BY DEF CancelledFirst
  <2> QED
    BY <2>1, <2>2, <2>3, <2>4
<1>2. CASE StopReads(pl)
  <2> USE <1>2 DEF StopReads, PInv, TypeOK
  <2>1. TypeOK'
    BY DEF connVars
  <2>2. ItemIsWanted'
    BY DEF ItemIsWanted
  <2>3. SocketFollowsRun'
    BY DEF SocketFollowsRun
  <2>4. CancelledFirst'
    BY DEF CancelledFirst
  <2> QED
    BY <2>1, <2>2, <2>3, <2>4
<1>3. CASE StopCloses(pl)
  <2> USE <1>3 DEF StopCloses, PInv, TypeOK
  <2>1. TypeOK'
    BY DEF Tracked
  <2>2. ItemIsWanted'
    BY DEF ItemIsWanted
  <2>3. SocketFollowsRun'
    BY DEF SocketFollowsRun
  <2>4. CancelledFirst'
    BY DEF CancelledFirst
  <2> QED
    BY <2>1, <2>2, <2>3, <2>4
<1> QED
  BY <1>1, <1>2, <1>3 DEF StopStep

\* pl.run and pl.accept.
LEMMA RunInv == \A pl \in Listeners : PInv /\ (RunStep(pl) \/ AcceptFails(pl)) => PInv'
<1> SUFFICES ASSUME NEW pl \in Listeners, PInv, RunStep(pl) \/ AcceptFails(pl) PROVE PInv'
  OBVIOUS
<1>1. CASE RunChecks(pl) \/ BackoffEnds(pl)
  <2> USE <1>1 DEF RunChecks, BackoffEnds, PInv, TypeOK, stopVars
  <2>1. TypeOK'
    BY DEF connVars
  <2>2. ItemIsWanted'
    BY DEF ItemIsWanted
  <2>3. SocketFollowsRun'
    BY DEF SocketFollowsRun
  <2>4. CancelledFirst'
    BY DEF CancelledFirst
  <2> QED
    BY <2>1, <2>2, <2>3, <2>4
<1>2. CASE BindSucceeds(pl)
  <2> USE <1>2 DEF BindSucceeds, PInv, TypeOK
  <2>1. TypeOK'
    BY DEF connVars
  <2>2. ItemIsWanted'
    BY DEF ItemIsWanted
  <2>3. SocketFollowsRun'
    BY DEF SocketFollowsRun
  <2>4. CancelledFirst'
    BY DEF CancelledFirst
  <2> QED
    BY <2>1, <2>2, <2>3, <2>4
<1>3. CASE RunPublishes(pl)
  <2> USE <1>3 DEF RunPublishes, PInv, TypeOK, stopVars
  <2>1. TypeOK'
    BY DEF connVars
  <2>2. ItemIsWanted'
    BY DEF ItemIsWanted
  <2>3. SocketFollowsRun'
    BY DEF SocketFollowsRun
  <2>4. CancelledFirst'
    BY DEF CancelledFirst
  <2> QED
    BY <2>1, <2>2, <2>3, <2>4
<1>4. CASE BindFails(pl) \/ RunEnds(pl)
  <2> USE <1>4 DEF BindFails, RunEnds, PInv, TypeOK, stopVars
  <2>1. TypeOK'
    BY DEF connVars
  <2>2. ItemIsWanted'
    BY DEF ItemIsWanted
  <2>3. SocketFollowsRun'
    BY DEF SocketFollowsRun
  <2>4. CancelledFirst'
    BY DEF CancelledFirst
  <2> QED
    BY <2>1, <2>2, <2>3, <2>4
<1>5. CASE AcceptFails(pl)
  <2> USE <1>5 DEF AcceptFails, PInv, TypeOK, stopVars
  <2>1. TypeOK'
    BY DEF connVars
  <2>2. ItemIsWanted'
    BY DEF ItemIsWanted
  <2>3. SocketFollowsRun'
    BY DEF SocketFollowsRun
  <2>4. CancelledFirst'
    BY DEF CancelledFirst
  <2> QED
    BY <2>1, <2>2, <2>3, <2>4
<1>6. ASSUME NEW c \in Conns, Track(pl, c) PROVE PInv'
  <2> USE <1>6 DEF Track, PInv, TypeOK, stopVars
  <2>1. TypeOK'
    BY DEF Tracked
  <2>2. ItemIsWanted'
    BY DEF ItemIsWanted
  <2>3. SocketFollowsRun'
    BY DEF SocketFollowsRun
  <2>4. CancelledFirst'
    BY DEF CancelledFirst
  <2> QED
    BY <2>1, <2>2, <2>3, <2>4
<1> QED
  BY <1>1, <1>2, <1>3, <1>4, <1>5, <1>6 DEF RunStep

\* Connections come and go.
LEMMA AcceptInv == \A pl \in Listeners, c \in Conns : PInv /\ Accept(pl, c) => PInv'
<1> SUFFICES ASSUME NEW pl \in Listeners, NEW c \in Conns, PInv, Accept(pl, c) PROVE PInv'
  OBVIOUS
<1> USE DEF Accept, PInv, TypeOK, stopVars
<1>1. TypeOK'
  BY DEF Tracked
<1>2. ItemIsWanted'
  BY DEF ItemIsWanted
<1>3. SocketFollowsRun'
  BY DEF SocketFollowsRun
<1>4. CancelledFirst'
  BY DEF CancelledFirst
<1> QED
  BY <1>1, <1>2, <1>3, <1>4

\* Nothing of the listeners changes.
LEMMA OtherInv ==
    ASSUME PInv,
           \/ \E c \in Conns : ForwardStep(c)
           \/ ForeignProcess
           \/ UNCHANGED vars
    PROVE  PInv'
<1>1. /\ UNCHANGED <<node, item, runVars, stopVars, shut, owner>>
      /\ conn' \in [Conns -> {"new", "accepted", "gone"} \cup Tracked]
      /\ \A c \in Conns : conn'[c] # "new" => conn[c] # "new"
      /\ foreign' \in BOOLEAN
  <2>1. CASE \E c \in Conns : ForwardStep(c)
    BY <2>1 DEF ForwardStep, ForwardBegins, ForwardEnds, StreamDies, ForwardCut, Tracked, PInv,
       TypeOK
  <2>2. CASE ForeignProcess \/ UNCHANGED vars
    BY <2>2 DEF ForeignProcess, vars, connVars, PInv, TypeOK
  <2> QED
    BY <2>1, <2>2
<1> QED
  BY <1>1
  DEF PInv, TypeOK, ItemIsWanted, SocketFollowsRun, CancelledFirst, runVars, stopVars

\* Every step.
LEMMA NextInv == PInv /\ [Next]_vars => PInv'
BY CallerInv, StopInv, RunInv, AcceptInv, OtherInv DEF Next

-----------------------------------------------------------------------------
\* The inductive invariant.
THEOREM Invariant == Spec => []PInv
BY InitInv, NextInv, PTL DEF Spec

\* Every variable keeps its type.
THEOREM TypeCorrect == Spec => []TypeOK
<1>1. PInv => TypeOK
  BY DEF PInv
<1> QED
  BY Invariant, <1>1, PTL

\* What /status says of a port in m.items is true, however run, stop and the
\* callers of the listener manager interleave (Snapshot, run, stop).
THEOREM ReportedStateIsTrue == Spec => []ListeningIsTrue
<1>1. PInv => ListeningIsTrue
  BY DEF PInv, TypeOK, ItemIsWanted, SocketFollowsRun, ListeningIsTrue
<1> QED
  BY Invariant, <1>1, PTL

\* Nothing leads back from Released.
LEMMA ReleasedStays ==
    \A pl \in Listeners : PInv /\ Released(pl) /\ [Next]_vars => Released(pl)'
<1> SUFFICES ASSUME NEW pl \in Listeners, PInv, Released(pl), [Next]_vars
             PROVE  Released(pl)'
  OBVIOUS
<1>1. CASE CallerStep
  BY <1>1
  DEF CallerStep, NodeComesUp, NodeLeaves, NodeIsGone, GracefulStop, PortIsAdded, StartPort,
      CallStop, Released, PInv, TypeOK, ItemIsWanted, runVars, stopVars
<1>2. ASSUME NEW q \in Listeners, StopStep(q) PROVE Released(pl)'
  BY <1>2
  DEF StopStep, StopCancels, StopReads, StopCloses, Released, PInv, TypeOK, runVars
<1>3. ASSUME NEW q \in Listeners, RunStep(q) \/ AcceptFails(q) PROVE Released(pl)'
  BY <1>3
  DEF RunStep, RunChecks, BindSucceeds, BindFails, BackoffEnds, RunPublishes, RunEnds, Track,
      AcceptFails, Released, PInv, TypeOK, stopVars
<1>4. ASSUME NEW q \in Listeners, NEW c \in Conns, Accept(q, c) PROVE Released(pl)'
  BY <1>4 DEF Accept, Released, PInv, TypeOK, stopVars
<1>5. CASE \/ \E c \in Conns : ForwardStep(c)
           \/ ForeignProcess
           \/ UNCHANGED vars
  BY <1>5
  DEF ForwardStep, ForwardBegins, ForwardEnds, StreamDies, ForwardCut, ForeignProcess, vars,
      Released, runVars, stopVars
<1> QED
  BY <1>1, <1>2, <1>3, <1>4, <1>5 DEF Next

\* A stop that has read the open socket releases the port for good.
THEOREM StopReleasesWhatItSaw == Spec => SeenSocketStaysClosed
<1> SUFFICES ASSUME NEW pl \in Listeners
             PROVE  Spec => [](stop[pl] = "read" /\ sawSock[pl] /\ sock[pl] = "open" =>
                                 [](stop[pl] = "done" => sock[pl] = "closed"))
  BY DEF SeenSocketStaysClosed
<1>1. PInv /\ stop[pl] = "read" /\ sawSock[pl] /\ sock[pl] = "open" => Released(pl)
  BY DEF PInv, TypeOK, SocketFollowsRun, CancelledFirst, Released
<1>2. PInv /\ Released(pl) /\ [Next]_vars => Released(pl)'
  BY ReleasedStays
<1>3. Released(pl) => (stop[pl] = "done" => sock[pl] = "closed")
  BY DEF Released
<1> QED
  BY Invariant, <1>1, <1>2, <1>3, PTL DEF Spec

-----------------------------------------------------------------------------
\* What a stop that is not graceful does to the connections.

\* A stop has connections to close only once it has read pl.conns; each is one the
\* listener accepted and tracked, and when stop has returned it is closed.  No
\* stream of a node outlives its session.
VictimsAreCut ==
    /\ \A pl \in Listeners :
        /\ stop[pl] \in {"no", "called", "cancelled"} => victims[pl] = {}
        /\ \A c \in victims[pl] :
             /\ owner[c] = pl
             /\ conn[c] \in Tracked \cup {"gone"}
             /\ stop[pl] = "done" => c \in shut
    /\ node = "down" => \A c \in Conns : conn[c] # "forwarding"

\* A connection that stop is to close, or has closed, is not tracked or accepted
\* again.
LEMMA VictimsStay == PInv /\ VictimsAreCut /\ [Next]_vars => VictimsAreCut'
<1> SUFFICES ASSUME PInv, VictimsAreCut, [Next]_vars PROVE VictimsAreCut'
  OBVIOUS
<1> USE DEF VictimsAreCut
<1>1. CASE CallerStep
  <2>1. /\ UNCHANGED <<victims, shut, owner>>
        /\ \A pl \in Listeners : stop'[pl] = stop[pl]
             \/ (stop[pl] = "no" /\ stop'[pl] = "called")
    BY <1>1 DEF CallerStep, NodeComesUp, NodeLeaves, NodeIsGone, GracefulStop, PortIsAdded,
       CallStop, stopVars, connVars, PInv, TypeOK, ItemIsWanted
  <2>2. CASE NodeIsGone
    <3>1. \A c \in Conns :
            conn'[c] = IF conn[c] = "forwarding" THEN "orphaned" ELSE conn[c]
      BY <2>2 DEF NodeIsGone
    <3>2. \A pl \in Listeners : \A c \in victims[pl] : c \in Conns
      BY DEF PInv, TypeOK
    <3> QED
      BY <2>1, <3>1, <3>2 DEF Tracked
  <2>3. CASE ~NodeIsGone
    <3>1. UNCHANGED conn /\ node' # "down"
      BY <1>1, <2>3 DEF CallerStep, NodeComesUp, NodeLeaves, GracefulStop, PortIsAdded, connVars
    <3> QED
      BY <2>1, <3>1
  <2> QED
    BY <2>2, <2>3
<1>2. ASSUME NEW pl \in Listeners, StopCancels(pl) PROVE VictimsAreCut'
  BY <1>2 DEF StopCancels, connVars, PInv, TypeOK
<1>3. ASSUME NEW pl \in Listeners, StopReads(pl) PROVE VictimsAreCut'
  BY <1>3 DEF StopReads, connVars, PInv, TypeOK
<1>4. ASSUME NEW pl \in Listeners, StopCloses(pl) PROVE VictimsAreCut'
  BY <1>4 DEF StopCloses, PInv, TypeOK, Tracked
<1>5. ASSUME NEW pl \in Listeners, RunStep(pl) \/ AcceptFails(pl) PROVE VictimsAreCut'
  <2>1. CASE \E c \in Conns : Track(pl, c)
    BY <2>1 DEF Track, stopVars, PInv, TypeOK, Tracked
  <2>2. CASE ~\E c \in Conns : Track(pl, c)
    BY <1>5, <2>2 DEF RunStep, RunChecks, BindSucceeds, BindFails, BackoffEnds, RunPublishes,
       RunEnds, AcceptFails, stopVars, connVars
  <2> QED
    BY <2>1, <2>2
<1>6. ASSUME NEW pl \in Listeners, NEW c \in Conns, Accept(pl, c) PROVE VictimsAreCut'
  BY <1>6 DEF Accept, stopVars, PInv, TypeOK, Tracked
<1>7. CASE \E c \in Conns : ForwardStep(c)
  BY <1>7 DEF ForwardStep, ForwardBegins, ForwardEnds, StreamDies, ForwardCut, stopVars, PInv,
     TypeOK, Tracked
<1>8. CASE ForeignProcess \/ UNCHANGED vars
  BY <1>8 DEF ForeignProcess, vars, stopVars, connVars
<1> QED
  BY <1>1, <1>2, <1>3, <1>4, <1>5, <1>6, <1>7, <1>8 DEF Next, StopStep

\* Whatever forward, track and a listener started meanwhile do, a connection that a
\* stop read from pl.conns is closed when it returns, and without a session
\* nothing is forwarded: the two facts on which ForcedStopCutsTracked rests.
THEOREM ForcedStopLeavesNone == Spec => []VictimsAreCut
<1>1. Init => VictimsAreCut
  BY DEF Init, VictimsAreCut
<1> QED
  BY Invariant, <1>1, VictimsStay, PTL DEF Spec
=============================================================================
