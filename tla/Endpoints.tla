------------------------------- MODULE Endpoints -------------------------------
(***************************************************************************)
(* The two HTTP endpoints of tunnel-server (src/internal/server/server.go): *)
(* Run starts them, watchConfig notices edits of config.yaml and reloads,  *)
(* a reload moves an endpoint to another address (rebindEndpoints,         *)
(* retireServer), shutdown stops what is there and waits for every         *)
(* goroutine of the process.                                               *)
(*                                                                         *)
(* External: who edits the file (every edit is reported by fsnotify), which *)
(* addresses other processes hold, whether Accept fails.  What a reload    *)
(* and a shutdown do to nodes, ports and streams is in NodeLifecycle and   *)
(* NodePool.                                                               *)
(***************************************************************************)
EXTENDS Integers, FiniteSets

CONSTANTS
    Addrs,         \* addresses an endpoint may be configured with
    Off,           \* the empty status_listen
    Broken,        \* a file that config.Load refuses
    Configs,       \* what the file may say of the two endpoints
    MaxWrites,     \* bound: edits of the file
    MaxFailures    \* bound: listeners that fail

ASSUME ConfigsAssumption == Configs \subseteq [ws : Addrs, status : Addrs \cup {Off}]
ASSUME ValuesAssumption == Off \notin Addrs /\ Broken \notin Configs
ASSUME BoundsAssumption == {MaxWrites, MaxFailures} \subseteq Nat

\* Two at the start and two for each file that is published.
MaxServers == 2 + 2 * MaxWrites
Servers == 1..MaxServers
Endpoint == {"ws", "status"}

VARIABLES
    file,      \* what config.yaml says of the endpoints
    writes,    \* how often it was edited
    notice,    \* an event or SIGHUP that watchConfig has not taken
    armed,     \* the debounce timer is set or has fired
    reload,    \* where watchConfig is
    cfg,       \* s.cfg
    old, new,  \* the snapshot the reload replaces and the one it applies
    next,      \* a server that serves and is not published yet, 0 if none
    current,   \* s.wsSrv and s.statusSrv, 0 for nil
    made,      \* http.Server objects made so far
    addr,      \* the address server i was made for
    life,      \* its listener, which its Serve goroutine serves
    retire,    \* its retireServer goroutine
    fatal,     \* errors in errCh
    stop,      \* where Run is, from the select on
    seen,      \* the pair of servers shutdown stops
    kept       \* endpoints that stayed where they were when they last should move

fileVars == <<file, writes, notice, armed>>
reloadVars == <<reload, cfg, old, new, next>>
serverVars == <<current, made, addr, life, retire>>
stopVars == <<fatal, stop, seen>>
vars == <<fileVars, reloadVars, serverVars, stopVars, kept>>

Bound(i) == life[i] = "bound"
Failed == Cardinality({i \in Servers : life[i] = "failed"})
\* The addresses this process holds.
Held == {addr[i] : i \in {j \in Servers : Bound(j)}}

-----------------------------------------------------------------------------
\* serve and retireServer.

\* serve binds the address and starts a server on it.
Serve(a) ==
    /\ a \notin Held
    /\ made < MaxServers
    /\ made' = made + 1
    /\ addr' = [addr EXCEPT ![made'] = a]
    /\ life' = [life EXCEPT ![made'] = "bound"]

\* Accept fails for good; errCh takes two errors and drops the others.
ServeFails(i) ==
    /\ Bound(i)
    /\ Failed < MaxFailures
    /\ life' = [life EXCEPT ![i] = "failed"]
    /\ fatal' = IF fatal < 2 THEN fatal + 1 ELSE fatal
    /\ UNCHANGED <<fileVars, reloadVars, current, made, addr, retire, stop, seen,
                   kept>>

\* Server.Shutdown closes the listener first.
Close(i) == life' = [life EXCEPT ![i] = IF @ = "bound" THEN "shut" ELSE @]

Release(i) ==
    /\ retire[i] = "due"
    /\ Close(i)
    /\ retire' = [retire EXCEPT ![i] = "draining"]
    /\ UNCHANGED <<fileVars, reloadVars, current, made, addr, stopVars, kept>>

\* The requests in flight have finished, or 30 s have passed and they are cut.
Retired(i) ==
    /\ retire[i] = "draining"
    /\ retire' = [retire EXCEPT ![i] = "done"]
    /\ UNCHANGED <<fileVars, reloadVars, current, made, addr, life, stopVars, kept>>

-----------------------------------------------------------------------------
\* watchConfig.

\* Someone edits the file.
Write ==
    /\ writes < MaxWrites
    /\ stop # "exited"
    /\ writes' = writes + 1
    /\ file' \in (Configs \cup {Broken}) \ {file}
    /\ notice' = TRUE
    /\ UNCHANGED <<armed, reloadVars, serverVars, stopVars, kept>>

\* A SIGHUP.
Hangup ==
    /\ ~notice
    /\ stop # "exited"
    /\ notice' = TRUE
    /\ UNCHANGED <<file, writes, armed, reloadVars, serverVars, stopVars,
                   kept>>

\* Every event sets the timer anew.
Debounce ==
    /\ reload = "idle"
    /\ notice
    /\ notice' = FALSE
    /\ armed' = TRUE
    /\ UNCHANGED <<file, writes, reloadVars, serverVars, stopVars, kept>>

\* The timer fires: the file is loaded, and refused or applied.
Load ==
    /\ reload = "idle"
    /\ armed
    /\ armed' = FALSE
    /\ IF file = Broken THEN UNCHANGED <<reload, old, new>>
       ELSE reload' = "loaded" /\ old' = cfg /\ new' = file
    /\ UNCHANGED <<file, writes, notice, cfg, next, serverVars, stopVars,
                   kept>>

\* Mutant of Publish: what happened while the file was applied is dropped.
PublishAndForget ==
    /\ reload = "loaded"
    /\ cfg' = new
    /\ notice' = FALSE
    /\ reload' = IF new = old THEN "idle" ELSE "ws"
    /\ UNCHANGED <<file, writes, armed, old, new, next, serverVars,
                   stopVars, kept>>

\* applyReload, behind what it does to removed nodes and ports: setConfig.
Publish ==
    /\ reload = "loaded"
    /\ cfg' = new
    /\ reload' = IF new = old THEN "idle" ELSE "ws"
    /\ UNCHANGED <<fileVars, old, new, next, serverVars, stopVars, kept>>

\* The base context is cancelled; a timer that fired as well may be taken first.
WatchEnds ==
    /\ reload = "idle"
    /\ stop = "waiting"
    /\ reload' = "ended"
    /\ UNCHANGED <<fileVars, cfg, old, new, next, serverVars, stopVars, kept>>

-----------------------------------------------------------------------------
\* rebindEndpoints.

\* What follows the step for endpoint e.
After(e) == IF e = "ws" THEN "status" ELSE "idle"

Unmoved(e) ==
    /\ reload = e
    /\ next = 0
    /\ old[e] = cfg[e]
    /\ reload' = After(e)
    /\ UNCHANGED <<fileVars, cfg, old, new, next, serverVars, stopVars, kept>>

Moves(e) == reload = e /\ next = 0 /\ old[e] # cfg[e]

\* The new address is bound before anything else.
Rebind(e) ==
    /\ Moves(e)
    /\ cfg[e] # Off
    /\ Serve(cfg[e])
    /\ next' = made'
    /\ UNCHANGED <<fileVars, reload, cfg, old, new, current, retire, stopVars, kept>>

\* Mutant of RebindFails: the whole of rebindEndpoints is left.
RebindGivesUp(e) ==
    /\ Moves(e)
    /\ cfg[e] # Off
    /\ kept' = kept \cup {e}
    /\ reload' = "idle"
    /\ UNCHANGED <<fileVars, cfg, old, new, next, serverVars, stopVars>>

\* The address is taken, by a server of this process that is not stopped yet or by
\* another process, which may be at any time: the endpoint stays where it is.
RebindFails(e) ==
    /\ Moves(e)
    /\ cfg[e] # Off
    /\ kept' = kept \cup {e}
    /\ reload' = After(e)
    /\ UNCHANGED <<fileVars, cfg, old, new, next, serverVars, stopVars>>

\* Mutant of Swap: the server that was there is not retired.
SwapOnly(e) ==
    /\ \/ reload = e /\ next # 0
       \/ Moves(e) /\ cfg[e] = Off
    /\ current' = [current EXCEPT ![e] = next]
    /\ next' = 0
    /\ kept' = kept \ {e}
    /\ reload' = After(e)
    /\ UNCHANGED <<fileVars, cfg, old, new, made, addr, life, retire, stopVars>>

\* Mutant of Swap: the new server is retired.
SwapRetiresNext(e) ==
    /\ \/ reload = e /\ next # 0
       \/ Moves(e) /\ cfg[e] = Off
    /\ current' = [current EXCEPT ![e] = next]
    /\ retire' = [i \in Servers |-> IF i = next THEN "due" ELSE retire[i]]
    /\ next' = 0
    /\ kept' = kept \ {e}
    /\ reload' = After(e)
    /\ UNCHANGED <<fileVars, cfg, old, new, made, addr, life, stopVars>>

\* The new server, or none, is published under the lock and the one that was
\* there is retired.
Swap(e) ==
    /\ \/ reload = e /\ next # 0
       \/ Moves(e) /\ cfg[e] = Off
    /\ current' = [current EXCEPT ![e] = next]
    /\ retire' = [i \in Servers |-> IF i = current[e] THEN "due" ELSE retire[i]]
    /\ next' = 0
    /\ kept' = kept \ {e}
    /\ reload' = After(e)
    /\ UNCHANGED <<fileVars, cfg, old, new, made, addr, life, stopVars>>

-----------------------------------------------------------------------------
\* Run's select, and shutdown.

ToStop(next_stop) ==
    /\ stop' = next_stop
    /\ UNCHANGED <<fileVars, reloadVars, kept>>

\* A signal, or a fatal error is taken from errCh.
Shutdown ==
    /\ stop = "running"
    /\ fatal' \in {fatal, fatal - 1} \cap Nat
    /\ ToStop("grace")
    /\ UNCHANGED <<serverVars, seen>>

\* The streams have ended or the grace is over: the servers are read.
ReadServers ==
    /\ stop = "grace"
    /\ seen' = current
    /\ ToStop("stopping ws")
    /\ UNCHANGED <<serverVars, fatal>>

\* Mutant of StopServer: the status endpoint is forgotten.
StopWsServer(e) ==
    /\ stop = IF e = "ws" THEN "stopping ws" ELSE "stopping status"
    /\ IF seen[e] = 0 \/ e = "status" THEN UNCHANGED life ELSE Close(seen[e])
    /\ ToStop(IF e = "ws" THEN "stopping status" ELSE "waiting")
    /\ UNCHANGED <<current, made, addr, retire, fatal, seen>>

\* Shutdown of one of them, which takes 5 s at most; behind the second, baseCancel.
StopServer(e) ==
    /\ stop = IF e = "ws" THEN "stopping ws" ELSE "stopping status"
    /\ IF seen[e] = 0 THEN UNCHANGED life ELSE Close(seen[e])
    /\ ToStop(IF e = "ws" THEN "stopping status" ELSE "waiting")
    /\ UNCHANGED <<current, made, addr, retire, fatal, seen>>

\* s.wg: the Serve goroutines, the ones of retireServer, watchConfig.
AllDone ==
    /\ \A i \in Servers : ~Bound(i) /\ retire[i] \in {"no", "done"}
    /\ reload = "ended"

Exit ==
    /\ stop = "waiting"
    /\ AllDone
    /\ ToStop("exited")
    /\ UNCHANGED <<serverVars, fatal, seen>>

-----------------------------------------------------------------------------
\* Run has bound the configured endpoints and started watchConfig.
Init ==
    /\ cfg \in {c \in Configs : c.ws # c.status}
    /\ file = cfg /\ old = cfg /\ new = cfg /\ writes = 0
    /\ notice = FALSE /\ armed = FALSE
    /\ reload = "idle" /\ next = 0
    /\ made = IF cfg.status = Off THEN 1 ELSE 2
    /\ current = [e \in Endpoint |-> IF e = "ws" THEN 1 ELSE IF cfg.status = Off THEN 0 ELSE 2]
    /\ addr = [i \in Servers |-> IF i = 1 THEN cfg.ws ELSE cfg.status]
    /\ life = [i \in Servers |-> IF i <= made THEN "bound" ELSE "none"]
    /\ retire = [i \in Servers |-> "no"]
    /\ fatal = 0 /\ stop = "running" /\ kept = {}
    /\ seen = [e \in Endpoint |-> 0]

WatchStep ==
    \/ Debounce \/ Load \/ Publish \/ WatchEnds
    \/ \E e \in Endpoint : Unmoved(e) \/ Rebind(e) \/ RebindFails(e) \/ Swap(e)
StopStep == ReadServers \/ (\E e \in Endpoint : StopServer(e)) \/ Exit
RetireStep(i) == Release(i) \/ Retired(i)

Next ==
    \/ WatchStep \/ StopStep \/ Shutdown
    \/ Write \/ Hangup
    \/ \E i \in Servers : RetireStep(i) \/ ServeFails(i)

Spec == Init /\ [][Next]_vars

\* Goroutines take the steps they can take, and every wait in them is timed.
\* An error in errCh ends the process; nobody else has to.  The select of
\* watchConfig picks at random among what is ready, and only edits, which end,
\* put the timer off: a SIGHUP sets it to zero.
Fairness ==
    /\ WF_vars(WatchStep)
    /\ WF_vars(StopStep)
    /\ WF_vars(fatal > 0 /\ Shutdown)
    /\ SF_vars(Load) /\ SF_vars(WatchEnds)
    /\ \A i \in Servers : WF_vars(RetireStep(i))

FairSpec == Spec /\ Fairness

-----------------------------------------------------------------------------
\* Properties.

TypeOK ==
    /\ file \in Configs \cup {Broken} /\ {cfg, old, new} \subseteq Configs
    /\ writes \in 0..MaxWrites
    /\ {notice, armed} \subseteq BOOLEAN
    /\ reload \in Endpoint \cup {"idle", "loaded", "ended"}
    /\ next \in 0..made /\ made \in Servers
    /\ current \in [Endpoint -> 0..made]
    /\ addr \in [Servers -> Addrs \cup {Off}]
    /\ life \in [Servers -> {"none", "bound", "failed", "shut"}]
    /\ retire \in [Servers -> {"no", "due", "draining", "done"}]
    /\ fatal \in 0..2
    /\ stop \in {"running", "grace", "stopping ws", "stopping status", "waiting", "exited"}
    /\ seen \in [Endpoint -> 0..made]
    /\ kept \subseteq Endpoint

\* "bind the new address before releasing the old one, and on failure keep the old
\* address serving" (server.go:591-592): until shutdown reads the servers, each of the
\* two that are published serves and is not being retired, whatever a reload is
\* in the middle of, unless an Accept failed.
NeverDeaf ==
    stop \in {"running", "grace"} /\ (\A i \in Servers : life[i] # "failed") =>
        /\ current.ws # 0
        /\ \A e \in Endpoint : current[e] # 0 => Bound(current[e]) /\ retire[current[e]] = "no"

\* Behind a reload every server that still serves is published, where shutdown
\* finds it unless it has looked before (ShutdownAlwaysEnds), or is being retired
\* (retireServer, server.go:636-650).
NoStray ==
    next = 0 => \A i \in Servers :
        Bound(i) /\ retire[i] = "no" => i \in {current.ws, current.status}

\* Behind a reload an endpoint is at the published address, or off, unless the
\* last attempt to move it failed (server.go:558-561).
ServedAsPublished ==
    reload = "idle" =>
        \A e \in Endpoint \ kept :
            IF cfg[e] = Off THEN current[e] = 0
            ELSE current[e] # 0 /\ addr[current[e]] = cfg[e]

\* An edit of the file that can be loaded is applied, however many came while
\* another was (server.go:503-526).
ReloadCatchesUp ==
    <>[](stop # "running" \/ file = Broken \/ cfg = file)

\* A reload that publishes a server behind the back of shutdown.
Overtaken == \E e \in Endpoint : stop # "grace" /\ current[e] \notin {0, seen[e]}

\* A shutdown comes to its end (server.go:728-777) unless a reload overtakes it.
ShutdownEnds == stop = "grace" ~> stop = "exited" \/ Overtaken

\* "ShutdownGrace is the hard-coded ceiling for draining on SIGTERM" (server.go:30):
\* the process comes to an end.
ShutdownAlwaysEnds == stop = "grace" ~> stop = "exited"
=============================================================================
