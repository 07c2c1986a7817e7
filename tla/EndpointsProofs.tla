---------------------------- MODULE EndpointsProofs ----------------------------
(***************************************************************************)
(* Theorems about the endpoints of tunnel-server, for any configurations   *)
(* and any number of edits and of failing listeners.                       *)
(***************************************************************************)
EXTENDS Endpoints, TLAPS

\* The servers that are published or about to be.
Kept == {current["ws"], current["status"], next} \ {0}

\* The published servers are two different ones, ws always one of them; neither
\* they nor the one about to be published are being retired.
Distinct ==
    /\ \A i \in Servers : i > made => life[i] = "none" /\ retire[i] = "no"
    /\ current["ws"] # 0 /\ current["ws"] # current["status"]
    /\ next # 0 => next # current["ws"] /\ next # current["status"]
    /\ \A i \in Kept : retire[i] = "no"

\* Nobody but shutdown closes them, and it has not begun to.
Serving ==
    stop \in {"running", "grace"} => \A i \in Kept : life[i] \in {"bound", "failed"}

\* Whatever else serves is being retired.
NoneForgotten == \A i \in Servers : Bound(i) /\ retire[i] = "no" => i \in Kept

\* Endpoint e is where snapshot c wants it.
At(e, c) ==
    IF c[e] = Off THEN current[e] = 0 ELSE current[e] # 0 /\ addr[current[e]] = c[e]

\* An endpoint whose turn in rebindEndpoints has not come is where the old
\* snapshot wanted it, the others are where the published one wants them.
Placed ==
    /\ next # 0 => reload \in Endpoint /\ addr[next] = cfg[reload] /\ cfg[reload] # Off
    /\ reload = "loaded" => old = cfg
    /\ \A e \in Endpoint \ kept :
         At(e, IF reload = "ws" \/ reload = e THEN old ELSE cfg)

EInv == TypeOK /\ Distinct /\ Serving /\ NoneForgotten /\ Placed

-----------------------------------------------------------------------------
\* Every configuration has a ws address.
LEMMA WsIsOn == \A c \in Configs : c["ws"] \in Addrs /\ c["ws"] # Off
BY ConfigsAssumption, ValuesAssumption

\* What is kept is a server that was made.
LEMMA KeptWasMade == TypeOK => \A i \in Kept : i \in Servers /\ i <= made
<1> SUFFICES ASSUME TypeOK, NEW i \in Kept PROVE i \in Servers /\ i <= made
  OBVIOUS
<1>1. current["ws"] \in 0..made /\ current["status"] \in 0..made /\ next \in 0..made
  BY DEF TypeOK, Endpoint
<1>2. made \in Servers
  BY DEF TypeOK
<1> QED
  BY <1>1, <1>2, BoundsAssumption DEF Kept, Servers, MaxServers

\* Run binds the endpoints of the first snapshot.
LEMMA InitInv == Init => EInv
<1> SUFFICES ASSUME Init PROVE EInv
  OBVIOUS
<1>1. MaxServers \in Nat /\ MaxServers >= 2 /\ Servers = 1..MaxServers
  BY BoundsAssumption DEF MaxServers, Servers
<1>2. cfg \in Configs /\ cfg["ws"] # cfg["status"]
  BY DEF Init
<1>3. cfg["ws"] \in Addrs /\ cfg["status"] \in Addrs \cup {Off} /\ Off \notin Addrs
  BY <1>2, ConfigsAssumption, ValuesAssumption
<1>4. made \in {1, 2} /\ made \in Servers
  BY <1>1 DEF Init
<1>5. TypeOK
  <2>1. {notice, armed} \subseteq BOOLEAN
    BY DEF Init
  <2>2. addr \in [Servers -> Addrs \cup {Off}]
    BY <1>3 DEF Init
  <2>3. current \in [Endpoint -> 0..made] /\ seen \in [Endpoint -> 0..made]
    BY <1>4 DEF Init
  <2>4. /\ life \in [Servers -> {"none", "bound", "failed", "shut"}]
        /\ retire \in [Servers -> {"no", "due", "draining", "done"}]
    BY DEF Init
  <2>5. file \in Configs \cup {Broken} /\ {cfg, old, new} \subseteq Configs
    BY <1>2 DEF Init
  <2>6. /\ writes \in 0..MaxWrites /\ fatal \in 0..2 /\ next \in 0..made
        /\ kept \subseteq Endpoint
    BY <1>4, BoundsAssumption DEF Init
  <2>7. /\ reload \in Endpoint \cup {"idle", "loaded", "ended"}
        /\ stop \in {"running", "grace", "stopping ws", "stopping status", "waiting", "exited"}
    BY DEF Init
  <2> QED
    BY <1>4, <2>1, <2>2, <2>3, <2>4, <2>5, <2>6, <2>7 DEF TypeOK
<1>6. current["ws"] = 1 /\ current["status"] = IF cfg["status"] = Off THEN 0 ELSE 2
  BY DEF Init, Endpoint
<1>7. Kept = 1..made
  BY <1>4, <1>6 DEF Init, Kept
<1>8. Distinct
  BY <1>1, <1>4, <1>6, <1>7 DEF Init, Distinct
<1>9. Serving /\ NoneForgotten
  BY <1>1, <1>4, <1>7 DEF Init, Serving, NoneForgotten, Bound
<1>10. Placed
  <2>1. addr[1] = cfg["ws"] /\ (made = 2 => addr[2] = cfg["status"])
    BY <1>1, <1>4 DEF Init
  <2>2. At("ws", cfg) /\ At("status", cfg)
    BY <1>2, <1>3, <1>6, <2>1 DEF At, Init
  <2> QED
    BY <2>2 DEF Init, Placed, Endpoint
<1> QED
  BY <1>5, <1>8, <1>9, <1>10 DEF EInv
-----------------------------------------------------------------------------
\* One lemma for each kind of step.

\* What says nothing of the servers but that their number, their addresses and
\* the published ones stay.
Steady == UNCHANGED <<current, made, addr, next, kept>>

\* A listener that fails, a retireServer goroutine, a step of shutdown.
LEMMA ServerStep ==
    ASSUME EInv,
           \/ \E i \in Servers : ServeFails(i) \/ RetireStep(i)
           \/ StopStep \/ Shutdown
    PROVE  EInv'
<1>1. CASE \E i \in Servers : ServeFails(i)
  <2>1. PICK i \in Servers : ServeFails(i)
    BY <1>1
  <2>2. Steady /\ UNCHANGED <<reloadVars, fileVars, retire, stop, seen>>
    BY <2>1 DEF ServeFails, Steady, reloadVars
  <2>3. /\ life' = [life EXCEPT ![i] = "failed"] /\ life[i] = "bound"
        /\ fatal' \in 0..2
    <3>1. fatal \in 0..2
      BY DEF EInv, TypeOK
    <3> QED
      BY <2>1, <3>1 DEF ServeFails, Bound
  <2>4. TypeOK'
    BY <2>2, <2>3 DEF EInv, TypeOK, Steady, reloadVars, fileVars
  <2>5. Kept' = Kept
    BY <2>2 DEF Kept, Steady
  <2>6. Distinct' /\ Serving' /\ NoneForgotten'
    BY <2>2, <2>3, <2>5, KeptWasMade
    DEF EInv, TypeOK, Distinct, Serving, NoneForgotten, Bound, Steady
  <2>7. Placed'
    BY <2>2 DEF EInv, Placed, At, Steady, reloadVars
  <2> QED
    BY <2>4, <2>6, <2>7 DEF EInv
<1>2. CASE \E i \in Servers : Release(i)
  <2>1. PICK i \in Servers : Release(i)
    BY <1>2
  <2>2. Steady /\ UNCHANGED <<reloadVars, fileVars, stopVars>>
    BY <2>1 DEF Release, Steady, reloadVars
  <2>3. /\ life' = [life EXCEPT ![i] = IF life[i] = "bound" THEN "shut" ELSE life[i]]
        /\ retire' = [retire EXCEPT ![i] = "draining"]
        /\ retire[i] = "due"
    BY <2>1 DEF Release, Close
  <2>4. TypeOK'
    <3>1. /\ life' \in [Servers -> {"none", "bound", "failed", "shut"}]
          /\ retire' \in [Servers -> {"no", "due", "draining", "done"}]
      BY <2>3 DEF EInv, TypeOK
    <3> QED
      BY <2>2, <3>1 DEF EInv, TypeOK, Steady, reloadVars, fileVars, stopVars
  <2>5. Kept' = Kept /\ i \notin Kept
    BY <2>2, <2>3 DEF Kept, Steady, EInv, Distinct
  <2>6. Distinct' /\ Serving' /\ NoneForgotten'
    BY <2>2, <2>3, <2>5, KeptWasMade
    DEF EInv, TypeOK, Distinct, Serving, NoneForgotten, Bound, Steady, stopVars
  <2>7. Placed'
    BY <2>2 DEF EInv, Placed, At, Steady, reloadVars
  <2> QED
    BY <2>4, <2>6, <2>7 DEF EInv
<1>3. CASE \E i \in Servers : Retired(i)
  <2>1. PICK i \in Servers : Retired(i)
    BY <1>3
  <2>2. Steady /\ UNCHANGED <<reloadVars, fileVars, stopVars, life>>
    BY <2>1 DEF Retired, Steady, reloadVars
  <2>3. retire' = [retire EXCEPT ![i] = "done"] /\ retire[i] = "draining"
    BY <2>1 DEF Retired
  <2>4. TypeOK'
    BY <2>2, <2>3 DEF EInv, TypeOK, Steady, reloadVars, fileVars, stopVars
  <2>5. Kept' = Kept /\ i \notin Kept
    BY <2>2, <2>3 DEF Kept, Steady, EInv, Distinct
  <2>6. Distinct' /\ Serving' /\ NoneForgotten'
    BY <2>2, <2>3, <2>5, KeptWasMade
    DEF EInv, TypeOK, Distinct, Serving, NoneForgotten, Bound, Steady, stopVars
  <2>7. Placed'
    BY <2>2 DEF EInv, Placed, At, Steady, reloadVars
  <2> QED
    BY <2>4, <2>6, <2>7 DEF EInv
<1>4. CASE Shutdown \/ ReadServers \/ Exit
  <2>1. Steady /\ UNCHANGED <<reloadVars, fileVars, life, retire>>
    BY <1>4 DEF Shutdown, ReadServers, Exit, ToStop, Steady, serverVars, reloadVars
  <2>2. /\ fatal' \in 0..2
        /\ seen' \in [Endpoint -> 0..made]
        /\ stop' \in {"running", "grace", "stopping ws", "waiting", "exited"}
        /\ stop' \in {"running", "grace"} => stop \in {"running", "grace"}
    <3>1. fatal \in 0..2 /\ {current, seen} \subseteq [Endpoint -> 0..made]
      BY DEF EInv, TypeOK
    <3>2. CASE Shutdown
      BY <3>1, <3>2 DEF Shutdown, ToStop, serverVars
    <3>3. CASE ReadServers
      BY <3>1, <3>3 DEF ReadServers, ToStop, serverVars
    <3>4. CASE Exit
      BY <3>1, <3>4 DEF Exit, ToStop, serverVars
    <3> QED
      BY <1>4, <3>2, <3>3, <3>4
  <2>3. TypeOK'
    BY <2>1, <2>2 DEF EInv, TypeOK, Steady, reloadVars, fileVars
  <2>4. Kept' = Kept
    BY <2>1 DEF Kept, Steady
  <2>5. Distinct' /\ Serving' /\ NoneForgotten'
    BY <2>1, <2>2, <2>4 DEF EInv, Distinct, Serving, NoneForgotten, Bound, Steady
  <2>6. Placed'
    BY <2>1 DEF EInv, Placed, At, Steady, reloadVars
  <2> QED
    BY <2>3, <2>5, <2>6 DEF EInv
<1>5. CASE \E e \in Endpoint : StopServer(e)
  <2>1. PICK e \in Endpoint : StopServer(e)
    BY <1>5
  <2>2. Steady /\ UNCHANGED <<reloadVars, fileVars, retire, fatal, seen>>
    BY <2>1 DEF StopServer, ToStop, Steady, reloadVars
  <2>3. stop' \in {"stopping status", "waiting"}
    BY <2>1 DEF StopServer, ToStop
  <2>4. /\ life' \in [Servers -> {"none", "bound", "failed", "shut"}]
        /\ \A i \in Servers : life'[i] = "bound" => life[i] = "bound"
        /\ \A i \in Servers : life[i] = "none" => life'[i] = "none"
    <3>1. life \in [Servers -> {"none", "bound", "failed", "shut"}]
      BY DEF EInv, TypeOK
    <3>2. CASE life' = life
      BY <3>1, <3>2
    <3>3. CASE \E i : life' = [life EXCEPT ![i] = IF life[i] = "bound" THEN "shut" ELSE life[i]]
      BY <3>1, <3>3
    <3> QED
      BY <2>1, <3>2, <3>3 DEF StopServer, Close
  <2>5. TypeOK'
    BY <2>2, <2>3, <2>4 DEF EInv, TypeOK, Steady, reloadVars, fileVars
  <2>6. Kept' = Kept
    BY <2>2 DEF Kept, Steady
  <2>7. Distinct' /\ Serving' /\ NoneForgotten'
    BY <2>2, <2>3, <2>4, <2>6
    DEF EInv, Distinct, Serving, NoneForgotten, Bound, Steady
  <2>8. Placed'
    BY <2>2 DEF EInv, Placed, At, Steady, reloadVars
  <2> QED
    BY <2>5, <2>7, <2>8 DEF EInv
<1> QED
  BY <1>1, <1>2, <1>3, <1>4, <1>5 DEF RetireStep, StopStep

\* The servers of an invariant state stay what they are.
LEMMA ServersStay ==
    ASSUME EInv, UNCHANGED <<current, next, made, life, retire, stop>>
    PROVE  Distinct' /\ Serving' /\ NoneForgotten'
BY DEF EInv, Distinct, Serving, NoneForgotten, Kept, Bound

\* watchConfig and the edits, up to a reload.
LEMMA FileStep ==
    ASSUME EInv, Write \/ Hangup \/ Debounce \/ Load \/ Publish \/ WatchEnds
    PROVE  EInv'
<1>1. UNCHANGED <<serverVars, stopVars, kept, next>>
  BY DEF Write, Hangup, Debounce, Load, Publish, WatchEnds, reloadVars
<1>2. Distinct' /\ Serving' /\ NoneForgotten'
  BY <1>1, ServersStay DEF serverVars, stopVars
<1>3. {notice', armed'} \subseteq BOOLEAN
  BY DEF Write, Hangup, Debounce, Load, Publish, WatchEnds, fileVars, EInv, TypeOK
<1>4. /\ file' \in Configs \cup {Broken} /\ {cfg', old', new'} \subseteq Configs
      /\ reload' \in Endpoint \cup {"idle", "loaded", "ended"}
  BY DEF Write, Hangup, Debounce, Load, Publish, WatchEnds, fileVars, reloadVars, EInv,
         TypeOK, Endpoint
<1>5. writes' \in 0..MaxWrites
  <2>1. writes \in 0..MaxWrites /\ MaxWrites \in Nat
    BY BoundsAssumption DEF EInv, TypeOK
  <2>2. writes' = writes \/ (writes < MaxWrites /\ writes' = writes + 1)
    <3>1. CASE Write
      BY <3>1 DEF Write
    <3>2. CASE Hangup \/ Debounce \/ Load
      BY <3>2 DEF Hangup, Debounce, Load
    <3>3. CASE Publish \/ WatchEnds
      BY <3>3 DEF Publish, WatchEnds, fileVars
    <3> QED
      BY <3>1, <3>2, <3>3
  <2> QED
    BY <2>1, <2>2
<1>6. TypeOK'
  BY <1>1, <1>3, <1>4, <1>5 DEF EInv, TypeOK, serverVars, stopVars
<1>7. Placed'
  <2>1. CASE Write \/ Hangup \/ Debounce
    BY <1>1, <2>1 DEF Write, Hangup, Debounce, reloadVars, serverVars, EInv, Placed, At
  <2>2. CASE WatchEnds
    BY <1>1, <2>2 DEF WatchEnds, serverVars, EInv, Placed, At, Endpoint
  <2>3. CASE Load
    BY <1>1, <2>3 DEF Load, serverVars, EInv, Placed, At, Endpoint
  <2>4. CASE Publish
    <3>1. next = 0 /\ old = cfg /\ \A e \in Endpoint \ kept : At(e, old)
      BY <2>4 DEF Publish, EInv, Placed, Endpoint
    <3>2. CASE new = old
      BY <1>1, <2>4, <3>1, <3>2 DEF Publish, Placed, At, Endpoint, serverVars
    <3>3. CASE new # old
      <4>1. \A e \in Endpoint \ kept : reload' = "ws" /\ At(e, old)' /\ old' = old
        BY <1>1, <2>4, <3>1, <3>3 DEF Publish, At, serverVars
      <4> QED
        BY <1>1, <2>4, <3>1, <3>3, <4>1 DEF Publish, Placed
    <3> QED
      BY <3>2, <3>3
  <2> QED
    BY <2>1, <2>2, <2>3, <2>4
<1> QED
  BY <1>2, <1>6, <1>7 DEF EInv

\* rebindEndpoints, but for the swap.
LEMMA RebindStep ==
    ASSUME EInv, NEW e \in Endpoint, Unmoved(e) \/ RebindFails(e) \/ Rebind(e)
    PROVE  EInv'
<1>1. UNCHANGED <<fileVars, cfg, old, new, current, retire, stopVars>>
  BY DEF Unmoved, RebindFails, Rebind, serverVars
<1>2. CASE Unmoved(e) \/ RebindFails(e)
  <2>1. /\ UNCHANGED <<serverVars, next>> /\ next = 0
        /\ reload = e /\ reload' = After(e)
        /\ kept' \subseteq Endpoint /\ kept \subseteq kept'
        /\ e \in kept' \/ old[e] = cfg[e]
    BY <1>2 DEF Unmoved, RebindFails, Moves, EInv, TypeOK
  <2>2. Distinct' /\ Serving' /\ NoneForgotten'
    BY <1>1, <2>1, ServersStay DEF serverVars, stopVars
  <2>3. reload' \in {"status", "idle"}
    BY <2>1 DEF After
  <2>4. TypeOK'
    BY <1>1, <2>1, <2>3 DEF EInv, TypeOK, serverVars, stopVars, fileVars, Endpoint
  <2>5. Placed'
    <3> SUFFICES ASSUME NEW f \in Endpoint \ kept'
                 PROVE  At(f, IF reload' = f THEN old ELSE cfg)
      BY <1>1, <2>1, <2>3 DEF Placed, At, serverVars
    <3>1. f \in Endpoint \ kept /\ At(f, IF reload = "ws" \/ reload = f THEN old ELSE cfg)
      BY <2>1 DEF EInv, Placed
    <3>2. CASE f = e
      BY <2>1, <3>1, <3>2 DEF At, After, Endpoint
    <3>3. CASE f # e
      BY <2>1, <3>1, <3>3 DEF After, Endpoint
    <3> QED
      BY <3>2, <3>3
  <2> QED
    BY <2>2, <2>4, <2>5 DEF EInv
<1>3. CASE Rebind(e)
  <2>1. /\ made < MaxServers /\ made' = made + 1 /\ next' = made' /\ next = 0
        /\ addr' = [addr EXCEPT ![made'] = cfg[e]]
        /\ life' = [life EXCEPT ![made'] = "bound"]
        /\ reload = e /\ cfg[e] # Off
        /\ UNCHANGED <<reload, kept>>
    BY <1>3 DEF Rebind, Serve, Moves
  <2>2. /\ made \in Servers /\ made' \in Servers /\ MaxServers \in Nat
        /\ made \in Nat /\ 0..made \subseteq 0..made'
    <3>1. made \in Servers
      BY DEF EInv, TypeOK
    <3>2. MaxServers \in Nat
      BY BoundsAssumption DEF MaxServers
    <3> QED
      BY <2>1, <3>1, <3>2 DEF Servers
  <2>3. life[made'] = "none" /\ retire[made'] = "no"
    BY <2>1, <2>2 DEF EInv, Distinct
  <2>4. /\ Kept' = Kept \cup {made'} /\ made' \notin Kept
        /\ current["ws"] # made' /\ current["status"] # made'
    <3>1. \A i \in Kept : i \in Servers /\ i <= made
      BY KeptWasMade DEF EInv
    <3>2. current["ws"] \in 0..made /\ current["status"] \in 0..made
      BY DEF EInv, TypeOK, Endpoint
    <3> QED
      BY <1>1, <2>1, <2>2, <3>1, <3>2 DEF Kept
  <2>5. TypeOK'
    <3>1. cfg[e] \in Addrs \cup {Off}
      BY ConfigsAssumption DEF EInv, TypeOK, Endpoint
    <3>2. addr' \in [Servers -> Addrs \cup {Off}]
      BY <2>1, <3>1 DEF EInv, TypeOK
    <3>3. life' \in [Servers -> {"none", "bound", "failed", "shut"}]
      BY <2>1 DEF EInv, TypeOK
    <3>4. {current, seen} \subseteq [Endpoint -> 0..made']
      BY <2>2 DEF EInv, TypeOK
    <3>5. next' \in 0..made'
      BY <2>1, <2>2
    <3> QED
      BY <1>1, <2>1, <2>2, <3>2, <3>3, <3>4, <3>5 DEF EInv, TypeOK, fileVars, stopVars
  <2>6. Distinct'
    <3>1. \A i \in Servers : i > made' => i > made /\ i # made'
      BY <2>1, <2>2 DEF Servers
    <3>2. \A i \in Servers : i > made' => life'[i] = "none" /\ retire'[i] = "no"
      BY <1>1, <2>1, <3>1 DEF EInv, Distinct, TypeOK
    <3>3. \A i \in Kept' : retire'[i] = "no"
      BY <1>1, <2>3, <2>4 DEF EInv, Distinct
    <3>4. made' # 0
      BY <2>1, <2>2
    <3> QED
      BY <1>1, <2>1, <2>4, <3>2, <3>3, <3>4 DEF EInv, Distinct
  <2>7. Serving' /\ NoneForgotten'
    BY <1>1, <2>1, <2>2, <2>4, KeptWasMade
    DEF EInv, Serving, NoneForgotten, Bound, TypeOK, stopVars
  <2>8. Placed'
    <3>1. addr'[made'] = cfg[e]
      BY <2>1, <2>2 DEF EInv, TypeOK
    <3>2. \A f \in Endpoint, c \in {old, cfg} : At(f, c) => At(f, c)'
      <4> SUFFICES ASSUME NEW f \in Endpoint, NEW c \in {old, cfg}, At(f, c)
                   PROVE  At(f, c)'
        OBVIOUS
      <4>1. current[f] # made'
        BY <2>4 DEF Endpoint
      <4>2. current[f] # 0 => current[f] \in Servers
        <5>1. current[f] \in 0..made
          BY DEF EInv, TypeOK
        <5> QED
          BY <2>2, <5>1 DEF Servers
      <4> QED
        BY <1>1, <2>1, <4>1, <4>2 DEF At, EInv, TypeOK
    <3> QED
      BY <1>1, <2>1, <3>1, <3>2 DEF EInv, Placed, Endpoint
  <2> QED
    BY <2>5, <2>6, <2>7, <2>8 DEF EInv
<1> QED
  BY <1>2, <1>3

\* The swap: the new server, or none, takes the place of the one that is retired.
LEMMA SwapStep ==
    ASSUME EInv, NEW e \in Endpoint, Swap(e)
    PROVE  EInv'
<1>1. /\ reload = e /\ (next # 0 \/ cfg[e] = Off)
      /\ current' = [current EXCEPT ![e] = next] /\ next' = 0
      /\ retire' = [i \in Servers |-> IF i = current[e] THEN "due" ELSE retire[i]]
      /\ kept' = kept \ {e} /\ reload' = After(e)
      /\ UNCHANGED <<fileVars, cfg, old, new, made, addr, life, stopVars>>
  BY DEF Swap, Moves
<1>2. current[e] \in 0..made /\ next \in 0..made /\ made \in Servers
  BY DEF EInv, TypeOK
<1>3. reload' \in {"status", "idle"}
  BY <1>1 DEF After
<1>4. current'[e] = next /\ \A f \in Endpoint : f # e => current'[f] = current[f]
  BY <1>1 DEF EInv, TypeOK
<1>5. next # 0 => addr[next] = cfg[e] /\ cfg[e] # Off
  BY <1>1 DEF EInv, Placed
<1>6. e = "ws" => next # 0
  BY <1>1, WsIsOn DEF EInv, TypeOK
<1>7. Kept' = Kept \ {current[e]}
  BY <1>1, <1>2, <1>4 DEF Kept, EInv, Distinct, Endpoint
<1>8. TypeOK'
  <2>1. current' \in [Endpoint -> 0..made]
    BY <1>1, <1>2 DEF EInv, TypeOK
  <2>2. retire' \in [Servers -> {"no", "due", "draining", "done"}]
    BY <1>1 DEF EInv, TypeOK
  <2>3. next' \in 0..made
    BY <1>1, <1>2, BoundsAssumption DEF Servers, MaxServers
  <2> QED
    BY <1>1, <1>3, <2>1, <2>2, <2>3 DEF EInv, TypeOK, fileVars, stopVars, Endpoint
<1>9. \A i \in Kept : i \in Servers /\ i <= made
  BY KeptWasMade DEF EInv
<1>10. Distinct'
  <2>1. \A i \in Servers : i > made => life'[i] = "none" /\ retire'[i] = "no"
    <3> SUFFICES ASSUME NEW i \in Servers, i > made
                 PROVE  life'[i] = "none" /\ retire'[i] = "no"
      OBVIOUS
    <3>1. i # current[e]
      BY <1>2 DEF Servers
    <3> QED
      BY <1>1, <3>1 DEF EInv, Distinct
  <2>2. current'["ws"] # 0 /\ current'["ws"] # current'["status"]
    BY <1>1, <1>4, <1>6 DEF EInv, Distinct, Endpoint
  <2>3. \A i \in Kept' : retire'[i] = "no"
    BY <1>1, <1>7, <1>9 DEF EInv, Distinct
  <2> QED
    BY <1>1, <2>1, <2>2, <2>3 DEF Distinct
<1>11. Serving' /\ NoneForgotten'
  BY <1>1, <1>7 DEF EInv, Serving, NoneForgotten, Bound, stopVars
<1>12. Placed'
  <2> SUFFICES ASSUME NEW f \in Endpoint \ kept'
               PROVE  /\ reload' = f => At(f, old)'
                      /\ reload' # f => At(f, cfg)'
    BY <1>1, <1>3 DEF Placed
  <2>1. CASE f = e
    <3>1. reload' # f
      BY <1>1, <2>1 DEF After, Endpoint
    <3> QED
      BY <1>1, <1>4, <1>5, <2>1, <3>1 DEF At
  <2>2. CASE f # e
    <3>1. At(f, IF reload = "ws" \/ reload = f THEN old ELSE cfg)
      BY <1>1, <2>2 DEF EInv, Placed
    <3>2. (reload = "ws" \/ reload = f) <=> reload' = f
      BY <1>1, <2>2 DEF After, Endpoint
    <3>3. CASE reload' = f
      <4>1. At(f, old)
        BY <3>1, <3>2, <3>3
      <4> QED
        BY <1>1, <1>4, <2>2, <3>3, <4>1 DEF At
    <3>4. CASE reload' # f
      <4>1. At(f, cfg)
        BY <3>1, <3>2, <3>4
      <4> QED
        BY <1>1, <1>4, <2>2, <3>4, <4>1 DEF At
    <3> QED
      BY <3>3, <3>4
  <2> QED
    BY <2>1, <2>2
<1> QED
  BY <1>8, <1>10, <1>11, <1>12 DEF EInv

\* Every step.
LEMMA NextInv == EInv /\ [Next]_vars => EInv'
<1> SUFFICES ASSUME EInv, [Next]_vars PROVE EInv'
  OBVIOUS
<1>1. CASE UNCHANGED vars
  BY <1>1
  DEF vars, fileVars, reloadVars, serverVars, stopVars, EInv, TypeOK, Distinct, Serving,
      NoneForgotten, Placed, At, Kept, Bound
<1>2. CASE StopStep \/ Shutdown \/ \E i \in Servers : RetireStep(i) \/ ServeFails(i)
  BY <1>2, ServerStep
<1>3. CASE Write \/ Hangup \/ Debounce \/ Load \/ Publish \/ WatchEnds
  BY <1>3, FileStep
<1>4. CASE \E e \in Endpoint : Unmoved(e) \/ Rebind(e) \/ RebindFails(e)
  BY <1>4, RebindStep
<1>5. CASE \E e \in Endpoint : Swap(e)
  BY <1>5, SwapStep
<1> QED
  BY <1>1, <1>2, <1>3, <1>4, <1>5 DEF Next, WatchStep

-----------------------------------------------------------------------------
\* Theorems.

\* The inductive invariant.
THEOREM Invariant == Spec => []EInv
<1>1. EInv /\ [Next]_vars => EInv'
  BY NextInv
<1> QED
  BY InitInv, <1>1, PTL DEF Spec

\* Every variable keeps its type.
THEOREM TypeCorrect == Spec => []TypeOK
<1>1. EInv => TypeOK
  BY DEF EInv
<1> QED
  BY Invariant, <1>1, PTL

\* A reload never leaves the server deaf, however many edits come and wherever
\* binding fails (rebindEndpoints, server.go:596-632).
THEOREM ServerIsNeverDeaf == Spec => []NeverDeaf
<1>1. EInv => NeverDeaf
  <2> SUFFICES ASSUME EInv, stop \in {"running", "grace"},
                      \A i \in Servers : life[i] # "failed"
               PROVE  /\ current.ws # 0
                      /\ \A e \in Endpoint :
                           current[e] # 0 => Bound(current[e]) /\ retire[current[e]] = "no"
    BY DEF NeverDeaf
  <2>1. \A i \in Kept : i \in Servers /\ life[i] = "bound" /\ retire[i] = "no"
    BY KeptWasMade DEF EInv, Serving, Distinct
  <2>2. \A e \in Endpoint : current[e] # 0 => current[e] \in Kept
    BY DEF Kept, Endpoint
  <2> QED
    BY <2>1, <2>2 DEF EInv, Distinct, Bound
<1> QED
  BY Invariant, <1>1, PTL

\* No server is left serving that nobody would stop (retireServer,
\* server.go:636-650).
THEOREM NoServerIsStray == Spec => []NoStray
<1>1. EInv => NoStray
  BY DEF EInv, NoneForgotten, NoStray, Kept
<1> QED
  BY Invariant, <1>1, PTL

\* Behind a reload the endpoints are where the published snapshot wants them or
\* where a failed attempt left them (applyReload and rebindEndpoints).
THEOREM EndpointsFollowTheSnapshot == Spec => []ServedAsPublished
<1>1. EInv => ServedAsPublished
  BY DEF EInv, Placed, At, ServedAsPublished, Endpoint
<1> QED
  BY Invariant, <1>1, PTL

-----------------------------------------------------------------------------
\* What a shutdown waits for.

\* Shutdown has closed the servers it read, one after the other, and so has every
\* retireServer goroutine that is past its Server.Shutdown.
StoppedAreClosed ==
    /\ stop \in {"stopping status", "waiting", "exited"} /\ seen["ws"] # 0 =>
           ~Bound(seen["ws"])
    /\ stop \in {"waiting", "exited"} /\ seen["status"] # 0 => ~Bound(seen["status"])
    /\ \A i \in Servers : retire[i] \in {"draining", "done"} => ~Bound(i)

\* What s.wg.Wait waits for behind the two stops, if no reload has published a server
\* since they were read and none is about to: retireServer goroutines, which end.
OnlyRetireesServe ==
    stop = "waiting" /\ next = 0 /\ ~Overtaken =>
        \A i \in Servers : Bound(i) => retire[i] = "due"

\* A server that does not serve any more never does again: serve makes a new one.
LEMMA NoneReborn ==
    ASSUME EInv, [Next]_vars, NEW i \in Servers, i <= made, ~Bound(i)
    PROVE  ~Bound(i)'
<1>1. life \in [Servers -> {"none", "bound", "failed", "shut"}] /\ made \in Servers
  BY DEF EInv, TypeOK
<1>2. CASE \E e \in Endpoint : Rebind(e)
  <2>1. made' = made + 1 /\ life' = [life EXCEPT ![made'] = "bound"]
    BY <1>2 DEF Rebind, Serve
  <2>2. made' # i
    BY <1>1, <2>1 DEF Servers
  <2> QED
    BY <1>1, <2>1, <2>2 DEF Bound
<1>3. CASE \E j \in Servers : RetireStep(j) \/ ServeFails(j)
  BY <1>1, <1>3 DEF RetireStep, Release, Retired, ServeFails, Close, Bound
<1>4. CASE StopStep \/ Shutdown
  BY <1>1, <1>4 DEF StopStep, ReadServers, StopServer, Exit, Shutdown, Close, Bound, serverVars
<1>5. CASE \/ Debounce \/ Load \/ Publish \/ WatchEnds \/ Write \/ Hangup \/ UNCHANGED vars
           \/ \E e \in Endpoint : Unmoved(e) \/ RebindFails(e) \/ Swap(e)
  BY <1>5 DEF Debounce, Load, Publish, WatchEnds, Write, Hangup, Unmoved, RebindFails, Swap,
     vars, serverVars, Bound
<1> QED
  BY <1>2, <1>3, <1>4, <1>5 DEF Next, WatchStep

\* What was stopped stays closed.
LEMMA StoppedStay == EInv /\ StoppedAreClosed /\ [Next]_vars => StoppedAreClosed'
<1> SUFFICES ASSUME EInv, StoppedAreClosed, [Next]_vars PROVE StoppedAreClosed'
  OBVIOUS
<1>1. /\ \A e \in Endpoint : seen[e] # 0 => seen[e] \in Servers /\ seen[e] <= made
      /\ \A i \in Servers : retire[i] \in {"draining", "done"} => i <= made
  <2>1. made \in Servers /\ \A e \in Endpoint : seen[e] \in 0..made
    BY DEF EInv, TypeOK
  <2>2. MaxServers \in Nat
    BY BoundsAssumption DEF MaxServers
  <2>3. \A i \in Servers : i > made => retire[i] = "no"
    BY DEF EInv, Distinct
  <2>4. \A e \in Endpoint : seen[e] # 0 => seen[e] \in Servers /\ seen[e] <= made
    BY <2>1, <2>2 DEF Servers
  <2>5. \A i \in Servers : i <= made \/ i > made
    BY <2>1 DEF Servers
  <2> QED
    BY <2>3, <2>4, <2>5
<1>2. \A i \in Servers : i <= made /\ ~Bound(i) => ~Bound(i)'
  BY NoneReborn
<1>3. /\ retire \in [Servers -> {"no", "due", "draining", "done"}]
      /\ life \in [Servers -> {"none", "bound", "failed", "shut"}]
  BY DEF EInv, TypeOK
<1>4. "ws" \in Endpoint /\ "status" \in Endpoint
  BY DEF Endpoint
\* Outside shutdown and retireServer nothing but that is needed.
<1>5. ASSUME stop' = stop \/ stop' \in {"running", "grace", "stopping ws"}
             \/ (stop = "waiting" /\ stop' = "exited"),
             seen' = seen \/ stop' = "stopping ws",
             \A i \in Servers : retire'[i] \in {"draining", "done"} =>
                 retire[i] \in {"draining", "done"} \/ ~Bound(i)'
      PROVE  StoppedAreClosed'
  <2>1. stop' \in {"stopping status", "waiting", "exited"} /\ seen'["ws"] # 0 =>
            ~Bound(seen["ws"])' /\ seen' = seen
    BY <1>1, <1>2, <1>4, <1>5 DEF StoppedAreClosed, Bound
  <2>2. stop' \in {"waiting", "exited"} /\ seen'["status"] # 0 =>
            ~Bound(seen["status"])' /\ seen' = seen
    BY <1>1, <1>2, <1>4, <1>5 DEF StoppedAreClosed, Bound
  <2>3. \A i \in Servers : retire'[i] \in {"draining", "done"} => ~Bound(i)'
    BY <1>1, <1>2, <1>5 DEF StoppedAreClosed
  <2> QED
    BY <2>1, <2>2, <2>3 DEF StoppedAreClosed, Bound
<1>6. CASE \E e \in Endpoint : StopServer(e)
  <2>1. PICK e \in Endpoint : StopServer(e)
    BY <1>6
  <2>2. UNCHANGED <<retire, seen>>
    BY <2>1 DEF StopServer
  <2>3. \A i \in Servers : retire'[i] \in {"draining", "done"} => ~Bound(i)'
    BY <1>1, <1>2, <2>2 DEF StoppedAreClosed
  <2>4. seen[e] # 0 => life'[seen[e]] # "bound"
    BY <1>1, <1>3, <2>1 DEF StopServer, Close
  <2>5. CASE e = "ws"
    <3>1. stop' = "stopping status"
      BY <2>1, <2>5 DEF StopServer, ToStop
    <3> QED
      BY <2>2, <2>3, <2>4, <2>5, <3>1 DEF StoppedAreClosed, Bound
  <2>6. CASE e = "status"
    <3>1. stop = "stopping status" /\ stop' = "waiting"
      BY <2>1, <2>6 DEF StopServer, ToStop
    <3>2. seen["ws"] # 0 => ~Bound(seen["ws"])'
      BY <1>1, <1>2, <1>4, <2>2, <3>1 DEF StoppedAreClosed, Bound
    <3> QED
      BY <2>2, <2>3, <2>4, <2>6, <3>1, <3>2 DEF StoppedAreClosed, Bound
  <2> QED
    BY <2>5, <2>6 DEF Endpoint
<1>7. CASE ReadServers \/ Exit \/ Shutdown
  BY <1>5, <1>7 DEF ReadServers, Exit, Shutdown, ToStop, serverVars
<1>8. CASE \E i \in Servers : Release(i)
  <2>1. PICK i \in Servers : Release(i)
    BY <1>8
  <2>2. UNCHANGED <<stop, seen>> /\ life'[i] # "bound"
    BY <1>3, <2>1 DEF Release, Close, stopVars
  <2>3. \A j \in Servers : retire'[j] = retire[j] \/ j = i
    BY <1>3, <2>1 DEF Release
  <2> QED
    BY <1>5, <2>2, <2>3 DEF Bound
<1>9. CASE \E i \in Servers : Retired(i) \/ ServeFails(i)
  <2>1. /\ UNCHANGED <<stop, seen>>
        /\ \A j \in Servers : retire'[j] = retire[j] \/ retire[j] = "draining"
    BY <1>3, <1>9 DEF Retired, ServeFails, stopVars
  <2> QED
    BY <1>5, <2>1
<1>10. CASE \E e \in Endpoint : Swap(e)
  <2>1. /\ UNCHANGED <<stop, seen>>
        /\ \A j \in Servers : retire'[j] = retire[j] \/ retire'[j] = "due"
    BY <1>3, <1>10 DEF Swap, stopVars
  <2> QED
    BY <1>5, <2>1
<1>11. CASE \/ Debounce \/ Load \/ Publish \/ WatchEnds \/ Write \/ Hangup \/ UNCHANGED vars
            \/ \E e \in Endpoint : Unmoved(e) \/ Rebind(e) \/ RebindFails(e)
  <2>1. UNCHANGED <<stop, seen, retire>>
    BY <1>11 DEF Debounce, Load, Publish, WatchEnds, Write, Hangup, Unmoved, Rebind,
       RebindFails, vars, serverVars, stopVars
  <2> QED
    BY <1>5, <2>1
<1> QED
  BY <1>6, <1>7, <1>8, <1>9, <1>10, <1>11 DEF Next, WatchStep, StopStep, RetireStep

\* Nothing but an overtaking reload can keep a shutdown waiting for a server that
\* nobody stops: the safe half of ShutdownEnds (shutdown, server.go:728-777).
THEOREM OnlyAReloadHoldsShutdown == Spec => []OnlyRetireesServe
<1>1. Init => StoppedAreClosed
  BY DEF Init, StoppedAreClosed
<1>2. EInv /\ StoppedAreClosed => OnlyRetireesServe
  <2> SUFFICES ASSUME EInv, StoppedAreClosed, stop = "waiting", next = 0, ~Overtaken,
                      NEW i \in Servers, Bound(i), retire[i] # "due"
               PROVE  FALSE
    BY DEF OnlyRetireesServe
  <2>1. retire[i] = "no"
    BY DEF EInv, TypeOK, StoppedAreClosed
  <2>2. PICK e \in Endpoint : i = current[e] /\ current[e] # 0
    BY <2>1 DEF EInv, NoneForgotten, Kept, Endpoint
  <2>3. current[e] = seen[e]
    BY <2>2 DEF Overtaken
  <2> QED
    BY <2>2, <2>3 DEF StoppedAreClosed, Endpoint
<1> QED
  BY Invariant, <1>1, <1>2, StoppedStay, PTL DEF Spec
=============================================================================
