--------------------------- MODULE ControlLinkProofs ---------------------------
(***************************************************************************)
(* Theorems about an established control connection, for any heartbeats    *)
(* and delays and any number of reloads and of failed dials.               *)
(***************************************************************************)
EXTENDS ControlLink, SequenceTheorems, TLAPS

\* The i-th message under way to the server carries the count.
Stat(i) == toServer[i].type = "stats"

\* The counts under way grow and none is above what the client has counted.
CountsGrow ==
    /\ \A i \in 1..Len(toServer) : Stat(i) => toServer[i].value <= failed
    /\ \A i, j \in 1..Len(toServer) :
           i < j /\ Stat(i) /\ Stat(j) => toServer[i].value <= toServer[j].value
    /\ acks <= failed /\ counted + acks <= MaxFailures + failed

\* What is under way to the client; without a reload both ends use one heartbeat.
OneHeartbeat ==
    /\ \A i \in 1..Len(toClient) :
           toClient[i].type = "reload_config" => toClient[i].value \in Heartbeats
    /\ reloads = 0 =>
           known = heartbeat /\ \A i \in 1..Len(toClient) : toClient[i].type = "ping"

\* The longest silence an end waits for.
Limit == IF reloads = 0 THEN 3 * heartbeat ELSE 3 * MaxHeartbeat

\* Behind the death of the link the deadlines only come nearer.
Deadlines ==
    /\ since + readLeft <= 3 * MaxHeartbeat
    /\ link = "dead" => toClient = <<>> /\ toServer = <<>>
    /\ link # "dead" => dead = 0
    /\ "server" \in ends => readLeft + dead <= Limit
    /\ "client" \in ends => clientLeft + dead <= Limit

\* The next message arrives in no more than this time.
ServerHears == IF toServer = <<>> THEN stats + MaxDelay ELSE toServer[1].left
ClientHears == IF toClient = <<>> THEN tick + MaxDelay ELSE toClient[1].left

\* While the link works the next message is nearer than every deadline.
InTime ==
    /\ link = "ok" => ends = {"server", "client"}
    /\ Moderate =>
         /\ link # "closed"
         /\ link = "ok" =>
              /\ since + ServerHears <= Period
              /\ ServerHears < readLeft /\ ClientHears < clientLeft

\* The counters agree for good, or the right count arrives or is sent in time.
Settled ==
    counted = failed /\ \A i \in 1..Len(toServer) : Stat(i) => toServer[i].value = failed
Arriving ==
    \E i \in 1..Len(toServer) :
        Stat(i) /\ toServer[i].value = failed /\ quiet + toServer[i].left <= Period
SentSoon == quiet + stats + MaxDelay <= Period
Settling == link = "ok" => Settled \/ Arriving \/ SentSoon

CInv == TypeOK /\ CountsGrow /\ OneHeartbeat /\ Deadlines /\ InTime /\ Settling

-----------------------------------------------------------------------------
\* Time and queues.

\* The longest heartbeat.
LEMMA Longest ==
    /\ MaxHeartbeat \in Heartbeats
    /\ \A h \in Heartbeats : h \in Nat /\ h > 0 /\ h <= MaxHeartbeat
<1>1. PICK h \in Heartbeats : \A g \in Heartbeats : g <= h
  BY HeartbeatsAssumption
<1>2. MaxHeartbeat \in Heartbeats /\ \A g \in Heartbeats : g <= MaxHeartbeat
  BY <1>1, Zenon DEF MaxHeartbeat
<1> QED
  BY <1>2, HeartbeatsAssumption

\* A message that has less time left.
Later(m) == [m EXCEPT !.left = @ - 1]

\* What aging does to a message under way.
LEMMA LaterSaid ==
    /\ \A m \in ServerSays : m.left > 0 =>
         /\ Later(m) \in ServerSays /\ Later(m).left = m.left - 1
         /\ Later(m).type = m.type /\ Later(m).value = m.value
    /\ \A m \in ClientSays : m.left > 0 =>
         /\ Later(m) \in ClientSays /\ Later(m).left = m.left - 1
         /\ Later(m).type = m.type /\ Later(m).value = m.value
BY BoundsAssumption DEF Later, ServerSays, ClientSays

\* What aging does to a queue.
LEMMA AgedEffect ==
    ASSUME NEW S, NEW q \in Seq(S),
           \A m \in S : m.left > 0 => Later(m) \in S,
           \A i \in 1..Len(q) : q[i].left > 0
    PROVE  /\ Aged(q) \in Seq(S)
           /\ Len(Aged(q)) = Len(q)
           /\ \A i \in 1..Len(q) : Aged(q)[i] = Later(q[i])
<1>1. Len(q) \in Nat /\ DOMAIN q = 1..Len(q) /\ \A i \in 1..Len(q) : q[i] \in S
  BY LenProperties, ElementOfSeq
<1>2. Aged(q) = [i \in 1..Len(q) |-> Later(q[i])]
  BY <1>1 DEF Aged, Later
<1>3. \A i \in 1..Len(q) : Later(q[i]) \in S
  BY <1>1
<1>4. [i \in 1..Len(q) |-> Later(q[i])] \in Seq(S)
  BY <1>1, <1>3, IsASeq
<1>5. Len(Aged(q)) = Len(q)
  BY <1>1, <1>2, <1>4, LenProperties
<1> QED
  BY <1>2, <1>4, <1>5

\* What wiring a message does, while the link works and when it does not.
LEMMA WiredEffect ==
    ASSUME NEW S, NEW q \in Seq(S), NEW type, NEW n, Message(type, n) \in S
    PROVE  /\ Wired(q, type, n) \in Seq(S)
           /\ link # "ok" => Wired(q, type, n) = q
           /\ link = "ok" =>
                /\ Len(Wired(q, type, n)) = Len(q) + 1
                /\ \A i \in 1..Len(q) : Wired(q, type, n)[i] = q[i]
                /\ Wired(q, type, n)[Len(q) + 1] = Message(type, n)
BY AppendProperties DEF Wired

\* What reading a message does.
LEMMA ReadEffect ==
    ASSUME NEW S, NEW q \in Seq(S), q # <<>>
    PROVE  /\ Len(q) \in Nat /\ Len(q) >= 1 /\ q[1] \in S /\ Head(q) = q[1]
           /\ Tail(q) \in Seq(S) /\ Len(Tail(q)) = Len(q) - 1
           /\ \A i \in 1..Len(Tail(q)) : Tail(q)[i] = q[i + 1]
BY HeadTailProperties, EmptySeq, LenProperties, ElementOfSeq

\* The numbers the arithmetic is about.
LEMMA Numbers ==
    TypeOK =>
        /\ MaxDelay \in Nat /\ MaxHeartbeat \in Nat /\ MaxHeartbeat > 0
        /\ MaxReloads \in Nat /\ MaxFailures \in Nat
        /\ Period \in Nat /\ Period = MaxHeartbeat + MaxDelay
        /\ \A h \in {heartbeat, interval, known, statsEvery} :
             h \in Heartbeats /\ h \in Nat /\ h > 0 /\ h <= MaxHeartbeat
        /\ Len(toClient) \in Nat /\ Len(toServer) \in Nat
        /\ \A i \in 1..Len(toClient) : toClient[i] \in ServerSays
        /\ \A i \in 1..Len(toServer) : toServer[i] \in ClientSays
        /\ toClient = <<>> <=> Len(toClient) = 0
        /\ toServer = <<>> <=> Len(toServer) = 0
        /\ {tick, stats, since, readLeft, clientLeft, dead, reloads, failed, acks, counted, quiet}
             \subseteq Nat
<1> SUFFICES ASSUME TypeOK
             PROVE  /\ MaxDelay \in Nat /\ MaxHeartbeat \in Nat /\ MaxHeartbeat > 0
                    /\ MaxReloads \in Nat /\ MaxFailures \in Nat
                    /\ Period \in Nat /\ Period = MaxHeartbeat + MaxDelay
                    /\ \A h \in {heartbeat, interval, known, statsEvery} :
                         h \in Heartbeats /\ h \in Nat /\ h > 0 /\ h <= MaxHeartbeat
                    /\ Len(toClient) \in Nat /\ Len(toServer) \in Nat
                    /\ \A i \in 1..Len(toClient) : toClient[i] \in ServerSays
                    /\ \A i \in 1..Len(toServer) : toServer[i] \in ClientSays
                    /\ toClient = <<>> <=> Len(toClient) = 0
                    /\ toServer = <<>> <=> Len(toServer) = 0
                    /\ {tick, stats, since, readLeft, clientLeft, dead, reloads, failed, acks,
                        counted, quiet} \subseteq Nat
  OBVIOUS
<1>1. /\ MaxDelay \in Nat /\ MaxHeartbeat \in Nat /\ MaxHeartbeat > 0
      /\ MaxReloads \in Nat /\ MaxFailures \in Nat
  BY Longest, BoundsAssumption
<1>2. Period \in Nat /\ Period = MaxHeartbeat + MaxDelay
  BY <1>1 DEF Period
<1>3. \A h \in {heartbeat, interval, known, statsEvery} :
        h \in Heartbeats /\ h \in Nat /\ h > 0 /\ h <= MaxHeartbeat
  BY Longest DEF TypeOK
<1>4. toClient \in Seq(ServerSays) /\ toServer \in Seq(ClientSays)
  BY DEF TypeOK
<1>5. /\ Len(toClient) \in Nat /\ Len(toServer) \in Nat
      /\ \A i \in 1..Len(toClient) : toClient[i] \in ServerSays
      /\ \A i \in 1..Len(toServer) : toServer[i] \in ClientSays
  BY <1>4, LenProperties, ElementOfSeq
<1>6. (toClient = <<>> <=> Len(toClient) = 0) /\ (toServer = <<>> <=> Len(toServer) = 0)
  BY <1>4, EmptySeq
<1>7. {tick, stats} \subseteq Nat /\ {since, readLeft, clientLeft} \subseteq Nat
  BY <1>1 DEF TypeOK
<1>8. dead \in Nat /\ reloads \in Nat /\ {failed, acks} \subseteq Nat
  BY <1>1 DEF TypeOK
<1>9. counted \in Nat /\ quiet \in Nat
  BY <1>1, <1>2 DEF TypeOK
<1> QED
  BY <1>1, <1>2, <1>3, <1>5, <1>6, <1>7, <1>8, <1>9

\* What the ends say to each other.
LEMMA MessagesSaid ==
    /\ Message("ping", 0) \in ServerSays
    /\ \A h \in Heartbeats : Message("reload_config", h) \in ServerSays
    /\ Message("pong", 0) \in ClientSays
    /\ \A n \in 0..MaxFailures : Message("stats", n) \in ClientSays
BY BoundsAssumption DEF Message, ServerSays, ClientSays

\* What the passing of time does to both wires.
LEMMA TickEffect ==
    ASSUME TypeOK, Tick
    PROVE  /\ toClient' \in Seq(ServerSays) /\ Len(toClient') = Len(toClient)
           /\ \A i \in 1..Len(toClient) :
                /\ toClient'[i].type = toClient[i].type
                /\ toClient'[i].value = toClient[i].value
                /\ toClient'[i].left = toClient[i].left - 1
           /\ toServer' \in Seq(ClientSays) /\ Len(toServer') = Len(toServer)
           /\ \A i \in 1..Len(toServer) :
                /\ toServer'[i].type = toServer[i].type
                /\ toServer'[i].value = toServer[i].value
                /\ toServer'[i].left = toServer[i].left - 1
<1>1. toClient \in Seq(ServerSays) /\ toServer \in Seq(ClientSays)
  BY DEF TypeOK
<1>2. DOMAIN toClient = 1..Len(toClient) /\ DOMAIN toServer = 1..Len(toServer)
  BY <1>1, LenProperties
<1>3. /\ \A i \in 1..Len(toClient) : toClient[i].left > 0
      /\ \A i \in 1..Len(toServer) : toServer[i].left > 0
  BY <1>2 DEF Tick
<1>4. toClient' = Aged(toClient) /\ toServer' = Aged(toServer)
  BY DEF Tick
<1>5. /\ Aged(toClient) \in Seq(ServerSays) /\ Len(Aged(toClient)) = Len(toClient)
      /\ \A i \in 1..Len(toClient) : Aged(toClient)[i] = Later(toClient[i])
  BY <1>1, <1>3, LaterSaid, AgedEffect
<1>6. /\ Aged(toServer) \in Seq(ClientSays) /\ Len(Aged(toServer)) = Len(toServer)
      /\ \A i \in 1..Len(toServer) : Aged(toServer)[i] = Later(toServer[i])
  BY <1>1, <1>3, LaterSaid, AgedEffect
<1>7. /\ \A i \in 1..Len(toClient) : toClient[i] \in ServerSays
      /\ \A i \in 1..Len(toServer) : toServer[i] \in ClientSays
  BY <1>1, ElementOfSeq
<1> QED
  BY <1>3, <1>4, <1>5, <1>6, <1>7, LaterSaid

-----------------------------------------------------------------------------
\* Preservation, conjunct by conjunct.

\* The invariant holds initially.
LEMMA InitInv == Init => CInv
<1> SUFFICES ASSUME Init PROVE CInv
  OBVIOUS
<1>1. heartbeat \in Nat /\ heartbeat > 0 /\ heartbeat <= MaxHeartbeat
  BY Longest DEF Init
<1>2. MaxHeartbeat \in Nat /\ MaxDelay \in Nat /\ MaxReloads \in Nat /\ MaxFailures \in Nat
  BY Longest, BoundsAssumption
<1>3. toClient = <<>> /\ toServer = <<>> /\ Len(toClient) = 0 /\ Len(toServer) = 0
  BY EmptySeq DEF Init
<1>4. TypeOK
  <2>1. {heartbeat, interval, known, statsEvery} \subseteq Heartbeats
    BY DEF Init
  <2>2. {tick, stats} \subseteq 0..MaxHeartbeat /\ {since, readLeft, clientLeft} \subseteq 0 .. 3 * MaxHeartbeat
    BY <1>1, <1>2 DEF Init
  <2>3. toClient \in Seq(ServerSays) /\ toServer \in Seq(ClientSays)
    BY <1>3, EmptySeq
  <2>4. /\ dead \in Nat /\ reloads \in 0..MaxReloads /\ {failed, acks} \subseteq 0..MaxFailures
        /\ counted \in 0 .. 2 * MaxFailures
    BY <1>2 DEF Init
  <2>5. quiet \in 0 .. Period + 1
    BY <1>2 DEF Init, Period
  <2> QED
    BY <2>1, <2>2, <2>3, <2>4, <2>5 DEF Init, TypeOK
<1>5. CountsGrow
  BY <1>2, <1>3 DEF Init, CountsGrow
<1>6. OneHeartbeat
  BY <1>3 DEF Init, OneHeartbeat
<1>7. Deadlines
  BY <1>1, <1>2, <1>3 DEF Init, Deadlines, Limit
<1>8. InTime
  <2>1. Moderate => MaxHeartbeat + MaxDelay < 3 * heartbeat
    BY Longest DEF Init, Moderate
  <2> QED
    BY <1>1, <1>2, <1>3, <2>1 DEF Init, InTime, ServerHears, ClientHears, Period
<1>9. Settling
  BY <1>3 DEF Init, Settling, Settled
<1> QED
  BY <1>4, <1>5, <1>6, <1>7, <1>8, <1>9 DEF CInv

\* The counts on the wire.
LEMMA CountsNext == ASSUME CInv, Next PROVE CountsGrow'
<1> USE DEF CInv
<1>n. TypeOK
  OBVIOUS
<1>a. /\ MaxFailures \in Nat /\ {failed, acks, counted} \subseteq Nat /\ acks <= MaxFailures
      /\ failed <= MaxFailures
      /\ toServer \in Seq(ClientSays) /\ Len(toServer) \in Nat
      /\ \A i \in 1..Len(toServer) : toServer[i] \in ClientSays
  BY <1>n, Numbers DEF TypeOK
<1>b. /\ \A i \in 1..Len(toServer) : Stat(i) => toServer[i].value <= failed
      /\ \A i, j \in 1..Len(toServer) :
           i < j /\ Stat(i) /\ Stat(j) => toServer[i].value <= toServer[j].value
      /\ acks <= failed /\ counted + acks <= MaxFailures + failed
  BY DEF CountsGrow
<1>v. \A i \in 1..Len(toServer) : toServer[i].value \in Nat
  BY <1>a DEF ClientSays
<1>1. CASE Reload
  BY <1>1, <1>b DEF Reload, CountsGrow, Stat, counters
<1>2. CASE Ping
  BY <1>2, <1>b DEF Ping, CountsGrow, Stat, counters
<1>3. CASE ServerReads
  <2>1. /\ toServer' \in Seq(ClientSays) /\ Len(toServer') = Len(toServer) - 1
        /\ Len(toServer) >= 1 /\ Head(toServer) = toServer[1]
        /\ \A i \in 1..Len(toServer') : toServer'[i] = toServer[i + 1]
    BY <1>3, <1>a, ReadEffect DEF ServerReads
  <2>2. \A i \in 1..Len(toServer') :
          i + 1 \in 1..Len(toServer) /\ (Stat(i)' <=> Stat(i + 1))
    BY <1>a, <2>1 DEF Stat
  <2>3. failed' = failed /\ acks' = acks /\ counted' + acks <= MaxFailures + failed
    <3>1. CASE Head(toServer).type = "stats"
      <4>1. counted' = toServer[1].value /\ Stat(1) /\ 1 \in 1..Len(toServer)
        BY <1>3, <1>a, <2>1, <3>1 DEF ServerReads, Stat
      <4> QED
        BY <1>3, <1>a, <1>b, <1>v, <4>1 DEF ServerReads
    <3>2. CASE Head(toServer).type # "stats"
      BY <1>3, <1>b, <3>2 DEF ServerReads
    <3> QED
      BY <3>1, <3>2
  <2>4. \A i \in 1..Len(toServer') : Stat(i)' => toServer'[i].value <= failed'
    BY <1>b, <2>1, <2>2, <2>3
  <2>5. \A i, j \in 1..Len(toServer') :
           i < j /\ Stat(i)' /\ Stat(j)' => toServer'[i].value <= toServer'[j].value
    BY <1>b, <2>1, <2>2
  <2> QED
    BY <1>b, <2>3, <2>4, <2>5 DEF CountsGrow
<1>4. CASE ServerTimesOut
  BY <1>4, <1>b DEF ServerTimesOut, CountsGrow, Stat, counters, wires
<1>5. CASE ClientReads
  <2>1. /\ failed' = failed /\ acks' = acks /\ counted' = counted
        /\ toServer' = toServer \/ toServer' = Wired(toServer, "pong", 0)
    BY <1>5 DEF ClientReads, counters
  <2>2. CASE toServer' = toServer
    BY <1>b, <2>1, <2>2 DEF CountsGrow, Stat
  <2>3. CASE toServer' # toServer
    <3>1. /\ Len(toServer') = Len(toServer) + 1
          /\ \A i \in 1..Len(toServer) : toServer'[i] = toServer[i]
          /\ toServer'[Len(toServer) + 1] = Message("pong", 0)
      <4>1. link = "ok" /\ toServer' = Wired(toServer, "pong", 0)
        BY <2>1, <2>3 DEF Wired
      <4>2. Message("pong", 0) \in ClientSays
        BY MessagesSaid
      <4> QED
        BY <1>a, <4>1, <4>2, WiredEffect
    <3>2. \A i \in 1..Len(toServer') :
            Stat(i)' => i \in 1..Len(toServer) /\ Stat(i) /\ toServer'[i] = toServer[i]
      BY <1>a, <3>1 DEF Stat, Message
    <3> QED
      BY <1>b, <2>1, <3>2 DEF CountsGrow
  <2> QED
    BY <2>2, <2>3
<1>6. CASE ClientTimesOut
  BY <1>6, <1>b DEF ClientTimesOut, CountsGrow, Stat, counters, wires
<1>7. CASE Stats
  <2>1. /\ failed' = failed /\ acks' = acks /\ counted' = counted
        /\ toServer' = Wired(toServer, "stats", failed)
    BY <1>7 DEF Stats, counters
  <2>2. CASE link # "ok"
    BY <1>b, <2>1, <2>2 DEF CountsGrow, Stat, Wired
  <2>3. CASE link = "ok"
    <3>1. Message("stats", failed) \in ClientSays
      BY <1>a, MessagesSaid
    <3>2. /\ Len(toServer') = Len(toServer) + 1
          /\ \A i \in 1..Len(toServer) : toServer'[i] = toServer[i]
          /\ toServer'[Len(toServer) + 1].value = failed
      BY <1>a, <2>1, <2>3, <3>1, WiredEffect DEF Message
    <3>3. \A i \in 1..Len(toServer') :
            \/ i \in 1..Len(toServer) /\ (Stat(i)' <=> Stat(i)) /\ toServer'[i] = toServer[i]
            \/ i = Len(toServer) + 1 /\ toServer'[i].value = failed
      BY <1>a, <3>2 DEF Stat
    <3>4. \A i \in 1..Len(toServer') : Stat(i)' => toServer'[i].value <= failed'
      BY <1>a, <1>b, <2>1, <3>3
    <3>5. \A i, j \in 1..Len(toServer') :
             i < j /\ Stat(i)' /\ Stat(j)' => toServer'[i].value <= toServer'[j].value
      BY <1>a, <1>b, <2>1, <3>2, <3>3
    <3> QED
      BY <1>b, <2>1, <3>4, <3>5 DEF CountsGrow
  <2> QED
    BY <2>2, <2>3
<1>8. CASE DialFails
  <2>1. /\ failed' = failed + 1 /\ acks' = acks + 1 /\ counted' = counted
        /\ toServer' = toServer
    BY <1>8 DEF DialFails, wires
  <2>2. \A i \in 1..Len(toServer') : Stat(i)' => toServer'[i].value <= failed'
    BY <1>a, <1>b, <1>v, <2>1 DEF Stat
  <2>3. \A i, j \in 1..Len(toServer') :
           i < j /\ Stat(i)' /\ Stat(j)' => toServer'[i].value <= toServer'[j].value
    BY <1>b, <2>1 DEF Stat
  <2>4. acks' <= failed' /\ counted' + acks' <= MaxFailures + failed'
    BY <1>a, <1>b, <2>1
  <2> QED
    BY <2>2, <2>3, <2>4 DEF CountsGrow
<1>9. CASE AckArrives
  <2>1. /\ failed' = failed /\ acks' = acks - 1 /\ acks > 0
        /\ counted' = counted + 1 \/ counted' = counted
        /\ toServer' = toServer
    BY <1>9 DEF AckArrives, wires
  <2>2. acks' <= failed' /\ counted' + acks' <= MaxFailures + failed'
    BY <1>a, <1>b, <2>1
  <2> QED
    BY <1>b, <2>1, <2>2 DEF CountsGrow, Stat
<1>10. CASE Die
  <2>1. Len(toServer') = 0 /\ failed' = failed /\ acks' = acks /\ counted' = counted
    BY <1>10, EmptySeq DEF Die, counters
  <2> QED
    BY <1>b, <2>1 DEF CountsGrow
<1>11. CASE Tick
  <2>1. /\ Len(toServer') = Len(toServer)
        /\ \A i \in 1..Len(toServer) :
             toServer'[i].type = toServer[i].type /\ toServer'[i].value = toServer[i].value
    BY <1>11, <1>n, TickEffect
  <2>2. failed' = failed /\ acks' = acks /\ counted' = counted
    BY <1>11 DEF Tick
  <2>3. \A i \in 1..Len(toServer) : Stat(i)' <=> Stat(i)
    BY <2>1 DEF Stat
  <2> QED
    BY <1>b, <2>1, <2>2, <2>3 DEF CountsGrow
<1> QED
  BY <1>1, <1>2, <1>3, <1>4, <1>5, <1>6, <1>7, <1>8, <1>9, <1>10, <1>11 DEF Next

\* What is on the wire to the client.
LEMMA HeartbeatNext == ASSUME CInv, Next PROVE OneHeartbeat'
<1> USE DEF CInv
<1>n. TypeOK
  OBVIOUS
<1>a. /\ toClient \in Seq(ServerSays) /\ Len(toClient) \in Nat /\ reloads \in Nat
      /\ heartbeat \in Heartbeats
  BY <1>n, Numbers DEF TypeOK
<1>b. /\ \A i \in 1..Len(toClient) :
           toClient[i].type = "reload_config" => toClient[i].value \in Heartbeats
      /\ reloads = 0 =>
           known = heartbeat /\ \A i \in 1..Len(toClient) : toClient[i].type = "ping"
  BY DEF OneHeartbeat
<1>1. CASE Reload
  <2>1. heartbeat' \in Heartbeats /\ reloads' = reloads + 1 /\ reloads' # 0
    BY <1>1, <1>a DEF Reload
  <2>2. Message("reload_config", heartbeat') \in ServerSays
    BY <2>1, MessagesSaid
  <2>3. toClient' = Wired(toClient, "reload_config", heartbeat')
    BY <1>1 DEF Reload
  <2>4. CASE link # "ok"
    BY <1>a, <1>b, <2>1, <2>2, <2>3, <2>4, WiredEffect DEF OneHeartbeat
  <2>5. CASE link = "ok"
    <3>1. /\ Len(toClient') = Len(toClient) + 1
          /\ \A i \in 1..Len(toClient) : toClient'[i] = toClient[i]
          /\ toClient'[Len(toClient) + 1] = Message("reload_config", heartbeat')
      BY <1>a, <2>2, <2>3, <2>5, WiredEffect
    <3>2. \A i \in 1..Len(toClient') : i \in 1..Len(toClient) \/ i = Len(toClient) + 1
      BY <1>a, <3>1
    <3>3. \A i \in 1..Len(toClient') :
            toClient'[i].type = "reload_config" => toClient'[i].value \in Heartbeats
      BY <1>b, <2>1, <3>1, <3>2 DEF Message
    <3> QED
      BY <2>1, <3>3 DEF OneHeartbeat
  <2> QED
    BY <2>4, <2>5
<1>2. CASE Ping
  <2>1. /\ heartbeat' = heartbeat /\ known' = known /\ reloads' = reloads
        /\ toClient' = toClient \/ toClient' = Wired(toClient, "ping", 0)
    BY <1>2 DEF Ping, clientTimers
  <2>2. CASE toClient' = toClient
    BY <1>b, <2>1, <2>2 DEF OneHeartbeat
  <2>3. CASE toClient' # toClient
    <3>1. link = "ok" /\ toClient' = Wired(toClient, "ping", 0)
      BY <2>1, <2>3 DEF Wired
    <3>2. Message("ping", 0) \in ServerSays
      BY MessagesSaid
    <3>3. /\ Len(toClient') = Len(toClient) + 1
          /\ \A i \in 1..Len(toClient) : toClient'[i] = toClient[i]
          /\ toClient'[Len(toClient) + 1].type = "ping"
      BY <1>a, <3>1, <3>2, WiredEffect DEF Message
    <3>4. \A i \in 1..Len(toClient') : i \in 1..Len(toClient) \/ i = Len(toClient) + 1
      BY <1>a, <3>3
    <3> QED
      BY <1>b, <2>1, <3>3, <3>4 DEF OneHeartbeat
  <2> QED
    BY <2>2, <2>3
<1>3. CASE ServerReads
  BY <1>3, <1>b DEF ServerReads, OneHeartbeat, clientTimers
<1>4. CASE ServerTimesOut
  BY <1>4, <1>b DEF ServerTimesOut, OneHeartbeat, clientTimers, wires
<1>5. CASE ClientReads
  <2>1. /\ toClient' \in Seq(ServerSays) /\ Len(toClient') = Len(toClient) - 1
        /\ Len(toClient) >= 1 /\ Head(toClient) = toClient[1]
        /\ \A i \in 1..Len(toClient') : toClient'[i] = toClient[i + 1]
    BY <1>5, <1>a, ReadEffect DEF ClientReads
  <2>2. 1 \in 1..Len(toClient) /\ \A i \in 1..Len(toClient') : i + 1 \in 1..Len(toClient)
    BY <1>a, <2>1
  <2>3. heartbeat' = heartbeat /\ reloads' = reloads /\ (reloads = 0 => known' = known)
    BY <1>5, <1>b, <2>1, <2>2 DEF ClientReads
  <2> QED
    BY <1>b, <2>1, <2>2, <2>3 DEF OneHeartbeat
<1>6. CASE ClientTimesOut
  BY <1>6, <1>b DEF ClientTimesOut, OneHeartbeat, clientTimers, wires
<1>7. CASE Stats
  BY <1>7, <1>b DEF Stats, OneHeartbeat
<1>8. CASE DialFails
  BY <1>8, <1>b DEF DialFails, OneHeartbeat, clientTimers, wires
<1>9. CASE AckArrives
  BY <1>9, <1>b DEF AckArrives, OneHeartbeat, clientTimers, wires
<1>10. CASE Die
  <2>1. Len(toClient') = 0 /\ heartbeat' = heartbeat /\ known' = known /\ reloads' = reloads
    BY <1>10, EmptySeq DEF Die, clientTimers
  <2> QED
    BY <1>b, <2>1 DEF OneHeartbeat
<1>11. CASE Tick
  <2>1. /\ Len(toClient') = Len(toClient)
        /\ \A i \in 1..Len(toClient) :
             toClient'[i].type = toClient[i].type /\ toClient'[i].value = toClient[i].value
    BY <1>11, <1>n, TickEffect
  <2>2. heartbeat' = heartbeat /\ known' = known /\ reloads' = reloads
    BY <1>11 DEF Tick
  <2> QED
    BY <1>b, <2>1, <2>2 DEF OneHeartbeat
<1> QED
  BY <1>1, <1>2, <1>3, <1>4, <1>5, <1>6, <1>7, <1>8, <1>9, <1>10, <1>11 DEF Next

\* The deadlines behind the death of the link.
LEMMA DeadlinesNext == ASSUME CInv, Next PROVE Deadlines'
<1> USE DEF CInv
<1>n. TypeOK
  OBVIOUS
<1>a. /\ {heartbeat, known, MaxHeartbeat, since, readLeft, clientLeft, dead, reloads} \subseteq Nat
      /\ heartbeat <= MaxHeartbeat /\ known <= MaxHeartbeat
      /\ \A h \in Heartbeats : h \in Nat /\ h <= MaxHeartbeat
  BY <1>n, Numbers, Longest DEF TypeOK
<1>m. MaxHeartbeat' = MaxHeartbeat
  BY DEF MaxHeartbeat
<1>d. Deadlines
  OBVIOUS
<1>1. CASE Reload
  <2>1. /\ reloads' = reloads + 1 /\ link' = link /\ ends' = ends /\ dead' = dead
        /\ since' = since /\ readLeft' = readLeft /\ clientLeft' = clientLeft
        /\ toServer' = toServer
        /\ link = "dead" => toClient' = toClient
    BY <1>1 DEF Reload, serverTimers, clientTimers, fate, Wired
  <2>2. Limit <= Limit'
    BY <1>a, <1>m, <2>1 DEF Limit
  <2>3. Limit \in Nat /\ Limit' \in Nat
    BY <1>a, <1>m, <2>1 DEF Limit
  <2> QED
    BY <1>a, <1>m, <1>d, <2>1, <2>2, <2>3 DEF Deadlines
<1>2. CASE Ping
  <2>1. /\ since' = since /\ readLeft' = readLeft /\ clientLeft' = clientLeft
        /\ heartbeat' = heartbeat /\ reloads' = reloads /\ toServer' = toServer
    BY <1>2 DEF Ping, clientTimers
  <2>2. /\ ends' \subseteq ends /\ dead' = dead /\ (link' = "dead" <=> link = "dead")
        /\ link = "dead" => toClient' = toClient
    BY <1>2 DEF Ping, GiveUp, fate, Wired
  <2> QED
    BY <1>m, <1>d, <2>1, <2>2 DEF Deadlines, Limit
<1>3. CASE ServerReads
  <2>1. /\ since' = 0 /\ readLeft' = 3 * heartbeat /\ clientLeft' = clientLeft
        /\ heartbeat' = heartbeat /\ reloads' = reloads /\ toServer # <<>>
        /\ link' = link /\ ends' = ends /\ dead' = dead
    BY <1>3 DEF ServerReads, clientTimers, fate
  <2>2. link # "dead" /\ dead = 0
    BY <1>d, <2>1 DEF Deadlines
  <2> QED
    BY <1>a, <1>m, <1>d, <2>1, <2>2 DEF Deadlines, Limit
<1>4. CASE ServerTimesOut
  BY <1>4, <1>m, <1>d
     DEF ServerTimesOut, GiveUp, Deadlines, Limit, serverTimers, clientTimers, wires
<1>5. CASE ClientReads
  <2>1. /\ since' = since /\ readLeft' = readLeft /\ clientLeft' = 3 * known'
        /\ heartbeat' = heartbeat /\ reloads' = reloads /\ toClient # <<>>
        /\ link' = link /\ ends' = ends /\ dead' = dead
    BY <1>5 DEF ClientReads, serverTimers, fate
  <2>2. link # "dead" /\ dead = 0
    BY <1>d, <2>1 DEF Deadlines
  <2>3. known' \in Heartbeats
    <3>1. /\ Head(toClient) = toClient[1] /\ 1 \in 1..Len(toClient)
      BY <2>1, <1>n, ReadEffect, Numbers DEF TypeOK
    <3> QED
      BY <1>5, <3>1, <1>n DEF ClientReads, OneHeartbeat, TypeOK
  <2>4. reloads = 0 => known' = heartbeat
    BY <2>1, HeartbeatNext DEF OneHeartbeat
  <2>5. 3 * known' <= Limit'
    BY <1>a, <1>m, <2>1, <2>3, <2>4 DEF Limit
  <2>6. since' + readLeft' <= 3 * MaxHeartbeat' /\ ("server" \in ends' => readLeft' + dead' <= Limit')
    BY <1>m, <1>d, <2>1 DEF Deadlines, Limit
  <2>7. clientLeft' + dead' <= Limit'
    BY <1>a, <1>m, <2>1, <2>2, <2>3, <2>5
  <2> QED
    BY <1>d, <2>1, <2>2, <2>6, <2>7 DEF Deadlines
<1>6. CASE ClientTimesOut
  BY <1>6, <1>m, <1>d
     DEF ClientTimesOut, GiveUp, Deadlines, Limit, serverTimers, clientTimers, wires
<1>7. CASE Stats
  <2>1. /\ since' = since /\ readLeft' = readLeft /\ clientLeft' = clientLeft
        /\ heartbeat' = heartbeat /\ reloads' = reloads /\ toClient' = toClient
        /\ link' = link /\ ends' = ends /\ dead' = dead
        /\ link = "dead" => toServer' = toServer
    BY <1>7 DEF Stats, serverTimers, fate, Wired
  <2> QED
    BY <1>m, <1>d, <2>1 DEF Deadlines, Limit
<1>8. CASE DialFails
  BY <1>8, <1>m, <1>d DEF DialFails, Deadlines, Limit, serverTimers, clientTimers, wires, fate
<1>9. CASE AckArrives
  BY <1>9, <1>m, <1>d DEF AckArrives, Deadlines, Limit, serverTimers, clientTimers, wires, fate
<1>10. CASE Die
  BY <1>10, <1>m, <1>d DEF Die, Deadlines, Limit, serverTimers, clientTimers
<1>11. CASE Tick
  <2>1. /\ toClient = <<>> => toClient' = <<>>
        /\ toServer = <<>> => toServer' = <<>>
    BY <1>11, <1>n, TickEffect, EmptySeq, Numbers
  <2>2. /\ heartbeat' = heartbeat /\ reloads' = reloads /\ link' = link /\ ends' = ends
        /\ IF "server" \in ends THEN readLeft' = readLeft - 1 /\ since' = since + 1
           ELSE readLeft' = readLeft /\ since' = since
        /\ "client" \in ends => clientLeft' = clientLeft - 1
        /\ dead' = IF link = "dead" THEN dead + 1 ELSE dead
    BY <1>11 DEF Tick
  <2>3. Limit' = Limit /\ Limit \in Nat
    BY <1>a, <1>m, <2>2 DEF Limit
  <2>4. since' + readLeft' <= 3 * MaxHeartbeat'
    BY <1>a, <1>m, <1>d, <2>2 DEF Deadlines
  <2>5. dead' \in Nat /\ dead' <= dead + 1
    BY <1>a, <2>2
  <2>6. ASSUME "server" \in ends' PROVE readLeft' + dead' <= Limit'
    <3>1. readLeft' = readLeft - 1 /\ readLeft + dead <= Limit
      BY <1>d, <2>2, <2>6 DEF Deadlines
    <3> QED
      BY <1>a, <2>3, <2>5, <3>1
  <2>7. ASSUME "client" \in ends' PROVE clientLeft' + dead' <= Limit'
    <3>1. clientLeft' = clientLeft - 1 /\ clientLeft + dead <= Limit
      BY <1>d, <2>2, <2>7 DEF Deadlines
    <3> QED
      BY <1>a, <2>3, <2>5, <3>1
  <2> QED
    BY <1>d, <2>1, <2>2, <2>4, <2>6, <2>7 DEF Deadlines
<1> QED
  BY <1>1, <1>2, <1>3, <1>4, <1>5, <1>6, <1>7, <1>8, <1>9, <1>10, <1>11 DEF Next

\* The head of a queue to which a message was added on a working link.
LEMMA WiredHead ==
    ASSUME NEW S, NEW q \in Seq(S), NEW type, NEW n, Message(type, n) \in S, link = "ok"
    PROVE  /\ Wired(q, type, n) # <<>>
           /\ q = <<>> => Wired(q, type, n)[1].left = MaxDelay
           /\ q # <<>> => Wired(q, type, n)[1] = q[1]
<1>1. Len(q) \in Nat /\ (q = <<>> <=> Len(q) = 0)
  BY LenProperties, EmptySeq
<1>2. /\ Wired(q, type, n) \in Seq(S) /\ Len(Wired(q, type, n)) = Len(q) + 1
      /\ \A i \in 1..Len(q) : Wired(q, type, n)[i] = q[i]
      /\ Wired(q, type, n)[Len(q) + 1] = Message(type, n)
  BY WiredEffect
<1>3. Wired(q, type, n) # <<>>
  BY <1>1, <1>2, EmptySeq
<1>4. Message(type, n).left = MaxDelay
  BY DEF Message
<1>5. ASSUME q = <<>> PROVE Wired(q, type, n)[1].left = MaxDelay
  BY <1>1, <1>2, <1>4, <1>5
<1>6. ASSUME q # <<>> PROVE Wired(q, type, n)[1] = q[1]
  BY <1>1, <1>2, <1>6
<1> QED
  BY <1>3, <1>5, <1>6

\* When the next messages arrive.
HeardSoon ==
    /\ ServerHears \in Nat /\ ClientHears \in Nat
    /\ ServerHears <= Period /\ ClientHears <= Period
    /\ toServer # <<>> => ServerHears = toServer[1].left /\ toServer[1].left <= MaxDelay
    /\ toClient # <<>> => ClientHears = toClient[1].left /\ toClient[1].left <= MaxDelay

\* The next messages arrive within a period.
LEMMA HearingIsSoon == TypeOK => HeardSoon
<1> SUFFICES ASSUME TypeOK PROVE HeardSoon
  OBVIOUS
<1>1. /\ MaxDelay \in Nat /\ MaxHeartbeat \in Nat /\ Period = MaxHeartbeat + MaxDelay
      /\ {tick, stats} \subseteq Nat
  BY Numbers
<1>2. tick <= MaxHeartbeat /\ stats <= MaxHeartbeat
  BY <1>1 DEF TypeOK
<1>3. ASSUME toServer # <<>> PROVE toServer[1].left \in Nat /\ toServer[1].left <= MaxDelay
  <2>1. toServer[1] \in ClientSays
    BY <1>3, ReadEffect DEF TypeOK
  <2> QED
    BY <1>1, <2>1 DEF ClientSays
<1>4. ASSUME toClient # <<>> PROVE toClient[1].left \in Nat /\ toClient[1].left <= MaxDelay
  <2>1. toClient[1] \in ServerSays
    BY <1>4, ReadEffect DEF TypeOK
  <2> QED
    BY <1>1, <2>1 DEF ServerSays
<1> QED
  BY <1>1, <1>2, <1>3, <1>4 DEF HeardSoon, ServerHears, ClientHears

\* A silence that starts, and one that ends sooner.
LEMMA SilenceSum ==
    /\ \A a, b, p \in Nat : a = 0 /\ b <= p => a + b <= p
    /\ \A a, b, c, p \in Nat : b <= c /\ a + c <= p => a + b <= p
OBVIOUS

\* Every deadline is behind the next message.
LEMMA InTimeNext == ASSUME CInv, Next, TypeOK' PROVE InTime'
<1> USE DEF CInv
<1>n. TypeOK
  OBVIOUS
<1>a. /\ heartbeat \in Nat /\ known \in Nat /\ MaxDelay \in Nat /\ Period \in Nat
      /\ tick \in Nat /\ stats \in Nat
      /\ since \in Nat /\ readLeft \in Nat /\ clientLeft \in Nat
      /\ heartbeat \in Heartbeats /\ known \in Heartbeats /\ MaxHeartbeat \in Heartbeats
      /\ Period = MaxHeartbeat + MaxDelay /\ MaxHeartbeat \in Nat
      /\ toClient \in Seq(ServerSays) /\ toServer \in Seq(ClientSays)
  BY <1>n, Numbers, Longest DEF TypeOK
<1>t. tick <= MaxHeartbeat /\ stats <= MaxHeartbeat
  BY <1>n, Numbers DEF TypeOK
<1>p. Period' = Period
  BY DEF Period, MaxHeartbeat
<1>b. link = "ok" => ends = {"server", "client"}
  BY DEF InTime
<1>h. /\ ServerHears \in Nat /\ ClientHears \in Nat
      /\ ServerHears <= Period /\ ClientHears <= Period
      /\ toServer # <<>> => ServerHears = toServer[1].left /\ toServer[1].left <= MaxDelay
      /\ toClient # <<>> => ClientHears = toClient[1].left /\ toClient[1].left <= MaxDelay
  BY <1>n, HearingIsSoon DEF HeardSoon
<1>k. /\ ServerHears' \in Nat /\ ClientHears' \in Nat
      /\ ServerHears' <= Period /\ ClientHears' <= Period
  <2>1. HeardSoon'
    BY HearingIsSoon, PTL
  <2> QED
    BY <1>p, <2>1 DEF HeardSoon
<1>r. since' \in Nat /\ readLeft' \in Nat /\ clientLeft' \in Nat
  BY <1>a DEF TypeOK, MaxHeartbeat
<1>u. Moderate' <=> Moderate
  BY DEF Moderate
<1>e. link' = "ok" => ends' = {"server", "client"}
  <2>1. (ends' = ends /\ link' = link) \/ link' # "ok"
    BY DEF Next, Reload, Ping, ServerReads, AckArrives, ServerTimesOut, ClientReads,
           ClientTimesOut, DialFails, Stats, Die, Tick, GiveUp, fate
  <2> QED
    BY <1>b, <2>1
<1>q. SUFFICES ASSUME Moderate
               PROVE  /\ link' # "closed"
                      /\ link' = "ok" =>
                           /\ since' + ServerHears' <= Period
                           /\ ServerHears' < readLeft' /\ ClientHears' < clientLeft'
  BY <1>e, <1>p, <1>u DEF InTime
<1>m. \A h \in Heartbeats : Period < 3 * h
  BY <1>a, <1>q DEF Moderate
<1>o. /\ link # "closed"
      /\ link = "ok" =>
           /\ since + ServerHears <= Period
           /\ ServerHears < readLeft /\ ClientHears < clientLeft
  BY <1>q DEF InTime
<1>1. CASE Reload
  <2>1. /\ link' = link /\ toServer' = toServer /\ stats' = stats /\ tick' = tick
        /\ since' = since /\ readLeft' = readLeft /\ clientLeft' = clientLeft
        /\ heartbeat' \in Heartbeats
        /\ toClient' = Wired(toClient, "reload_config", heartbeat')
    BY <1>1 DEF Reload, serverTimers, clientTimers, fate
  <2>2. ServerHears' = ServerHears
    BY <2>1 DEF ServerHears
  <2>3. link = "ok" => ClientHears' <= ClientHears
    <3>1. Message("reload_config", heartbeat') \in ServerSays
      BY <2>1, MessagesSaid
    <3>2. link = "ok" =>
            /\ toClient' # <<>>
            /\ toClient = <<>> => toClient'[1].left = MaxDelay
            /\ toClient # <<>> => toClient'[1] = toClient[1]
      BY <1>a, <2>1, <3>1, WiredHead
    <3> QED
      BY <1>a, <1>h, <2>1, <3>2 DEF ClientHears
  <2> QED
    BY <1>a, <1>h, <1>k, <1>o, <2>1, <2>2, <2>3
<1>2. CASE Ping
  <2>1. /\ toServer' = toServer /\ stats' = stats
        /\ since' = since /\ readLeft' = readLeft /\ clientLeft' = clientLeft
    BY <1>2 DEF Ping, clientTimers
  <2>2. ServerHears' = ServerHears
    BY <2>1 DEF ServerHears
  <2>3. CASE link # "ok"
    BY <1>2, <1>o, <2>3 DEF Ping, GiveUp, fate
  <2>4. CASE link = "ok"
    <3>1. ~(since > 3 * heartbeat)
      BY <1>a, <1>h, <1>m, <1>o, <2>4
    <3>2. link' = link /\ toClient' = Wired(toClient, "ping", 0) /\ tick = 0
      BY <1>2, <3>1 DEF Ping, fate
    <3>3. Message("ping", 0) \in ServerSays
      BY MessagesSaid
    <3>4. /\ toClient' # <<>>
          /\ toClient = <<>> => toClient'[1].left = MaxDelay
          /\ toClient # <<>> => toClient'[1] = toClient[1]
      BY <1>a, <2>4, <3>2, <3>3, WiredHead
    <3>5. ClientHears' = ClientHears
      BY <1>a, <3>2, <3>4 DEF ClientHears
    <3> QED
      BY <1>o, <2>1, <2>2, <2>4, <3>2, <3>5
  <2> QED
    BY <2>3, <2>4
<1>3. CASE ServerReads
  <2>1. /\ link' = link /\ toClient' = toClient /\ tick' = tick /\ clientLeft' = clientLeft
        /\ since' = 0 /\ readLeft' = 3 * heartbeat
    BY <1>3 DEF ServerReads, clientTimers, fate
  <2>2. ClientHears' = ClientHears
    BY <2>1 DEF ClientHears
  <2>3. Period < readLeft' /\ readLeft' \in Nat
    BY <1>a, <1>m, <2>1
  <2>4. ServerHears' \in Nat /\ ServerHears' <= Period /\ Period \in Nat /\ since' = 0
    BY <1>a, <1>k, <2>1
  <2>5. since' + ServerHears' <= Period
    BY <1>r, <2>4, SilenceSum
  <2>6. ServerHears' < readLeft'
    BY <2>3, <2>4
  <2> QED
    BY <1>o, <2>1, <2>2, <2>5, <2>6
<1>4. CASE ServerTimesOut
  <2>1. link # "ok"
    BY <1>4, <1>a, <1>h, <1>o DEF ServerTimesOut
  <2> QED
    BY <1>4, <1>o, <2>1 DEF ServerTimesOut, GiveUp
<1>5. CASE ClientReads
  <2>1. /\ link' = link /\ stats' = stats /\ since' = since /\ readLeft' = readLeft
        /\ clientLeft' = 3 * known'
        /\ toServer' = toServer \/ toServer' = Wired(toServer, "pong", 0)
    BY <1>5 DEF ClientReads, serverTimers, fate
  <2>2. Period < 3 * known' /\ known' \in Nat
    <3>1. known' \in Heartbeats
      BY DEF TypeOK
    <3> QED
      BY <1>m, <3>1, Longest
  <2>3. link = "ok" => ServerHears' <= ServerHears
    <3>1. CASE toServer' = toServer
      BY <1>h, <2>1, <3>1 DEF ServerHears
    <3>2. CASE toServer' = Wired(toServer, "pong", 0)
      <4>1. Message("pong", 0) \in ClientSays
        BY MessagesSaid
      <4>2. link = "ok" =>
              /\ toServer' # <<>>
              /\ toServer = <<>> => toServer'[1].left = MaxDelay
              /\ toServer # <<>> => toServer'[1] = toServer[1]
        BY <1>a, <3>2, <4>1, WiredHead
      <4> QED
        BY <1>a, <1>h, <4>2 DEF ServerHears
    <3> QED
      BY <2>1, <3>1, <3>2
  <2>4. CASE link # "ok"
    BY <1>o, <2>1, <2>4
  <2>5. CASE link = "ok"
    <3>1. since' + ServerHears' <= Period /\ ServerHears' < readLeft'
      <4>1. /\ since' = since /\ since + ServerHears <= Period
            /\ readLeft' = readLeft /\ ServerHears < readLeft /\ ServerHears' <= ServerHears
        BY <1>o, <2>1, <2>3, <2>5
      <4>2. since' + ServerHears' <= Period
        BY <1>a, <1>h, <1>k, <4>1, SilenceSum
      <4>3. ServerHears' < readLeft'
        BY <1>a, <1>h, <1>k, <4>1
      <4> QED
        BY <4>2, <4>3
    <3>2. ClientHears' < clientLeft'
      <4>1. clientLeft' = 3 * known'
        BY <2>1
      <4>2. Period < clientLeft'
        BY <2>2, <4>1
      <4>3. ClientHears' \in Nat /\ ClientHears' <= Period /\ Period \in Nat
        BY <1>a, <1>k
      <4> QED
        BY <1>r, <4>2, <4>3
    <3> QED
      BY <2>1, <2>5, <3>1, <3>2
  <2> QED
    BY <2>4, <2>5
<1>6. CASE ClientTimesOut
  <2>1. link # "ok"
    BY <1>6, <1>a, <1>h, <1>o DEF ClientTimesOut
  <2> QED
    BY <1>6, <1>o, <2>1 DEF ClientTimesOut, GiveUp
<1>7. CASE Stats
  <2>1. /\ link' = link /\ toClient' = toClient /\ tick' = tick /\ stats = 0
        /\ since' = since /\ readLeft' = readLeft /\ clientLeft' = clientLeft
        /\ toServer' = Wired(toServer, "stats", failed)
    BY <1>7 DEF Stats, serverTimers, fate
  <2>2. ClientHears' = ClientHears
    BY <2>1 DEF ClientHears
  <2>3. link = "ok" => ServerHears' = ServerHears
    <3>1. Message("stats", failed) \in ClientSays
      BY <1>n, MessagesSaid DEF TypeOK
    <3>2. link = "ok" =>
            /\ toServer' # <<>>
            /\ toServer = <<>> => toServer'[1].left = MaxDelay
            /\ toServer # <<>> => toServer'[1] = toServer[1]
      BY <1>a, <2>1, <3>1, WiredHead
    <3> QED
      BY <1>a, <2>1, <3>2 DEF ServerHears
  <2> QED
    BY <1>o, <2>1, <2>2, <2>3
<1>8. CASE DialFails
  BY <1>8, <1>o
     DEF DialFails, ServerHears, ClientHears, serverTimers, clientTimers, wires, fate
<1>9. CASE AckArrives
  BY <1>9, <1>o
     DEF AckArrives, ServerHears, ClientHears, serverTimers, clientTimers, wires, fate
<1>10. CASE Die
  BY <1>10 DEF Die
<1>11. CASE Tick
  <2>1. link' = link
    BY <1>11 DEF Tick
  <2>2. CASE link # "ok"
    BY <1>o, <2>1, <2>2
  <2>3. CASE link = "ok"
    <3>1. /\ tick' = tick - 1 /\ readLeft' = readLeft - 1 /\ since' = since + 1
          /\ stats' = stats - 1 /\ clientLeft' = clientLeft - 1
      BY <1>11, <1>b, <2>3 DEF Tick
    <3>2. /\ toClient = <<>> => toClient' = <<>>
          /\ toClient # <<>> => toClient' # <<>> /\ toClient'[1].left = toClient[1].left - 1
          /\ toServer = <<>> => toServer' = <<>>
          /\ toServer # <<>> => toServer' # <<>> /\ toServer'[1].left = toServer[1].left - 1
      <4>1. /\ Len(toClient) \in Nat /\ (toClient = <<>> <=> Len(toClient) = 0)
            /\ Len(toServer) \in Nat /\ (toServer = <<>> <=> Len(toServer) = 0)
        BY <1>n, Numbers
      <4>2. /\ toClient' \in Seq(ServerSays) /\ Len(toClient') = Len(toClient)
            /\ toServer' \in Seq(ClientSays) /\ Len(toServer') = Len(toServer)
        BY <1>11, <1>n, TickEffect
      <4>3. (toClient' = <<>> <=> Len(toClient') = 0) /\ (toServer' = <<>> <=> Len(toServer') = 0)
        BY <4>2, EmptySeq
      <4> QED
        BY <1>11, <1>n, <4>1, <4>2, <4>3, TickEffect
    <3>3. ServerHears' = ServerHears - 1
      <4>1. CASE toServer = <<>>
        BY <1>a, <3>1, <3>2, <4>1 DEF ServerHears
      <4>2. CASE toServer # <<>>
        BY <3>2, <4>2 DEF ServerHears
      <4> QED
        BY <4>1, <4>2
    <3>4. ClientHears' = ClientHears - 1
      <4>1. CASE toClient = <<>>
        BY <1>a, <3>1, <3>2, <4>1 DEF ClientHears
      <4>2. CASE toClient # <<>>
        BY <3>2, <4>2 DEF ClientHears
      <4> QED
        BY <4>1, <4>2
    <3>5. since' + ServerHears' <= Period
      BY <1>a, <1>h, <1>o, <2>3, <3>1, <3>3
    <3>6. ServerHears' < readLeft'
      BY <1>a, <1>h, <1>o, <2>3, <3>1, <3>3
    <3>7. ClientHears' < clientLeft'
      BY <1>a, <1>h, <1>o, <2>3, <3>1, <3>4
    <3> QED
      BY <2>1, <2>3, <3>5, <3>6, <3>7
  <2> QED
    BY <2>2, <2>3
<1> QED
  BY <1>1, <1>2, <1>3, <1>4, <1>5, <1>6, <1>7, <1>8, <1>9, <1>10, <1>11 DEF Next

\* The time left to the stats when it is up, and when time passes.
LEMMA StatsSum ==
    /\ \A q, s, d, p \in Nat : s = 0 /\ q + s + d <= p => q + d <= p
    /\ \A q, r, s, d, p \in Int : r <= q + 1 /\ q + s + d <= p => r + (s - 1) + d <= p
OBVIOUS

\* The counters settle.
LEMMA SettlingNext == ASSUME CInv, Next PROVE Settling'
<1> USE DEF CInv
<1>n. TypeOK
  OBVIOUS
<1>a. /\ MaxDelay \in Nat /\ MaxHeartbeat \in Nat /\ Period \in Nat
      /\ Period = MaxHeartbeat + MaxDelay
      /\ quiet \in Nat /\ stats \in Nat /\ failed \in Nat /\ counted \in Nat
      /\ Len(toServer) \in Nat /\ toServer \in Seq(ClientSays)
      /\ \A i \in 1..Len(toServer) : toServer[i] \in ClientSays
  BY <1>n, Numbers DEF TypeOK
<1>p. Period' = Period
  BY DEF Period, MaxHeartbeat
<1>v. \A i \in 1..Len(toServer) : toServer[i].value \in Nat /\ toServer[i].left \in Nat
  BY <1>a DEF ClientSays
<1>s. SUFFICES ASSUME link = "ok", Settled \/ Arriving \/ SentSoon
               PROVE  (Settled \/ Arriving \/ SentSoon)' \/ link' # "ok"
  <2>1. link # "ok" => link' # "ok"
    BY DEF Next, Reload, Ping, ServerReads, AckArrives, ServerTimesOut, ClientReads,
           ClientTimesOut, DialFails, Stats, Die, Tick, GiveUp, fate
  <2> QED
    BY <2>1 DEF Settling
<1>u. toServer' = toServer /\ UNCHANGED <<failed, counted, quiet, stats>>
        => (Settled \/ Arriving \/ SentSoon)'
  BY <1>p, <1>s DEF Settled, Arriving, SentSoon, Stat
<1>1. CASE Reload
  BY <1>1, <1>u DEF Reload, clientTimers, counters
<1>2. CASE Ping
  BY <1>2, <1>u DEF Ping, clientTimers, counters
<1>3. CASE ServerReads
  <2>1. /\ Len(toServer') = Len(toServer) - 1
        /\ Len(toServer) >= 1 /\ Head(toServer) = toServer[1]
        /\ \A i \in 1..Len(toServer') : toServer'[i] = toServer[i + 1]
    BY <1>3, <1>a, ReadEffect DEF ServerReads
  <2>2. \A i \in 1..Len(toServer') :
          i + 1 \in 1..Len(toServer) /\ (Stat(i)' <=> Stat(i + 1))
    BY <1>a, <2>1 DEF Stat
  <2>3. /\ failed' = failed /\ quiet' = quiet /\ stats' = stats
        /\ counted' = IF Stat(1) THEN toServer[1].value ELSE counted
    BY <1>3, <2>1 DEF ServerReads, clientTimers, Stat
  <2>4. CASE Settled
    <3>1. counted' = failed
      BY <1>a, <2>1, <2>3, <2>4 DEF Settled
    <3>2. \A i \in 1..Len(toServer') : Stat(i)' => toServer'[i].value = failed
      BY <2>1, <2>2, <2>4 DEF Settled
    <3> QED
      BY <2>3, <3>1, <3>2 DEF Settled
  <2>5. CASE Arriving
    <3>1. PICK i \in 1..Len(toServer) :
             Stat(i) /\ toServer[i].value = failed /\ quiet + toServer[i].left <= Period
      BY <2>5 DEF Arriving
    <3>2. CASE i = 1
      <4>1. counted' = failed
        BY <2>3, <3>1, <3>2
      <4>2. \A j \in 1..Len(toServer) : Stat(j) => toServer[j].value <= failed
        BY DEF CountsGrow
      <4>3. \A j \in 1..Len(toServer) : 1 < j /\ Stat(j) => failed <= toServer[j].value
        BY <3>1, <3>2 DEF CountsGrow
      <4>4. \A j \in 1..Len(toServer) : 1 < j /\ Stat(j) => toServer[j].value = failed
        BY <1>a, <1>v, <4>2, <4>3
      <4>5. \A j \in 1..Len(toServer') : Stat(j)' => toServer'[j].value = failed
        BY <1>a, <2>1, <2>2, <4>4
      <4> QED
        BY <2>3, <4>1, <4>5 DEF Settled
    <3>3. CASE i # 1
      <4>1. /\ i - 1 \in 1..Len(toServer') /\ toServer'[i - 1] = toServer[i]
            /\ Stat(i - 1)'
        BY <1>a, <2>1, <3>1, <3>3 DEF Stat
      <4> QED
        BY <1>p, <2>3, <3>1, <4>1 DEF Arriving
    <3> QED
      BY <3>2, <3>3
  <2>6. CASE SentSoon
    BY <1>p, <2>3, <2>6 DEF SentSoon
  <2> QED
    BY <1>s, <2>4, <2>5, <2>6
<1>4. CASE ServerTimesOut
  BY <1>4, <1>u DEF ServerTimesOut, clientTimers, wires, counters
<1>5. CASE ClientReads
  <2>1. /\ UNCHANGED <<failed, counted, quiet, stats>>
        /\ toServer' = toServer \/ toServer' = Wired(toServer, "pong", 0)
    BY <1>5 DEF ClientReads, counters
  <2>2. Message("pong", 0) \in ClientSays
    BY MessagesSaid
  <2>3. CASE toServer' = toServer
    BY <1>u, <2>1, <2>3
  <2>4. CASE toServer' = Wired(toServer, "pong", 0)
    <3>1. /\ Len(toServer') = Len(toServer) + 1
          /\ \A i \in 1..Len(toServer) : toServer'[i] = toServer[i]
          /\ toServer'[Len(toServer) + 1] = Message("pong", 0)
      BY <1>a, <1>s, <2>2, <2>4, WiredEffect
    <3>2. /\ \A i \in 1..Len(toServer) : i \in 1..Len(toServer') /\ (Stat(i)' <=> Stat(i))
          /\ \A i \in 1..Len(toServer') : Stat(i)' => i \in 1..Len(toServer)
      BY <1>a, <3>1 DEF Stat, Message
    <3>3. Settled => Settled'
      BY <2>1, <3>1, <3>2 DEF Settled
    <3>4. Arriving => Arriving'
      BY <1>p, <2>1, <3>1, <3>2 DEF Arriving
    <3>5. SentSoon => SentSoon'
      BY <1>p, <2>1 DEF SentSoon
    <3> QED
      BY <1>s, <3>3, <3>4, <3>5
  <2> QED
    BY <2>1, <2>3, <2>4
<1>6. CASE ClientTimesOut
  BY <1>6, <1>u DEF ClientTimesOut, clientTimers, wires, counters
<1>7. CASE Stats
  <2>1. /\ UNCHANGED <<failed, counted, quiet>> /\ stats = 0
        /\ toServer' = Wired(toServer, "stats", failed)
    BY <1>7 DEF Stats, counters
  <2>2. Message("stats", failed) \in ClientSays
    BY <1>n, MessagesSaid DEF TypeOK
  <2>3. /\ Len(toServer') = Len(toServer) + 1
        /\ \A i \in 1..Len(toServer) : toServer'[i] = toServer[i]
        /\ toServer'[Len(toServer) + 1] = Message("stats", failed)
    BY <1>a, <1>s, <2>1, <2>2, WiredEffect
  <2> DEFINE last == Len(toServer) + 1
  <2>4. /\ last \in 1..Len(toServer') /\ toServer'[last].type = "stats"
        /\ toServer'[last].value = failed /\ toServer'[last].left = MaxDelay
    BY <1>a, <2>3 DEF Message
  <2>5. \A i \in 1..Len(toServer) : i \in 1..Len(toServer') /\ (Stat(i)' <=> Stat(i))
    BY <1>a, <2>3 DEF Stat
  <2>6. Settled => Settled'
    <3>1. \A i \in 1..Len(toServer') : i \in 1..Len(toServer) \/ i = Len(toServer) + 1
      BY <1>a, <2>3
    <3> QED
      BY <2>1, <2>3, <2>4, <2>5, <3>1 DEF Settled, Stat
  <2>7. Arriving => Arriving'
    BY <1>p, <2>1, <2>3, <2>5 DEF Arriving
  <2>8. SentSoon => Arriving'
    <3>1. SentSoon => quiet + MaxDelay <= Period
      BY <1>a, <2>1, StatsSum DEF SentSoon
    <3>2. quiet + MaxDelay <= Period =>
            \E i \in 1..Len(toServer') : /\ toServer'[i].type = "stats" /\ toServer'[i].value = failed
                                        /\ quiet + toServer'[i].left <= Period
      BY <2>4
    <3> QED
      BY <1>p, <2>1, <3>1, <3>2 DEF Arriving, Stat
  <2> QED
    BY <1>s, <2>6, <2>7, <2>8
<1>8. CASE DialFails
  <2>1. stats' = stats /\ quiet' = 0 /\ stats <= MaxHeartbeat
    BY <1>8, <1>n, <1>a DEF DialFails, clientTimers, TypeOK
  <2> QED
    BY <1>a, <1>p, <2>1 DEF SentSoon
<1>9. CASE AckArrives
  <2>1. /\ stats' = stats /\ toServer' = toServer /\ failed' = failed
        /\ quiet' = 0 \/ UNCHANGED <<counted, quiet>>
    BY <1>9 DEF AckArrives, clientTimers, wires
  <2>2. stats <= MaxHeartbeat
    BY <1>n, <1>a DEF TypeOK
  <2>3. quiet' = 0 => SentSoon'
    BY <1>a, <1>p, <2>1, <2>2 DEF SentSoon
  <2> QED
    BY <1>u, <2>1, <2>3
<1>10. CASE Die
  BY <1>10 DEF Die
<1>11. CASE Tick
  <2>1. /\ Len(toServer') = Len(toServer)
        /\ \A i \in 1..Len(toServer) :
             /\ toServer'[i].type = toServer[i].type /\ toServer'[i].value = toServer[i].value
             /\ toServer'[i].left = toServer[i].left - 1
    BY <1>11, <1>n, TickEffect
  <2>2. \A i \in 1..Len(toServer) : Stat(i)' <=> Stat(i)
    BY <2>1 DEF Stat
  <2>3. /\ failed' = failed /\ counted' = counted
        /\ quiet' = quiet \/ quiet' = quiet + 1
    BY <1>11 DEF Tick
  <2>4. stats' = stats - 1
    BY <1>11, <1>n, <1>s DEF Tick, InTime
  <2>5. quiet' \in Nat /\ quiet' <= quiet + 1
    BY <1>a, <2>3
  <2>6. Settled => Settled'
    BY <2>1, <2>2, <2>3 DEF Settled
  <2>7. Arriving => Arriving'
    <3>1. SUFFICES ASSUME NEW i \in 1..Len(toServer),
                          Stat(i), toServer[i].value = failed,
                          quiet + toServer[i].left <= Period
                   PROVE  quiet' + toServer'[i].left <= Period
      BY <1>p, <2>1, <2>2, <2>3 DEF Arriving
    <3> QED
      BY <1>a, <1>v, <2>1, <2>5, <3>1
  <2>8. SentSoon => SentSoon'
    <3>1. /\ quiet \in Int /\ quiet' \in Int /\ stats \in Int
          /\ MaxDelay \in Int /\ Period \in Int
      BY <1>a, <2>5
    <3>2. quiet + stats + MaxDelay <= Period => quiet' + (stats - 1) + MaxDelay <= Period
      BY <2>5, <3>1, StatsSum
    <3> QED
      BY <1>p, <2>4, <3>2 DEF SentSoon
  <2> QED
    BY <1>s, <2>6, <2>7, <2>8
<1> QED
  BY <1>1, <1>2, <1>3, <1>4, <1>5, <1>6, <1>7, <1>8, <1>9, <1>10, <1>11 DEF Next

\* The types.
LEMMA TypeNext == ASSUME CInv, Next PROVE TypeOK'
<1> USE DEF CInv
<1>n. TypeOK
  OBVIOUS
<1>a. /\ MaxHeartbeat \in Nat /\ Period \in Nat /\ MaxReloads \in Nat /\ MaxFailures \in Nat
      /\ \A h \in Heartbeats : h \in Nat /\ h > 0 /\ h <= MaxHeartbeat
  BY <1>n, Numbers, Longest
<1>c. /\ heartbeat \in Heartbeats /\ interval \in Heartbeats /\ known \in Heartbeats
      /\ statsEvery \in Heartbeats
      /\ tick \in 0..MaxHeartbeat /\ stats \in 0..MaxHeartbeat
      /\ since \in 0 .. 3 * MaxHeartbeat /\ readLeft \in 0 .. 3 * MaxHeartbeat
      /\ clientLeft \in 0 .. 3 * MaxHeartbeat
      /\ toClient \in Seq(ServerSays) /\ toServer \in Seq(ClientSays)
      /\ link \in {"ok", "dead", "closed"} /\ ends \subseteq {"server", "client"}
      /\ dead \in Nat /\ reloads \in 0..MaxReloads
      /\ failed \in 0..MaxFailures /\ acks \in 0..MaxFailures
      /\ counted \in 0 .. 2 * MaxFailures /\ quiet \in 0 .. Period + 1
  BY <1>n DEF TypeOK
<1>m. MaxHeartbeat' = MaxHeartbeat /\ Period' = Period
  BY DEF MaxHeartbeat, Period
<1>w. /\ \A h \in Heartbeats : Wired(toClient, "reload_config", h) \in Seq(ServerSays)
      /\ Wired(toClient, "ping", 0) \in Seq(ServerSays)
      /\ Wired(toServer, "pong", 0) \in Seq(ClientSays)
      /\ Wired(toServer, "stats", failed) \in Seq(ClientSays)
  BY <1>c, MessagesSaid, WiredEffect
<1>t. ASSUME heartbeat' \in Heartbeats, interval' \in Heartbeats, known' \in Heartbeats,
             statsEvery' \in Heartbeats,
             tick' \in 0..MaxHeartbeat, stats' \in 0..MaxHeartbeat,
             since' \in 0 .. 3 * MaxHeartbeat, readLeft' \in 0 .. 3 * MaxHeartbeat,
             clientLeft' \in 0 .. 3 * MaxHeartbeat,
             toClient' \in Seq(ServerSays), toServer' \in Seq(ClientSays),
             link' \in {"ok", "dead", "closed"}, ends' \subseteq {"server", "client"},
             dead' \in Nat, reloads' \in 0..MaxReloads,
             failed' \in 0..MaxFailures, acks' \in 0..MaxFailures,
             counted' \in 0 .. 2 * MaxFailures, quiet' \in 0 .. Period + 1
      PROVE  TypeOK'
  <2>1. {heartbeat, interval, known, statsEvery}' \subseteq Heartbeats
    BY <1>t
  <2>2. {tick, stats}' \subseteq 0..MaxHeartbeat /\ {failed, acks}' \subseteq 0..MaxFailures
    BY <1>t
  <2>3. {since, readLeft, clientLeft}' \subseteq 0 .. 3 * MaxHeartbeat
    BY <1>t
  <2>4. ServerSays' = ServerSays /\ ClientSays' = ClientSays
    BY DEF ServerSays, ClientSays
  <2> QED
    BY <1>m, <1>t, <2>1, <2>2, <2>3, <2>4 DEF TypeOK
<1> HIDE DEF CInv
<1>g. \A end : GiveUp(end) =>
        /\ link' \in {"ok", "dead", "closed"} /\ ends' \subseteq {"server", "client"}
        /\ dead' = dead
  BY <1>c DEF GiveUp
<1>1. CASE Reload
  <2>1. heartbeat' \in Heartbeats /\ reloads' \in 0..MaxReloads
    BY <1>1, <1>a, <1>c DEF Reload
  <2>2. toClient' \in Seq(ServerSays)
    BY <1>1, <1>w, <2>1 DEF Reload
  <2> QED
    BY <1>1, <1>c, <1>t, <2>1, <2>2 DEF Reload, serverTimers, clientTimers, fate, counters
<1>2. CASE Ping
  <2>1. interval' \in Heartbeats /\ tick' \in 0..MaxHeartbeat
    BY <1>2, <1>a, <1>c DEF Ping
  <2>2. /\ toClient' \in Seq(ServerSays) /\ dead' \in Nat
        /\ link' \in {"ok", "dead", "closed"} /\ ends' \subseteq {"server", "client"}
    BY <1>2, <1>c, <1>g, <1>w DEF Ping, fate
  <2> QED
    BY <1>2, <1>c, <1>t, <2>1, <2>2 DEF Ping, clientTimers, counters
<1>3. CASE ServerReads
  <2>1. /\ Head(toServer) \in ClientSays /\ toServer' \in Seq(ClientSays)
    BY <1>3, <1>c, ReadEffect DEF ServerReads
  <2>2. counted' \in 0 .. 2 * MaxFailures
    <3>1. Head(toServer).value \in 0 .. 2 * MaxFailures
      BY <1>a, <2>1 DEF ClientSays
    <3> QED
      BY <1>3, <1>c, <3>1 DEF ServerReads
  <2>3. since' \in 0 .. 3 * MaxHeartbeat /\ readLeft' \in 0 .. 3 * MaxHeartbeat
    BY <1>3, <1>a, <1>c DEF ServerReads
  <2> QED
    BY <1>3, <1>c, <1>t, <2>1, <2>2, <2>3 DEF ServerReads, clientTimers, fate
<1>4. CASE ServerTimesOut
  <2>1. /\ link' \in {"ok", "dead", "closed"} /\ ends' \subseteq {"server", "client"}
        /\ dead' \in Nat
    BY <1>4, <1>c, <1>g DEF ServerTimesOut
  <2> QED
    BY <1>4, <1>c, <1>t, <2>1 DEF ServerTimesOut, serverTimers, clientTimers, wires, counters
<1>5. CASE ClientReads
  <2>1. /\ Head(toClient) = toClient[1] /\ 1 \in 1..Len(toClient)
        /\ toClient' \in Seq(ServerSays)
    BY <1>5, <1>c, ReadEffect DEF ClientReads
  <2>2. known' \in Heartbeats
    <3>1. toClient[1].type = "reload_config" => toClient[1].value \in Heartbeats
      BY <2>1 DEF CInv, OneHeartbeat
    <3> QED
      BY <1>5, <1>c, <2>1, <3>1 DEF ClientReads
  <2>3. clientLeft' \in 0 .. 3 * MaxHeartbeat
    <3>1. clientLeft' = 3 * known'
      BY <1>5 DEF ClientReads
    <3> QED
      BY <1>a, <2>2, <3>1
  <2>4. toServer' \in Seq(ClientSays)
    BY <1>5, <1>c, <1>w DEF ClientReads
  <2> QED
    BY <1>5, <1>c, <1>t, <2>1, <2>2, <2>3, <2>4 DEF ClientReads, serverTimers, fate, counters
<1>6. CASE ClientTimesOut
  <2>1. /\ link' \in {"ok", "dead", "closed"} /\ ends' \subseteq {"server", "client"}
        /\ dead' \in Nat
    BY <1>6, <1>c, <1>g DEF ClientTimesOut
  <2> QED
    BY <1>6, <1>c, <1>t, <2>1 DEF ClientTimesOut, serverTimers, clientTimers, wires, counters
<1>7. CASE Stats
  <2>1. statsEvery' \in Heartbeats /\ stats' \in 0..MaxHeartbeat
    BY <1>7, <1>a, <1>c DEF Stats
  <2>2. toServer' \in Seq(ClientSays)
    BY <1>7, <1>w DEF Stats
  <2> QED
    BY <1>7, <1>c, <1>t, <2>1, <2>2 DEF Stats, serverTimers, fate, counters
<1>8. CASE DialFails
  <2>1. acks <= failed
    BY DEF CInv, CountsGrow
  <2>2. failed' \in 0..MaxFailures /\ acks' \in 0..MaxFailures /\ quiet' \in 0 .. Period + 1
    BY <1>8, <1>a, <1>c, <2>1 DEF DialFails
  <2> QED
    BY <1>8, <1>c, <1>t, <2>2 DEF DialFails, serverTimers, clientTimers, wires, fate
<1>9. CASE AckArrives
  <2>1. counted + acks <= MaxFailures + failed
    BY DEF CInv, CountsGrow
  <2>2. acks' \in 0..MaxFailures /\ quiet' \in 0 .. Period + 1
    BY <1>9, <1>a, <1>c DEF AckArrives
  <2>3. counted' \in 0 .. 2 * MaxFailures
    <3>1. acks > 0 => counted + 1 <= 2 * MaxFailures
      BY <1>a, <1>c, <2>1
    <3>2. acks > 0 /\ (counted' = counted + 1 \/ counted' = counted)
      BY <1>9 DEF AckArrives
    <3> QED
      BY <1>a, <1>c, <3>1, <3>2
  <2> QED
    BY <1>9, <1>c, <1>t, <2>2, <2>3 DEF AckArrives, serverTimers, clientTimers, wires, fate
<1>10. CASE Die
  <2>1. toClient' \in Seq(ServerSays) /\ toServer' \in Seq(ClientSays)
    BY <1>10, EmptySeq DEF Die
  <2> QED
    BY <1>10, <1>c, <1>t, <2>1 DEF Die, serverTimers, clientTimers, counters
<1>11. CASE Tick
  <2>1. toClient' \in Seq(ServerSays) /\ toServer' \in Seq(ClientSays)
    BY <1>11, <1>n, TickEffect
  <2>2. since + readLeft <= 3 * MaxHeartbeat
    BY DEF CInv, Deadlines
  <2>3. /\ tick' \in 0..MaxHeartbeat /\ since' \in 0 .. 3 * MaxHeartbeat
        /\ readLeft' \in 0 .. 3 * MaxHeartbeat
    <3>1. CASE "server" \in ends
      <4>1. /\ tick' = tick - 1 /\ readLeft' = readLeft - 1 /\ since' = since + 1
            /\ tick > 0 /\ readLeft > 0
        BY <1>11, <3>1 DEF Tick
      <4> QED
        BY <1>a, <1>c, <2>2, <4>1
    <3>2. CASE "server" \notin ends
      BY <1>11, <1>c, <3>2 DEF Tick
    <3> QED
      BY <3>1, <3>2
  <2>4. stats' \in 0..MaxHeartbeat /\ clientLeft' \in 0 .. 3 * MaxHeartbeat
    <3>1. CASE "client" \in ends
      BY <1>11, <1>a, <1>c, <3>1 DEF Tick
    <3>2. CASE "client" \notin ends
      BY <1>11, <1>c, <3>2 DEF Tick
    <3> QED
      BY <3>1, <3>2
  <2>5. quiet' \in 0 .. Period + 1 /\ dead' \in Nat
    BY <1>11, <1>a, <1>c DEF Tick
  <2> QED
    BY <1>11, <1>c, <1>t, <2>1, <2>3, <2>4, <2>5 DEF Tick
<1> QED
  BY <1>1, <1>2, <1>3, <1>4, <1>5, <1>6, <1>7, <1>8, <1>9, <1>10, <1>11 DEF Next

\* A step that leaves everything as it is.
LEMMA StutterInv == CInv /\ UNCHANGED vars => CInv'
<1> SUFFICES ASSUME CInv, UNCHANGED vars PROVE CInv'
  OBVIOUS
<1> USE DEF CInv, vars, serverTimers, clientTimers, wires, fate, counters
<1>1. TypeOK'
  BY DEF TypeOK, ServerSays, ClientSays, MaxHeartbeat, Period
<1>2. CountsGrow' /\ OneHeartbeat'
  BY DEF CountsGrow, OneHeartbeat, Stat
<1>3. Deadlines'
  BY DEF Deadlines, Limit, MaxHeartbeat
<1>4. InTime'
  BY DEF InTime, ServerHears, ClientHears, Moderate, Period, MaxHeartbeat
<1>5. Settling'
  BY DEF Settling, Settled, Arriving, SentSoon, Stat, Period, MaxHeartbeat
<1> QED
  BY <1>1, <1>2, <1>3, <1>4, <1>5

-----------------------------------------------------------------------------
\* The invariant of the two ends: what is under way fits the counters, the timers
\* of both ends fit each other and what is under way.
THEOREM Invariant == Spec => []CInv
<1>1. CInv /\ [Next]_vars => CInv'
  <2> SUFFICES ASSUME CInv, [Next]_vars PROVE CInv'
    OBVIOUS
  <2>1. CASE Next
    <3>1. TypeOK'
      BY <2>1, TypeNext
    <3>2. CountsGrow' /\ OneHeartbeat' /\ Deadlines' /\ InTime' /\ Settling'
      BY <2>1, <3>1, CountsNext, HeartbeatNext, DeadlinesNext, InTimeNext, SettlingNext
    <3> QED
      BY <3>1, <3>2 DEF CInv
  <2>2. CASE UNCHANGED vars
    BY <2>2, StutterInv
  <2> QED
    BY <2>1, <2>2
<1> QED
  BY InitInv, <1>1, PTL DEF Spec

\* Every variable keeps its type; the bounds of the timers and of the counters
\* included.
THEOREM TypeCorrect == Spec => []TypeOK
<1>1. CInv => TypeOK
  BY DEF CInv
<1> QED
  BY Invariant, <1>1, PTL

\* Neither pingLoop nor a read deadline closes a healthy connection, however many
\* moderate changes of the heartbeat are under way.
THEOREM HealthyLinkIsKept == Spec => []HealthyLinkStaysUp
<1>1. CInv => HealthyLinkStaysUp
  BY DEF CInv, InTime, HealthyLinkStaysUp
<1> QED
  BY Invariant, <1>1, PTL

\* No end holds on to a dead connection for longer than three heartbeats, whichever
\* of its timers notices it.
THEOREM DeadLinkIsGivenUp == Spec => []DeadLinkIsNoticed
<1>1. CInv => DeadLinkIsNoticed
  <2> SUFFICES ASSUME CInv, link = "dead", ends # {}
               PROVE  dead <= 3 * MaxHeartbeat /\ (reloads = 0 => dead <= 3 * heartbeat)
    BY DEF DeadLinkIsNoticed
  <2>1. /\ heartbeat \in Nat /\ heartbeat <= MaxHeartbeat /\ MaxHeartbeat \in Nat
        /\ dead \in Nat /\ readLeft \in Nat /\ clientLeft \in Nat
    BY Numbers DEF CInv
  <2>2. "server" \in ends \/ "client" \in ends
    BY DEF CInv, TypeOK
  <2>3. readLeft + dead <= Limit \/ clientLeft + dead <= Limit
    BY <2>2 DEF CInv, Deadlines
  <2>4. CASE reloads = 0
    BY <2>1, <2>3, <2>4 DEF Limit
  <2>5. CASE reloads # 0
    BY <2>1, <2>3, <2>5 DEF Limit
  <2> QED
    BY <2>4, <2>5
<1> QED
  BY Invariant, <1>1, PTL

\* Whatever the order of acks and stats, the server's counter of failed dials ends
\* up with the client's.
THEOREM CountersAgree == Spec => []CountersSettle
<1>1. CInv => CountersSettle
  <2> SUFFICES ASSUME CInv, link = "ok", quiet > Period PROVE counted = failed
    BY DEF CountersSettle
  <2>1. /\ quiet \in Nat /\ Period \in Nat /\ stats \in Nat /\ MaxDelay \in Nat
        /\ \A i \in 1..Len(toServer) : toServer[i] \in ClientSays
    BY Numbers DEF CInv
  <2>2. ~SentSoon
    BY <2>1 DEF SentSoon
  <2>3. ~Arriving
    <3> SUFFICES ASSUME NEW i \in 1..Len(toServer) PROVE ~(quiet + toServer[i].left <= Period)
      BY DEF Arriving
    <3>1. toServer[i].left \in Nat
      BY <2>1 DEF ClientSays
    <3> QED
      BY <2>1, <3>1
  <2> QED
    BY <2>2, <2>3 DEF CInv, Settling, Settled
<1> QED
  BY Invariant, <1>1, PTL
=============================================================================
