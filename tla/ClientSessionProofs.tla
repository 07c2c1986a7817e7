-------------------------- MODULE ClientSessionProofs --------------------------
(***************************************************************************)
(* Theorems about the client process, for any number of streams, channel   *)
(* counts, goroutines and sessions.                                        *)
(***************************************************************************)
EXTENDS ClientSession, FiniteSetTheorems, TLAPS

\* A handler of a stream is on a channel whose goroutine has not left serveChannel.
Linked ==
    \A s \in Streams :
        /\ on[s] = 0 <=> stream[s] = "none"
        /\ on[s] # 0 => on[s] \in Ids /\ worker[on[s]] \in {"serving", "leaving"}

\* The handlers that have counted themselves.
Handled == {s \in Streams : stream[s] \in {"entered", "dialing", "copying"}}
Counted == active = Cardinality(Handled)

\* Between two sessions there is no supervisor.
Unsupervised ==
    run \notin {"up", "stopping"} => slots = {} /\ \A i \in Ids : worker[i] = "none"

\* Who said hello said it for the session at hand.
SaidCurrent ==
    \A i \in Ids : worker[i] \in {"greeting", "serving"} => said[i] = session

\* A key has a goroutine, and goroutines are numbered in the order of their start.
Keyed ==
    /\ slots \subseteq Live
    /\ \A i \in Ids : i > nextID => worker[i] = "none"

TargetKept ==
    run = "up" /\ ~Cancelled => Cardinality(slots) = target /\ target >= 1

\* Shutdown's flag holds until a new session resets it.
FlagHolds == leave # "no" /\ ~leaving.reset => draining

CInv ==
    /\ TypeOK /\ Linked /\ Counted /\ Unsupervised /\ SaidCurrent /\ Keyed /\ TargetKept
    /\ FlagHolds /\ ByeAfterStreams

-----------------------------------------------------------------------------
\* Finite sets of keys.

\* Sets of keys and of streams are finite.
LEMMA FiniteKeys ==
    /\ \A keys \in SUBSET Ids : IsFiniteSet(keys) /\ Cardinality(keys) \in Nat
    /\ IsFiniteSet(Handled) /\ Cardinality(Handled) \in Nat
<1>1. MaxWorkers \in Nat
  BY BoundsAssumption
<1>2. IsFiniteSet(Ids)
  BY <1>1, FS_Interval DEF Ids
<1>3. \A keys \in SUBSET Ids : IsFiniteSet(keys) /\ Cardinality(keys) \in Nat
  BY <1>2, FS_Subset, FS_CardinalityType
<1>4. Handled \in SUBSET Streams
  BY DEF Handled
<1>5. IsFiniteSet(Handled) /\ Cardinality(Handled) \in Nat
  BY <1>4, StreamsAssumption, FS_Subset, FS_CardinalityType
<1> QED
  BY <1>3, <1>5

\* SetTarget makes the keys as many as it is told, at least one; the new ones are
\* numbers that no goroutine had.
LEMMA SetTargetEffect ==
    ASSUME NEW n \in Counts, NEW keys \in SUBSET Ids, NEW last \in 0..MaxWorkers,
           \A i \in keys : i <= last,
           SetTarget(n, keys, last)
    PROVE  /\ target' \in Int /\ target' >= 1
           /\ nextID' \in 0..MaxWorkers /\ last <= nextID'
           /\ slots' \subseteq Ids /\ slots' \subseteq keys \cup (last + 1 .. nextID')
           /\ Cardinality(slots') = target'
<1> DEFINE want == IF n < 1 THEN 1 ELSE n
           more == want - Cardinality(keys)
<1>1. n \in Int /\ MaxWorkers \in Nat /\ last \in Nat
  BY CountsAssumption, BoundsAssumption
<1>2. want \in Int /\ want >= 1
  BY <1>1
<1>3. IsFiniteSet(keys) /\ Cardinality(keys) \in Nat
  BY FiniteKeys
<1>4. more \in Int /\ want = Cardinality(keys) + more
  BY <1>2, <1>3
<1>5. /\ target' = want
      /\ IF more >= 0
         THEN /\ last + more <= MaxWorkers
              /\ slots' = keys \cup (last + 1 .. last + more)
              /\ nextID' = last + more
         ELSE /\ \E kept \in SUBSET keys : Cardinality(kept) = want /\ slots' = kept
              /\ nextID' = last
  BY DEF SetTarget
<1> HIDE DEF want, more
<1>6. CASE more >= 0
  <2> DEFINE new == last + 1 .. last + more
  <2>1. /\ last + more <= MaxWorkers /\ slots' = keys \cup new /\ nextID' = last + more
    BY <1>5, <1>6
  <2>2. IsFiniteSet(new) /\ Cardinality(new) = more
    <3>1. last + 1 \in Int /\ last + more \in Int
      BY <1>1, <1>4
    <3>2. IsFiniteSet(new) /\ Cardinality(new) = IF last + 1 > last + more THEN 0
                                                ELSE (last + more) - (last + 1) + 1
      BY <3>1, FS_Interval
    <3> QED
      BY <1>1, <1>4, <1>6, <3>2
  <2>3. keys \cap new = {}
    BY <1>1, <1>4 DEF Ids
  <2>4. Cardinality(keys \cup new) = want
    <3>1. Cardinality(keys \cup new) = Cardinality(keys) + Cardinality(new) - Cardinality(keys \cap new)
      BY <1>3, <2>2, FS_Union
    <3>2. Cardinality(keys \cap new) = 0
      BY <2>3, FS_EmptySet
    <3> QED
      BY <1>3, <1>4, <2>2, <3>1, <3>2
  <2>5. new \subseteq Ids
    BY <1>1, <1>4, <2>1 DEF Ids
  <2>6. nextID' \in 0..MaxWorkers /\ last <= nextID'
    BY <1>1, <1>4, <1>6, <2>1
  <2> QED
    BY <1>2, <1>5, <2>1, <2>4, <2>5, <2>6
<1>7. CASE ~(more >= 0)
  BY <1>1, <1>2, <1>5, <1>7
<1> QED
  BY <1>6, <1>7

-----------------------------------------------------------------------------
\* Preservation.

\* The invariant holds initially.
LEMMA InitInv == Init => CInv
<1> SUFFICES ASSUME Init PROVE CInv
  OBVIOUS
<1>1. MaxWorkers \in Nat /\ MaxSessions \in Nat
  BY BoundsAssumption
<1>2. TypeOK
  <2>1. {granted, registered, session} \subseteq 0..MaxSessions
    BY <1>1 DEF Init
  <2>2. {draining, ctrl} \subseteq BOOLEAN
    BY Zenon DEF Init
  <2> QED
    BY <1>1, <2>1, <2>2 DEF Init, TypeOK
<1>3. Handled = {}
  BY DEF Init, Handled
<1>4. Counted
  BY <1>3, FS_EmptySet DEF Init, Counted
<1> QED
  BY <1>2, <1>4
     DEF Init, CInv, Linked, Unsupervised, SaidCurrent, Keyed, TargetKept, FlagHolds,
         ByeAfterStreams, Live

\* A step that touches neither the supervisor nor the streams.
Quiet ==
    ConnectFails \/ Welcome \/ Again \/ ServerDrops \/ Drain \/ Shutdown \/ ShutdownStep

\* The steps that touch neither channels nor streams keep the invariant.
LEMMA QuietNext == ASSUME CInv, Quiet PROVE CInv'
<1> USE DEF CInv
<1>u. UNCHANGED <<target, nextID, slots, worker, said, stream, on, active>>
  BY DEF Quiet, ConnectFails, Welcome, Again, ServerDrops, Drain, Shutdown, ShutdownStep,
         SeesNone, GraceEnds, SayBye, Cancel, supervisorVars, streamVars
<1>r. /\ run' \notin {"up", "stopping"} => run \notin {"up", "stopping"}
      /\ run' = "up" => run = "up"
      /\ ~Cancelled' => ~Cancelled
  BY DEF Quiet, ConnectFails, Welcome, Again, ServerDrops, Drain, Shutdown, ShutdownStep,
         SeesNone, GraceEnds, SayBye, Cancel, Cancelled, sessionVars, leaveVars
<1>1. TypeOK'
  <2>1. /\ granted \in 0..MaxSessions /\ registered \in 0..MaxSessions
        /\ session \in 0..MaxSessions /\ MaxSessions \in Nat
        /\ draining \in BOOLEAN /\ ctrl \in BOOLEAN
    BY BoundsAssumption DEF TypeOK
  <2>2. /\ granted' \in 0..MaxSessions /\ registered' \in 0..MaxSessions
        /\ session' \in 0..MaxSessions
    BY <2>1 DEF Quiet, ConnectFails, Welcome, Again, ServerDrops, Drain, Shutdown,
                ShutdownStep, SeesNone, GraceEnds, SayBye, Cancel, Grant, serverVars, sessionVars
  <2>3. draining' \in BOOLEAN /\ ctrl' \in BOOLEAN
    BY <2>1 DEF Quiet, ConnectFails, Welcome, Again, ServerDrops, Drain, Shutdown,
                ShutdownStep, SeesNone, GraceEnds, SayBye, Cancel, sessionVars
  <2>4. run' \in {"dialing", "welcomed", "up", "stopping", "backoff", "exited"}
    BY DEF TypeOK, Quiet, ConnectFails, Welcome, Again, ServerDrops, Drain, Shutdown,
           ShutdownStep, SeesNone, GraceEnds, SayBye, Cancel, sessionVars
  <2>5. /\ leave' \in {"no", "polling", "sayingBye", "bye", "cancelled"}
        /\ leaving' \in [late : BOOLEAN, reset : BOOLEAN]
    BY DEF TypeOK, Quiet, ConnectFails, Welcome, Again, ServerDrops, Drain, Shutdown,
           ShutdownStep, SeesNone, GraceEnds, SayBye, Cancel, leaveVars
  <2>6. {granted, registered, session}' \subseteq 0..MaxSessions
    BY <2>2
  <2>7. {draining, ctrl}' \subseteq BOOLEAN
    BY <2>3
  <2> QED
    BY <1>u, <2>4, <2>5, <2>6, <2>7 DEF TypeOK, Ids
<1>2. Linked' /\ Keyed'
  BY <1>u DEF Linked, Keyed, Live
<1>3. Counted'
  BY <1>u DEF Counted, Handled
<1>4. Unsupervised'
  BY <1>u, <1>r DEF Unsupervised
<1>5. SaidCurrent'
  <2>1. CASE session' = session
    BY <1>u, <2>1 DEF SaidCurrent
  <2>2. CASE session' # session
    <3>1. run = "dialing"
      BY <2>2 DEF Quiet, ConnectFails, Welcome, Again, ServerDrops, Drain, Shutdown,
                  ShutdownStep, SeesNone, GraceEnds, SayBye, Cancel, sessionVars
    <3> QED
      BY <1>u, <3>1 DEF SaidCurrent, Unsupervised
  <2> QED
    BY <2>1, <2>2
<1>6. TargetKept'
  BY <1>u, <1>r DEF TargetKept
<1>7. FlagHolds'
  <2>1. leaving'.reset = leaving.reset
    BY DEF TypeOK, Quiet, ConnectFails, Welcome, Again, ServerDrops, Drain, Shutdown,
           ShutdownStep, SeesNone, GraceEnds, SayBye, Cancel, leaveVars
  <2>2. draining' \/ (draining' = draining /\ (leave' # "no" => leave # "no"))
    BY DEF Quiet, ConnectFails, Welcome, Again, ServerDrops, Drain, Shutdown, ShutdownStep,
           SeesNone, GraceEnds, SayBye, Cancel, leaveVars
  <2> QED
    BY <2>1, <2>2 DEF FlagHolds
<1>8. ByeAfterStreams'
  <2>1. CASE SeesNone
    <3>1. Handled = {}
      BY <2>1, FiniteKeys, FS_EmptySet DEF SeesNone, Counted
    <3> QED
      BY <1>u, <3>1 DEF ByeAfterStreams, Handled
  <2>2. CASE GraceEnds
    <3>1. leaving'.late
      BY <2>2 DEF GraceEnds, TypeOK
    <3> QED
      BY <3>1 DEF ByeAfterStreams
  <2>3. CASE ~(SeesNone \/ GraceEnds)
    <3>1. /\ leaving' = leaving
          /\ leave' \in {"sayingBye", "bye"} => leave \in {"sayingBye", "bye"}
      BY <2>3 DEF Quiet, ConnectFails, Welcome, Again, ServerDrops, Drain, Shutdown,
                  ShutdownStep, SayBye, Cancel, leaveVars
    <3> QED
      BY <1>u, <3>1 DEF ByeAfterStreams
  <2> QED
    BY <2>1, <2>2, <2>3
<1> QED
  BY <1>1, <1>2, <1>3, <1>4, <1>5, <1>6, <1>7, <1>8

\* What SetTarget and the start of the new goroutines do to the workers.
LEMMA SupervisorEffect ==
    ASSUME CInv, NEW n \in Counts,
           \/ SetTarget(n, slots, nextID)
           \/ SetTarget(n, {}, 0) /\ slots = {} /\ \A i \in Ids : worker[i] = "none",
           worker' = Started, said' = said
    PROVE  /\ target' \in Int /\ target' >= 1 /\ Cardinality(slots') = target'
           /\ nextID' \in 0..MaxWorkers /\ slots' \in SUBSET Ids
           /\ worker' \in [Ids -> {"none", "dialing", "greeting", "serving", "leaving",
                                   "backoff", "gone"}]
           /\ Keyed'
           /\ \A i \in Ids : worker'[i] \in {worker[i], "dialing"}
           /\ \A i \in Ids : worker[i] # "none" => worker'[i] = worker[i]
<1>1. /\ worker \in [Ids -> {"none", "dialing", "greeting", "serving", "leaving", "backoff",
                             "gone"}]
      /\ slots \in SUBSET Ids /\ nextID \in 0..MaxWorkers /\ MaxWorkers \in Nat
  BY BoundsAssumption DEF CInv, TypeOK
<1>2. /\ \A i \in slots : i <= nextID
      /\ \A i \in slots : worker[i] \notin {"none", "gone"}
      /\ \A i \in Ids : i > nextID => worker[i] = "none"
  <2>1. /\ \A i \in slots : worker[i] \notin {"none", "gone"}
        /\ \A i \in Ids : i > nextID => worker[i] = "none"
    BY DEF CInv, Keyed, Live
  <2> QED
    BY <1>1, <2>1 DEF Ids
<1>3. PICK last \in {0, nextID} :
        /\ last \in 0..MaxWorkers
        /\ target' \in Int /\ target' >= 1
        /\ nextID' \in 0..MaxWorkers /\ last <= nextID'
        /\ slots' \subseteq Ids /\ slots' \subseteq slots \cup (last + 1 .. nextID')
        /\ Cardinality(slots') = target'
        /\ \A i \in Ids : i > last => worker[i] = "none"
  <2>1. CASE SetTarget(n, slots, nextID)
    BY <1>1, <1>2, <2>1, SetTargetEffect
  <2>2. CASE SetTarget(n, {}, 0) /\ slots = {} /\ \A i \in Ids : worker[i] = "none"
    <3>1. 0 \in 0..MaxWorkers /\ {} \in SUBSET Ids
      BY <1>1
    <3>2. /\ target' \in Int /\ target' >= 1
          /\ nextID' \in 0..MaxWorkers /\ 0 <= nextID'
          /\ slots' \subseteq Ids /\ slots' \subseteq {} \cup (0 + 1 .. nextID')
          /\ Cardinality(slots') = target'
      BY <2>2, <3>1, SetTargetEffect
    <3> QED
      BY <2>2, <3>1, <3>2
  <2> QED
    BY <2>1, <2>2
<1>4. worker' = [i \in Ids |-> IF i \in slots' \ slots THEN "dialing" ELSE worker[i]]
  BY DEF Started
<1>5. \A i \in slots' \ slots : worker[i] = "none"
  BY <1>1, <1>3 DEF Ids
<1>6. /\ \A i \in Ids : worker'[i] \in {worker[i], "dialing"}
      /\ \A i \in Ids : worker[i] # "none" => worker'[i] = worker[i]
  BY <1>4, <1>5
<1>7. worker' \in [Ids -> {"none", "dialing", "greeting", "serving", "leaving", "backoff",
                           "gone"}]
  BY <1>1, <1>4
<1>8. Keyed'
  <2>1. \A i \in slots' : i \in Ids /\ worker'[i] \notin {"none", "gone"}
    BY <1>2, <1>3, <1>4
  <2>2. \A i \in Ids : i > nextID' => worker'[i] = "none"
    <3> SUFFICES ASSUME NEW i \in Ids, i > nextID' PROVE worker'[i] = "none"
      OBVIOUS
    <3>1. i \in Nat /\ nextID' \in Nat /\ last \in Nat /\ i > last
      BY <1>1, <1>3 DEF Ids
    <3>2. i \notin last + 1 .. nextID'
      BY <3>1
    <3>3. worker[i] = "none"
      BY <1>3, <3>1
    <3>4. i \notin slots' \ slots
      BY <1>3, <3>2
    <3> QED
      BY <1>4, <3>3, <3>4
  <2>3. Ids' = Ids
    BY DEF Ids
  <2> QED
    BY <2>1, <2>2, <2>3 DEF Keyed, Live
<1> QED
  BY <1>3, <1>6, <1>7, <1>8

\* A step of the session that starts or ends the supervisor or changes its target.
LEMMA SessionNext ==
    ASSUME CInv, Establish \/ Reload \/ ControlEnds \/ Stop PROVE CInv'
<1> USE DEF CInv
<1>u. UNCHANGED <<session, granted, registered, stream, on, active, leave, said>>
  BY DEF Establish, Reload, ControlEnds, Stop, sessionVars, serverVars, streamVars, leaveVars
<1>m. MaxWorkers \in Nat
  BY BoundsAssumption
<1>t. /\ worker \in [Ids -> {"none", "dialing", "greeting", "serving", "leaving", "backoff",
                             "gone"}]
      /\ slots \in SUBSET Ids /\ nextID \in 0..MaxWorkers /\ target \in Int
      /\ draining \in BOOLEAN /\ ctrl \in BOOLEAN
  BY DEF TypeOK
<1>f. /\ run' \in {"up", "stopping", "backoff"}
      /\ draining' \in BOOLEAN /\ ctrl' \in BOOLEAN
      /\ leaving' \in [late : BOOLEAN, reset : BOOLEAN]
      /\ leaving'.late = leaving.late
      /\ leaving.reset => leaving'.reset
      /\ draining' = draining \/ (leave # "no" => leaving'.reset)
  BY <1>t DEF Establish, Reload, ControlEnds, Stop, sessionVars, leaveVars, TypeOK
<1>1. Counted' /\ FlagHolds' /\ ByeAfterStreams'
  <2>1. Counted'
    BY <1>u DEF Counted, Handled
  <2>2. FlagHolds'
    BY <1>u, <1>f DEF FlagHolds
  <2>3. ByeAfterStreams'
    BY <1>u, <1>f DEF ByeAfterStreams
  <2> QED
    BY <2>1, <2>2, <2>3
<1>2. ASSUME target' \in Int, nextID' \in 0..MaxWorkers, slots' \in SUBSET Ids,
             worker' \in [Ids -> {"none", "dialing", "greeting", "serving", "leaving",
                                  "backoff", "gone"}]
      PROVE  TypeOK'
  <2>1. {draining, ctrl}' \subseteq BOOLEAN
    BY <1>f
  <2> QED
    BY <1>2, <1>u, <1>f, <2>1 DEF TypeOK, Ids
<1>3. CASE Establish \/ Reload
  <2>1. PICK n \in Counts :
          \/ SetTarget(n, slots, nextID)
          \/ SetTarget(n, {}, 0) /\ slots = {} /\ \A i \in Ids : worker[i] = "none"
    BY <1>3 DEF Establish, Reload, Unsupervised
  <2>2. worker' = Started /\ run' = "up"
    BY <1>3 DEF Establish, Reload, sessionVars
  <2>3. /\ target' \in Int /\ target' >= 1 /\ Cardinality(slots') = target'
        /\ nextID' \in 0..MaxWorkers /\ slots' \in SUBSET Ids
        /\ worker' \in [Ids -> {"none", "dialing", "greeting", "serving", "leaving",
                                "backoff", "gone"}]
        /\ Keyed'
        /\ \A i \in Ids : worker'[i] \in {worker[i], "dialing"}
        /\ \A i \in Ids : worker[i] # "none" => worker'[i] = worker[i]
    BY <1>u, <2>1, <2>2, SupervisorEffect
  <2>4. Linked' /\ SaidCurrent'
    BY <1>u, <2>3 DEF Linked, SaidCurrent, Ids
  <2>5. Unsupervised' /\ TargetKept'
    BY <2>2, <2>3 DEF Unsupervised, TargetKept
  <2> QED
    BY <1>1, <1>2, <2>3, <2>4, <2>5
<1>4. CASE ControlEnds
  <2>1. /\ slots' = {} /\ UNCHANGED <<target, nextID, worker>> /\ run' = "stopping"
    BY <1>4 DEF ControlEnds
  <2>2. TypeOK'
    BY <1>2, <1>t, <2>1
  <2>3. Linked' /\ SaidCurrent' /\ Keyed' /\ Unsupervised' /\ TargetKept'
    BY <1>u, <2>1 DEF Linked, SaidCurrent, Keyed, Unsupervised, TargetKept, Ids, Live
  <2> QED
    BY <1>1, <2>2, <2>3
<1>5. CASE Stop
  <2>1. /\ slots' = {} /\ target' = 0 /\ nextID' = 0 /\ run' = "backoff"
        /\ worker' = [i \in Ids |-> "none"] /\ Live = {}
    BY <1>5 DEF Stop
  <2>2. TypeOK'
    BY <1>2, <1>m, <2>1
  <2>3. \A s \in Streams : on[s] = 0
    BY <2>1 DEF Linked, Live
  <2>4. Linked'
    BY <1>u, <2>3 DEF Linked
  <2>5. SaidCurrent' /\ Keyed' /\ Unsupervised' /\ TargetKept'
    BY <2>1 DEF SaidCurrent, Keyed, Unsupervised, TargetKept, Ids, Live
  <2> QED
    BY <1>1, <2>2, <2>4, <2>5
<1> QED
  BY <1>3, <1>4, <1>5

\* A step of a goroutine that holds a data channel.
LEMMA WorkerNext == ASSUME CInv, NEW i \in Ids, WorkerStep(i) PROVE CInv'
<1> USE DEF CInv
<1>u. /\ UNCHANGED <<run, session, ctrl, granted, registered, draining, target, nextID,
                     stream, on, active, leave, leaving>>
      /\ \E next \in {"dialing", "greeting", "serving", "leaving", "backoff", "gone"} :
            worker' = [worker EXCEPT ![i] = next]
  BY DEF WorkerStep, Greet, Welcomed, ChannelFails, AcceptFails, ChannelReturns, BackoffEnds,
         Pauses, Goes, sessionVars, serverVars, streamVars, leaveVars
<1>t. /\ worker \in [Ids -> {"none", "dialing", "greeting", "serving", "leaving", "backoff",
                             "gone"}]
      /\ slots \in SUBSET Ids /\ said \in [Ids -> 0..MaxSessions] /\ session \in 0..MaxSessions
      /\ MaxSessions \in Nat
  BY BoundsAssumption DEF TypeOK
<1>b. worker[i] \notin {"none", "gone"}
  BY DEF WorkerStep, Greet, Welcomed, ChannelFails, AcceptFails, ChannelReturns, BackoffEnds
<1>s. slots' = slots \/ (Stopped(i) /\ slots' = slots \ {i})
  BY DEF WorkerStep, Greet, Welcomed, ChannelFails, AcceptFails, ChannelReturns, BackoffEnds,
         Pauses
<1>g. worker'[i] = "gone" => slots' = slots \ {i}
  BY <1>t DEF WorkerStep, Greet, Welcomed, ChannelFails, AcceptFails, ChannelReturns,
              BackoffEnds, Pauses, Goes
<1>d. /\ said' \in [Ids -> 0..MaxSessions]
      /\ \A j \in Ids : j # i => said'[j] = said[j]
      /\ worker'[i] \in {"greeting", "serving"} => said'[i] = session
  BY <1>t DEF SaidCurrent, WorkerStep, Greet, Welcomed, ChannelFails, AcceptFails,
              ChannelReturns, BackoffEnds, Pauses, Goes
<1>l. \A s \in Streams : on[s] = i => worker'[i] \in {"serving", "leaving"}
  <2> SUFFICES ASSUME NEW s \in Streams, on[s] = i
               PROVE  worker'[i] \in {"serving", "leaving"}
    OBVIOUS
  <2>1. worker[i] \in {"serving", "leaving"}
    <3>1. i # 0
      BY DEF Ids
    <3> QED
      BY <3>1 DEF Linked
  <2>2. AcceptFails(i)
    BY <2>1 DEF WorkerStep, Greet, Welcomed, ChannelFails, ChannelReturns, BackoffEnds
  <2> QED
    BY <1>t, <2>2 DEF AcceptFails, Goes
<1>w. /\ worker' \in [Ids -> {"none", "dialing", "greeting", "serving", "leaving", "backoff",
                              "gone"}]
      /\ \A j \in Ids : j # i => worker'[j] = worker[j]
      /\ worker'[i] # "none"
  BY <1>t, <1>u
<1>1. TypeOK'
  BY <1>s, <1>t, <1>u, <1>d, <1>w DEF TypeOK, Ids
<1>2. Linked'
  BY <1>u, <1>l, <1>w DEF Linked, Ids
<1>3. Counted' /\ FlagHolds' /\ ByeAfterStreams'
  BY <1>u DEF Counted, Handled, FlagHolds, ByeAfterStreams
<1>4. Unsupervised'
  BY <1>b, <1>u DEF Unsupervised
<1>5. SaidCurrent'
  BY <1>d, <1>u, <1>w DEF SaidCurrent, Ids
<1>6. Keyed'
  <2>1. \A j \in slots' : j \in Ids /\ worker'[j] \notin {"none", "gone"}
    BY <1>g, <1>s, <1>t, <1>w DEF Keyed, Live
  <2>2. \A j \in Ids : j > nextID => worker'[j] = "none"
    BY <1>b, <1>w DEF Keyed
  <2> QED
    BY <1>u, <2>1, <2>2 DEF Keyed, Live, Ids
<1>7. TargetKept'
  <2>1. ~Cancelled => slots' = slots
    BY <1>s DEF Stopped
  <2> QED
    BY <1>u, <2>1 DEF TargetKept, Cancelled
<1> QED
  BY <1>1, <1>2, <1>3, <1>4, <1>5, <1>6, <1>7

\* A step of a stream handler.
StreamStep(s) == HandlerStep(s) \/ \E i \in Ids : Accept(s, i)

\* The steps of a stream handler keep the invariant.
LEMMA StreamNext == ASSUME CInv, NEW s \in Streams, StreamStep(s) PROVE CInv'
<1> USE DEF CInv
<1>u. UNCHANGED <<run, session, ctrl, granted, registered, draining, target, nextID, slots,
                  worker, said, leave, leaving>>
  BY DEF StreamStep, HandlerStep, Accept, Enter, Handles, PassesDrain, Rejects, DialFails,
         DialSucceeds, CopiesEnd, Return, sessionVars, serverVars, supervisorVars, leaveVars
<1>t. /\ stream \in [Streams -> {"none", "accepted", "entered", "dialing", "copying"}]
      /\ on \in [Streams -> 0..MaxWorkers] /\ active \in Nat /\ MaxWorkers \in Nat
      /\ Ids = 1..MaxWorkers
  BY BoundsAssumption DEF TypeOK, Ids
<1>a. CASE \E i \in Ids : Accept(s, i)
  <2>1. PICK i \in Ids :
          /\ stream[s] = "none" /\ worker[i] = "serving" /\ active' = active
          /\ stream' = [stream EXCEPT ![s] = "accepted"] /\ on' = [on EXCEPT ![s] = i]
    BY <1>a DEF Accept
  <2>2. TypeOK'
    BY <1>t, <1>u, <2>1 DEF TypeOK, Ids
  <2>3. Linked'
    BY <1>t, <1>u, <2>1 DEF Linked
  <2>4. Handled' = Handled
    BY <1>t, <2>1 DEF Handled
  <2>5. Counted'
    BY <2>1, <2>4 DEF Counted
  <2>6. ByeAfterStreams'
    BY <1>t, <1>u, <2>1 DEF ByeAfterStreams
  <2> QED
    BY <1>u, <2>2, <2>3, <2>5, <2>6
       DEF Unsupervised, SaidCurrent, Keyed, TargetKept, FlagHolds, Live, Cancelled, Ids
<1>b. CASE Rejects(s) \/ DialFails(s) \/ CopiesEnd(s)
  <2>1. /\ stream[s] \in {"entered", "dialing", "copying"} /\ active' = active - 1
        /\ stream' = [stream EXCEPT ![s] = "none"] /\ on' = [on EXCEPT ![s] = 0]
    BY <1>b DEF Rejects, DialFails, CopiesEnd, Return
  <2>2. Handled' = Handled \ {s} /\ s \in Handled
    BY <1>t, <2>1 DEF Handled
  <2>3. Cardinality(Handled') = Cardinality(Handled) - 1
    BY <2>2, FiniteKeys, FS_RemoveElement
  <2>4. Counted' /\ active' \in Nat
    <3>1. IsFiniteSet(Handled') /\ Cardinality(Handled') \in Nat
      BY <2>2, FiniteKeys, FS_RemoveElement, FS_CardinalityType
    <3> QED
      BY <2>1, <2>3, <3>1 DEF Counted
  <2>5. TypeOK'
    BY <1>t, <1>u, <2>1, <2>4 DEF TypeOK, Ids
  <2>6. Linked'
    BY <1>t, <1>u, <2>1 DEF Linked
  <2>7. ByeAfterStreams'
    BY <1>t, <1>u, <2>1 DEF ByeAfterStreams
  <2> QED
    BY <1>u, <2>4, <2>5, <2>6, <2>7
       DEF Unsupervised, SaidCurrent, Keyed, TargetKept, FlagHolds, Live, Cancelled, Ids
<1>c. CASE Enter(s)
  <2>1. /\ stream[s] = "accepted" /\ stream' = [stream EXCEPT ![s] = "entered"]
        /\ on' = on /\ active' = active + 1
    BY <1>c DEF Enter, Handles
  <2>2. Handled' = Handled \cup {s} /\ s \notin Handled
    BY <1>t, <2>1 DEF Handled
  <2>3. Cardinality(Handled') = Cardinality(Handled) + 1
    BY <2>2, FiniteKeys, FS_AddElement
  <2>4. Counted' /\ active' \in Nat
    BY <1>t, <2>1, <2>3 DEF Counted
  <2>5. TypeOK'
    BY <1>t, <1>u, <2>1, <2>4 DEF TypeOK, Ids
  <2>6. Linked'
    BY <1>t, <1>u, <2>1 DEF Linked
  <2>7. ByeAfterStreams'
    BY <1>t, <1>u, <2>1 DEF ByeAfterStreams
  <2> QED
    BY <1>u, <2>4, <2>5, <2>6, <2>7
       DEF Unsupervised, SaidCurrent, Keyed, TargetKept, FlagHolds, Live, Cancelled, Ids
<1>d. CASE PassesDrain(s) \/ DialSucceeds(s)
  <2>1. /\ on' = on /\ active' = active
        /\ \/ stream[s] = "entered" /\ ~draining /\ stream' = [stream EXCEPT ![s] = "dialing"]
           \/ stream[s] = "dialing" /\ stream' = [stream EXCEPT ![s] = "copying"]
    BY <1>d DEF PassesDrain, DialSucceeds, Handles
  <2>2. Handled' = Handled
    BY <1>t, <2>1 DEF Handled
  <2>3. Counted'
    BY <2>1, <2>2 DEF Counted
  <2>4. TypeOK'
    BY <1>t, <1>u, <2>1 DEF TypeOK, Ids
  <2>5. Linked'
    BY <1>t, <1>u, <2>1 DEF Linked
  <2>6. ByeAfterStreams'
    <3>1. CASE stream[s] = "entered" /\ ~draining
      BY <1>u, <3>1 DEF ByeAfterStreams, FlagHolds
    <3>2. CASE stream[s] = "dialing"
      BY <1>u, <3>2 DEF ByeAfterStreams
    <3> QED
      BY <2>1, <3>1, <3>2
  <2> QED
    BY <1>u, <2>3, <2>4, <2>5, <2>6
       DEF Unsupervised, SaidCurrent, Keyed, TargetKept, FlagHolds, Live, Cancelled, Ids
<1> QED
  BY <1>a, <1>b, <1>c, <1>d DEF StreamStep, HandlerStep

\* A step that leaves everything as it is.
LEMMA StutterInv == ASSUME CInv, UNCHANGED vars PROVE CInv'
<1> USE DEF vars, sessionVars, serverVars, supervisorVars, streamVars, leaveVars
<1>1. UNCHANGED <<run, granted, registered, session, draining, ctrl, target, nextID, slots,
                  worker, said, stream, on, active, leave, leaving>>
  OBVIOUS
<1> QED
  BY <1>1
     DEF CInv, TypeOK, Linked, Counted, Handled, Unsupervised, SaidCurrent, Keyed, TargetKept,
         FlagHolds, ByeAfterStreams, Live, Cancelled, Ids

-----------------------------------------------------------------------------
\* The invariant of the process: its keys, goroutines, handlers and counters fit
\* each other, and the flag that Shutdown set.
THEOREM Invariant == Spec => []CInv
<1>1. CInv /\ [Next]_vars => CInv'
  <2> SUFFICES ASSUME CInv, [Next]_vars PROVE CInv'
    OBVIOUS
  <2>1. CASE Quiet
    BY <2>1, QuietNext
  <2>2. CASE Establish \/ Reload \/ ControlEnds \/ Stop
    BY <2>2, SessionNext
  <2>3. CASE \E i \in Ids : WorkerStep(i)
    BY <2>3, WorkerNext
  <2>4. CASE \E s \in Streams : StreamStep(s)
    BY <2>4, StreamNext
  <2>5. CASE UNCHANGED vars
    BY <2>5, StutterInv
  <2> QED
    BY <2>1, <2>2, <2>3, <2>4, <2>5 DEF Next, RunStep, Quiet, StreamStep
<1> QED
  BY InitInv, <1>1, PTL DEF Spec

\* Every variable keeps its type.
THEOREM TypeCorrect == Spec => []TypeOK
<1>1. CInv => TypeOK
  BY DEF CInv
<1> QED
  BY Invariant, <1>1, PTL

\* SetTarget, Stop and the goroutines that delete their own key leave the supervisor
\* with the channels that were asked for.
THEOREM SupervisorKeepsTarget == Spec => []ExactlyTarget
<1>1. CInv => ExactlyTarget
  BY DEF CInv, TargetKept, Keyed, ExactlyTarget
<1> QED
  BY Invariant, <1>1, PTL

\* Stop's wait for the goroutines, and theirs for their handlers, separate the
\* sessions from each other.
THEOREM SessionsAreSeparate == Spec => []NothingCarriedOver
<1>1. CInv => NothingCarriedOver
  <2> SUFFICES ASSUME CInv PROVE NothingCarriedOver
    OBVIOUS
  <2>1. ASSUME run \notin {"up", "stopping"}
        PROVE  Live = {} /\ active = 0 /\ \A s \in Streams : stream[s] = "none"
    <3>1. \A i \in Ids : worker[i] = "none"
      BY <2>1 DEF CInv, Unsupervised
    <3>2. Live = {}
      BY <3>1 DEF Live
    <3>3. \A s \in Streams : stream[s] = "none"
      BY <3>1 DEF CInv, Linked
    <3>4. Handled = {}
      BY <3>3 DEF Handled
    <3>5. active = 0
      BY <3>4, FS_EmptySet DEF CInv, Counted
    <3> QED
      BY <3>2, <3>3, <3>5
  <2>2. \A i \in Live : worker[i] \in {"greeting", "serving"} => said[i] = session
    BY DEF CInv, SaidCurrent, Live
  <2> QED
    BY <2>1, <2>2 DEF NothingCarriedOver
<1> QED
  BY Invariant, <1>1, PTL

\* The order in which a handler counts itself and looks at the flag, and Shutdown
\* sets the flag and looks at the count, lets no stream slip through, unless the
\* grace is over or a new session has reset the flag.
THEOREM ByeComesAfterStreams == Spec => []ByeAfterStreams
<1>1. CInv => ByeAfterStreams
  BY DEF CInv
<1> QED
  BY Invariant, <1>1, PTL
=============================================================================
