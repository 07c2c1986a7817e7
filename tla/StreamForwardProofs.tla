------------------------- MODULE StreamForwardProofs --------------------------
(***************************************************************************)
(* Proofs about StreamForward, for streams of any length: what reaches a   *)
(* peer is a prefix of what the other one sent, a refused stream touches   *)
(* no service, an end of data comes behind the data, and the connection    *)
(* implements Tunnel.                                                      *)
(***************************************************************************)
EXTENDS StreamForward, SequenceTheorems, TLAPS

-----------------------------------------------------------------------------
\* One direction of the stream.

\* The k-th piece of a peer's payload.
Piece(k) == Frame((k + 1) \div 2)[IF k % 2 = 1 THEN 1 ELSE 2]

\* What may stand at the head of a direction, before the payload.
Leads == {"header", "ack"}
Lead(q) == IF q # <<>> /\ q[1][1] \in Leads THEN 1 ELSE 0

Statuses == {"ok", "not_allowed", "dial_failed", "rejected"}
Items ==
    {Header, EndOfData} \cup {Ack(status) : status \in Statuses} \cup (Pieces \X Nat)

\* Of a sender that had n chunks read, the reader was handed got and q is on its
\* way: the pieces follow each other without a gap, a lead comes first and
\* before any piece was handed over, an end comes last.
InTransit(got, q, n) ==
    /\ \A i \in 1..Len(got) : got[i] = Piece(i)
    /\ Len(got) <= 2 * n
    /\ \A i \in 1..Len(q) :
        /\ q[i][1] \in Pieces =>
             q[i] = Piece(Len(got) + i - Lead(q)) /\ Len(got) + i - Lead(q) <= 2 * n
        /\ q[i][1] \in Leads => i = 1
        /\ q[i] = EndOfData => i = Len(q)

\* Nothing is missing and no end was sent: the next frame continues the rest.
Complete(got, q, n) ==
    /\ Len(got) + Len(q) - Lead(q) = 2 * n
    /\ \A i \in 1..Len(q) : q[i] # EndOfData

\* The two pieces a frame consists of.
LEMMA PieceTypes ==
    ASSUME NEW k \in Nat \ {0}
    PROVE  /\ Piece(2 * k - 1) = <<"head", k>>
           /\ Piece(2 * k) = <<"tail", k>>
           /\ Frame(k) = << Piece(2 * k - 1), Piece(2 * k) >>
<1>1. (2 * k - 1 + 1) \div 2 = k /\ (2 * k - 1) % 2 = 1
  OBVIOUS
<1>2. (2 * k + 1) \div 2 = k /\ (2 * k) % 2 = 0
  OBVIOUS
<1> QED
  BY <1>1, <1>2 DEF Piece, Frame

\* The k-th piece belongs to a frame that is among the first n if k is at most 2n.
LEMMA PieceInFrame ==
    ASSUME NEW k \in Nat \ {0}, NEW n \in Nat, k <= 2 * n
    PROVE  Piece(k) \in Pieces \X (1..n)
<1>1. CASE k % 2 = 1
  <2>1. PICK j \in Nat \ {0} : k = 2 * j - 1 /\ j <= n
    <3>1. (k + 1) \div 2 \in Nat \ {0} /\ k = 2 * ((k + 1) \div 2) - 1 /\ (k + 1) \div 2 <= n
      BY <1>1
    <3> QED
      BY <3>1
  <2>2. Piece(2 * j - 1) = <<"head", j>>
    BY PieceTypes
  <2>3. j \in 1..n
    BY <2>1
  <2> QED
    BY <2>1, <2>2, <2>3 DEF Pieces
<1>2. CASE k % 2 = 0
  <2>1. PICK j \in Nat \ {0} : k = 2 * j /\ j <= n
    <3>1. k \div 2 \in Nat \ {0} /\ k = 2 * (k \div 2) /\ k \div 2 <= n
      BY <1>2
    <3> QED
      BY <3>1
  <2>2. Piece(2 * j) = <<"tail", j>>
    BY PieceTypes
  <2>3. j \in 1..n
    BY <2>1
  <2> QED
    BY <2>1, <2>2, <2>3 DEF Pieces
<1> QED
  BY <1>1, <1>2

\* The kinds of items are told apart by their first components.
LEMMA Kinds ==
    /\ \A x \in Items : x[1] \in Pieces \/ x[1] \in Leads \/ x = EndOfData
    /\ Header[1] \in Leads /\ \A status : Ack(status)[1] \in Leads
    /\ EndOfData[1] \notin Pieces /\ EndOfData[1] \notin Leads
    /\ Pieces \cap Leads = {}
    /\ Header \in Items /\ EndOfData \in Items
    /\ \A status \in Statuses : Ack(status) \in Items
    /\ \A status : Ack(status) # Header /\ Ack(status)[2] = status
    /\ \A k \in Nat : Frame(k) \in Seq(Items)
BY DEF Items, Header, EndOfData, Ack, Pieces, Leads, Frame

\* What a sequence is behind which two items were put.
LEMMA TwoAppended ==
    ASSUME NEW S, NEW q \in Seq(S), NEW f \in Seq(S), Len(f) = 2
    PROVE  /\ Len(q \o f) = Len(q) + 2 /\ Len(q) \in Nat
           /\ \A i \in 1..Len(q) : (q \o f)[i] = q[i]
           /\ (q \o f)[Len(q) + 1] = f[1] /\ (q \o f)[Len(q) + 2] = f[2]
<1>1. /\ Len(q \o f) = Len(q) + Len(f) /\ Len(q) \in Nat
      /\ \A i \in 1 .. Len(q) + Len(f) :
            (q \o f)[i] = IF i <= Len(q) THEN q[i] ELSE f[i - Len(q)]
  <2>1. Len(q) \in Nat
    OBVIOUS
  <2>2. Len(q \o f) = Len(q) + Len(f)
    BY LenProperties, ConcatProperties
  <2>3. \A i \in 1 .. Len(q) + Len(f) :
            (q \o f)[i] = IF i <= Len(q) THEN q[i] ELSE f[i - Len(q)]
    BY ConcatProperties, Zenon
  <2> QED
    BY <2>1, <2>2, <2>3
<1>2. /\ Len(q) + 1 \in 1 .. Len(q) + Len(f) /\ ~(Len(q) + 1 <= Len(q))
      /\ Len(q) + 2 \in 1 .. Len(q) + Len(f) /\ ~(Len(q) + 2 <= Len(q))
      /\ Len(q) + 1 - Len(q) = 1 /\ Len(q) + 2 - Len(q) = 2
  BY <1>1
<1>3. \A i \in 1..Len(q) : i \in 1 .. Len(q) + Len(f) /\ i <= Len(q)
  BY <1>1
<1> QED
  BY <1>1, <1>2, <1>3

\* A frame is written behind a complete direction.
LEMMA FrameFollows ==
    ASSUME NEW got \in Seq(Items), NEW q \in Seq(Items), NEW n \in Nat,
           InTransit(got, q, n), Complete(got, q, n)
    PROVE  LET r == q \o Frame(n + 1)
           IN  /\ r \in Seq(Items) /\ InTransit(got, r, n + 1) /\ Complete(got, r, n + 1)
<1> DEFINE f == Frame(n + 1)
           r == q \o f
<1>1. /\ f = << Piece(2 * n + 1), Piece(2 * n + 2) >>
      /\ Piece(2 * n + 1) = <<"head", n + 1>> /\ Piece(2 * n + 2) = <<"tail", n + 1>>
  <2>1. n + 1 \in Nat \ {0} /\ 2 * (n + 1) - 1 = 2 * n + 1 /\ 2 * (n + 1) = 2 * n + 2
    OBVIOUS
  <2> QED
    BY <2>1, PieceTypes
<1>2. /\ Piece(2 * n + 1)[1] \in Pieces /\ Piece(2 * n + 1)[1] \notin Leads
      /\ Piece(2 * n + 2)[1] \in Pieces /\ Piece(2 * n + 2)[1] \notin Leads
      /\ Piece(2 * n + 1) # EndOfData /\ Piece(2 * n + 2) # EndOfData
  BY <1>1 DEF Pieces, Leads, EndOfData
<1>3. /\ r \in Seq(Items) /\ Len(r) = Len(q) + 2
      /\ \A i \in 1..Len(q) : r[i] = q[i]
      /\ r[Len(q) + 1] = Piece(2 * n + 1) /\ r[Len(q) + 2] = Piece(2 * n + 2)
  <2>1. f \in Seq(Items)
    BY Kinds
  <2> HIDE DEF f
  <2>2. Len(f) = 2 /\ f[1] = Piece(2 * n + 1) /\ f[2] = Piece(2 * n + 2)
    BY <1>1
  <2>3. r \in Seq(Items) /\ Len(r) = Len(q) + Len(f)
    BY <2>1
  <2>4. /\ \A i \in 1..Len(q) : r[i] = q[i]
        /\ \A i \in 1..Len(f) : r[Len(q) + i] = f[i]
    BY <2>1
  <2> QED
    BY <2>2, <2>3, <2>4
<1> HIDE DEF f, r
<1>4. Lead(r) = Lead(q) /\ Lead(q) \in 0..1
  <2>1. CASE q = <<>>
    BY <1>2, <1>3, <2>1 DEF Lead
  <2>2. CASE q # <<>>
    BY <1>3, <2>2 DEF Lead
  <2> QED
    BY <2>1, <2>2
<1>5. /\ Len(got) + Len(q) - Lead(q) = 2 * n
      /\ Len(got) \in Nat /\ Len(q) \in Nat /\ Lead(q) \in Nat
  BY <1>4 DEF Complete
<1>6. InTransit(got, r, n + 1)
  <2>1. /\ \A i \in 1..Len(got) : got[i] = Piece(i)
        /\ Len(got) <= 2 * (n + 1)
    BY DEF InTransit
  <2>2. ASSUME NEW i \in 1..Len(q)
        PROVE  /\ r[i][1] \in Pieces =>
                    r[i] = Piece(Len(got) + i - Lead(r)) /\ Len(got) + i - Lead(r) <= 2 * (n + 1)
               /\ r[i][1] \in Leads => i = 1
               /\ r[i] # EndOfData
    BY <1>3, <1>4 DEF InTransit, Complete
  <2>3. /\ r[Len(q) + 1] = Piece(Len(got) + (Len(q) + 1) - Lead(r))
        /\ Len(got) + (Len(q) + 1) - Lead(r) <= 2 * (n + 1)
        /\ r[Len(q) + 2] = Piece(Len(got) + (Len(q) + 2) - Lead(r))
        /\ Len(got) + (Len(q) + 2) - Lead(r) <= 2 * (n + 1)
    <3>1. /\ Len(got) + (Len(q) + 1) - Lead(r) = 2 * n + 1
          /\ Len(got) + (Len(q) + 2) - Lead(r) = 2 * n + 2
      <4>1. ASSUME NEW a \in Nat, NEW b \in Nat, NEW c \in Nat, a + b - c = 2 * n
            PROVE  a + (b + 1) - c = 2 * n + 1 /\ a + (b + 2) - c = 2 * n + 2
        BY <4>1
      <4>2. /\ Len(got) + (Len(q) + 1) - Lead(q) = 2 * n + 1
            /\ Len(got) + (Len(q) + 2) - Lead(q) = 2 * n + 2
        BY <1>5, <4>1
      <4> QED
        BY <1>4, <4>2
    <3>2. /\ Piece(Len(got) + (Len(q) + 1) - Lead(r)) = Piece(2 * n + 1)
          /\ Piece(Len(got) + (Len(q) + 2) - Lead(r)) = Piece(2 * n + 2)
      BY <3>1
    <3>3. 2 * n + 1 <= 2 * (n + 1) /\ 2 * n + 2 <= 2 * (n + 1)
      OBVIOUS
    <3>4. /\ r[Len(q) + 1] = Piece(Len(got) + (Len(q) + 1) - Lead(r))
          /\ r[Len(q) + 2] = Piece(Len(got) + (Len(q) + 2) - Lead(r))
      BY <1>3, <3>2
    <3> QED
      BY <3>1, <3>3, <3>4
  <2>4. \A i \in 1..Len(r) : i \in 1..Len(q) \/ i = Len(q) + 1 \/ i = Len(q) + 2
    BY <1>3
  <2> QED
    BY <1>2, <1>3, <2>1, <2>2, <2>3, <2>4 DEF InTransit
<1>7. Complete(got, r, n + 1)
  <2>1. Len(got) + Len(r) - Lead(r) = 2 * (n + 1)
    <3>1. Len(r) = Len(q) + 2 /\ Lead(r) = Lead(q)
      BY <1>3, <1>4
    <3>2. Len(got) + (Len(q) + 2) - Lead(q) = 2 * (n + 1)
      BY <1>5
    <3> QED
      BY <3>1, <3>2
  <2>2. \A i \in 1..Len(r) : i \in 1..Len(q) \/ i = Len(q) + 1 \/ i = Len(q) + 2
    BY <1>3
  <2>3. \A i \in 1..Len(q) : r[i] # EndOfData
    BY <1>3 DEF Complete
  <2> QED
    BY <1>2, <1>3, <2>1, <2>2, <2>3 DEF Complete
<1> QED
  BY <1>3, <1>6, <1>7 DEF r, f

\* The end marker is written behind a direction that has none.
LEMMA EndFollows ==
    ASSUME NEW got \in Seq(Items), NEW q \in Seq(Items), NEW n \in Nat,
           InTransit(got, q, n), Complete(got, q, n)
    PROVE  /\ q \o <<EndOfData>> \in Seq(Items)
           /\ InTransit(got, q \o <<EndOfData>>, n)
<1> DEFINE r == q \o <<EndOfData>>
<1>1. /\ r \in Seq(Items) /\ Len(r) = Len(q) + 1
      /\ \A i \in 1..Len(q) : r[i] = q[i]
      /\ r[Len(q) + 1] = EndOfData
  BY Kinds
<1> HIDE DEF r
<1>2. Lead(r) = Lead(q)
  <2>1. CASE q = <<>>
    BY <1>1, <2>1, Kinds DEF Lead
  <2>2. CASE q # <<>>
    BY <1>1, <2>2 DEF Lead
  <2> QED
    BY <2>1, <2>2
<1>3. \A i \in 1..Len(r) : i \in 1..Len(q) \/ i = Len(q) + 1
  BY <1>1
<1>4. InTransit(got, r, n)
  BY <1>1, <1>2, <1>3, Kinds DEF InTransit, Complete
<1> QED
  BY <1>1, <1>4 DEF r

\* The lead is written when nothing else was.
LEMMA LeadComesFirst ==
    ASSUME NEW lead \in Items, lead[1] \in Leads
    PROVE  /\ <<>> \o <<lead>> = <<lead>> /\ <<lead>> \in Seq(Items)
           /\ InTransit(<<>>, <<lead>>, 0) /\ Complete(<<>>, <<lead>>, 0)
<1>1. lead[1] \notin Pieces /\ lead # EndOfData
  BY Kinds
<1>2. Lead(<<lead>>) = 1
  BY DEF Lead
<1> QED
  BY <1>1, <1>2 DEF InTransit, Complete

\* The piece at the head is handed over.
LEMMA PieceArrives ==
    ASSUME NEW got \in Seq(Items), NEW q \in Seq(Items), NEW n \in Nat,
           InTransit(got, q, n), At(q, Pieces)
    PROVE  /\ Append(got, Head(q)) \in Seq(Items) /\ Tail(q) \in Seq(Items)
           /\ InTransit(Append(got, Head(q)), Tail(q), n)
           /\ Complete(got, q, n) => Complete(Append(got, Head(q)), Tail(q), n)
<1> DEFINE g == Append(got, Head(q))
           t == Tail(q)
<1>1. /\ q # <<>> /\ Head(q) = q[1] /\ q[1][1] \in Pieces /\ q[1][1] \notin Leads
      /\ q[1] \in Items /\ Len(q) >= 1
  BY Kinds DEF At
<1>2. /\ g \in Seq(Items) /\ Len(g) = Len(got) + 1 /\ g[Len(got) + 1] = q[1]
      /\ \A i \in 1..Len(got) : g[i] = got[i]
      /\ t \in Seq(Items) /\ Len(t) = Len(q) - 1
      /\ \A i \in 1..Len(t) : t[i] = q[i + 1] /\ i + 1 \in 1..Len(q)
  BY <1>1
<1> HIDE DEF g, t
<1>3. Lead(q) = 0
  BY <1>1 DEF Lead
<1>4. q[1] = Piece(Len(got) + 1) /\ Len(got) + 1 <= 2 * n
  BY <1>1, <1>3 DEF InTransit
<1>5. \A i \in 1..Len(t) : t[i][1] \notin Leads
  BY <1>2 DEF InTransit
<1>6. Lead(t) = 0
  BY <1>2, <1>5 DEF Lead
<1>7. InTransit(g, t, n)
  <2>1. \A i \in 1..Len(g) : g[i] = Piece(i)
    BY <1>2, <1>4 DEF InTransit
  <2>2. ASSUME NEW i \in 1..Len(t)
        PROVE  /\ t[i][1] \in Pieces =>
                    t[i] = Piece(Len(g) + i - Lead(t)) /\ Len(g) + i - Lead(t) <= 2 * n
               /\ t[i] = EndOfData => i = Len(t)
    <3>1. Len(g) + i - Lead(t) = Len(got) + (i + 1) - Lead(q)
      BY <1>2, <1>3, <1>6
    <3> QED
      BY <1>2, <3>1 DEF InTransit
  <2> QED
    BY <1>2, <1>4, <1>5, <2>1, <2>2 DEF InTransit
<1>8. Complete(got, q, n) => Complete(g, t, n)
  <2>1. Len(g) + Len(t) - Lead(t) = Len(got) + Len(q) - Lead(q)
    <3>1. Len(got) \in Nat /\ Len(q) \in Nat
      OBVIOUS
    <3> QED
      BY <1>2, <1>3, <1>6, <3>1
  <2> QED
    BY <1>2, <2>1 DEF Complete
<1> QED
  BY <1>2, <1>7, <1>8 DEF g, t

\* The lead is read.
LEMMA LeadIsRead ==
    ASSUME NEW got \in Seq(Items), NEW q \in Seq(Items), NEW n \in Nat,
           InTransit(got, q, n), At(q, Leads)
    PROVE  /\ Tail(q) \in Seq(Items)
           /\ InTransit(got, Tail(q), n)
           /\ \A i \in 1..Len(Tail(q)) : Tail(q)[i][1] \notin Leads
           /\ Complete(got, q, n) => Complete(got, Tail(q), n)
<1> DEFINE t == Tail(q)
<1>1. q # <<>> /\ Head(q) = q[1] /\ q[1][1] \in Leads /\ Len(q) >= 1
  BY DEF At
<1>2. /\ t \in Seq(Items) /\ Len(t) = Len(q) - 1
      /\ \A i \in 1..Len(t) : t[i] = q[i + 1] /\ i + 1 \in 1..Len(q)
  BY <1>1
<1> HIDE DEF t
<1>3. Lead(q) = 1
  BY <1>1 DEF Lead
<1>4. \A i \in 1..Len(t) : t[i][1] \notin Leads
  BY <1>2 DEF InTransit
<1>5. Lead(t) = 0
  BY <1>2, <1>4 DEF Lead
<1>6. InTransit(got, t, n)
  <2>1. ASSUME NEW i \in 1..Len(t)
        PROVE  /\ t[i][1] \in Pieces =>
                    t[i] = Piece(Len(got) + i - Lead(t)) /\ Len(got) + i - Lead(t) <= 2 * n
               /\ t[i] = EndOfData => i = Len(t)
    <3>1. Len(got) + i - Lead(t) = Len(got) + (i + 1) - Lead(q)
      BY <1>3, <1>5
    <3> QED
      BY <1>2, <3>1 DEF InTransit
  <2> QED
    BY <1>4, <2>1 DEF InTransit
<1>7. Complete(got, q, n) => Complete(got, t, n)
  BY <1>2, <1>3, <1>5 DEF Complete
<1> QED
  BY <1>2, <1>4, <1>6, <1>7 DEF t

\* A channel that dies leaves a prefix.
LEMMA PrefixRemains ==
    ASSUME NEW got \in Seq(Items), NEW q \in Seq(Items), NEW n \in Nat,
           InTransit(got, q, n), NEW k \in 0..Len(q)
    PROVE  /\ SubSeq(q, 1, k) \in Seq(Items) /\ Len(SubSeq(q, 1, k)) = k
           /\ \A i \in 1..k : SubSeq(q, 1, k)[i] = q[i]
           /\ InTransit(got, SubSeq(q, 1, k), n)
<1> DEFINE t == SubSeq(q, 1, k)
<1>1. t \in Seq(Items) /\ Len(t) = k /\ \A i \in 1..k : t[i] = q[i]
  OBVIOUS
<1> HIDE DEF t
<1>2. t # <<>> => Lead(t) = Lead(q)
  BY <1>1 DEF Lead
<1>3. InTransit(got, t, n)
  <2>1. ASSUME NEW i \in 1..k
        PROVE  /\ t[i][1] \in Pieces =>
                    t[i] = Piece(Len(got) + i - Lead(t)) /\ Len(got) + i - Lead(t) <= 2 * n
               /\ t[i][1] \in Leads => i = 1
               /\ t[i] = EndOfData => i = k
    <3>1. Lead(t) = Lead(q) /\ i \in 1..Len(q)
      BY <1>1, <1>2
    <3> QED
      BY <1>1, <3>1 DEF InTransit
  <2> QED
    BY <1>1, <2>1 DEF InTransit
<1> QED
  BY <1>1, <1>3 DEF t

\* A sender may read on when nobody takes what it writes.
LEMMA MoreIsRead ==
    ASSUME NEW got \in Seq(Items), NEW q \in Seq(Items), NEW n \in Nat,
           InTransit(got, q, n)
    PROVE  InTransit(got, q, n + 1)
<1>1. Lead(q) \in 0..1
  BY DEF Lead
<1> QED
  BY <1>1 DEF InTransit

-----------------------------------------------------------------------------
\* The inductive invariant.

PeerRecords ==
    [sent : 0..MaxChunks, fin : {"no", "half", "closed", "broken"}, got : Seq(Items), eof : BOOLEAN]

Typed ==
    /\ channel \in {"up", "dead"}
    /\ up \in Seq(Items) /\ down \in Seq(Items)
    /\ stServer \in {"open", "closed"} /\ stClient \in {"open", "closed"}
    /\ user \in PeerRecords /\ service \in PeerRecords
    /\ conn \in {"open", "cut", "closed"}
    /\ srv \in {"opened", "awaitAck", "copying", "awaitUp", "closing", "returned", "gone"}
    /\ srvUp \in {"none", "copying", "done"} /\ cliUp \in {"none", "copying", "done"}
    /\ upRead \in 0..MaxChunks /\ downRead \in 0..MaxChunks
    /\ result \in Results \cup {"none"}
    /\ cli \in {"none", "reading", "dialing", "copying", "awaitUp", "closing", "gone"}
    /\ accept \in {"accepting", "waiting", "returned"}

\* Both ends and the channel between them take what is written.
Open == channel = "up" /\ stServer = "open" /\ stClient = "open"

\* Both directions carry what their senders read, and all of it while the sender
\* still writes.
Upwards ==
    /\ InTransit(service.got, up, upRead)
    /\ Open /\ srvUp = "copying" => Complete(service.got, up, upRead)
    /\ upRead <= user.sent

Downwards ==
    /\ InTransit(user.got, down, downRead)
    /\ Open /\ cli = "copying" => Complete(user.got, down, downRead)
    /\ downRead <= service.sent

\* Nothing precedes the header; until the client has read it, it is there.
HeaderFirst ==
    /\ srv = "opened" => srvUp = "none" /\ stServer = "open" /\ result = "none"
    /\ srvUp = "none" =>
         /\ up = <<>> /\ upRead = 0
         /\ cliUp = "none" /\ cli \in {"none", "reading", "closing", "gone"}
    /\ cli \in {"none", "reading"} =>
         /\ up # <<>> => up[1] = Header
         /\ srvUp # "none" /\ channel = "up" => up # <<>>

\* Nothing precedes the ack, nor does the service see anything before it.
AckFirst ==
    /\ cli \in {"none", "reading", "dialing"} =>
         /\ down = <<>> /\ downRead = 0 /\ user.got = <<>>
         /\ cliUp = "none" /\ stClient = "open"
    /\ cliUp = "none" => service.got = <<>> /\ ~service.eof

Refusals == {"not_allowed", "dial_failed", "rejected"}

\* A refusal is known to the server or on its way.
Refused ==
    \/ result \in Refusals
    \/ \E i \in 1..Len(down) : \E status \in Refusals : down[i] = Ack(status)

\* A client that refused is done with the stream, or never got a header.
RefusalIsFinal ==
    Refused =>
        /\ cliUp = "none"
        /\ \/ cli \in {"closing", "gone"}
           \/ channel = "dead" /\ srvUp = "none" /\ cli \in {"none", "reading"}

SInv ==
    /\ Typed
    /\ Upwards
    /\ Downwards
    /\ HeaderFirst
    /\ AckFirst
    /\ RefusalIsFinal

-----------------------------------------------------------------------------
\* The steps that leave both directions alone.

\* A peer that is handed a piece, that sees an end, that sends or stops.
LEMMA PeerUpdates ==
    ASSUME NEW P \in PeerRecords
    PROVE  /\ P.got \in Seq(Items) /\ P.sent \in Nat /\ P.eof \in BOOLEAN
           /\ \A x \in Items :
                /\ Delivered(P, x) \in PeerRecords /\ Delivered(P, x).got = Append(P.got, x)
                /\ Delivered(P, x).sent = P.sent /\ Delivered(P, x).eof = P.eof
           /\ \A b \in BOOLEAN :
                LET Q == [P EXCEPT !.eof = b]
                IN  Q \in PeerRecords /\ Q.got = P.got /\ Q.sent = P.sent
<1>1. P.got \in Seq(Items) /\ P.sent \in Nat /\ P.eof \in BOOLEAN
  BY DEF PeerRecords
<1>2. ASSUME NEW x \in Items
      PROVE  /\ Delivered(P, x) \in PeerRecords /\ Delivered(P, x).got = Append(P.got, x)
             /\ Delivered(P, x).sent = P.sent /\ Delivered(P, x).eof = P.eof
  <2> DEFINE got == Append(P.got, x)
  <2>1. got \in Seq(Items)
    BY <1>1
  <2>2. Delivered(P, x) = [P EXCEPT !.got = got]
    BY DEF Delivered
  <2> HIDE DEF got
  <2>3. /\ [P EXCEPT !.got = got] \in PeerRecords /\ [P EXCEPT !.got = got].got = got
        /\ [P EXCEPT !.got = got].sent = P.sent /\ [P EXCEPT !.got = got].eof = P.eof
    BY <2>1 DEF PeerRecords
  <2>4. /\ Delivered(P, x) \in PeerRecords /\ Delivered(P, x).got = got
        /\ Delivered(P, x).sent = P.sent /\ Delivered(P, x).eof = P.eof
    BY <2>2, <2>3
  <2> QED
    BY <2>4 DEF got
<1>3. \A b \in BOOLEAN :
        LET Q == [P EXCEPT !.eof = b]
        IN  Q \in PeerRecords /\ Q.got = P.got /\ Q.sent = P.sent
  BY DEF PeerRecords
<1> QED
  BY <1>1, <1>2, <1>3

\* A peer that sends or shuts down keeps what it was handed.
LEMMA PeerSends ==
    ASSUME NEW P \in PeerRecords, NEW Q,
           \/ P.sent < MaxChunks /\ Q = [P EXCEPT !.sent = @ + 1]
           \/ \E how \in {"half", "closed", "broken"} : Q = [P EXCEPT !.fin = how]
    PROVE  Q \in PeerRecords /\ Q.got = P.got /\ Q.eof = P.eof /\ P.sent <= Q.sent
<1>1. P.sent \in 0..MaxChunks /\ MaxChunks \in Nat
  BY MaxChunksAssumption DEF PeerRecords
<1>2. CASE P.sent < MaxChunks /\ Q = [P EXCEPT !.sent = @ + 1]
  <2>1. P.sent + 1 \in 0..MaxChunks
    BY <1>1, <1>2
  <2> QED
    BY <1>1, <1>2, <2>1 DEF PeerRecords
<1>3. CASE \E how \in {"half", "closed", "broken"} : Q = [P EXCEPT !.fin = how]
  BY <1>1, <1>3 DEF PeerRecords
<1> QED
  BY <1>2, <1>3

\* A peer keeps its record, got no more and sent no less.
Keeps(P, Q) == Q \in PeerRecords /\ Q.got = P.got /\ P.sent <= Q.sent

\* Seeing an end changes nothing else.
LEMMA PeerSeesEnd ==
    ASSUME NEW P \in PeerRecords, NEW b
    PROVE  Keeps(P, [P EXCEPT !.eof = @ \/ b])
<1>1. (P.eof \/ b) \in BOOLEAN
  OBVIOUS
<1>2. P.sent \in Nat
  BY DEF PeerRecords
<1> DEFINE c == P.eof \/ b
<1>3. c \in BOOLEAN /\ [P EXCEPT !.eof = @ \/ b] = [P EXCEPT !.eof = c]
  BY <1>1
<1> HIDE DEF c
<1>4. /\ [P EXCEPT !.eof = c] \in PeerRecords /\ [P EXCEPT !.eof = c].got = P.got
      /\ [P EXCEPT !.eof = c].sent = P.sent
  BY <1>3 DEF PeerRecords
<1> QED
  BY <1>2, <1>3, <1>4 DEF Keeps

\* Goroutines move on without reading or writing the stream.
ServerMoves ==
    /\ srv' = "opened" => srv = "opened" /\ UNCHANGED <<srvUp, stServer, result>>
    /\ srvUp' = srvUp \/ (srvUp = "copying" /\ srvUp' = "done")
    /\ stServer' = stServer \/ stServer' = "closed"
    /\ result' \in Refusals => result \in Refusals \/ (channel = "dead" /\ srvUp = "none")

ClientMoves ==
    /\ cliUp' = cliUp \/ (cliUp = "copying" /\ cliUp' = "done")
    /\ cliUp' = "none" => service'.eof = service.eof
    /\ \/ cli' = cli
       \/ cli = "none" /\ cli' = "reading"
       \/ cli = "reading" /\ cli' = "closing"
       \/ cli \in {"copying", "awaitUp"} /\ cli' \in {"awaitUp", "closing"}
       \/ cli = "closing" /\ cli' = "gone"
    /\ stClient' = stClient \/ (stClient' = "closed" /\ cli' = "gone")

\* A step that leaves the stream alone, and moves its ends only forward, keeps the
\* invariant.
LEMMA StreamUntouched ==
    ASSUME SInv, Typed', UNCHANGED <<channel, up, down, upRead, downRead>>,
           Keeps(user, user'), Keeps(service, service'), ServerMoves, ClientMoves
    PROVE  SInv'
<1>1. /\ upRead \in Nat /\ downRead \in Nat
      /\ user.sent \in Nat /\ service.sent \in Nat
      /\ user'.sent \in Nat /\ service'.sent \in Nat
  BY DEF SInv, Typed, PeerRecords
<1>2. Open' => Open
  BY DEF Open, ServerMoves, ClientMoves
<1>3. Upwards'
  <2>1. srvUp' = "copying" => srvUp = "copying"
    BY DEF ServerMoves
  <2> QED
    BY <1>1, <1>2, <2>1 DEF SInv, Upwards, Keeps
<1>4. Downwards'
  <2>1. cli' = "copying" => cli = "copying"
    BY DEF ClientMoves
  <2> QED
    BY <1>1, <1>2, <2>1 DEF SInv, Downwards, Keeps
<1>5. HeaderFirst'
  BY DEF SInv, HeaderFirst, ServerMoves, ClientMoves
<1>6. AckFirst'
  BY DEF SInv, AckFirst, ClientMoves, Keeps
<1>7. RefusalIsFinal'
  <2> SUFFICES ASSUME Refused'
               PROVE  /\ cliUp' = "none"
                      /\ \/ cli' \in {"closing", "gone"}
                         \/ channel' = "dead" /\ srvUp' = "none" /\ cli' \in {"none", "reading"}
    BY DEF RefusalIsFinal
  <2>1. CASE channel = "dead" /\ srvUp = "none"
    BY <2>1 DEF SInv, HeaderFirst, ServerMoves, ClientMoves
  <2>2. CASE Refused
    BY <2>2 DEF SInv, RefusalIsFinal, ServerMoves, ClientMoves
  <2> QED
    BY <2>1, <2>2 DEF Refused, ServerMoves
<1> QED
  BY <1>3, <1>4, <1>5, <1>6, <1>7 DEF SInv

\* A peer that is left alone keeps what it has.
LEMMA PeersKeep ==
    ASSUME SInv
    PROVE  /\ user \in PeerRecords /\ service \in PeerRecords
           /\ Keeps(user, user) /\ Keeps(service, service)
<1>1. user \in PeerRecords /\ service \in PeerRecords
  BY DEF SInv, Typed
<1>2. user.sent \in Nat /\ service.sent \in Nat
  BY <1>1 DEF PeerRecords
<1> QED
  BY <1>1, <1>2 DEF Keeps

\* The steps of the server's end that leave the stream's contents alone.
LEMMA ServerMovesInv ==
    ASSUME SInv,
           \/ AckFails \/ DownEnds \/ AwaitUp \/ CloseStream \/ Untrack \/ StopCuts
           \/ WriteHeader /\ ~CanWrite(stServer)
    PROVE  SInv'
<1>1. UNCHANGED <<channel, up, down, upRead, downRead, service, srvUp, cliUp, cli, stClient,
                  accept>>
  BY DEF AckFails, DownEnds, AwaitUp, CloseStream, Untrack, StopCuts, WriteHeader, clientVars,
         peerVars
<1>2. ServerMoves
  <2>1. CASE AckFails \/ DownEnds \/ AwaitUp \/ CloseStream \/ Untrack \/ StopCuts
    BY <2>1 DEF ServerMoves, AckFails, DownEnds, AwaitUp, CloseStream, Untrack, StopCuts,
                Refusals
  <2>2. CASE WriteHeader /\ ~CanWrite(stServer)
    <3>1. stServer = "open" /\ srvUp = "none" /\ channel \in {"up", "dead"}
      BY <2>2 DEF WriteHeader, SInv, HeaderFirst, Typed
    <3> QED
      BY <2>2, <3>1 DEF ServerMoves, WriteHeader, CanWrite
  <2> QED
    BY <2>1, <2>2
<1>3. ClientMoves
  BY <1>1 DEF ClientMoves
<1>4. Keeps(user, user') /\ Keeps(service, service')
  <2>1. CASE DownEnds
    <3>1. user' = [user EXCEPT !.eof = @ \/ ~(ConnGone \/ Deaf(user))]
      BY <2>1 DEF DownEnds
    <3> QED
      BY <1>1, <3>1, PeersKeep, PeerSeesEnd
  <2>2. CASE UNCHANGED peerVars
    BY <2>2, PeersKeep DEF peerVars
  <2> QED
    BY <2>1, <2>2 DEF AckFails, AwaitUp, CloseStream, Untrack, StopCuts, WriteHeader
<1>5. Typed'
  <2>1. /\ conn' \in {"open", "cut", "closed"}
        /\ stServer' \in {"open", "closed"}
    BY DEF SInv, Typed, AckFails, DownEnds, AwaitUp, CloseStream, Untrack, StopCuts, WriteHeader,
           CloseConn
  <2>2. srv' \in {"opened", "awaitAck", "copying", "awaitUp", "closing", "returned", "gone"}
    BY DEF SInv, Typed, AckFails, DownEnds, AwaitUp, CloseStream, Untrack, StopCuts, WriteHeader
  <2>3. result' \in Results \cup {"none"}
    BY DEF SInv, Typed, AckFails, DownEnds, AwaitUp, CloseStream, Untrack, StopCuts, WriteHeader,
           Results
  <2> QED
    BY <1>1, <1>4, <2>1, <2>2, <2>3 DEF SInv, Typed, Keeps
<1> QED
  BY <1>1, <1>2, <1>3, <1>4, <1>5, StreamUntouched

\* The same of the client's end and of the peers.
LEMMA ClientMovesInv ==
    ASSUME SInv,
           \/ AcceptStream \/ AcceptFails \/ ServeChannelReturns \/ NoHeader
           \/ CliUpEnds \/ CliAwaitUp \/ CliCloses \/ UserStep \/ ServiceStep
    PROVE  SInv'
<1>1. UNCHANGED <<channel, up, down, upRead, downRead, stServer, conn, srv, srvUp, result>>
  BY DEF AcceptStream, AcceptFails, ServeChannelReturns, NoHeader, CliUpEnds, CliAwaitUp,
         CliCloses, UserStep, ServiceStep, serverVars, clientVars
<1>2. Keeps(user, user') /\ Keeps(service, service')
  <2>1. CASE UserStep
    <3>1. /\ \/ user.sent < MaxChunks /\ user' = [user EXCEPT !.sent = @ + 1]
             \/ \E how \in {"half", "closed", "broken"} : user' = [user EXCEPT !.fin = how]
          /\ service' = service
      BY <2>1 DEF UserStep, Sends, Stops
    <3> QED
      BY <3>1, PeersKeep, PeerSends DEF Keeps
  <2>2. CASE ServiceStep
    <3>1. /\ \/ service.sent < MaxChunks /\ service' = [service EXCEPT !.sent = @ + 1]
             \/ \E how \in {"half", "closed", "broken"} : service' = [service EXCEPT !.fin = how]
          /\ user' = user
      BY <2>2 DEF ServiceStep, Sends, Stops
    <3> QED
      BY <3>1, PeersKeep, PeerSends DEF Keeps
  <2>3. CASE CliUpEnds
    <3>1. service' = [service EXCEPT !.eof = @ \/ ~Deaf(service)] /\ user' = user
      BY <2>3 DEF CliUpEnds
    <3> QED
      BY <3>1, PeersKeep, PeerSeesEnd
  <2>4. CASE UNCHANGED peerVars
    BY <2>4, PeersKeep DEF peerVars
  <2> QED
    BY <2>1, <2>2, <2>3, <2>4 DEF AcceptStream, AcceptFails, ServeChannelReturns, NoHeader,
                                  CliAwaitUp, CliCloses
<1>3. ServerMoves
  BY <1>1 DEF ServerMoves
<1>4. ClientMoves
  <2>1. CASE UserStep
    BY <2>1 DEF ClientMoves, UserStep, clientVars
  <2>2. CASE ServiceStep
    <3>1. service'.eof = service.eof
      <4>1. \/ service' = [service EXCEPT !.sent = @ + 1]
            \/ \E how \in {"half", "closed", "broken"} : service' = [service EXCEPT !.fin = how]
        BY <2>2 DEF ServiceStep, Sends, Stops
      <4> QED
        BY <4>1, PeersKeep DEF PeerRecords
    <3> QED
      BY <2>2, <3>1 DEF ClientMoves, ServiceStep, clientVars
  <2>3. CASE CliUpEnds
    BY <2>3 DEF ClientMoves, CliUpEnds
  <2>4. CASE AcceptStream \/ AcceptFails \/ ServeChannelReturns \/ NoHeader
    BY <2>4 DEF ClientMoves, AcceptStream, AcceptFails, ServeChannelReturns, NoHeader, peerVars
  <2>5. CASE CliAwaitUp \/ CliCloses
    BY <2>5 DEF ClientMoves, CliAwaitUp, CliCloses, peerVars
  <2> QED
    BY <2>1, <2>2, <2>3, <2>4, <2>5
<1>5. Typed'
  <2>1. accept' \in {"accepting", "waiting", "returned"}
    BY DEF SInv, Typed, AcceptStream, AcceptFails, ServeChannelReturns, NoHeader, CliUpEnds,
           CliAwaitUp, CliCloses, UserStep, ServiceStep, clientVars
  <2>2. /\ cli' \in {"none", "reading", "dialing", "copying", "awaitUp", "closing", "gone"}
        /\ stClient' \in {"open", "closed"} /\ cliUp' \in {"none", "copying", "done"}
    BY <1>4 DEF SInv, Typed, ClientMoves
  <2> QED
    BY <1>1, <1>2, <2>1, <2>2 DEF SInv, Typed, Keeps
<1> QED
  BY <1>1, <1>2, <1>3, <1>4, <1>5, StreamUntouched

-----------------------------------------------------------------------------
\* What the server's end writes and reads.

\* The types of the values the steps read.
LEMMA Values ==
    ASSUME SInv
    PROVE  /\ up \in Seq(Items) /\ down \in Seq(Items)
           /\ user.got \in Seq(Items) /\ service.got \in Seq(Items)
           /\ upRead \in 0..MaxChunks /\ downRead \in 0..MaxChunks /\ MaxChunks \in Nat
           /\ upRead \in Nat /\ downRead \in Nat
           /\ user.sent \in 0..MaxChunks /\ service.sent \in 0..MaxChunks
BY MaxChunksAssumption DEF SInv, Typed, PeerRecords

\* A step that touches the upward direction only keeps what is said of the other.
LEMMA DownwardsKept ==
    ASSUME SInv,
           UNCHANGED <<channel, down, downRead, stServer, stClient, cli, cliUp, result, user>>,
           service'.sent = service.sent, cliUp' = "none" => service' = service,
           channel = "up" \/ srvUp' = srvUp
    PROVE  Downwards' /\ AckFirst' /\ RefusalIsFinal'
<1>1. Downwards'
  BY DEF SInv, Downwards, Open
<1>2. AckFirst'
  BY DEF SInv, AckFirst
<1>3. RefusalIsFinal'
  BY DEF SInv, RefusalIsFinal, Refused
<1> QED
  BY <1>1, <1>2, <1>3

\* The header is the first thing on the stream.
LEMMA WriteHeaderInv ==
    ASSUME SInv, WriteHeader, CanWrite(stServer)
    PROVE  SInv'
<1>1. /\ srv = "opened" /\ srv' = "awaitAck" /\ srvUp' = "copying"
      /\ up' = Sending(up, <<Header>>, stClient)
      /\ channel = "up" /\ stServer = "open"
      /\ UNCHANGED <<channel, down, result, stServer, conn, upRead, clientVars, peerVars>>
  BY DEF WriteHeader, CanWrite
<1>2. up = <<>> /\ upRead = 0 /\ service.got = <<>>
  BY <1>1 DEF SInv, HeaderFirst, AckFirst
<1>3. /\ up' = <<Header>> \/ (up' = <<>> /\ stClient # "open")
      /\ Header \in Items /\ <<Header>> \in Seq(Items)
      /\ InTransit(<<>>, <<Header>>, 0) /\ Complete(<<>>, <<Header>>, 0)
  BY <1>1, <1>2, Kinds, LeadComesFirst DEF Sending
<1>4. Typed'
  <2>1. up' \in Seq(Items)
    BY <1>2, <1>3, Values
  <2> QED
    BY <1>1, <2>1 DEF SInv, Typed, clientVars, peerVars
<1>5. Upwards'
  <2>1. CASE up' = <<Header>>
    BY <1>1, <1>2, <1>3, <2>1 DEF SInv, Upwards, clientVars, peerVars
  <2>2. CASE up' = up /\ stClient # "open"
    BY <1>1, <2>2 DEF SInv, Upwards, Open, clientVars, peerVars
  <2> QED
    BY <1>2, <1>3, <2>1, <2>2
<1>6. HeaderFirst'
  <2>1. cli \in {"none", "reading"} => stClient = "open"
    BY DEF SInv, AckFirst
  <2>2. cli \in {"none", "reading"} => up' = <<Header>>
    BY <1>3, <2>1
  <2> QED
    BY <1>1, <2>2 DEF HeaderFirst, clientVars
<1>7. Downwards' /\ AckFirst' /\ RefusalIsFinal'
  BY <1>1, DownwardsKept DEF clientVars, peerVars
<1> QED
  BY <1>4, <1>5, <1>6, <1>7 DEF SInv

\* A chunk is read and written as one frame.
LEMMA UpCopiesInv ==
    ASSUME SInv, UpCopies
    PROVE  SInv'
<1>1. /\ srvUp = "copying" /\ upRead < user.sent /\ upRead' = upRead + 1
      /\ up' = Sending(up, Frame(upRead + 1), stClient)
      /\ channel = "up" /\ stServer = "open"
      /\ UNCHANGED <<channel, down, stServer, conn, srv, srvUp, result, clientVars, peerVars>>
  BY DEF UpCopies, CanWrite
<1>2. /\ InTransit(service.got, up, upRead)
      /\ stClient = "open" => Complete(service.got, up, upRead)
      /\ upRead + 1 <= user.sent /\ upRead + 1 \in 0..MaxChunks
  BY <1>1, Values DEF SInv, Upwards, Open
<1>3. /\ up' \in Seq(Items)
      /\ InTransit(service.got, up', upRead')
      /\ stClient = "open" => Complete(service.got, up', upRead')
  <2>1. CASE stClient = "open"
    <3>1. up' = up \o Frame(upRead + 1)
      BY <1>1, <2>1 DEF Sending
    <3> QED
      BY <1>1, <1>2, <2>1, <3>1, Values, FrameFollows
  <2>2. CASE stClient # "open"
    <3>1. up' = up
      BY <1>1, <2>2 DEF Sending
    <3> QED
      BY <1>1, <1>2, <2>2, <3>1, Values, MoreIsRead
  <2> QED
    BY <2>1, <2>2
<1>4. Typed'
  BY <1>1, <1>2, <1>3 DEF SInv, Typed, clientVars, peerVars
<1>5. Upwards'
  BY <1>1, <1>2, <1>3 DEF Upwards, Open, clientVars, peerVars
<1>6. HeaderFirst'
  <2>1. cli \in {"none", "reading"} => up # <<>> /\ up[1] = Header
    BY <1>1 DEF SInv, HeaderFirst
  <2>2. up # <<>> => up' # <<>> /\ up'[1] = up[1]
    <3>1. CASE up' = up
      BY <3>1
    <3>2. CASE up' = up \o Frame(upRead + 1)
      <4>1. Frame(upRead + 1) \in Seq(Items)
        BY Values, Kinds
      <4> QED
        BY <3>2, <4>1, Values
    <3> QED
      BY <1>1, <3>1, <3>2 DEF Sending
  <2>3. srvUp' # "none" /\ (srv' = "opened" => srvUp = "none")
    BY <1>1 DEF SInv, HeaderFirst
  <2> QED
    BY <1>1, <2>1, <2>2, <2>3 DEF HeaderFirst, clientVars
<1>7. Downwards' /\ AckFirst' /\ RefusalIsFinal'
  BY <1>1, DownwardsKept DEF clientVars, peerVars
<1> QED
  BY <1>4, <1>5, <1>6, <1>7 DEF SInv

\* The end of the copy is marked, if anybody takes it.
LEMMA UpEndsInv ==
    ASSUME SInv, UpEnds
    PROVE  SInv'
<1>1. /\ srvUp = "copying" /\ srvUp' = "done"
      /\ \/ up' = up
         \/ Open /\ up' = up \o <<EndOfData>>
      /\ UNCHANGED <<channel, down, stServer, conn, srv, upRead, result, clientVars, peerVars>>
  BY DEF UpEnds, CanWrite, Sending, Open, SInv, Typed
<1>2. CASE up' = up
  <2>1. ServerMoves /\ ClientMoves
    BY <1>1 DEF ServerMoves, ClientMoves, clientVars, peerVars, SInv, HeaderFirst
  <2>2. Keeps(user, user') /\ Keeps(service, service')
    BY <1>1, PeersKeep DEF peerVars
  <2>3. Typed'
    BY <1>1, <1>2 DEF SInv, Typed, clientVars, peerVars
  <2> QED
    BY <1>1, <1>2, <2>1, <2>2, <2>3, StreamUntouched DEF clientVars
<1>3. CASE Open /\ up' = up \o <<EndOfData>>
  <2>1. InTransit(service.got, up, upRead) /\ Complete(service.got, up, upRead)
    BY <1>1, <1>3 DEF SInv, Upwards
  <2>2. up' \in Seq(Items) /\ InTransit(service.got, up', upRead)
    BY <1>3, <2>1, Values, EndFollows
  <2>3. Typed'
    BY <1>1, <2>2 DEF SInv, Typed, clientVars, peerVars
  <2>4. Upwards'
    BY <1>1, <2>2 DEF SInv, Upwards, peerVars
  <2>5. HeaderFirst'
    <3>1. cli \in {"none", "reading"} => up # <<>> /\ up[1] = Header
      BY <1>1, <1>3 DEF SInv, HeaderFirst, Open
    <3>2. up # <<>> => up' # <<>> /\ up'[1] = up[1]
      BY <1>3, Values, Kinds
    <3>3. srv' # "opened"
      BY <1>1 DEF SInv, HeaderFirst
    <3> QED
      BY <1>1, <3>1, <3>2, <3>3 DEF HeaderFirst, clientVars
  <2>6. Downwards' /\ AckFirst' /\ RefusalIsFinal'
    BY <1>1, <1>3, DownwardsKept DEF clientVars, peerVars, Open
  <2> QED
    BY <2>3, <2>4, <2>5, <2>6 DEF SInv
<1> QED
  BY <1>1, <1>2, <1>3

\* A step that touches the downward direction only keeps what is said of the other.
LEMMA UpwardsKept ==
    ASSUME SInv,
           UNCHANGED <<channel, up, upRead, stServer, stClient, cli, cliUp, service, srvUp>>,
           srv' # "opened", user'.sent = user.sent
    PROVE  Upwards' /\ HeaderFirst'
<1>1. Upwards'
  BY DEF SInv, Upwards, Open
<1>2. HeaderFirst'
  BY DEF SInv, HeaderFirst
<1> QED
  BY <1>1, <1>2

\* The ack is read, and only if it is one.
LEMMA ReadAckInv ==
    ASSUME SInv, ReadAck
    PROVE  SInv'
<1>1. /\ srv = "awaitAck" /\ srv' \in {"copying", "closing"}
      /\ down # <<>> /\ Head(down) = down[1] /\ down[1][1] = "ack"
      /\ result' = down[1][2] /\ down' = Tail(down)
      /\ UNCHANGED <<channel, up, stServer, conn, srvUp, upRead, clientVars, peerVars>>
  BY Values DEF ReadAck, At
<1>2. PICK status \in Statuses : down[1] = Ack(status) /\ result' = status
  <2>1. down[1] \in Items
    BY <1>1, Values
  <2> QED
    BY <1>1, <2>1 DEF Items, Header, EndOfData, Ack, Pieces
<1>3. At(down, Leads)
  BY <1>1 DEF At, Leads
<1>4. /\ down' \in Seq(Items) /\ InTransit(user.got, down', downRead)
      /\ \A i \in 1..Len(down') : down'[i][1] \notin Leads
      /\ Complete(user.got, down, downRead) => Complete(user.got, down', downRead)
  <2>1. InTransit(user.got, down, downRead)
    BY DEF SInv, Downwards
  <2> QED
    BY <1>1, <1>3, <2>1, Values, LeadIsRead
<1>5. Typed'
  <2>1. result' \in Results
    BY <1>2 DEF Statuses, Results
  <2> QED
    BY <1>1, <1>4, <2>1 DEF SInv, Typed, clientVars, peerVars
<1>6. Upwards' /\ HeaderFirst'
  BY <1>1, UpwardsKept DEF clientVars, peerVars
<1>7. Downwards'
  BY <1>1, <1>4 DEF SInv, Downwards, Open, clientVars, peerVars
<1>8. AckFirst'
  BY <1>1 DEF SInv, AckFirst, clientVars, peerVars
<1>9. RefusalIsFinal'
  <2> SUFFICES ASSUME Refused' PROVE Refused
    BY <1>1 DEF SInv, RefusalIsFinal, clientVars
  <2>1. result' \in Refusals
    BY <1>4, Kinds DEF Refused
  <2>2. 1 \in 1..Len(down) /\ status \in Refusals
    BY <1>1, <1>2, <2>1, Values
  <2> QED
    BY <1>2, <2>2 DEF Refused
<1> QED
  BY <1>5, <1>6, <1>7, <1>8, <1>9 DEF SInv

\* A piece is handed to the external peer.
LEMMA DownCopiesInv ==
    ASSUME SInv, DownCopies
    PROVE  SInv'
<1>1. /\ srv = "copying" /\ At(down, Pieces)
      /\ user' = Delivered(user, Head(down)) /\ down' = Tail(down)
      /\ UNCHANGED <<channel, up, serverVars, clientVars, service>>
  BY DEF DownCopies
<1>2. Head(down) \in Items /\ down # <<>>
  BY <1>1, Values DEF At
<1>3. /\ user' \in PeerRecords /\ user'.got = Append(user.got, Head(down))
      /\ user'.sent = user.sent
  BY <1>1, <1>2, PeersKeep, PeerUpdates
<1>4. /\ down' \in Seq(Items) /\ InTransit(user'.got, down', downRead)
      /\ Complete(user.got, down, downRead) => Complete(user'.got, down', downRead)
  <2>1. InTransit(user.got, down, downRead)
    BY DEF SInv, Downwards
  <2> QED
    BY <1>1, <1>3, <2>1, Values, PieceArrives
<1>5. Typed'
  BY <1>1, <1>3, <1>4 DEF SInv, Typed, serverVars, clientVars
<1>6. Upwards' /\ HeaderFirst'
  BY <1>1, <1>3, UpwardsKept DEF serverVars, clientVars
<1>7. Downwards'
  BY <1>1, <1>4 DEF SInv, Downwards, Open, serverVars, clientVars
<1>8. AckFirst'
  BY <1>1, <1>2 DEF SInv, AckFirst, serverVars, clientVars
<1>9. RefusalIsFinal'
  <2> SUFFICES ASSUME Refused' PROVE Refused
    BY <1>1 DEF SInv, RefusalIsFinal, serverVars, clientVars
  <2>1. \A i \in 1..Len(down') : i + 1 \in 1..Len(down) /\ down'[i] = down[i + 1]
    BY <1>1, <1>2, Values
  <2> QED
    BY <1>1, <2>1 DEF Refused, serverVars
<1> QED
  BY <1>5, <1>6, <1>7, <1>8, <1>9 DEF SInv

-----------------------------------------------------------------------------
\* What the client's end writes and reads.

\* The ack is the first thing on its direction.
LEMMA AckIsWritten ==
    ASSUME SInv, cli \in {"reading", "dialing"}, NEW status \in Statuses, WriteAck(status)
    PROVE  /\ down' \in Seq(Items) /\ InTransit(user.got, down', downRead)
           /\ Open => Complete(user.got, down', downRead)
           /\ down' = <<>> \/ down' = <<Ack(status)>>
<1>1. down = <<>> /\ downRead = 0 /\ user.got = <<>> /\ stClient = "open"
  BY DEF SInv, AckFirst
<1>2. /\ <<Ack(status)>> \in Seq(Items)
      /\ InTransit(<<>>, <<Ack(status)>>, 0) /\ Complete(<<>>, <<Ack(status)>>, 0)
      /\ <<>> \o <<Ack(status)>> = <<Ack(status)>>
  BY Kinds, LeadComesFirst
<1>3. \/ down' = <<Ack(status)>>
      \/ down' = down /\ ~Open
  BY <1>1, <1>2 DEF WriteAck, Sending, CanWrite, Open
<1>4. InTransit(user.got, down, downRead)
  BY DEF SInv, Downwards
<1>5. CASE down' = <<Ack(status)>>
  BY <1>1, <1>2, <1>5
<1>6. CASE down' = down /\ ~Open
  BY <1>1, <1>4, <1>6, Values
<1> QED
  BY <1>3, <1>5, <1>6

\* The header is read: the client refuses, or goes on to dial.
LEMMA ReadHeaderInv ==
    ASSUME SInv, ReadHeader
    PROVE  SInv'
<1>1. /\ cli = "reading" /\ up # <<>> /\ up' = Tail(up)
      /\ \/ cli' = "dialing" /\ down' = down
         \/ cli' = "closing" /\ \E status \in {"rejected", "not_allowed"} : WriteAck(status)
      /\ UNCHANGED <<channel, serverVars, stClient, cliUp, downRead, accept, peerVars>>
  BY DEF ReadHeader
<1>2. /\ up[1] = Header /\ srvUp # "none" /\ srv # "opened"
      /\ cliUp = "none" /\ down = <<>> /\ downRead = 0 /\ user.got = <<>> /\ stClient = "open"
      /\ service.got = <<>> /\ ~service.eof
  BY <1>1 DEF SInv, HeaderFirst, AckFirst
<1>3. At(up, Leads)
  <2>1. Head(up) = up[1]
    BY <1>1, Values
  <2>2. Header[1] \in Leads
    BY Kinds
  <2> QED
    BY <1>1, <1>2, <2>1, <2>2 DEF At
<1>4. /\ up' \in Seq(Items) /\ InTransit(service.got, up', upRead)
      /\ Complete(service.got, up, upRead) => Complete(service.got, up', upRead)
  <2>1. InTransit(service.got, up, upRead)
    BY DEF SInv, Upwards
  <2> QED
    BY <1>1, <1>3, <2>1, Values, LeadIsRead
<1>5. /\ down' \in Seq(Items) /\ InTransit(user.got, down', downRead)
      /\ cli' = "dialing" => down' = <<>>
  <2>1. CASE cli' = "dialing" /\ down' = down
    BY <1>2, <2>1, Values DEF SInv, Downwards
  <2>2. CASE cli' = "closing" /\ \E status \in {"rejected", "not_allowed"} : WriteAck(status)
    BY <1>1, <2>2, AckIsWritten DEF Statuses
  <2> QED
    BY <1>1, <2>1, <2>2
<1>6. Typed'
  BY <1>1, <1>4, <1>5 DEF SInv, Typed, serverVars, peerVars
<1>7. Upwards'
  BY <1>1, <1>4 DEF SInv, Upwards, Open, serverVars, peerVars
<1>8. Downwards'
  BY <1>1, <1>5 DEF SInv, Downwards, serverVars, peerVars
<1>9. HeaderFirst' /\ AckFirst'
  BY <1>1, <1>2, <1>5 DEF HeaderFirst, AckFirst, serverVars, peerVars
<1>10. RefusalIsFinal'
  <2>1. CASE cli' = "closing"
    BY <1>1, <1>2, <2>1 DEF RefusalIsFinal
  <2>2. CASE cli' = "dialing"
    <3>1. ~Refused
      BY <1>1, <1>2 DEF SInv, RefusalIsFinal
    <3>2. ~Refused'
      BY <1>1, <2>2, <3>1 DEF Refused, serverVars
    <3> QED
      BY <3>2 DEF RefusalIsFinal
  <2> QED
    BY <1>1, <2>1, <2>2
<1> QED
  BY <1>6, <1>7, <1>8, <1>9, <1>10 DEF SInv

\* The service is dialled; only if it answers the copies start.
LEMMA DialInv ==
    ASSUME SInv, DialFails \/ DialSucceeds
    PROVE  SInv'
<1>1. /\ cli = "dialing"
      /\ UNCHANGED <<channel, up, serverVars, stClient, downRead, accept, peerVars>>
  BY DEF DialFails, DialSucceeds
<1>2. /\ srvUp # "none" /\ srv # "opened" /\ ~Refused
      /\ cliUp = "none" /\ down = <<>> /\ user.got = <<>> /\ stClient = "open"
      /\ service.got = <<>> /\ ~service.eof
  BY <1>1 DEF SInv, HeaderFirst, AckFirst, RefusalIsFinal
<1>3. Upwards'
  BY <1>1 DEF SInv, Upwards, Open, serverVars, peerVars
<1>4. PICK status \in Statuses :
        /\ WriteAck(status)
        /\ \/ cli' = "closing" /\ cliUp' = cliUp
           \/ cli' = "copying" /\ cliUp' = "copying" /\ status = "ok"
  BY DEF DialFails, DialSucceeds, Statuses
<1>5. /\ down' \in Seq(Items) /\ InTransit(user.got, down', downRead)
      /\ Open => Complete(user.got, down', downRead)
      /\ down' = <<>> \/ down' = <<Ack(status)>>
  BY <1>1, <1>4, AckIsWritten
<1>6. Typed'
  BY <1>1, <1>4, <1>5 DEF SInv, Typed, serverVars, peerVars
<1>7. Downwards'
  BY <1>1, <1>5 DEF SInv, Downwards, Open, serverVars, peerVars
<1>8. HeaderFirst' /\ AckFirst'
  BY <1>1, <1>2, <1>4 DEF HeaderFirst, AckFirst, serverVars, peerVars
<1>9. RefusalIsFinal'
  <2>1. CASE cli' = "closing" /\ cliUp' = cliUp
    BY <1>2, <2>1 DEF RefusalIsFinal
  <2>2. CASE status = "ok"
    <3>1. \A other \in Refusals : Ack("ok") # Ack(other)
      BY DEF Ack, Refusals
    <3>2. \A i \in 1..Len(down') : down'[i] = Ack("ok")
      BY <1>5, <2>2
    <3>3. ~Refused'
      BY <1>1, <1>2, <3>1, <3>2 DEF Refused, serverVars
    <3> QED
      BY <3>3 DEF RefusalIsFinal
  <2> QED
    BY <1>4, <2>1, <2>2
<1> QED
  BY <1>3, <1>6, <1>7, <1>8, <1>9 DEF SInv

\* A piece is handed to the local service.
LEMMA CliUpCopiesInv ==
    ASSUME SInv, CliUpCopies
    PROVE  SInv'
<1>1. /\ cliUp = "copying" /\ At(up, Pieces)
      /\ service' = Delivered(service, Head(up)) /\ up' = Tail(up)
      /\ UNCHANGED <<channel, down, serverVars, clientVars, user>>
  BY DEF CliUpCopies
<1>2. Head(up) \in Items /\ up # <<>>
  BY <1>1, Values DEF At
<1>3. /\ service' \in PeerRecords /\ service'.got = Append(service.got, Head(up))
      /\ service'.sent = service.sent
  BY <1>1, <1>2, PeersKeep, PeerUpdates
<1>4. /\ up' \in Seq(Items) /\ InTransit(service'.got, up', upRead)
      /\ Complete(service.got, up, upRead) => Complete(service'.got, up', upRead)
  <2>1. InTransit(service.got, up, upRead)
    BY DEF SInv, Upwards
  <2> QED
    BY <1>1, <1>3, <2>1, Values, PieceArrives
<1>5. Typed'
  BY <1>1, <1>3, <1>4 DEF SInv, Typed, serverVars, clientVars
<1>6. Upwards'
  BY <1>1, <1>4 DEF SInv, Upwards, Open, serverVars, clientVars
<1>7. HeaderFirst'
  <2>1. srvUp # "none" /\ srv # "opened" /\ cli \notin {"none", "reading"}
    BY <1>1 DEF SInv, HeaderFirst, AckFirst
  <2> QED
    BY <1>1, <2>1 DEF HeaderFirst, serverVars, clientVars
<1>8. Downwards' /\ AckFirst' /\ RefusalIsFinal'
  BY <1>1, <1>3, DownwardsKept DEF serverVars, clientVars
<1> QED
  BY <1>5, <1>6, <1>7, <1>8 DEF SInv

\* The answer is read and written: a frame, or the mark of its end.
LEMMA CliDownInv ==
    ASSUME SInv, CliDownCopies \/ CliDownEnds
    PROVE  SInv'
<1> DEFINE NoMoreAcks ==
             \A i \in 1..Len(down') :
                 \/ i \in 1..Len(down) /\ down'[i] = down[i]
                 \/ down'[i][1] # "ack"
<1>1. /\ cli = "copying" /\ cli' \in {"copying", "awaitUp"}
      /\ UNCHANGED <<channel, up, serverVars, stClient, cliUp, accept, peerVars>>
  BY DEF CliDownCopies, CliDownEnds
<1>2. /\ InTransit(user.got, down, downRead)
      /\ Open => Complete(user.got, down, downRead)
      /\ downRead <= service.sent /\ service.sent \in Nat
  BY <1>1, Values DEF SInv, Downwards
<1>3. /\ down' \in Seq(Items) /\ InTransit(user.got, down', downRead')
      /\ Open /\ cli' = "copying" => Complete(user.got, down', downRead')
      /\ downRead' <= service.sent /\ downRead' \in 0..MaxChunks
      /\ NoMoreAcks
  <2>1. CASE CliDownCopies
    <3>1. /\ downRead < service.sent /\ downRead' = downRead + 1
          /\ down' = Sending(down, Frame(downRead + 1), stServer)
          /\ CanWrite(stClient)
      BY <2>1 DEF CliDownCopies
    <3>2. downRead' <= service.sent /\ downRead' \in 0..MaxChunks
      BY <3>1, Values
    <3>3. CASE stServer = "open"
      <4>1. down' = down \o Frame(downRead + 1) /\ Open
        BY <3>1, <3>3 DEF Sending, Open, CanWrite
      <4>2. /\ Frame(downRead + 1) \in Seq(Items) /\ Len(Frame(downRead + 1)) = 2
            /\ \A i \in 1..2 : Frame(downRead + 1)[i][1] # "ack"
        <5>1. Frame(downRead + 1) \in Seq(Items)
          BY Values, Kinds
        <5> QED
          BY <5>1 DEF Frame
      <4>3. NoMoreAcks
        <5> DEFINE f == Frame(downRead + 1)
        <5>1. f \in Seq(Items) /\ Len(f) = 2 /\ f[1][1] # "ack" /\ f[2][1] # "ack"
          BY <4>2
        <5>2. down' = down \o f
          BY <4>1
        <5> HIDE DEF f
        <5>3. down \in Seq(Items)
          BY Values
        <5>4. /\ Len(down') = Len(down) + 2 /\ Len(down) \in Nat
              /\ \A i \in 1..Len(down) : down'[i] = down[i]
          BY <5>1, <5>2, <5>3, TwoAppended
        <5>5. down'[Len(down) + 1] = f[1] /\ down'[Len(down) + 2] = f[2]
          BY <5>1, <5>2, <5>3, TwoAppended
        <5>6. \A i \in 1..Len(down') :
                 i \in 1..Len(down) \/ i = Len(down) + 1 \/ i = Len(down) + 2
          BY <5>4
        <5> QED
          BY <5>1, <5>4, <5>5, <5>6
      <4> QED
        BY <1>2, <3>1, <3>2, <4>1, <4>3, Values, FrameFollows
    <3>4. CASE stServer # "open"
      <4>1. down' = down /\ ~Open
        BY <3>1, <3>4 DEF Sending, Open
      <4> QED
        BY <1>2, <3>1, <3>2, <4>1, Values, MoreIsRead
    <3> QED
      BY <3>3, <3>4
  <2>2. CASE CliDownEnds
    <3>1. /\ cli' = "awaitUp" /\ downRead' = downRead
          /\ \/ down' = down
             \/ Open /\ down' = down \o <<EndOfData>>
      BY <2>2 DEF CliDownEnds, CanWrite, Sending, Open
    <3>2. CASE down' = down
      <4>1. NoMoreAcks
        BY <3>2
      <4> QED
        BY <1>2, <3>1, <3>2, <4>1, Values
    <3>3. CASE Open /\ down' = down \o <<EndOfData>>
      <4>1. down' \in Seq(Items) /\ InTransit(user.got, down', downRead)
        BY <1>2, <3>3, Values, EndFollows
      <4>2. NoMoreAcks
        <5> DEFINE x == EndOfData
        <5>1. x \in Items /\ x[1] # "ack"
          BY Kinds DEF Leads
        <5>2. down' = down \o <<x>>
          BY <3>3
        <5> HIDE DEF x
        <5>3. down \in Seq(Items)
          BY Values
        <5>4. /\ Len(down') = Len(down) + 1 /\ Len(down) \in Nat
              /\ \A i \in 1..Len(down) : down'[i] = down[i]
              /\ down'[Len(down) + 1] = x
          BY <5>1, <5>2, <5>3
        <5>5. \A i \in 1..Len(down') : i \in 1..Len(down) \/ i = Len(down) + 1
          BY <5>4
        <5> QED
          BY <5>1, <5>4, <5>5
      <4> QED
        BY <1>2, <3>1, <4>1, <4>2, Values
    <3> QED
      BY <3>1, <3>2, <3>3
  <2> QED
    BY <2>1, <2>2
<1>4. Typed'
  BY <1>1, <1>3 DEF SInv, Typed, serverVars, peerVars
<1>5. Upwards'
  BY <1>1 DEF SInv, Upwards, Open, serverVars, peerVars
<1>6. Downwards'
  BY <1>1, <1>3 DEF Downwards, Open, serverVars, peerVars
<1>7. HeaderFirst' /\ AckFirst'
  BY <1>1 DEF SInv, HeaderFirst, AckFirst, serverVars, peerVars
<1>8. RefusalIsFinal'
  <2>1. ~Refused
    BY <1>1 DEF SInv, RefusalIsFinal
  <2>2. \A status : Ack(status)[1] = "ack"
    BY DEF Ack
  <2>3. ~Refused'
    BY <1>1, <1>3, <2>1, <2>2 DEF Refused, serverVars
  <2> QED
    BY <2>3 DEF RefusalIsFinal
<1> QED
  BY <1>4, <1>5, <1>6, <1>7, <1>8 DEF SInv

\* The channel dies and takes what was not read yet, from some item on.
LEMMA ChannelDiesInv ==
    ASSUME SInv, ChannelDies
    PROVE  SInv'
<1>1. PICK k \in 0..Len(up) : up' = SubSeq(up, 1, k)
  BY DEF ChannelDies
<1>2. PICK m \in 0..Len(down) : down' = SubSeq(down, 1, m)
  BY DEF ChannelDies
<1>3. channel' = "dead" /\ UNCHANGED <<serverVars, clientVars, peerVars>>
  BY DEF ChannelDies
<1>4. /\ up' \in Seq(Items) /\ InTransit(service.got, up', upRead)
      /\ Len(up') = k /\ \A i \in 1..k : up'[i] = up[i]
  <2>1. InTransit(service.got, up, upRead)
    BY DEF SInv, Upwards
  <2> QED
    BY <1>1, <2>1, Values, PrefixRemains
<1>5. /\ down' \in Seq(Items) /\ InTransit(user.got, down', downRead)
      /\ Len(down') = m /\ \A i \in 1..m : down'[i] = down[i]
  <2>1. InTransit(user.got, down, downRead)
    BY DEF SInv, Downwards
  <2> QED
    BY <1>2, <2>1, Values, PrefixRemains
<1>6. /\ up = <<>> => up' = <<>>
      /\ up' # <<>> => up # <<>> /\ up'[1] = up[1]
      /\ down = <<>> => down' = <<>>
  BY <1>4, <1>5, Values
<1>7. Typed'
  BY <1>3, <1>4, <1>5 DEF SInv, Typed, serverVars, clientVars, peerVars
<1>8. Upwards' /\ Downwards'
  BY <1>3, <1>4, <1>5 DEF SInv, Upwards, Downwards, Open, serverVars, clientVars, peerVars
<1>9. HeaderFirst' /\ AckFirst'
  BY <1>3, <1>6 DEF SInv, HeaderFirst, AckFirst, serverVars, clientVars, peerVars
<1>10. RefusalIsFinal'
  <2> SUFFICES ASSUME Refused' PROVE Refused /\ (channel = "dead" => channel' = "dead")
    BY <1>3 DEF SInv, RefusalIsFinal, serverVars, clientVars
  <2>1. \A i \in 1..Len(down') : i \in 1..Len(down) /\ down'[i] = down[i]
    BY <1>5, Values
  <2> QED
    BY <1>3, <2>1 DEF Refused, serverVars
<1> QED
  BY <1>7, <1>8, <1>9, <1>10 DEF SInv

-----------------------------------------------------------------------------
\* The theorems.

\* The invariant holds at the start.
LEMMA InitInv == Init => SInv
<1> SUFFICES ASSUME Init PROVE SInv
  OBVIOUS
<1>1. /\ up = <<>> /\ down = <<>> /\ user.got = <<>> /\ service.got = <<>>
      /\ user.sent = 0 /\ service.sent = 0 /\ service.eof = FALSE
      /\ upRead = 0 /\ downRead = 0 /\ cli = "none" /\ cliUp = "none" /\ srvUp = "none"
      /\ srv = "opened" /\ stServer = "open" /\ stClient = "open" /\ result = "none"
  BY DEF Init, NewPeer
<1>2. Typed
  <2>1. NewPeer \in PeerRecords
    BY MaxChunksAssumption DEF NewPeer, PeerRecords
  <2> QED
    BY <2>1, MaxChunksAssumption DEF Init, Typed
<1>3. Upwards /\ Downwards
  BY <1>1 DEF Upwards, Downwards, InTransit
<1>4. HeaderFirst /\ AckFirst
  BY <1>1 DEF HeaderFirst, AckFirst
<1>5. RefusalIsFinal
  BY <1>1 DEF RefusalIsFinal, Refused, Refusals
<1> QED
  BY <1>2, <1>3, <1>4, <1>5 DEF SInv

\* A stuttering step keeps the invariant.
LEMMA StutterInv ==
    ASSUME SInv, UNCHANGED vars
    PROVE  SInv'
<1>1. ServerMoves /\ ClientMoves
  BY DEF ServerMoves, ClientMoves, vars, serverVars, clientVars, peerVars
<1>2. Keeps(user, user') /\ Keeps(service, service')
  BY PeersKeep DEF vars, peerVars
<1>3. Typed'
  BY DEF SInv, Typed, vars, serverVars, clientVars, peerVars
<1> QED
  BY <1>1, <1>2, <1>3, StreamUntouched DEF vars, serverVars, clientVars

\* The parts of the invariant hold together.
THEOREM Invariant == Spec => []SInv
<1>1. SInv /\ [Next]_vars => SInv'
  <2> SUFFICES ASSUME SInv, [Next]_vars PROVE SInv'
    OBVIOUS
  <2>1. CASE ForwardStep
    BY <2>1, ServerMovesInv, WriteHeaderInv, ReadAckInv, DownCopiesInv DEF ForwardStep
  <2>2. CASE UpStep \/ StopCuts
    BY <2>2, UpCopiesInv, UpEndsInv, ServerMovesInv DEF UpStep
  <2>3. CASE AcceptStep
    BY <2>3, ClientMovesInv DEF AcceptStep
  <2>4. CASE HandlerStep
    BY <2>4, ClientMovesInv, ReadHeaderInv, DialInv, CliDownInv DEF HandlerStep
  <2>5. CASE CliUpStep
    BY <2>5, ClientMovesInv, CliUpCopiesInv DEF CliUpStep
  <2>6. CASE ChannelDies \/ UserStep \/ ServiceStep
    BY <2>6, ClientMovesInv, ChannelDiesInv
  <2>7. CASE UNCHANGED vars
    BY <2>7, StutterInv
  <2> QED
    BY <2>1, <2>2, <2>3, <2>4, <2>5, <2>6, <2>7 DEF Next
<1> QED
  BY InitInv, <1>1, PTL DEF Spec

\* What a peer was handed is a prefix of what the other one sent.
LEMMA GotIsPrefix ==
    ASSUME NEW got \in Seq(Items), NEW q, NEW n \in Nat, NEW m \in Nat,
           InTransit(got, q, n), n <= m
    PROVE  got = SubSeq(Sent(m), 1, Len(got))
<1>1. Len(got) <= 2 * m /\ Len(got) \in Nat
  BY DEF InTransit
<1> DEFINE s == Sent(m)
<1>2. s = [i \in 1..(2 * m) |-> Piece(i)]
  BY DEF Sent, Piece
<1>3. \A i \in 1..(2 * m) : s[i] = Piece(i) /\ Piece(i) \in Items
  <2>1. \A i \in 1..(2 * m) : s[i] = Piece(i)
    BY <1>2
  <2>2. ASSUME NEW i \in 1..(2 * m) PROVE Piece(i) \in Items
    <3>1. Piece(i) \in Pieces \X (1..m)
      BY PieceInFrame
    <3> QED
      BY <3>1 DEF Items
  <2> QED
    BY <2>1, <2>2
<1>4. s \in Seq(Items) /\ Len(s) = 2 * m
  BY <1>2, <1>3
<1> HIDE DEF s
<1> DEFINE t == SubSeq(s, 1, Len(got))
<1>5. t \in Seq(Items) /\ Len(t) = Len(got) /\ \A i \in 1..Len(got) : t[i] = s[i]
  BY <1>1, <1>4
<1>6. \A i \in 1..Len(got) : got[i] = Piece(i) /\ i \in 1..(2 * m)
  BY <1>1 DEF InTransit
<1>7. \A i \in 1..Len(got) : got[i] = t[i]
  BY <1>3, <1>5, <1>6
<1> HIDE DEF t
<1>8. got = t
  BY <1>5, <1>7
<1> QED
  BY <1>8 DEF t, s

\* Header, ack and end markers reach no peer, and the payload reaches it without
\* a gap, however much of either direction is lost with the channel.
THEOREM PayloadArrivesInOrder == Spec => []PayloadIsPrefix
<1>1. SInv => PayloadIsPrefix
  <2> SUFFICES ASSUME SInv PROVE PayloadIsPrefix
    OBVIOUS
  <2>1. /\ InTransit(service.got, up, upRead) /\ upRead <= user.sent
        /\ InTransit(user.got, down, downRead) /\ downRead <= service.sent
        /\ user.sent \in Nat /\ service.sent \in Nat
    BY Values DEF SInv, Upwards, Downwards
  <2> QED
    BY <2>1, Values, GotIsPrefix DEF PayloadIsPrefix
<1> QED
  BY Invariant, <1>1, PTL

\* A client that refuses has not let the service see anything, and never does.
THEOREM RefusedServiceIsUntouched == Spec => []RefusedIsUntouched
<1>1. SInv => RefusedIsUntouched
  BY DEF SInv, RefusalIsFinal, Refused, Refusals, AckFirst, RefusedIsUntouched
<1> QED
  BY Invariant, <1>1, PTL

\* Every variable keeps its type.
THEOREM TypeCorrect == Spec => []TypeOK
<1>1. SInv => TypeOK
  <2> SUFFICES ASSUME SInv PROVE TypeOK
    OBVIOUS
  <2>1. ASSUME NEW P \in PeerRecords, NEW q, NEW n \in 0..MaxChunks, InTransit(P.got, q, n)
        PROVE  Peers(P)
    <3>1. /\ P.sent \in 0..MaxChunks /\ P.fin \in {"no", "half", "closed", "broken"}
          /\ P.got \in Seq(Items) /\ P.eof \in BOOLEAN
      BY DEF PeerRecords
    <3>2. \A i \in 1..Len(P.got) : P.got[i] \in Pieces \X (1..MaxChunks)
      <4> SUFFICES ASSUME NEW i \in 1..Len(P.got)
                   PROVE  P.got[i] \in Pieces \X (1..MaxChunks)
        OBVIOUS
      <4>1. P.got[i] = Piece(i) /\ Len(P.got) <= 2 * n
        BY <2>1 DEF InTransit
      <4>2. i \in Nat \ {0} /\ i <= 2 * MaxChunks /\ MaxChunks \in Nat
        BY <3>1, <4>1, MaxChunksAssumption
      <4> QED
        BY <4>1, <4>2, PieceInFrame
    <3>3. P.got \in Seq(Pieces \X (1..MaxChunks))
      BY <3>1, <3>2
    <3> QED
      BY <3>1, <3>3 DEF Peers
  <2>2. Peers(user) /\ Peers(service)
    BY <2>1, PeersKeep, Values DEF SInv, Upwards, Downwards
  <2> QED
    BY <2>2 DEF SInv, Typed, TypeOK
<1> QED
  BY Invariant, <1>1, PTL

-----------------------------------------------------------------------------
\* The ends of the two directions: the second invariant.

Has(q, x) == \E i \in 1..Len(q) : q[i] = x
EndMark(q) == IF Has(q, EndOfData) THEN 1 ELSE 0

\* Everything the sender read was handed over or is under way.
Whole(got, q, n) == Len(got) + Len(q) - Lead(q) - EndMark(q) = 2 * n

\* Behind a complete direction the end marker is all there is to add.
LEMMA EndIsWhole ==
    ASSUME NEW got \in Seq(Items), NEW q \in Seq(Items), NEW n \in Nat,
           InTransit(got, q, n), Complete(got, q, n)
    PROVE  Whole(got, q \o <<EndOfData>>, n)
<1> DEFINE r == q \o <<EndOfData>>
<1>1. /\ r \in Seq(Items) /\ Len(r) = Len(q) + 1
      /\ \A i \in 1..Len(q) : r[i] = q[i]
      /\ r[Len(q) + 1] = EndOfData
  BY Kinds
<1> HIDE DEF r
<1>2. Lead(r) = Lead(q) /\ Lead(q) \in Nat
  <2>1. CASE q = <<>>
    BY <1>1, <2>1, Kinds DEF Lead
  <2>2. CASE q # <<>>
    BY <1>1, <2>2 DEF Lead
  <2> QED
    BY <2>1, <2>2
<1>3. EndMark(r) = 1
  <2>1. Len(q) + 1 \in 1..Len(r)
    BY <1>1
  <2> QED
    BY <1>1, <2>1 DEF EndMark, Has
<1>4. Len(got) \in Nat /\ Len(q) \in Nat
  OBVIOUS
<1>5. Whole(got, r, n)
  BY <1>1, <1>2, <1>3, <1>4 DEF Whole, Complete
<1> QED
  BY <1>5 DEF r

\* What is left once the head was taken.
LEMMA TailItems ==
    ASSUME NEW q \in Seq(Items), q # <<>>
    PROVE  /\ Tail(q) \in Seq(Items) /\ Len(Tail(q)) = Len(q) - 1 /\ Len(q) \in Nat \ {0}
           /\ \A i \in 1..Len(Tail(q)) : i + 1 \in 1..Len(q) /\ Tail(q)[i] = q[i + 1]
           /\ Head(q) = q[1] /\ 1 \in 1..Len(q) /\ q[1] \in Items
           /\ \A x : Has(Tail(q), x) => Has(q, x)
           /\ \A x : Has(q, x) => x = Head(q) \/ Has(Tail(q), x)
<1> DEFINE t == Tail(q)
<1>1. /\ t \in Seq(Items) /\ Len(t) = Len(q) - 1 /\ Len(q) \in Nat \ {0}
      /\ \A i \in 1..Len(t) : t[i] = q[i + 1]
      /\ Head(q) = q[1] /\ q[1] \in Items
  OBVIOUS
<1> HIDE DEF t
<1>2. \A i \in 1..Len(t) : i + 1 \in 1..Len(q)
  BY <1>1
<1>3. \A x : Has(t, x) => Has(q, x)
  BY <1>1, <1>2 DEF Has
<1>4. \A x : Has(q, x) => x = q[1] \/ Has(t, x)
  <2> SUFFICES ASSUME NEW i \in 1..Len(q), i # 1
               PROVE  i - 1 \in 1..Len(t) /\ t[i - 1] = q[i]
    BY DEF Has
  <2>1. i - 1 \in 1..Len(t) /\ i - 1 + 1 = i
    BY <1>1
  <2> QED
    BY <1>1, <2>1
<1> QED
  BY <1>1, <1>2, <1>3, <1>4 DEF t

\* A piece that is handed over goes on counting.
LEMMA PieceKeepsWhole ==
    ASSUME NEW got \in Seq(Items), NEW q \in Seq(Items), NEW n \in Nat,
           InTransit(got, q, n), At(q, Pieces), Whole(got, q, n)
    PROVE  Whole(Append(got, Head(q)), Tail(q), n)
<1>1. q # <<>> /\ Head(q)[1] \in Pieces
  BY DEF At
<1>2. /\ Tail(q) \in Seq(Items) /\ Len(Tail(q)) = Len(q) - 1 /\ Len(q) \in Nat \ {0}
      /\ \A i \in 1..Len(Tail(q)) : i + 1 \in 1..Len(q) /\ Tail(q)[i] = q[i + 1]
      /\ Head(q) = q[1] /\ q[1] \in Items
  BY <1>1, TailItems
<1>3. Lead(q) = 0
  <2>1. q[1][1] \notin Leads
    BY <1>1, <1>2, Kinds
  <2> QED
    BY <2>1 DEF Lead
<1>4. Lead(Tail(q)) = 0
  <2>1. \A i \in 1..Len(Tail(q)) : Tail(q)[i][1] \notin Leads
    <3>1. \A i \in 1..Len(q) : q[i][1] \in Leads => i = 1
      BY DEF InTransit
    <3> QED
      BY <1>2, <3>1
  <2>2. Tail(q) # <<>> => 1 \in 1..Len(Tail(q))
    BY <1>2
  <2> QED
    BY <2>1, <2>2 DEF Lead
<1>5. EndMark(Tail(q)) = EndMark(q) /\ EndMark(q) \in Nat
  <2>1. Head(q) # EndOfData
    BY <1>1, Kinds
  <2>2. Has(Tail(q), EndOfData) <=> Has(q, EndOfData)
    BY <1>1, <2>1, TailItems
  <2> QED
    BY <2>2 DEF EndMark
<1>6. Len(Append(got, Head(q))) = Len(got) + 1 /\ Len(got) \in Nat
  BY <1>2
<1> QED
  BY <1>2, <1>3, <1>4, <1>5, <1>6 DEF Whole

\* The lead does not count.
LEMMA LeadKeepsWhole ==
    ASSUME NEW got \in Seq(Items), NEW q \in Seq(Items), NEW n \in Nat,
           InTransit(got, q, n), At(q, Leads), Whole(got, q, n)
    PROVE  Whole(got, Tail(q), n)
<1>1. q # <<>> /\ Head(q)[1] \in Leads
  BY DEF At
<1>2. /\ Tail(q) \in Seq(Items) /\ Len(Tail(q)) = Len(q) - 1 /\ Len(q) \in Nat \ {0}
      /\ Head(q) = q[1]
  BY <1>1, TailItems
<1>3. Lead(q) = 1
  BY <1>1, <1>2 DEF Lead
<1>4. Lead(Tail(q)) = 0
  <2>1. \A i \in 1..Len(Tail(q)) : Tail(q)[i][1] \notin Leads
    BY LeadIsRead
  <2>2. Tail(q) # <<>> => 1 \in 1..Len(Tail(q))
    BY <1>2
  <2> QED
    BY <2>1, <2>2 DEF Lead
<1>5. EndMark(Tail(q)) = EndMark(q) /\ EndMark(q) \in Nat
  <2>1. Head(q) # EndOfData
    BY <1>1, Kinds
  <2>2. Has(Tail(q), EndOfData) <=> Has(q, EndOfData)
    BY <1>1, <2>1, TailItems
  <2> QED
    BY <2>2 DEF EndMark
<1>6. Len(got) \in Nat
  OBVIOUS
<1> QED
  BY <1>2, <1>3, <1>4, <1>5, <1>6 DEF Whole

\* Who comes to the end of a whole direction was handed everything.
LEMMA WholeAtEnd ==
    ASSUME NEW got \in Seq(Items), NEW q \in Seq(Items), NEW n \in Nat,
           InTransit(got, q, n), Whole(got, q, n),
           q = <<>> \/ At(q, {"frameEOF"})
    PROVE  Len(got) = 2 * n
<1>1. Len(got) \in Nat
  OBVIOUS
<1>2. CASE q = <<>>
  <2>1. Len(q) = 0 /\ Lead(q) = 0 /\ EndMark(q) = 0
    BY <1>2 DEF Lead, EndMark, Has
  <2> QED
    BY <1>1, <2>1 DEF Whole
<1>3. CASE At(q, {"frameEOF"})
  <2>1. q # <<>> /\ Head(q)[1] = "frameEOF"
    BY <1>3 DEF At
  <2>2. /\ Head(q) = q[1] /\ 1 \in 1..Len(q) /\ q[1] \in Items /\ Len(q) \in Nat
    BY <2>1, TailItems
  <2>3. q[1] = EndOfData
    BY <2>1, <2>2, Kinds DEF Pieces, Leads
  <2>4. Len(q) = 1
    BY <2>2, <2>3 DEF InTransit
  <2>5. Lead(q) = 0 /\ EndMark(q) = 1
    BY <2>1, <2>2, <2>3, Kinds DEF Lead, EndMark, Has
  <2> QED
    BY <1>1, <2>4, <2>5 DEF Whole
<1> QED
  BY <1>2, <1>3

\* The end markers and the ack that a step adds to a direction.
LEMMA QueueEffects ==
    ASSUME SInv, [Next]_vars
    PROVE  /\ Has(up', EndOfData) => Has(up, EndOfData) \/ UpEnds
           /\ Has(down', EndOfData) => Has(down, EndOfData) \/ CliDownEnds
           /\ Has(down', Ack("ok")) =>
                Has(down, Ack("ok")) \/ (DialSucceeds /\ CanWrite(stClient))
<1>1. /\ up \in Seq(Items) /\ down \in Seq(Items) /\ upRead \in Nat /\ downRead \in Nat
      /\ channel = "up" => channel # "dead"
  BY Values
<1>2. ASSUME NEW q \in Seq(Items), NEW x, NEW y, Has(q \o <<y>>, x), y \in Items
      PROVE  Has(q, x) \/ x = y
  <2> DEFINE r == q \o <<y>>
  <2>1. /\ Len(r) = Len(q) + 1 /\ Len(q) \in Nat
        /\ \A i \in 1..Len(q) : r[i] = q[i]
        /\ r[Len(q) + 1] = y
    BY <1>2
  <2>2. \A i \in 1..Len(r) : i \in 1..Len(q) \/ i = Len(q) + 1
    BY <2>1
  <2>3. Has(r, x)
    BY <1>2
  <2> HIDE DEF r
  <2> QED
    BY <2>1, <2>2, <2>3 DEF Has
<1>3. ASSUME NEW q \in Seq(Items), NEW k \in Nat, NEW x, Has(q \o Frame(k), x)
      PROVE  Has(q, x) \/ x[1] \in Pieces
  <2> DEFINE f == Frame(k)
             r == q \o f
  <2>1. f \in Seq(Items) /\ Len(f) = 2
    BY Kinds DEF Frame
  <2>2. f[1][1] \in Pieces /\ f[2][1] \in Pieces
    BY DEF Frame, Pieces
  <2>3. Has(r, x)
    BY <1>3
  <2> HIDE DEF f
  <2>4. /\ Len(r) = Len(q) + 2 /\ Len(q) \in Nat
        /\ \A i \in 1..Len(q) : r[i] = q[i]
        /\ r[Len(q) + 1] = f[1] /\ r[Len(q) + 2] = f[2]
    BY <2>1, TwoAppended
  <2>5. \A i \in 1..Len(r) : i \in 1..Len(q) \/ i = Len(q) + 1 \/ i = Len(q) + 2
    BY <2>4
  <2> HIDE DEF r
  <2> QED
    BY <2>2, <2>3, <2>4, <2>5 DEF Has
<1>4. ASSUME NEW q \in Seq(Items), NEW k \in 0..Len(q), NEW x, Has(SubSeq(q, 1, k), x)
      PROVE  Has(q, x)
  <2> DEFINE r == SubSeq(q, 1, k)
  <2>1. Len(r) = k /\ \A i \in 1..k : r[i] = q[i] /\ i \in 1..Len(q)
    OBVIOUS
  <2>2. Has(r, x)
    BY <1>4
  <2> HIDE DEF r
  <2> QED
    BY <2>1, <2>2 DEF Has
<1>5. /\ EndOfData \in Items /\ EndOfData[1] \notin Pieces
      /\ Header \in Items /\ Header # EndOfData
      /\ \A status \in Statuses : Ack(status) \in Items
      /\ \A status : Ack(status) # EndOfData /\ Ack(status)[1] \notin Pieces
      /\ \A status : status # "ok" => Ack(status) # Ack("ok")
  <2>1. /\ EndOfData \in Items /\ EndOfData[1] \notin Pieces /\ Header \in Items
        /\ \A status \in Statuses : Ack(status) \in Items
    BY Kinds
  <2>2. Header # EndOfData
    BY DEF Header, EndOfData
  <2>3. /\ \A status : Ack(status) # EndOfData /\ Ack(status)[1] \notin Pieces
        /\ \A status : status # "ok" => Ack(status) # Ack("ok")
    BY DEF Ack, EndOfData, Pieces
  <2> QED
    BY <2>1, <2>2, <2>3
<1>6. Has(up', EndOfData) => Has(up, EndOfData) \/ UpEnds
  <2> SUFFICES ASSUME Has(up', EndOfData), ~UpEnds PROVE Has(up, EndOfData)
    OBVIOUS
  <2>1. CASE up' = up
    BY <2>1
  <2>2. CASE WriteHeader
    <3>1. up' = up \/ up' = up \o <<Header>>
      BY <2>2 DEF WriteHeader, Sending
    <3> QED
      BY <1>1, <1>2, <1>5, <3>1
  <2>3. CASE UpCopies
    <3>1. up' = up \/ up' = up \o Frame(upRead + 1)
      BY <2>3 DEF UpCopies, Sending
    <3>2. upRead + 1 \in Nat
      BY <1>1
    <3> QED
      BY <1>1, <1>3, <1>5, <3>1, <3>2
  <2>4. CASE ReadHeader \/ CliUpCopies
    <3>1. up # <<>> /\ up' = Tail(up)
      BY <2>4 DEF ReadHeader, CliUpCopies, At
    <3> QED
      BY <1>1, <3>1, TailItems
  <2>5. CASE ChannelDies
    <3>1. PICK k \in 0..Len(up) : up' = SubSeq(up, 1, k)
      BY <2>5 DEF ChannelDies
    <3> QED
      BY <1>1, <1>4, <3>1
  <2>6. \/ up' = up \/ WriteHeader \/ UpCopies \/ ReadHeader \/ CliUpCopies \/ ChannelDies
    BY DEF Next, ForwardStep, UpStep, AcceptStep, HandlerStep, CliUpStep, vars, AckFails,
           ReadAck, DownCopies, DownEnds, AwaitUp, CloseStream, Untrack, StopCuts, AcceptStream,
           AcceptFails, ServeChannelReturns, NoHeader, DialFails, DialSucceeds, CliDownCopies,
           CliDownEnds, CliAwaitUp, CliCloses, CliUpEnds, UserStep, ServiceStep
  <2> QED
    BY <2>1, <2>2, <2>3, <2>4, <2>5, <2>6
<1>7. \/ down' = down \/ ReadAck \/ DownCopies \/ ReadHeader \/ DialFails \/ DialSucceeds
      \/ CliDownCopies \/ CliDownEnds \/ ChannelDies
  BY DEF Next, ForwardStep, UpStep, AcceptStep, HandlerStep, CliUpStep, vars, AckFails,
         WriteHeader, UpCopies, UpEnds, DownEnds, AwaitUp, CloseStream, Untrack, StopCuts,
         AcceptStream, AcceptFails, ServeChannelReturns, NoHeader, CliAwaitUp, CliCloses,
         CliUpEnds, CliUpCopies, UserStep, ServiceStep
<1>8. ASSUME NEW x, Has(down', x)
      PROVE  \/ Has(down, x)
             \/ x[1] \in Pieces
             \/ x = EndOfData /\ CliDownEnds
             \/ x = Ack("ok") /\ DialSucceeds /\ CanWrite(stClient)
             \/ \E status \in Statuses \ {"ok"} : x = Ack(status)
  <2>1. CASE down' = down
    BY <1>8, <2>1
  <2>2. CASE ReadAck \/ DownCopies
    <3>1. down # <<>> /\ down' = Tail(down)
      BY <2>2 DEF ReadAck, DownCopies, At
    <3> QED
      BY <1>1, <1>8, <3>1, TailItems
  <2>3. CASE ReadHeader \/ DialFails
    <3>1. PICK status \in Statuses \ {"ok"} : down' = down \/ down' = down \o <<Ack(status)>>
      BY <2>3 DEF ReadHeader, DialFails, WriteAck, Sending, Statuses
    <3>2. Ack(status) \in Items
      BY <1>5
    <3>3. Has(down, x) \/ x = Ack(status)
      BY <1>1, <1>2, <1>8, <3>1, <3>2
    <3> QED
      BY <3>3
  <2>4. CASE DialSucceeds
    <3>1. down' = down \/ (CanWrite(stClient) /\ down' = down \o <<Ack("ok")>>)
      BY <2>4 DEF DialSucceeds, WriteAck, Sending
    <3>2. Ack("ok") \in Items
      BY <1>5 DEF Statuses
    <3> QED
      BY <1>1, <1>2, <1>8, <2>4, <3>1, <3>2
  <2>5. CASE CliDownCopies
    <3>1. down' = down \/ down' = down \o Frame(downRead + 1)
      BY <2>5 DEF CliDownCopies, Sending
    <3>2. downRead + 1 \in Nat
      BY <1>1
    <3> QED
      BY <1>1, <1>3, <1>8, <3>1, <3>2
  <2>6. CASE CliDownEnds
    <3>1. down' = down \/ down' = down \o <<EndOfData>>
      BY <2>6 DEF CliDownEnds, Sending
    <3> QED
      BY <1>1, <1>2, <1>5, <1>8, <2>6, <3>1
  <2>7. CASE ChannelDies
    <3>1. PICK k \in 0..Len(down) : down' = SubSeq(down, 1, k)
      BY <2>7 DEF ChannelDies
    <3> QED
      BY <1>1, <1>4, <1>8, <3>1
  <2> QED
    BY <1>7, <2>1, <2>2, <2>3, <2>4, <2>5, <2>6, <2>7
<1>9. Has(down', EndOfData) => Has(down, EndOfData) \/ CliDownEnds
  <2>1. EndOfData # Ack("ok") /\ \A status : EndOfData # Ack(status)
    BY <1>5
  <2> QED
    BY <1>5, <1>8, <2>1
<1>10. Has(down', Ack("ok")) =>
         Has(down, Ack("ok")) \/ (DialSucceeds /\ CanWrite(stClient))
  <2>1. Ack("ok") # EndOfData /\ Ack("ok")[1] \notin Pieces
    BY <1>5
  <2>2. \A status \in Statuses \ {"ok"} : Ack("ok") # Ack(status)
    BY <1>5
  <2> QED
    BY <1>8, <2>1, <2>2
<1> QED
  BY <1>6, <1>9, <1>10

\* Behind its end a peer sends no more, and a broken connection stays broken.
Onward(P, Q) ==
    /\ P.fin # "no" => Q.fin # "no" /\ Q.sent = P.sent
    /\ P.fin = "broken" => Q.fin = "broken"

\* Who hands a piece or an end to a peer.
LEMMA PeerEffects ==
    ASSUME SInv, [Next]_vars
    PROVE  /\ Onward(user, user') /\ Onward(service, service')
           /\ user'.eof = user.eof \/ (DownEnds /\ ~ConnGone /\ ~Deaf(user))
           /\ service'.eof = service.eof \/ (CliUpEnds /\ ~Deaf(service))
           /\ user'.got = user.got \/ DownCopies
           /\ service'.got = service.got \/ CliUpCopies
<1>1. user \in PeerRecords /\ service \in PeerRecords
  BY PeersKeep
<1>2. ASSUME NEW P \in PeerRecords, NEW Q, P.fin = "no", Q = [P EXCEPT !.sent = @ + 1]
      PROVE  Onward(P, Q) /\ Q.eof = P.eof /\ Q.got = P.got
  BY <1>2 DEF Onward, PeerRecords
<1>3. ASSUME NEW P \in PeerRecords, NEW Q, NEW how \in {"half", "closed", "broken"},
             P.fin \in {"no", "half"}, Q = [P EXCEPT !.fin = how]
      PROVE  Onward(P, Q) /\ Q.eof = P.eof /\ Q.got = P.got
  BY <1>3 DEF Onward, PeerRecords
<1>4. ASSUME NEW P \in PeerRecords, NEW b
      PROVE  LET Q == [P EXCEPT !.eof = @ \/ b]
             IN  /\ Onward(P, Q) /\ Q.got = P.got
                 /\ ~b => Q.eof = P.eof
  <2> DEFINE c == P.eof \/ b
             Q == [P EXCEPT !.eof = @ \/ b]
  <2>1. Q = [P EXCEPT !.eof = c]
    OBVIOUS
  <2>2. ~b => c = P.eof
    BY DEF PeerRecords
  <2> HIDE DEF c
  <2>3. Q.fin = P.fin /\ Q.sent = P.sent /\ Q.got = P.got /\ Q.eof = c
    BY <2>1 DEF PeerRecords
  <2> QED
    BY <2>2, <2>3 DEF Onward
<1>5. ASSUME NEW P \in PeerRecords, NEW x
      PROVE  Onward(P, Delivered(P, x)) /\ Delivered(P, x).eof = P.eof
  BY DEF Onward, PeerRecords, Delivered
<1>6. ASSUME NEW P
      PROVE  Onward(P, P)
  BY DEF Onward
<1>7. CASE UserStep \/ ServiceStep
  BY <1>1, <1>2, <1>3, <1>6, <1>7 DEF UserStep, ServiceStep, Sends, Stops
<1>8. CASE DownCopies
  <2>1. user' = Delivered(user, Head(down)) /\ service' = service
    BY <1>8 DEF DownCopies
  <2> QED
    BY <1>1, <1>5, <1>6, <1>8, <2>1
<1>9. CASE CliUpCopies
  <2>1. service' = Delivered(service, Head(up)) /\ user' = user
    BY <1>9 DEF CliUpCopies
  <2> QED
    BY <1>1, <1>5, <1>6, <1>9, <2>1
<1>10. CASE DownEnds
  <2>1. user' = [user EXCEPT !.eof = @ \/ ~(ConnGone \/ Deaf(user))] /\ service' = service
    BY <1>10 DEF DownEnds
  <2>2. Onward(user, user') /\ user'.got = user.got
    BY <1>1, <1>4, <2>1
  <2>3. (ConnGone \/ Deaf(user)) => user'.eof = user.eof
    BY <1>1, <1>4, <2>1
  <2> QED
    BY <1>6, <1>10, <2>1, <2>2, <2>3
<1>11. CASE CliUpEnds
  <2>1. service' = [service EXCEPT !.eof = @ \/ ~Deaf(service)] /\ user' = user
    BY <1>11 DEF CliUpEnds
  <2>2. Onward(service, service') /\ service'.got = service.got
    BY <1>1, <1>4, <2>1
  <2>3. Deaf(service) => service'.eof = service.eof
    BY <1>1, <1>4, <2>1
  <2> QED
    BY <1>6, <1>11, <2>1, <2>2, <2>3
<1>12. CASE UNCHANGED peerVars
  BY <1>6, <1>12 DEF peerVars
<1> QED
  BY <1>7, <1>8, <1>9, <1>10, <1>11, <1>12
     DEF Next, ForwardStep, UpStep, AcceptStep, HandlerStep, CliUpStep, vars, WriteHeader,
         AckFails, ReadAck, AwaitUp, CloseStream, Untrack, UpCopies, UpEnds, StopCuts,
         AcceptStream, AcceptFails, ServeChannelReturns, ReadHeader, NoHeader, DialFails,
         DialSucceeds, CliDownCopies, CliDownEnds, CliAwaitUp, CliCloses, ChannelDies

\* Where the goroutines are while the stream and the connection are open.
Places ==
    /\ srv \in {"opened", "awaitAck", "copying", "awaitUp"} => conn # "closed"
    /\ srv \in {"opened", "awaitAck", "copying", "awaitUp", "closing"} => stServer = "open"
    /\ srv \in {"opened", "awaitAck"} => result = "none"
    /\ srv \in {"copying", "awaitUp"} => result = "ok"
    /\ cli # "gone" => stClient = "open"
    /\ cliUp = "copying" => cli \in {"copying", "awaitUp"}
    /\ cli \in {"copying", "awaitUp"} => cliUp # "none"
    /\ service.eof => cliUp = "done"
    /\ user.eof => srv \notin {"opened", "awaitAck", "copying"}

\* Only a client that copies says so.
OkMeansCopies == result = "ok" \/ Has(down, Ack("ok")) => cliUp # "none"

\* The connection carries data upwards, without anything that may cost some.
Carried == Undisturbed /\ result \notin Refusals

\* The upward direction was read to its end.
UpOver == srvUp = "done" /\ user.fin # "no" /\ upRead = user.sent

EndUp ==
    /\ Has(up, EndOfData) => srvUp = "done"
    /\ Carried =>
        /\ srvUp = "done" => UpOver /\ (stClient = "open" => Whole(service.got, up, upRead))
        /\ srv \in {"closing", "returned", "gone"} => srvUp = "done"
    /\ Undisturbed /\ service.eof => UpOver /\ Len(service.got) = 2 * upRead

\* handleStream has read the whole answer of a service it reached.
AnswerRead == cliUp # "none" /\ cli \in {"awaitUp", "closing", "gone"}
DownOver == service.fin # "no" /\ (downRead = service.sent \/ service.fin = "broken")

EndDown ==
    /\ Has(down, EndOfData) => AnswerRead
    /\ channel = "up" /\ AnswerRead =>
         DownOver /\ (stServer = "open" => Whole(user.got, down, downRead))
    /\ channel = "up" /\ user.eof => AnswerRead /\ Len(user.got) = 2 * downRead

FInv == Places /\ OkMeansCopies /\ EndUp /\ EndDown

\* Each variable of the control moves one way only.
LEMMA ControlMoves ==
    ASSUME SInv, FInv, [Next]_vars
    PROVE  /\ srvUp = "done" => srvUp' = "done"
           /\ cliUp # "none" => cliUp' # "none"
           /\ cliUp = "done" => cliUp' = "done"
           /\ AnswerRead => AnswerRead'
           /\ stServer' = "open" => stServer = "open"
           /\ stClient' = "open" => stClient = "open"
           /\ Undisturbed' => Undisturbed
           /\ Carried' => Carried
<1>1. srvUp = "done" => srvUp' = "done"
  BY DEF SInv, HeaderFirst, Next, ForwardStep, UpStep, AcceptStep, HandlerStep, CliUpStep, vars,
         serverVars, WriteHeader, AckFails, ReadAck, DownCopies, DownEnds, AwaitUp, CloseStream,
         Untrack, UpCopies, UpEnds, StopCuts, AcceptStream, AcceptFails, ServeChannelReturns,
         ReadHeader, NoHeader, DialFails, DialSucceeds, CliDownCopies, CliDownEnds, CliAwaitUp,
         CliCloses, CliUpCopies, CliUpEnds, ChannelDies, UserStep, ServiceStep
<1>2. (cliUp # "none" => cliUp' # "none") /\ (cliUp = "done" => cliUp' = "done")
  BY DEF SInv, AckFirst, Next, ForwardStep, UpStep, AcceptStep, HandlerStep, CliUpStep, vars,
         clientVars, WriteHeader, AckFails, ReadAck, DownCopies, DownEnds, AwaitUp, CloseStream,
         Untrack, UpCopies, UpEnds, StopCuts, AcceptStream, AcceptFails, ServeChannelReturns,
         ReadHeader, NoHeader, DialFails, DialSucceeds, CliDownCopies, CliDownEnds, CliAwaitUp,
         CliCloses, CliUpCopies, CliUpEnds, ChannelDies, UserStep, ServiceStep
<1>3. cli \in {"awaitUp", "closing", "gone"} => cli' \in {"awaitUp", "closing", "gone"}
  BY DEF Next, ForwardStep, UpStep, AcceptStep, HandlerStep, CliUpStep, vars,
         clientVars, WriteHeader, AckFails, ReadAck, DownCopies, DownEnds, AwaitUp, CloseStream,
         Untrack, UpCopies, UpEnds, StopCuts, AcceptStream, AcceptFails, ServeChannelReturns,
         ReadHeader, NoHeader, DialFails, DialSucceeds, CliDownCopies, CliDownEnds, CliAwaitUp,
         CliCloses, CliUpCopies, CliUpEnds, ChannelDies, UserStep, ServiceStep
<1>4. (stServer' = "open" => stServer = "open") /\ (stClient' = "open" => stClient = "open")
  BY DEF Next, ForwardStep, UpStep, AcceptStep, HandlerStep, CliUpStep, vars, serverVars,
         clientVars, WriteHeader, AckFails, ReadAck, DownCopies, DownEnds, AwaitUp, CloseStream,
         Untrack, UpCopies, UpEnds, StopCuts, AcceptStream, AcceptFails, ServeChannelReturns,
         ReadHeader, NoHeader, DialFails, DialSucceeds, CliDownCopies, CliDownEnds, CliAwaitUp,
         CliCloses, CliUpCopies, CliUpEnds, ChannelDies, UserStep, ServiceStep
<1>5. channel' = "up" => channel = "up"
  BY DEF Next, ForwardStep, UpStep, AcceptStep, HandlerStep, CliUpStep, vars,
         WriteHeader, AckFails, ReadAck, DownCopies, DownEnds, AwaitUp, CloseStream,
         Untrack, UpCopies, UpEnds, StopCuts, AcceptStream, AcceptFails, ServeChannelReturns,
         ReadHeader, NoHeader, DialFails, DialSucceeds, CliDownCopies, CliDownEnds, CliAwaitUp,
         CliCloses, CliUpCopies, CliUpEnds, ChannelDies, UserStep, ServiceStep
<1>6. conn = "cut" => conn' = "cut"
  BY DEF Next, ForwardStep, UpStep, AcceptStep, HandlerStep, CliUpStep, vars, serverVars,
         WriteHeader, AckFails, ReadAck, DownCopies, DownEnds, AwaitUp, CloseStream, CloseConn,
         Untrack, UpCopies, UpEnds, StopCuts, AcceptStream, AcceptFails, ServeChannelReturns,
         ReadHeader, NoHeader, DialFails, DialSucceeds, CliDownCopies, CliDownEnds, CliAwaitUp,
         CliCloses, CliUpCopies, CliUpEnds, ChannelDies, UserStep, ServiceStep
<1>7. result # "none" => result' = result
  BY DEF FInv, Places, Next, ForwardStep, UpStep, AcceptStep, HandlerStep, CliUpStep, vars,
         serverVars,
         WriteHeader, AckFails, ReadAck, DownCopies, DownEnds, AwaitUp, CloseStream,
         Untrack, UpCopies, UpEnds, StopCuts, AcceptStream, AcceptFails, ServeChannelReturns,
         ReadHeader, NoHeader, DialFails, DialSucceeds, CliDownCopies, CliDownEnds, CliAwaitUp,
         CliCloses, CliUpCopies, CliUpEnds, ChannelDies, UserStep, ServiceStep
<1>8. Undisturbed' => Undisturbed
  <2>1. Onward(user, user') /\ Onward(service, service')
    BY PeerEffects
  <2>2. /\ user.fin = "broken" => user'.fin = "broken"
        /\ service.fin = "broken" => service'.fin = "broken"
    BY <2>1 DEF Onward
  <2> QED
    BY <1>5, <1>6, <1>7, <2>2 DEF Undisturbed
<1>9. Carried' => Carried
  BY <1>7, <1>8 DEF Carried, Refusals
<1> QED
  BY <1>1, <1>2, <1>3, <1>4, <1>8, <1>9 DEF AnswerRead

\* The goroutines stay where the stream and the connection let them be.
LEMMA PlacesKept ==
    ASSUME SInv, FInv, [Next]_vars
    PROVE  Places'
<1>1. Places /\ HeaderFirst /\ AckFirst
  BY DEF FInv, SInv
<1>2. CASE ForwardStep \/ UpStep \/ StopCuts
  <2>1. UNCHANGED <<cli, stClient, cliUp>> /\ service'.eof = service.eof
    BY <1>2 DEF ForwardStep, UpStep, WriteHeader, AckFails, ReadAck, DownCopies, DownEnds,
                AwaitUp, CloseStream, Untrack, UpCopies, UpEnds, StopCuts, clientVars, peerVars
  <2>2. /\ srv' \in {"opened", "awaitAck", "copying", "awaitUp"} => conn' # "closed"
        /\ srv' \in {"opened", "awaitAck", "copying", "awaitUp", "closing"} => stServer' = "open"
    BY <1>1, <1>2
       DEF Places, ForwardStep, UpStep, WriteHeader, AckFails, ReadAck, DownCopies, DownEnds,
           AwaitUp, CloseStream, Untrack, UpCopies, UpEnds, StopCuts, serverVars, CloseConn
  <2>3. /\ srv' \in {"opened", "awaitAck"} => result' = "none"
        /\ srv' \in {"copying", "awaitUp"} => result' = "ok"
    BY <1>1, <1>2
       DEF Places, ForwardStep, UpStep, WriteHeader, AckFails, ReadAck, DownCopies, DownEnds,
           AwaitUp, CloseStream, Untrack, UpCopies, UpEnds, StopCuts, serverVars
  <2>4. user'.eof => srv' \notin {"opened", "awaitAck", "copying"}
    <3>1. user'.eof = user.eof \/ DownEnds
      BY PeerEffects
    <3>2. DownEnds => srv' = "awaitUp"
      BY DEF DownEnds
    <3>3. srv' \in {"opened", "awaitAck", "copying"} => srv \in {"opened", "awaitAck", "copying"}
      BY <1>2 DEF ForwardStep, UpStep, WriteHeader, AckFails, ReadAck, DownCopies, DownEnds,
                  AwaitUp, CloseStream, Untrack, UpCopies, UpEnds, StopCuts, serverVars
    <3> QED
      BY <1>1, <3>1, <3>2, <3>3 DEF Places
  <2> QED
    BY <1>1, <2>1, <2>2, <2>3, <2>4 DEF Places
<1>3. CASE AcceptStep \/ HandlerStep \/ CliUpStep \/ ChannelDies \/ UserStep \/ ServiceStep
  <2>1. UNCHANGED <<srv, stServer, result, conn>>
    BY <1>3 DEF AcceptStep, HandlerStep, CliUpStep, AcceptStream, AcceptFails,
                ServeChannelReturns, ReadHeader, NoHeader, DialFails, DialSucceeds,
                CliDownCopies, CliDownEnds, CliAwaitUp, CliCloses, CliUpCopies, CliUpEnds,
                ChannelDies, UserStep, ServiceStep, serverVars
  <2>2. user'.eof = user.eof
    <3>1. DownEnds => srv' # srv
      BY DEF DownEnds
    <3> QED
      BY <2>1, <3>1, PeerEffects
  <2>3. cli' # "gone" => stClient' = "open"
    BY <1>1, <1>3
       DEF Places, AcceptStep, HandlerStep, CliUpStep, AcceptStream, AcceptFails,
           ServeChannelReturns, ReadHeader, NoHeader, DialFails, DialSucceeds,
           CliDownCopies, CliDownEnds, CliAwaitUp, CliCloses, CliUpCopies, CliUpEnds,
           ChannelDies, UserStep, ServiceStep, clientVars
  <2>4. /\ cliUp' = "copying" => cli' \in {"copying", "awaitUp"}
        /\ cli' \in {"copying", "awaitUp"} => cliUp' # "none"
    BY <1>1, <1>3
       DEF Places, AckFirst, AcceptStep, HandlerStep, CliUpStep, AcceptStream, AcceptFails,
           ServeChannelReturns, ReadHeader, NoHeader, DialFails, DialSucceeds,
           CliDownCopies, CliDownEnds, CliAwaitUp, CliCloses, CliUpCopies, CliUpEnds,
           ChannelDies, UserStep, ServiceStep, clientVars
  <2>5. service'.eof => cliUp' = "done"
    <3>1. service'.eof = service.eof \/ CliUpEnds
      BY PeerEffects
    <3>2. CliUpEnds => cliUp' = "done"
      BY DEF CliUpEnds
    <3> QED
      BY <1>1, <3>1, <3>2, ControlMoves DEF Places
  <2> QED
    BY <1>1, <2>1, <2>2, <2>3, <2>4, <2>5 DEF Places
<1>4. CASE UNCHANGED vars
  BY <1>1, <1>4 DEF Places, vars, serverVars, clientVars, peerVars
<1> QED
  BY <1>2, <1>3, <1>4 DEF Next

\* An ack that says ok was written by a client that copies, and stays true.
LEMMA OkMeansCopiesKept ==
    ASSUME SInv, FInv, [Next]_vars
    PROVE  OkMeansCopies'
<1>1. cliUp # "none" => cliUp' # "none"
  BY ControlMoves
<1>2. Has(down', Ack("ok")) => cliUp' # "none"
  <2>1. DialSucceeds /\ CanWrite(stClient) => cliUp' # "none"
    BY DEF DialSucceeds
  <2> QED
    BY <1>1, <2>1, QueueEffects DEF FInv, OkMeansCopies
<1>3. result' = "ok" => cliUp' # "none"
  <2> SUFFICES ASSUME result' = "ok" PROVE cliUp # "none"
    BY <1>1
  <2>1. CASE result = "ok"
    BY <2>1 DEF FInv, OkMeansCopies
  <2>2. CASE ReadAck
    <3>1. down # <<>> /\ Head(down)[1] = "ack" /\ Head(down)[2] = "ok"
      BY <2>2 DEF ReadAck, At
    <3>2. down \in Seq(Items) /\ Head(down) = down[1] /\ 1 \in 1..Len(down) /\ down[1] \in Items
      BY <3>1, Values, TailItems
    <3>3. Head(down) = Ack("ok")
      BY <3>1, <3>2 DEF Items, Header, EndOfData, Ack, Pieces
    <3>4. Has(down, Ack("ok"))
      BY <3>2, <3>3 DEF Has
    <3> QED
      BY <3>4 DEF FInv, OkMeansCopies
  <2>3. result' = result \/ ReadAck
    <3>1. result' = result \/ ReadAck \/ WriteHeader \/ AckFails
      BY DEF Next, ForwardStep, UpStep, AcceptStep, HandlerStep, CliUpStep, vars, serverVars,
             DownCopies, DownEnds, AwaitUp, CloseStream, Untrack, UpCopies, UpEnds, StopCuts,
             AcceptStream, AcceptFails, ServeChannelReturns, ReadHeader, NoHeader, DialFails,
             DialSucceeds, CliDownCopies, CliDownEnds, CliAwaitUp, CliCloses, CliUpCopies,
             CliUpEnds, ChannelDies, UserStep, ServiceStep
    <3> QED
      BY <3>1 DEF WriteHeader, AckFails
  <2> QED
    BY <2>1, <2>2, <2>3
<1> QED
  BY <1>2, <1>3 DEF OkMeansCopies

\* A Carried connection ends its upward direction only behind the user's data,
\* and what was read of it is complete.
LEMMA UpEndsBehindData ==
    ASSUME SInv, FInv, UpEnds, Carried
    PROVE  /\ UpOver'
           /\ stClient = "open" => Whole(service.got, up', upRead')
<1>1. /\ srvUp = "copying" /\ srvUp' = "done"
      /\ UNCHANGED <<upRead, user, stClient, service>>
  BY DEF UpEnds, clientVars, peerVars
<1>2. srv \notin {"closing", "returned", "gone"}
  BY <1>1 DEF FInv, EndUp
<1>3. srv \in {"opened", "awaitAck", "copying", "awaitUp"}
  BY <1>2 DEF SInv, Typed
<1>4. /\ conn # "closed" /\ stServer = "open" /\ channel = "up" /\ conn # "cut"
      /\ user.fin # "broken"
  BY <1>3 DEF FInv, Places, Carried, Undisturbed
<1>5. ~ConnGone /\ CanWrite(stServer)
  BY <1>4 DEF ConnGone, CanWrite
<1>6. upRead = user.sent /\ user.fin # "no"
  BY <1>4, <1>5 DEF UpEnds
<1>7. stClient = "open" => Whole(service.got, up', upRead')
  <2> SUFFICES ASSUME stClient = "open" PROVE Whole(service.got, up', upRead)
    BY <1>1
  <2>1. up' = up \o <<EndOfData>>
    BY <1>5 DEF UpEnds, Sending
  <2>2. InTransit(service.got, up, upRead) /\ Complete(service.got, up, upRead)
    BY <1>1, <1>4 DEF SInv, Upwards, Open
  <2> QED
    BY <2>1, <2>2, EndIsWhole, Values
<1> QED
  BY <1>1, <1>6, <1>7 DEF UpOver

\* The client's copy sees an end upwards that is one.
LEMMA CliUpEndsBehindData ==
    ASSUME SInv, FInv, CliUpEnds, Undisturbed, ~Deaf(service)
    PROVE  UpOver /\ Len(service.got) = 2 * upRead
<1>1. /\ cliUp = "copying"
      /\ At(up, {"frameEOF"}) \/ Ended(up, stServer)
  BY DEF CliUpEnds
<1>2. Carried /\ stClient = "open"
  <2>1. result \notin Refusals
    BY <1>1 DEF SInv, RefusalIsFinal, Refused
  <2>2. stClient = "open"
    BY <1>1 DEF FInv, Places
  <2> QED
    BY <2>1, <2>2 DEF Carried
<1>3. srvUp = "done"
  <2>1. CASE At(up, {"frameEOF"})
    <3>1. up # <<>> /\ Head(up)[1] = "frameEOF"
      BY <2>1 DEF At
    <3>2. Head(up) = up[1] /\ 1 \in 1..Len(up) /\ up[1] \in Items
      BY <3>1, Values, TailItems
    <3>3. up[1] = EndOfData
      BY <3>1, <3>2, Kinds DEF Pieces, Leads
    <3> QED
      BY <3>2, <3>3 DEF FInv, EndUp, Has
  <2>2. CASE Ended(up, stServer)
    <3>1. stServer = "closed"
      BY <2>2 DEF Ended, Undisturbed
    <3>2. srv \in {"returned", "gone"}
      BY <3>1 DEF FInv, Places, SInv, Typed
    <3> QED
      BY <1>2, <3>2 DEF FInv, EndUp
  <2> QED
    BY <1>1, <2>1, <2>2
<1>4. UpOver /\ Whole(service.got, up, upRead)
  BY <1>2, <1>3 DEF FInv, EndUp
<1>5. up = <<>> \/ At(up, {"frameEOF"})
  BY <1>1 DEF Ended
<1>6. Len(service.got) = 2 * upRead
  <2>1. InTransit(service.got, up, upRead)
    BY DEF SInv, Upwards
  <2> QED
    BY <1>4, <1>5, <2>1, WholeAtEnd, Values
<1> QED
  BY <1>4, <1>6

\* The end of the upward direction stays behind the data.
LEMMA EndUpKept ==
    ASSUME SInv, FInv, [Next]_vars
    PROVE  EndUp'
<1>1. EndUp /\ Places
  BY DEF FInv
<1>2. Has(up', EndOfData) => srvUp' = "done"
  <2>1. UpEnds => srvUp' = "done"
    BY DEF UpEnds
  <2> QED
    BY <1>1, <2>1, QueueEffects, ControlMoves DEF EndUp
<1>3. UpOver => UpOver'
  <2> SUFFICES ASSUME UpOver PROVE UpOver'
    OBVIOUS
  <2>1. srvUp = "done" /\ srvUp' = "done"
    BY ControlMoves DEF UpOver
  <2>2. upRead' = upRead
    BY <2>1 DEF Next, ForwardStep, UpStep, AcceptStep, HandlerStep, CliUpStep, vars, serverVars,
         WriteHeader, AckFails, ReadAck, DownCopies, DownEnds, AwaitUp, CloseStream,
         Untrack, UpCopies, UpEnds, StopCuts, AcceptStream, AcceptFails, ServeChannelReturns,
         ReadHeader, NoHeader, DialFails, DialSucceeds, CliDownCopies, CliDownEnds, CliAwaitUp,
         CliCloses, CliUpCopies, CliUpEnds, ChannelDies, UserStep, ServiceStep
  <2>3. user'.fin # "no" /\ user'.sent = user.sent
    BY PeerEffects DEF UpOver, Onward
  <2> QED
    BY <2>1, <2>2, <2>3 DEF UpOver
<1>4. srvUp' = "done" => srvUp = "done" \/ UpEnds
  BY DEF Next, ForwardStep, UpStep, AcceptStep, HandlerStep, CliUpStep, vars, serverVars,
         WriteHeader, AckFails, ReadAck, DownCopies, DownEnds, AwaitUp, CloseStream,
         Untrack, UpCopies, StopCuts, AcceptStream, AcceptFails, ServeChannelReturns,
         ReadHeader, NoHeader, DialFails, DialSucceeds, CliDownCopies, CliDownEnds, CliAwaitUp,
         CliCloses, CliUpCopies, CliUpEnds, ChannelDies, UserStep, ServiceStep
<1>5. Carried' /\ srvUp' = "done" => UpOver'
  BY <1>1, <1>3, <1>4, UpEndsBehindData, ControlMoves DEF EndUp
<1>6. ASSUME Carried', srvUp' = "done", stClient' = "open"
      PROVE  Whole(service'.got, up', upRead')
  <2>1. Carried /\ stClient = "open" /\ channel = "up" /\ channel' = "up"
    BY <1>6, ControlMoves DEF Carried, Undisturbed
  <2>2. CASE UpEnds
    <3>1. service' = service
      BY <2>2 DEF UpEnds, peerVars
    <3> QED
      BY <2>1, <2>2, <3>1, UpEndsBehindData
  <2>3. CASE srvUp = "done"
    <3>1. Whole(service.got, up, upRead) /\ InTransit(service.got, up, upRead)
      BY <1>1, <2>1, <2>3 DEF EndUp, SInv, Upwards
    <3>2. CASE CliUpCopies
      <4>1. At(up, Pieces) /\ up' = Tail(up) /\ upRead' = upRead
        BY <3>2 DEF CliUpCopies, serverVars
      <4>2. service' = Delivered(service, Head(up))
        BY <3>2 DEF CliUpCopies
      <4>3. Head(up) \in Items
        BY <4>1, TailItems, Values DEF At
      <4>4. service'.got = Append(service.got, Head(up))
        BY <4>2, <4>3, PeersKeep, PeerUpdates
      <4> QED
        BY <3>1, <4>1, <4>4, PieceKeepsWhole, Values
    <3>3. CASE ReadHeader
      <4>1. up # <<>> /\ up' = Tail(up) /\ upRead' = upRead /\ service' = service /\ cli = "reading"
        BY <3>3 DEF ReadHeader, serverVars, peerVars
      <4>2. up[1] = Header /\ Head(up) = up[1]
        BY <4>1, TailItems, Values DEF SInv, HeaderFirst
      <4>3. At(up, Leads)
        BY <4>1, <4>2, Kinds DEF At
      <4> QED
        BY <3>1, <4>1, <4>3, LeadKeepsWhole, Values
    <3>4. CASE ~CliUpCopies /\ ~ReadHeader
      <4>1. srv # "opened"
        BY <2>3 DEF SInv, HeaderFirst
      <4>2. up' = up /\ upRead' = upRead
        BY <2>1, <2>3, <3>4, <4>1
           DEF Next, ForwardStep, UpStep, AcceptStep, HandlerStep, CliUpStep, vars, serverVars,
               WriteHeader, AckFails, ReadAck, DownCopies, DownEnds, AwaitUp, CloseStream,
               Untrack, UpCopies, UpEnds, StopCuts, AcceptStream, AcceptFails,
               ServeChannelReturns, NoHeader, DialFails, DialSucceeds, CliDownCopies,
               CliDownEnds, CliAwaitUp, CliCloses, CliUpEnds, ChannelDies, UserStep, ServiceStep
      <4>3. service'.got = service.got
        BY <3>4, PeerEffects
      <4> QED
        BY <3>1, <4>2, <4>3
    <3> QED
      BY <3>2, <3>3, <3>4
  <2> QED
    BY <1>4, <1>6, <2>2, <2>3
<1>7. ASSUME Carried', srv' \in {"closing", "returned", "gone"}
      PROVE  srvUp' = "done"
  <2>1. Carried /\ (srvUp = "done" => srvUp' = "done")
    BY <1>7, ControlMoves
  <2>2. CASE srv \in {"closing", "returned", "gone"}
    BY <1>1, <2>1, <2>2 DEF EndUp
  <2>3. CASE srv \notin {"closing", "returned", "gone"}
    <3>1. (WriteHeader /\ srv' = "closing") \/ AckFails \/ (ReadAck /\ srv' = "closing") \/ AwaitUp
      BY <1>7, <2>3
         DEF Next, ForwardStep, UpStep, AcceptStep, HandlerStep, CliUpStep, vars, serverVars,
             WriteHeader, AckFails, ReadAck, DownCopies, DownEnds, AwaitUp, CloseStream,
             Untrack, UpCopies, UpEnds, StopCuts, AcceptStream, AcceptFails,
             ServeChannelReturns, ReadHeader, NoHeader, DialFails, DialSucceeds, CliDownCopies,
             CliDownEnds, CliAwaitUp, CliCloses, CliUpCopies, CliUpEnds, ChannelDies, UserStep,
             ServiceStep
    <3>2. ~(WriteHeader /\ srv' = "closing")
      <4>1. WriteHeader /\ srv' = "closing" => result' = "rejected"
        BY DEF WriteHeader
      <4> QED
        BY <1>7, <4>1 DEF Carried, Refusals
    <3>3. ~AckFails
      BY <1>7 DEF Carried, Undisturbed, AckFails
    <3>4. ~(ReadAck /\ srv' = "closing")
      <4> SUFFICES ASSUME ReadAck, srv' = "closing" PROVE result' \in Refusals
        BY <1>7 DEF Carried
      <4>1. down # <<>> /\ Head(down)[1] = "ack" /\ Head(down)[2] # "ok" /\ result' = Head(down)[2]
        BY DEF ReadAck, At
      <4>2. Head(down) \in Items
        BY <4>1, TailItems, Values
      <4>3. Head(down)[2] \in Statuses
        BY <4>1, <4>2 DEF Items, Header, EndOfData, Ack, Pieces
      <4> QED
        BY <4>1, <4>3 DEF Statuses, Refusals
    <3>5. AwaitUp => srvUp = "done"
      BY DEF AwaitUp
    <3> QED
      BY <2>1, <3>1, <3>2, <3>3, <3>4, <3>5
  <2> QED
    BY <2>2, <2>3
<1>8. ASSUME Undisturbed', service'.eof
      PROVE  UpOver' /\ Len(service'.got) = 2 * upRead'
  <2>1. Undisturbed
    BY <1>8, ControlMoves
  <2>2. UpOver /\ Len(service.got) = 2 * upRead
    <3>1. service.eof \/ (CliUpEnds /\ ~Deaf(service))
      BY <1>8, PeerEffects
    <3> QED
      BY <1>1, <2>1, <3>1, CliUpEndsBehindData DEF EndUp
  <2>3. service'.got = service.got
    <3>1. ~(service.eof /\ CliUpCopies)
      BY <1>1 DEF Places, CliUpCopies
    <3>2. ~(CliUpEnds /\ CliUpCopies)
      BY DEF CliUpEnds, CliUpCopies, clientVars
    <3> QED
      BY <1>8, <3>1, <3>2, PeerEffects
  <2>4. UpOver' /\ upRead' = upRead
    <3>1. upRead = user.sent /\ user.fin # "no" /\ upRead' = user'.sent
      BY <1>3, <2>2 DEF UpOver
    <3>2. user'.sent = user.sent
      BY <3>1, PeerEffects DEF Onward
    <3> QED
      BY <1>3, <2>2, <3>1, <3>2
  <2> QED
    BY <2>2, <2>3, <2>4
<1> QED
  BY <1>2, <1>5, <1>6, <1>7, <1>8 DEF EndUp

\* handleStream ends its answer only behind the service's data.
LEMMA CliDownEndsBehindData ==
    ASSUME SInv, FInv, CliDownEnds, channel = "up"
    PROVE  /\ DownOver' /\ AnswerRead'
           /\ stServer = "open" => Whole(user.got, down', downRead')
<1>1. /\ cli = "copying" /\ cli' = "awaitUp"
      /\ UNCHANGED <<cliUp, downRead, service, user, stServer>>
  BY DEF CliDownEnds, serverVars, peerVars
<1>2. cliUp # "none" /\ stClient = "open"
  BY <1>1 DEF FInv, Places
<1>3. CanWrite(stClient)
  BY <1>2 DEF CanWrite
<1>4. DownOver
  BY <1>3 DEF CliDownEnds, DownOver
<1>5. stServer = "open" => Whole(user.got, down', downRead')
  <2> SUFFICES ASSUME stServer = "open" PROVE Whole(user.got, down', downRead)
    BY <1>1
  <2>1. down' = down \o <<EndOfData>>
    BY <1>3 DEF CliDownEnds, Sending
  <2>2. InTransit(user.got, down, downRead) /\ Complete(user.got, down, downRead)
    BY <1>1, <1>2 DEF SInv, Downwards, Open
  <2> QED
    BY <2>1, <2>2, EndIsWhole, Values
<1> QED
  BY <1>1, <1>2, <1>4, <1>5 DEF DownOver, AnswerRead

\* The server's copy sees an end downwards that is one.
LEMMA DownEndsBehindData ==
    ASSUME SInv, FInv, DownEnds, channel = "up", ~ConnGone, ~Deaf(user)
    PROVE  AnswerRead /\ Len(user.got) = 2 * downRead
<1>1. /\ srv = "copying"
      /\ At(down, {"frameEOF"}) \/ Ended(down, stClient)
  BY DEF DownEnds
<1>2. stServer = "open" /\ cliUp # "none"
  BY <1>1 DEF FInv, Places, OkMeansCopies
<1>3. AnswerRead
  <2>1. CASE At(down, {"frameEOF"})
    <3>1. down # <<>> /\ Head(down)[1] = "frameEOF"
      BY <2>1 DEF At
    <3>2. Head(down) = down[1] /\ 1 \in 1..Len(down) /\ down[1] \in Items
      BY <3>1, Values, TailItems
    <3>3. down[1] = EndOfData
      BY <3>1, <3>2, Kinds DEF Pieces, Leads
    <3> QED
      BY <3>2, <3>3 DEF FInv, EndDown, Has
  <2>2. CASE Ended(down, stClient)
    <3>1. stClient = "closed"
      BY <2>2 DEF Ended
    <3>2. cli = "gone"
      BY <3>1 DEF FInv, Places
    <3> QED
      BY <1>2, <3>2 DEF AnswerRead
  <2> QED
    BY <1>1, <2>1, <2>2
<1>4. Whole(user.got, down, downRead) /\ InTransit(user.got, down, downRead)
  BY <1>2, <1>3 DEF FInv, EndDown, SInv, Downwards
<1>5. down = <<>> \/ At(down, {"frameEOF"})
  BY <1>1 DEF Ended
<1>6. Len(user.got) = 2 * downRead
  BY <1>4, <1>5, WholeAtEnd, Values
<1> QED
  BY <1>3, <1>6

\* The end of the downward direction stays behind the data.
LEMMA EndDownKept ==
    ASSUME SInv, FInv, [Next]_vars
    PROVE  EndDown'
<1>1. EndDown /\ Places
  BY DEF FInv
<1>2. Has(down', EndOfData) => AnswerRead'
  <2>1. CliDownEnds => AnswerRead'
    BY <1>1 DEF CliDownEnds, AnswerRead, Places
  <2> QED
    BY <1>1, <2>1, QueueEffects, ControlMoves DEF EndDown
<1>3. channel' = "up" => channel = "up"
  BY DEF Next, ForwardStep, UpStep, AcceptStep, HandlerStep, CliUpStep, vars,
         WriteHeader, AckFails, ReadAck, DownCopies, DownEnds, AwaitUp, CloseStream,
         Untrack, UpCopies, UpEnds, StopCuts, AcceptStream, AcceptFails, ServeChannelReturns,
         ReadHeader, NoHeader, DialFails, DialSucceeds, CliDownCopies, CliDownEnds, CliAwaitUp,
         CliCloses, CliUpCopies, CliUpEnds, ChannelDies, UserStep, ServiceStep
<1>4. AnswerRead => downRead' = downRead
  BY DEF AnswerRead, Next, ForwardStep, UpStep, AcceptStep, HandlerStep, CliUpStep, vars,
         clientVars, WriteHeader, AckFails, ReadAck, DownCopies, DownEnds, AwaitUp, CloseStream,
         Untrack, UpCopies, UpEnds, StopCuts, AcceptStream, AcceptFails, ServeChannelReturns,
         ReadHeader, NoHeader, DialFails, DialSucceeds, CliDownCopies, CliDownEnds, CliAwaitUp,
         CliCloses, CliUpCopies, CliUpEnds, ChannelDies, UserStep, ServiceStep
<1>5. AnswerRead /\ DownOver => DownOver'
  BY <1>4, PeerEffects DEF DownOver, Onward
<1>6. AnswerRead' => AnswerRead \/ CliDownEnds
  <2> SUFFICES ASSUME AnswerRead', ~CliDownEnds PROVE AnswerRead
    OBVIOUS
  <2>1. cliUp' # "none" /\ cli' \in {"awaitUp", "closing", "gone"}
    BY DEF AnswerRead
  <2>2. cli \in {"none", "reading", "dialing"} => cliUp = "none"
    BY DEF SInv, AckFirst
  <2>3. cli \in {"awaitUp", "closing", "gone"}
    BY <2>1, <2>2
       DEF Next, ForwardStep, UpStep, AcceptStep, HandlerStep, CliUpStep, vars, clientVars,
           WriteHeader, AckFails, ReadAck, DownCopies, DownEnds, AwaitUp, CloseStream,
           Untrack, UpCopies, UpEnds, StopCuts, AcceptStream, AcceptFails, ServeChannelReturns,
           ReadHeader, NoHeader, DialFails, DialSucceeds, CliDownCopies, CliAwaitUp,
           CliCloses, CliUpCopies, CliUpEnds, ChannelDies, UserStep, ServiceStep
  <2>4. cliUp # "none"
    BY <2>1, <2>3
       DEF Next, ForwardStep, UpStep, AcceptStep, HandlerStep, CliUpStep, vars, clientVars,
           WriteHeader, AckFails, ReadAck, DownCopies, DownEnds, AwaitUp, CloseStream,
           Untrack, UpCopies, UpEnds, StopCuts, AcceptStream, AcceptFails, ServeChannelReturns,
           ReadHeader, NoHeader, DialFails, DialSucceeds, CliDownCopies, CliAwaitUp,
           CliCloses, CliUpCopies, CliUpEnds, ChannelDies, UserStep, ServiceStep
  <2> QED
    BY <2>3, <2>4 DEF AnswerRead
<1>7. channel' = "up" /\ AnswerRead' => DownOver'
  BY <1>1, <1>3, <1>5, <1>6, CliDownEndsBehindData DEF EndDown
<1>8. ASSUME channel' = "up", AnswerRead', stServer' = "open"
      PROVE  Whole(user'.got, down', downRead')
  <2>1. channel = "up" /\ stServer = "open"
    BY <1>3, <1>8, ControlMoves
  <2>2. CASE CliDownEnds
    <3>1. user' = user
      BY <2>2 DEF CliDownEnds, peerVars
    <3> QED
      BY <2>1, <2>2, <3>1, CliDownEndsBehindData
  <2>3. CASE AnswerRead
    <3>1. Whole(user.got, down, downRead) /\ InTransit(user.got, down, downRead)
      BY <1>1, <2>1, <2>3 DEF EndDown, SInv, Downwards
    <3>2. downRead' = downRead
      BY <1>4, <2>3
    <3>3. CASE DownCopies
      <4>1. At(down, Pieces) /\ down' = Tail(down) /\ user' = Delivered(user, Head(down))
        BY <3>3 DEF DownCopies
      <4>2. Head(down) \in Items
        BY <4>1, TailItems, Values DEF At
      <4>3. user'.got = Append(user.got, Head(down))
        BY <4>1, <4>2, PeersKeep, PeerUpdates
      <4> QED
        BY <3>1, <3>2, <4>1, <4>3, PieceKeepsWhole, Values
    <3>4. CASE ReadAck
      <4>1. At(down, {"ack"}) /\ down' = Tail(down) /\ user' = user
        BY <3>4 DEF ReadAck, peerVars
      <4>2. At(down, Leads)
        BY <4>1 DEF At, Leads
      <4> QED
        BY <3>1, <3>2, <4>1, <4>2, LeadKeepsWhole, Values
    <3>5. CASE ~DownCopies /\ ~ReadAck
      <4>1. down' = down
        BY <1>8, <2>1, <2>3, <3>5
           DEF AnswerRead, Next, ForwardStep, UpStep, AcceptStep, HandlerStep, CliUpStep, vars,
               WriteHeader, AckFails, DownEnds, AwaitUp, CloseStream,
               Untrack, UpCopies, UpEnds, StopCuts, AcceptStream, AcceptFails,
               ServeChannelReturns, ReadHeader, NoHeader, DialFails, DialSucceeds, CliDownCopies,
               CliDownEnds, CliAwaitUp, CliCloses, CliUpCopies, CliUpEnds, ChannelDies,
               UserStep, ServiceStep
      <4>2. user'.got = user.got
        BY <3>5, PeerEffects
      <4> QED
        BY <3>1, <3>2, <4>1, <4>2
    <3> QED
      BY <3>3, <3>4, <3>5
  <2> QED
    BY <1>6, <1>8, <2>2, <2>3
<1>9. ASSUME channel' = "up", user'.eof
      PROVE  AnswerRead' /\ Len(user'.got) = 2 * downRead'
  <2>1. AnswerRead /\ Len(user.got) = 2 * downRead
    <3>1. user.eof \/ (DownEnds /\ ~ConnGone /\ ~Deaf(user))
      BY <1>9, PeerEffects
    <3> QED
      BY <1>1, <1>3, <1>9, <3>1, DownEndsBehindData DEF EndDown
  <2>2. user'.got = user.got
    <3>1. ~(user.eof /\ DownCopies)
      BY <1>1 DEF Places, DownCopies
    <3>2. ~(DownEnds /\ DownCopies)
      BY DEF DownEnds, DownCopies, serverVars
    <3> QED
      BY <1>9, <3>1, <3>2, PeerEffects
  <2> QED
    BY <1>4, <2>1, <2>2, ControlMoves
<1> QED
  BY <1>2, <1>7, <1>8, <1>9 DEF EndDown

\* Nothing has ended at the start.
LEMMA FInitially == Init => FInv
<1> SUFFICES ASSUME Init PROVE FInv
  OBVIOUS
<1>1. ~user.eof /\ ~service.eof
  BY DEF Init, NewPeer
<1>2. \A x : ~Has(up, x) /\ ~Has(down, x)
  BY DEF Init, Has
<1>3. Places /\ OkMeansCopies
  BY <1>1, <1>2 DEF Init, Places, OkMeansCopies
<1>4. EndUp /\ EndDown
  BY <1>1, <1>2 DEF Init, EndUp, EndDown, AnswerRead
<1> QED
  BY <1>3, <1>4 DEF FInv

\* Both invariants hold together.
LEMMA BothInvariants == Spec => [](SInv /\ FInv)
<1>1. Init => FInv
  BY FInitially
<1>2. SInv /\ FInv /\ [Next]_vars => FInv'
  BY PlacesKept, OkMeansCopiesKept, EndUpKept, EndDownKept DEF FInv
<1> QED
  BY <1>1, <1>2, Invariant, PTL DEF Spec

\* A peer that was handed as many pieces as the other one sent has them all.
LEMMA GotIsSent ==
    ASSUME NEW got \in Seq(Items), NEW q, NEW n \in Nat,
           InTransit(got, q, n), Len(got) = 2 * n
    PROVE  got = Sent(n)
<1> DEFINE s == Sent(n)
<1>1. s = [i \in 1..(2 * n) |-> Piece(i)]
  BY DEF Sent, Piece
<1>2. \A i \in 1..(2 * n) : got[i] = Piece(i)
  BY DEF InTransit
<1>3. got = [i \in 1..(2 * n) |-> got[i]]
  <2>1. got = [i \in 1..Len(got) |-> got[i]]
    OBVIOUS
  <2> QED
    BY <2>1
<1>4. got = [i \in 1..(2 * n) |-> Piece(i)]
  BY <1>2, <1>3
<1> QED
  BY <1>1, <1>4

\* A peer sees a FIN of an undisturbed connection only behind everything the
\* other one sent, and after that one stopped sending.
THEOREM FinFollowsTheData == Spec => []FinComesLast
<1>1. SInv /\ FInv => FinComesLast
  <2> SUFFICES ASSUME SInv, FInv, Undisturbed
               PROVE  /\ service.eof => user.fin # "no" /\ service.got = Sent(user.sent)
                      /\ user.eof => service.fin # "no" /\ user.got = Sent(service.sent)
    BY DEF FinComesLast
  <2>1. InTransit(service.got, up, upRead) /\ InTransit(user.got, down, downRead)
    BY DEF SInv, Upwards, Downwards
  <2>2. ASSUME service.eof PROVE user.fin # "no" /\ service.got = Sent(user.sent)
    <3>1. UpOver /\ Len(service.got) = 2 * upRead
      BY <2>2 DEF FInv, EndUp
    <3>2. service.got = Sent(upRead)
      BY <2>1, <3>1, GotIsSent, Values
    <3> QED
      BY <3>1, <3>2 DEF UpOver
  <2>3. ASSUME user.eof PROVE service.fin # "no" /\ user.got = Sent(service.sent)
    <3>1. DownOver /\ Len(user.got) = 2 * downRead
      BY <2>3 DEF FInv, EndDown, Undisturbed
    <3>2. user.got = Sent(downRead)
      BY <2>1, <3>1, GotIsSent, Values
    <3> QED
      BY <3>1, <3>2 DEF DownOver, Undisturbed
  <2> QED
    BY <2>2, <2>3
<1> QED
  BY BothInvariants, <1>1, PTL

-----------------------------------------------------------------------------
\* The connection implements Tunnel.

\* Both modules number the pieces alike.
LEMMA SamePiece ==
    ASSUME NEW k \in Nat \ {0}
    PROVE  T!Piece(k) = Piece(k)
<1>1. CASE k % 2 = 1
  BY <1>1 DEF T!Piece, Piece, Frame
<1>2. CASE k % 2 # 1
  BY <1>2 DEF T!Piece, Piece, Frame
<1> QED
  BY <1>1, <1>2

\* The piece at the head of a direction is the one the reader needs next.
LEMMA HeadIsNext ==
    ASSUME NEW got \in Seq(Items), NEW q \in Seq(Items), NEW n \in Nat, NEW m \in Nat,
           InTransit(got, q, n), n <= m, At(q, Pieces)
    PROVE  Len(got) < 2 * m /\ Head(q) = T!Piece(Len(got) + 1)
<1>1. q # <<>> /\ Head(q)[1] \in Pieces
  BY DEF At
<1>2. Head(q) = q[1] /\ 1 \in 1..Len(q)
  BY <1>1, TailItems
<1>3. q[1][1] \notin Leads
  BY <1>1, <1>2, Kinds
<1>4. Lead(q) = 0
  BY <1>3 DEF Lead
<1>5. q[1] = Piece(Len(got) + 1 - Lead(q)) /\ Len(got) + 1 - Lead(q) <= 2 * n
  BY <1>1, <1>2 DEF InTransit
<1>6. Len(got) \in Nat
  OBVIOUS
<1>7. Len(got) + 1 - Lead(q) = Len(got) + 1
  BY <1>4, <1>6
<1>8. Piece(Len(got) + 1 - Lead(q)) = Piece(Len(got) + 1)
  BY <1>7
<1>9. Len(got) + 1 <= 2 * n /\ Len(got) + 1 \in Nat \ {0}
  BY <1>5, <1>6, <1>7
<1>10. T!Piece(Len(got) + 1) = Piece(Len(got) + 1)
  BY <1>9, SamePiece
<1>11. Len(got) < 2 * m
  BY <1>6, <1>9
<1> QED
  BY <1>2, <1>5, <1>8, <1>10, <1>11

\* A step that the peers do not see breaks the tunnel, or nothing.
LEMMA UnseenStep ==
    ASSUME SInv, FInv, [Next]_vars, UNCHANGED peerVars
    PROVE  [T!Next]_(T!vars)
<1>1. Undisturbed' => Undisturbed
  BY ControlMoves
<1>2. Undisturbed \in BOOLEAN /\ Undisturbed' \in BOOLEAN
  BY DEF Undisturbed
<1>3. Undisturbed' = Undisturbed \/ (Undisturbed /\ Undisturbed' = FALSE)
  BY <1>1, <1>2
<1> QED
  BY <1>3 DEF T!Next, T!Breaks, T!vars, peerVars

\* A peer that acts.
LEMMA PeerStepMaps ==
    ASSUME SInv, FInv, UserStep \/ ServiceStep
    PROVE  [T!Next]_(T!vars)
<1>1. Undisturbed =
          /\ channel = "up" /\ conn # "cut" /\ result # "timeout"
          /\ user.fin # "broken" /\ service.fin # "broken"
  BY DEF Undisturbed
<1>2. UNCHANGED <<channel, conn, result>>
  BY DEF UserStep, ServiceStep, serverVars
<1>3. user \in PeerRecords /\ service \in PeerRecords
  BY PeersKeep
<1>4. Undisturbed \in BOOLEAN /\ Undisturbed' \in BOOLEAN
  BY DEF Undisturbed
<1>5. ASSUME NEW P \in PeerRecords, NEW Q, Q = [P EXCEPT !.sent = @ + 1]
      PROVE  Q.fin = P.fin
  BY <1>5 DEF PeerRecords
<1>6. ASSUME NEW P \in PeerRecords, NEW Q, NEW how, Q = [P EXCEPT !.fin = how]
      PROVE  Q.fin = how
  BY <1>6 DEF PeerRecords
<1>7. CASE UserStep
  <2>1. (Sends(user) \/ Stops(user)) /\ service' = service
    BY <1>7 DEF UserStep
  <2>2. CASE Sends(user)
    <3>1. T!Sends(user) /\ user'.fin = user.fin
      BY <1>3, <1>5, <2>2 DEF Sends, T!Sends
    <3>2. Undisturbed' = Undisturbed
      BY <1>2, <1>4, <2>1, <3>1 DEF Undisturbed
    <3> QED
      BY <2>1, <3>1, <3>2 DEF T!Next, T!PeerStep
  <2>3. CASE \E how \in {"half", "closed"} : T!Stops(user, how)
    <3>1. PICK how \in {"half", "closed"} : T!Stops(user, how)
      BY <2>3
    <3>2. user'.fin = how /\ user.fin # "broken"
      BY <1>3, <1>6, <3>1 DEF T!Stops
    <3>3. Undisturbed' = Undisturbed
      BY <1>2, <1>4, <2>1, <3>2 DEF Undisturbed
    <3> QED
      BY <2>1, <3>1, <3>3 DEF T!Next, T!PeerStep
  <2>4. CASE user.fin \in {"no", "half"} /\ user' = [user EXCEPT !.fin = "broken"]
    <3>1. user'.fin = "broken"
      BY <1>3, <1>6, <2>4
    <3>2. Undisturbed' = FALSE
      BY <3>1 DEF Undisturbed
    <3> QED
      BY <2>1, <2>4, <3>2 DEF T!Next, T!BreaksOff
  <2> QED
    BY <2>1, <2>2, <2>3, <2>4 DEF Stops, T!Stops
<1>8. CASE ServiceStep
  <2>1. (Sends(service) \/ Stops(service)) /\ user' = user
    BY <1>8 DEF ServiceStep
  <2>2. CASE Sends(service)
    <3>1. T!Sends(service) /\ service'.fin = service.fin
      BY <1>3, <1>5, <2>2 DEF Sends, T!Sends
    <3>2. Undisturbed' = Undisturbed
      BY <1>2, <1>4, <2>1, <3>1 DEF Undisturbed
    <3> QED
      BY <2>1, <3>1, <3>2 DEF T!Next, T!PeerStep
  <2>3. CASE \E how \in {"half", "closed"} : T!Stops(service, how)
    <3>1. PICK how \in {"half", "closed"} : T!Stops(service, how)
      BY <2>3
    <3>2. service'.fin = how /\ service.fin # "broken"
      BY <1>3, <1>6, <3>1 DEF T!Stops
    <3>3. Undisturbed' = Undisturbed
      BY <1>2, <1>4, <2>1, <3>2 DEF Undisturbed
    <3> QED
      BY <2>1, <3>1, <3>3 DEF T!Next, T!PeerStep
  <2>4. CASE service.fin \in {"no", "half"} /\ service' = [service EXCEPT !.fin = "broken"]
    <3>1. service'.fin = "broken"
      BY <1>3, <1>6, <2>4
    <3>2. Undisturbed' = FALSE
      BY <3>1 DEF Undisturbed
    <3> QED
      BY <2>1, <2>4, <3>2 DEF T!Next, T!BreaksOff
  <2> QED
    BY <2>1, <2>2, <2>3, <2>4 DEF Stops, T!Stops
<1> QED
  BY <1>7, <1>8

\* The two copies hand over the next piece.
LEMMA CopyMaps ==
    ASSUME SInv, FInv, DownCopies \/ CliUpCopies
    PROVE  [T!Next]_(T!vars)
<1>1. Undisturbed' = Undisturbed
  <2>1. UNCHANGED <<channel, conn, result>>
    BY DEF DownCopies, CliUpCopies, serverVars
  <2>2. user'.fin = user.fin /\ service'.fin = service.fin
    BY PeersKeep DEF DownCopies, CliUpCopies, Delivered, PeerRecords
  <2> QED
    BY <2>1, <2>2 DEF Undisturbed
<1>2. user.sent \in Nat /\ service.sent \in Nat
  BY Values
<1>3. CASE DownCopies
  <2>1. /\ srv = "copying" /\ At(down, Pieces) /\ user.fin \notin {"closed", "broken"}
        /\ user' = Delivered(user, Head(down)) /\ service' = service
    BY <1>3 DEF DownCopies, Deaf
  <2>2. ~user.eof
    BY <2>1 DEF FInv, Places
  <2>3. InTransit(user.got, down, downRead) /\ downRead <= service.sent
    BY DEF SInv, Downwards
  <2>4. Len(user.got) < 2 * service.sent /\ Head(down) = T!Piece(Len(user.got) + 1)
    BY <1>2, <2>1, <2>3, HeadIsNext, Values
  <2>5. user' = [user EXCEPT !.got = Append(@, T!Piece(Len(@) + 1))]
    BY <2>1, <2>4 DEF Delivered
  <2>6. T!Receives(user, service)
    BY <2>1, <2>2, <2>4, <2>5 DEF T!Receives, T!Listens
  <2> QED
    BY <1>1, <2>1, <2>6 DEF T!Next, T!PeerStep
<1>4. CASE CliUpCopies
  <2>1. /\ cliUp = "copying" /\ At(up, Pieces) /\ service.fin \notin {"closed", "broken"}
        /\ service' = Delivered(service, Head(up)) /\ user' = user
    BY <1>4 DEF CliUpCopies, Deaf
  <2>2. ~service.eof
    BY <2>1 DEF FInv, Places
  <2>3. InTransit(service.got, up, upRead) /\ upRead <= user.sent
    BY DEF SInv, Upwards
  <2>4. Len(service.got) < 2 * user.sent /\ Head(up) = T!Piece(Len(service.got) + 1)
    BY <1>2, <2>1, <2>3, HeadIsNext, Values
  <2>5. service' = [service EXCEPT !.got = Append(@, T!Piece(Len(@) + 1))]
    BY <2>1, <2>4 DEF Delivered
  <2>6. T!Receives(service, user)
    BY <2>1, <2>2, <2>4, <2>5 DEF T!Receives, T!Listens
  <2> QED
    BY <1>1, <2>1, <2>6 DEF T!Next, T!PeerStep
<1> QED
  BY <1>3, <1>4

\* The two ends: of an undisturbed connection only behind everything.
LEMMA EndMaps ==
    ASSUME SInv, FInv, DownEnds \/ CliUpEnds
    PROVE  [T!Next]_(T!vars)
<1>1. Undisturbed' = Undisturbed
  <2>1. UNCHANGED <<channel, conn, result>>
    BY DEF DownEnds, CliUpEnds, serverVars
  <2>2. user'.fin = user.fin /\ service'.fin = service.fin
    BY PeersKeep DEF DownEnds, CliUpEnds, PeerRecords
  <2> QED
    BY <2>1, <2>2 DEF Undisturbed
<1>2. user \in PeerRecords /\ service \in PeerRecords
  BY PeersKeep
<1>3. ASSUME NEW P \in PeerRecords, NEW b \in BOOLEAN
      PROVE  [P EXCEPT !.eof = @ \/ b] = IF b THEN [P EXCEPT !.eof = TRUE] ELSE P
  BY DEF PeerRecords
<1>4. CASE DownEnds
  <2>1. /\ srv = "copying" /\ service' = service
        /\ user' = [user EXCEPT !.eof = @ \/ ~(ConnGone \/ Deaf(user))]
    BY <1>4 DEF DownEnds
  <2>2. CASE ConnGone \/ Deaf(user)
    <3>1. user' = user
      BY <1>2, <1>3, <2>1, <2>2
    <3> QED
      BY <1>1, <2>1, <3>1 DEF T!vars
  <2>3. CASE ~ConnGone /\ ~Deaf(user)
    <3>1. user' = [user EXCEPT !.eof = TRUE]
      BY <1>2, <1>3, <2>1, <2>3
    <3>2. ~user.eof /\ user.fin \notin {"closed", "broken"}
      BY <2>1, <2>3 DEF FInv, Places, Deaf
    <3>3. Undisturbed => service.fin # "no" /\ Len(user.got) = 2 * service.sent
      <4> SUFFICES ASSUME Undisturbed
                   PROVE  service.fin # "no" /\ Len(user.got) = 2 * service.sent
        OBVIOUS
      <4>1. AnswerRead /\ Len(user.got) = 2 * downRead /\ channel = "up"
        BY <1>4, <2>3, DownEndsBehindData DEF Undisturbed
      <4>2. DownOver
        BY <4>1 DEF FInv, EndDown
      <4> QED
        BY <4>1, <4>2 DEF DownOver, Undisturbed
    <3>4. T!SeesEnd(user, service)
      BY <3>1, <3>2, <3>3 DEF T!SeesEnd, T!Listens
    <3> QED
      BY <1>1, <2>1, <3>4 DEF T!Next, T!PeerStep
  <2> QED
    BY <2>2, <2>3
<1>5. CASE CliUpEnds
  <2>1. /\ cliUp = "copying" /\ user' = user
        /\ service' = [service EXCEPT !.eof = @ \/ ~Deaf(service)]
    BY <1>5 DEF CliUpEnds
  <2>2. CASE Deaf(service)
    <3>1. service' = service
      BY <1>2, <1>3, <2>1, <2>2
    <3> QED
      BY <1>1, <2>1, <3>1 DEF T!vars
  <2>3. CASE ~Deaf(service)
    <3>1. service' = [service EXCEPT !.eof = TRUE]
      BY <1>2, <1>3, <2>1, <2>3
    <3>2. ~service.eof /\ service.fin \notin {"closed", "broken"}
      BY <2>1, <2>3 DEF FInv, Places, Deaf
    <3>3. Undisturbed => user.fin # "no" /\ Len(service.got) = 2 * user.sent
      BY <1>5, <2>3, CliUpEndsBehindData DEF UpOver
    <3>4. T!SeesEnd(service, user)
      BY <3>1, <3>2, <3>3 DEF T!SeesEnd, T!Listens
    <3> QED
      BY <1>1, <2>1, <3>4 DEF T!Next, T!PeerStep
  <2> QED
    BY <2>2, <2>3
<1> QED
  BY <1>4, <1>5

\* One tunnelled connection implements a pair of byte streams that may break:
\* every step of forward, handleStream, their copies and the channel is a step of
\* Tunnel or none, for streams of any length.
THEOREM ConnectionIsTunnel == Spec => TunnelSpec
<1>1. Init => T!Init
  BY DEF Init, NewPeer, T!Init, T!Fresh, Undisturbed
<1>2. SInv /\ FInv /\ [Next]_vars => [T!Next]_(T!vars)
  <2> SUFFICES ASSUME SInv, FInv, [Next]_vars PROVE [T!Next]_(T!vars)
    OBVIOUS
  <2>1. \/ UserStep \/ ServiceStep \/ DownCopies \/ CliUpCopies \/ DownEnds \/ CliUpEnds
        \/ UNCHANGED peerVars
    BY DEF Next, ForwardStep, UpStep, AcceptStep, HandlerStep, CliUpStep, vars, WriteHeader,
           AckFails, ReadAck, AwaitUp, CloseStream, Untrack, UpCopies, UpEnds, StopCuts,
           AcceptStream, AcceptFails, ServeChannelReturns, ReadHeader, NoHeader, DialFails,
           DialSucceeds, CliDownCopies, CliDownEnds, CliAwaitUp, CliCloses, ChannelDies
  <2> QED
    BY <2>1, PeerStepMaps, CopyMaps, EndMaps, UnseenStep
<1> QED
  BY <1>1, <1>2, BothInvariants, PTL DEF Spec, TunnelSpec, T!Spec
===============================================================================
