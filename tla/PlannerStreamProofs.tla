------------------------- MODULE PlannerStreamProofs -------------------------
(***************************************************************************)
(* Proofs about the planner's live updates, for every set of clients and   *)
(* streams: Broadcast sends on open channels only, and no wake-up is lost  *)
(* among however many writers, as long as no version overtakes another.    *)
(***************************************************************************)
EXTENDS PlannerStream, TLAPS

-----------------------------------------------------------------------------
(***************************************************************************)
(* Sends.                                                                  *)
(***************************************************************************)

OpenInv ==
  /\ registered \in [Streams -> BOOLEAN] /\ open \in [Streams -> BOOLEAN]
  /\ closed \in BOOLEAN
  /\ SendsToOpen

LEMMA OpenNext == OpenInv /\ [Next]_vars => OpenInv'
PROOF
<1> SUFFICES ASSUME OpenInv, [Next]_vars PROVE OpenInv'
  OBVIOUS
<1>1. ASSUME NEW i \in Streams, Subscribe(i)
      PROVE  OpenInv'
  BY <1>1 DEF Subscribe, hub, OpenInv, SendsToOpen
<1>2. ASSUME NEW i \in Streams, Return(i)
      PROVE  OpenInv'
  BY <1>2 DEF Return, hub, OpenInv, SendsToOpen
<1>3. CASE Close \/ Shutdown \/ Crash \/ Start
  BY <1>3 DEF Close, Shutdown, Crash, Gone, Start, hub, streams, OpenInv, SendsToOpen
<1>4. ASSUME \/ \E w \in Writers : Commit(w) \/ WriterStep(w)
             \/ \E i \in Streams : WriteHeader(i) \/ Forward(i)
             \/ \E c \in Clients : ClientStep(c) \/ Drop(c)
             \/ UNCHANGED vars
      PROVE  UNCHANGED <<registered, open, closed>>
  BY <1>4 DEF Commit, WriterStep, TakeVersion, Send, WriteHeader, Forward, ClientStep, Connect,
              Receive, ErrorEvent, Load, Drop, hub, streams, vars
<1>. QED  BY <1>1, <1>2, <1>3, <1>4 DEF Next, StreamStep, OpenInv, SendsToOpen

\* Broadcast never sends on a closed channel, however many streams there are and
\* whenever the process stops.
THEOREM OnlyOpenSends == Spec => []SendsToOpen
PROOF
<1>1. Init => OpenInv
  <2>1. Init => closed \in BOOLEAN
    BY Zenon DEF Init
  <2>2. Init => registered \in [Streams -> BOOLEAN] /\ open \in [Streams -> BOOLEAN] /\ SendsToOpen
    BY DEF Init, SendsToOpen
  <2>. QED  BY <2>1, <2>2 DEF OpenInv
<1>2. OpenInv => SendsToOpen
  BY DEF OpenInv
<1>. QED  BY <1>1, <1>2, OpenNext, PTL DEF Spec

-----------------------------------------------------------------------------
(***************************************************************************)
(* Wake-ups.                                                               *)
(***************************************************************************)

\* No writer is at work.
AllIdle == \A w \in Writers : wpc[w] = "idle"

\* The versions that can have been sent, when none was overtaken: those below
\* each one a writer still holds.
Sent == {x \in 0..version : \A w \in Writers : wpc[w] = "send" => x < wver[w]}

\* Writers hold different versions, all taken from the hub's counter.
WriterInv ==
  /\ committed \in Nat /\ version \in Nat
  /\ wpc \in [Writers -> {"idle", "version", "send"}] /\ wver \in [Writers -> Nat]
  /\ \A w \in Writers : wpc[w] = "send" => 0 < wver[w] /\ wver[w] <= version
  /\ \A w, x \in Writers : w # x /\ wpc[w] = "send" /\ wpc[x] = "send" => wver[w] # wver[x]

\* Every connection has a handler of its own, in the map once it has subscribed.
ConnInv ==
  /\ handler \in [Streams -> {"none", "accepted", "subscribed", "serving"}]
  /\ owner \in [Streams -> Clients \cup {"none"}]
  /\ conn \in [Clients -> Streams \cup {"none"}]
  /\ registered \in [Streams -> BOOLEAN] /\ open \in [Streams -> BOOLEAN]
  /\ \A i \in Streams : /\ registered[i] <=> handler[i] \in {"subscribed", "serving"}
                        /\ open[i] <=> registered[i]
  /\ \A c \in Clients : conn[c] # "none" => owner[conn[c]] = c /\ handler[conn[c]] # "none"

\* Versions reach a client in ascending order, each one above the last it has
\* seen; the open event comes first.
Ascending(s) == \A j, k \in 1..Len(s) : j < k => s[j] < s[k]

WireInv ==
  /\ ch \in [Streams -> Seq(Nat)] /\ wire \in [Clients -> Seq(Nat)]
  /\ last \in [Clients -> Nat] /\ seen \in [Clients -> Nat] /\ stale \in [Clients -> BOOLEAN]
  /\ \A i \in Streams : Len(ch[i]) <= 1 /\ (ch[i] # <<>> => ch[i][1] \in Sent)
  /\ \A c \in Clients :
       /\ last[c] \in Sent
       /\ conn[c] = "none" => wire[c] = <<>>
       /\ conn[c] # "none" /\ handler[conn[c]] # "serving" => wire[c] = <<>>
       /\ Ascending(wire[c])
       /\ \A k \in 1..Len(wire[c]) : wire[c][k] \in Sent /\ (wire[c][k] = Open \/ wire[c][k] > last[c])
       /\ conn[c] # "none" /\ registered[conn[c]] /\ ch[conn[c]] # <<>> =>
            /\ ch[conn[c]][1] > last[c]
            /\ \A k \in 1..Len(wire[c]) : ch[conn[c]][1] > wire[c][k]

\* A client that nothing is on its way to, from a writer or a stream, shows all.
WokenInv ==
  \A c \in Clients :
    /\ conn[c] # "none" /\ handler[conn[c]] = "serving"
    /\ ch[conn[c]] = <<>> /\ wire[c] = <<>> /\ ~stale[c]
    /\ AllIdle
    => seen[c] = committed

\* All of this, in the life of one process.
LiveInv == server = "up" /\ closed = FALSE /\ WriterInv /\ ConnInv /\ WireInv /\ WokenInv

WakeInv == stops \in Nat /\ overtaken \in BOOLEAN /\ (stops = 0 /\ ~overtaken => LiveInv)

LEMMA OpenSent ==
  ASSUME WriterInv
  PROVE  Open \in Sent /\ Sent \subseteq Nat
PROOF
  BY DEF WriterInv, Sent, Open

\* Steps of a writer up to the lock.
LEMMA WriterNext ==
  ASSUME LiveInv, NEW w \in Writers, Commit(w) \/ TakeVersion(w)
  PROVE  LiveInv'
PROOF
<1>1. WriterInv' /\ Sent \subseteq Sent' /\ ~AllIdle'
  <2>1. CASE Commit(w)
    <3>1. /\ committed' = committed + 1 /\ UNCHANGED <<version, wver>>
          /\ wpc[w] = "idle" /\ wpc' = [wpc EXCEPT ![w] = "version"]
      BY <2>1 DEF Commit, hub
    <3>. QED  BY <3>1 DEF LiveInv, WriterInv, AllIdle, Sent
  <2>2. CASE TakeVersion(w)
    <3>1. /\ wpc[w] = "version" /\ version' = version + 1 /\ UNCHANGED committed
          /\ wpc' = [wpc EXCEPT ![w] = "send"] /\ wver' = [wver EXCEPT ![w] = version + 1]
      BY <2>2 DEF TakeVersion
    <3>2. /\ version \in Nat /\ wpc'[w] = "send" /\ wver'[w] = version + 1
          /\ \A x \in Writers \ {w} : wpc'[x] = wpc[x] /\ wver'[x] = wver[x]
          /\ \A x \in Writers : wpc[x] = "send" => wver[x] <= version /\ wver[x] \in Nat
      BY <3>1 DEF LiveInv, WriterInv
    <3>3. WriterInv'
      BY <3>1, <3>2 DEF LiveInv, WriterInv
    <3>4. Sent \subseteq Sent'
      BY <3>1, <3>2 DEF Sent
    <3>. QED  BY <3>2, <3>3, <3>4 DEF AllIdle
  <2>. QED  BY <2>1, <2>2
<1>2. UNCHANGED <<server, closed, streams, clients>>
  BY DEF Commit, TakeVersion, hub
<1>3. ConnInv' /\ WokenInv'
  BY <1>1, <1>2 DEF LiveInv, ConnInv, WokenInv, streams, clients
<1>4. WireInv'
  BY <1>1, <1>2 DEF LiveInv, WireInv, streams, clients
<1>. QED  BY <1>1, <1>2, <1>3, <1>4 DEF LiveInv

\* Broadcast: a version above all that are on their way.
LEMMA SendNext ==
  ASSUME LiveInv, NEW w \in Writers, Send(w), ~overtaken'
  PROVE  LiveInv'
PROOF
<1> DEFINE v == wver[w]
<1>1. /\ wpc[w] = "send" /\ wpc' = [wpc EXCEPT ![w] = "idle"]
      /\ wver' = [wver EXCEPT ![w] = 0] /\ ch' = Deliver(v)
      /\ UNCHANGED <<server, committed, version, closed, handler, owner, registered, open, clients>>
      /\ \A x \in Writers : ~(wpc[x] = "send" /\ wver[x] < v)
  BY DEF Send, hub
<1>2. /\ v \in Nat /\ 0 < v /\ v <= version /\ version \in Nat /\ wpc'[w] = "idle"
      /\ \A x \in Writers \ {w} : wpc'[x] = wpc[x] /\ wver'[x] = wver[x]
      /\ \A x \in Writers \ {w} : wpc[x] = "send" => wver[x] \in Nat /\ wver[x] # v
  BY <1>1 DEF LiveInv, WriterInv
<1>3. /\ WriterInv' /\ Sent \subseteq Sent' /\ v \in Sent'
      /\ \A x \in Sent : x \in Nat /\ x < v
  <2>1. WriterInv'
    BY <1>1, <1>2 DEF LiveInv, WriterInv
  <2>2. \A x \in Writers \ {w} : wpc[x] = "send" => v < wver[x]
    BY <1>1, <1>2
  <2>3. \A x \in Sent : x \in Nat /\ x < v
    BY <1>1, <1>2 DEF Sent
  <2>. QED  BY <1>1, <1>2, <2>1, <2>2, <2>3 DEF Sent
<1> HIDE DEF v
<1>4. ConnInv'
  BY <1>1 DEF LiveInv, ConnInv, clients
<1>5. \A i \in Streams : ch'[i] = IF registered[i] /\ ch[i] = <<>> THEN <<v>> ELSE ch[i]
  BY <1>1, <1>2 DEF Deliver
<1>6. ch' \in [Streams -> Seq(Nat)]
  BY <1>1, <1>2 DEF Deliver, LiveInv, WireInv
<1>7. \A i \in Streams : Len(ch'[i]) <= 1 /\ (ch'[i] # <<>> => ch'[i][1] \in Sent')
  <2> SUFFICES ASSUME NEW i \in Streams
               PROVE  Len(ch'[i]) <= 1 /\ (ch'[i] # <<>> => ch'[i][1] \in Sent')
    OBVIOUS
  <2>1. /\ ch[i] \in Seq(Nat) /\ Len(ch[i]) <= 1 /\ (ch[i] # <<>> => ch[i][1] \in Sent)
    BY DEF LiveInv, WireInv
  <2>2. CASE registered[i] /\ ch[i] = <<>>
    <3>1. ch'[i] = <<v>>
      BY <1>5, <2>2
    <3>2. Len(ch'[i]) = 1 /\ ch'[i][1] = v
      BY <3>1
    <3>. QED  BY <1>3, <3>2
  <2>3. CASE ~(registered[i] /\ ch[i] = <<>>)
    BY <1>3, <1>5, <2>1, <2>3
  <2>. QED  BY <2>2, <2>3
<1>8. ASSUME NEW c \in Clients, conn[c] # "none", registered[conn[c]]
      PROVE  /\ ch'[conn[c]] # <<>> /\ ch'[conn[c]][1] > last[c]
             /\ \A k \in 1..Len(wire[c]) : ch'[conn[c]][1] > wire[c][k]
  <2>1. /\ conn[c] \in Streams /\ last[c] \in Sent /\ wire[c] \in Seq(Nat)
        /\ \A k \in 1..Len(wire[c]) : wire[c][k] \in Sent
    BY <1>8 DEF LiveInv, ConnInv, WireInv
  <2>2. CASE ch[conn[c]] = <<>>
    <3>1. ch'[conn[c]] = <<v>>
      BY <1>5, <1>8, <2>1, <2>2
    <3>2. ch'[conn[c]] # <<>> /\ ch'[conn[c]][1] = v
      BY <3>1
    <3>. QED  BY <1>2, <1>3, <2>1, <3>2
  <2>3. CASE ch[conn[c]] # <<>>
    <3>1. ch'[conn[c]] = ch[conn[c]]
      BY <1>5, <2>1, <2>3
    <3>. QED  BY <1>8, <2>3, <3>1 DEF LiveInv, WireInv
  <2>. QED  BY <2>2, <2>3
<1>9. \A c \in Clients : /\ last[c] \in Sent'
                         /\ \A k \in 1..Len(wire[c]) : wire[c][k] \in Sent'
  <2>1. ASSUME NEW c \in Clients
        PROVE  /\ last[c] \in Sent /\ wire[c] \in Seq(Nat)
               /\ \A k \in 1..Len(wire[c]) : wire[c][k] \in Sent
    BY DEF LiveInv, WireInv
  <2>. QED  BY <1>3, <2>1
<1>10. WireInv'
  BY <1>1, <1>3, <1>6, <1>7, <1>8, <1>9 DEF LiveInv, WireInv, clients
<1>11. WokenInv'
  BY <1>1, <1>8 DEF LiveInv, ConnInv, WokenInv, clients
<1>. QED  BY <1>1, <1>3, <1>4, <1>10, <1>11 DEF LiveInv

\* Steps of a handler.
LEMMA SubscribeNext ==
  ASSUME LiveInv, NEW i \in Streams, Subscribe(i)
  PROVE  LiveInv'
PROOF
<1>1. /\ handler[i] = "accepted" /\ handler' = [handler EXCEPT ![i] = "subscribed"]
      /\ registered' = [registered EXCEPT ![i] = TRUE] /\ open' = [open EXCEPT ![i] = TRUE]
      /\ ch' = [ch EXCEPT ![i] = <<>>]
      /\ UNCHANGED <<server, committed, version, closed, wpc, wver, owner, clients>>
  BY DEF LiveInv, Subscribe, hub, writers
<1>2. WriterInv' /\ Sent' = Sent /\ (AllIdle' <=> AllIdle)
  BY <1>1 DEF LiveInv, WriterInv, Sent, AllIdle
<1>3. ConnInv'
  BY <1>1 DEF LiveInv, ConnInv, clients
<1>4. /\ ch' \in [Streams -> Seq(Nat)] /\ ch'[i] = <<>>
      /\ \A j \in Streams \ {i} : ch'[j] = ch[j] /\ handler'[j] = handler[j] /\ registered'[j] = registered[j]
      /\ handler'[i] = "subscribed"
  BY <1>1 DEF LiveInv, ConnInv, WireInv
<1>5. \A j \in Streams : Len(ch'[j]) <= 1 /\ (ch'[j] # <<>> => ch'[j][1] \in Sent)
  BY <1>4 DEF LiveInv, WireInv
<1>6. \A c \in Clients : conn[c] # "none" /\ handler'[conn[c]] # "serving" => wire[c] = <<>>
  BY <1>1, <1>4 DEF LiveInv, ConnInv, WireInv
<1>7. ASSUME NEW c \in Clients, conn[c] # "none", registered'[conn[c]], ch'[conn[c]] # <<>>
      PROVE  /\ ch'[conn[c]][1] > last[c]
             /\ \A k \in 1..Len(wire[c]) : ch'[conn[c]][1] > wire[c][k]
  BY <1>4, <1>7, ZenonT(60) DEF LiveInv, ConnInv, WireInv
<1>8. WireInv'
  BY <1>1, <1>2, <1>4, <1>5, <1>6, <1>7 DEF LiveInv, WireInv, clients
<1>9. WokenInv'
  BY <1>1, <1>2, <1>4 DEF LiveInv, ConnInv, WokenInv, clients
<1>. QED  BY <1>1, <1>2, <1>3, <1>8, <1>9 DEF LiveInv

\* A handler writes to the connection it serves, and to no other.
LEMMA WriteOne ==
  ASSUME LiveInv, NEW i \in Streams, NEW e \in Nat, Write(i, e)
  PROVE  /\ wire' \in [Clients -> Seq(Nat)]
         /\ \A c \in Clients : /\ conn[c] = i => wire'[c] = Append(wire[c], e)
                               /\ conn[c] # i => wire'[c] = wire[c]
PROOF
  BY DEF Write, LiveInv, WireInv

LEMMA HeaderNext ==
  ASSUME LiveInv, NEW i \in Streams, WriteHeader(i)
  PROVE  LiveInv'
PROOF
<1>1. /\ handler[i] = "subscribed" /\ handler' = [handler EXCEPT ![i] = "serving"] /\ Write(i, Open)
      /\ UNCHANGED <<server, committed, version, closed, wpc, wver, owner, registered, ch, open,
                     conn, last, stale, seen>>
  BY DEF WriteHeader, hub, writers
<1>2. WriterInv' /\ Sent' = Sent /\ (AllIdle' <=> AllIdle)
  BY <1>1 DEF LiveInv, WriterInv, Sent, AllIdle
<1>3. ConnInv'
  BY <1>1 DEF LiveInv, ConnInv
<1>4. /\ wire' \in [Clients -> Seq(Nat)]
      /\ \A c \in Clients : /\ conn[c] = i => wire'[c] = <<Open>>
                            /\ conn[c] # i => wire'[c] = wire[c]
  <2>1. /\ wire' \in [Clients -> Seq(Nat)]
        /\ \A c \in Clients : /\ conn[c] = i => wire'[c] = Append(wire[c], Open)
                              /\ conn[c] # i => wire'[c] = wire[c]
    BY <1>1, WriteOne DEF Open
  <2>2. \A c \in Clients : conn[c] = i => wire[c] = <<>>
    BY <1>1, StreamsAssumption DEF LiveInv, WireInv
  <2>. QED  BY <2>1, <2>2
<1>5. ASSUME NEW c \in Clients
      PROVE  /\ Ascending(wire'[c])
             /\ \A k \in 1..Len(wire'[c]) : wire'[c][k] \in Sent /\ (wire'[c][k] = Open \/ wire'[c][k] > last[c])
             /\ conn[c] # "none" /\ registered[conn[c]] /\ ch[conn[c]] # <<>> =>
                  \A k \in 1..Len(wire'[c]) : ch[conn[c]][1] > wire'[c][k]
             /\ conn[c] = i => wire'[c] # <<>>
  <2>1. CASE conn[c] = i
    <3>0. wire'[c] = <<Open>>
      BY <1>4, <2>1
    <3>1. Len(wire'[c]) = 1 /\ wire'[c][1] = Open /\ wire'[c] # <<>>
      BY <3>0
    <3>2. Open \in Sent
      BY OpenSent DEF LiveInv
    <3>3. registered[conn[c]] /\ ch[conn[c]] # <<>> => ch[conn[c]][1] > last[c] /\ last[c] \in Nat /\ ch[conn[c]][1] \in Nat
      BY <2>1, StreamsAssumption DEF LiveInv, WireInv
    <3>. QED  BY <3>1, <3>2, <3>3 DEF Ascending, Open
  <2>2. CASE conn[c] # i
    BY <1>4, <2>2 DEF LiveInv, WireInv
  <2>. QED  BY <2>1, <2>2
<1>6. \A c \in Clients : /\ conn[c] = "none" => wire'[c] = <<>>
                         /\ conn[c] # "none" /\ handler'[conn[c]] # "serving" => wire'[c] = <<>>
  BY <1>1, <1>4, StreamsAssumption DEF LiveInv, ConnInv, WireInv
<1>7. WireInv'
  BY <1>1, <1>2, <1>4, <1>5, <1>6 DEF LiveInv, WireInv
<1>8. WokenInv'
  BY <1>1, <1>2, <1>4, <1>5 DEF LiveInv, ConnInv, WokenInv
<1>. QED  BY <1>1, <1>2, <1>3, <1>7, <1>8 DEF LiveInv

\* Appending the larger keeps a sequence ascending.
LEMMA AppendAscends ==
  ASSUME NEW s \in Seq(Nat), NEW e \in Nat, Ascending(s), \A k \in 1..Len(s) : e > s[k],
         NEW q, q = Append(s, e)
  PROVE  /\ Ascending(q) /\ q # <<>>
         /\ \A k \in 1..Len(q) : q[k] = e \/ (k \in 1..Len(s) /\ q[k] = s[k])
PROOF
<1>1. /\ q \in Seq(Nat) /\ Len(q) = Len(s) + 1 /\ q[Len(s) + 1] = e
      /\ \A k \in 1..Len(s) : q[k] = s[k]
  OBVIOUS
<1>2. Len(s) \in Nat /\ q # <<>>
  BY <1>1
<1>3. \A k \in 1..Len(q) : k \in 1..Len(s) \/ k = Len(s) + 1
  BY <1>1, <1>2
<1>4. \A k \in 1..Len(q) : q[k] = e \/ (k \in 1..Len(s) /\ q[k] = s[k])
  BY <1>1, <1>3
<1>5. Ascending(q)
  <2> SUFFICES ASSUME NEW j \in 1..Len(q), NEW k \in 1..Len(q), j < k
               PROVE  q[j] < q[k]
    BY DEF Ascending
  <2>1. j \in 1..Len(s)
    BY <1>1, <1>2
  <2>2. CASE k \in 1..Len(s)
    BY <1>1, <2>1, <2>2 DEF Ascending
  <2>3. CASE k = Len(s) + 1
    BY <1>1, <2>1, <2>3
  <2>. QED  BY <1>3, <2>2, <2>3
<1>. QED  BY <1>2, <1>4, <1>5

LEMMA ForwardNext ==
  ASSUME LiveInv, NEW i \in Streams, Forward(i)
  PROVE  LiveInv'
PROOF
<1>1. /\ handler[i] = "serving" /\ ch[i] # <<>> /\ Write(i, Head(ch[i])) /\ ch' = [ch EXCEPT ![i] = Tail(ch[i])]
      /\ UNCHANGED <<server, committed, version, closed, wpc, wver, handler, owner, registered, open,
                     conn, last, stale, seen>>
  BY DEF Forward, hub, writers
<1>2. WriterInv' /\ Sent' = Sent /\ (AllIdle' <=> AllIdle)
  BY <1>1 DEF LiveInv, WriterInv, Sent, AllIdle
<1>3. ConnInv'
  BY <1>1 DEF LiveInv, ConnInv
<1>4. PICK e \in Nat : e = ch[i][1] /\ e = Head(ch[i]) /\ e \in Sent /\ Tail(ch[i]) = <<>>
  <2>1. ch[i] \in Seq(Nat) /\ Len(ch[i]) <= 1 /\ ch[i][1] \in Sent
    BY <1>1 DEF LiveInv, WireInv
  <2>. QED  BY <1>1, <2>1
<1>5. /\ wire' \in [Clients -> Seq(Nat)]
      /\ \A c \in Clients : /\ conn[c] = i => wire'[c] = Append(wire[c], e)
                            /\ conn[c] # i => wire'[c] = wire[c]
  BY <1>1, <1>4, WriteOne
<1>6. ch' \in [Streams -> Seq(Nat)] /\ ch'[i] = <<>> /\ \A j \in Streams \ {i} : ch'[j] = ch[j]
  BY <1>1, <1>4 DEF LiveInv, WireInv
<1>7. ASSUME NEW c \in Clients
      PROVE  /\ Ascending(wire'[c])
             /\ \A k \in 1..Len(wire'[c]) : wire'[c][k] \in Sent /\ (wire'[c][k] = Open \/ wire'[c][k] > last[c])
             /\ conn[c] # "none" /\ registered[conn[c]] /\ ch'[conn[c]] # <<>> =>
                  ch'[conn[c]][1] > last[c] /\ \A k \in 1..Len(wire'[c]) : ch'[conn[c]][1] > wire'[c][k]
             /\ conn[c] = i => wire'[c] # <<>>
  <2>1. CASE conn[c] = i
    <3>1. registered[i]
      BY <1>1 DEF LiveInv, ConnInv
    <3>2. /\ wire[c] \in Seq(Nat) /\ Ascending(wire[c]) /\ e > last[c] /\ \A k \in 1..Len(wire[c]) : e > wire[c][k]
          /\ \A k \in 1..Len(wire[c]) : wire[c][k] \in Sent /\ (wire[c][k] = Open \/ wire[c][k] > last[c])
      BY <1>1, <1>4, <2>1, <3>1, StreamsAssumption DEF LiveInv, WireInv
    <3>3. /\ Ascending(wire'[c]) /\ wire'[c] # <<>>
          /\ \A k \in 1..Len(wire'[c]) : wire'[c][k] = e \/ (k \in 1..Len(wire[c]) /\ wire'[c][k] = wire[c][k])
      <4>1. wire'[c] = Append(wire[c], e)
        BY <1>5, <2>1
      <4>2. e \in Nat
        BY <1>4
      <4>3. wire[c] \in Seq(Nat) /\ Ascending(wire[c])
        BY <3>2
      <4>4. \A k \in 1..Len(wire[c]) : e > wire[c][k]
        BY <3>2
      <4>5. ASSUME NEW s, s = wire[c], NEW q, q = wire'[c]
            PROVE  /\ Ascending(q) /\ q # <<>>
                   /\ \A k \in 1..Len(q) : q[k] = e \/ (k \in 1..Len(s) /\ q[k] = s[k])
        <5>1. s \in Seq(Nat) /\ Ascending(s) /\ q = Append(s, e)
          BY <4>1, <4>3, <4>5
        <5>2. \A k \in 1..Len(s) : e > s[k]
          BY <4>4, <4>5
        <5>. QED  BY <4>2, <5>1, <5>2, AppendAscends, ZenonT(40)
      <4>. QED  BY <4>5
    <3>4. \A k \in 1..Len(wire'[c]) : wire'[c][k] \in Sent /\ (wire'[c][k] = Open \/ wire'[c][k] > last[c])
      BY <1>4, <3>2, <3>3
    <3>. QED  BY <1>6, <2>1, <3>3, <3>4
  <2>2. CASE conn[c] # i
    BY <1>5, <1>6, <2>2, SMTT(40) DEF LiveInv, ConnInv, WireInv
  <2>. QED  BY <2>1, <2>2
<1>8. \A j \in Streams : Len(ch'[j]) <= 1 /\ (ch'[j] # <<>> => ch'[j][1] \in Sent)
  BY <1>6 DEF LiveInv, WireInv
<1>9. \A c \in Clients : /\ conn[c] = "none" => wire'[c] = <<>>
                         /\ conn[c] # "none" /\ handler[conn[c]] # "serving" => wire'[c] = <<>>
  BY <1>1, <1>5, StreamsAssumption DEF LiveInv, WireInv
<1>10. WireInv'
  <2>1. /\ last \in [Clients -> Nat] /\ seen \in [Clients -> Nat] /\ stale \in [Clients -> BOOLEAN]
        /\ \A c \in Clients : last[c] \in Sent
    BY DEF LiveInv, WireInv
  <2>. QED  BY <1>1, <1>2, <1>5, <1>6, <1>7, <1>8, <1>9, <2>1, Zenon DEF WireInv
<1>11. WokenInv'
  <2>1. \A c \in Clients : conn[c] # i => wire'[c] = wire[c] /\ (conn[c] # "none" => ch'[conn[c]] = ch[conn[c]])
    BY <1>5, <1>6 DEF LiveInv, ConnInv
  <2>2. \A c \in Clients : conn[c] = i => wire'[c] # <<>>
    BY <1>7
  <2>. QED  BY <1>1, <1>2, <2>1, <2>2, Zenon DEF LiveInv, WokenInv
<1>. QED  BY <1>1, <1>2, <1>3, <1>10, <1>11 DEF LiveInv

LEMMA ReturnNext ==
  ASSUME LiveInv, NEW i \in Streams, Return(i)
  PROVE  LiveInv'
PROOF
<1>1. /\ handler[i] = "serving" /\ (CtxDone(i) \/ ~open[i])
      /\ handler' = [handler EXCEPT ![i] = "none"]
      /\ registered' = [registered EXCEPT ![i] = FALSE] /\ open' = [open EXCEPT ![i] = FALSE]
      /\ ch' = [ch EXCEPT ![i] = <<>>]
      /\ UNCHANGED <<server, committed, version, closed, wpc, wver, owner, clients>>
  BY DEF Return, hub, writers
<1>2. WriterInv' /\ Sent' = Sent /\ (AllIdle' <=> AllIdle)
  BY <1>1 DEF LiveInv, WriterInv, Sent, AllIdle
<1>3. \A c \in Clients : conn[c] # i
  <2>1. open[i] /\ conn[owner[i]] # i
    BY <1>1 DEF LiveInv, ConnInv, CtxDone
  <2>. QED  BY <2>1, StreamsAssumption DEF LiveInv, ConnInv
<1>4. ConnInv'
  BY <1>1, <1>3 DEF LiveInv, ConnInv, clients
<1>5. /\ ch' \in [Streams -> Seq(Nat)] /\ ch'[i] = <<>>
      /\ \A j \in Streams \ {i} : ch'[j] = ch[j] /\ handler'[j] = handler[j] /\ registered'[j] = registered[j]
  BY <1>1 DEF LiveInv, ConnInv, WireInv
<1>6. \A j \in Streams : Len(ch'[j]) <= 1 /\ (ch'[j] # <<>> => ch'[j][1] \in Sent)
  <2>1. \A j \in Streams : Len(ch[j]) <= 1 /\ (ch[j] # <<>> => ch[j][1] \in Sent)
    BY DEF LiveInv, WireInv
  <2>2. Len(ch'[i]) = 0
    BY <1>5
  <2>. QED  BY <1>5, <2>1, <2>2
<1>7. \A c \in Clients : conn[c] # "none" =>
        ch'[conn[c]] = ch[conn[c]] /\ handler'[conn[c]] = handler[conn[c]] /\ registered'[conn[c]] = registered[conn[c]]
  BY <1>3, <1>5 DEF LiveInv, ConnInv
<1>8. WireInv'
  <2>1. WireInv
    BY DEF LiveInv
  <2>2. \A c \in Clients :
          /\ conn[c] # "none" /\ handler'[conn[c]] # "serving" => wire[c] = <<>>
          /\ conn[c] # "none" /\ registered'[conn[c]] /\ ch'[conn[c]] # <<>> =>
               /\ ch'[conn[c]][1] > last[c]
               /\ \A k \in 1..Len(wire[c]) : ch'[conn[c]][1] > wire[c][k]
    BY <1>7, <2>1 DEF WireInv
  <2>3. UNCHANGED <<committed, conn, wire, last, stale, seen>>
    BY <1>1 DEF clients
  <2>. QED  BY <1>2, <1>5, <1>6, <2>1, <2>2, <2>3 DEF WireInv
<1>9. WokenInv'
  BY <1>1, <1>2, <1>7 DEF LiveInv, WokenInv, clients
<1>. QED  BY <1>1, <1>2, <1>4, <1>8, <1>9 DEF LiveInv

\* Steps of a client.
LEMMA ConnectNext ==
  ASSUME LiveInv, NEW c \in Clients, Connect(c)
  PROVE  LiveInv'
PROOF
<1>1. PICK i \in Streams : /\ handler[i] = "none" /\ \A d \in Clients : conn[d] # i
                           /\ handler' = [handler EXCEPT ![i] = "accepted"]
                           /\ owner' = [owner EXCEPT ![i] = c] /\ conn' = [conn EXCEPT ![c] = i]
  BY DEF Connect
<1>2. /\ conn[c] = "none"
      /\ UNCHANGED <<server, committed, version, closed, wpc, wver, registered, ch, open, wire, last, stale, seen>>
  BY DEF Connect, hub, writers
<1>3. WriterInv' /\ Sent' = Sent /\ (AllIdle' <=> AllIdle)
  BY <1>2 DEF LiveInv, WriterInv, Sent, AllIdle
<1>4. ConnInv'
  BY <1>1, <1>2 DEF LiveInv, ConnInv
<1>5. /\ conn'[c] = i /\ handler'[i] = "accepted" /\ ~registered[i] /\ wire[c] = <<>>
      /\ \A d \in Clients \ {c} : conn'[d] = conn[d]
      /\ \A j \in Streams \ {i} : handler'[j] = handler[j]
  BY <1>1, <1>2 DEF LiveInv, ConnInv, WireInv
<1>6. WireInv'
  BY <1>1, <1>2, <1>3, <1>5 DEF LiveInv, ConnInv, WireInv
<1>7. WokenInv'
  BY <1>1, <1>2, <1>3, <1>5 DEF LiveInv, ConnInv, WokenInv
<1>. QED  BY <1>2, <1>3, <1>4, <1>6, <1>7 DEF LiveInv

\* What is left of an ascending sequence without its head.
LEMMA TailAscends ==
  ASSUME NEW s \in Seq(Nat), s # <<>>, Ascending(s), NEW q, q = Tail(s)
  PROVE  /\ Ascending(q) /\ q \in Seq(Nat) /\ Head(s) = s[1] /\ 1 \in 1..Len(s)
         /\ \A k \in 1..Len(q) : k + 1 \in 1..Len(s) /\ q[k] = s[k + 1] /\ q[k] > Head(s)
PROOF
<1>1. /\ Len(s) \in Nat /\ Len(s) > 0 /\ q \in Seq(Nat) /\ Len(q) = Len(s) - 1 /\ Head(s) = s[1]
      /\ \A k \in 1..Len(q) : q[k] = s[k + 1]
  OBVIOUS
<1>2. 1 \in 1..Len(s) /\ \A k \in 1..Len(q) : k + 1 \in 1..Len(s) /\ 1 < k + 1
  BY <1>1
<1>3. \A k \in 1..Len(q) : q[k] > Head(s)
  <2> SUFFICES ASSUME NEW k \in 1..Len(q) PROVE q[k] > Head(s)
    OBVIOUS
  <2>1. s[1] < s[k + 1] /\ q[k] = s[k + 1] /\ s[1] \in Nat /\ s[k + 1] \in Nat
    BY <1>1, <1>2 DEF Ascending
  <2>. QED  BY <1>1, <2>1
<1>4. Ascending(q)
  <2> SUFFICES ASSUME NEW j \in 1..Len(q), NEW k \in 1..Len(q), j < k
               PROVE  q[j] < q[k]
    BY DEF Ascending
  <2>1. j + 1 < k + 1
    OBVIOUS
  <2>. QED  BY <1>1, <1>2, <2>1 DEF Ascending
<1>. QED  BY <1>1, <1>2, <1>3, <1>4

LEMMA ReceiveNext ==
  ASSUME LiveInv, NEW c \in Clients, Receive(c)
  PROVE  LiveInv'
PROOF
<1> DEFINE s == wire[c]
           e == Head(s)
<1>1. /\ s # <<>> /\ wire' = [wire EXCEPT ![c] = Tail(s)]
      /\ UNCHANGED <<server, committed, version, closed, wpc, wver, handler, owner, registered, ch, open, conn, seen>>
  BY DEF Receive, hub, writers, streams
<1>2. WriterInv' /\ Sent' = Sent /\ (AllIdle' <=> AllIdle)
  BY <1>1 DEF LiveInv, WriterInv, Sent, AllIdle
<1>3. ConnInv'
  BY <1>1 DEF LiveInv, ConnInv
<1>4. s \in Seq(Nat) /\ Ascending(s) /\ wire \in [Clients -> Seq(Nat)] /\ last \in [Clients -> Nat] /\ stale \in [Clients -> BOOLEAN]
  BY DEF LiveInv, WireInv
<1>5. /\ Ascending(Tail(s)) /\ Tail(s) \in Seq(Nat) /\ e = s[1] /\ 1 \in 1..Len(s)
      /\ \A k \in 1..Len(Tail(s)) : k + 1 \in 1..Len(s) /\ Tail(s)[k] = s[k + 1] /\ Tail(s)[k] > e
  BY <1>1, <1>4, TailAscends
<1>6. /\ wire' \in [Clients -> Seq(Nat)] /\ wire'[c] = Tail(s) /\ \A d \in Clients \ {c} : wire'[d] = wire[d]
  BY <1>1, <1>4, <1>5
<1>7. e \in Nat /\ e \in Sent /\ (e = Open \/ e > last[c])
  BY <1>4, <1>5 DEF LiveInv, WireInv
<1>8. /\ last' \in [Clients -> Nat] /\ stale' \in [Clients -> BOOLEAN]
      /\ \A d \in Clients \ {c} : last'[d] = last[d] /\ stale'[d] = stale[d]
      /\ stale'[c] = TRUE /\ (last'[c] = e \/ (last'[c] = last[c] /\ e = Open))
  <2>1. CASE e = Open /\ stale' = [stale EXCEPT ![c] = TRUE] /\ UNCHANGED last
    BY <1>4, <2>1
  <2>2. CASE last' = [last EXCEPT ![c] = e] /\ stale' = [stale EXCEPT ![c] = TRUE]
    BY <1>4, <1>7, <2>2
  <2>3. ~(e # Open /\ e <= last[c])
    BY <1>4, <1>7
  <2>. QED  BY <2>1, <2>2, <2>3 DEF Receive
<1> HIDE DEF e, s
<1>9. conn[c] # "none" /\ (conn[c] # "none" => handler[conn[c]] = "serving")
  BY <1>1 DEF LiveInv, WireInv, s
<1>10. last'[c] \in Sent /\ \A k \in 1..Len(Tail(s)) : Tail(s)[k] \in Sent /\ (Tail(s)[k] = Open \/ Tail(s)[k] > last'[c])
  BY <1>4, <1>5, <1>7, <1>8 DEF LiveInv, WireInv, s
<1>11. registered[conn[c]] /\ ch[conn[c]] # <<>> =>
         ch[conn[c]][1] > last'[c] /\ \A k \in 1..Len(Tail(s)) : ch[conn[c]][1] > Tail(s)[k]
  <2>1. registered[conn[c]] /\ ch[conn[c]] # <<>> =>
          ch[conn[c]][1] > last[c] /\ \A k \in 1..Len(s) : ch[conn[c]][1] > s[k]
    BY <1>9 DEF LiveInv, WireInv, s
  <2>. QED  BY <1>5, <1>8, <2>1
<1>12. \A d \in Clients :
       /\ last'[d] \in Sent
       /\ conn[d] = "none" => wire'[d] = <<>>
       /\ conn[d] # "none" /\ handler[conn[d]] # "serving" => wire'[d] = <<>>
       /\ Ascending(wire'[d])
       /\ \A k \in 1..Len(wire'[d]) : wire'[d][k] \in Sent /\ (wire'[d][k] = Open \/ wire'[d][k] > last'[d])
       /\ conn[d] # "none" /\ registered[conn[d]] /\ ch[conn[d]] # <<>> =>
            /\ ch[conn[d]][1] > last'[d]
            /\ \A k \in 1..Len(wire'[d]) : ch[conn[d]][1] > wire'[d][k]
  <2> SUFFICES ASSUME NEW d \in Clients
               PROVE  /\ last'[d] \in Sent
                      /\ conn[d] = "none" => wire'[d] = <<>>
                      /\ conn[d] # "none" /\ handler[conn[d]] # "serving" => wire'[d] = <<>>
                      /\ Ascending(wire'[d])
                      /\ \A k \in 1..Len(wire'[d]) : wire'[d][k] \in Sent /\ (wire'[d][k] = Open \/ wire'[d][k] > last'[d])
                      /\ conn[d] # "none" /\ registered[conn[d]] /\ ch[conn[d]] # <<>> =>
                           /\ ch[conn[d]][1] > last'[d]
                           /\ \A k \in 1..Len(wire'[d]) : ch[conn[d]][1] > wire'[d][k]
    OBVIOUS
  <2>1. CASE d = c
    BY <1>5, <1>6, <1>9, <1>10, <1>11, <2>1 DEF LiveInv, WireInv
  <2>2. CASE d # c
    BY <1>6, <1>8, <2>2 DEF LiveInv, WireInv
  <2>. QED  BY <2>1, <2>2
<1>13. WireInv'
  BY <1>1, <1>2, <1>6, <1>8, <1>12, ZenonT(60) DEF LiveInv, WireInv
<1>14. WokenInv'
  BY <1>1, <1>2, <1>6, <1>8 DEF LiveInv, WokenInv
<1>. QED  BY <1>1, <1>2, <1>3, <1>13, <1>14 DEF LiveInv

LEMMA LoadNext ==
  ASSUME LiveInv, NEW c \in Clients, Load(c)
  PROVE  LiveInv'
PROOF
<1>1. /\ seen' = [seen EXCEPT ![c] = committed] /\ stale' = [stale EXCEPT ![c] = FALSE]
      /\ UNCHANGED <<server, committed, version, closed, wpc, wver, handler, owner, registered, ch, open, conn, wire, last>>
  BY DEF Load, hub, writers, streams
<1>2. WriterInv' /\ Sent' = Sent /\ (AllIdle' <=> AllIdle)
  BY <1>1 DEF LiveInv, WriterInv, Sent, AllIdle
<1>3. ConnInv'
  BY <1>1 DEF LiveInv, ConnInv
<1>4. /\ seen' \in [Clients -> Nat] /\ stale' \in [Clients -> BOOLEAN] /\ seen'[c] = committed
      /\ \A d \in Clients \ {c} : seen'[d] = seen[d] /\ stale'[d] = stale[d]
  BY <1>1 DEF LiveInv, WriterInv, WireInv
<1>5. WireInv'
  BY <1>1, <1>2, <1>4 DEF LiveInv, WireInv
<1>6. WokenInv'
  BY <1>1, <1>2, <1>4 DEF LiveInv, WokenInv
<1>. QED  BY <1>1, <1>2, <1>3, <1>5, <1>6 DEF LiveInv

LEMMA DropNext ==
  ASSUME LiveInv, NEW c \in Clients, Drop(c)
  PROVE  LiveInv'
PROOF
<1>1. /\ conn' = [conn EXCEPT ![c] = "none"] /\ wire' = [wire EXCEPT ![c] = <<>>]
      /\ UNCHANGED <<server, committed, version, closed, wpc, wver, handler, owner, registered, ch, open, last, stale, seen>>
  BY DEF Drop, hub, writers, streams
<1>2. WriterInv' /\ Sent' = Sent /\ (AllIdle' <=> AllIdle)
  BY <1>1 DEF LiveInv, WriterInv, Sent, AllIdle
<1>3. ConnInv'
  BY <1>1 DEF LiveInv, ConnInv
<1>4. /\ wire' \in [Clients -> Seq(Nat)] /\ conn'[c] = "none" /\ wire'[c] = <<>> /\ Len(wire'[c]) = 0
      /\ \A d \in Clients \ {c} : conn'[d] = conn[d] /\ wire'[d] = wire[d]
  BY <1>1 DEF LiveInv, ConnInv, WireInv
<1>5. Ascending(wire'[c])
  BY <1>4 DEF Ascending
<1>6. WireInv'
  BY <1>1, <1>2, <1>4, <1>5 DEF LiveInv, WireInv
<1>7. WokenInv'
  BY <1>1, <1>2, <1>4 DEF LiveInv, WokenInv
<1>. QED  BY <1>1, <1>2, <1>3, <1>6, <1>7 DEF LiveInv

\* Every step of a process that has not been stopped keeps the invariant, until
\* a version is overtaken.
LEMMA LiveNext ==
  ASSUME LiveInv, Next, UNCHANGED stops, stops \in Nat, ~overtaken'
  PROVE  LiveInv'
PROOF
<1>1. ~Close /\ ~Crash
  BY DEF Close, Crash
<1>2. ~Shutdown /\ ~Start
  BY DEF LiveInv, Shutdown, Start
<1>3. ASSUME NEW c \in Clients PROVE ~ErrorEvent(c)
  BY DEF LiveInv, ConnInv, ErrorEvent
<1>. QED  BY <1>1, <1>2, <1>3, WriterNext, SendNext, SubscribeNext, HeaderNext, ForwardNext, ReturnNext,
             ConnectNext, ReceiveNext, LoadNext, DropNext
          DEF Next, WriterStep, StreamStep, ClientStep

LEMMA WakeNext == WakeInv /\ [Next]_vars => WakeInv'
PROOF
<1> SUFFICES ASSUME WakeInv, [Next]_vars PROVE WakeInv'
  OBVIOUS
<1>1. CASE UNCHANGED vars
  <2>1. LiveInv => LiveInv'
    BY <1>1 DEF vars, hub, writers, streams, clients, LiveInv, WriterInv, ConnInv, WireInv, WokenInv, Sent, AllIdle
  <2>. QED  BY <1>1, <2>1 DEF vars, bounds, WakeInv
<1>2. CASE Next
  <2>1. stops' = stops \/ stops' = stops + 1
    BY <1>2 DEF Next, WriterStep, StreamStep, ClientStep, Commit, TakeVersion, Send, Subscribe, WriteHeader,
                Forward, Return, Connect, Receive, ErrorEvent, Load, Drop, Close, Shutdown, Crash, Start, bounds
  <2>2. stops' \in Nat /\ (stops' = 0 => stops = 0 /\ UNCHANGED stops)
    BY <2>1 DEF WakeInv
  <2>3. UNCHANGED overtaken \/ \E w \in Writers : Send(w)
    BY <1>2 DEF Next, WriterStep, StreamStep, ClientStep, Commit, TakeVersion, Subscribe, WriteHeader,
                Forward, Return, Connect, Receive, ErrorEvent, Load, Drop, Close, Shutdown, Crash, Gone, Start
  <2>4. overtaken' \in BOOLEAN /\ (~overtaken' => ~overtaken)
    BY <2>3, Zenon DEF WakeInv, Send
  <2>. QED  BY <1>2, <2>2, <2>4, LiveNext DEF WakeInv
<1>. QED  BY <1>1, <1>2

\* No lost wake-up: as long as one process lives and versions are sent in the order
\* they were taken, a connected client that nothing is on its way to shows what the
\* database holds, for every number of writers at work at a time, clients, streams,
\* writes and lost connections.  (An overtaken version breaks it: ChangesShown.)
THEOREM NoLostWakeUp == Spec => []SyncedInOrder
PROOF
<1>1. Init => WakeInv
  <2> SUFFICES ASSUME Init PROVE WakeInv
    OBVIOUS
  <2>1. WriterInv /\ stops = 0 /\ server = "up"
    BY DEF Init, WriterInv
  <2>2. closed = FALSE /\ overtaken = FALSE
    BY Zenon DEF Init
  <2>3. ConnInv
    BY DEF Init, ConnInv
  <2>4. WireInv
    <3>1. 0 \in Sent
      BY <2>1, OpenSent DEF Open
    <3>2. /\ ch \in [Streams -> Seq(Nat)] /\ wire \in [Clients -> Seq(Nat)]
          /\ (\A i \in Streams : ch[i] = <<>>) /\ \A c \in Clients : wire[c] = <<>> /\ conn[c] = "none"
      BY DEF Init
    <3>3. /\ last \in [Clients -> Nat] /\ seen \in [Clients -> Nat] /\ stale \in [Clients -> BOOLEAN]
          /\ \A c \in Clients : last[c] = 0
      BY DEF Init
    <3>. QED  BY <3>1, <3>2, <3>3 DEF WireInv, Ascending
  <2>5. WokenInv
    BY DEF Init, WokenInv
  <2>. QED  BY <2>1, <2>2, <2>3, <2>4, <2>5 DEF WakeInv, LiveInv
<1>2. WakeInv => SyncedInOrder
  <2> SUFFICES ASSUME WakeInv, ~overtaken, stops = 0, NEW c \in Clients, Quiet(c)
               PROVE  seen[c] = committed
    BY DEF SyncedInOrder, SyncedWhenQuiet
  <2>1. LiveInv /\ AllIdle
    BY DEF WakeInv, Quiet, AllIdle
  <2>. QED  BY <2>1 DEF LiveInv, WokenInv, Quiet
<1>. QED  BY <1>1, <1>2, WakeNext, PTL DEF Spec

\* Broadcast's sends are safe and enough: both at once.
THEOREM SoundBroadcast == Spec => []BroadcastSound
PROOF
  BY OnlyOpenSends, NoLostWakeUp, PTL DEF BroadcastSound
=============================================================================
