---------------------------- MODULE PlannerStream ----------------------------
(***************************************************************************)
(* Live updates of the planner (planner/internal/api/stream.go and the     *)
(* web client's useLiveSync.ts): a successful write wakes every open event *)
(* stream with a version number, and the client loads its lists again.     *)
(*                                                                         *)
(* The hub's lock makes subscribe, unsubscribe, Close and the loop of      *)
(* Broadcast atomic; the version is taken before the lock.  A stream is    *)
(* one run of the handler, a slot that is used again once it has returned. *)
(***************************************************************************)
EXTENDS Naturals, Sequences, FiniteSets

CONSTANTS
  Writers,      \* requests that change data, concurrently
  Clients,      \* browser tabs, all of one user
  Streams,      \* runs of the stream handler that may exist at a time, below perUserSubs
  MaxWrites, MaxDrops, MaxStops   \* bounds: writes, lost connections, server stops

\* The mark of no connection is no stream.
ASSUME StreamsAssumption == "none" \notin Streams

VARIABLES
  server,                \* "up", "stopping" or "down"
  committed,             \* writes in the database
  version, closed,       \* of the hub
  wpc, wver,             \* per writer: step, and the version it took
  handler, owner,        \* per stream: step of the handler, and its client
  registered, ch, open,  \* per stream: in h.subs; buffer of its channel; channel not closed
  conn,                  \* per client: the stream it is connected to, or "none"
  wire,                  \* per client: events on their way
  last, stale, seen,     \* per client: lastVersion; lists to be loaded; what was loaded
  overtaken,             \* history: a version was sent before a lower one
  drops, stops

hub == <<version, closed>>
writers == <<wpc, wver>>
streams == <<handler, owner, registered, ch, open>>
clients == <<conn, wire, last, stale, seen>>
bounds == <<drops, stops>>
vars == <<server, committed, hub, writers, streams, clients, overtaken, bounds>>

Init ==
  /\ server = "up" /\ committed = 0 /\ version = 0 /\ closed = FALSE
  /\ wpc = [w \in Writers |-> "idle"] /\ wver = [w \in Writers |-> 0]
  /\ handler = [i \in Streams |-> "none"] /\ owner = [i \in Streams |-> "none"]
  /\ registered = [i \in Streams |-> FALSE] /\ ch = [i \in Streams |-> <<>>]
  /\ open = [i \in Streams |-> FALSE]
  /\ conn = [c \in Clients |-> "none"] /\ wire = [c \in Clients |-> <<>>]
  /\ last = [c \in Clients |-> 0] /\ stale = [c \in Clients |-> FALSE]
  /\ seen = [c \in Clients |-> 0]
  /\ overtaken = FALSE /\ drops = 0 /\ stops = 0

Running == server # "down"

Open == 0   \* the open event on a wire; the others are versions

-----------------------------------------------------------------------------
(***************************************************************************)
(* Writes: broadcastOnWrite around the handler.                            *)
(***************************************************************************)

\* The wrapped handler commits and answers below 400.
Commit(w) ==
  /\ server = "up" /\ wpc[w] = "idle" /\ committed < MaxWrites
  /\ committed' = committed + 1
  /\ wpc' = [wpc EXCEPT ![w] = "version"]
  /\ UNCHANGED <<server, hub, wver, streams, clients, overtaken, bounds>>

\* Broadcast, version.Add.
TakeVersion(w) ==
  /\ Running /\ wpc[w] = "version"
  /\ version' = version + 1
  /\ wver' = [wver EXCEPT ![w] = version + 1]
  /\ wpc' = [wpc EXCEPT ![w] = "send"]
  /\ UNCHANGED <<server, committed, closed, streams, clients, overtaken, bounds>>

\* A full channel is skipped.
Deliver(v) == [i \in Streams |-> IF registered[i] /\ ch[i] = <<>> THEN <<v>> ELSE ch[i]]

\* Broadcast, under the lock.
Send(w) ==
  /\ Running /\ wpc[w] = "send"
  /\ ch' = Deliver(wver[w])
  /\ wpc' = [wpc EXCEPT ![w] = "idle"] /\ wver' = [wver EXCEPT ![w] = 0]
  /\ overtaken' = (overtaken \/ \E x \in Writers : wpc[x] = "send" /\ wver[x] < wver[w])
  /\ UNCHANGED <<server, committed, hub, handler, owner, registered, open, clients, bounds>>

-----------------------------------------------------------------------------
(***************************************************************************)
(* The stream handler.                                                     *)
(***************************************************************************)

CtxDone(i) == conn[owner[i]] # i \/ server = "stopping"

\* subscribe; a closed hub refuses and the handler answers 503.
Subscribe(i) ==
  /\ Running /\ handler[i] = "accepted"
  /\ handler' = [handler EXCEPT ![i] = IF closed THEN "none" ELSE "subscribed"]
  /\ registered' = [registered EXCEPT ![i] = ~closed]
  /\ open' = [open EXCEPT ![i] = ~closed]
  /\ ch' = [ch EXCEPT ![i] = <<>>]
  /\ UNCHANGED <<server, committed, hub, writers, owner, clients, overtaken, bounds>>

Write(i, e) ==
  wire' = [c \in Clients |-> IF conn[c] = i THEN Append(wire[c], e) ELSE wire[c]]

\* The response header reaches the client as its open event.
WriteHeader(i) ==
  /\ Running /\ handler[i] = "subscribed"
  /\ handler' = [handler EXCEPT ![i] = "serving"]
  /\ Write(i, Open)
  /\ UNCHANGED <<server, committed, hub, writers, owner, registered, ch, open,
                 conn, last, stale, seen, overtaken, bounds>>

Forward(i) ==
  /\ Running /\ handler[i] = "serving" /\ ch[i] # <<>>
  /\ Write(i, Head(ch[i]))
  /\ ch' = [ch EXCEPT ![i] = Tail(@)]
  /\ UNCHANGED <<server, committed, hub, writers, handler, owner, registered, open,
                 conn, last, stale, seen, overtaken, bounds>>

\* Mutant of Return: the loop only looks at its channel.
ReturnWhenClosed(i) ==
  /\ Running /\ handler[i] = "serving" /\ ~open[i] /\ ch[i] = <<>>
  /\ handler' = [handler EXCEPT ![i] = "none"]
  /\ registered' = [registered EXCEPT ![i] = FALSE] /\ open' = [open EXCEPT ![i] = FALSE]
  /\ ch' = [ch EXCEPT ![i] = <<>>]
  /\ UNCHANGED <<server, committed, hub, writers, owner, clients, overtaken, bounds>>

\* The handler returns, on its context or on the closed channel, and
\* unsubscribes.  A write to a client that is gone ends it the same way.
Return(i) ==
  /\ Running /\ handler[i] = "serving" /\ (CtxDone(i) \/ (~open[i] /\ ch[i] = <<>>))
  /\ handler' = [handler EXCEPT ![i] = "none"]
  /\ registered' = [registered EXCEPT ![i] = FALSE] /\ open' = [open EXCEPT ![i] = FALSE]
  /\ ch' = [ch EXCEPT ![i] = <<>>]
  /\ UNCHANGED <<server, committed, hub, writers, owner, clients, overtaken, bounds>>

-----------------------------------------------------------------------------
(***************************************************************************)
(* The client.                                                             *)
(***************************************************************************)

\* connect, at once or when the retry timer fires.
Connect(c) ==
  /\ server = "up" /\ conn[c] = "none"
  /\ \E i \in Streams :
       /\ handler[i] = "none" /\ \A d \in Clients : conn[d] # i
       /\ i = CHOOSE j \in Streams : handler[j] = "none" /\ \A d \in Clients : conn[d] # j
       /\ handler' = [handler EXCEPT ![i] = "accepted"]
       /\ owner' = [owner EXCEPT ![i] = c]
       /\ conn' = [conn EXCEPT ![c] = i]
  /\ UNCHANGED <<server, committed, hub, writers, registered, ch, open, wire, last, stale, seen, overtaken, bounds>>

\* Mutant of Receive: the open event does not load the lists.
ReceiveChanges(c) ==
  /\ wire[c] # <<>>
  /\ LET e == Head(wire[c]) IN
       IF e = Open \/ e <= last[c] THEN UNCHANGED <<last, stale>>
         ELSE last' = [last EXCEPT ![c] = e] /\ stale' = [stale EXCEPT ![c] = TRUE]
  /\ wire' = [wire EXCEPT ![c] = Tail(@)]
  /\ UNCHANGED <<server, committed, hub, writers, streams, conn, seen, overtaken, bounds>>

\* The open and changed listeners; a version not above the last is ignored.
Receive(c) ==
  /\ wire[c] # <<>>
  /\ LET e == Head(wire[c]) IN
       \/ e = Open /\ stale' = [stale EXCEPT ![c] = TRUE] /\ UNCHANGED last
       \/ /\ e # Open /\ e > last[c]
          /\ last' = [last EXCEPT ![c] = e] /\ stale' = [stale EXCEPT ![c] = TRUE]
       \/ e # Open /\ e <= last[c] /\ UNCHANGED <<last, stale>>
  /\ wire' = [wire EXCEPT ![c] = Tail(@)]
  /\ UNCHANGED <<server, committed, hub, writers, streams, conn, seen, overtaken, bounds>>

\* The queries invalidate() marked are loaded; a later mark starts them again.
Load(c) ==
  /\ stale[c] /\ Running
  /\ seen' = [seen EXCEPT ![c] = committed]
  /\ stale' = [stale EXCEPT ![c] = FALSE]
  /\ UNCHANGED <<server, committed, hub, writers, streams, conn, wire, last, overtaken, bounds>>

\* The server's end of the connection is gone: the error listener sets the
\* retry timer.
ErrorEvent(c) ==
  /\ conn[c] # "none" /\ wire[c] = <<>>
  /\ handler[conn[c]] = "none"
  /\ conn' = [conn EXCEPT ![c] = "none"]
  /\ UNCHANGED <<server, committed, hub, writers, streams, wire, last, stale, seen, overtaken, bounds>>

\* The connection is lost with what is on it (an idle ingress, a sleeping phone).
Drop(c) ==
  /\ conn[c] # "none" /\ drops < MaxDrops
  /\ conn' = [conn EXCEPT ![c] = "none"] /\ wire' = [wire EXCEPT ![c] = <<>>]
  /\ drops' = drops + 1
  /\ UNCHANGED <<server, committed, hub, writers, streams, last, stale, seen, overtaken, stops>>

-----------------------------------------------------------------------------
(***************************************************************************)
(* The process.                                                            *)
(***************************************************************************)

\* Mutant of Close: the channels are closed and stay in the map.
CloseKeepsSubs ==
  /\ server = "up" /\ stops < MaxStops
  /\ server' = "stopping" /\ closed' = TRUE /\ stops' = stops + 1
  /\ open' = [i \in Streams |-> FALSE]
  /\ UNCHANGED <<committed, version, writers, handler, owner, registered, ch, clients, overtaken, drops>>

\* SIGTERM: the base context is done, and hub.Close closes every channel.
Close ==
  /\ server = "up" /\ stops < MaxStops
  /\ server' = "stopping" /\ closed' = TRUE /\ stops' = stops + 1
  /\ registered' = [i \in Streams |-> FALSE] /\ open' = [i \in Streams |-> FALSE]
  /\ UNCHANGED <<committed, version, writers, handler, owner, ch, clients, overtaken, drops>>

\* Everything in memory is gone, and every connection will be found ended.
Gone ==
  /\ server' = "down"
  /\ wpc' = [w \in Writers |-> "idle"] /\ wver' = [w \in Writers |-> 0]
  /\ handler' = [i \in Streams |-> "none"] /\ registered' = [i \in Streams |-> FALSE]
  /\ open' = [i \in Streams |-> FALSE] /\ ch' = [i \in Streams |-> <<>>]
  /\ UNCHANGED <<committed, hub, owner, clients, overtaken, drops>>

\* Shutdown waits for the handlers, for five seconds at most.
Shutdown == server = "stopping" /\ Gone /\ UNCHANGED stops

Crash == server = "up" /\ stops < MaxStops /\ Gone /\ stops' = stops + 1

\* A new process: the hub counts from 0 again.
Start ==
  /\ server = "down"
  /\ server' = "up" /\ version' = 0 /\ closed' = FALSE
  /\ UNCHANGED <<committed, writers, streams, clients, overtaken, bounds>>

WriterStep(w) == TakeVersion(w) \/ Send(w)
StreamStep(i) == Subscribe(i) \/ WriteHeader(i) \/ Forward(i) \/ Return(i)
ClientStep(c) == Connect(c) \/ Receive(c) \/ ErrorEvent(c) \/ Load(c)

Next ==
  \/ \E w \in Writers : Commit(w) \/ WriterStep(w)
  \/ \E i \in Streams : StreamStep(i)
  \/ \E c \in Clients : ClientStep(c) \/ Drop(c)
  \/ Close \/ Shutdown \/ Crash \/ Start

\* Goroutines and browsers run on, and systemd starts the server again.
Fairness ==
  /\ \A w \in Writers : WF_vars(WriterStep(w))
  /\ \A i \in Streams : WF_vars(Subscribe(i) \/ WriteHeader(i)) /\ WF_vars(Forward(i)) /\ WF_vars(Return(i))
  /\ \A c \in Clients : WF_vars(Connect(c)) /\ WF_vars(Receive(c)) /\ WF_vars(ErrorEvent(c)) /\ WF_vars(Load(c))
  /\ WF_vars(Shutdown) /\ WF_vars(Start)

Spec == Init /\ [][Next]_vars /\ Fairness

-----------------------------------------------------------------------------

\* Connected, with no event between a committed write and this client.
Quiet(c) ==
  /\ conn[c] # "none" /\ handler[conn[c]] = "serving" /\ registered[conn[c]]
  /\ \A w \in Writers : wpc[w] = "idle"
  /\ ch[conn[c]] = <<>> /\ wire[c] = <<>> /\ ~stale[c]

\* A connected client that nothing is in flight to shows what the database holds.
\* (A new process counts versions from 0 again, below the client's lastVersion, so
\* this is about the life of one process.)
SyncedWhenQuiet == stops = 0 => \A c \in Clients : Quiet(c) => seen[c] = committed

\* useLiveSync.ts: "tell from SSE that something changed and load the lists again"
\* (translated), when writes overlap.
ChangesShown == SyncedWhenQuiet

\* No lost wake-up: however many writes overlap, full channels are skipped and
\* connections are lost, that holds as long as versions are sent in the order they
\* were taken, which the lock does not see to (Broadcast, the open listener).
SyncedInOrder == ~overtaken => SyncedWhenQuiet

\* Broadcast never sends on a closed channel, which would panic: unsubscribe and
\* Close take a channel out of the map in the step that closes it.
SendsToOpen == \A i \in Streams : registered[i] => open[i]

\* Broadcast's sends are safe, and enough.
BroadcastSound == SendsToOpen /\ SyncedInOrder

\* The same as a promise: every write is shown by every client some day, unless
\* the process stops or a version is overtaken.
CatchesUp ==
  \A c \in Clients : \A n \in 1..MaxWrites :
    (committed >= n) ~> (seen[c] >= n \/ overtaken \/ stops > 0)

\* The handler of a client that went away returns and leaves the map, so stopped
\* clients do not pile up goroutines (stream, <-ctx.Done()).
StreamsReturned ==
  \A i \in Streams : (handler[i] # "none" /\ conn[owner[i]] # i) ~> (handler[i] = "none")

\* A change reaches every tab, and a tab that is closed costs nothing.
StreamsServe == CatchesUp /\ StreamsReturned

=============================================================================
