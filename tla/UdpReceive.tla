----------------------------- MODULE UdpReceive -----------------------------
(***************************************************************************)
(* UDP.Receive (go-matter/transport/udp.go): every call starts a watcher   *)
(* goroutine that sets a read deadline on the shared socket once the       *)
(* call's context is done.  The deadline belongs to the socket, the        *)
(* watcher to the call, and nothing waits for the watcher.                 *)
(***************************************************************************)
EXTENDS Naturals, Sequences

CONSTANTS
  Calls,       \* bound: calls of Receive on the socket, one after the other
  MaxArrivals  \* bound: datagrams that arrive

VARIABLES
  call,      \* number of the current (or last) call
  pc,        \* "idle", "start" (deadline not cleared yet) or "read"
  ctxDone,   \* per call: its context is cancelled or past its deadline
  watcher,   \* per call: "none", "select" or "gone"
  stop,      \* per call: the stop channel is closed
  result,    \* per call: "none", "data" or "error"
  deadline,  \* the socket's read deadline has passed
  socket,    \* datagrams waiting in the socket
  arrived    \* bound: datagrams so far

vars == <<call, pc, ctxDone, watcher, stop, result, deadline, socket, arrived>>
data == <<socket, arrived>>

C == 1..Calls

Init ==
  /\ call = 0 /\ pc = "idle"
  /\ ctxDone = [c \in C |-> FALSE] /\ stop = [c \in C |-> FALSE]
  /\ watcher = [c \in C |-> "none"] /\ result = [c \in C |-> "none"]
  /\ deadline = FALSE
  /\ socket = <<>> /\ arrived = 0

\* Receive starts the watcher.
Receive ==
  /\ pc = "idle" /\ call < Calls
  /\ call' = call + 1 /\ pc' = "start"
  /\ watcher' = [watcher EXCEPT ![call + 1] = "select"]
  /\ UNCHANGED <<ctxDone, stop, result, deadline, data>>

\* Receive clears any earlier deadline, whoever set it, and reads.
Clear ==
  /\ pc = "start"
  /\ pc' = "read" /\ deadline' = FALSE
  /\ UNCHANGED <<call, ctxDone, watcher, stop, result, data>>

\* Mutant of Return: stop is closed on the failing path only.
ReturnLeaks(r) ==
  /\ pc' = "idle"
  /\ result' = [result EXCEPT ![call] = r]
  /\ stop' = [stop EXCEPT ![call] = r = "error"]

\* The deferred close(stop) runs on every return.
Return(r) ==
  /\ pc' = "idle"
  /\ result' = [result EXCEPT ![call] = r]
  /\ stop' = [stop EXCEPT ![call] = TRUE]

ReadData ==
  /\ pc = "read" /\ socket # <<>>
  /\ socket' = Tail(socket)
  /\ Return("data")
  /\ UNCHANGED <<call, ctxDone, watcher, deadline, arrived>>

\* The read fails once the deadline has passed, data or not.
ReadError ==
  /\ pc = "read" /\ deadline
  /\ Return("error")
  /\ UNCHANGED <<call, ctxDone, watcher, deadline, data>>

\* The watcher's select: with both channels ready, Go picks either.
WatcherFires(c) ==
  /\ watcher[c] = "select" /\ ctxDone[c]
  /\ watcher' = [watcher EXCEPT ![c] = "gone"] /\ deadline' = TRUE
  /\ UNCHANGED <<call, pc, ctxDone, stop, result, data>>

WatcherStops(c) ==
  /\ watcher[c] = "select" /\ stop[c]
  /\ watcher' = [watcher EXCEPT ![c] = "gone"]
  /\ UNCHANGED <<call, pc, ctxDone, stop, result, deadline, data>>

\* A context ends by its deadline, or by the cancel() that exchangeRT and awaitSC
\* call when Receive has returned.
CtxDone(c) ==
  /\ c <= call /\ ~ctxDone[c]
  /\ ctxDone' = [ctxDone EXCEPT ![c] = TRUE]
  /\ UNCHANGED <<call, pc, watcher, stop, result, deadline, data>>

\* A datagram reaches the socket (external).
Arrive ==
  /\ arrived < MaxArrivals /\ arrived' = arrived + 1
  /\ socket' = Append(socket, arrived + 1)
  /\ UNCHANGED <<call, pc, ctxDone, watcher, stop, result, deadline>>

Next ==
  \/ Receive \/ Clear \/ ReadData \/ ReadError \/ Arrive
  \/ \E c \in C : WatcherFires(c) \/ WatcherStops(c) \/ CtxDone(c)

\* Goroutines run.  A context need not end: Listen passes the hub's own.
Fairness ==
  /\ WF_vars(Clear) /\ WF_vars(ReadData \/ ReadError)
  /\ \A c \in C : WF_vars(WatcherFires(c) \/ WatcherStops(c))

Spec == Init /\ [][Next]_vars /\ Fairness

-----------------------------------------------------------------------------

\* No watcher goroutine outlives its call for ever.
WatchersEnd == \A c \in C : (result[c] # "none") ~> (watcher[c] = "gone")

=============================================================================
