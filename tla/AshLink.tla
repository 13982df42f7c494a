------------------------------- MODULE AshLink -------------------------------
(***************************************************************************)
(* The link to the Zigbee network co-processor (internal/zigbee/ezsp): the *)
(* ASH connection with its reader goroutine and bounded channels, and the  *)
(* EZSP driver's request/readLoop pair, which demultiplexes responses and  *)
(* callbacks.  Requests are serialised by reqMu, so one is in flight; the  *)
(* first ones belong to bringUpNetwork, later ones to watchJoinWindow.     *)
(*                                                                         *)
(* The serial line is in order but may corrupt a frame, which Decode drops *)
(* (bad CRC).  The NCP is external: it accepts DATA frames in sequence,    *)
(* answers every command it accepted, sends callbacks, and repeats DATA.   *)
(***************************************************************************)
EXTENDS Naturals, Sequences

CONSTANTS
  None,
  SeqMod,      \* EZSP sequence numbers are uint8 (256)
  AckCap,      \* capacity of Conn.acks (8)
  DataCap,     \* capacity of Conn.data (32)
  Requests,    \* bound: requests
  MaxLoss,     \* bound: frames corrupted on the line
  MaxExtra     \* bound: callbacks and repeated DATA frames of the NCP

VARIABLES
  start,     \* Driver.Start: "bringup", "serve" or "returned"
  pc,        \* request: "idle", "send" (in Conn.Send) or "wait" (for p.ch)
  n,         \* number of the current request; its sequence number is n % SeqMod
  result,    \* request number whose response the last request returned, or None
  pending,   \* Driver.pending: sequence number, or None
  answer,    \* p.ch: request number that the delivered response belongs to
  txSeq,     \* Conn.txSeq (mod 8)
  acks, data, errs,   \* Conn's channels
  reader,    \* the goroutine Conn.read: "runs" or "gone"
  loop,      \* the goroutine readLoop: "runs" or "gone"
  toNcp, toHost,      \* the serial line
  expected,  \* NCP: next DATA frame number it accepts
  accepted,  \* NCP: requests it accepted
  todo,      \* NCP: accepted requests not answered yet
  losses, extra

request == <<pc, n, result, pending, answer, txSeq>>
conn == <<acks, data, errs, reader>>
line == <<toNcp, toHost>>
ncp == <<expected, accepted, todo>>
vars == <<start, pc, n, result, pending, answer, txSeq, acks, data, errs, reader, loop,
          toNcp, toHost, expected, accepted, todo, losses, extra>>

\* Frames to the host: a control frame with an acknowledgement number, or DATA,
\* with the request it answers (None: a callback).
Ack(a) == [type |-> "ACK", ack |-> a, of |-> None]
Nak(a) == [type |-> "NAK", ack |-> a, of |-> None]
Error == [type |-> "ERROR", ack |-> None, of |-> None]
Data(a, r) == [type |-> "DATA", ack |-> a, of |-> r]

\* After Reset and negotiateVersion.
Init ==
  /\ start = "bringup" /\ pc = "idle" /\ n = 0 /\ result = None
  /\ pending = None /\ answer = None /\ txSeq = 0
  /\ acks = <<>> /\ data = <<>> /\ errs = 0 /\ reader = "runs" /\ loop = "runs"
  /\ toNcp = <<>> /\ toHost = <<>>
  /\ expected = 0 /\ accepted = {} /\ todo = {}
  /\ losses = 0 /\ extra = 0

-----------------------------------------------------------------------------
(***************************************************************************)
(* Driver.request.                                                         *)
(***************************************************************************)

\* A new pending entry, and Conn.Send writes the DATA frame.
Request ==
  /\ pc = "idle" /\ start # "returned" /\ n < Requests /\ reader = "runs"
  /\ n' = n + 1 /\ pc' = "send" /\ result' = None
  /\ pending' = (n + 1) % SeqMod /\ answer' = None
  /\ toNcp' = Append(toNcp, [frm |-> txSeq, of |-> n + 1])
  /\ txSeq' = (txSeq + 1) % 8
  /\ UNCHANGED <<start, conn, loop, toHost, ncp, losses, extra>>

\* Send takes whichever acknowledgement comes first.
SendAcked ==
  /\ pc = "send" /\ acks # <<>>
  /\ acks' = Tail(acks) /\ pc' = "wait"
  /\ UNCHANGED <<start, n, result, pending, answer, txSeq, data, errs, reader, loop, line, ncp,
                 losses, extra>>

\* request returns; during bring-up an error makes Start return too.
Finish(r) ==
  /\ pc' = "idle" /\ pending' = None /\ result' = r
  /\ start' = IF r = None /\ start = "bringup" THEN "returned" ELSE start

\* The write fails on a port that is gone.
WriteError ==
  /\ pc = "idle" /\ start # "returned" /\ n < Requests /\ reader = "gone"
  /\ n' = n + 1 /\ txSeq' = (txSeq + 1) % 8 /\ answer' = None
  /\ Finish(None)
  /\ UNCHANGED <<conn, loop, line, ncp, losses, extra>>

\* Send meets the reader's error before readLoop does.
SendError ==
  /\ pc = "send" /\ errs > 0
  /\ errs' = 0
  /\ Finish(None)
  /\ UNCHANGED <<n, answer, txSeq, acks, data, reader, loop, line, ncp, losses, extra>>

SendTimeout ==
  /\ pc = "send"
  /\ Finish(None)
  /\ UNCHANGED <<n, answer, txSeq, conn, loop, line, ncp, losses, extra>>

Answered ==
  /\ pc = "wait" /\ answer # None
  /\ Finish(answer)
  /\ UNCHANGED <<n, answer, txSeq, conn, loop, line, ncp, losses, extra>>

\* Mutant of WaitTimeout: the request waits for as long as the link is silent.
WaitTimeoutNever ==
  /\ pc = "wait" /\ errs > 0
  /\ Finish(None)
  /\ UNCHANGED <<n, answer, txSeq, conn, loop, line, ncp, losses, extra>>

WaitTimeout ==
  /\ pc = "wait"
  /\ Finish(None)
  /\ UNCHANGED <<n, answer, txSeq, conn, loop, line, ncp, losses, extra>>

\* bringUpNetwork succeeded.
Serve ==
  /\ start = "bringup" /\ pc = "idle" /\ result # None
  /\ start' = "serve"
  /\ UNCHANGED <<request, conn, loop, line, ncp, losses, extra>>

\* readLoop's error ends Start, once it is serving.
StartReturns ==
  /\ start = "serve" /\ loop = "gone"
  /\ start' = "returned"
  /\ UNCHANGED <<request, conn, loop, line, ncp, losses, extra>>

-----------------------------------------------------------------------------
(***************************************************************************)
(* readLoop and the ASH reader.                                            *)
(***************************************************************************)

\* Mutant of Matches: the frame id alone decides.
MatchesId(r) == pending # None

\* deliver: the sequence number decides (every request here has the same id).
Matches(r) == pending # None /\ pending = r % SeqMod

\* Recv, then deliver or handleCallback (which never blocks).
Deliver ==
  /\ loop = "runs" /\ start # "returned" /\ data # <<>>
  /\ data' = Tail(data)
  /\ answer' = IF Head(data) # None /\ answer = None /\ Matches(Head(data))
                 THEN Head(data) ELSE answer
  /\ UNCHANGED <<start, pc, n, result, pending, txSeq, acks, errs, reader, loop, line, ncp,
                 losses, extra>>

RecvError ==
  /\ loop = "runs" /\ start # "returned" /\ errs > 0
  /\ errs' = 0 /\ loop' = "gone"
  /\ UNCHANGED <<start, request, acks, data, reader, line, ncp, losses, extra>>

\* dispatch: every channel drops when it is full, DATA is acknowledged anyway.
Dispatch ==
  /\ reader = "runs" /\ start # "returned" /\ toHost # <<>>
  /\ LET f == Head(toHost) IN
       /\ acks' = IF f.type # "ERROR" /\ Len(acks) < AckCap THEN Append(acks, f.ack) ELSE acks
       /\ errs' = IF f.type = "ERROR" THEN 1 ELSE errs
       /\ data' = IF f.type = "DATA" /\ Len(data) < DataCap THEN Append(data, f.of) ELSE data
  /\ toHost' = Tail(toHost)
  /\ UNCHANGED <<start, request, reader, loop, toNcp, ncp, losses, extra>>

\* The port fails: the reader ends, its error is queued once.
PortError ==
  /\ reader = "runs"
  /\ reader' = "gone" /\ errs' = 1
  /\ UNCHANGED <<start, request, acks, data, loop, line, ncp, losses, extra>>

-----------------------------------------------------------------------------
(***************************************************************************)
(* The NCP and the serial line (external).                                 *)
(***************************************************************************)

NcpReceive ==
  /\ toNcp # <<>> /\ toNcp' = Tail(toNcp)
  /\ LET f == Head(toNcp)  next == (expected + 1) % 8 IN
       IF f.frm = expected
         THEN /\ expected' = next
              /\ accepted' = accepted \cup {f.of} /\ todo' = todo \cup {f.of}
              /\ toHost' \in {toHost, Append(toHost, Ack(next))}
         ELSE /\ toHost' = Append(toHost, Nak(expected))
              /\ UNCHANGED ncp
  /\ UNCHANGED <<start, request, conn, loop, losses, extra>>

NcpRespond ==
  \E r \in todo :
    /\ todo' = todo \ {r}
    /\ toHost' = Append(toHost, Data(expected, r))
    /\ UNCHANGED <<start, request, conn, loop, toNcp, expected, accepted, losses, extra>>

\* An ERROR frame, a callback, or a response repeated because our
\* acknowledgement was late.
NcpExtra ==
  /\ extra < MaxExtra /\ extra' = extra + 1
  /\ \E f \in {Error} \cup {Data(expected, r) : r \in {None} \cup (accepted \ todo)} :
       toHost' = Append(toHost, f)
  /\ UNCHANGED <<start, request, conn, loop, toNcp, ncp, losses>>

Corrupt ==
  /\ losses < MaxLoss /\ losses' = losses + 1
  /\ \/ toNcp # <<>> /\ toNcp' = Tail(toNcp) /\ UNCHANGED toHost
     \/ toHost # <<>> /\ toHost' = Tail(toHost) /\ UNCHANGED toNcp
  /\ UNCHANGED <<start, request, conn, loop, ncp, extra>>

-----------------------------------------------------------------------------

Next ==
  \/ Request \/ WriteError \/ SendAcked \/ SendError \/ SendTimeout \/ Answered \/ WaitTimeout
  \/ Serve \/ StartReturns
  \/ Deliver \/ RecvError \/ Dispatch \/ PortError
  \/ NcpReceive \/ NcpRespond \/ NcpExtra \/ Corrupt

\* Goroutines run and timers fire; the NCP and the line owe nothing.
Fairness ==
  /\ WF_vars(SendAcked \/ SendError \/ SendTimeout) /\ WF_vars(Answered \/ WaitTimeout)
  /\ WF_vars(Serve) /\ WF_vars(StartReturns)
  /\ WF_vars(Deliver) /\ WF_vars(RecvError) /\ WF_vars(Dispatch)

Spec == Init /\ [][Next]_vars /\ Fairness

-----------------------------------------------------------------------------

\* A request returns the response to its own command, never a late or repeated
\* response to an earlier one that timed out (request, deliver).
ResponseMatches == (pc = "idle" /\ result # None) => result = n /\ result \in accepted

\* Every request ends, whatever is lost, dropped or wedged (the timeouts of Send
\* and request), so that reqMu is given back.
RequestsEnd == (pc # "idle") ~> (pc = "idle")

=============================================================================
