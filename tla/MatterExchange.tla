--------------------------- MODULE MatterExchange ---------------------------
(***************************************************************************)
(* A go-matter controller talking to one device over UDP                   *)
(* (go-matter/controller): the CASE handshake (Connect, awaitSC), request/ *)
(* response exchanges with minimal MRP (roundTrip, exchangeRT, ackMsg),    *)
(* and a subscription (Subscribe, Listen).  The mutex of Session makes its *)
(* calls sequential, so the controller is one process whose `pc' says      *)
(* which receive loop it is in.                                            *)
(*                                                                         *)
(* The device and the network are not part of the repository.  The device  *)
(* is what the controller's comments take it to be: it answers each fresh  *)
(* message once, re-sends its last unacknowledged message on a timer and   *)
(* on a duplicate, and sends the next report after the StatusResponse to   *)
(* the previous one.  The network loses, delays and reorders frames; the   *)
(* retransmissions of both sides produce the duplicates.                   *)
(*                                                                         *)
(* The replay filter is the set of accepted counters: SecureSession shows  *)
(* that the code's window is that set as long as counters do not fall a    *)
(* whole window behind.  Exchange ids do not wrap within the bounds.       *)
(***************************************************************************)
EXTENDS Naturals, Sequences, FiniteSets

CONSTANT Scenarios   \* the conditions under which a controller is checked

\* The exchange ids of the controller stay below those of the device.
ASSUME ScenarioAssumption ==
  Scenarios \subseteq [retransmits : Nat, messages : Nat, calls : 0..98, reports : Nat,
                       sealed : Nat, losses : Nat, timely : BOOLEAN]

VARIABLE scenario     \* the one of this behaviour

MaxRetransmits == scenario.retransmits   \* mrpMaxRetransmits
MaxMessages == scenario.messages         \* maxExchangeMessages
Calls == scenario.calls      \* bound: how many Invoke/ReadAttribute calls are made
Reports == scenario.reports  \* bound: reports the device sends; 0 = no subscription
MaxTx == scenario.sealed     \* bound: messages sealed before Listen stops
MaxLosses == scenario.losses \* bound: how many frames the network loses
Timely == scenario.timely    \* timers fire only when nothing is in flight

VARIABLES
  pc,        \* the receive loop the controller is in
  ex,        \* exchange id of the current or last exchange
  resend,    \* the frame that exchangeRT / awaitSC retransmits
  iters,     \* iterations of the current receive loop
  retrans,   \* retransmissions of the current receive loop
  tx,        \* next transmit counter of the secure session
  rx,        \* counters the session accepted, or awaitSC's `seen'
  lastResp,  \* Listen's lastResponse
  toDev,     \* frames in flight to the device
  toCtl,     \* frames in flight to the controller
  losses,    \* frames lost so far
  dev,       \* device: [open, rx, tx, out, tries, ...]
  result,    \* history: what each finished exchange returned
  delivered  \* history: reports handed to onReport

vars == <<scenario, pc, ex, resend, iters, retrans, tx, rx, lastResp, toDev, toCtl,
          losses, dev, result, delivered>>
loop == <<ex, resend, tx, lastResp>>
hist == <<result, delivered>>

None == [none |-> TRUE]
Handshake == {"sigma2", "statusReport"}
Exchange == {"reply", "prime", "subscribeResponse"}
DevExchange(n) == 100 + n     \* ids of exchanges the device opens

\* frameUnsecuredAck and encryptProto: a frame to the device.
Frame(sec, op, x, ctr, ack) ==
  [sec |-> sec, op |-> op, ex |-> x, ctr |-> ctr, ack |-> ack]
NoAck == 1000

\* A frame to the controller; `re' is the exchange or report it is about.
DevFrame(sec, op, x, ctr, re) ==
  [sec |-> sec, op |-> op, ex |-> x, ctr |-> ctr, re |-> re]

Quiet == toDev = {} /\ toCtl = {}

-----------------------------------------------------------------------------
(***************************************************************************)
(* The controller.                                                         *)
(***************************************************************************)

Init ==
  /\ scenario \in Scenarios
  /\ pc = "sigma2"
  /\ ex = 0
  /\ resend = Frame(FALSE, "sigma1", 0, 0, NoAck)
  /\ iters = 0 /\ retrans = 0
  /\ tx = 0 /\ rx = {} /\ lastResp = None
  /\ toDev = {resend} /\ toCtl = {}
  /\ losses = 0
  /\ dev = [phase |-> "new", rx |-> {}, tx |-> 0, out |-> {}, tries |-> 0,
            exec |-> [x \in 1..Calls |-> 0], subscribed |-> FALSE,
            reported |-> 0, answered |-> 0, statusResent |-> FALSE]
  /\ result = [x \in 1..Calls |-> "none"]
  /\ delivered = <<>>

\* Start waiting for the peer's next message, with f to retransmit.
Await(loopPc, f) ==
  /\ pc' = loopPc /\ resend' = f /\ iters' = 0 /\ retrans' = 0

\* The receive loop ends with an error, which its caller returns.
Fail ==
  /\ pc' = IF pc = "reply" THEN "idle" ELSE "failed"
  /\ result' = IF pc = "reply" THEN [result EXCEPT ![ex] = "error"] ELSE result

\* Mutant of Iter: the cap counts only a burst of messages.
IterWraps == iters' = (iters + 1) % (MaxMessages + 1)

\* One more iteration of the loop.
Iter == iters' = iters + 1

\* ackMsg: a standalone ack of the peer's message m.
AckMsg(m) ==
  /\ toDev' = toDev \cup {Frame(TRUE, "ack", m.ex, tx, m.ctr)}
  /\ tx' = tx + 1

\* awaitSC skips anything that is not a fresh unsecured message, and re-sends
\* its own last frame when the peer retransmits.
AwaitSC(f) ==
  /\ pc \in Handshake
  /\ iters <= MaxMessages
  /\ f \in toCtl /\ toCtl' = toCtl \ {f}
  /\ \/ f.sec /\ Iter /\ UNCHANGED <<pc, retrans, rx, toDev, loop>>
     \/ /\ ~f.sec /\ f.ctr \in rx
        /\ toDev' = toDev \cup {resend}
        /\ Iter
        /\ UNCHANGED <<pc, retrans, rx, loop>>
     \/ /\ ~f.sec /\ f.ctr \notin rx
        /\ \/ /\ pc = "sigma2" /\ f.op = pc
              /\ LET s3 == Frame(FALSE, "sigma3", ex, 1, f.ctr)
                 IN  Await("statusReport", s3) /\ toDev' = toDev \cup {s3}
              /\ rx' = rx \cup {f.ctr}
           \/ /\ pc = "statusReport" /\ f.op = pc
              /\ toDev' = toDev \cup {Frame(FALSE, "ack", ex, 2, f.ctr)}
              /\ pc' = "idle" /\ rx' = {}
              /\ UNCHANGED <<resend, iters, retrans>>
           \/ /\ f.op # pc
              /\ pc' = "failed" /\ rx' = rx \cup {f.ctr}
              /\ UNCHANGED <<resend, iters, retrans, toDev>>
        /\ UNCHANGED <<ex, tx, lastResp>>
  /\ UNCHANGED <<scenario, losses, dev, hist>>

\* roundTrip, and Subscribe up to its first exchangeRT: open an exchange.
Start(loopPc, op) ==
  /\ pc = "idle"
  /\ ex' = ex + 1
  /\ LET f == Frame(TRUE, op, ex', tx, NoAck)
     IN  Await(loopPc, f) /\ toDev' = toDev \cup {f}
  /\ tx' = tx + 1
  /\ UNCHANGED <<scenario, rx, lastResp, toCtl, losses, dev, hist>>

Call == ex < Calls /\ Start("reply", "invoke")
Subscribe == ex = Calls /\ Reports > 0 /\ Start("prime", "subscribe")

\* exchangeRT: an authenticated duplicate.  The peer lost an ack of ours.
Duplicate(f) ==
  /\ pc \in Exchange
  /\ iters <= MaxMessages
  /\ f \in toCtl /\ f.sec /\ f.ctr \in rx /\ toCtl' = toCtl \ {f}
  /\ IF f.ex = ex THEN toDev' = toDev \cup {resend} /\ tx' = tx ELSE AckMsg(f)
  /\ Iter
  /\ UNCHANGED <<scenario, pc, ex, resend, retrans, rx, lastResp, losses, dev, hist>>

\* exchangeRT: standalone acks are skipped, late traffic of another exchange is
\* acknowledged and skipped.
Skip(f) ==
  /\ pc \in Exchange
  /\ iters <= MaxMessages
  /\ f \in toCtl /\ f.sec /\ f.ctr \notin rx /\ toCtl' = toCtl \ {f}
  /\ \/ f.op = "ack" /\ UNCHANGED <<toDev, tx>>
     \/ f.op # "ack" /\ f.ex # ex /\ AckMsg(f)
  /\ rx' = rx \cup {f.ctr}
  /\ Iter
  /\ UNCHANGED <<scenario, pc, ex, resend, retrans, lastResp, losses, dev, hist>>

\* exchangeRT: a frame that DecryptMsg rejects (an unsecured frame has
\* session id 0) ends the loop with that error.
Foreign(f) ==
  /\ pc \in Exchange
  /\ iters <= MaxMessages
  /\ f \in toCtl /\ ~f.sec /\ toCtl' = toCtl \ {f}
  /\ Fail
  /\ UNCHANGED <<scenario, loop, iters, retrans, rx, toDev, losses, dev, delivered>>

\* Mutant of Belongs: any fresh message is taken for the reply.
BelongsAny(f) == f.op # "ack"

\* exchangeRT: the message is the peer's next one in our exchange.
Belongs(f) == f.op # "ack" /\ f.ex = ex

\* exchangeRT returns; roundTrip acknowledges the reply, Subscribe answers the
\* priming report with a StatusResponse, or acknowledges the SubscribeResponse.
Reply(f) ==
  /\ pc \in Exchange
  /\ iters <= MaxMessages
  /\ f \in toCtl /\ f.sec /\ f.ctr \notin rx /\ Belongs(f)
  /\ toCtl' = toCtl \ {f}
  /\ rx' = rx \cup {f.ctr}
  /\ \/ /\ pc = "reply"
        /\ AckMsg(f)
        /\ pc' = "idle"
        /\ result' = [result EXCEPT ![ex] = IF f.re = ex THEN "own" ELSE "other"]
        /\ UNCHANGED <<resend, iters, retrans>>
     \/ /\ pc = "prime"
        /\ LET sr == Frame(TRUE, "statusResponse", ex, tx, f.ctr)
           IN  /\ f.op = "report"
               /\ Await("subscribeResponse", sr)
               /\ toDev' = toDev \cup {sr}
        /\ tx' = tx + 1 /\ UNCHANGED result
     \/ /\ pc = "subscribeResponse"
        /\ f.op = "subscribeResponse"
        /\ AckMsg(f)
        /\ pc' = "listen"
        /\ UNCHANGED <<resend, iters, retrans, result>>
     \/ /\ pc = "prime" /\ f.op # "report"
        /\ pc' = "failed"
        /\ UNCHANGED <<resend, iters, retrans, result, toDev, tx>>
  /\ UNCHANGED <<scenario, ex, lastResp, losses, dev, delivered>>

\* Mutant of Retransmit: the frame is sealed again, with a new counter.
RetransmitSealed == toDev' = toDev \cup {[resend EXCEPT !.ctr = tx]} /\ tx' = tx + 1

\* The sent frame goes out again, byte for byte.
Retransmit == toDev' = toDev \cup {resend} /\ tx' = tx

\* Mutant of MayRetransmit: off by one.
MayRetransmitOnce == retrans + 1 < MaxRetransmits

MayRetransmit == retrans < MaxRetransmits

\* The attempt's deadline passed: retransmit, or give up.
Timeout ==
  /\ pc \in Handshake \cup Exchange
  /\ iters <= MaxMessages
  /\ Timely => Quiet
  /\ \/ /\ MayRetransmit
        /\ Retransmit
        /\ retrans' = retrans + 1
        /\ Iter
        /\ UNCHANGED <<pc, result>>
     \/ /\ ~MayRetransmit
        /\ Fail
        /\ UNCHANGED <<toDev, tx, retrans, iters>>
  /\ UNCHANGED <<scenario, ex, resend, rx, lastResp, toCtl, losses, dev, delivered>>

\* Too many messages without a matching reply, or the caller's context ended.
GiveUp ==
  /\ pc \in Handshake \cup Exchange
  /\ iters > MaxMessages
  /\ Fail
  /\ UNCHANGED <<scenario, loop, iters, retrans, rx, toDev, toCtl, losses, dev, delivered>>

CtxDone ==
  /\ pc \in Handshake \cup Exchange
  /\ ~Timely
  /\ Fail
  /\ UNCHANGED <<scenario, loop, iters, retrans, rx, toDev, toCtl, losses, dev, delivered>>

\* Listen: the device retransmitted.
ListenDuplicate(f) ==
  /\ f.ctr \in rx
  /\ IF lastResp # None /\ lastResp.ack = f.ctr
       THEN toDev' = toDev \cup {lastResp} /\ tx' = tx
       ELSE AckMsg(f)
  /\ UNCHANGED <<rx, lastResp, delivered>>

\* Mutant of ListenReport: duplicates are delivered too.
ListenReportAll(f) ==
  /\ f.op = "report"
  /\ LET sr == Frame(TRUE, "statusResponse", f.ex, tx, f.ctr)
     IN  toDev' = toDev \cup {sr} /\ lastResp' = sr
  /\ tx' = tx + 1
  /\ rx' = rx \cup {f.ctr}
  /\ delivered' = Append(delivered, f.re)

\* Listen: a fresh report is answered, then handed to the callback.
ListenReport(f) ==
  /\ f.ctr \notin rx /\ f.op = "report"
  /\ LET sr == Frame(TRUE, "statusResponse", f.ex, tx, f.ctr)
     IN  toDev' = toDev \cup {sr} /\ lastResp' = sr
  /\ tx' = tx + 1
  /\ rx' = rx \cup {f.ctr}
  /\ delivered' = Append(delivered, f.re)

\* Listen: standalone acks are skipped, other messages acknowledged.
ListenOther(f) ==
  /\ f.ctr \notin rx /\ f.op # "report"
  /\ IF f.op = "ack" THEN UNCHANGED <<toDev, tx>> ELSE AckMsg(f)
  /\ rx' = rx \cup {f.ctr}
  /\ UNCHANGED <<lastResp, delivered>>

Listen(f) ==
  /\ pc = "listen"
  /\ tx < MaxTx
  /\ f \in toCtl /\ toCtl' = toCtl \ {f}
  /\ \/ f.sec /\ (ListenDuplicate(f) \/ ListenReport(f) \/ ListenOther(f)) /\ UNCHANGED pc
     \/ ~f.sec /\ pc' = "failed" /\ UNCHANGED <<toDev, tx, rx, lastResp, delivered>>
  /\ UNCHANGED <<scenario, ex, resend, iters, retrans, losses, dev, result>>

-----------------------------------------------------------------------------
(***************************************************************************)
(* The device (external).                                                  *)
(***************************************************************************)

\* The device sends the reliable message f and waits for its ack.
DevSend(d, f) ==
  /\ toCtl' = toCtl \cup {f}
  /\ dev' = [d EXCEPT !.out = @ \cup {f}, !.tries = 0]

Unacked(f) == {o \in dev.out : o.sec # f.sec \/ o.ctr # f.ack}

\* Unsecured handshake frames.
DevHandshake(f) ==
  /\ ~f.sec
  /\ \/ /\ f.op = "sigma1" /\ dev.phase = "new"
        /\ \/ DevSend([dev EXCEPT !.phase = "sigma2"], DevFrame(FALSE, "sigma2", f.ex, 0, 0))
           \/ ~Timely /\ DevSend([dev EXCEPT !.phase = "closed"], DevFrame(FALSE, "reject", f.ex, 0, 0))
     \/ /\ f.op = "sigma3" /\ dev.phase = "sigma2"
        /\ DevSend([dev EXCEPT !.phase = "open", !.out = Unacked(f)],
                   DevFrame(FALSE, "statusReport", f.ex, 1, 0))
     \/ /\ f.op = "ack"
        /\ dev' = [dev EXCEPT !.out = Unacked(f)]
        /\ UNCHANGED toCtl
     \/ /\ \/ f.op = "sigma1" /\ dev.phase # "new"
           \/ f.op = "sigma3" /\ dev.phase # "sigma2"
        /\ toCtl' = toCtl \cup {o \in dev.out : ~o.sec}
        /\ UNCHANGED dev

\* A message of the secure session.
DevSecure(f) ==
  /\ f.sec /\ dev.phase = "open"
  /\ LET d == [dev EXCEPT !.rx = @ \cup {f.ctr}, !.out = Unacked(f)]
         answer(e, op) == DevSend([e EXCEPT !.tx = @ + 1], DevFrame(TRUE, op, f.ex, dev.tx, f.ex))
     IN  \/ /\ f.ctr \in dev.rx
            /\ toCtl' = toCtl \cup {o \in dev.out : o.sec}
            /\ UNCHANGED dev
         \/ /\ f.ctr \notin dev.rx
            /\ \/ /\ f.op = "ack"
                  /\ dev' = d /\ UNCHANGED toCtl
               \/ /\ f.op = "invoke"
                  /\ answer([d EXCEPT !.exec[f.ex] = @ + 1], "reply")
               \/ /\ f.op = "subscribe"
                  /\ \/ answer(d, "report")
                     \/ ~Timely /\ answer(d, "imStatus")
               \/ /\ f.op = "statusResponse" /\ f.ex < DevExchange(0)
                  /\ answer([d EXCEPT !.subscribed = TRUE], "subscribeResponse")
               \/ /\ f.op = "statusResponse" /\ f.ex >= DevExchange(0)
                  /\ dev' = [d EXCEPT !.answered = dev.reported]
                  /\ UNCHANGED toCtl

DevRecv(f) ==
  /\ f \in toDev /\ toDev' = toDev \ {f}
  /\ DevHandshake(f) \/ DevSecure(f)
  /\ UNCHANGED <<scenario, pc, iters, retrans, rx, loop, losses, hist>>

\* A subscribed attribute changed: the next report, on a new exchange.
DevReport ==
  /\ dev.subscribed /\ dev.reported < Reports /\ dev.answered = dev.reported
  /\ dev.out = {}
  /\ DevSend([dev EXCEPT !.tx = @ + 1, !.reported = @ + 1],
             DevFrame(TRUE, "report", DevExchange(dev.reported + 1), dev.tx, dev.reported + 1))
  /\ UNCHANGED <<scenario, pc, iters, retrans, rx, loop, toDev, losses, hist>>

\* The device's MRP timer.  A device that is not Timely is chatty: it may
\* repeat itself without limit.
DevTimeout ==
  /\ dev.out # {}
  /\ Timely => Quiet
  /\ \/ /\ dev.tries < MaxRetransmits \/ ~Timely
        /\ toCtl' = toCtl \cup dev.out
        /\ dev' = [dev EXCEPT !.tries = IF Timely THEN @ + 1 ELSE @,
                     !.statusResent = @ \/ \E o \in dev.out : o.op = "statusReport"]
     \/ /\ dev.tries = MaxRetransmits
        /\ dev' = [dev EXCEPT !.out = {}]
        /\ UNCHANGED toCtl
  /\ UNCHANGED <<scenario, pc, iters, retrans, rx, loop, toDev, losses, hist>>

\* The network loses a frame.
Lose ==
  /\ losses < MaxLosses
  /\ \/ \E f \in toDev : toDev' = toDev \ {f} /\ UNCHANGED toCtl
     \/ \E f \in toCtl : toCtl' = toCtl \ {f} /\ UNCHANGED toDev
  /\ losses' = losses + 1
  /\ UNCHANGED <<scenario, pc, iters, retrans, rx, loop, dev, hist>>

-----------------------------------------------------------------------------

Controller ==
  \/ \E f \in toCtl : AwaitSC(f) \/ Duplicate(f) \/ Skip(f) \/ Foreign(f) \/ Reply(f)
  \/ Timeout
  \/ GiveUp
  \/ CtxDone

Next ==
  \/ Controller
  \/ Call
  \/ Subscribe
  \/ \E f \in toCtl : Listen(f)
  \/ \E f \in toDev : DevRecv(f)
  \/ DevReport
  \/ DevTimeout
  \/ Lose

\* The receive loops run on: a message or the attempt's deadline ends each wait.
Fairness == WF_vars(Controller)

Spec == Init /\ [][Next]_vars /\ Fairness

-----------------------------------------------------------------------------
(***************************************************************************)
(* Properties.                                                             *)
(***************************************************************************)

\* A call returns the device's answer to that very call, never a late answer to
\* an earlier call that had timed out (exchangeRT's exchange-id check).
ReplyMatches == \A x \in 1..Calls : result[x] # "other"

\* Retransmitting a command never makes the device carry it out twice: the same
\* sealed frame goes out, so the device's replay filter recognises it.
AtMostOnce == \A x \in 1..Calls : dev.exec[x] <= 1

\* The subscriber's callback sees the device's reports in order and once each,
\* whatever is retransmitted, delayed or reordered (Listen's duplicate handling).
DeliveredInOrder == \A i \in 1..Len(delivered) : delivered[i] = i

\* Every receive loop ends, although each received message re-arms the attempt's
\* timer: it is the cap on iterations that ends a loop fed with duplicates.  (A
\* Timely timer waits for the network, which is not assumed to be fair.)
LoopsEnd ==
  (~Timely /\ pc \in Handshake \cup Exchange) ~> (pc \notin Handshake \cup Exchange)

\* Timers that fire only on loss, no more lost frames so far than there are
\* retransmissions and messages in a receive loop, and no StatusReport that the
\* device had to send again.
Mild ==
  Timely /\ losses <= MaxRetransmits /\ losses <= MaxMessages /\ ~dev.statusResent

\* Then losses never fail a handshake, a call or a subscription, nor do they leave
\* a report unanswered once the device has nothing more to send (Listen re-sends
\* the StatusResponse that was lost).
LossTolerated ==
  Mild =>
     /\ pc # "failed" /\ \A x \in 1..Calls : result[x] # "error"
     /\ (Quiet /\ dev.out = {}) => dev.answered = dev.reported

=============================================================================
