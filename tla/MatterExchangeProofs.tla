------------------------ MODULE MatterExchangeProofs ------------------------
(***************************************************************************)
(* What a controller's retransmissions can never do, whatever the network  *)
(* loses, delays and reorders: run a command twice, return the answer to   *)
(* another call, or deliver a report twice or out of order; and that they  *)
(* make up for as many losses as there are retransmissions.                *)
(***************************************************************************)
EXTENDS MatterExchange, TLAPS, FiniteSetTheorems

\* What the device may still get to see, and the controller: frames in flight
\* and those that either side can send again.
Sent == toDev \cup {resend} \cup ({lastResp} \ {None})
Heard == toCtl \cup dev.out

Requests(op) == {f \in Sent : f.op = op}
Primings == {f \in Heard : f.sec /\ f.op = "report" /\ f.ex = Calls + 1}
Updates == {f \in Heard : f.sec /\ f.op = "report" /\ f.ex # Calls + 1}
Responses == {f \in Sent : f.op = "statusResponse" /\ f.ex # Calls + 1}

\* A sealed frame keeps its counter.
SameCounter(F) == \A f, g \in F : f.ex = g.ex => f.ctr = g.ctr

-----------------------------------------------------------------------------

\* The fields of the device's record.
Shaped(d) ==
  d = [phase |-> d.phase, rx |-> d.rx, tx |-> d.tx, out |-> d.out, tries |-> d.tries,
       exec |-> d.exec, subscribed |-> d.subscribed, reported |-> d.reported,
       answered |-> d.answered, statusResent |-> d.statusResent]

\* Types, and how far the exchanges have come.
ShapeInv ==
  /\ scenario \in Scenarios
  /\ ex \in 0..(Calls + 1)
  /\ pc = "reply" => ex \in 1..Calls
  /\ pc \in {"prime", "subscribeResponse", "listen"} => ex = Calls + 1
  /\ Shaped(dev)
  /\ dev.exec \in [1..Calls -> Nat]
  /\ dev.reported \in Nat /\ dev.answered \in Nat
  /\ DOMAIN result = 1..Calls
  /\ delivered \in Seq(Nat)

\* Once a command has been carried out every frame that asks for it is known to
\* the device's replay filter.
CommandInv ==
  /\ \A f \in Requests("invoke") : f.ex \in 1..Calls /\ f.ex <= ex
  /\ SameCounter(Requests("invoke"))
  /\ \A x \in 1..Calls :
       /\ dev.exec[x] <= 1
       /\ dev.exec[x] > 0 => x <= ex /\ \A f \in Requests("invoke") : f.ex = x => f.ctr \in dev.rx

\* The device answers on the exchange of the request.
AnswerInv ==
  /\ \A f \in Heard : f.sec => f.re = f.ex \/ f \in Updates
  /\ ReplyMatches

\* There is one priming report, and the subscriber has seen it before it listens.
PrimingInv ==
  /\ \A f \in Requests("subscribe") : f.ex = Calls + 1
  /\ Requests("subscribe") # {} => ex = Calls + 1
  /\ SameCounter(Requests("subscribe"))
  /\ (Primings # {} \/ pc \in {"subscribeResponse", "listen"}) =>
       /\ ex = Calls + 1
       /\ \A f \in Requests("subscribe") : f.ctr \in dev.rx
  /\ SameCounter(Primings)
  /\ pc \in {"subscribeResponse", "listen"} => \A f \in Primings : f.ctr \in rx

\* Report and answer alternate: a report that was delivered is known to the
\* session's replay filter, and an answer that was taken to the device's.
ReportInv ==
  /\ pc \in Handshake => delivered = <<>>
  /\ dev.answered <= Len(delivered) /\ Len(delivered) <= dev.reported
  /\ dev.reported <= dev.answered + 1
  /\ \A f \in Updates :
       /\ f.re \in 1..dev.reported /\ f.ex = DevExchange(f.re)
       /\ f.re <= Len(delivered) => f.ctr \in rx
  /\ SameCounter(Updates)
  /\ \A f \in Responses : \E n \in 1..Len(delivered) :
       f.ex = DevExchange(n) /\ (n <= dev.answered => f.ctr \in dev.rx)
  /\ SameCounter(Responses)
  /\ DeliveredInOrder

ExchangeInv == ShapeInv /\ CommandInv /\ AnswerInv /\ PrimingInv /\ ReportInv

-----------------------------------------------------------------------------
(***************************************************************************)
(* The kinds of steps.                                                     *)
(***************************************************************************)

\* A frame that asks the device for nothing: it neither carries a command nor
\* answers an update.
Plain(f) == f.op \in {"ack", "sigma3"} \/ (f.op = "statusResponse" /\ f.ex = Calls + 1)

\* A step of the controller that opens no exchange and delivers no report.
CtlStep ==
  /\ scenario' = scenario /\ ex' = ex /\ dev' = dev /\ delivered' = delivered
  /\ toCtl' \subseteq toCtl
  /\ \A f \in Sent' : f \in Sent \/ Plain(f)
  /\ rx \subseteq rx' \/ pc \in Handshake
  /\ pc' \in Handshake => pc \in Handshake
  /\ pc' \in {"reply", "prime"} => pc' = pc
  /\ pc' \in {"subscribeResponse", "listen"} =>
       \/ pc \in {"subscribeResponse", "listen"}
       \/ pc = "prime" /\ \E f \in Primings : f.ctr \in rx'
  /\ \/ result' = result
     \/ ex \in 1..Calls /\ \E v \in {"own", "error"} : result' = [result EXCEPT ![ex] = v]

\* A step of the device: it forgets no counter.
DevStep ==
  /\ UNCHANGED <<scenario, pc, rx, loop, hist>>
  /\ toDev' \subseteq toDev
  /\ Shaped(dev') /\ dev.rx \subseteq dev'.rx

LEMMA CallsRange ==
  ASSUME scenario \in Scenarios PROVE Calls \in 0..98
BY ScenarioAssumption DEF Calls

-----------------------------------------------------------------------------
(***************************************************************************)
(* Steps of the controller.                                                *)
(***************************************************************************)

LEMMA SentGrows ==
  ASSUME NEW n, toDev' \subseteq toDev \cup {n}, resend' \in {resend, n}, lastResp' \in {lastResp, n}
  PROVE  Sent' \subseteq Sent \cup {n}
BY DEF Sent

LEMMA AwaitSCStep ==
  ASSUME ExchangeInv, NEW f \in toCtl, AwaitSC(f) PROVE CtlStep
<1> USE DEF AwaitSC
<1>1. UNCHANGED <<scenario, ex, dev, result, delivered, lastResp>>
      /\ toCtl' \subseteq toCtl /\ pc \in Handshake
  BY DEF loop, hist
<1>2. pc' \in Handshake \cup {"idle", "failed"}
  BY DEF Await, Handshake
<1>3. \A g \in Sent' : g \in Sent \/ Plain(g)
  <2>1. CASE toDev' \subseteq toDev \cup {resend} /\ resend' = resend
    BY <1>1, <2>1 DEF Sent
  <2>2. ASSUME NEW n, n.op \in {"ack", "sigma3"}, toDev' = toDev \cup {n}, resend' \in {resend, n}
        PROVE  \A g \in Sent' : g \in Sent \/ Plain(g)
    BY <1>1, <2>2, SentGrows DEF Plain
  <2>3. CASE f.sec \/ f.ctr \in rx
    BY <2>1, <2>3 DEF loop
  <2>4. CASE ~f.sec /\ f.ctr \notin rx
    <3>1. CASE pc = "sigma2" /\ f.op = pc /\ Await("statusReport", Frame(FALSE, "sigma3", ex, 1, f.ctr))
                 /\ toDev' = toDev \cup {Frame(FALSE, "sigma3", ex, 1, f.ctr)}
      <4>1. PICK n : n = Frame(FALSE, "sigma3", ex, 1, f.ctr)
        OBVIOUS
      <4>2. n.op = "sigma3" /\ toDev' = toDev \cup {n} /\ resend' = n
        BY <3>1, <4>1 DEF Frame, Await
      <4> QED BY <2>2, <4>2
    <3>2. CASE toDev' = toDev \cup {Frame(FALSE, "ack", ex, 2, f.ctr)} /\ resend' = resend
      <4>1. PICK n : n = Frame(FALSE, "ack", ex, 2, f.ctr)
        OBVIOUS
      <4>2. n.op = "ack" /\ toDev' = toDev \cup {n} /\ resend' = resend
        BY <3>2, <4>1 DEF Frame
      <4> QED BY <2>2, <4>2
    <3>3. CASE toDev' = toDev /\ resend' = resend
      BY <3>3, <2>1
    <3> QED BY <2>4, <3>1, <3>2, <3>3
  <2> QED BY <2>3, <2>4
<1> QED BY <1>1, <1>2, <1>3 DEF CtlStep, Handshake

LEMMA AckSent ==
  ASSUME NEW m, AckMsg(m), resend' = resend, lastResp' = lastResp
  PROVE  \A f \in Sent' : f \in Sent \/ Plain(f)
<1>1. PICK n : n = Frame(TRUE, "ack", m.ex, tx, m.ctr)
  OBVIOUS
<1>2. n.op = "ack" /\ toDev' = toDev \cup {n}
  BY <1>1 DEF Frame, AckMsg
<1> QED BY <1>2, SentGrows DEF Plain

LEMMA DuplicateStep ==
  ASSUME ExchangeInv, NEW f \in toCtl, Duplicate(f) PROVE CtlStep
<1>1. UNCHANGED <<scenario, ex, dev, result, delivered, lastResp, resend, pc, rx>> /\ toCtl' \subseteq toCtl
  BY DEF Duplicate, hist
<1>2. \A g \in Sent' : g \in Sent \/ Plain(g)
  <2>1. CASE toDev' = toDev \cup {resend}
    BY <1>1, <2>1 DEF Sent
  <2>2. CASE AckMsg(f)
    BY <1>1, <2>2, AckSent
  <2> QED BY <2>1, <2>2 DEF Duplicate
<1> QED BY <1>1, <1>2 DEF CtlStep

LEMMA SkipStep ==
  ASSUME ExchangeInv, NEW f \in toCtl, Skip(f) PROVE CtlStep
<1>1. UNCHANGED <<scenario, ex, dev, result, delivered, lastResp, resend, pc>> /\ toCtl' \subseteq toCtl
      /\ rx \subseteq rx'
  BY DEF Skip, hist
<1>2. \A g \in Sent' : g \in Sent \/ Plain(g)
  <2>1. CASE toDev' = toDev
    BY <1>1, <2>1 DEF Sent
  <2>2. CASE AckMsg(f)
    BY <1>1, <2>2, AckSent
  <2> QED BY <2>1, <2>2 DEF Skip
<1> QED BY <1>1, <1>2 DEF CtlStep

\* The receive loop ends with an error.
LEMMA FailStep ==
  ASSUME ExchangeInv, Fail, UNCHANGED <<scenario, loop, rx, toDev, dev, delivered>>,
         toCtl' \subseteq toCtl
  PROVE  CtlStep
<1>1. UNCHANGED <<ex, resend, lastResp>> /\ Sent' = Sent
  BY DEF loop, Sent
<1>2. CASE pc = "reply"
  <2>1. ex \in 1..Calls /\ pc' = "idle" /\ result' = [result EXCEPT ![ex] = "error"]
    BY <1>2 DEF Fail, ExchangeInv, ShapeInv
  <2> QED BY <1>1, <2>1 DEF CtlStep, Handshake
<1>3. CASE pc # "reply"
  <2>1. pc' = "failed" /\ result' = result
    BY <1>3 DEF Fail
  <2> QED BY <1>1, <2>1 DEF CtlStep, Handshake
<1> QED BY <1>2, <1>3

LEMMA TimeoutStep == ASSUME ExchangeInv, Timeout PROVE CtlStep
<1>1. UNCHANGED <<scenario, ex, resend, rx, lastResp, toCtl, dev, delivered>>
  BY DEF Timeout
<1>2. CASE Retransmit /\ UNCHANGED <<pc, result>>
  <2>1. Sent' \subseteq Sent
    BY <1>1, <1>2 DEF Retransmit, Sent
  <2> QED BY <1>1, <1>2, <2>1 DEF CtlStep
<1>3. CASE Fail /\ UNCHANGED <<toDev, tx>>
  BY <1>1, <1>3, FailStep DEF loop
<1> QED BY <1>2, <1>3 DEF Timeout

LEMMA ReplyStep ==
  ASSUME ExchangeInv, NEW f \in toCtl, Reply(f) PROVE CtlStep
<1>1. UNCHANGED <<scenario, ex, dev, delivered, lastResp>> /\ toCtl' \subseteq toCtl
      /\ rx \subseteq rx' /\ f.ctr \in rx'
  BY DEF Reply
<1>f. f.sec /\ f.ex = ex /\ f \in Heard
  BY DEF Reply, Belongs, Heard
<1>c. Calls \in 0..98
  BY CallsRange DEF ExchangeInv, ShapeInv
<1>2. CASE pc = "reply" /\ AckMsg(f) /\ pc' = "idle" /\ resend' = resend
             /\ result' = [result EXCEPT ![ex] = IF f.re = ex THEN "own" ELSE "other"]
  <2>1. ex \in 1..Calls
    BY <1>2 DEF ExchangeInv, ShapeInv
  <2>2. f \notin Updates
    <3> SUFFICES ASSUME f \in Updates PROVE FALSE
      OBVIOUS
    <3>1. f.re \in 1..dev.reported /\ f.ex = 100 + f.re
      BY DEF ExchangeInv, ReportInv, DevExchange
    <3> QED BY <1>f, <1>c, <2>1, <3>1
  <2>3. f.re = ex
    BY <1>f, <2>2 DEF ExchangeInv, AnswerInv
  <2>4. result' = [result EXCEPT ![ex] = "own"]
    BY <1>2, <2>3
  <2>5. \A g \in Sent' : g \in Sent \/ Plain(g)
    BY <1>1, <1>2, AckSent
  <2> QED BY <1>1, <1>2, <2>1, <2>4, <2>5 DEF CtlStep, Handshake
<1>3. CASE /\ pc = "prime" /\ f.op = "report"
           /\ Await("subscribeResponse", Frame(TRUE, "statusResponse", ex, tx, f.ctr))
           /\ toDev' = toDev \cup {Frame(TRUE, "statusResponse", ex, tx, f.ctr)}
           /\ UNCHANGED result
  <2>1. ex = Calls + 1
    BY <1>3 DEF ExchangeInv, ShapeInv
  <2>2. f \in Primings
    BY <1>f, <1>3, <2>1 DEF Primings
  <2>3. PICK n : n = Frame(TRUE, "statusResponse", ex, tx, f.ctr)
    OBVIOUS
  <2>4. n.op = "statusResponse" /\ n.ex = Calls + 1 /\ toDev' = toDev \cup {n} /\ resend' = n
        /\ pc' = "subscribeResponse"
    BY <1>3, <2>1, <2>3 DEF Frame, Await
  <2>5. \A g \in Sent' : g \in Sent \/ Plain(g)
    BY <1>1, <2>4, SentGrows DEF Plain
  <2> QED BY <1>1, <1>3, <2>2, <2>4, <2>5 DEF CtlStep, Handshake
<1>4. CASE pc = "subscribeResponse" /\ AckMsg(f) /\ pc' = "listen" /\ UNCHANGED <<resend, result>>
  <2>1. \A g \in Sent' : g \in Sent \/ Plain(g)
    BY <1>1, <1>4, AckSent
  <2> QED BY <1>1, <1>4, <2>1 DEF CtlStep, Handshake
<1>5. CASE pc' = "failed" /\ UNCHANGED <<resend, result, toDev>>
  <2>1. Sent' = Sent
    BY <1>1, <1>5 DEF Sent
  <2> QED BY <1>1, <1>5, <2>1 DEF CtlStep, Handshake
<1> QED BY <1>2, <1>3, <1>4, <1>5 DEF Reply

\* Listen, unless it delivers a report.
LEMMA ListenStep ==
  ASSUME ExchangeInv, NEW f \in toCtl, Listen(f), ~(f.sec /\ ListenReport(f)) PROVE CtlStep
<1>1. UNCHANGED <<scenario, ex, resend, dev, result>> /\ toCtl' \subseteq toCtl /\ pc = "listen"
      /\ pc' \in {pc, "failed"}
  BY DEF Listen
<1>2. CASE ListenDuplicate(f)
  <2>1. UNCHANGED <<rx, lastResp, delivered>>
    BY <1>2 DEF ListenDuplicate
  <2>2. CASE lastResp # None /\ toDev' = toDev \cup {lastResp}
    <3>1. Sent' \subseteq Sent
      BY <1>1, <2>1, <2>2 DEF Sent
    <3> QED BY <1>1, <2>1, <3>1 DEF CtlStep, Handshake
  <2>3. CASE AckMsg(f)
    <3>1. \A g \in Sent' : g \in Sent \/ Plain(g)
      BY <1>1, <2>1, <2>3, AckSent
    <3> QED BY <1>1, <2>1, <3>1 DEF CtlStep, Handshake
  <2> QED BY <1>2, <2>2, <2>3 DEF ListenDuplicate
<1>3. CASE ListenOther(f)
  <2>1. UNCHANGED <<lastResp, delivered>> /\ rx \subseteq rx'
    BY <1>3 DEF ListenOther
  <2>2. CASE toDev' = toDev
    <3>1. Sent' \subseteq Sent
      BY <1>1, <2>1, <2>2 DEF Sent
    <3> QED BY <1>1, <2>1, <3>1 DEF CtlStep, Handshake
  <2>3. CASE AckMsg(f)
    <3>1. \A g \in Sent' : g \in Sent \/ Plain(g)
      BY <1>1, <2>1, <2>3, AckSent
    <3> QED BY <1>1, <2>1, <3>1 DEF CtlStep, Handshake
  <2> QED BY <1>3, <2>2, <2>3 DEF ListenOther
<1>4. CASE UNCHANGED <<toDev, tx, rx, lastResp, delivered>>
  <2>1. Sent' \subseteq Sent
    BY <1>1, <1>4 DEF Sent
  <2> QED BY <1>1, <1>4, <2>1 DEF CtlStep, Handshake
<1> QED BY <1>2, <1>3, <1>4 DEF Listen

-----------------------------------------------------------------------------
(***************************************************************************)
(* The invariant under the steps of the controller.                        *)
(***************************************************************************)

LEMMA CtlStepInv == ASSUME ExchangeInv, CtlStep PROVE ExchangeInv'
<1>1. scenario' = scenario /\ ex' = ex /\ dev' = dev /\ delivered' = delivered /\ toCtl' \subseteq toCtl
  BY DEF CtlStep
<1>2. Calls' = Calls /\ Calls \in 0..98
  BY <1>1, CallsRange DEF Calls, ExchangeInv, ShapeInv
<1>3. Heard' \subseteq Heard
  BY <1>1 DEF Heard
<1>4. Primings' \subseteq Primings /\ Updates' \subseteq Updates
  BY <1>2, <1>3 DEF Primings, Updates
<1>5. Requests("invoke")' \subseteq Requests("invoke") /\ Requests("subscribe")' \subseteq Requests("subscribe")
  BY DEF CtlStep, Requests, Plain
<1>6. Responses' \subseteq Responses
  BY <1>2 DEF CtlStep, Responses, Plain
<1>r. \/ result' = result
      \/ ex \in 1..Calls /\ \E v \in {"own", "error"} : result' = [result EXCEPT ![ex] = v]
  BY DEF CtlStep
<1>7. ShapeInv'
  <2>1. DOMAIN result' = 1..Calls'
    BY <1>2, <1>r DEF ExchangeInv, ShapeInv
  <2>2. pc' = "reply" => ex' \in 1..Calls'
    BY <1>1, <1>2 DEF CtlStep, ExchangeInv, ShapeInv
  <2>3. pc' \in {"prime", "subscribeResponse", "listen"} => ex' = Calls' + 1
    BY <1>1, <1>2 DEF CtlStep, ExchangeInv, ShapeInv
  <2> QED BY <1>1, <1>2, <2>1, <2>2, <2>3 DEF ExchangeInv, ShapeInv
<1>8. CommandInv'
  BY <1>1, <1>2, <1>5 DEF ExchangeInv, CommandInv, SameCounter
<1>9. AnswerInv'
  <2>1. ASSUME NEW f \in Heard', f.sec PROVE f.re = f.ex \/ f \in Updates'
    BY <1>2, <1>3, <2>1 DEF ExchangeInv, AnswerInv, Updates
  <2>2. ReplyMatches'
    BY <1>2, <1>r DEF ExchangeInv, ShapeInv, AnswerInv, ReplyMatches
  <2> QED BY <2>1, <2>2 DEF AnswerInv
<1>10. PrimingInv'
  <2>1. ASSUME pc' \in {"subscribeResponse", "listen"}
        PROVE  (pc \in {"subscribeResponse", "listen"} \/ Primings # {}) /\ \A f \in Primings : f.ctr \in rx'
    <3>1. CASE pc \in {"subscribeResponse", "listen"}
      <4>1. rx \subseteq rx'
        BY <3>1 DEF CtlStep, Handshake
      <4> QED BY <3>1, <4>1 DEF ExchangeInv, PrimingInv
    <3>2. CASE \E f \in Primings : f.ctr \in rx'
      <4>1. \A f, g \in Primings : f.ctr = g.ctr
        BY DEF ExchangeInv, PrimingInv, SameCounter, Primings
      <4> QED BY <3>2, <4>1
    <3> QED BY <2>1, <3>1, <3>2 DEF CtlStep
  <2>2. (Primings' # {} \/ pc' \in {"subscribeResponse", "listen"}) =>
          ex' = Calls' + 1 /\ \A f \in Requests("subscribe")' : f.ctr \in dev'.rx
    BY <1>1, <1>2, <1>4, <1>5, <2>1 DEF ExchangeInv, PrimingInv
  <2>3. SameCounter(Requests("subscribe"))' /\ SameCounter(Primings)'
    BY <1>4, <1>5 DEF ExchangeInv, PrimingInv, SameCounter
  <2>4. pc' \in {"subscribeResponse", "listen"} => \A f \in Primings' : f.ctr \in rx'
    BY <1>4, <2>1
  <2>5. (\A f \in Requests("subscribe")' : f.ex = Calls' + 1) /\ (Requests("subscribe")' # {} => ex' = Calls' + 1)
    BY <1>1, <1>2, <1>5 DEF ExchangeInv, PrimingInv
  <2> QED BY <2>2, <2>3, <2>4, <2>5 DEF PrimingInv
<1>11. ReportInv'
  <2>1. pc' \in Handshake => delivered' = <<>>
    BY <1>1 DEF CtlStep, ExchangeInv, ReportInv
  <2>2. \A f \in Updates : f.re <= Len(delivered) => f.ctr \in rx'
    <3>1. CASE rx \subseteq rx'
      BY <3>1 DEF ExchangeInv, ReportInv
    <3>2. CASE pc \in Handshake
      <4>1. Len(delivered) = 0
        BY <3>2 DEF ExchangeInv, ReportInv
      <4> QED BY <4>1 DEF ExchangeInv, ReportInv
    <3> QED BY <3>1, <3>2 DEF CtlStep
  <2>3. \A f \in Updates' : f.re \in 1..dev'.reported /\ f.ex = DevExchange(f.re)
                             /\ (f.re <= Len(delivered') => f.ctr \in rx')
    BY <1>1, <1>4, <2>2 DEF ExchangeInv, ReportInv
  <2>4. SameCounter(Updates)' /\ SameCounter(Responses)'
    BY <1>4, <1>6 DEF ExchangeInv, ReportInv, SameCounter
  <2>5. \A f \in Responses' : \E n \in 1..Len(delivered') :
          f.ex = DevExchange(n) /\ (n <= dev'.answered => f.ctr \in dev'.rx)
    BY <1>1, <1>6 DEF ExchangeInv, ReportInv
  <2>6. DeliveredInOrder' /\ dev'.answered <= Len(delivered') /\ Len(delivered') <= dev'.reported
        /\ dev'.reported <= dev'.answered + 1
    BY <1>1 DEF ExchangeInv, ReportInv, DeliveredInOrder
  <2> QED BY <2>1, <2>3, <2>4, <2>5, <2>6 DEF ReportInv
<1> QED BY <1>7, <1>8, <1>9, <1>10, <1>11 DEF ExchangeInv

\* roundTrip and Subscribe seal one frame, on an exchange that no other frame uses.
LEMMA StartFrame ==
  ASSUME ExchangeInv, NEW loopPc, NEW op, Start(loopPc, op),
         loopPc \in {"reply", "prime"}, op \in {"invoke", "subscribe"}
  PROVE  /\ UNCHANGED <<scenario, rx, toCtl, dev, result, delivered>> /\ Calls' = Calls
         /\ ex' = ex + 1 /\ pc' = loopPc
         /\ Heard' = Heard /\ Primings' = Primings /\ Updates' = Updates /\ Responses' \subseteq Responses
         /\ \E n : n.op = op /\ n.ex = ex + 1 /\ Sent' \subseteq Sent \cup {n}
<1>1. UNCHANGED <<scenario, rx, lastResp, toCtl, dev, result, delivered>> /\ ex' = ex + 1 /\ pc' = loopPc
  BY DEF Start, hist, Await
<1>2. Calls' = Calls
  BY <1>1 DEF Calls
<1>3. PICK n : n = Frame(TRUE, op, ex + 1, tx, NoAck)
  OBVIOUS
<1>4. n.op = op /\ n.ex = ex + 1 /\ toDev' = toDev \cup {n} /\ resend' = n
  BY <1>1, <1>3 DEF Start, Frame, Await
<1>5. Sent' \subseteq Sent \cup {n}
  BY <1>1, <1>4, SentGrows
<1>6. Responses' \subseteq Responses
  BY <1>2, <1>4, <1>5 DEF Responses
<1>7. Heard' = Heard
  BY <1>1 DEF Heard
<1>8. Primings' = Primings /\ Updates' = Updates
  BY <1>2, <1>7 DEF Primings, Updates
<1> QED BY <1>1, <1>2, <1>4, <1>5, <1>6, <1>7, <1>8

LEMMA StartInv ==
  ASSUME ExchangeInv, Call \/ Subscribe PROVE ExchangeInv'
<1>c. Calls \in 0..98 /\ ex \in Nat
  BY CallsRange DEF ExchangeInv, ShapeInv
<1>1. PICK loopPc, op : /\ Start(loopPc, op)
                        /\ \/ loopPc = "reply" /\ op = "invoke" /\ ex < Calls
                           \/ loopPc = "prime" /\ op = "subscribe" /\ ex = Calls
  BY DEF Call, Subscribe
<1>2. /\ UNCHANGED <<scenario, rx, toCtl, dev, result, delivered>> /\ Calls' = Calls
      /\ ex' = ex + 1 /\ pc' = loopPc
      /\ Heard' = Heard /\ Primings' = Primings /\ Updates' = Updates /\ Responses' \subseteq Responses
  BY <1>1, StartFrame
<1>3. PICK n : n.op = op /\ n.ex = ex + 1 /\ Sent' \subseteq Sent \cup {n}
  BY <1>1, StartFrame
<1>4. Primings = {} /\ Requests("subscribe") = {}
  BY <1>1, <1>c DEF ExchangeInv, PrimingInv
<1>5. ShapeInv'
  BY <1>1, <1>2, <1>c DEF ExchangeInv, ShapeInv
<1>6. CommandInv'
  <2>1. \A f \in Requests("invoke")' : f \in Requests("invoke") \/ (f = n /\ op = "invoke" /\ ex < Calls)
    BY <1>1, <1>3 DEF Requests
  <2>2. \A f \in Requests("invoke")' : f.ex \in 1..Calls' /\ f.ex <= ex'
    BY <1>2, <1>3, <1>c, <2>1 DEF ExchangeInv, CommandInv
  <2>3. SameCounter(Requests("invoke"))'
    BY <1>3, <1>c, <2>1 DEF ExchangeInv, CommandInv, SameCounter
  <2>4. ASSUME NEW x \in 1..Calls'
        PROVE  /\ dev'.exec[x] <= 1
               /\ dev'.exec[x] > 0 => x <= ex' /\ \A f \in Requests("invoke")' : f.ex = x => f.ctr \in dev'.rx
    BY <1>2, <1>3, <1>c, <2>1 DEF ExchangeInv, CommandInv
  <2> QED BY <2>2, <2>3, <2>4 DEF CommandInv
<1>7. AnswerInv'
  BY <1>2 DEF ExchangeInv, AnswerInv, ReplyMatches
<1>8. PrimingInv'
  <2>1. \A f \in Requests("subscribe")' : f = n /\ op = "subscribe" /\ ex = Calls
    BY <1>1, <1>3, <1>4 DEF Requests
  <2>2. Primings' = {} /\ pc' \notin {"subscribeResponse", "listen"}
    BY <1>1, <1>2, <1>4
  <2> QED BY <1>2, <1>3, <2>1, <2>2 DEF PrimingInv, SameCounter
<1>9. ReportInv'
  <2>1. SameCounter(Updates)' /\ SameCounter(Responses)'
    BY <1>2 DEF ExchangeInv, ReportInv, SameCounter
  <2>2. pc' \notin Handshake
    BY <1>1, <1>2 DEF Handshake
  <2> QED BY <1>2, <2>1, <2>2 DEF ExchangeInv, ReportInv, DeliveredInOrder
<1> QED BY <1>5, <1>6, <1>7, <1>8, <1>9 DEF ExchangeInv

\* Listen delivers a report only if it is the next one, and seals the first
\* answer to it.
LEMMA DeliverInv ==
  ASSUME ExchangeInv, NEW f \in toCtl, Listen(f), f.sec, ListenReport(f) PROVE ExchangeInv'
<1> DEFINE m == Len(delivered)
<1>c. Calls \in 0..98 /\ ex \in Nat /\ delivered \in Seq(Nat) /\ m \in Nat
      /\ dev.reported \in Nat /\ dev.answered \in Nat
  BY CallsRange DEF ExchangeInv, ShapeInv
<1>1. UNCHANGED <<scenario, ex, resend, dev, result>> /\ toCtl' \subseteq toCtl /\ pc = "listen" /\ pc' = pc
  BY DEF Listen, ListenReport
<1>2. f.ctr \notin rx /\ rx' = rx \cup {f.ctr} /\ delivered' = Append(delivered, f.re) /\ f.op = "report"
  BY DEF ListenReport
<1>3. Calls' = Calls
  BY <1>1 DEF Calls
<1>4. PICK n : n = Frame(TRUE, "statusResponse", f.ex, tx, f.ctr)
  OBVIOUS
<1>5. n.op = "statusResponse" /\ n.ex = f.ex /\ toDev' = toDev \cup {n} /\ lastResp' = n
  BY <1>4 DEF ListenReport, Frame
<1>6. Sent' \subseteq Sent \cup {n}
  BY <1>1, <1>5, SentGrows
<1>7. Heard' \subseteq Heard /\ f \in Heard
  BY <1>1 DEF Heard
<1>8. Primings' \subseteq Primings /\ Updates' \subseteq Updates
  BY <1>3, <1>7 DEF Primings, Updates
<1>9. \A g \in Responses' : g \in Responses \/ g = n
  BY <1>3, <1>6 DEF Responses
<1>10. Requests("invoke")' \subseteq Requests("invoke") /\ Requests("subscribe")' \subseteq Requests("subscribe")
  BY <1>5, <1>6 DEF Requests
<1>11. f \notin Primings
  BY <1>1, <1>2 DEF ExchangeInv, PrimingInv
<1>12. f \in Updates
  BY <1>2, <1>7, <1>11 DEF Primings, Updates
<1>13. f.re \in 1..dev.reported /\ f.ex = DevExchange(f.re) /\ ~(f.re <= m)
  BY <1>2, <1>12 DEF ExchangeInv, ReportInv
<1>14. m <= dev.reported /\ dev.reported <= dev.answered + 1 /\ dev.answered <= m
  BY DEF ExchangeInv, ReportInv
<1>15. f.re = m + 1 /\ dev.reported = m + 1 /\ dev.answered = m
  BY <1>c, <1>13, <1>14
<1>16. Len(delivered') = m + 1 /\ delivered' \in Seq(Nat)
       /\ delivered'[m + 1] = f.re /\ \A i \in 1..m : delivered'[i] = delivered[i]
  BY <1>2, <1>c, <1>15
<1>17. ShapeInv'
  BY <1>1, <1>3, <1>16 DEF ExchangeInv, ShapeInv
<1>18. CommandInv'
  BY <1>1, <1>3, <1>10 DEF ExchangeInv, CommandInv, SameCounter
<1>19. AnswerInv'
  <2>1. ASSUME NEW g \in Heard', g.sec PROVE g.re = g.ex \/ g \in Updates'
    BY <1>3, <1>7, <2>1 DEF ExchangeInv, AnswerInv, Updates
  <2> QED BY <1>1, <1>3, <2>1 DEF ExchangeInv, AnswerInv, ReplyMatches
<1>20. PrimingInv'
  BY <1>1, <1>2, <1>3, <1>8, <1>10 DEF ExchangeInv, PrimingInv, SameCounter
<1>21. ReportInv'
  <2>1. ASSUME NEW g \in Updates'
        PROVE  /\ g.re \in 1..dev'.reported /\ g.ex = DevExchange(g.re)
               /\ g.re <= Len(delivered') => g.ctr \in rx'
    <3>1. g \in Updates /\ g.re \in 1..dev.reported /\ g.ex = DevExchange(g.re)
      BY <1>8, <2>1 DEF ExchangeInv, ReportInv
    <3>2. CASE g.re <= m
      BY <1>1, <1>2, <3>1, <3>2 DEF ExchangeInv, ReportInv
    <3>3. CASE g.re = m + 1
      <4>1. g.ctr = f.ctr
        BY <1>12, <1>13, <1>15, <3>1, <3>3 DEF ExchangeInv, ReportInv, SameCounter
      <4> QED BY <1>1, <1>2, <3>1, <4>1
    <3> QED BY <1>1, <1>15, <1>c, <3>1, <3>2, <3>3
  <2>2. SameCounter(Updates)'
    BY <1>8 DEF ExchangeInv, ReportInv, SameCounter
  <2>3. ASSUME NEW g \in Responses
        PROVE  \E k \in 1..m : g.ex = DevExchange(k) /\ (k <= dev.answered => g.ctr \in dev.rx)
    BY DEF ExchangeInv, ReportInv
  <2>4. ASSUME NEW g \in Responses'
        PROVE  \E k \in 1..Len(delivered') :
                 g.ex = DevExchange(k) /\ (k <= dev'.answered => g.ctr \in dev'.rx)
    <3>1. CASE g \in Responses
      BY <1>1, <1>16, <1>c, <2>3, <3>1
    <3>2. CASE g = n
      <4>1. m + 1 \in 1..Len(delivered') /\ g.ex = DevExchange(m + 1) /\ ~(m + 1 <= dev'.answered)
        BY <1>1, <1>5, <1>13, <1>15, <1>16, <1>c, <3>2
      <4> QED BY <4>1
    <3> QED BY <1>9, <2>4, <3>1, <3>2
  <2>5. SameCounter(Responses)'
    <3>1. \A g \in Responses : g.ex # n.ex
      BY <1>5, <1>13, <1>15, <1>c, <2>3 DEF DevExchange
    <3> QED BY <1>9, <3>1 DEF ExchangeInv, ReportInv, SameCounter
  <2>6. DeliveredInOrder'
    BY <1>15, <1>16, <1>c, SMTT(40) DEF ExchangeInv, ReportInv, DeliveredInOrder
  <2>7. dev'.answered <= Len(delivered') /\ Len(delivered') <= dev'.reported
        /\ dev'.reported <= dev'.answered + 1 /\ pc' \notin Handshake
    BY <1>1, <1>15, <1>16, <1>c DEF Handshake
  <2> QED BY <2>1, <2>2, <2>4, <2>5, <2>6, <2>7 DEF ReportInv
<1> QED BY <1>17, <1>18, <1>19, <1>20, <1>21 DEF ExchangeInv

-----------------------------------------------------------------------------
(***************************************************************************)
(* Steps of the device.                                                    *)
(***************************************************************************)

LEMMA DevUnchanged ==
  ASSUME ExchangeInv, DevStep
  PROVE  /\ UNCHANGED <<pc, ex, rx, result, delivered>> /\ Calls' = Calls /\ Calls \in 0..98
         /\ Requests("invoke")' \subseteq Requests("invoke")
         /\ Requests("subscribe")' \subseteq Requests("subscribe")
         /\ Responses' \subseteq Responses
<1>1. UNCHANGED <<scenario, pc, ex, rx, resend, lastResp, result, delivered>> /\ toDev' \subseteq toDev
  BY DEF DevStep, loop, hist
<1>2. Calls' = Calls /\ Calls \in 0..98
  BY <1>1, CallsRange DEF Calls, ExchangeInv, ShapeInv
<1>3. Sent' \subseteq Sent
  BY <1>1 DEF Sent
<1> QED BY <1>1, <1>2, <1>3 DEF Requests, Responses

LEMMA DevShape ==
  ASSUME ExchangeInv, DevStep, dev'.exec \in [1..Calls -> Nat],
         dev'.reported \in Nat, dev'.answered \in Nat
  PROVE  ShapeInv'
BY DevUnchanged DEF DevStep, ExchangeInv, ShapeInv

LEMMA DevCommand ==
  ASSUME ExchangeInv, DevStep, dev'.exec = dev.exec PROVE CommandInv'
BY DevUnchanged DEF DevStep, ExchangeInv, CommandInv, SameCounter

LEMMA DevAnswer ==
  ASSUME ExchangeInv, DevStep,
         \A g \in Heard' : g \in Heard \/ ~g.sec \/ g.re = g.ex \/ g \in Updates'
  PROVE  AnswerInv'
<1>1. Calls' = Calls /\ result' = result
  BY DevUnchanged
<1>2. ASSUME NEW g \in Heard', g.sec PROVE g.re = g.ex \/ g \in Updates'
  BY <1>1, <1>2 DEF ExchangeInv, AnswerInv, Updates
<1> QED BY <1>1, <1>2 DEF ExchangeInv, AnswerInv, ReplyMatches

LEMMA DevPriming ==
  ASSUME ExchangeInv, DevStep, Primings' \subseteq Primings PROVE PrimingInv'
BY DevUnchanged DEF DevStep, ExchangeInv, PrimingInv, SameCounter

LEMMA DevReports ==
  ASSUME ExchangeInv, DevStep, Updates' \subseteq Updates,
         dev'.reported = dev.reported, dev'.answered = dev.answered
  PROVE  ReportInv'
<1>1. UNCHANGED <<pc, rx, delivered>> /\ Responses' \subseteq Responses /\ dev.rx \subseteq dev'.rx
  BY DevUnchanged DEF DevStep
<1>2. SameCounter(Updates)' /\ SameCounter(Responses)'
  BY <1>1 DEF ExchangeInv, ReportInv, SameCounter
<1>3. \A f \in Responses' : \E n \in 1..Len(delivered') :
        f.ex = DevExchange(n) /\ (n <= dev'.answered => f.ctr \in dev'.rx)
  BY <1>1 DEF ExchangeInv, ReportInv
<1> QED BY <1>1, <1>2, <1>3 DEF ExchangeInv, ReportInv, DeliveredInOrder

\* The device learns nothing but counters, and says nothing but answers.
DevQuiet ==
  /\ DevStep
  /\ dev'.exec = dev.exec /\ dev'.reported = dev.reported /\ dev'.answered = dev.answered
  /\ \A g \in Heard' : g \in Heard \/ ~g.sec \/ (g.re = g.ex /\ g.op # "report")

LEMMA DevQuietInv == ASSUME ExchangeInv, DevQuiet PROVE ExchangeInv'
<1>1. DevStep /\ Calls' = Calls
  BY DevUnchanged DEF DevQuiet
<1>2. Primings' \subseteq Primings /\ Updates' \subseteq Updates
  BY <1>1 DEF DevQuiet, Primings, Updates
<1>3. ShapeInv'
  BY <1>1, DevShape DEF DevQuiet, ExchangeInv, ShapeInv
<1>4. AnswerInv'
  BY <1>1, DevAnswer DEF DevQuiet
<1> QED BY <1>1, <1>2, <1>3, <1>4, DevCommand, DevPriming, DevReports DEF DevQuiet, ExchangeInv

-----------------------------------------------------------------------------

LEMMA SendFields ==
  ASSUME NEW d, Shaped(d), NEW n, DevSend(d, n)
  PROVE  /\ Shaped(dev') /\ dev'.out = d.out \cup {n} /\ toCtl' = toCtl \cup {n}
         /\ dev'.rx = d.rx /\ dev'.exec = d.exec
         /\ dev'.reported = d.reported /\ dev'.answered = d.answered
BY DEF DevSend, Shaped

\* The device after it has taken f, and its answer to f.
Taken(f) == [dev EXCEPT !.rx = @ \cup {f.ctr}, !.out = Unacked(f)]
Answer(e, f, op) == DevSend([e EXCEPT !.tx = @ + 1], DevFrame(TRUE, op, f.ex, dev.tx, f.ex))

LEMMA TakenFields ==
  ASSUME ExchangeInv, NEW f
  PROVE  /\ Shaped(Taken(f)) /\ Taken(f).rx = dev.rx \cup {f.ctr} /\ Taken(f).out \subseteq dev.out
         /\ Taken(f).exec = dev.exec
         /\ Taken(f).reported = dev.reported /\ Taken(f).answered = dev.answered
<1>1. Unacked(f) \subseteq dev.out
  BY DEF Unacked
<1>2. PICK u : u = Unacked(f)
  OBVIOUS
<1>3. PICK t : t = [dev EXCEPT !.rx = @ \cup {f.ctr}, !.out = u]
  OBVIOUS
<1>4. /\ Shaped(t) /\ t.rx = dev.rx \cup {f.ctr} /\ t.out = u
      /\ t.exec = dev.exec /\ t.reported = dev.reported /\ t.answered = dev.answered
  BY <1>3 DEF Shaped, ExchangeInv, ShapeInv
<1> QED BY <1>1, <1>2, <1>3, <1>4 DEF Taken

LEMMA AnswerFields ==
  ASSUME NEW e, Shaped(e), NEW f, NEW op, Answer(e, f, op)
  PROVE  /\ Shaped(dev') /\ dev'.rx = e.rx /\ dev'.exec = e.exec
         /\ dev'.reported = e.reported /\ dev'.answered = e.answered
         /\ \E n : /\ n.sec /\ n.op = op /\ n.ex = f.ex /\ n.re = f.ex
                   /\ toCtl' = toCtl \cup {n} /\ dev'.out = e.out \cup {n}
<1>1. PICK d : d = [e EXCEPT !.tx = @ + 1]
  OBVIOUS
<1>2. /\ Shaped(d) /\ d.rx = e.rx /\ d.exec = e.exec /\ d.out = e.out
      /\ d.reported = e.reported /\ d.answered = e.answered
  BY <1>1 DEF Shaped
<1>3. PICK n : n = DevFrame(TRUE, op, f.ex, dev.tx, f.ex)
  OBVIOUS
<1>4. n.sec /\ n.op = op /\ n.ex = f.ex /\ n.re = f.ex
  BY <1>3 DEF DevFrame
<1>5. DevSend(d, n)
  BY <1>1, <1>3 DEF Answer
<1> QED BY <1>2, <1>4, <1>5, SendFields

LEMMA DevSecureCases ==
  ASSUME NEW f, DevSecure(f)
  PROVE  \/ toCtl' \subseteq toCtl \cup dev.out /\ dev' = dev
         \/ /\ f.ctr \notin dev.rx
            /\ \/ dev' = Taken(f) /\ toCtl' = toCtl
               \/ f.op = "invoke" /\ Answer([Taken(f) EXCEPT !.exec[f.ex] = @ + 1], f, "reply")
               \/ f.op = "subscribe" /\ (Answer(Taken(f), f, "report") \/ Answer(Taken(f), f, "imStatus"))
               \/ Answer([Taken(f) EXCEPT !.subscribed = TRUE], f, "subscribeResponse")
               \/ /\ f.op = "statusResponse" /\ f.ex >= DevExchange(0)
                  /\ dev' = [Taken(f) EXCEPT !.answered = dev.reported] /\ toCtl' = toCtl
<1>1. CASE f.ctr \in dev.rx /\ toCtl' = toCtl \cup {o \in dev.out : o.sec} /\ UNCHANGED dev
  BY <1>1
<1>2. CASE f.ctr \notin dev.rx
  BY <1>2 DEF DevSecure, Taken, Answer
<1> QED BY <1>1, <1>2 DEF DevSecure

\* The device has taken f, which was in flight.
LEMMA TakenStep ==
  ASSUME ExchangeInv, NEW f \in toDev, DevRecv(f), Shaped(dev'), dev.rx \subseteq dev'.rx
  PROVE  DevStep
BY DEF DevRecv, DevStep

LEMMA Counted ==
  ASSUME NEW S, NEW g \in [S -> Nat], NEW x \in S, g[x] = 0,
         NEW h, h = [g EXCEPT ![x] = @ + 1]
  PROVE  h[x] = 1 /\ h \in [S -> Nat] /\ \A y \in S : y # x => h[y] = g[y]
OBVIOUS

LEMMA InvokeInv ==
  ASSUME ExchangeInv, NEW f \in toDev, DevRecv(f), f.ctr \notin dev.rx, f.op = "invoke",
         Answer([Taken(f) EXCEPT !.exec[f.ex] = @ + 1], f, "reply")
  PROVE  ExchangeInv'
<1>1. PICK t : t = Taken(f)
  OBVIOUS
<1>2. /\ Shaped(t) /\ t.rx = dev.rx \cup {f.ctr} /\ t.out \subseteq dev.out
      /\ t.exec = dev.exec /\ t.reported = dev.reported /\ t.answered = dev.answered
  BY <1>1, TakenFields
<1>3. PICK e : e = [t EXCEPT !.exec[f.ex] = @ + 1]
  OBVIOUS
<1>4. /\ Shaped(e) /\ e.rx = t.rx /\ e.out = t.out /\ e.exec = [t.exec EXCEPT ![f.ex] = @ + 1]
      /\ e.reported = t.reported /\ e.answered = t.answered
  BY <1>2, <1>3 DEF Shaped
<1>a. Answer(e, f, "reply")
  BY <1>1, <1>3
<1>5. /\ Shaped(dev') /\ dev'.rx = e.rx /\ dev'.exec = e.exec
      /\ dev'.reported = e.reported /\ dev'.answered = e.answered
  BY <1>a, <1>4, AnswerFields
<1>6. PICK n : /\ n.sec /\ n.op = "reply" /\ n.ex = f.ex /\ n.re = f.ex
               /\ toCtl' = toCtl \cup {n} /\ dev'.out = e.out \cup {n}
  BY <1>a, <1>4, AnswerFields
<1>7. DevStep
  BY <1>2, <1>4, <1>5, TakenStep
<1>8. \A g \in Heard' : g \in Heard \/ (g.re = g.ex /\ g.op # "report")
  BY <1>2, <1>4, <1>6 DEF Heard
<1>9. Calls' = Calls /\ ex' = ex /\ Requests("invoke")' \subseteq Requests("invoke") /\ Calls \in 0..98
  BY <1>7, DevUnchanged
<1>10. Primings' \subseteq Primings /\ Updates' \subseteq Updates
  BY <1>8, <1>9 DEF Primings, Updates
<1>11. f \in Requests("invoke") /\ f.ex \in 1..Calls /\ f.ex <= ex
  BY DEF Requests, Sent, ExchangeInv, CommandInv
<1>12. dev.exec \in [1..Calls -> Nat] /\ dev'.exec = [dev.exec EXCEPT ![f.ex] = @ + 1]
  BY <1>2, <1>4, <1>5 DEF ExchangeInv, ShapeInv
<1>n. dev.exec[f.ex] \in Nat
  BY <1>11, <1>12
<1>13. dev.exec[f.ex] = 0
  BY <1>n, <1>11 DEF ExchangeInv, CommandInv
<1>e. dev'.exec[f.ex] = 1 /\ dev'.exec \in [1..Calls -> Nat]
      /\ \A x \in 1..Calls : x # f.ex => dev'.exec[x] = dev.exec[x]
  <2>1. PICK h, g, y : h = dev'.exec /\ g = dev.exec /\ y = f.ex
    OBVIOUS
  <2>2. g \in [1..Calls -> Nat] /\ y \in 1..Calls /\ g[y] = 0 /\ h = [g EXCEPT ![y] = @ + 1]
    BY <1>11, <1>12, <1>13, <2>1
  <2>3. h[y] = 1 /\ h \in [1..Calls -> Nat] /\ \A x \in 1..Calls : x # y => h[x] = g[x]
    BY <2>2, Counted
  <2> QED BY <2>1, <2>3
<1>14. CommandInv'
  <2>1. ASSUME NEW x \in 1..Calls
        PROVE  /\ dev'.exec[x] <= 1
               /\ dev'.exec[x] > 0 => x <= ex /\ \A g \in Requests("invoke")' : g.ex = x => g.ctr \in dev'.rx
    <3>1. CASE x = f.ex
      <4>1. dev'.exec[x] = 1
        BY <1>e, <3>1
      <4>2. \A g \in Requests("invoke") : g.ex = x => g.ctr = f.ctr
        BY <1>11, <3>1 DEF ExchangeInv, CommandInv, SameCounter
      <4> QED BY <1>2, <1>4, <1>5, <1>9, <1>11, <3>1, <4>1, <4>2
    <3>2. CASE x # f.ex
      <4>1. dev'.exec[x] = dev.exec[x]
        BY <1>e, <3>2
      <4> QED BY <1>2, <1>4, <1>5, <1>9, <4>1 DEF ExchangeInv, CommandInv
    <3> QED BY <3>1, <3>2
  <2>2. SameCounter(Requests("invoke"))'
    BY <1>9 DEF ExchangeInv, CommandInv, SameCounter
  <2>3. \A g \in Requests("invoke")' : g.ex \in 1..Calls /\ g.ex <= ex
    BY <1>9 DEF ExchangeInv, CommandInv
  <2> QED BY <1>9, <2>1, <2>2, <2>3 DEF CommandInv
<1>15. dev'.exec \in [1..Calls -> Nat] /\ dev'.reported \in Nat /\ dev'.answered \in Nat
       /\ dev'.reported = dev.reported /\ dev'.answered = dev.answered
  BY <1>2, <1>4, <1>5, <1>e DEF ExchangeInv, ShapeInv
<1>16. ShapeInv' /\ AnswerInv' /\ PrimingInv' /\ ReportInv'
  BY <1>7, <1>8, <1>10, <1>15, DevShape, DevAnswer, DevPriming, DevReports
<1> QED BY <1>14, <1>16 DEF ExchangeInv

\* The subscription is accepted: the priming report, the only one.
LEMMA SubscribeInv ==
  ASSUME ExchangeInv, NEW f \in toDev, DevRecv(f), f.ctr \notin dev.rx, f.op = "subscribe",
         Answer(Taken(f), f, "report")
  PROVE  ExchangeInv'
<1>1. PICK t : t = Taken(f)
  OBVIOUS
<1>2. /\ Shaped(t) /\ t.rx = dev.rx \cup {f.ctr} /\ t.out \subseteq dev.out
      /\ t.exec = dev.exec /\ t.reported = dev.reported /\ t.answered = dev.answered
  BY <1>1, TakenFields
<1>3. /\ Shaped(dev') /\ dev'.rx = t.rx /\ dev'.exec = t.exec
      /\ dev'.reported = t.reported /\ dev'.answered = t.answered
  BY <1>1, <1>2, AnswerFields
<1>4. PICK n : /\ n.sec /\ n.op = "report" /\ n.ex = f.ex /\ n.re = f.ex
               /\ toCtl' = toCtl \cup {n} /\ dev'.out = t.out \cup {n}
  BY <1>1, <1>2, AnswerFields
<1>5. DevStep
  BY <1>2, <1>3, TakenStep
<1>6. \A g \in Heard' : g \in Heard \/ g = n
  BY <1>2, <1>4 DEF Heard
<1>7. /\ Calls' = Calls /\ ex' = ex /\ pc' = pc /\ rx' = rx
      /\ Requests("subscribe")' \subseteq Requests("subscribe")
  BY <1>5, DevUnchanged
<1>8. f \in Requests("subscribe") /\ f.ex = Calls + 1 /\ ex = Calls + 1
  BY DEF Requests, Sent, ExchangeInv, PrimingInv
<1>9. Primings = {} /\ pc \notin {"subscribeResponse", "listen"}
  BY <1>8 DEF ExchangeInv, PrimingInv
<1>10. Updates' \subseteq Updates /\ Primings' \subseteq {n}
  BY <1>4, <1>6, <1>7, <1>8, <1>9 DEF Primings, Updates
<1>11. PrimingInv'
  <2>1. \A g \in Requests("subscribe")' : g.ex = Calls' + 1 /\ g.ctr \in dev'.rx
    BY <1>2, <1>3, <1>7, <1>8 DEF ExchangeInv, PrimingInv, SameCounter
  <2>2. SameCounter(Requests("subscribe"))' /\ SameCounter(Primings)'
    BY <1>7, <1>10 DEF ExchangeInv, PrimingInv, SameCounter
  <2> QED BY <1>7, <1>8, <1>9, <2>1, <2>2 DEF PrimingInv
<1>12. dev'.exec \in [1..Calls -> Nat] /\ dev'.reported \in Nat /\ dev'.answered \in Nat
       /\ dev'.reported = dev.reported /\ dev'.answered = dev.answered /\ dev'.exec = dev.exec
  BY <1>2, <1>3 DEF ExchangeInv, ShapeInv
<1>13. ShapeInv' /\ AnswerInv' /\ CommandInv' /\ ReportInv'
  BY <1>4, <1>5, <1>6, <1>10, <1>12, DevShape, DevAnswer, DevCommand, DevReports
<1> QED BY <1>11, <1>13 DEF ExchangeInv

\* The answer to an update: it is the one the device is waiting for.
LEMMA AnsweredInv ==
  ASSUME ExchangeInv, NEW f \in toDev, DevRecv(f), f.ctr \notin dev.rx,
         f.op = "statusResponse", f.ex >= DevExchange(0),
         dev' = [Taken(f) EXCEPT !.answered = dev.reported], toCtl' = toCtl
  PROVE  ExchangeInv'
<1>1. PICK t : t = Taken(f)
  OBVIOUS
<1>2. /\ Shaped(t) /\ t.rx = dev.rx \cup {f.ctr} /\ t.out \subseteq dev.out
      /\ t.exec = dev.exec /\ t.reported = dev.reported
  BY <1>1, TakenFields
<1>3. dev' = [t EXCEPT !.answered = dev.reported]
  BY <1>1
<1>4. /\ Shaped(dev') /\ dev'.rx = t.rx /\ dev'.exec = t.exec /\ dev'.out = t.out
      /\ dev'.reported = t.reported /\ dev'.answered = dev.reported
  BY <1>2, <1>3 DEF Shaped
<1>5. DevStep
  BY <1>2, <1>4, TakenStep
<1>6. Heard' \subseteq Heard
  BY <1>2, <1>4 DEF Heard
<1>7. /\ Calls' = Calls /\ UNCHANGED <<pc, rx, delivered>> /\ Responses' \subseteq Responses
      /\ Calls \in 0..98
  BY <1>5, DevUnchanged
<1>8. Primings' \subseteq Primings /\ Updates' \subseteq Updates
  BY <1>6, <1>7 DEF Primings, Updates
<1>c. Len(delivered) \in Nat /\ dev.reported \in Nat /\ dev.answered \in Nat
  BY DEF ExchangeInv, ShapeInv
<1>9. f \in Responses
  BY <1>7 DEF Responses, Sent, DevExchange
<1>10. PICK n \in 1..Len(delivered) : f.ex = DevExchange(n) /\ (n <= dev.answered => f.ctr \in dev.rx)
  BY <1>9 DEF ExchangeInv, ReportInv
<1>11. n = Len(delivered) /\ n = dev.reported /\ n = dev.answered + 1
  BY <1>10, <1>c DEF ExchangeInv, ReportInv
<1>12. ReportInv'
  <2>1. ASSUME NEW g \in Responses'
        PROVE  \E k \in 1..Len(delivered') :
                 g.ex = DevExchange(k) /\ (k <= dev'.answered => g.ctr \in dev'.rx)
    <3>1. PICK k \in 1..Len(delivered) : g.ex = DevExchange(k) /\ (k <= dev.answered => g.ctr \in dev.rx)
      BY <1>7, <2>1 DEF ExchangeInv, ReportInv
    <3>2. CASE k = n
      <4>1. g.ctr = f.ctr
        BY <1>7, <1>9, <1>10, <2>1, <3>1, <3>2 DEF ExchangeInv, ReportInv, SameCounter
      <4> QED BY <1>2, <1>4, <1>7, <3>1, <4>1
    <3>3. CASE k # n
      <4>1. k <= dev.answered
        BY <1>11, <1>c, <3>1, <3>3
      <4> QED BY <1>2, <1>4, <1>7, <3>1, <4>1
    <3> QED BY <3>2, <3>3
  <2>2. SameCounter(Updates)' /\ SameCounter(Responses)'
    BY <1>7, <1>8 DEF ExchangeInv, ReportInv, SameCounter
  <2>3. \A g \in Updates' : /\ g.re \in 1..dev'.reported /\ g.ex = DevExchange(g.re)
                            /\ g.re <= Len(delivered') => g.ctr \in rx'
    BY <1>2, <1>4, <1>7, <1>8 DEF ExchangeInv, ReportInv
  <2>4. dev'.answered <= Len(delivered') /\ Len(delivered') <= dev'.reported
        /\ dev'.reported <= dev'.answered + 1
    BY <1>2, <1>4, <1>7, <1>11, <1>c
  <2>5. DeliveredInOrder' /\ (pc' \in Handshake => delivered' = <<>>)
    BY <1>7 DEF ExchangeInv, ReportInv, DeliveredInOrder
  <2> QED BY <2>1, <2>2, <2>3, <2>4, <2>5 DEF ReportInv
<1>13. dev'.exec \in [1..Calls -> Nat] /\ dev'.reported \in Nat /\ dev'.answered \in Nat
       /\ dev'.exec = dev.exec
  BY <1>2, <1>4, <1>c DEF ExchangeInv, ShapeInv
<1>14. ShapeInv' /\ AnswerInv' /\ CommandInv' /\ PrimingInv'
  BY <1>5, <1>6, <1>8, <1>13, DevShape, DevAnswer, DevCommand, DevPriming
<1> QED BY <1>12, <1>14 DEF ExchangeInv

\* An answer that is neither a reply nor a report.
LEMMA OtherAnswer ==
  ASSUME ExchangeInv, NEW f \in toDev, DevRecv(f), NEW op, op # "report",
         NEW e, Answer(e, f, op), Shaped(e), e.rx = dev.rx \cup {f.ctr}, e.out \subseteq dev.out,
         e.exec = dev.exec, e.reported = dev.reported, e.answered = dev.answered
  PROVE  DevQuiet
<1>1. /\ Shaped(dev') /\ dev'.rx = e.rx /\ dev'.exec = e.exec
      /\ dev'.reported = e.reported /\ dev'.answered = e.answered
  BY AnswerFields
<1>2. PICK n : /\ n.sec /\ n.op = op /\ n.ex = f.ex /\ n.re = f.ex
               /\ toCtl' = toCtl \cup {n} /\ dev'.out = e.out \cup {n}
  BY AnswerFields
<1>3. DevStep
  BY <1>1, TakenStep
<1> QED BY <1>1, <1>2, <1>3 DEF DevQuiet, Heard

LEMMA SecureInv ==
  ASSUME ExchangeInv, NEW f \in toDev, DevRecv(f), DevSecure(f) PROVE ExchangeInv'
<1>t. /\ Shaped(Taken(f)) /\ Taken(f).rx = dev.rx \cup {f.ctr} /\ Taken(f).out \subseteq dev.out
      /\ Taken(f).exec = dev.exec
      /\ Taken(f).reported = dev.reported /\ Taken(f).answered = dev.answered
  BY TakenFields
<1>1. CASE toCtl' \subseteq toCtl \cup dev.out /\ dev' = dev
  <2>1. DevStep
    BY <1>1, TakenStep DEF ExchangeInv, ShapeInv
  <2> QED BY <1>1, <2>1, DevQuietInv DEF DevQuiet, Heard
<1>2. CASE dev' = Taken(f) /\ toCtl' = toCtl
  <2>1. DevStep
    BY <1>2, <1>t, TakenStep
  <2>2. Heard' \subseteq Heard
    BY <1>2, <1>t DEF Heard
  <2> QED BY <1>2, <1>t, <2>1, <2>2, DevQuietInv DEF DevQuiet
<1>3. CASE Answer(Taken(f), f, "imStatus")
  BY <1>3, <1>t, OtherAnswer, DevQuietInv
<1>4. CASE Answer([Taken(f) EXCEPT !.subscribed = TRUE], f, "subscribeResponse")
  <2>1. PICK t : t = Taken(f)
    OBVIOUS
  <2>2. PICK e : e = [t EXCEPT !.subscribed = TRUE]
    OBVIOUS
  <2>3. /\ Shaped(e) /\ e.rx = t.rx /\ e.out = t.out /\ e.exec = t.exec
        /\ e.reported = t.reported /\ e.answered = t.answered
    BY <1>t, <2>1, <2>2 DEF Shaped
  <2> QED BY <1>4, <1>t, <2>1, <2>2, <2>3, OtherAnswer, DevQuietInv
<1> QED BY <1>1, <1>2, <1>3, <1>4, DevSecureCases, InvokeInv, SubscribeInv, AnsweredInv

-----------------------------------------------------------------------------

LEMMA HandshakeInv ==
  ASSUME ExchangeInv, NEW f \in toDev, DevRecv(f), DevHandshake(f) PROVE ExchangeInv'
<1>s. Shaped(dev) /\ Unacked(f) \subseteq dev.out
  BY DEF ExchangeInv, ShapeInv, Unacked
<1>1. ASSUME NEW d, NEW n, DevSend(d, n), Shaped(d), ~n.sec, d.out \subseteq dev.out,
             d.rx = dev.rx, d.exec = dev.exec, d.reported = dev.reported, d.answered = dev.answered
      PROVE  DevQuiet
  <2>1. /\ Shaped(dev') /\ dev'.out = d.out \cup {n} /\ toCtl' = toCtl \cup {n}
        /\ dev'.rx = d.rx /\ dev'.exec = d.exec
        /\ dev'.reported = d.reported /\ dev'.answered = d.answered
    BY <1>1, SendFields
  <2>2. DevStep
    BY <1>1, <2>1, TakenStep
  <2> QED BY <1>1, <2>1, <2>2 DEF DevQuiet, Heard
<1>2. ASSUME NEW d, Shaped(d), d.out \subseteq dev.out, d.rx = dev.rx, d.exec = dev.exec,
             d.reported = dev.reported, d.answered = dev.answered,
             dev' = d, toCtl' \subseteq toCtl \cup dev.out
      PROVE  DevQuiet
  <2>1. DevStep
    BY <1>2, TakenStep
  <2> QED BY <1>2, <2>1 DEF DevQuiet, Heard
<1>3. ASSUME NEW p, NEW n, ~n.sec, DevSend([dev EXCEPT !.phase = p], n)
      PROVE  DevQuiet
  <2>1. PICK d : d = [dev EXCEPT !.phase = p]
    OBVIOUS
  <2>2. /\ Shaped(d) /\ d.out = dev.out /\ d.rx = dev.rx /\ d.exec = dev.exec
        /\ d.reported = dev.reported /\ d.answered = dev.answered
    BY <1>s, <2>1 DEF Shaped
  <2> QED BY <1>1, <1>3, <2>1, <2>2
<1>4. ASSUME NEW n, ~n.sec, DevSend([dev EXCEPT !.phase = "open", !.out = Unacked(f)], n)
      PROVE  DevQuiet
  <2>1. PICK u : u = Unacked(f)
    OBVIOUS
  <2>2. PICK d : d = [dev EXCEPT !.phase = "open", !.out = u]
    OBVIOUS
  <2>3. /\ Shaped(d) /\ d.out = u /\ d.rx = dev.rx /\ d.exec = dev.exec
        /\ d.reported = dev.reported /\ d.answered = dev.answered
    BY <1>s, <2>2 DEF Shaped
  <2> QED BY <1>1, <1>4, <1>s, <2>1, <2>2, <2>3
<1>5. ASSUME dev' = [dev EXCEPT !.out = Unacked(f)], toCtl' = toCtl PROVE DevQuiet
  <2>1. PICK u : u = Unacked(f)
    OBVIOUS
  <2>2. PICK d : d = [dev EXCEPT !.out = u]
    OBVIOUS
  <2>3. /\ Shaped(d) /\ d.out = u /\ d.rx = dev.rx /\ d.exec = dev.exec
        /\ d.reported = dev.reported /\ d.answered = dev.answered
    BY <1>s, <2>2 DEF Shaped
  <2> QED BY <1>2, <1>5, <1>s, <2>1, <2>2, <2>3
<1>6. ASSUME toCtl' = toCtl \cup {o \in dev.out : ~o.sec}, dev' = dev PROVE DevQuiet
  <2>1. PICK d : d = dev
    OBVIOUS
  <2> QED BY <1>2, <1>6, <1>s, <2>1
<1>7. ASSUME NEW p, NEW op, NEW c, DevSend([dev EXCEPT !.phase = p], DevFrame(FALSE, op, f.ex, c, 0))
      PROVE  DevQuiet
  <2>1. PICK n : n = DevFrame(FALSE, op, f.ex, c, 0)
    OBVIOUS
  <2>2. ~n.sec
    BY <2>1 DEF DevFrame
  <2> QED BY <1>3, <1>7, <2>1, <2>2
<1>8. ASSUME DevSend([dev EXCEPT !.phase = "open", !.out = Unacked(f)],
                     DevFrame(FALSE, "statusReport", f.ex, 1, 0))
      PROVE  DevQuiet
  <2>1. PICK n : n = DevFrame(FALSE, "statusReport", f.ex, 1, 0)
    OBVIOUS
  <2>2. ~n.sec
    BY <2>1 DEF DevFrame
  <2> QED BY <1>4, <1>8, <2>1, <2>2
<1>9. DevQuiet
  BY <1>5, <1>6, <1>7, <1>8 DEF DevHandshake
<1> QED BY <1>9, DevQuietInv

\* A new report, once the previous one was answered.
LEMMA DevReportInv == ASSUME ExchangeInv, DevReport PROVE ExchangeInv'
<1>c. Calls \in 0..98 /\ Len(delivered) \in Nat /\ dev.reported \in Nat /\ dev.answered \in Nat
  BY CallsRange DEF ExchangeInv, ShapeInv
<1>1. PICK d : d = [dev EXCEPT !.tx = @ + 1, !.reported = @ + 1]
  OBVIOUS
<1>2. /\ Shaped(d) /\ d.out = dev.out /\ d.rx = dev.rx /\ d.exec = dev.exec
      /\ d.reported = dev.reported + 1 /\ d.answered = dev.answered
  BY <1>1 DEF Shaped, ExchangeInv, ShapeInv
<1>3. PICK n : n = DevFrame(TRUE, "report", DevExchange(dev.reported + 1), dev.tx, dev.reported + 1)
  OBVIOUS
<1>4. n.sec /\ n.op = "report" /\ n.ex = DevExchange(dev.reported + 1) /\ n.re = dev.reported + 1
  BY <1>3 DEF DevFrame
<1>5. DevSend(d, n) /\ dev.answered = dev.reported
  BY <1>1, <1>3 DEF DevReport
<1>6. /\ Shaped(dev') /\ dev'.out = d.out \cup {n} /\ toCtl' = toCtl \cup {n}
      /\ dev'.rx = d.rx /\ dev'.exec = d.exec
      /\ dev'.reported = d.reported /\ dev'.answered = d.answered
  BY <1>2, <1>5, SendFields
<1>7. DevStep
  BY <1>2, <1>6 DEF DevReport, DevStep
<1>8. /\ Calls' = Calls /\ UNCHANGED <<pc, rx, delivered>> /\ Responses' \subseteq Responses
  BY <1>7, DevUnchanged
<1>9. \A g \in Heard' : g \in Heard \/ g = n
  BY <1>2, <1>6 DEF Heard
<1>10. n.ex # Calls + 1 /\ n \in Heard'
  BY <1>4, <1>6, <1>c DEF DevExchange, Heard
<1>11. Primings' \subseteq Primings /\ n \in Updates' /\ \A g \in Updates' : g \in Updates \/ g = n
  BY <1>4, <1>8, <1>9, <1>10 DEF Primings, Updates
<1>12. Len(delivered) = dev.reported
  BY <1>5, <1>c DEF ExchangeInv, ReportInv
<1>13. ReportInv'
  <2>1. \A g \in Updates : g.re \in 1..dev.reported /\ g.ex = DevExchange(g.re) /\ g.ex # n.ex
    BY <1>4, <1>c DEF ExchangeInv, ReportInv, DevExchange
  <2>2. \A g \in Updates' : /\ g.re \in 1..dev'.reported /\ g.ex = DevExchange(g.re)
                            /\ g.re <= Len(delivered') => g.ctr \in rx'
    <3>1. ASSUME NEW g \in Updates PROVE g.re <= Len(delivered) => g.ctr \in rx
      BY DEF ExchangeInv, ReportInv
    <3> QED BY <1>2, <1>4, <1>6, <1>8, <1>11, <1>12, <1>c, <2>1, <3>1
  <2>3. SameCounter(Updates)'
    BY <1>11, <2>1 DEF ExchangeInv, ReportInv, SameCounter
  <2>4. SameCounter(Responses)'
    BY <1>8 DEF ExchangeInv, ReportInv, SameCounter
  <2>5. \A g \in Responses' : \E k \in 1..Len(delivered') :
          g.ex = DevExchange(k) /\ (k <= dev'.answered => g.ctr \in dev'.rx)
    BY <1>2, <1>6, <1>8 DEF ExchangeInv, ReportInv
  <2>6. dev'.answered <= Len(delivered') /\ Len(delivered') <= dev'.reported
        /\ dev'.reported <= dev'.answered + 1
    BY <1>2, <1>5, <1>6, <1>8, <1>12, <1>c
  <2>7. DeliveredInOrder' /\ (pc' \in Handshake => delivered' = <<>>)
    BY <1>8 DEF ExchangeInv, ReportInv, DeliveredInOrder
  <2> QED BY <2>2, <2>3, <2>4, <2>5, <2>6, <2>7 DEF ReportInv
<1>14. dev'.exec \in [1..Calls -> Nat] /\ dev'.reported \in Nat /\ dev'.answered \in Nat
       /\ dev'.exec = dev.exec
  BY <1>2, <1>6, <1>c DEF ExchangeInv, ShapeInv
<1>15. ShapeInv' /\ AnswerInv' /\ CommandInv' /\ PrimingInv'
  BY <1>7, <1>9, <1>11, <1>14, DevShape, DevAnswer, DevCommand, DevPriming
<1> QED BY <1>13, <1>15 DEF ExchangeInv

LEMMA DevTimeoutInv == ASSUME ExchangeInv, DevTimeout PROVE ExchangeInv'
<1>1. ASSUME Shaped(dev'), dev'.out \subseteq dev.out, dev'.rx = dev.rx, dev'.exec = dev.exec,
             dev'.reported = dev.reported, dev'.answered = dev.answered,
             toCtl' \subseteq toCtl \cup dev.out
      PROVE  ExchangeInv'
  <2>1. DevStep
    BY <1>1 DEF DevTimeout, DevStep
  <2>2. Heard' \subseteq Heard
    BY <1>1 DEF Heard
  <2> QED BY <1>1, <2>1, <2>2, DevQuietInv DEF DevQuiet
<1>2. CASE /\ toCtl' = toCtl \cup dev.out
           /\ dev' = [dev EXCEPT !.tries = IF Timely THEN @ + 1 ELSE @,
                        !.statusResent = @ \/ \E o \in dev.out : o.op = "statusReport"]
  <2>1. PICK t, s : /\ t = IF Timely THEN dev.tries + 1 ELSE dev.tries
                    /\ s = (dev.statusResent \/ \E o \in dev.out : o.op = "statusReport")
    OBVIOUS
  <2>2. dev' = [dev EXCEPT !.tries = t, !.statusResent = s]
    BY <1>2, <2>1, Zenon
  <2>3. /\ Shaped(dev') /\ dev'.out = dev.out /\ dev'.rx = dev.rx /\ dev'.exec = dev.exec
        /\ dev'.reported = dev.reported /\ dev'.answered = dev.answered
    BY <2>2 DEF Shaped, ExchangeInv, ShapeInv
  <2> QED BY <1>1, <1>2, <2>3
<1>3. CASE dev' = [dev EXCEPT !.out = {}] /\ toCtl' = toCtl
  <2>1. /\ Shaped(dev') /\ dev'.out = {} /\ dev'.rx = dev.rx /\ dev'.exec = dev.exec
        /\ dev'.reported = dev.reported /\ dev'.answered = dev.answered
    BY <1>3 DEF Shaped, ExchangeInv, ShapeInv
  <2> QED BY <1>1, <1>3, <2>1
<1> QED BY <1>2, <1>3 DEF DevTimeout

LEMMA LoseStep == ASSUME ExchangeInv, Lose PROVE CtlStep
<1>1. UNCHANGED <<scenario, pc, rx, ex, resend, lastResp, dev, result, delivered>>
      /\ toDev' \subseteq toDev /\ toCtl' \subseteq toCtl
  BY DEF Lose, loop, hist
<1>2. Sent' \subseteq Sent
  BY <1>1 DEF Sent
<1> QED BY <1>1, <1>2 DEF CtlStep

-----------------------------------------------------------------------------

LEMMA ExchangeInvInit == Init => ExchangeInv
<1> SUFFICES ASSUME Init PROVE ExchangeInv
  OBVIOUS
<1>c. Calls \in 0..98 /\ scenario \in Scenarios
  BY CallsRange DEF Init
<1>1. resend.op = "sigma1" /\ Sent = {resend}
  BY DEF Init, Frame, Sent
<1>2. Shaped(dev) /\ dev.out = {} /\ dev.exec = [x \in 1..Calls |-> 0]
      /\ dev.reported = 0 /\ dev.answered = 0
  BY DEF Init, Shaped
<1>3. Heard = {}
  BY <1>2 DEF Init, Heard
<1>4. Requests("invoke") = {} /\ Requests("subscribe") = {} /\ Responses = {}
  BY <1>1 DEF Requests, Responses
<1>5. Primings = {} /\ Updates = {}
  BY <1>3 DEF Primings, Updates
<1>6. ShapeInv
  BY <1>c, <1>2 DEF Init, ShapeInv
<1>7. CommandInv
  BY <1>2, <1>4 DEF CommandInv, SameCounter
<1>8. AnswerInv
  BY <1>3 DEF Init, AnswerInv, ReplyMatches
<1>9. PrimingInv
  BY <1>4, <1>5 DEF Init, PrimingInv, SameCounter
<1>10. ReportInv
  BY <1>2, <1>4, <1>5 DEF Init, ReportInv, SameCounter, DeliveredInOrder
<1> QED BY <1>6, <1>7, <1>8, <1>9, <1>10 DEF ExchangeInv

LEMMA ExchangeInvNext == ExchangeInv /\ [Next]_vars => ExchangeInv'
<1> SUFFICES ASSUME ExchangeInv, [Next]_vars PROVE ExchangeInv'
  OBVIOUS
<1>1. CASE Controller
  <2>1. ASSUME NEW f \in toCtl, AwaitSC(f) \/ Duplicate(f) \/ Skip(f) \/ Foreign(f) \/ Reply(f)
        PROVE  CtlStep
    <3>1. CASE Foreign(f)
      BY <3>1, FailStep DEF Foreign
    <3> QED BY <2>1, <3>1, AwaitSCStep, DuplicateStep, SkipStep, ReplyStep
  <2>2. ASSUME GiveUp \/ CtxDone PROVE CtlStep
    <3>1. Fail /\ UNCHANGED <<scenario, loop, rx, toDev, dev, delivered>> /\ toCtl' \subseteq toCtl
      BY <2>2 DEF GiveUp, CtxDone
    <3> QED BY <3>1, FailStep
  <2>3. CtlStep
    BY <1>1, <2>1, <2>2, TimeoutStep DEF Controller
  <2> QED BY <2>3, CtlStepInv
<1>2. CASE Call \/ Subscribe
  BY <1>2, StartInv
<1>3. ASSUME NEW f \in toCtl, Listen(f) PROVE ExchangeInv'
  BY <1>3, ListenStep, CtlStepInv, DeliverInv
<1>4. ASSUME NEW f \in toDev, DevRecv(f) PROVE ExchangeInv'
  BY <1>4, HandshakeInv, SecureInv DEF DevRecv
<1>5. CASE DevReport
  BY <1>5, DevReportInv
<1>6. CASE DevTimeout
  BY <1>6, DevTimeoutInv
<1>7. CASE Lose
  BY <1>7, LoseStep, CtlStepInv
<1>8. CASE UNCHANGED vars
  <2>1. CtlStep
    BY <1>8 DEF vars, CtlStep, Sent
  <2> QED BY <2>1, CtlStepInv
<1> QED BY <1>1, <1>2, <1>3, <1>4, <1>5, <1>6, <1>7, <1>8 DEF Next

\* However often a command is retransmitted, delayed or reordered, the device
\* carries it out at most once, for every retransmission limit, number of calls
\* and losses (exchangeRT re-sends the sealed frame byte for byte).
THEOREM CommandsRunOnce == Spec => []AtMostOnce
<1>1. ExchangeInv => AtMostOnce
  BY DEF ExchangeInv, CommandInv, AtMostOnce
<1> QED BY <1>1, ExchangeInvInit, ExchangeInvNext, PTL DEF Spec

\* No call ever returns the answer to another one (exchangeRT's check of the
\* exchange id and the session's replay filter).
THEOREM RepliesMatch == Spec => []ReplyMatches
<1>1. ExchangeInv => ReplyMatches
  BY DEF ExchangeInv, AnswerInv
<1> QED BY <1>1, ExchangeInvInit, ExchangeInvNext, PTL DEF Spec

\* The subscriber's callback sees the device's reports once each and in order,
\* although every report and every answer may be repeated and overtaken (Listen
\* and its lastResponse).
THEOREM ReportsInOrder == Spec => []DeliveredInOrder
<1>1. ExchangeInv => DeliveredInOrder
  BY DEF ExchangeInv, ReportInv
<1> QED BY <1>1, ExchangeInvInit, ExchangeInvNext, PTL DEF Spec

-----------------------------------------------------------------------------
(***************************************************************************)
(* Losses.  A Timely network carries one token of every message that is    *)
(* still unacknowledged: the message, or its acknowledgement.  A token can *)
(* only be lost by Lose, so each timer that fires has a loss to its name:  *)
(* iterations and retransmissions of the controller's receive loop, and    *)
(* the tries of the device, never get past the losses.                     *)
(***************************************************************************)

\* The frames of the handshake.
Sigma1 == Frame(FALSE, "sigma1", 0, 0, NoAck)
Sigma2 == DevFrame(FALSE, "sigma2", 0, 0, 0)
Sigma3 == Frame(FALSE, "sigma3", 0, 1, 0)
StatusReport == DevFrame(FALSE, "statusReport", 0, 1, 0)
LastAck == Frame(FALSE, "ack", 0, 2, 1)

\* What the device seals with counter c: the replies, the priming report, the
\* SubscribeResponse and then the reports.
Sealed(c) ==
  IF c < Calls THEN DevFrame(TRUE, "reply", c + 1, c, c + 1)
  ELSE IF c = Calls THEN DevFrame(TRUE, "report", c + 1, c, c + 1)
  ELSE IF c = Calls + 1 THEN DevFrame(TRUE, "subscribeResponse", c, c, c)
  ELSE DevFrame(TRUE, "report", DevExchange(c - Calls - 1), c, c - Calls - 1)

\* One frame travels at a time until the session is open.
InFlight(F, G) ==
  /\ toDev \subseteq {F} /\ toCtl \subseteq {G}
  /\ toDev = {} \/ toCtl = {}

\* The four places of the handshake.
HandshakeAt ==
  \/ /\ pc = "sigma2" /\ resend = Sigma1 /\ rx = {}
     /\ dev.phase = "new" /\ dev.out = {}
     /\ toDev \subseteq {Sigma1} /\ toCtl = {}
  \/ /\ pc = "sigma2" /\ resend = Sigma1 /\ rx = {}
     /\ dev.phase = "sigma2" /\ dev.out = {Sigma2}
     /\ InFlight(Sigma1, Sigma2)
  \/ /\ pc = "statusReport" /\ resend = Sigma3 /\ rx = {0}
     /\ dev.phase = "sigma2" /\ dev.out = {Sigma2}
     /\ InFlight(Sigma3, Sigma2)
  \/ /\ pc = "statusReport" /\ resend = Sigma3 /\ rx = {0}
     /\ dev.phase = "open" /\ dev.out = {StatusReport}
     /\ InFlight(Sigma3, StatusReport)

\* With nothing that would get on in flight, a loss is still to be made up for.
HandshakeLoss ==
  /\ ex = 0 /\ tx = 0 /\ lastResp = None
  /\ dev.rx = {} /\ dev.tx = 0 /\ ~dev.subscribed /\ dev.reported = 0 /\ dev.answered = 0
  /\ HandshakeAt
  /\ iters + (IF toDev = {} /\ ~(\E f \in toCtl : f.ctr \notin rx) THEN 1 ELSE 0) <= losses
  /\ dev.tries + (IF Quiet /\ dev.out # {} THEN 1 ELSE 0) <= losses

-----------------------------------------------------------------------------

\* The frame that the controller may send again.
Held == IF pc \in Exchange THEN {resend} ELSE IF pc = "listen" THEN {lastResp} \ {None} ELSE {}
Own == toDev \cup Held

\* An acknowledgement on its way to the device, of a message still unacknowledged.
Acking(f) ==
  /\ f.sec /\ f.op = "ack" /\ f.ctr \notin dev.rx
  /\ f.ack \in rx /\ Sealed(f.ack) \in dev.out

\* The acknowledgements of o in flight.
Acks(o) == {f \in toDev : f.sec = o.sec /\ f.ack = o.ctr}

\* What is in flight, what either side holds, and their counters.
FramesInv ==
  /\ dev.phase = "open"
  /\ \A o \in dev.out : o = StatusReport \/ (o.ctr \in 0..(dev.tx - 1) /\ o = Sealed(o.ctr))
  /\ toCtl \subseteq dev.out \ {StatusReport}
  /\ \A f \in toDev : \/ f = LastAck /\ StatusReport \in dev.out
                      \/ Acking(f)
                      \/ f \in Held
  /\ \A f \in Held : f.sec /\ (pc = "listen" => f.op = "statusResponse")
  /\ \A f \in Own : f.sec => f.ctr \in 0..(tx - 1)
  /\ \A f, g \in Own : f.sec /\ g.sec /\ f.ctr = g.ctr => f = g
  /\ dev.rx \subseteq 0..(tx - 1)

\* A message or its acknowledgement is in flight, never both.
TokenInv ==
  /\ \A o \in dev.out : o \in toCtl => Acks(o) = {}
  /\ \A o \in dev.out : \A f, g \in Acks(o) : f = g
  /\ \A f \in toDev : f.sec /\ f.ctr \in dev.rx =>
       pc \in Exchange /\ f = resend /\ toDev = {f} /\ toCtl = {}

\* A message with neither in flight has cost a loss.
Dark(o) == o \notin toCtl /\ Acks(o) = {}
TriesInv ==
  /\ dev.tries <= losses
  /\ \A o \in dev.out : Dark(o) => dev.tries < losses

\* The counters below n.
Upto(n) == 0..(n - 1)

\* How far the two sides have come.
IdleAt ==
  /\ pc = "idle"
  /\ dev.tx = ex /\ rx = Upto(ex)
  /\ ~dev.subscribed

RequestAt ==
  /\ pc \in {"reply", "prime"}
  /\ resend.op = (IF pc = "reply" THEN "invoke" ELSE "subscribe")
  /\ resend.ex = ex /\ resend.ack = NoAck
  /\ rx = Upto(ex - 1)
  /\ ex > 0
  /\ \/ resend.ctr \notin dev.rx /\ dev.tx = ex - 1
     \/ resend.ctr \in dev.rx /\ dev.tx = ex /\ Sealed(ex - 1) \in dev.out
  /\ ~dev.subscribed

ConfirmAt ==
  /\ pc = "subscribeResponse"
  /\ resend.op = "statusResponse" /\ resend.ex = ex /\ resend.ack = ex - 1
  /\ rx = Upto(ex)
  /\ ex > 0
  /\ \/ resend.ctr \notin dev.rx /\ dev.tx = ex /\ ~dev.subscribed
     \/ /\ resend.ctr \in dev.rx /\ dev.tx = ex + 1 /\ dev.subscribed
        /\ Sealed(ex - 1) \notin dev.out /\ Sealed(ex) \in dev.out

\* No report before Listen.
BeforeReports == pc \in {"idle"} \cup Exchange => dev.reported = 0 /\ dev.answered = 0 /\ lastResp = None

\* The device's latest report.
Latest == Sealed(dev.tx - 1)
ListenAt ==
  /\ pc = "listen"
  /\ ex = Calls + 1
  /\ dev.tx = Calls + 2 + dev.reported
  /\ dev.subscribed
  /\ \/ /\ dev.reported = 0 /\ dev.answered = 0
        /\ rx = Upto(dev.tx) /\ lastResp = None
     \/ /\ dev.reported = dev.answered + 1 /\ dev.out = {Latest}
        /\ rx = Upto(dev.tx - 1)
        /\ toDev = {}
     \/ /\ dev.reported = dev.answered + 1 /\ dev.out = {Latest}
        /\ rx = Upto(dev.tx)
        /\ lastResp # None
        /\ lastResp.ack = dev.tx - 1 /\ lastResp.ctr \notin dev.rx
        /\ lastResp.ex = DevExchange(dev.reported)
        /\ toDev \subseteq {lastResp}
     \/ /\ dev.reported = dev.answered /\ dev.reported > 0 /\ dev.out = {}
        /\ rx = Upto(dev.tx)
        /\ toDev = {}

\* The exchange gets on without a retransmission.
Live == resend \in toDev \/ \E f \in toCtl : f.ctr \notin rx

\* Messages the device will send again because their acknowledgement was lost.
Owed == {c \in rx : /\ Sealed(c) \in dev.out /\ Acks(Sealed(c)) = {}
                    /\ pc = "subscribeResponse" => c # ex - 1}

\* Iterations made, to be made and still caused by the device's repetitions: each has
\* a loss to its name.
ItersInv ==
  /\ pc \in {"idle"} \cup Exchange => Cardinality(Owed) <= losses
  /\ pc \in Exchange => iters + (IF Live THEN 0 ELSE 1) + Cardinality(Owed) <= losses

\* The open session.
SecureLoss ==
  /\ FramesInv /\ TokenInv /\ TriesInv
  /\ IdleAt \/ RequestAt \/ ConfirmAt \/ ListenAt
  /\ BeforeReports
  /\ ItersInv

\* Types of the counters.
NumbersInv ==
  /\ tx \in Nat /\ losses \in Nat /\ iters \in Nat /\ retrans \in Nat
  /\ dev.tx \in Nat /\ dev.tries \in Nat
  /\ retrans <= iters

\* The inductive invariant.
LossInv ==
  /\ losses \in Nat
  /\ Mild => /\ NumbersInv
             /\ \A x \in 1..Calls : result[x] # "error"
             /\ \/ pc \in Handshake /\ HandshakeLoss
                \/ pc \notin Handshake \cup {"failed"} /\ SecureLoss
-----------------------------------------------------------------------------
\* The session is open, and few frames were lost.
Secured == ShapeInv /\ NumbersInv /\ Mild /\ SecureLoss

\* What the device has out.
LEMMA SealedFields ==
  ASSUME NEW c, c \in Nat, Calls \in 0..98
  PROVE  /\ Sealed(c).sec /\ Sealed(c).ctr = c
         /\ Sealed(c).op = IF c < Calls THEN "reply" ELSE IF c = Calls + 1 THEN "subscribeResponse"
                           ELSE "report"
         /\ c <= Calls => Sealed(c).ex = c + 1
         /\ c = Calls + 1 => Sealed(c).ex = c
         /\ c > Calls + 1 => Sealed(c).ex = DevExchange(c - Calls - 1)
         /\ Sealed(c) # StatusReport
BY DEF Sealed, DevFrame, StatusReport

\* The scenario fixes what is sealed.
LEMMA SealedFixed ==
  ASSUME scenario' = scenario PROVE Calls' = Calls /\ \A c : Sealed(c)' = Sealed(c)
BY DEF Calls, Sealed

\* Counters below n.
LEMMA UptoFacts ==
  ASSUME NEW n \in Int
  PROVE  /\ \A c : c \in Upto(n) <=> c \in Nat /\ c < n
         /\ IsFiniteSet(Upto(n))
<1>1. \A c : c \in Upto(n) <=> c \in Nat /\ c < n
  BY DEF Upto
<1>2. 0 \in Int /\ n - 1 \in Int
  OBVIOUS
<1>3. IsFiniteSet(0..(n - 1))
  BY <1>2, FS_Interval
<1> QED BY <1>1, <1>3 DEF Upto

\* What every place has in common.
LEMMA Places ==
  ASSUME Secured
  PROVE  /\ Calls \in 0..98 /\ ex \in 0..(Calls + 1) /\ dev.reported \in Nat /\ dev.answered \in Nat
         /\ pc \in {"idle", "listen"} \cup Exchange
         /\ \/ rx = Upto(dev.tx)
            \/ rx = Upto(dev.tx - 1) /\ dev.tx > 0 /\ Sealed(dev.tx - 1) \in dev.out
               /\ pc # "idle"
         /\ pc # "listen" => dev.tx <= 100
         /\ \A c \in rx : c \in Nat /\ c < dev.tx
         /\ IsFiniteSet(rx)
         /\ dev.tx \in Nat /\ losses \in Nat /\ iters \in Nat /\ tx \in Nat /\ dev.tries \in Nat
<1>1. Calls \in 0..98 /\ ex \in 0..(Calls + 1) /\ dev.reported \in Nat /\ dev.answered \in Nat
  BY CallsRange DEF Secured, ShapeInv
<1>2. dev.tx \in Nat /\ losses \in Nat /\ iters \in Nat /\ tx \in Nat /\ dev.tries \in Nat
  BY DEF Secured, NumbersInv
<1>n. ex \in Nat /\ ex <= 99
  BY <1>1
<1>7. /\ pc \in {"idle", "listen"} \cup Exchange
      /\ \/ rx = Upto(dev.tx)
         \/ rx = Upto(dev.tx - 1) /\ dev.tx > 0 /\ Sealed(dev.tx - 1) \in dev.out
            /\ pc # "idle"
      /\ pc # "listen" => dev.tx <= 100
  <2>1. CASE IdleAt
    BY <1>1, <1>2, <1>n, <2>1 DEF IdleAt
  <2>2. CASE RequestAt
    <3>1. pc \in Exchange /\ rx = Upto(ex - 1) /\ ex > 0
          /\ \/ dev.tx = ex - 1
             \/ dev.tx = ex /\ Sealed(ex - 1) \in dev.out
      BY <2>2 DEF RequestAt, Exchange
    <3> QED BY <1>1, <1>2, <1>n, <3>1 DEF Exchange
  <2>3. CASE ConfirmAt
    <3>1. pc \in Exchange /\ rx = Upto(ex) /\ ex > 0
          /\ \/ dev.tx = ex
             \/ dev.tx = ex + 1 /\ Sealed(ex) \in dev.out
      BY <2>3 DEF ConfirmAt, Exchange
    <3>2. (ex + 1) - 1 = ex
      BY <1>n
    <3> QED BY <1>1, <1>2, <1>n, <3>1, <3>2 DEF Exchange
  <2>4. CASE ListenAt
    BY <1>1, <1>2, <2>4 DEF ListenAt, Latest
  <2> QED BY <2>1, <2>2, <2>3, <2>4 DEF Secured, SecureLoss
<1>8. (\A c \in rx : c \in Nat /\ c < dev.tx) /\ IsFiniteSet(rx)
  <2>1. CASE rx = Upto(dev.tx)
    BY <1>2, <2>1, UptoFacts
  <2>2. CASE rx = Upto(dev.tx - 1)
    <3>1. dev.tx - 1 \in Int
      BY <1>2
    <3>2. \A c \in rx : c \in Nat /\ c < dev.tx - 1
      BY <3>1, <2>2, UptoFacts
    <3>3. IsFiniteSet(rx)
      BY <3>1, <2>2, UptoFacts
    <3> QED BY <1>2, <3>2, <3>3
  <2> QED BY <1>7, <2>1, <2>2
<1> QED BY <1>1, <1>2, <1>7, <1>8

\* What the device has out is the StatusReport or what it sealed.
LEMMA OutFields ==
  ASSUME Secured, NEW o \in dev.out
  PROVE  \/ o = StatusReport /\ ~o.sec /\ o.ctr = 1 /\ o \notin toCtl /\ o.op = "statusReport"
         \/ o.sec /\ o.ctr \in Nat /\ o.ctr < dev.tx /\ o = Sealed(o.ctr) /\ o # StatusReport
<1>1. CASE o = StatusReport
  <2>1. o \notin toCtl
    BY <1>1 DEF Secured, SecureLoss, FramesInv
  <2>2. ~o.sec /\ o.ctr = 1 /\ o.op = "statusReport"
    BY <1>1 DEF StatusReport, DevFrame
  <2> QED BY <1>1, <2>1, <2>2
<1>2. CASE o.ctr \in 0..(dev.tx - 1) /\ o = Sealed(o.ctr)
  <2>1. dev.tx \in Nat /\ Calls \in 0..98
    BY Places
  <2>2. o.ctr \in Nat /\ o.ctr < dev.tx
    BY <1>2, <2>1
  <2>3. o.sec /\ o # StatusReport
    BY <1>2, <2>1, <2>2, SealedFields
  <2> QED BY <1>2, <2>2, <2>3
<1> QED BY <1>1, <1>2 DEF Secured, SecureLoss, FramesInv

\* Cardinalities of sets that lose, keep or gain one element.
LEMMA Drops ==
  ASSUME NEW A, NEW B, IsFiniteSet(A), NEW x \in A, B \subseteq A \ {x}
  PROVE  IsFiniteSet(B) /\ Cardinality(B) + 1 <= Cardinality(A)
         /\ Cardinality(A) \in Nat /\ Cardinality(B) \in Nat
<1>1. IsFiniteSet(A \ {x}) /\ Cardinality(A \ {x}) = Cardinality(A) - 1
  BY FS_RemoveElement
<1>2. IsFiniteSet(B) /\ Cardinality(B) <= Cardinality(A \ {x})
  BY <1>1, FS_Subset
<1> QED BY <1>1, <1>2, FS_CardinalityType

LEMMA Shrinks ==
  ASSUME NEW A, NEW B, IsFiniteSet(A), B \subseteq A
  PROVE  IsFiniteSet(B) /\ Cardinality(B) <= Cardinality(A)
         /\ Cardinality(A) \in Nat /\ Cardinality(B) \in Nat
BY FS_Subset, FS_CardinalityType

LEMMA Grows ==
  ASSUME NEW A, NEW B, IsFiniteSet(A), NEW x, B \subseteq A \cup {x}
  PROVE  IsFiniteSet(B) /\ Cardinality(B) <= Cardinality(A) + 1
         /\ Cardinality(A) \in Nat /\ Cardinality(B) \in Nat
<1>0. Cardinality(A) \in Nat
  BY FS_CardinalityType
<1>1. IsFiniteSet(A \cup {x}) /\ Cardinality(A \cup {x}) <= Cardinality(A) + 1
  <2>1. IsFiniteSet(A \cup {x}) /\ Cardinality(A \cup {x}) =
          IF x \in A THEN Cardinality(A) ELSE Cardinality(A) + 1
    BY FS_AddElement, Zenon
  <2> QED BY <1>0, <2>1
<1>2. IsFiniteSet(B) /\ Cardinality(B) <= Cardinality(A \cup {x})
  BY <1>1, FS_Subset
<1> QED BY <1>1, <1>2, FS_CardinalityType

\* The debt is counted.
LEMMA OwedFinite == ASSUME Secured PROVE IsFiniteSet(Owed) /\ Cardinality(Owed) \in Nat
<1>1. IsFiniteSet(rx)
  BY Places
<1> QED BY <1>1, FS_Subset, FS_CardinalityType DEF Owed

-----------------------------------------------------------------------------
\* A frame to the device is lost.
LEMMA LoseToDev ==
  ASSUME Secured, NEW f \in toDev, toDev' = toDev \ {f}, toCtl' = toCtl, losses' = losses + 1,
         UNCHANGED <<scenario, pc, iters, retrans, rx, loop, dev, hist>>
  PROVE  SecureLoss'
<1>1. UNCHANGED <<scenario, pc, iters, retrans, rx, ex, resend, tx, lastResp, dev>>
      /\ toDev' \subseteq toDev
  BY DEF loop
<1>2. Calls' = Calls /\ \A c : Sealed(c)' = Sealed(c)
  BY <1>1, SealedFixed
<1>3. Held' = Held /\ Own' \subseteq Own
  BY <1>1 DEF Held, Own
<1>4. \A o : Acks(o)' \subseteq Acks(o) /\ \A g \in Acks(o) : g \in Acks(o)' \/ g = f
  BY DEF Acks
<1>5. FramesInv'
  BY <1>1, <1>2, <1>3 DEF Secured, SecureLoss, FramesInv, Acking
<1>6. TokenInv'
  <2>1. \A o \in dev'.out : (o \in toCtl' => Acks(o)' = {}) /\ \A g, h \in Acks(o)' : g = h
    BY <1>1, <1>4 DEF Secured, SecureLoss, TokenInv
  <2>2. \A g \in toDev' : g.sec /\ g.ctr \in dev'.rx =>
          pc' \in Exchange /\ g = resend' /\ toDev' = {g} /\ toCtl' = {}
    BY <1>1 DEF Secured, SecureLoss, TokenInv
  <2> QED BY <2>1, <2>2 DEF TokenInv
<1>7. TriesInv'
  BY <1>1, Places DEF Secured, SecureLoss, TriesInv
<1>8. (IdleAt \/ RequestAt \/ ConfirmAt \/ ListenAt)'
  <2>1. IdleAt => IdleAt'
    BY <1>1 DEF IdleAt
  <2>2. RequestAt => RequestAt'
    BY <1>1, <1>2 DEF RequestAt
  <2>3. ConfirmAt => ConfirmAt'
    BY <1>1, <1>2 DEF ConfirmAt
  <2>4. ListenAt => ListenAt'
    BY <1>1, <1>2 DEF ListenAt, Latest
  <2> QED BY <2>1, <2>2, <2>3, <2>4 DEF Secured, SecureLoss
<1>9. BeforeReports'
  BY <1>1 DEF Secured, SecureLoss, BeforeReports
<1>10. ItersInv'
  <2>1. CASE pc \in Exchange /\ f = resend
    <3>1. \A c \in Owed' : f \notin Acks(Sealed(c))
      <4>1. CASE RequestAt
        <5>0. pc # "listen" /\ dev.tx \in Nat /\ dev.tx <= 100
              /\ \A c \in rx : c \in Nat /\ c < dev.tx
          BY <4>1, Places DEF RequestAt
        <5>1. f.ack = 1000 /\ \A c \in rx : c \in Nat /\ c < 1000
          BY <2>1, <4>1, <5>0 DEF RequestAt, NoAck
        <5>2. \A c \in rx : Sealed(c).ctr = c
          <6>1. Calls \in 0..98 /\ \A c \in rx : c \in Nat
            BY Places
          <6> QED BY <6>1, SealedFields, Zenon
        <5> QED BY <1>1, <5>1, <5>2 DEF Acks, Owed
      <4>2. CASE ConfirmAt
        <5>1. f.ack = ex - 1 /\ pc = "subscribeResponse" /\ \A c \in rx : c \in Nat
          BY <2>1, <4>2, Places DEF ConfirmAt
        <5>2. \A c \in rx : Sealed(c).ctr = c
          <6>1. Calls \in 0..98 /\ \A c \in rx : c \in Nat
            BY Places
          <6> QED BY <6>1, SealedFields, Zenon
        <5> QED BY <1>1, <5>1, <5>2 DEF Acks, Owed
      <4> QED BY <2>1, <4>1, <4>2 DEF Secured, SecureLoss, IdleAt, ListenAt, Exchange
    <3>2. Owed' \subseteq Owed
      BY <1>1, <1>2, <1>4, <3>1 DEF Owed
    <3>3. Cardinality(Owed') <= Cardinality(Owed) /\ Cardinality(Owed') \in Nat /\ Cardinality(Owed) \in Nat
      BY <3>2, Shrinks, OwedFinite
    <3>4. Live
      BY <2>1 DEF Live
    <3> QED BY <1>1, <2>1, <3>3, <3>4, Places DEF Secured, SecureLoss, ItersInv
  <2>2. CASE pc \in {"idle"} \cup Exchange /\ ~(pc \in Exchange /\ f = resend)
    <3>1. Owed' \subseteq Owed \cup {f.ack}
      <4>1. SUFFICES ASSUME NEW c \in Owed', c \notin Owed PROVE c = f.ack
        OBVIOUS
      <4>2. c \in rx /\ f \in Acks(Sealed(c))
        BY <1>1, <1>2, <1>4, <4>1 DEF Owed
      <4>3. c \in Nat
        BY <4>2, Places
      <4> QED BY <4>2, <4>3, Places, SealedFields DEF Acks
    <3>2. Cardinality(Owed') <= Cardinality(Owed) + 1 /\ Cardinality(Owed') \in Nat /\ Cardinality(Owed) \in Nat
      BY <3>1, Grows, OwedFinite
    <3>3. pc \in Exchange => Live' = Live
      BY <1>1, <2>2 DEF Live
    <3> QED BY <1>1, <2>2, <3>2, <3>3, Places DEF Secured, SecureLoss, ItersInv, Exchange
  <2> QED BY <1>1, <2>1, <2>2 DEF ItersInv, Exchange
<1> QED BY <1>5, <1>6, <1>7, <1>8, <1>9, <1>10 DEF SecureLoss

\* A frame to the controller is lost.
LEMMA LoseToCtl ==
  ASSUME Secured, NEW f \in toCtl, toCtl' = toCtl \ {f}, toDev' = toDev, losses' = losses + 1,
         UNCHANGED <<scenario, pc, iters, retrans, rx, loop, dev, hist>>
  PROVE  SecureLoss'
<1>1. UNCHANGED <<scenario, pc, iters, retrans, rx, ex, resend, tx, lastResp, dev, toDev>>
      /\ toCtl' \subseteq toCtl
  BY DEF loop
<1>2. Calls' = Calls /\ \A c : Sealed(c)' = Sealed(c)
  BY <1>1, SealedFixed
<1>3. Held' = Held /\ Own' = Own
  BY <1>1 DEF Held, Own
<1>4. \A o : Acks(o)' = Acks(o)
  BY <1>1 DEF Acks
<1>5. FramesInv'
  BY <1>1, <1>2, <1>3 DEF Secured, SecureLoss, FramesInv, Acking
<1>6. TokenInv'
  BY <1>1, <1>4 DEF Secured, SecureLoss, TokenInv
<1>7. TriesInv'
  BY <1>1, Places DEF Secured, SecureLoss, TriesInv
<1>8. (IdleAt \/ RequestAt \/ ConfirmAt \/ ListenAt)'
  <2>1. IdleAt => IdleAt'
    BY <1>1 DEF IdleAt
  <2>2. RequestAt => RequestAt'
    BY <1>1, <1>2 DEF RequestAt
  <2>3. ConfirmAt => ConfirmAt'
    BY <1>1, <1>2 DEF ConfirmAt
  <2>4. ListenAt => ListenAt'
    BY <1>1, <1>2 DEF ListenAt, Latest
  <2> QED BY <2>1, <2>2, <2>3, <2>4 DEF Secured, SecureLoss
<1>9. BeforeReports'
  BY <1>1 DEF Secured, SecureLoss, BeforeReports
<1>10. ItersInv'
  <2>1. Owed' = Owed
    BY <1>1, <1>2, <1>4 DEF Owed
  <2> QED BY <1>1, <2>1, OwedFinite, Places DEF Secured, SecureLoss, ItersInv
<1> QED BY <1>5, <1>6, <1>7, <1>8, <1>9, <1>10 DEF SecureLoss

\* The places when neither side has taken a frame.
LEMMA PlaceKept ==
  ASSUME Secured, UNCHANGED <<scenario, pc, rx, ex, resend, lastResp>>,
         pc = "listen" => toDev' \subseteq toDev,
         dev'.rx = dev.rx, dev'.tx = dev.tx, dev'.out = dev.out, dev'.subscribed = dev.subscribed,
         dev'.reported = dev.reported, dev'.answered = dev.answered
  PROVE  (IdleAt \/ RequestAt \/ ConfirmAt \/ ListenAt)' /\ BeforeReports'
<1>2. Calls' = Calls /\ \A c : Sealed(c)' = Sealed(c)
  BY SealedFixed
<1>3. IdleAt => IdleAt'
  BY DEF IdleAt
<1>4. RequestAt => RequestAt'
  BY <1>2 DEF RequestAt
<1>5. ConfirmAt => ConfirmAt'
  BY <1>2 DEF ConfirmAt
<1>6. ListenAt => ListenAt'
  BY <1>2 DEF ListenAt, Latest
<1>7. BeforeReports'
  BY DEF Secured, SecureLoss, BeforeReports
<1> QED BY <1>3, <1>4, <1>5, <1>6, <1>7 DEF Secured, SecureLoss

\* A deadline passes: less has been re-sent than was lost, so the frame goes out again.
LEMMA TimeoutLoss ==
  ASSUME Secured, Timeout
  PROVE  SecureLoss' /\ result' = result /\ iters' = iters + 1 /\ retrans' = retrans + 1
<1>1. /\ UNCHANGED <<scenario, ex, resend, rx, lastResp, toCtl, losses, dev>>
      /\ pc \in Handshake \cup Exchange /\ toDev = {} /\ toCtl = {}
  BY DEF Timeout, Quiet, Secured, Mild
<1>2. Calls' = Calls /\ \A c : Sealed(c)' = Sealed(c)
  BY <1>1, SealedFixed
<1>3. pc \in Exchange
  BY <1>1, Places DEF Handshake, Exchange
<1>4. ~Live
  BY <1>1 DEF Live
<1>5. iters + 1 + Cardinality(Owed) <= losses /\ Cardinality(Owed) \in Nat
  BY <1>3, <1>4, OwedFinite DEF Secured, SecureLoss, ItersInv
<1>6. MayRetransmit
  <2>1. losses <= MaxRetransmits /\ retrans \in Nat /\ retrans <= iters /\ iters \in Nat /\ losses \in Nat
    BY DEF Secured, Mild, NumbersInv
  <2>2. MaxRetransmits \in Nat
    BY ScenarioAssumption DEF MaxRetransmits, Secured, ShapeInv
  <2> QED BY <1>5, <2>1, <2>2 DEF MayRetransmit
<1>7. toDev' = {resend} /\ tx' = tx /\ pc' = pc /\ result' = result
      /\ iters' = iters + 1 /\ retrans' = retrans + 1
  BY <1>1, <1>6 DEF Timeout, Retransmit, Iter
<1>8. Held' = Held /\ resend \in Held /\ Own' = Own
  BY <1>1, <1>3, <1>7 DEF Held, Own
<1>9. FramesInv'
  BY <1>1, <1>2, <1>7, <1>8 DEF Secured, SecureLoss, FramesInv
<1>10. \A o : Acks(o)' \subseteq {resend} /\ Acks(o) = {}
  BY <1>1, <1>7 DEF Acks
<1>11. TokenInv'
  BY <1>1, <1>3, <1>7, <1>10 DEF TokenInv
<1>12. TriesInv'
  <2>1. \A o \in dev.out : Dark(o)
    BY <1>1, <1>10 DEF Dark
  <2> QED BY <1>1, <2>1 DEF Secured, SecureLoss, TriesInv
<1>13. (IdleAt \/ RequestAt \/ ConfirmAt \/ ListenAt)' /\ BeforeReports'
  <2>1. pc # "listen"
    BY <1>3 DEF Exchange
  <2> QED BY <1>1, <1>7, <2>1, PlaceKept
<1>14. ItersInv'
  <2>1. Owed' \subseteq Owed
    BY <1>1, <1>2, <1>7, <1>10 DEF Owed
  <2>2. Cardinality(Owed') <= Cardinality(Owed) /\ Cardinality(Owed') \in Nat
    BY <2>1, OwedFinite, Shrinks
  <2>3. Live'
    BY <1>1, <1>7 DEF Live
  <2> QED BY <1>1, <1>5, <1>7, <2>2, <2>3, Places DEF ItersInv
<1> QED BY <1>7, <1>9, <1>11, <1>12, <1>13, <1>14 DEF SecureLoss

\* The device's timer: a message is dark, so its tries are fewer than the losses.
LEMMA DevTimeoutLoss ==
  ASSUME Secured, DevTimeout, Mild' PROVE SecureLoss'
<1>1. /\ UNCHANGED <<scenario, pc, ex, resend, tx, rx, lastResp, toDev, losses, iters>>
      /\ toDev = {} /\ toCtl = {} /\ dev.out # {}
  BY DEF DevTimeout, loop, Quiet, Secured, Mild
<1>2. Calls' = Calls /\ \A c : Sealed(c)' = Sealed(c)
  BY <1>1, SealedFixed
<1>3. \A o : Acks(o)' = {} /\ Acks(o) = {}
  BY <1>1 DEF Acks
<1>4. \A o \in dev.out : Dark(o)
  BY <1>1, <1>3 DEF Dark
<1>5. dev.tries < losses
  BY <1>1, <1>4 DEF Secured, SecureLoss, TriesInv
<1>6. dev.tries # MaxRetransmits
  <2>1. losses <= MaxRetransmits
    BY DEF Secured, Mild
  <2>2. MaxRetransmits \in Nat
    BY ScenarioAssumption DEF MaxRetransmits, Secured, ShapeInv
  <2> QED BY <1>5, <2>1, <2>2, Places
<1>7. /\ toCtl' = toCtl \cup dev.out
      /\ dev' = [dev EXCEPT !.tries = IF Timely THEN @ + 1 ELSE @,
                   !.statusResent = @ \/ \E o \in dev.out : o.op = "statusReport"]
  BY <1>6 DEF DevTimeout
<1>8. PICK t, s : /\ t = IF Timely THEN dev.tries + 1 ELSE dev.tries
                  /\ s = (dev.statusResent \/ \E o \in dev.out : o.op = "statusReport")
  OBVIOUS
<1>9. dev' = [dev EXCEPT !.tries = t, !.statusResent = s]
  BY <1>7, <1>8, Zenon
<1>10. /\ dev'.phase = dev.phase /\ dev'.rx = dev.rx /\ dev'.tx = dev.tx /\ dev'.out = dev.out
       /\ dev'.subscribed = dev.subscribed /\ dev'.reported = dev.reported
       /\ dev'.answered = dev.answered /\ dev'.tries = t /\ dev'.statusResent = s
  BY <1>9 DEF Shaped, Secured, ShapeInv
<1>11. t = dev.tries + 1
  BY <1>8 DEF Secured, Mild
<1>12. StatusReport \notin dev.out
  <2>1. ~s
    BY <1>10 DEF Mild
  <2>2. StatusReport.op = "statusReport"
    BY DEF StatusReport, DevFrame
  <2> QED BY <1>8, <2>1, <2>2
<1>13. Held' = Held /\ Own' = Own /\ toCtl' = dev.out
  BY <1>1, <1>7 DEF Held, Own
<1>14. FramesInv'
  <2>1. toCtl' \subseteq dev'.out \ {StatusReport}
    BY <1>10, <1>12, <1>13
  <2> QED BY <1>1, <1>2, <1>10, <1>13, <2>1 DEF Secured, SecureLoss, FramesInv
<1>15. TokenInv'
  BY <1>1, <1>3 DEF TokenInv
<1>16. TriesInv'
  BY <1>1, <1>5, <1>10, <1>11, <1>13, Places DEF TriesInv, Dark
<1>17. (IdleAt \/ RequestAt \/ ConfirmAt \/ ListenAt)' /\ BeforeReports'
  BY <1>1, <1>10, PlaceKept
<1>18. ItersInv'
  <2>1. Owed' = Owed
    BY <1>1, <1>2, <1>3, <1>10 DEF Owed
  <2>2. ~Live
    BY <1>1 DEF Live
  <2> QED BY <1>1, <2>1, <2>2, OwedFinite, Places DEF Secured, SecureLoss, ItersInv
<1> QED BY <1>14, <1>15, <1>16, <1>17, <1>18 DEF SecureLoss

-----------------------------------------------------------------------------
\* The controller takes f and sends n, which acknowledges it.
Acknowledge(f, n) ==
  /\ n.sec /\ n.ack = f.ctr /\ n.ctr \notin dev.rx
  /\ toDev' = toDev \cup {n} /\ toCtl' = toCtl \ {f}
  /\ dev' = dev /\ losses' = losses /\ scenario' = scenario /\ rx' = rx \cup {f.ctr}

\* A frame on its way to the controller is still unacknowledged, and so is what it answers.
LEMMA InFlightOut ==
  ASSUME Secured, NEW f \in toCtl
  PROVE  /\ f \in dev.out /\ f.sec /\ f.ctr \in Nat /\ f.ctr < dev.tx /\ f = Sealed(f.ctr)
         /\ Acks(f) = {}
         /\ \A g \in toDev : g.sec => g.ctr \notin dev.rx
<1>1. f \in dev.out /\ f # StatusReport
  BY DEF Secured, SecureLoss, FramesInv
<1>2. f.sec /\ f.ctr \in Nat /\ f.ctr < dev.tx /\ f = Sealed(f.ctr)
  BY <1>1, OutFields
<1>3. Acks(f) = {} /\ \A g \in toDev : g.sec => g.ctr \notin dev.rx
  BY <1>1 DEF Secured, SecureLoss, TokenInv
<1> QED BY <1>1, <1>2, <1>3

\* ackMsg: the acknowledgement takes the place of the message.
LEMMA AcknowledgeTokens ==
  ASSUME Secured, NEW f \in toCtl, NEW n, Acknowledge(f, n)
  PROVE  TokenInv' /\ TriesInv' /\ \A c \in rx' : Acks(Sealed(c))' = {} =>
                                      c \in rx /\ Acks(Sealed(c)) = {} /\ c # f.ctr
<1>1. /\ n.sec /\ n.ack = f.ctr /\ n.ctr \notin dev.rx
      /\ toDev' = toDev \cup {n} /\ toCtl' = toCtl \ {f}
      /\ dev' = dev /\ losses' = losses /\ scenario' = scenario /\ rx' = rx \cup {f.ctr}
  BY DEF Acknowledge
<1>2. Calls' = Calls /\ \A c : Sealed(c)' = Sealed(c)
  BY <1>1, SealedFixed
<1>3. /\ f \in dev.out /\ f.sec /\ f.ctr \in Nat /\ f = Sealed(f.ctr)
      /\ Acks(f) = {} /\ \A g \in toDev : g.sec => g.ctr \notin dev.rx
  BY InFlightOut
<1>4. \A o \in dev.out : o # f => Acks(o)' = Acks(o)
  <2> SUFFICES ASSUME NEW o \in dev.out, o # f PROVE ~(o.sec /\ o.ctr = f.ctr)
    BY <1>1 DEF Acks
  <2> QED BY <1>3, OutFields
<1>5. Acks(f)' = {n}
  BY <1>1, <1>3 DEF Acks
<1>6. TokenInv'
  <2>1. \A o \in dev'.out : o \in toCtl' => Acks(o)' = {}
    BY <1>1, <1>4 DEF Secured, SecureLoss, TokenInv
  <2>2. \A o \in dev'.out : \A g, h \in Acks(o)' : g = h
    BY <1>1, <1>4, <1>5 DEF Secured, SecureLoss, TokenInv
  <2>3. \A g \in toDev' : ~(g.sec /\ g.ctr \in dev'.rx)
    BY <1>1, <1>3
  <2> QED BY <2>1, <2>2, <2>3 DEF TokenInv
<1>7. TriesInv'
  <2>1. ASSUME NEW o \in dev.out, Dark(o)' PROVE Dark(o)
    BY <1>1, <1>4, <1>5, <2>1 DEF Dark
  <2> QED BY <1>1, <2>1 DEF Secured, SecureLoss, TriesInv
<1>8. ASSUME NEW c \in rx', Acks(Sealed(c))' = {}
      PROVE  c \in rx /\ Acks(Sealed(c)) = {} /\ c # f.ctr
  <2>1. c # f.ctr
    <3>1. c = f.ctr => Sealed(c)' = f
      BY <1>2, <1>3
    <3>2. c = f.ctr => n \in Acks(Sealed(c))'
      BY <1>1, <1>3, <3>1 DEF Acks
    <3> QED BY <1>8, <3>2
  <2>2. Acks(Sealed(c)) \subseteq Acks(Sealed(c))'
    BY <1>1, <1>2 DEF Acks
  <2> QED BY <1>1, <1>8, <2>1, <2>2
<1> QED BY <1>6, <1>7, <1>8

\* The acknowledgement is a frame like those before it.
LEMMA AcknowledgeFrames ==
  ASSUME Secured, NEW f \in toCtl, NEW n, Acknowledge(f, n),
         (tx' = tx + 1 /\ n.ctr = tx) \/ (tx' = tx /\ n \in Held),
         n.op = "ack" \/ n \in Held',
         Held' \subseteq Held \cup {n}, toDev \cap Held \subseteq Held',
         pc' = "listen" => \A g \in Held' : g.op = "statusResponse"
  PROVE  FramesInv'
<1>1. /\ n.sec /\ n.ack = f.ctr /\ n.ctr \notin dev.rx
      /\ toDev' = toDev \cup {n} /\ toCtl' = toCtl \ {f}
      /\ dev' = dev /\ losses' = losses /\ scenario' = scenario /\ rx' = rx \cup {f.ctr}
  BY DEF Acknowledge
<1>2. Calls' = Calls /\ \A c : Sealed(c)' = Sealed(c)
  BY <1>1, SealedFixed
<1>3. f \in dev.out /\ f = Sealed(f.ctr)
  BY InFlightOut
<1>t. tx \in Nat
  BY Places
<1>4. \A o \in dev'.out : o = StatusReport \/ (o.ctr \in 0..(dev'.tx - 1) /\ o = Sealed(o.ctr)')
  BY <1>1, <1>2 DEF Secured, SecureLoss, FramesInv
<1>5. ASSUME NEW g \in toDev'
      PROVE  (g = LastAck /\ StatusReport \in dev'.out) \/ Acking(g)' \/ g \in Held'
  <2>1. CASE g \in toDev
    BY <1>1, <1>2, <2>1 DEF Secured, SecureLoss, FramesInv, Acking
  <2>2. CASE g = n /\ n.op = "ack"
    BY <1>1, <1>2, <1>3, <2>2 DEF Acking
  <2> QED BY <1>1, <2>1, <2>2
<1>6. \A g \in Held' : g.sec /\ (pc' = "listen" => g.op = "statusResponse")
  BY <1>1 DEF Secured, SecureLoss, FramesInv
<1>7. \A g \in Own' : g \in Own \/ g = n
  BY <1>1 DEF Own
<1>8. \A g \in Own : g.sec => g.ctr \in 0..(tx - 1)
  BY DEF Secured, SecureLoss, FramesInv
<1>9. CASE tx' = tx + 1 /\ n.ctr = tx
  <2>1. \A g \in Own' : g.sec => g.ctr \in 0..(tx' - 1)
    BY <1>7, <1>8, <1>9, <1>t
  <2>2. \A g \in Own : g.sec => g.ctr # n.ctr
    BY <1>8, <1>9, <1>t
  <2>3. \A g, h \in Own' : g.sec /\ h.sec /\ g.ctr = h.ctr => g = h
    BY <1>7, <2>2 DEF Secured, SecureLoss, FramesInv
  <2>4. dev'.rx \subseteq 0..(tx' - 1)
    BY <1>1, <1>9, <1>t DEF Secured, SecureLoss, FramesInv
  <2> QED BY <1>1, <1>4, <1>5, <1>6, <2>1, <2>3, <2>4 DEF Secured, SecureLoss, FramesInv
<1>10. CASE tx' = tx /\ n \in Held
  <2>1. Own' \subseteq Own
    BY <1>7, <1>10 DEF Own
  <2> QED BY <1>1, <1>4, <1>5, <1>6, <1>10, <2>1 DEF Secured, SecureLoss, FramesInv
<1> QED BY <1>9, <1>10

\* One more counter.
LEMMA UptoNext == ASSUME NEW n \in Nat PROVE Upto(n) \cup {n} = Upto(n + 1)
<1>1. \A c : c \in Upto(n) <=> c \in Nat /\ c < n
  BY UptoFacts
<1>2. \A c : c \in Upto(n + 1) <=> c \in Nat /\ c < n + 1
  BY UptoFacts
<1> QED BY <1>1, <1>2

\* A message that the session has not accepted is the one it waits for.
LEMMA Fresh ==
  ASSUME Secured, NEW f \in toCtl, f.ctr \notin rx
  PROVE  /\ \/ /\ RequestAt /\ f.ctr = ex - 1 /\ dev.tx = ex /\ ex > 0
               /\ f.op = (IF pc = "reply" THEN "reply" ELSE "report")
            \/ /\ ConfirmAt /\ f.ctr = ex /\ dev.tx = ex + 1 /\ dev.subscribed
               /\ f.op = "subscribeResponse"
               /\ Sealed(ex - 1) \notin dev.out
            \/ /\ ListenAt /\ f.ctr = dev.tx - 1 /\ dev.reported > 0
               /\ f.op = "report" /\ f.ex = DevExchange(dev.reported)
               /\ dev.reported = dev.answered + 1 /\ dev.out = {Latest}
               /\ rx = Upto(dev.tx - 1) /\ toDev = {}
         /\ pc \in Exchange => f.ex = ex /\ resend \notin toDev
<1>1. /\ f \in dev.out /\ f.ctr \in Nat /\ f.ctr < dev.tx /\ f = Sealed(f.ctr)
      /\ \A g \in toDev : g.sec => g.ctr \notin dev.rx
  BY InFlightOut
<1>2. /\ Calls \in 0..98 /\ ex \in 0..(Calls + 1) /\ dev.reported \in Nat /\ dev.answered \in Nat
      /\ dev.tx \in Nat
  BY Places
<1>s. Calls \in Nat /\ ex \in Nat
  BY <1>2
<1>3. /\ f.op = IF f.ctr < Calls THEN "reply" ELSE IF f.ctr = Calls + 1 THEN "subscribeResponse"
                ELSE "report"
      /\ f.ctr <= Calls => f.ex = f.ctr + 1
      /\ f.ctr = Calls + 1 => f.ex = f.ctr
      /\ f.ctr > Calls + 1 => f.ex = DevExchange(f.ctr - Calls - 1)
  BY <1>1, <1>2, SealedFields, Zenon
<1>4. CASE IdleAt
  <2>1. FALSE
    BY <1>1, <1>s, <1>4, UptoFacts DEF IdleAt
  <2> QED BY <2>1
<1>5. CASE RequestAt
  <2>0. pc \in {"reply", "prime"} /\ rx = Upto(ex - 1) /\ ex > 0 
        /\ (dev.tx = ex - 1 \/ (dev.tx = ex /\ resend.ctr \in dev.rx))
    BY <1>5, Zenon DEF RequestAt
  <2>1. ~(f.ctr < ex - 1)
    BY <1>1, <1>s, <2>0, UptoFacts
  <2>2. f.ctr = ex - 1 /\ dev.tx = ex /\ resend.ctr \in dev.rx
    BY <1>1, <1>s, <2>0, <2>1
  <2>3. pc = "reply" => ex <= Calls
    BY <1>s DEF Secured, ShapeInv
  <2>4. pc = "prime" => ex = Calls + 1
    BY DEF Secured, ShapeInv
  <2>5. f.op = (IF pc = "reply" THEN "reply" ELSE "report") /\ f.ex = ex
    <3>1. CASE pc = "reply"
      BY <1>3, <1>s, <2>2, <2>3, <3>1
    <3>2. CASE pc = "prime"
      BY <1>3, <1>s, <2>2, <2>4, <3>2
    <3> QED BY <2>0, <3>1, <3>2
  <2>6. resend \in Held
    BY <2>0 DEF Held, Exchange
  <2>7. resend.sec
    BY <2>6 DEF Secured, SecureLoss, FramesInv
  <2> QED BY <1>1, <1>5, <2>0, <2>2, <2>5, <2>7
<1>6. CASE ConfirmAt
  <2>0. /\ pc = "subscribeResponse" /\ rx = Upto(ex) /\ ex > 0
        /\ \/ dev.tx = ex
           \/ dev.tx = ex + 1 /\ resend.ctr \in dev.rx /\ dev.subscribed /\ Sealed(ex - 1) \notin dev.out
    BY <1>6 DEF ConfirmAt
  <2>1. ~(f.ctr < ex)
    BY <1>1, <1>s, <2>0, UptoFacts
  <2>2. f.ctr = ex /\ dev.tx = ex + 1 /\ resend.ctr \in dev.rx
    BY <1>1, <1>s, <2>0, <2>1
  <2>4. ex = Calls + 1
    BY <2>0 DEF Secured, ShapeInv
  <2>5. f.op = "subscribeResponse" /\ f.ex = ex
    BY <1>3, <1>s, <2>2, <2>4
  <2>6. resend \in Held
    BY <2>0 DEF Held, Exchange
  <2>7. resend.sec
    BY <2>6 DEF Secured, SecureLoss, FramesInv
  <2>8. dev.tx # ex
    BY <1>s, <2>2
  <2> QED BY <1>1, <1>6, <2>0, <2>2, <2>5, <2>7, <2>8
<1>7. CASE ListenAt
  <2>0. rx # Upto(dev.tx)
    BY <1>1, <1>2, UptoFacts
  <2>1. /\ dev.reported = dev.answered + 1 /\ dev.out = {Latest} /\ rx = Upto(dev.tx - 1) /\ toDev = {}
        /\ dev.tx = Calls + 2 + dev.reported /\ pc = "listen"
    BY <1>7, <2>0 DEF ListenAt
  <2>2. dev.tx - 1 \in Int /\ dev.reported > 0
    BY <1>2, <2>1
  <2>3. ~(f.ctr < dev.tx - 1)
    BY <1>1, <2>1, <2>2, UptoFacts
  <2>4. f.ctr = dev.tx - 1 /\ f.ctr > Calls + 1 /\ f.ctr - Calls - 1 = dev.reported
    BY <1>1, <1>2, <1>s, <2>1, <2>2, <2>3
  <2>5. f.op = "report" /\ f.ex = DevExchange(dev.reported)
    BY <1>3, <1>1, <1>s, <2>4
  <2> QED BY <1>7, <2>1, <2>2, <2>4, <2>5 DEF Exchange
<1> QED BY <1>4, <1>5, <1>6, <1>7 DEF Secured, SecureLoss

-----------------------------------------------------------------------------
\* The frame that ackMsg seals.
LEMMA AckIs ==
  ASSUME NEW m, AckMsg(m)
  PROVE  \E n : /\ n.sec /\ n.op = "ack" /\ n.ack = m.ctr /\ n.ctr = tx
                /\ toDev' = toDev \cup {n} /\ tx' = tx + 1
<1>1. PICK n : n = Frame(TRUE, "ack", m.ex, tx, m.ctr)
  OBVIOUS
<1>2. n.sec /\ n.op = "ack" /\ n.ack = m.ctr /\ n.ctr = tx
  BY <1>1 DEF Frame
<1> QED BY <1>1, <1>2 DEF AckMsg

\* No frame under way has the counter that is sealed next.
LEMMA NewCounter ==
  ASSUME Secured
  PROVE  tx \notin dev.rx /\ \A g \in Own : g.sec => g.ctr # tx
BY Places DEF Secured, SecureLoss, FramesInv

\* exchangeRT takes a duplicate.
LEMMA DuplicateLoss ==
  ASSUME Secured, NEW f \in toCtl, Duplicate(f)
  PROVE  SecureLoss'
<1>1. /\ UNCHANGED <<scenario, pc, ex, resend, retrans, rx, lastResp, losses, dev>>
      /\ iters' = iters + 1 /\ pc \in Exchange /\ f.ctr \in rx /\ toCtl' = toCtl \ {f}
      /\ rx' = rx \cup {f.ctr}
  BY DEF Duplicate, Iter
<1>2. Calls' = Calls /\ \A c : Sealed(c)' = Sealed(c)
  BY <1>1, SealedFixed
<1>3. /\ f \in dev.out /\ f.sec /\ f.ctr \in Nat /\ f.ctr < dev.tx /\ f = Sealed(f.ctr)
      /\ Acks(f) = {}
  BY InFlightOut
<1>4. /\ Calls \in 0..98 /\ ex \in 0..(Calls + 1) /\ iters \in Nat /\ losses \in Nat
  BY Places
<1>s. Calls \in Nat /\ ex \in Nat
  BY <1>4
<1>5. /\ f.ctr <= Calls => f.ex = f.ctr + 1
  BY <1>3, <1>4, SealedFields, Zenon
<1>6. Held' = Held /\ resend \in Held /\ resend.sec
  <2>1. Held' = Held /\ resend \in Held
    BY <1>1 DEF Held
  <2> QED BY <2>1 DEF Secured, SecureLoss, FramesInv
<1>7. pc = "subscribeResponse" => ex = Calls + 1 /\ ConfirmAt
  BY DEF Secured, SecureLoss, ShapeInv, IdleAt, RequestAt, ListenAt
<1>8. pc # "subscribeResponse" => RequestAt
  BY <1>1 DEF Secured, SecureLoss, IdleAt, ConfirmAt, ListenAt, Exchange
<1>9. (IdleAt \/ RequestAt \/ ConfirmAt \/ ListenAt)' /\ BeforeReports'
  <2>1. pc # "listen"
    BY <1>1 DEF Exchange
  <2> QED BY <1>1, <2>1, PlaceKept
<1>10. CASE f.ex = ex
  <2>1. toDev' = toDev \cup {resend} /\ tx' = tx
    BY <1>10 DEF Duplicate
  <2>2. pc = "subscribeResponse"
    <3> SUFFICES ASSUME RequestAt PROVE FALSE
      BY <1>8
    <3>1. rx = Upto(ex - 1) /\ ex > 0
      BY DEF RequestAt
    <3>2. f.ctr < ex - 1
      <4>1. ex - 1 \in Int
        BY <1>s
      <4> QED BY <1>1, <3>1, <4>1, UptoFacts
    <3> QED BY <1>3, <1>4, <1>s, <1>5, <1>10, <3>2
  <2>3. f.ctr < ex
    BY <1>1, <1>7, <1>s, <2>2, UptoFacts DEF ConfirmAt
  <2>4. f.ctr = ex - 1
    BY <1>3, <1>5, <1>7, <1>s, <1>10, <2>2, <2>3
  <2>5. resend.ack = f.ctr /\ resend.ctr \notin dev.rx
    BY <1>3, <1>7, <2>2, <2>4 DEF ConfirmAt
  <2>6. Acknowledge(f, resend)
    BY <1>1, <1>6, <2>1, <2>5 DEF Acknowledge
  <2>7. FramesInv'
    <3>1. pc' # "listen"
      BY <1>1 DEF Exchange
    <3> QED BY <1>6, <2>1, <2>6, <3>1, AcknowledgeFrames
  <2>8. TokenInv' /\ TriesInv' /\ \A c \in rx' : Acks(Sealed(c))' = {} => Acks(Sealed(c)) = {}
    BY <2>6, AcknowledgeTokens
  <2>9. ItersInv'
    <3>1. Owed' \subseteq Owed
      BY <1>1, <1>2, <2>8 DEF Owed
    <3>2. Cardinality(Owed') <= Cardinality(Owed) /\ Cardinality(Owed') \in Nat /\ Cardinality(Owed) \in Nat
      BY <3>1, OwedFinite, Shrinks
    <3>3. ~Live
      <4>1. resend \notin toDev
        BY <1>3, <1>6, <2>5 DEF Acks
      <4>2. Sealed(ex - 1) \in dev.out
        BY <1>3, <2>4
      <4>3. ~RequestAt /\ ~ListenAt
        BY <2>2 DEF RequestAt, ListenAt
      <4>4. \A g \in toCtl : g.ctr \in rx
        BY <4>2, <4>3, Fresh
      <4> QED BY <4>1, <4>4 DEF Live
    <3>4. Live'
      BY <1>1, <2>1 DEF Live
    <3> QED BY <1>1, <1>4, <3>2, <3>3, <3>4 DEF Secured, SecureLoss, ItersInv
  <2> QED BY <1>9, <2>7, <2>8, <2>9 DEF SecureLoss
<1>11. CASE f.ex # ex
  <2>1. AckMsg(f)
    BY <1>11 DEF Duplicate
  <2>2. PICK n : /\ n.sec /\ n.op = "ack" /\ n.ack = f.ctr /\ n.ctr = tx
                 /\ toDev' = toDev \cup {n} /\ tx' = tx + 1
    BY <2>1, AckIs
  <2>3. Acknowledge(f, n)
    BY <1>1, <2>2, NewCounter DEF Acknowledge
  <2>4. FramesInv'
    <3>1. pc' # "listen"
      BY <1>1 DEF Exchange
    <3>2. Held' \subseteq Held \cup {n} /\ toDev \cap Held \subseteq Held'
      BY <1>6
    <3>3. ((tx' = tx + 1 /\ n.ctr = tx) \/ (tx' = tx /\ n \in Held)) /\ (n.op = "ack" \/ n \in Held')
      BY <2>2
    <3> QED BY <2>3, <3>1, <3>2, <3>3, AcknowledgeFrames
  <2>5. TokenInv' /\ TriesInv' /\ \A c \in rx' : Acks(Sealed(c))' = {} => Acks(Sealed(c)) = {} /\ c # f.ctr
    BY <2>3, AcknowledgeTokens
  <2>6. ItersInv'
    <3>1. Owed' \subseteq Owed \ {f.ctr}
      BY <1>1, <1>2, <2>5 DEF Owed
    <3>2. f.ctr \in Owed
      <4>1. CASE pc = "subscribeResponse"
        <5>1. f.ctr # ex - 1
          BY <1>3, <1>5, <1>7, <1>s, <1>11, <4>1
        <5> QED BY <1>1, <1>3, <5>1 DEF Owed
      <4>2. CASE pc # "subscribeResponse"
        BY <1>1, <1>3, <4>2 DEF Owed
      <4> QED BY <4>1, <4>2
    <3>3. Cardinality(Owed') + 1 <= Cardinality(Owed) /\ Cardinality(Owed') \in Nat /\ Cardinality(Owed) \in Nat
      BY <3>1, <3>2, OwedFinite, Drops
    <3>4. Live' = Live
      <4>1. n # resend
        BY <1>6, <2>2, NewCounter DEF Own
      <4> QED BY <1>1, <2>2, <4>1 DEF Live
    <3> QED BY <1>1, <1>4, <3>3, <3>4 DEF Secured, SecureLoss, ItersInv
  <2> QED BY <1>9, <2>4, <2>5, <2>6 DEF SecureLoss
<1> QED BY <1>10, <1>11

\* exchangeRT returns the answer.
LEMMA ReplyLoss ==
  ASSUME Secured, NEW f \in toCtl, Reply(f)
  PROVE  /\ SecureLoss'
         /\ result' = result \/ \E v \in {"own", "other"} : result' = [result EXCEPT ![ex] = v]
         /\ UNCHANGED <<iters, retrans>> \/ (iters' = 0 /\ retrans' = 0)
<1>1. /\ UNCHANGED <<scenario, ex, lastResp, losses, dev>>
      /\ pc \in Exchange /\ f.ctr \notin rx /\ toCtl' = toCtl \ {f} /\ rx' = rx \cup {f.ctr}
  BY DEF Reply
<1>2. Calls' = Calls /\ \A c : Sealed(c)' = Sealed(c)
  BY <1>1, SealedFixed
<1>3. /\ f \in dev.out /\ f.sec /\ f.ctr \in Nat /\ f.ctr < dev.tx /\ f = Sealed(f.ctr)
  BY InFlightOut
<1>4. /\ Calls \in 0..98 /\ ex \in 0..(Calls + 1) /\ iters \in Nat /\ losses \in Nat
  BY Places
<1>s. Calls \in Nat /\ ex \in Nat
  BY <1>4
<1>5. resend \notin toDev /\ toDev \cap Held = {}
  <2>1. resend \notin toDev
    BY <1>1, Fresh
  <2> QED BY <1>1, <2>1 DEF Held
<1>6. ~ListenAt /\ (pc \in {"reply", "prime"} => ~ConfirmAt) /\ (pc = "subscribeResponse" => ~RequestAt)
  BY <1>1 DEF ListenAt, Exchange, ConfirmAt, RequestAt
<1>7. lastResp = None /\ dev.reported = 0 /\ dev.answered = 0
  BY <1>1 DEF Secured, SecureLoss, BeforeReports
<1>8. CASE /\ pc = "reply" /\ AckMsg(f) /\ pc' = "idle"
           /\ result' = [result EXCEPT ![ex] = IF f.re = ex THEN "own" ELSE "other"]
           /\ UNCHANGED <<resend, iters, retrans>>
  <2>1. PICK n : /\ n.sec /\ n.op = "ack" /\ n.ack = f.ctr /\ n.ctr = tx
                 /\ toDev' = toDev \cup {n} /\ tx' = tx + 1
    BY <1>8, AckIs
  <2>2. Acknowledge(f, n)
    BY <1>1, <2>1, NewCounter DEF Acknowledge
  <2>3. FramesInv'
    <3>1. Held' = {}
      BY <1>8 DEF Held, Exchange
    <3>2. Held' \subseteq Held \cup {n} /\ toDev \cap Held \subseteq Held' /\ pc' # "listen"
      BY <1>5, <1>8, <3>1
    <3> QED BY <2>1, <2>2, <3>2, AcknowledgeFrames
  <2>4. TokenInv' /\ TriesInv' /\ \A c \in rx' : Acks(Sealed(c))' = {} =>
                                      c \in rx /\ Acks(Sealed(c)) = {}
    BY <2>2, AcknowledgeTokens
  <2>5. RequestAt /\ f.ctr = ex - 1 /\ dev.tx = ex /\ ex > 0
    BY <1>1, <1>6, <1>8, Fresh
  <2>6. IdleAt'
    <3>1. rx = Upto(ex - 1) /\ ~dev.subscribed
      BY <2>5 DEF RequestAt
    <3>2. rx' = Upto(ex)
      <4>1. ex - 1 \in Nat /\ (ex - 1) + 1 = ex
        BY <1>s, <2>5
      <4>2. Upto(ex - 1) \cup {ex - 1} = Upto((ex - 1) + 1)
        BY <4>1, UptoNext
      <4> QED BY <1>1, <2>5, <3>1, <4>1, <4>2
    <3> QED BY <1>1, <1>8, <2>5, <3>1, <3>2 DEF IdleAt
  <2>7. BeforeReports'
    BY <1>1, <1>7 DEF BeforeReports
  <2>8. ItersInv'
    <3>1. Owed' \subseteq Owed
      BY <1>1, <1>2, <1>8, <2>4 DEF Owed
    <3>2. Cardinality(Owed') <= Cardinality(Owed) /\ Cardinality(Owed') \in Nat /\ Cardinality(Owed) \in Nat
      BY <3>1, OwedFinite, Shrinks
    <3>3. Cardinality(Owed) <= losses
      BY <1>1 DEF Secured, SecureLoss, ItersInv
    <3> QED BY <1>1, <1>4, <1>8, <3>2, <3>3 DEF ItersInv, Exchange
  <2>9. \E v \in {"own", "other"} : result' = [result EXCEPT ![ex] = v]
    BY <1>8
  <2> QED BY <1>8, <2>3, <2>4, <2>6, <2>7, <2>8, <2>9 DEF SecureLoss
<1>9. CASE /\ pc = "prime" /\ f.op = "report"
           /\ Await("subscribeResponse", Frame(TRUE, "statusResponse", ex, tx, f.ctr))
           /\ toDev' = toDev \cup {Frame(TRUE, "statusResponse", ex, tx, f.ctr)}
           /\ tx' = tx + 1 /\ UNCHANGED result
  <2>0. PICK n : n = Frame(TRUE, "statusResponse", ex, tx, f.ctr)
    OBVIOUS
  <2>1. /\ n.sec /\ n.op = "statusResponse" /\ n.ack = f.ctr /\ n.ctr = tx /\ n.ex = ex
        /\ toDev' = toDev \cup {n} /\ tx' = tx + 1 /\ resend' = n
        /\ pc' = "subscribeResponse" /\ iters' = 0 /\ retrans' = 0 /\ result' = result
    BY <1>9, <2>0 DEF Frame, Await
  <2>2. Acknowledge(f, n)
    BY <1>1, <2>1, NewCounter DEF Acknowledge
  <2>3. FramesInv'
    <3>1. Held' = {n}
      BY <2>1 DEF Held, Exchange
    <3>2. Held' \subseteq Held \cup {n} /\ toDev \cap Held \subseteq Held' /\ pc' # "listen" /\ n \in Held'
      BY <1>5, <2>1, <3>1
    <3> QED BY <2>1, <2>2, <3>2, AcknowledgeFrames
  <2>4. TokenInv' /\ TriesInv' /\ \A c \in rx' : Acks(Sealed(c))' = {} =>
                                      c \in rx /\ Acks(Sealed(c)) = {}
    BY <2>2, AcknowledgeTokens
  <2>5. RequestAt /\ f.ctr = ex - 1 /\ dev.tx = ex /\ ex > 0
    BY <1>1, <1>6, <1>9, Fresh
  <2>6. ConfirmAt'
    <3>1. rx = Upto(ex - 1) /\ ~dev.subscribed
      BY <2>5 DEF RequestAt
    <3>2. rx' = Upto(ex)
      <4>1. ex - 1 \in Nat /\ (ex - 1) + 1 = ex
        BY <1>s, <2>5
      <4>2. Upto(ex - 1) \cup {ex - 1} = Upto((ex - 1) + 1)
        BY <4>1, UptoNext
      <4> QED BY <1>1, <2>5, <3>1, <4>1, <4>2
    <3> QED BY <1>1, <2>1, <2>5, <3>1, <3>2, NewCounter DEF ConfirmAt
  <2>7. BeforeReports'
    BY <1>1, <1>7 DEF BeforeReports
  <2>8. ItersInv'
    <3>1. Owed' \subseteq Owed
      BY <1>1, <1>2, <1>9, <2>4 DEF Owed
    <3>2. Cardinality(Owed') <= Cardinality(Owed) /\ Cardinality(Owed') \in Nat /\ Cardinality(Owed) \in Nat
      BY <3>1, OwedFinite, Shrinks
    <3>3. Cardinality(Owed) <= losses
      BY <1>1 DEF Secured, SecureLoss, ItersInv
    <3>4. Live'
      BY <2>1 DEF Live
    <3> QED BY <1>1, <1>4, <2>1, <3>2, <3>3, <3>4 DEF ItersInv
  <2> QED BY <2>1, <2>3, <2>4, <2>6, <2>7, <2>8 DEF SecureLoss
<1>10. CASE /\ pc = "subscribeResponse" /\ AckMsg(f) /\ pc' = "listen"
            /\ UNCHANGED <<resend, iters, retrans, result>>
  <2>1. PICK n : /\ n.sec /\ n.op = "ack" /\ n.ack = f.ctr /\ n.ctr = tx
                 /\ toDev' = toDev \cup {n} /\ tx' = tx + 1
    BY <1>10, AckIs
  <2>2. Acknowledge(f, n)
    BY <1>1, <2>1, NewCounter DEF Acknowledge
  <2>3. FramesInv'
    <3>1. Held' = {}
      BY <1>1, <1>7, <1>10 DEF Held, Exchange
    <3>2. Held' \subseteq Held \cup {n} /\ toDev \cap Held \subseteq Held'
          /\ \A g \in Held' : g.op = "statusResponse"
      BY <1>5, <3>1
    <3> QED BY <2>1, <2>2, <3>2, AcknowledgeFrames
  <2>4. TokenInv' /\ TriesInv'
    BY <2>2, AcknowledgeTokens
  <2>5. ConfirmAt /\ f.ctr = ex /\ dev.tx = ex + 1 /\ dev.subscribed
    BY <1>1, <1>6, <1>10, Fresh
  <2>6. ListenAt'
    <3>1. rx = Upto(ex)
      BY <2>5 DEF ConfirmAt
    <3>2. ex = Calls + 1
      BY <1>10 DEF Secured, ShapeInv
    <3>3. rx' = Upto(dev.tx)
      BY <1>1, <1>s, <2>5, <3>1, UptoNext
    <3>4. dev.tx = Calls + 2 + dev.reported
      BY <1>s, <1>7, <2>5, <3>2
    <3> QED BY <1>1, <1>2, <1>7, <1>10, <2>5, <3>2, <3>3, <3>4 DEF ListenAt
  <2>7. BeforeReports' /\ ItersInv'
    BY <1>10 DEF BeforeReports, ItersInv, Exchange
  <2> QED BY <1>10, <2>3, <2>4, <2>6, <2>7 DEF SecureLoss
<1>11. CASE pc = "prime" /\ f.op # "report"
  BY <1>1, <1>6, <1>11, Fresh
<1> QED BY <1>8, <1>9, <1>10, <1>11 DEF Reply

\* Listen takes a message.
LEMMA ListenLoss ==
  ASSUME Secured, NEW f \in toCtl, Listen(f)
  PROVE  SecureLoss' /\ UNCHANGED <<result, iters, retrans>>
<1>1. /\ UNCHANGED <<scenario, ex, resend, iters, retrans, losses, dev, result>>
      /\ pc = "listen" /\ toCtl' = toCtl \ {f}
  BY DEF Listen
<1>3. /\ f \in dev.out /\ f.sec /\ f.ctr \in Nat /\ f.ctr < dev.tx /\ f = Sealed(f.ctr)
      /\ Acks(f) = {}
  BY InFlightOut
<1>2. pc' = "listen" /\ (ListenDuplicate(f) \/ ListenReport(f) \/ ListenOther(f))
  BY <1>1, <1>3 DEF Listen
<1>4. Calls' = Calls /\ \A c : Sealed(c)' = Sealed(c)
  BY <1>1, SealedFixed
<1>5. /\ Calls \in Nat /\ dev.tx \in Nat /\ dev.reported \in Nat /\ dev.answered \in Nat
  BY Places
<1>6. ListenAt
  BY <1>1 DEF Secured, SecureLoss, IdleAt, RequestAt, ConfirmAt
<1>7. BeforeReports' /\ ItersInv'
  BY <1>2 DEF BeforeReports, ItersInv, Exchange
<1>8. CASE ListenDuplicate(f)
  <2>1. f.ctr \in rx /\ rx' = rx /\ lastResp' = lastResp /\ rx' = rx \cup {f.ctr}
    BY <1>8 DEF ListenDuplicate
  <2>2. Held' = Held
    BY <1>1, <1>2, <2>1 DEF Held, Exchange
  <2>3. CASE dev.reported = 0 /\ dev.answered = 0 /\ rx = Upto(dev.tx) /\ lastResp = None
    <3>1. AckMsg(f)
      BY <1>8, <2>3 DEF ListenDuplicate
    <3>2. PICK n : /\ n.sec /\ n.op = "ack" /\ n.ack = f.ctr /\ n.ctr = tx
                   /\ toDev' = toDev \cup {n} /\ tx' = tx + 1
      BY <3>1, AckIs
    <3>3. Acknowledge(f, n)
      BY <1>1, <2>1, <3>2, NewCounter DEF Acknowledge
    <3>4. FramesInv'
      <4>1. Held = {}
        BY <1>1, <2>3 DEF Held, Exchange
      <4>2. Held' \subseteq Held \cup {n} /\ toDev \cap Held \subseteq Held'
            /\ \A g \in Held' : g.op = "statusResponse"
        BY <2>2, <4>1
      <4> QED BY <3>2, <3>3, <4>2, AcknowledgeFrames
    <3>5. TokenInv' /\ TriesInv'
      BY <3>3, AcknowledgeTokens
    <3>6. ListenAt'
      BY <1>1, <1>2, <1>4, <1>6, <2>1, <2>3 DEF ListenAt
    <3> QED BY <1>1, <1>7, <3>4, <3>5, <3>6 DEF SecureLoss
  <2>4. CASE dev.out = {Latest} /\ rx = Upto(dev.tx - 1)
    <3>1. f.ctr = dev.tx - 1
      <4>1. f = Latest
        BY <1>3, <2>4
      <4>2. dev.tx - 1 \in Nat /\ Calls \in 0..98
        BY <1>3, <1>5, Places
      <4> QED BY <4>1, <4>2, SealedFields DEF Latest
    <3>2. dev.tx - 1 \in Int
      BY <1>5
    <3>3. f.ctr < dev.tx - 1
      BY <2>1, <2>4, <3>2, UptoFacts
    <3> QED BY <1>3, <1>5, <3>1, <3>3
  <2>5. CASE /\ dev.reported = dev.answered + 1 /\ dev.out = {Latest} /\ rx = Upto(dev.tx)
             /\ lastResp # None
             /\ lastResp.ack = dev.tx - 1 /\ lastResp.ctr \notin dev.rx
             /\ lastResp.ex = DevExchange(dev.reported)
             /\ toDev \subseteq {lastResp}
    <3>1. f.ctr = dev.tx - 1
      <4>1. f = Latest
        BY <1>3, <2>5
      <4>2. dev.tx - 1 \in Nat /\ Calls \in 0..98
        BY <1>3, <1>5, Places
      <4> QED BY <4>1, <4>2, SealedFields DEF Latest
    <3>2. toDev' = toDev \cup {lastResp} /\ tx' = tx
      BY <1>8, <2>5, <3>1 DEF ListenDuplicate
    <3>3. lastResp \in Held /\ Held = {lastResp}
      BY <1>1, <2>5 DEF Held, Exchange
    <3>4. lastResp.sec /\ lastResp.op = "statusResponse"
      BY <1>1, <3>3 DEF Secured, SecureLoss, FramesInv
    <3>5. Acknowledge(f, lastResp)
      BY <1>1, <2>1, <2>5, <3>1, <3>2, <3>4 DEF Acknowledge
    <3>6. FramesInv'
      <4>1. \A g \in Held' : g.op = "statusResponse"
        BY <2>2, <3>3, <3>4
      <4> QED BY <2>2, <3>2, <3>3, <3>5, <4>1, AcknowledgeFrames
    <3>7. TokenInv' /\ TriesInv'
      BY <3>5, AcknowledgeTokens
    <3>8. ListenAt'
      <4>1. toDev' \subseteq {lastResp} /\ lastResp' = lastResp /\ Latest' = Latest
        BY <1>1, <1>4, <2>1, <2>5, <3>2 DEF Latest
      <4> QED BY <1>1, <1>2, <1>4, <1>6, <2>1, <2>5, <4>1 DEF ListenAt
    <3> QED BY <1>1, <1>7, <3>6, <3>7, <3>8 DEF SecureLoss
  <2>6. dev.out # {}
    BY <1>3
  <2> QED BY <1>6, <2>3, <2>4, <2>5, <2>6 DEF ListenAt
<1>9. CASE ListenReport(f)
  <2>0. PICK n : n = Frame(TRUE, "statusResponse", f.ex, tx, f.ctr)
    OBVIOUS
  <2>1. /\ n.sec /\ n.op = "statusResponse" /\ n.ack = f.ctr /\ n.ctr = tx /\ n.ex = f.ex
        /\ toDev' = toDev \cup {n} /\ tx' = tx + 1 /\ lastResp' = n
        /\ f.ctr \notin rx /\ rx' = rx \cup {f.ctr}
    BY <1>9, <2>0 DEF Frame, ListenReport
  <2>2. n # None
    BY <2>0 DEF Frame, None
  <2>3. /\ f.ctr = dev.tx - 1 /\ f.ex = DevExchange(dev.reported)
        /\ dev.reported = dev.answered + 1 /\ dev.out = {Latest}
        /\ rx = Upto(dev.tx - 1) /\ toDev = {}
    <3>1. ~RequestAt /\ ~ConfirmAt
      BY <1>1 DEF RequestAt, ConfirmAt
    <3> QED BY <2>1, <3>1, Fresh
  <2>4. Acknowledge(f, n)
    BY <1>1, <2>1, NewCounter DEF Acknowledge
  <2>5. FramesInv'
    <3>1. Held' = {n}
      BY <1>2, <2>1, <2>2 DEF Held, Exchange
    <3>2. Held' \subseteq Held \cup {n} /\ toDev \cap Held \subseteq Held' /\ n \in Held'
          /\ \A g \in Held' : g.op = "statusResponse"
      BY <2>1, <2>3, <3>1
    <3> QED BY <2>1, <2>4, <3>2, AcknowledgeFrames
  <2>6. TokenInv' /\ TriesInv'
    BY <2>4, AcknowledgeTokens
  <2>7. ListenAt'
    <3>1. rx' = Upto(dev.tx)
      <4>1. dev.tx - 1 \in Nat /\ (dev.tx - 1) + 1 = dev.tx
        BY <1>3, <1>5, <2>3
      <4>2. Upto(dev.tx - 1) \cup {dev.tx - 1} = Upto((dev.tx - 1) + 1)
        BY <4>1, UptoNext
      <4> QED BY <2>1, <2>3, <4>1, <4>2
    <3>2. Latest' = Latest
      BY <1>1, <1>4 DEF Latest
    <3>3. n.ctr \notin dev.rx
      BY <2>1, NewCounter
    <3>4. toDev' \subseteq {lastResp'}
      BY <2>1, <2>3
    <3> QED BY <1>1, <1>2, <1>4, <1>6, <2>1, <2>2, <2>3, <3>1, <3>2, <3>3, <3>4 DEF ListenAt
  <2> QED BY <1>1, <1>7, <2>5, <2>6, <2>7 DEF SecureLoss
<1>10. CASE ListenOther(f)
  <2>1. f.ctr \notin rx /\ f.op # "report"
    BY <1>10 DEF ListenOther
  <2>2. ~RequestAt /\ ~ConfirmAt
    BY <1>1 DEF RequestAt, ConfirmAt
  <2> QED BY <2>1, <2>2, Fresh
<1> QED BY <1>2, <1>8, <1>9, <1>10

\* A call or the subscription opens an exchange.
LEMMA StartLoss ==
  ASSUME Secured, NEW loopPc, NEW op, Start(loopPc, op),
         (loopPc = "reply" /\ op = "invoke") \/ (loopPc = "prime" /\ op = "subscribe")
  PROVE  SecureLoss' /\ result' = result /\ iters' = 0 /\ retrans' = 0
<1>1. /\ UNCHANGED <<scenario, rx, lastResp, toCtl, losses, dev, result>>
      /\ pc = "idle" /\ ex' = ex + 1 /\ tx' = tx + 1
  BY DEF Start, hist
<1>0. PICK n : n = Frame(TRUE, op, ex', tx, NoAck)
  OBVIOUS
<1>2. /\ n.sec /\ n.op = op /\ n.ack = NoAck /\ n.ctr = tx /\ n.ex = ex'
      /\ toDev' = toDev \cup {n} /\ resend' = n
      /\ pc' = loopPc /\ iters' = 0 /\ retrans' = 0
  BY <1>0 DEF Start, Frame, Await
<1>3. Calls' = Calls /\ \A c : Sealed(c)' = Sealed(c)
  BY <1>1, SealedFixed
<1>4. /\ Calls \in Nat /\ ex \in Nat /\ dev.tx \in Nat /\ dev.tx <= 100 /\ tx \in Nat
  BY <1>1, Places
<1>5. IdleAt
  BY <1>1 DEF Secured, SecureLoss, RequestAt, ConfirmAt, ListenAt
<1>6. Held' = {n} /\ Held = {} /\ Own = toDev
  BY <1>1, <1>2 DEF Held, Own, Exchange
<1>7. FramesInv'
  <2>1. \A g \in Own' : g \in Own \/ g = n
    BY <1>2, <1>6 DEF Own
  <2>2. \A g \in Own : g.sec => g.ctr # n.ctr
    BY <1>2, NewCounter
  <2>3. \A g \in Own : g.sec => g.ctr \in 0..(tx - 1)
    BY DEF Secured, SecureLoss, FramesInv
  <2>4. \A g \in Own' : g.sec => g.ctr \in 0..(tx' - 1)
    BY <1>1, <1>2, <1>4, <2>1, <2>3
  <2>5. \A g, h \in Own' : g.sec /\ h.sec /\ g.ctr = h.ctr => g = h
    BY <2>1, <2>2 DEF Secured, SecureLoss, FramesInv
  <2>6. dev'.rx \subseteq 0..(tx' - 1)
    BY <1>1, <1>4 DEF Secured, SecureLoss, FramesInv
  <2>7. \A g \in Held' : g.sec /\ (pc' = "listen" => g.op = "statusResponse")
    BY <1>2, <1>6
  <2>8. ASSUME NEW g \in toDev'
        PROVE  (g = LastAck /\ StatusReport \in dev'.out) \/ Acking(g)' \/ g \in Held'
    BY <1>1, <1>2, <1>3, <1>6 DEF Secured, SecureLoss, FramesInv, Acking
  <2> QED BY <1>1, <1>3, <2>4, <2>5, <2>6, <2>7, <2>8 DEF Secured, SecureLoss, FramesInv
<1>8. \A o \in dev.out : Acks(o)' = Acks(o)
  <2> SUFFICES ASSUME NEW o \in dev.out PROVE ~(n.sec = o.sec /\ n.ack = o.ctr)
    BY <1>2 DEF Acks
  <2>1. CASE o.sec /\ o.ctr \in Nat /\ o.ctr < dev.tx
    BY <1>2, <1>4, <2>1 DEF NoAck
  <2>2. CASE ~o.sec
    BY <1>2, <2>2
  <2> QED BY <2>1, <2>2, OutFields
<1>9. TokenInv'
  <2>1. \A o \in dev'.out : (o \in toCtl' => Acks(o)' = {}) /\ \A g, h \in Acks(o)' : g = h
    BY <1>1, <1>8 DEF Secured, SecureLoss, TokenInv
  <2>2. \A g \in toDev' : ~(g.sec /\ g.ctr \in dev'.rx)
    <3>1. \A g \in toDev : ~(g.sec /\ g.ctr \in dev.rx)
      BY <1>1 DEF Secured, SecureLoss, TokenInv, Exchange
    <3> QED BY <1>1, <1>2, <3>1, NewCounter
  <2> QED BY <2>1, <2>2 DEF TokenInv
<1>10. TriesInv'
  <2>1. \A o \in dev.out : Dark(o)' => Dark(o)
    BY <1>1, <1>8 DEF Dark
  <2> QED BY <1>1, <2>1 DEF Secured, SecureLoss, TriesInv
<1>11. RequestAt'
  <2>1. dev.tx = ex /\ rx = Upto(ex) /\ ~dev.subscribed
    BY <1>5 DEF IdleAt
  <2>2. ex' - 1 = ex /\ ex' > 0
    BY <1>1, <1>4
  <2>3. n.ctr \notin dev.rx
    BY <1>2, NewCounter
  <2> QED BY <1>1, <1>2, <1>3, <2>1, <2>2, <2>3 DEF RequestAt
<1>12. BeforeReports'
  BY <1>1 DEF Secured, SecureLoss, BeforeReports
<1>13. ItersInv'
  <2>1. Owed' \subseteq Owed
    <3> SUFFICES ASSUME NEW c \in Owed' PROVE c \in Owed
      OBVIOUS
    <3>1. c \in rx /\ Sealed(c) \in dev.out /\ Acks(Sealed(c))' = {}
      BY <1>1, <1>3 DEF Owed
    <3>2. Acks(Sealed(c)) \subseteq Acks(Sealed(c))'
      BY <1>2, <1>3 DEF Acks
    <3> QED BY <1>1, <3>1, <3>2 DEF Owed
  <2>2. Cardinality(Owed') <= Cardinality(Owed) /\ Cardinality(Owed') \in Nat /\ Cardinality(Owed) \in Nat
    BY <2>1, OwedFinite, Shrinks
  <2>3. Cardinality(Owed) <= losses /\ losses \in Nat
    BY <1>1, Places DEF Secured, SecureLoss, ItersInv
  <2>4. Live'
    BY <1>2 DEF Live
  <2> QED BY <1>1, <1>2, <2>2, <2>3, <2>4 DEF ItersInv
<1> QED BY <1>1, <1>2, <1>7, <1>9, <1>10, <1>11, <1>12, <1>13 DEF SecureLoss

-----------------------------------------------------------------------------
\* What a message of the session does to a Timely device.
Took(f) ==
  /\ dev'.phase = dev.phase /\ dev'.rx = dev.rx \cup {f.ctr}
  /\ dev'.reported = dev.reported /\ dev'.statusResent = dev.statusResent

TookAck(f) ==
  /\ Took(f)
  /\ dev'.tx = dev.tx /\ dev'.tries = dev.tries /\ dev'.subscribed = dev.subscribed
  /\ dev'.out = Unacked(f) /\ toCtl' = toCtl

TookRequest(f, op) ==
  /\ Took(f)
  /\ dev'.tx = dev.tx + 1 /\ dev'.tries = 0 /\ dev'.answered = dev.answered
  /\ \E n : /\ n = DevFrame(TRUE, op, f.ex, dev.tx, f.ex)
            /\ dev'.out = Unacked(f) \cup {n} /\ toCtl' = toCtl \cup {n}

\* What DevSend does to the record.
LEMMA SentFields ==
  ASSUME NEW d, Shaped(d), NEW n, DevSend(d, n)
  PROVE  /\ dev'.phase = d.phase /\ dev'.rx = d.rx /\ dev'.tx = d.tx /\ dev'.out = d.out \cup {n}
         /\ dev'.tries = 0 /\ dev'.subscribed = d.subscribed /\ dev'.reported = d.reported
         /\ dev'.answered = d.answered /\ dev'.statusResent = d.statusResent
         /\ toCtl' = toCtl \cup {n}
BY DEF DevSend, Shaped

\* What a message of the session does to the record, by its kind.
LEMMA SecureFields ==
  ASSUME Shaped(dev), NEW f, DevSecure(f), Timely
  PROVE  \/ f.ctr \in dev.rx /\ dev' = dev /\ toCtl' = toCtl \cup {o \in dev.out : o.sec}
         \/ /\ f.ctr \notin dev.rx
            /\ \/ f.op = "ack" /\ TookAck(f) /\ dev'.answered = dev.answered
               \/ f.op = "invoke" /\ TookRequest(f, "reply") /\ dev'.subscribed = dev.subscribed
               \/ f.op = "subscribe" /\ TookRequest(f, "report") /\ dev'.subscribed = dev.subscribed
               \/ /\ f.op = "statusResponse" /\ f.ex < DevExchange(0)
                  /\ TookRequest(f, "subscribeResponse") /\ dev'.subscribed
               \/ /\ f.op = "statusResponse" /\ f.ex >= DevExchange(0)
                  /\ TookAck(f) /\ dev'.answered = dev.reported
<1>1. PICK u : u = Unacked(f)
  OBVIOUS
<1>2. PICK d : d = [dev EXCEPT !.rx = @ \cup {f.ctr}, !.out = Unacked(f)]
  OBVIOUS
<1>3. d = [dev EXCEPT !.rx = @ \cup {f.ctr}, !.out = u]
  BY <1>1, <1>2
<1>4. /\ Shaped(d) /\ d.phase = dev.phase /\ d.rx = dev.rx \cup {f.ctr} /\ d.tx = dev.tx /\ d.out = u
      /\ d.tries = dev.tries /\ d.subscribed = dev.subscribed /\ d.reported = dev.reported
      /\ d.answered = dev.answered /\ d.statusResent = dev.statusResent
  BY <1>3 DEF Shaped
<1>5. ASSUME NEW e, NEW op, Shaped(e),
             DevSend([e EXCEPT !.tx = @ + 1], DevFrame(TRUE, op, f.ex, dev.tx, f.ex)),
             e.phase = d.phase, e.rx = d.rx, e.tx = d.tx, e.out = d.out, e.reported = d.reported,
             e.answered = d.answered, e.statusResent = d.statusResent
      PROVE  TookRequest(f, op) /\ dev'.subscribed = e.subscribed
  <2>1. PICK h : h = [e EXCEPT !.tx = @ + 1]
    OBVIOUS
  <2>2. PICK n : n = DevFrame(TRUE, op, f.ex, dev.tx, f.ex)
    OBVIOUS
  <2>3. /\ Shaped(h) /\ h.phase = e.phase /\ h.rx = e.rx /\ h.tx = e.tx + 1 /\ h.out = e.out
        /\ h.subscribed = e.subscribed /\ h.reported = e.reported
        /\ h.answered = e.answered /\ h.statusResent = e.statusResent
    BY <1>5, <2>1 DEF Shaped
  <2>4. DevSend(h, n)
    BY <1>5, <2>1, <2>2
  <2>5. /\ dev'.phase = h.phase /\ dev'.rx = h.rx /\ dev'.tx = h.tx /\ dev'.out = h.out \cup {n}
        /\ dev'.tries = 0 /\ dev'.subscribed = h.subscribed /\ dev'.reported = h.reported
        /\ dev'.answered = h.answered /\ dev'.statusResent = h.statusResent
        /\ toCtl' = toCtl \cup {n}
    BY <2>3, <2>4, SentFields
  <2>6. Took(f)
    BY <1>4, <1>5, <2>3, <2>5 DEF Took
  <2>7. dev'.out = Unacked(f) \cup {n}
    BY <1>1, <1>4, <1>5, <2>3, <2>5
  <2>8. dev'.tx = dev.tx + 1 /\ dev'.answered = dev.answered /\ dev'.subscribed = e.subscribed
    BY <1>4, <1>5, <2>3, <2>5
  <2> QED BY <2>2, <2>5, <2>6, <2>7, <2>8 DEF TookRequest
<1>6. CASE f.ctr \in dev.rx
  BY <1>6 DEF DevSecure
<1>7. CASE f.op = "ack" /\ dev' = d /\ toCtl' = toCtl
  BY <1>1, <1>4, <1>6, <1>7 DEF TookAck, Took
<1>8. CASE f.op = "invoke" /\ DevSend([[d EXCEPT !.exec[f.ex] = @ + 1] EXCEPT !.tx = @ + 1],
                                      DevFrame(TRUE, "reply", f.ex, dev.tx, f.ex))
  <2>1. PICK e : e = [d EXCEPT !.exec[f.ex] = @ + 1]
    OBVIOUS
  <2>2. /\ Shaped(e) /\ e.phase = d.phase /\ e.rx = d.rx /\ e.tx = d.tx /\ e.out = d.out
        /\ e.reported = d.reported /\ e.answered = d.answered /\ e.statusResent = d.statusResent
        /\ e.subscribed = d.subscribed
    BY <1>4, <2>1 DEF Shaped
  <2>3. DevSend([e EXCEPT !.tx = @ + 1], DevFrame(TRUE, "reply", f.ex, dev.tx, f.ex))
    BY <1>8, <2>1
  <2>4. TookRequest(f, "reply") /\ dev'.subscribed = e.subscribed
    BY <1>5, <2>2, <2>3
  <2> QED BY <1>4, <1>6, <1>8, <2>2, <2>4
<1>9. CASE f.op = "subscribe" /\ DevSend([d EXCEPT !.tx = @ + 1], DevFrame(TRUE, "report", f.ex, dev.tx, f.ex))
  <2>1. TookRequest(f, "report") /\ dev'.subscribed = d.subscribed
    BY <1>4, <1>5, <1>9
  <2> QED BY <1>4, <1>6, <1>9, <2>1
<1>10. CASE /\ f.op = "statusResponse" /\ f.ex < DevExchange(0)
            /\ DevSend([[d EXCEPT !.subscribed = TRUE] EXCEPT !.tx = @ + 1],
                       DevFrame(TRUE, "subscribeResponse", f.ex, dev.tx, f.ex))
  <2>1. PICK e : e = [d EXCEPT !.subscribed = TRUE]
    OBVIOUS
  <2>2. /\ Shaped(e) /\ e.phase = d.phase /\ e.rx = d.rx /\ e.tx = d.tx /\ e.out = d.out
        /\ e.reported = d.reported /\ e.answered = d.answered /\ e.statusResent = d.statusResent
        /\ e.subscribed
    BY <1>4, <2>1 DEF Shaped
  <2>3. DevSend([e EXCEPT !.tx = @ + 1], DevFrame(TRUE, "subscribeResponse", f.ex, dev.tx, f.ex))
    BY <1>10, <2>1
  <2>4. TookRequest(f, "subscribeResponse") /\ dev'.subscribed = e.subscribed
    BY <1>5, <2>2, <2>3
  <2> QED BY <1>6, <1>10, <2>2, <2>4
<1>11. CASE /\ f.op = "statusResponse" /\ f.ex >= DevExchange(0)
            /\ dev' = [d EXCEPT !.answered = dev.reported] /\ toCtl' = toCtl
  <2>1. /\ dev'.phase = d.phase /\ dev'.rx = d.rx /\ dev'.tx = d.tx /\ dev'.out = d.out
        /\ dev'.tries = d.tries /\ dev'.subscribed = d.subscribed /\ dev'.reported = d.reported
        /\ dev'.answered = dev.reported /\ dev'.statusResent = d.statusResent
    BY <1>4, <1>11 DEF Shaped
  <2> QED BY <1>1, <1>4, <1>6, <1>11, <2>1 DEF TookAck, Took
<1>12. CASE f.ctr \notin dev.rx
  BY <1>2, <1>7, <1>8, <1>9, <1>10, <1>11, <1>12 DEF DevSecure
<1> QED BY <1>6, <1>12

-----------------------------------------------------------------------------
\* What the controller holds acknowledges no debt.
LEMMA HeldNotOwed ==
  ASSUME Secured, pc \in Exchange, NEW c \in rx, pc = "subscribeResponse" => c # ex - 1
  PROVE  resend \notin Acks(Sealed(c))
<1>1. Calls \in 0..98 /\ c \in Nat /\ c < dev.tx /\ dev.tx \in Nat
      /\ (pc # "listen" => dev.tx <= 100)
  BY Places
<1>2. Sealed(c).ctr = c /\ pc # "listen"
  BY <1>1, SealedFields DEF Exchange
<1>3. CASE RequestAt
  <2>1. resend.ack = 1000
    BY <1>3 DEF RequestAt, NoAck
  <2> QED BY <1>1, <1>2, <2>1 DEF Acks
<1>4. CASE ConfirmAt
  BY <1>2, <1>4 DEF ConfirmAt, Acks
<1> QED BY <1>3, <1>4 DEF Secured, SecureLoss, IdleAt, ListenAt, Exchange

\* A frame clears the messages it acknowledges.
LEMMA UnackedIs ==
  ASSUME NEW f \in toDev PROVE \A o : o \in Unacked(f) <=> o \in dev.out /\ f \notin Acks(o)
BY DEF Unacked, Acks

\* The device takes f: the other frames stay new to it, and what they acknowledge stays out.
LEMMA TakenFrames ==
  ASSUME Secured, NEW f \in toDev, f.sec => f.ctr \notin dev.rx, toDev' = toDev \ {f},
         UNCHANGED <<scenario, pc, rx, resend, lastResp>>,
         (f.sec /\ dev'.rx = dev.rx \cup {f.ctr}) \/ (~f.sec /\ dev'.rx = dev.rx),
         Unacked(f) \subseteq dev'.out
  PROVE  /\ Held' = Held /\ Own' \subseteq Own
         /\ dev'.rx \subseteq 0..(tx - 1)
         /\ \A g \in toDev' : ~(g.sec /\ g.ctr \in dev'.rx)
         /\ \A g \in toDev' : \/ g = LastAck /\ StatusReport \in dev'.out
                              \/ Acking(g)'
                              \/ g \in Held'
         /\ \A o : Acks(o)' = Acks(o) \ {f}
         /\ toCtl \subseteq Unacked(f)
<1>1. Held' = Held /\ Own' \subseteq Own /\ f \in Own
  BY DEF Held, Own
<1>2. Calls' = Calls /\ \A c : Sealed(c)' = Sealed(c)
  BY SealedFixed
<1>3. dev'.rx \subseteq 0..(tx - 1)
  BY <1>1 DEF Secured, SecureLoss, FramesInv
<1>4. \A g \in toDev' : ~(g.sec /\ g.ctr \in dev'.rx)
  <2> SUFFICES ASSUME NEW g \in toDev', g.sec, g.ctr \in dev'.rx PROVE FALSE
    OBVIOUS
  <2>1. CASE g.ctr \in dev.rx
    <3>1. toDev = {g}
      BY <2>1 DEF Secured, SecureLoss, TokenInv
    <3> QED BY <2>1, <3>1
  <2>2. CASE f.sec /\ g.ctr = f.ctr
    <3>1. g \in Own /\ g # f
      BY DEF Own
    <3> QED BY <1>1, <2>2, <3>1 DEF Secured, SecureLoss, FramesInv
  <2> QED BY <2>1, <2>2
<1>5. \A o : Acks(o)' = Acks(o) \ {f}
  BY DEF Acks
<1>6. ASSUME NEW g \in toDev', NEW o \in dev.out, g \in Acks(o) PROVE o \in Unacked(f)
  <2>1. f \notin Acks(o)
    BY <1>6 DEF Secured, SecureLoss, TokenInv
  <2> QED BY <2>1, UnackedIs
<1>7. ASSUME NEW g \in toDev'
      PROVE  \/ g = LastAck /\ StatusReport \in dev'.out
             \/ Acking(g)'
             \/ g \in Held'
  <2>1. CASE g = LastAck /\ StatusReport \in dev.out
    <3>1. g \in Acks(StatusReport)
      BY <2>1 DEF Acks, LastAck, StatusReport, Frame, DevFrame
    <3> QED BY <1>6, <2>1, <3>1
  <2>2. CASE Acking(g)
    <3>1. g.sec /\ g.op = "ack" /\ g.ack \in rx /\ Sealed(g.ack) \in dev.out
      BY <2>2 DEF Acking
    <3>2. g.ack \in Nat /\ Calls \in 0..98
      BY <3>1, Places
    <3>3. g \in Acks(Sealed(g.ack))
      BY <3>1, <3>2, SealedFields DEF Acks
    <3>4. Sealed(g.ack) \in dev'.out
      BY <1>6, <3>1, <3>3
    <3> QED BY <1>2, <1>4, <3>1, <3>4 DEF Acking
  <2> QED BY <1>1, <2>1, <2>2 DEF Secured, SecureLoss, FramesInv
<1>8. toCtl \subseteq Unacked(f)
  <2> SUFFICES ASSUME NEW o \in toCtl PROVE o \in Unacked(f)
    OBVIOUS
  <2>1. o \in dev.out /\ Acks(o) = {}
    BY InFlightOut
  <2> QED BY <2>1, UnackedIs
<1> QED BY <1>1, <1>3, <1>4, <1>5, <1>7, <1>8

\* The device takes an acknowledgement.
LEMMA AckTaken ==
  ASSUME Secured, NEW f \in toDev, f.sec => f.ctr \notin dev.rx, toDev' = toDev \ {f},
         f = LastAck \/ Acking(f), f \notin Held,
         UNCHANGED <<scenario, pc, iters, rx, ex, resend, tx, lastResp, losses, toCtl>>,
         (f.sec /\ dev'.rx = dev.rx \cup {f.ctr}) \/ (~f.sec /\ dev'.rx = dev.rx),
         dev'.phase = dev.phase, dev'.tx = dev.tx, dev'.tries = dev.tries, dev'.out = Unacked(f),
         dev'.subscribed = dev.subscribed, dev'.reported = dev.reported, dev'.answered = dev.answered
  PROVE  SecureLoss'
<1>1. /\ Held' = Held /\ Own' \subseteq Own
      /\ dev'.rx \subseteq 0..(tx - 1)
      /\ \A g \in toDev' : ~(g.sec /\ g.ctr \in dev'.rx)
      /\ \A g \in toDev' : \/ g = LastAck /\ StatusReport \in dev'.out
                           \/ Acking(g)'
                           \/ g \in Held'
      /\ \A o : Acks(o)' = Acks(o) \ {f}
      /\ toCtl \subseteq Unacked(f)
  BY TakenFrames
<1>2. Calls' = Calls /\ \A c : Sealed(c)' = Sealed(c)
  BY SealedFixed
<1>3. \A o : o \in dev'.out <=> o \in dev.out /\ f \notin Acks(o)
  BY UnackedIs
<1>4. FramesInv'
  <2>1. toCtl' \subseteq dev'.out \ {StatusReport}
    BY <1>1 DEF Secured, SecureLoss, FramesInv
  <2> QED BY <1>1, <1>2, <1>3, <2>1 DEF Secured, SecureLoss, FramesInv
<1>5. TokenInv'
  <2>1. \A o \in dev'.out : (o \in toCtl' => Acks(o)' = {}) /\ \A g, h \in Acks(o)' : g = h
    BY <1>1, <1>3 DEF Secured, SecureLoss, TokenInv
  <2> QED BY <1>1, <2>1 DEF TokenInv
<1>6. TriesInv'
  <2>1. \A o \in dev'.out : Dark(o)' => o \in dev.out /\ Dark(o)
    BY <1>1, <1>3 DEF Dark
  <2> QED BY <2>1 DEF Secured, SecureLoss, TriesInv
<1>7. \A c : c \notin rx /\ c \in Nat /\ Sealed(c) \in dev.out => Sealed(c) \in dev'.out
  <2> SUFFICES ASSUME NEW c, c \notin rx, c \in Nat, Sealed(c) \in dev.out PROVE f \notin Acks(Sealed(c))
    BY <1>3
  <2>1. Sealed(c).sec /\ Sealed(c).ctr = c
    BY Places, SealedFields
  <2>2. CASE f = LastAck
    BY <2>1, <2>2 DEF Acks, LastAck, Frame
  <2>3. CASE Acking(f)
    BY <2>1, <2>3 DEF Acks, Acking
  <2> QED BY <2>2, <2>3
<1>8. pc \in Exchange => (resend.ctr \in dev'.rx <=> resend.ctr \in dev.rx)
  <2>1. pc \in Exchange => resend \in Held /\ resend \in Own
    BY DEF Held, Own
  <2>2. pc \in Exchange => resend.sec /\ resend # f
    BY <2>1 DEF Secured, SecureLoss, FramesInv
  <2>3. f \in Own
    BY DEF Own
  <2>4. pc \in Exchange /\ f.sec => resend.ctr # f.ctr
    BY <2>1, <2>2, <2>3 DEF Secured, SecureLoss, FramesInv
  <2> QED BY <2>4
<1>n. ex \in Nat
  BY Places
<1>9. (IdleAt \/ RequestAt \/ ConfirmAt \/ ListenAt)'
  <2>1. CASE IdleAt
    BY <2>1 DEF IdleAt
  <2>2. CASE RequestAt
    <3>1. /\ pc \in {"reply", "prime"} /\ rx = Upto(ex - 1) /\ ex > 0
          /\ resend.op = (IF pc = "reply" THEN "invoke" ELSE "subscribe")
          /\ resend.ex = ex /\ resend.ack = NoAck /\ ~dev.subscribed
          /\ \/ resend.ctr \notin dev.rx /\ dev.tx = ex - 1
             \/ resend.ctr \in dev.rx /\ dev.tx = ex /\ Sealed(ex - 1) \in dev.out
      BY <2>2 DEF RequestAt
    <3>2. ex - 1 \in Nat /\ ex - 1 \notin rx
      <4>1. ex - 1 \in Nat
        BY <1>n, <3>1
      <4> QED BY <3>1, <4>1, UptoFacts
    <3>3. Sealed(ex - 1) \in dev.out => Sealed(ex - 1) \in dev'.out
      BY <1>7, <3>2
    <3> QED BY <1>2, <1>8, <3>1, <3>3 DEF RequestAt, Exchange
  <2>3. CASE ConfirmAt
    <3>1. /\ pc = "subscribeResponse" /\ rx = Upto(ex) /\ ex > 0
          /\ resend.op = "statusResponse" /\ resend.ex = ex /\ resend.ack = ex - 1
          /\ \/ resend.ctr \notin dev.rx /\ dev.tx = ex /\ ~dev.subscribed
             \/ /\ resend.ctr \in dev.rx /\ dev.tx = ex + 1 /\ dev.subscribed
                /\ Sealed(ex - 1) \notin dev.out /\ Sealed(ex) \in dev.out
      BY <2>3 DEF ConfirmAt
    <3>2. ex \notin rx
      BY <1>n, <3>1, UptoFacts
    <3>3. Sealed(ex) \in dev.out => Sealed(ex) \in dev'.out
      BY <1>7, <1>n, <3>2
    <3>4. Sealed(ex - 1) \notin dev.out => Sealed(ex - 1) \notin dev'.out
      BY <1>3
    <3> QED BY <1>2, <1>8, <3>1, <3>3, <3>4 DEF ConfirmAt, Exchange
  <2>4. CASE ListenAt
    <3>1. toDev # {} /\ ~(lastResp # None /\ toDev \subseteq {lastResp})
      <4>1. lastResp # None => lastResp \in Held
        BY <2>4 DEF ListenAt, Held, Exchange
      <4>2. lastResp # None => f # lastResp
        BY <4>1
      <4> QED BY <4>2
    <3>2. dev.reported = 0 /\ dev.answered = 0 /\ rx = Upto(dev.tx) /\ lastResp = None
      BY <2>4, <3>1 DEF ListenAt
    <3> QED BY <1>2, <2>4, <3>2 DEF ListenAt
  <2> QED BY <2>1, <2>2, <2>3, <2>4 DEF Secured, SecureLoss
<1>10. BeforeReports'
  BY DEF Secured, SecureLoss, BeforeReports
<1>11. ItersInv'
  <2>1. Owed' \subseteq Owed
    <3> SUFFICES ASSUME NEW c \in Owed' PROVE c \in Owed
      OBVIOUS
    <3>1. c \in rx /\ Sealed(c) \in dev'.out /\ Acks(Sealed(c))' = {} /\ (pc = "subscribeResponse" => c # ex - 1)
      BY <1>2 DEF Owed
    <3>2. Acks(Sealed(c))' = Acks(Sealed(c)) \ {f}
      BY <1>2 DEF Acks
    <3> QED BY <1>3, <3>1, <3>2 DEF Owed
  <2>2. Cardinality(Owed') <= Cardinality(Owed) /\ Cardinality(Owed') \in Nat /\ Cardinality(Owed) \in Nat
    BY <2>1, OwedFinite, Shrinks
  <2>3. pc \in Exchange => resend # f
    BY DEF Held
  <2>4. pc \in Exchange => Live' = Live
    BY <2>3 DEF Live
  <2> QED BY <2>2, <2>4, Places DEF Secured, SecureLoss, ItersInv
<1> QED BY <1>4, <1>5, <1>6, <1>9, <1>10, <1>11 DEF SecureLoss

\* The device takes a request again, alone in flight, and sends again what is out.
LEMMA RequestAgain ==
  ASSUME Secured, NEW f \in toDev, f.sec, f.ctr \in dev.rx, toDev' = toDev \ {f}, dev' = dev,
         toCtl' = toCtl \cup {o \in dev.out : o.sec},
         UNCHANGED <<scenario, pc, iters, rx, ex, resend, tx, lastResp, losses>>
  PROVE  SecureLoss'
<1>1. pc \in Exchange /\ f = resend /\ toDev = {f} /\ toCtl = {} /\ toDev' = {}
  BY DEF Secured, SecureLoss, TokenInv
<1>2. Calls' = Calls /\ \A c : Sealed(c)' = Sealed(c)
  BY SealedFixed
<1>3. Held' = Held /\ Own' \subseteq Own /\ toCtl' = {o \in dev.out : o.sec}
  BY <1>1 DEF Held, Own
<1>4. FramesInv'
  <2>1. ~StatusReport.sec
    BY DEF StatusReport, DevFrame
  <2>2. toCtl' \subseteq dev'.out \ {StatusReport}
    BY <1>3, <2>1
  <2> QED BY <1>1, <1>2, <1>3, <2>2 DEF Secured, SecureLoss, FramesInv
<1>5. \A o : Acks(o)' = {} /\ Acks(o) \subseteq {f}
  BY <1>1 DEF Acks
<1>6. TokenInv'
  BY <1>1, <1>5 DEF TokenInv
<1>7. TriesInv'
  <2> SUFFICES ASSUME NEW o \in dev.out, Dark(o)' PROVE Dark(o)
    BY DEF Secured, SecureLoss, TriesInv
  <2>1. ~o.sec
    BY <1>3 DEF Dark
  <2>2. f \notin Acks(o)
    BY <2>1 DEF Acks
  <2> QED BY <1>1, <1>5, <2>2 DEF Dark
<1>8. (IdleAt \/ RequestAt \/ ConfirmAt \/ ListenAt)' /\ BeforeReports'
  BY <1>1, PlaceKept DEF Exchange
<1>9. ItersInv'
  <2>1. Owed' \subseteq Owed
    <3> SUFFICES ASSUME NEW c \in Owed' PROVE c \in Owed
      OBVIOUS
    <3>1. c \in rx /\ Sealed(c) \in dev.out /\ (pc = "subscribeResponse" => c # ex - 1)
      BY <1>2 DEF Owed
    <3>2. f \notin Acks(Sealed(c))
      BY <1>1, <3>1, HeldNotOwed
    <3> QED BY <1>5, <3>1, <3>2 DEF Owed
  <2>2. Cardinality(Owed') <= Cardinality(Owed) /\ Cardinality(Owed') \in Nat /\ Cardinality(Owed) \in Nat
    BY <2>1, OwedFinite, Shrinks
  <2>3. Live /\ iters + Cardinality(Owed) <= losses
    <3>1. Live
      BY <1>1 DEF Live
    <3> QED BY <1>1, <2>2, <3>1, Places DEF Secured, SecureLoss, ItersInv
  <2>4. Live'
    <3>1. \E c \in Nat : Sealed(c) \in dev.out /\ c \notin rx
      <4>1. ex \in Nat
        BY Places
      <4>2. CASE RequestAt
        <5>1. rx = Upto(ex - 1) /\ ex > 0 /\ Sealed(ex - 1) \in dev.out
          BY <1>1, <4>2 DEF RequestAt
        <5>2. ex - 1 \in Nat
          BY <4>1, <5>1
        <5> QED BY <5>1, <5>2, UptoFacts
      <4>3. CASE ConfirmAt
        <5>1. rx = Upto(ex) /\ Sealed(ex) \in dev.out
          BY <1>1, <4>3 DEF ConfirmAt
        <5> QED BY <4>1, <5>1, UptoFacts
      <4> QED BY <1>1, <4>2, <4>3 DEF Secured, SecureLoss, IdleAt, ListenAt, Exchange
    <3>2. PICK c \in Nat : Sealed(c) \in dev.out /\ c \notin rx
      BY <3>1
    <3>3. Sealed(c).sec /\ Sealed(c).ctr = c
      BY Places, SealedFields
    <3>4. Sealed(c) \in toCtl'
      BY <1>3, <3>2, <3>3
    <3> QED BY <3>2, <3>3, <3>4 DEF Live
  <2> QED BY <1>1, <2>2, <2>3, <2>4, Places DEF ItersInv
<1> QED BY <1>4, <1>6, <1>7, <1>8, <1>9 DEF SecureLoss

\* The answer to the current request is what the device seals next.
LEMMA AnswerIs ==
  ASSUME Secured, pc \in Exchange, resend.ctr \notin dev.rx
  PROVE  /\ resend.ex = ex /\ ex < 100 /\ rx = Upto(dev.tx)
         /\ pc = "reply" => resend.op = "invoke" /\ Sealed(dev.tx) = DevFrame(TRUE, "reply", ex, dev.tx, ex)
         /\ pc = "prime" => resend.op = "subscribe" /\ Sealed(dev.tx) = DevFrame(TRUE, "report", ex, dev.tx, ex)
         /\ pc = "subscribeResponse" => /\ resend.op = "statusResponse"
                                        /\ Sealed(dev.tx) = DevFrame(TRUE, "subscribeResponse", ex, dev.tx, ex)
<1>1. Calls \in 0..98 /\ ex \in 0..(Calls + 1) /\ dev.tx \in Nat
  BY Places
<1>2. Calls \in Nat /\ ex \in Nat /\ ex < 100
  BY <1>1
<1>3. (pc = "reply" => ex <= Calls) /\ (pc \in {"prime", "subscribeResponse"} => ex = Calls + 1)
  BY <1>1 DEF Secured, ShapeInv
<1>4. CASE RequestAt
  <2>1. /\ pc \in {"reply", "prime"} /\ rx = Upto(ex - 1) /\ dev.tx = ex - 1 /\ ex > 0 /\ resend.ex = ex
        /\ resend.op = (IF pc = "reply" THEN "invoke" ELSE "subscribe")
    BY <1>4, Zenon DEF RequestAt
  <2>2. CASE pc = "reply"
    <3>1. dev.tx < Calls /\ dev.tx + 1 = ex
      BY <1>2, <1>3, <2>1, <2>2
    <3>2. Sealed(dev.tx) = DevFrame(TRUE, "reply", dev.tx + 1, dev.tx, dev.tx + 1)
      BY <3>1 DEF Sealed
    <3> QED BY <1>2, <2>1, <2>2, <3>1, <3>2
  <2>3. CASE pc = "prime"
    <3>1. dev.tx = Calls /\ dev.tx + 1 = ex
      BY <1>2, <1>3, <2>1, <2>3
    <3>2. Sealed(dev.tx) = DevFrame(TRUE, "report", dev.tx + 1, dev.tx, dev.tx + 1)
      <4>1. dev.tx = Calls /\ ~(dev.tx < Calls)
        BY <1>2, <3>1
      <4> QED BY <4>1 DEF Sealed
    <3> QED BY <1>2, <2>1, <2>3, <3>1, <3>2
  <2> QED BY <2>1, <2>2, <2>3
<1>5. CASE ConfirmAt
  <2>1. /\ pc = "subscribeResponse" /\ rx = Upto(ex) /\ dev.tx = ex /\ resend.ex = ex
        /\ resend.op = "statusResponse"
    BY <1>5 DEF ConfirmAt
  <2>2. dev.tx = Calls + 1 /\ dev.tx # Calls /\ ~(dev.tx < Calls)
    BY <1>2, <1>3, <2>1
  <2>3. Sealed(dev.tx) = DevFrame(TRUE, "subscribeResponse", dev.tx, dev.tx, dev.tx)
    BY <2>2 DEF Sealed
  <2> QED BY <1>2, <2>1, <2>3
<1> QED BY <1>4, <1>5 DEF Secured, SecureLoss, IdleAt, ListenAt, Exchange

\* The device takes the current request for the first time.
LEMMA RequestTaken ==
  ASSUME Secured, NEW f \in toDev, f.ctr \notin dev.rx, toDev' = toDev \ {f},
         pc \in Exchange, f = resend, NEW op, TookRequest(f, op),
         Sealed(dev.tx) = DevFrame(TRUE, op, f.ex, dev.tx, f.ex),
         IF pc = "subscribeResponse" THEN dev'.subscribed ELSE dev'.subscribed = dev.subscribed,
         UNCHANGED <<scenario, pc, iters, rx, ex, resend, tx, lastResp, losses>>
  PROVE  SecureLoss'
<1>0. /\ dev'.phase = dev.phase /\ dev'.rx = dev.rx \cup {f.ctr}
      /\ dev'.reported = dev.reported /\ dev'.tx = dev.tx + 1 /\ dev'.tries = 0
      /\ dev'.answered = dev.answered
  BY DEF TookRequest, Took
<1>p. PICK n : n = Sealed(dev.tx) /\ dev'.out = Unacked(f) \cup {n} /\ toCtl' = toCtl \cup {n}
  BY DEF TookRequest
<1>t. dev.tx \in Nat /\ Calls \in 0..98 /\ ex \in Nat /\ losses \in Nat /\ iters \in Nat
  BY Places
<1>n. n.sec /\ n.ctr = dev.tx /\ n # StatusReport
  BY <1>p, <1>t, SealedFields
<1>h. f \in Held /\ f.sec
  <2>1. f \in Held
    BY DEF Held
  <2> QED BY <2>1 DEF Secured, SecureLoss, FramesInv
<1>1. /\ Held' = Held /\ Own' \subseteq Own
      /\ dev'.rx \subseteq 0..(tx - 1)
      /\ \A g \in toDev' : ~(g.sec /\ g.ctr \in dev'.rx)
      /\ \A g \in toDev' : \/ g = LastAck /\ StatusReport \in dev'.out
                           \/ Acking(g)'
                           \/ g \in Held'
      /\ \A o : Acks(o)' = Acks(o) \ {f}
      /\ toCtl \subseteq Unacked(f)
  BY <1>0, <1>p, <1>h, TakenFrames
<1>2. Calls' = Calls /\ \A c : Sealed(c)' = Sealed(c)
  BY SealedFixed
<1>3. \A o : o \in dev'.out <=> (o \in dev.out /\ f \notin Acks(o)) \/ o = n
  BY <1>p, UnackedIs
<1>4. FramesInv'
  <2>1. toCtl' \subseteq dev'.out \ {StatusReport}
    BY <1>1, <1>p, <1>n DEF Secured, SecureLoss, FramesInv
  <2>2. \A o \in dev'.out : o = StatusReport \/ (o.ctr \in 0..(dev'.tx - 1) /\ o = Sealed(o.ctr)')
    <3>1. \A o \in dev.out : o = StatusReport \/ (o.ctr \in 0..(dev'.tx - 1) /\ o = Sealed(o.ctr))
      BY <1>0, <1>t DEF Secured, SecureLoss, FramesInv
    <3>2. n.ctr \in 0..(dev'.tx - 1) /\ n = Sealed(n.ctr)
      <4>1. dev.tx \in 0..(dev'.tx - 1)
        BY <1>0, <1>t
      <4> QED BY <1>p, <1>n, <4>1
    <3> QED BY <1>2, <1>3, <3>1, <3>2
  <2>3. dev'.phase = "open" /\ (\A g \in Held' : g.sec /\ (pc' = "listen" => g.op = "statusResponse"))
    BY <1>0, <1>1 DEF Secured, SecureLoss, FramesInv
  <2>4. /\ \A g \in Own' : g.sec => g.ctr \in 0..(tx' - 1)
        /\ \A g, h \in Own' : g.sec /\ h.sec /\ g.ctr = h.ctr => g = h
    BY <1>1 DEF Secured, SecureLoss, FramesInv
  <2> QED BY <1>1, <2>1, <2>2, <2>3, <2>4 DEF FramesInv
<1>5. Acks(n)' = {}
  <2> SUFFICES ASSUME NEW g \in toDev', g.sec, g.ack = dev.tx PROVE FALSE
    BY <1>n DEF Acks
  <2>1. g \notin Held
    BY DEF Held
  <2>2. g # LastAck
    BY DEF LastAck, Frame
  <2>3. g.ack \in rx
    BY <2>1, <2>2 DEF Secured, SecureLoss, FramesInv, Acking
  <2> QED BY <1>t, <2>3, Places
<1>6. TokenInv'
  <2>1. \A o \in dev'.out : (o \in toCtl' => Acks(o)' = {}) /\ \A g, h \in Acks(o)' : g = h
    BY <1>1, <1>3, <1>5, <1>p DEF Secured, SecureLoss, TokenInv
  <2> QED BY <1>1, <2>1 DEF TokenInv
<1>7. TriesInv'
  <2>1. \A o \in dev'.out : Dark(o)' => o \in dev.out /\ Dark(o)
    BY <1>1, <1>3, <1>p DEF Dark
  <2>2. \A o \in dev.out : Dark(o) => 0 < losses
    BY Places DEF Secured, SecureLoss, TriesInv
  <2>3. losses' = losses /\ dev'.tries = 0 /\ 0 <= losses
    BY <1>0, <1>t
  <2>4. \A o \in dev'.out : Dark(o)' => 0 < losses
    BY <2>1, <2>2
  <2> QED BY <2>3, <2>4 DEF TriesInv
<1>8. (IdleAt \/ RequestAt \/ ConfirmAt \/ ListenAt)'
  <2>1. CASE RequestAt
    <3>1. /\ pc \in {"reply", "prime"} /\ rx = Upto(ex - 1) /\ ex > 0
          /\ resend.op = (IF pc = "reply" THEN "invoke" ELSE "subscribe")
          /\ resend.ex = ex /\ resend.ack = NoAck /\ ~dev.subscribed /\ dev.tx = ex - 1
      BY <2>1, Zenon DEF RequestAt
    <3>2. dev'.tx = ex /\ n = Sealed(ex - 1) /\ n \in dev'.out
      <4>1. dev'.tx = ex
        BY <1>0, <1>t, <3>1
      <4>2. n = Sealed(ex - 1)
        BY <1>p, <3>1
      <4> QED BY <1>p, <4>1, <4>2
    <3>3. ~dev'.subscribed /\ resend.ctr \in dev'.rx
      BY <1>0, <3>1
    <3> QED BY <1>2, <3>1, <3>2, <3>3 DEF RequestAt
  <2>2. CASE ConfirmAt
    <3>1. /\ pc = "subscribeResponse" /\ rx = Upto(ex) /\ ex > 0
          /\ resend.op = "statusResponse" /\ resend.ex = ex /\ resend.ack = ex - 1
          /\ dev.tx = ex
      BY <2>2 DEF ConfirmAt
    <3>2. dev'.tx = ex + 1 /\ n = Sealed(ex) /\ n \in dev'.out /\ dev'.subscribed /\ resend.ctr \in dev'.rx
      BY <1>0, <1>p, <1>t, <3>1
    <3>3. Sealed(ex - 1) \notin dev'.out
      <4>1. ex - 1 \in Nat /\ ex - 1 # ex
        BY <1>t, <3>1
      <4>2. Sealed(ex - 1).sec /\ Sealed(ex - 1).ctr = ex - 1
        BY <1>t, <4>1, SealedFields
      <4>3. f \in Acks(Sealed(ex - 1))
        BY <1>h, <3>1, <4>2 DEF Acks
      <4>4. Sealed(ex - 1) # n
        BY <1>n, <3>1, <4>1, <4>2
      <4> QED BY <1>3, <4>3, <4>4
    <3> QED BY <1>2, <3>1, <3>2, <3>3 DEF ConfirmAt
  <2> QED BY <2>1, <2>2 DEF Secured, SecureLoss, IdleAt, ListenAt, Exchange
<1>9. BeforeReports'
  BY <1>0 DEF Secured, SecureLoss, BeforeReports
<1>10. ItersInv'
  <2>1. Owed' \subseteq Owed
    <3> SUFFICES ASSUME NEW c \in Owed' PROVE c \in Owed
      OBVIOUS
    <3>1. c \in rx /\ Sealed(c) \in dev'.out /\ Acks(Sealed(c))' = {} /\ (pc = "subscribeResponse" => c # ex - 1)
      BY <1>2 DEF Owed
    <3>2. f \notin Acks(Sealed(c))
      BY <3>1, HeldNotOwed
    <3>3. Acks(Sealed(c))' = Acks(Sealed(c)) \ {f}
      BY <1>2 DEF Acks
    <3>4. Sealed(c) # n
      <4>1. c \in Nat /\ c < dev.tx
        BY <3>1, Places
      <4>2. Sealed(c).ctr = c
        BY <1>t, <4>1, SealedFields
      <4> QED BY <1>t, <1>n, <4>1, <4>2
    <3> QED BY <1>3, <3>1, <3>2, <3>3, <3>4 DEF Owed
  <2>2. Cardinality(Owed') <= Cardinality(Owed) /\ Cardinality(Owed') \in Nat /\ Cardinality(Owed) \in Nat
    BY <2>1, OwedFinite, Shrinks
  <2>3. Live
    BY DEF Live
  <2>4. Live'
    <3>1. n \in toCtl'
      BY <1>p
    <3>2. n.ctr \notin rx
      <4>1. \A c \in rx : c \in Nat /\ c < dev.tx
        BY Places
      <4> QED BY <1>n, <1>t, <4>1
    <3> QED BY <3>1, <3>2 DEF Live
  <2>5. iters + Cardinality(Owed) <= losses
    BY <1>t, <2>2, <2>3 DEF Secured, SecureLoss, ItersInv
  <2> QED BY <1>t, <2>2, <2>4, <2>5 DEF ItersInv
<1> QED BY <1>4, <1>6, <1>7, <1>8, <1>9, <1>10 DEF SecureLoss

\* The device takes the answer to its latest report.
LEMMA AnswerTaken ==
  ASSUME Secured, NEW f \in toDev, f.ctr \notin dev.rx, toDev' = toDev \ {f},
         pc = "listen", f = lastResp, f # None, TookAck(f), dev'.answered = dev.reported,
         UNCHANGED <<scenario, pc, iters, rx, ex, resend, tx, lastResp, losses>>
  PROVE  SecureLoss'
<1>0. /\ dev'.phase = dev.phase /\ dev'.rx = dev.rx \cup {f.ctr} /\ dev'.reported = dev.reported
      /\ dev'.tx = dev.tx /\ dev'.tries = dev.tries /\ dev'.subscribed = dev.subscribed
      /\ dev'.out = Unacked(f) /\ toCtl' = toCtl
  BY DEF TookAck, Took
<1>h. f \in Held /\ f.sec
  <2>1. f \in Held
    BY DEF Held, Exchange
  <2> QED BY <2>1 DEF Secured, SecureLoss, FramesInv
<1>1. /\ Held' = Held /\ Own' \subseteq Own /\ dev'.rx \subseteq 0..(tx - 1)
      /\ toCtl \subseteq Unacked(f)
  BY <1>0, <1>h, TakenFrames
<1>2. Calls' = Calls /\ \A c : Sealed(c)' = Sealed(c)
  BY SealedFixed
<1>t. dev.tx \in Nat /\ Calls \in 0..98 /\ dev.reported \in Nat /\ dev.answered \in Nat
  BY Places
<1>3. /\ ex = Calls + 1 /\ dev.tx = Calls + 2 + dev.reported /\ dev.subscribed
      /\ dev.reported = dev.answered + 1 /\ dev.out = {Latest} /\ rx = Upto(dev.tx)
      /\ lastResp.ack = dev.tx - 1 /\ toDev \subseteq {lastResp}
  <2>1. ListenAt
    BY DEF Secured, SecureLoss, IdleAt, RequestAt, ConfirmAt, Exchange
  <2> QED BY <2>1 DEF ListenAt
<1>4. f \in Acks(Latest)
  <2>1. dev.tx - 1 \in Nat
    BY <1>t, <1>3
  <2>2. Latest.sec /\ Latest.ctr = dev.tx - 1
    BY <1>t, <2>1, SealedFields DEF Latest
  <2> QED BY <1>h, <1>3, <2>2 DEF Acks
<1>5. dev'.out = {} /\ toDev' = {} /\ toCtl' = {}
  BY <1>0, <1>1, <1>3, <1>4, UnackedIs
<1>6. FramesInv'
  BY <1>0, <1>1, <1>2, <1>5 DEF Secured, SecureLoss, FramesInv
<1>7. TokenInv' /\ TriesInv'
  BY <1>0, <1>5 DEF Secured, SecureLoss, TokenInv, TriesInv
<1>8. ListenAt'
  BY <1>0, <1>2, <1>3, <1>5, <1>t DEF ListenAt
<1>9. BeforeReports' /\ ItersInv'
  BY DEF BeforeReports, ItersInv, Exchange
<1> QED BY <1>6, <1>7, <1>8, <1>9 DEF SecureLoss

\* The next report.
LEMMA DevReportLoss ==
  ASSUME Secured, DevReport PROVE SecureLoss'
<1>1. /\ UNCHANGED <<scenario, pc, iters, rx, ex, resend, tx, lastResp, losses, toDev>>
      /\ dev.subscribed /\ dev.answered = dev.reported /\ dev.out = {}
  BY DEF DevReport, loop
<1>2. Calls' = Calls /\ \A c : Sealed(c)' = Sealed(c)
  BY <1>1, SealedFixed
<1>t. dev.tx \in Nat /\ Calls \in 0..98 /\ Calls \in Nat /\ dev.reported \in Nat /\ losses \in Nat
  BY Places
<1>d. PICK d : d = [dev EXCEPT !.tx = @ + 1, !.reported = @ + 1]
  OBVIOUS
<1>n. PICK n : n = DevFrame(TRUE, "report", DevExchange(dev.reported + 1), dev.tx, dev.reported + 1)
  OBVIOUS
<1>3. /\ Shaped(d) /\ d.phase = dev.phase /\ d.rx = dev.rx /\ d.tx = dev.tx + 1 /\ d.out = dev.out
      /\ d.subscribed = dev.subscribed /\ d.reported = dev.reported + 1 /\ d.answered = dev.answered
  BY <1>d DEF Shaped, Secured, ShapeInv
<1>4. DevSend(d, n)
  BY <1>d, <1>n DEF DevReport
<1>5. /\ dev'.phase = d.phase /\ dev'.rx = d.rx /\ dev'.tx = d.tx /\ dev'.out = d.out \cup {n}
      /\ dev'.tries = 0 /\ dev'.subscribed = d.subscribed /\ dev'.reported = d.reported
      /\ dev'.answered = d.answered /\ toCtl' = toCtl \cup {n}
  BY <1>3, <1>4, SentFields
<1>6. ListenAt
  BY <1>1 DEF Secured, SecureLoss, IdleAt, RequestAt, ConfirmAt
<1>7. /\ pc = "listen" /\ ex = Calls + 1 /\ dev.tx = Calls + 2 + dev.reported /\ rx = Upto(dev.tx)
      /\ (lastResp = None \/ toDev = {})
  BY <1>1, <1>6, <1>t DEF ListenAt
<1>8. toDev = {}
  <2>1. CASE lastResp = None
    <3>1. Held = {}
      BY <1>7, <2>1 DEF Held, Exchange
    <3> QED BY <1>1, <3>1 DEF Secured, SecureLoss, FramesInv, Acking
  <2> QED BY <1>7, <2>1
<1>9. n = Sealed(dev.tx)
  <2>1. dev.tx - Calls - 1 = dev.reported + 1 /\ ~(dev.tx < Calls) /\ dev.tx # Calls /\ dev.tx # Calls + 1
    BY <1>7, <1>t
  <2> QED BY <1>n, <2>1 DEF Sealed
<1>10. n.sec /\ n.ctr = dev.tx /\ n # StatusReport
  BY <1>9, <1>t, SealedFields
<1>11. dev'.out = {n} /\ toCtl' = {n} /\ toDev' = {} /\ dev'.tx = dev.tx + 1 /\ dev'.rx = dev.rx
       /\ dev'.phase = "open"
  <2>1. toCtl = {}
    BY <1>1 DEF Secured, SecureLoss, FramesInv
  <2> QED BY <1>1, <1>3, <1>5, <1>8, <2>1 DEF Secured, SecureLoss, FramesInv
<1>12. Held' = Held /\ Own' = Own
  BY <1>1 DEF Held, Own
<1>13. FramesInv'
  <2>1. \A o \in dev'.out : o.ctr \in 0..(dev'.tx - 1) /\ o = Sealed(o.ctr)'
    BY <1>2, <1>9, <1>10, <1>11, <1>t
  <2>2. toCtl' \subseteq dev'.out \ {StatusReport}
    BY <1>10, <1>11
  <2> QED BY <1>1, <1>11, <1>12, <2>1, <2>2 DEF Secured, SecureLoss, FramesInv
<1>14. \A o : Acks(o)' = {}
  BY <1>11 DEF Acks
<1>15. TokenInv' /\ TriesInv'
  <2>1. \A o \in dev'.out : ~Dark(o)'
    BY <1>11 DEF Dark
  <2> QED BY <1>1, <1>5, <1>11, <1>14, <1>t, <2>1 DEF TokenInv, TriesInv
<1>16. ListenAt'
  <2>1. dev'.tx - 1 = dev.tx /\ dev'.tx = Calls + 2 + dev'.reported /\ dev'.reported = dev'.answered + 1
    BY <1>1, <1>3, <1>5, <1>7, <1>t
  <2>2. Latest' = n
    BY <1>2, <1>9, <2>1 DEF Latest
  <2> QED BY <1>1, <1>2, <1>3, <1>5, <1>7, <1>11, <2>1, <2>2 DEF ListenAt
<1>17. BeforeReports' /\ ItersInv'
  BY <1>1, <1>7 DEF BeforeReports, ItersInv, Exchange
<1> QED BY <1>13, <1>15, <1>16, <1>17 DEF SecureLoss

\* The device takes a frame of the session, or the last acknowledgement of the handshake.
LEMMA RecvLoss ==
  ASSUME Secured, NEW f \in toDev, DevRecv(f) PROVE SecureLoss'
<1>1. /\ UNCHANGED <<scenario, pc, iters, rx, ex, resend, tx, lastResp, losses>>
      /\ toDev' = toDev \ {f}
  BY DEF DevRecv, loop
<1>2. Shaped(dev) /\ Timely
  BY DEF Secured, ShapeInv, Mild
<1>3. (f = LastAck \/ Acking(f) \/ f \in Held) /\ (\A g \in Held : g.sec)
  BY DEF Secured, SecureLoss, FramesInv
<1>4. CASE ~f.sec
  <2>1. f = LastAck /\ f \notin Held
    BY <1>3, <1>4 DEF Acking
  <2>2. dev' = [dev EXCEPT !.out = Unacked(f)] /\ toCtl' = toCtl
    BY <1>4, <2>1 DEF DevRecv, DevHandshake, DevSecure, LastAck, Frame
  <2>3. PICK u : u = Unacked(f)
    OBVIOUS
  <2>4. /\ dev'.phase = dev.phase /\ dev'.rx = dev.rx /\ dev'.tx = dev.tx /\ dev'.tries = dev.tries
        /\ dev'.out = Unacked(f) /\ dev'.subscribed = dev.subscribed
        /\ dev'.reported = dev.reported /\ dev'.answered = dev.answered
    BY <1>2, <2>2, <2>3 DEF Shaped
  <2> QED BY <1>1, <1>4, <2>1, <2>2, <2>4, AckTaken
<1>5. CASE f.sec
  <2>1. DevSecure(f)
    BY <1>5 DEF DevRecv, DevHandshake
  <2>2. CASE f.ctr \in dev.rx /\ dev' = dev /\ toCtl' = toCtl \cup {o \in dev.out : o.sec}
    BY <1>1, <1>5, <2>2, RequestAgain
  <2>3. CASE f.ctr \notin dev.rx /\ f.op = "ack" /\ TookAck(f) /\ dev'.answered = dev.answered
    <3>1. f \notin Held
      <4>1. RequestAt => resend.op # "ack"
        BY DEF RequestAt
      <4>2. ConfirmAt => resend.op # "ack"
        BY DEF ConfirmAt
      <4>3. pc = "listen" => \A g \in Held : g.op = "statusResponse"
        BY DEF Secured, SecureLoss, FramesInv
      <4>4. pc \in Exchange => RequestAt \/ ConfirmAt
        BY DEF Secured, SecureLoss, IdleAt, ListenAt, Exchange
      <4> QED BY <2>3, <4>1, <4>2, <4>3, <4>4 DEF Held
    <3>2. Acking(f)
      BY <1>3, <1>5, <3>1 DEF LastAck, Frame
    <3>3. /\ dev'.phase = dev.phase /\ dev'.rx = dev.rx \cup {f.ctr} /\ dev'.tx = dev.tx
          /\ dev'.tries = dev.tries /\ dev'.out = Unacked(f) /\ dev'.subscribed = dev.subscribed
          /\ dev'.reported = dev.reported /\ toCtl' = toCtl
      BY <2>3 DEF TookAck, Took
    <3> QED BY <1>1, <1>5, <2>3, <3>1, <3>2, <3>3, AckTaken
  <2>4. CASE f.ctr \notin dev.rx /\ f.op # "ack"
    <3>1. f \in Held
      BY <1>3, <2>4 DEF Acking, LastAck, Frame
    <3>2. CASE pc \in Exchange
      <4>1. f = resend
        BY <3>1, <3>2 DEF Held
      <4>2. /\ f.ex = ex /\ ex < 100
            /\ pc = "reply" => f.op = "invoke" /\ Sealed(dev.tx) = DevFrame(TRUE, "reply", f.ex, dev.tx, f.ex)
            /\ pc = "prime" => f.op = "subscribe" /\ Sealed(dev.tx) = DevFrame(TRUE, "report", f.ex, dev.tx, f.ex)
            /\ pc = "subscribeResponse" =>
                 /\ f.op = "statusResponse"
                 /\ Sealed(dev.tx) = DevFrame(TRUE, "subscribeResponse", f.ex, dev.tx, f.ex)
        BY <2>4, <3>2, <4>1, AnswerIs
      <4>3. ~(f.ex >= DevExchange(0))
        BY <4>2, Places DEF DevExchange
      <4>4. PICK op : /\ TookRequest(f, op) /\ Sealed(dev.tx) = DevFrame(TRUE, op, f.ex, dev.tx, f.ex)
                      /\ IF pc = "subscribeResponse" THEN dev'.subscribed
                         ELSE dev'.subscribed = dev.subscribed
        <5>1. CASE pc = "reply"
          BY <1>2, <2>1, <2>4, <4>2, <4>3, <5>1, SecureFields
        <5>2. CASE pc = "prime"
          BY <1>2, <2>1, <2>4, <4>2, <4>3, <5>2, SecureFields
        <5>3. CASE pc = "subscribeResponse"
          BY <1>2, <2>1, <2>4, <4>2, <4>3, <5>3, SecureFields
        <5> QED BY <3>2, <5>1, <5>2, <5>3 DEF Exchange
      <4> QED BY <1>1, <2>4, <3>2, <4>1, <4>4, RequestTaken
    <3>3. CASE pc = "listen"
      <4>1. f = lastResp /\ f # None /\ f.op = "statusResponse"
        BY <3>1, <3>3 DEF Held, Exchange, Secured, SecureLoss, FramesInv
      <4>2. ListenAt
        BY <3>3 DEF Secured, SecureLoss, IdleAt, RequestAt, ConfirmAt
      <4>3. f.ex = DevExchange(dev.reported)
        BY <4>1, <4>2 DEF ListenAt
      <4>4. ~(f.ex < DevExchange(0))
        BY <4>3, Places DEF DevExchange
      <4>5. TookAck(f) /\ dev'.answered = dev.reported
        BY <1>2, <2>1, <2>4, <4>1, <4>4, SecureFields
      <4> QED BY <1>1, <2>4, <3>3, <4>1, <4>5, AnswerTaken
    <3> QED BY <3>1, <3>2, <3>3 DEF Held
  <2> QED BY <1>2, <2>1, <2>2, <2>3, <2>4, SecureFields
<1> QED BY <1>4, <1>5


-----------------------------------------------------------------------------
\* The handshake: one frame travels at a time.
Shaking == ShapeInv /\ NumbersInv /\ Mild /\ pc \in Handshake /\ HandshakeLoss

\* The fields of the frames of the handshake.
LEMMA HandshakeFrames ==
  /\ ~Sigma1.sec /\ Sigma1.op = "sigma1" /\ Sigma1.ex = 0
  /\ ~Sigma2.sec /\ Sigma2.op = "sigma2" /\ Sigma2.ctr = 0
  /\ ~Sigma3.sec /\ Sigma3.op = "sigma3" /\ Sigma3.ex = 0 /\ Sigma3.ack = 0
  /\ ~StatusReport.sec /\ StatusReport.op = "statusReport" /\ StatusReport.ctr = 1
  /\ ~LastAck.sec /\ LastAck.op = "ack" /\ LastAck.ack = 1
  /\ LastAck.sec = StatusReport.sec /\ Sigma3.sec = Sigma2.sec
BY DEF Sigma1, Sigma2, Sigma3, StatusReport, LastAck, Frame, DevFrame

\* The numbers of the handshake.
LEMMA HandshakeNumbers ==
  ASSUME Shaking
  PROVE  /\ ex = 0 /\ tx = 0 /\ lastResp = None /\ dev.rx = {} /\ dev.tx = 0
         /\ ~dev.subscribed /\ dev.reported = 0 /\ dev.answered = 0
         /\ losses \in Nat /\ iters \in Nat /\ dev.tries \in Nat
         /\ iters <= losses /\ dev.tries <= losses
         /\ Quiet => iters < losses /\ (dev.out # {} => dev.tries < losses)
         /\ toDev = {} /\ (\A f \in toCtl : f.ctr \in rx) => iters < losses
<1>1. losses \in Nat /\ iters \in Nat /\ dev.tries \in Nat
  BY DEF Shaking, NumbersInv
<1>2. /\ iters + (IF toDev = {} /\ ~(\E f \in toCtl : f.ctr \notin rx) THEN 1 ELSE 0) <= losses
      /\ dev.tries + (IF Quiet /\ dev.out # {} THEN 1 ELSE 0) <= losses
  BY DEF Shaking, HandshakeLoss
<1>3. iters <= losses /\ (toDev = {} /\ (\A f \in toCtl : f.ctr \in rx) => iters < losses)
  BY <1>1, <1>2
<1>4. dev.tries <= losses /\ (Quiet /\ dev.out # {} => dev.tries < losses)
  BY <1>1, <1>2
<1>5. Quiet => iters < losses
  BY <1>3 DEF Quiet
<1> QED BY <1>1, <1>3, <1>4, <1>5 DEF Shaking, HandshakeLoss

\* Arithmetic of the budget.
LEMMA OneMore ==
  ASSUME NEW i \in Nat, NEW l \in Nat PROVE (i < l => i + 1 <= l) /\ (i <= l => i + 0 <= l)
OBVIOUS

\* What a step of the handshake leaves to show.
LEMMA HandshakeKept ==
  ASSUME Shaking, losses' \in Nat, iters' \in Nat, dev'.tries \in Nat,
         UNCHANGED <<scenario, ex, tx, lastResp>>,
         dev'.rx = dev.rx, dev'.tx = dev.tx, dev'.subscribed = dev.subscribed,
         dev'.reported = dev.reported, dev'.answered = dev.answered,
         HandshakeAt',
         iters' <= losses', dev'.tries <= losses',
         iters' < losses' \/ toDev' # {} \/ (\E f \in toCtl' : f.ctr \notin rx'),
         dev'.tries < losses' \/ toDev' # {} \/ toCtl' # {} \/ dev'.out = {}
  PROVE  HandshakeLoss'
<1>1. iters' + (IF toDev' = {} /\ ~(\E f \in toCtl' : f.ctr \notin rx') THEN 1 ELSE 0) <= losses'
  <2>1. CASE toDev' = {} /\ ~(\E f \in toCtl' : f.ctr \notin rx')
    <3>1. iters' < losses'
      BY <2>1
    <3>2. iters' + 1 <= losses'
      BY <3>1, OneMore
    <3> QED BY <2>1, <3>2, Zenon
  <2>2. CASE ~(toDev' = {} /\ ~(\E f \in toCtl' : f.ctr \notin rx'))
    <3>1. iters' + 0 <= losses'
      BY OneMore
    <3> QED BY <2>2, <3>1, Zenon
  <2> QED BY <2>1, <2>2
<1>2. dev'.tries + (IF toDev' = {} /\ toCtl' = {} /\ dev'.out # {} THEN 1 ELSE 0) <= losses'
  OBVIOUS
<1>3. /\ ex' = 0 /\ tx' = 0 /\ lastResp' = None /\ dev'.rx = {} /\ dev'.tx = 0 /\ ~dev'.subscribed
      /\ dev'.reported = 0 /\ dev'.answered = 0 /\ None' = None
  BY HandshakeNumbers DEF None
<1> QED BY <1>1, <1>2, <1>3 DEF HandshakeLoss, Quiet

\* The session is open.
LEMMA SessionOpens ==
  ASSUME Shaking, pc = "statusReport", dev.phase = "open", dev.out = {StatusReport},
         toDev' = {LastAck}, toCtl' = {}, pc' = "idle", rx' = {},
         UNCHANGED <<scenario, losses, dev, loop>>
  PROVE  SecureLoss'
<1>1. /\ ex' = 0 /\ tx' = 0 /\ lastResp' = None /\ dev.rx = {} /\ dev.tx = 0
      /\ ~dev.subscribed /\ dev.reported = 0 /\ dev.answered = 0
      /\ losses \in Nat /\ dev.tries \in Nat /\ dev.tries <= losses
  BY HandshakeNumbers DEF loop
<1>2. Held' = {} /\ Own' = {LastAck}
  BY DEF Held, Own, Exchange
<1>3. ~LastAck.sec /\ LastAck.ack = 1 /\ LastAck.sec = StatusReport.sec /\ StatusReport.ctr = 1
  BY HandshakeFrames
<1>4. FramesInv'
  BY <1>1, <1>2, <1>3 DEF FramesInv, LastAck, StatusReport
<1>5. Acks(StatusReport)' = {LastAck}
  <2>1. Acks(StatusReport)' = {f \in {LastAck} : f.sec = StatusReport.sec /\ f.ack = StatusReport.ctr}
    BY DEF Acks, StatusReport, DevFrame
  <2> QED BY <1>3, <2>1
<1>6. TokenInv'
  <2>1. dev'.out = {StatusReport} /\ toDev' = {LastAck} /\ toCtl' = {}
    OBVIOUS
  <2>2. \A o \in dev'.out : Acks(o)' = {LastAck}
    BY <1>5, <2>1 DEF Acks, StatusReport, DevFrame
  <2> QED BY <1>3, <2>1, <2>2 DEF TokenInv
<1>7. TriesInv'
  <2>1. \A o \in dev'.out : ~Dark(o)'
    BY <1>5 DEF Dark, StatusReport, DevFrame
  <2> QED BY <1>1, <2>1 DEF TriesInv
<1>8. IdleAt'
  <2>1. Upto(0) = {}
    BY DEF Upto
  <2>2. dev'.tx = 0 /\ ex' = 0 /\ rx' = Upto(0)
    BY <1>1, <2>1
  <2> QED BY <1>1, <2>2 DEF IdleAt, Upto
<1>9. BeforeReports'
  BY <1>1 DEF BeforeReports, None
<1>10. ItersInv'
  <2>1. Owed' = {}
    BY DEF Owed
  <2>2. Cardinality({}) = 0
    BY FS_EmptySet
  <2>3. pc' \notin Exchange
    BY DEF Exchange
  <2> QED BY <1>1, <2>1, <2>2, <2>3 DEF ItersInv
<1> QED BY <1>4, <1>6, <1>7, <1>8, <1>9, <1>10 DEF SecureLoss

\* awaitSC takes a frame.
LEMMA AwaitSCLoss ==
  ASSUME Shaking, NEW f \in toCtl, AwaitSC(f)
  PROVE  /\ \/ pc' \in Handshake /\ HandshakeLoss'
            \/ pc' = "idle" /\ SecureLoss'
         /\ result' = result
<1>1. /\ UNCHANGED <<scenario, losses, dev, result>> /\ toCtl' = toCtl \ {f}
      /\ UNCHANGED <<ex, tx, lastResp>>
  BY DEF AwaitSC, hist, loop, Await
<1>2. /\ ex = 0 /\ losses \in Nat /\ iters \in Nat /\ dev.tries \in Nat
      /\ iters <= losses /\ dev.tries <= losses
      /\ toDev = {} /\ (\A g \in toCtl : g.ctr \in rx) => iters < losses
  BY HandshakeNumbers
<1>3. HandshakeAt
  BY DEF Shaking, HandshakeLoss
<1>4. CASE /\ pc = "sigma2" /\ resend = Sigma1 /\ rx = {}
           /\ dev.phase = "sigma2" /\ dev.out = {Sigma2} /\ InFlight(Sigma1, Sigma2)
  <2>1. f = Sigma2 /\ toDev = {} /\ toCtl' = {}
    BY <1>1, <1>4 DEF InFlight
  <2>2. ~f.sec /\ f.op = "sigma2" /\ f.ctr = 0 /\ f.ctr \notin rx
    BY <1>4, <2>1, HandshakeFrames
  <2>3. Frame(FALSE, "sigma3", ex, 1, f.ctr) = Sigma3
    BY <1>2, <2>2 DEF Sigma3
  <2>4. Await("statusReport", Sigma3) /\ toDev' = toDev \cup {Sigma3} /\ rx' = rx \cup {0}
    BY <1>4, <2>2, <2>3 DEF AwaitSC
  <2>5. pc' = "statusReport" /\ resend' = Sigma3 /\ iters' = 0 /\ toDev' = {Sigma3} /\ rx' = {0}
    BY <1>4, <2>1, <2>4 DEF Await
  <2>6. HandshakeAt'
    BY <1>1, <1>4, <2>1, <2>5 DEF HandshakeAt, InFlight, Sigma1, Sigma2, Sigma3, StatusReport
  <2>7. HandshakeLoss'
    BY <1>1, <1>2, <2>5, <2>6, HandshakeKept
  <2> QED BY <1>1, <2>5, <2>7 DEF Handshake
<1>5. CASE /\ pc = "statusReport" /\ resend = Sigma3 /\ rx = {0}
           /\ dev.phase = "sigma2" /\ dev.out = {Sigma2} /\ InFlight(Sigma3, Sigma2)
  <2>1. f = Sigma2 /\ toDev = {} /\ toCtl' = {} /\ toCtl = {Sigma2}
    BY <1>1, <1>5 DEF InFlight
  <2>2. ~f.sec /\ f.ctr = 0 /\ f.ctr \in rx
    BY <1>5, <2>1, HandshakeFrames
  <2>3. toDev' = {Sigma3} /\ iters' = iters + 1 /\ UNCHANGED <<pc, rx, resend>>
    BY <1>5, <2>1, <2>2 DEF AwaitSC, Iter, loop
  <2>4. iters < losses
    BY <1>2, <2>1, <2>2
  <2>5. HandshakeAt'
    BY <1>1, <1>5, <2>1, <2>3 DEF HandshakeAt, InFlight, Sigma1, Sigma2, Sigma3, StatusReport
  <2>6. iters' \in Nat /\ iters' <= losses'
    BY <1>1, <1>2, <2>3, <2>4
  <2>7. HandshakeLoss'
    BY <1>1, <1>2, <2>3, <2>5, <2>6, HandshakeKept
  <2> QED BY <1>1, <1>5, <2>3, <2>7 DEF Handshake
<1>6. CASE /\ pc = "statusReport" /\ resend = Sigma3 /\ rx = {0}
           /\ dev.phase = "open" /\ dev.out = {StatusReport} /\ InFlight(Sigma3, StatusReport)
  <2>1. f = StatusReport /\ toDev = {} /\ toCtl' = {}
    BY <1>1, <1>6 DEF InFlight
  <2>2. ~f.sec /\ f.op = "statusReport" /\ f.ctr = 1 /\ f.ctr \notin rx
    BY <1>6, <2>1, HandshakeFrames
  <2>3. Frame(FALSE, "ack", ex, 2, f.ctr) = LastAck
    BY <1>2, <2>2 DEF LastAck
  <2>4. toDev' = {LastAck} /\ pc' = "idle" /\ rx' = {} /\ resend' = resend
    BY <1>6, <2>1, <2>2, <2>3 DEF AwaitSC
  <2> QED BY <1>1, <1>6, <2>1, <2>4, SessionOpens DEF loop
<1>7. CASE toCtl = {}
  BY <1>7
<1> QED BY <1>3, <1>4, <1>5, <1>6, <1>7 DEF HandshakeAt

\* A deadline passes during the handshake.
LEMMA TimeoutShaking ==
  ASSUME Shaking, Timeout
  PROVE  /\ HandshakeLoss' /\ pc' = pc /\ result' = result
         /\ iters' = iters + 1 /\ retrans' = retrans + 1
<1>1. UNCHANGED <<scenario, ex, resend, rx, lastResp, toCtl, losses, dev>> /\ toDev = {} /\ toCtl = {}
  BY DEF Timeout, Quiet, Shaking, Mild
<1>2. losses \in Nat /\ iters \in Nat /\ dev.tries \in Nat /\ dev.tries <= losses /\ iters < losses
  BY <1>1, HandshakeNumbers
<1>3. MayRetransmit
  <2>1. losses <= MaxRetransmits /\ retrans \in Nat /\ retrans <= iters
    BY DEF Shaking, Mild, NumbersInv
  <2>2. MaxRetransmits \in Nat
    BY ScenarioAssumption DEF MaxRetransmits, Shaking, ShapeInv
  <2> QED BY <1>2, <2>1, <2>2 DEF MayRetransmit
<1>4. toDev' = {resend} /\ tx' = tx /\ pc' = pc /\ result' = result
      /\ iters' = iters + 1 /\ retrans' = retrans + 1
  BY <1>1, <1>3 DEF Timeout, Retransmit, Iter
<1>5. HandshakeAt'
  <2>1. HandshakeAt
    BY DEF Shaking, HandshakeLoss
  <2> QED BY <1>1, <1>4, <2>1 DEF HandshakeAt, InFlight, Sigma1, Sigma2, Sigma3, StatusReport
<1>6. iters' \in Nat /\ iters' <= losses'
  BY <1>1, <1>2, <1>4
<1> QED BY <1>1, <1>2, <1>4, <1>5, <1>6, HandshakeKept

\* The device's timer fires during the handshake.
LEMMA DevTimeoutShaking ==
  ASSUME Shaking, DevTimeout, Mild' PROVE HandshakeLoss'
<1>1. /\ UNCHANGED <<scenario, pc, ex, resend, tx, rx, lastResp, toDev, losses, iters>>
      /\ toDev = {} /\ toCtl = {} /\ dev.out # {}
  BY DEF DevTimeout, loop, Quiet, Shaking, Mild
<1>2. /\ losses \in Nat /\ iters \in Nat /\ dev.tries \in Nat
      /\ iters < losses /\ dev.tries < losses
  BY <1>1, HandshakeNumbers DEF Quiet
<1>3. dev.tries # MaxRetransmits
  <2>1. losses <= MaxRetransmits
    BY DEF Shaking, Mild
  <2>2. MaxRetransmits \in Nat
    BY ScenarioAssumption DEF MaxRetransmits, Shaking, ShapeInv
  <2> QED BY <1>2, <2>1, <2>2
<1>4. /\ toCtl' = toCtl \cup dev.out
      /\ dev' = [dev EXCEPT !.tries = IF Timely THEN @ + 1 ELSE @,
                   !.statusResent = @ \/ \E o \in dev.out : o.op = "statusReport"]
  BY <1>3 DEF DevTimeout
<1>5. PICK t, s : /\ t = IF Timely THEN dev.tries + 1 ELSE dev.tries
                  /\ s = (dev.statusResent \/ \E o \in dev.out : o.op = "statusReport")
  OBVIOUS
<1>6. dev' = [dev EXCEPT !.tries = t, !.statusResent = s]
  BY <1>4, <1>5, Zenon
<1>7. /\ dev'.phase = dev.phase /\ dev'.rx = dev.rx /\ dev'.tx = dev.tx /\ dev'.out = dev.out
      /\ dev'.subscribed = dev.subscribed /\ dev'.reported = dev.reported
      /\ dev'.answered = dev.answered /\ dev'.tries = t /\ dev'.statusResent = s
  BY <1>6 DEF Shaped, Shaking, ShapeInv
<1>8. t = dev.tries + 1
  BY <1>5 DEF Shaking, Mild
<1>9. StatusReport \notin dev.out
  <2>1. ~s
    BY <1>7 DEF Mild
  <2> QED BY <1>5, <2>1, HandshakeFrames
<1>10. dev.out = {Sigma2} /\ dev.phase = "sigma2"
  BY <1>1, <1>9 DEF Shaking, HandshakeLoss, HandshakeAt
<1>11. toCtl' = {Sigma2}
  BY <1>1, <1>4, <1>10
<1>12. HandshakeAt'
  <2>1. HandshakeAt
    BY DEF Shaking, HandshakeLoss
  <2> QED BY <1>1, <1>7, <1>10, <1>11, <2>1 DEF HandshakeAt, InFlight, Sigma1, Sigma2, Sigma3, StatusReport
<1>13. dev'.tries \in Nat /\ dev'.tries <= losses' /\ iters' < losses' /\ iters' <= losses'
  BY <1>1, <1>2, <1>7, <1>8
<1> QED BY <1>1, <1>2, <1>7, <1>11, <1>12, <1>13, HandshakeKept

\* A frame is lost during the handshake.
LEMMA LoseShaking ==
  ASSUME Shaking, Lose PROVE HandshakeLoss'
<1>1. UNCHANGED <<scenario, pc, iters, rx, ex, resend, tx, lastResp, dev>> /\ losses' = losses + 1
      /\ toDev' \subseteq toDev /\ toCtl' \subseteq toCtl
  BY DEF Lose, loop
<1>2. losses \in Nat /\ iters \in Nat /\ dev.tries \in Nat /\ iters <= losses /\ dev.tries <= losses
  BY HandshakeNumbers
<1>3. HandshakeAt'
  <2>1. HandshakeAt
    BY DEF Shaking, HandshakeLoss
  <2>2. \A F, G : InFlight(F, G) => InFlight(F, G)'
    BY <1>1 DEF InFlight
  <2> QED BY <1>1, <2>1, <2>2 DEF HandshakeAt, InFlight, Sigma1, Sigma2, Sigma3, StatusReport
<1>4. losses' \in Nat /\ iters' < losses' /\ dev'.tries < losses'
  BY <1>1, <1>2
<1> QED BY <1>1, <1>2, <1>4, <1>3, HandshakeKept

-----------------------------------------------------------------------------
\* What a frame of the handshake does to a Timely device.
Shook(phase, out, tries) ==
  /\ dev'.phase = phase /\ dev'.out = out /\ dev'.tries = tries
  /\ dev'.rx = dev.rx /\ dev'.tx = dev.tx /\ dev'.subscribed = dev.subscribed
  /\ dev'.reported = dev.reported /\ dev'.answered = dev.answered
  /\ dev'.statusResent = dev.statusResent

\* What a frame of the handshake does to the record, by its kind.
LEMMA HandshakeFields ==
  ASSUME Shaped(dev), NEW f, DevHandshake(f), Timely
  PROVE  /\ ~f.sec
         /\ \/ \E n : /\ f.op = "sigma1" /\ dev.phase = "new" /\ n = DevFrame(FALSE, "sigma2", f.ex, 0, 0)
                      /\ Shook("sigma2", dev.out \cup {n}, 0) /\ toCtl' = toCtl \cup {n}
            \/ \E n : /\ f.op = "sigma3" /\ dev.phase = "sigma2"
                      /\ n = DevFrame(FALSE, "statusReport", f.ex, 1, 0)
                      /\ Shook("open", Unacked(f) \cup {n}, 0) /\ toCtl' = toCtl \cup {n}
            \/ f.op = "ack" /\ Shook(dev.phase, Unacked(f), dev.tries) /\ toCtl' = toCtl
            \/ /\ (f.op = "sigma1" /\ dev.phase # "new") \/ (f.op = "sigma3" /\ dev.phase # "sigma2")
               /\ Shook(dev.phase, dev.out, dev.tries) /\ toCtl' = toCtl \cup {o \in dev.out : ~o.sec}
<1>1. PICK u : u = Unacked(f)
  OBVIOUS
<1>2. CASE f.op = "sigma1" /\ dev.phase = "new"
           /\ DevSend([dev EXCEPT !.phase = "sigma2"], DevFrame(FALSE, "sigma2", f.ex, 0, 0))
  <2>1. PICK d, n : d = [dev EXCEPT !.phase = "sigma2"] /\ n = DevFrame(FALSE, "sigma2", f.ex, 0, 0)
    OBVIOUS
  <2>2. /\ Shaped(d) /\ d.phase = "sigma2" /\ d.rx = dev.rx /\ d.tx = dev.tx /\ d.out = dev.out
        /\ d.subscribed = dev.subscribed /\ d.reported = dev.reported
        /\ d.answered = dev.answered /\ d.statusResent = dev.statusResent
    BY <2>1 DEF Shaped
  <2>3. DevSend(d, n)
    BY <1>2, <2>1
  <2>4. Shook("sigma2", dev.out \cup {n}, 0) /\ toCtl' = toCtl \cup {n}
    BY <2>2, <2>3, SentFields DEF Shook
  <2>5. ~f.sec
    BY DEF DevHandshake
  <2> QED BY <1>2, <2>1, <2>4, <2>5
<1>3. CASE f.op = "sigma3" /\ dev.phase = "sigma2"
           /\ DevSend([dev EXCEPT !.phase = "open", !.out = Unacked(f)],
                      DevFrame(FALSE, "statusReport", f.ex, 1, 0))
  <2>1. PICK d, n : d = [dev EXCEPT !.phase = "open", !.out = u]
                    /\ n = DevFrame(FALSE, "statusReport", f.ex, 1, 0)
    OBVIOUS
  <2>2. /\ Shaped(d) /\ d.phase = "open" /\ d.rx = dev.rx /\ d.tx = dev.tx /\ d.out = u
        /\ d.subscribed = dev.subscribed /\ d.reported = dev.reported
        /\ d.answered = dev.answered /\ d.statusResent = dev.statusResent
    BY <2>1 DEF Shaped
  <2>3. DevSend(d, n)
    BY <1>1, <1>3, <2>1
  <2>4. Shook("open", Unacked(f) \cup {n}, 0) /\ toCtl' = toCtl \cup {n}
    BY <1>1, <2>2, <2>3, SentFields DEF Shook
  <2>5. ~f.sec
    BY DEF DevHandshake
  <2> QED BY <1>3, <2>1, <2>4, <2>5
<1>4. CASE f.op = "ack" /\ dev' = [dev EXCEPT !.out = Unacked(f)] /\ toCtl' = toCtl
  <2>1. dev' = [dev EXCEPT !.out = u]
    BY <1>1, <1>4
  <2>2. Shook(dev.phase, u, dev.tries)
    BY <2>1 DEF Shook, Shaped
  <2>3. ~f.sec
    BY DEF DevHandshake
  <2> QED BY <1>1, <1>4, <2>2, <2>3
<1>5. CASE /\ (f.op = "sigma1" /\ dev.phase # "new") \/ (f.op = "sigma3" /\ dev.phase # "sigma2")
           /\ dev' = dev /\ toCtl' = toCtl \cup {o \in dev.out : ~o.sec}
  <2>1. Shook(dev.phase, dev.out, dev.tries)
    BY <1>5 DEF Shook
  <2>2. ~f.sec
    BY DEF DevHandshake
  <2> QED BY <1>5, <2>1, <2>2
<1> QED BY <1>2, <1>3, <1>4, <1>5 DEF DevHandshake

\* The device takes a frame of the handshake.
LEMMA RecvShaking ==
  ASSUME Shaking, NEW f \in toDev, DevRecv(f) PROVE HandshakeLoss'
<1>1. /\ UNCHANGED <<scenario, pc, iters, rx, ex, resend, tx, lastResp, losses>>
      /\ toDev' = toDev \ {f}
  BY DEF DevRecv, loop
<1>2. Shaped(dev) /\ Timely
  BY DEF Shaking, ShapeInv, Mild
<1>3. HandshakeAt
  BY DEF Shaking, HandshakeLoss
<1>4. /\ losses \in Nat /\ iters \in Nat /\ dev.tries \in Nat /\ iters <= losses /\ dev.tries <= losses
  BY HandshakeNumbers
<1>5. f \in {Sigma1, Sigma3} /\ toCtl = {} /\ toDev' = {}
  BY <1>1, <1>3 DEF HandshakeAt, InFlight
<1>6. ~f.sec /\ f.ex = 0 /\ (f = Sigma3 => f.ack = 0)
  BY <1>5, HandshakeFrames
<1>7. DevHandshake(f)
  BY <1>6 DEF DevRecv, DevSecure
<1>8. ASSUME NEW n, NEW phase, NEW tries, tries \in {0, dev.tries}, Shook(phase, {n}, tries),
             toCtl' = {n}, n.ctr \notin rx, HandshakeAt'
      PROVE  HandshakeLoss'
  <2>1. /\ dev'.rx = dev.rx /\ dev'.tx = dev.tx /\ dev'.subscribed = dev.subscribed
        /\ dev'.reported = dev.reported /\ dev'.answered = dev.answered /\ dev'.tries = tries
    BY <1>8 DEF Shook
  <2>2. dev'.tries \in Nat /\ dev'.tries <= losses'
    BY <1>1, <1>4, <1>8, <2>1
  <2>3. \E g \in toCtl' : g.ctr \notin rx'
    BY <1>1, <1>8
  <2> QED BY <1>1, <1>4, <1>8, <2>1, <2>2, <2>3, HandshakeKept
<1>9. CASE /\ pc = "sigma2" /\ resend = Sigma1 /\ rx = {}
           /\ dev.phase = "new" /\ dev.out = {} /\ toDev \subseteq {Sigma1}
  <2>1. f.op = "sigma1"
    BY <1>9, HandshakeFrames
  <2>2. DevFrame(FALSE, "sigma2", f.ex, 0, 0) = Sigma2
    BY <1>6 DEF Sigma2
  <2>3. Shook("sigma2", {Sigma2}, 0) /\ toCtl' = {Sigma2}
    <3>1. Shook("sigma2", dev.out \cup {Sigma2}, 0) /\ toCtl' = toCtl \cup {Sigma2}
      BY <1>2, <1>7, <1>9, <2>1, <2>2, HandshakeFields
    <3>2. dev.out \cup {Sigma2} = {Sigma2}
      BY <1>9
    <3> QED BY <1>5, <3>1, <3>2
  <2>4. HandshakeAt'
    BY <1>1, <1>5, <1>9, <2>3 DEF HandshakeAt, InFlight, Shook, Sigma1, Sigma2, Sigma3, StatusReport
  <2> QED BY <1>8, <1>9, <2>3, <2>4
<1>10. CASE /\ pc = "sigma2" /\ resend = Sigma1 /\ rx = {}
            /\ dev.phase = "sigma2" /\ dev.out = {Sigma2} /\ InFlight(Sigma1, Sigma2)
  <2>1. f.op = "sigma1"
    BY <1>10, HandshakeFrames DEF InFlight
  <2>2. Shook("sigma2", {Sigma2}, dev.tries) /\ toCtl' = {Sigma2}
    <3>1. Shook(dev.phase, dev.out, dev.tries) /\ toCtl' = toCtl \cup {o \in dev.out : ~o.sec}
      BY <1>2, <1>7, <1>10, <2>1, HandshakeFields
    <3>2. {o \in dev.out : ~o.sec} = {Sigma2}
      BY <1>10, HandshakeFrames
    <3> QED BY <1>5, <1>10, <3>1, <3>2
  <2>3. HandshakeAt'
    BY <1>1, <1>5, <1>10, <2>2 DEF HandshakeAt, InFlight, Shook, Sigma1, Sigma2, Sigma3, StatusReport
  <2> QED BY <1>8, <1>10, <2>2, <2>3
<1>11. CASE /\ pc = "statusReport" /\ resend = Sigma3 /\ rx = {0}
            /\ dev.phase = "sigma2" /\ dev.out = {Sigma2} /\ InFlight(Sigma3, Sigma2)
  <2>1. f.op = "sigma3" /\ f.ack = 0
    BY <1>11, HandshakeFrames DEF InFlight
  <2>2. DevFrame(FALSE, "statusReport", f.ex, 1, 0) = StatusReport
    BY <1>6 DEF StatusReport
  <2>3. Unacked(f) = {}
    <3>1. f = Sigma3
      BY <1>11 DEF InFlight
    <3>2. f.sec = Sigma2.sec /\ Sigma2.ctr = 0
      BY <3>1, HandshakeFrames
    <3> QED BY <1>11, <2>1, <3>2 DEF Unacked
  <2>4. Shook("open", {StatusReport}, 0) /\ toCtl' = {StatusReport}
    <3>1. Shook("open", Unacked(f) \cup {StatusReport}, 0) /\ toCtl' = toCtl \cup {StatusReport}
      BY <1>2, <1>7, <1>11, <2>1, <2>2, HandshakeFields
    <3>2. Unacked(f) \cup {StatusReport} = {StatusReport}
      BY <2>3
    <3> QED BY <1>5, <3>1, <3>2
  <2>5. HandshakeAt'
    BY <1>1, <1>5, <1>11, <2>4 DEF HandshakeAt, InFlight, Shook, Sigma1, Sigma2, Sigma3, StatusReport
  <2>6. StatusReport.ctr \notin rx
    BY <1>11, HandshakeFrames
  <2> QED BY <1>8, <2>4, <2>5, <2>6
<1>12. CASE /\ pc = "statusReport" /\ resend = Sigma3 /\ rx = {0}
            /\ dev.phase = "open" /\ dev.out = {StatusReport} /\ InFlight(Sigma3, StatusReport)
  <2>1. f.op = "sigma3"
    BY <1>12, HandshakeFrames DEF InFlight
  <2>2. Shook("open", {StatusReport}, dev.tries) /\ toCtl' = {StatusReport}
    <3>1. Shook(dev.phase, dev.out, dev.tries) /\ toCtl' = toCtl \cup {o \in dev.out : ~o.sec}
      BY <1>2, <1>7, <1>12, <2>1, HandshakeFields
    <3>2. {o \in dev.out : ~o.sec} = {StatusReport}
      BY <1>12, HandshakeFrames
    <3> QED BY <1>5, <1>12, <3>1, <3>2
  <2>3. HandshakeAt'
    BY <1>1, <1>5, <1>12, <2>2 DEF HandshakeAt, InFlight, Shook, Sigma1, Sigma2, Sigma3, StatusReport
  <2>4. StatusReport.ctr \notin rx
    BY <1>12, HandshakeFrames
  <2> QED BY <1>8, <2>2, <2>3, <2>4
<1> QED BY <1>3, <1>9, <1>10, <1>11, <1>12 DEF HandshakeAt

-----------------------------------------------------------------------------
\* The counters of a step.
LEMMA LossesCount ==
  ASSUME [Next]_vars PROVE losses' \in {losses, losses + 1} /\ scenario' = scenario
<1>1. ASSUME NEW f, AwaitSC(f) \/ Duplicate(f) \/ Skip(f) \/ Foreign(f) \/ Reply(f) \/ Listen(f)
      PROVE  losses' = losses /\ scenario' = scenario
  BY <1>1 DEF AwaitSC, Duplicate, Skip, Foreign, Reply, Listen
<1>2. Timeout \/ GiveUp \/ CtxDone => losses' = losses /\ scenario' = scenario
  BY DEF Timeout, GiveUp, CtxDone
<1>3. Call \/ Subscribe => losses' = losses /\ scenario' = scenario
  BY DEF Call, Subscribe, Start
<1>4. (\E f \in toDev : DevRecv(f)) \/ DevReport \/ DevTimeout => losses' = losses /\ scenario' = scenario
  BY DEF DevRecv, DevReport, DevTimeout
<1>5. Lose => losses' = losses + 1 /\ scenario' = scenario
  BY DEF Lose
<1>6. UNCHANGED vars => losses' = losses /\ scenario' = scenario
  BY DEF vars
<1> QED BY <1>1, <1>2, <1>3, <1>4, <1>5, <1>6 DEF Next, Controller

\* The device's counters.
DevCounts ==
  /\ dev'.tx \in {dev.tx, dev.tx + 1} /\ dev'.tries \in {dev.tries, dev.tries + 1, 0}
  /\ dev.statusResent => dev'.statusResent

\* Every step counts like that.
LEMMA DevCounting ==
  ASSUME ShapeInv, Timely, [Next]_vars PROVE DevCounts
<1>1. Shaped(dev)
  BY DEF ShapeInv
<1>2. dev' = dev => DevCounts
  BY DEF DevCounts
<1>3. ASSUME NEW f, DevRecv(f) PROVE DevCounts
  <2>1. CASE DevHandshake(f)
    BY <1>1, <2>1, HandshakeFields DEF Shook, DevCounts
  <2>2. CASE DevSecure(f)
    BY <1>1, <1>2, <2>2, SecureFields DEF TookAck, TookRequest, Took, DevCounts
  <2> QED BY <1>3, <2>1, <2>2 DEF DevRecv
<1>4. CASE DevReport
  <2>1. PICK d, n : /\ d = [dev EXCEPT !.tx = @ + 1, !.reported = @ + 1]
                    /\ n = DevFrame(TRUE, "report", DevExchange(dev.reported + 1), dev.tx, dev.reported + 1)
    OBVIOUS
  <2>2. Shaped(d) /\ d.tx = dev.tx + 1 /\ d.statusResent = dev.statusResent
    BY <1>1, <2>1 DEF Shaped
  <2>3. DevSend(d, n)
    BY <1>4, <2>1 DEF DevReport
  <2> QED BY <2>2, <2>3, SentFields DEF DevCounts
<1>5. CASE DevTimeout
  <2>1. CASE dev' = [dev EXCEPT !.out = {}]
    BY <1>1, <2>1 DEF Shaped, DevCounts
  <2>2. CASE dev' = [dev EXCEPT !.tries = IF Timely THEN @ + 1 ELSE @,
                       !.statusResent = @ \/ \E o \in dev.out : o.op = "statusReport"]
    <3>1. PICK t, s : /\ t = IF Timely THEN dev.tries + 1 ELSE dev.tries
                      /\ s = (dev.statusResent \/ \E o \in dev.out : o.op = "statusReport")
      OBVIOUS
    <3>2. dev' = [dev EXCEPT !.tries = t, !.statusResent = s]
      BY <2>2, <3>1, Zenon
    <3>3. dev'.tx = dev.tx /\ dev'.tries = t /\ dev'.statusResent = s
      BY <1>1, <3>2 DEF Shaped
    <3>4. t = dev.tries + 1 /\ (dev.statusResent => s)
      BY <3>1
    <3> QED BY <3>3, <3>4 DEF DevCounts
  <2> QED BY <1>5, <2>1, <2>2 DEF DevTimeout
<1>6. ASSUME NEW f, AwaitSC(f) \/ Duplicate(f) \/ Skip(f) \/ Foreign(f) \/ Reply(f) \/ Listen(f)
      PROVE  dev' = dev
  BY <1>6 DEF AwaitSC, Duplicate, Skip, Foreign, Reply, Listen
<1>7. Timeout \/ GiveUp \/ CtxDone \/ Call \/ Subscribe \/ Lose \/ UNCHANGED vars => dev' = dev
  BY DEF Timeout, GiveUp, CtxDone, Call, Subscribe, Start, Lose, vars
<1> QED BY <1>2, <1>3, <1>4, <1>5, <1>6, <1>7 DEF Next, Controller

\* The controller's counters.
CtlCounts ==
  /\ tx' \in {tx, tx + 1}
  /\ \/ iters' = iters /\ retrans' = retrans
     \/ iters' = iters + 1 /\ retrans' \in {retrans, retrans + 1}
     \/ iters' = 0 /\ retrans' = 0

\* Every step counts like that.
LEMMA CtlCounting == ASSUME [Next]_vars PROVE CtlCounts
<1>1. \A m : AckMsg(m) => tx' = tx + 1
  BY DEF AckMsg
<1>2. \A p, f : Await(p, f) => iters' = 0 /\ retrans' = 0
  BY DEF Await
<1>3. ASSUME NEW f, AwaitSC(f) PROVE CtlCounts
  BY <1>2, <1>3 DEF AwaitSC, Iter, loop, CtlCounts
<1>4. ASSUME NEW f, Duplicate(f) \/ Skip(f) \/ Foreign(f) PROVE CtlCounts
  BY <1>1, <1>4 DEF Duplicate, Skip, Foreign, Iter, loop, CtlCounts
<1>5. ASSUME NEW f, Reply(f) PROVE CtlCounts
  BY <1>1, <1>2, <1>5 DEF Reply, CtlCounts
<1>6. ASSUME NEW f, Listen(f) PROVE CtlCounts
  BY <1>1, <1>6 DEF Listen, ListenDuplicate, ListenReport, ListenOther, CtlCounts
<1>7. CASE Timeout
  BY <1>7 DEF Timeout, Retransmit, Iter, CtlCounts
<1>8. CASE GiveUp \/ CtxDone
  BY <1>8 DEF GiveUp, CtxDone, loop, CtlCounts
<1>9. CASE Call \/ Subscribe
  BY <1>2, <1>9 DEF Call, Subscribe, Start, CtlCounts
<1>10. ASSUME NEW f, DevRecv(f) PROVE CtlCounts
  BY <1>10 DEF DevRecv, loop, CtlCounts
<1>11. CASE DevReport \/ DevTimeout \/ Lose
  BY <1>11 DEF DevReport, DevTimeout, Lose, loop, CtlCounts
<1>12. CASE UNCHANGED vars
  BY <1>12 DEF vars, CtlCounts
<1> QED BY <1>3, <1>4, <1>5, <1>6, <1>7, <1>8, <1>9, <1>10, <1>11, <1>12 DEF Next, Controller

\* A Mild state has Mild states behind it.
LEMMA MildBefore ==
  ASSUME ShapeInv, losses \in Nat, [Next]_vars, Mild' PROVE Mild
<1>1. scenario' = scenario /\ losses' \in {losses, losses + 1}
  BY LossesCount
<1>2. Timely' = Timely /\ MaxRetransmits' = MaxRetransmits /\ MaxMessages' = MaxMessages
  BY <1>1 DEF Timely, MaxRetransmits, MaxMessages
<1>3. Timely /\ losses' <= MaxRetransmits /\ losses' <= MaxMessages /\ ~dev'.statusResent
  BY <1>2 DEF Mild
<1>4. ~dev.statusResent
  BY <1>3, DevCounting DEF DevCounts
<1>5. MaxRetransmits \in Nat /\ MaxMessages \in Nat
  BY ScenarioAssumption DEF MaxRetransmits, MaxMessages, ShapeInv
<1> QED BY <1>1, <1>3, <1>4, <1>5 DEF Mild

\* The numbers stay numbers, and no more is re-sent than a loop iterates.
LEMMA NumbersKept ==
  ASSUME ShapeInv, Mild, NumbersInv, [Next]_vars PROVE NumbersInv'
<1>1. losses' \in {losses, losses + 1} /\ CtlCounts /\ DevCounts
  BY LossesCount, CtlCounting, DevCounting DEF Mild
<1> QED BY <1>1 DEF NumbersInv, CtlCounts, DevCounts

-----------------------------------------------------------------------------
\* The handshake begins without a loss.
LEMMA LossInvInit == Init => LossInv
<1> SUFFICES ASSUME Init PROVE LossInv
  OBVIOUS
<1>1. /\ pc = "sigma2" /\ ex = 0 /\ tx = 0 /\ rx = {} /\ lastResp = None
      /\ iters = 0 /\ retrans = 0 /\ losses = 0
      /\ resend = Sigma1 /\ toDev = {Sigma1} /\ toCtl = {}
  BY DEF Init, Sigma1
<1>2. /\ dev.phase = "new" /\ dev.rx = {} /\ dev.tx = 0 /\ dev.out = {} /\ dev.tries = 0
      /\ ~dev.subscribed /\ dev.reported = 0 /\ dev.answered = 0
  BY DEF Init
<1>3. NumbersInv
  BY <1>1, <1>2 DEF NumbersInv
<1>4. \A x \in 1..Calls : result[x] # "error"
  BY DEF Init
<1>5. HandshakeAt
  BY <1>1, <1>2 DEF HandshakeAt
<1>6. HandshakeLoss
  BY <1>1, <1>2, <1>5 DEF HandshakeLoss, Quiet
<1> QED BY <1>1, <1>3, <1>4, <1>6 DEF LossInv, Handshake

\* Nothing ends a receive loop with an error while the losses are few.
LEMMA NoFailure ==
  ASSUME Mild, NumbersInv, Shaking \/ Secured PROVE ~GiveUp /\ ~CtxDone
<1>1. iters <= losses \/ pc \notin Handshake \cup Exchange
  <2>1. CASE Shaking
    BY <2>1, HandshakeNumbers
  <2>2. CASE Secured
    <3>1. CASE pc \in Exchange
      <4>1. iters + (IF Live THEN 0 ELSE 1) + Cardinality(Owed) <= losses /\ Cardinality(Owed) \in Nat
        BY <2>2, <3>1, OwedFinite DEF Secured, SecureLoss, ItersInv
      <4> QED BY <4>1, <2>2, Places
    <3> QED BY <2>2, <3>1, Places DEF Handshake, Exchange
  <2> QED BY <2>1, <2>2
<1>2. losses <= MaxMessages /\ MaxMessages \in Nat /\ iters \in Nat /\ losses \in Nat /\ Timely
  <2>1. ShapeInv
    BY DEF Shaking, Secured
  <2> QED BY <2>1, ScenarioAssumption DEF MaxMessages, ShapeInv, Mild, NumbersInv
<1>3. ~GiveUp
  BY <1>1, <1>2 DEF GiveUp
<1> QED BY <1>2, <1>3 DEF CtxDone

\* A step of the handshake.
LEMMA ShakingNext ==
  ASSUME Shaking, [Next]_vars, Mild'
  PROVE  /\ result' = result
         /\ \/ pc' \in Handshake /\ HandshakeLoss'
            \/ pc' \notin Handshake \cup {"failed"} /\ SecureLoss'
<1>0. pc \in Handshake /\ pc \notin Exchange /\ pc # "idle" /\ pc # "listen" /\ ~GiveUp /\ ~CtxDone
  BY NoFailure DEF Shaking, Handshake, Exchange
<1>1. ASSUME NEW f \in toCtl, AwaitSC(f)
      PROVE  /\ result' = result
             /\ \/ pc' \in Handshake /\ HandshakeLoss'
                \/ pc' \notin Handshake \cup {"failed"} /\ SecureLoss'
  BY <1>1, AwaitSCLoss DEF Handshake
<1>2. \A f : ~Duplicate(f) /\ ~Skip(f) /\ ~Foreign(f) /\ ~Reply(f) /\ ~Listen(f)
  BY <1>0 DEF Duplicate, Skip, Foreign, Reply, Listen
<1>3. ~Call /\ ~Subscribe
  BY <1>0 DEF Call, Subscribe, Start
<1>4. ~DevReport
  BY DEF DevReport, Shaking, HandshakeLoss
<1>5. CASE Timeout
  BY <1>0, <1>5, TimeoutShaking
<1>6. ASSUME NEW f \in toDev, DevRecv(f) PROVE pc' = pc /\ result' = result /\ HandshakeLoss'
  BY <1>6, RecvShaking DEF DevRecv, hist
<1>7. CASE DevTimeout
  BY <1>0, <1>7, DevTimeoutShaking DEF DevTimeout, hist
<1>8. CASE Lose
  BY <1>0, <1>8, LoseShaking DEF Lose, hist
<1>9. CASE UNCHANGED vars
  <2>1. HandshakeLoss
    BY DEF Shaking
  <2>2. /\ UNCHANGED <<scenario, pc, ex, resend, iters, tx, rx, lastResp, toDev, toCtl, losses, dev>>
        /\ result' = result
    BY <1>9 DEF vars
  <2>3. HandshakeAt'
    BY <2>1, <2>2 DEF HandshakeLoss, HandshakeAt, InFlight, Sigma1, Sigma2, Sigma3, StatusReport
  <2>4. HandshakeLoss'
    BY <2>1, <2>2, <2>3 DEF HandshakeLoss, Quiet, None
  <2> QED BY <1>0, <2>2, <2>4
<1> QED BY <1>0, <1>1, <1>2, <1>3, <1>4, <1>5, <1>6, <1>7, <1>8, <1>9 DEF Next, Controller

\* A step of the session.
LEMMA SecuredNext ==
  ASSUME Secured, [Next]_vars, Mild'
  PROVE  /\ \/ result' = result
            \/ \E v \in {"own", "other"} : result' = [result EXCEPT ![ex] = v]
         /\ pc' \notin Handshake \cup {"failed"} /\ SecureLoss'
<1>0. pc \in {"idle", "listen"} \cup Exchange /\ pc \notin Handshake /\ ~GiveUp /\ ~CtxDone
  BY NoFailure, Places DEF Handshake, Exchange, Secured
<1>1. SecureLoss' => pc' \notin Handshake \cup {"failed"}
  BY DEF SecureLoss, IdleAt, RequestAt, ConfirmAt, ListenAt, Handshake
<1>2. \A f : ~AwaitSC(f)
  BY <1>0 DEF AwaitSC
<1>3. \A f \in toCtl : f.sec
  <2>1. Calls \in 0..98
    BY Places
  <2>2. toCtl \subseteq dev.out \ {StatusReport}
        /\ \A o \in dev.out : o = StatusReport \/ (o.ctr \in 0..(dev.tx - 1) /\ o = Sealed(o.ctr))
    BY DEF Secured, SecureLoss, FramesInv
  <2> QED BY <2>1, <2>2, SealedFields
<1>4. \A f \in toCtl : ~Foreign(f)
  BY <1>3 DEF Foreign
<1>5. \A f \in toCtl : ~Skip(f)
  <2> SUFFICES ASSUME NEW f \in toCtl, Skip(f) PROVE FALSE
    OBVIOUS
  <2>1. f.ctr \notin rx /\ pc \in Exchange /\ (f.op = "ack" \/ f.ex # ex)
    BY DEF Skip
  <2> QED BY <2>1, Fresh
<1>6. ASSUME NEW f \in toCtl, Duplicate(f) PROVE result' = result /\ SecureLoss'
  BY <1>6, DuplicateLoss DEF Duplicate, hist
<1>7. ASSUME NEW f \in toCtl, Listen(f) PROVE result' = result /\ SecureLoss'
  BY <1>7, ListenLoss
<1>8. CASE Timeout
  BY <1>1, <1>8, TimeoutLoss
<1>9. CASE Call \/ Subscribe
  BY <1>1, <1>9, StartLoss DEF Call, Subscribe
<1>10. ASSUME NEW f \in toDev, DevRecv(f) PROVE result' = result /\ SecureLoss'
  BY <1>10, RecvLoss DEF DevRecv, hist
<1>11. CASE DevReport
  BY <1>1, <1>11, DevReportLoss DEF DevReport, hist
<1>12. CASE DevTimeout
  BY <1>1, <1>12, DevTimeoutLoss DEF DevTimeout, hist
<1>13. CASE Lose
  BY <1>1, <1>13, LoseToDev, LoseToCtl DEF Lose, hist
<1>14. CASE UNCHANGED vars
  <2>1. /\ UNCHANGED <<scenario, pc, ex, resend, iters, tx, rx, lastResp, toDev, toCtl, losses, dev>>
        /\ result' = result
    BY <1>14 DEF vars
  <2>2. Calls' = Calls /\ \A c : Sealed(c)' = Sealed(c)
    BY <2>1, SealedFixed
  <2>3. (IdleAt \/ RequestAt \/ ConfirmAt \/ ListenAt)' /\ BeforeReports'
    BY <2>1, PlaceKept
  <2>4. Held' = Held /\ Own' = Own /\ (\A o : Acks(o)' = Acks(o)) /\ Owed' = Owed /\ (Live <=> Live')
    BY <2>1, <2>2 DEF Held, Own, Acks, Owed, Live
  <2>5. FramesInv'
    BY <2>1, <2>2, <2>4 DEF Secured, SecureLoss, FramesInv, Acking
  <2>6. TokenInv' /\ TriesInv'
    BY <2>1, <2>4 DEF Secured, SecureLoss, TokenInv, TriesInv, Dark
  <2>7. ItersInv'
    BY <2>1, <2>4 DEF Secured, SecureLoss, ItersInv
  <2>8. SecureLoss'
    BY <2>3, <2>5, <2>6, <2>7 DEF SecureLoss
  <2> QED BY <1>1, <2>1, <2>8
<1>15. ASSUME NEW f \in toCtl, Reply(f)
       PROVE  /\ \/ result' = result
                 \/ \E v \in {"own", "other"} : result' = [result EXCEPT ![ex] = v]
              /\ SecureLoss'
  BY <1>15, ReplyLoss
<1> QED BY <1>0, <1>1, <1>2, <1>4, <1>5, <1>6, <1>7, <1>8, <1>9, <1>10, <1>11, <1>12, <1>13, <1>14,
           <1>15 DEF Next, Controller

\* Every step keeps the budget.
LEMMA LossInvNext == ShapeInv /\ LossInv /\ [Next]_vars => LossInv'
<1> SUFFICES ASSUME ShapeInv, LossInv, [Next]_vars PROVE LossInv'
  OBVIOUS
<1>1. losses \in Nat /\ losses' \in {losses, losses + 1} /\ scenario' = scenario
  BY LossesCount DEF LossInv
<1>2. losses' \in Nat
  BY <1>1
<1>3. ASSUME Mild'
      PROVE  /\ NumbersInv'
             /\ \A x \in 1..Calls' : result'[x] # "error"
             /\ \/ pc' \in Handshake /\ HandshakeLoss'
                \/ pc' \notin Handshake \cup {"failed"} /\ SecureLoss'
  <2>1. Mild
    BY <1>1, <1>3, MildBefore
  <2>2. NumbersInv /\ (\A x \in 1..Calls : result[x] # "error")
    BY <2>1 DEF LossInv
  <2>3. NumbersInv'
    BY <2>1, <2>2, NumbersKept
  <2>4. Shaking \/ Secured
    BY <2>1, <2>2 DEF LossInv, Shaking, Secured
  <2>5. /\ \/ result' = result
           \/ \E v \in {"own", "other"} : result' = [result EXCEPT ![ex] = v]
        /\ \/ pc' \in Handshake /\ HandshakeLoss'
           \/ pc' \notin Handshake \cup {"failed"} /\ SecureLoss'
    BY <1>3, <2>4, ShakingNext, SecuredNext
  <2>6. Calls' = Calls
    BY <1>1 DEF Calls
  <2>7. DOMAIN result = 1..Calls
    BY DEF ShapeInv
  <2>8. \A x \in 1..Calls : result'[x] # "error"
    BY <2>2, <2>5, <2>7
  <2> QED BY <2>3, <2>5, <2>6, <2>8
<1> QED BY <1>2, <1>3 DEF LossInv, Handshake

\* As few losses as there are retransmissions and messages in a receive loop never
\* fail a handshake, a call or a subscription, and leave no report unanswered.
THEOREM LossesTolerated == Spec => []LossTolerated
<1>1. ShapeInv /\ LossInv => LossTolerated
  <2> SUFFICES ASSUME ShapeInv, LossInv, Mild
               PROVE  /\ pc # "failed" /\ \A x \in 1..Calls : result[x] # "error"
                      /\ (Quiet /\ dev.out = {}) => dev.answered = dev.reported
    BY DEF LossTolerated
  <2>1. pc # "failed" /\ \A x \in 1..Calls : result[x] # "error"
    BY DEF LossInv, Handshake
  <2>2. CASE HandshakeLoss
    BY <2>1, <2>2 DEF HandshakeLoss
  <2>3. CASE SecureLoss
    <3>1. (pc \in {"idle"} \cup Exchange => dev.reported = 0 /\ dev.answered = 0)
          /\ (IdleAt \/ RequestAt \/ ConfirmAt \/ ListenAt)
      BY <2>3 DEF SecureLoss, BeforeReports
    <3>2. IdleAt \/ RequestAt \/ ConfirmAt => pc \in {"idle"} \cup Exchange
      BY DEF IdleAt, RequestAt, ConfirmAt, Exchange
    <3>3. ListenAt /\ dev.out = {} => dev.answered = dev.reported
      BY DEF ListenAt
    <3> QED BY <2>1, <3>1, <3>2, <3>3
  <2> QED BY <2>2, <2>3 DEF LossInv
<1>2. ExchangeInv => ShapeInv
  BY DEF ExchangeInv
<1>3. ExchangeInv /\ LossInv /\ [Next]_vars => LossInv'
  BY <1>2, LossInvNext
<1> QED BY <1>1, <1>2, <1>3, LossInvInit, ExchangeInvInit, ExchangeInvNext, PTL DEF Spec

=============================================================================
