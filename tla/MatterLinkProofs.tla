-------------------------- MODULE MatterLinkProofs --------------------------
(***************************************************************************)
(* Proofs about go-matter's secure session, for every window width,        *)
(* counter range and payload set, and about its commissioning, for every   *)
(* number of calls.                                                        *)
(***************************************************************************)
EXTENDS MCMatterLink, MatterSync, TLAPS

\* The accepted window of a well-typed window is well typed: the highest
\* counter and the recorded distances stay in range (replayWindow.accept).
LEMMA AcceptType ==
  ASSUME NEW w \in ReplayWindow, NEW c \in Counter, Fresh(w, c)
  PROVE  Accept(w, c) \in ReplayWindow
<1> USE WindowAssumption, MaxCounterAssumption
<1>1. CASE ~w.init
  BY <1>1 DEF Accept, ReplayWindow
<1>2. CASE w.init /\ c > w.max
  <2>1. Shifted(w, c - w.max) \in SUBSET Distance
    BY DEF Shifted
  <2>2. QED
    BY <1>2, <2>1 DEF Accept, ReplayWindow
<1>3. CASE w.init /\ ~(c > w.max)
  <2>1. w.max - c \in Distance
    BY <1>3 DEF Fresh, Distance, Counter, ReplayWindow
  <2>2. QED
    BY <1>3, <2>1 DEF Accept, ReplayWindow
<1>4. QED
  BY <1>1, <1>2, <1>3 DEF ReplayWindow

\* Type correctness: in particular the transmit counter never leaves its range.
THEOREM TypeCorrect == Spec => []TypeOK
<1> USE WindowAssumption, MaxCounterAssumption
<1>1. Init => TypeOK
  BY DEF Init, TypeOK, ReplayWindow, Counter, Distance
<1>2. TypeOK /\ [Next]_vars => TypeOK'
  <2> SUFFICES ASSUME TypeOK, [Next]_vars PROVE TypeOK'
    OBVIOUS
  <2>1. ASSUME NEW p \in Payload, Encrypt(p) PROVE TypeOK'
    BY <2>1 DEF Encrypt, TypeOK, Frame, Counter
  <2>2. ASSUME NEW f \in sent, DecryptMsg(f) PROVE TypeOK'
    <3>1. f.counter \in Counter
      BY DEF TypeOK, Frame
    <3>2. CASE Fresh(rx, f.counter)
      <4>1. rx' \in ReplayWindow
        BY <2>2, <3>1, <3>2, AcceptType DEF DecryptMsg, TypeOK
      <4>2. QED
        BY <2>2, <3>1, <3>2, <4>1 DEF DecryptMsg, TypeOK
    <3>3. CASE ~Fresh(rx, f.counter)
      BY <2>2, <3>3 DEF DecryptMsg, TypeOK
    <3>4. QED
      BY <3>2, <3>3
  <2>3. CASE UNCHANGED vars
    BY <2>3 DEF vars, TypeOK
  <2>4. QED
    BY <2>1, <2>2, <2>3 DEF Next
<1>3. QED
  BY <1>1, <1>2, PTL DEF Spec

-----------------------------------------------------------------------------

\* Strengthening of NonceUnique: everything sent is below the transmit counter.
CountersBelowNext == \A f \in sent : f.counter < txCounter

\* Encrypt never reuses a nonce (Spec => []NonceUnique): counters only grow and
\* Encrypt stops before the counter space wraps.
THEOREM NoNonceReuse == Spec => []NonceUnique
<1> USE MaxCounterAssumption
<1> DEFINE IInv == TypeOK /\ CountersBelowNext /\ NonceUnique
<1>1. Init => CountersBelowNext /\ NonceUnique
  BY DEF Init, CountersBelowNext, NonceUnique
<1>2. TypeOK /\ CountersBelowNext /\ NonceUnique /\ [Next]_vars
        => CountersBelowNext' /\ NonceUnique'
  <2> SUFFICES ASSUME TypeOK, CountersBelowNext, NonceUnique, [Next]_vars
               PROVE  CountersBelowNext' /\ NonceUnique'
    OBVIOUS
  <2>1. ASSUME NEW p \in Payload, Encrypt(p)
        PROVE  CountersBelowNext' /\ NonceUnique'
    <3>1. \A f \in sent' : f \in sent \/ f = [counter |-> txCounter, payload |-> p]
      BY <2>1 DEF Encrypt
    <3>2. \A f \in sent : f.counter \in Nat /\ f.counter < txCounter
      BY DEF CountersBelowNext, TypeOK, Frame, Counter
    <3>3. txCounter \in Nat /\ txCounter' = txCounter + 1
      BY <2>1 DEF Encrypt, TypeOK, Counter
    <3>4. CountersBelowNext'
      BY <3>1, <3>2, <3>3 DEF CountersBelowNext
    <3>5. NonceUnique'
      BY <3>1, <3>2, <3>3 DEF NonceUnique
    <3>6. QED
      BY <3>4, <3>5
  <2>2. ASSUME NEW f \in sent, DecryptMsg(f)
        PROVE  CountersBelowNext' /\ NonceUnique'
    BY <2>2 DEF DecryptMsg, CountersBelowNext, NonceUnique
  <2>3. CASE UNCHANGED vars
    BY <2>3 DEF vars, CountersBelowNext, NonceUnique
  <2>4. QED
    BY <2>1, <2>2, <2>3 DEF Next
<1>3. QED
  BY <1>1, <1>2, TypeCorrect, PTL DEF Spec

-----------------------------------------------------------------------------

\* One accepted counter keeps the window faithful: the bits below the far edge
\* say exactly which counters were accepted (replayWindow.accept).
LEMMA AcceptFaithful ==
  ASSUME TypeOK, WindowFaithful, NEW f \in sent, DecryptMsg(f), Fresh(rx, f.counter)
  PROVE  WindowFaithful'
<1> USE WindowAssumption, MaxCounterAssumption
<1> DEFINE c == f.counter
<1>1. /\ c \in Counter /\ rx \in ReplayWindow /\ accepted \in SUBSET Counter
      /\ rx' = Accept(rx, c) /\ accepted' = accepted \cup {c}
  BY DEF TypeOK, Frame, DecryptMsg
<1>2. CASE ~rx.init
  <2>1. rx' = [init |-> TRUE, max |-> c, bitmap |-> {}] /\ accepted' = {c}
    BY <1>1, <1>2 DEF Accept, WindowFaithful
  <2>2. QED
    BY <1>1, <2>1 DEF WindowFaithful, Counter, Distance
<1>3. CASE rx.init /\ c > rx.max
  <2> DEFINE shift == c - rx.max
  <2>1. /\ rx'.init /\ rx'.max = c /\ rx'.bitmap = Shifted(rx, shift)
        /\ rx.max \in Nat /\ c \in Nat /\ shift \in Nat \ {0} /\ rx.max = c - shift
    BY <1>1, <1>3 DEF Accept, ReplayWindow, Counter
  <2>2. \A a \in accepted : a \in Nat /\ a <= rx.max
    BY <1>1 DEF WindowFaithful, Counter
  <2>3. ASSUME NEW d \in Distance, d < Window, d <= c
        PROVE  d \in Shifted(rx, shift) <=> c - d \in accepted'
    <3>1. d \in Nat \ {0} /\ c - d \in Nat /\ c - d # c
      BY <2>1, <2>3 DEF Distance
    <3>2. c - d \in accepted' <=> c - d \in accepted
      BY <1>1, <3>1
    <3>3. CASE d < shift
      <4>1. c - d > rx.max
        BY <2>1, <3>1, <3>3
      <4>2. c - d \notin accepted
        BY <2>1, <2>2, <3>1, <4>1
      <4>3. d \notin Shifted(rx, shift)
        BY <2>1, <3>1, <3>3 DEF Shifted, Distance
      <4>4. QED
        BY <3>2, <4>2, <4>3
    <3>4. CASE d = shift
      <4>1. c - d = rx.max
        BY <2>1, <3>4
      <4>2. rx.max \in accepted
        BY <1>3 DEF WindowFaithful
      <4>3. d \in Shifted(rx, shift)
        BY <2>1, <2>3, <3>4 DEF Shifted, Distance
      <4>4. QED
        BY <3>2, <4>1, <4>2, <4>3
    <3>5. CASE d > shift
      <4> DEFINE e == d - shift
      <4>1. /\ e \in Distance /\ e < Window /\ e <= rx.max /\ rx.max - e = c - d
        BY <2>1, <2>3, <3>1, <3>5 DEF Distance
      <4>2. e \in rx.bitmap <=> rx.max - e \in accepted
        BY <1>3, <4>1 DEF WindowFaithful
      <4>3. shift < Window
        BY <2>1, <2>3, <3>1, <3>5
      <4>4. d \in Shifted(rx, shift) <=> e \in rx.bitmap
        BY <2>1, <3>1, <3>5, <4>3 DEF Shifted
      <4>5. QED
        BY <3>2, <4>1, <4>2, <4>4
    <3>6. QED
      BY <2>1, <3>1, <3>3, <3>4, <3>5
  <2>4. \A a \in accepted' : a <= c
    BY <1>1, <2>1, <2>2
  <2>5. QED
    BY <1>1, <2>1, <2>3, <2>4 DEF WindowFaithful
<1>4. CASE rx.init /\ ~(c > rx.max)
  <2> DEFINE e == rx.max - c
  <2>1. /\ rx'.init /\ rx'.max = rx.max /\ rx'.bitmap = rx.bitmap \cup {e}
        /\ rx.max \in Nat /\ c \in Nat /\ c < rx.max /\ e \in Nat
    BY <1>1, <1>4 DEF Accept, Fresh, ReplayWindow, Counter
  <2>2. ASSUME NEW d \in Distance, d < Window, d <= rx.max
        PROVE  d \in rx'.bitmap <=> rx.max - d \in accepted'
    <3>1. d = e <=> rx.max - d = c
      BY <2>1, <2>2 DEF Distance
    <3>2. d \in rx.bitmap <=> rx.max - d \in accepted
      BY <1>4, <2>2 DEF WindowFaithful
    <3>3. QED
      BY <1>1, <2>1, <3>1, <3>2
  <2>3. rx'.max \in accepted'
    BY <1>1, <1>4, <2>1 DEF WindowFaithful
  <2>4. \A a \in accepted' : a <= rx'.max
    BY <1>1, <2>1 DEF WindowFaithful
  <2>5. QED
    BY <2>1, <2>2, <2>3, <2>4 DEF WindowFaithful
<1>5. QED
  BY <1>2, <1>3, <1>4 DEF ReplayWindow, TypeOK

\* The replay window is exact below its far edge, for every window width.
THEOREM ReplayWindowFaithful == Spec => []WindowFaithful
<1>1. Init => WindowFaithful
  BY DEF Init, WindowFaithful
<1>2. TypeOK /\ WindowFaithful /\ [Next]_vars => WindowFaithful'
  <2> SUFFICES ASSUME TypeOK, WindowFaithful, [Next]_vars PROVE WindowFaithful'
    OBVIOUS
  <2>1. ASSUME NEW p \in Payload, Encrypt(p) PROVE WindowFaithful'
    BY <2>1 DEF Encrypt, WindowFaithful
  <2>2. ASSUME NEW f \in sent, DecryptMsg(f) PROVE WindowFaithful'
    <3>1. CASE Fresh(rx, f.counter)
      BY <2>2, <3>1, AcceptFaithful
    <3>2. CASE ~Fresh(rx, f.counter)
      BY <2>2, <3>2 DEF DecryptMsg, WindowFaithful
    <3>3. QED
      BY <3>1, <3>2
  <2>3. CASE UNCHANGED vars
    BY <2>3 DEF vars, WindowFaithful
  <2>4. QED
    BY <2>1, <2>2, <2>3 DEF Next
<1>3. QED
  BY <1>1, <1>2, TypeCorrect, PTL DEF Spec

\* A duplicate can only be accepted exactly Window counters below the highest
\* accepted one; everywhere else accept rejects it.
THEOREM DuplicatesOnlyAtEdge == Spec => []DuplicateOnlyAtEdge
<1> USE WindowAssumption, MaxCounterAssumption
<1>1. TypeOK /\ WindowFaithful => DuplicateOnlyAtEdge
  <2> SUFFICES ASSUME TypeOK, WindowFaithful,
                      NEW c \in accepted, Fresh(rx, c), rx.max - c # Window
               PROVE  FALSE
    BY DEF DuplicateOnlyAtEdge
  <2>1. rx.init /\ c <= rx.max /\ c \in Nat /\ rx.max \in Nat
    BY DEF WindowFaithful, TypeOK, ReplayWindow, Counter
  <2> DEFINE d == rx.max - c
  <2>2. d \in Distance /\ d < Window /\ d <= rx.max /\ d \notin rx.bitmap
        /\ rx.max - d = c
    BY <2>1 DEF Fresh, Distance
  <2>3. QED
    BY <2>1, <2>2 DEF WindowFaithful
<1>2. QED
  BY <1>1, TypeCorrect, ReplayWindowFaithful, PTL

-----------------------------------------------------------------------------
(***************************************************************************)
(* Commissioning: a call that returns without an error has left the device *)
(* on the fabric for good, for any number of calls.                        *)
(***************************************************************************)

\* The steps of Commission, numbered.
No == [param |-> 1, pake1 |-> 2, pake3 |-> 3, arm |-> 4, csr |-> 5, root |-> 6,
       noc |-> 7, case |-> 8, complete |-> 9]
Steps == {"param", "pake1", "pake3", "arm", "csr", "root", "noc", "case", "complete"}
At(n) == step \in Steps /\ No[step] = n
Beyond(n) == step \in Steps /\ No[step] > n

\* The device is in the session that call a has opened.
Serving(a) == stage = "open" /\ peer = a

\* What the device has, as long as it is in that session, once call a is past
\* step n.
Has(a, n) ==
  Serving(a) => (n >= 4 => armed) /\ (n >= 5 => csrKey = a) /\ (n >= 7 => installed = a)

\* No message is ahead of its call, and a certificate is for the key of its call.
MessageInv ==
  /\ attempt \in Nat /\ step \in Steps \cup {"idle", "failed", "done"}
  /\ peer \in 0..attempt
  /\ step \in Steps => noc = IF No[step] <= 5 THEN 0 ELSE attempt
  /\ \A q \in requests :
       /\ q = [step |-> q.step, attempt |-> q.attempt, noc |-> q.noc]
       /\ q.step \in Steps /\ q.attempt \in 1..attempt
       /\ q.noc = IF No[q.step] <= 5 THEN 0 ELSE q.attempt
       /\ (q.attempt = attempt /\ step \in Steps) => No[q.step] <= No[step]
  /\ \A r \in replies :
       /\ r.step \in Steps /\ r.attempt \in 1..attempt
       /\ (r.attempt = attempt /\ step \in Steps) => No[r.step] <= No[step]
       /\ (r.ok /\ r.step = "csr") => r.key = r.attempt

\* The device enters the session of a call once, with its only Pake3, before
\* anything of the session can have happened.
OnceInv ==
  /\ (Serving(attempt) /\ step \in Steps) => No[step] >= 3
  /\ \A q \in requests : q.step = "pake3" =>
       /\ ~Serving(q.attempt)
       /\ attempt = q.attempt => ~Beyond(4)
       /\ \A s \in requests : s.attempt = q.attempt => No[s.step] <= 4
       /\ \A r \in replies : (r.attempt = q.attempt /\ r.ok) => No[r.step] < 4

\* A call goes on only from what the device has done.
ProgressInv ==
  /\ step \in Steps => Has(attempt, No[step] - 1)
  /\ \A q \in requests : Has(q.attempt, No[q.step] - 1)
  /\ \A r \in replies : r.ok => Has(r.attempt, No[r.step])

\* A device on the fabric stays as it is.
MemberInv ==
  /\ member # 0 => stage = "none" /\ ~armed /\ csrKey = member
  /\ \A r \in replies : (r.ok /\ r.step = "complete") => member = r.attempt
  /\ Beyond(2) => passcode
  /\ step = "done" => member # 0
  /\ CommissionedKept

CommInv == MessageInv /\ OnceInv /\ ProgressInv /\ MemberInv

LEMMA Numbers ==
  /\ \A s \in Steps : No[s] \in 1..9
  /\ No["param"] = 1 /\ No["pake1"] = 2 /\ No["pake3"] = 3 /\ No["arm"] = 4 /\ No["csr"] = 5
  /\ No["root"] = 6 /\ No["noc"] = 7 /\ No["case"] = 8 /\ No["complete"] = 9
BY DEF No, Steps

\* Order lists the steps by their numbers.
LEMMA Ordered ==
  /\ \A i \in 1..Len(Comm!Order) : Comm!Order[i] \in Steps /\ No[Comm!Order[i]] = i
  /\ \A s \in Steps : \E i \in 1..Len(Comm!Order) : Comm!Order[i] = s
  /\ Len(Comm!Order) = 9
<1>1. Len(Comm!Order) = 9
  BY DEF Comm!Order
<1>2. /\ Comm!Order[1] = "param" /\ Comm!Order[2] = "pake1" /\ Comm!Order[3] = "pake3"
      /\ Comm!Order[4] = "arm" /\ Comm!Order[5] = "csr" /\ Comm!Order[6] = "root"
      /\ Comm!Order[7] = "noc" /\ Comm!Order[8] = "case" /\ Comm!Order[9] = "complete"
  BY DEF Comm!Order
<1>3. ASSUME NEW i \in 1..9 PROVE Comm!Order[i] \in Steps /\ No[Comm!Order[i]] = i
  <2>1. i = 1 \/ i = 2 \/ i = 3 \/ i = 4 \/ i = 5 \/ i = 6 \/ i = 7 \/ i = 8 \/ i = 9
    BY <1>3
  <2> QED BY <2>1, <1>2, Numbers DEF Steps
<1>4. ASSUME NEW s \in Steps PROVE \E i \in 1..9 : Comm!Order[i] = s
  BY <1>2 DEF Steps
<1> QED BY <1>1, <1>3, <1>4

\* The step after s.
LEMMA NextStep ==
  ASSUME NEW s \in Steps, s # "complete"
  PROVE  Comm!Order[Comm!StepNo(s) + 1] \in Steps /\ No[Comm!Order[Comm!StepNo(s) + 1]] = No[s] + 1
<1>1. Comm!StepNo(s) \in 1..Len(Comm!Order) /\ Comm!Order[Comm!StepNo(s)] = s
  BY Ordered DEF Comm!StepNo
<1>2. Comm!StepNo(s) = No[s]
  BY <1>1, Ordered
<1>3. No[s] \in 1..9
  BY Numbers
<1>4. No[s] # 9
  BY Numbers DEF Steps
<1> QED BY <1>2, <1>3, <1>4, Ordered

LEMMA WaitingSteps == Comm!Waiting <=> step \in Steps
BY Ordered DEF Comm!Waiting

-----------------------------------------------------------------------------

\* The call ends without success.
LEMMA CallFails ==
  ASSUME CommInv, step' = "failed", requests' \subseteq requests, replies' \subseteq replies,
         UNCHANGED <<attempt, peer, stage, armed, csrKey, root, installed, member>>
  PROVE  CommInv'
<1>1. step' \notin Steps /\ step' # "done"
  BY DEF Steps
<1>2. MessageInv'
  BY <1>1 DEF CommInv, MessageInv
<1>3. OnceInv'
  BY <1>1 DEF CommInv, OnceInv, Serving, Beyond
<1>4. ProgressInv'
  BY <1>1 DEF CommInv, ProgressInv, Serving, Has
<1>5. MemberInv'
  BY <1>1 DEF CommInv, MemberInv, Beyond, CommissionedKept, Comm!CommissionedKept
<1> QED BY <1>2, <1>3, <1>4, <1>5 DEF CommInv

LEMMA CommissionInv == ASSUME CommInv, Comm!Commission PROVE CommInv'
<1>1. /\ attempt' = attempt + 1 /\ noc' = 0 /\ attempt \in Nat /\ step \notin Steps
      /\ UNCHANGED <<replies, peer, stage, armed, csrKey, root, installed, member>>
  BY DEF Comm!Commission, Comm!device, Comm!credentials, CommInv, MessageInv, Steps
<1>m. \A q \in requests : q.attempt # attempt + 1 /\ q.attempt \in 1..attempt
  BY <1>1 DEF CommInv, MessageInv
<1>r. \A r \in replies : r.attempt # attempt + 1 /\ r.attempt \in 1..attempt
  BY <1>1 DEF CommInv, MessageInv
<1>p. peer # attempt + 1 /\ peer \in 0..attempt
  BY <1>1 DEF CommInv, MessageInv
<1>2. CASE step' = "failed" /\ requests' = requests
  <2>1. step' \notin Steps /\ step' # "done"
    BY <1>2 DEF Steps
  <2>2. MessageInv'
    BY <1>1, <1>2, <1>p, <2>1 DEF CommInv, MessageInv
  <2>3. OnceInv'
    BY <1>1, <1>2, <2>1 DEF CommInv, OnceInv, Serving, Beyond
  <2>4. ProgressInv'
    BY <1>1, <1>2, <2>1 DEF CommInv, ProgressInv, Serving, Has
  <2>5. MemberInv'
    BY <1>1, <2>1 DEF CommInv, MemberInv, Beyond, CommissionedKept, Comm!CommissionedKept
  <2> QED BY <2>2, <2>3, <2>4, <2>5 DEF CommInv
<1>3. CASE step' = "param" /\ Comm!Send("param", attempt + 1)
  <2>1. PICK n : n = [step |-> "param", attempt |-> attempt + 1, noc |-> 0]
    OBVIOUS
  <2>2. n.step = "param" /\ n.attempt = attempt + 1 /\ n.noc = 0 /\ requests' = requests \cup {n}
        /\ n = [step |-> n.step, attempt |-> n.attempt, noc |-> n.noc]
    BY <1>1, <1>3, <2>1 DEF Comm!Send
  <2>3. step' \in Steps /\ "param" \in Steps /\ No[step'] = 1 /\ No["param"] = 1 /\ step' # "done"
    BY <1>3, Numbers DEF Steps
  <2>4. MessageInv'
    <3>1. ASSUME NEW q \in requests'
          PROVE  /\ q = [step |-> q.step, attempt |-> q.attempt, noc |-> q.noc]
                 /\ q.step \in Steps /\ q.attempt \in 1..attempt'
                 /\ q.noc = IF No[q.step] <= 5 THEN 0 ELSE q.attempt
                 /\ (q.attempt = attempt' /\ step' \in Steps) => No[q.step] <= No[step']
      <4>1. CASE q = n
        BY <1>1, <2>2, <2>3, <4>1
      <4>2. CASE q \in requests
        BY <1>1, <1>m, <4>2 DEF CommInv, MessageInv
      <4> QED BY <2>2, <4>1, <4>2
    <3>2. ASSUME NEW r \in replies'
          PROVE  /\ r.step \in Steps /\ r.attempt \in 1..attempt'
                 /\ (r.attempt = attempt' /\ step' \in Steps) => No[r.step] <= No[step']
                 /\ (r.ok /\ r.step = "csr") => r.key = r.attempt
      BY <1>1, <1>r DEF CommInv, MessageInv
    <3>3. attempt' \in Nat /\ peer' \in 0..attempt' /\ noc' = IF No[step'] <= 5 THEN 0 ELSE attempt'
      BY <1>1, <1>p, <2>3
    <3> QED BY <2>3, <3>1, <3>2, <3>3 DEF MessageInv
  <2>5. OnceInv'
    <3>1. ~Serving(attempt)'
      BY <1>1, <1>p DEF Serving
    <3>2. ASSUME NEW q \in requests', q.step = "pake3"
          PROVE  /\ ~Serving(q.attempt)'
                 /\ attempt' = q.attempt => ~Beyond(4)'
                 /\ \A s \in requests' : s.attempt = q.attempt => No[s.step] <= 4
                 /\ \A r \in replies' : (r.attempt = q.attempt /\ r.ok) => No[r.step] < 4
      BY <1>1, <1>m, <2>2, <2>3, <3>2 DEF CommInv, OnceInv, Serving, Beyond
    <3> QED BY <3>1, <3>2 DEF OnceInv, Serving
  <2>6. ProgressInv'
    BY <1>1, <1>m, <1>p, <2>2, <2>3 DEF CommInv, ProgressInv, Has, Serving
  <2>7. MemberInv'
    BY <1>1, <2>3 DEF CommInv, MemberInv, Beyond, CommissionedKept, Comm!CommissionedKept
  <2> QED BY <2>4, <2>5, <2>6, <2>7 DEF CommInv
<1> QED BY <1>2, <1>3 DEF Comm!Commission

\* An answer is accepted, and the next request goes out.
LEMMA AdvanceInv ==
  ASSUME CommInv, NEW r \in replies, Comm!Receive(r), Comm!Accepts(r), step # "complete", step \in Steps
  PROVE  CommInv'
<1> DEFINE k == No[step]
<1>1. /\ UNCHANGED <<rootKey, attempt, passcode, peer, stage, armed, csrKey, root, installed, member>>
      /\ replies' \subseteq replies
      /\ r.attempt = attempt \/ r.step \in Comm!Handshake
      /\ noc' = Comm!IssueNOC(r) /\ step' = Comm!Order[Comm!StepNo(step) + 1]
      /\ Comm!Send(step', attempt)
  BY DEF Comm!Receive, Comm!device, Comm!credentials
<1>2. step' \in Steps /\ No[step'] = k + 1 /\ k \in 1..9 /\ step' # "done" /\ attempt \in Nat
  BY <1>1, NextStep, Numbers DEF Steps, CommInv, MessageInv
<1>3. r.step = step /\ (r.ok \/ step = "root") /\ (step = "pake1" => passcode)
  BY DEF Comm!Accepts, Comm!VerifyCB
<1>n. (k = 5 <=> step = "csr") /\ (k = 6 <=> step = "root")
  BY Numbers DEF Steps
<1>h. k >= 4 => r.attempt = attempt
  BY <1>1, <1>3, Numbers DEF Comm!Handshake
<1>4. noc' = IF k + 1 <= 5 THEN 0 ELSE attempt
  <2>1. CASE step = "csr"
    <3>1. r.key = attempt /\ k = 5
      BY <1>3, <1>n, <1>h, <2>1 DEF CommInv, MessageInv
    <3> QED BY <1>1, <2>1, <3>1 DEF Comm!IssueNOC
  <2>2. CASE step # "csr"
    <3>1. noc' = noc /\ k # 5
      BY <1>1, <1>n, <2>2 DEF Comm!IssueNOC
    <3> QED BY <1>2, <3>1 DEF CommInv, MessageInv
  <2> QED BY <2>1, <2>2
<1>5. PICK n : n = [step |-> step', attempt |-> attempt, noc |-> noc']
  OBVIOUS
<1>6. n.step = step' /\ n.attempt = attempt /\ n.noc = noc' /\ requests' = requests \cup {n}
      /\ n = [step |-> n.step, attempt |-> n.attempt, noc |-> n.noc]
  BY <1>1, <1>5 DEF Comm!Send
<1>a. attempt \in 1..attempt
  BY <1>2, <1>h, <1>3 DEF CommInv, MessageInv
<1>7. MessageInv'
  <2>1. ASSUME NEW q \in requests'
        PROVE  /\ q = [step |-> q.step, attempt |-> q.attempt, noc |-> q.noc]
               /\ q.step \in Steps /\ q.attempt \in 1..attempt'
               /\ q.noc = IF No[q.step] <= 5 THEN 0 ELSE q.attempt
               /\ (q.attempt = attempt' /\ step' \in Steps) => No[q.step] <= No[step']
    <3>1. CASE q = n
      BY <1>1, <1>2, <1>4, <1>6, <1>a, <3>1
    <3>2. CASE q \in requests
      <4>1. No[q.step] \in 1..9
        BY <3>2, Numbers DEF CommInv, MessageInv
      <4> QED BY <1>1, <1>2, <3>2, <4>1 DEF CommInv, MessageInv
    <3> QED BY <1>6, <3>1, <3>2
  <2>2. ASSUME NEW s \in replies'
        PROVE  /\ s.step \in Steps /\ s.attempt \in 1..attempt'
               /\ (s.attempt = attempt' /\ step' \in Steps) => No[s.step] <= No[step']
               /\ (s.ok /\ s.step = "csr") => s.key = s.attempt
    <3>1. s \in replies /\ No[s.step] \in 1..9
      BY <1>1, Numbers DEF CommInv, MessageInv
    <3> QED BY <1>1, <1>2, <3>1 DEF CommInv, MessageInv
  <2> QED BY <1>1, <1>2, <1>4, <2>1, <2>2 DEF CommInv, MessageInv
<1>8. OnceInv'
  <2>1. (Serving(attempt)' /\ step' \in Steps) => No[step'] >= 3
    BY <1>1, <1>2 DEF CommInv, OnceInv, Serving
  <2>2. ASSUME NEW q \in requests', q.step = "pake3"
        PROVE  /\ ~Serving(q.attempt)'
               /\ attempt' = q.attempt => ~Beyond(4)'
               /\ \A s \in requests' : s.attempt = q.attempt => No[s.step] <= 4
               /\ \A s \in replies' : (s.attempt = q.attempt /\ s.ok) => No[s.step] < 4
    <3>1. CASE q = n
      <4>1. k = 2 /\ q.attempt = attempt
        BY <1>2, <1>6, <2>2, <3>1, Numbers
      <4>2. ~Serving(attempt)
        BY <4>1 DEF CommInv, OnceInv
      <4>3. \A s \in requests : s.attempt = attempt => No[s.step] <= 2 /\ No[s.step] \in 1..9
        BY <4>1, Numbers DEF CommInv, MessageInv
      <4>4. \A s \in replies : s.attempt = attempt => No[s.step] <= 2 /\ No[s.step] \in 1..9
        BY <4>1, Numbers DEF CommInv, MessageInv
      <4> QED BY <1>1, <1>2, <1>6, <4>1, <4>2, <4>3, <4>4 DEF Serving, Beyond
    <3>2. CASE q \in requests
      <4>1. /\ ~Serving(q.attempt)
            /\ attempt = q.attempt => ~Beyond(4)
            /\ \A s \in requests : s.attempt = q.attempt => No[s.step] <= 4
            /\ \A s \in replies : (s.attempt = q.attempt /\ s.ok) => No[s.step] < 4
        BY <2>2, <3>2 DEF CommInv, OnceInv
      <4>2. attempt = q.attempt => k < 4
        BY <1>2, <1>3, <1>h, <1>n, <4>1 DEF Beyond
      <4> QED BY <1>1, <1>2, <1>6, <4>1, <4>2 DEF Serving, Beyond
    <3> QED BY <1>6, <3>1, <3>2
  <2> QED BY <2>1, <2>2 DEF OnceInv
<1>9. ProgressInv'
  <2>1. Has(attempt, k)
    <3>1. CASE k >= 4 /\ r.ok
      BY <1>3, <1>h, <3>1 DEF CommInv, ProgressInv
    <3>3. CASE step = "root"
      <4>1. k = 6 /\ Has(attempt, 5)
        BY <1>n, <3>3 DEF CommInv, ProgressInv
      <4> QED BY <4>1 DEF Has
    <3>2. CASE k < 4
      BY <1>2, <3>2 DEF Has
    <3> QED BY <1>2, <1>3, <3>1, <3>2, <3>3
  <2>2. \A a, m : Has(a, m)' <=> Has(a, m)
    BY <1>1 DEF Has, Serving
  <2>3. Has(attempt, No[step] - 1)'
    BY <1>1, <1>2, <2>1 DEF Has, Serving
  <2>4. ASSUME NEW q \in requests' PROVE Has(q.attempt, No[q.step] - 1)'
    <3>1. CASE q = n
      <4>1. q.attempt = attempt /\ No[q.step] - 1 = k
        BY <1>2, <1>6, <3>1
      <4> QED BY <2>1, <2>2, <4>1
    <3>2. CASE q \in requests
      BY <2>2, <3>2 DEF CommInv, ProgressInv
    <3> QED BY <1>6, <3>1, <3>2
  <2>5. ASSUME NEW s \in replies', s.ok PROVE Has(s.attempt, No[s.step])'
    BY <1>1, <2>2, <2>5 DEF CommInv, ProgressInv
  <2> QED BY <2>3, <2>4, <2>5 DEF ProgressInv
<1>10. MemberInv'
  <2>1. Beyond(2)' => passcode'
    <3>1. k = 2 => step = "pake1"
      BY Numbers DEF Steps
    <3> QED BY <1>1, <1>2, <1>3, <3>1 DEF CommInv, MemberInv, Beyond
  <2> QED BY <1>1, <1>2, <2>1 DEF CommInv, MemberInv, CommissionedKept, Comm!CommissionedKept
<1> QED BY <1>7, <1>8, <1>9, <1>10 DEF CommInv

\* CompleteCommissioning returns without an error.
LEMMA FinishInv ==
  ASSUME CommInv, NEW r \in replies, Comm!Receive(r), Comm!Accepts(r), step = "complete"
  PROVE  CommInv'
<1>1. /\ UNCHANGED <<rootKey, attempt, passcode, noc, requests>>
      /\ UNCHANGED <<peer, stage, armed, csrKey, root, installed, member>>
      /\ replies' \subseteq replies /\ step' = "done"
      /\ r.attempt = attempt \/ step \in Comm!Handshake
  BY DEF Comm!Receive, Comm!device, Comm!credentials
<1>2. r.step = "complete" /\ r.ok /\ r.attempt = attempt
  BY <1>1 DEF Comm!Accepts, Comm!Handshake
<1>3. step' \notin Steps /\ step \in Steps /\ No[step] = 9
  BY <1>1, Numbers DEF Steps
<1>4. noc = attempt /\ passcode /\ member = attempt /\ attempt # 0
  BY <1>2, <1>3 DEF CommInv, MessageInv, MemberInv, Beyond
<1>5. MessageInv' /\ OnceInv' /\ ProgressInv'
  BY <1>1, <1>3 DEF CommInv, MessageInv, OnceInv, ProgressInv, Has, Serving, Beyond
<1>6. MemberInv'
  BY <1>1, <1>3, <1>4 DEF CommInv, MemberInv, Beyond, CommissionedKept, Comm!CommissionedKept
<1> QED BY <1>5, <1>6 DEF CommInv

-----------------------------------------------------------------------------
(***************************************************************************)
(* Steps of the device: it takes the request q and answers with r.         *)
(***************************************************************************)

Answers(q, r) ==
  /\ UNCHANGED <<rootKey, step, attempt, passcode, context, noc>>
  /\ requests' = requests \ {q} /\ replies' = replies \cup {r}
  /\ r.step = q.step /\ r.attempt = q.attempt
  /\ (r.ok /\ r.step = "csr") => r.key = r.attempt

LEMMA AnswerMessages ==
  ASSUME CommInv, NEW q \in requests, NEW r, Answers(q, r), peer' \in 0..attempt
  PROVE  MessageInv'
<1>1. UNCHANGED <<step, attempt, noc>> /\ requests' \subseteq requests
  BY DEF Answers
<1>2. ASSUME NEW s \in replies'
      PROVE  /\ s.step \in Steps /\ s.attempt \in 1..attempt'
             /\ (s.attempt = attempt' /\ step' \in Steps) => No[s.step] <= No[step']
             /\ (s.ok /\ s.step = "csr") => s.key = s.attempt
  <2>1. CASE s = r
    BY <1>1, <2>1 DEF Answers, CommInv, MessageInv
  <2>2. CASE s \in replies
    BY <1>1, <2>2 DEF CommInv, MessageInv
  <2> QED BY <2>1, <2>2 DEF Answers
<1> QED BY <1>1, <1>2 DEF CommInv, MessageInv

\* A step in which the device opens no session and drops nothing of the one it
\* is in: it is enough to look at the new answer.
LEMMA AnswerInv ==
  ASSUME CommInv, NEW q \in requests, NEW r, Answers(q, r), peer' \in 0..attempt,
         \A a : Serving(a)' => /\ Serving(a) /\ (armed => armed')
                               /\ csrKey' \in {csrKey, a} /\ installed' \in {installed, a},
         r.ok => Has(q.attempt, No[q.step])',
         (r.ok /\ No[q.step] >= 4) => Serving(q.attempt),
         MemberInv'
  PROVE  CommInv'
<1>1. UNCHANGED <<step, attempt>> /\ requests' \subseteq requests /\ replies' = replies \cup {r}
      /\ r.step = q.step /\ r.attempt = q.attempt
  BY DEF Answers
<1>2. MessageInv'
  BY AnswerMessages
<1>3. \A a, m : Has(a, m) => Has(a, m)'
  BY DEF Has
<1>4. ProgressInv'
  <2>1. step' \in Steps => Has(attempt, No[step] - 1)'
    <3>1. step \in Steps => Has(attempt, No[step] - 1)
      BY DEF CommInv, ProgressInv
    <3>2. PICK a, m : a = attempt /\ m = No[step] - 1
      OBVIOUS
    <3>3. step \in Steps => Has(a, m)'
      BY <1>3, <3>1, <3>2
    <3> QED BY <1>1, <3>2, <3>3 DEF Has, Serving
  <2>2. ASSUME NEW s \in requests' PROVE Has(s.attempt, No[s.step] - 1)'
    BY <1>1, <1>3 DEF CommInv, ProgressInv
  <2>3. ASSUME NEW s \in replies', s.ok PROVE Has(s.attempt, No[s.step])'
    <3>1. CASE s = r
      <4>1. s.attempt = q.attempt /\ s.step = q.step
        BY <1>1, <3>1
      <4> QED BY <2>3, <3>1, <4>1
    <3>2. CASE s \in replies
      BY <1>3, <2>3, <3>2 DEF CommInv, ProgressInv
    <3> QED BY <1>1, <3>1, <3>2
  <2> QED BY <2>1, <2>2, <2>3 DEF ProgressInv
<1>5. OnceInv'
  <2>1. (Serving(attempt)' /\ step' \in Steps) => No[step'] >= 3
    <3>1. PICK a : a = attempt
      OBVIOUS
    <3>2. Serving(attempt)' => Serving(a)'
      BY <1>1, <3>1 DEF Serving
    <3> QED BY <1>1, <3>1, <3>2 DEF CommInv, OnceInv
  <2>2. ASSUME NEW p \in requests', p.step = "pake3"
        PROVE  /\ ~Serving(p.attempt)'
               /\ attempt' = p.attempt => ~Beyond(4)'
               /\ \A s \in requests' : s.attempt = p.attempt => No[s.step] <= 4
               /\ \A s \in replies' : (s.attempt = p.attempt /\ s.ok) => No[s.step] < 4
    <3>1. /\ p \in requests /\ ~Serving(p.attempt)
          /\ attempt = p.attempt => ~Beyond(4)
          /\ \A s \in requests : s.attempt = p.attempt => No[s.step] <= 4
          /\ \A s \in replies : (s.attempt = p.attempt /\ s.ok) => No[s.step] < 4
      BY <1>1, <2>2 DEF CommInv, OnceInv
    <3>2. No[q.step] \in 1..9
      BY Numbers DEF CommInv, MessageInv
    <3>3. (r.attempt = p.attempt /\ r.ok) => No[r.step] < 4
      BY <1>1, <3>1, <3>2
    <3> QED BY <1>1, <3>1, <3>3 DEF Beyond
  <2> QED BY <2>1, <2>2 DEF OnceInv
<1> QED BY <1>2, <1>4, <1>5 DEF CommInv

\* Nothing about the member changes unless commissioning completes.
LEMMA MemberKept ==
  ASSUME CommInv, NEW q \in requests, NEW r, Answers(q, r), member' = member,
         member = 0 \/ UNCHANGED <<stage, armed, csrKey>>,
         ~(r.ok /\ r.step = "complete")
  PROVE  MemberInv'
<1>1. UNCHANGED <<step, attempt, passcode, noc>> /\ replies' = replies \cup {r}
  BY DEF Answers
<1>2. step = "done" => UNCHANGED <<stage, armed, csrKey>>
  BY DEF CommInv, MemberInv
<1> QED BY <1>1, <1>2 DEF CommInv, MemberInv, Beyond, CommissionedKept, Comm!CommissionedKept

LEMMA ReplySent ==
  ASSUME NEW q, NEW body, NEW ok, NEW k, Comm!Reply(q, body, ok, k),
         (ok /\ q.step = "csr") => k = q.attempt,
         requests' = requests \ {q}, UNCHANGED Comm!control
  PROVE  \E r : Answers(q, r) /\ (r.ok <=> ok)
<1>1. PICK r : r = [step |-> q.step, attempt |-> q.attempt, body |-> body, ok |-> ok,
                    nonce |-> q.attempt, key |-> k]
  OBVIOUS
<1>2. r.step = q.step /\ r.attempt = q.attempt /\ r.key = k
  BY <1>1
<1>3. r.ok = ok
  BY <1>1, Zenon
<1>4. replies' = replies \cup {r}
  BY <1>1 DEF Comm!Reply
<1>5. UNCHANGED <<rootKey, step, attempt, passcode, context, noc>>
  BY DEF Comm!control
<1>6. (r.ok /\ r.step = "csr") => r.key = r.attempt
  BY <1>2, <1>3
<1> QED BY <1>2, <1>3, <1>4, <1>5, <1>6 DEF Answers

\* pase.Responder, up to the Pake3 that opens the session.
LEMMA PaseInv ==
  ASSUME CommInv, NEW q \in requests, requests' = requests \ {q}, UNCHANGED Comm!control,
         Comm!HandleParamRequest(q) \/ Comm!HandlePake1(q) \/ (Comm!HandlePake3(q) /\ q.attempt # peer)
  PROVE  CommInv'
<1>1. \E ok \in BOOLEAN : Comm!Reply(q, "response", ok, 0) /\ q.step \in {"param", "pake1", "pake3"}
  BY DEF Comm!HandleParamRequest, Comm!HandlePake1, Comm!HandlePake3
<1>2. PICK r : Answers(q, r)
  BY <1>1, ReplySent
<1>3. stage' # "open" /\ UNCHANGED <<armed, csrKey, root, installed, member>> /\ peer' \in {peer, q.attempt}
      /\ member = 0
  BY DEF Comm!HandleParamRequest, Comm!HandlePake1, Comm!HandlePake3, Comm!credentials, CommInv, MemberInv
<1>4. \A a : ~Serving(a)'
  BY <1>3 DEF Serving
<1>5. No[q.step] < 4 /\ q.step # "complete"
  BY <1>1, Numbers
<1>6. peer' \in 0..attempt
  BY <1>3 DEF CommInv, MessageInv
<1>7. r.step = q.step
  BY <1>2 DEF Answers
<1>8. MemberInv'
  BY <1>2, <1>3, <1>5, <1>7, MemberKept
<1>9. Has(q.attempt, No[q.step])'
  BY <1>4 DEF Has
<1>10. No[q.step] \in 1..9
  BY Numbers DEF CommInv, MessageInv
<1> QED BY <1>2, <1>4, <1>5, <1>6, <1>8, <1>9, <1>10, AnswerInv

\* The session opens: nothing of it can be in flight.
LEMMA OpenInv ==
  ASSUME CommInv, NEW q \in requests, requests' = requests \ {q}, UNCHANGED Comm!control,
         Comm!HandlePake3(q), q.attempt = peer
  PROVE  CommInv'
<1>1. Comm!Reply(q, "response", q.attempt = peer, 0) /\ q.step = "pake3" /\ stage = "keys" /\ stage' = "open"
      /\ UNCHANGED <<peer, armed, csrKey, root, installed, member>>
  BY DEF Comm!HandlePake3, Comm!credentials
<1>2. PICK r : Answers(q, r)
  BY <1>1, ReplySent
<1>3. /\ UNCHANGED <<step, attempt>> /\ requests' \subseteq requests /\ replies' = replies \cup {r}
      /\ r.step = "pake3" /\ r.attempt = q.attempt /\ No["pake3"] = 3
  BY <1>1, <1>2, Numbers DEF Answers
<1>4. MessageInv'
  BY <1>1, <1>2, AnswerMessages DEF CommInv, MessageInv
<1>5. member = 0
  BY <1>1 DEF CommInv, MemberInv
<1>6. MemberInv'
  BY <1>1, <1>2, <1>3, <1>5, MemberKept
<1>7. /\ attempt = q.attempt => ~Beyond(4)
      /\ \A s \in requests : s.attempt = q.attempt => No[s.step] <= 4
      /\ \A s \in replies : (s.attempt = q.attempt /\ s.ok) => No[s.step] < 4
  BY <1>1 DEF CommInv, OnceInv
<1>8. \A a, m : (a # peer /\ Has(a, m)) => Has(a, m)'
  BY <1>1 DEF Has, Serving
<1>9. \A a : \A m \in Nat : m < 4 => Has(a, m)'
  BY DEF Has
<1>10. \A s \in Steps : No[s] \in 1..9
  BY Numbers
<1>11. ProgressInv'
  <2>1. step' \in Steps => Has(attempt, No[step] - 1)'
    <3>1. PICK a, m : a = attempt /\ m = No[step] - 1
      OBVIOUS
    <3>2. CASE attempt = q.attempt
      <4>1. step \in Steps => m < 4 /\ m \in Nat
        BY <1>7, <1>10, <3>1, <3>2 DEF Beyond
      <4>2. step \in Steps => Has(a, m)'
        BY <1>9, <4>1
      <4> QED BY <1>3, <3>1, <4>2 DEF Has, Serving
    <3>3. CASE attempt # q.attempt
      <4>1. step \in Steps => Has(a, m)'
        BY <1>8, <3>1, <3>3 DEF CommInv, ProgressInv
      <4> QED BY <1>3, <3>1, <4>1 DEF Has, Serving
    <3> QED BY <3>2, <3>3
  <2>2. ASSUME NEW s \in requests' PROVE Has(s.attempt, No[s.step] - 1)'
    <3>1. s \in requests /\ s.step \in Steps
      BY <1>3 DEF CommInv, MessageInv
    <3>2. CASE s.attempt = q.attempt
      <4>1. No[s.step] - 1 < 4 /\ No[s.step] - 1 \in Nat
        BY <1>7, <1>10, <3>1, <3>2
      <4> QED BY <1>9, <4>1
    <3>3. CASE s.attempt # q.attempt
      BY <1>8, <3>1, <3>3 DEF CommInv, ProgressInv
    <3> QED BY <3>2, <3>3
  <2>3. ASSUME NEW s \in replies', s.ok PROVE Has(s.attempt, No[s.step])'
    <3>1. CASE s = r
      BY <1>3, <1>9, <3>1
    <3>2. CASE s \in replies /\ s.attempt = q.attempt
      <4>1. No[s.step] < 4 /\ No[s.step] \in Nat
        BY <1>7, <1>10, <2>3, <3>2 DEF CommInv, MessageInv
      <4> QED BY <1>9, <4>1
    <3>3. CASE s \in replies /\ s.attempt # q.attempt
      BY <1>8, <2>3, <3>3 DEF CommInv, ProgressInv
    <3> QED BY <1>3, <3>1, <3>2, <3>3
  <2> QED BY <2>1, <2>2, <2>3 DEF ProgressInv
<1>12. OnceInv'
  <2>1. (Serving(attempt)' /\ step' \in Steps) => No[step'] >= 3
    <3>1. (q.attempt = attempt /\ step \in Steps) => 3 <= No[step]
      BY <1>1, <1>3 DEF CommInv, MessageInv
    <3>2. Serving(attempt)' => q.attempt = attempt
      BY <1>1, <1>3 DEF Serving
    <3> QED BY <1>3, <1>10, <3>1, <3>2
  <2>2. ASSUME NEW p \in requests', p.step = "pake3"
        PROVE  /\ ~Serving(p.attempt)'
               /\ attempt' = p.attempt => ~Beyond(4)'
               /\ \A s \in requests' : s.attempt = p.attempt => No[s.step] <= 4
               /\ \A s \in replies' : (s.attempt = p.attempt /\ s.ok) => No[s.step] < 4
    <3>1. /\ p \in requests
          /\ attempt = p.attempt => ~Beyond(4)
          /\ \A s \in requests : s.attempt = p.attempt => No[s.step] <= 4
          /\ \A s \in replies : (s.attempt = p.attempt /\ s.ok) => No[s.step] < 4
      BY <1>3, <2>2 DEF CommInv, OnceInv
    <3>2. p.attempt # q.attempt
      <4> SUFFICES ASSUME p.attempt = q.attempt PROVE FALSE
        OBVIOUS
      <4>1. p.noc = 0 /\ q.noc = 0
        BY <1>1, <1>3, <2>2, <3>1 DEF CommInv, MessageInv
      <4>2. /\ p = [step |-> p.step, attempt |-> p.attempt, noc |-> p.noc]
            /\ q = [step |-> q.step, attempt |-> q.attempt, noc |-> q.noc]
        BY <3>1 DEF CommInv, MessageInv
      <4>3. p = q
        BY <1>1, <2>2, <4>1, <4>2, Zenon
      <4> QED BY <2>2, <4>3
    <3>3. ~Serving(p.attempt)'
      BY <1>1, <3>2 DEF Serving
    <3> QED BY <1>3, <3>1, <3>3 DEF Beyond
  <2> QED BY <2>1, <2>2 DEF OnceInv
<1> QED BY <1>4, <1>6, <1>11, <1>12 DEF CommInv

\* The commands of the session, up to the last one.
LEMMA CommandInv ==
  ASSUME CommInv, NEW q \in requests, requests' = requests \ {q}, UNCHANGED Comm!control,
         Comm!ArmFailSafe(q) \/ Comm!CSRRequest(q) \/ Comm!AddTrustedRootCert(q)
         \/ Comm!AddNOC(q) \/ Comm!Connect(q)
  PROVE  CommInv'
<1>1. stage = "open" /\ q.attempt = peer /\ UNCHANGED <<peer, stage, member>>
  BY DEF Comm!ArmFailSafe, Comm!CSRRequest, Comm!AddTrustedRootCert, Comm!AddNOC, Comm!Connect,
         Comm!Command, Comm!credentials, Comm!device
<1>2. q.step \in {"arm", "csr", "root", "noc", "case"}
  BY DEF Comm!ArmFailSafe, Comm!CSRRequest, Comm!AddTrustedRootCert, Comm!AddNOC, Comm!Connect
<1>3. \E body, k : Comm!Reply(q, body, TRUE, k) /\ (q.step = "csr" => k = q.attempt)
  BY DEF Comm!ArmFailSafe, Comm!CSRRequest, Comm!AddTrustedRootCert, Comm!AddNOC, Comm!Connect
<1>4. PICK r : Answers(q, r)
  BY <1>3, ReplySent
<1>5. member = 0
  BY <1>1 DEF CommInv, MemberInv
<1>6. MemberInv'
  BY <1>1, <1>2, <1>4, <1>5, MemberKept DEF Answers
<1>7. Has(q.attempt, No[q.step] - 1) /\ Serving(q.attempt)
  BY <1>1 DEF CommInv, ProgressInv, Serving
<1>8. /\ armed => armed'
      /\ csrKey' \in {csrKey, q.attempt} /\ installed' \in {installed, q.attempt}
  <2>1. CASE Comm!AddNOC(q)
    <3>1. q.noc = q.attempt
      BY <2>1, Numbers DEF Comm!AddNOC, CommInv, MessageInv
    <3> QED BY <2>1, <3>1 DEF Comm!AddNOC
  <2>2. CASE Comm!ArmFailSafe(q)
    BY <2>2 DEF Comm!ArmFailSafe, Comm!credentials
  <2>3. CASE Comm!CSRRequest(q)
    BY <2>3 DEF Comm!CSRRequest
  <2>4. CASE Comm!AddTrustedRootCert(q)
    BY <2>4 DEF Comm!AddTrustedRootCert
  <2>5. CASE Comm!Connect(q)
    BY <2>5 DEF Comm!Connect, Comm!device, Comm!credentials
  <2> QED BY <2>1, <2>2, <2>3, <2>4, <2>5
<1>9. \A a : Serving(a)' => /\ Serving(a) /\ (armed => armed')
                            /\ csrKey' \in {csrKey, a} /\ installed' \in {installed, a}
  BY <1>1, <1>8 DEF Serving
<1>10. Has(q.attempt, No[q.step])'
  <2>1. CASE Comm!ArmFailSafe(q)
    <3>1. No[q.step] = 4 /\ armed'
      BY <2>1, Numbers DEF Comm!ArmFailSafe
    <3> QED BY <3>1 DEF Has
  <2>2. CASE Comm!CSRRequest(q)
    <3>1. No[q.step] = 5 /\ csrKey' = q.attempt /\ armed' = armed
      BY <2>2, Numbers DEF Comm!CSRRequest
    <3> QED BY <1>7, <3>1 DEF Has
  <2>3. CASE Comm!AddTrustedRootCert(q)
    <3>1. No[q.step] = 6 /\ csrKey' = csrKey /\ armed' = armed
      BY <2>3, Numbers DEF Comm!AddTrustedRootCert
    <3> QED BY <1>7, <3>1 DEF Has
  <2>4. CASE Comm!AddNOC(q)
    <3>1. No[q.step] = 7 /\ q.noc = q.attempt /\ installed' = q.noc /\ csrKey' = csrKey /\ armed' = armed
      BY <2>4, Numbers DEF Comm!AddNOC, CommInv, MessageInv
    <3> QED BY <1>7, <3>1 DEF Has
  <2>5. CASE Comm!Connect(q)
    <3>1. No[q.step] = 8 /\ installed' = installed /\ csrKey' = csrKey /\ armed' = armed
      BY <2>5, Numbers DEF Comm!Connect, Comm!device, Comm!credentials
    <3> QED BY <1>7, <3>1 DEF Has
  <2> QED BY <2>1, <2>2, <2>3, <2>4, <2>5
<1>11. peer' \in 0..attempt
  BY <1>1 DEF CommInv, MessageInv
<1> QED BY <1>4, <1>6, <1>7, <1>9, <1>10, <1>11, AnswerInv

LEMMA CompleteInv ==
  ASSUME CommInv, NEW q \in requests, requests' = requests \ {q}, UNCHANGED Comm!control,
         Comm!CommissioningComplete(q)
  PROVE  CommInv'
<1>1. /\ stage = "open" /\ q.attempt = peer /\ q.step = "complete" /\ stage' = "none" /\ ~armed'
      /\ member' = installed /\ UNCHANGED <<peer, csrKey, root, installed>>
      /\ Comm!Reply(q, "response", TRUE, 0)
  BY DEF Comm!CommissioningComplete, Comm!Command
<1>2. PICK r : Answers(q, r)
  BY <1>1, ReplySent
<1>3. Serving(q.attempt) /\ No[q.step] = 9 /\ q.attempt # 0
  BY <1>1, Numbers DEF Serving, CommInv, MessageInv
<1>4. csrKey = q.attempt /\ installed = q.attempt
  BY <1>3 DEF CommInv, ProgressInv, Has
<1>5. member = 0 /\ step # "done"
  BY <1>1 DEF CommInv, MemberInv
<1>6. MemberInv'
  <2>1. UNCHANGED <<step, passcode>> /\ replies' = replies \cup {r} /\ r.attempt = q.attempt
    BY <1>2 DEF Answers
  <2>2. ASSUME NEW s \in replies', s.ok, s.step = "complete" PROVE member' = s.attempt
    <3>1. CASE s \in replies
      <4>1. s.attempt # 0 /\ member = s.attempt
        BY <2>2, <3>1 DEF CommInv, MessageInv, MemberInv
      <4> QED BY <1>5, <4>1
    <3>2. CASE s = r
      BY <1>1, <1>4, <2>1, <3>2
    <3> QED BY <2>1, <3>1, <3>2
  <2>3. member' # 0 /\ stage' = "none" /\ ~armed' /\ csrKey' = member' /\ step' # "done"
    BY <1>1, <1>3, <1>4, <1>5, <2>1
  <2>4. Beyond(2)' => passcode'
    BY <2>1 DEF CommInv, MemberInv, Beyond
  <2> QED BY <2>2, <2>3, <2>4 DEF MemberInv, CommissionedKept, Comm!CommissionedKept
<1>7. \A a : ~Serving(a)'
  BY <1>1 DEF Serving
<1>8. Has(q.attempt, No[q.step])'
  BY <1>7 DEF Has
<1>9. peer' \in 0..attempt
  BY <1>1 DEF CommInv, MessageInv
<1> QED BY <1>2, <1>3, <1>6, <1>7, <1>8, <1>9, AnswerInv

LEMMA RefuseInv ==
  ASSUME CommInv, NEW q \in requests, requests' = requests \ {q}, UNCHANGED Comm!control,
         Comm!Refuse(q)
  PROVE  CommInv'
<1>1. UNCHANGED <<peer, stage, armed, csrKey, root, installed, member>>
  BY DEF Comm!Refuse, Comm!device, Comm!credentials
<1>2. PICK body : Comm!Reply(q, body, FALSE, 0)
  BY DEF Comm!Refuse
<1>3. PICK r : Answers(q, r) /\ ~r.ok
  BY <1>2, ReplySent
<1>4. MemberInv'
  BY <1>1, <1>3, MemberKept
<1>5. peer' \in 0..attempt
  BY <1>1 DEF CommInv, MessageInv
<1>6. \A a : Serving(a)' => /\ Serving(a) /\ (armed => armed')
                            /\ csrKey' \in {csrKey, a} /\ installed' \in {installed, a}
  BY <1>1 DEF Serving
<1> QED BY <1>3, <1>4, <1>5, <1>6, AnswerInv

LEMMA ExpiryInv == ASSUME CommInv, Comm!FailSafeExpires PROVE CommInv'
<1>1. UNCHANGED <<rootKey, step, attempt, passcode, context, noc, requests, replies, peer, member>>
      /\ armed /\ stage' = "none" /\ ~armed'
  BY DEF Comm!FailSafeExpires, Comm!control
<1>2. \A a : ~Serving(a)'
  BY <1>1 DEF Serving
<1>3. member = 0
  BY <1>1 DEF CommInv, MemberInv
<1>4. MessageInv'
  BY <1>1 DEF CommInv, MessageInv
<1>5. OnceInv'
  BY <1>1, <1>2 DEF CommInv, OnceInv, Beyond
<1>6. ProgressInv'
  BY <1>2 DEF ProgressInv, Has
<1>7. MemberInv'
  BY <1>1, <1>3 DEF CommInv, MemberInv, Beyond, CommissionedKept, Comm!CommissionedKept
<1> QED BY <1>4, <1>5, <1>6, <1>7 DEF CommInv

-----------------------------------------------------------------------------

LEMMA CommInvInit == MCInit => CommInv
<1> SUFFICES ASSUME MCInit PROVE CommInv
  OBVIOUS
<1>1. /\ step = "idle" /\ attempt = 0 /\ requests = {} /\ replies = {} /\ peer = 0
      /\ stage = "none" /\ armed = FALSE /\ csrKey = 0 /\ member = 0
  BY DEF MCInit, Comm!CommInit
<1>2. step \notin Steps /\ step # "done"
  BY <1>1 DEF Steps
<1> QED BY <1>1, <1>2 DEF CommInv, MessageInv, OnceInv, ProgressInv, MemberInv, Serving, Has, Beyond,
                          CommissionedKept, Comm!CommissionedKept

LEMMA CommInvNext == CommInv /\ [SessionStep \/ UdpStep \/ CommStep]_allVars => CommInv'
<1> SUFFICES ASSUME CommInv, [SessionStep \/ UdpStep \/ CommStep]_allVars PROVE CommInv'
  OBVIOUS
<1>1. CASE UNCHANGED commVars
  <2>1. /\ UNCHANGED <<rootKey, step, attempt, passcode, context, noc, requests, replies>>
        /\ UNCHANGED <<peer, stage, armed, csrKey, root, installed, member>>
    BY <1>1 DEF commVars
  <2> QED BY <2>1 DEF CommInv, MessageInv, OnceInv, ProgressInv, MemberInv, Serving, Has, Beyond,
                      CommissionedKept, Comm!CommissionedKept
<1>2. CASE Comm!CommNext
  <2>1. CASE Comm!Commission
    BY <2>1, CommissionInv
  <2>2. CASE Comm!GiveUp
    BY <2>2, CallFails DEF Comm!GiveUp, Comm!device, Comm!credentials
  <2>3. CASE Comm!FailSafeExpires
    BY <2>3, ExpiryInv
  <2>4. ASSUME NEW r \in replies, Comm!Receive(r) PROVE CommInv'
    <3>1. step \in Steps
      BY <2>4, WaitingSteps DEF Comm!Receive
    <3>2. CASE Comm!Accepts(r)
      BY <2>4, <3>1, <3>2, AdvanceInv, FinishInv
    <3>3. CASE ~Comm!Accepts(r)
      BY <2>4, <3>3, CallFails DEF Comm!Receive, Comm!device, Comm!credentials
    <3> QED BY <3>2, <3>3
  <2>5. ASSUME NEW q \in requests, Comm!Deliver(q) PROVE CommInv'
    <3>1. requests' = requests \ {q} /\ UNCHANGED Comm!control
      BY <2>5 DEF Comm!Deliver
    <3> QED BY <2>5, <3>1, PaseInv, OpenInv, CommandInv, CompleteInv, RefuseInv DEF Comm!Deliver
  <2> QED BY <1>2, <2>1, <2>2, <2>3, <2>4, <2>5 DEF Comm!CommNext
<1> QED BY <1>1, <1>2 DEF SessionStep, UdpStep, CommStep, allVars

\* When CompleteCommissioning returns without an error the device holds for good
\* the certificate of this very call, for any number of earlier calls, whatever
\* is left of their messages and whenever the fail-safe runs out.
THEOREM CommissioningHolds == MCSpec => []CommissionedKept
<1>1. CommInv => CommissionedKept
  BY DEF CommInv, MemberInv
<1> QED BY <1>1, CommInvInit, CommInvNext, PTL DEF MCSpec

-----------------------------------------------------------------------------
(***************************************************************************)
(* What a caller of the reconnecting driver may rely on, for every number  *)
(* of moves, reboots, outages and lost answers.                            *)
(***************************************************************************)

\* Where a call can be, and that only a finished one has a result.
CallType ==
  /\ reach \in BOOLEAN /\ op.clean \in BOOLEAN /\ op.execs \in Nat
  /\ op.pc \in {"idle", "dial", "first", "redial", "retry"}
  /\ op = [pc |-> op.pc, what |-> op.what, execs |-> op.execs,
           clean |-> op.clean, result |-> op.result]
  /\ op.pc # "idle" => op.result = None

\* A call that nothing has gone wrong for finds the device reachable, has not
\* been carried out, and retries on a session of the device's current boot.
CleanCall ==
  (op.pc # "idle" /\ op.clean) =>
    /\ reach
    /\ op.execs = 0
    /\ op.pc = "retry" => drv = epoch

\* One attempt is carried out at most once.
Attempts ==
  /\ op.pc \in {"dial", "first"} => op.execs = 0
  /\ op.pc \in {"redial", "retry"} => op.execs <= 1

CallInv == CallType /\ CleanCall /\ Attempts /\ CallsHold

-----------------------------------------------------------------------------

LEMMA CallInvInit == SyncInit => CallInv
BY NoneAssumption
   DEF SyncInit, Idle, CallInv, CallType, CleanCall, Attempts, CallsHold, StaleSessionRecovered, AtMostTwice

\* What a step does to a call that neither it nor the device's health changes.
LEMMA CallUntouched ==
  ASSUME CallInv, op' = op, drv' = drv, epoch' = epoch, reach' \in BOOLEAN, reach => reach'
  PROVE  CallInv'
BY DEF CallInv, CallType, CleanCall, Attempts, CallsHold, StaleSessionRecovered, AtMostTwice

\* A reboot or an outage during the call.
LEMMA CallBroken ==
  ASSUME CallInv, op' = Broken(op), reach' \in BOOLEAN
  PROVE  CallInv'
<1> USE DEF CallInv, CallType
<1>1. op' = [pc |-> op.pc, what |-> op.what, execs |-> op.execs,
             clean |-> FALSE, result |-> op.result]
  BY DEF Broken
<1> QED BY <1>1 DEF CleanCall, Attempts, CallsHold, StaleSessionRecovered, AtMostTwice

\* do returns.
LEMMA CallDone ==
  ASSUME NEW o, op' = Done(o, FALSE) \/ op' = Done(o, TRUE), reach' \in BOOLEAN,
         o.execs \in Nat, o.clean \in BOOLEAN, o.execs <= 2,
         op' = Done(o, FALSE) => ~o.clean,
         op' = Done(o, TRUE) => o.execs >= 1 /\ (o.clean => o.execs = 1)
  PROVE  CallInv'
<1>1. CASE op' = Done(o, FALSE)
  <2>1. op' = [pc |-> "idle", what |-> None, execs |-> o.execs,
               clean |-> o.clean, result |-> "error"]
    BY <1>1 DEF Done, Idle
  <2>2. op'.pc = "idle" /\ op'.execs = o.execs /\ op'.result = "error"
    BY <2>1
  <2>3. op'.clean = o.clean /\ op'.what = None
    BY <2>1, Zenon
  <2>4. CallType'
    BY <2>1, <2>2, <2>3 DEF CallType
  <2> QED BY <1>1, <2>2, <2>3, <2>4 DEF CallInv, CleanCall, Attempts, CallsHold, StaleSessionRecovered, AtMostTwice
<1>2. CASE op' = Done(o, TRUE)
  <2>1. op' = [pc |-> "idle", what |-> None, execs |-> o.execs,
               clean |-> o.clean, result |-> "ok"]
    BY <1>2 DEF Done, Idle
  <2>2. op'.pc = "idle" /\ op'.execs = o.execs /\ op'.result = "ok"
    BY <2>1
  <2>3. op'.clean = o.clean /\ op'.what = None
    BY <2>1, Zenon
  <2>4. CallType'
    BY <2>1, <2>2, <2>3 DEF CallType
  <2> QED BY <1>2, <2>2, <2>3, <2>4 DEF CallInv, CleanCall, Attempts, CallsHold, StaleSessionRecovered, AtMostTwice
<1> QED BY <1>1, <1>2

\* do takes the mutex.
LEMMA CallBegins ==
  ASSUME CallInv, NEW what, Begin(what), reach' = reach
  PROVE  CallInv'
BY NoneAssumption
   DEF CallInv, CallType, CleanCall, Attempts, CallsHold, StaleSessionRecovered, AtMostTwice, Begin

LEMMA CallDials == ASSUME CallInv, Dial PROVE CallInv'
<1> USE DEF CallInv, CallType
<1>1. op.pc \in {"dial", "redial"} /\ reach' = reach /\ epoch' = epoch
  BY DEF Dial, dev
<1>2. CASE reach
  <2>1. drv' = epoch
        /\ op' = [op EXCEPT !.pc = IF op.pc = "dial" THEN "first" ELSE "retry"]
    BY <1>2 DEF Dial
  <2>2. op' = [pc |-> IF op.pc = "dial" THEN "first" ELSE "retry", what |-> op.what,
               execs |-> op.execs, clean |-> op.clean, result |-> op.result]
    BY <2>1
  <2> QED BY <1>1, <1>2, <2>1, <2>2, NoneAssumption
          DEF CleanCall, Attempts, CallsHold, StaleSessionRecovered, AtMostTwice
<1>3. CASE ~reach
  <2>1. op' = Done(op, FALSE) /\ ~op.clean /\ op.execs <= 2
    BY <1>1, <1>3 DEF Dial, CleanCall, Attempts
  <2>2. op' # Done(op, TRUE)
    BY <2>1 DEF Done, Idle
  <2> QED BY <1>1, <2>1, <2>2, CallDone
<1> QED BY <1>2, <1>3

LEMMA CallOperates == ASSUME CallInv, Operate PROVE CallInv'
<1> USE DEF CallInv, CallType
<1>1. op.pc \in {"first", "retry"} /\ reach' = reach /\ epoch' = epoch
  BY DEF Operate
<1>e. Executed = [pc |-> op.pc, what |-> op.what, execs |-> op.execs + 1,
                  clean |-> op.clean, result |-> op.result]
  BY DEF Executed
<1>2. CASE op' = Done(Executed, TRUE)
  <2>1. Executed.execs \in Nat /\ Executed.execs <= 2 /\ Executed.execs >= 1
        /\ Executed.clean \in BOOLEAN /\ (Executed.clean => Executed.execs = 1)
    BY <1>1, <1>e DEF CleanCall, Attempts
  <2>2. op' # Done(Executed, FALSE)
    BY <1>2 DEF Done, Idle
  <2> QED BY <1>1, <1>2, <2>1, <2>2, CallDone
<1>3. CASE (~reach \/ drv # epoch) /\ Failed(op)
  <2>1. CASE op.pc = "first"
    <3>1. op' = [op EXCEPT !.pc = "redial"]
      BY <1>3, <2>1 DEF Failed, AfterFailure
    <3>2. op' = [pc |-> "redial", what |-> op.what, execs |-> op.execs,
                 clean |-> op.clean, result |-> op.result]
      BY <3>1
    <3> QED BY <1>1, <2>1, <3>2, NoneAssumption
            DEF CleanCall, Attempts, CallsHold, StaleSessionRecovered, AtMostTwice
  <2>2. CASE op.pc = "retry"
    <3>1. op' = Done(op, FALSE) /\ ~op.clean /\ op.execs <= 2
      BY <1>3, <2>2 DEF Failed, AfterFailure, CleanCall, Attempts
    <3>2. op' # Done(op, TRUE)
      BY <3>1 DEF Done, Idle
    <3> QED BY <1>1, <3>1, <3>2, CallDone
  <2> QED BY <1>1, <2>1, <2>2
<1>4. CASE Failed(Broken(Executed))
  <2>1. PICK o : o = Broken(Executed)
    OBVIOUS
  <2>5. o = [pc |-> op.pc, what |-> op.what, execs |-> op.execs + 1,
             clean |-> FALSE, result |-> op.result]
    BY <1>e, <2>1 DEF Broken
  <2>2. CASE op.pc = "first"
    <3>1. op' = [o EXCEPT !.pc = "redial"]
      BY <1>4, <2>1, <2>5, <2>2 DEF Failed, AfterFailure
    <3>2. op' = [pc |-> "redial", what |-> op.what, execs |-> op.execs + 1,
                 clean |-> FALSE, result |-> op.result]
      BY <2>5, <3>1
    <3> QED BY <1>1, <2>2, <3>2, NoneAssumption
            DEF CleanCall, Attempts, CallsHold, StaleSessionRecovered, AtMostTwice
  <2>3. CASE op.pc = "retry"
    <3>1. op' = Done(o, FALSE) /\ ~o.clean /\ o.execs <= 2 /\ o.execs \in Nat
      BY <1>4, <2>1, <2>5, <2>3 DEF Failed, AfterFailure, Attempts
    <3>2. op' # Done(o, TRUE)
      BY <3>1 DEF Done, Idle
    <3> QED BY <1>1, <2>5, <3>1, <3>2, CallDone
  <2> QED BY <1>1, <2>2, <2>3
<1> QED BY <1>2, <1>3, <1>4 DEF Operate

LEMMA CallInvNext == CallInv /\ [SyncNext]_syncVars => CallInv'
<1> SUFFICES ASSUME CallInv, [SyncNext]_syncVars PROVE CallInv'
  OBVIOUS
<1>t. reach \in BOOLEAN
  BY DEF CallInv, CallType
<1>1. ASSUME NEW p \in Position, Command(p) PROVE CallInv'
  BY <1>1, CallBegins DEF Command, dev
<1>2. CASE Poll
  BY <1>2, CallBegins DEF Poll, dev
<1>3. CASE Dial
  BY <1>3, CallDials
<1>4. CASE Operate
  BY <1>4, CallOperates
<1>5. ASSUME NEW p \in Position, Move(p) PROVE CallInv'
  BY <1>5, <1>t, CallUntouched DEF Move
<1>6. CASE PollResult \/ Watch \/ Push \/ ListenError \/ Reflect \/ Settle \/ Noise
  BY <1>6, <1>t, CallUntouched
     DEF PollResult, Watch, Push, ListenError, Reflect, Settle, Noise, dev
<1>7. CASE Reboot \/ Outage
  BY <1>7, <1>t, CallBroken DEF Reboot, Outage
<1>8. CASE Return
  BY <1>8, <1>t, CallUntouched DEF Return
<1>9. CASE UNCHANGED syncVars
  BY <1>9, <1>t, CallUntouched DEF syncVars
<1> QED BY <1>1, <1>2, <1>3, <1>4, <1>5, <1>6, <1>7, <1>8, <1>9 DEF SyncNext

\* A call that meets no fault never fails, a stale session included, and is
\* carried out exactly once; no call is carried out more than twice, and success
\* means that it was carried out (ReconnectingDriver.do), for every number of
\* faults, lost answers, moves and events.
THEOREM CallsAreSafe == SyncSpec => []CallsHold
<1>1. CallInv => CallsHold
  BY DEF CallInv
<1> QED BY <1>1, CallInvInit, CallInvNext, PTL DEF SyncSpec

=============================================================================
