------------------------- MODULE MatterCommissioning -------------------------
(***************************************************************************)
(* Bringing a device onto the fabric (go-matter/controller/commission.go,  *)
(* pase): the PASE handshake with the passcode, then ArmFailSafe, CSR,     *)
(* root certificate and operational certificate (NOC), then a CASE session *)
(* and CommissioningComplete.                                              *)
(*                                                                         *)
(* A request is delivered at most once (MatterExchange), at any time or    *)
(* never, and the controller may give up waiting at any time.  The device  *)
(* is pase.Responder plus what the clusters promise of it: once its        *)
(* fail-safe runs out, it forgets all it was given since, and closes the   *)
(* session.  It takes credentials even if no fail-safe is armed, so that   *)
(* the order of the steps is the controller's to keep.                     *)
(***************************************************************************)
EXTENDS Naturals, Sequences

CONSTANT MaxAttempts  \* bound: calls of Commission

VARIABLES
  rootKey,   \* the stored fabric has its CA's key
  step,      \* request whose answer is awaited, or "idle", "failed", "done"
  attempt,   \* number of the call of Commission
  passcode,  \* the call was given the device's passcode
  context,   \* attempt whose PBKDFParamResponse is in Initiator.context
  noc,       \* certificate issued in this attempt: the key in it, 0 if none
  requests,  \* on their way to the device
  replies    \* on their way back

VARIABLES
  peer,      \* device: attempt its PASE responder belongs to
  stage,     \* device: "none", "param", "keys" or "open"
  armed,     \* device: the fail-safe runs
  csrKey,    \* device: key pair made for a CSR, by attempt, 0 if none
  root,      \* device: root certificate, by attempt, 0 if none
  installed, \* device: operational certificate, its key, 0 if none
  member     \* device: certificate that outlives the fail-safe, 0 if none

control == <<rootKey, step, attempt, passcode, context, noc>>
credentials == <<csrKey, root, installed, member>>
device == <<peer, stage, armed, credentials>>
commVars == <<control, requests, replies, device>>

CommInit ==
  /\ rootKey \in BOOLEAN
  /\ step = "idle" /\ attempt = 0 /\ passcode = FALSE /\ context = 0 /\ noc = 0
  /\ requests = {} /\ replies = {}
  /\ peer = 0 /\ stage = "none" /\ armed = FALSE
  /\ csrKey = 0 /\ root = 0 /\ installed = 0 /\ member = 0

(***************************************************************************)
(* The controller.                                                         *)
(***************************************************************************)

\* Mutant of Order: the fail-safe is armed once there is something to install.
OrderArmLate == <<"param", "pake1", "pake3", "csr", "root", "arm", "noc", "case", "complete">>

Order == <<"param", "pake1", "pake3", "arm", "csr", "root", "noc", "case", "complete">>

StepNo(s) == CHOOSE i \in 1..Len(Order) : Order[i] = s
Waiting == step \in {Order[i] : i \in 1..Len(Order)}

Handshake == {"param", "pake1", "pake3"}

Send(s, a) == requests' = requests \cup {[step |-> s, attempt |-> a, noc |-> noc']}

Commission ==
  /\ step \in {"idle", "failed"} /\ attempt < MaxAttempts
  /\ attempt' = attempt + 1 /\ passcode' \in BOOLEAN /\ context' = 0 /\ noc' = 0
  /\ \/ rootKey /\ step' = "param" /\ Send("param", attempt + 1)
     \/ ~rootKey /\ step' = "failed" /\ UNCHANGED requests
  /\ UNCHANGED <<rootKey, replies, device>>

\* VerifyCB: both sides have the same passcode and the same context, and the
\* confirmation is of this conversation.
VerifyCB(r) == passcode /\ context = attempt /\ r.attempt = attempt

\* Mutant of Accepts: an answer of the right kind is taken for a success.
AcceptsAny(r) == r.step = step /\ (step = "pake1" => VerifyCB(r))

\* What each answer must be.  A status that is not success is refused, and so is
\* an error code, except that AddTrustedRootCertificate looks at no response; the
\* others that carry something refuse a bare status too.
Accepts(r) ==
  /\ r.step = step
  /\ r.ok \/ (step = "root" /\ r.body = "response")
  /\ step \in {"csr", "noc"} => r.body = "response"
  /\ step = "pake1" => VerifyCB(r)
  /\ step = "csr" => r.nonce = attempt

IssueNOC(r) == IF step = "csr" THEN r.key ELSE noc

\* An answer is read.  The messages of the handshake are not tied to the call,
\* those of the session are: others do not decrypt.
Receive(r) ==
  /\ Waiting
  /\ r.attempt = attempt \/ (r.step \in Handshake /\ step \in Handshake)
  /\ replies' = replies \ {r}
  /\ \/ /\ Accepts(r) /\ step # "complete"
        /\ context' = IF step = "param" THEN r.attempt ELSE context
        /\ noc' = IssueNOC(r)
        /\ step' = Order[StepNo(step) + 1]
        /\ Send(Order[StepNo(step) + 1], attempt)
     \/ /\ Accepts(r) /\ step = "complete"
        /\ step' = "done" /\ UNCHANGED <<context, noc, requests>>
     \/ /\ ~Accepts(r)
        /\ step' = "failed" /\ UNCHANGED <<context, noc, requests>>
  /\ UNCHANGED <<rootKey, attempt, passcode, device>>

\* The context ends, MRP gives up, or something local fails.
GiveUp ==
  /\ Waiting /\ step' = "failed"
  /\ UNCHANGED <<rootKey, attempt, passcode, context, noc, requests, replies, device>>

(***************************************************************************)
(* The device.                                                             *)
(***************************************************************************)

Reply(q, body, ok, k) ==
  replies' = replies \cup
    {[step |-> q.step, attempt |-> q.attempt, body |-> body, ok |-> ok, nonce |-> q.attempt, key |-> k]}

\* pase.Responder: a new handshake starts one, unless the device is busy with
\* another or already on the fabric.
HandleParamRequest(q) ==
  /\ q.step = "param" /\ ~armed /\ member = 0
  /\ peer' = q.attempt /\ stage' = "param"
  /\ Reply(q, "response", TRUE, 0)
  /\ UNCHANGED <<armed, credentials>>

HandlePake1(q) ==
  /\ q.step = "pake1" /\ stage = "param"
  /\ stage' = "keys" /\ Reply(q, "response", TRUE, 0)
  /\ UNCHANGED <<peer, armed, credentials>>

\* VerifyCA holds for the Pake3 of the conversation the keys are of.
HandlePake3(q) ==
  /\ q.step = "pake3" /\ stage = "keys"
  /\ IF q.attempt = peer THEN stage' = "open" ELSE stage' = stage
  /\ Reply(q, "response", q.attempt = peer, 0)
  /\ UNCHANGED <<peer, armed, credentials>>

Command(q) == stage = "open" /\ q.attempt = peer /\ q.step \notin Handshake

ArmFailSafe(q) ==
  /\ Command(q) /\ q.step = "arm"
  /\ armed' = TRUE /\ Reply(q, "response", TRUE, 0)
  /\ UNCHANGED <<peer, stage, credentials>>

CSRRequest(q) ==
  /\ Command(q) /\ q.step = "csr"
  /\ csrKey' = q.attempt /\ Reply(q, "response", TRUE, q.attempt)
  /\ UNCHANGED <<peer, stage, armed, root, installed, member>>

AddTrustedRootCert(q) ==
  /\ Command(q) /\ q.step = "root"
  /\ root' = q.attempt /\ Reply(q, "status", TRUE, 0)
  /\ UNCHANGED <<peer, stage, armed, csrKey, installed, member>>

AddNOC(q) ==
  /\ Command(q) /\ q.step = "noc" /\ root # 0 /\ q.noc = csrKey
  /\ installed' = q.noc /\ Reply(q, "response", TRUE, 0)
  /\ UNCHANGED <<peer, stage, armed, csrKey, root, member>>

\* CASE needs the certificate.
Connect(q) ==
  /\ Command(q) /\ q.step = "case" /\ installed # 0
  /\ Reply(q, "response", TRUE, 0)
  /\ UNCHANGED device

\* Disarms the fail-safe; the commissioning window closes.
CommissioningComplete(q) ==
  /\ Command(q) /\ q.step = "complete" /\ installed # 0
  /\ member' = installed /\ armed' = FALSE /\ stage' = "none"
  /\ Reply(q, "response", TRUE, 0)
  /\ UNCHANGED <<peer, csrKey, root, installed>>

\* The device refuses, with a status or with the response's error code.
Refuse(q) ==
  /\ q.step \in Handshake \/ Command(q)
  /\ \E body \in {"status", "response"} : Reply(q, body, FALSE, 0)
  /\ UNCHANGED device

Deliver(q) ==
  /\ requests' = requests \ {q}
  /\ \/ HandleParamRequest(q) \/ HandlePake1(q) \/ HandlePake3(q)
     \/ ArmFailSafe(q) \/ CSRRequest(q) \/ AddTrustedRootCert(q) \/ AddNOC(q)
     \/ Connect(q) \/ CommissioningComplete(q) \/ Refuse(q)
  /\ UNCHANGED control

FailSafeExpires ==
  /\ armed /\ armed' = FALSE /\ stage' = "none"
  /\ csrKey' = 0 /\ root' = 0 /\ installed' = 0
  /\ UNCHANGED <<control, requests, replies, peer, member>>

CommNext ==
  \/ Commission \/ GiveUp \/ FailSafeExpires
  \/ \E r \in replies : Receive(r)
  \/ \E q \in requests : Deliver(q)

\* The fail-safe is a timer.
CommFairness == WF_commVars(FailSafeExpires)

(***************************************************************************)
(* Properties.                                                             *)
(***************************************************************************)

CommTypeOK ==
  /\ step \in {"idle", "failed", "done"} \cup {Order[i] : i \in 1..Len(Order)}
  /\ attempt \in 0..MaxAttempts /\ {context, noc, peer, csrKey, root, installed, member} \subseteq 0..MaxAttempts
  /\ stage \in {"none", "param", "keys", "open"}

\* When CompleteCommissioning has returned without an error, the device holds,
\* for good, the certificate that this call of Commission issued for the key
\* in the device's CSR, whatever happened to earlier calls and to their
\* messages, and no fail-safe can take it back.
CommissionedKept ==
  step = "done" => passcode /\ ~armed /\ member = noc /\ noc = attempt /\ csrKey = noc

\* "Arm the fail-safe so a failed flow reverts on the device side": after a
\* call that fails, whatever step it failed at, the device comes to hold
\* nothing of the fabric, or is on it (only the last answer was lost), unless
\* another call is made.
FailedReverts ==
  (step = "failed") ~> (step # "failed" \/ member # 0 \/ (csrKey = 0 /\ root = 0 /\ installed = 0))

=============================================================================
