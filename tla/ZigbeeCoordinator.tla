------------------------- MODULE ZigbeeCoordinator -------------------------
(***************************************************************************)
(* Bringing the Zigbee network up on an EZSP dongle                        *)
(* (internal/zigbee/ezsp/coordinator.go): resume the network in the        *)
(* dongle's flash or form a new one, record its key on disk, open it for   *)
(* joining and keep it open.                                               *)
(*                                                                         *)
(* A step is one request and its response (AshLink's subject).  A request  *)
(* that fails or times out, before or after the NCP acted on it, and a     *)
(* crash of the hub all end Start between two steps: Abort.  The NCP is    *)
(* external: its stack goes up and down asynchronously and says so in      *)
(* callbacks that arrive in order.                                         *)
(***************************************************************************)
EXTENDS Naturals, Sequences

CONSTANTS
  StatusCap,    \* capacity of stackStatus (4)
  MaxStarts     \* bound: starts of the adapter

VARIABLE conf   \* what the behaviour is run with, see Configurations

Configurations ==
  [forceForm : BOOLEAN, permitJoin : BOOLEAN,   \* the hub's configuration
   refused : BOOLEAN]   \* networkInit may be refused although a network is stored

ForceForm == conf.forceForm
PermitJoin == conf.permitJoin

VARIABLES
  pc,        \* next request or wait of Start, "off", or a stage of Serving
  starts,
  net,       \* number of the last network formNetwork drew (its key and ids)
  record,    \* network.json: number of the network in it, 0 if there is none
  stackStatus,  \* Driver.stackStatus
  flash,     \* NCP: network in its flash, 0 if none
  stack,     \* NCP: "down", "up", "leaving" or "forming"
  endpoint,  \* NCP: our endpoint is registered
  policy,    \* NCP: join policy set
  open,      \* NCP: open for joining
  callbacks  \* stack status callbacks on their way

host == <<conf, net, record>>
radio == <<flash, stack, endpoint, policy, open>>
vars == <<conf, pc, starts, net, record, stackStatus, flash, stack, endpoint, policy, open, callbacks>>

Init ==
  /\ conf \in Configurations
  /\ pc = "off" /\ starts = 0 /\ net = 0 /\ record = 0 /\ stackStatus = <<>>
  /\ flash = 0 /\ stack = "down" /\ endpoint = FALSE /\ policy = FALSE /\ open = FALSE
  /\ callbacks = <<>>

\* Start resets the NCP, which keeps its flash and forgets everything else.
Start ==
  /\ pc = "off" /\ starts < MaxStarts
  /\ starts' = starts + 1 /\ pc' = "addEndpoint" /\ stackStatus' = <<>>
  /\ stack' = "down" /\ endpoint' = FALSE /\ policy' = FALSE /\ open' = FALSE
  /\ callbacks' = <<>>
  /\ UNCHANGED <<host, flash>>

Abort ==
  /\ pc # "off"
  /\ pc' = "off"
  /\ UNCHANGED <<starts, host, stackStatus, radio, callbacks>>

-----------------------------------------------------------------------------
(***************************************************************************)
(* bringUpNetwork.                                                         *)
(***************************************************************************)

Step(from, to) == pc = from /\ pc' = to /\ UNCHANGED starts

\* The NCP registers endpoints while the stack is down only; a refusal is
\* not an error for addEndpoint.
AddEndpoint ==
  /\ Step("addEndpoint", "networkInit")
  /\ endpoint' = (endpoint \/ stack = "down")
  /\ UNCHANGED <<host, stackStatus, flash, stack, policy, open, callbacks>>

\* Mutant of NetworkInit: the stored network is not resumed.
NetworkInitSkipped ==
  /\ Step("networkInit", "params")
  /\ UNCHANGED <<host, stackStatus, radio, callbacks>>

\* The status of networkInit is logged and otherwise ignored.
NetworkInit ==
  /\ Step("networkInit", "params")
  /\ \/ /\ flash # 0
        /\ stack' = "up" /\ callbacks' = Append(callbacks, "UP")
     \/ /\ flash = 0 \/ conf.refused
        /\ UNCHANGED <<stack, callbacks>>
  /\ UNCHANGED <<host, stackStatus, flash, endpoint, policy, open>>

Joined == stack \in {"up", "leaving"}
Joining == IF PermitJoin THEN "policy" ELSE "serve"

GetNetworkParameters ==
  /\ Step("params", CASE Joined /\ ForceForm -> "leave"
                      [] Joined /\ ~ForceForm -> Joining
                      [] ~Joined -> "security")
  /\ UNCHANGED <<host, stackStatus, radio, callbacks>>

LeaveNetwork ==
  /\ Step("leave", IF stack = "up" THEN "waitDown" ELSE "off")
  /\ stack' = IF stack = "up" THEN "leaving" ELSE stack
  /\ UNCHANGED <<host, stackStatus, flash, endpoint, policy, open, callbacks>>

\* Mutant of WaitDown: any status ends the wait.
WaitDownAny ==
  /\ stackStatus # <<>> /\ stackStatus' = Tail(stackStatus)
  /\ Step("waitDown", "security")
  /\ UNCHANGED <<host, radio, callbacks>>

\* leaveNetwork skips statuses until NETWORK_DOWN.
WaitDown ==
  /\ stackStatus # <<>> /\ stackStatus' = Tail(stackStatus)
  /\ Step("waitDown", IF Head(stackStatus) = "DOWN" THEN "security" ELSE "waitDown")
  /\ UNCHANGED <<host, radio, callbacks>>

\* formNetwork draws a key and PAN ids and hands the key to the NCP.
SetInitialSecurityState ==
  /\ Step("security", "form")
  /\ net' = net + 1
  /\ UNCHANGED <<conf, record, stackStatus, radio, callbacks>>

\* The NCP accepts formNetwork while it is on no network.
FormNetwork ==
  /\ Step("form", IF stack = "down" THEN "waitUp" ELSE "off")
  /\ stack' = IF stack = "down" THEN "forming" ELSE stack
  /\ UNCHANGED <<host, stackStatus, flash, endpoint, policy, open, callbacks>>

WaitStackUp ==
  /\ stackStatus # <<>> /\ stackStatus' = Tail(stackStatus)
  /\ Step("waitUp", IF Head(stackStatus) = "UP" THEN "save" ELSE "waitUp")
  /\ UNCHANGED <<host, radio, callbacks>>

\* Best effort: a failure to write is logged.
SaveNetworkRecord ==
  /\ Step("save", "check")
  /\ \/ record' = net
     \/ UNCHANGED record
  /\ UNCHANGED <<conf, net, stackStatus, radio, callbacks>>

\* The second GetNetworkParameters, and Start's check of it.
CheckJoined ==
  /\ Step("check", IF Joined THEN Joining ELSE "off")
  /\ UNCHANGED <<host, stackStatus, radio, callbacks>>

-----------------------------------------------------------------------------
(***************************************************************************)
(* openForJoining and watchJoinWindow.                                     *)
(***************************************************************************)

\* The wide form, then the legacy one, then an error.
SetJoinPolicy ==
  /\ \/ Step("policy", "permit") /\ policy' = TRUE
     \/ Step("policy", "policyLegacy") /\ UNCHANGED policy
     \/ Step("policyLegacy", "permit") /\ policy' = TRUE
     \/ Step("policyLegacy", "off") /\ UNCHANGED policy
  /\ UNCHANGED <<host, stackStatus, flash, stack, endpoint, open, callbacks>>

PermitJoining ==
  /\ Step("permit", "serve")
  /\ open' = TRUE
  /\ UNCHANGED <<host, stackStatus, flash, stack, endpoint, policy, callbacks>>

\* Start is done: the watch waits for its ticker ("serve", or "failed" if its
\* last round failed or was refused, which it does not remember), checks the
\* link, or renews the window.
Serving == {"serve", "failed", "link", "renew"}

\* Mutant of WatchTicks: a round that failed ends the watch.
WatchTicksUnlessFailed ==
  /\ PermitJoin /\ pc = "serve" /\ pc' = "link"
  /\ UNCHANGED <<starts, host, stackStatus, radio, callbacks>>

WatchTicks ==
  /\ PermitJoin /\ pc \in {"serve", "failed"} /\ pc' = "link"
  /\ UNCHANGED <<starts, host, stackStatus, radio, callbacks>>

\* GetNetworkParameters fails, or is answered whatever it says.
WatchLink ==
  /\ Step("link", "renew") \/ Step("link", "failed")
  /\ UNCHANGED <<host, stackStatus, radio, callbacks>>

\* Mutant of WatchJoinWindow: only the link is checked.
WatchJoinWindowReads ==
  /\ Step("renew", "serve")
  /\ UNCHANGED <<host, stackStatus, radio, callbacks>>

\* permitJoining is asserted again.  The request may fail, before or after the
\* NCP acted on it; a refusal is logged as a status and otherwise ignored.
WatchJoinWindow ==
  /\ \/ Step("renew", "serve") /\ open' = TRUE
     \/ Step("renew", "failed") /\ open' \in {TRUE, open}
  /\ UNCHANGED <<host, stackStatus, flash, stack, endpoint, policy, callbacks>>

\* readLoop hands a stack status over; the channel drops when it is full.
HandleCallback ==
  /\ pc # "off" /\ callbacks # <<>>
  /\ callbacks' = Tail(callbacks)
  /\ stackStatus' = IF Len(stackStatus) < StatusCap
                      THEN Append(stackStatus, Head(callbacks)) ELSE stackStatus
  /\ UNCHANGED <<pc, starts, host, radio>>

-----------------------------------------------------------------------------
(***************************************************************************)
(* The NCP (external).                                                     *)
(***************************************************************************)

NcpDown ==
  /\ stack = "leaving"
  /\ stack' = "down" /\ flash' = 0 /\ open' = FALSE
  /\ callbacks' = Append(callbacks, "DOWN")
  /\ UNCHANGED <<pc, starts, host, stackStatus, endpoint, policy>>

NcpUp ==
  /\ stack = "forming"
  /\ stack' = "up" /\ flash' = net
  /\ callbacks' = Append(callbacks, "UP")
  /\ UNCHANGED <<pc, starts, host, stackStatus, endpoint, policy, open>>

\* The join window closes by itself.
NcpCloses ==
  /\ open /\ open' = FALSE
  /\ UNCHANGED <<pc, starts, host, stackStatus, flash, stack, endpoint, policy, callbacks>>

Next ==
  \/ Start \/ Abort
  \/ AddEndpoint \/ NetworkInit \/ GetNetworkParameters \/ LeaveNetwork \/ WaitDown
  \/ SetInitialSecurityState \/ FormNetwork \/ WaitStackUp \/ SaveNetworkRecord \/ CheckJoined
  \/ SetJoinPolicy \/ PermitJoining \/ WatchTicks \/ WatchLink \/ WatchJoinWindow
  \/ HandleCallback
  \/ NcpDown \/ NcpUp \/ NcpCloses

\* The ticker of watchJoinWindow fires, its requests end one way or the other
\* (AshLink's RequestsEnd), and readLoop reads on.  The NCP owes nothing.
Fairness ==
  /\ WF_vars(WatchTicks) /\ WF_vars(WatchLink) /\ WF_vars(WatchJoinWindow)
  /\ WF_vars(HandleCallback)

Spec == Init /\ [][Next]_vars /\ Fairness

-----------------------------------------------------------------------------

\* Without ForceForm a network that devices may have joined is never replaced,
\* over any number of crashes, timeouts and restarts (bringUpNetwork), as long
\* as the NCP does not refuse to resume it.
NeverOrphans == [][(~ForceForm /\ ~conf.refused /\ flash # 0) => flash' = flash]_vars

\* formNetwork is requested only once the NCP has left its old network, although
\* the status of its resumption may still be queued (leaveNetwork).
FormsWhenDown == pc = "form" => stack = "down"

\* While pairing is configured, a join window that closed is open again, under
\* the join policy, or the watch tries round after round, all in vain, for as long
\* as the adapter serves: it does not stop at a round that failed, and no round
\* passes for good that left the window closed (watchJoinWindow).
StaysOpen ==
  (PermitJoin /\ pc \in Serving /\ ~open) ~>
    ((open /\ policy) \/ pc = "off" \/ ([]<>(pc = "link") /\ []<>(pc = "failed")))

=============================================================================
