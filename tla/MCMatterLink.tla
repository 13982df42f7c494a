---------------------------- MODULE MCMatterLink ----------------------------
(***************************************************************************)
(* go-matter below the controller's exchanges, in one run: the message     *)
(* counters of a secure session (SecureSession), reading datagrams         *)
(* (UdpReceive) and the commissioning of a device (MatterCommissioning).   *)
(* They share no variable, so it is enough to check each by itself:        *)
(* `layer' says which one moves.                                           *)
(***************************************************************************)
EXTENDS SecureSession, Sequences

CONSTANTS Calls, MaxArrivals, MaxAttempts

VARIABLES
  layer,
  call, pc, ctxDone, watcher, stop, result, deadline, socket, arrived,
  rootKey, step, attempt, passcode, context, noc, requests, replies,
  peer, stage, armed, csrKey, root, installed, member

Udp == INSTANCE UdpReceive
Comm == INSTANCE MatterCommissioning

udpVars == <<call, pc, ctxDone, watcher, stop, result, deadline, socket, arrived>>
commVars == <<rootKey, step, attempt, passcode, context, noc, requests, replies,
              peer, stage, armed, csrKey, root, installed, member>>
allVars == <<vars, udpVars, commVars, layer>>

MCInit ==
  /\ Init /\ Udp!Init /\ Comm!CommInit
  /\ \/ layer = "session" /\ ~rootKey
     \/ layer = "udp" /\ txCounter = 0 /\ ~rootKey
     \/ layer = "commissioning" /\ txCounter = 0

SessionStep == layer = "session" /\ Next /\ UNCHANGED <<udpVars, commVars, layer>>
UdpStep == layer = "udp" /\ Udp!Next /\ UNCHANGED <<vars, commVars, layer>>
CommStep == layer = "commissioning" /\ Comm!CommNext /\ UNCHANGED <<vars, udpVars, layer>>

MCSpec ==
  MCInit /\ [][SessionStep \/ UdpStep \/ CommStep]_allVars /\ Udp!Fairness /\ Comm!CommFairness

WatchersEnd == Udp!WatchersEnd
CommissionedKept == Comm!CommissionedKept
FailedReverts == Comm!FailedReverts

=============================================================================
