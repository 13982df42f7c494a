----------------------------- MODULE HubProofs -----------------------------
(***************************************************************************)
(* Proofs about the hub and the radios below it: the transmit queue and    *)
(* the buttons of the RF adapter, the EZSP link and its coordinator, the   *)
(* zstack adapter, and the spine, for every value of their bounds.         *)
(***************************************************************************)
EXTENDS MCHub, TLAPS, WellFoundedInduction

USE NoneAssumption

\* The queue names exactly the waiting devices, each once; without it nothing
\* can be said about the slot that Pop reads.
QInv == TypeOK /\ QueueConsistent

-----------------------------------------------------------------------------

\* What enqueue does to the queue (enqueue, rf/driver.go).
LEMMA QueuedConsistent ==
  ASSUME QInv, NEW d \in Device, NEW t \in Tx,
         pending' = [pending EXCEPT ![d] = t], order' = Queued(d)
  PROVE  order' \in Seq(Device) /\ QueueConsistent'
<1>1. CASE pending[d] = None
  <2>1. order' = Append(order, d) /\ order' \in Seq(Device) /\ Len(order') = Len(order) + 1
    BY <1>1 DEF Queued, QInv, TypeOK
  <2>2. order'[Len(order) + 1] = d /\ \A i \in 1..Len(order) : order'[i] = order[i]
    BY <2>1 DEF QInv, TypeOK
  <2>3. \A i \in 1..Len(order) : order[i] # d
    BY <1>1 DEF QInv, QueueConsistent
  <2>4. \A i, j \in 1..Len(order') : order'[i] = order'[j] => i = j
    BY <2>1, <2>2, <2>3 DEF QInv, QueueConsistent, TypeOK
  <2>5. \A e \in Device : pending'[e] # None <=> \E i \in 1..Len(order') : order'[i] = e
    <3>1. SUFFICES ASSUME NEW e \in Device
                   PROVE  pending'[e] # None <=> \E i \in 1..Len(order') : order'[i] = e
      OBVIOUS
    <3>2. CASE e = d
      <4>1. pending'[e] # None
        BY <3>2 DEF QInv, TypeOK, Slot
      <4>2. Len(order) + 1 \in 1..Len(order')
        BY <2>1 DEF QInv, TypeOK
      <4> QED BY <4>1, <4>2, <2>2, <3>2
    <3>3. CASE e # d
      <4>1. pending'[e] = pending[e]
        BY <3>3 DEF QInv, TypeOK, Slot
      <4>2. (\E i \in 1..Len(order') : order'[i] = e) <=> (\E i \in 1..Len(order) : order[i] = e)
        BY <2>1, <2>2, <3>3 DEF QInv, TypeOK
      <4> QED BY <4>1, <4>2 DEF QInv, QueueConsistent
    <3> QED BY <3>2, <3>3
  <2> QED BY <2>1, <2>4, <2>5 DEF QueueConsistent
<1>2. CASE pending[d] # None
  <2>1. order' = order
    BY <1>2 DEF Queued
  <2>2. \A e \in Device : pending'[e] # None <=> pending[e] # None
    BY <1>2 DEF QInv, TypeOK, Slot
  <2> QED BY <2>1, <2>2 DEF QInv, QueueConsistent, TypeOK
<1> QED BY <1>1, <1>2

\* What pop does to the queue (pop, rf/driver.go).
LEMMA PopConsistent ==
  ASSUME QInv, order # <<>>, order' = Tail(order),
         pending' = [pending EXCEPT ![Head(order)] = None]
  PROVE  /\ Head(order) \in Device /\ pending[Head(order)] \in Tx
         /\ order' \in Seq(Device) /\ QueueConsistent'
<1>1. /\ Head(order) = order[1] /\ order[1] \in Device /\ Len(order) >= 1
      /\ order' \in Seq(Device) /\ Len(order') = Len(order) - 1
      /\ \A i \in 1..Len(order') : order'[i] = order[i + 1]
  BY DEF QInv, TypeOK
<1>2. pending[order[1]] # None
  BY <1>1 DEF QInv, QueueConsistent
<1>3. pending[Head(order)] \in Tx
  BY <1>1, <1>2 DEF QInv, TypeOK, Slot
<1>4. \A i, j \in 1..Len(order') : order'[i] = order'[j] => i = j
  BY <1>1 DEF QInv, QueueConsistent, TypeOK
<1>5. \A e \in Device : pending'[e] # None <=> \E i \in 1..Len(order') : order'[i] = e
  <2>1. SUFFICES ASSUME NEW e \in Device
                 PROVE  pending'[e] # None <=> \E i \in 1..Len(order') : order'[i] = e
    OBVIOUS
  <2>2. CASE e = order[1]
    <3>1. pending'[e] = None
      BY <2>2, <1>1 DEF QInv, TypeOK, Slot
    <3>2. \A i \in 1..Len(order') : order[i + 1] # order[1]
      BY <1>1 DEF QInv, QueueConsistent, TypeOK
    <3> QED BY <3>1, <3>2, <1>1, <2>2
  <2>3. CASE e # order[1]
    <3>1. pending'[e] = pending[e]
      BY <2>3, <1>1 DEF QInv, TypeOK, Slot
    <3>2. ASSUME NEW i \in 1..Len(order), order[i] = e
          PROVE  i - 1 \in 1..Len(order') /\ order'[i - 1] = e
      BY <3>2, <2>3, <1>1 DEF QInv, TypeOK
    <3>3. ASSUME NEW i \in 1..Len(order'), order'[i] = e
          PROVE  i + 1 \in 1..Len(order) /\ order[i + 1] = e
      BY <3>3, <1>1 DEF QInv, TypeOK
    <3> QED BY <3>1, <3>2, <3>3 DEF QInv, QueueConsistent
  <2> QED BY <2>2, <2>3
<1> QED BY <1>1, <1>3, <1>4, <1>5 DEF QueueConsistent

-----------------------------------------------------------------------------

LEMMA QInvInit == Init => QInv
<1> SUFFICES ASSUME Init PROVE QInv
  OBVIOUS
<1>1. order \in Seq(Device) /\ Len(order) = 0
  BY DEF Init
<1>2. TypeOK
  BY <1>1 DEF Init, TypeOK, Slot, Unset
<1>3. QueueConsistent
  BY <1>1 DEF Init, QueueConsistent, Unset
<1> QED BY <1>2, <1>3 DEF QInv

LEMMA QInvNext == QInv /\ [Next]_vars => QInv'
<1> SUFFICES ASSUME QInv, [Next]_vars PROVE QInv'
  OBVIOUS
<1>1. ASSUME NEW d \in Device, NEW t \in Tx, Enqueue(d, t) PROVE QInv'
  <2>1. order' \in Seq(Device) /\ QueueConsistent'
    BY <1>1, QueuedConsistent DEF Enqueue
  <2>2. TypeOK'
    BY <1>1, <2>1 DEF Enqueue, QInv, TypeOK, Slot
  <2> QED BY <2>1, <2>2 DEF QInv
<1>2. CASE Signal
  BY <1>2 DEF Signal, hist, QInv, TypeOK, QueueConsistent
<1>3. CASE PopEmpty
  BY <1>3 DEF PopEmpty, hist, QInv, TypeOK, QueueConsistent
<1>4. CASE Pop
  <2>1. /\ Head(order) \in Device /\ pending[Head(order)] \in Tx
        /\ order' \in Seq(Device) /\ QueueConsistent'
    BY <1>4, PopConsistent DEF Pop
  <2>2. TypeOK'
    BY <1>4, <2>1 DEF Pop, QInv, TypeOK, Slot
  <2> QED BY <2>1, <2>2 DEF QInv
<1>5. CASE WakeUp
  BY <1>5 DEF WakeUp, hist, QInv, TypeOK, QueueConsistent
<1>6. CASE Publish
  <2>1. TypeOK'
    BY <1>6 DEF Publish, QInv, TypeOK, Slot
  <2>2. QueueConsistent'
    BY <1>6 DEF Publish, QInv, QueueConsistent
  <2> QED BY <2>1, <2>2 DEF QInv
<1>7. CASE Pace
  BY <1>7 DEF Pace, hist, QInv, TypeOK, QueueConsistent
<1>8. CASE Stop
  BY <1>8 DEF Stop, hist, QInv, TypeOK, QueueConsistent
<1>9. CASE UNCHANGED vars
  BY <1>9 DEF vars, QInv, TypeOK, QueueConsistent
<1> QED BY <1>1, <1>2, <1>3, <1>4, <1>5, <1>6, <1>7, <1>8, <1>9 DEF Next, Loop

\* The queue keeps its types and names exactly the waiting devices, each once
\* (pending and order, rf/driver.go).
THEOREM QueueIsConsistent == Spec => [](TypeOK /\ QueueConsistent)
<1>1. QInv => TypeOK /\ QueueConsistent
  BY DEF QInv
<1> QED BY <1>1, QInvInit, QInvNext, PTL DEF Spec

\* The Start loop never sleeps over a queued command (the wake channel).
THEOREM WakeupNeverLost == Spec => []NoLostWakeup
<1>1. Init => NoLostWakeup
  BY DEF Init, NoLostWakeup
<1>2. NoLostWakeup /\ [Next]_vars => NoLostWakeup'
  BY DEF NoLostWakeup, Next, Loop, vars, hist, Enqueue, Queued, Signal, PopEmpty, Pop,
         WakeUp, Publish, Pace, Stop
<1> QED BY <1>1, <1>2, PTL DEF Spec

\* A device with nothing waiting was last served the last command asked for.
THEOREM LatestCommandWins == Spec => []LatestWins
<1>1. Init => LatestWins
  BY DEF Init, LatestWins, Unset
<1>2. QInv /\ LatestWins /\ [Next]_vars => LatestWins'
  <2> SUFFICES ASSUME QInv, LatestWins, [Next]_vars PROVE LatestWins'
    OBVIOUS
  <2>1. ASSUME NEW d \in Device, NEW t \in Tx, Enqueue(d, t) PROVE LatestWins'
    BY <2>1 DEF Enqueue, LatestWins, QInv, TypeOK, Slot
  <2>2. CASE Pop
    <3>1. Head(order) \in Device /\ pending[Head(order)] \in Tx
      BY <2>2, PopConsistent DEF Pop
    <3> QED BY <2>2, <3>1 DEF Pop, LatestWins, QInv, TypeOK, Slot
  <2>3. CASE Signal \/ PopEmpty \/ WakeUp \/ Publish \/ Pace \/ Stop \/ UNCHANGED vars
    BY <2>3 DEF Signal, PopEmpty, WakeUp, Publish, Pace, Stop, vars, hist, LatestWins
  <2> QED BY <2>1, <2>2, <2>3 DEF Next, Loop
<1> QED BY <1>1, <1>2, QInvInit, QInvNext, PTL DEF Spec

\* The mutex-protected queue implements the latest-intent service: each of its
\* steps asks for, serves, or does not touch a device's intent.
THEOREM ImplementsLatestIntent == Spec => IntentSpec
<1>1. Init => Intent!Init
  BY DEF Init, Intent!Init, Unset
<1>2. QInv /\ [Next]_vars => [Intent!Next]_<<pending, taken>>
  <2> SUFFICES ASSUME QInv, [Next]_vars PROVE [Intent!Next]_<<pending, taken>>
    OBVIOUS
  <2>1. ASSUME NEW d \in Device, NEW t \in Tx, Enqueue(d, t) PROVE Intent!Next
    BY <2>1 DEF Enqueue, Intent!Next, Intent!Ask
  <2>2. CASE Pop
    <3>1. Head(order) \in Device /\ pending[Head(order)] \in Tx
      BY <2>2, PopConsistent DEF Pop
    <3>2. Intent!Serve(Head(order))
      BY <2>2, <3>1 DEF Pop, Intent!Serve
    <3> QED BY <3>1, <3>2 DEF Intent!Next
  <2>3. CASE Signal \/ PopEmpty \/ WakeUp \/ Publish \/ Pace \/ Stop \/ UNCHANGED vars
    BY <2>3 DEF Signal, PopEmpty, WakeUp, Publish, Pace, Stop, vars, hist
  <2> QED BY <2>1, <2>2, <2>3 DEF Next, Loop
<1> QED BY <1>1, <1>2, QInvInit, QInvNext, PTL DEF Spec, IntentSpec, Intent!Spec

-----------------------------------------------------------------------------
(***************************************************************************)
(* The button does not depend on the order in which Go ranges over the map *)
(* of speeds.                                                              *)
(***************************************************************************)

\* What the range loop has established about the keys it has visited.
RemoteInv == RemoteTypeOK /\ PickedSoFar

LEMMA RemoteInvInit == RemoteInit => RemoteInv
BY TopAssumption DEF RemoteInit, RemoteInv, RemoteTypeOK, PickedSoFar

LEMMA RemoteInvNext == RemoteInv /\ [RemoteNext]_remoteVars => RemoteInv'
<1> SUFFICES ASSUME RemoteInv, [RemoteNext]_remoteVars PROVE RemoteInv'
  OBVIOUS
<1> USE TopAssumption DEF RemoteInv, RemoteTypeOK, Level
<1>1. ASSUME NEW l \in Level, LowestSpeed(l) PROVE RemoteInv'
  <2>1. RemoteTypeOK'
    BY <1>1 DEF LowestSpeed
  <2>2. speeds' \ todo' = (speeds \ todo) \cup {l}
    BY <1>1 DEF LowestSpeed
  <2>3. PickedSoFar'
    BY <1>1, <2>2 DEF LowestSpeed, PickedSoFar
  <2> QED BY <2>1, <2>3
<1>2. ASSUME NEW l \in Level, NearestSpeed(l) PROVE RemoteInv'
  <2>1. RemoteTypeOK'
    BY <1>2 DEF NearestSpeed, Better, Distance
  <2>2. speeds' \ todo' = (speeds \ todo) \cup {l}
    BY <1>2 DEF NearestSpeed
  <2>3. PickedSoFar'
    <3>1. CASE Better(l)
      <4>1. best' = Distance(l) /\ level' = l /\ want' = want
        BY <1>2, <3>1 DEF NearestSpeed
      <4>2. \A k \in speeds \ todo : best' < Distance(k) \/ (best' = Distance(k) /\ l >= k)
        BY <1>2, <3>1, <4>1 DEF NearestSpeed, Better, Distance, PickedSoFar
      <4> QED BY <1>2, <2>2, <4>1, <4>2 DEF NearestSpeed, PickedSoFar, Distance
    <3>2. CASE ~Better(l)
      BY <1>2, <2>2, <3>2 DEF NearestSpeed, Better, PickedSoFar, Distance
    <3> QED BY <3>1, <3>2
  <2> QED BY <2>1, <2>3
<1>3. CASE UNCHANGED remoteVars
  BY <1>3 DEF remoteVars, PickedSoFar, Distance
<1> QED BY <1>1, <1>2, <1>3 DEF RemoteNext

\* lowestSpeed and nearestSpeed return the lowest and the nearest level (a tie
\* goes up), whatever the iteration order and however many speeds there are.
THEOREM ButtonIsDetermined == RemoteSpec => []ButtonDetermined
<1>1. RemoteInv => ButtonDetermined
  <2> SUFFICES ASSUME RemoteInv, todo = {} PROVE ButtonDetermined
    BY DEF ButtonDetermined
  <2>a. speeds # {}
    BY DEF RemoteInv, RemoteTypeOK
  <2>b. \A l : l \in speeds \ todo <=> l \in speeds
    OBVIOUS
  <2>1. speeds \ todo = speeds /\ speeds # {}
    BY <2>a, <2>b, Zenon
  <2>2. level \in speeds
    BY <2>1 DEF RemoteInv, PickedSoFar
  <2>3. want = 0 => \A l \in speeds : level <= l
    BY <2>1 DEF RemoteInv, PickedSoFar
  <2>4. want > 0 => \A l \in speeds :
            Distance(level) < Distance(l) \/ (Distance(level) = Distance(l) /\ level >= l)
    BY <2>1 DEF RemoteInv, PickedSoFar
  <2> QED BY <2>2, <2>3, <2>4 DEF ButtonDetermined
<1> QED BY <1>1, RemoteInvInit, RemoteInvNext, PTL DEF RemoteSpec

-----------------------------------------------------------------------------
\* A queue stays typed when its type grows, and when an element goes in or out.
LEMMA QueueTyped ==
  ASSUME NEW S, NEW T, S \subseteq T, NEW s \in Seq(S)
  PROVE  /\ s \in Seq(T)
         /\ \A x \in T : Append(s, x) \in Seq(T)
         /\ s # <<>> => Head(s) \in T /\ Tail(s) \in Seq(T)
  OBVIOUS

-----------------------------------------------------------------------------
(***************************************************************************)
(* bringUpNetwork.                                                         *)
(***************************************************************************)

\* NETWORK_DOWN is on its way to Start, in the channel or before it.
DownQueued ==
  \/ \E k \in 1..Len(stackStatus) : stackStatus[k] = "DOWN"
  \/ \E k \in 1..Len(callbacks) : callbacks[k] = "DOWN"

\* What a step of Start may take for granted about the NCP.  The status that
\* leaveNetwork waits for is queued only after the NCP has left, and no earlier
\* one can be mistaken for it, because Start empties the queue.
BringUpInv ==
  /\ stackStatus \in Seq({"UP", "DOWN"}) /\ callbacks \in Seq({"UP", "DOWN"})
  /\ pc \in {"addEndpoint", "networkInit", "security", "form"} => stack = "down"
  /\ pc \in {"params", "leave"} => stack \in {"up", "down"}
  /\ pc \in {"addEndpoint", "networkInit", "params", "leave"} => ~DownQueued
  /\ pc = "waitDown" => stack = "down" \/ (stack = "leaving" /\ ~DownQueued)

\* Without ForceForm the NCP never leaves a network, and it forms one only when
\* it stores none: GetNetworkParameters finds it down only then.
StoredKeptInv ==
  (~conf.forceForm /\ ~conf.refused) =>
    /\ stack # "leaving" /\ pc \notin {"leave", "waitDown"}
    /\ pc = "params" => (stack = "down" => flash = 0)
    /\ pc \in {"security", "form"} \/ stack = "forming" => flash = 0

LEMMA BringUpInit == Network!Init => BringUpInv /\ StoredKeptInv
  BY DEF Network!Init, BringUpInv, StoredKeptInv, DownQueued

\* Appending one status, as the NCP and readLoop do, and taking one off.
LEMMA StatusQueues ==
  ASSUME NEW s \in Seq({"UP", "DOWN"}), NEW x \in {"UP", "DOWN"}
  PROVE  /\ Append(s, x) \in Seq({"UP", "DOWN"})
         /\ (\E k \in 1..Len(Append(s, x)) : Append(s, x)[k] = "DOWN")
              => x = "DOWN" \/ \E k \in 1..Len(s) : s[k] = "DOWN"
         /\ s # <<>> =>
              /\ Head(s) \in {"UP", "DOWN"} /\ Tail(s) \in Seq({"UP", "DOWN"})
              /\ Head(s) = "DOWN" => \E k \in 1..Len(s) : s[k] = "DOWN"
              /\ (\E k \in 1..Len(Tail(s)) : Tail(s)[k] = "DOWN") => \E k \in 1..Len(s) : s[k] = "DOWN"
  OBVIOUS

LEMMA BringUpNext == BringUpInv /\ [Network!Next]_networkVars => BringUpInv'
<1> SUFFICES ASSUME BringUpInv, [Network!Next]_networkVars PROVE BringUpInv'
  OBVIOUS
<1> USE DEF BringUpInv
<1>1. CASE Network!Start
  BY <1>1 DEF Network!Start, DownQueued
<1>2. CASE Network!Abort
  BY <1>2 DEF Network!Abort, Network!radio, DownQueued
<1>3. CASE Network!AddEndpoint
  BY <1>3 DEF Network!AddEndpoint, Network!Step, DownQueued
<1>4. CASE Network!NetworkInit
  <2>1. CASE stack' = "up" /\ callbacks' = Append(callbacks, "UP")
    <3>1. callbacks' \in Seq({"UP", "DOWN"}) /\ ~DownQueued'
      BY <1>4, <2>1, StatusQueues DEF Network!NetworkInit, Network!Step, DownQueued
    <3> QED BY <1>4, <2>1, <3>1 DEF Network!NetworkInit, Network!Step
  <2>2. CASE UNCHANGED <<stack, callbacks>>
    BY <1>4, <2>2 DEF Network!NetworkInit, Network!Step, DownQueued
  <2> QED BY <1>4, <2>1, <2>2 DEF Network!NetworkInit
<1>5. CASE Network!GetNetworkParameters
  BY <1>5 DEF Network!GetNetworkParameters, Network!Step, Network!Joined, Network!Joining,
              Network!radio, Network!ForceForm, DownQueued
<1>6. CASE Network!LeaveNetwork
  BY <1>6 DEF Network!LeaveNetwork, Network!Step, DownQueued
<1>7. CASE Network!WaitDown
  <2>1. stackStatus' \in Seq({"UP", "DOWN"}) /\ (Head(stackStatus) = "DOWN" \/ DownQueued' => DownQueued)
    BY <1>7, StatusQueues DEF Network!WaitDown, DownQueued
  <2> QED BY <1>7, <2>1 DEF Network!WaitDown, Network!Step, Network!radio
<1>8. CASE Network!SetInitialSecurityState
  BY <1>8 DEF Network!SetInitialSecurityState, Network!Step, Network!radio, DownQueued
<1>9. CASE Network!FormNetwork
  BY <1>9 DEF Network!FormNetwork, Network!Step, DownQueued
<1>10. CASE Network!WaitStackUp
  BY <1>10, StatusQueues DEF Network!WaitStackUp, Network!Step, Network!radio
<1>11. CASE Network!SaveNetworkRecord \/ Network!CheckJoined
  BY <1>11 DEF Network!SaveNetworkRecord, Network!CheckJoined, Network!Step, Network!Joined,
               Network!Joining, Network!radio, DownQueued
<1>12. CASE \/ Network!SetJoinPolicy \/ Network!PermitJoining
            \/ Network!WatchTicks \/ Network!WatchLink \/ Network!WatchJoinWindow
  BY <1>12 DEF Network!SetJoinPolicy, Network!PermitJoining, Network!WatchTicks, Network!WatchLink,
               Network!WatchJoinWindow, Network!Step, Network!radio, DownQueued
<1>13. CASE Network!HandleCallback
  <2>1. /\ callbacks' \in Seq({"UP", "DOWN"}) /\ stackStatus' \in Seq({"UP", "DOWN"})
        /\ DownQueued' => DownQueued
    BY <1>13, StatusQueues DEF Network!HandleCallback, DownQueued
  <2> QED BY <1>13, <2>1 DEF Network!HandleCallback, Network!radio
<1>14. CASE Network!NcpDown
  BY <1>14, StatusQueues DEF Network!NcpDown
<1>15. CASE Network!NcpUp
  BY <1>15, StatusQueues DEF Network!NcpUp
<1>16. CASE Network!NcpCloses \/ UNCHANGED networkVars
  BY <1>16 DEF Network!NcpCloses, networkVars, DownQueued
<1> QED
  BY <1>1, <1>2, <1>3, <1>4, <1>5, <1>6, <1>7, <1>8, <1>9, <1>10, <1>11, <1>12, <1>13, <1>14,
     <1>15, <1>16 DEF Network!Next

LEMMA StoredKeptNext ==
  BringUpInv /\ StoredKeptInv /\ [Network!Next]_networkVars => StoredKeptInv'
<1> SUFFICES ASSUME BringUpInv, StoredKeptInv, [Network!Next]_networkVars,
                    ~conf'.forceForm, ~conf'.refused
             PROVE  StoredKeptInv'
  BY DEF StoredKeptInv
<1> USE DEF StoredKeptInv
<1>1. conf' = conf
  BY DEF Network!Next, Network!Start, Network!Abort, Network!AddEndpoint, Network!NetworkInit,
         Network!GetNetworkParameters, Network!LeaveNetwork, Network!WaitDown,
         Network!SetInitialSecurityState, Network!FormNetwork, Network!WaitStackUp,
         Network!SaveNetworkRecord, Network!CheckJoined, Network!SetJoinPolicy,
         Network!PermitJoining, Network!WatchTicks, Network!WatchLink, Network!WatchJoinWindow,
         Network!HandleCallback, Network!NcpDown, Network!NcpUp, Network!NcpCloses, Network!host,
         networkVars
<1>2. CASE Network!Start \/ Network!Abort
  BY <1>1, <1>2 DEF Network!Start, Network!Abort, Network!radio
<1>3. CASE Network!AddEndpoint \/ Network!NetworkInit
  BY <1>1, <1>3 DEF Network!AddEndpoint, Network!NetworkInit, Network!Step, BringUpInv
<1>4. CASE Network!GetNetworkParameters \/ Network!LeaveNetwork
  BY <1>1, <1>4 DEF Network!GetNetworkParameters, Network!LeaveNetwork, Network!Step, BringUpInv,
                    Network!Joined, Network!Joining, Network!ForceForm, Network!radio
<1>5. CASE Network!WaitDown \/ Network!SetInitialSecurityState \/ Network!FormNetwork
  BY <1>1, <1>5 DEF Network!WaitDown, Network!SetInitialSecurityState, Network!FormNetwork,
                    Network!Step, Network!radio
<1>6. CASE Network!WaitStackUp \/ Network!SaveNetworkRecord \/ Network!CheckJoined
  BY <1>1, <1>6 DEF Network!WaitStackUp, Network!SaveNetworkRecord, Network!CheckJoined,
                    Network!Step, Network!Joined, Network!Joining, Network!radio
<1>7. CASE \/ Network!SetJoinPolicy \/ Network!PermitJoining \/ Network!HandleCallback
           \/ Network!WatchTicks \/ Network!WatchLink \/ Network!WatchJoinWindow
  BY <1>1, <1>7 DEF Network!SetJoinPolicy, Network!PermitJoining, Network!WatchTicks, Network!WatchLink,
                    Network!WatchJoinWindow, Network!HandleCallback, Network!Step, Network!radio
<1>8. CASE Network!NcpDown \/ Network!NcpUp \/ Network!NcpCloses \/ UNCHANGED networkVars
  BY <1>1, <1>8 DEF Network!NcpDown, Network!NcpUp, Network!NcpCloses, networkVars, BringUpInv
<1> QED BY <1>2, <1>3, <1>4, <1>5, <1>6, <1>7, <1>8 DEF Network!Next

LEMMA BringUpAlways == MCSpec => [](BringUpInv /\ StoredKeptInv)
<1>1. MCInit => BringUpInv /\ StoredKeptInv
  BY BringUpInit DEF MCInit
<1>2. [MCNext]_allVars => [Network!Next]_networkVars
  BY DEF MCNext, allVars
<1> QED BY <1>1, <1>2, BringUpNext, StoredKeptNext, PTL DEF MCSpec

\* Without ForceForm, bringUpNetwork never replaces a network that devices may
\* have joined, over any number of crashes, timeouts and restarts.
THEOREM NetworkKept == MCSpec => NeverOrphans
<1>1. BringUpInv /\ StoredKeptInv /\ [MCNext]_allVars
        => [(~Network!ForceForm /\ ~conf.refused /\ flash # 0) => flash' = flash]_Network!vars
  <2> SUFFICES ASSUME StoredKeptInv, [Network!Next]_networkVars,
                      ~conf.forceForm, ~conf.refused, flash # 0
               PROVE  flash' = flash
    BY DEF MCNext, allVars, networkVars, Network!vars, Network!ForceForm
  <2>1. stack \notin {"leaving", "forming"}
    BY DEF StoredKeptInv
  <2> QED
    BY <2>1
    DEF Network!Next, Network!Start, Network!Abort, Network!AddEndpoint, Network!NetworkInit,
        Network!GetNetworkParameters, Network!LeaveNetwork, Network!WaitDown,
        Network!SetInitialSecurityState, Network!FormNetwork, Network!WaitStackUp,
        Network!SaveNetworkRecord, Network!CheckJoined, Network!SetJoinPolicy,
        Network!PermitJoining, Network!WatchTicks, Network!WatchLink, Network!WatchJoinWindow,
        Network!HandleCallback, Network!NcpDown, Network!NcpUp, Network!NcpCloses, Network!radio,
        networkVars
<1> QED BY <1>1, BringUpAlways, PTL DEF MCSpec, NeverOrphans, Network!NeverOrphans

-----------------------------------------------------------------------------
(***************************************************************************)
(* The EZSP link.                                                          *)
(***************************************************************************)

\* Frames to the NCP, when n requests were made.
ToNcp(m) == [frm : Nat, of : 1..m]

\* Frames to the host, when the NCP has accepted the requests in A.
ToHost(A) == [type : {"ACK", "NAK", "ERROR", "DATA"}, ack : Nat \cup {None}, of : A \cup {None}]

\* Whatever carries a response carries one to a request the NCP accepted, and
\* request waits for its own sequence number.
LinkInv ==
  /\ n \in Nat /\ n <= Requests
  /\ accepted \subseteq 1..n /\ linkTodo \subseteq accepted
  /\ toNcp \in Seq(ToNcp(n))
  /\ txSeq \in Nat
  /\ toHost \in Seq(ToHost(accepted))
  /\ expected \in Nat
  /\ data \in Seq(accepted \cup {None})
  /\ linkPending = IF linkPc = "idle" THEN None ELSE n % SeqMod
  /\ (linkPc # "idle" /\ answer # None) => answer \in accepted /\ answer % SeqMod = n % SeqMod
  /\ (linkPc = "idle" /\ result # None) => result \in accepted /\ result % SeqMod = n % SeqMod

\* A request returns a response whose sequence number is its own: to its own
\* command, unless a response has been on its way for SeqMod requests.
ResponseInStep ==
  (linkPc = "idle" /\ result # None) => result \in accepted /\ result \in 1..n /\ result % SeqMod = n % SeqMod

\* The frames the driver and the NCP put on the line, and how the types grow.
LEMMA Frames ==
  ASSUME NEW A, NEW B, A \subseteq B, NEW m \in Nat
  PROVE  /\ ToNcp(m) \subseteq ToNcp(m + 1)
         /\ \A s \in Nat : [frm |-> s, of |-> m + 1] \in ToNcp(m + 1)
         /\ ToHost(A) \subseteq ToHost(B)
         /\ \A a \in Nat : /\ Link!Ack(a) \in ToHost(A) /\ Link!Nak(a) \in ToHost(A)
                           /\ \A r \in A \cup {None} : Link!Data(a, r) \in ToHost(A)
         /\ Link!Error \in ToHost(A)
<1>1. ToNcp(m) \subseteq ToNcp(m + 1)
  BY DEF ToNcp
<1>2. \A s \in Nat : [frm |-> s, of |-> m + 1] \in ToNcp(m + 1)
  BY DEF ToNcp
<1>3. ToHost(A) \subseteq ToHost(B)
  BY DEF ToHost
<1>4. \A a \in Nat : /\ Link!Ack(a) \in ToHost(A) /\ Link!Nak(a) \in ToHost(A)
                     /\ \A r \in A \cup {None} : Link!Data(a, r) \in ToHost(A)
  BY DEF ToHost, Link!Ack, Link!Nak, Link!Data
<1>5. Link!Error \in ToHost(A)
  BY DEF ToHost, Link!Error
<1> QED BY <1>1, <1>2, <1>3, <1>4, <1>5

LEMMA Modulo == ASSUME NEW m \in Nat, NEW a \in Nat, a < m PROVE a % m = a
  OBVIOUS

LEMMA LinkInit == ASSUME Requests \in Nat PROVE Link!Init => LinkInv
  BY DEF Link!Init, LinkInv

LEMMA LinkNext ==
  ASSUME Requests \in Nat, LinkInv, [Link!Next]_linkVars
  PROVE  LinkInv'
<1> USE DEF LinkInv
<1>1. CASE Link!Request \/ Link!WriteError
  <2>1. n' = n + 1 /\ n' \in Nat /\ n' <= Requests /\ 1..n \subseteq 1..n' /\ txSeq' \in Nat
    BY <1>1 DEF Link!Request, Link!WriteError
  <2>2. accepted' = accepted /\ accepted' \subseteq 1..n'
    BY <1>1, <2>1 DEF Link!Request, Link!WriteError, Link!ncp
  <2>3. ToNcp(n) \subseteq ToNcp(n') /\ [frm |-> txSeq, of |-> n'] \in ToNcp(n')
    BY <2>1, Frames
  <2>4. toNcp' = Append(toNcp, [frm |-> txSeq, of |-> n']) \/ toNcp' = toNcp
    BY <1>1, <2>1 DEF Link!Request, Link!WriteError, Link!line
  <2>5. toNcp' \in Seq(ToNcp(n'))
    <3>1. toNcp \in Seq(ToNcp(n')) /\ \A x \in ToNcp(n') : Append(toNcp, x) \in Seq(ToNcp(n'))
      BY <2>3, QueueTyped
    <3> QED BY <2>3, <2>4, <3>1, Zenon
  <2>6. CASE Link!Request
    BY <2>1, <2>2, <2>5, <2>6 DEF Link!Request, Link!conn, Link!ncp
  <2>7. CASE Link!WriteError
    BY <2>1, <2>2, <2>5, <2>7 DEF Link!WriteError, Link!Finish, Link!conn, Link!line, Link!ncp
  <2> QED BY <1>1, <2>6, <2>7
<1>2. CASE Link!SendAcked
  BY <1>2 DEF Link!SendAcked, Link!line, Link!ncp
<1>3. CASE Link!SendError \/ Link!SendTimeout \/ Link!Answered \/ Link!WaitTimeout
  BY <1>3 DEF Link!SendError, Link!SendTimeout, Link!Answered, Link!WaitTimeout, Link!Finish,
              Link!conn, Link!line, Link!ncp
<1>4. CASE Link!Serve \/ Link!StartReturns \/ Link!RecvError \/ Link!PortError
  BY <1>4 DEF Link!Serve, Link!StartReturns, Link!RecvError, Link!PortError, Link!request,
              Link!conn, Link!line, Link!ncp
<1>5. CASE Link!Deliver
  <2>1. Head(data) \in accepted \cup {None} /\ data' \in Seq(accepted \cup {None})
    BY <1>5, QueueTyped DEF Link!Deliver
  <2> QED BY <1>5, <2>1 DEF Link!Deliver, Link!Matches, Link!line, Link!ncp
<1>6. CASE Link!Dispatch
  <2>1. Head(toHost) \in ToHost(accepted) /\ toHost' \in Seq(ToHost(accepted))
    BY <1>6, QueueTyped DEF Link!Dispatch
  <2>2. Head(toHost).of \in accepted \cup {None}
    BY <2>1 DEF ToHost
  <2>3. data' \in Seq(accepted \cup {None})
    BY <1>6, <2>2, QueueTyped DEF Link!Dispatch
  <2> QED BY <1>6, <2>1, <2>3 DEF Link!Dispatch, Link!request, Link!ncp
<1>7. CASE Link!NcpReceive
  <2>1. Head(toNcp) \in ToNcp(n) /\ toNcp' \in Seq(ToNcp(n))
    BY <1>7, QueueTyped DEF Link!NcpReceive
  <2>2. expected' \in Nat /\ (expected + 1) % 8 \in Nat
    BY <1>7 DEF Link!NcpReceive, Link!ncp
  <2>3. accepted' \subseteq 1..n /\ accepted \subseteq accepted' /\ linkTodo' \subseteq accepted'
    BY <1>7, <2>1 DEF Link!NcpReceive, Link!ncp, ToNcp
  <2>4. /\ \A a \in Nat : Link!Ack(a) \in ToHost(accepted') /\ Link!Nak(a) \in ToHost(accepted')
        /\ ToHost(accepted) \subseteq ToHost(accepted')
    BY <2>3, Frames
  <2>5. toHost' \in Seq(ToHost(accepted'))
    <3>1. \/ toHost' = toHost
          \/ \E a \in Nat : toHost' \in {Append(toHost, Link!Ack(a)), Append(toHost, Link!Nak(a))}
      BY <1>7, <2>2 DEF Link!NcpReceive
    <3> QED BY <2>4, <3>1, QueueTyped
  <2>6. data' \in Seq(accepted' \cup {None})
    <3>1. accepted \cup {None} \subseteq accepted' \cup {None}
      BY <2>3
    <3> QED BY <1>7, <3>1, QueueTyped DEF Link!NcpReceive, Link!conn
  <2> QED BY <1>7, <2>1, <2>2, <2>3, <2>5, <2>6 DEF Link!NcpReceive, Link!request, Link!conn
<1>8. CASE Link!NcpRespond
  <2>1. PICK r \in linkTodo : linkTodo' = linkTodo \ {r} /\ toHost' = Append(toHost, Link!Data(expected, r))
    BY <1>8 DEF Link!NcpRespond
  <2>2. Link!Data(expected, r) \in ToHost(accepted)
    BY <2>1, Frames
  <2>3. toHost' \in Seq(ToHost(accepted))
    BY <2>1, <2>2, QueueTyped
  <2> QED BY <1>8, <2>1, <2>3 DEF Link!NcpRespond, Link!request, Link!conn
<1>9. CASE Link!NcpExtra
  <2>1. PICK f \in {Link!Error} \cup {Link!Data(expected, r) : r \in {None} \cup (accepted \ linkTodo)} :
          toHost' = Append(toHost, f)
    BY <1>9 DEF Link!NcpExtra
  <2>2. f \in ToHost(accepted)
    BY <2>1, Frames
  <2>3. toHost' \in Seq(ToHost(accepted))
    BY <2>1, <2>2, QueueTyped
  <2> QED BY <1>9, <2>3 DEF Link!NcpExtra, Link!request, Link!conn, Link!ncp
<1>10. CASE Link!Corrupt
  <2>1. toNcp' \in Seq(ToNcp(n)) /\ toHost' \in Seq(ToHost(accepted))
    BY <1>10, QueueTyped DEF Link!Corrupt
  <2> QED BY <1>10, <2>1 DEF Link!Corrupt, Link!request, Link!conn, Link!ncp
<1>11. CASE UNCHANGED linkVars
  BY <1>11 DEF linkVars
<1> QED
  BY <1>1, <1>2, <1>3, <1>4, <1>5, <1>6, <1>7, <1>8, <1>9, <1>10, <1>11 DEF Link!Next

LEMMA LinkAlways == ASSUME Requests \in Nat PROVE MCSpec => []LinkInv
<1>1. MCInit => LinkInv
  BY LinkInit DEF MCInit
<1>2. LinkInv /\ [MCNext]_allVars => LinkInv'
  BY LinkNext DEF MCNext, allVars
<1> QED BY <1>1, <1>2, PTL DEF MCSpec

\* Whatever the line loses, repeats or delays, a request of the EZSP driver
\* returns a response with its own sequence number to a command the NCP accepted
\* (request, deliver).
THEOREM ResponsesInStep == ASSUME Requests \in Nat PROVE MCSpec => []ResponseInStep
<1>1. LinkInv => ResponseInStep
  BY DEF LinkInv, ResponseInStep
<1> QED BY <1>1, LinkAlways, PTL

\* Until sequence numbers come round, that is the response to its own command;
\* and the coordinator asks for a new network only once the old one is left.
THEOREM AdapterInStep ==
  ASSUME Requests \in Nat, SeqMod \in Nat, Requests < SeqMod
  PROVE  MCSpec => []InStepWithNcp
<1>1. LinkInv /\ BringUpInv => InStepWithNcp
  <2>1. ASSUME NEW a \in Nat, a < SeqMod PROVE a % SeqMod = a
    BY <2>1, Modulo, Zenon
  <2>2. LinkInv => Link!ResponseMatches
    <3> SUFFICES ASSUME LinkInv, linkPc = "idle", result # None
                 PROVE  result = n /\ result \in accepted
      BY DEF Link!ResponseMatches
    <3>1. result \in accepted /\ result % SeqMod = n % SeqMod
      BY DEF LinkInv
    <3>2. result \in Nat /\ n \in Nat /\ result < SeqMod /\ n < SeqMod
      BY <3>1 DEF LinkInv
    <3>3. result % SeqMod = result /\ n % SeqMod = n
      BY <3>2, <2>1, Zenon
    <3> QED BY <3>1, <3>3
  <2>3. BringUpInv => Network!FormsWhenDown
    BY DEF BringUpInv, Network!FormsWhenDown
  <2> QED BY <2>2, <2>3 DEF InStepWithNcp
<1> QED BY <1>1, LinkAlways, BringUpAlways, PTL

-----------------------------------------------------------------------------
(***************************************************************************)
(* The zstack adapter's network key.                                       *)
(***************************************************************************)

\* With storage, and a network.json that was never misread, the nodes hold no
\* key but the one in the file, and the adapter works with no other.
KeyInv ==
  /\ keys \in Nat /\ key \in 0..keys /\ file \in -1..keys
  /\ paired \in [Zstack!Nodes -> 0..keys]
  /\ (storage /\ ~misread) =>
       /\ phase = "write" => file = -1 /\ key > 0
       /\ phase \in {"init", "up"} => file > 0 /\ key = file
       /\ \A d \in Zstack!Nodes : paired[d] = 0 \/ (file > 0 /\ paired[d] = file)

LEMMA KeyInit == Zstack!DevicesInit => KeyInv
  BY DEF Zstack!DevicesInit, KeyInv

LEMMA KeyNext == KeyInv /\ [Zstack!DevicesNext]_zstackVars => KeyInv'
<1> SUFFICES ASSUME KeyInv, [Zstack!DevicesNext]_zstackVars PROVE KeyInv'
  OBVIOUS
<1> USE DEF KeyInv
<1>1. CASE Zstack!Start
  <2>1. CASE Zstack!networkConfig
    <3>1. paired' = paired /\ storage' = storage /\ phase = "down"
      BY <1>1 DEF Zstack!Start, Zstack!nodes
    <3>2. CASE ~storage
      BY <2>1, <3>1, <3>2 DEF Zstack!networkConfig, Zstack!Generated
    <3>3. CASE storage /\ phase' # "write"
      BY <2>1, <3>1, <3>3 DEF Zstack!networkConfig, Zstack!Generated
    <3>4. CASE storage /\ phase' = "write"
      <4>1. Zstack!Generated /\ file' = -1 /\ misread' = (misread \/ file # 0)
        BY <2>1, <3>4 DEF Zstack!networkConfig
      <4>2. ~misread' => ~misread /\ file = 0
        BY <4>1, Zenon
      <4> QED BY <3>1, <3>4, <4>1, <4>2 DEF Zstack!Generated
    <3> QED BY <3>2, <3>3, <3>4
  <2>2. CASE phase' = "failed" /\ UNCHANGED <<key, file, keys, misread>>
    BY <1>1, <2>2 DEF Zstack!Start, Zstack!nodes
  <2> QED BY <1>1, <2>1, <2>2 DEF Zstack!Start
<1>2. CASE Zstack!Save
  BY <1>2 DEF Zstack!Save, Zstack!nodes
<1>3. CASE Zstack!Initialise \/ Zstack!Crash
  BY <1>3 DEF Zstack!Initialise, Zstack!Crash, Zstack!disk, Zstack!nodes
<1>4. ASSUME NEW d \in Zstack!Nodes, Zstack!Join(d) PROVE KeyInv'
  BY <1>4 DEF Zstack!Join, Zstack!disk
<1>5. ASSUME NEW g \in Gangs, Zstack!Touch(g) \/ Zstack!OtherReport(g) PROVE KeyInv'
  BY <1>5 DEF Zstack!Touch, Zstack!OtherReport, Zstack!disk, Zstack!nodes
<1>6. ASSUME NEW d \in Devices, Zstack!Apply(d) PROVE KeyInv'
  BY <1>6 DEF Zstack!Apply, Zstack!disk
<1>7. CASE Zstack!ReadEvent \/ UNCHANGED zstackVars
  BY <1>7 DEF Zstack!ReadEvent, Zstack!disk, zstackVars
<1> QED BY <1>1, <1>2, <1>3, <1>4, <1>5, <1>6, <1>7 DEF Zstack!DevicesNext

LEMMA KeyAlways == MCSpec => []KeyInv
<1>1. MCInit => KeyInv
  BY KeyInit DEF MCInit
<1>2. [MCNext]_allVars => [Zstack!DevicesNext]_zstackVars
  BY DEF MCNext, allVars
<1> QED BY <1>1, <1>2, KeyNext, PTL DEF MCSpec

\* A node that was paired once is on the network whenever it is up, through every
\* restart of the hub and every write of network.json that was cut short
\* (networkConfig).
THEOREM PairedStaysPaired == MCSpec => []KeyKept
<1>1. KeyInv => KeyKept
  BY DEF KeyInv, KeyKept, Zstack!KeyKept
<1> QED BY <1>1, KeyAlways, PTL

-----------------------------------------------------------------------------
(***************************************************************************)
(* The state the zstack adapter shows of a gang.                           *)
(***************************************************************************)

Event ==
  [type : {"join"}, node : Zstack!Nodes] \cup [type : {"press"}, gang : Gangs]
    \cup [type : {"state"}, gang : Gangs, value : Int, form : {"attribute", "aqara", "other"}]

\* A report of g that readEvents understands, and one waiting in q.
News(e, g) == e.type = "state" /\ e.gang = g /\ Zstack!Understood(e)
Waiting(q, g) == \E k \in 1..Len(q) : News(q[k], g)

\* The last report of g in q, if one is waiting, is what g is in now.
LastIs(q, g, v) ==
  \A k \in 1..Len(q) :
    (News(q[k], g) /\ \A j \in (k + 1)..Len(q) : ~News(q[j], g)) => q[k].value = v

\* A device of its own endpoint shows its gang's state as it is, or a report of
\* it is waiting.  While the node is off the network nothing is told, and then
\* nothing is shown of it either.
ShowsInv(d) ==
  (d.endpoint # 0 /\ deviceShown[d] # None) =>
    /\ paired[d.node] = key
    /\ \E g \in Zstack!GangOf(d) :
         Waiting(events, g) \/ deviceShown[d] = IF g.cover THEN 100 - value[g] ELSE value[g]

GangInv ==
  /\ events \in Seq(Event) /\ value \in [Gangs -> Int]
  /\ deviceShown \in [Devices -> Int \cup {None}]
  /\ phase # "up" => events = <<>> /\ heard = {} /\ \A d \in Devices : deviceShown[d] = None
  /\ \A k \in 1..Len(events) : events[k].type = "state" => paired[events[k].gang.node] = key
  /\ \A g \in Gangs : LastIs(events, g, value[g])
  /\ \A d \in Devices : ShowsInv(d)
  /\ \A h \in heard : h[1].endpoint # 0 => h[2] \in Zstack!GangOf(h[1])

\* What an event at the end of the queue does to the reports waiting in it.
LEMMA Told ==
  ASSUME NEW q \in Seq(Event), NEW e \in Event, NEW g
  PROVE  /\ Append(q, e) \in Seq(Event)
         /\ Waiting(Append(q, e), g) <=> Waiting(q, g) \/ News(e, g)
         /\ \A v : LastIs(Append(q, e), g, v) <=> IF News(e, g) THEN e.value = v ELSE LastIs(q, g, v)
<1>1. /\ Append(q, e) \in Seq(Event) /\ Len(Append(q, e)) = Len(q) + 1 /\ Len(q) \in Nat
      /\ Append(q, e)[Len(q) + 1] = e /\ \A k \in 1..Len(q) : Append(q, e)[k] = q[k]
  OBVIOUS
<1> DEFINE p == Append(q, e)
<1> HIDE DEF p
<1>2. /\ Len(p) = Len(q) + 1 /\ Len(q) \in Nat
      /\ p[Len(q) + 1] = e /\ \A k \in 1..Len(q) : p[k] = q[k]
  BY <1>1 DEF p
<1>3. Waiting(p, g) <=> Waiting(q, g) \/ News(e, g)
  <2>1. Waiting(p, g) => Waiting(q, g) \/ News(e, g)
    BY <1>2 DEF Waiting
  <2>2. Waiting(q, g) => Waiting(p, g)
    BY <1>2 DEF Waiting
  <2>3. News(e, g) => Waiting(p, g)
    BY <1>2 DEF Waiting
  <2> QED BY <2>1, <2>2, <2>3
<1>4. ASSUME NEW v, News(e, g) PROVE LastIs(p, g, v) <=> e.value = v
  <2>1. ASSUME LastIs(p, g, v) PROVE e.value = v
    BY <1>2, <1>4, <2>1 DEF LastIs
  <2>2. ASSUME e.value = v, NEW k \in 1..Len(p), \A j \in (k + 1)..Len(p) : ~News(p[j], g)
        PROVE  p[k].value = v
    BY <1>2, <1>4, <2>2
  <2> QED BY <2>1, <2>2 DEF LastIs
<1>5. ASSUME NEW v, ~News(e, g) PROVE LastIs(p, g, v) <=> LastIs(q, g, v)
  <2>1. ASSUME NEW k \in 1..Len(q)
        PROVE  (\A j \in (k + 1)..Len(p) : ~News(p[j], g)) <=> (\A j \in (k + 1)..Len(q) : ~News(q[j], g))
    BY <1>2, <1>5
  <2>2. ASSUME LastIs(p, g, v) PROVE LastIs(q, g, v)
    BY <1>2, <2>1, <2>2 DEF LastIs
  <2>3. ASSUME LastIs(q, g, v) PROVE LastIs(p, g, v)
    BY <1>2, <1>5, <2>1, <2>3 DEF LastIs
  <2> QED BY <2>2, <2>3
<1> QED BY <1>1, <1>3, <1>4, <1>5 DEF p

\* What taking the first event off does to them.
LEMMA Heard ==
  ASSUME NEW q \in Seq(Event), q # <<>>, NEW g
  PROVE  /\ Head(q) \in Event /\ Tail(q) \in Seq(Event)
         /\ Waiting(q, g) <=> Waiting(Tail(q), g) \/ News(Head(q), g)
         /\ \A v : LastIs(q, g, v) =>
              LastIs(Tail(q), g, v) /\ (News(Head(q), g) /\ ~Waiting(Tail(q), g) => Head(q).value = v)
<1>1. /\ Head(q) \in Event /\ Tail(q) \in Seq(Event) /\ Len(Tail(q)) = Len(q) - 1 /\ Len(q) \in Nat \ {0}
      /\ Head(q) = q[1] /\ \A k \in 1..(Len(q) - 1) : Tail(q)[k] = q[k + 1]
  OBVIOUS
<1> DEFINE p == Tail(q)  e == Head(q)
<1> HIDE DEF p, e
<1>2. /\ Len(p) = Len(q) - 1 /\ Len(q) \in Nat \ {0}
      /\ e = q[1] /\ \A k \in 1..Len(p) : p[k] = q[k + 1]
  BY <1>1 DEF p, e
<1>3. Waiting(q, g) <=> Waiting(p, g) \/ News(e, g)
  <2>1. ASSUME NEW k \in 1..Len(q), News(q[k], g) PROVE Waiting(p, g) \/ News(e, g)
    <3>1. CASE k = 1
      BY <1>2, <2>1, <3>1
    <3>2. CASE k # 1
      <4>1. k - 1 \in 1..Len(p) /\ p[k - 1] = q[k]
        BY <1>2, <3>2
      <4> QED BY <4>1, <2>1 DEF Waiting
    <3> QED BY <3>1, <3>2
  <2>2. ASSUME NEW k \in 1..Len(p), News(p[k], g) PROVE Waiting(q, g)
    <3>1. k + 1 \in 1..Len(q) /\ q[k + 1] = p[k]
      BY <1>2
    <3> QED BY <3>1, <2>2 DEF Waiting
  <2>3. News(e, g) => Waiting(q, g)
    BY <1>2 DEF Waiting
  <2> QED BY <2>1, <2>2, <2>3 DEF Waiting
<1>4. ASSUME NEW v, LastIs(q, g, v)
      PROVE  LastIs(p, g, v) /\ (News(e, g) /\ ~Waiting(p, g) => e.value = v)
  <2>1. ASSUME NEW k \in 1..Len(p), News(p[k], g), \A j \in (k + 1)..Len(p) : ~News(p[j], g)
        PROVE  p[k].value = v
    <3>1. k + 1 \in 1..Len(q) /\ q[k + 1] = p[k]
      BY <1>2
    <3>2. ASSUME NEW j \in (k + 2)..Len(q) PROVE ~News(q[j], g)
      <4>1. j - 1 \in (k + 1)..Len(p) /\ p[j - 1] = q[j]
        BY <1>2
      <4> QED BY <4>1, <2>1
    <3> QED BY <1>4, <2>1, <3>1, <3>2 DEF LastIs
  <2>2. ASSUME News(e, g), ~Waiting(p, g) PROVE e.value = v
    <3>1. ASSUME NEW j \in 2..Len(q) PROVE ~News(q[j], g)
      <4>1. j - 1 \in 1..Len(p) /\ p[j - 1] = q[j]
        BY <1>2
      <4> QED BY <4>1, <2>2 DEF Waiting
    <3> QED BY <1>2, <1>4, <2>2, <3>1 DEF LastIs
  <2> QED BY <2>1, <2>2 DEF LastIs
<1> QED BY <1>1, <1>3, <1>4 DEF p, e

\* A gang changes, or does not, and tells the adapter if it is on the network.
LEMMA TellKeeps ==
  ASSUME KeyInv, GangInv, NEW g \in Gangs, NEW e \in Event, NEW v \in Int,
         e.gang = g, Zstack!Tell(g.node, e), value' = [value EXCEPT ![g] = v],
         (News(e, g) /\ e.value = v) \/ (v = value[g] /\ ~News(e, g)),
         UNCHANGED <<phase, key, paired, deviceShown, heard>>
  PROVE  GangInv'
<1> USE DEF GangInv
<1>1. value' \in [Gangs -> Int] /\ value'[g] = v /\ \A f \in Gangs \ {g} : value'[f] = value[f]
  OBVIOUS
<1>2. \A f : News(e, f) => f = g
  BY DEF News
<1>3. CASE Zstack!OnNetwork(g.node)
  <2>1. events' = Append(events, e) /\ phase = "up" /\ paired[g.node] = key
    BY <1>3 DEF Zstack!Tell, Zstack!OnNetwork
  <2>2. \A k \in 1..Len(events') : events'[k].type = "state" => paired'[events'[k].gang.node] = key'
    BY <2>1
  <2>3. events' \in Seq(Event)
    BY <2>1, Told, Zenon
  <2>4. \A f \in Gangs : LastIs(events', f, value'[f])
    <3> SUFFICES ASSUME NEW f \in Gangs PROVE LastIs(events', f, value'[f])
      OBVIOUS
    <3>1. LastIs(events, f, value[f])
      OBVIOUS
    <3>2. LastIs(events', f, value'[f]) <=> IF News(e, f) THEN e.value = value'[f] ELSE LastIs(events, f, value'[f])
      BY <2>1, Told
    <3>3. CASE News(e, f)
      BY <1>1, <1>2, <3>2, <3>3
    <3>4. CASE ~News(e, f)
      <4>1. value'[f] = value[f]
        BY <1>1, <3>4
      <4> QED BY <3>1, <3>2, <3>4, <4>1
    <3> QED BY <3>3, <3>4
  <2>5. ASSUME NEW d \in Devices PROVE ShowsInv(d)'
    <3> SUFFICES ASSUME d.endpoint # 0, deviceShown[d] # None
                 PROVE  /\ paired[d.node] = key
                        /\ \E f \in Zstack!GangOf(d) :
                             Waiting(events', f) \/ deviceShown[d] = IF f.cover THEN 100 - value'[f] ELSE value'[f]
      BY DEF ShowsInv, Zstack!GangOf
    <3>1. ShowsInv(d)
      OBVIOUS
    <3>2. PICK f \in Zstack!GangOf(d) :
            Waiting(events, f) \/ deviceShown[d] = IF f.cover THEN 100 - value[f] ELSE value[f]
      BY <3>1 DEF ShowsInv
    <3>3. f \in Gangs
      BY DEF Zstack!GangOf
    <3>4. Waiting(events, f) => Waiting(events', f)
      BY <2>1, Told
    <3>5. News(e, f) => Waiting(events', f)
      BY <2>1, Told
    <3>6. ~News(e, f) => value'[f] = value[f]
      BY <1>1, <3>3
    <3> QED BY <3>1, <3>2, <3>4, <3>5, <3>6 DEF ShowsInv
  <2> QED BY <1>1, <2>1, <2>2, <2>3, <2>4, <2>5 DEF Zstack!GangOf
<1>4. CASE ~Zstack!OnNetwork(g.node)
  <2>1. events' = events /\ (phase # "up" \/ paired[g.node] # key)
    BY <1>4 DEF Zstack!Tell, Zstack!OnNetwork
  <2>2. ~Waiting(events, g)
    BY <2>1 DEF Waiting, News
  <2>3. ASSUME NEW f \in Gangs PROVE LastIs(events', f, value'[f])
    <3>1. CASE f = g
      BY <2>1, <2>2, <3>1 DEF LastIs, Waiting
    <3>2. CASE f # g
      <4>1. LastIs(events, f, value[f]) /\ value'[f] = value[f]
        BY <1>1, <3>2
      <4> QED BY <2>1, <4>1
    <3> QED BY <3>1, <3>2
  <2>4. ASSUME NEW d \in Devices PROVE ShowsInv(d)'
    <3> SUFFICES ASSUME d.endpoint # 0, deviceShown[d] # None
                 PROVE  /\ paired[d.node] = key
                        /\ \E f \in Zstack!GangOf(d) :
                             Waiting(events, f) \/ deviceShown[d] = IF f.cover THEN 100 - value'[f] ELSE value'[f]
      BY <2>1 DEF ShowsInv, Zstack!GangOf
    <3>1. ShowsInv(d)
      OBVIOUS
    <3>2. PICK f \in Zstack!GangOf(d) :
            Waiting(events, f) \/ deviceShown[d] = IF f.cover THEN 100 - value[f] ELSE value[f]
      BY <3>1 DEF ShowsInv
    <3>3. f \in Gangs /\ f.node = d.node /\ paired[d.node] = key /\ phase = "up"
      BY <3>1 DEF ShowsInv, Zstack!GangOf
    <3>4. value'[f] = value[f]
      BY <1>1, <2>1, <3>3
    <3> QED BY <3>2, <3>3, <3>4
  <2> QED BY <1>1, <2>1, <2>3, <2>4 DEF Zstack!GangOf
<1> QED BY <1>3, <1>4

\* A device of its own endpoint is found for the reports of its own gang only,
\* and no other device is found for those (deviceIDByAddr).
LEMMA FoundByGang ==
  ASSUME NEW g \in Gangs, NEW d \in Devices, d.endpoint # 0
  PROVE  /\ d \in Zstack!deviceIDByAddr(g) => g \in Zstack!GangOf(d)
         /\ g \in Zstack!GangOf(d) => Zstack!deviceIDByAddr(g) = {d}
<1>1. d \in Zstack!deviceIDByAddr(g) => g \in Zstack!GangOf(d)
  BY DEF Zstack!deviceIDByAddr, Zstack!GangOf
<1>2. ASSUME g \in Zstack!GangOf(d) PROVE Zstack!deviceIDByAddr(g) = {d}
  BY <1>2, ZstackAssumption DEF Zstack!deviceIDByAddr, Zstack!GangOf
<1> QED BY <1>1, <1>2

\* One event is read.
LEMMA ReadKeeps == ASSUME KeyInv, GangInv, Zstack!ReadEvent PROVE GangInv'
<1> USE DEF GangInv
<1> DEFINE e == Head(events)
<1>1. /\ events # <<>> /\ events' = Tail(events) /\ phase = "up"
      /\ UNCHANGED <<phase, key, paired, value>>
  BY DEF Zstack!ReadEvent
<1>2. /\ e \in Event /\ events' \in Seq(Event) /\ e = events[1]
      /\ 1 \in 1..Len(events) /\ \A k \in 1..Len(events') : k + 1 \in 1..Len(events) /\ events'[k] = events[k + 1]
  BY <1>1
<1>3. \A k \in 1..Len(events') : events'[k].type = "state" => paired'[events'[k].gang.node] = key'
  BY <1>1, <1>2
<1>4. \A f \in Gangs : LastIs(events', f, value'[f])
  BY <1>1, Heard
<1>5. \A f : Waiting(events, f) <=> Waiting(events', f) \/ News(e, f)
  BY <1>1, Heard
<1>6. e.type = "state" => e.gang \in Gangs /\ e.value \in Int /\ paired[e.gang.node] = key
  <2>1. e.type = "state" => e.gang \in Gangs /\ e.value \in Int
    BY <1>2 DEF Event
  <2> QED BY <1>2, <2>1
<1>7. e.type = "press" => e.gang \in Gangs
  BY <1>2 DEF Event
<1> HIDE DEF e
<1>8. deviceShown' \in [Devices -> Int \cup {None}] /\ \A d \in Devices : ShowsInv(d)'
  <2>1. CASE /\ deviceShown' = deviceShown
             /\ \A f \in Gangs, d \in Devices : (d.endpoint # 0 /\ f \in Zstack!GangOf(d)) => ~News(e, f)
    <3>1. ASSUME NEW d \in Devices PROVE ShowsInv(d)'
      <4> SUFFICES ASSUME d.endpoint # 0, deviceShown[d] # None
                   PROVE  /\ paired[d.node] = key
                          /\ \E f \in Zstack!GangOf(d) :
                               \/ Waiting(events', f)
                               \/ deviceShown[d] = IF f.cover THEN 100 - value[f] ELSE value[f]
        BY <1>1, <2>1 DEF ShowsInv, Zstack!GangOf
      <4>1. ShowsInv(d)
        OBVIOUS
      <4>2. \A f \in Zstack!GangOf(d) : f \in Gangs
        BY DEF Zstack!GangOf
      <4> QED BY <1>5, <2>1, <4>1, <4>2 DEF ShowsInv
    <3> QED BY <2>1, <3>1
  <2>2. ASSUME e.type = "state", Zstack!Understood(e), NEW c \in Zstack!deviceIDByAddr(e.gang),
               deviceShown' = [deviceShown EXCEPT ![c] = Zstack!Shown(e)]
        PROVE  deviceShown' \in [Devices -> Int \cup {None}] /\ \A d \in Devices : ShowsInv(d)'
    <3>1. c \in Devices /\ Zstack!Shown(e) \in Int /\ e.gang \in Gangs /\ News(e, e.gang)
      BY <1>6, <2>2 DEF Zstack!deviceIDByAddr, Zstack!Shown, News
    <3>2. deviceShown' \in [Devices -> Int \cup {None}]
      BY <2>2, <3>1
    <3>3. ASSUME c.endpoint # 0 PROVE ShowsInv(c)'
      <4>1. e.gang \in Zstack!GangOf(c)
        BY <2>2, <3>1, <3>3, FoundByGang
      <4>2. paired[c.node] = key
        BY <1>6, <2>2, <4>1 DEF Zstack!GangOf
      <4>3. Waiting(events', e.gang) \/ e.value = value[e.gang]
        BY <1>1, <3>1, Heard DEF e
      <4>4. deviceShown'[c] = IF e.gang.cover THEN 100 - e.value ELSE e.value
        BY <2>2, <3>1 DEF Zstack!Shown
      <4> QED BY <1>1, <4>1, <4>2, <4>3, <4>4 DEF ShowsInv, Zstack!GangOf
    <3>4. ASSUME NEW d \in Devices, d # c PROVE ShowsInv(d)'
      <4> SUFFICES ASSUME d.endpoint # 0, deviceShown[d] # None
                   PROVE  /\ paired[d.node] = key
                          /\ \E f \in Zstack!GangOf(d) :
                               \/ Waiting(events', f)
                               \/ deviceShown[d] = IF f.cover THEN 100 - value[f] ELSE value[f]
        <5>1. deviceShown'[d] = deviceShown[d]
          BY <2>2, <3>1, <3>4
        <5> QED BY <1>1, <5>1 DEF ShowsInv, Zstack!GangOf
      <4>1. ShowsInv(d)
        OBVIOUS
      <4>2. e.gang \notin Zstack!GangOf(d)
        BY <2>2, <3>1, <3>4, FoundByGang
      <4>3. \A f \in Zstack!GangOf(d) : ~News(e, f)
        BY <4>2 DEF News
      <4> QED BY <1>5, <4>1, <4>3 DEF ShowsInv
    <3>5. c.endpoint = 0 => ShowsInv(c)'
      BY DEF ShowsInv
    <3> QED BY <3>1, <3>2, <3>3, <3>4, <3>5
  <2>3. CASE e.type # "state" /\ deviceShown' = deviceShown
    BY <2>1, <2>3 DEF News
  <2>4. CASE e.type = "state"
    <3>1. Zstack!handleIncoming(e)
      BY <2>4 DEF Zstack!ReadEvent, e
    <3>2. CASE deviceShown' = deviceShown /\ (Zstack!deviceIDByAddr(e.gang) = {} \/ ~Zstack!Understood(e))
      <4>1. ASSUME NEW f \in Gangs, NEW d \in Devices, d.endpoint # 0, f \in Zstack!GangOf(d), News(e, f)
            PROVE  FALSE
        <5>1. f = e.gang /\ Zstack!Understood(e)
          BY <4>1 DEF News
        <5>2. Zstack!deviceIDByAddr(e.gang) = {d}
          BY <4>1, <5>1, FoundByGang
        <5> QED BY <3>2, <5>1, <5>2
      <4> QED BY <2>1, <3>2, <4>1
    <3> QED BY <2>2, <2>4, <3>1, <3>2 DEF Zstack!handleIncoming
  <2> QED BY <2>3, <2>4 DEF Zstack!ReadEvent, Zstack!handleIncoming, Zstack!configureJoined, e
<1>9. \A h \in heard' : h[1].endpoint # 0 => h[2] \in Zstack!GangOf(h[1])
  <2>1. CASE heard' = heard
    BY <2>1
  <2>2. ASSUME e.type = "press", NEW c \in Zstack!deviceIDByAddr(e.gang), heard' = heard \cup {<<c, e.gang>>}
        PROVE  \A h \in heard' : h[1].endpoint # 0 => h[2] \in Zstack!GangOf(h[1])
    <3>1. c \in Devices
      BY <2>2 DEF Zstack!deviceIDByAddr
    <3>2. c.endpoint # 0 => e.gang \in Zstack!GangOf(c)
      BY <1>7, <2>2, <3>1, FoundByGang
    <3> QED BY <2>2, <3>2
  <2> QED BY <2>1, <2>2 DEF Zstack!ReadEvent, Zstack!handleIncoming, Zstack!configureJoined, e
<1> QED BY <1>1, <1>2, <1>3, <1>4, <1>8, <1>9 DEF Zstack!GangOf

LEMMA GangInit == Zstack!DevicesInit => GangInv
  BY DEF Zstack!DevicesInit, GangInv, ShowsInv, LastIs

LEMMA GangNext == KeyInv /\ GangInv /\ [Zstack!DevicesNext]_zstackVars => GangInv'
<1> SUFFICES ASSUME KeyInv, GangInv, [Zstack!DevicesNext]_zstackVars PROVE GangInv'
  OBVIOUS
<1>1. CASE Zstack!Start \/ Zstack!Save \/ Zstack!Initialise
  <2>1. phase # "up" /\ UNCHANGED <<value, events, deviceShown, heard>>
    BY <1>1 DEF Zstack!Start, Zstack!Save, Zstack!Initialise, Zstack!nodes, Zstack!hubSide
  <2>2. events' = <<>> /\ heard' = {} /\ \A d \in Devices : deviceShown'[d] = None
    BY <2>1 DEF GangInv
  <2> QED BY <2>1, <2>2 DEF GangInv, ShowsInv, LastIs
<1>2. CASE Zstack!Crash
  BY <1>2 DEF Zstack!Crash, Zstack!nodes, GangInv, ShowsInv, LastIs
<1>3. ASSUME NEW d \in Zstack!Nodes, Zstack!Join(d) PROVE GangInv'
  <2> DEFINE e == [type |-> "join", node |-> d]
  <2>1. /\ events' = Append(events, e) /\ e \in Event /\ phase = "up"
        /\ \A f : ~News(e, f)
        /\ UNCHANGED <<phase, key, value, deviceShown, heard>>
    BY <1>3 DEF Zstack!Join, Event, News
  <2>2. \A f \in Zstack!Nodes : paired[f] = key => paired'[f] = key
    BY <1>3 DEF Zstack!Join, KeyInv
  <2>3. events' \in Seq(Event)
    BY <2>1, Told DEF GangInv
  <2>4. \A f : Waiting(events', f) <=> Waiting(events, f)
    BY <2>1, Told DEF GangInv
  <2>5. \A f \in Gangs : LastIs(events', f, value'[f])
    <3> SUFFICES ASSUME NEW f \in Gangs PROVE LastIs(events', f, value[f])
      BY <2>1
    <3>1. LastIs(events, f, value[f])
      BY DEF GangInv
    <3> QED BY <2>1, <3>1, Told DEF GangInv
  <2>6. \A k \in 1..Len(events') : events'[k].type = "state" => paired'[events'[k].gang.node] = key'
    <3> SUFFICES ASSUME NEW k \in 1..Len(events'), events'[k].type = "state"
                 PROVE  paired'[events'[k].gang.node] = key
      BY <2>1
    <3>1. k \in 1..Len(events) /\ events'[k] = events[k]
      BY <2>1 DEF GangInv
    <3>2. events[k] \in Event /\ paired[events[k].gang.node] = key
      BY <3>1 DEF GangInv
    <3>3. events[k].gang \in Gangs
      BY <3>1, <3>2 DEF Event
    <3> QED BY <2>2, <3>1, <3>2, <3>3 DEF Zstack!Nodes
  <2>7. ASSUME NEW c \in Devices PROVE ShowsInv(c)'
    <3>1. ShowsInv(c)
      BY DEF GangInv
    <3>2. \A f \in Zstack!GangOf(c) : c.node \in Zstack!Nodes
      BY DEF Zstack!GangOf, Zstack!Nodes
    <3> QED BY <2>1, <2>2, <2>4, <3>1, <3>2 DEF ShowsInv, Zstack!GangOf
  <2> HIDE DEF e
  <2> QED BY <2>1, <2>3, <2>5, <2>6, <2>7 DEF GangInv, Zstack!GangOf
<1>4. ASSUME NEW g \in Gangs, Zstack!Touch(g) PROVE GangInv'
  <2>1. CASE mode[g] = "decoupled"
    <3> DEFINE e == [type |-> "press", gang |-> g]
    <3>1. e \in Event /\ e.gang = g /\ ~News(e, g)
      BY DEF Event, News
    <3>2. /\ Zstack!Tell(g.node, e) /\ UNCHANGED <<phase, key, paired, deviceShown, heard>>
          /\ value' = [value EXCEPT ![g] = value[g]] /\ value[g] \in Int
      BY <1>4, <2>1 DEF Zstack!Touch, GangInv
    <3> QED BY <3>1, <3>2, TellKeeps
  <2>2. CASE mode[g] = "relay"
    <3>1. PICK v \in (IF g.cover THEN Lifts ELSE {1 - value[g]}), form \in Zstack!Forms(g) :
            value' = [value EXCEPT ![g] = v] /\ Zstack!Tell(g.node, Zstack!Report(g, v, form))
      BY <1>4, <2>2 DEF Zstack!Touch
    <3>2. v \in Int
      BY <3>1, ZstackAssumption DEF GangInv
    <3> DEFINE e == Zstack!Report(g, v, form)
    <3>3. e \in Event /\ e.gang = g /\ News(e, g) /\ e.value = v
      BY <3>2 DEF Event, News, Zstack!Report, Zstack!Forms, Zstack!Understood
    <3>4. UNCHANGED <<phase, key, paired, deviceShown, heard>>
      BY <1>4 DEF Zstack!Touch
    <3> QED BY <3>1, <3>2, <3>3, <3>4, TellKeeps
  <2> QED BY <1>4, <2>1, <2>2 DEF Zstack!Touch
<1>5. ASSUME NEW g \in Gangs, Zstack!OtherReport(g) PROVE GangInv'
  <2> DEFINE e == Zstack!Report(g, 0, "other")
  <2>1. e \in Event /\ e.gang = g /\ ~News(e, g)
    BY DEF Event, News, Zstack!Report, Zstack!Understood
  <2>2. /\ Zstack!Tell(g.node, e) /\ UNCHANGED <<phase, key, paired, deviceShown, heard>>
        /\ value' = [value EXCEPT ![g] = value[g]] /\ value[g] \in Int
    BY <1>5 DEF Zstack!OtherReport, Zstack!nodes, GangInv
  <2> QED BY <2>1, <2>2, TellKeeps
<1>6. ASSUME NEW d \in Devices, Zstack!Apply(d) PROVE GangInv'
  <2>1. PICK g \in Zstack!GangOf(d), v \in Zstack!Asked(d) :
          /\ value' = [value EXCEPT ![g] = v]
          /\ \E form \in Zstack!Forms(g) : Zstack!Tell(g.node, Zstack!Report(g, v, form))
    BY <1>6 DEF Zstack!Apply
  <2> PICK form \in Zstack!Forms(g) : Zstack!Tell(g.node, Zstack!Report(g, v, form))
    BY <2>1
  <2>2. v \in Int
    BY <2>1, ZstackAssumption DEF Zstack!Asked, Zstack!Clamped
  <2> DEFINE e == Zstack!Report(g, v, form)
  <2>3. g \in Gangs /\ e \in Event /\ e.gang = g /\ News(e, g) /\ e.value = v
    BY <2>2 DEF Event, News, Zstack!Report, Zstack!Forms, Zstack!Understood, Zstack!GangOf
  <2>4. UNCHANGED <<phase, key, paired, deviceShown, heard>>
    BY <1>6 DEF Zstack!Apply
  <2> QED BY <2>1, <2>2, <2>3, <2>4, TellKeeps
<1>7. CASE Zstack!ReadEvent
  BY <1>7, ReadKeeps
<1>8. CASE UNCHANGED zstackVars
  BY <1>8 DEF zstackVars, GangInv, ShowsInv, Zstack!GangOf
<1> QED BY <1>1, <1>2, <1>3, <1>4, <1>5, <1>6, <1>7, <1>8 DEF Zstack!DevicesNext

\* Once every report is read, a device that names its endpoint shows its own
\* gang, whatever the other gangs of the node do and however reports, commands,
\* joins and restarts interleave (handleIncoming, deviceIDByAddr).
THEOREM GangsShown == MCSpec => []GangShown
<1>1. MCInit => GangInv
  BY GangInit DEF MCInit
<1>2. [MCNext]_allVars => [Zstack!DevicesNext]_zstackVars
  BY DEF MCNext, allVars
<1>3. GangInv => GangShown
  <2> SUFFICES ASSUME GangInv, NEW d \in Devices, d.endpoint # 0
               PROVE  /\ (events = <<>> /\ deviceShown[d] # None) =>
                            \E g \in Zstack!GangOf(d) :
                              deviceShown[d] = IF g.cover THEN 100 - value[g] ELSE value[g]
                      /\ \A h \in heard : h[1] = d => h[2] \in Zstack!GangOf(d)
    BY DEF GangShown, Zstack!GangShown
  <2>1. ShowsInv(d) /\ \A g : events = <<>> => ~Waiting(events, g)
    BY DEF GangInv, Waiting
  <2> QED BY <2>1 DEF GangInv, ShowsInv
<1> QED BY <1>1, <1>2, <1>3, GangNext, KeyAlways, PTL DEF MCSpec

-----------------------------------------------------------------------------
(***************************************************************************)
(* The spine: what a channel's newest message about a field says.          *)
(***************************************************************************)

\* A set of naturals has a least element, so what holds of 0 and of the next holds
\* of all: the theorems of the library that take a predicate cannot be used.
LEMMA Least == ASSUME NEW T \in SUBSET Nat, T # {} PROVE \E x \in T : \A y \in T : x <= y
<1> DEFINE R == {ss \in Nat \X Nat : ss[1] < ss[2]}
<1>1. IsWellFoundedOn(R, Nat)
  BY NatLessThanWellFounded DEF OpToRel
<1>2. PICK x \in T : \A y \in T : ~(<<y, x>> \in R)
  <2> HIDE DEF R
  <2> QED BY <1>1, WFMin
<1>3. ASSUME NEW y \in T PROVE x <= y
  <2>1. x \in Nat /\ y \in Nat
    OBVIOUS
  <2>2. y < x => <<y, x>> \in R
    BY <2>1
  <2>3. ~(y < x)
    BY <1>2, <2>2
  <2> QED BY <2>1, <2>3
<1> QED BY <1>3

LEMMA Induction ==
  ASSUME NEW N \in Nat, NEW S, 0 \in S, \A k \in 0..(N - 1) : k \in S => k + 1 \in S
  PROVE  0..N \subseteq S
<1> SUFFICES ASSUME 0..N \ S # {} PROVE FALSE
  OBVIOUS
<1> DEFINE T == 0..N \ S
<1>1. PICK x \in T : \A y \in T : x <= y
  <2>1. T \in SUBSET Nat /\ T # {}
    OBVIOUS
  <2> HIDE DEF T
  <2> QED BY <2>1, Least
<1>2. x # 0 /\ x - 1 \in 0..(N - 1) /\ x - 1 \in 0..N
  OBVIOUS
<1>3. x - 1 \in S
  BY <1>1, <1>2
<1>4. (x - 1) + 1 \in S
  BY <1>2, <1>3
<1> QED BY <1>2, <1>4

\* The newest message of A in the channel q is one of G; q holds none of A.
Newest(q, A, G) == \E j \in 1..Len(q) : q[j] \in G /\ \A k \in 1..Len(q) : k > j => q[k] \notin A
NoneIn(q, A) == \A j \in 1..Len(q) : q[j] \notin A

\* What sending and receiving do to the newest message.
LEMMA NewestConcat ==
  ASSUME NEW M, NEW q \in Seq(M), NEW c \in Seq(M), NEW A, NEW G
  PROVE  /\ q \o c \in Seq(M)
         /\ Newest(c, A, G) => Newest(q \o c, A, G)
         /\ NoneIn(c, A) => /\ Newest(q, A, G) => Newest(q \o c, A, G)
                            /\ NoneIn(q, A) => NoneIn(q \o c, A)
<1>1. /\ q \o c \in Seq(M) /\ Len(q \o c) = Len(q) + Len(c) /\ Len(q) \in Nat /\ Len(c) \in Nat
      /\ \A j \in 1..Len(q \o c) : (q \o c)[j] = IF j <= Len(q) THEN q[j] ELSE c[j - Len(q)]
  OBVIOUS
<1> DEFINE s == q \o c
<1> HIDE DEF s
<1>2. ASSUME Newest(c, A, G) PROVE Newest(s, A, G)
  <2>1. PICK j \in 1..Len(c) : c[j] \in G /\ \A k \in 1..Len(c) : k > j => c[k] \notin A
    BY <1>2 DEF Newest
  <2>2. Len(q) + j \in 1..Len(s) /\ s[Len(q) + j] = c[j]
    BY <1>1 DEF s
  <2>3. ASSUME NEW k \in 1..Len(s), k > Len(q) + j PROVE s[k] \notin A
    <3>1. k - Len(q) \in 1..Len(c) /\ k - Len(q) > j /\ s[k] = c[k - Len(q)]
      BY <1>1, <2>3 DEF s
    <3> QED BY <2>1, <3>1
  <2> QED BY <2>1, <2>2, <2>3 DEF Newest
<1>3. ASSUME NoneIn(c, A) PROVE (Newest(q, A, G) => Newest(s, A, G)) /\ (NoneIn(q, A) => NoneIn(s, A))
  <2>1. ASSUME NEW k \in 1..Len(s), k > Len(q) PROVE s[k] \notin A
    <3>1. k - Len(q) \in 1..Len(c) /\ s[k] = c[k - Len(q)]
      BY <1>1, <2>1 DEF s
    <3> QED BY <1>3, <3>1 DEF NoneIn
  <2>2. \A k \in 1..Len(q) : k \in 1..Len(s) /\ s[k] = q[k]
    BY <1>1 DEF s
  <2>3. \A k \in 1..Len(s) : k > Len(q) \/ k \in 1..Len(q)
    BY <1>1 DEF s
  <2>4. NoneIn(q, A) => NoneIn(s, A)
    BY <2>1, <2>2, <2>3 DEF NoneIn
  <2>5. Newest(q, A, G) => Newest(s, A, G)
    BY <2>1, <2>2, <2>3 DEF Newest
  <2> QED BY <2>4, <2>5
<1> QED BY <1>1, <1>2, <1>3 DEF s

LEMMA NewestTail ==
  ASSUME NEW M, NEW q \in Seq(M), q # <<>>, NEW A, NEW G
  PROVE  /\ Head(q) \in M /\ Tail(q) \in Seq(M)
         /\ Newest(q, A, G) => Newest(Tail(q), A, G) \/ (Head(q) \in G /\ NoneIn(Tail(q), A))
         /\ NoneIn(q, A) => Head(q) \notin A /\ NoneIn(Tail(q), A)
<1>1. /\ Head(q) = q[1] /\ Tail(q) \in Seq(M) /\ Len(Tail(q)) = Len(q) - 1 /\ Len(q) \in Nat /\ Len(q) >= 1
      /\ \A k \in 1..Len(Tail(q)) : Tail(q)[k] = q[k + 1]
  OBVIOUS
<1> DEFINE t == Tail(q)
<1> HIDE DEF t
<1>2. NoneIn(q, A) => q[1] \notin A /\ NoneIn(t, A)
  BY <1>1 DEF NoneIn, t
<1>3. ASSUME Newest(q, A, G) PROVE Newest(t, A, G) \/ (q[1] \in G /\ NoneIn(t, A))
  <2>1. PICK j \in 1..Len(q) : q[j] \in G /\ \A k \in 1..Len(q) : k > j => q[k] \notin A
    BY <1>3 DEF Newest
  <2>2. ASSUME NEW k \in 1..Len(t), k > j - 1 PROVE t[k] \notin A
    <3>1. k + 1 \in 1..Len(q) /\ k + 1 > j /\ t[k] = q[k + 1]
      BY <1>1, <2>2 DEF t
    <3> QED BY <2>1, <3>1
  <2>3. CASE j = 1
    BY <2>1, <2>2, <2>3 DEF NoneIn
  <2>4. CASE j # 1
    <3>1. j - 1 \in 1..Len(t) /\ t[j - 1] = q[j]
      BY <1>1, <2>4 DEF t
    <3> QED BY <2>1, <2>2, <3>1 DEF Newest
  <2> QED BY <2>3, <2>4
<1> QED BY <1>1, <1>2, <1>3 DEF t

LEMMA NewestOne ==
  ASSUME NEW m, NEW A, NEW G
  PROVE  /\ m \in G => Newest(<<m>>, A, G)
         /\ m \notin A => NoneIn(<<m>>, A)
         /\ NoneIn(<<>>, A) /\ ~Newest(<<>>, A, G)
BY DEF Newest, NoneIn

\* Commands is defined by recursion: there is a function with that recursion, and
\* what the rules say one by one is what is said together.
Upto(f, out, N) == f = [i \in 0..N |-> IF i = 0 THEN <<>> ELSE f[i - 1] \o out[i].cmds]

LEMMA CommandsUnfold ==
  ASSUME NEW N \in Nat, Len(home.rules) = N, NEW out
  PROVE  \E g : Upto(g, out, N) /\ Spine!Commands(out) = g[N]
<1> DEFINE S == {k \in 0..N : \E f : Upto(f, out, k)}
<1>1. 0 \in S
  <2> DEFINE f == [i \in 0..0 |-> <<>>]
  <2>1. Upto(f, out, 0)
    BY DEF Upto
  <2> QED BY <2>1
<1>2. ASSUME NEW k \in 0..(N - 1), k \in S PROVE k + 1 \in S
  <2>1. PICK f : Upto(f, out, k)
    BY <1>2
  <2> DEFINE g == [i \in 0..(k + 1) |-> IF i = k + 1 THEN f[k] \o out[k + 1].cmds ELSE f[i]]
  <2>3. ASSUME NEW i \in 0..(k + 1)
        PROVE  g[i] = IF i = 0 THEN <<>> ELSE g[i - 1] \o out[i].cmds
    <3>1. CASE i = k + 1
      BY <3>1
    <3>2. CASE i # k + 1
      <4>1. i \in 0..k /\ g[i] = f[i] /\ (i # 0 => g[i - 1] = f[i - 1])
        BY <3>2
      <4>2. f[i] = IF i = 0 THEN <<>> ELSE f[i - 1] \o out[i].cmds
        BY <2>1, <4>1 DEF Upto
      <4> QED BY <4>1, <4>2
    <3> QED BY <3>1, <3>2
  <2>4. g = [i \in 0..(k + 1) |-> g[i]]
    OBVIOUS
  <2> HIDE DEF g
  <2>5. Upto(g, out, k + 1)
    BY <2>3, <2>4 DEF Upto
  <2> QED BY <2>5
<1>3. 0..N \subseteq S
  <2> HIDE DEF S
  <2> QED BY <1>1, <1>2, Induction
<1>4. PICK f : Upto(f, out, N)
  BY <1>3
<1> DEFINE g == CHOOSE h : Upto(h, out, N)
<1>5. Upto(g, out, N)
  BY <1>4
<1>6. Spine!Commands(out) = g[N]
  BY DEF Spine!Commands, Spine!Rules, Upto
<1> QED BY <1>5, <1>6

LEMMA CommandsOf ==
  ASSUME NEW N \in Nat, Len(home.rules) = N, NEW M, NEW out, \A i \in 1..N : out[i].cmds \in Seq(M),
         NEW A, NEW G
  PROVE  LET c == Spine!Commands(out)
         IN  /\ c \in Seq(M)
             /\ (\A i \in 1..N : NoneIn(out[i].cmds, A)) => NoneIn(c, A)
             /\ \A i \in 1..N :
                  (Newest(out[i].cmds, A, G) /\ \A j \in 1..N : j # i => NoneIn(out[j].cmds, A))
                    => Newest(c, A, G)
<1>1. PICK g : Upto(g, out, N) /\ Spine!Commands(out) = g[N]
  BY CommandsUnfold
<1> DEFINE Silent(k) == \A j \in 1..k : NoneIn(out[j].cmds, A)
           Only(i, k) == Newest(out[i].cmds, A, G) /\ \A j \in 1..k : j # i => NoneIn(out[j].cmds, A)
           S == {k \in 0..N : /\ g[k] \in Seq(M)
                              /\ Silent(k) => NoneIn(g[k], A)
                              /\ \A i \in 1..k : Only(i, k) => Newest(g[k], A, G)}
<1>2. 0 \in S
  <2>1. g[0] = <<>>
    BY <1>1 DEF Upto
  <2>2. <<>> \in Seq(M) /\ NoneIn(<<>>, A) /\ 0 \in 0..N /\ 1..0 = {}
    BY DEF NoneIn
  <2>3. g[0] \in Seq(M) /\ NoneIn(g[0], A) /\ \A i \in 1..0 : Only(i, 0) => Newest(g[0], A, G)
    BY <2>1, <2>2
  <2> HIDE DEF Silent, Only
  <2> QED BY <2>2, <2>3
<1>3. ASSUME NEW k \in 0..(N - 1), k \in S PROVE k + 1 \in S
  <2>0. k + 1 \in 1..N /\ k + 1 \in 0..N /\ k + 1 # 0 /\ (k + 1) - 1 = k
    OBVIOUS
  <2>1. /\ k + 1 \in 1..N /\ k + 1 \in 0..N /\ out[k + 1].cmds \in Seq(M)
        /\ g[k + 1] = g[k] \o out[k + 1].cmds
    <3>1. g[k + 1] = IF k + 1 = 0 THEN <<>> ELSE g[(k + 1) - 1] \o out[k + 1].cmds
      BY <1>1, <2>0 DEF Upto
    <3> QED BY <2>0, <3>1
  <2>2. g[k] \in Seq(M)
    BY <1>3
  <2> DEFINE c == out[k + 1].cmds
  <2>3. /\ g[k + 1] \in Seq(M)
        /\ Newest(c, A, G) => Newest(g[k + 1], A, G)
        /\ NoneIn(c, A) => /\ Newest(g[k], A, G) => Newest(g[k + 1], A, G)
                           /\ NoneIn(g[k], A) => NoneIn(g[k + 1], A)
    BY <2>1, <2>2, NewestConcat
  <2>4. Silent(k + 1) => NoneIn(g[k + 1], A)
    <3> SUFFICES ASSUME Silent(k + 1) PROVE NoneIn(g[k + 1], A)
      OBVIOUS
    <3>1. Silent(k) /\ NoneIn(c, A)
      OBVIOUS
    <3> QED BY <1>3, <2>3, <3>1
  <2>5. ASSUME NEW i \in 1..(k + 1), Only(i, k + 1) PROVE Newest(g[k + 1], A, G)
    <3>1. CASE i = k + 1
      BY <2>3, <2>5, <3>1
    <3>2. CASE i # k + 1
      <4>0. /\ Newest(out[i].cmds, A, G)
            /\ \A j \in 1..(k + 1) : j # i => NoneIn(out[j].cmds, A)
        BY <2>5
      <4>1. i \in 1..k /\ k + 1 # i /\ k + 1 \in 1..(k + 1) /\ \A j \in 1..k : j \in 1..(k + 1)
        BY ONLY <3>2, k \in 0..(N - 1), N \in Nat, i \in 1..(k + 1)
      <4>2. Only(i, k) /\ NoneIn(c, A)
        BY <4>0, <4>1
      <4>3. Newest(g[k], A, G)
        BY <1>3, <4>1, <4>2
      <4> QED BY <2>3, <4>2, <4>3
    <3> QED BY <3>1, <3>2
  <2> HIDE DEF Silent, Only
  <2> QED BY <2>1, <2>3, <2>4, <2>5
<1>4. N \in S
  <2>1. 0..N \subseteq S
    <3> HIDE DEF S
    <3> QED BY <1>2, <1>3, Induction
  <2> QED BY <2>1
<1> QED BY <1>1, <1>4

AllFields == DOMAIN MCValue
Kinds == {"mirror", "button", "cycle", "threshold"}

\* A configuration that names devices and fields there are, and in which a
\* device that follows a source, a sensor or a cycle is moved by nothing else.
RuleWired(h, i) ==
  LET r == h.rules[i] IN
  /\ r.type \in Kinds
  /\ r.src \in DOMAIN h.fields /\ r.dst \in DOMAIN h.fields
  /\ r.type # "button" => "on" \in h.fields[r.dst]
  /\ r.type = "button" => /\ r.action \in {"toggle", "on", "off"} => "on" \in h.fields[r.dst]
                          /\ r.action \in {"open", "close", "position"} => "position" \in h.fields[r.dst]
                          /\ r.action = "position" => r.value \in Int
                          /\ r.action \in {"toggle", "on", "off", "open", "close", "position"}
  /\ r.type = "mirror" => "on" \in h.fields[r.src]
  /\ r.type = "threshold" => "value" \in h.fields[r.src] /\ r.above \in Int /\ r.below \in Int /\ r.below < r.above
  /\ r.type = "cycle" => "level" \in h.fields[r.dst] /\ r.states \in Seq(Int) /\ Len(r.states) > 0 /\ r.states[1] = 0

Alone(h, i) ==
  LET d == h.rules[i].dst
  IN  d \notin h.used /\ d \notin h.commanded /\ \A j \in 1..Len(h.rules) : j # i => h.rules[j].dst # d

Wired(h) ==
  /\ Len(h.rules) \in Nat /\ DOMAIN h.rules = 1..Len(h.rules)
  /\ \A d \in DOMAIN h.fields : h.fields[d] \subseteq AllFields
  /\ h.paddles \subseteq DOMAIN h.fields /\ h.used \subseteq DOMAIN h.fields /\ h.commanded \subseteq DOMAIN h.fields
  /\ \A i \in 1..Len(h.rules) : RuleWired(h, i) /\ (h.rules[i].type # "button" => Alone(h, i))

\* The homes of the run are wired so.
LEMMA HomesWired == Wired(Fan) /\ Wired(Dry) /\ Wired(Shade)
<1>1. AllFields = {"on", "level", "value", "position"}
  BY DEF AllFields, MCValue
<1>2. Wired(Fan)
  <2>1. Len(Fan.rules) = 2 /\ DOMAIN Fan.rules = 1..2 /\ 1..2 = {1, 2}
    BY DEF Fan
  <2>2. RuleWired(Fan, 1) /\ RuleWired(Fan, 2)
    <3>1. RuleWired(Fan, 1)
      BY DEF RuleWired, Fan, Kinds
    <3>2. <<0, 1, 2>> \in Seq(Int) /\ Len(<<0, 1, 2>>) = 3 /\ <<0, 1, 2>>[1] = 0
      OBVIOUS
    <3>3. /\ Fan.rules[2].type = "cycle" /\ Fan.rules[2].src = "paddle" /\ Fan.rules[2].dst = "fan"
          /\ Fan.rules[2].states = <<0, 1, 2>>
      BY DEF Fan
    <3>4. {"paddle", "fan"} \subseteq DOMAIN Fan.fields /\ {"on", "level"} \subseteq Fan.fields["fan"]
      BY DEF Fan
    <3> QED BY <3>1, <3>2, <3>3, <3>4 DEF RuleWired, Kinds
  <2>3. Alone(Fan, 1) /\ Alone(Fan, 2)
    BY <2>1 DEF Alone, Fan
  <2>4. /\ \A d \in DOMAIN Fan.fields : Fan.fields[d] \subseteq AllFields
        /\ Fan.paddles \subseteq DOMAIN Fan.fields /\ Fan.used \subseteq DOMAIN Fan.fields
        /\ Fan.commanded \subseteq DOMAIN Fan.fields
    BY <1>1 DEF Fan
  <2> QED BY <2>1, <2>2, <2>3, <2>4 DEF Wired
<1>3. Wired(Dry)
  <2>1. Len(Dry.rules) = 2 /\ DOMAIN Dry.rules = 1..2 /\ 1..2 = {1, 2} /\ Dry.rules[2].type = "button"
    BY DEF Dry
  <2>2. RuleWired(Dry, 1) /\ RuleWired(Dry, 2)
    BY DEF RuleWired, Dry, Kinds
  <2>3. Alone(Dry, 1)
    BY <2>1 DEF Alone, Dry
  <2>4. /\ \A d \in DOMAIN Dry.fields : Dry.fields[d] \subseteq AllFields
        /\ Dry.paddles \subseteq DOMAIN Dry.fields /\ Dry.used \subseteq DOMAIN Dry.fields
        /\ Dry.commanded \subseteq DOMAIN Dry.fields
    BY <1>1 DEF Dry
  <2> QED BY <2>1, <2>2, <2>3, <2>4 DEF Wired
<1>4. Wired(Shade)
  <2>1. Len(Shade.rules) = 2 /\ DOMAIN Shade.rules = 1..2 /\ 1..2 = {1, 2}
    BY DEF Shade
  <2>2. \A i \in {1, 2} : RuleWired(Shade, i) /\ Shade.rules[i].type = "button"
    BY DEF RuleWired, Shade, Kinds
  <2>3. /\ \A d \in DOMAIN Shade.fields : Shade.fields[d] \subseteq AllFields
        /\ Shade.paddles \subseteq DOMAIN Shade.fields /\ Shade.used \subseteq DOMAIN Shade.fields
        /\ Shade.commanded \subseteq DOMAIN Shade.fields
    BY <1>1 DEF Shade
  <2> QED BY <2>1, <2>2, <2>3 DEF Wired
<1> QED BY <1>2, <1>3, <1>4

\* What devices report, what reaches the channels, and the state of a rule.
State == UNION {[F -> Int] : F \in SUBSET AllFields}
Events(h) ==
  {e \in [dev : DOMAIN h.fields, kind : {"state", "button"}, state : State] :
     e.kind = "button" => DOMAIN e.state = {}}
Cmds(h) == {c \in [dev : DOMAIN h.fields, field : AllFields, value : Int] : c.field \in h.fields[c.dev]}
RuleStates == [idx : Nat \ {0}, on : BOOLEAN, known : BOOLEAN]

\* The reports of a field and those with a given value, and likewise commands.
Of(h, d, f) == {e \in Events(h) : e.dev = d /\ f \in DOMAIN e.state}
With(h, d, f, v) == {e \in Of(h, d, f) : e.state[f] = v}
To(h, d, f) == {c \in Cmds(h) : c.dev = d /\ c.field = f}
Set(h, d, f, v) == {c \in To(h, d, f) : c.value = v}

\* What is shown of a field, the field of a device that is not reported being 0.
Shown(d, f) == IF f \in DOMAIN reg[d] THEN reg[d][f] ELSE 0

\* The engine has yet to see the field as it is; it has seen all there was; the
\* field was never reported; the last command sent for the field is v.
Unseen(d, f) == f \in due[d] \/ Newest(qEngine, Of(home, d, f), With(home, d, f, actual[d][f]))
Seen(d, f) == NoneIn(qEngine, Of(home, d, f))
Never(d, f) == f \notin DOMAIN reg[d] /\ NoneIn(qReflect, Of(home, d, f))
Ordered(d, f, v) ==
  Newest(qCmd, To(home, d, f), Set(home, d, f, v)) \/ (NoneIn(qCmd, To(home, d, f)) /\ actual[d][f] = v)

\* What is stored, and what is on its way, names devices and fields there are.
HubTyped ==
  /\ Wired(home)
  /\ DOMAIN actual = DOMAIN home.fields /\ \A d \in DOMAIN home.fields : actual[d] \in [home.fields[d] -> Int]
  /\ DOMAIN due = DOMAIN home.fields /\ \A d \in DOMAIN home.fields : due[d] \subseteq home.fields[d]
  /\ qReflect \in Seq(Events(home)) /\ qEngine \in Seq(Events(home)) /\ qCmd \in Seq(Cmds(home))
  /\ reg \in [DOMAIN home.fields -> State]
  /\ ruleState \in [1..Len(home.rules) -> RuleStates]
  /\ \A i \in 1..Len(home.rules) :
       home.rules[i].type = "cycle" => ruleState[i].idx <= Len(home.rules[i].states)

\* The cache shows a field as it is, or the newest report that will reach it does.
CacheInv ==
  "reflect" \notin dropped =>
    \A d \in DOMAIN home.fields : \A f \in home.fields[d] \cap Spine!Merged :
      \/ f \in due[d]
      \/ Newest(qReflect, Of(home, d, f), With(home, d, f, actual[d][f]))
      \/ NoneIn(qReflect, Of(home, d, f)) /\ Shown(d, f) = actual[d][f]

\* A driven device is as its source is, or as its rule says, or a command is under
\* way that makes it so and no other follows, or the engine has yet to see why.
Mirrors(i) ==
  LET s == home.rules[i].src
  IN  Unseen(s, "on") \/ (Seen(s, "on") /\ (Never(s, "on") \/ Ordered(home.rules[i].dst, "on", actual[s]["on"])))

Agrees(r, rs, v) == (v >= r.above => rs.known /\ rs.on) /\ (v <= r.below => rs.known /\ ~rs.on)

Thresholds(i) ==
  LET r == home.rules[i]
      s == r.src
  IN  /\ \/ Unseen(s, "value")
         \/ Seen(s, "value") /\ (Never(s, "value") \/ Agrees(r, ruleState[i], actual[s]["value"]))
      /\ ruleState[i].known => Ordered(r.dst, "on", IF ruleState[i].on THEN 1 ELSE 0)

Cycles(i) ==
  LET lvl == home.rules[i].states[ruleState[i].idx]
  IN  lvl > 0 => Ordered(home.rules[i].dst, "level", lvl)

RulesInv ==
  dropped = {} =>
    \A i \in 1..Len(home.rules) :
      /\ home.rules[i].type = "mirror" => Mirrors(i)
      /\ home.rules[i].type = "threshold" => Thresholds(i)
      /\ home.rules[i].type = "cycle" => Cycles(i)

HubInv == HubTyped /\ CacheInv /\ RulesInv

LEMMA HubConverges == HubInv => HomeConverges
<1> SUFFICES ASSUME HubInv PROVE HomeConverges
  OBVIOUS
<1>0. \A A, G : ~Newest(<<>>, A, G)
  BY DEF Newest
<1>1. DOMAIN home.rules = 1..Len(home.rules)
  BY DEF HubInv, HubTyped, Wired
<1>2. Spine!CacheConverges
  BY <1>0 DEF HubInv, CacheInv, Spine!CacheConverges, Spine!Quiet, Spine!DeviceIDs, Spine!Fields, Shown
<1>3. ASSUME Spine!Quiet, dropped = {}, NEW i \in 1..Len(home.rules)
      PROVE  /\ home.rules[i].type = "mirror" => Mirrors(i)
             /\ home.rules[i].type = "threshold" => Thresholds(i)
             /\ home.rules[i].type = "cycle" => Cycles(i)
             /\ \A d \in DOMAIN home.fields : \A f : ~Unseen(d, f)
             /\ \A d, f, v : Ordered(d, f, v) => actual[d][f] = v
             /\ \A d, f : Never(d, f) => f \notin DOMAIN reg[d]
             /\ home.rules[i].src \in DOMAIN home.fields
  BY <1>0, <1>3 DEF HubInv, HubTyped, Wired, RuleWired, RulesInv, Spine!Quiet, Spine!DeviceIDs, Unseen, Ordered, Never
<1>4. Spine!MirrorConverges
  BY <1>1, <1>3 DEF Spine!MirrorConverges, Spine!Rules, Mirrors
<1>5. Spine!ThresholdHolds
  BY <1>1, <1>3 DEF Spine!ThresholdHolds, Spine!Rules, Thresholds, Agrees
<1>6. Spine!CycleInStep
  BY <1>1, <1>3 DEF Spine!CycleInStep, Spine!Rules, Cycles
<1> QED BY <1>2, <1>4, <1>5, <1>6 DEF HomeConverges, Spine!HomeConverges

LEMMA HubStart == Wired(home) /\ Spine!Start => HubInv
<1> SUFFICES ASSUME Wired(home), Spine!Start PROVE HubInv
  OBVIOUS
<1>1. Wired(home)
  OBVIOUS
<1>2. /\ Len(home.rules) \in Nat /\ DOMAIN home.rules = 1..Len(home.rules)
      /\ \A i \in 1..Len(home.rules) : RuleWired(home, i)
  BY <1>1 DEF Wired
<1>3. \A q, A : q = <<>> => NoneIn(q, A)
  BY DEF NoneIn
<1>4. actual = [d \in DOMAIN home.fields |-> [f \in home.fields[d] |-> 0]]
  BY DEF Spine!Start, Spine!DeviceIDs, Spine!Fields
<1>5. due = [d \in DOMAIN home.fields |-> {}]
  BY DEF Spine!Start, Spine!DeviceIDs
<1>6. qReflect = <<>> /\ qEngine = <<>> /\ qCmd = <<>>
  BY DEF Spine!Start
<1>7. reg = [d \in DOMAIN home.fields |-> Spine!Empty] /\ Spine!Empty = [f \in {} |-> 0]
  BY DEF Spine!Start, Spine!DeviceIDs, Spine!Empty
<1>8. ruleState = [r \in 1..Len(home.rules) |-> [idx |-> 1, on |-> FALSE, known |-> FALSE]]
  <2>1. ruleState = [r \in DOMAIN home.rules |-> [idx |-> 1, on |-> FALSE, known |-> FALSE]]
    BY DEF Spine!Start, Spine!Rules
  <2> QED BY ONLY <1>2, <2>1
<1>9. Spine!Empty \in State
  BY <1>7 DEF State
<1>10. HubTyped
  <2>1. \A i \in 1..Len(home.rules) :
          home.rules[i].type = "cycle" => ruleState[i].idx <= Len(home.rules[i].states)
    BY <1>2, <1>8 DEF RuleWired
  <2>2. ruleState \in [1..Len(home.rules) -> RuleStates]
    BY <1>8 DEF RuleStates
  <2>3. DOMAIN actual = DOMAIN home.fields /\ \A d \in DOMAIN home.fields : actual[d] \in [home.fields[d] -> Int]
    BY <1>4
  <2> QED BY <1>1, <1>5, <1>6, <1>7, <1>9, <2>1, <2>2, <2>3 DEF HubTyped
<1>11. CacheInv
  BY <1>3, <1>4, <1>6, <1>7 DEF CacheInv, Shown
<1>12. RulesInv
  <2> SUFFICES ASSUME NEW i \in 1..Len(home.rules)
               PROVE  /\ home.rules[i].type = "mirror" => Mirrors(i)
                      /\ home.rules[i].type = "threshold" => Thresholds(i)
                      /\ home.rules[i].type = "cycle" => Cycles(i)
    BY DEF RulesInv
  <2>1. RuleWired(home, i) /\ home.rules[i].src \in DOMAIN home.fields
    BY <1>2 DEF RuleWired
  <2>2. \A f : Seen(home.rules[i].src, f) /\ Never(home.rules[i].src, f)
    BY <1>3, <1>6, <1>7, <2>1 DEF Seen, Never
  <2>3. ~ruleState[i].known /\ ruleState[i].idx = 1
    BY <1>8
  <2>4. home.rules[i].type = "cycle" => home.rules[i].states[1] = 0
    BY <2>1 DEF RuleWired
  <2> QED BY <2>2, <2>3, <2>4 DEF Mirrors, Thresholds, Cycles
<1> QED BY <1>10, <1>11, <1>12 DEF HubInv

LEMMA SentTyped ==
  ASSUME Buffer \in Nat, NEW M, NEW q \in Seq(M), NEW ms \in Seq(M)
  PROVE  /\ Spine!Sent(q, ms) \in Seq(M)
         /\ ~Spine!Full(q, ms) => Spine!Sent(q, ms) = q \o ms
<1>1. q \o ms \in Seq(M) /\ Len(q \o ms) = Len(q) + Len(ms)
  OBVIOUS
<1> DEFINE s == q \o ms
<1>2. ASSUME Spine!Full(q, ms) PROVE SubSeq(s, 1, Buffer) \in Seq(M)
  <2>1. s \in Seq(M) /\ Buffer < Len(s)
    BY <1>1, <1>2 DEF Spine!Full
  <2> HIDE DEF s
  <2> QED BY <2>1
<1> QED BY <1>1, <1>2 DEF Spine!Sent

\* Nothing a step other than the engine's does to what a rule has seen and
\* ordered disturbs the rule: a field that changes is due to be reported.
Undisturbed ==
  /\ \A d \in DOMAIN home.fields : \A f \in home.fields[d] :
       /\ Unseen(d, f) => Unseen(d, f)'
       /\ Seen(d, f) => Seen(d, f)' \/ Unseen(d, f)'
       /\ Never(d, f) => Never(d, f)' \/ Unseen(d, f)'
       /\ actual'[d][f] = actual[d][f] \/ Unseen(d, f)'
  /\ \A i \in 1..Len(home.rules) : home.rules[i].type # "button" =>
       \A f \in home.fields[home.rules[i].dst], v \in Int :
          Ordered(home.rules[i].dst, f, v) => Ordered(home.rules[i].dst, f, v)'

LEMMA RulesKept ==
  ASSUME HubTyped, RulesInv, home' = home, ruleState' = ruleState,
         dropped' = {} => dropped = {} /\ Undisturbed
  PROVE  RulesInv'
<1> SUFFICES ASSUME dropped' = {}, NEW i \in 1..Len(home.rules)
             PROVE  /\ home.rules[i].type = "mirror" => Mirrors(i)'
                    /\ home.rules[i].type = "threshold" => Thresholds(i)'
                    /\ home.rules[i].type = "cycle" => Cycles(i)'
  BY DEF RulesInv
<1>1. Undisturbed /\ RuleWired(home, i)
  BY DEF HubTyped, Wired
<1>2. PICK r : r = home.rules[i] /\ r = home'.rules[i]
  OBVIOUS
<1>3. PICK s, t : s = r.src /\ t = r.dst
  OBVIOUS
<1>4. /\ s \in DOMAIN home.fields /\ t \in DOMAIN home.fields /\ (r.type # "button" => "on" \in home.fields[t])
      /\ r.type = "mirror" => "on" \in home.fields[s]
      /\ r.type = "threshold" => "value" \in home.fields[s]
      /\ r.type = "cycle" => "level" \in home.fields[t]
      /\ r.type = "cycle" => r.states \in Seq(Int)
      /\ actual[s] \in [home.fields[s] -> Int]
  BY <1>1, <1>2, <1>3 DEF RuleWired, HubTyped
<1>5. ASSUME NEW f \in home.fields[s], ~Unseen(s, f)'
      PROVE  ~Unseen(s, f) /\ (Seen(s, f) => Seen(s, f)') /\ (Never(s, f) => Never(s, f)') /\ actual'[s][f] = actual[s][f]
  BY <1>1, <1>4, <1>5 DEF Undisturbed
<1>6. ASSUME NEW f \in home.fields[t], NEW v \in Int, r.type # "button", Ordered(t, f, v) PROVE Ordered(t, f, v)'
  BY <1>1, <1>2, <1>3, <1>6 DEF Undisturbed
<1>7. ASSUME r.type = "mirror" PROVE Mirrors(i)'
  <2>1. Unseen(s, "on") \/ (Seen(s, "on") /\ (Never(s, "on") \/ Ordered(t, "on", actual[s]["on"])))
    BY <1>2, <1>3, <1>7 DEF RulesInv, Mirrors
  <2>2. PICK v : v = actual[s]["on"]
    OBVIOUS
  <2>3. v \in Int
    BY <1>4, <1>7, <2>2
  <2>4. Unseen(s, "on")' \/ (Seen(s, "on")' /\ (Never(s, "on")' \/ Ordered(t, "on", v)') /\ actual'[s]["on"] = v)
    BY <1>4, <1>5, <1>6, <1>7, <2>1, <2>2, <2>3
  <2> QED BY <1>2, <1>3, <2>4 DEF Mirrors, Ordered
<1>8. ASSUME r.type = "threshold" PROVE Thresholds(i)'
  <2> DEFINE rs == ruleState[i]
  <2>1. /\ \/ Unseen(s, "value")
           \/ Seen(s, "value") /\ (Never(s, "value") \/ Agrees(r, rs, actual[s]["value"]))
        /\ rs.known => Ordered(t, "on", IF rs.on THEN 1 ELSE 0)
    BY <1>2, <1>3, <1>8 DEF RulesInv, Thresholds
  <2>2. PICK v : v = IF rs.on THEN 1 ELSE 0
    OBVIOUS
  <2>3. rs.known => Ordered(t, "on", v)'
    BY <1>4, <1>6, <1>8, <2>1, <2>2
  <2>4. \/ Unseen(s, "value")'
        \/ Seen(s, "value")' /\ (Never(s, "value")' \/ Agrees(r, rs, actual'[s]["value"]))
    BY <1>4, <1>5, <1>8, <2>1
  <2> QED BY <1>2, <1>3, <2>2, <2>3, <2>4 DEF Thresholds, Ordered, Agrees
<1>9. ASSUME r.type = "cycle" PROVE Cycles(i)'
  <2>1. PICK v : v = r.states[ruleState[i].idx]
    OBVIOUS
  <2>2. v \in Int
    <3>1. ruleState[i].idx \in Nat \ {0} /\ ruleState[i].idx <= Len(r.states)
      BY <1>2, <1>9 DEF HubTyped, RuleStates
    <3>2. r.states \in Seq(Int) /\ Len(r.states) \in Nat
      BY <1>4, <1>9
    <3> QED BY <2>1, <3>1, <3>2
  <2>3. v > 0 => Ordered(t, "level", v)
    BY <1>2, <1>3, <1>9, <2>1 DEF RulesInv, Cycles
  <2>4. v > 0 => Ordered(t, "level", v)'
    BY <1>4, <1>6, <1>9, <2>2, <2>3
  <2> QED BY <1>2, <1>3, <2>1, <2>4 DEF Cycles, Ordered
<1> QED BY <1>2, <1>7, <1>8, <1>9

\* The reflector's step.
LEMMA ReflectKeeps == ASSUME HubInv, Spine!Reflect PROVE HubInv'
<1>1. /\ HubTyped /\ CacheInv /\ RulesInv
      /\ qReflect # <<>> /\ UNCHANGED <<home, actual, due, qEngine, qCmd, ruleState, dropped>>
      /\ qReflect' = Tail(qReflect)
  BY DEF HubInv, Spine!Reflect
<1>2. PICK e : e = Head(qReflect)
  OBVIOUS
<1>3. \A A, G : /\ e \in Events(home) /\ qReflect' \in Seq(Events(home))
                /\ Newest(qReflect, A, G) => Newest(qReflect', A, G) \/ (e \in G /\ NoneIn(qReflect', A))
                /\ NoneIn(qReflect, A) => e \notin A /\ NoneIn(qReflect', A)
  BY <1>1, <1>2, NewestTail DEF HubTyped
<1>4. e \in Events(home) /\ e.dev \in DOMAIN home.fields /\ e.state \in State
  BY <1>3 DEF Events
<1>5. PICK old : old = reg[e.dev] /\ old \in State
  BY <1>1, <1>4 DEF HubTyped
<1>6. PICK new : new = Spine!SetState(old, e.state)
  OBVIOUS
<1>7. reg' = [reg EXCEPT ![e.dev] = new]
  BY <1>2, <1>5, <1>6 DEF Spine!Reflect
<1>8. /\ new = [f \in DOMAIN old \cup (DOMAIN e.state \cap Spine!Merged) |->
                  IF f \in DOMAIN e.state THEN e.state[f] ELSE old[f]]
  BY <1>6 DEF Spine!SetState
<1>9. DOMAIN new \subseteq AllFields /\ \A f \in DOMAIN new : new[f] \in Int
  BY <1>4, <1>5, <1>8 DEF State
<1>10. new \in State
  <2>1. new \in [DOMAIN new -> Int]
    BY <1>8, <1>9
  <2> QED BY <1>9, <2>1 DEF State
<1>11. HubTyped'
  <2>1. reg' \in [DOMAIN home.fields -> State]
    BY <1>1, <1>4, <1>7, <1>10 DEF HubTyped
  <2> QED BY <1>1, <1>3, <2>1 DEF HubTyped
<1>12. ASSUME NEW d \in DOMAIN home.fields, NEW f
       PROVE  /\ (e.dev = d /\ f \in DOMAIN e.state /\ f \in Spine!Merged) =>
                    f \in DOMAIN reg'[d] /\ reg'[d][f] = e.state[f]
              /\ ~(e.dev = d /\ f \in DOMAIN e.state) =>
                    (f \in DOMAIN reg'[d] <=> f \in DOMAIN reg[d]) /\ Shown(d, f)' = Shown(d, f)
  <2>1. CASE e.dev = d
    <3>1. reg'[d] = new /\ reg[d] = old
      BY <1>1, <1>5, <1>7, <2>1 DEF HubTyped
    <3> QED BY <1>8, <2>1, <3>1 DEF Shown
  <2>2. CASE e.dev # d
    <3>1. reg'[d] = reg[d]
      BY <1>1, <1>7, <2>2 DEF HubTyped
    <3> QED BY <2>2, <3>1 DEF Shown
  <2> QED BY <2>1, <2>2
<1>13. ASSUME NEW d, NEW f PROVE e \in Of(home, d, f) <=> e.dev = d /\ f \in DOMAIN e.state
  BY <1>4 DEF Of
<1>14. CacheInv'
  <2> SUFFICES ASSUME "reflect" \notin dropped, NEW d \in DOMAIN home.fields,
                      NEW f \in home.fields[d] \cap Spine!Merged, f \notin due[d],
                      ~Newest(qReflect', Of(home, d, f), With(home, d, f, actual[d][f]))
               PROVE  NoneIn(qReflect', Of(home, d, f)) /\ Shown(d, f)' = actual[d][f]
    BY <1>1 DEF CacheInv, Spine!Merged
  <2>1. CASE Newest(qReflect, Of(home, d, f), With(home, d, f, actual[d][f]))
    <3>1. e \in With(home, d, f, actual[d][f]) /\ NoneIn(qReflect', Of(home, d, f))
      BY <1>3, <2>1
    <3>2. e.dev = d /\ f \in DOMAIN e.state /\ e.state[f] = actual[d][f]
      BY <3>1, <1>13 DEF With
    <3> QED BY <1>12, <3>1, <3>2 DEF Shown
  <2>2. CASE NoneIn(qReflect, Of(home, d, f)) /\ Shown(d, f) = actual[d][f]
    BY <1>3, <1>12, <1>13, <2>2
  <2> QED BY <1>1, <2>1, <2>2 DEF CacheInv
<1>15. Undisturbed
  <2>1. \A d, f : (Unseen(d, f) <=> Unseen(d, f)') /\ (Seen(d, f) <=> Seen(d, f)')
    BY <1>1 DEF Unseen, Seen
  <2>2. \A d, f, v : Ordered(d, f, v) <=> Ordered(d, f, v)'
    BY <1>1 DEF Ordered
  <2>3. ASSUME NEW d \in DOMAIN home.fields, NEW f, Never(d, f) PROVE Never(d, f)'
    BY <1>1, <1>3, <1>12, <1>13, <2>3 DEF Never
  <2> QED BY <1>1, <2>1, <2>2, <2>3 DEF Undisturbed
<1> QED BY <1>1, <1>11, <1>14, <1>15, RulesKept DEF HubInv

\* Somebody uses a device, or a command reaches one.
Moved(d, f, v) ==
  /\ HubTyped /\ CacheInv /\ UNCHANGED <<home, qReflect, qEngine, reg>> /\ dropped' = dropped
  /\ d \in DOMAIN home.fields /\ f \in home.fields[d] /\ v \in Int
  /\ actual' = [actual EXCEPT ![d][f] = v] /\ due' = [due EXCEPT ![d] = @ \cup {f}]

DueToReport(d, f, v) ==
  /\ DOMAIN actual' = DOMAIN home.fields /\ \A c \in DOMAIN home.fields : actual'[c] \in [home.fields[c] -> Int]
  /\ DOMAIN due' = DOMAIN home.fields /\ \A c \in DOMAIN home.fields : due'[c] \subseteq home.fields[c]
  /\ actual'[d][f] = v
  /\ \A c \in DOMAIN home.fields : \A g \in home.fields[c] : ~(c = d /\ g = f) => actual'[c][g] = actual[c][g]
  /\ CacheInv'
  /\ \A c \in DOMAIN home.fields : \A g \in home.fields[c] :
       /\ Unseen(c, g) => Unseen(c, g)'
       /\ Seen(c, g) => Seen(c, g)' \/ Unseen(c, g)'
       /\ Never(c, g) => Never(c, g)' \/ Unseen(c, g)'
       /\ actual'[c][g] = actual[c][g] \/ Unseen(c, g)'

LEMMA ChangeKeeps == ASSUME NEW d, NEW f, NEW v, Moved(d, f, v) PROVE DueToReport(d, f, v)
<1> USE DEF Moved
<1>1. /\ DOMAIN actual = DOMAIN home.fields /\ actual[d] \in [home.fields[d] -> Int]
      /\ DOMAIN due = DOMAIN home.fields
  BY DEF HubTyped
<1>2. PICK a : a = [actual[d] EXCEPT ![f] = v]
  OBVIOUS
<1>3. a \in [home.fields[d] -> Int] /\ a[f] = v /\ \A g \in home.fields[d] : g # f => a[g] = actual[d][g]
  BY <1>1, <1>2
<1>4. actual' = [actual EXCEPT ![d] = a]
  BY <1>2
<1>5. /\ DOMAIN actual' = DOMAIN home.fields /\ \A c \in DOMAIN home.fields : actual'[c] = IF c = d THEN a ELSE actual[c]
      /\ DOMAIN due' = DOMAIN home.fields
      /\ \A c \in DOMAIN home.fields : due'[c] = IF c = d THEN due[d] \cup {f} ELSE due[c]
  BY <1>1, <1>4
<1>6. ASSUME NEW c \in DOMAIN home.fields
      PROVE  actual'[c] \in [home.fields[c] -> Int] /\ due'[c] \subseteq home.fields[c]
  BY <1>3, <1>5 DEF HubTyped
<1>7. ASSUME NEW c \in DOMAIN home.fields, NEW g \in home.fields[c]
      PROVE  /\ g \in due[c] => g \in due'[c]
             /\ actual'[c][g] = actual[c][g] \/ (c = d /\ g = f)
             /\ (c = d /\ g = f) => g \in due'[c]
  BY <1>3, <1>5
<1>8. CacheInv'
  <2> SUFFICES ASSUME "reflect" \notin dropped, NEW c \in DOMAIN home.fields,
                      NEW g \in home.fields[c] \cap Spine!Merged, g \notin due'[c]
               PROVE  \/ Newest(qReflect, Of(home, c, g), With(home, c, g, actual'[c][g]))
                      \/ NoneIn(qReflect, Of(home, c, g)) /\ Shown(c, g)' = actual'[c][g]
    BY DEF CacheInv, Spine!Merged
  <2>1. g \notin due[c] /\ actual'[c][g] = actual[c][g] /\ Shown(c, g)' = Shown(c, g)
    BY <1>7 DEF Shown
  <2> QED BY <2>1 DEF CacheInv
<1>9. ASSUME NEW c \in DOMAIN home.fields, NEW g \in home.fields[c]
      PROVE  /\ Unseen(c, g) => Unseen(c, g)'
             /\ Seen(c, g) => Seen(c, g)' \/ Unseen(c, g)'
             /\ Never(c, g) => Never(c, g)' \/ Unseen(c, g)'
             /\ actual'[c][g] = actual[c][g] \/ Unseen(c, g)'
  <2>1. Seen(c, g)' <=> Seen(c, g)
    BY DEF Seen
  <2>2. Never(c, g)' <=> Never(c, g)
    BY DEF Never
  <2>3. Unseen(c, g) => Unseen(c, g)'
    BY <1>7 DEF Unseen
  <2>4. actual'[c][g] = actual[c][g] \/ Unseen(c, g)'
    BY <1>7 DEF Unseen
  <2> QED BY <2>1, <2>2, <2>3, <2>4
<1> QED BY <1>3, <1>5, <1>6, <1>7, <1>8, <1>9 DEF DueToReport

\* A driven device is nobody's to use, and one driver's.
LEMMA UseKeeps ==
  ASSUME HubInv, NEW d \in Spine!Used, NEW f \in Spine!Fields[d], NEW v \in MCValue[f], Spine!Use(d, f, v)
  PROVE  HubInv'
<1>1. /\ HubTyped /\ CacheInv /\ RulesInv /\ UNCHANGED <<home, qReflect, qEngine, qCmd, reg, ruleState>> /\ dropped' = dropped
      /\ actual' = [actual EXCEPT ![d][f] = v] /\ due' = [due EXCEPT ![d] = @ \cup {f}]
  BY DEF HubInv, Spine!Use
<1>2. Wired(home) /\ d \in home.used /\ d \in DOMAIN home.fields /\ f \in home.fields[d] /\ f \in AllFields
  BY <1>1 DEF HubTyped, Wired, Spine!Used, Spine!Fields
<1>3. v \in Int
  BY <1>2 DEF AllFields, MCValue
<1>4. /\ DOMAIN actual' = DOMAIN home.fields /\ \A c \in DOMAIN home.fields : actual'[c] \in [home.fields[c] -> Int]
      /\ DOMAIN due' = DOMAIN home.fields /\ \A c \in DOMAIN home.fields : due'[c] \subseteq home.fields[c]
      /\ \A c \in DOMAIN home.fields : \A g \in home.fields[c] : ~(c = d /\ g = f) => actual'[c][g] = actual[c][g]
      /\ CacheInv'
      /\ \A c \in DOMAIN home.fields : \A g \in home.fields[c] :
           /\ Unseen(c, g) => Unseen(c, g)'
           /\ Seen(c, g) => Seen(c, g)' \/ Unseen(c, g)'
           /\ Never(c, g) => Never(c, g)' \/ Unseen(c, g)'
           /\ actual'[c][g] = actual[c][g] \/ Unseen(c, g)'
  <2>1. Moved(d, f, v)
    BY <1>1, <1>2, <1>3 DEF Moved
  <2>2. DueToReport(d, f, v)
    BY ONLY <2>1, ChangeKeeps
  <2> QED BY <2>2 DEF DueToReport
<1>5. HubTyped'
  BY <1>1, <1>4 DEF HubTyped
<1>6. ASSUME NEW i \in 1..Len(home.rules), home.rules[i].type # "button",
             NEW g \in home.fields[home.rules[i].dst], NEW w \in Int, Ordered(home.rules[i].dst, g, w)
      PROVE  Ordered(home.rules[i].dst, g, w)'
  <2>1. PICK t : t = home.rules[i].dst /\ t = home'.rules[i].dst
    BY <1>1
  <2>2. t # d /\ t \in DOMAIN home.fields
    BY <1>2, <1>6, <2>1 DEF Wired, RuleWired, Alone
  <2>3. actual'[t][g] = actual[t][g]
    BY <1>4, <2>1, <2>2
  <2>4. Ordered(t, g, w) /\ (Ordered(t, g, w) => Ordered(t, g, w)')
    BY <1>1, <1>6, <2>1, <2>3 DEF Ordered
  <2> QED BY <2>1, <2>4
<1>7. Undisturbed
  BY <1>4, <1>6 DEF Undisturbed
<1> QED BY <1>1, <1>4, <1>5, <1>7, RulesKept DEF HubInv

\* The dispatcher's step.
LEMMA DispatchKeeps == ASSUME HubInv, Spine!Dispatch PROVE HubInv'
<1>1. /\ HubTyped /\ CacheInv /\ RulesInv /\ UNCHANGED <<home, qReflect, qEngine, reg, ruleState>> /\ dropped' = dropped
      /\ qCmd # <<>> /\ qCmd' = Tail(qCmd)
  BY DEF HubInv, Spine!Dispatch
<1>2. PICK c : c = Head(qCmd)
  OBVIOUS
<1>3. \A A, G : /\ c \in Cmds(home) /\ qCmd' \in Seq(Cmds(home))
                /\ Newest(qCmd, A, G) => Newest(qCmd', A, G) \/ (c \in G /\ NoneIn(qCmd', A))
                /\ NoneIn(qCmd, A) => c \notin A /\ NoneIn(qCmd', A)
  BY <1>1, <1>2, NewestTail DEF HubTyped
<1>4. PICK d, f, v : d = c.dev /\ f = c.field /\ v = c.value
  OBVIOUS
<1>5. d \in DOMAIN home.fields /\ f \in home.fields[d] /\ v \in Int
  BY <1>3, <1>4 DEF Cmds
<1>6. actual' = [actual EXCEPT ![d][f] = v] /\ due' = [due EXCEPT ![d] = @ \cup {f}]
  BY <1>2, <1>4 DEF Spine!Dispatch
<1>7. /\ DOMAIN actual' = DOMAIN home.fields /\ \A x \in DOMAIN home.fields : actual'[x] \in [home.fields[x] -> Int]
      /\ DOMAIN due' = DOMAIN home.fields /\ \A x \in DOMAIN home.fields : due'[x] \subseteq home.fields[x]
      /\ actual'[d][f] = v
      /\ \A x \in DOMAIN home.fields : \A g \in home.fields[x] : ~(x = d /\ g = f) => actual'[x][g] = actual[x][g]
      /\ CacheInv'
      /\ \A x \in DOMAIN home.fields : \A g \in home.fields[x] :
           /\ Unseen(x, g) => Unseen(x, g)'
           /\ Seen(x, g) => Seen(x, g)' \/ Unseen(x, g)'
           /\ Never(x, g) => Never(x, g)' \/ Unseen(x, g)'
           /\ actual'[x][g] = actual[x][g] \/ Unseen(x, g)'
  <2>1. Moved(d, f, v)
    BY <1>1, <1>5, <1>6 DEF Moved
  <2>2. DueToReport(d, f, v)
    BY ONLY <2>1, ChangeKeeps
  <2> QED BY <2>2 DEF DueToReport
<1>8. HubTyped'
  BY <1>1, <1>3, <1>7 DEF HubTyped
<1>9. ASSUME NEW t \in DOMAIN home.fields, NEW g \in home.fields[t], NEW w \in Int, Ordered(t, g, w)
      PROVE  Ordered(t, g, w)'
  <2>1. c \in To(home, t, g) <=> t = d /\ g = f
    BY <1>3, <1>4 DEF To
  <2>2. c \in Set(home, t, g, w) => t = d /\ g = f /\ w = v
    BY <1>4 DEF Set, To
  <2>3. CASE Newest(qCmd, To(home, t, g), Set(home, t, g, w))
    <3>1. Newest(qCmd', To(home, t, g), Set(home, t, g, w)) \/ (c \in Set(home, t, g, w) /\ NoneIn(qCmd', To(home, t, g)))
      BY <1>3, <2>3
    <3> QED BY <1>1, <1>7, <2>2, <3>1 DEF Ordered
  <2>4. CASE NoneIn(qCmd, To(home, t, g)) /\ actual[t][g] = w
    <3>1. ~(t = d /\ g = f) /\ NoneIn(qCmd', To(home, t, g))
      BY <1>3, <2>1, <2>4
    <3>2. actual'[t][g] = w
      BY <1>7, <2>4, <3>1
    <3> QED BY <1>1, <3>1, <3>2 DEF Ordered
  <2> QED BY <1>9, <2>3, <2>4 DEF Ordered
<1>10. ASSUME NEW i \in 1..Len(home.rules), NEW g \in home.fields[home.rules[i].dst], NEW w \in Int,
              Ordered(home.rules[i].dst, g, w)
       PROVE  Ordered(home.rules[i].dst, g, w)'
  <2>1. PICK t : t = home.rules[i].dst /\ t = home'.rules[i].dst
    BY <1>1
  <2>2. t \in DOMAIN home.fields
    BY <1>1, <2>1 DEF HubTyped, Wired, RuleWired
  <2>3. Ordered(t, g, w) => Ordered(t, g, w)'
    BY <1>9, <2>1, <2>2
  <2> QED BY <1>10, <2>1, <2>3
<1>11. Undisturbed
  BY <1>7, <1>10 DEF Undisturbed
<1> QED BY <1>1, <1>7, <1>8, <1>11, RulesKept DEF HubInv

\* Publishing an event, and publishing commands.
LEMMA EventSent ==
  ASSUME Buffer \in Nat, HubTyped, NEW e \in Events(home), Spine!PublishEvent(e)
  PROVE  /\ qReflect' \in Seq(Events(home)) /\ qEngine' \in Seq(Events(home))
         /\ dropped' = {} => dropped = {}
         /\ "reflect" \notin dropped' => "reflect" \notin dropped
         /\ "reflect" \notin dropped' =>
              \A A, G : /\ e \in G => Newest(qReflect', A, G)
                        /\ e \notin A => /\ Newest(qReflect, A, G) => Newest(qReflect', A, G)
                                         /\ NoneIn(qReflect, A) => NoneIn(qReflect', A)
         /\ dropped' = {} =>
              \A A, G : /\ e \in G => Newest(qEngine', A, G)
                        /\ e \notin A => /\ Newest(qEngine, A, G) => Newest(qEngine', A, G)
                                         /\ NoneIn(qEngine, A) => NoneIn(qEngine', A)
<1>1. /\ qReflect \in Seq(Events(home)) /\ qEngine \in Seq(Events(home)) /\ <<e>> \in Seq(Events(home))
      /\ qReflect' = Spine!Sent(qReflect, <<e>>) /\ qEngine' = Spine!Sent(qEngine, <<e>>)
  BY DEF HubTyped, Spine!PublishEvent
<1>2. /\ dropped' = {} => dropped = {} /\ ~Spine!Full(qEngine, <<e>>)
      /\ "reflect" \notin dropped' => "reflect" \notin dropped /\ ~Spine!Full(qReflect, <<e>>)
  BY DEF Spine!PublishEvent
<1>3. /\ qReflect' \in Seq(Events(home)) /\ qEngine' \in Seq(Events(home))
      /\ ~Spine!Full(qReflect, <<e>>) => qReflect' = qReflect \o <<e>>
      /\ ~Spine!Full(qEngine, <<e>>) => qEngine' = qEngine \o <<e>>
  BY <1>1, SentTyped
<1>4. ASSUME NEW q \in Seq(Events(home)), NEW A, NEW G
      PROVE  /\ e \in G => Newest(q \o <<e>>, A, G)
             /\ e \notin A => /\ Newest(q, A, G) => Newest(q \o <<e>>, A, G)
                              /\ NoneIn(q, A) => NoneIn(q \o <<e>>, A)
  BY <1>1, NewestConcat, NewestOne
<1> QED BY <1>1, <1>2, <1>3, <1>4

LEMMA CommandsSent ==
  ASSUME Buffer \in Nat, HubTyped, NEW cs \in Seq(Cmds(home)), Spine!PublishCommands(cs)
  PROVE  /\ qCmd' \in Seq(Cmds(home))
         /\ dropped' = {} => dropped = {} /\ qCmd' = qCmd \o cs
         /\ "reflect" \notin dropped' => "reflect" \notin dropped
<1>1. qCmd \in Seq(Cmds(home)) /\ qCmd' = Spine!Sent(qCmd, cs)
  BY DEF HubTyped, Spine!PublishCommands
<1>2. /\ dropped' = {} => dropped = {} /\ ~Spine!Full(qCmd, cs)
      /\ "reflect" \notin dropped' => "reflect" \notin dropped
  BY DEF Spine!PublishCommands
<1> QED BY <1>1, <1>2, SentTyped

\* A device reports, or a button is pressed: the event goes to both channels.
LEMMA PublishKeeps ==
  ASSUME Buffer \in Nat, HubInv, UNCHANGED <<home, actual, qCmd, reg, ruleState>>,
         NEW e \in Events(home), Spine!PublishEvent(e),
         DOMAIN due' = DOMAIN home.fields,
         \A d \in DOMAIN home.fields : due'[d] \subseteq due[d],
         \A d \in DOMAIN home.fields : \A f \in home.fields[d] :
            /\ e \in Of(home, d, f) => e \in With(home, d, f, actual[d][f])
            /\ f \in due[d] \ due'[d] => e \in Of(home, d, f)
  PROVE  HubInv'
<1>1. HubTyped /\ CacheInv /\ RulesInv
  BY DEF HubInv
<1>2. /\ qReflect' \in Seq(Events(home)) /\ qEngine' \in Seq(Events(home))
      /\ dropped' = {} => dropped = {}
      /\ "reflect" \notin dropped' => "reflect" \notin dropped
      /\ "reflect" \notin dropped' =>
           \A A, G : /\ e \in G => Newest(qReflect', A, G)
                     /\ e \notin A => /\ Newest(qReflect, A, G) => Newest(qReflect', A, G)
                                      /\ NoneIn(qReflect, A) => NoneIn(qReflect', A)
      /\ dropped' = {} =>
           \A A, G : /\ e \in G => Newest(qEngine', A, G)
                     /\ e \notin A => /\ Newest(qEngine, A, G) => Newest(qEngine', A, G)
                                      /\ NoneIn(qEngine, A) => NoneIn(qEngine', A)
  BY <1>1, EventSent
<1>3. HubTyped'
  BY <1>1, <1>2 DEF HubTyped
<1>4. CacheInv'
  <2> SUFFICES ASSUME "reflect" \notin dropped', NEW d \in DOMAIN home.fields,
                      NEW f \in home.fields[d] \cap Spine!Merged, f \notin due'[d],
                      ~Newest(qReflect', Of(home, d, f), With(home, d, f, actual[d][f]))
               PROVE  NoneIn(qReflect', Of(home, d, f)) /\ Shown(d, f)' = actual[d][f]
    BY DEF CacheInv, Spine!Merged
  <2>1. e \notin Of(home, d, f)
    BY <1>2
  <2>2. f \notin due[d]
    BY <2>1
  <2>3. ~Newest(qReflect, Of(home, d, f), With(home, d, f, actual[d][f]))
    BY <1>2, <2>1
  <2>4. NoneIn(qReflect, Of(home, d, f)) /\ Shown(d, f) = actual[d][f]
    BY <1>1, <1>2, <2>2, <2>3 DEF CacheInv
  <2>5. NoneIn(qReflect', Of(home, d, f))
    BY <1>2, <2>1, <2>4
  <2> QED BY <2>4, <2>5 DEF Shown
<1>5. ASSUME dropped' = {} PROVE Undisturbed
  <2>1. ASSUME NEW d \in DOMAIN home.fields, NEW f \in home.fields[d], ~Unseen(d, f)'
        PROVE  ~Unseen(d, f) /\ (Seen(d, f) => Seen(d, f)') /\ (Never(d, f) => Never(d, f)')
    <3>1. f \notin due'[d] /\ ~Newest(qEngine', Of(home, d, f), With(home, d, f, actual[d][f]))
      BY <2>1 DEF Unseen
    <3>2. e \notin Of(home, d, f)
      BY <1>2, <1>5, <3>1
    <3>3. f \notin due[d] /\ ~Newest(qEngine, Of(home, d, f), With(home, d, f, actual[d][f]))
      BY <1>2, <1>5, <3>1, <3>2
    <3>4. /\ NoneIn(qEngine, Of(home, d, f)) => NoneIn(qEngine', Of(home, d, f))
          /\ NoneIn(qReflect, Of(home, d, f)) => NoneIn(qReflect', Of(home, d, f))
      BY <1>2, <1>5, <3>2
    <3> QED BY <3>3, <3>4 DEF Unseen, Seen, Never
  <2>2. \A d, f, v : Ordered(d, f, v) <=> Ordered(d, f, v)'
    BY DEF Ordered
  <2> QED BY <2>1, <2>2 DEF Undisturbed
<1> QED BY <1>1, <1>2, <1>3, <1>4, <1>5, RulesKept DEF HubInv

LEMMA ReportKeeps ==
  ASSUME Buffer \in Nat, HubInv, NEW d \in DOMAIN home.fields, Spine!Report(d)
  PROVE  HubInv'
<1>1. HubTyped /\ UNCHANGED <<home, actual, qCmd, reg, ruleState>> /\ due' = [due EXCEPT ![d] = {}]
  BY DEF HubInv, Spine!Report
<1>2. PICK s : s = [f \in due[d] |-> actual[d][f]]
  OBVIOUS
<1>3. PICK e : e = [dev |-> d, kind |-> "state", state |-> s]
  OBVIOUS
<1>4. Spine!PublishEvent(e)
  BY <1>2, <1>3 DEF Spine!Report, Spine!Event
<1>5. due[d] \subseteq home.fields[d] /\ home.fields[d] \subseteq AllFields /\ actual[d] \in [home.fields[d] -> Int]
  BY <1>1 DEF HubTyped, Wired
<1>6. s \in [due[d] -> Int] /\ due[d] \in SUBSET AllFields
  BY <1>2, <1>5
<1>7. e \in Events(home)
  <2>1. s \in State
    BY <1>6 DEF State
  <2> QED BY <1>3, <2>1 DEF Events
<1>8. ASSUME NEW c \in DOMAIN home.fields, NEW f \in home.fields[c]
      PROVE  /\ e \in Of(home, c, f) => e \in With(home, c, f, actual[c][f])
             /\ f \in due[c] \ due'[c] => e \in Of(home, c, f)
  <2>1. e \in Of(home, c, f) <=> c = d /\ f \in due[d]
    BY <1>2, <1>3, <1>7 DEF Of
  <2>2. (c = d /\ f \in due[d]) => e.state[f] = actual[c][f]
    BY <1>2, <1>3
  <2>3. f \in due[c] \ due'[c] => c = d
    BY <1>1 DEF HubTyped
  <2> QED BY <2>1, <2>2, <2>3 DEF With
<1>9. DOMAIN due' = DOMAIN home.fields /\ \A c \in DOMAIN home.fields : due'[c] \subseteq due[c]
  BY <1>1 DEF HubTyped
<1>10. UNCHANGED <<home, actual, qCmd, reg, ruleState>>
  BY <1>1
<1> HIDE DEF HubInv
<1> QED BY ONLY Buffer \in Nat, HubInv, <1>4, <1>7, <1>8, <1>9, <1>10, PublishKeeps

LEMMA PressKeeps ==
  ASSUME Buffer \in Nat, HubInv, NEW d \in Spine!Paddles, Spine!Press(d)
  PROVE  HubInv'
<1>1. HubTyped /\ UNCHANGED <<home, actual, due, qCmd, reg, ruleState>>
  BY DEF HubInv, Spine!Press
<1>2. PICK e : e = [dev |-> d, kind |-> "button", state |-> Spine!Empty]
  OBVIOUS
<1>3. Spine!PublishEvent(e)
  BY <1>2 DEF Spine!Press, Spine!Event
<1>4. d \in DOMAIN home.fields
  BY <1>1 DEF HubTyped, Wired, Spine!Paddles
<1>5. DOMAIN Spine!Empty = {} /\ Spine!Empty \in State
  <2>1. DOMAIN Spine!Empty = {} /\ Spine!Empty \in [{} -> Int]
    BY ONLY DEF Spine!Empty
  <2>2. [{} -> Int] \in {[F -> Int] : F \in SUBSET AllFields}
    <3>1. {} \in SUBSET AllFields
      OBVIOUS
    <3> QED BY ONLY <3>1
  <2> QED BY <2>1, <2>2 DEF State
<1>6. e \in Events(home) /\ \A c, f : e \notin Of(home, c, f)
  BY <1>2, <1>4, <1>5 DEF Events, Of
<1>7. DOMAIN due' = DOMAIN home.fields
  BY <1>1 DEF HubTyped
<1> QED BY <1>1, <1>3, <1>6, <1>7, PublishKeeps

LEMMA HomeKitKeeps ==
  ASSUME Buffer \in Nat, HubInv, NEW d \in Spine!Commanded, NEW f \in Spine!Fields[d], NEW v \in MCValue[f],
         Spine!HomeKit(d, f, v)
  PROVE  HubInv'
<1>1. HubTyped /\ CacheInv /\ RulesInv /\ UNCHANGED <<home, actual, due, qReflect, qEngine, reg, ruleState>>
  BY DEF HubInv, Spine!HomeKit
<1>2. Wired(home) /\ d \in home.commanded /\ d \in DOMAIN home.fields /\ f \in home.fields[d] /\ f \in AllFields
  BY <1>1 DEF HubTyped, Wired, Spine!Commanded, Spine!Fields
<1>3. v \in Int
  BY <1>2 DEF AllFields, MCValue
<1>4. PICK c : c = [dev |-> d, field |-> f, value |-> v]
  OBVIOUS
<1>5. c \in Cmds(home) /\ <<c>> \in Seq(Cmds(home))
  BY <1>2, <1>3, <1>4 DEF Cmds
<1>6. Spine!PublishCommands(<<c>>)
  BY <1>4 DEF Spine!HomeKit, Spine!Command
<1>7. /\ qCmd' \in Seq(Cmds(home))
      /\ dropped' = {} => dropped = {} /\ qCmd' = qCmd \o <<c>>
      /\ "reflect" \notin dropped' => "reflect" \notin dropped
  BY <1>1, <1>5, <1>6, CommandsSent
<1>8. HubTyped'
  BY <1>1, <1>7 DEF HubTyped
<1>9. CacheInv'
  BY <1>1, <1>7 DEF CacheInv, Shown
<1>10. ASSUME dropped' = {} PROVE Undisturbed
  <2>1. ASSUME NEW t, NEW g, NEW w, t # d, Ordered(t, g, w) PROVE Ordered(t, g, w)'
    <3>1. c \notin To(home, t, g)
      BY <1>4, <2>1 DEF To
    <3>2. NoneIn(<<c>>, To(home, t, g))
      BY <3>1, NewestOne
    <3>3. /\ Newest(qCmd, To(home, t, g), Set(home, t, g, w)) => Newest(qCmd', To(home, t, g), Set(home, t, g, w))
          /\ NoneIn(qCmd, To(home, t, g)) => NoneIn(qCmd', To(home, t, g))
      <4>1. qCmd \in Seq(Cmds(home)) /\ qCmd' = qCmd \o <<c>>
        BY <1>1, <1>7, <1>10 DEF HubTyped
      <4> QED BY <1>5, <3>2, <4>1, NewestConcat
    <3> QED BY <1>1, <2>1, <3>3 DEF Ordered
  <2>2. ASSUME NEW i \in 1..Len(home.rules), home.rules[i].type # "button", NEW g, NEW w,
               Ordered(home.rules[i].dst, g, w)
        PROVE  Ordered(home.rules[i].dst, g, w)'
    <3>1. PICK t : t = home.rules[i].dst /\ t = home'.rules[i].dst
      BY <1>1
    <3>2. t # d
      BY <1>2, <2>2, <3>1 DEF Wired, Alone
    <3>3. Ordered(t, g, w) => Ordered(t, g, w)'
      BY <2>1, <3>2
    <3> QED BY <2>2, <3>1, <3>3
  <2>3. \A x, g : /\ Unseen(x, g) <=> Unseen(x, g)'
                  /\ Seen(x, g) <=> Seen(x, g)'
                  /\ Never(x, g) <=> Never(x, g)'
    BY <1>1 DEF Unseen, Seen, Never
  <2> QED BY <1>1, <2>2, <2>3 DEF Undisturbed
<1> QED BY <1>1, <1>7, <1>8, <1>9, <1>10, RulesKept DEF HubInv

\* What one rule does with an event.
RuleDoes(e, r, rs, o) ==
  /\ o.cmds \in Seq(Cmds(home)) /\ o.rs \in RuleStates
  /\ r.type = "cycle" => o.rs.idx <= Len(r.states)
  /\ \A t, f : t # r.dst => NoneIn(o.cmds, To(home, t, f))
  /\ r.type = "mirror" =>
       IF e \in Of(home, r.src, "on") THEN o.cmds = <<Spine!Command(r.dst, "on", e.state["on"])>>
                                      ELSE o.cmds = <<>>
  /\ r.type = "threshold" =>
       /\ e \in Of(home, r.src, "value") => Agrees(r, o.rs, e.state["value"])
       /\ e \notin Of(home, r.src, "value") => o.rs = rs
       /\ \/ o.cmds = <<>> /\ o.rs = rs
          \/ o.rs.known /\ o.cmds = <<Spine!Command(r.dst, "on", IF o.rs.on THEN 1 ELSE 0)>>
  /\ r.type = "cycle" =>
       \/ o.cmds = <<>> /\ (o.rs = rs \/ o.rs.idx = 1)
       \/ r.states[o.rs.idx] > 0 => o.cmds = <<Spine!Command(r.dst, "level", r.states[o.rs.idx])>>

LEMMA RuleOut ==
  ASSUME HubTyped, NEW i \in 1..Len(home.rules), NEW e \in Events(home)
  PROVE  RuleDoes(e, home.rules[i], ruleState[i], Spine!RunRule(home.rules[i], ruleState[i], e))
<1> PICK r, rs, o : r = home.rules[i] /\ rs = ruleState[i] /\ o = Spine!RunRule(r, rs, e)
  OBVIOUS
<1> SUFFICES RuleDoes(e, r, rs, o)
  OBVIOUS
<1> USE DEF RuleDoes
<1> DEFINE C(f, v) == Spine!Command(r.dst, f, v)
<1>1. RuleWired(home, i) /\ rs \in RuleStates /\ (r.type = "cycle" => rs.idx <= Len(r.states))
  BY DEF HubTyped, Wired
<1>2. /\ r.type \in Kinds /\ r.dst \in DOMAIN home.fields /\ r.src \in DOMAIN home.fields
      /\ r.type # "button" => "on" \in home.fields[r.dst]
      /\ home.fields[r.dst] \subseteq AllFields
      /\ r.type = "mirror" => "on" \in home.fields[r.src]
      /\ r.type = "threshold" => "value" \in home.fields[r.src] /\ r.above \in Int /\ r.below \in Int /\ r.below < r.above
      /\ r.type = "cycle" => "level" \in home.fields[r.dst] /\ r.states \in Seq(Int) /\ Len(r.states) > 0 /\ r.states[1] = 0
  BY <1>1 DEF RuleWired, HubTyped, Wired
<1>3. ASSUME NEW f \in home.fields[r.dst], NEW v \in Int
      PROVE  <<C(f, v)>> \in Seq(Cmds(home)) /\ \A t, g : t # r.dst => NoneIn(<<C(f, v)>>, To(home, t, g))
  <2>1. C(f, v) \in Cmds(home) /\ C(f, v).dev = r.dst
    BY <1>2 DEF Cmds, Spine!Command
  <2>2. <<C(f, v)>> \in Seq(Cmds(home))
    BY <2>1
  <2>3. ASSUME NEW t, NEW g, t # r.dst PROVE NoneIn(<<C(f, v)>>, To(home, t, g))
    <3>1. C(f, v) \notin To(home, t, g)
      BY <2>1, <2>3 DEF To
    <3> HIDE DEF C
    <3> QED BY <3>1, NewestOne
  <2> QED BY <2>2, <2>3
<1>4. <<>> \in Seq(Cmds(home)) /\ \A t, g : NoneIn(<<>>, To(home, t, g))
  BY DEF NoneIn
<1>5. \A f : /\ e \in Of(home, r.src, f) <=> e.dev = r.src /\ Spine!Reports(e, f)
             /\ f \in DOMAIN e.state => e.state[f] \in Int
  BY DEF Of, Events, Spine!Reports, State
<1>6. CASE r.type = "mirror"
  <2>1. o = Spine!MirrorRule(r, rs, e)
    BY <1>6 DEF Spine!RunRule
  <2>2. CASE e \in Of(home, r.src, "on")
    <3>1. o.rs = rs /\ o.cmds = <<C("on", e.state["on"])>>
      BY <1>5, <2>1, <2>2 DEF Spine!MirrorRule
    <3>2. e.state["on"] \in Int
      BY <1>5, <2>2 DEF Of
    <3>3. /\ <<C("on", e.state["on"])>> \in Seq(Cmds(home))
          /\ \A t, g : t # r.dst => NoneIn(<<C("on", e.state["on"])>>, To(home, t, g))
      BY <1>2, <1>3, <1>6, <3>2
    <3> QED BY <1>1, <1>6, <2>2, <3>1, <3>3
  <2>3. CASE e \notin Of(home, r.src, "on")
    <3>1. o.rs = rs /\ o.cmds = <<>>
      BY <1>5, <2>1, <2>3 DEF Spine!MirrorRule, Spine!Nothing
    <3> QED BY <1>1, <1>4, <1>6, <2>3, <3>1
  <2> QED BY <2>2, <2>3
<1>7. CASE r.type = "button"
  <2>1. o = Spine!ButtonRule(r, rs, e)
    BY <1>7 DEF Spine!RunRule
  <2>2. PICK v : v = IF "on" \in DOMAIN reg[r.dst] THEN 1 - reg[r.dst]["on"] ELSE 1
    OBVIOUS
  <2>3. v \in Int
    <3>1. reg[r.dst] \in State
      BY <1>2 DEF HubTyped
    <3>2. "on" \in DOMAIN reg[r.dst] => reg[r.dst]["on"] \in Int
      BY <3>1 DEF State
    <3> QED BY <2>2, <3>2
  <2>4. RuleWired(home, i)
    BY <1>1 DEF HubTyped, Wired
  <2>5. PICK f \in home.fields[r.dst], w \in Int : Spine!Action(r) = C(f, w)
    <3>1. CASE r.action = "toggle"
      BY <1>7, <2>2, <2>3, <2>4, <3>1 DEF Spine!Action, RuleWired
    <3>2. CASE r.action = "on"
      BY <1>7, <2>4, <3>2 DEF Spine!Action, RuleWired
    <3>3. CASE r.action = "off"
      BY <1>7, <2>4, <3>3 DEF Spine!Action, RuleWired
    <3>4. CASE r.action = "open"
      BY <1>7, <2>4, <3>4 DEF Spine!Action, RuleWired
    <3>5. CASE r.action = "close"
      BY <1>7, <2>4, <3>5 DEF Spine!Action, RuleWired
    <3>6. CASE r.action = "position"
      BY <1>7, <2>4, <3>6 DEF Spine!Action, RuleWired
    <3> QED BY <1>7, <2>4, <3>1, <3>2, <3>3, <3>4, <3>5, <3>6 DEF RuleWired
  <2>6. \/ o.rs = rs /\ o.cmds = <<>>
        \/ o.rs = rs /\ o.cmds = <<C(f, w)>>
    BY <2>1, <2>5 DEF Spine!ButtonRule, Spine!Nothing
  <2>7. <<C(f, w)>> \in Seq(Cmds(home)) /\ \A t, g : t # r.dst => NoneIn(<<C(f, w)>>, To(home, t, g))
    BY <1>3
  <2> HIDE DEF C
  <2> QED BY <1>1, <1>4, <1>7, <2>6, <2>7
<1>8. CASE r.type = "threshold"
  <2>1. o = Spine!ThresholdRule(r, rs, e)
    BY <1>8 DEF Spine!RunRule
  <2>2. /\ <<C("on", 0)>> \in Seq(Cmds(home)) /\ \A t, g : t # r.dst => NoneIn(<<C("on", 0)>>, To(home, t, g))
        /\ <<C("on", 1)>> \in Seq(Cmds(home)) /\ \A t, g : t # r.dst => NoneIn(<<C("on", 1)>>, To(home, t, g))
    <3>1. \A v \in Int : <<C("on", v)>> \in Seq(Cmds(home)) /\ \A t, g : t # r.dst => NoneIn(<<C("on", v)>>, To(home, t, g))
      BY <1>2, <1>3, <1>8
    <3> HIDE DEF C
    <3> QED BY <3>1
  <2>3. CASE e \notin Of(home, r.src, "value")
    <3>1. o.rs = rs /\ o.cmds = <<>>
      BY <1>5, <2>1, <2>3 DEF Spine!ThresholdRule, Spine!Nothing
    <3> QED BY <1>1, <1>4, <1>8, <2>3, <3>1
  <2>4. CASE e \in Of(home, r.src, "value")
    <3>1. PICK v \in Int : v = e.state["value"]
      BY <1>5, <2>4 DEF Of
    <3>2. CASE v >= r.above /\ (~rs.known \/ ~rs.on)
      <4>1. o.rs = [rs EXCEPT !.on = TRUE, !.known = TRUE] /\ o.cmds = <<C("on", 1)>>
        BY <1>5, <2>1, <2>4, <3>1, <3>2 DEF Spine!ThresholdRule
      <4>2. o.rs \in RuleStates /\ o.rs.on /\ o.rs.known
        BY <1>1, <4>1 DEF RuleStates
      <4>3. Agrees(r, o.rs, v)
        BY <1>2, <1>8, <3>1, <3>2, <4>2 DEF Agrees
      <4> QED BY <1>8, <2>2, <2>4, <3>1, <4>1, <4>2, <4>3
    <3>3. CASE ~(v >= r.above /\ (~rs.known \/ ~rs.on)) /\ v <= r.below /\ (~rs.known \/ rs.on)
      <4>1. o.rs = [rs EXCEPT !.on = FALSE, !.known = TRUE] /\ o.cmds = <<C("on", 0)>>
        BY <1>5, <2>1, <2>4, <3>1, <3>3 DEF Spine!ThresholdRule
      <4>2. o.rs \in RuleStates /\ ~o.rs.on /\ o.rs.known
        BY <1>1, <4>1 DEF RuleStates
      <4>3. Agrees(r, o.rs, v)
        BY <1>2, <1>8, <3>1, <3>3, <4>2 DEF Agrees
      <4> QED BY <1>8, <2>2, <2>4, <3>1, <4>1, <4>2, <4>3
    <3>4. CASE ~(v >= r.above /\ (~rs.known \/ ~rs.on)) /\ ~(v <= r.below /\ (~rs.known \/ rs.on))
      <4>1. o.rs = rs /\ o.cmds = <<>>
        BY <1>5, <2>1, <2>4, <3>1, <3>4 DEF Spine!ThresholdRule, Spine!Nothing
      <4>2. Agrees(r, rs, v)
        BY <3>4 DEF Agrees
      <4> QED BY <1>1, <1>4, <1>8, <2>4, <3>1, <4>1, <4>2
    <3> QED BY <3>2, <3>3, <3>4
  <2> QED BY <2>3, <2>4
<1>9. CASE r.type = "cycle"
  <2>1. o = Spine!CycleRule(r, rs, e)
    BY <1>9 DEF Spine!RunRule
  <2>2. PICK m \in Nat \ {0} : m = Len(r.states)
    BY <1>2, <1>9
  <2>3. PICK k : k = (rs.idx % Len(r.states)) + 1
    OBVIOUS
  <2>4. k \in Nat \ {0} /\ k <= m /\ k \in 1..Len(r.states)
    <3>1. rs.idx \in Nat
      BY <1>1 DEF RuleStates
    <3>2. rs.idx % m \in 0..(m - 1)
      BY <3>1
    <3> QED BY <2>2, <2>3, <3>2
  <2>5. PICK lvl \in Int : lvl = r.states[k]
    BY <1>2, <1>9, <2>4
  <2>6. \/ o.rs = [rs EXCEPT !.idx = 1] /\ o.cmds = <<>>
        \/ o.rs = rs /\ o.cmds = <<>>
        \/ o.rs = [rs EXCEPT !.idx = k] /\ o.cmds = <<IF lvl > 0 THEN C("level", lvl) ELSE C("on", 0)>>
    <3> DEFINE Off == e.dev = r.power /\ Spine!Reports(e, "on") /\ e.state["on"] = 0
               Pressed == e.dev = r.src /\ e.kind = "button"
    <3>1. o = IF Off THEN Spine!Nothing([rs EXCEPT !.idx = 1])
              ELSE IF Pressed
                THEN [rs |-> [rs EXCEPT !.idx = k],
                      cmds |-> <<IF lvl > 0 THEN C("level", lvl) ELSE C("on", 0)>>]
              ELSE Spine!Nothing(rs)
      BY ONLY <2>1, <2>3, <2>5 DEF Spine!CycleRule, C
    <3> HIDE DEF Off, Pressed, C
    <3>2. \/ o = Spine!Nothing([rs EXCEPT !.idx = 1])
          \/ o = [rs |-> [rs EXCEPT !.idx = k], cmds |-> <<IF lvl > 0 THEN C("level", lvl) ELSE C("on", 0)>>]
          \/ o = Spine!Nothing(rs)
      BY ONLY <3>1
    <3> QED BY ONLY <3>2 DEF Spine!Nothing
  <2>7. CASE o.rs = [rs EXCEPT !.idx = 1] /\ o.cmds = <<>>
    <3>1. o.rs \in RuleStates /\ o.rs.idx = 1 /\ 1 <= m
      BY <1>1, <2>2, <2>7 DEF RuleStates
    <3> QED BY <1>4, <1>9, <2>2, <2>7, <3>1
  <2>8. CASE o.rs = rs /\ o.cmds = <<>>
    BY <1>1, <1>4, <1>9, <2>8
  <2>9. CASE o.rs = [rs EXCEPT !.idx = k] /\ o.cmds = <<IF lvl > 0 THEN C("level", lvl) ELSE C("on", 0)>>
    <3>1. o.rs \in RuleStates /\ o.rs.idx = k
      BY <1>1, <2>4, <2>9 DEF RuleStates
    <3>2. /\ <<C("level", lvl)>> \in Seq(Cmds(home)) /\ \A t, g : t # r.dst => NoneIn(<<C("level", lvl)>>, To(home, t, g))
          /\ <<C("on", 0)>> \in Seq(Cmds(home)) /\ \A t, g : t # r.dst => NoneIn(<<C("on", 0)>>, To(home, t, g))
      BY <1>2, <1>3, <1>9
    <3> HIDE DEF C
    <3>3. o.cmds \in Seq(Cmds(home)) /\ \A t, g : t # r.dst => NoneIn(o.cmds, To(home, t, g))
      BY <2>9, <3>2
    <3>4. r.states[o.rs.idx] > 0 => o.cmds = <<C("level", r.states[o.rs.idx])>>
      BY <2>5, <2>9, <3>1
    <3> QED BY <1>9, <2>2, <2>4, <3>1, <3>3, <3>4 DEF C
  <2> QED BY <2>6, <2>7, <2>8, <2>9
<1> QED BY <1>2, <1>6, <1>7, <1>8, <1>9 DEF Kinds

\* The engine's step: the event it has taken is seen, and what the rules say
\* is ordered.
LEMMA RunRulesKeeps == ASSUME Buffer \in Nat, HubInv, Spine!RunRules PROVE HubInv'
<1>1. /\ HubTyped /\ CacheInv /\ RulesInv /\ UNCHANGED <<home, actual, due, qReflect, reg>>
      /\ qEngine # <<>> /\ qEngine' = Tail(qEngine)
  BY DEF HubInv, Spine!RunRules
<1>2. PICK e : e = Head(qEngine)
  OBVIOUS
<1>3. PICK N \in Nat : N = Len(home.rules) /\ DOMAIN home.rules = 1..N
  BY <1>1 DEF HubTyped, Wired
<1>4. PICK out : out = [i \in DOMAIN home.rules |-> Spine!RunRule(home.rules[i], ruleState[i], e)]
  OBVIOUS
<1>5. PICK cs : cs = Spine!Commands(out)
  OBVIOUS
<1>6. ruleState' = [i \in DOMAIN home.rules |-> out[i].rs] /\ Spine!PublishCommands(cs)
  BY <1>2, <1>4, <1>5 DEF Spine!RunRules, Spine!Rules
<1>7. \A A, G : /\ e \in Events(home) /\ qEngine' \in Seq(Events(home))
                /\ Newest(qEngine, A, G) => Newest(qEngine', A, G) \/ (e \in G /\ NoneIn(qEngine', A))
                /\ NoneIn(qEngine, A) => e \notin A /\ NoneIn(qEngine', A)
  BY <1>1, <1>2, NewestTail DEF HubTyped
<1>8. ASSUME NEW i \in 1..N
      PROVE  /\ out[i].cmds \in Seq(Cmds(home)) /\ out[i].rs \in RuleStates
             /\ home.rules[i].type = "cycle" => out[i].rs.idx <= Len(home.rules[i].states)
             /\ \A t, f : t # home.rules[i].dst => NoneIn(out[i].cmds, To(home, t, f))
  <2>1. out[i] = Spine!RunRule(home.rules[i], ruleState[i], e)
    BY <1>3, <1>4
  <2>2. RuleDoes(e, home.rules[i], ruleState[i], out[i])
    BY <1>1, <1>3, <1>7, <2>1, RuleOut
  <2> QED BY <2>2 DEF RuleDoes
<1>9. cs \in Seq(Cmds(home))
  BY <1>3, <1>5, <1>8, CommandsOf
<1>10. /\ qCmd' \in Seq(Cmds(home))
       /\ dropped' = {} => dropped = {} /\ qCmd' = qCmd \o cs
       /\ "reflect" \notin dropped' => "reflect" \notin dropped
  BY <1>1, <1>6, <1>9, CommandsSent
<1>11. HubTyped'
  <2>1. ruleState' \in [1..N -> RuleStates] /\ \A i \in 1..N : ruleState'[i] = out[i].rs
    BY <1>3, <1>6, <1>8
  <2> QED BY <1>1, <1>3, <1>7, <1>8, <1>10, <2>1 DEF HubTyped
<1>12. CacheInv'
  BY <1>1, <1>10 DEF CacheInv, Shown
<1>13. RulesInv'
  <2> SUFFICES ASSUME dropped' = {}, NEW i \in 1..N
               PROVE  /\ home.rules[i].type = "mirror" => Mirrors(i)'
                      /\ home.rules[i].type = "threshold" => Thresholds(i)'
                      /\ home.rules[i].type = "cycle" => Cycles(i)'
    BY <1>1, <1>3 DEF RulesInv
  <2>1. dropped = {} /\ qCmd' = qCmd \o cs /\ qCmd \in Seq(Cmds(home))
    BY <1>1, <1>10 DEF HubTyped
  <2>2. PICK r, rs, o : r = home.rules[i] /\ rs = ruleState[i] /\ o = out[i]
    OBVIOUS
  <2>3. PICK s, t : s = r.src /\ t = r.dst
    OBVIOUS
  <2>4. o = Spine!RunRule(r, rs, e) /\ ruleState'[i] = o.rs /\ r = home'.rules[i] /\ e \in Events(home)
    BY <1>1, <1>3, <1>4, <1>6, <1>7, <2>2
  <2>5. /\ s \in DOMAIN home.fields /\ t \in DOMAIN home.fields /\ (r.type # "button" => "on" \in home.fields[t])
        /\ r.type = "mirror" => "on" \in home.fields[s]
        /\ r.type = "threshold" => "value" \in home.fields[s]
        /\ r.type = "cycle" => "level" \in home.fields[t] /\ r.states \in Seq(Int) /\ r.states[1] = 0
        /\ actual[s] \in [home.fields[s] -> Int]
        /\ home.fields[t] \subseteq AllFields
        /\ r.type # "button" => \A j \in 1..N : j # i => home.rules[j].dst # t
    BY <1>1, <1>3, <2>2, <2>3 DEF HubTyped, Wired, RuleWired, Alone
  <2>6. /\ r.type = "mirror" =>
             IF e \in Of(home, s, "on") THEN o.cmds = <<Spine!Command(t, "on", e.state["on"])>> ELSE o.cmds = <<>>
        /\ r.type = "threshold" =>
             /\ e \in Of(home, s, "value") => Agrees(r, o.rs, e.state["value"])
             /\ e \notin Of(home, s, "value") => o.rs = rs
             /\ \/ o.cmds = <<>> /\ o.rs = rs
                \/ o.rs.known /\ o.cmds = <<Spine!Command(t, "on", IF o.rs.on THEN 1 ELSE 0)>>
        /\ r.type = "cycle" =>
             \/ o.cmds = <<>> /\ (o.rs = rs \/ o.rs.idx = 1)
             \/ r.states[o.rs.idx] > 0 => o.cmds = <<Spine!Command(t, "level", r.states[o.rs.idx])>>
    <3>1. RuleDoes(e, r, rs, o)
      BY <1>1, <1>3, <2>2, <2>4, RuleOut
    <3> QED BY <2>3, <3>1 DEF RuleDoes
  \* What a driven device is told is what its own rule says.
  <2>7. ASSUME r.type # "button", NEW f \in home.fields[t], NEW v \in Int, o.cmds = <<Spine!Command(t, f, v)>>
        PROVE  Ordered(t, f, v)'
    <3>1. Spine!Command(t, f, v) \in Set(home, t, f, v)
      BY <2>5 DEF Set, To, Cmds, Spine!Command
    <3>2. Newest(out[i].cmds, To(home, t, f), Set(home, t, f, v))
      BY <2>2, <2>7, <3>1, NewestOne
    <3>3. \A j \in 1..N : j # i => NoneIn(out[j].cmds, To(home, t, f))
      BY <1>8, <2>5, <2>7
    <3>4. Newest(cs, To(home, t, f), Set(home, t, f, v))
      BY <1>3, <1>5, <1>8, <3>2, <3>3, CommandsOf
    <3>5. Newest(qCmd', To(home, t, f), Set(home, t, f, v))
      BY <1>9, <2>1, <3>4, NewestConcat
    <3> QED BY <1>1, <3>5 DEF Ordered
  <2>8. ASSUME r.type # "button", NEW f \in home.fields[t], NEW v \in Int, o.cmds = <<>>, Ordered(t, f, v)
        PROVE  Ordered(t, f, v)'
    <3>1. NoneIn(out[i].cmds, To(home, t, f))
      BY <2>2, <2>8 DEF NoneIn
    <3>2. \A j \in 1..N : NoneIn(out[j].cmds, To(home, t, f))
      BY <1>8, <2>5, <2>8, <3>1
    <3>3. NoneIn(cs, To(home, t, f))
      BY <1>3, <1>5, <1>8, <3>2, CommandsOf
    <3>4. /\ Newest(qCmd, To(home, t, f), Set(home, t, f, v)) => Newest(qCmd', To(home, t, f), Set(home, t, f, v))
          /\ NoneIn(qCmd, To(home, t, f)) => NoneIn(qCmd', To(home, t, f))
      BY <1>9, <2>1, <3>3, NewestConcat
    <3> QED BY <1>1, <2>8, <3>4 DEF Ordered
  <2>9. ASSUME NEW f \in home.fields[s], ~Unseen(s, f)'
        PROVE  /\ Seen(s, f)' \/ ~Seen(s, f)
               /\ Unseen(s, f) => Seen(s, f)' /\ e \in With(home, s, f, actual[s][f])
               /\ Seen(s, f) => e \notin Of(home, s, f)
               /\ Never(s, f)' <=> Never(s, f)
    <3>1. f \notin due[s] /\ ~Newest(qEngine', Of(home, s, f), With(home, s, f, actual[s][f]))
      BY <1>1, <2>9 DEF Unseen
    <3>2. Never(s, f)' <=> Never(s, f)
      BY <1>1 DEF Never
    <3>3. /\ Unseen(s, f) => NoneIn(qEngine', Of(home, s, f)) /\ e \in With(home, s, f, actual[s][f])
          /\ Seen(s, f) => NoneIn(qEngine', Of(home, s, f)) /\ e \notin Of(home, s, f)
      BY <1>7, <3>1 DEF Unseen, Seen
    <3> QED BY <1>1, <3>2, <3>3 DEF Seen
  <2>10. ASSUME r.type = "mirror" PROVE Mirrors(i)'
    <3> SUFFICES ASSUME ~Unseen(s, "on")'
                 PROVE  Seen(s, "on")' /\ (Never(s, "on")' \/ Ordered(t, "on", actual[s]["on"])')
      BY <1>1, <2>3, <2>4 DEF Mirrors
    <3>1. PICK v \in Int : v = actual[s]["on"] /\ v = actual'[s]["on"]
      BY <1>1, <2>5, <2>10
    <3>2. Unseen(s, "on") \/ (Seen(s, "on") /\ (Never(s, "on") \/ Ordered(t, "on", v)))
      BY <1>1, <1>3, <2>1, <2>2, <2>3, <2>10, <3>1 DEF RulesInv, Mirrors
    <3>3. CASE Unseen(s, "on")
      <4>1. Seen(s, "on")' /\ e \in Of(home, s, "on") /\ e.state["on"] = v
        BY <2>5, <2>9, <2>10, <3>1, <3>3 DEF With
      <4>2. Ordered(t, "on", v)'
        BY <2>5, <2>6, <2>7, <2>10, <4>1
      <4> QED BY <3>1, <4>1, <4>2
    <3>4. CASE Seen(s, "on") /\ (Never(s, "on") \/ Ordered(t, "on", v))
      <4>1. Seen(s, "on")' /\ o.cmds = <<>> /\ (Never(s, "on") <=> Never(s, "on")')
        BY <2>5, <2>6, <2>9, <2>10, <3>4
      <4>2. Ordered(t, "on", v) => Ordered(t, "on", v)'
        BY <2>5, <2>8, <2>10, <4>1
      <4> QED BY <3>1, <3>4, <4>1, <4>2
    <3> QED BY <3>2, <3>3, <3>4
  <2>11. ASSUME r.type = "threshold" PROVE Thresholds(i)'
    <3>0. /\ \/ Unseen(s, "value")
             \/ Seen(s, "value") /\ (Never(s, "value") \/ Agrees(r, rs, actual[s]["value"]))
          /\ rs.known => Ordered(t, "on", IF rs.on THEN 1 ELSE 0)
      BY <1>1, <1>3, <2>1, <2>2, <2>3, <2>11 DEF RulesInv, Thresholds
    <3>1. ASSUME ~Unseen(s, "value")'
          PROVE  Seen(s, "value")' /\ (Never(s, "value")' \/ Agrees(r, o.rs, actual[s]["value"]))
      <4>1. CASE Unseen(s, "value")
        <5>1. Seen(s, "value")' /\ e \in Of(home, s, "value") /\ e.state["value"] = actual[s]["value"]
          BY <2>5, <2>9, <2>11, <3>1, <4>1 DEF With
        <5> QED BY <2>6, <2>11, <5>1
      <4>2. CASE Seen(s, "value") /\ (Never(s, "value") \/ Agrees(r, rs, actual[s]["value"]))
        <5>1. Seen(s, "value")' /\ o.rs = rs /\ (Never(s, "value") <=> Never(s, "value")')
          BY <2>5, <2>6, <2>9, <2>11, <3>1, <4>2
        <5> QED BY <4>2, <5>1
      <4> QED BY <3>0, <4>1, <4>2
    <3>2. PICK v \in Int : v = IF o.rs.on THEN 1 ELSE 0
      OBVIOUS
    <3>3. ASSUME o.rs.known PROVE Ordered(t, "on", v)'
      <4>1. CASE o.cmds = <<>> /\ o.rs = rs
        <5>1. Ordered(t, "on", v)
          BY <3>0, <3>2, <3>3, <4>1
        <5> QED BY <2>5, <2>8, <2>11, <4>1, <5>1
      <4>2. CASE o.cmds = <<Spine!Command(t, "on", v)>>
        BY <2>5, <2>7, <2>11, <4>2
      <4> QED BY <2>6, <2>11, <3>2, <4>1, <4>2
    <3> QED BY <1>1, <2>3, <2>4, <3>1, <3>2, <3>3 DEF Thresholds
  <2>12. ASSUME r.type = "cycle" PROVE Cycles(i)'
    <3>1. o.rs \in RuleStates /\ o.rs.idx <= Len(r.states)
      BY <1>8, <2>2, <2>12
    <3>2. PICK v \in Int : v = r.states[o.rs.idx]
      BY <2>5, <2>12, <3>1 DEF RuleStates
    <3>3. ASSUME v > 0 PROVE Ordered(t, "level", v)'
      <4>1. CASE o.cmds = <<>> /\ o.rs = rs
        <5>1. Ordered(t, "level", v)
          BY <1>1, <1>3, <2>1, <2>2, <2>3, <2>12, <3>2, <3>3, <4>1 DEF RulesInv, Cycles
        <5> QED BY <2>5, <2>8, <2>12, <4>1, <5>1
      <4>2. CASE o.cmds = <<Spine!Command(t, "level", v)>>
        BY <2>5, <2>7, <2>12, <4>2
      <4>3. o.rs.idx # 1
        BY <2>5, <2>12, <3>2, <3>3
      <4> QED BY <2>6, <2>12, <3>2, <3>3, <4>1, <4>2, <4>3
    <3> QED BY <1>1, <2>3, <2>4, <3>2, <3>3 DEF Cycles
  <2> QED BY <2>2, <2>10, <2>11, <2>12
<1> QED BY <1>11, <1>12, <1>13 DEF HubInv

LEMMA HubKept == Buffer \in Nat /\ HubInv /\ [Spine!Next]_spineVars => HubInv'
<1> SUFFICES ASSUME Buffer \in Nat, HubInv, [Spine!Next]_spineVars PROVE HubInv'
  OBVIOUS
<1>1. CASE UNCHANGED spineVars
  <2>1. HubTyped' /\ CacheInv'
    BY <1>1 DEF spineVars, HubInv, HubTyped, CacheInv, Shown
  <2>2. Undisturbed
    BY <1>1 DEF spineVars, Undisturbed, Unseen, Seen, Never, Ordered
  <2> QED BY <1>1, <2>1, <2>2, RulesKept DEF spineVars, HubInv
<1>2. CASE Spine!Next
  BY <1>2, ReflectKeeps, RunRulesKeeps, DispatchKeeps, ReportKeeps, PressKeeps, UseKeeps, HomeKitKeeps
    DEF Spine!Next, Spine!DeviceIDs
<1> QED BY <1>1, <1>2

\* In every home wired so, not only in those of the run: once everything is
\* processed and nothing was dropped, the state cache shows every device as it is
\* (SetState), and a mirrored, thresholded or cycled device is as its rule has it,
\* however the reflector, the engine and the dispatcher interleave.
THEOREM WiredHomesConverge ==
  ASSUME Buffer \in Nat
  PROVE  Wired(home) /\ Spine!Start /\ [][Spine!Next]_spineVars => []HomeConverges
<1>1. Wired(home) /\ Spine!Start => HubInv
  BY HubStart
<1>2. HubInv /\ [Spine!Next]_spineVars => HubInv'
  BY HubKept
<1> QED BY <1>1, <1>2, HubConverges, PTL

\* So it is in the homes of the run, whatever the capacity of the channels.
THEOREM HomesConverge == ASSUME Buffer \in Nat PROVE MCSpec => []HomeConverges
<1>1. MCInit => HubInv
  BY HubStart, HomesWired DEF MCInit, Spine!Init, MCHomes
<1>2. HubInv /\ [MCNext]_allVars => HubInv'
  BY HubKept DEF MCNext, allVars
<1> QED BY <1>1, <1>2, HubConverges, PTL DEF MCSpec

=============================================================================
