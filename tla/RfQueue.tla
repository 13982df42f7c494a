------------------------------ MODULE RfQueue -------------------------------
(***************************************************************************)
(* The transmit queue of the RF adapter (internal/rf/driver.go): the hub's *)
(* dispatcher calls Apply, which queues one transmission per device; the   *)
(* Start loop pops the queue, publishes to the bridge, reports the         *)
(* optimistic state and paces.  Apply and the loop share `pending' and     *)
(* `order' under a mutex and a wake channel of capacity one.               *)
(*                                                                         *)
(* A transmission (topic, payload, event, cooldown) is a model value; it   *)
(* determines the state that its event reports.                            *)
(***************************************************************************)
EXTENDS Naturals, Sequences, FiniteSets

CONSTANTS Device, Tx, None

ASSUME NoneAssumption == None \notin Tx

VARIABLES
  pending,  \* latest transmission per device, None if there is none
  order,    \* FIFO of the devices with a pending transmission
  wake,     \* the wake channel holds a token
  caller,   \* Apply: "idle", or "signal" between unlock and the wake send
  loop,     \* Start: "pop", "sleep", "publish", "pace" or "stopped"
  cur,      \* Start: [dev, tx] being transmitted
  taken,    \* history: last transmission popped per device
  asked,    \* history: last transmission queued per device
  shown     \* the optimistic state on the bus per device

vars == <<pending, order, wake, caller, loop, cur, taken, asked, shown>>
hist == <<taken, asked, shown>>

Slot == [Device -> Tx \cup {None}]
Unset == [d \in Device |-> None]

TypeOK ==
  /\ pending \in Slot
  /\ order \in Seq(Device)
  /\ wake \in BOOLEAN
  /\ caller \in {"idle", "signal"}
  /\ loop \in {"pop", "sleep", "publish", "pace", "stopped"}
  /\ loop = "publish" => cur \in [dev : Device, tx : Tx]
  /\ taken \in Slot /\ asked \in Slot /\ shown \in Slot

Init ==
  /\ pending = Unset /\ order = <<>>
  /\ wake = FALSE /\ caller = "idle"
  /\ loop = "pop" /\ cur = None
  /\ taken = Unset /\ asked = Unset /\ shown = Unset

-----------------------------------------------------------------------------
(***************************************************************************)
(* Apply -> enqueue.                                                       *)
(***************************************************************************)

\* The queue after enqueue: a device that already waits keeps its place.
Queued(d) == IF pending[d] = None THEN Append(order, d) ELSE order

\* Mutant of Enqueue: only a superseding command needs to wake the loop.
EnqueueQuiet(d, t) ==
  /\ caller = "idle"
  /\ order' = Queued(d)
  /\ pending' = [pending EXCEPT ![d] = t]
  /\ asked' = [asked EXCEPT ![d] = t]
  /\ caller' = IF pending[d] = None THEN "idle" ELSE "signal"
  /\ UNCHANGED <<wake, loop, cur, taken, shown>>

\* enqueue under the mutex.
Enqueue(d, t) ==
  /\ caller = "idle"
  /\ order' = Queued(d)
  /\ pending' = [pending EXCEPT ![d] = t]
  /\ asked' = [asked EXCEPT ![d] = t]
  /\ caller' = "signal"
  /\ UNCHANGED <<wake, loop, cur, taken, shown>>

\* The non-blocking send on the wake channel, after the unlock.
Signal ==
  /\ caller = "signal"
  /\ wake' = TRUE
  /\ caller' = "idle"
  /\ UNCHANGED <<pending, order, loop, cur, hist>>

-----------------------------------------------------------------------------
(***************************************************************************)
(* Start.                                                                  *)
(***************************************************************************)

\* pop finds nothing: the loop waits for a token.
PopEmpty ==
  /\ loop = "pop" /\ order = <<>>
  /\ loop' = "sleep"
  /\ UNCHANGED <<pending, order, wake, caller, cur, hist>>

\* Mutant of Pop: the slot is not cleared.
PopKeeps ==
  /\ loop = "pop" /\ order # <<>>
  /\ order' = Tail(order)
  /\ cur' = [dev |-> Head(order), tx |-> pending[Head(order)]]
  /\ taken' = [taken EXCEPT ![Head(order)] = pending[Head(order)]]
  /\ loop' = "publish"
  /\ UNCHANGED <<pending, wake, caller, asked, shown>>

\* pop takes the device at the head, with its latest transmission.
Pop ==
  /\ loop = "pop" /\ order # <<>>
  /\ order' = Tail(order)
  /\ cur' = [dev |-> Head(order), tx |-> pending[Head(order)]]
  /\ taken' = [taken EXCEPT ![Head(order)] = pending[Head(order)]]
  /\ pending' = [pending EXCEPT ![Head(order)] = None]
  /\ loop' = "publish"
  /\ UNCHANGED <<wake, caller, asked, shown>>

WakeUp ==
  /\ loop = "sleep" /\ wake
  /\ wake' = FALSE
  /\ loop' = "pop"
  /\ UNCHANGED <<pending, order, caller, cur, hist>>

\* Publish to the bridge: on success the optimistic state goes on the bus, on
\* an error the command is dropped and nothing is reported.
Publish ==
  /\ loop = "publish"
  /\ \/ shown' = [shown EXCEPT ![cur.dev] = cur.tx] /\ loop' = "pace"
     \/ loop' = "pop" /\ UNCHANGED shown
  /\ UNCHANGED <<pending, order, wake, caller, cur, taken, asked>>

\* The cooldown has passed.
Pace ==
  /\ loop = "pace"
  /\ loop' = "pop"
  /\ UNCHANGED <<pending, order, wake, caller, cur, hist>>

\* The context ends: noticed while sleeping or after the cooldown.
Stop ==
  /\ loop \in {"sleep", "pace"}
  /\ loop' = "stopped"
  /\ UNCHANGED <<pending, order, wake, caller, cur, hist>>

-----------------------------------------------------------------------------

Loop == PopEmpty \/ Pop \/ WakeUp \/ Publish \/ Pace

Next ==
  \/ \E d \in Device, t \in Tx : Enqueue(d, t)
  \/ Signal
  \/ Loop
  \/ Stop

\* The loop's goroutine and the caller that left the mutex both run on.
Fairness == WF_vars(Loop) /\ WF_vars(Signal)

Spec == Init /\ [][Next]_vars /\ Fairness

-----------------------------------------------------------------------------
(***************************************************************************)
(* Properties.                                                             *)
(***************************************************************************)

\* The queue names exactly the devices that wait, each once: a flood of
\* commands for one device can neither grow the queue nor lose its turn.
QueueConsistent ==
  /\ \A i, j \in 1..Len(order) : order[i] = order[j] => i = j
  /\ \A d \in Device : pending[d] # None <=> \E i \in 1..Len(order) : order[i] = d

\* The loop never sleeps over a queued command: a token is in the channel, or
\* the caller is about to put one there (enqueue signals after the unlock).
NoLostWakeup ==
  (loop = "sleep" /\ order # <<>>) => wake \/ caller = "signal"

\* A device with nothing waiting was last served the last command asked for:
\* superseding never resurrects an older command.
LatestWins == \A d \in Device : pending[d] # asked[d] => pending[d] = None /\ taken[d] = asked[d]

\* The queue implements the latest-intent service.
Intent == INSTANCE LatestIntent WITH intent <- pending
IntentSpec == Intent!Spec

\* Every queued command is taken on, however busy the other devices are, unless
\* the hub shuts down.
EveryDeviceServed ==
  \A d \in Device : (pending[d] # None) ~> (pending[d] = None \/ loop = "stopped")

=============================================================================
