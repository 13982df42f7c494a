----------------------------- MODULE MatterSync -----------------------------
(***************************************************************************)
(* How the hub keeps up with a natively controlled Matter covering         *)
(* (internal/matter): commands and polls share one reconnecting session,   *)
(* a watcher keeps a subscription on a session of its own, and both        *)
(* publish positions on the bus, whose channel drops when full.            *)
(*                                                                         *)
(* Positions are in the hub's orientation (0 closed, Full open); the       *)
(* device's raw lift runs the other way.  The device and its network are   *)
(* external: it may be moved by hand, reboot (which silently ends its      *)
(* sessions and subscriptions) and be out of reach for a while.            *)
(***************************************************************************)
EXTENDS Naturals, Sequences

CONSTANTS
  None, Null,   \* absent; a position the device does not know (in motion)
  Full,         \* fully open (100 in the hub)
  Buffer,       \* capacity of the reflector's event channel (64)
  MaxMoves,     \* bound: moves of the device by hand or by command
  MaxFaults,    \* bound: reboots and outages
  MaxNoise,     \* bound: events of other devices
  MaxLost       \* bound: operations that are carried out but whose answer is lost

ASSUME NoneAssumption == None \notin {"ok", "error"}

VARIABLES
  subscribable, \* device: whether it accepts subscriptions
  raw,       \* device: lift in Matter's orientation, or Null in motion
  target,    \* device: where the motion ends
  epoch,     \* device: number of boots; a session lives in one epoch
  reach,     \* device: reachable
  devSub,    \* device: it has our subscription
  drv,       \* ReconnectingDriver.drv: epoch of its session, or None
  op,        \* the operation that holds the driver's mutex: [what, pc, ...]
  polled,    \* pollOnce: the value just read, not yet compared
  last,      \* Poller.last, or None
  watch,     \* WatchGoMatter: "down" (backing off) or "listen"
  pushed,    \* device: last position its subscription reported
  queue,     \* event channel of the reflector
  shown,     \* position in the registry and HomeKit, or None
  dropped,   \* history: an event was dropped
  moves, faults, noise, lost

dev == <<subscribable, raw, target, epoch, reach>>
sub == <<devSub, watch, pushed>>
hub == <<queue, shown, dropped>>
bounds == <<moves, faults, noise, lost>>
poll == <<polled, last>>
syncVars == <<subscribable, raw, target, epoch, reach, devSub, drv, op, polled, last, watch,
          pushed, queue, shown, dropped, moves, faults, noise, lost>>

Position == 0..Full
Other == Full + 1        \* an event of another device

\* Operations of the driver: `read', or a position to move to.  `clean' records
\* that nothing went wrong since the call began.
Read == Full + 2
Idle(result) == [pc |-> "idle", what |-> None, execs |-> 0, clean |-> TRUE, result |-> result]
Broken(o) == [o EXCEPT !.clean = FALSE]

SyncInit ==
  /\ subscribable \in BOOLEAN
  /\ raw = 0 /\ target = 0 /\ epoch = 0 /\ reach = TRUE /\ devSub = FALSE
  /\ drv = None /\ op = Idle(None)
  /\ polled = None /\ last = None
  /\ watch = "down" /\ pushed = None
  /\ queue = <<>> /\ shown = None /\ dropped = FALSE
  /\ moves = 0 /\ faults = 0 /\ noise = 0 /\ lost = 0

\* Bus.PublishEvent towards the reflector.
PublishEvent(p) ==
  IF Len(queue) < Buffer
    THEN queue' = Append(queue, p) /\ UNCHANGED dropped
    ELSE dropped' = TRUE /\ UNCHANGED queue

\* Raw lift to the hub's orientation and back: the driver and PublishReports
\* both invert at their boundary.
Domain(r) == Full - r

-----------------------------------------------------------------------------
(***************************************************************************)
(* ReconnectingDriver.do, one step per network round trip.                 *)
(***************************************************************************)

\* do takes the mutex.
Begin(what) ==
  /\ op.pc = "idle"
  /\ op' = [pc |-> IF drv = None THEN "dial" ELSE "first", what |-> what,
            execs |-> 0, clean |-> reach, result |-> None]

Command(p) ==
  /\ moves < MaxMoves /\ moves' = moves + 1
  /\ Begin(p)
  /\ UNCHANGED <<dev, sub, drv, poll, hub, faults, noise, lost>>

Poll ==
  /\ polled = None
  /\ Begin(Read)
  /\ UNCHANGED <<dev, sub, drv, poll, hub, bounds>>

\* do returns: an error, or what was asked for.
Done(o, ok) ==
  [Idle(IF ok THEN "ok" ELSE "error") EXCEPT !.execs = o.execs, !.clean = o.clean]

\* driver() dials when there is no session; on failure do returns.
Dial ==
  /\ op.pc \in {"dial", "redial"}
  /\ IF reach
       THEN /\ drv' = epoch
            /\ op' = [op EXCEPT !.pc = IF op.pc = "dial" THEN "first" ELSE "retry"]
       ELSE /\ op' = Done(op, FALSE) /\ UNCHANGED drv
  /\ UNCHANGED <<dev, sub, poll, hub, bounds>>

\* Mutant of AfterFailure: the error goes to the user.
AfterFailureGiveUp(o) == Done(o, FALSE)

\* Mutant of AfterFailure: every failure re-dials.
AfterFailureAgain(o) == [o EXCEPT !.pc = "redial"]

\* The first failure re-dials, the second one is returned.
AfterFailure(o) == IF o.pc = "first" THEN [o EXCEPT !.pc = "redial"] ELSE Done(o, FALSE)

\* drop: the session is presumed dead.
Failed(o) == op' = AfterFailure(o) /\ drv' = None

\* The device carries out the operation.
Executed == [op EXCEPT !.execs = @ + 1]

Effect ==
  IF op.what = Read THEN UNCHANGED <<raw, target>> ELSE raw' = Null /\ target' = Full - op.what

\* The operation on the session at hand: a round trip, a stale or unreachable
\* session, or an answer that is lost.  A null position is not a failure; only
\* the second attempt drops the session for it.
Operate ==
  /\ op.pc \in {"first", "retry"}
  /\ \/ /\ reach /\ drv = epoch
        /\ op' = Done(Executed, TRUE)
        /\ Effect
        /\ polled' = IF op.what = Read /\ raw # Null THEN Domain(raw) ELSE polled
        /\ drv' = IF op.pc = "retry" /\ op.what = Read /\ raw = Null THEN None ELSE drv
        /\ UNCHANGED lost
     \/ /\ ~reach \/ drv # epoch
        /\ Failed(op)
        /\ UNCHANGED <<raw, target, polled, lost>>
     \/ /\ reach /\ drv = epoch
        /\ lost < MaxLost /\ lost' = lost + 1
        /\ Failed(Broken(Executed))
        /\ Effect
        /\ UNCHANGED polled
  /\ UNCHANGED <<subscribable, epoch, reach, sub, last, hub, moves, faults, noise>>

\* Mutant of PollResult: a sample is remembered before it is compared.
PollResultEager ==
  /\ polled # None
  /\ last' = polled /\ polled' = None
  /\ IF last = None THEN PublishEvent(polled) ELSE UNCHANGED <<queue, dropped>>
  /\ UNCHANGED <<dev, sub, drv, op, shown, bounds>>

\* pollOnce publishes only what differs from its own last sample.
PollResult ==
  /\ polled # None
  /\ polled' = None /\ last' = polled
  /\ IF last # polled THEN PublishEvent(polled) ELSE UNCHANGED <<queue, dropped>>
  /\ UNCHANGED <<dev, sub, drv, op, shown, bounds>>

-----------------------------------------------------------------------------
(***************************************************************************)
(* The watcher and the reflector.                                          *)
(***************************************************************************)

\* WatchGoMatter dials, subscribes, and publishes the priming report.
Watch ==
  /\ watch = "down" /\ reach /\ subscribable
  /\ watch' = "listen" /\ devSub' = TRUE /\ pushed' = raw
  /\ IF raw # Null THEN PublishEvent(Domain(raw)) ELSE UNCHANGED <<queue, dropped>>
  /\ UNCHANGED <<dev, drv, op, poll, shown, bounds>>

\* A report reaches Listen; a null position carries no sample.
Push ==
  /\ watch = "listen" /\ devSub /\ reach /\ raw # pushed
  /\ pushed' = raw
  /\ IF raw # Null THEN PublishEvent(Domain(raw)) ELSE UNCHANGED <<queue, dropped>>
  /\ UNCHANGED <<dev, drv, op, poll, devSub, watch, shown, bounds>>

\* Listen returns an error only when a frame that it cannot process arrives;
\* WatchGoMatter closes the session and backs off.
ListenError ==
  /\ watch = "listen" /\ faults < MaxFaults /\ faults' = faults + 1
  /\ watch' = "down" /\ devSub' = FALSE
  /\ UNCHANGED <<dev, pushed, drv, op, poll, hub, moves, noise, lost>>

\* The reflector takes the next event.
Reflect ==
  /\ queue # <<>>
  /\ queue' = Tail(queue)
  /\ shown' = IF Head(queue) = Other THEN shown ELSE Head(queue)
  /\ UNCHANGED <<dev, sub, drv, op, poll, dropped, bounds>>

-----------------------------------------------------------------------------
(***************************************************************************)
(* The device and the rest of the home (external).                         *)
(***************************************************************************)

Move(p) ==
  /\ moves < MaxMoves /\ moves' = moves + 1
  /\ raw' = Null /\ target' = Full - p
  /\ UNCHANGED <<subscribable, epoch, reach, sub, drv, op, poll, hub, faults, noise, lost>>

Settle ==
  /\ raw = Null
  /\ raw' = target
  /\ UNCHANGED <<subscribable, target, epoch, reach, sub, drv, op, poll, hub, bounds>>

Reboot ==
  /\ faults < MaxFaults /\ faults' = faults + 1
  /\ epoch' = epoch + 1 /\ devSub' = FALSE
  /\ op' = Broken(op)
  /\ UNCHANGED <<subscribable, raw, target, reach, watch, pushed, drv, poll, hub, moves, noise, lost>>

\* While it is out of reach the device gives up on the subscription.
Outage ==
  /\ reach /\ faults < MaxFaults /\ faults' = faults + 1
  /\ reach' = FALSE /\ devSub' = FALSE
  /\ op' = Broken(op)
  /\ UNCHANGED <<subscribable, raw, target, epoch, watch, pushed, drv, poll, hub, moves, noise, lost>>

Return ==
  /\ ~reach
  /\ reach' = TRUE
  /\ UNCHANGED <<subscribable, raw, target, epoch, sub, drv, op, poll, hub, bounds>>

Noise ==
  /\ noise < MaxNoise /\ noise' = noise + 1
  /\ PublishEvent(Other)
  /\ UNCHANGED <<dev, sub, drv, op, poll, shown, moves, faults, lost>>

-----------------------------------------------------------------------------

SyncNext ==
  \/ \E p \in Position : Command(p) \/ Move(p)
  \/ Poll \/ Dial \/ Operate \/ PollResult
  \/ Watch \/ Push \/ ListenError \/ Reflect
  \/ Settle \/ Reboot \/ Outage \/ Return \/ Noise

\* The ticker, round trips (they time out), the watcher's backoff timer and the
\* reflector keep running; a moving device stops, an outage ends, a living
\* subscription reports.
Fairness ==
  /\ SF_syncVars(Poll) /\ WF_syncVars(Dial) /\ WF_syncVars(Operate) /\ WF_syncVars(PollResult)
  /\ WF_syncVars(Watch) /\ WF_syncVars(Reflect)
  /\ WF_syncVars(Settle) /\ WF_syncVars(Return) /\ WF_syncVars(Push)

SyncSpec == SyncInit /\ [][SyncNext]_syncVars /\ Fairness

-----------------------------------------------------------------------------

\* A call never fails because of a stale session alone: when the device is
\* reachable and nothing goes wrong during the call, re-dialing once saves it
\* (do, reconnect.go).
StaleSessionRecovered == op.result = "error" => ~op.clean

\* The retry of do may repeat a command whose answer was lost, but no more than
\* once; a call that meets no fault carries its operation out exactly once, a
\* stale session included, and success always means it was carried out.
AtMostTwice ==
  /\ op.execs <= 2
  /\ op.result = "ok" => op.execs >= 1
  /\ (op.result = "ok" /\ op.clean) => op.execs = 1

\* What a caller of the reconnecting driver may rely on.
CallsHold == StaleSessionRecovered /\ AtMostTwice

\* Once the device stays put the hub shows its position, if no event was ever
\* dropped and a device that can be subscribed to is: a position read before a
\* command or a push and published after it is put right by a later poll, and
\* what changed while the subscription was down comes with the priming report,
\* although poller and watcher do not share their last sample.
Converges ==
  <>[]((~dropped /\ (subscribable => devSub)) => raw # Null /\ shown = Domain(raw))

\* poller.go: "so HomeKit and automations reflect real device state without a
\* command having caused the change".
ReflectsDevice == <>[](~dropped => raw # Null /\ shown = Domain(raw))

=============================================================================
