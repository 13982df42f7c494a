------------------------------- MODULE MCHub --------------------------------
(***************************************************************************)
(* The home hub in one run: its spine (Hub) and its radio adapters, which  *)
(* are the RF adapter (RfQueue after RfRemote has picked the button), the  *)
(* EZSP adapter (AshLink, and above it ZigbeeCoordinator, for which a      *)
(* request is one step that may fail) and the zstack adapter               *)
(* (ZigbeeDevices).  The parts share no variable, so it is enough to check *)
(* each by itself: `part' says which one moves.                            *)
(***************************************************************************)
EXTENDS RfQueue, RfRemote

CONSTANTS
  Buffer,
  StatusCap, MaxStarts,
  SeqMod, AckCap, DataCap, Requests, MaxLoss, MaxExtra,
  Devices, Gangs, Lumi, Positions, Lifts, MaxBoots, MaxActs

VARIABLES
  part,
  home, actual, due, qReflect, qEngine, qCmd, reg, ruleState, inputs, dropped,
  conf, pc, starts, net, record, stackStatus, flash, stack, endpoint, policy, open, callbacks,
  start, linkPc, n, result, linkPending, answer, txSeq, acks, data, errs, reader, linkLoop,
  toNcp, toHost, expected, accepted, linkTodo, losses, extra,
  storage, permitJoin, phase, file, key, keys, misread, boots, acts,
  paired, value, mode, events, deviceShown, heard

\* Homes: the values a field can have, and the rules.
MCValue == [on |-> {0, 1}, level |-> 0..2, value |-> 0..2, position |-> {0, 50, 100}]

\* A wall relay mirrored by a lamp, and a ceiling fan that a paddle cycles and
\* the same relay powers.
Fan ==
  [fields |-> [paddle |-> {}, relay |-> {"on"}, lamp |-> {"on"}, fan |-> {"on", "level"}],
   rules |-> <<[type |-> "mirror", src |-> "relay", dst |-> "lamp"],
               [type |-> "cycle", src |-> "paddle", dst |-> "fan", power |-> "relay",
                states |-> <<0, 1, 2>>]>>,
   paddles |-> {"paddle"}, used |-> {"relay"}, commanded |-> {}, inputs |-> 3]

\* A dehumidifier behind a humidity threshold, and a lamp that a paddle toggles
\* and HomeKit commands.
Dry ==
  [fields |-> [paddle |-> {}, humidity |-> {"value"}, dryer |-> {"on"}, lamp |-> {"on", "level"}],
   rules |-> <<[type |-> "threshold", src |-> "humidity", dst |-> "dryer", above |-> 2, below |-> 0],
               [type |-> "button", src |-> "paddle", dst |-> "lamp", action |-> "toggle"]>>,
   paddles |-> {"paddle"}, used |-> {"humidity"}, commanded |-> {"lamp"}, inputs |-> 3]

\* A blind between two paddles.
Shade ==
  [fields |-> [up |-> {}, half |-> {}, blind |-> {"position"}],
   rules |-> <<[type |-> "button", src |-> "up", dst |-> "blind", action |-> "open"],
               [type |-> "button", src |-> "half", dst |-> "blind", action |-> "position", value |-> 50]>>,
   paddles |-> {"up", "half"}, used |-> {"blind"}, commanded |-> {}, inputs |-> 3]

MCHomes == {Fan, Dry, Shade}

Spine == INSTANCE Hub WITH Homes <- MCHomes, Value <- MCValue
Network == INSTANCE ZigbeeCoordinator
Link == INSTANCE AshLink WITH pc <- linkPc, pending <- linkPending, loop <- linkLoop, todo <- linkTodo
Zstack == INSTANCE ZigbeeDevices WITH shown <- deviceShown, Nobody <- None

\* Positions are numbers, and at most one configured zstack device stands for a
\* gang: deviceIDByAddr would show the gang's state on whichever it finds first.
ASSUME ZstackAssumption ==
  /\ Positions \subseteq Int /\ Lifts \subseteq Int
  /\ \A d, e \in Devices :
       (d.node = e.node /\ Zstack!deviceEndpoint(d) = Zstack!deviceEndpoint(e)) => d = e

spineVars == <<home, actual, due, qReflect, qEngine, qCmd, reg, ruleState, inputs, dropped>>
networkVars == <<conf, pc, starts, net, record, stackStatus, flash, stack, endpoint, policy, open, callbacks>>
linkVars == <<start, linkPc, n, result, linkPending, answer, txSeq, acks, data, errs, reader, linkLoop,
              toNcp, toHost, expected, accepted, linkTodo, losses, extra>>
zstackVars == <<storage, permitJoin, phase, file, key, keys, misread, boots, acts,
                paired, value, mode, events, deviceShown, heard>>
allVars == <<part, spineVars, vars, remoteVars, networkVars, linkVars, zstackVars>>

\* The RF loop has found its queue empty and sleeps.
QueueAtRest ==
  /\ pending = Unset /\ order = <<>> /\ wake = FALSE /\ caller = "idle" /\ loop = "sleep" /\ cur = None
  /\ taken = Unset /\ asked = Unset /\ shown = Unset

\* A part that does not move is in one state, in which its fairness demands no
\* step: the behaviours of the others would not be fair otherwise.
MCInit ==
  /\ part \in {"spine", "queue", "remote", "network", "link", "zstack"}
  /\ Spine!Init /\ RemoteInit /\ IF part = "queue" THEN Init ELSE QueueAtRest
  /\ Network!Init /\ Link!Init /\ Zstack!DevicesInit
  /\ part = "spine" \/ home = Dry
  /\ part = "remote" \/ (speeds = {1} /\ want = 0)
  /\ part = "network" \/ conf = [forceForm |-> FALSE, permitJoin |-> FALSE, refused |-> FALSE]
  /\ part = "zstack" \/ (storage /\ permitJoin)

MCNext ==
  /\ IF part = "spine" THEN Spine!Next ELSE UNCHANGED spineVars
  /\ IF part = "queue" THEN Next ELSE UNCHANGED vars
  /\ IF part = "remote" THEN RemoteNext ELSE UNCHANGED remoteVars
  /\ IF part = "network" THEN Network!Next ELSE UNCHANGED networkVars
  /\ IF part = "link" THEN Link!Next ELSE UNCHANGED linkVars
  /\ IF part = "zstack" THEN Zstack!DevicesNext ELSE UNCHANGED zstackVars
  /\ UNCHANGED part

MCSpec ==
  MCInit /\ [][MCNext]_allVars /\ Spine!Fairness /\ Fairness /\ Network!Fairness /\ Link!Fairness

\* A wall switch with three gangs, of which the third is not configured, and a
\* curtain.
Dev(i, nd, ep, cover, decoupled) ==
  [id |-> i, node |-> nd, endpoint |-> ep, cover |-> cover, decoupled |-> decoupled]
TheDevices ==
  {Dev("lamp", "wall", 0, FALSE, FALSE), Dev("fan", "wall", 2, FALSE, TRUE), Dev("blind", "motor", 1, TRUE, FALSE)}
Gang(nd, ep, cover) == [node |-> nd, ep |-> ep, cover |-> cover]
TheGangs ==
  {Gang("wall", 1, FALSE), Gang("wall", 2, FALSE), Gang("wall", 3, FALSE), Gang("motor", 1, TRUE)}

\* The properties of the parts, of the behaviours in which the part moves.
HomeConverges == Spine!HomeConverges
ComesToRest == Spine!ComesToRest
NeverOrphans == Network!NeverOrphans

\* The EZSP adapter stays in step with the NCP: a request returns the response
\* to its own command, and a network is formed only once the old one is left.
InStepWithNcp == Link!ResponseMatches /\ Network!FormsWhenDown

\* The adapters keep serving: every RF device with a queued command is taken
\* on, every EZSP request ends, and a join window that closed is opened again.
RadiosServe == EveryDeviceServed /\ Link!RequestsEnd /\ Network!StaysOpen

KeyKept == Zstack!KeyKept
GangShown == Zstack!GangShown

=============================================================================
