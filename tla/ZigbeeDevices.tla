---------------------------- MODULE ZigbeeDevices ----------------------------
(***************************************************************************)
(* The zstack Zigbee adapter (internal/zigbee/driver.go, quirks.go): the   *)
(* network configuration it keeps on disk, the set-up of a node that       *)
(* joins, commands to devices and the reports that come back.              *)
(*                                                                         *)
(* A node carries one gang per endpoint; a gang is a relay (value 0 or 1)  *)
(* or a curtain motor (value: ZCL lift, percent closed, 255 if the motor   *)
(* does not know).  zstack and the nodes are external: a command with its  *)
(* acknowledgement arrives or fails, reports arrive in order while the     *)
(* network is up, and a node belongs to the network whose key it was given *)
(* when it joined.                                                         *)
(***************************************************************************)
EXTENDS Integers, Sequences

CONSTANTS
  Nobody,     \* no value shown yet
  Devices,    \* configured devices: [id, node, endpoint, cover, decoupled]
  Gangs,      \* what is installed: [node, ep, cover]
  Lumi,       \* nodes with Aqara's address prefix
  Positions,  \* positions that are asked for
  Lifts,      \* lifts a motor reports after it was moved by hand
  MaxBoots,   \* bound: starts of the hub
  MaxActs     \* bound: joins, commands and touches

VARIABLES
  storage,     \* Config.Storage is set
  permitJoin,  \* Config.PermitJoin
  phase,       \* "down", "write" (network.json), "init", "up", or "failed": Start returned
  file,        \* network.json: 0 missing, -1 does not parse, else the key in it
  key,         \* key of the configuration Start works with
  keys,        \* number of keys generated so far
  misread,     \* network.json was there and could not be read
  boots,
  acts,
  paired,      \* node: the key it was given, 0 if none
  value,       \* gang: relay or lift
  mode,        \* gang: "relay" (the paddle switches the load) or "decoupled"
  events,      \* what zstack has for ReadEvent
  shown,       \* device: last state published for it
  heard        \* presses published: <<device, gang>>

disk == <<storage, permitJoin, file, keys, misread, boots>>
nodes == <<paired, value, mode>>
hubSide == <<events, shown, heard>>
deviceVars == <<disk, phase, key, acts, nodes, hubSide>>

Nodes == {g.node : g \in Gangs}

DevicesInit ==
  /\ storage \in BOOLEAN /\ permitJoin \in BOOLEAN
  /\ phase = "down" /\ file = 0 /\ key = 0 /\ keys = 0 /\ misread = FALSE /\ boots = 0 /\ acts = 0
  /\ paired = [n \in Nodes |-> 0]
  /\ value = [g \in Gangs |-> 0] /\ mode = [g \in Gangs |-> "relay"]
  /\ events = <<>> /\ shown = [d \in Devices |-> Nobody] /\ heard = {}

(***************************************************************************)
(* networkConfig and Start.                                                *)
(***************************************************************************)

Generated == keys' = keys + 1 /\ key' = keys + 1

\* networkConfig without storage, with a file that parses, with one that does
\* not, and with none.  A file that cannot be read counts as none.  Writing
\* starts by truncating the file.
networkConfig ==
  \/ /\ ~storage
     /\ Generated /\ phase' = "init" /\ UNCHANGED <<file, misread>>
  \/ /\ storage /\ file > 0
     /\ key' = file /\ phase' = "init" /\ UNCHANGED <<file, keys, misread>>
  \/ /\ storage /\ file = -1
     /\ phase' = "failed" /\ UNCHANGED <<key, file, keys, misread>>
  \/ /\ storage
     /\ misread' = (misread \/ file # 0)
     /\ Generated /\ file' = -1 /\ phase' = "write"

\* The serial port, the directory or the configuration: each may fail.
Start ==
  /\ phase = "down" /\ boots < MaxBoots /\ boots' = boots + 1
  /\ networkConfig \/ (phase' = "failed" /\ UNCHANGED <<key, file, keys, misread>>)
  /\ UNCHANGED <<storage, permitJoin, acts, nodes, hubSide>>

\* Mutant of Save: what was written never gets its name.
SaveNowhere ==
  /\ phase = "write"
  /\ \/ file' = 0 /\ phase' = "init"
     \/ file' = file /\ phase' = "failed"
  /\ UNCHANGED <<storage, permitJoin, keys, misread, boots, key, acts, nodes, hubSide>>

\* os.WriteFile finishes or fails.
Save ==
  /\ phase = "write"
  /\ \/ file' = key /\ phase' = "init"
     \/ file' = file /\ phase' = "failed"
  /\ UNCHANGED <<storage, permitJoin, keys, misread, boots, key, acts, nodes, hubSide>>

\* Initialise and RegisterAdapterEndpoint.
Initialise ==
  /\ phase = "init" /\ phase' \in {"up", "failed"}
  /\ UNCHANGED <<disk, key, acts, nodes, hubSide>>

\* The hub ends, at any time: cached states and waiting events are lost.
Crash ==
  /\ phase # "down" /\ phase' = "down"
  /\ events' = <<>> /\ shown' = [d \in Devices |-> Nobody] /\ heard' = {}
  /\ UNCHANGED <<disk, key, acts, nodes>>

(***************************************************************************)
(* The nodes.                                                              *)
(***************************************************************************)

Act == acts < MaxActs /\ acts' = acts + 1

OnNetwork(n) == phase = "up" /\ paired[n] = key

Tell(n, e) == events' = IF OnNetwork(n) THEN Append(events, e) ELSE events

Join(n) ==
  /\ Act /\ phase = "up" /\ permitJoin
  /\ paired' = [paired EXCEPT ![n] = key]
  /\ events' = Append(events, [type |-> "join", node |-> n])
  /\ UNCHANGED <<disk, phase, key, value, mode, shown, heard>>

Report(g, v, form) == [type |-> "state", gang |-> g, value |-> v, form |-> form]

\* Forms of an on/off report: the standard attribute, or Aqara's own.
Forms(g) == IF ~g.cover /\ g.node \in Lumi THEN {"attribute", "aqara"} ELSE {"attribute"}

\* The paddle is pressed, or the curtain moved by hand.
Touch(g) ==
  /\ Act
  /\ \/ /\ mode[g] = "decoupled"
        /\ Tell(g.node, [type |-> "press", gang |-> g]) /\ UNCHANGED value
     \/ /\ mode[g] = "relay"
        /\ \E v \in (IF g.cover THEN Lifts ELSE {1 - value[g]}), form \in Forms(g) :
              value' = [value EXCEPT ![g] = v] /\ Tell(g.node, Report(g, v, form))
  /\ UNCHANGED <<disk, phase, key, paired, mode, shown, heard>>

\* A report of an attribute the adapter does not follow.
OtherReport(g) ==
  /\ Act /\ Tell(g.node, Report(g, 0, "other"))
  /\ UNCHANGED <<disk, phase, key, nodes, shown, heard>>

(***************************************************************************)
(* Apply.                                                                  *)
(***************************************************************************)

deviceEndpoint(d) == IF d.endpoint = 0 THEN 1 ELSE d.endpoint

GangOf(d) == {g \in Gangs : g.node = d.node /\ g.ep = deviceEndpoint(d)}

Clamped(p) == IF p < 0 THEN 0 ELSE IF p > 100 THEN 100 ELSE p

\* What a command asks of a gang: on is open for a curtain, lift is percent
\* closed.  A position means nothing to a relay, and set_level is ignored.
Asked(d) ==
  IF d.cover THEN {0, 100} \cup {100 - Clamped(p) : p \in Positions} ELSE {0, 1}

Apply(d) ==
  /\ Act /\ OnNetwork(d.node)
  /\ \E g \in GangOf(d), v \in Asked(d) :
        value' = [value EXCEPT ![g] = v]
        /\ \E form \in Forms(g) : Tell(g.node, Report(g, v, form))
  /\ UNCHANGED <<disk, phase, key, paired, mode, shown, heard>>

(***************************************************************************)
(* readEvents.                                                             *)
(***************************************************************************)

\* Mutant of deviceIDByAddr: the address decides, whatever the endpoint.
deviceIDByAddress(g) == {d \in Devices : d.node = g.node}

\* deviceIDByAddr: a device of the endpoint, else one that names no endpoint.
\* The registry lists its devices in any order.
deviceIDByAddr(g) ==
  LET there == {d \in Devices : d.node = g.node}
      exact == {d \in there : deviceEndpoint(d) = g.ep}
  IN IF exact # {} THEN exact ELSE {d \in there : d.endpoint = 0}

\* Position is percent open.
Shown(r) == IF r.gang.cover THEN 100 - r.value ELSE r.value

Understood(r) == r.form = "attribute" \/ (r.form = "aqara" /\ r.gang.node \in Lumi)

handleIncoming(e) ==
  LET ids == deviceIDByAddr(e.gang)
  IN \/ /\ e.type = "state" /\ Understood(e)
        /\ \E d \in ids : shown' = [shown EXCEPT ![d] = Shown(e)]
        /\ UNCHANGED heard
     \/ /\ e.type = "press"
        /\ \E d \in ids : heard' = heard \cup {<<d, e.gang>>}
        /\ UNCHANGED shown
     \/ /\ ids = {} \/ (e.type = "state" /\ ~Understood(e))
        /\ UNCHANGED <<shown, heard>>

\* configureJoined: each decoupled device of an Aqara node is told so, and a
\* failure is only logged.
configureJoined(n) ==
  /\ \E told \in SUBSET {d \in Devices : n \in Lumi /\ d.node = n /\ d.decoupled} :
        mode' = [g \in Gangs |-> IF \E d \in told : g \in GangOf(d) THEN "decoupled" ELSE mode[g]]
  /\ UNCHANGED <<shown, heard>>

ReadEvent ==
  /\ phase = "up" /\ events # <<>> /\ events' = Tail(events)
  /\ LET e == Head(events)
     IN \/ e.type = "join" /\ configureJoined(e.node)
        \/ e.type # "join" /\ handleIncoming(e) /\ UNCHANGED mode
  /\ UNCHANGED <<disk, phase, key, acts, paired, value>>

DevicesNext ==
  \/ Start \/ Save \/ Initialise \/ Crash \/ ReadEvent
  \/ \E n \in Nodes : Join(n)
  \/ \E g \in Gangs : Touch(g) \/ OtherReport(g)
  \/ \E d \in Devices : Apply(d)

(***************************************************************************)
(* Properties.                                                             *)
(***************************************************************************)

DevicesTypeOK ==
  /\ phase \in {"down", "write", "init", "up", "failed"}
  /\ file \in -1..keys /\ key \in 0..keys
  /\ paired \in [Nodes -> 0..keys]
  /\ DOMAIN shown = Devices

\* With storage, a node that was paired once is on the network whenever the
\* network is up, through every restart and every write that was cut short:
\* the key is generated once.  The one exception is a network.json that is
\* there and cannot be read, which is replaced.
KeyKept ==
  (phase = "up" /\ storage /\ ~misread) => \A n \in Nodes : paired[n] \in {0, key}

\* Once every report is read, a device that names its endpoint shows the
\* state of its own gang, in its own unit, and hears only its own paddle,
\* whatever the other gangs of the node do.
GangShown ==
  \A d \in {x \in Devices : x.endpoint # 0} :
    /\ (events = <<>> /\ shown[d] # Nobody) =>
          \E g \in GangOf(d) : shown[d] = IF g.cover THEN 100 - value[g] ELSE value[g]
    /\ \A h \in heard : h[1] = d => h[2] \in GangOf(d)

=============================================================================
