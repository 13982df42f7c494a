-------------------------------- MODULE Hub ---------------------------------
(***************************************************************************)
(* The hub's spine: the in-process bus (internal/bus), the state cache     *)
(* (internal/registry), the rule engine (internal/automation) and the      *)
(* goroutines of cmd/hub that dispatch commands and reflect events.        *)
(* Adapters and devices are external: a device changes when a command      *)
(* reaches it or when somebody uses it, and then reports what changed.     *)
(*                                                                         *)
(* Publishing never blocks: a subscriber whose channel is full misses the  *)
(* message.  The reflector and the engine have channels of their own, so   *)
(* a rule may see an event before or after the state cache does.           *)
(*                                                                         *)
(* A reported State is a function from the fields that are set to their    *)
(* values; `on' is 0 or 1.                                                 *)
(***************************************************************************)
EXTENDS Naturals, Sequences, FiniteSets

CONSTANTS
  Homes,      \* configurations of the hub
  Value,      \* [field -> set of values]
  Buffer      \* capacity of a subscriber's channel (64 in the hub)

VARIABLE home   \* the configuration of this behaviour

DeviceIDs == DOMAIN home.fields   \* device ids
Fields == home.fields          \* [DeviceIDs -> set of state fields the device has]
Rules == home.rules            \* sequence of rules (config.Rules)
Paddles == home.paddles        \* devices that send button presses
Used == home.used              \* devices somebody operates by hand, or sensors
Commanded == home.commanded    \* devices commanded from HomeKit
MaxInputs == home.inputs       \* bound: presses, manual changes, HomeKit commands

VARIABLES
  actual,     \* the devices themselves: [DeviceIDs -> State]
  due,        \* fields a device has yet to report
  qReflect,   \* event channel of the reflector
  qEngine,    \* event channel of the rule engine
  qCmd,       \* command channel of the dispatcher
  reg,        \* registry: cached state of each device
  ruleState,  \* variables closed over by each rule
  inputs,     \* inputs so far
  dropped     \* history: what a full channel made a subscriber miss

vars == <<home, actual, due, qReflect, qEngine, qCmd, reg, ruleState, inputs, dropped>>

Merged == {"on", "position", "level", "value"}   \* fields SetState merges

Event(d, k, s) == [dev |-> d, kind |-> k, state |-> s]
Command(d, f, v) == [dev |-> d, field |-> f, value |-> v]
Empty == [f \in {} |-> 0]

Start ==
  /\ actual = [d \in DeviceIDs |-> [f \in Fields[d] |-> 0]]
  /\ due = [d \in DeviceIDs |-> {}]
  /\ qReflect = <<>> /\ qEngine = <<>> /\ qCmd = <<>>
  /\ reg = [d \in DeviceIDs |-> Empty]
  /\ ruleState = [r \in DOMAIN Rules |-> [idx |-> 1, on |-> FALSE, known |-> FALSE]]
  /\ inputs = 0
  /\ dropped = {}

Init == home \in Homes /\ Start

-----------------------------------------------------------------------------
(***************************************************************************)
(* Bus.                                                                    *)
(***************************************************************************)

Full(q, ms) == Len(q) + Len(ms) > Buffer

\* The channel q after a non-blocking send of the messages ms.
Sent(q, ms) == IF Full(q, ms) THEN SubSeq(q \o ms, 1, Buffer) ELSE q \o ms

PublishEvent(e) ==
  /\ qReflect' = Sent(qReflect, <<e>>)
  /\ qEngine' = Sent(qEngine, <<e>>)
  /\ dropped' = dropped \cup (IF Full(qReflect, <<e>>) THEN {"reflect"} ELSE {})
                        \cup (IF Full(qEngine, <<e>>) THEN {"engine"} ELSE {})

PublishCommands(cs) ==
  /\ qCmd' = Sent(qCmd, cs)
  /\ dropped' = dropped \cup (IF Full(qCmd, cs) THEN {"command"} ELSE {})

-----------------------------------------------------------------------------
(***************************************************************************)
(* Rules: [rs, cmds] for a rule in state rs that sees event e.             *)
(***************************************************************************)

Reports(e, f) == e.kind = "state" /\ f \in DOMAIN e.state
Nothing(rs) == [rs |-> rs, cmds |-> <<>>]

\* Mutant of MirrorRule: any device's report is mirrored, the mirror's too.
MirrorRuleAny(r, rs, e) ==
  IF Reports(e, "on")
    THEN [rs |-> rs, cmds |-> <<Command(r.dst, "on", e.state["on"])>>]
    ELSE Nothing(rs)

\* Mutant of MirrorRule: only switching on is mirrored.
MirrorRuleOn(r, rs, e) ==
  IF e.dev = r.src /\ Reports(e, "on") /\ e.state["on"] = 1
    THEN [rs |-> rs, cmds |-> <<Command(r.dst, "on", 1)>>]
    ELSE Nothing(rs)

MirrorRule(r, rs, e) ==
  IF e.dev = r.src /\ Reports(e, "on")
    THEN [rs |-> rs, cmds |-> <<Command(r.dst, "on", e.state["on"])>>]
    ELSE Nothing(rs)

\* What a press asks for: toggle reads the cached state of the destination.
Action(r) ==
  CASE r.action = "toggle" ->
         Command(r.dst, "on", IF "on" \in DOMAIN reg[r.dst] THEN 1 - reg[r.dst]["on"] ELSE 1)
    [] r.action = "on" -> Command(r.dst, "on", 1)
    [] r.action = "off" -> Command(r.dst, "on", 0)
    [] r.action = "open" -> Command(r.dst, "position", 100)
    [] r.action = "close" -> Command(r.dst, "position", 0)
    [] r.action = "position" -> Command(r.dst, "position", r.value)

ButtonRule(r, rs, e) ==
  IF e.dev = r.src /\ e.kind = "button"
    THEN [rs |-> rs, cmds |-> <<Action(r)>>]
    ELSE Nothing(rs)

\* Mutant of CycleRule: the level is looked up before the index advances.
CycleRuleLate(r, rs, e) ==
  IF e.dev = r.power /\ Reports(e, "on") /\ e.state["on"] = 0
    THEN Nothing([rs EXCEPT !.idx = 1])
  ELSE IF e.dev = r.src /\ e.kind = "button"
    THEN [rs |-> [rs EXCEPT !.idx = (@ % Len(r.states)) + 1],
          cmds |-> <<IF r.states[rs.idx] > 0 THEN Command(r.dst, "level", r.states[rs.idx])
                                             ELSE Command(r.dst, "on", 0)>>]
    ELSE Nothing(rs)

\* The sequence restarts when the power device turns off.
CycleRule(r, rs, e) ==
  IF e.dev = r.power /\ Reports(e, "on") /\ e.state["on"] = 0
    THEN Nothing([rs EXCEPT !.idx = 1])
  ELSE IF e.dev = r.src /\ e.kind = "button"
    THEN LET i == (rs.idx % Len(r.states)) + 1
         IN  [rs |-> [rs EXCEPT !.idx = i],
              cmds |-> <<IF r.states[i] > 0 THEN Command(r.dst, "level", r.states[i])
                                            ELSE Command(r.dst, "on", 0)>>]
    ELSE Nothing(rs)

\* Mutant of ThresholdRule: a reading inside the band also switches off.
ThresholdRuleMoves(r, rs, e) ==
  IF e.dev = r.src /\ Reports(e, "value")
    THEN LET v == e.state["value"]
         IN  IF v >= r.above /\ ~rs.known
               THEN [rs |-> [rs EXCEPT !.known = TRUE], cmds |-> <<Command(r.dst, "on", 1)>>]
             ELSE IF v < r.above
               THEN [rs |-> rs, cmds |-> <<Command(r.dst, "on", 0)>>]
             ELSE Nothing(rs)
    ELSE Nothing(rs)

\* Hysteresis: commands only on crossings.
ThresholdRule(r, rs, e) ==
  IF e.dev = r.src /\ Reports(e, "value")
    THEN LET v == e.state["value"]
         IN  IF v >= r.above /\ (~rs.known \/ ~rs.on)
               THEN [rs |-> [rs EXCEPT !.on = TRUE, !.known = TRUE],
                     cmds |-> <<Command(r.dst, "on", 1)>>]
             ELSE IF v <= r.below /\ (~rs.known \/ rs.on)
               THEN [rs |-> [rs EXCEPT !.on = FALSE, !.known = TRUE],
                     cmds |-> <<Command(r.dst, "on", 0)>>]
             ELSE Nothing(rs)
    ELSE Nothing(rs)

RunRule(r, rs, e) ==
  CASE r.type = "mirror" -> MirrorRule(r, rs, e)
    [] r.type = "button" -> ButtonRule(r, rs, e)
    [] r.type = "cycle" -> CycleRule(r, rs, e)
    [] r.type = "threshold" -> ThresholdRule(r, rs, e)

-----------------------------------------------------------------------------
(***************************************************************************)
(* The hub's goroutines.                                                   *)
(***************************************************************************)

\* Mutant of SetState: the report replaces the cached state.
SetStateReplaces(old, s) ==
  [f \in DOMAIN s \cap Merged |-> s[f]]

\* Registry.SetState keeps the fields that were not reported.
SetState(old, s) ==
  [f \in DOMAIN old \cup (DOMAIN s \cap Merged) |-> IF f \in DOMAIN s THEN s[f] ELSE old[f]]

\* The reflector takes the next event into the cache (and HomeKit).
Reflect ==
  /\ qReflect # <<>>
  /\ LET e == Head(qReflect) IN reg' = [reg EXCEPT ![e.dev] = SetState(@, e.state)]
  /\ qReflect' = Tail(qReflect)
  /\ UNCHANGED <<home, actual, due, qEngine, qCmd, ruleState, inputs, dropped>>

\* The commands of all rules, in the order of the rules.
Commands(out) ==
  LET cmds[i \in 0..Len(Rules)] == IF i = 0 THEN <<>> ELSE cmds[i - 1] \o out[i].cmds
  IN  cmds[Len(Rules)]

\* The engine runs every rule, in order, on the next event.
RunRules ==
  /\ qEngine # <<>>
  /\ LET e == Head(qEngine)
         out == [i \in DOMAIN Rules |-> RunRule(Rules[i], ruleState[i], e)]
     IN  /\ ruleState' = [i \in DOMAIN Rules |-> out[i].rs]
         /\ PublishCommands(Commands(out))
  /\ qEngine' = Tail(qEngine)
  /\ UNCHANGED <<home, actual, due, qReflect, reg, inputs>>

\* The dispatcher hands the next command to the owning adapter; the device
\* obeys and has something to report.
Dispatch ==
  /\ qCmd # <<>>
  /\ LET c == Head(qCmd)
     IN  /\ actual' = [actual EXCEPT ![c.dev][c.field] = c.value]
         /\ due' = [due EXCEPT ![c.dev] = @ \cup {c.field}]
  /\ qCmd' = Tail(qCmd)
  /\ UNCHANGED <<home, qReflect, qEngine, reg, ruleState, inputs, dropped>>

\* A device reports the fields that changed, with their present values.
Report(d) ==
  /\ due[d] # {}
  /\ PublishEvent(Event(d, "state", [f \in due[d] |-> actual[d][f]]))
  /\ due' = [due EXCEPT ![d] = {}]
  /\ UNCHANGED <<home, actual, qCmd, reg, ruleState, inputs>>

Press(d) ==
  /\ inputs < MaxInputs /\ inputs' = inputs + 1
  /\ PublishEvent(Event(d, "button", Empty))
  /\ UNCHANGED <<home, actual, due, qCmd, reg, ruleState>>

\* Somebody uses the device, or a sensor reads a new value.
Use(d, f, v) ==
  /\ inputs < MaxInputs /\ inputs' = inputs + 1
  /\ actual[d][f] # v
  /\ actual' = [actual EXCEPT ![d][f] = v]
  /\ due' = [due EXCEPT ![d] = @ \cup {f}]
  /\ UNCHANGED <<home, qReflect, qEngine, qCmd, reg, ruleState, dropped>>

\* A characteristic is written from HomeKit.
HomeKit(d, f, v) ==
  /\ inputs < MaxInputs /\ inputs' = inputs + 1
  /\ PublishCommands(<<Command(d, f, v)>>)
  /\ UNCHANGED <<home, actual, due, qReflect, qEngine, reg, ruleState>>

Next ==
  \/ Reflect
  \/ RunRules
  \/ Dispatch
  \/ \E d \in DeviceIDs : Report(d)
  \/ \E d \in Paddles : Press(d)
  \/ \E d \in Used : \E f \in Fields[d] : \E v \in Value[f] : Use(d, f, v)
  \/ \E d \in Commanded : \E f \in Fields[d] : \E v \in Value[f] : HomeKit(d, f, v)

\* The goroutines keep receiving, and devices report what changed.
Fairness == WF_vars(Reflect) /\ WF_vars(RunRules) /\ WF_vars(Dispatch)
            /\ \A d \in UNION {DOMAIN h.fields : h \in Homes} : WF_vars(d \in DeviceIDs /\ Report(d))

Spec == Init /\ [][Next]_vars /\ Fairness

-----------------------------------------------------------------------------
(***************************************************************************)
(* Properties.                                                             *)
(***************************************************************************)

Quiet == qReflect = <<>> /\ qEngine = <<>> /\ qCmd = <<>> /\ \A d \in DeviceIDs : due[d] = {}

\* When everything has been processed and the reflector missed nothing, the
\* state cache shows every merged field of every device as it is: a report of
\* one field does not disturb the others, and no older report overtakes a newer.
CacheConverges ==
  (Quiet /\ "reflect" \notin dropped) =>
     \A d \in DeviceIDs : \A f \in Fields[d] \cap Merged :
        actual[d][f] = IF f \in DOMAIN reg[d] THEN reg[d][f] ELSE 0

\* Without drops, a mirrored device ends up like its source whenever its last
\* event was processed, in whatever order the goroutines ran.
MirrorConverges ==
  (Quiet /\ dropped = {}) =>
     \A i \in DOMAIN Rules :
        (Rules[i].type = "mirror" /\ "on" \in DOMAIN reg[Rules[i].src])
          => actual[Rules[i].dst]["on"] = actual[Rules[i].src]["on"]

\* Without drops, a thresholded device is on at or above `above' and off at or
\* below `below', also for the first reading after a restart.
ThresholdHolds ==
  (Quiet /\ dropped = {}) =>
     \A i \in DOMAIN Rules :
        (Rules[i].type = "threshold" /\ "value" \in DOMAIN reg[Rules[i].src]) =>
           LET v == actual[Rules[i].src]["value"] IN
           /\ v >= Rules[i].above => actual[Rules[i].dst]["on"] = 1
           /\ v <= Rules[i].below => actual[Rules[i].dst]["on"] = 0

\* Without drops, a cycled device is at the level its cycle has reached: the
\* commands of several presses and of a restart never overtake each other.
CycleInStep ==
  (Quiet /\ dropped = {}) =>
     \A i \in DOMAIN Rules :
        Rules[i].type = "cycle" =>
           LET lvl == Rules[i].states[ruleState[i].idx]
           IN  lvl > 0 => actual[Rules[i].dst]["level"] = lvl

\* The home agrees with itself, once everything has been processed.
HomeConverges == CacheConverges /\ MirrorConverges /\ ThresholdHolds /\ CycleInStep

\* Once the inputs stop, the hub comes to rest: rules do not feed themselves.
ComesToRest == <>[]Quiet

=============================================================================
