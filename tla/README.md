# Verification of home-hub

home-hub is a home automation hub in Go (`src/cmd/hub`, `src/internal`) with its own Matter
controller library (`src/go-matter`), a radio bridge for 433 MHz fans, and a family planner
(`src/planner`, a Go server on SQLite with a React client). This directory holds TLA+ models of
the parts that carry its concurrent, stateful logic, TLC runs that check them on small instances,
and TLAPS proofs of the properties that matter most. `PROJECT.json` ties every definition to the
source lines it stands for, every property to a mutant of the code that breaks it, and every
hazard to the properties that watch it.

    tlc -workers 2 -config MatterExchange.cfg MCMatterExchange     # a run: module and .cfg from PROJECT.json
    tlapm MatterLinkProofs.tla                                     # the proofs of a module

## 1. The system

```
 HomeKit bridge --commands--> bus --commands--> dispatcher --> adapters: MQTT, RF, Zigbee, Matter --> devices
       ^                       |                                                   |
       |                       +--events--> engine (rules) --commands--> bus       |
       +------ registry <-- reflector <--events-- bus <------- reports ------------+

 Matter adapter:  poller, watcher, reconnecting driver -> controller (CASE, MRP, subscriptions)
                  -> secure session (counters, replay window) -> UDP
 Zigbee adapter:  coordinator bring-up -> EZSP requests and callbacks -> ASH frames -> serial port
 planner:         HTTP handlers -> store (SQLite, one writer) ; event streams -> browser tabs ; CLI beside the server
```

| component | state it keeps | operations | hard because | correct when |
|---|---|---|---|---|
| bus, registry, engine, dispatcher, reflector | bounded channels, state cache, rules' own state | publish, reflect, run rules, dispatch | publishing never blocks and drops; two readers of every event | cache and rule targets agree with the devices at rest; the home comes to rest |
| RF adapter | one pending transmission per device, FIFO, wake token | Apply, pop, publish, pace | signal sent after the unlock; commands supersede each other; Go's map order | no lost wake-up, the latest command wins, the same button every time |
| Matter secure session | transmit counter, replay window | Encrypt, DecryptMsg | lost, repeated, reordered frames; counter at its end | no nonce twice, no replay, no fresh frame refused |
| Matter UDP transport | the socket's deadline, one watcher goroutine per call | Receive | watcher and caller share a deadline | contexts are honoured, nothing leaks |
| Matter controller | exchange id, retransmissions, handshake and subscription state | Connect, Invoke/Read, Subscribe, Listen | late answers, duplicates, timers that race | answers belong to their call, commands carried out once, reports in order, loops end |
| Matter commissioning | PASE conversation, issued certificate; the device's fail-safe | Commission, CompleteCommissioning | nine round trips, any of which may fail; stale messages; a timer on the device | a call leaves a member of the fabric or nothing |
| Matter upkeep | cached session, poller's last sample, subscription | do (with redial), pollOnce, WatchGoMatter | reboots, outages, two publishers of one position | the hub ends with the device's position |
| EZSP link | channels of acks, data, errors; pending request | Send, Recv, request, readLoop | bounded channels that drop, late responses | a request gets its own response, and ends |
| EZSP coordinator | network in flash, key record, join window | bring-up, leave, form, record, permit join | asynchronous stack status, crash between any two requests | a network is never replaced by accident, the join window stays open |
| zstack adapter | network.json, node set-up, reports | networkConfig, configureJoined, Apply, readEvents | a write that is cut short; several devices on one address | the network key is kept, reports reach the device of their gang |
| planner login | login_attempts, sessions, bcrypt slots | login, reset, add, logout, purge | check - bcrypt - record is not atomic | lockouts hold, sessions belong to the current password, slots come back |
| planner reminders | notify_rules, notify_sent, push_subs | tick, mark, push; save, delete, subscribe | a batch lasts minutes, restarts, edits under it | every reminder once, none lost to a slow neighbour |
| planner event streams | subscribers, version counter, client's last version | Broadcast, subscribe, Close; open/changed/error listeners | full channels are skipped, connections drop, restarts | a quiet client shows what the database holds |
| planner database opening | schema_migrations, backfills, seed | Open, migrate accept | server and CLI open one file, of different builds, and die | a migration is applied once and recorded truly |
| planner boards | boards, columns, cards with positions, rewards paid | create, update, move, delete, archive, restore | splices shift many rows; row ids come again; done cards leave their next occurrence | positions are dense, one open occurrence, one reward |
| planner recurrence | rule, due and end day | NextOccurrence, shiftEnd | months without a day 31, leap days | the next day is the first the rule names |
| planner diary and media | entries, files, media rows, quota | save, upload, MediaDelete, page, import | check and delete in three steps; cursors under edits; numbering of posts | a picture shown is on disk, pages are whole, an import repeats nothing |
| planner family game | routines and checks, drops, plants, wishes | Family (opening the page), grow, buy | rewards are computed from records when the page is opened, by several members at once, around midnight | a drop feeds one plant, a plant buys one wish, midnight is fair to streaks |
| planner baby food | plan, counts, batches, tags | import, edit, count, cook, tag | the stock is derived, never stored; reads before writes | the stock is what the freezer holds |
| planner care records | records, foods, links to meals | CareAdd, CareUpdate, CareImport, relink-solids | two writes per record; commands beside the server; meals are replaced | links are live and distinct, imports repeat nothing |
| planner finance | transactions, opinions, labels, tags, wallets | import, corrections, tags, wallet, overview | exports overlap; every figure is recomputed from everything | lists add up, money counts once, an import is a union |

The parts that are not modelled are listed in section 8 and, with their sources, in `PROJECT.json`.

## 2. Modules

| module | models | state and actions |
|---|---|---|
| `SecureSession` | `go-matter/session` | `txCounter`, `rx` (the replay window, its `uint32` bitmap as the set of its bits) ; `Encrypt`, `DecryptMsg` |
| `UdpReceive` | `go-matter/transport/udp.go` | one call after the other on one socket, each with its watcher ; `Receive`, `Clear`, `ReadData`, `ReadError`, `WatcherFires`, `WatcherStops`, `CtxDone` |
| `MatterExchange` | `go-matter/controller` (`controller.go`, `mrp.go`, `subscribe.go`, `frame.go`) | `pc` is the receive loop the controller is in; frames in flight are sets ; `AwaitSC`, `Call`, `Subscribe`, `Duplicate`, `Skip`, `Foreign`, `Reply`, `Timeout`, `GiveUp`, `CtxDone`, `Listen` ; the device is external |
| `MatterSync` | `internal/matter` | `op` is the operation holding the driver's mutex ; `Command`, `Poll`, `Dial`, `Operate`, `PollResult`, `Watch`, `Push`, `ListenError`, `Reflect` ; the covering is external |
| `MatterCommissioning` | `go-matter/controller/commission.go`, `pase`, `cluster/commissioning.go` | `step` is the request whose answer is awaited ; `Commission`, `Receive`, `GiveUp` ; the device: `pase.Responder` and, externally, its clusters and its fail-safe timer |
| `Hub` | `internal/bus`, `registry`, `automation`, `cmd/hub` | three bounded channels, `reg`, rule states ; `Start` (what `main` publishes first), `Reflect`, `RunRules`, `Dispatch`, `HomeKit`, `Report`, `Press`, `Use` |
| `RfQueue`, `LatestIntent` | `internal/rf/driver.go` queue; what it promises | `pending`, `order`, `wake` ; `Enqueue`, `Signal`, `Pop`, `PopEmpty`, `WakeUp`, `Publish`, `Pace`, `Stop` |
| `RfRemote` | `internal/rf/driver.go` choice of a fan button | a `range` over a Go map as a loop that takes any key next |
| `AshLink` | `internal/zigbee/ezsp/ash`, `driver.go` | `Conn`'s channels, reader goroutine, `request`, `readLoop` ; the NCP and the serial line are external |
| `ZigbeeCoordinator` | `internal/zigbee/ezsp/coordinator.go` | one action per request; `Abort` ends `Start` between any two; rounds of the watch that fail or are refused (`WatchTicks`, `WatchLink`, `WatchJoinWindow`) |
| `ZigbeeDevices` | `internal/zigbee/driver.go`, `quirks.go` | `file` and `key` of the network, gangs behind endpoints, `events` ; `Start`, `Save`, `Initialise`, `ReadEvent` (`configureJoined`, `handleIncoming`), `Apply` ; zstack, crashes and touches are external |
| `PlannerLogin` | `planner/internal/api/auth_handlers.go`, `bcryptlimit.go`, `store/login.go`, `users.go` | requests as processes; a store call is a step because the database has one connection |
| `PlannerNotify` | `planner/internal/notify/notify.go`, `store/notify.go` | minutes as a clock, the sender's loop with its batch (an entry for each place of a rule's list of times, so that a time listed twice is there twice), rules and subscriptions ; `Tick`, `MarkSent`, `Push`, `Record`, `Change`, `NotifySave`, `NotifyDelete`, `PushSubscribe`, `Elapse`, `Stop`, `Start` |
| `PlannerStream` | `planner/internal/api/stream.go`, `web/src/lib/useLiveSync.ts`, `cmd/planner` shutdown | writers that overlap, handlers, clients and the process ; `Commit`, `TakeVersion`, `Send`, `Subscribe`, `Forward`, `Return`, `Connect`, `Receive`, `Load`, `Drop`, `Close`, `Crash` |
| `PlannerMigrations` | `planner/internal/store/store.go`, `unify.go` | processes that run `Open`; a statement outside a transaction is a step, and so is a transaction |
| `PlannerBoards` | `store/boards.go`, `cards.go`, `api/boards.go` | tables as functions from ids ; one action per store call |
| `PlannerRecur` | `store/recur.go`, `shiftEnd` | the real calendar, four years of it ; `Occur` moves a card to its next occurrence |
| `PlannerDiary` | `store/diary.go`, `media.go`, `storage.go`, `cmd/planner/diarycmd.go` | entries, files, rows ; uploads and `MediaDelete` in steps, a reader that pages, the import command (`ImportRead`, `ImportPut` for each picture, `DiaryImport` for the entries), a crash |
| `PlannerFamily` | `store/family.go`, `routines.go` | records, drops, plants, wishes ; `FamilyRead`/`FamilyAward`, `GrowRead`/`FamilyGrowNext`, `BuyRead`/`FamilyBuyWish`: what is read is used later |
| `PlannerFood` | `store/babyfood.go`, `babyfood_import.go` | plan, counts, batches, tags, and the freezer itself as a history ; `Stock`, `Need`, `Make` are what the page shows |
| `PlannerCare` | `store/care.go`, `cmd/planner/carecmd.go` | records and meals ; `CareAdd` then `careApplySolids`, `CareImport`, relink one record at a time |
| `PlannerFinance` | `store/finance*.go` | tables ; corrections and tags as actions, a wallet's balance in the two statements it takes (`WalletAsked`, then `WalletCreated` or `WalletSet`), the overview as operators (`OverviewRows`, `finPairs`, `FileKind`, `Classified`, `FixedKeys`, `Unexpected`, `Regular`) |
| `*Proofs` | | the theorems of section 6 |
| `MC*` | | constants and compositions for TLC |

Layers rest on each other's results instead of repeating them. `MatterExchange` uses the set of
accepted counters where the code has a window, which `SecureSession` justifies; `MatterSync` takes
an exchange to be one step that succeeds, fails, or succeeds and loses its answer, which is what
`MatterExchange` allows; `ZigbeeCoordinator` takes a request to be one step that may fail, which is
what `AshLink` allows.

Conventions:

* A handler is an action. Code between two points where another goroutine, process or message can
  interfere (unlock, channel operation, system call, statement, transaction) is one step.
* Text, payloads and encodings are model values. Times are ticks (`PlannerLogin`), minutes (`PlannerNotify`) or
  nondeterministic timers.
* An initial choice that never changes (`scenario`, `home`, `conf`, `subscribable`) lets one run
  cover several configurations.
* `MCMatterLink`, `MCHub`, `MCPlannerServer` and `MCPlannerStore` put modules without a common variable in one
  run; `layer` or `part` says which one moves, since their interleavings would add states and no behaviour. A part that
  does not move stays in one state, where its fairness asks for nothing.
* A SQLite row id is one more than the largest in its table (`INTEGER PRIMARY KEY` without `AUTOINCREMENT`), so
  the id of a deleted row may come again.
* Variables marked *history* are read by no guard.
* `XxxSomething`, introduced by a comment "Mutant of Xxx", is a plausible bug that the properties are
  shown to notice. No specification uses it.

## 3. Runs

Passing runs:

| run | states | shows |
|---|---|---|
| `matter_link` | 270 k | `NonceUnique`: no counter, hence no AES-CCM nonce, for two messages. `WindowFaithful`: below its far edge the window records exactly the accepted counters. `DuplicateOnlyAtEdge`: a duplicate is accepted at most one exact window width below the maximum. `WatchersEnd`: every watcher goroutine of `Receive` ends. `CommissionedKept`: success means that the device holds this call's certificate for good. `FailedReverts`: after a failure the device comes to hold nothing, or is on the fabric. |
| `matter_exchange` | 420 k | `ReplyMatches`: a late answer is never taken for the current call's. `AtMostOnce`: retransmission does not repeat a command. `DeliveredInOrder`: reports reach the callback once each, in order. `LossTolerated`: losses no more than retransmissions (and than messages in a receive loop) fail nothing and leave no report unanswered. `LoopsEnd`: duplicates cannot hold a receive loop for ever. |
| `matter_sync` | 900 k | `CallsHold`: a call fails only if something went wrong during it, the retry repeats a command at most once, and success means it was carried out. `Converges`: the hub ends with the device's position, whatever moved, rebooted or overtook. |
| `hub` | 230 k | `HomeConverges`: at rest and without drops the cache, mirrors, cycles and thresholds agree with the devices. `ComesToRest`: rules do not feed each other for ever. `NoLostWakeup`, `IntentSpec`: the RF queue never sleeps over a command and implements `LatestIntent`. `ButtonDetermined`: for every set of speeds and every iteration order. `NeverOrphans`: without forceForm a stored network is not replaced. `InStepWithNcp`: a request gets its own response, and a network is formed only after the old one is down. `RadiosServe`: RF devices are served, EZSP requests end, and a join window that closed is opened again, or the watch tries round after round in vain: a failed or refused round does not end it. `KeyKept`: with storage the zstack network has one key through all restarts. `GangShown`: a device shows its own gang and hears its own paddle. |
| `planner_server` | 4.4 M | `RemindersHold`: a device gets a reminder again only within one batch, for another place of the rule's list with the same time, whatever is slow, restarted or edited; and what was due when the loop looked is marked when its batch is over. `LoginLimited`: a lock, of an account or of an address, is overrun by no more attempts than the other bcrypt slots hold. `SessionsCurrent`: every session belongs to the current password unless a reset overtook the login. `SlotsReturned`: no path keeps a slot. |
| `planner_stream` | 176 k | `BroadcastSound`: nothing is sent on a closed channel, and no wake-up is lost although full channels are skipped, writes overlap and connections drop, as long as no version overtakes a lower one. `StreamsServe`: until then, or until the process stops, every write is shown some day, and no handler outlives its client. |
| `planner_migrations` | 790 k | `RecordedIffApplied`: applied once, recorded truly. `OpensOwnSchema`: a build never serves a schema it was not made for. `Opens`: restarts make up for every lost race. |
| `planner_store` | 608 k | `BoardsSound`: positions are dense, a recurring card has one open occurrence, a card pays once. `CalendarKept`: the next occurrence is the first day the rule names, and midnight breaks a streak only if the day was missed. `DiarySound`: pictures that are shown are on the disk, paging shows each entry once. `ImportedOnce`: an import leaves one entry per post. `FamilySound`: a drop feeds one plant, a plant buys one wish. `FoodSound`: the stock shown is what the freezer holds, a food's tags do not contradict each other. `CareSound`: links point to meals there are, relinking picks each meal once, an import repeats nothing. `FinanceSound`: the lists of a month add up to its figures, local money is spent once, a table is the union of the exports, and `finPairs`, greedy as it is, finds a maximum matching. |

Runs that are expected to fail, each contradicting a sentence of the repository:

| run | shows |
|---|---|
| `replay_edge` | `replay.go:14` "rejects duplicate ... message counters". A jump of exactly 32 clears the bit of the previous maximum, which is still in the window; its duplicate is accepted. `DuplicateOnlyAtEdge` says that this is the only way. |
| `matter_watch_poll` | `poller.go:14` "reflect real device state". The poller compares with its own last sample; pushes do not update it. Sampled 100, pushed 0, subscription lost, device back at 100: the hub shows 0 for ever. |
| `wallet_tag_reuse` | `finance_tags.go:214` "new transactions inherit none" (translated). A wallet is deleted, its uses go by cascade, their tags stay, and the next use gets a deleted one's id. |
| `stream_version_race` | `useLiveSync.ts:4`. `Broadcast` takes its version before the lock. Version 1 sent after 2 fills the channel, 3 is skipped, and the client ignores 1. `BroadcastSound` says that overtaking is the only way. |

## 4. Bounds

Every bound is a constant of its module and a conjunct of a guard. They are small because the
interesting cases are: the window is 3 wide and the counters go to 6, so every distance inside, on
and beyond the edge occurs and counters run out; channels hold 1 or 2 messages, so they overflow;
there is one more request than bcrypt slots; thresholds of lockouts are 1 and 2 and locks last 1 and
3 ticks, so that several locks fit in a run; three EZSP requests with sequence numbers modulo 4 let
two stale responses meet one request; a day has six minutes, a reminder's window two, one rule lists
a time twice and one whose window midnight cuts, a batch may take a minute, and the clock passes into the
second day's slot; two writers with three writes, two streams and a dropped connection let a version overtake another while a full channel is skipped;
the three homes are a relay that a lamp mirrors and that powers a fan in a cycle, a threshold beside a toggled lamp, and a blind
between two paddles; three starts of the coordinator let a crash be followed by a
recovery that crashes; two processes, four builds (two releases, an edited one, one with a gap), a
crash and an accepted checksum cover every conflict `migrate` tells apart; three calls of `Commission` let messages
of one meet the next, and the fail-safe may run out at any step; two starts of the zstack adapter and three
joins, commands or touches on three gangs and a curtain cover a cut-off write followed by a restart and reports of
a gang nobody configured. In `planner_store` the areas take three or four changes each, on boards of up to four columns and three cards,
three entries and one picture with two uploads, three days of the family page, a Saturday to a Monday, with two members, three days of
meals with two editors, three care records, and three exports chosen so that every branch of the classification has a
row; `PlannerRecur` starts at every day of the months around the turn of a year and of February in 2023 and 2024 and walks to the end of 2026, a leap day among them; the pairing is checked on every
sequence of five transfers. `CHECK_DEADLOCK FALSE`
stands where the bounds, or a finished system, let a model stop.

Some properties leave out what the code is known to get wrong (section 7), and say so in their
statement: `LossTolerated` a repeated StatusReport, `Converges` dropped events and a device whose
subscription is gone, the rest properties of `Hub` dropped messages, `NeverOrphans` a refused
networkInit, `KeyKept` a network.json that cannot be read, `SessionsCurrent` a login overtaken by a reset, `BroadcastSound` and `StreamsServe` what
follows a version that overtook another, `StreamsServe` restarts too, `DiarySound` a picture saved while it is deleted, `FamilySound` purchases that overlap, entries dated in the future and a request for the next plant that outlasts its day,
`FinanceSound` payments of one item, time and amount that are of different categories. `planner_migrations` adopts one version: with two, a crash inside the adoption is not recovered from.

## 5. Fairness

Weak fairness is assumed of what the Go runtime or the operating system keeps running: goroutines
that are ready (`RfQueue`, `Hub`, `AshLink`, `UdpReceive`, `PlannerStream`), timers and per-attempt
deadlines (`MatterExchange`, `AshLink`), tickers and backoff timers (`MatterSync`,
`ZigbeeCoordinator`), the device's fail-safe timer (`MatterCommissioning`, which the Matter specification demands of it), and the restart of a process (`Restart=always` of the systemd unit). `MatterSync`
takes strong fairness of `Poll`: the driver's mutex is fair in Go, so a poller that keeps asking gets
it between commands. The watch over the join window is taken to see
its ticker fire and its requests end, in an answer, a refusal or a failure (`AshLink` shows that they do); whether the NCP ever
reopens the window is left to it. Networks, devices, users and the NCP owe nothing, with the exceptions that
`MatterSync` names: a covering stops moving, an outage ends, a living subscription reports.
`LoopsEnd` is stated for timers that fire on their own; where a run uses timers that fire only on
loss, nothing is claimed about when.

## 6. Proofs

All are checked by TLAPS from the assumptions named in the modules, for every value of the constants: any number of
calls, requests, devices, losses, crashes or restarts. Bounds in the guards are values that nothing is assumed of. A
composition's specification (`MCSpec`) stands in the theorem where a run checks the property on it; the lemmas below it are
about the component alone.

| theorem | assumes | argument |
|---|---|---|
| `MatterLinkProofs`: `TypeCorrect`, `NoNonceReuse`, `ReplayWindowFaithful`, `DuplicatesOnlyAtEdge` | `Window > 0`, `MaxCounter \in Nat` | Nonces: every frame sent has a counter below `txCounter`, which only grows. Window: the bit at distance d is set iff `max - d` was accepted, for d below the width; shifting moves both sides alike. At the width itself only one direction survives, which is the bug of `replay_edge` and why the theorem stops there. |
| `MatterLinkProofs`: `CommissioningHolds` | | `CommInv`, over the steps of a call, numbered. `MessageInv`: no message is ahead of its call, and a certificate is for the key of its call. `OnceInv`: the device enters the session of a call once, with its only Pake3, when nothing of the session can have happened; without it a stale Pake3 could reopen a session whose later answers are on the way. `ProgressInv`: past a step the device has, as long as it is in that call's session, what the step gave it. `MemberInv`: a device on the fabric stays as it is. |
| `MatterExchangeProofs`: `CommandsRunOnce`, `RepliesMatch`, `ReportsInOrder` | `ScenarioAssumption` (fewer calls than would reach the exchange id of the subscription) | `ExchangeInv`. `CommandInv`: once a command has run every frame that asks for it is known to the device's filter, because a retransmission repeats the sealed frame. `AnswerInv`: the device answers on the exchange of the request. `PrimingInv` and `ReportInv`: report and answer alternate; a delivered report is known to the session's filter, and of the answers sealed for it only the first can move the device on. |
| `MatterExchangeProofs`: `LossesTolerated` | `ScenarioAssumption`; timers that fire only on loss, and no repeated StatusReport (section 7), are in the property | `LossInv`, as long as the losses so far are few. `HandshakeLoss` and `SecureLoss` say where the two sides are (`HandshakeAt`; `IdleAt`, `RequestAt`, `ConfirmAt`, `ListenAt`): what each has taken and what it may send again. `TokenInv`: of a message still unacknowledged, either it or one acknowledgement is in flight, never both. Only a loss removes that token, so each timer has a loss to its name: `TriesInv` bounds the device's repetitions, and `ItersInv` the iterations of the controller's loop together with those that the device's repetitions of acknowledged messages are still to cause (`Owed`, whose cardinality is what one acknowledgement or one loss changes by one). Retransmissions and iterations then never get past the losses, and no loop runs out. |
| `MatterLinkProofs`: `CallsAreSafe` | `None` is no result | `CallInv`: `CleanCall` says that a call that met no fault so far is on its first attempt or redialled from a stale session and has not run; `Attempts` that each of at most two attempts runs at most once. |
| `HubProofs`: `QueueIsConsistent`, `WakeupNeverLost`, `LatestCommandWins`, `ImplementsLatestIntent` | `None \notin Tx` | Neither wake-up nor refinement is inductive without `QInv`: types, and that `order` lists exactly the devices with something pending, once each. With it `Pop` serves a waiting device and every step is a step or a stutter of `LatestIntent`. |
| `HubProofs`: `ButtonIsDetermined` | `Top > 0` | `PickedSoFar`: the best of the keys visited so far, a tie going to the higher one, whatever the order. |
| `HubProofs`: `NetworkKept` | | `BringUpInv`: the status that `leaveNetwork` waits for is queued only after the NCP has left, and `Start` has emptied the queue. `StoredKeptInv`: without forceForm the NCP is asked to form only when it stores nothing. An action property, from both. |
| `HubProofs`: `ResponsesInStep`, `AdapterInStep` | `Requests \in Nat`; the second also `Requests < SeqMod` | `LinkInv`: whatever carries a response (line, channel, callback queue) carries one to a command the NCP accepted, and `request` waits for its own number. Numbers are a byte: when they come round a response that is 256 requests late has the right number, so the stronger statement needs fewer. |
| `HubProofs`: `PairedStaysPaired` | | `KeyInv`: with storage and before any misread, the keys of the nodes and the key in use are the key in the file, or there is no file and nothing is paired. |
| `HubProofs`: `WiredHomesConverge`, `HomesConverge` | `Buffer \in Nat`; the first also `Wired(home)`: rules name devices and fields there are, a threshold's upper bound is above its lower one, a cycle starts at its first level, and what a rule drives nothing else moves | `HubInv`, until a message is dropped. `CacheInv`: of every field the device has yet to report, or its newest report on the way to the cache, or the cache if there is none, shows it as it is. `RulesInv`: the engine has yet to read the newest report of a rule's source, or the newest command on the way to what the rule drives, or that device if there is none, is what the rule makes of the source. A run of the rules is a fold over a sequence: what it appends to the commands is proved by induction over the rules it has been through. `HomesConverge` shows that the homes of the run are wired, so that the theorem is about something. |
| `HubProofs`: `GangsShown` | `ZstackAssumption` (no two devices on one endpoint) | `GangInv`: for every gang the newest of its reports in the channel, or what its device shows if there is none, is its state; `ShowsInv` carries it through a prefix of the channel. |
| `PlannerServerProofs`: `RemindedOnce`, `RemindersKept` | `TimesAssumption` (rules are what `normalize` lets through: lists of times of the day, repeated ones and ones near midnight too) | `MarkInv`: who was pushed to is marked; what is to come of a batch has not been pushed, though its key may be, at an earlier place of the list in this batch. `ChanceInv`: what was due at a minute the loop looked at is marked, or still in the batch, as long as its rule is there. |
| `PlannerServerProofs`: `NoSlotLeaks`, `SessionsAreCurrent`, `GuessingLimited` | `LoginAssumption` | `SlotInv`: the slots taken are exactly the requests between acquire and release. `SessionInv`: what a request in hand has verified is current, or a reset went past it. `LimitInv`: attempts recorded since a lock fell and those still to be recorded held slots together when it fell, so their number is bounded by the slots. |
| `PlannerStreamProofs`: `OnlyOpenSends` | | `OpenInv`: the channels in the map are the open ones. |
| `PlannerStreamProofs`: `NoLostWakeUp`, `SoundBroadcast` | `StreamsAssumption`; writers are any set and overlap. `SyncedInOrder` excludes only what the code gets wrong, a version sent before a lower one, and speaks of one life of the process | `WakeInv`, until the first stop and the first overtaking. `Sent` is what a client can have been sent: the versions below all those that writers still hold, which without overtaking is what keeps the versions on a wire ascending and the next one above them. `ConnInv`: each connection has one handler. `WokenInv`: a skipped send leaves a version in the channel that makes the client load what was skipped. |
| `PlannerStoreProofs`: `FamilyFair` | `DaysAssumption` (days are numbers) | `GrowInv`: the last plant is the growing one; what a plant has had, and what a request to grow the next one has read, was given by then and is of days before every later plant's first. `TicketInv`: the purchase under way has a ticket no wish was bought with. Each names only what was read before the statement that uses it, which is why both are needed over a request's two steps. |
| `PlannerStoreProofs`: `BoardsKept` | | `Placed`: every column and every board is numbered 0, 1, 2, ..., stated of all groups at once, so that deleting one or adding one needs no case of its own. A splice is a removal that closes up (`PlacedRemove`) and an insertion that makes room (`PlacedInsert`), and the size the target is cut to is the count without the card. `CardRows` adds that serials are distinct, without which a card could be rewarded under another's; `RewardRows` that a paid key is of a card that was rewarded or took over the id of one that was. |
| `PlannerStoreProofs`: `DiaryKept` | `PagesAssumption` (dates and the page size are numbers, there is a date) | `PicturesInv`: a deletion under way is of a picture nothing shows, but for what was saved meanwhile. `ReaderInv`: among the entries nobody moves, those shown once are exactly those not behind the cursor, the others have not been shown; that a page is the newest of what is left (`PageIsTop`) carries it over a page. |
| `PlannerStoreProofs`: `CareRecordsHold` | | `RelinkInv`: what a run of relink-solids has given away it counts as taken, and it picks only what is free (`BestFree`). `RecordsInv`: a link is to a meal there is; an import's rows have sources of their own (`SourcesDiffer`). |
| `PlannerStoreProofs`: `ImportsOnce` | `ExportsAssumption` (an export names each post once; two numbered exports place a post alike) | An action property: an import leaves one entry for each post of the export. `PuttingInv`: the import under way is of a numbered export. `SourcesInv`: an entry is a person's, or a post of a numbered export under the source it has there, and no post has two. `RankedMember` and `PlacesDiffer`: numbering by counting those before gives each post of a day a number of its own, so that posts that differ have sources that differ, and the rows an import adds are exactly the posts whose source no entry has (`ImportAdds`). |
| `PlannerSumsProofs`: `StockKept` | `FoodAssumption` (foods are finite in number; plans are meals of them on numbered days) | `FoodInv`. `StockInv`: the last count of a food, if it came after the meals of its day and none of them was rewritten since, explains the freezer: what was counted, plus what the batches since gave, less what the meals since took. `TagsInv`: a row of tags never contradicts itself, whichever of two editors wrote last. A day that passes, a batch and a count each move one term (`BetweenNext`, `MadeMore`), by the lemmas on sums: `SumSame`, `SumAdds` and `SumZero`, by induction on the cardinality of the set. |
| `PlannerSumsProofs`: `MoneyAddsUp` | `FinanceAssumption` (exports are sequences of transactions, amounts are integers) | `LedgerInv`: every stored row is a row of some export with the number it has there, no two are known by the same owner, hash and number, and all of every imported export is stored. The rows of one hash in a file are numbered 1 to their count (`NumbersOfCopies`, by `RankedMember`), so the table holds for each hash the numbers 1 to the greatest count, once each (`UnionOfFiles`). `UsesInv`: a use is of a wallet there is; a row that is spending in the end was so by `FileKind`, which tried `walletCharge` before. The lists: unexpected, ordinary and refunded rows are disjoint and all of a month's that is not fixed, so their sums add up (`ListsOfMonth`, by `SumUnion`), as rows taken for the same are unexpected together (`SameIsUnexpected`). `Book`: transfers are in order of time. Then the pairs `finPairs` has after n transfers can be continued to a maximum matching (`PairExtends`): a maximum matching that takes another partner exchanges it for the first that is free, which is within ten minutes of every later one that the other is (`Exchange`). |
| `PlannerMigrationsProofs`: `AppliedOnce`, `OpensItsSchema` | `BuildsAssumption` (versions are positive, checksums are not `None`) | `MigrationInv`: types of schema and builds and `RecordedIffApplied` itself; body and row change in one transaction, and the loop's next version is one of the build's (`LeastLeft`, by well-foundedness). `OpenInv` adds that what the loop has passed, from a map that may be stale, is in the schema with the build's text or one that was vouched for. |

Only model-checked, and why:

* Liveness under fairness (`WatchersEnd`, `FailedReverts`, `LoopsEnd`, `Converges`, `ComesToRest`, `RadiosServe`,
  `StreamsServe`, `Opens`) is out of the prover's reach.
* `CalendarKept` is arithmetic of the calendar: that the code's loops stop at the first day a rule names is a search over
  months and years, which TLC does for every day around the turns of years and of February.

Induction over data works without operator parameters: a set of numbers has a least one (`LeastOne`, from the
well-foundedness of `<` on `Nat`), so a set that holds 0 and with every number the next holds them all (`Induction`); sets of numbers,
`{k : what is to be shown of k}`, stand for predicates. A recursive function in a LET is unfolded by showing that a function solves its
equation and that `CHOOSE` finds one (`SumUnfolds`).

Looking for the invariants corrected the models in four places. `LimitInv` failed where `PurgeLoginAttempts` deletes a
row whose window has just ended, which the earlier bounds hid (`AddressLimited` was false there: the
window is now ended by the purge, as the code does, and `IpWindow` is 1 so that the purge happens within a run). The device of `MatterExchange` gives up a report only while one is outstanding.
`FamilyGrowNext` counts the new seed from the day its request came, not from the day it is through, and renaming a plant may
sow one; `DropsFeedOnce` was false for a request that outlasts its day, beyond the bounds of the run, and now excludes it.
So does `ListsAddUp` for payments the overview takes for the same though their categories differ, which no export of the run has, and
`ImportUnion` counts rows under whatever category, as `finTxHash` does.

## 7. Divergences met while modelling

Besides the four violation runs. They were met as counterexamples of a stronger property or while reading;
the properties in the runs exclude them explicitly where they concern one.

* **Late StatusReport** (`go-matter/controller/mrp.go:155`; `mrp.go:16` "every reliable message we send
  is retransmitted ... until the expected reply arrives or attempts run out"). The ack of the StatusReport is lost, the
  device repeats it, and the unsecured frame fails the first encrypted call at once.
* **Report before SubscribeResponse** (`mrp.go:164`; `subscribe.go:107` "Listen delivers each subsequent
  report"). It is acknowledged as late traffic of another exchange and dropped.
* **Lost cancellation, stale deadline** (`transport/udp.go:74`, `:70`; `:62` "honoring ctx
  cancellation/deadline"). A context that is done before the deadline is cleared is forgotten; a
  watcher that picks `ctx.Done` after its call returned fails the next call.
* **Dropped sample** (`internal/matter/poller.go:71`). The sample is remembered although the full bus
  dropped its event, so it is never published again.
* **Silent reboot** (`internal/matter/watch.go:65`; `:52` "when the stream breaks (device reboot ...) it
  backs off and re-subscribes"). `Listen` has no deadline; a device that forgot the subscription is
  listened to for ever.
* **Cache merges four fields** (`internal/registry/registry.go:76`; `:57` "merges the reported fields").
  Colour temperature, hue, saturation and direction are not among them.
* **Left-over acknowledgements** (`ash/conn.go:169`; `:155` "waits for its ACK"), **port loss seen by one
  reader** (`conn.go:167`): `Send` may take the only copy of the error, and `Start` serves a dead link.
* **Key not recorded** (`coordinator.go:191`; `:50` "so the network key survives the dongle being lost"):
  a start that ends between forming and recording. **Refused networkInit** (`coordinator.go:79`): any
  refusal leads to a new network.
* **Reset during a login** (`auth_handlers.go:71`; `users.go:128`): the session of the old password is
  opened after the reset ended all sessions. **Failed query** (`users.go:123`): `UserExists` answers
  "unknown name", which the comment there denies. **Busy** (`auth_handlers.go:202`): `createUser`
  goes on after the 503 and writes a 201.
* **Refused renewal** (`coordinator.go:358`): `permitJoining` is asserted every minute and its status only logged, as if the
  window were open.
* **Version after a restart** (`useLiveSync.ts:40`): the server counts from 0, the client ignores what
  is not above its last version. **perUserSubs** (`stream.go:21`) is not used.
* **Midnight** (`store/notify.go:347`; `:259` "10 minutes from the set time even if the server stops for a
  moment"): the window compares times of one day, so a slot at 23:55 has five minutes. **Done in the
  meantime** (`notify/notify.go:155`; `migrations/0018_notify.sql` "looks at the condition again at the moment of sending"): conditions
  are evaluated for the whole batch first, and a reminder behind slow pushes goes out after its task is done. **Times given
  twice** (`store/notify.go:120` sorts them and keeps duplicates): both slots have one key, both are in
  the batch, and the reminder is pushed twice; `PushedOnce` says that nothing else does that. **VAPID keys** (`notify/notify.go:29`): two first calls of
  `Keys` may leave the private key of one pair and the public key of the other.
* **Adoption** (`store.go:171`; `migrate_test.go:98`): a crash between two INSERTs leaves versions that
  are run again at every start. **Seed** (`store.go:311`): two first starts make two boards.
  **backfillContent** (`store.go:366`): an edit between its SELECT and its UPDATE is overwritten.
* **Network file** (`zigbee/driver.go:92`; `:54` "created once and reused across restarts so paired devices stay paired"): a network.json that exists and cannot be read counts
  as missing and is overwritten with a new key; one that was cut short does not parse, and every later start fails.
  **Unknown lift** (`driver.go`, `handleIncoming`; `domain/state.go:7` 0..100): 255 becomes position -155. **Unconfigured gang**
  (`driver.go:456`): its reports go to the device without an endpoint.
* **Commissioning** (`controller/commission.go`): if only the answer to CommissioningComplete is lost, a failure is reported
  for a device that is on the fabric; any response command counts as success of `AddTrustedRootCertificate`; the exchange id and the counters
  of PASE are constants, so that a stale reply fails a new call. No command of the repository calls it yet.
* **Boards** (`store/cards.go`): a card that gets the id of a rewarded, deleted one earns nothing; a column added after
  the done column takes its place, and archived cards then lie in an open one; moving a recurring card within the done column
  makes its next occurrence too. **Monthly rules** (`recur.go`) skip the rest of the current month.
* **Pictures** (`store/media.go:255`): a text saved while `MediaDelete` runs keeps a picture that is gone; an upload in the same moment
  leaves a row without a file, a crash a file without a row; parallel uploads exceed the quota, and the import does not ask about it. **Numbering**
  (`diarycmd.go:215`): a larger export may give posts without pictures other numbers.
* **Family** (`family.go:658`): two purchases that overlap use one ticket; deleting a bought wish gives its ticket back;
  the pool of quests depends on the records of the moment and may change within the week; drops for entries dated in
  the future feed two plants; two overlapping requests for the next plant finish one plant twice and leave a second seed (`family.go:632`),
  and if one of them came the day before, a seed that counts days again.
* **Baby food** (`babyfood.go:1007`): a count made before the day's meals overstates the stock by them; of two edits of one meal or
  tag that overlap one is lost. `BFSelectTrack`'s comment says the first choice of a day wins, the code refuses the overlap.
* **Care** (`care.go:178`): `CareAdd` with a meal that has vanished returns an error and keeps the record; a record written by
  hand during an import is imported again; meal ids come again after a re-import, and records then link to other meals.
* **Finance**: two overlapping calls of `FinanceSetWalletBalance` (`finance_wallet.go:179`) make two wallets; rows with one item, time and
  amount and different categories hide each other in the ordinary list (`finance.go:1067`).


## 8. Not modelled

Cryptography (SPAKE2+, CASE computations), byte-level codecs (TLV, certificates, interaction
model, message header, CCM), mDNS discovery, configuration parsing, the health probe, the ESP32
firmware, HomeKit's accessory construction, search and the Notion import, rendering in the web client: no state that several steps
or actors share, or outside the repository.

Of the areas of the planner that are modelled: titles, texts and references of entries, search and EXIF data; the jar, the monthly report
and the streaks and quests of other areas on the family page (which the environment decides); meal times,
grams and snacks of the food plan, and its days other than those of the topping phase, the only ones the stock counts; amounts and daily sums of care records; snapshots of assets, goals, the monthly plan, sums per
tag and the parsing of bank files. Of reminders: rules added during a run, several records or hits under one rule, recipients other than everyone,
errors of the store, and the encryption of a push. They are sums and formats of what is modelled, or columns that nothing depends on.

## 9. Plan

Modules and runs of the first plan are all there, and the 28 invariants the runs check are all theorems, besides three action
properties. Left: the action property `CalendarKept`, for which a search over months has to be reasoned about, and liveness.
