-------------------------- MODULE PlannerMigrations --------------------------
(***************************************************************************)
(* Opening the planner's database (planner/internal/store/store.go,        *)
(* unify.go): adopting a database of the user_version days, applying the   *)
(* migrations that are missing, the backfills and the seed.  The server    *)
(* and the CLI are processes that open the same file, possibly from        *)
(* different builds, and may die at any step.                              *)
(*                                                                         *)
(* SQLite runs one writer at a time: a statement outside a transaction is  *)
(* a step, and so is a transaction.  One card stands for the cards a user  *)
(* adds; backfillPriority has the shape of backfillContent and is left out *)
(***************************************************************************)
EXTENDS Naturals, Sequences, FiniteSets

CONSTANTS
  Procs,       \* processes that open the database
  Builds,      \* builds: functions from migration versions to checksums
  None,        \* no checksum
  Legacy,      \* user_version of the database
  MaxCrashes, MaxAccepts   \* bounds

ASSUME BuildsAssumption ==
  /\ Builds # {}
  /\ \A b \in Builds : DOMAIN b \subseteq Nat \ {0} /\ \A v \in DOMAIN b : b[v] # None
  /\ Legacy \in Nat /\ MaxCrashes \in Nat /\ MaxAccepts \in Nat

Versions == UNION {DOMAIN b : b \in Builds}

VARIABLES
  effect,      \* per version: bodies that were committed
  recorded,    \* schema_migrations: checksum per version
  boards, events, content,   \* boards; the events table exists; the card
  pc, build, next, known, top,      \* per process: step, build, loop position, applied map, maxApplied
  accepted,    \* history: checksums an operator or the adoption vouched for
  crashes, accepts

data == <<boards, events, content>>
schema == <<effect, recorded>>
locals == <<build, next, known, top>>
history == <<accepted, crashes, accepts>>
vars == <<schema, data, pc, locals, history>>

Init ==
  /\ effect = [v \in Versions |-> IF v <= Legacy THEN <<None>> ELSE <<>>]
  /\ recorded = [v \in Versions |-> None]
  /\ boards = 0 /\ events = TRUE /\ content = "none"
  /\ pc = [p \in Procs |-> "off"] /\ build \in [Procs -> {CHOOSE b \in Builds : TRUE}]
  /\ next = [p \in Procs |-> 1] /\ known = [p \in Procs |-> [v \in Versions |-> None]]
  /\ top = [p \in Procs |-> 0] /\ accepted = {} /\ crashes = 0 /\ accepts = 0

Goto(p, l) == pc' = [pc EXCEPT ![p] = l]

-----------------------------------------------------------------------------
(***************************************************************************)
(* readApplied and migrate.                                                *)
(***************************************************************************)

\* A process starts with the binary that is installed.
Start(p) ==
  /\ pc[p] = "off"
  /\ \E b \in Builds : build' = [build EXCEPT ![p] = b]
  /\ Goto(p, "count")
  /\ UNCHANGED <<schema, data, next, known, top, history>>

\* Nothing recorded and a user_version: the versions up to it are adopted.
Count(p) ==
  /\ pc[p] = "count"
  /\ Goto(p, IF Legacy > 0 /\ \A v \in Versions : recorded[v] = None THEN "adopt" ELSE "read")
  /\ next' = [next EXCEPT ![p] = 1]
  /\ UNCHANGED <<schema, data, build, known, top, history>>

Least(S) == CHOOSE v \in S : \A w \in S : v <= w
Left(p) == {v \in DOMAIN build[p] : v >= next[p]}

\* Mutant of Legacies: the last version is left out.
LegaciesBelow(p) == {v \in Left(p) : v < Legacy}

Legacies(p) == {v \in Left(p) : v <= Legacy}

\* One INSERT of the adoption, a statement of its own; an existing row fails it.
Adopt(p) ==
  /\ pc[p] = "adopt"
  /\ LET todo == Legacies(p)  v == Least(todo) IN
     \/ todo = {} /\ Goto(p, "read") /\ UNCHANGED <<recorded, next, accepted>>
     \/ /\ todo # {} /\ recorded[v] = None
        /\ recorded' = [recorded EXCEPT ![v] = build[p][v]]
        /\ accepted' = accepted \cup {<<v, build[p][v]>>}
        /\ next' = [next EXCEPT ![p] = v + 1]
        /\ UNCHANGED pc
     \/ todo # {} /\ recorded[v] # None /\ Goto(p, "off") /\ UNCHANGED <<recorded, next, accepted>>
  /\ UNCHANGED <<effect, data, build, known, top, crashes, accepts>>

Highest(r) == LET S == {v \in Versions : r[v] # None} IN
  IF S = {} THEN 0 ELSE CHOOSE v \in S : \A w \in S : w <= v

Read(p) ==
  /\ pc[p] = "read"
  /\ known' = [known EXCEPT ![p] = recorded]
  /\ top' = [top EXCEPT ![p] = Highest(recorded)]
  /\ next' = [next EXCEPT ![p] = 1]
  /\ Goto(p, "migrate")
  /\ UNCHANGED <<schema, data, build, history>>

\* Mutant of Refused: the checksum is not compared.
RefusedOrder(p, v) == known[p][v] = None /\ v < top[p]

\* A changed file, or a new one numbered below the highest applied.
Refused(p, v) ==
  \/ known[p][v] # None /\ known[p][v] # build[p][v]
  \/ known[p][v] = None /\ v < top[p]

\* Mutant of Apply: the body is committed before it is recorded.
ApplyUnrecorded(p, v) ==
  \/ /\ effect[v] = <<>>
     /\ effect' = [effect EXCEPT ![v] = Append(@, build[p][v])]
     /\ UNCHANGED <<recorded, next, top>> /\ Goto(p, "migrate")
  \/ /\ effect[v] # <<>> /\ recorded[v] = None
     /\ recorded' = [recorded EXCEPT ![v] = build[p][v]]
     /\ top' = [top EXCEPT ![p] = v] /\ next' = [next EXCEPT ![p] = v + 1]
     /\ UNCHANGED <<effect>> /\ Goto(p, "migrate")

\* The transaction of one migration.  On a schema that has it the body fails (or
\* the primary key does), and so does the start.
Apply(p, v) ==
  \/ /\ effect[v] = <<>> /\ recorded[v] = None
     /\ effect' = [effect EXCEPT ![v] = Append(@, build[p][v])]
     /\ recorded' = [recorded EXCEPT ![v] = build[p][v]]
     /\ top' = [top EXCEPT ![p] = v] /\ next' = [next EXCEPT ![p] = v + 1]
     /\ Goto(p, "migrate")
  \/ /\ effect[v] # <<>> \/ recorded[v] # None
     /\ Goto(p, "off") /\ UNCHANGED <<schema, top, next>>

Migrate(p) ==
  /\ pc[p] = "migrate"
  /\ LET v == Least(Left(p)) IN
     \/ Left(p) = {} /\ Goto(p, "content") /\ UNCHANGED <<schema, top, next>>
     \/ /\ Left(p) # {} /\ Refused(p, v)
        /\ Goto(p, "off") /\ UNCHANGED <<schema, top, next>>
     \/ /\ Left(p) # {} /\ ~Refused(p, v) /\ known[p][v] # None
        /\ next' = [next EXCEPT ![p] = v + 1] /\ UNCHANGED <<schema, pc, top>>
     \/ Left(p) # {} /\ ~Refused(p, v) /\ known[p][v] = None /\ Apply(p, v)
  /\ UNCHANGED <<data, build, known, accepted, crashes, accepts>>

-----------------------------------------------------------------------------
(***************************************************************************)
(* The backfills and the seed: each reads first, then writes in a          *)
(* transaction.                                                            *)
(***************************************************************************)

See(p, b, yes, no) ==
  /\ Goto(p, IF b THEN yes ELSE no)
  /\ UNCHANGED <<schema, data, build, next, known, top, history>>

BackfillContentRead(p) == pc[p] = "content" /\ See(p, content = "null", "fill", "events")

BackfillContent(p) ==
  /\ pc[p] = "fill"
  /\ content' = "plain"
  /\ Goto(p, "events")
  /\ UNCHANGED <<schema, boards, events, locals, accepted, crashes, accepts>>

BackfillEventsRead(p) == pc[p] = "events" /\ See(p, events, "move", "seed")

\* The cards are inserted and the table is dropped; without it everything is
\* rolled back and the start fails.
BackfillEvents(p) ==
  /\ pc[p] = "move"
  /\ IF events THEN events' = FALSE /\ Goto(p, "seed")
               ELSE UNCHANGED events /\ Goto(p, "off")
  /\ UNCHANGED <<schema, boards, content, locals, history>>

SeedRead(p) == pc[p] = "seed" /\ See(p, boards = 0, "plant", "open")

Seed(p) ==
  /\ pc[p] = "plant"
  /\ boards' = boards + 1
  /\ Goto(p, "open")
  /\ UNCHANGED <<schema, events, content, locals, history>>

-----------------------------------------------------------------------------

\* An open server adds the card, with no content, and stores what a user typed
\* into it (CreateCard, UpdateCard).
Edit(p) ==
  /\ pc[p] = "open"
  /\ content' = IF content = "none" THEN "null" ELSE "edited"
  /\ UNCHANGED <<schema, boards, events, pc, locals, history>>

\* planner migrate accept: the recorded checksum becomes that of this build.
AcceptChecksum ==
  /\ accepts < MaxAccepts
  /\ \E b \in Builds : \E v \in DOMAIN b :
       /\ recorded[v] # None /\ recorded[v] # b[v]
       /\ recorded' = [recorded EXCEPT ![v] = b[v]]
       /\ accepted' = accepted \cup {<<v, b[v]>>}
  /\ accepts' = accepts + 1
  /\ UNCHANGED <<effect, data, pc, locals, crashes>>

Crash(p) ==
  /\ pc[p] # "off" /\ crashes < MaxCrashes
  /\ Goto(p, "off") /\ crashes' = crashes + 1
  /\ UNCHANGED <<schema, data, locals, accepted, accepts>>

OpenStep(p) ==
  \/ Count(p) \/ Adopt(p) \/ Read(p) \/ Migrate(p)
  \/ BackfillContentRead(p) \/ BackfillContent(p) \/ BackfillEventsRead(p) \/ BackfillEvents(p)
  \/ SeedRead(p) \/ Seed(p)

Next ==
  \/ \E p \in Procs : Start(p) \/ OpenStep(p) \/ Edit(p) \/ Crash(p)
  \/ AcceptChecksum

\* systemd starts the server again (Restart=always), and a process runs on.
Fairness == \A p \in Procs : WF_vars(Start(p)) /\ WF_vars(OpenStep(p))

Spec == Init /\ [][Next]_vars /\ Fairness

-----------------------------------------------------------------------------

\* A migration is in the schema exactly when it is recorded, and once, whichever
\* processes race and die in migrate: the body and its row are one transaction.
RecordedIffApplied ==
  \A v \in Versions : Len(effect[v]) <= 1 /\ (v > Legacy => (recorded[v] # None <=> effect[v] # <<>>))

\* A process that opened the database finds every migration of its build there,
\* with the text of its build, unless someone vouched for another one, whatever
\* builds are deployed and race (the checksums in migrate).
OpensOwnSchema ==
  \A p \in Procs : pc[p] = "open" => \A v \in DOMAIN build[p] :
     effect[v] # <<>> /\ (effect[v] = <<build[p][v]>> \/ <<v, build[p][v]>> \in accepted)

\* Nothing recorded refuses the build that p starts with.
Agrees(p) == \A v \in DOMAIN build[p] :
  \/ recorded[v] = build[p][v]
  \/ recorded[v] = None /\ v > Highest(recorded)

\* A process that keeps starting with a build the database agrees with gets it
\* open for good: what it loses in a race of starts, in the adoption, a migration
\* or a backfill, the restart makes up for.
Opens ==
  \A p \in Procs : []<>(pc[p] = "count" /\ Agrees(p)) => <>[](pc[p] = "open")

=============================================================================
