----------------------- MODULE PlannerMigrationsProofs -----------------------
(***************************************************************************)
(* For any number of processes, any builds and any crashes: every          *)
(* migration is applied at most once and recorded exactly when it is in    *)
(* the schema, and a process only opens a database that has the schema of  *)
(* its build.                                                              *)
(***************************************************************************)
EXTENDS PlannerMigrations, TLAPS, WellFoundedInduction

\* The part of the state that migrations are about.
SchemaType ==
  /\ effect \in [Versions -> Seq({None} \cup UNION {{b[v] : v \in DOMAIN b} : b \in Builds})]
  /\ recorded \in [Versions -> {None} \cup UNION {{b[v] : v \in DOMAIN b} : b \in Builds}]
  /\ build \in [Procs -> Builds]

\* What each process leaves behind is consistent, so the next one may rely on it.
MigrationInv == SchemaType /\ RecordedIffApplied

\* The least element of a set of versions is one of them (embeddedMigrations
\* sorts the files).
LEMMA LeastInSet ==
  ASSUME NEW S, S \subseteq Nat, S # {}
  PROVE  Least(S) \in S /\ \A w \in S : Least(S) <= w
<1>1. PICK x \in S : \A y \in S : ~(<<y, x>> \in OpToRel(<, Nat))
  BY NatLessThanWellFounded, WFMin, Zenon
<1>2. ASSUME NEW y \in S, y < x PROVE <<y, x>> \in OpToRel(<, Nat)
  <2>1. <<y, x>> \in Nat \X Nat /\ <<y, x>>[1] < <<y, x>>[2]
    BY <1>2
  <2> QED BY <2>1, Zenon DEF OpToRel
<1>3. \A y \in S : ~(y < x)
  BY <1>1, <1>2, Zenon
<1>4. \A y \in S : x <= y
  BY ONLY <1>3, S \subseteq Nat, x \in S
<1> QED BY <1>4 DEF Least

\* A version a process has left belongs to its build (migrate's loop).
LEMMA LeastLeft ==
  ASSUME SchemaType, NEW p \in Procs, NEW S, S \subseteq Left(p), S # {}
  PROVE  /\ Least(S) \in S /\ (\A w \in S : Least(S) <= w) /\ Least(S) \in DOMAIN build[p] /\ Least(S) \in Versions
         /\ build[p][Least(S)] # None
         /\ build[p][Least(S)] \in UNION {{b[v] : v \in DOMAIN b} : b \in Builds}
<1>1. build[p] \in Builds
  BY DEF SchemaType
<1>2. S \subseteq DOMAIN build[p] /\ DOMAIN build[p] \subseteq Nat
  BY <1>1, BuildsAssumption DEF Left
<1>3. Least(S) \in S /\ \A w \in S : Least(S) <= w
  BY <1>2, LeastInSet
<1> QED BY <1>1, <1>2, <1>3, BuildsAssumption DEF Versions

LEMMA InitSchema == Init => MigrationInv
<1> SUFFICES ASSUME Init PROVE MigrationInv
  OBVIOUS
<1>1. SchemaType
  <2>1. (CHOOSE b \in Builds : TRUE) \in Builds
    BY BuildsAssumption
  <2>2. build \in [Procs -> Builds]
    BY <2>1 DEF Init
  <2>3. effect \in [Versions -> Seq({None})] /\ recorded \in [Versions -> {None}]
    <3>1. <<None>> \in Seq({None}) /\ <<>> \in Seq({None})
      OBVIOUS
    <3>2. ASSUME NEW v \in Versions
          PROVE  (IF v <= Legacy THEN <<None>> ELSE <<>>) \in Seq({None})
      BY <3>1
    <3> QED BY <3>2, Zenon DEF Init
  <2>4. ASSUME NEW T PROVE Seq({None}) \subseteq Seq({None} \cup T)
    OBVIOUS
  <2> QED BY <2>2, <2>3, <2>4 DEF SchemaType
<1>2. Versions \subseteq Nat
  BY BuildsAssumption DEF Versions
<1>3. RecordedIffApplied
  BY <1>2, BuildsAssumption DEF Init, RecordedIffApplied
<1> QED BY <1>1, <1>3 DEF MigrationInv

\* Only the row of a version up to Legacy is added (readApplied).
LEMMA AdoptKeeps ==
  ASSUME MigrationInv, NEW p \in Procs, Adopt(p)
  PROVE  MigrationInv'
<1> DEFINE v == Least(Legacies(p))
<1>1. Legacies(p) \subseteq Left(p)
  BY DEF Legacies
<1>2. CASE UNCHANGED <<recorded, effect, build>>
  BY <1>2 DEF MigrationInv, SchemaType, RecordedIffApplied
<1>3. CASE Legacies(p) # {} /\ recorded' = [recorded EXCEPT ![v] = build[p][v]]
  <2>0. v \in Legacies(p) /\ v \in Versions
        /\ build[p][v] \in UNION {{b[w] : w \in DOMAIN b} : b \in Builds}
    BY <1>1, <1>3, LeastLeft, Zenon DEF MigrationInv
  <2>1. v \in Versions /\ v <= Legacy /\ build[p][v] \in UNION {{b[w] : w \in DOMAIN b} : b \in Builds}
    BY <2>0, Zenon DEF Legacies
  <2>2. effect' = effect /\ build' = build
    BY DEF Adopt
  <2>3. SchemaType'
    BY <1>3, <2>1, <2>2 DEF MigrationInv, SchemaType
  <2>4. Versions \subseteq Nat /\ Legacy \in Nat
    BY BuildsAssumption DEF Versions
  <2>5. ASSUME NEW w \in Versions
        PROVE  (Len(effect[w]) <= 1 /\ (w > Legacy => (recorded[w] # None <=> effect[w] # <<>>)))'
    BY <1>3, <2>1, <2>2, <2>4 DEF MigrationInv, SchemaType, RecordedIffApplied
  <2> QED BY <2>3, <2>5 DEF MigrationInv, RecordedIffApplied
<1> QED BY <1>2, <1>3 DEF Adopt

\* The body and its row are committed together, and only on a schema that has
\* neither (the transaction of migrate).
LEMMA ApplyKeeps ==
  ASSUME MigrationInv, NEW p \in Procs, Left(p) # {}, Apply(p, Least(Left(p))), build' = build
  PROVE  MigrationInv'
<1> DEFINE v == Least(Left(p))
<1>1. v \in Versions /\ build[p][v] # None
      /\ build[p][v] \in UNION {{b[w] : w \in DOMAIN b} : b \in Builds}
  BY LeastLeft DEF MigrationInv
<1>2. CASE UNCHANGED schema
  BY <1>2 DEF MigrationInv, SchemaType, RecordedIffApplied, schema
<1>3. CASE /\ effect[v] = <<>>
           /\ effect' = [effect EXCEPT ![v] = Append(@, build[p][v])]
           /\ recorded' = [recorded EXCEPT ![v] = build[p][v]]
  <2>1. Append(<<>>, build[p][v]) = <<build[p][v]>> /\ <<build[p][v]>> # <<>> /\ Len(<<build[p][v]>>) = 1
        /\ <<build[p][v]>> \in Seq({None} \cup UNION {{b[w] : w \in DOMAIN b} : b \in Builds})
    BY <1>1
  <2>2. effect' = [effect EXCEPT ![v] = <<build[p][v]>>]
    BY <1>1, <1>3, <2>1 DEF MigrationInv, SchemaType
  <2>3. SchemaType'
    BY <1>1, <1>3, <2>1, <2>2 DEF MigrationInv, SchemaType
  <2>4. ASSUME NEW w \in Versions
        PROVE  (Len(effect[w]) <= 1 /\ (w > Legacy => (recorded[w] # None <=> effect[w] # <<>>)))'
    BY <1>1, <1>3, <2>1, <2>2 DEF MigrationInv, SchemaType, RecordedIffApplied
  <2> QED BY <2>3, <2>4 DEF MigrationInv, RecordedIffApplied
<1> QED BY <1>2, <1>3 DEF Apply

LEMMA MigrateKeeps ==
  ASSUME MigrationInv, NEW p \in Procs, Migrate(p)
  PROVE  MigrationInv'
<1>1. build' = build
  BY DEF Migrate
<1>2. CASE UNCHANGED schema
  BY <1>1, <1>2 DEF MigrationInv, SchemaType, RecordedIffApplied, schema
<1>3. CASE Left(p) # {} /\ Apply(p, Least(Left(p)))
  BY <1>1, <1>3, ApplyKeeps
<1> QED BY <1>2, <1>3 DEF Migrate

\* An accepted checksum replaces a recorded one (AcceptChecksum).
LEMMA AcceptKeeps ==
  ASSUME MigrationInv, AcceptChecksum
  PROVE  MigrationInv'
<1>1. PICK b \in Builds : \E v \in DOMAIN b :
        recorded[v] # None /\ recorded' = [recorded EXCEPT ![v] = b[v]]
  BY DEF AcceptChecksum
<1>2. PICK v \in DOMAIN b : recorded[v] # None /\ recorded' = [recorded EXCEPT ![v] = b[v]]
  BY <1>1
<1>3. v \in Versions /\ b[v] # None /\ b[v] \in UNION {{c[w] : w \in DOMAIN c} : c \in Builds}
  BY BuildsAssumption DEF Versions
<1>4. effect' = effect /\ build' = build
  BY DEF AcceptChecksum, locals
<1>5. SchemaType'
  BY <1>2, <1>3, <1>4 DEF MigrationInv, SchemaType
<1>6. ASSUME NEW w \in Versions
      PROVE  (Len(effect[w]) <= 1 /\ (w > Legacy => (recorded[w] # None <=> effect[w] # <<>>)))'
  BY <1>2, <1>3, <1>4 DEF MigrationInv, SchemaType, RecordedIffApplied
<1> QED BY <1>5, <1>6 DEF MigrationInv, RecordedIffApplied

\* The other steps leave the schema alone.
LEMMA StepKeeps == MigrationInv /\ [Next]_vars => MigrationInv'
<1> SUFFICES ASSUME MigrationInv, [Next]_vars PROVE MigrationInv'
  OBVIOUS
<1> USE DEF schema, locals
<1>1. ASSUME UNCHANGED <<effect, recorded, build>> PROVE MigrationInv'
  BY <1>1 DEF MigrationInv, SchemaType, RecordedIffApplied
<1>2. CASE UNCHANGED vars
  BY <1>1, <1>2 DEF vars
<1>3. CASE AcceptChecksum
  BY <1>3, AcceptKeeps
<1>4. ASSUME NEW p \in Procs, Start(p) PROVE MigrationInv'
  <2>1. PICK b \in Builds : build' = [build EXCEPT ![p] = b]
    BY <1>4 DEF Start
  <2> QED BY <1>4, <2>1 DEF Start, MigrationInv, SchemaType, RecordedIffApplied
<1>5. ASSUME NEW p \in Procs, Edit(p) \/ Crash(p) PROVE MigrationInv'
  BY <1>1, <1>5 DEF Edit, Crash
<1>6. ASSUME NEW p \in Procs, OpenStep(p) PROVE MigrationInv'
  <2>1. CASE Count(p) \/ Read(p)
    BY <1>1, <2>1 DEF Count, Read
  <2>2. CASE Adopt(p)
    BY <2>2, AdoptKeeps
  <2>3. CASE Migrate(p)
    BY <2>3, MigrateKeeps
  <2>4. CASE BackfillContentRead(p) \/ BackfillEventsRead(p) \/ SeedRead(p)
    BY <1>1, <2>4 DEF BackfillContentRead, BackfillEventsRead, SeedRead, See
  <2>5. CASE BackfillContent(p) \/ BackfillEvents(p) \/ Seed(p)
    BY <1>1, <2>5 DEF BackfillContent, BackfillEvents, Seed
  <2> QED BY <1>6, <2>1, <2>2, <2>3, <2>4, <2>5 DEF OpenStep
<1> QED BY <1>2, <1>3, <1>4, <1>5, <1>6 DEF Next

\* For any processes, builds and crashes, migrate applies each migration at most
\* once, and its row in schema_migrations says truly whether it was.
THEOREM AppliedOnce == Spec => []RecordedIffApplied
<1>1. MigrationInv => RecordedIffApplied
  BY DEF MigrationInv
<1> QED BY InitSchema, StepKeeps, <1>1, PTL DEF Spec

-----------------------------------------------------------------------------
(***************************************************************************)
(* A process opens the schema of its own build.                            *)
(***************************************************************************)

\* Version v is in the schema with the text c, or someone vouched for c.
Vouched(v, c) == effect[v] # <<>> /\ (effect[v] = <<c>> \/ <<v, c>> \in accepted)

Migrated == {"content", "fill", "events", "move", "seed", "plant", "open"}

OpenType ==
  /\ pc \in [Procs -> {"off", "count", "adopt", "read", "migrate"} \cup Migrated]
  /\ next \in [Procs -> Nat]
  /\ DOMAIN known = Procs /\ \A p \in Procs : DOMAIN known[p] = Versions

\* What is recorded is vouched for, and so is what a process has read of it,
\* however old that is.
RowsVouched ==
  /\ \A v \in Versions : v <= Legacy => effect[v] # <<>>
  /\ \A v \in Versions : recorded[v] # None => Vouched(v, recorded[v])
  /\ \A p \in Procs : \A v \in Versions : known[p][v] # None => Vouched(v, known[p][v])

\* The loop of migrate has dealt with all versions below its position.
LoopVouched ==
  \A p \in Procs : \A v \in DOMAIN build[p] :
    (pc[p] \in Migrated \/ (pc[p] = "migrate" /\ v < next[p])) => Vouched(v, build[p][v])

OpenInv == MigrationInv /\ OpenType /\ RowsVouched /\ LoopVouched

LEMMA VersionsNat == Versions \subseteq Nat \ {0} /\ Legacy \in Nat
BY BuildsAssumption DEF Versions

LEMMA BuildVersions ==
  ASSUME SchemaType, NEW p \in Procs
  PROVE  build[p] \in Builds /\ DOMAIN build[p] \subseteq Versions
         /\ \A v \in DOMAIN build[p] : build[p][v] # None
<1>1. build[p] \in Builds
  BY DEF SchemaType
<1> QED BY <1>1, BuildsAssumption DEF Versions

\* A migration that is in the schema stays as it is, and nobody is forgotten who
\* vouched for one.
Keeps ==
  /\ \A v \in Versions : effect[v] # <<>> => effect'[v] = effect[v]
  /\ accepted \subseteq accepted'

LEMMA VouchedKept ==
  ASSUME Keeps, NEW v \in Versions, NEW c, Vouched(v, c) PROVE Vouched(v, c)'
BY DEF Keeps, Vouched

LEMMA RowsKept ==
  ASSUME OpenInv, Keeps, known' = known,
         \A v \in Versions : recorded'[v] = recorded[v] \/ Vouched(v, recorded[v])'
  PROVE  RowsVouched'
<1>1. \A v \in Versions : v <= Legacy => effect'[v] # <<>>
  BY DEF OpenInv, RowsVouched, Keeps
<1>2. ASSUME NEW v \in Versions, recorded'[v] # None PROVE Vouched(v, recorded[v])'
  <2>1. CASE recorded'[v] = recorded[v]
    <3>1. Vouched(v, recorded[v])
      BY <1>2, <2>1 DEF OpenInv, RowsVouched
    <3> QED BY <2>1, <3>1, VouchedKept DEF Vouched
  <2> QED BY <2>1
<1>3. ASSUME NEW p \in Procs, NEW v \in Versions, known'[p][v] # None PROVE Vouched(v, known[p][v])'
  <2>1. Vouched(v, known[p][v])
    BY <1>3 DEF OpenInv, RowsVouched
  <2> QED BY <2>1, VouchedKept DEF Vouched
<1> QED BY <1>1, <1>2, <1>3 DEF RowsVouched

\* The other processes.
LEMMA LoopKept ==
  ASSUME OpenInv, Keeps, NEW q \in Procs, build'[q] = build[q], NEW v \in DOMAIN build[q],
         \/ pc[q] \in Migrated
         \/ pc[q] = "migrate" /\ v < next[q]
  PROVE  Vouched(v, build[q][v])'
<1>1. v \in Versions
  BY BuildVersions DEF OpenInv, MigrationInv
<1>2. Vouched(v, build[q][v])
  BY DEF OpenInv, LoopVouched
<1> QED BY <1>1, <1>2, VouchedKept DEF Vouched

\* A step of p that touches neither the schema nor what p has read.
LEMMA PlainStep ==
  ASSUME OpenInv, MigrationInv', UNCHANGED <<schema, accepted, known>>, NEW p \in Procs,
         NEW l \in {"off", "count", "adopt", "read", "migrate"} \cup Migrated, Goto(p, l),
         \A q \in Procs : q # p => build'[q] = build[q] /\ next'[q] = next[q],
         next' \in [Procs -> Nat],
         l \in Migrated => build'[p] = build[p] /\ pc[p] \in Migrated,
         l # "migrate"
  PROVE  OpenInv'
<1>1. Keeps
  BY DEF Keeps, schema
<1>2. OpenType'
  BY DEF OpenInv, OpenType, Goto
<1>3. RowsVouched'
  BY <1>1, RowsKept DEF schema
<1>4. ASSUME NEW q \in Procs, NEW v \in DOMAIN build'[q],
             pc'[q] \in Migrated \/ (pc'[q] = "migrate" /\ v < next'[q])
      PROVE  Vouched(v, build[q][v])'
  <2>1. CASE q = p
    <3>1. pc'[q] = l
      BY <2>1 DEF Goto, OpenInv, OpenType
    <3>2. pc[q] \in Migrated /\ build'[q] = build[q]
      BY <1>4, <2>1, <3>1
    <3>3. Vouched(v, build[q][v])'
      BY <1>1, <1>4, <3>2, LoopKept
    <3> QED BY <3>3
  <2>2. CASE q # p
    <3>1. pc'[q] = pc[q] /\ build'[q] = build[q] /\ next'[q] = next[q]
      BY <2>2 DEF Goto, OpenInv, OpenType
    <3> QED BY <1>1, <1>4, <3>1, LoopKept
  <2> QED BY <2>1, <2>2
<1>5. LoopVouched'
  BY <1>4 DEF LoopVouched
<1> QED BY <1>2, <1>3, <1>5 DEF OpenInv


\* One row of the adoption: the version was in the schema, and is vouched for.
LEMMA AdoptOpen == ASSUME OpenInv, NEW p \in Procs, Adopt(p) PROVE OpenInv'
<1>0. MigrationInv'
  BY AdoptKeeps DEF OpenInv
<1>t. pc[p] = "adopt" /\ next[p] \in Nat
  BY DEF Adopt, OpenInv, OpenType
<1>1. UNCHANGED <<effect, build, known>>
  BY DEF Adopt
<1>2. CASE UNCHANGED <<recorded, next, accepted>> /\ (Goto(p, "read") \/ Goto(p, "off"))
  <2>1. \A l \in {"read", "off"} : l \notin Migrated /\ l # "migrate"
    BY DEF Migrated
  <2>2. next \in [Procs -> Nat]
    BY DEF OpenInv, OpenType
  <2>3. CASE Goto(p, "read")
    BY <1>0, <1>1, <1>2, <2>1, <2>2, <2>3, PlainStep DEF schema
  <2>4. CASE Goto(p, "off")
    BY <1>0, <1>1, <1>2, <2>1, <2>2, <2>4, PlainStep DEF schema
  <2> QED BY <1>2, <2>3, <2>4
<1>3. CASE /\ Legacies(p) # {}
           /\ recorded' = [recorded EXCEPT ![Least(Legacies(p))] = build[p][Least(Legacies(p))]]
           /\ accepted' = accepted \cup {<<Least(Legacies(p)), build[p][Least(Legacies(p))]>>}
           /\ next' = [next EXCEPT ![p] = Least(Legacies(p)) + 1]
           /\ UNCHANGED pc
  <2>1. PICK v : v = Least(Legacies(p))
    OBVIOUS
  <2>2. Legacies(p) \subseteq Left(p)
    BY DEF Legacies
  <2>3. v \in Legacies(p) /\ v \in Versions
    BY <1>3, <2>1, <2>2, LeastLeft, Zenon DEF OpenInv, MigrationInv
  <2>4. v <= Legacy /\ v \in Nat
    BY <2>3, VersionsNat DEF Legacies
  <2>5. Keeps
    BY <1>1, <1>3 DEF Keeps
  <2>6. \A w \in Versions : recorded'[w] = recorded[w] \/ (w = v /\ recorded'[w] = build[p][v])
    BY <1>3, <2>1 DEF OpenInv, MigrationInv, SchemaType
  <2>7. <<v, build[p][v]>> \in accepted' /\ effect'[v] # <<>>
    BY <1>1, <1>3, <2>1, <2>3, <2>4 DEF OpenInv, RowsVouched
  <2>8. RowsVouched'
    <3>1. \A w \in Versions : recorded'[w] = recorded[w] \/ Vouched(w, recorded[w])'
      BY <2>6, <2>7 DEF Vouched
    <3> QED BY <1>1, <2>5, <3>1, RowsKept
  <2>9. OpenType'
    BY <1>1, <1>3, <2>1, <2>4 DEF OpenInv, OpenType
  <2>10. LoopVouched'
    <3>1. ASSUME NEW q \in Procs, NEW w \in DOMAIN build[q],
                 pc[q] \in Migrated \/ (pc[q] = "migrate" /\ w < next'[q])
          PROVE  Vouched(w, build[q][w])'
      <4>1. CASE q = p
        BY <1>t, <3>1, <4>1 DEF Migrated
      <4>2. CASE q # p
        <5>1. next'[q] = next[q]
          BY <1>3, <4>2 DEF OpenInv, OpenType
        <5> QED BY <1>1, <2>5, <3>1, <5>1, LoopKept
      <4> QED BY <4>1, <4>2
    <3> QED BY <1>1, <1>3, <3>1 DEF LoopVouched
  <2> QED BY <1>0, <2>8, <2>9, <2>10 DEF OpenInv
<1> QED BY <1>2, <1>3 DEF Adopt

LEMMA AcceptOpen == ASSUME OpenInv, AcceptChecksum PROVE OpenInv'
<1>0. MigrationInv'
  BY AcceptKeeps DEF OpenInv
<1>1. UNCHANGED <<effect, pc, build, next, known>>
  BY DEF AcceptChecksum, locals
<1>b. PICK b \in Builds : \E v \in DOMAIN b :
        /\ recorded[v] # None /\ recorded' = [recorded EXCEPT ![v] = b[v]]
        /\ accepted' = accepted \cup {<<v, b[v]>>}
  BY DEF AcceptChecksum
<1>2. PICK v \in DOMAIN b :
        /\ recorded[v] # None /\ recorded' = [recorded EXCEPT ![v] = b[v]]
        /\ accepted' = accepted \cup {<<v, b[v]>>}
  BY <1>b
<1>3. v \in Versions
  BY DEF Versions
<1>4. Keeps
  BY <1>1, <1>2 DEF Keeps
<1>5. \A w \in Versions : recorded'[w] = recorded[w] \/ (w = v /\ recorded'[w] = b[v])
  BY <1>2 DEF OpenInv, MigrationInv, SchemaType
<1>6. effect'[v] # <<>>
  BY <1>1, <1>2, <1>3 DEF OpenInv, RowsVouched, Vouched
<1>7. \A w \in Versions : recorded'[w] = recorded[w] \/ Vouched(w, recorded[w])'
  BY <1>2, <1>5, <1>6 DEF Vouched
<1>8. RowsVouched'
  BY <1>1, <1>4, <1>7, RowsKept
<1>9. LoopVouched'
  <2>1. ASSUME NEW q \in Procs, NEW w \in DOMAIN build[q],
               pc[q] \in Migrated \/ (pc[q] = "migrate" /\ w < next[q])
        PROVE  Vouched(w, build[q][w])'
    BY <1>1, <1>4, <2>1, LoopKept
  <2> QED BY <1>1, <2>1 DEF LoopVouched
<1>10. OpenType'
  BY <1>1 DEF OpenInv, OpenType
<1> QED BY <1>0, <1>8, <1>9, <1>10 DEF OpenInv

\* readApplied: the loop starts with what is recorded.
LEMMA ReadOpen == ASSUME OpenInv, NEW p \in Procs, Read(p) PROVE OpenInv'
<1>1. UNCHANGED <<effect, recorded, build, accepted>>
  BY DEF Read, schema, history
<1>0. MigrationInv'
  BY <1>1 DEF OpenInv, MigrationInv, SchemaType, RecordedIffApplied
<1>2. known' = [known EXCEPT ![p] = recorded] /\ next' = [next EXCEPT ![p] = 1]
      /\ pc' = [pc EXCEPT ![p] = "migrate"]
  BY DEF Read, Goto
<1>3. DOMAIN recorded = Versions
  BY DEF OpenInv, MigrationInv, SchemaType
<1>4. OpenType'
  BY <1>2, <1>3 DEF OpenInv, OpenType
<1>5. \A v, c : Vouched(v, c)' <=> Vouched(v, c)
  BY <1>1 DEF Vouched
<1>6. RowsVouched'
  <2>1. ASSUME NEW q \in Procs, NEW v \in Versions, known'[q][v] # None PROVE Vouched(v, known'[q][v])
    BY <1>2, <2>1 DEF OpenInv, OpenType, RowsVouched
  <2> QED BY <1>1, <2>1 DEF OpenInv, RowsVouched, Vouched
<1>7. LoopVouched'
  <2>1. ASSUME NEW q \in Procs, NEW v \in DOMAIN build[q],
               pc'[q] \in Migrated \/ (pc'[q] = "migrate" /\ v < next'[q])
        PROVE  Vouched(v, build[q][v])
    <3>1. CASE q = p
      <4>1. v \in Nat \ {0}
        BY BuildVersions, VersionsNat DEF OpenInv, MigrationInv
      <4>2. pc'[q] = "migrate" /\ next'[q] = 1
        BY <1>2, <3>1 DEF OpenInv, OpenType
      <4> QED BY <2>1, <4>1, <4>2 DEF Migrated
    <3>2. CASE q # p
      <4>1. pc'[q] = pc[q] /\ next'[q] = next[q]
        BY <1>2, <3>2 DEF OpenInv, OpenType
      <4> QED BY <2>1, <4>1 DEF OpenInv, LoopVouched
    <3> QED BY <3>1, <3>2
  <2> QED BY <1>1, <2>1 DEF LoopVouched, Vouched
<1> QED BY <1>0, <1>4, <1>6, <1>7 DEF OpenInv

\* One turn of the loop that deals with version v of p's build.
LEMMA TurnOpen ==
  ASSUME OpenInv, MigrationInv', Keeps, NEW p \in Procs, pc[p] = "migrate",
         NEW v, Left(p) # {}, v = Least(Left(p)), UNCHANGED <<build, known>>,
         next' = [next EXCEPT ![p] = v + 1], pc' = pc,
         \A w \in Versions : recorded'[w] = recorded[w] \/ Vouched(w, recorded[w])',
         Vouched(v, build[p][v])'
  PROVE  OpenInv'
<1>1. v \in Left(p) /\ (\A w \in Left(p) : v <= w) /\ v \in Versions
  BY LeastLeft DEF OpenInv, MigrationInv
<1>n. v \in Nat /\ next[p] \in Nat
  BY <1>1, VersionsNat DEF OpenInv, OpenType
<1>2. OpenType'
  BY <1>n DEF OpenInv, OpenType
<1>3. RowsVouched'
  BY RowsKept
<1>4. ASSUME NEW q \in Procs, NEW w \in DOMAIN build[q],
             pc[q] \in Migrated \/ (pc[q] = "migrate" /\ w < next'[q])
      PROVE  Vouched(w, build[q][w])'
  <2>1. CASE q = p
    <3>1. w < v + 1
      BY <1>4, <2>1 DEF OpenInv, OpenType, Migrated
    <3>2. w \in Nat
      BY BuildVersions, VersionsNat DEF OpenInv, MigrationInv
    <3>3. CASE w < next[p]
      BY <2>1, <3>3, LoopKept
    <3>4. CASE w = v
      BY <2>1, <3>4
    <3>5. w >= next[p] => v <= w
      BY <1>1, <2>1 DEF Left
    <3> QED BY <1>n, <3>1, <3>2, <3>3, <3>4, <3>5
  <2>2. CASE q # p
    <3>1. next'[q] = next[q]
      BY <2>2 DEF OpenInv, OpenType
    <3> QED BY <1>4, <3>1, LoopKept
  <2> QED BY <2>1, <2>2
<1>5. LoopVouched'
  BY <1>4 DEF LoopVouched
<1> QED BY <1>2, <1>3, <1>5 DEF OpenInv

LEMMA MigrateOpen == ASSUME OpenInv, NEW p \in Procs, Migrate(p) PROVE OpenInv'
<1>0. MigrationInv'
  BY MigrateKeeps DEF OpenInv
<1>1. pc[p] = "migrate" /\ UNCHANGED <<build, known, accepted>>
  BY DEF Migrate
<1>n. next \in [Procs -> Nat] /\ pc \in [Procs -> {"off", "count", "adopt", "read", "migrate"} \cup Migrated]
  BY DEF OpenInv, OpenType
<1>2. CASE UNCHANGED <<schema, next>> /\ Goto(p, "off")
  <2>1. "off" \notin Migrated
    BY DEF Migrated
  <2> QED BY <1>0, <1>1, <1>n, <1>2, <2>1, PlainStep
<1>3. CASE Left(p) = {} /\ Goto(p, "content") /\ UNCHANGED <<schema, next>>
  <2>1. Keeps
    BY <1>1, <1>3 DEF Keeps, schema
  <2>2. OpenType'
    BY <1>1, <1>3 DEF OpenInv, OpenType, Goto, Migrated
  <2>3. RowsVouched'
    BY <1>1, <1>3, <2>1, RowsKept DEF schema
  <2>4. ASSUME NEW q \in Procs, NEW w \in DOMAIN build[q],
               pc'[q] \in Migrated \/ (pc'[q] = "migrate" /\ w < next[q])
        PROVE  Vouched(w, build[q][w])'
    <3>1. CASE q = p
      <4>1. w \in Nat /\ next[p] \in Nat
        BY <1>n, BuildVersions, VersionsNat DEF OpenInv, MigrationInv
      <4>2. w < next[p]
        BY <1>3, <3>1, <4>1 DEF Left
      <4> QED BY <1>1, <2>1, <3>1, <4>2, LoopKept
    <3>2. CASE q # p
      <4>1. pc'[q] = pc[q]
        BY <1>3, <1>n, <3>2 DEF Goto
      <4> QED BY <1>1, <2>1, <2>4, <4>1, LoopKept
    <3> QED BY <3>1, <3>2
  <2>5. LoopVouched'
    BY <1>1, <1>3, <2>4 DEF LoopVouched
  <2> QED BY <1>0, <2>2, <2>3, <2>5 DEF OpenInv
<1>4. ASSUME NEW v, v = Least(Left(p)), Left(p) # {}, ~Refused(p, v), known[p][v] # None,
             next' = [next EXCEPT ![p] = v + 1], UNCHANGED <<schema, pc>>
      PROVE  OpenInv'
  <2>1. Keeps
    BY <1>1, <1>4 DEF Keeps, schema
  <2>2. v \in Versions /\ v \in DOMAIN build[p]
    BY <1>4, LeastLeft DEF OpenInv, MigrationInv
  <2>3. known[p][v] = build[p][v]
    BY <1>4 DEF Refused
  <2>4. Vouched(v, build[p][v])
    BY <1>4, <2>2, <2>3 DEF OpenInv, RowsVouched
  <2>5. Vouched(v, build[p][v])'
    BY <1>1, <1>4, <2>4 DEF Vouched, schema
  <2>6. \A w \in Versions : recorded'[w] = recorded[w]
    BY <1>4 DEF schema
  <2> QED BY <1>0, <1>1, <1>4, <2>1, <2>5, <2>6, TurnOpen
<1>5. ASSUME NEW v, v = Least(Left(p)), Left(p) # {},
             effect[v] = <<>>, effect' = [effect EXCEPT ![v] = Append(@, build[p][v])],
             recorded' = [recorded EXCEPT ![v] = build[p][v]],
             next' = [next EXCEPT ![p] = v + 1], Goto(p, "migrate")
      PROVE  OpenInv'
  <2>1. v \in Versions /\ v \in DOMAIN build[p]
    BY <1>5, LeastLeft DEF OpenInv, MigrationInv
  <2>2. pc' = pc
    BY <1>1, <1>5, <1>n DEF Goto
  <2>3. DOMAIN effect = Versions /\ DOMAIN recorded = Versions
    BY DEF OpenInv, MigrationInv, SchemaType
  <2>4. effect'[v] = <<build[p][v]>> /\ \A w \in Versions : w # v => effect'[w] = effect[w]
    BY <1>5, <2>1, <2>3
  <2>5. recorded'[v] = build[p][v] /\ \A w \in Versions : w # v => recorded'[w] = recorded[w]
    BY <1>5, <2>1, <2>3
  <2>6. Keeps
    BY <1>1, <1>5, <2>4 DEF Keeps
  <2>7. <<build[p][v]>> # <<>>
    OBVIOUS
  <2>8. Vouched(v, build[p][v])' /\ Vouched(v, recorded[v])'
    BY <1>1, <2>4, <2>5, <2>7 DEF Vouched
  <2>9. \A w \in Versions : recorded'[w] = recorded[w] \/ Vouched(w, recorded[w])'
    BY <2>5, <2>8
  <2> QED BY <1>0, <1>1, <1>5, <2>2, <2>6, <2>8, <2>9, TurnOpen
<1>6. CASE Left(p) # {} /\ Apply(p, Least(Left(p)))
  <2>1. CASE UNCHANGED <<schema, next>> /\ Goto(p, "off")
    BY <1>2, <2>1
  <2>2. PICK v : v = Least(Left(p))
    OBVIOUS
  <2>3. Apply(p, v)
    BY <1>6, <2>2
  <2> QED BY <1>5, <1>6, <2>1, <2>2, <2>3 DEF Apply
<1>7. CASE /\ Left(p) # {} /\ ~Refused(p, Least(Left(p))) /\ known[p][Least(Left(p))] # None
           /\ next' = [next EXCEPT ![p] = Least(Left(p)) + 1] /\ UNCHANGED <<schema, pc, top>>
  BY <1>4, <1>7
<1> QED BY <1>2, <1>3, <1>6, <1>7 DEF Migrate

LEMMA OpenInvNext == OpenInv /\ [Next]_vars => OpenInv'
<1> SUFFICES ASSUME OpenInv, [Next]_vars PROVE OpenInv'
  OBVIOUS
<1>0. MigrationInv'
  BY StepKeeps DEF OpenInv
<1>n. next \in [Procs -> Nat] /\ build \in [Procs -> Builds]
      /\ pc \in [Procs -> {"off", "count", "adopt", "read", "migrate"} \cup Migrated]
  BY DEF OpenInv, OpenType, MigrationInv, SchemaType
<1>1. ASSUME UNCHANGED <<schema, accepted, known, build, next, pc>> PROVE OpenInv'
  BY <1>0, <1>1 DEF OpenInv, OpenType, RowsVouched, LoopVouched, Vouched, schema
<1>2. CASE UNCHANGED vars
  BY <1>1, <1>2 DEF vars, locals, history
<1>3. CASE AcceptChecksum
  BY <1>3, AcceptOpen
<1>4. ASSUME NEW p \in Procs, Start(p) PROVE OpenInv'
  <2>1. UNCHANGED <<schema, accepted, known, next>> /\ Goto(p, "count")
    BY <1>4 DEF Start, history
  <2>2. \A q \in Procs : q # p => build'[q] = build[q]
    BY <1>4, <1>n DEF Start
  <2>3. "count" \notin Migrated
    BY DEF Migrated
  <2> QED BY <1>0, <1>n, <2>1, <2>2, <2>3, PlainStep
<1>5. ASSUME NEW p \in Procs, Edit(p) PROVE OpenInv'
  BY <1>1, <1>5 DEF Edit, locals, history
<1>6. ASSUME NEW p \in Procs, Crash(p) PROVE OpenInv'
  <2>1. UNCHANGED <<schema, accepted, known, next, build>> /\ Goto(p, "off") /\ "off" \notin Migrated
    BY <1>6 DEF Crash, locals, Migrated
  <2> QED BY <1>0, <1>n, <2>1, PlainStep
<1>7. ASSUME NEW p \in Procs, Count(p) PROVE OpenInv'
  <2>1. /\ UNCHANGED <<schema, accepted, known, build>> /\ next' = [next EXCEPT ![p] = 1]
        /\ Goto(p, "adopt") \/ Goto(p, "read")
        /\ "adopt" \notin Migrated /\ "read" \notin Migrated
    BY <1>7 DEF Count, history, Migrated
  <2>2. next' \in [Procs -> Nat] /\ \A q \in Procs : q # p => next'[q] = next[q]
    BY <1>n, <2>1
  <2>3. CASE Goto(p, "adopt")
    BY <1>0, <2>1, <2>2, <2>3, PlainStep
  <2>4. CASE Goto(p, "read")
    BY <1>0, <2>1, <2>2, <2>4, PlainStep
  <2> QED BY <2>1, <2>3, <2>4
<1>8. ASSUME NEW p \in Procs, pc[p] \in Migrated, NEW l \in {"off"} \cup Migrated, Goto(p, l),
             UNCHANGED <<schema, accepted, known, build, next>>
      PROVE  OpenInv'
  <2>1. l # "migrate" /\ (l \in {"off", "count", "adopt", "read", "migrate"} \cup Migrated)
    BY <1>8 DEF Migrated
  <2> QED BY <1>0, <1>n, <1>8, <2>1, PlainStep
<1>9. ASSUME NEW p \in Procs,
             BackfillContentRead(p) \/ BackfillEventsRead(p) \/ SeedRead(p)
             \/ BackfillContent(p) \/ BackfillEvents(p) \/ Seed(p)
      PROVE  OpenInv'
  <2>1. pc[p] \in Migrated /\ UNCHANGED <<schema, accepted, known, build, next>>
    BY <1>9 DEF BackfillContentRead, BackfillEventsRead, SeedRead, See, BackfillContent,
                BackfillEvents, Seed, locals, history, Migrated
  <2>2. \E l \in {"off"} \cup Migrated : Goto(p, l)
    BY <1>9 DEF BackfillContentRead, BackfillEventsRead, SeedRead, See, BackfillContent,
                BackfillEvents, Seed, Migrated
  <2> QED BY <1>8, <2>1, <2>2
<1> QED BY <1>2, <1>3, <1>4, <1>5, <1>6, <1>7, <1>9, AdoptOpen, ReadOpen, MigrateOpen
        DEF Next, OpenStep

LEMMA OpenInvInit == Init => OpenInv
<1> SUFFICES ASSUME Init PROVE OpenInv
  OBVIOUS
<1>1. MigrationInv
  BY InitSchema
<1>2. OpenType
  BY DEF Init, OpenType
<1>3. <<None>> # <<>>
  OBVIOUS
<1>4. RowsVouched
  BY <1>3 DEF Init, RowsVouched
<1>5. LoopVouched
  BY DEF Init, LoopVouched, Migrated
<1> QED BY <1>1, <1>2, <1>4, <1>5 DEF OpenInv

\* Whatever builds are deployed, race and crash, a process that has the database
\* open finds there every migration of its build, with its text unless somebody
\* vouched for another: the applied map that migrate works from may be stale, and
\* the transaction refuses what has changed since.
THEOREM OpensItsSchema == Spec => []OpensOwnSchema
<1>1. OpenInv => OpensOwnSchema
  BY DEF OpenInv, LoopVouched, OpensOwnSchema, Vouched, Migrated
<1> QED BY OpenInvInit, OpenInvNext, <1>1, PTL DEF Spec

=============================================================================
