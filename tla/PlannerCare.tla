----------------------------- MODULE PlannerCare -----------------------------
(***************************************************************************)
(* Care records (planner/internal/store/care.go, api/care.go and           *)
(* cmd/planner/carecmd.go): feeding, sleep and so on, written by hand or   *)
(* imported from another program, and their links to the meals of the plan *)
(* (relink-solids).                                                        *)
(*                                                                         *)
(* Adding or changing a record writes the row first and its foods and meal *)
(* in a transaction of their own, which may fail.  The import reads the    *)
(* records written by hand before its transaction.  relink-solids changes  *)
(* one record after another from what it read at the start.  All of this   *)
(* goes on beside the server's requests.  One day is modelled; amounts,    *)
(* details, notes and sums have no effect and are left out.                *)
(***************************************************************************)
EXTENDS Integers, FiniteSets, FiniteSetsExt, Sequences, SequencesExt

CONSTANTS
  Words,        \* names of foods in records, some of them not the plan's
  Rename,       \* solidsRename: word -> the plan's names for it
  Rice, OatRice,
  DayMeals,     \* meals of the day when it is planned: id -> foods
  Export,       \* the records of an export: sequence of [kind, at]
  Times, MaxLogs, MaxCareChanges   \* bounds

VARIABLES
  logs,         \* id -> [kind, at, foods, meal, source]
  meals,        \* id -> foods
  adding,       \* the POST or PATCH between its two writes: [id, foods, meal]
  relink,       \* relink-solids: [pc, todo, taken, plan]
  linked,       \* history: record -> meal linked by the last relink-solids
  importing,    \* the import: [pc, known], the records by hand it has read
  careChanges

careVars == <<logs, meals, adding, relink, linked, importing, careChanges>>

NoMeal == 0
ByHand == <<>>
NotImporting == [pc |-> "idle", known |-> {}]
NoChange == [id |-> 0, foods |-> {}, meal |-> NoMeal]
NoRun == [pc |-> "idle", todo |-> <<>>, taken |-> {}, plan |-> <<>>]

CareInit ==
  /\ logs = [i \in 1..2 |-> [kind |-> "solids", at |-> i, foods |-> {CHOOSE w \in Words : w \notin DOMAIN Rename},
                             meal |-> NoMeal, source |-> ByHand]]
  /\ meals = DayMeals
  /\ adding = NoChange /\ relink = NoRun /\ linked = <<>> /\ importing = NotImporting
  /\ careChanges = 0

CareChanged == careChanges < MaxCareChanges /\ careChanges' = careChanges + 1
CareId == IF DOMAIN logs = {} THEN 1 ELSE Max(DOMAIN logs) + 1
SetLog(i, l) == [x \in DOMAIN logs \cup {i} |-> IF x = i THEN l ELSE logs[x]]

-----------------------------------------------------------------------------
(***************************************************************************)
(* By hand.                                                                *)
(***************************************************************************)

\* POST /api/care: the row ...
CareAdd(kind, at, foods, meal) ==
  /\ CareChanged /\ adding = NoChange /\ CareId <= MaxLogs
  /\ logs' = SetLog(CareId, [kind |-> kind, at |-> at, foods |-> {}, meal |-> NoMeal, source |-> ByHand])
  /\ adding' = IF kind = "solids" THEN [id |-> CareId, foods |-> foods, meal |-> meal] ELSE NoChange
  /\ UNCHANGED <<meals, relink, linked, importing>>

\* PATCH /api/care/{id}: likewise; the kind stays.
CareUpdate(i, at, foods, meal) ==
  /\ CareChanged /\ adding = NoChange
  /\ logs' = [logs EXCEPT ![i].at = at]
  /\ adding' = IF logs[i].kind = "solids" THEN [id |-> i, foods |-> foods, meal |-> meal] ELSE NoChange
  /\ UNCHANGED <<meals, relink, linked, importing>>

\* Mutant of MealThere: the meal is not looked up.
AnyMeal(m) == TRUE

\* careCheckMeal.
MealThere(m) == m \in DOMAIN meals

\* ... then the foods and the meal: all of it, or nothing when the meal or
\* the record is gone.  The record stays either way.
careApplySolids ==
  LET i == adding.id IN
  /\ adding # NoChange
  /\ logs' = IF i \in DOMAIN logs /\ (adding.meal = NoMeal \/ MealThere(adding.meal))
               THEN [logs EXCEPT ![i].foods = adding.foods, ![i].meal = adding.meal]
               ELSE logs
  /\ linked' = [x \in DOMAIN linked \ {i} |-> linked[x]]
  /\ adding' = NoChange
  /\ UNCHANGED <<meals, relink, importing, careChanges>>

CareDelete(i) ==
  /\ CareChanged
  /\ logs' = [x \in DOMAIN logs \ {i} |-> logs[x]]
  /\ linked' = [x \in DOMAIN linked \ {i} |-> linked[x]]
  /\ UNCHANGED <<meals, adding, relink, importing>>

\* The plan is imported again with --replace: the meals get other ids and
\* records lose their links (ON DELETE SET NULL).
Replan(m, new) ==
  /\ CareChanged /\ m \in DOMAIN meals /\ new \notin DOMAIN meals
  /\ meals' = [x \in (DOMAIN meals \ {m}) \cup {new} |-> IF x = new THEN meals[m] ELSE meals[x]]
  /\ logs' = [i \in DOMAIN logs |-> IF logs[i].meal = m THEN [logs[i] EXCEPT !.meal = NoMeal] ELSE logs[i]]
  /\ linked' = [x \in {y \in DOMAIN linked : linked[y] # m} |-> linked[x]]
  /\ UNCHANGED <<adding, relink, importing>>

-----------------------------------------------------------------------------
(***************************************************************************)
(* planner care import.                                                    *)
(***************************************************************************)

\* The same kind at the same time gets a number of its own.
SourceOfRecord(i) ==
  <<Export[i].kind, Export[i].at, Cardinality({j \in 1..i : Export[j] = Export[i]})>>

ImportRead ==
  /\ CareChanged /\ importing.pc = "idle"
  /\ importing' = [pc |-> "read", known |->
       {[kind |-> logs[i].kind, at |-> logs[i].at] : i \in {j \in DOMAIN logs : logs[j].source = ByHand}}]
  /\ UNCHANGED <<logs, meals, adding, relink, linked>>

\* Mutant of Known: records by hand are all there is to know.
KnownByHand(i) == Export[i] \in importing.known

\* Already imported, or written by hand when the import began.
Known(i) == Export[i] \in importing.known \/ SourceOfRecord(i) \in {logs[x].source : x \in DOMAIN logs}

\* The others are stored in the order of the export.
CareImport ==
  LET new == {i \in DOMAIN Export : ~Known(i)}
      id(i) == CareId - 1 + Cardinality({j \in new : j <= i})
      row(i) == [kind |-> Export[i].kind, at |-> Export[i].at, foods |-> {}, meal |-> NoMeal, source |-> SourceOfRecord(i)]
  IN /\ importing.pc = "read"
     /\ logs' = [x \in DOMAIN logs \cup {id(i) : i \in new} |->
          IF x \in DOMAIN logs THEN logs[x] ELSE row(CHOOSE i \in new : id(i) = x)]
     /\ importing' = NotImporting
     /\ UNCHANGED <<meals, adding, relink, linked, careChanges>>

-----------------------------------------------------------------------------
(***************************************************************************)
(* planner care relink-solids.                                             *)
(***************************************************************************)

\* The plan's names; rice that comes from porridge goes when oat rice is there.
PlanNames(foods) ==
  LET names == UNION {IF w \in DOMAIN Rename THEN Rename[w] ELSE {w} : w \in foods}
  IN IF {Rice, OatRice} \subseteq names THEN names \ {Rice} ELSE names

\* The records of the day are read, latest first, and so are its meals.
RelinkRead ==
  /\ CareChanged /\ relink.pc = "idle"
  /\ LET mine == {i \in DOMAIN logs : logs[i].kind = "solids"}
         order == SetToSortSeq(mine, LAMBDA i, j : logs[i].at > logs[j].at \/ (logs[i].at = logs[j].at /\ i > j))
     IN relink' = [pc |-> "run", todo |-> [k \in DOMAIN order |-> <<order[k], PlanNames(logs[order[k]].foods)>>],
                   taken |-> {}, plan |-> meals]
  /\ linked' = <<>>
  /\ UNCHANGED <<logs, meals, adding, importing>>

\* Mutant of Candidates: a meal may be given twice.
AllMeals == DOMAIN relink.plan

\* Meals no record of this run has been linked to.
Candidates == DOMAIN relink.plan \ relink.taken

\* The meal with most foods in common, the first of equals; none if nothing
\* is in common.
Best(names) ==
  LET common(m) == Cardinality(relink.plan[m] \cap names)
      some == {m \in Candidates : common(m) > 0}
      most == {m \in some : \A n \in some : common(n) <= common(m)}
  IN IF some = {} THEN NoMeal ELSE Min(most)

\* One CareUpdate; a record or a meal that is gone ends the command, and a record
\* that now is of another kind is left as it is.
RelinkOne ==
  LET i == Head(relink.todo)[1]
      names == Head(relink.todo)[2]
      m == Best(names)
  IN /\ relink.pc = "run" /\ relink.todo # <<>>
     /\ \/ /\ (i \in DOMAIN logs => logs[i].kind = "solids" /\ m # NoMeal /\ ~MealThere(m))
           /\ relink' = NoRun /\ UNCHANGED <<logs, linked>>
        \/ /\ i \in DOMAIN logs /\ (logs[i].kind = "solids" => m = NoMeal \/ MealThere(m))
           /\ relink' = [relink EXCEPT !.todo = Tail(@), !.taken = @ \cup ({m} \ {NoMeal})]
           /\ IF logs[i].kind # "solids" THEN UNCHANGED <<logs, linked>>
              ELSE /\ logs' = [logs EXCEPT ![i].foods = names, ![i].meal = IF m = NoMeal THEN @ ELSE m]
                   /\ linked' = IF m = NoMeal THEN linked
                                ELSE [x \in DOMAIN linked \cup {i} |-> IF x = i THEN m ELSE linked[x]]
     /\ UNCHANGED <<meals, adding, importing, careChanges>>

RelinkEnd ==
  /\ relink.pc = "run" /\ relink.todo = <<>> /\ relink' = NoRun
  /\ UNCHANGED <<logs, meals, adding, linked, importing, careChanges>>

MealIds == 1..(2 * Cardinality(DOMAIN DayMeals))

CareNext ==
  \/ \E k \in {"solids", "sleep"}, t \in Times, w \in Words, m \in {NoMeal} \cup DOMAIN meals : CareAdd(k, t, {w}, m)
  \/ \E i \in DOMAIN logs, t \in Times, w \in Words, m \in {NoMeal} \cup DOMAIN meals : CareUpdate(i, t, {w}, m)
  \/ careApplySolids
  \/ \E i \in DOMAIN logs : CareDelete(i)
  \/ \E m, new \in MealIds : Replan(m, new)
  \/ ImportRead \/ CareImport
  \/ RelinkRead \/ RelinkOne \/ RelinkEnd

-----------------------------------------------------------------------------
(***************************************************************************)
(* Properties.                                                             *)
(***************************************************************************)

\* A record that says which meal it was points to a meal there is, even if
\* the plan is replaced between the two writes of the record or in the middle
\* of relink-solids (careCheckMeal runs in the writing transaction).
LinksLive == \A i \in DOMAIN logs : logs[i].meal # NoMeal => logs[i].meal \in DOMAIN meals

\* relink-solids links no two records to one meal, whatever is edited while
\* it goes from record to record (cmdCareRelinkSolids).
RelinkDistinct == \A i, j \in DOMAIN linked : i # j => linked[i] # linked[j]

\* However often the import runs, and whatever is written meanwhile, no
\* record of the export is stored twice under its source (CareImport).
ImportOnce == \A i, j \in DOMAIN logs : i # j /\ logs[i].source # ByHand => logs[i].source # logs[j].source
====
