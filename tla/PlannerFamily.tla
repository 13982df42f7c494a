---------------------------- MODULE PlannerFamily ----------------------------
(***************************************************************************)
(* Routines and the family page (planner/internal/store/routines.go,       *)
(* family.go, api/routines.go, api/family.go): streaks, weekly quests and  *)
(* milestones are computed from the records and pay drops, each key once;  *)
(* a plant fed with enough drops becomes a ticket; a ticket buys a wish.   *)
(*                                                                         *)
(* Opening the page, growing the next plant and buying a wish take several *)
(* statements, and requests of other members may come between them.  Days  *)
(* count from a Monday.  An entry of the diary is its date.  Quests that   *)
(* depend on cards, food and finances are there or not, and met or not, as *)
(* the environment says; the jar, the rewards in words, names and labels   *)
(* have no effect and are left out.                                        *)
(***************************************************************************)
EXTENDS Integers, FiniteSets, FiniteSetsExt, Sequences, SequencesExt

CONSTANTS
  Viewers,       \* requests in progress
  Schedules,     \* sets of weekdays a routine may have
  OtherQuests,   \* keys of quests of other parts, in the order of the pool
  DiaryGoal,     \* entries a week (3)
  Steps,         \* entries of the diary that make a milestone
  FullDrops,     \* drops of the last stage (250)
  Lookback,      \* days a streak is followed (400)
  FirstDay, MaxFamilyDay, MaxRoutines, MaxWishes, MaxFamilyChanges   \* bounds

VARIABLES
  today,
  routines,      \* id -> [days, created, active]
  checks,        \* <<routine, day>>
  written,       \* days with an entry
  others,        \* other quests there are: key -> met?
  drops,         \* key -> [amount, day, given]; given is history
  plants,        \* id -> [started, finished, fed]; fed is history
  wishes,        \* id -> the plant it was bought with, or 0
  req,           \* viewer -> what its request has read
  crossed,       \* history: two purchases overlapped
  overnight,     \* history: a plant was finished by a request of an earlier day
  familyChanges

familyVars == <<today, routines, checks, written, others, drops, plants, wishes, req, crossed, overnight,
                familyChanges>>

Resting == [pc |-> "idle", awards |-> {}, plant |-> 0, wish |-> 0, day |-> 0, fed |-> {}]

Seed(day) == [started |-> day, finished |-> FALSE, fed |-> {}]

\* The page is new, or one plant has been grown and there are two wishes.
FamilyInit ==
  /\ today = FirstDay
  /\ \E s \in Schedules : routines = <<[days |-> s, created |-> FirstDay, active |-> TRUE]>>
  /\ checks = {} /\ written = {} /\ others = [q \in {} |-> FALSE]
  /\ LET before == FirstDay - 1
         old == <<"milestone", before, 0>>
     IN \/ drops = [k \in {} |-> 0] /\ plants = <<>> /\ wishes = <<>>
        \/ /\ drops = [k \in {old} |-> [amount |-> FullDrops, day |-> before, given |-> before]]
           /\ plants = <<[started |-> before, finished |-> TRUE, fed |-> {old}], Seed(FirstDay)>>
           /\ wishes = <<0, 0>>
  /\ req = [v \in Viewers |-> Resting] /\ crossed = FALSE /\ overnight = FALSE
  /\ familyChanges = 0

FamilyChanged == familyChanges < MaxFamilyChanges /\ familyChanges' = familyChanges + 1
FamilyId(f) == IF DOMAIN f = {} THEN 1 ELSE Max(DOMAIN f) + 1
Put(f, k, v) == [x \in DOMAIN f \cup {k} |-> IF x = k THEN v ELSE f[x]]
Drop(f, k) == [x \in DOMAIN f \ {k} |-> f[x]]

Days == FirstDay..MaxFamilyDay
records == <<today, routines, checks, written, others>>
ledger == <<drops, plants, wishes, req, crossed, overnight>>

-----------------------------------------------------------------------------
(***************************************************************************)
(* Routines and other records.                                             *)
(***************************************************************************)

CreateRoutine(s) ==
  /\ FamilyChanged /\ FamilyId(routines) <= MaxRoutines
  /\ routines' = Put(routines, FamilyId(routines), [days |-> s, created |-> today, active |-> TRUE])
  /\ UNCHANGED <<today, checks, written, others, ledger>>

UpdateRoutine(r, s, active) ==
  /\ FamilyChanged /\ routines[r] # [routines[r] EXCEPT !.days = s, !.active = active]
  /\ routines' = [routines EXCEPT ![r].days = s, ![r].active = active]
  /\ UNCHANGED <<today, checks, written, others, ledger>>

\* The checks go with the routine.
DeleteRoutine(r) ==
  /\ FamilyChanged
  /\ routines' = Drop(routines, r)
  /\ checks' = {c \in checks : c[1] # r}
  /\ UNCHANGED <<today, written, others, ledger>>

SetRoutineCheck(r, d) ==
  /\ FamilyChanged /\ <<r, d>> \notin checks
  /\ checks' = checks \cup {<<r, d>>}
  /\ UNCHANGED <<today, routines, written, others, ledger>>

ClearRoutineCheck(r, d) ==
  /\ FamilyChanged /\ <<r, d>> \in checks
  /\ checks' = checks \ {<<r, d>>}
  /\ UNCHANGED <<today, routines, written, others, ledger>>

WriteEntry(d) ==
  /\ FamilyChanged /\ d \notin written /\ written' = written \cup {d}
  /\ UNCHANGED <<today, routines, checks, others, ledger>>

RemoveEntry(d) ==
  /\ FamilyChanged /\ d \in written /\ written' = written \ {d}
  /\ UNCHANGED <<today, routines, checks, others, ledger>>

\* Cards, meals and files come and go; a week begins with nothing met.
OtherRecords(q) ==
  /\ FamilyChanged
  /\ \/ others' = Put(others, q, FALSE)
     \/ others' = Put(others, q, TRUE)
     \/ others' = Drop(others, q)
  /\ others' # others
  /\ UNCHANGED <<today, routines, checks, written, ledger>>

mondayOf(d) == d - (d % 7)

NextFamilyDay ==
  /\ today < MaxFamilyDay
  /\ today' = today + 1
  /\ others' = IF mondayOf(today') = mondayOf(today) THEN others ELSE [q \in DOMAIN others |-> FALSE]
  /\ UNCHANGED <<routines, checks, written, ledger, familyChanges>>

-----------------------------------------------------------------------------
(***************************************************************************)
(* What the records amount to.                                             *)
(***************************************************************************)

scheduled(d) ==
  {r \in DOMAIN routines : routines[r].active /\ d % 7 \in routines[r].days /\ routines[r].created <= d}

\* The streaks there are, the days they apply to and the days kept.
Streaks == {"diary"} \cup {s \in {"routines"} : \E r \in DOMAIN routines : routines[r].active}
applies(s, d) == s = "diary" \/ scheduled(d) # {}
done(s, d) == IF s = "diary" THEN d \in written ELSE \A r \in scheduled(d) : <<r, d>> \in checks

\* Mutant of streakOf: a day that is not over yet breaks the streak.
streakOfToday(s) ==
  LET run[i \in 0..Lookback] ==
        IF i = Lookback THEN 0
        ELSE LET d == today - i IN
             IF ~applies(s, d) THEN run[i + 1] ELSE IF done(s, d) THEN 1 + run[i + 1] ELSE 0
  IN run[0]

\* Days kept in a row up to today, or up to yesterday while today is open.
\* Days it does not apply to are skipped.
streakOf(s) ==
  LET first == IF applies(s, today) /\ done(s, today) THEN today ELSE today - 1
      run[i \in 0..Lookback] ==
        IF i = Lookback THEN 0
        ELSE LET d == first - i IN
             IF ~applies(s, d) THEN run[i + 1] ELSE IF done(s, d) THEN 1 + run[i + 1] ELSE 0
  IN run[0]

ThisWeek == mondayOf(today)..(mondayOf(today) + 6)

\* Four of five of the week's routines, rounded up.
RoutinesMet ==
  LET due == {x \in (DOMAIN routines) \X ThisWeek : x[1] \in scheduled(x[2])}
      goal == (Cardinality(due) * 8 + 9) \div 10
  IN Cardinality(due \cap checks) >= (IF goal > 1 THEN goal ELSE 1)

\* The quests there are this week, in order.
Pool ==
  (IF "routines" \in Streaks THEN <<"routines">> ELSE <<>>)
    \o <<"diary">> \o SelectSeq(OtherQuests, LAMBDA q : q \in DOMAIN others)

Met(q) ==
  CASE q = "routines" -> RoutinesMet
    [] q = "diary"    -> Cardinality(written \cap ThisWeek) >= DiaryGoal
    [] OTHER          -> others[q]

\* Three quests, picked by the number of the week; when the pick repeats
\* one, the first others of the pool make up for it (dedupQuests).
Quests ==
  LET pool == Pool
      n == IF Len(pool) < 3 THEN Len(pool) ELSE 3
      week == today \div 7
      picked == {pool[((week + 2 * i) % Len(pool)) + 1] : i \in 0..(n - 1)}
      rest == SelectSeq(pool, LAMBDA q : q \notin picked)
  IN picked \cup ToSet(SubSeq(rest, 1, n - Cardinality(picked)))

\* The day of the n-th entry, once there is one.
nthDay(n) == {d \in written : Cardinality({e \in written : e <= d}) = n}

\* What a plant of that day on is owed: a drop for every day of a streak,
\* three for a quest, five for all of the week's, five for a milestone.
AwardsSince(started) ==
  LET kept == {x \in Streaks \X (started..today) : applies(x[1], x[2]) /\ done(x[1], x[2])}
      met == {q \in Quests : Met(q)}
      reached == {x \in Steps \X written : x[2] \in nthDay(x[1]) /\ x[2] >= started}
  IN {<<<<"streak", x[1], x[2]>>, [amount |-> 1, day |-> x[2]]>> : x \in kept}
     \cup {<<<<"quest", mondayOf(today), q>>, [amount |-> 3, day |-> today]>> : q \in met}
     \cup {<<<<"quests", mondayOf(today), w>>, [amount |-> 5, day |-> today]>> : w \in {x \in {"all"} : met = Quests}}
     \cup {<<<<"milestone", 0, x[1]>>, [amount |-> 5, day |-> x[2]]>> : x \in reached}

-----------------------------------------------------------------------------
(***************************************************************************)
(* The plant.                                                              *)
(***************************************************************************)

Growing == {p \in DOMAIN plants : ~plants[p].finished}
familyPlant == Max(Growing)
Fed(p) == {k \in DOMAIN drops : drops[k].day >= plants[p].started}
Ready(p) == MapThenSumSet(LAMBDA k : drops[k].amount, Fed(p)) >= FullDrops

\* GET /api/family reads the records; the first one ever also sows.
FamilyRead(v) ==
  /\ FamilyChanged /\ req[v].pc = "idle"
  /\ plants' = IF Growing = {} THEN Put(plants, FamilyId(plants), Seed(today)) ELSE plants
  /\ req' = [req EXCEPT ![v] =
       [Resting EXCEPT !.pc = "award", !.awards = AwardsSince(IF Growing = {} THEN today ELSE plants[familyPlant].started)]]
  /\ UNCHANGED <<records, drops, wishes, crossed, overnight>>

\* INSERT OR IGNORE: a key pays once.
FamilyAward(v) ==
  LET new == {a \in req[v].awards : a[1] \notin DOMAIN drops}
      row(k) == (CHOOSE a \in new : a[1] = k)[2]
  IN /\ req[v].pc = "award"
     /\ drops' = [k \in DOMAIN drops \cup {a[1] : a \in new} |->
          IF k \in DOMAIN drops THEN drops[k] ELSE [amount |-> row(k).amount, day |-> row(k).day, given |-> today]]
     /\ req' = [req EXCEPT ![v] = Resting]
     /\ UNCHANGED <<records, plants, wishes, crossed, overnight, familyChanges>>

\* PUT /api/family/plant-name, or asking too early for the next plant, may be
\* the first to sow (familyPlant); the name has no effect.
FamilyRenamePlant ==
  /\ FamilyChanged /\ Growing = {}
  /\ plants' = Put(plants, FamilyId(plants), Seed(today))
  /\ UNCHANGED <<records, drops, wishes, req, crossed, overnight>>

\* POST /api/family/grow-next: the plant must be full-grown ...
GrowRead(v) ==
  /\ FamilyChanged /\ req[v].pc = "idle" /\ Growing # {} /\ Ready(familyPlant)
  /\ req' = [req EXCEPT ![v] =
       [Resting EXCEPT !.pc = "grow", !.plant = familyPlant, !.day = today, !.fed = Fed(familyPlant)]]
  /\ UNCHANGED <<records, drops, plants, wishes, crossed, overnight>>

\* Mutant of NextSeed: the new seed counts from that day itself.
SeedToday(asked) == Seed(asked)

\* The new seed counts from the day after the request came.
NextSeed(asked) == Seed(asked + 1)

\* ... and is finished, with a new seed, in one transaction.
FamilyGrowNext(v) ==
  /\ req[v].pc = "grow"
  /\ plants' = Put([plants EXCEPT ![req[v].plant].finished = TRUE, ![req[v].plant].fed = @ \cup req[v].fed],
                   FamilyId(plants), NextSeed(req[v].day))
  /\ req' = [req EXCEPT ![v] = Resting] /\ overnight' = (overnight \/ req[v].day # today)
  /\ UNCHANGED <<records, drops, wishes, crossed, familyChanges>>

-----------------------------------------------------------------------------
(***************************************************************************)
(* Wishes.                                                                 *)
(***************************************************************************)

SaveWish ==
  /\ FamilyChanged /\ FamilyId(wishes) <= MaxWishes
  /\ wishes' = Put(wishes, FamilyId(wishes), 0)
  /\ UNCHANGED <<records, drops, plants, req, crossed, overnight>>

\* A wish that was bought gives its ticket back.
DeleteWish(w) ==
  /\ FamilyChanged
  /\ wishes' = Drop(wishes, w)
  /\ UNCHANGED <<records, drops, plants, req, crossed, overnight>>

\* Mutant of Tickets: tickets already used are not left out.
GrownPlants == {p \in DOMAIN plants : plants[p].finished}

\* Grown plants no wish was bought with.
Tickets == {p \in DOMAIN plants : plants[p].finished} \ {wishes[w] : w \in DOMAIN wishes}

\* POST /api/family/wishes/{id}/buy: the first ticket left is picked ...
BuyRead(v, w) ==
  /\ FamilyChanged /\ req[v].pc = "idle" /\ wishes[w] = 0 /\ Tickets # {}
  /\ req' = [req EXCEPT ![v] = [Resting EXCEPT !.pc = "buy", !.plant = Min(Tickets), !.wish = w]]
  /\ crossed' = (crossed \/ \E u \in Viewers : req[u].pc = "buy")
  /\ UNCHANGED <<records, drops, plants, wishes, overnight>>

\* ... and written to the wish, if there still is one.
FamilyBuyWish(v) ==
  /\ req[v].pc = "buy"
  /\ wishes' = [w \in DOMAIN wishes |-> IF w = req[v].wish THEN req[v].plant ELSE wishes[w]]
  /\ req' = [req EXCEPT ![v] = Resting]
  /\ UNCHANGED <<records, drops, plants, crossed, overnight, familyChanges>>

FamilyNext ==
  \/ \E s \in Schedules : CreateRoutine(s)
  \/ \E r \in DOMAIN routines : DeleteRoutine(r) \/ \E s \in Schedules, a \in BOOLEAN : UpdateRoutine(r, s, a)
  \/ \E r \in DOMAIN routines, d \in Days : SetRoutineCheck(r, d) \/ ClearRoutineCheck(r, d)
  \/ \E d \in Days : WriteEntry(d) \/ RemoveEntry(d)
  \/ \E q \in ToSet(OtherQuests) : OtherRecords(q)
  \/ NextFamilyDay
  \/ \E v \in Viewers : FamilyRead(v) \/ FamilyAward(v) \/ GrowRead(v) \/ FamilyGrowNext(v)
  \/ SaveWish \/ FamilyRenamePlant
  \/ \E w \in DOMAIN wishes : DeleteWish(w) \/ \E v \in Viewers : BuyRead(v, w)
  \/ \E v \in Viewers : FamilyBuyWish(v)

-----------------------------------------------------------------------------
(***************************************************************************)
(* Properties.                                                             *)
(***************************************************************************)

\* No drop makes two plants grow, however the page, the growing and the
\* midnight interleave (FamilyGrowNext counts the new seed from tomorrow).
\* Drops of entries dated in the future are the exception, and so is a request
\* to grow that is still under way on the next day: if another has finished the
\* same plant meanwhile, its seed counts days that were the other one's.
DropsFeedOnce ==
  ~overnight => \A p, q \in DOMAIN plants : p # q =>
    \A k \in plants[p].fed \cap plants[q].fed : drops[k].day > drops[k].given

\* A grown plant buys one wish (FamilyBuyWish), unless two purchases
\* overlapped: nothing then keeps them from picking the same plant.
TicketOnce ==
  ~crossed => \A v, w \in DOMAIN wishes : v # w /\ wishes[v] # 0 => wishes[v] # wishes[w]

\* Midnight breaks a streak only if the day that ends applied and was missed,
\* and never lengthens one (streakOf).
StreakSurvivesNight ==
  [][NextFamilyDay => \A s \in Streaks :
       streakOf(s)' = IF applies(s, today) /\ ~done(s, today)
                        THEN IF applies(s, today') /\ done(s, today') THEN 1 ELSE 0
                        ELSE IF applies(s, today') /\ done(s, today') THEN streakOf(s) + 1 ELSE streakOf(s)]_familyVars
====
