--------------------------- MODULE MCPlannerStore ---------------------------
(***************************************************************************)
(* What the areas of the planner keep in its database, in one run.  They   *)
(* use tables of their own, so it is enough to check each by itself:       *)
(* `part' says which one moves.                                            *)
(***************************************************************************)
EXTENDS Integers, FiniteSets, Sequences, TLC

CONSTANTS
  Periods, Until, ArchiveAfter, MaxBoards, MaxColumns, MaxCards, MaxDay, MaxChanges,
  FirstYear, LastYear, MaxLength,
  Pictures, Uploads, DiaryExports, Quota, PageSize, Dates, MaxEntries, MaxDiaryChanges,
  Viewers, DiaryGoal, Steps, FullDrops, Lookback, FirstDay, MaxFamilyDay, MaxRoutines, MaxWishes,
  MaxFamilyChanges,
  Foods, FoodPlans, Editors, Horizon, MaxFoodDay, MaxQty, MaxFoodChanges,
  Words, Times, MaxLogs, MaxCareChanges,
  People, FinContents, FinExports, FinUses, FinLabels, ThisMonth, MonthLength, Clients, Items, TagIds,
  MaxWallets, MaxUses, MaxFinChanges,
  MaxBook

VARIABLES
  part,
  day, boards, columns, cards, paid, serials, onTime, rewards, reused, changes,
  rule, due, end,
  entries, onCards, files, tmp, media, up, putting, sem, del, exposed, reader, diaryChanges,
  today, routines, checks, written, others, drops, plants, wishes, req, crossed, overnight, familyChanges,
  dday, evening, child, plan, newItem, ingredients, batches, tags, freezer, amended, edit, foodChanges,
  logs, meals, adding, relink, linked, importing, careChanges,
  tx, fixed, income, notSpend, labels, finTags, links, txTags, migration, wallets, uses, asking,
  dropping, untouched, imported, finNow, finChanges,
  book    \* transfers between accounts, in the order of time

boardVars == <<day, boards, columns, cards, paid, serials, onTime, rewards, reused, changes>>
recurVars == <<rule, due, end>>
diaryVars == <<entries, onCards, files, tmp, media, up, putting, sem, del, exposed, reader, diaryChanges>>
familyVars == <<today, routines, checks, written, others, drops, plants, wishes, req, crossed, overnight, familyChanges>>
foodVars == <<dday, evening, child, plan, newItem, ingredients, batches, tags, freezer, amended, edit, foodChanges>>
careVars == <<logs, meals, adding, relink, linked, importing, careChanges>>
finVars == <<tx, fixed, income, notSpend, labels, finTags, links, txTags, migration, wallets, uses, asking,
             dropping, untouched, imported, finNow, finChanges>>
allVars == <<part, boardVars, recurVars, diaryVars, familyVars, foodVars, careVars, finVars, book>>

-----------------------------------------------------------------------------
(***************************************************************************)
(* The data of the instance.                                               *)
(***************************************************************************)

SomeRules ==
  {[kind |-> "daily"], [kind |-> "every", n |-> 14], [kind |-> "weekly", days |-> {0, 6}],
   [kind |-> "monthly", day |-> 31], [kind |-> "yearly", month |-> 2, day |-> 29]}

\* Two posts of one day, only the second of which has a picture.
TwoPosts ==
  {<<[post |-> 1, day |-> 1, n |-> 0, pic |-> "nopic"], [post |-> 2, day |-> 1, n |-> 1, pic |-> "p"]>>}

\* A plan with one meal a day; words of care records and the plan's names.
RicePlans == {[d \in 1..MaxFoodDay |-> <<[base |-> "rice", toppings |-> <<"beef">>]>>]}
SolidsRename == [pap |-> {"rice"}, oatpap |-> {"oat"}]
MealsOfDay == <<{"rice", "beef"}, {"rice", "oat"}>>
CareExport == <<[kind |-> "sleep", at |-> 1], [kind |-> "sleep", at |-> 1]>>

Content(k, facts, brand) == [key |-> k, facts |-> facts, brand |-> brand]
SomeContents ==
  [pay |-> Content("pay", {}, ""), pay2 |-> Content("pay", {"own"}, ""), rent |-> Content("rent", {}, ""),
   shop |-> Content("shop", {}, ""), card |-> Content("card", {"bill"}, "cardco"),
   topup |-> Content("topup", {"wallet"}, ""), fund |-> Content("fund", {"save"}, "")]
Row(m, t, type, what, cat, a, method) ==
  [at |-> m * 1000 + t, type |-> type, content |-> what, cat |-> cat, amount |-> a, method |-> method]

\* Overlapping exports of one person and one of another: regular pay and rent,
\* two equal purchases, a refund, a card bill, charges of the wallet, savings.
FirstExport ==
  <<Row(17, 1, "move", "pay", "", 400000, ""), Row(18, 1, "move", "pay", "", 400000, ""),
    Row(19, 1, "move", "pay2", "", 500000, ""),
    Row(17, 2, "out", "rent", "home", -300000, ""), Row(18, 2, "out", "rent", "home", -390000, ""),
    Row(19, 2, "out", "rent", "home", -300000, ""),
    Row(19, 5, "out", "shop", "food", -150000, "cardco"), Row(19, 5, "out", "shop", "food", -150000, "cardco"),
    Row(19, 6, "out", "shop", "food", 20000, "cardco"), Row(19, 7, "out", "shop", "food", -150000, ""),
    Row(19, 8, "move", "card", "", -150000, ""), Row(19, 9, "move", "topup", "", -50000, "")>>
SecondExport ==
  <<Row(18, 5, "out", "shop", "food", -40000, "cardco"), Row(19, 5, "out", "shop", "food", -150000, "cardco"),
    Row(19, 9, "move", "topup", "", -50000, ""), Row(20, 1, "move", "topup", "", -50000, ""),
    Row(20, 2, "move", "fund", "", -100000, "")>>
OtherExport ==
  <<Row(19, 12, "move", "topup", "", 50000, "savings"), Row(20, 4, "out", "shop", "food", -30000, "")>>
SomeExports ==
  {e \in {[owner |-> "a", rows |-> FirstExport], [owner |-> "a", rows |-> SecondExport],
          [owner |-> "b", rows |-> OtherExport]} : e.owner \in People /\ "b" \in People}
SomeUses == {[at |-> 19005, content |-> "shop", amount |-> 20000], [at |-> 20003, content |-> "shop", amount |-> 120000]}
SomeLabels ==
  {[label |-> "", cat |-> ""], [label |-> "pay", cat |-> ""], [label |-> "", cat |-> "home"],
   [label |-> "fund", cat |-> "food"]}

-----------------------------------------------------------------------------

Boards == INSTANCE PlannerBoards
Recur == INSTANCE PlannerRecur WITH Rules <- SomeRules
Diary == INSTANCE PlannerDiary WITH Exports <- DiaryExports
Family == INSTANCE PlannerFamily WITH Schedules <- {{5, 6, 0}}, OtherQuests <- <<"tasks", "food">>
Food == INSTANCE PlannerFood WITH Plans <- FoodPlans
Care == INSTANCE PlannerCare WITH
  Rename <- SolidsRename, Rice <- "rice", OatRice <- "oat", DayMeals <- MealsOfDay, Export <- CareExport
Finance == INSTANCE PlannerFinance WITH
  Contents <- FinContents, Exports <- FinExports, LabelChoices <- FinLabels, Uses <- FinUses

ASSUME DaysAssumption == {FirstDay, MaxFamilyDay} \subseteq Nat

\* Plans name days of life and, for each, meals of known foods.
ASSUME FoodAssumption ==
  /\ IsFiniteSet(Foods)
  /\ \A x \in FoodPlans :
       /\ DOMAIN x \subseteq Nat /\ IsFiniteSet(DOMAIN x)
       /\ \A d \in DOMAIN x : x[d] \in Seq([base : Foods, toppings : Seq(Foods)])

\* An export names each of its posts, and two exports give a post the same
\* place in the diary.
ASSUME ExportsAssumption ==
  /\ \A x \in DiaryExports :
       /\ x \in Seq([post : Nat \ {0}, day : Nat, n : Nat, pic : Pictures \cup {"nopic"}])
       /\ \A i, j \in DOMAIN x : x[i].post = x[j].post => i = j
  /\ \A x, y \in {e \in DiaryExports : Diary!Numbered(e)} :
       x # y => \A i \in DOMAIN x, j \in DOMAIN y :
                  x[i].post = y[j].post <=> Diary!SourceOf(x, i) = Diary!SourceOf(y, j)

\* Exports are of transactions, of what there is to pay for.
ASSUME FinanceAssumption ==
  /\ \A e \in FinExports :
       /\ e = [owner |-> e.owner, rows |-> e.rows]
       /\ e.rows \in Seq([at : Int, type : {"in", "out", "move"}, content : DOMAIN FinContents,
                          cat : STRING, amount : Int, method : STRING])
  /\ \A u \in FinUses : u.at \in Int /\ u.content \in DOMAIN FinContents /\ u.amount \in Int

ASSUME PagesAssumption == Dates # {} /\ Dates \subseteq Nat /\ PageSize \in Nat

\* A part that does not move is in one initial state.
MCInit ==
  /\ part \in {"boards", "recur", "diary", "family", "food", "care", "finance", "book"}
  /\ Boards!Init /\ Diary!DiaryInit /\ Family!FamilyInit /\ Food!FoodInit /\ Care!CareInit
  /\ Finance!FinanceInit /\ book = {}
  /\ part = "family" \/ plants = <<>>
  /\ IF part = "recur" THEN Recur!Init
     ELSE rule = [kind |-> "daily"] /\ due = [y |-> FirstYear, m |-> 1, d |-> 1] /\ end = due

\* Another transfer, out or in, a few minutes later.
Transfer ==
  /\ Cardinality(book) < MaxBook
  /\ LET last == IF book = {} THEN 0 ELSE (CHOOSE r \in book : r.pos = Cardinality(book)).at
     IN \E a \in {-1, 1}, after \in {0, 6, 11} :
          book' = book \cup {[pos |-> Cardinality(book) + 1, type |-> "move", amount |-> a, at |-> last + after]}

MCNext ==
  /\ IF part = "boards" THEN Boards!Next ELSE UNCHANGED boardVars
  /\ IF part = "recur" THEN Recur!Next ELSE UNCHANGED recurVars
  /\ IF part = "diary" THEN Diary!DiaryNext ELSE UNCHANGED diaryVars
  /\ IF part = "family" THEN Family!FamilyNext ELSE UNCHANGED familyVars
  /\ IF part = "food" THEN Food!FoodNext ELSE UNCHANGED foodVars
  /\ IF part = "care" THEN Care!CareNext ELSE UNCHANGED careVars
  /\ IF part = "finance" THEN Finance!FinanceNext ELSE UNCHANGED finVars
  /\ IF part = "book" THEN Transfer ELSE UNCHANGED book
  /\ UNCHANGED part

MCSpec == MCInit /\ [][MCNext]_allVars

\* Finance by itself.
FinanceSpec == MCInit /\ part = "finance" /\ [][MCNext]_allVars

-----------------------------------------------------------------------------
(***************************************************************************)
(* The properties of the areas, named parts together where they are        *)
(* invariants of one area.                                                 *)
(***************************************************************************)

\* Whatever is moved, deleted, archived or finished: positions on a board stay
\* dense, a recurring card has one open occurrence, a task is rewarded once.
BoardsSound == Boards!PositionsDense /\ Boards!OneOpenOccurrence /\ Boards!RewardedOnce

\* The calendar: the next occurrence is the first day the rule names, and
\* midnight breaks a streak only if the day that ends was missed.
CalendarKept == Recur!NextIsFirst /\ Family!StreakSurvivesNight

\* A picture that is shown is on the disk, and paging shows each entry once.
DiarySound == Diary!PicturesKept /\ Diary!PagedOnce

\* Importing the diary again adds nothing (DiaryImport).
ImportedOnce == Diary!ImportedOnce

\* Neither does a drop water two plants nor a grown plant buy two wishes.
FamilySound == Family!DropsFeedOnce /\ Family!TicketOnce

\* The stock is what the freezer holds, and a food's tags do not contradict
\* each other.
FoodSound == Food!StockTrue /\ Food!TagsExclusive

\* Care records point to meals there are, relinking picks each meal once, and
\* importing again adds nothing.
CareSound == Care!LinksLive /\ Care!RelinkDistinct /\ Care!ImportOnce

\* finPairs takes the first partner that is free: a matching, and with the
\* transfers in order of time no matching has more pairs (the reference tries
\* every set of possible pairs).
PairsMaximum ==
  LET pairs == Finance!finPairs(book)
      possible == {p \in book \X book : p[1].amount = 1 /\ p[2].amount = -1 /\ p[2].at - p[1].at \in -10..10}
      matching(m) == \A p, q \in m : p # q => p[1] # q[1] /\ p[2] # q[2]
  IN /\ pairs \subseteq possible /\ matching(pairs)
     /\ \A m \in SUBSET possible : matching(m) => Cardinality(m) <= Cardinality(pairs)

\* The lists of a month add up to its figures, local money is spent once, and
\* exports that overlap leave each transaction as often as it happened.
FinanceSound ==
  IF part = "book" THEN PairsMaximum
  ELSE part = "finance" => Finance!ListsAddUp /\ Finance!SpentOnce /\ Finance!ImportUnion

\* finance_tags.go: what is stored anew has no tags of an earlier one.
InheritsNothing == Finance!InheritsNothing

=============================================================================
