----------------------------- MODULE PlannerFood -----------------------------
(***************************************************************************)
(* Baby food (planner/internal/store/babyfood.go, babyfood_import.go,      *)
(* api/babyfood.go, cmd/planner/babyfoodcmd.go): a plan of meals by day of *)
(* life, edits of meals, what the child liked, and the stock of frozen     *)
(* cubes computed from the last count, the meals since and the batches     *)
(* since.                                                                  *)
(*                                                                         *)
(* `freezer' is the freezer itself, which the program never sees: the      *)
(* meals of a day are taken from it in the evening.  Editing a meal and    *)
(* tagging a food read first and write the whole row later, and another    *)
(* request may come between.  Clock times, notes, snacks and grams have no *)
(* effect and are left out, and there is one child.  The plan is that of   *)
(* the topping phase, the only days the stock counts.                      *)
(***************************************************************************)
EXTENDS Integers, FiniteSets, FiniteSetsExt, Sequences, SequencesExt

CONSTANTS
  Foods,        \* ingredients
  Editors,      \* requests in progress
  Plans,        \* plans to import: day -> sequence of [base, toppings]
  Horizon,      \* days the stock has to last
  MaxFoodDay, MaxQty, MaxFoodChanges   \* bounds

VARIABLES
  dday, evening,
  child,        \* is the child on the list of bf_children?
  plan,         \* day -> sequence of [base, toppings, src, skipped]
  newItem,      \* day -> the food introduced that day
  ingredients,  \* food -> [qty, dday, batch, late]; late is history
  batches,      \* sequence of [food, qty]
  tags,         \* <<day, food>> -> [reaction, liked, disliked]
  freezer,      \* food -> cubes
  amended,      \* history: foods whose meals since the count were rewritten after the fact
  edit,         \* editor -> what it read
  foodChanges

foodVars == <<dday, evening, child, plan, newItem, ingredients, batches, tags, freezer, amended, edit, foodChanges>>

Uncounted == [qty |-> 0 - 1, dday |-> 0, batch |-> 0, late |-> FALSE]
NoTag == [reaction |-> FALSE, liked |-> FALSE, disliked |-> FALSE]
Free == [pc |-> "idle", day |-> 0, n |-> 0, items |-> <<>>, food |-> "", tag |-> NoTag]

FoodInit ==
  /\ dday = 1 /\ evening = FALSE /\ child = TRUE
  /\ plan = <<>> /\ newItem = <<>>
  /\ ingredients = <<>> /\ batches = <<>> /\ tags = <<>>
  /\ freezer = [f \in Foods |-> 0] /\ amended = {}
  /\ edit = [e \in Editors |-> Free]
  /\ foodChanges = 0

FoodChanged == foodChanges < MaxFoodChanges /\ foodChanges' = foodChanges + 1
With(f, k, v) == [x \in DOMAIN f \cup {k} |-> IF x = k THEN v ELSE f[x]]

\* bfPutItem: a food seen for the first time becomes an ingredient.
Listed(fs) == [f \in DOMAIN ingredients \cup fs |-> IF f \in DOMAIN ingredients THEN ingredients[f] ELSE Uncounted]

ItemsOf(m) == <<m.base>> \o m.toppings
Portions(f, s) == Cardinality({i \in DOMAIN s : s[i] = f})

\* The sum of h over the set S.
SumOver(h, S) == MapThenSumSet(LAMBDA x : h[x], S)

\* Cubes of a food in the meals of a day that are not skipped.
UsesOn(p, f, d) ==
  IF d \notin DOMAIN p THEN 0
  ELSE SumOver([i \in DOMAIN p[d] |-> IF p[d][i].skipped THEN 0 ELSE Portions(f, ItemsOf(p[d][i]))], DOMAIN p[d])

UsesIn(f, ds) == SumOver([d \in ds |-> UsesOn(plan, f, d)], ds)

\* Days over with their meals: what the plan says of them later is an amendment.
Over(d) == d < dday \/ (d = dday /\ evening)
Amends(p, d) == amended' = amended \cup {f \in Foods : Over(d) /\ UsesOn(p, f, d) # UsesOn(plan, f, d)}

-----------------------------------------------------------------------------
(***************************************************************************)
(* The kitchen.                                                            *)
(***************************************************************************)

Eat ==
  /\ ~evening /\ evening' = TRUE
  /\ freezer' = [f \in Foods |-> freezer[f] - UsesOn(plan, f, dday)]
  /\ UNCHANGED <<dday, child, plan, newItem, ingredients, batches, tags, amended, edit, foodChanges>>

NextFoodDay ==
  /\ evening /\ dday < MaxFoodDay
  /\ dday' = dday + 1 /\ evening' = FALSE
  /\ UNCHANGED <<child, plan, newItem, ingredients, batches, tags, freezer, amended, edit, foodChanges>>

-----------------------------------------------------------------------------
(***************************************************************************)
(* The plan.                                                               *)
(***************************************************************************)

\* Taken off the list and put on it again; what was recorded stays.
BFRemoveChild ==
  /\ FoodChanged /\ child /\ child' = FALSE
  /\ UNCHANGED <<dday, evening, plan, newItem, ingredients, batches, tags, freezer, amended, edit>>

BFAddChild ==
  /\ ~child /\ child' = TRUE
  /\ UNCHANGED <<dday, evening, plan, newItem, ingredients, batches, tags, freezer, amended, edit, foodChanges>>

\* Days already there are left alone unless they are to be replaced, and
\* with `from' so are the days before it.  The counts of ingredients stay; the
\* NEW food of a replaced day goes, for the plans here name none.
\* An edit under way of a replaced meal fails, unless its id is given again.
BFImport(x, replace, from) ==
  LET writes == {d \in DOMAIN x : d >= from /\ (replace \/ d \notin DOMAIN plan)}
      meal(m) == [base |-> m.base, toppings |-> m.toppings, src |-> ItemsOf(m), skipped |-> FALSE]
      new == [d \in DOMAIN plan \cup writes |->
                IF d \in writes THEN [i \in DOMAIN x[d] |-> meal(x[d][i])] ELSE plan[d]]
  IN /\ FoodChanged /\ child /\ writes # {}
     /\ plan' = new /\ newItem' = [d \in DOMAIN newItem \ writes |-> newItem[d]]
     /\ ingredients' = Listed(UNION {ToSet(ItemsOf(x[y[1]][y[2]])) : y \in {z \in writes \X (1..3) : z[2] \in DOMAIN x[z[1]]}})
     /\ amended' = amended \cup
          {f \in Foods : \E d \in writes : Over(d) /\ UsesOn(new, f, d) # UsesOn(plan, f, d)}
     /\ \/ UNCHANGED edit
        \/ edit' = [e \in Editors |-> IF edit[e].pc = "meal" /\ edit[e].day \in writes THEN Free ELSE edit[e]]
     /\ UNCHANGED <<dday, evening, child, batches, tags, freezer>>

\* PATCH /api/babyfood/meals/{id}: the items are read first ...
MealRead(e, d, n) ==
  /\ FoodChanged /\ edit[e].pc = "idle"
  /\ edit' = [edit EXCEPT ![e] = [Free EXCEPT !.pc = "meal", !.day = d, !.n = n, !.items = ItemsOf(plan[d][n])]]
  /\ UNCHANGED <<dday, evening, child, plan, newItem, ingredients, batches, tags, freezer, amended>>

\* ... and written whole: another base, other toppings, skipped or not, or as
\* it was imported.
BFUpdateMeal(e, items, skipped) ==
  LET d == edit[e].day
      n == edit[e].n
      new == [plan EXCEPT ![d][n] = [@ EXCEPT !.base = items[1], !.toppings = Tail(items), !.skipped = skipped]]
  IN /\ edit[e].pc = "meal" /\ n \in DOMAIN plan[d]
     /\ plan' = new
     /\ ingredients' = Listed(ToSet(items))
     /\ Amends(new, d)
     /\ edit' = [edit EXCEPT ![e] = Free]
     /\ UNCHANGED <<dday, evening, child, newItem, batches, tags, freezer, foodChanges>>

MealEdits(e) ==
  LET read == edit[e].items
      m == plan[edit[e].day][edit[e].n]
  IN \/ \E f \in Foods : BFUpdateMeal(e, <<f>> \o Tail(read), m.skipped)
     \/ BFUpdateMeal(e, <<read[1]>>, m.skipped)
     \/ BFUpdateMeal(e, read, ~m.skipped)
     \/ BFUpdateMeal(e, m.src, m.skipped)

BFUpdateDay(d, f) ==
  /\ FoodChanged /\ child /\ d \in DOMAIN plan
  /\ newItem' = With(newItem, d, f) /\ newItem' # newItem
  /\ UNCHANGED <<dday, evening, child, plan, ingredients, batches, tags, freezer, amended, edit>>

-----------------------------------------------------------------------------
(***************************************************************************)
(* Stock.                                                                  *)
(***************************************************************************)

\* BFCount: what was counted, the day, and the last batch so far.
BFCount(f, qty) ==
  /\ FoodChanged /\ child /\ f \in DOMAIN ingredients
  /\ ingredients' = [ingredients EXCEPT ![f] = [qty |-> qty, dday |-> dday, batch |-> Len(batches), late |-> evening]]
  /\ amended' = amended \ {f}
  /\ UNCHANGED <<dday, evening, child, plan, newItem, batches, tags, freezer, edit>>

BFAddBatch(f, qty) ==
  /\ FoodChanged /\ child
  /\ batches' = Append(batches, [food |-> f, qty |-> qty])
  /\ freezer' = [freezer EXCEPT ![f] = @ + qty]
  /\ ingredients' = Listed({f})
  /\ UNCHANGED <<dday, evening, child, plan, newItem, tags, amended, edit>>

\* Mutant of Used: today is taken off as well.
UsedToday(f) == UsesIn(f, {d \in DOMAIN plan : d > ingredients[f].dday /\ d <= dday})

\* Meals after the day of the count and before today.
Used(f) == UsesIn(f, {d \in DOMAIN plan : d > ingredients[f].dday /\ d < dday})

Made(f) ==
  LET since == {b \in DOMAIN batches : batches[b].food = f /\ b > ingredients[f].batch}
  IN SumOver([b \in since |-> batches[b].qty], since)

Stock(f) == ingredients[f].qty - Used(f) + Made(f)

\* BFStockList: what the days from today on need, less the stock if it is
\* known.  BFShoppingCard lists the foods with something to make.
Need(f) == UsesIn(f, {d \in DOMAIN plan : d >= dday /\ d < dday + Horizon})
Make(f) ==
  LET short == IF ingredients[f].qty < 0 THEN Need(f) ELSE Need(f) - Stock(f) IN IF short > 0 THEN short ELSE 0

\* The list is made and all of it is cooked.
CookShopping ==
  /\ FoodChanged /\ child /\ \E f \in DOMAIN ingredients : Make(f) > 0
  /\ LET todo == SetToSeq({f \in DOMAIN ingredients : Make(f) > 0})
     IN batches' = batches \o [i \in DOMAIN todo |-> [food |-> todo[i], qty |-> Make(todo[i])]]
  /\ freezer' = [f \in Foods |-> IF f \in DOMAIN ingredients THEN freezer[f] + Make(f) ELSE freezer[f]]
  /\ UNCHANGED <<dday, evening, child, plan, newItem, ingredients, tags, amended, edit>>

-----------------------------------------------------------------------------
(***************************************************************************)
(* Likes and reactions.                                                    *)
(***************************************************************************)

OnMenu(d, f) ==
  \/ d \in DOMAIN newItem /\ newItem[d] = f
  \/ d \in DOMAIN plan /\ \E i \in DOMAIN plan[d] : f \in ToSet(ItemsOf(plan[d][i]))

\* BFSetLog reads the row; a new one needs the food on the day's menu.
TagRead(e, d, f) ==
  /\ FoodChanged /\ edit[e].pc = "idle" /\ child
  /\ <<d, f>> \in DOMAIN tags \/ OnMenu(d, f)
  /\ edit' = [edit EXCEPT ![e] = [Free EXCEPT !.pc = "tag", !.day = d, !.food = f,
                !.tag = IF <<d, f>> \in DOMAIN tags THEN tags[<<d, f>>] ELSE NoTag]]
  /\ UNCHANGED <<dday, evening, child, plan, newItem, ingredients, batches, tags, freezer, amended>>

\* Mutant of Tagged: liking does not take a dislike back.
TaggedBoth(t, field, on) == [t EXCEPT ![field] = on]

\* One field changes; liking and disliking turn each other off.
Tagged(t, field, on) ==
  LET other == [liked |-> "disliked", disliked |-> "liked"]
      set == [t EXCEPT ![field] = on]
  IN IF on /\ field \in DOMAIN other THEN [set EXCEPT ![other[field]] = FALSE] ELSE set

\* The whole row is written, or deleted when nothing is left.
BFSetLog(e, field, on) ==
  LET k == <<edit[e].day, edit[e].food>>
      t == Tagged(edit[e].tag, field, on)
  IN /\ edit[e].pc = "tag"
     /\ tags' = IF t = NoTag THEN [x \in DOMAIN tags \ {k} |-> tags[x]] ELSE With(tags, k, t)
     /\ edit' = [edit EXCEPT ![e] = Free]
     /\ UNCHANGED <<dday, evening, child, plan, newItem, ingredients, batches, freezer, amended, foodChanges>>

FoodNext ==
  \/ Eat \/ NextFoodDay \/ BFRemoveChild \/ BFAddChild
  \/ \E x \in Plans, r \in BOOLEAN, from \in {0, dday} : BFImport(x, r, from)
  \/ \E e \in Editors : \E d \in DOMAIN plan : \E n \in DOMAIN plan[d] : MealRead(e, d, n)
  \/ \E e \in Editors : edit[e].pc = "meal" /\ MealEdits(e)
  \/ \E d \in DOMAIN plan, f \in Foods : BFUpdateDay(d, f)
  \/ \E f \in Foods : BFCount(f, freezer[f]) /\ freezer[f] >= 0
  \/ \E f \in Foods, q \in 1..MaxQty : BFAddBatch(f, q)
  \/ CookShopping
  \/ \E e \in Editors, d \in 1..dday, f \in Foods : TagRead(e, d, f)
  \/ \E e \in Editors, field \in {"reaction", "liked", "disliked"}, on \in BOOLEAN : BFSetLog(e, field, on)

-----------------------------------------------------------------------------
(***************************************************************************)
(* Properties.                                                             *)
(***************************************************************************)

\* The stock shown is what the freezer holds this morning, whatever was
\* cooked, eaten, imported or edited since the count (BFStockList): no meal
\* and no batch is counted twice or left out.  It holds when the count came
\* after the meals of its day, and no meal was rewritten after it was eaten.
StockTrue ==
  \A f \in DOMAIN ingredients \ amended :
    LET i == ingredients[f] IN
    i.qty >= 0 /\ i.late =>
      Stock(f) = freezer[f] + (IF evening /\ i.dday < dday THEN UsesOn(plan, f, dday) ELSE 0)

\* No food of a day is both liked and disliked, even if two requests read the
\* row before either writes it (BFSetLog writes the whole row).
TagsExclusive == \A k \in DOMAIN tags : ~(tags[k].liked /\ tags[k].disliked)
====
