------------------------- MODULE PlannerStoreProofs -------------------------
(***************************************************************************)
(* Proofs about what the areas of the planner keep in its database, as     *)
(* MCPlannerStore instantiates them.                                       *)
(***************************************************************************)
EXTENDS MCPlannerStore, TLAPS, WellFoundedInduction, FiniteSetTheorems

\* A set of numbers that is not empty has a least one.
LEMMA LeastOne ==
  ASSUME NEW S \in SUBSET Nat, S # {}
  PROVE  \E x \in S : \A y \in S : x <= y
<1>1. PICK x \in S : \A y \in S : ~(<<y, x>> \in OpToRel(<, Nat))
  BY NatLessThanWellFounded, WFMin, Zenon
<1>2. ASSUME NEW y \in S, y < x PROVE <<y, x>> \in OpToRel(<, Nat)
  <2>1. <<y, x>> \in Nat \X Nat /\ <<y, x>>[1] < <<y, x>>[2]
    BY <1>2
  <2> QED BY <2>1, Zenon DEF OpToRel
<1>3. \A y \in S : ~(y < x)
  BY <1>1, <1>2, Zenon
<1> QED BY ONLY <1>3, S \in SUBSET Nat, x \in S

\* A bounded set of numbers that is not empty has a greatest one.
LEMMA GreatestOne ==
  ASSUME NEW S \in SUBSET Nat, S # {}, NEW n \in Nat, \A y \in S : y <= n
  PROVE  \E x \in S : \A y \in S : y <= x
<1> DEFINE T == {n - y : y \in S}
<1>1. T \in SUBSET Nat /\ T # {}
  <2>1. ASSUME NEW y \in S PROVE n - y \in Nat
    OBVIOUS
  <2>2. PICK y \in S : TRUE
    OBVIOUS
  <2>3. n - y \in T
    OBVIOUS
  <2> QED BY <2>1, <2>3
<1>2. PICK z \in T : \A t \in T : z <= t
  <2> HIDE DEF T
  <2> QED BY <1>1, LeastOne
<1>3. PICK x \in S : z = n - x
  BY <1>2
<1>4. ASSUME NEW y \in S PROVE y <= x
  <2>1. n - y \in T
    OBVIOUS
  <2>2. z <= n - y
    BY <1>2, <2>1
  <2> QED BY <1>3, <2>2
<1> QED BY <1>4

\* The numbers from 1 to n are n.
LEMMA Numbers == ASSUME NEW n \in Nat PROVE IsFiniteSet(1..n) /\ Cardinality(1..n) = n
<1>1. 1 \in Int /\ n \in Int /\ (1 > n => n = 0) /\ n - 1 + 1 = n
  OBVIOUS
<1>2. IsFiniteSet(1..n) /\ Cardinality(1..n) = IF 1 > n THEN 0 ELSE n - 1 + 1
  BY <1>1, FS_Interval
<1> QED BY <1>1, <1>2

\* A set that has 0, and a number with the one before it, has all of them.
LEMMA Induction ==
  ASSUME NEW n \in Nat, NEW S, 0 \in S, \A k \in 0..(n - 1) : k \in S => k + 1 \in S
  PROVE  0..n \subseteq S
<1> SUFFICES ASSUME 0..n \ S # {} PROVE FALSE
  OBVIOUS
<1> DEFINE T == 0..n \ S
<1>1. PICK x \in T : \A y \in T : x <= y
  <2>1. T \in SUBSET Nat /\ T # {}
    OBVIOUS
  <2> HIDE DEF T
  <2> QED BY <2>1, LeastOne
<1>2. x # 0 /\ x - 1 \in 0..(n - 1) /\ x - 1 \in 0..n
  OBVIOUS
<1>3. x - 1 \in S
  BY <1>1, <1>2
<1>4. (x - 1) + 1 \in S
  BY <1>2, <1>3
<1> QED BY <1>2, <1>4

-----------------------------------------------------------------------------
(***************************************************************************)
(* The family page.                                                        *)
(***************************************************************************)

FamilyType ==
  /\ today \in Nat /\ written \subseteq Nat /\ DOMAIN req = Viewers
  /\ \A k \in DOMAIN drops : drops[k].day \in Int /\ drops[k].given \in Int /\ drops[k].given <= today
  /\ \A v \in Viewers : \A a \in req[v].awards : a[2].day \in Int

\* Plants are numbered, and the last one is always growing: familyPlant.
LastGrows == \E n \in Nat : DOMAIN plants = 1..n /\ (n > 0 => ~plants[n].finished)

\* The drops in K were given by day d and are drops of plant p.
Watered(K, p, d) ==
  \A k \in K : k \in DOMAIN drops /\ drops[k].given <= d /\ drops[k].day >= plants[p].started

\* The plants after p count from later days than those of the drops in K.
Passed(K, p) ==
  ~overnight => \A q \in DOMAIN plants : q > p =>
                  \A k \in K : drops[k].day <= drops[k].given => drops[k].day < plants[q].started

\* What a plant has had, or will have had when a request to grow the next one
\* is through, it does not share with a later one.
GrowInv ==
  /\ LastGrows
  /\ \A p \in DOMAIN plants :
       /\ plants[p] = [started |-> plants[p].started, finished |-> plants[p].finished, fed |-> plants[p].fed]
       /\ plants[p].started \in Int /\ Watered(plants[p].fed, p, today) /\ Passed(plants[p].fed, p)
  /\ \A v \in Viewers : req[v].pc = "grow" =>
       /\ req[v].plant \in DOMAIN plants /\ req[v].day \in Nat /\ req[v].day <= today
       /\ Watered(req[v].fed, req[v].plant, req[v].day) /\ Passed(req[v].fed, req[v].plant)

\* The one purchase under way has a ticket no wish was bought with.
TicketInv ==
  /\ \A v \in Viewers : req[v].pc = "buy" => req[v].plant \in DOMAIN plants
  /\ ~crossed =>
       /\ \A u, v \in Viewers : req[u].pc = "buy" /\ req[v].pc = "buy" => u = v
       /\ \A v \in Viewers : req[v].pc = "buy" => \A w \in DOMAIN wishes : wishes[w] # req[v].plant
  /\ Family!TicketOnce

FamilyInv == FamilyType /\ GrowInv /\ TicketInv

LEMMA AwardDays ==
  ASSUME today \in Nat, written \subseteq Nat, NEW s \in Int, NEW a \in Family!AwardsSince(s)
  PROVE  a[2].day \in Int
<1>1. \E key, m : \E d \in Int : a = <<key, [amount |-> m, day |-> d]>>
  <2> DEFINE kept == {x \in Family!Streaks \X (s..today) : Family!applies(x[1], x[2]) /\ Family!done(x[1], x[2])}
             reached == {x \in Steps \X written : x[2] \in Family!nthDay(x[1]) /\ x[2] >= s}
  <2>1. ASSUME NEW x \in kept PROVE x[2] \in Int
    <3>1. x \in Family!Streaks \X (s..today)
      BY Zenon
    <3> QED BY <3>1
  <2>2. ASSUME NEW x \in reached PROVE x[2] \in Int
    <3>1. x \in Steps \X written
      BY Zenon
    <3>2. x[2] \in written
      BY ONLY <3>1
    <3>3. \A d \in written : d \in Int
      OBVIOUS
    <3> QED BY <3>2, <3>3, Zenon
  <2>3. \/ \E x \in kept : a = <<<<"streak", x[1], x[2]>>, [amount |-> 1, day |-> x[2]]>>
        \/ \E q : a = <<<<"quest", Family!mondayOf(today), q>>, [amount |-> 3, day |-> today]>>
        \/ \E w : a = <<<<"quests", Family!mondayOf(today), w>>, [amount |-> 5, day |-> today]>>
        \/ \E x \in reached : a = <<<<"milestone", 0, x[1]>>, [amount |-> 5, day |-> x[2]]>>
    BY Zenon DEF Family!AwardsSince
  <2> HIDE DEF kept, reached
  <2>4. today \in Int
    OBVIOUS
  <2> QED BY <2>1, <2>2, <2>3, <2>4, Zenon
<1> QED BY <1>1

LEMMA Largest ==
  ASSUME NEW S, S \subseteq Nat, NEW n \in S, \A q \in S : n >= q
  PROVE  Family!Max(S) = n
<1>1. PICK m : m = Family!Max(S)
  OBVIOUS
<1>2. m \in S /\ \A q \in S : m >= q
  BY <1>1, Zenon DEF Family!Max
<1>3. m \in Nat /\ n \in Nat /\ m >= n /\ n >= m
  BY <1>2
<1>4. m = n
  BY <1>3
<1> QED BY <1>1, <1>4

\* familyPlant is the last plant.
LEMMA LastPlant ==
  ASSUME LastGrows, Family!Growing # {}
  PROVE  /\ Family!familyPlant \in DOMAIN plants
         /\ \A q \in DOMAIN plants : q <= Family!familyPlant
         /\ DOMAIN plants \subseteq Nat
<1>1. PICK n \in Nat : DOMAIN plants = 1..n /\ (n > 0 => ~plants[n].finished)
  BY DEF LastGrows
<1>2. n > 0 /\ n \in Family!Growing /\ \A q \in Family!Growing : q \in Nat /\ n >= q
  BY <1>1 DEF Family!Growing
<1>3. Family!familyPlant = n
  BY <1>2, Largest DEF Family!familyPlant
<1> QED BY <1>1, <1>2, <1>3

\* The id of a new plant.
LEMMA NextPlant ==
  ASSUME NEW n \in Nat, NEW f, DOMAIN f = 1..n
  PROVE  Family!FamilyId(f) = n + 1
<1>1. CASE n = 0
  BY <1>1 DEF Family!FamilyId
<1>2. CASE n > 0
  <2>1. n \in 1..n /\ 1..n \subseteq Nat /\ \A q \in 1..n : n >= q
    BY <1>2
  <2>2. Family!Max(1..n) = n
    BY <2>1, Largest
  <2> QED BY <1>2, <2>1, <2>2 DEF Family!FamilyId
<1> QED BY <1>1, <1>2

LEMMA FamilyInvInit == Family!FamilyInit => FamilyInv
<1> SUFFICES ASSUME Family!FamilyInit PROVE FamilyInv
  OBVIOUS
<1>1. /\ today = FirstDay /\ written = {} /\ req = [v \in Viewers |-> Family!Resting]
      /\ crossed = FALSE /\ overnight = FALSE
  BY DEF Family!FamilyInit
<1>2. \A v \in Viewers : req[v].pc = "idle" /\ req[v].awards = {}
  BY <1>1 DEF Family!Resting
<1>3. FirstDay \in Nat
  BY DaysAssumption
<1>4. CASE drops = [k \in {} |-> 0] /\ plants = <<>> /\ wishes = <<>>
  <2>1. DOMAIN plants = 1..0 /\ DOMAIN wishes = {} /\ DOMAIN drops = {}
    BY <1>4
  <2> QED BY <1>1, <1>2, <1>3, <2>1 DEF FamilyInv, FamilyType, GrowInv, LastGrows, TicketInv, Family!TicketOnce
<1>5. ASSUME NEW old, drops = [k \in {old} |-> [amount |-> FullDrops, day |-> FirstDay - 1, given |-> FirstDay - 1]],
             plants = <<[started |-> FirstDay - 1, finished |-> TRUE, fed |-> {old}], Family!Seed(FirstDay)>>,
             wishes = <<0, 0>>
      PROVE  FamilyInv
  <2>1. /\ DOMAIN drops = {old} /\ drops[old].day = FirstDay - 1 /\ drops[old].given = FirstDay - 1
        /\ DOMAIN plants = 1..2 /\ plants[1] = [started |-> FirstDay - 1, finished |-> TRUE, fed |-> {old}]
        /\ plants[2] = [started |-> FirstDay, finished |-> FALSE, fed |-> {}]
    BY <1>5 DEF Family!Seed
  <2>2. DOMAIN wishes = 1..2 /\ \A w \in DOMAIN wishes : wishes[w] = 0
    BY <1>5
  <2>3. FamilyType
    BY <1>1, <1>2, <1>3, <2>1 DEF FamilyType
  <2>4. LastGrows
    BY <2>1 DEF LastGrows
  <2>5. ASSUME NEW p \in DOMAIN plants
        PROVE  /\ plants[p] = [started |-> plants[p].started, finished |-> plants[p].finished, fed |-> plants[p].fed]
               /\ plants[p].started \in Int /\ Watered(plants[p].fed, p, today) /\ Passed(plants[p].fed, p)
    <3>1. CASE p = 1
      BY <1>1, <1>3, <2>1, <3>1 DEF Watered, Passed
    <3>2. CASE p = 2
      BY <1>1, <1>3, <2>1, <3>2 DEF Watered, Passed
    <3> QED BY <2>1, <3>1, <3>2
  <2>6. TicketInv
    BY <1>2, <2>2 DEF TicketInv, Family!TicketOnce
  <2> QED BY <1>2, <2>3, <2>4, <2>5, <2>6 DEF FamilyInv, GrowInv
<1> QED BY <1>4, <1>5 DEF Family!FamilyInit

\* What a plant has had stays its own while no plant is added.
LEMMA GrowFrame ==
  ASSUME FamilyType, GrowInv, today' \in Nat, today' >= today, plants' = plants, overnight' = overnight,
         \A k \in DOMAIN drops : k \in DOMAIN drops' /\ drops'[k] = drops[k],
         \A v \in Viewers : req'[v].pc = "grow" => req'[v] = req[v]
  PROVE  GrowInv'
<1>1. LastGrows'
  BY DEF GrowInv, LastGrows
<1>2. ASSUME NEW K, NEW p \in DOMAIN plants, NEW d \in Nat, NEW e \in Nat, d <= e, Watered(K, p, d)
      PROVE  Watered(K, p, e)' /\ (Passed(K, p) => Passed(K, p)')
  <2>1. ASSUME NEW k \in K PROVE k \in DOMAIN drops /\ k \in DOMAIN drops' /\ drops'[k] = drops[k]
                                 /\ drops[k].given \in Int /\ drops[k].given <= d
    BY <1>2 DEF Watered, FamilyType
  <2>2. ASSUME NEW k \in K PROVE drops'[k].given <= e
    BY <1>2, <2>1
  <2>3. Watered(K, p, e)'
    BY <1>2, <2>1, <2>2 DEF Watered
  <2>4. Passed(K, p) => Passed(K, p)'
    BY <2>1 DEF Passed
  <2> QED BY <2>3, <2>4
<1>3. ASSUME NEW p \in DOMAIN plants' PROVE Watered(plants[p].fed, p, today)' /\ Passed(plants[p].fed, p)'
  <2>1. PICK K, d, e : K = plants[p].fed /\ d = today /\ e = today'
    OBVIOUS
  <2>2. d \in Nat /\ e \in Nat /\ d <= e /\ p \in DOMAIN plants
    BY <2>1 DEF FamilyType
  <2>3. Watered(K, p, d) /\ Passed(K, p)
    BY <2>1, <2>2 DEF GrowInv
  <2>4. Watered(K, p, e)' /\ Passed(K, p)'
    BY <1>2, <2>2, <2>3
  <2> QED BY <2>1, <2>4 DEF Watered, Passed
<1>4. ASSUME NEW v \in Viewers, req'[v].pc = "grow"
      PROVE  /\ req'[v] = req[v] /\ req[v].plant \in DOMAIN plants /\ req[v].day \in Nat /\ req[v].day <= today
             /\ Watered(req[v].fed, req[v].plant, req[v].day)' /\ Passed(req[v].fed, req[v].plant)'
  <2>1. PICK K, p, d : K = req[v].fed /\ p = req[v].plant /\ d = req[v].day
    OBVIOUS
  <2>2. req'[v] = req[v] /\ d \in Nat /\ d <= d /\ d <= today /\ p \in DOMAIN plants /\ Watered(K, p, d) /\ Passed(K, p)
    BY <1>4, <2>1 DEF GrowInv
  <2>3. Watered(K, p, d)' /\ Passed(K, p)'
    BY <1>2, <2>2
  <2> QED BY <2>1, <2>2, <2>3 DEF Watered, Passed
<1>5. ASSUME NEW d \in Nat, d <= today PROVE d <= today'
  BY <1>5 DEF FamilyType
<1>6. \A p \in DOMAIN plants' :
        /\ plants'[p] = [started |-> plants'[p].started, finished |-> plants'[p].finished, fed |-> plants'[p].fed]
        /\ plants'[p].started \in Int
  BY DEF GrowInv
<1>7. ASSUME NEW v \in Viewers, req'[v].pc = "grow"
      PROVE  (/\ req[v].plant \in DOMAIN plants /\ req[v].day \in Nat /\ req[v].day <= today)'
  BY <1>4, <1>5, <1>7
<1> QED BY <1>1, <1>3, <1>4, <1>6, <1>7 DEF GrowInv

\* Records change; the plants, the wishes and the requests do not.
LEMMA RecordInv ==
  ASSUME FamilyInv, UNCHANGED Family!ledger, today' \in Nat, today' >= today, written' \subseteq Nat
  PROVE  FamilyInv'
<1>1. UNCHANGED <<drops, plants, wishes, req, crossed, overnight>>
  BY DEF Family!ledger
<1>2. FamilyType'
  BY <1>1 DEF FamilyInv, FamilyType
<1>3. GrowInv'
  BY <1>1, GrowFrame DEF FamilyInv
<1>4. TicketInv'
  BY <1>1 DEF FamilyInv, TicketInv, Family!TicketOnce
<1> QED BY <1>2, <1>3, <1>4 DEF FamilyInv

\* The first one to look sows; nothing is under way then.
LEMMA SowInv ==
  ASSUME FamilyInv, Family!Growing = {}, plants' = Family!Put(plants, Family!FamilyId(plants), Family!Seed(today)),
         UNCHANGED <<today, written, drops, wishes, crossed, overnight>>, DOMAIN req' = Viewers,
         \A v \in Viewers : /\ \A a \in req'[v].awards : a[2].day \in Int
                            /\ req'[v].pc \in {"grow", "buy"} => req'[v] = req[v]
  PROVE  FamilyInv'
<1>1. DOMAIN plants = 1..0
  <2>1. PICK n \in Nat : DOMAIN plants = 1..n /\ (n > 0 => ~plants[n].finished)
    BY DEF FamilyInv, GrowInv, LastGrows
  <2>2. n > 0 => n \in Family!Growing
    BY <2>1 DEF Family!Growing
  <2> QED BY <2>1, <2>2
<1>2. Family!FamilyId(plants) = 1
  BY <1>1, NextPlant
<1>3. DOMAIN plants' = 1..1 /\ plants'[1] = [started |-> today, finished |-> FALSE, fed |-> {}]
  BY <1>1, <1>2 DEF Family!Put, Family!Seed
<1>4. \A v \in Viewers : req'[v].pc \notin {"grow", "buy"}
  BY <1>1 DEF FamilyInv, GrowInv, TicketInv
<1>5. FamilyType'
  BY DEF FamilyInv, FamilyType
<1>6. GrowInv'
  <2>1. LastGrows'
    BY <1>3 DEF LastGrows
  <2> QED BY <1>3, <1>4, <1>5, <2>1 DEF GrowInv, FamilyType, Watered, Passed
<1>7. TicketInv'
  BY <1>4 DEF FamilyInv, TicketInv, Family!TicketOnce
<1> QED BY <1>5, <1>6, <1>7 DEF FamilyInv

\* A step of a request that is not about tickets leaves them alone.
LEMMA TicketFrame ==
  ASSUME TicketInv, UNCHANGED <<wishes, crossed>>, DOMAIN plants \subseteq DOMAIN plants',
         \A v \in Viewers : req'[v].pc = "buy" => req'[v] = req[v]
  PROVE  TicketInv'
<1>1. \A v \in Viewers : req'[v].pc = "buy" => req[v].pc = "buy" /\ req'[v].plant = req[v].plant
  OBVIOUS
<1> QED BY <1>1 DEF TicketInv, Family!TicketOnce

LEMMA ReadInv ==
  ASSUME FamilyInv, NEW v \in Viewers, Family!FamilyRead(v)
  PROVE  FamilyInv'
<1> DEFINE s == IF Family!Growing = {} THEN today ELSE plants[Family!familyPlant].started
           r == [Family!Resting EXCEPT !.pc = "award", !.awards = Family!AwardsSince(s)]
<1>1. /\ UNCHANGED <<today, written, drops, wishes, crossed, overnight>>
      /\ req' = [req EXCEPT ![v] = r]
      /\ plants' = IF Family!Growing = {} THEN Family!Put(plants, Family!FamilyId(plants), Family!Seed(today)) ELSE plants
  BY DEF Family!FamilyRead, Family!records
<1>2. s \in Int
  <2>1. Family!Growing # {} => Family!familyPlant \in DOMAIN plants
    BY LastPlant DEF FamilyInv, GrowInv
  <2> QED BY <2>1 DEF FamilyInv, FamilyType, GrowInv
<1>3. r.pc = "award" /\ r.awards = Family!AwardsSince(s)
  BY DEF Family!Resting
<1>4. \A a \in r.awards : a[2].day \in Int
  <2> HIDE DEF s, r
  <2> QED BY <1>2, <1>3, AwardDays DEF FamilyInv, FamilyType
<1> HIDE DEF s, r
<1>5. DOMAIN req' = Viewers /\ req'[v] = r /\ \A u \in Viewers : u # v => req'[u] = req[u]
  BY <1>1 DEF FamilyInv, FamilyType
<1>6. \A u \in Viewers : /\ \A a \in req'[u].awards : a[2].day \in Int
                         /\ req'[u].pc \in {"grow", "buy"} => req'[u] = req[u]
  BY <1>3, <1>4, <1>5 DEF FamilyInv, FamilyType
<1>7. CASE Family!Growing = {}
  BY <1>1, <1>5, <1>6, <1>7, SowInv
<1>8. CASE Family!Growing # {}
  <2>1. FamilyType'
    BY <1>1, <1>5, <1>6 DEF FamilyInv, FamilyType
  <2>2. plants' = plants /\ today' >= today /\ today' \in Nat
    BY <1>1, <1>8 DEF FamilyInv, FamilyType
  <2>3. GrowInv'
    BY <1>1, <1>6, <2>2, GrowFrame DEF FamilyInv
  <2>4. TicketInv'
    BY <1>1, <1>6, <2>2, TicketFrame DEF FamilyInv
  <2> QED BY <2>1, <2>3, <2>4 DEF FamilyInv
<1> QED BY <1>7, <1>8

LEMMA AwardInv ==
  ASSUME FamilyInv, NEW v \in Viewers, Family!FamilyAward(v)
  PROVE  FamilyInv'
<1> DEFINE new == {a \in req[v].awards : a[1] \notin DOMAIN drops}
           row(k) == (CHOOSE a \in new : a[1] = k)[2]
<1>1. /\ UNCHANGED <<today, written, plants, wishes, crossed, overnight>>
      /\ req' = [req EXCEPT ![v] = Family!Resting]
      /\ drops' = [k \in DOMAIN drops \cup {a[1] : a \in new} |->
           IF k \in DOMAIN drops THEN drops[k] ELSE [amount |-> row(k).amount, day |-> row(k).day, given |-> today]]
  BY DEF Family!FamilyAward, Family!records
<1>2. \A k \in DOMAIN drops : k \in DOMAIN drops' /\ drops'[k] = drops[k]
  BY <1>1
<1>3. ASSUME NEW k \in DOMAIN drops', k \notin DOMAIN drops
      PROVE  drops'[k].day \in Int /\ drops'[k].given = today
  <2>1. \E a \in new : a[1] = k
    BY <1>1, <1>3
  <2>2. PICK b : b = CHOOSE a \in new : a[1] = k
    OBVIOUS
  <2>3. b \in new
    BY <2>1, <2>2, Zenon
  <2>4. b[2].day \in Int
    BY <2>3 DEF FamilyInv, FamilyType
  <2>5. drops'[k] = [amount |-> b[2].amount, day |-> b[2].day, given |-> today]
    BY <1>1, <1>3, <2>2
  <2> QED BY <2>4, <2>5
<1> HIDE DEF new, row
<1>4. Family!Resting.pc = "idle" /\ Family!Resting.awards = {}
  BY DEF Family!Resting
<1>5. DOMAIN req' = Viewers /\ req'[v] = Family!Resting /\ \A u \in Viewers : u # v => req'[u] = req[u]
  BY <1>1 DEF FamilyInv, FamilyType
<1>6. \A u \in Viewers : /\ \A a \in req'[u].awards : a[2].day \in Int
                         /\ req'[u].pc \in {"grow", "buy"} => req'[u] = req[u]
  BY <1>4, <1>5 DEF FamilyInv, FamilyType
<1>7. FamilyType'
  <2>1. ASSUME NEW k \in DOMAIN drops'
        PROVE  drops'[k].day \in Int /\ drops'[k].given \in Int /\ drops'[k].given <= today
    BY <1>2, <1>3 DEF FamilyInv, FamilyType
  <2> QED BY <1>1, <1>5, <1>6, <2>1 DEF FamilyInv, FamilyType
<1>8. GrowInv'
  <2>1. today' >= today /\ today' \in Nat
    BY <1>1 DEF FamilyInv, FamilyType
  <2> QED BY <1>1, <1>2, <1>6, <2>1, GrowFrame DEF FamilyInv
<1>9. TicketInv'
  BY <1>1, <1>6, TicketFrame DEF FamilyInv
<1> QED BY <1>7, <1>8, <1>9 DEF FamilyInv

LEMMA GrowReadInv ==
  ASSUME FamilyInv, NEW v \in Viewers, Family!GrowRead(v)
  PROVE  FamilyInv'
<1>0. PICK p : p = Family!familyPlant
  OBVIOUS
<1> DEFINE r == [Family!Resting EXCEPT !.pc = "grow", !.plant = p, !.day = today, !.fed = Family!Fed(p)]
<1>1. /\ UNCHANGED <<today, written, drops, plants, wishes, crossed, overnight>>
      /\ req' = [req EXCEPT ![v] = r] /\ Family!Growing # {}
  BY <1>0 DEF Family!GrowRead, Family!records
<1>2. p \in DOMAIN plants /\ (\A q \in DOMAIN plants : q <= p) /\ DOMAIN plants \subseteq Nat
  BY <1>0, <1>1, LastPlant DEF FamilyInv, GrowInv
<1>3. r.pc = "grow" /\ r.awards = {} /\ r.plant = p /\ r.day = today /\ r.fed = Family!Fed(p)
  BY DEF Family!Resting
<1>4. \A k \in Family!Fed(p) : k \in DOMAIN drops /\ drops[k].day >= plants[p].started
  BY DEF Family!Fed
<1> HIDE DEF r
<1>5. DOMAIN req' = Viewers /\ req'[v] = r /\ \A u \in Viewers : u # v => req'[u] = req[u]
  BY <1>1 DEF FamilyInv, FamilyType
<1>6. FamilyType'
  BY <1>1, <1>3, <1>5 DEF FamilyInv, FamilyType
<1>7. GrowInv'
  <2>1. PICK K, d : K = Family!Fed(p) /\ d = today
    OBVIOUS
  <2>2. d \in Nat /\ d <= today
    BY <2>1 DEF FamilyInv, FamilyType
  <2>3. \A k \in K : k \in DOMAIN drops /\ drops[k].given <= d /\ drops[k].day >= plants[p].started
    BY <1>4, <2>1 DEF FamilyInv, FamilyType
  <2>4. Watered(K, p, d)'
    BY <1>1, <2>3 DEF Watered
  <2>5. Passed(K, p)'
    <3>1. \A q \in DOMAIN plants : ~(q > p)
      BY <1>2
    <3> QED BY <1>1, <3>1 DEF Passed
  <2>6. req'[v].fed = K /\ req'[v].plant = p /\ req'[v].day = d
    BY <1>3, <1>5, <2>1
  <2>7. (/\ req[v].plant \in DOMAIN plants /\ req[v].day \in Nat /\ req[v].day <= today
         /\ Watered(req[v].fed, req[v].plant, req[v].day) /\ Passed(req[v].fed, req[v].plant))'
    <3>1. /\ req'[v].plant \in DOMAIN plants' /\ req'[v].day \in Nat /\ req'[v].day <= today'
      BY <1>1, <1>2, <2>2, <2>6
    <3>2. Watered(req[v].fed, req[v].plant, req[v].day)'
      BY <2>4, <2>6 DEF Watered
    <3>3. Passed(req[v].fed, req[v].plant)'
      BY <2>5, <2>6 DEF Passed
    <3> QED BY <3>1, <3>2, <3>3
  <2>8. ASSUME NEW u \in Viewers, u # v, req'[u].pc = "grow"
        PROVE  (/\ req[u].plant \in DOMAIN plants /\ req[u].day \in Nat /\ req[u].day <= today
                /\ Watered(req[u].fed, req[u].plant, req[u].day) /\ Passed(req[u].fed, req[u].plant))'
    BY <1>1, <1>5, <2>8 DEF FamilyInv, GrowInv, Watered, Passed
  <2>9. ASSUME NEW q \in DOMAIN plants'
        PROVE  (/\ plants[q] = [started |-> plants[q].started, finished |-> plants[q].finished, fed |-> plants[q].fed]
                /\ plants[q].started \in Int /\ Watered(plants[q].fed, q, today) /\ Passed(plants[q].fed, q))'
    BY <1>1, <2>9 DEF FamilyInv, GrowInv, Watered, Passed
  <2>10. LastGrows'
    BY <1>1 DEF FamilyInv, GrowInv, LastGrows
  <2> QED BY <2>7, <2>8, <2>9, <2>10 DEF GrowInv
<1>8. TicketInv'
  BY <1>1, <1>3, <1>5, TicketFrame DEF FamilyInv
<1> QED BY <1>6, <1>7, <1>8 DEF FamilyInv

\* The next seed counts from a later day than every drop there is.
LEMMA GrowNextInv ==
  ASSUME FamilyInv, NEW v \in Viewers, Family!FamilyGrowNext(v)
  PROVE  FamilyInv'
<1>1. PICK n \in Nat : DOMAIN plants = 1..n
  BY DEF FamilyInv, GrowInv, LastGrows
<1>2. PICK p, F, D : p = req[v].plant /\ F = req[v].fed /\ D = req[v].day
  OBVIOUS
<1>3. p \in 1..n /\ D \in Nat /\ D <= today /\ Watered(F, p, D) /\ Passed(F, p) /\ today \in Nat
  BY <1>1, <1>2 DEF Family!FamilyGrowNext, FamilyInv, FamilyType, GrowInv
<1>4. /\ UNCHANGED <<today, written, drops, wishes, crossed>>
      /\ req' = [req EXCEPT ![v] = Family!Resting] /\ (~overnight' => ~overnight /\ D = today)
  BY <1>2 DEF Family!FamilyGrowNext, Family!records
<1>5. /\ DOMAIN plants' = 1..(n + 1) /\ plants'[n + 1] = [started |-> D + 1, finished |-> FALSE, fed |-> {}]
      /\ plants'[p] = [started |-> plants[p].started, finished |-> TRUE, fed |-> plants[p].fed \cup F]
      /\ \A q \in 1..n : q # p => plants'[q] = plants[q]
  <2>1. PICK f : f = [plants EXCEPT ![p].finished = TRUE, ![p].fed = @ \cup F]
    OBVIOUS
  <2>2. plants' = Family!Put(f, n + 1, [started |-> D + 1, finished |-> FALSE, fed |-> {}])
    <3>1. Family!FamilyId(plants) = n + 1
      BY <1>1, NextPlant
    <3> QED BY <1>2, <2>1, <3>1 DEF Family!FamilyGrowNext, Family!NextSeed, Family!Seed
  <2>3. DOMAIN f = 1..n /\ \A q \in 1..n : q # p => f[q] = plants[q]
    BY <1>1, <2>1
  <2>4. plants[p] = [started |-> plants[p].started, finished |-> plants[p].finished, fed |-> plants[p].fed]
    BY <1>1, <1>3 DEF FamilyInv, GrowInv
  <2>5. f[p] = [started |-> plants[p].started, finished |-> TRUE, fed |-> plants[p].fed \cup F]
    BY <1>1, <1>3, <2>1, <2>4
  <2>6. DOMAIN plants' = 1..(n + 1)
    BY <2>2, <2>3 DEF Family!Put
  <2>7. plants'[n + 1] = [started |-> D + 1, finished |-> FALSE, fed |-> {}]
    BY <2>2, <2>3 DEF Family!Put
  <2>8. \A q \in 1..n : plants'[q] = f[q]
    BY <2>2, <2>3 DEF Family!Put
  <2> QED BY <1>3, <2>3, <2>5, <2>6, <2>7, <2>8
<1>5a. ASSUME NEW q \in 1..n PROVE plants'[q].started = plants[q].started
  <2>1. CASE q = p
    <3>1. plants'[q] = [started |-> plants[q].started, finished |-> TRUE, fed |-> plants[q].fed \cup F]
      BY <1>5, <2>1
    <3> QED BY ONLY <3>1
  <2> QED BY <1>5, <2>1
<1>6. Family!Resting.pc = "idle" /\ Family!Resting.awards = {}
  BY DEF Family!Resting
<1>7. DOMAIN req' = Viewers /\ req'[v] = Family!Resting /\ \A u \in Viewers : u # v => req'[u] = req[u]
  BY <1>4 DEF FamilyInv, FamilyType
<1>8. FamilyType'
  BY <1>4, <1>6, <1>7 DEF FamilyInv, FamilyType
<1>9. ASSUME NEW K, NEW q \in 1..n, NEW d \in Nat, d <= today, Watered(K, q, d), Passed(K, q)
      PROVE  Watered(K, q, d)' /\ Passed(K, q)'
  <2>1. \A r \in 1..n : plants'[r].started = plants[r].started
    BY <1>5a
  <2>2. Watered(K, q, d)'
    BY <1>4, <1>9, <2>1 DEF Watered
  <2>3. ASSUME ~overnight', NEW r \in 1..(n + 1), r > q, NEW k \in K, drops[k].day <= drops[k].given
        PROVE  drops[k].day < plants'[r].started
    <3>1. CASE r \in 1..n
      <4>1. drops[k].day < plants[r].started
        BY <1>1, <1>4, <1>9, <2>3, <3>1 DEF Passed
      <4> QED BY <2>1, <3>1, <4>1
    <3>2. CASE r = n + 1
      <4>1. k \in DOMAIN drops /\ drops[k].given <= d
        BY <1>9 DEF Watered
      <4>2. drops[k].day \in Int /\ drops[k].given \in Int
        BY <4>1 DEF FamilyInv, FamilyType
      <4>3. plants'[r].started = today + 1
        BY <1>4, <1>5, <2>3, <3>2
      <4> QED BY <1>3, <1>9, <2>3, <4>1, <4>2, <4>3
    <3> QED BY <3>1, <3>2
  <2>4. Passed(K, q)'
    BY <1>4, <1>5, <2>3 DEF Passed
  <2> QED BY <2>2, <2>4
<1>10. LastGrows'
  BY <1>5 DEF LastGrows
<1>11. ASSUME NEW q \in 1..(n + 1)
       PROVE  (/\ plants[q] = [started |-> plants[q].started, finished |-> plants[q].finished, fed |-> plants[q].fed]
               /\ plants[q].started \in Int /\ Watered(plants[q].fed, q, today) /\ Passed(plants[q].fed, q))'
  <2>1. PICK K, d : K = plants'[q].fed /\ d = today'
    OBVIOUS
  <2>2. SUFFICES (/\ plants[q] = [started |-> plants[q].started, finished |-> plants[q].finished, fed |-> plants[q].fed]
                  /\ plants[q].started \in Int)' /\ Watered(K, q, d)' /\ Passed(K, q)'
    BY <2>1 DEF Watered, Passed
  <2>3. CASE q \in 1..n
    <3>1. /\ plants[q] = [started |-> plants[q].started, finished |-> plants[q].finished, fed |-> plants[q].fed]
          /\ plants[q].started \in Int /\ Watered(plants[q].fed, q, today) /\ Passed(plants[q].fed, q)
      BY <1>1, <2>3 DEF FamilyInv, GrowInv
    <3>2. Watered(K, q, d) /\ Passed(K, q)
      <4>1. CASE q # p
        <5>1. K = plants[q].fed /\ d = today
          BY <1>4, <1>5, <2>1, <2>3, <4>1
        <5> QED BY <3>1, <5>1
      <4>2. CASE q = p
        <5>1. K = plants[q].fed \cup F /\ d = today
          <6>1. plants'[q] = [started |-> plants[q].started, finished |-> TRUE, fed |-> plants[q].fed \cup F]
            BY <1>5, <4>2
          <6>2. plants'[q].fed = plants[q].fed \cup F
            BY ONLY <6>1
          <6> QED BY <1>4, <2>1, <6>2
        <5>2. \A k \in F : k \in DOMAIN drops /\ drops[k].given \in Int /\ drops[k].given <= today
          BY <1>3 DEF Watered, FamilyInv, FamilyType
        <5>3. Watered(K, q, d)
          BY <1>3, <3>1, <4>2, <5>1, <5>2 DEF Watered
        <5>4. Passed(K, q)
          BY <1>3, <3>1, <4>2, <5>1 DEF Passed
        <5> QED BY <5>3, <5>4
      <4> QED BY <4>1, <4>2
    <3>3. d \in Nat /\ d <= today
      BY <1>3, <1>4, <2>1
    <3>4. Watered(K, q, d)' /\ Passed(K, q)'
      BY <1>9, <2>3, <3>2, <3>3
    <3>5. (/\ plants[q] = [started |-> plants[q].started, finished |-> plants[q].finished, fed |-> plants[q].fed]
           /\ plants[q].started \in Int)'
      <4>1. plants'[q] = plants[q] \/ plants'[q] = [started |-> plants[q].started, finished |-> TRUE, fed |-> plants[q].fed \cup F]
        BY <1>5, <2>3
      <4>2. CASE plants'[q] = plants[q]
        BY <3>1, <4>2, Zenon
      <4>3. CASE plants'[q] = [started |-> plants[q].started, finished |-> TRUE, fed |-> plants[q].fed \cup F]
        <5>1. /\ plants'[q].started = plants[q].started /\ plants'[q].finished = TRUE
              /\ plants'[q].fed = plants[q].fed \cup F
          BY ONLY <4>3
        <5> QED BY <3>1, <4>3, <5>1, Zenon
      <4> QED BY <4>1, <4>2, <4>3
    <3> QED BY <3>4, <3>5
  <2>4. CASE q = n + 1
    <3>1. K = {} /\ plants'[q].started \in Int
      BY <1>3, <1>5, <2>1, <2>4
    <3>2. Watered(K, q, d)' /\ Passed(K, q)'
      BY <3>1 DEF Watered, Passed
    <3> QED BY <1>5, <2>4, <3>1, <3>2
  <2> QED BY <2>3, <2>4
<1>12. ASSUME NEW u \in Viewers, req'[u].pc = "grow"
       PROVE  (/\ req[u].plant \in DOMAIN plants /\ req[u].day \in Nat /\ req[u].day <= today
               /\ Watered(req[u].fed, req[u].plant, req[u].day) /\ Passed(req[u].fed, req[u].plant))'
  <2>1. PICK K, q, d : K = req[u].fed /\ q = req[u].plant /\ d = req[u].day
    OBVIOUS
  <2>2. req'[u] = req[u]
    BY <1>6, <1>7, <1>12
  <2>3. q \in 1..n /\ d \in Nat /\ d <= today /\ Watered(K, q, d) /\ Passed(K, q)
    BY <1>1, <1>12, <2>1, <2>2 DEF FamilyInv, GrowInv
  <2>4. Watered(K, q, d)' /\ Passed(K, q)'
    BY <1>9, <2>3
  <2>5. (req[u].plant \in DOMAIN plants /\ req[u].day \in Nat /\ req[u].day <= today)'
    BY <1>4, <1>5, <2>1, <2>2, <2>3
  <2> QED BY <2>1, <2>2, <2>4, <2>5 DEF Watered, Passed
<1>13. GrowInv'
  BY <1>5, <1>10, <1>11, <1>12 DEF GrowInv
<1>14. TicketInv'
  <2>1. DOMAIN plants \subseteq DOMAIN plants'
    BY <1>1, <1>5
  <2> QED BY <1>4, <1>6, <1>7, <2>1, TicketFrame DEF FamilyInv
<1> QED BY <1>8, <1>13, <1>14 DEF FamilyInv

\* A wish that is made has no ticket, and one that goes gives its ticket back.
LEMMA WishInv ==
  ASSUME FamilyInv, UNCHANGED <<today, written, drops, plants, req, crossed, overnight>>,
         \A w \in DOMAIN wishes' : wishes'[w] = 0 \/ (w \in DOMAIN wishes /\ wishes'[w] = wishes[w])
  PROVE  FamilyInv'
<1>1. FamilyType'
  BY DEF FamilyInv, FamilyType
<1>2. GrowInv'
  <2>1. today' \in Nat /\ today' >= today
    BY DEF FamilyInv, FamilyType
  <2> QED BY <2>1, GrowFrame DEF FamilyInv
<1>3. \A v \in Viewers : req[v].pc = "buy" => req[v].plant # 0
  BY DEF FamilyInv, TicketInv, GrowInv, LastGrows
<1>4. TicketInv'
  <2>1. Family!TicketOnce'
    BY DEF FamilyInv, TicketInv, Family!TicketOnce
  <2>2. ASSUME ~crossed, NEW v \in Viewers, req[v].pc = "buy", NEW w \in DOMAIN wishes'
        PROVE  wishes'[w] # req[v].plant
    BY <1>3, <2>2 DEF FamilyInv, TicketInv
  <2> QED BY <2>1, <2>2 DEF FamilyInv, TicketInv
<1> QED BY <1>1, <1>2, <1>4 DEF FamilyInv

LEMMA BuyReadInv ==
  ASSUME FamilyInv, NEW v \in Viewers, NEW w, Family!BuyRead(v, w)
  PROVE  FamilyInv'
<1>1. PICK t : t = Family!Min(Family!Tickets)
  OBVIOUS
<1>2. /\ UNCHANGED <<today, written, drops, plants, wishes, overnight>>
      /\ req' = [req EXCEPT ![v] = [Family!Resting EXCEPT !.pc = "buy", !.plant = t, !.wish = w]]
      /\ (~crossed' => ~crossed /\ \A u \in Viewers : req[u].pc # "buy") /\ Family!Tickets # {}
  BY <1>1 DEF Family!BuyRead, Family!records
<1>3. t \in DOMAIN plants /\ \A x \in DOMAIN wishes : wishes[x] # t
  <2>1. Family!Tickets \subseteq Nat
    BY DEF Family!Tickets, FamilyInv, GrowInv, LastGrows
  <2>2. \E x \in Family!Tickets : \A y \in Family!Tickets : x <= y
    BY <1>2, <2>1, LeastOne
  <2>3. t \in Family!Tickets
    BY <1>1, <2>2, Zenon DEF Family!Min
  <2> QED BY <2>3 DEF Family!Tickets
<1>4. PICK r : r = [Family!Resting EXCEPT !.pc = "buy", !.plant = t, !.wish = w]
  OBVIOUS
<1>5. r.pc = "buy" /\ r.awards = {} /\ r.plant = t
  BY <1>4 DEF Family!Resting
<1>6. DOMAIN req' = Viewers /\ req'[v] = r /\ \A u \in Viewers : u # v => req'[u] = req[u]
  BY <1>2, <1>4 DEF FamilyInv, FamilyType
<1>7. FamilyType'
  BY <1>2, <1>5, <1>6 DEF FamilyInv, FamilyType
<1>8. GrowInv'
  <2>1. today' \in Nat /\ today' >= today
    BY <1>2 DEF FamilyInv, FamilyType
  <2>2. \A u \in Viewers : req'[u].pc = "grow" => req'[u] = req[u]
    BY <1>5, <1>6
  <2> QED BY <1>2, <2>1, <2>2, GrowFrame DEF FamilyInv
<1>9. TicketInv'
  <2>1. Family!TicketOnce'
    BY <1>2 DEF FamilyInv, TicketInv, Family!TicketOnce
  <2>2. \A u \in Viewers : req'[u].pc = "buy" => req'[u].plant \in DOMAIN plants'
    BY <1>2, <1>3, <1>5, <1>6 DEF FamilyInv, TicketInv
  <2>3. ~crossed' => \A u \in Viewers : req'[u].pc = "buy" => u = v
    BY <1>2, <1>6
  <2>4. req'[v].plant = t /\ \A x \in DOMAIN wishes' : wishes'[x] # t
    BY <1>2, <1>3, <1>5, <1>6
  <2> QED BY <2>1, <2>2, <2>3, <2>4 DEF TicketInv
<1> QED BY <1>7, <1>8, <1>9 DEF FamilyInv

LEMMA BuyInv ==
  ASSUME FamilyInv, NEW v \in Viewers, Family!FamilyBuyWish(v)
  PROVE  FamilyInv'
<1>1. /\ UNCHANGED <<today, written, drops, plants, crossed, overnight>> /\ req[v].pc = "buy"
      /\ wishes' = [w \in DOMAIN wishes |-> IF w = req[v].wish THEN req[v].plant ELSE wishes[w]]
      /\ req' = [req EXCEPT ![v] = Family!Resting]
  BY DEF Family!FamilyBuyWish, Family!records
<1>2. Family!Resting.pc = "idle" /\ Family!Resting.awards = {}
  BY DEF Family!Resting
<1>3. DOMAIN req' = Viewers /\ req'[v] = Family!Resting /\ \A u \in Viewers : u # v => req'[u] = req[u]
  BY <1>1 DEF FamilyInv, FamilyType
<1>4. FamilyType'
  BY <1>1, <1>2, <1>3 DEF FamilyInv, FamilyType
<1>5. GrowInv'
  <2>1. today' \in Nat /\ today' >= today
    BY <1>1 DEF FamilyInv, FamilyType
  <2>2. \A u \in Viewers : req'[u].pc = "grow" => req'[u] = req[u]
    BY <1>2, <1>3
  <2> QED BY <1>1, <2>1, <2>2, GrowFrame DEF FamilyInv
<1>6. TicketInv'
  <2>1. PICK t : t = req[v].plant
    OBVIOUS
  <2>2. DOMAIN wishes' = DOMAIN wishes
    BY <1>1
  <2>3. \A w \in DOMAIN wishes : IF w = req[v].wish THEN wishes'[w] = t ELSE wishes'[w] = wishes[w]
    BY <1>1, <2>1
  <2>4. ~crossed => \A w \in DOMAIN wishes : wishes[w] # t
    BY <1>1, <2>1 DEF FamilyInv, TicketInv
  <2>5. Family!TicketOnce'
    BY <1>1, <2>2, <2>3, <2>4 DEF FamilyInv, TicketInv, Family!TicketOnce
  <2>6. \A u \in Viewers : req'[u].pc = "buy" => u # v /\ req'[u] = req[u]
    BY <1>2, <1>3
  <2>7. ~crossed => \A u \in Viewers : req'[u].pc # "buy"
    BY <1>1, <2>6 DEF FamilyInv, TicketInv
  <2> QED BY <1>1, <2>5, <2>6, <2>7 DEF FamilyInv, TicketInv
<1> QED BY <1>4, <1>5, <1>6 DEF FamilyInv

LEMMA FamilyInvNext ==
  ASSUME FamilyInv, Family!FamilyNext
  PROVE  FamilyInv'
<1>0. today \in Nat /\ today >= today /\ written \subseteq Nat
  BY DEF FamilyInv, FamilyType
<1>1. ASSUME UNCHANGED Family!ledger, UNCHANGED <<today, written>> PROVE FamilyInv'
  BY <1>0, <1>1, RecordInv
<1>2. ASSUME NEW s, Family!CreateRoutine(s) PROVE FamilyInv'
  BY <1>1, <1>2 DEF Family!CreateRoutine
<1>3. ASSUME NEW r, Family!DeleteRoutine(r) PROVE FamilyInv'
  BY <1>1, <1>3 DEF Family!DeleteRoutine
<1>4. ASSUME NEW r, NEW s, NEW a, Family!UpdateRoutine(r, s, a) PROVE FamilyInv'
  BY <1>1, <1>4 DEF Family!UpdateRoutine
<1>5. ASSUME NEW r, NEW d, Family!SetRoutineCheck(r, d) \/ Family!ClearRoutineCheck(r, d) PROVE FamilyInv'
  BY <1>1, <1>5 DEF Family!SetRoutineCheck, Family!ClearRoutineCheck
<1>6. ASSUME NEW d \in Family!Days, Family!WriteEntry(d) \/ Family!RemoveEntry(d) PROVE FamilyInv'
  <2>1. d \in Nat
    BY DaysAssumption DEF Family!Days
  <2>2. UNCHANGED <<today, Family!ledger>> /\ written' \subseteq written \cup {d}
    BY <1>6 DEF Family!WriteEntry, Family!RemoveEntry
  <2>3. written' \subseteq Nat
    BY <1>0, <2>1, <2>2
  <2> QED BY <1>0, <2>2, <2>3, RecordInv
<1>7. ASSUME NEW q, Family!OtherRecords(q) PROVE FamilyInv'
  BY <1>1, <1>7 DEF Family!OtherRecords
<1>8. CASE Family!NextFamilyDay
  <2>1. UNCHANGED <<written, Family!ledger>> /\ today' = today + 1
    BY <1>8 DEF Family!NextFamilyDay
  <2> QED BY <1>0, <2>1, RecordInv
<1>9. CASE Family!SaveWish
  <2>1. /\ UNCHANGED <<today, written, drops, plants, req, crossed, overnight>>
        /\ wishes' = Family!Put(wishes, Family!FamilyId(wishes), 0)
    BY <1>9 DEF Family!SaveWish, Family!records
  <2>2. \A w \in DOMAIN wishes' : wishes'[w] = 0 \/ (w \in DOMAIN wishes /\ wishes'[w] = wishes[w])
    BY <2>1 DEF Family!Put
  <2> QED BY <2>1, <2>2, WishInv
<1>10. ASSUME NEW w, Family!DeleteWish(w) PROVE FamilyInv'
  <2>1. /\ UNCHANGED <<today, written, drops, plants, req, crossed, overnight>> /\ wishes' = Family!Drop(wishes, w)
    BY <1>10 DEF Family!DeleteWish, Family!records
  <2>2. \A x \in DOMAIN wishes' : x \in DOMAIN wishes /\ wishes'[x] = wishes[x]
    BY <2>1 DEF Family!Drop
  <2> QED BY <2>1, <2>2, WishInv
<1>11. CASE Family!FamilyRenamePlant
  <2>1. /\ UNCHANGED <<today, written, drops, wishes, req, crossed, overnight>> /\ Family!Growing = {}
        /\ plants' = Family!Put(plants, Family!FamilyId(plants), Family!Seed(today))
    BY <1>11 DEF Family!FamilyRenamePlant, Family!records
  <2>2. DOMAIN req' = Viewers /\ \A v \in Viewers : \A a \in req'[v].awards : a[2].day \in Int
    BY <2>1 DEF FamilyInv, FamilyType
  <2> QED BY <2>1, <2>2, SowInv
<1> QED BY <1>2, <1>3, <1>4, <1>5, <1>6, <1>7, <1>8, <1>9, <1>10, <1>11,
           ReadInv, AwardInv, GrowReadInv, GrowNextInv, BuyReadInv, BuyInv DEF Family!FamilyNext

\* No drop waters two plants, and no grown plant buys two wishes (family.go),
\* for any number of requests, plants, wishes and days.
THEOREM FamilyFair == MCSpec => []FamilySound
<1>1. MCInit => FamilyInv
  BY FamilyInvInit DEF MCInit
<1>2. FamilyInv /\ [MCNext]_allVars => FamilyInv'
  <2> SUFFICES ASSUME FamilyInv, [MCNext]_allVars PROVE FamilyInv'
    OBVIOUS
  <2>1. CASE Family!FamilyNext
    BY <2>1, FamilyInvNext
  <2>2. CASE UNCHANGED familyVars
    <3>1. UNCHANGED <<today, written, drops, plants, wishes, req, crossed, overnight>>
      BY <2>2 DEF familyVars
    <3>2. today' \in Nat /\ today' >= today /\ written' \subseteq Nat
      BY <3>1 DEF FamilyInv, FamilyType
    <3> QED BY <3>1, <3>2, RecordInv DEF Family!ledger
  <2>3. Family!FamilyNext \/ UNCHANGED familyVars
    BY DEF MCNext, allVars
  <2> QED BY <2>1, <2>2, <2>3
<1>3. FamilyInv => FamilySound
  <2> SUFFICES ASSUME FamilyInv PROVE FamilySound
    OBVIOUS
  <2>1. ASSUME ~overnight, NEW p \in DOMAIN plants, NEW q \in DOMAIN plants, p < q,
               NEW k \in plants[p].fed \cap plants[q].fed
        PROVE  drops[k].day > drops[k].given
    <3>1. /\ Watered(plants[p].fed, p, today) /\ Passed(plants[p].fed, p)
          /\ Watered(plants[q].fed, q, today) /\ plants[q].started \in Int
      BY DEF FamilyInv, GrowInv
    <3>2. drops[k].day >= plants[q].started /\ k \in DOMAIN drops
      BY <3>1, <2>1 DEF Watered
    <3>3. drops[k].day \in Int /\ drops[k].given \in Int
      BY <3>2 DEF FamilyInv, FamilyType
    <3>4. q > p
      BY <2>1 DEF FamilyInv, GrowInv, LastGrows
    <3>5. drops[k].day <= drops[k].given => drops[k].day < plants[q].started
      BY <2>1, <3>1, <3>4 DEF Passed
    <3> QED BY <3>1, <3>2, <3>3, <3>5
  <2>2. DOMAIN plants \subseteq Nat
    BY DEF FamilyInv, GrowInv, LastGrows
  <2>3. Family!DropsFeedOnce
    <3>1. ASSUME NEW p \in DOMAIN plants, NEW q \in DOMAIN plants, p # q PROVE p < q \/ q < p
      BY <2>2, <3>1
    <3> QED BY <2>1, <3>1 DEF Family!DropsFeedOnce
  <2> QED BY <2>3 DEF FamilySound, FamilyInv, TicketInv
<1> QED BY <1>1, <1>2, <1>3, PTL DEF MCSpec

-----------------------------------------------------------------------------
(***************************************************************************)
(* Care records.                                                           *)
(***************************************************************************)

\* Cardinality means the same in the instance.
LEMMA CareCount == \A S : Care!Cardinality(S) = Cardinality(S)
  BY DEF Care!Cardinality, Cardinality

\* Equal records of an export are told apart by their number.
LEMMA SourcesDiffer ==
  ASSUME NEW i \in DOMAIN CareExport, NEW j \in DOMAIN CareExport, i # j
  PROVE  Care!SourceOfRecord(i) # Care!SourceOfRecord(j)
<1>1. DOMAIN CareExport = 1..2 /\ \A k \in 1..2 : CareExport[k] = [kind |-> CareExport[k].kind, at |-> CareExport[k].at]
  BY DEF CareExport
<1>2. ASSUME NEW a \in 1..2, NEW b \in 1..2, a < b, Care!SourceOfRecord(a) = Care!SourceOfRecord(b)
      PROVE  FALSE
  <2> DEFINE A(x) == {k \in 1..x : CareExport[k] = CareExport[x]}
  <2>1. \A x : Care!SourceOfRecord(x) = <<CareExport[x].kind, CareExport[x].at, Cardinality(A(x))>>
    BY CareCount DEF Care!SourceOfRecord
  <2>2. CareExport[a].kind = CareExport[b].kind /\ CareExport[a].at = CareExport[b].at /\ Cardinality(A(a)) = Cardinality(A(b))
    <3> HIDE DEF A
    <3> QED BY <1>2, <2>1
  <2>3. CareExport[a] = CareExport[b]
    BY <1>1, <2>2
  <2>4. A(a) \cup {b} \in SUBSET A(b) /\ b \notin A(a)
    BY <1>2, <2>3
  <2>5. IsFiniteSet(A(a)) /\ IsFiniteSet(A(b))
    <3>1. A(a) \in SUBSET (1..a) /\ A(b) \in SUBSET (1..b) /\ a \in Int /\ b \in Int
      OBVIOUS
    <3>2. IsFiniteSet(1..a) /\ IsFiniteSet(1..b)
      BY <3>1, FS_Interval
    <3> HIDE DEF A
    <3> QED BY <3>1, <3>2, FS_Subset
  <2> HIDE DEF A
  <2>6. Cardinality(A(a)) \in Nat /\ Cardinality(A(a) \cup {b}) = Cardinality(A(a)) + 1 /\ Cardinality(A(b)) \in Nat
    BY <2>4, <2>5, FS_AddElement, FS_CardinalityType
  <2>7. Cardinality(A(a) \cup {b}) <= Cardinality(A(b))
    BY <2>4, <2>5, FS_Subset
  <2> QED BY <2>2, <2>6, <2>7
<1> QED BY <1>1, <1>2

-----------------------------------------------------------------------------

CareLog(l) == l = [kind |-> l.kind, at |-> l.at, foods |-> l.foods, meal |-> l.meal, source |-> l.source]

\* The meals there are are the plan's, under numbers of theirs.
PlannedMeals(f) == DOMAIN f \subseteq Nat /\ \A m \in DOMAIN f : f[m] \in {MealsOfDay[x] : x \in DOMAIN MealsOfDay}

\* Which meals relink-solids has given away.
RelinkInv ==
  /\ relink = [pc |-> relink.pc, todo |-> relink.todo, taken |-> relink.taken, plan |-> relink.plan]
  /\ PlannedMeals(relink.plan)
  /\ relink.pc = "run" => \A x \in DOMAIN linked : linked[x] \in relink.taken
  /\ Care!RelinkDistinct

RecordsInv ==
  /\ \A i \in DOMAIN logs : CareLog(logs[i])
  /\ PlannedMeals(meals)
  /\ Care!LinksLive /\ Care!ImportOnce

CareInv == RelinkInv /\ RecordsInv

LEMMA CareInvInit == Care!CareInit => CareInv
<1> SUFFICES ASSUME Care!CareInit PROVE CareInv
  OBVIOUS
<1>1. PICK f : logs = [i \in 1..2 |-> [kind |-> "solids", at |-> i, foods |-> f, meal |-> 0, source |-> <<>>]]
  BY DEF Care!CareInit, Care!NoMeal, Care!ByHand
<1>2. meals = MealsOfDay /\ linked = <<>> /\ relink = [pc |-> "idle", todo |-> <<>>, taken |-> {}, plan |-> <<>>]
  BY DEF Care!CareInit, Care!NoRun
<1>3. DOMAIN logs = 1..2 /\ \A i \in 1..2 : CareLog(logs[i]) /\ logs[i].meal = 0 /\ logs[i].source = <<>>
  BY <1>1 DEF CareLog
<1>4. PlannedMeals(meals) /\ PlannedMeals(<<>>)
  BY <1>2 DEF PlannedMeals, MealsOfDay
<1>5. RelinkInv
  <2>1. relink.plan = <<>> /\ relink.pc = "idle"
    BY <1>2
  <2> QED BY <1>2, <1>4, <2>1 DEF RelinkInv, Care!RelinkDistinct
<1>6. RecordsInv
  BY <1>3, <1>4 DEF RecordsInv, Care!LinksLive, Care!ImportOnce, Care!NoMeal, Care!ByHand
<1> QED BY <1>5, <1>6 DEF CareInv

\* What relink-solids picks is free, if it picks a meal at all.
LEMMA BestFree ==
  ASSUME RelinkInv, NEW names
  PROVE  Care!Best(names) = 0 \/ Care!Best(names) \in DOMAIN relink.plan \ relink.taken
<1> DEFINE common(m) == Care!Cardinality(relink.plan[m] \cap names)
           some == {m \in Care!Candidates : common(m) > 0}
           most == {m \in some : \A n \in some : common(n) <= common(m)}
<1>1. some \subseteq DOMAIN relink.plan \ relink.taken /\ most \subseteq some
  BY DEF Care!Candidates
<1>2. some \subseteq Nat
  BY <1>1 DEF RelinkInv, PlannedMeals
<1>3. Care!Best(names) = IF some = {} THEN 0 ELSE Care!Min(most)
  BY DEF Care!Best, Care!NoMeal
<1>4. ASSUME NEW m \in some PROVE common(m) \in Nat /\ common(m) <= 2
  <2>1. PICK K : K = relink.plan[m]
    OBVIOUS
  <2>2. K = {"rice", "beef"} \/ K = {"rice", "oat"}
    BY <1>1, <2>1 DEF RelinkInv, PlannedMeals, MealsOfDay
  <2>3. IsFiniteSet(K) /\ Cardinality(K) = 2
    <3>1. ASSUME NEW w, w # "rice" PROVE IsFiniteSet({"rice"} \cup {w}) /\ Cardinality({"rice"} \cup {w}) = 2
      <4>1. IsFiniteSet({"rice"}) /\ Cardinality({"rice"}) = 1 /\ w \notin {"rice"}
        BY <3>1, FS_Singleton
      <4>2. IsFiniteSet({"rice"} \cup {w}) /\ Cardinality({"rice"} \cup {w}) = Cardinality({"rice"}) + 1
        BY ONLY <4>1, FS_AddElement
      <4> QED BY ONLY <4>1, <4>2
    <3>2. CASE K = {"rice", "beef"}
      <4>1. K = {"rice"} \cup {"beef"} /\ "beef" # "rice"
        BY <3>2
      <4> QED BY <3>1, <4>1
    <3>3. CASE K = {"rice", "oat"}
      <4>1. K = {"rice"} \cup {"oat"} /\ "oat" # "rice"
        BY <3>3
      <4> QED BY <3>1, <4>1
    <3> QED BY <2>2, <3>2, <3>3
  <2>4. K \cap names \in SUBSET K
    OBVIOUS
  <2>5. Cardinality(K \cap names) \in Nat /\ Cardinality(K \cap names) <= 2
    BY <2>3, <2>4, FS_Subset, FS_CardinalityType
  <2> QED BY <2>1, <2>5, CareCount
<1>5. ASSUME some # {} PROVE most # {}
  <2> DEFINE S == {common(m) : m \in some}
  <2> HIDE DEF common, some
  <2>1. S \in SUBSET Nat /\ S # {} /\ \A y \in S : y <= 2
    BY <1>4, <1>5
  <2>2. PICK x \in S : \A y \in S : y <= x
    <3> HIDE DEF S
    <3> QED BY <2>1, GreatestOne
  <2>3. PICK m \in some : x = common(m)
    BY <2>2
  <2>4. \A n \in some : common(n) <= common(m)
    BY <2>2, <2>3
  <2> QED BY <2>4
<1>6. CASE some # {}
  <2> HIDE DEF some, most
  <2>1. PICK x \in most : \A y \in most : x <= y
    <3>1. most \in SUBSET Nat /\ most # {}
      BY <1>1, <1>2, <1>5, <1>6
    <3> QED BY <3>1, LeastOne
  <2>2. Care!Min(most) \in most
    BY <2>1, Zenon DEF Care!Min
  <2> QED BY <1>1, <1>3, <1>6, <2>2
<1>7. CASE some = {}
  <2> HIDE DEF some, most
  <2> QED BY <1>3, <1>7
<1> QED BY <1>6, <1>7

LEMMA RelinkFrame ==
  ASSUME RelinkInv, relink' = relink, DOMAIN linked' \subseteq DOMAIN linked,
         \A x \in DOMAIN linked' : linked'[x] = linked[x]
  PROVE  RelinkInv'
BY DEF RelinkInv, Care!RelinkDistinct, PlannedMeals

\* Rows written by hand, or changed in their time, foods or link to a meal
\* there is.
LEMMA RecordsFrame ==
  ASSUME RecordsInv, meals' = meals,
         \A i \in DOMAIN logs' :
           /\ CareLog(logs'[i])
           /\ logs'[i].source = <<>> \/ (i \in DOMAIN logs /\ logs'[i].source = logs[i].source)
           /\ logs'[i].meal = 0 \/ logs'[i].meal \in DOMAIN meals
  PROVE  RecordsInv'
<1>1. Care!LinksLive'
  BY DEF Care!LinksLive, Care!NoMeal
<1>2. Care!ImportOnce'
  BY DEF RecordsInv, Care!ImportOnce, Care!ByHand
<1>3. PlannedMeals(meals)' /\ \A i \in DOMAIN logs' : CareLog(logs[i])'
  BY DEF RecordsInv, PlannedMeals, CareLog
<1> QED BY <1>1, <1>2, <1>3 DEF RecordsInv

\* A record as it was.
LEMMA SameLog ==
  ASSUME RecordsInv, NEW i \in DOMAIN logs
  PROVE  CareLog(logs[i]) /\ (logs[i].meal = 0 \/ logs[i].meal \in DOMAIN meals)
BY DEF RecordsInv, Care!LinksLive, Care!NoMeal

LEMMA ByHandInv ==
  ASSUME CareInv, NEW i, NEW at, NEW foods, NEW meal, NEW kind,
         Care!CareAdd(kind, at, foods, meal) \/ (i \in DOMAIN logs /\ Care!CareUpdate(i, at, foods, meal))
         \/ Care!careApplySolids \/ Care!CareDelete(i)
  PROVE  CareInv'
<1> USE DEF CareInv
<1>1. CASE Care!CareAdd(kind, at, foods, meal)
  <2>1. PICK n, l : /\ l = [kind |-> kind, at |-> at, foods |-> {}, meal |-> 0, source |-> <<>>]
                    /\ logs' = Care!SetLog(n, l) /\ UNCHANGED <<meals, relink, linked>>
    BY <1>1 DEF Care!CareAdd, Care!NoMeal, Care!ByHand
  <2>2. CareLog(l) /\ l.meal = 0 /\ l.source = <<>>
    BY <2>1 DEF CareLog
  <2>3. \A x \in DOMAIN logs' : logs'[x] = l \/ (x \in DOMAIN logs /\ logs'[x] = logs[x])
    BY <2>1 DEF Care!SetLog
  <2>4. RecordsInv'
    BY <2>1, <2>2, <2>3, SameLog, RecordsFrame
  <2> QED BY <2>1, <2>4, RelinkFrame
<1>2. CASE i \in DOMAIN logs /\ Care!CareUpdate(i, at, foods, meal)
  <2>1. logs' = [logs EXCEPT ![i].at = at] /\ UNCHANGED <<meals, relink, linked>>
    BY <1>2 DEF Care!CareUpdate
  <2>2. CareLog(logs[i])
    BY <1>2, SameLog
  <2>3. CareLog(logs'[i]) /\ logs'[i].meal = logs[i].meal /\ logs'[i].source = logs[i].source
    BY <1>2, <2>1, <2>2 DEF CareLog
  <2>4. DOMAIN logs' = DOMAIN logs /\ \A x \in DOMAIN logs : x # i => logs'[x] = logs[x]
    BY <2>1
  <2>5. RecordsInv'
    BY <1>2, <2>1, <2>3, <2>4, SameLog, RecordsFrame
  <2> QED BY <2>1, <2>5, RelinkFrame
<1>3. CASE Care!careApplySolids
  <2>1. PICK n, f, m : n = adding.id /\ f = adding.foods /\ m = adding.meal
    OBVIOUS
  <2>2. /\ UNCHANGED <<meals, relink>> /\ linked' = [x \in DOMAIN linked \ {n} |-> linked[x]]
        /\ logs' = IF n \in DOMAIN logs /\ (m = 0 \/ m \in DOMAIN meals)
                     THEN [logs EXCEPT ![n].foods = f, ![n].meal = m] ELSE logs
    BY <1>3, <2>1 DEF Care!careApplySolids, Care!MealThere, Care!NoMeal
  <2>3. RelinkInv'
    BY <2>2, RelinkFrame
  <2>4. CASE n \in DOMAIN logs /\ (m = 0 \/ m \in DOMAIN meals)
    <3>1. CareLog(logs[n])
      BY <2>4, SameLog
    <3>2. CareLog(logs'[n]) /\ logs'[n].meal = m /\ logs'[n].source = logs[n].source
      BY <2>2, <2>4, <3>1 DEF CareLog
    <3>3. DOMAIN logs' = DOMAIN logs /\ \A x \in DOMAIN logs : x # n => logs'[x] = logs[x]
      BY <2>2, <2>4
    <3>4. RecordsInv'
      BY <2>2, <2>4, <3>2, <3>3, SameLog, RecordsFrame
    <3> QED BY <2>3, <3>4
  <2>5. CASE logs' = logs
    <3>1. RecordsInv'
      BY <2>2, <2>5, SameLog, RecordsFrame
    <3> QED BY <2>3, <3>1
  <2> QED BY <2>2, <2>4, <2>5
<1>4. CASE Care!CareDelete(i)
  <2>1. /\ logs' = [x \in DOMAIN logs \ {i} |-> logs[x]] /\ linked' = [x \in DOMAIN linked \ {i} |-> linked[x]]
        /\ UNCHANGED <<meals, relink>>
    BY <1>4 DEF Care!CareDelete
  <2>2. RecordsInv'
    BY <2>1, SameLog, RecordsFrame
  <2> QED BY <2>1, <2>2, RelinkFrame
<1> QED BY <1>1, <1>2, <1>3, <1>4

LEMMA ReplanInv ==
  ASSUME CareInv, NEW m \in Care!MealIds, NEW new \in Care!MealIds, Care!Replan(m, new)
  PROVE  CareInv'
<1>1. /\ m \in DOMAIN meals /\ relink' = relink
      /\ meals' = [x \in (DOMAIN meals \ {m}) \cup {new} |-> IF x = new THEN meals[m] ELSE meals[x]]
      /\ logs' = [i \in DOMAIN logs |-> IF logs[i].meal = m THEN [logs[i] EXCEPT !.meal = 0] ELSE logs[i]]
      /\ linked' = [x \in {y \in DOMAIN linked : linked[y] # m} |-> linked[x]]
  BY DEF Care!Replan, Care!NoMeal
<1>2. new \in Nat
  <2>1. PICK c : c = 2 * Cardinality(DOMAIN MealsOfDay)
    OBVIOUS
  <2>2. new \in 1..c
    BY <2>1, CareCount DEF Care!MealIds
  <2>3. PICK b \in Nat : DOMAIN MealsOfDay = 1..b
    BY DEF MealsOfDay
  <2>4. c \in Nat
    <3>1. IsFiniteSet(1..b)
      BY FS_Interval
    <3>2. Cardinality(1..b) \in Nat
      BY <3>1, FS_CardinalityType
    <3> QED BY <2>1, <2>3, <3>2
  <2> QED BY <2>2, <2>4
<1>3. RelinkInv'
  BY <1>1, RelinkFrame DEF CareInv
<1>4. PlannedMeals(meals)'
  BY <1>1, <1>2 DEF CareInv, RecordsInv, PlannedMeals
<1>5. ASSUME NEW i \in DOMAIN logs
      PROVE  /\ CareLog(logs'[i]) /\ logs'[i].source = logs[i].source
             /\ logs'[i].meal = 0 \/ (logs'[i].meal \in DOMAIN meals /\ logs'[i].meal # m)
  <2>1. CareLog(logs[i]) /\ (logs[i].meal = 0 \/ logs[i].meal \in DOMAIN meals)
    BY SameLog DEF CareInv
  <2>2. CASE logs[i].meal # m
    BY <1>1, <2>1, <2>2
  <2>3. CASE logs[i].meal = m
    <3>1. logs'[i] = [logs[i] EXCEPT !.meal = 0]
      BY <1>1, <2>3
    <3> QED BY <2>1, <3>1 DEF CareLog
  <2> QED BY <2>2, <2>3
<1>6. DOMAIN logs' = DOMAIN logs /\ DOMAIN meals \ {m} \subseteq DOMAIN meals'
  BY <1>1
<1>7. Care!LinksLive'
  BY <1>5, <1>6 DEF Care!LinksLive, Care!NoMeal
<1>8. Care!ImportOnce'
  BY <1>5, <1>6 DEF CareInv, RecordsInv, Care!ImportOnce
<1>9. \A i \in DOMAIN logs' : CareLog(logs[i])'
  BY <1>5, <1>6 DEF CareLog
<1> QED BY <1>3, <1>4, <1>7, <1>8, <1>9 DEF CareInv, RecordsInv

LEMMA CareImportInv ==
  ASSUME CareInv, Care!CareImport
  PROVE  CareInv'
<1> DEFINE row(i) == [kind |-> CareExport[i].kind, at |-> CareExport[i].at, foods |-> {}, meal |-> 0,
                      source |-> Care!SourceOfRecord(i)]
<1>1. PICK new : new = {i \in DOMAIN CareExport : ~Care!Known(i)}
  OBVIOUS
<1> DEFINE id(i) == Care!CareId - 1 + Care!Cardinality({j \in new : j <= i})
<1>2. /\ UNCHANGED <<meals, relink, linked>>
      /\ logs' = [x \in DOMAIN logs \cup {id(i) : i \in new} |->
                    IF x \in DOMAIN logs THEN logs[x] ELSE row(CHOOSE i \in new : id(i) = x)]
  BY <1>1 DEF Care!CareImport, Care!NoMeal
<1>3. ASSUME NEW x \in DOMAIN logs', x \notin DOMAIN logs
      PROVE  \E i \in new : id(i) = x /\ logs'[x] = row(i)
  <2> HIDE DEF row, id
  <2>1. \E i \in new : id(i) = x
    BY <1>2, <1>3
  <2>2. PICK i : i = CHOOSE j \in new : id(j) = x
    OBVIOUS
  <2>3. i \in new /\ id(i) = x
    BY <2>1, <2>2, Zenon
  <2>4. logs'[x] = row(i)
    BY <1>2, <1>3, <2>2
  <2> QED BY <2>3, <2>4
<1>4. ASSUME NEW x \in DOMAIN logs PROVE x \in DOMAIN logs' /\ logs'[x] = logs[x]
  BY <1>2
<1>5. \A i : row(i).source = Care!SourceOfRecord(i) /\ row(i).meal = 0 /\ CareLog(row(i))
  BY DEF CareLog
<1> HIDE DEF row, id
<1>6. ASSUME NEW i \in new, NEW x \in DOMAIN logs PROVE logs[x].source # Care!SourceOfRecord(i)
  <2>1. i \in DOMAIN CareExport /\ ~Care!Known(i)
    BY <1>1
  <2> QED BY <2>1 DEF Care!Known
<1>7. new \subseteq DOMAIN CareExport
  BY <1>1
<1>8. Care!ImportOnce'
  <2>1. ASSUME NEW x \in DOMAIN logs', NEW y \in DOMAIN logs', x # y, logs'[x].source # <<>>
        PROVE  logs'[x].source # logs'[y].source
    <3>1. CASE x \in DOMAIN logs /\ y \in DOMAIN logs
      BY <1>4, <2>1, <3>1 DEF CareInv, RecordsInv, Care!ImportOnce, Care!ByHand
    <3>2. CASE x \in DOMAIN logs /\ y \notin DOMAIN logs
      BY <1>3, <1>4, <1>5, <1>6, <3>2
    <3>3. CASE x \notin DOMAIN logs /\ y \in DOMAIN logs
      BY <1>3, <1>4, <1>5, <1>6, <3>3
    <3>4. CASE x \notin DOMAIN logs /\ y \notin DOMAIN logs
      <4>1. PICK i \in new : id(i) = x /\ logs'[x] = row(i)
        BY <1>3, <3>4
      <4>2. PICK j \in new : id(j) = y /\ logs'[y] = row(j)
        BY <1>3, <3>4
      <4>3. i # j
        BY <2>1, <4>1, <4>2
      <4>4. Care!SourceOfRecord(i) # Care!SourceOfRecord(j)
        BY <1>7, <4>3, SourcesDiffer
      <4> QED BY <1>5, <4>1, <4>2, <4>4
    <3> QED BY <3>1, <3>2, <3>3, <3>4
  <2> QED BY <2>1 DEF Care!ImportOnce, Care!ByHand
<1>9. ASSUME NEW x \in DOMAIN logs'
      PROVE  CareLog(logs'[x]) /\ (logs'[x].meal = 0 \/ logs'[x].meal \in DOMAIN meals)
  BY <1>3, <1>4, <1>5, SameLog DEF CareInv
<1>10. RecordsInv'
  <2>1. Care!LinksLive'
    BY <1>2, <1>9 DEF Care!LinksLive, Care!NoMeal
  <2>2. PlannedMeals(meals)' /\ \A x \in DOMAIN logs' : CareLog(logs[x])'
    BY <1>2, <1>9 DEF CareInv, RecordsInv, PlannedMeals, CareLog
  <2> QED BY <1>8, <2>1, <2>2 DEF RecordsInv
<1> QED BY <1>2, <1>10, RelinkFrame DEF CareInv

LEMMA RelinkOneInv ==
  ASSUME CareInv, Care!RelinkOne
  PROVE  CareInv'
<1>1. PICK i, names, m : i = Care!Head(relink.todo)[1] /\ names = Care!Head(relink.todo)[2] /\ m = Care!Best(names)
  OBVIOUS
<1>2. m = 0 \/ m \in DOMAIN relink.plan \ relink.taken
  BY <1>1, BestFree DEF CareInv
<1>3. CASE relink' = Care!NoRun /\ UNCHANGED <<logs, linked, meals>>
  <2>1. relink' = [pc |-> "idle", todo |-> <<>>, taken |-> {}, plan |-> <<>>]
    BY <1>3 DEF Care!NoRun
  <2>2. relink'.plan = <<>> /\ relink'.pc = "idle" /\ PlannedMeals(<<>>)
    BY <2>1 DEF PlannedMeals
  <2>3. RelinkInv'
    BY <1>3, <2>1, <2>2 DEF CareInv, RelinkInv, Care!RelinkDistinct, PlannedMeals
  <2>4. RecordsInv'
    BY <1>3, SameLog, RecordsFrame DEF CareInv
  <2> QED BY <2>3, <2>4 DEF CareInv
<1>4. CASE /\ i \in DOMAIN logs /\ (m = 0 \/ m \in DOMAIN meals) /\ meals' = meals /\ relink.pc = "run"
           /\ logs' = [logs EXCEPT ![i].foods = names, ![i].meal = IF m = 0 THEN @ ELSE m]
           /\ linked' = IF m = 0 THEN linked ELSE [x \in DOMAIN linked \cup {i} |-> IF x = i THEN m ELSE linked[x]]
           /\ relink' = [relink EXCEPT !.todo = Care!Tail(@), !.taken = @ \cup ({m} \ {0})]
  <2>1. CareLog(logs[i])
    BY <1>4, SameLog DEF CareInv
  <2>2. CareLog(logs'[i]) /\ logs'[i].source = logs[i].source /\ (logs'[i].meal = logs[i].meal \/ logs'[i].meal = m)
    BY <1>4, <2>1 DEF CareLog
  <2>3. DOMAIN logs' = DOMAIN logs /\ \A x \in DOMAIN logs : x # i => logs'[x] = logs[x]
    BY <1>4
  <2>4. RecordsInv'
    BY <1>4, <2>2, <2>3, SameLog, RecordsFrame DEF CareInv
  <2>5. relink = [pc |-> relink.pc, todo |-> relink.todo, taken |-> relink.taken, plan |-> relink.plan]
    BY DEF CareInv, RelinkInv
  <2>6. PICK t : relink' = [pc |-> "run", todo |-> t, taken |-> relink.taken \cup ({m} \ {0}), plan |-> relink.plan]
    BY <1>4, <2>5
  <2>7. relink'.pc = "run" /\ relink'.todo = t /\ relink'.plan = relink.plan /\ relink'.taken = relink.taken \cup ({m} \ {0})
    BY <2>6
  <2>8. ASSUME NEW x \in DOMAIN linked' PROVE linked'[x] \in relink'.taken
    BY <1>4, <2>7 DEF CareInv, RelinkInv
  <2>9. Care!RelinkDistinct'
    <3>1. ASSUME NEW x \in DOMAIN linked', NEW y \in DOMAIN linked', x # y PROVE linked'[x] # linked'[y]
      <4>1. CASE m = 0
        BY <1>4, <3>1, <4>1 DEF CareInv, RelinkInv, Care!RelinkDistinct
      <4>2. CASE m # 0
        <5>1. \A z \in DOMAIN linked : linked[z] # m
          BY <1>2, <1>4, <4>2 DEF CareInv, RelinkInv
        <5> QED BY <1>4, <3>1, <4>2, <5>1 DEF CareInv, RelinkInv, Care!RelinkDistinct
      <4> QED BY <4>1, <4>2
    <3> QED BY <3>1 DEF Care!RelinkDistinct
  <2>10. relink' = [pc |-> relink'.pc, todo |-> relink'.todo, taken |-> relink'.taken, plan |-> relink'.plan]
    BY <2>6, <2>7
  <2>11. PlannedMeals(relink.plan)'
    BY <2>7 DEF CareInv, RelinkInv, PlannedMeals
  <2> QED BY <2>4, <2>8, <2>9, <2>10, <2>11 DEF CareInv, RelinkInv
<1>5. CASE /\ relink.pc = "run" /\ UNCHANGED <<logs, linked, meals>>
           /\ relink' = [relink EXCEPT !.todo = Care!Tail(@), !.taken = @ \cup ({m} \ {0})]
  <2>1. relink = [pc |-> relink.pc, todo |-> relink.todo, taken |-> relink.taken, plan |-> relink.plan]
    BY DEF CareInv, RelinkInv
  <2>2. PICK t : relink' = [pc |-> "run", todo |-> t, taken |-> relink.taken \cup ({m} \ {0}), plan |-> relink.plan]
    BY <1>5, <2>1
  <2>3. /\ relink'.pc = "run" /\ relink'.todo = t /\ relink'.plan = relink.plan /\ relink'.taken = relink.taken \cup ({m} \ {0})
        /\ relink' = [pc |-> relink'.pc, todo |-> relink'.todo, taken |-> relink'.taken, plan |-> relink'.plan]
    BY <2>2
  <2>4. RelinkInv'
    BY <1>5, <2>3 DEF CareInv, RelinkInv, Care!RelinkDistinct, PlannedMeals
  <2>5. RecordsInv'
    BY <1>5, SameLog, RecordsFrame DEF CareInv
  <2> QED BY <2>4, <2>5 DEF CareInv
<1> QED BY <1>1, <1>3, <1>4, <1>5 DEF Care!RelinkOne, Care!NoMeal, Care!MealThere

LEMMA RelinkReadInv ==
  ASSUME CareInv, Care!RelinkRead \/ Care!RelinkEnd
  PROVE  CareInv'
<1>1. UNCHANGED <<logs, meals>>
  BY DEF Care!RelinkRead, Care!RelinkEnd
<1>2. RecordsInv'
  BY <1>1, SameLog, RecordsFrame DEF CareInv
<1>3. CASE Care!RelinkRead
  <2>1. PICK t : relink' = [pc |-> "run", todo |-> t, taken |-> {}, plan |-> meals] /\ linked' = <<>>
    BY <1>3, Zenon DEF Care!RelinkRead
  <2>2. relink'.pc = "run" /\ relink'.todo = t /\ relink'.plan = meals /\ relink'.taken = {} /\ DOMAIN linked' = {}
    BY <2>1
  <2>3. RelinkInv'
    BY <2>1, <2>2 DEF CareInv, RecordsInv, RelinkInv, PlannedMeals, Care!RelinkDistinct
  <2> QED BY <1>2, <2>3 DEF CareInv
<1>4. CASE Care!RelinkEnd
  <2>1. relink' = [pc |-> "idle", todo |-> <<>>, taken |-> {}, plan |-> <<>>] /\ linked' = linked
    BY <1>4 DEF Care!NoRun, Care!RelinkEnd
  <2>2. relink'.plan = <<>> /\ relink'.pc = "idle" /\ PlannedMeals(<<>>)
    BY <2>1 DEF PlannedMeals
  <2>3. RelinkInv'
    BY <2>1, <2>2 DEF CareInv, RelinkInv, Care!RelinkDistinct, PlannedMeals
  <2> QED BY <1>2, <2>3 DEF CareInv
<1> QED BY <1>3, <1>4

\* Whatever is edited, replanned, imported and linked in between (care.go,
\* carecmd.go), for any number of records: links point to meals there are,
\* relink-solids gives each meal once and an import repeats nothing.
THEOREM CareRecordsHold == MCSpec => []CareSound
<1>1. MCInit => CareInv
  BY CareInvInit DEF MCInit
<1>2. CareInv /\ [MCNext]_allVars => CareInv'
  <2> SUFFICES ASSUME CareInv, [MCNext]_allVars PROVE CareInv'
    OBVIOUS
  <2>1. ASSUME UNCHANGED <<logs, meals, relink, linked>> PROVE CareInv'
    <3>1. RecordsInv'
      BY <2>1, SameLog, RecordsFrame DEF CareInv
    <3> QED BY <2>1, <3>1, RelinkFrame DEF CareInv
  <2>2. CASE Care!CareNext
    <3>1. CASE Care!ImportRead
      BY <2>1, <3>1 DEF Care!ImportRead
    <3> QED BY <2>2, <3>1, ByHandInv, ReplanInv, CareImportInv, RelinkReadInv, RelinkOneInv DEF Care!CareNext
  <2>3. CASE UNCHANGED careVars
    BY <2>1, <2>3 DEF careVars
  <2>4. Care!CareNext \/ UNCHANGED careVars
    BY DEF MCNext, allVars
  <2> QED BY <2>2, <2>3, <2>4
<1>3. CareInv => CareSound
  BY DEF CareInv, RelinkInv, RecordsInv, CareSound
<1> QED BY <1>1, <1>2, <1>3, PTL DEF MCSpec

-----------------------------------------------------------------------------
(***************************************************************************)
(* The diary.                                                              *)
(***************************************************************************)

LEMMA DiaryCount == \A S : Diary!Cardinality(S) = Cardinality(S)
  BY DEF Diary!Cardinality, Cardinality

DiaryEntry(e) == e = [date |-> e.date, pics |-> e.pics, source |-> e.source, post |-> e.post] /\ e.date \in Int

EntriesInv ==
  /\ \E n \in Nat : DOMAIN entries \subseteq 1..n
  /\ \A i \in DOMAIN entries : DiaryEntry(entries[i])

\* A deletion under way is of a picture nothing shows, but for what was saved
\* meanwhile.
PicturesInv ==
  /\ Diary!PicturesKept
  /\ del = [pc |-> del.pc, pic |-> del.pic]
  /\ del.pc # "idle" => del.pic \notin Diary!Used \ exposed

Cursor(c) == c = <<>> \/ \E d, n \in Int : c = <<d, n>>

\* What the reader has been shown is what is not behind its cursor.
ReaderInv ==
  /\ reader = [cursor |-> reader.cursor, seen |-> reader.seen, stable |-> reader.stable, done |-> reader.done]
  /\ Cursor(reader.cursor) /\ reader.stable \subseteq DOMAIN entries
  /\ \A i \in reader.stable :
       /\ Diary!TimesSeen(reader.seen, i) = IF Diary!BeforeCursor(i, reader.cursor) THEN 0 ELSE 1
       /\ reader.done => ~Diary!BeforeCursor(i, reader.cursor)

DiaryInv == EntriesInv /\ PicturesInv /\ ReaderInv

\* Newer is a strict order, and total.
LEMMA NewerOrder ==
  ASSUME EntriesInv, NEW i \in DOMAIN entries, NEW j \in DOMAIN entries, NEW k \in DOMAIN entries
  PROVE  /\ ~Diary!Newer(i, i)
         /\ i # j => Diary!Newer(i, j) \/ Diary!Newer(j, i)
         /\ Diary!Newer(i, j) => ~Diary!Newer(j, i)
         /\ Diary!Newer(i, j) /\ Diary!Newer(j, k) => Diary!Newer(i, k)
<1>1. \A x \in DOMAIN entries : x \in Nat /\ entries[x].date \in Int
  BY DEF EntriesInv, DiaryEntry
<1>2. PICK a, b, c : a = entries[i].date /\ b = entries[j].date /\ c = entries[k].date
  OBVIOUS
<1>3. a \in Int /\ b \in Int /\ c \in Int /\ i \in Nat /\ j \in Nat /\ k \in Nat
  BY <1>1, <1>2
<1> QED BY <1>2, <1>3 DEF Diary!Newer

LEMMA FiniteDiary ==
  ASSUME EntriesInv, NEW S \in SUBSET DOMAIN entries
  PROVE  IsFiniteSet(S) /\ Cardinality(S) \in Nat
<1>1. PICK n \in Nat : DOMAIN entries \subseteq 1..n
  BY DEF EntriesInv
<1>2. IsFiniteSet(1..n) /\ S \in SUBSET (1..n)
  BY <1>1, FS_Interval
<1>3. IsFiniteSet(S)
  BY <1>2, FS_Subset
<1> QED BY <1>3, FS_CardinalityType

\* The new id is not in use.
LEMMA DiaryIdNew ==
  ASSUME EntriesInv
  PROVE  Diary!DiaryId \in Nat \ {0} /\ \A i \in DOMAIN entries : i < Diary!DiaryId
<1>1. PICK n \in Nat : DOMAIN entries \subseteq 1..n
  BY DEF EntriesInv
<1>2. CASE DOMAIN entries = {}
  BY <1>2 DEF Diary!DiaryId
<1>3. CASE DOMAIN entries # {}
  <2>1. PICK S : S = DOMAIN entries
    OBVIOUS
  <2>2. S \in SUBSET Nat /\ S # {} /\ \A y \in S : y <= n
    BY <1>1, <1>3, <2>1
  <2>3. PICK x \in S : \A y \in S : x >= y
    <3>1. \E x \in S : \A y \in S : y <= x
      BY <2>2, GreatestOne
    <3> QED BY <2>2, <3>1
  <2>4. PICK m : m = Diary!Max(S)
    OBVIOUS
  <2>5. m \in S /\ \A y \in S : m >= y
    BY <2>3, <2>4, Zenon DEF Diary!Max
  <2>6. Diary!DiaryId = m + 1
    BY <1>3, <2>1, <2>4 DEF Diary!DiaryId
  <2> QED BY <2>1, <2>2, <2>5, <2>6
<1> QED BY <1>2, <1>3

\* A page is the newest of what is left, and all of it when it is short.
LEMMA PageIsTop ==
  ASSUME EntriesInv, PageSize \in Nat, NEW rest,
         rest = {i \in DOMAIN entries : Diary!BeforeCursor(i, reader.cursor)}
  PROVE  /\ Diary!Page \subseteq rest
         /\ \A i \in Diary!Page, j \in rest : Diary!Newer(j, i) => j \in Diary!Page
         /\ Diary!Page # {} =>
              /\ Diary!Oldest(Diary!Page) \in Diary!Page
              /\ \A j \in Diary!Page : j = Diary!Oldest(Diary!Page) \/ Diary!Newer(j, Diary!Oldest(Diary!Page))
         /\ Cardinality(Diary!Page) < PageSize => Diary!Page = rest
<1> DEFINE above(i) == {j \in rest : Diary!Newer(j, i)}
           rank(i) == Cardinality(above(i))
<1>1. rest \subseteq DOMAIN entries
  OBVIOUS
<1>2. PICK P : P = Diary!Page
  OBVIOUS
<1>3. P = {i \in rest : rank(i) < PageSize}
  BY <1>2, DiaryCount DEF Diary!Page
<1>4. ASSUME NEW i \in rest PROVE IsFiniteSet(above(i)) /\ rank(i) \in Nat
  <2>1. above(i) \in SUBSET DOMAIN entries
    OBVIOUS
  <2> HIDE DEF above
  <2> QED BY <2>1, FiniteDiary
<1>5. ASSUME NEW i \in rest, NEW j \in rest, Diary!Newer(j, i) PROVE rank(j) < rank(i)
  <2>1. above(j) \cup {j} \in SUBSET above(i) /\ j \notin above(j)
    BY <1>1, <1>5, NewerOrder
  <2> HIDE DEF above
  <2>2. Cardinality(above(j) \cup {j}) = rank(j) + 1
    BY <1>4, <2>1, FS_AddElement
  <2>3. Cardinality(above(j) \cup {j}) <= rank(i)
    BY <1>4, <2>1, FS_Subset
  <2>4. rank(i) \in Nat /\ rank(j) \in Nat
    BY <1>4
  <2> HIDE DEF rank
  <2> QED BY <2>2, <2>3, <2>4
<1> HIDE DEF above, rank
<1>6. P \subseteq rest /\ \A i \in P : rank(i) < PageSize
  BY <1>3
<1>7. ASSUME NEW i \in P, NEW j \in rest, Diary!Newer(j, i) PROVE j \in P
  <2>1. rank(j) < rank(i) /\ rank(i) < PageSize /\ rank(i) \in Nat /\ rank(j) \in Nat
    BY <1>4, <1>5, <1>6, <1>7
  <2> QED BY <1>3, <2>1
<1>8. ASSUME P # {} PROVE \E i \in P : \A j \in P : j = i \/ Diary!Newer(j, i)
  <2> DEFINE S == {rank(i) : i \in P}
  <2>1. S \in SUBSET Nat /\ S # {} /\ \A y \in S : y <= PageSize
    BY <1>4, <1>6, <1>8
  <2>2. PICK x \in S : \A y \in S : y <= x
    <3> HIDE DEF S
    <3> QED BY <2>1, GreatestOne
  <2>3. PICK i \in P : x = rank(i)
    BY <2>2
  <2>4. ASSUME NEW j \in P, j # i PROVE Diary!Newer(j, i)
    <3>1. rank(j) <= rank(i) /\ rank(i) \in Nat /\ rank(j) \in Nat
      BY <1>4, <1>6, <2>2, <2>3
    <3>2. ~Diary!Newer(i, j)
      <4>1. Diary!Newer(i, j) => rank(i) < rank(j)
        BY <1>5, <1>6
      <4> QED BY <3>1, <4>1
    <3>3. i \in DOMAIN entries /\ j \in DOMAIN entries
      BY <1>1, <1>6
    <3> QED BY <2>4, <3>2, <3>3, NewerOrder
  <2> QED BY <2>4
<1>9. ASSUME P # {} PROVE Diary!Oldest(P) \in P /\ \A j \in P : j = Diary!Oldest(P) \/ Diary!Newer(j, Diary!Oldest(P))
  BY <1>8, <1>9, Zenon DEF Diary!Oldest
<1>10. ASSUME NEW j \in rest, j \notin P PROVE Cardinality(P) >= PageSize
  <2> DEFINE S == {rank(i) : i \in rest \ P}
  <2>1. S \in SUBSET Nat /\ S # {}
    BY <1>4, <1>10
  <2>2. PICK x \in S : \A y \in S : x <= y
    <3> HIDE DEF S
    <3> QED BY <2>1, LeastOne
  <2>3. PICK i \in rest \ P : x = rank(i)
    BY <2>2
  <2>4. above(i) \in SUBSET P
    <3>1. ASSUME NEW k \in rest, Diary!Newer(k, i) PROVE k \in P
      <4>1. rank(k) < rank(i) /\ rank(k) \in Nat /\ rank(i) \in Nat
        BY <1>4, <1>5, <2>3, <3>1
      <4>2. k \notin P => rank(i) <= rank(k)
        BY <2>2, <2>3
      <4> QED BY <4>1, <4>2
    <3> QED BY <3>1 DEF above
  <2>5. P \in SUBSET DOMAIN entries
    BY <1>1, <1>6
  <2>6. IsFiniteSet(P) /\ Cardinality(P) \in Nat
    BY <2>5, FiniteDiary
  <2>7. rank(i) <= Cardinality(P)
    BY <2>4, <2>6, FS_Subset DEF rank
  <2>8. rank(i) \in Nat /\ rank(i) >= PageSize
    BY <1>3, <1>4, <2>3
  <2> QED BY <2>6, <2>7, <2>8
<1>11. Cardinality(P) \in Nat
  <2>1. P \in SUBSET DOMAIN entries
    BY <1>1, <1>6
  <2> QED BY <2>1, FiniteDiary
<1>12. Cardinality(P) < PageSize => P = rest
  BY <1>6, <1>10, <1>11
<1> QED BY <1>2, <1>6, <1>7, <1>9, <1>12

\* A picture in use is mentioned somewhere.
LEMMA UsedIs ==
  /\ \A p : p \in Diary!Used <=> (\E i \in DOMAIN entries : p \in entries[i].pics) \/ p \in onCards
  /\ \A p : p \in Diary!Used' <=> (\E i \in DOMAIN entries' : p \in entries'[i].pics) \/ p \in onCards'
<1>1. \A p : p \in Diary!Used <=> (\E i \in DOMAIN entries : p \in entries[i].pics) \/ p \in onCards
  BY Zenon DEF Diary!Used
<1>2. \A p : p \in Diary!Used' <=> (\E i \in DOMAIN entries' : p \in entries'[i].pics) \/ p \in onCards'
  BY Zenon DEF Diary!Used
<1> QED BY <1>1, <1>2

LEMMA DiaryInvInit == Diary!DiaryInit => DiaryInv
<1> SUFFICES ASSUME Diary!DiaryInit PROVE DiaryInv
  OBVIOUS
<1>1. PICK d : d = Diary!Min(Dates)
  OBVIOUS
<1>2. d \in Nat
  <2>1. PICK x \in Dates : \A y \in Dates : x <= y
    BY PagesAssumption, LeastOne
  <2>2. d \in Dates
    BY <1>1, <2>1, Zenon DEF Diary!Min
  <2> QED BY <2>2, PagesAssumption
<1>3. /\ entries = [i \in 1..2 |-> [date |-> d, pics |-> {}, source |-> <<>>, post |-> 0]]
      /\ onCards = {} /\ files = {} /\ del = [pc |-> "idle", pic |-> "nopic"] /\ exposed = {}
      /\ reader = [cursor |-> <<>>, seen |-> [i \in {} |-> 0], stable |-> {1, 2}, done |-> FALSE]
  BY <1>1 DEF Diary!DiaryInit, Diary!Here, Diary!NoPic, Diary!FromTop
<1>4. EntriesInv
  <2>1. DOMAIN entries = 1..2 /\ 2 \in Nat
    BY <1>3
  <2>2. ASSUME NEW i \in DOMAIN entries PROVE DiaryEntry(entries[i])
    <3>1. entries[i] = [date |-> d, pics |-> {}, source |-> <<>>, post |-> 0]
      BY <1>3
    <3> QED BY <1>2, <3>1 DEF DiaryEntry
  <2> QED BY <2>1, <2>2 DEF EntriesInv
<1>5. PicturesInv
  <2>1. del.pc = "idle" /\ del.pic = "nopic"
    BY <1>3
  <2>2. Diary!Used = {}
    BY <1>3 DEF Diary!Used
  <2> QED BY <1>3, <2>1, <2>2 DEF PicturesInv, Diary!PicturesKept
<1>6. ReaderInv
  <2>1. reader.cursor = <<>> /\ reader.stable = {1, 2} /\ reader.done = FALSE /\ DOMAIN reader.seen = {}
    BY <1>3
  <2>2. \A i : Diary!BeforeCursor(i, reader.cursor) /\ Diary!TimesSeen(reader.seen, i) = 0
    BY <2>1 DEF Diary!BeforeCursor, Diary!FromTop, Diary!TimesSeen
  <2>3. reader = [cursor |-> reader.cursor, seen |-> reader.seen, stable |-> reader.stable, done |-> reader.done]
    BY <1>3
  <2>4. DOMAIN entries = 1..2
    BY <1>3
  <2> QED BY <2>1, <2>2, <2>3, <2>4 DEF ReaderInv, Cursor
<1> QED BY <1>4, <1>5, <1>6 DEF DiaryInv

\* Entries that stay as they are, in their dates, leave the reader's view.
LEMMA ReaderFrame ==
  ASSUME ReaderInv, reader'.cursor = reader.cursor, reader'.seen = reader.seen, reader'.done = reader.done,
         reader'.stable \subseteq reader.stable,
         reader' = [cursor |-> reader'.cursor, seen |-> reader'.seen, stable |-> reader'.stable, done |-> reader'.done],
         \A i \in reader'.stable : i \in DOMAIN entries' /\ entries'[i].date = entries[i].date
  PROVE  ReaderInv'
<1>1. \A i \in reader'.stable : Diary!BeforeCursor(i, reader.cursor)' <=> Diary!BeforeCursor(i, reader.cursor)
  BY DEF Diary!BeforeCursor, Diary!FromTop
<1>2. \A i : Diary!TimesSeen(reader.seen, i)' = Diary!TimesSeen(reader.seen, i)
  BY DEF Diary!TimesSeen
<1>3. Cursor(reader.cursor)'
  BY DEF ReaderInv, Cursor
<1>4. ASSUME NEW i \in reader'.stable
      PROVE  /\ Diary!TimesSeen(reader.seen, i)' = IF Diary!BeforeCursor(i, reader.cursor)' THEN 0 ELSE 1
             /\ reader'.done => ~Diary!BeforeCursor(i, reader.cursor)'
  BY <1>1, <1>2 DEF ReaderInv
<1> QED BY <1>3, <1>4 DEF ReaderInv

\* The reader as Touched leaves it.
LEMMA ReaderTouched ==
  ASSUME ReaderInv, NEW ids, Diary!Touched(ids),
         \A i \in reader.stable \ ids : i \in DOMAIN entries' /\ entries'[i].date = entries[i].date
  PROVE  ReaderInv'
<1>1. reader = [cursor |-> reader.cursor, seen |-> reader.seen, stable |-> reader.stable, done |-> reader.done]
  BY DEF ReaderInv
<1>2. reader' = [cursor |-> reader.cursor, seen |-> reader.seen, stable |-> reader.stable \ ids, done |-> reader.done]
  BY <1>1 DEF Diary!Touched
<1>3. /\ reader'.cursor = reader.cursor /\ reader'.seen = reader.seen /\ reader'.done = reader.done
      /\ reader'.stable = reader.stable \ ids
  BY <1>2
<1>4. reader' = [cursor |-> reader'.cursor, seen |-> reader'.seen, stable |-> reader'.stable, done |-> reader'.done]
  BY <1>2, <1>3
<1> QED BY <1>3, <1>4, ReaderFrame

LEMMA ReaderKept ==
  ASSUME ReaderInv, reader' = reader, \A i \in reader.stable : i \in DOMAIN entries' /\ entries'[i].date = entries[i].date
  PROVE  ReaderInv'
<1>1. reader' = [cursor |-> reader'.cursor, seen |-> reader'.seen, stable |-> reader'.stable, done |-> reader'.done]
  BY DEF ReaderInv
<1> QED BY <1>1, ReaderFrame

\* What is shown anew is on the disk and not being deleted, or is exposed.
LEMMA PicturesFrame ==
  ASSUME PicturesInv, files \subseteq files', del' = del,
         \A p \in Diary!Used' \ exposed' : p \in Diary!Used \ exposed \/ (p \in files' /\ (del.pc # "idle" => del.pic # p))
  PROVE  PicturesInv'
<1>1. Diary!PicturesKept'
  BY DEF PicturesInv, Diary!PicturesKept
<1> QED BY <1>1 DEF PicturesInv

LEMMA PicturesSame ==
  ASSUME PicturesInv, UNCHANGED <<entries, onCards, exposed>>, files \subseteq files', del' = del
  PROVE  PicturesInv'
<1>1. Diary!Used' = Diary!Used
  BY DEF Diary!Used
<1> QED BY <1>1, PicturesFrame

\* Pictures of a text that is saved.
LEMMA PicturesSaved ==
  ASSUME PicturesInv, NEW pics, Diary!Exposes(pics), UNCHANGED <<files, del>>, Diary!Used' \subseteq Diary!Used \cup pics
  PROVE  PicturesInv'
<1>1. exposed' = exposed \cup {p \in pics : p \notin files \/ (del.pc # "idle" /\ del.pic = p)}
  BY DEF Diary!Exposes
<1>2. ASSUME NEW p \in Diary!Used' \ exposed'
      PROVE  p \in Diary!Used \ exposed \/ (p \in files' /\ (del.pc # "idle" => del.pic # p))
  BY <1>1
<1> QED BY <1>2, PicturesFrame

LEMMA EntryInv ==
  ASSUME DiaryInv, NEW id, NEW d \in Nat, NEW ps,
         Diary!DiaryCreate(d) \/ Diary!DiaryUpdate(id, d, ps) \/ Diary!DiaryDelete(id) \/ Diary!SaveCard(ps)
  PROVE  DiaryInv'
<1>1. CASE Diary!DiaryCreate(d)
  <2>1. PICK n : n = Diary!DiaryId
    OBVIOUS
  <2>2. n \in Nat \ {0} /\ \A i \in DOMAIN entries : i < n
    BY <2>1, DiaryIdNew DEF DiaryInv
  <2>3. PICK e : e = [date |-> d, pics |-> {}, source |-> <<>>, post |-> 0]
    OBVIOUS
  <2>4. /\ entries' = [i \in DOMAIN entries \cup {n} |-> IF i = n THEN e ELSE entries[i]]
        /\ UNCHANGED <<onCards, files, del, exposed, reader>>
    BY <1>1, <2>1, <2>3 DEF Diary!DiaryCreate
  <2>5. DOMAIN entries \subseteq Nat \ {0} /\ n \notin DOMAIN entries
    BY <2>2 DEF DiaryInv, EntriesInv
  <2>6. /\ DOMAIN entries' = DOMAIN entries \cup {n} /\ entries'[n] = e
        /\ \A i \in DOMAIN entries : entries'[i] = entries[i]
    BY <2>4, <2>5
  <2>7. EntriesInv'
    <3>1. DOMAIN entries' \subseteq 1..n
      BY <2>2, <2>5, <2>6
    <3>2. DiaryEntry(e)
      BY <2>3 DEF DiaryEntry
    <3> QED BY <2>2, <2>6, <3>1, <3>2 DEF DiaryInv, EntriesInv, DiaryEntry
  <2>8. PicturesInv'
    <3>1. e.pics = {}
      BY <2>3
    <3>2. Diary!Used' \subseteq Diary!Used
      BY <2>4, <2>6, <3>1, UsedIs
    <3> QED BY <2>4, <3>2, PicturesFrame DEF DiaryInv
  <2>9. ReaderInv'
    BY <2>4, <2>6, ReaderKept DEF DiaryInv, ReaderInv
  <2> QED BY <2>7, <2>8, <2>9 DEF DiaryInv
<1>2. CASE Diary!DiaryUpdate(id, d, ps)
  <2>1. /\ id \in DOMAIN entries /\ entries' = [entries EXCEPT ![id].date = d, ![id].pics = ps]
        /\ Diary!Exposes(ps) /\ Diary!Touched(IF d = entries[id].date THEN {} ELSE {id})
        /\ UNCHANGED <<onCards, files, del>>
    BY <1>2 DEF Diary!DiaryUpdate
  <2>2. DOMAIN entries' = DOMAIN entries /\ \A i \in DOMAIN entries : i # id => entries'[i] = entries[i]
    BY <2>1
  <2>3. DiaryEntry(entries[id])
    BY <2>1 DEF DiaryInv, EntriesInv
  <2>4. DiaryEntry(entries'[id]) /\ entries'[id].pics = ps /\ entries'[id].date = d
    <3>1. entries[id] = [date |-> entries[id].date, pics |-> entries[id].pics, source |-> entries[id].source, post |-> entries[id].post]
      BY <2>3 DEF DiaryEntry
    <3>2. entries'[id] = [date |-> d, pics |-> ps, source |-> entries[id].source, post |-> entries[id].post]
      BY <2>1, <3>1
    <3> QED BY <3>2 DEF DiaryEntry
  <2>5. EntriesInv'
    BY <2>2, <2>4 DEF DiaryInv, EntriesInv, DiaryEntry
  <2>6. PicturesInv'
    <3>1. Diary!Used' \subseteq Diary!Used \cup ps
      BY <2>1, <2>2, <2>4, UsedIs
    <3> QED BY <2>1, <3>1, PicturesSaved DEF DiaryInv
  <2>7. ReaderInv'
    <3>1. ASSUME NEW i \in reader.stable, i \notin IF d = entries[id].date THEN {} ELSE {id}
          PROVE  i \in DOMAIN entries' /\ entries'[i].date = entries[i].date
      BY <2>2, <2>4, <3>1 DEF DiaryInv, ReaderInv
    <3> QED BY <2>1, <3>1, ReaderTouched DEF DiaryInv
  <2> QED BY <2>5, <2>6, <2>7 DEF DiaryInv
<1>3. CASE Diary!DiaryDelete(id)
  <2>1. /\ entries' = [i \in DOMAIN entries \ {id} |-> entries[i]] /\ Diary!Touched({id})
        /\ UNCHANGED <<onCards, files, del, exposed>>
    BY <1>3 DEF Diary!DiaryDelete
  <2>2. EntriesInv'
    BY <2>1 DEF DiaryInv, EntriesInv, DiaryEntry
  <2>3. Diary!Used' \subseteq Diary!Used
    BY <2>1, UsedIs
  <2>4. PicturesInv'
    BY <2>1, <2>3, PicturesFrame DEF DiaryInv
  <2>5. ReaderInv'
    <3>1. \A i \in reader.stable \ {id} : i \in DOMAIN entries' /\ entries'[i].date = entries[i].date
      BY <2>1 DEF DiaryInv, ReaderInv
    <3> QED BY <2>1, <3>1, ReaderTouched DEF DiaryInv
  <2> QED BY <2>2, <2>4, <2>5 DEF DiaryInv
<1>4. CASE Diary!SaveCard(ps)
  <2>1. onCards' = ps /\ Diary!Exposes(ps) /\ UNCHANGED <<entries, files, del, reader>>
    BY <1>4 DEF Diary!SaveCard
  <2>2. EntriesInv'
    BY <2>1 DEF DiaryInv, EntriesInv, DiaryEntry
  <2>3. Diary!Used' \subseteq Diary!Used \cup ps
    BY <2>1, UsedIs
  <2>4. PicturesInv'
    BY <2>1, <2>3, PicturesSaved DEF DiaryInv
  <2>5. ReaderInv'
    BY <2>1, ReaderKept DEF DiaryInv, ReaderInv
  <2> QED BY <2>2, <2>4, <2>5 DEF DiaryInv
<1> QED BY <1>1, <1>2, <1>3, <1>4

LEMMA ListPageInv ==
  ASSUME DiaryInv, Diary!DiaryListPage
  PROVE  DiaryInv'
<1>1. PICK P, last, c, s : P = Diary!Page /\ last = Diary!Oldest(P) /\ c = reader.cursor /\ s = reader.seen
  OBVIOUS
<1>2. PICK rest : rest = {i \in DOMAIN entries : Diary!BeforeCursor(i, c)}
  OBVIOUS
<1>3. /\ P \subseteq rest /\ \A i \in P, j \in rest : Diary!Newer(j, i) => j \in P
      /\ P # {} => last \in P /\ \A j \in P : j = last \/ Diary!Newer(j, last)
      /\ Cardinality(P) < PageSize => P = rest
  BY <1>1, <1>2, PageIsTop, PagesAssumption DEF DiaryInv
<1>4. PICK c2, s2, d2 :
        /\ s2 = [i \in DOMAIN s \cup P |-> Diary!TimesSeen(s, i) + (IF i \in P THEN 1 ELSE 0)]
        /\ c2 = IF P = {} THEN c ELSE <<entries[last].date, last>>
        /\ d2 = (Cardinality(P) < PageSize)
  OBVIOUS
<1>5. UNCHANGED <<entries, onCards, files, del, exposed>>
  BY DEF Diary!DiaryListPage
<1>6. reader' = [cursor |-> c2, seen |-> s2, stable |-> reader.stable, done |-> d2]
  <2>1. reader = [cursor |-> reader.cursor, seen |-> reader.seen, stable |-> reader.stable, done |-> reader.done]
    BY DEF DiaryInv, ReaderInv
  <2>2. reader' = [reader EXCEPT !.seen = s2, !.cursor = c2, !.done = d2]
    BY <1>1, <1>4, DiaryCount DEF Diary!DiaryListPage
  <2> QED BY <2>1, <2>2
<1>7. reader'.cursor = c2 /\ reader'.seen = s2 /\ reader'.stable = reader.stable /\ reader'.done = d2
  BY <1>6
<1>8. EntriesInv' /\ PicturesInv'
  BY <1>5, PicturesSame DEF DiaryInv, EntriesInv, DiaryEntry
<1>9. ASSUME P # {}, NEW i \in DOMAIN entries
      PROVE  /\ Diary!BeforeCursor(i, c2) <=> Diary!Newer(last, i)
             /\ Diary!Newer(last, i) => Diary!BeforeCursor(i, c)
  <2>1. last \in DOMAIN entries /\ Diary!BeforeCursor(last, c)
    BY <1>2, <1>3, <1>9
  <2>2. PICK a, b : a = entries[i].date /\ b = entries[last].date
    OBVIOUS
  <2>3. a \in Int /\ b \in Int /\ i \in Nat /\ last \in Nat
    BY <2>1, <2>2 DEF DiaryInv, EntriesInv, DiaryEntry
  <2>4. c2 = <<b, last>> /\ c2 # <<>>
    BY <1>4, <1>9, <2>2
  <2>5. Diary!BeforeCursor(i, c2) <=> a < b \/ (a = b /\ i < last)
    BY <2>2, <2>4 DEF Diary!BeforeCursor, Diary!FromTop
  <2>6. Diary!Newer(last, i) <=> b > a \/ (b = a /\ last > i)
    BY <2>2 DEF Diary!Newer
  <2>7. ASSUME Diary!Newer(last, i) PROVE Diary!BeforeCursor(i, c)
    <3>1. CASE c = <<>>
      BY <3>1 DEF Diary!BeforeCursor, Diary!FromTop
    <3>2. CASE c # <<>>
      <4>1. PICK d \in Int, n \in Int : c = <<d, n>>
        BY <1>1, <3>2 DEF DiaryInv, ReaderInv, Cursor
      <4>2. \A x : Diary!BeforeCursor(x, c) <=> entries[x].date < d \/ (entries[x].date = d /\ x < n)
        BY <3>2, <4>1 DEF Diary!BeforeCursor, Diary!FromTop
      <4>3. b < d \/ (b = d /\ last < n)
        BY <2>1, <2>2, <4>2
      <4>4. a < d \/ (a = d /\ i < n)
        BY <2>3, <2>6, <2>7, <4>3
      <4> QED BY <2>2, <4>2, <4>4
    <3> QED BY <3>1, <3>2
  <2> QED BY <2>3, <2>5, <2>6, <2>7
<1>10. ASSUME NEW i \in reader.stable
       PROVE  /\ Diary!TimesSeen(s2, i) = IF Diary!BeforeCursor(i, c2) THEN 0 ELSE 1
              /\ d2 => ~Diary!BeforeCursor(i, c2)
  <2>1. i \in DOMAIN entries /\ Diary!TimesSeen(s, i) = IF Diary!BeforeCursor(i, c) THEN 0 ELSE 1
    BY <1>1 DEF DiaryInv, ReaderInv
  <2>2. i \in rest <=> Diary!BeforeCursor(i, c)
    BY <1>2, <2>1
  <2>3. Diary!TimesSeen(s2, i) = Diary!TimesSeen(s, i) + (IF i \in P THEN 1 ELSE 0)
    <3>1. Diary!TimesSeen(s, i) \in Int
      BY <2>1
    <3>2. CASE i \in DOMAIN s \cup P
      BY <1>4, <3>2 DEF Diary!TimesSeen
    <3>3. CASE i \notin DOMAIN s \cup P
      <4>1. Diary!TimesSeen(s2, i) = 0 /\ Diary!TimesSeen(s, i) = 0
        BY <1>4, <3>3 DEF Diary!TimesSeen
      <4> QED BY <3>3, <4>1
    <3> QED BY <3>2, <3>3
  <2>4. CASE P = {}
    <3>1. c2 = c /\ i \notin P
      BY <1>4, <2>4
    <3>2. d2 => i \notin rest
      BY <1>3, <1>4, <2>4
    <3> QED BY <2>1, <2>2, <2>3, <3>1, <3>2
  <2>5. CASE P # {}
    <3>1. /\ Diary!BeforeCursor(i, c2) <=> Diary!Newer(last, i)
          /\ Diary!Newer(last, i) => Diary!BeforeCursor(i, c)
      BY <1>9, <2>1, <2>5
    <3>2. last \in P /\ last \in DOMAIN entries
      BY <1>2, <1>3, <2>5
    <3>3. CASE i \in P
      <4>1. ~Diary!Newer(last, i)
        BY <1>3, <2>1, <2>5, <3>2, <3>3, NewerOrder DEF DiaryInv
      <4>2. Diary!BeforeCursor(i, c)
        BY <1>3, <2>2, <3>3
      <4> QED BY <2>1, <2>3, <3>1, <3>3, <4>1, <4>2
    <3>4. CASE i \in rest \ P
      <4>1. ~Diary!Newer(i, last) /\ i # last
        BY <1>3, <3>2, <3>4
      <4>2. Diary!Newer(last, i)
        BY <2>1, <3>2, <4>1, NewerOrder DEF DiaryInv
      <4>3. ~d2
        BY <1>3, <1>4, <3>4
      <4> QED BY <2>1, <2>2, <2>3, <3>1, <3>4, <4>2, <4>3
    <3>5. CASE i \notin rest
      <4>1. i \notin P /\ ~Diary!BeforeCursor(i, c2)
        BY <1>3, <2>2, <3>1, <3>5
      <4> QED BY <2>1, <2>2, <2>3, <3>5, <4>1
    <3> QED BY <3>3, <3>4, <3>5
  <2> QED BY <2>4, <2>5
<1>11. Cursor(c2)
  <2>1. CASE P = {}
    BY <1>1, <1>4, <2>1 DEF DiaryInv, ReaderInv
  <2>2. CASE P # {}
    <3>1. last \in DOMAIN entries
      BY <1>2, <1>3, <2>2
    <3>2. entries[last].date \in Int /\ last \in Int
      BY <3>1 DEF DiaryInv, EntriesInv, DiaryEntry
    <3> QED BY <1>4, <2>2, <3>2 DEF Cursor
  <2> QED BY <2>1, <2>2
<1>12. ReaderInv'
  <2>1. \A i : Diary!BeforeCursor(i, c2)' <=> Diary!BeforeCursor(i, c2)
    BY <1>5 DEF Diary!BeforeCursor
  <2>2. ASSUME NEW i \in reader'.stable
        PROVE  /\ Diary!TimesSeen(reader.seen, i)' = IF Diary!BeforeCursor(i, reader.cursor)' THEN 0 ELSE 1
               /\ reader'.done => ~Diary!BeforeCursor(i, reader.cursor)'
    <3>1. Diary!BeforeCursor(i, reader.cursor)' <=> Diary!BeforeCursor(i, c2)
      BY <1>5, <1>7 DEF Diary!BeforeCursor
    <3>2. Diary!TimesSeen(reader.seen, i)' = Diary!TimesSeen(s2, i)
      BY <1>7 DEF Diary!TimesSeen
    <3> QED BY <1>7, <1>10, <3>1, <3>2
  <2>3. reader'.stable \subseteq DOMAIN entries'
    BY <1>5, <1>7 DEF DiaryInv, ReaderInv
  <2>4. Cursor(reader.cursor)'
    BY <1>7, <1>11 DEF Cursor
  <2>5. reader' = [cursor |-> reader'.cursor, seen |-> reader'.seen, stable |-> reader'.stable, done |-> reader'.done]
    BY <1>6, <1>7
  <2> QED BY <2>2, <2>3, <2>4, <2>5 DEF ReaderInv
<1> QED BY <1>8, <1>12 DEF DiaryInv

LEMMA OpenInv ==
  ASSUME DiaryInv, Diary!DiaryOpen
  PROVE  DiaryInv'
<1>1. /\ UNCHANGED <<entries, onCards, files, del, exposed>>
      /\ reader' = [cursor |-> <<>>, seen |-> [i \in {} |-> 0], stable |-> DOMAIN entries, done |-> FALSE]
  BY DEF Diary!DiaryOpen, Diary!FromTop
<1>2. /\ reader'.cursor = <<>> /\ DOMAIN reader'.seen = {} /\ reader'.stable = DOMAIN entries /\ reader'.done = FALSE
      /\ reader' = [cursor |-> reader'.cursor, seen |-> reader'.seen, stable |-> reader'.stable, done |-> reader'.done]
  BY <1>1
<1>3. \A i : Diary!BeforeCursor(i, reader.cursor)' /\ Diary!TimesSeen(reader.seen, i)' = 0
  BY <1>2 DEF Diary!BeforeCursor, Diary!FromTop, Diary!TimesSeen
<1>4. ReaderInv'
  BY <1>1, <1>2, <1>3 DEF ReaderInv, Cursor
<1>5. EntriesInv' /\ PicturesInv'
  BY <1>1, PicturesSame DEF DiaryInv, EntriesInv, DiaryEntry
<1> QED BY <1>4, <1>5 DEF DiaryInv

\* Steps on pictures leave entries and reader alone.
LEMMA MediaInv ==
  ASSUME DiaryInv, UNCHANGED <<entries, onCards, exposed, reader>>, PicturesInv'
  PROVE  DiaryInv'
<1>1. EntriesInv'
  BY DEF DiaryInv, EntriesInv, DiaryEntry
<1>2. ReaderInv'
  BY ReaderKept DEF DiaryInv, ReaderInv
<1> QED BY <1>1, <1>2 DEF DiaryInv

LEMMA DeleteInv ==
  ASSUME DiaryInv, NEW p, Diary!DeleteChecked(p) \/ Diary!DeleteRow \/ Diary!DeleteFile \/ Diary!DiaryCrash
  PROVE  DiaryInv'
<1>1. UNCHANGED <<entries, onCards, exposed, reader>>
  BY DEF Diary!DeleteChecked, Diary!DeleteRow, Diary!DeleteFile, Diary!DiaryCrash
<1>2. Diary!Used' = Diary!Used
  BY <1>1 DEF Diary!Used
<1>3. /\ Diary!Used \ exposed \subseteq files /\ del = [pc |-> del.pc, pic |-> del.pic]
      /\ del.pc # "idle" => del.pic \notin Diary!Used \ exposed
  BY DEF DiaryInv, PicturesInv, Diary!PicturesKept
<1>4. CASE Diary!DeleteChecked(p)
  <2>1. del' = [pc |-> "row", pic |-> p] /\ files' = files /\ p \notin Diary!Used
    BY <1>4, UsedIs DEF Diary!DeleteChecked, Diary!Mentioned
  <2>2. PicturesInv'
    BY <1>1, <1>2, <1>3, <2>1 DEF PicturesInv, Diary!PicturesKept
  <2> QED BY <1>1, <2>2, MediaInv
<1>5. CASE Diary!DeleteRow
  <2>1. del' = [pc |-> "file", pic |-> del.pic] /\ files' = files /\ del.pc # "idle"
    BY <1>3, <1>5 DEF Diary!DeleteRow
  <2>2. PicturesInv'
    BY <1>1, <1>2, <1>3, <2>1 DEF PicturesInv, Diary!PicturesKept
  <2> QED BY <1>1, <2>2, MediaInv
<1>6. CASE Diary!DeleteFile
  <2>1. del' = [pc |-> "idle", pic |-> "nopic"] /\ files' = files \ {del.pic} /\ del.pc # "idle"
    BY <1>6 DEF Diary!DeleteFile, Diary!Here, Diary!NoPic
  <2>2. PicturesInv'
    BY <1>1, <1>2, <1>3, <2>1 DEF PicturesInv, Diary!PicturesKept
  <2> QED BY <1>1, <2>2, MediaInv
<1>7. CASE Diary!DiaryCrash
  <2>1. del' = [pc |-> "idle", pic |-> "nopic"] /\ files' = files
    BY <1>7 DEF Diary!DiaryCrash, Diary!Here, Diary!NoPic
  <2>2. PicturesInv'
    BY <1>1, <1>2, <1>3, <2>1 DEF PicturesInv, Diary!PicturesKept
  <2> QED BY <1>1, <2>2, MediaInv
<1> QED BY <1>4, <1>5, <1>6, <1>7

\* A finite set of numbers has, for each k below its size, a member with k
\* members below it.
LEMMA RankedMember ==
  ASSUME NEW S \in SUBSET Nat, IsFiniteSet(S), NEW n \in Nat, n < Cardinality(S)
  PROVE  \E k \in S : Cardinality({f \in S : f < k}) = n
<1> DEFINE below(k) == {f \in S : f < k}
           G == {m \in 0..n : \E k \in S : Cardinality(below(k)) = m}
<1>1. Cardinality(S) \in Nat /\ S # {}
  BY FS_CardinalityType, FS_EmptySet
<1>2. 0 \in G
  <2>1. PICK k \in S : \A y \in S : k <= y
    BY <1>1, LeastOne
  <2>2. below(k) = {}
    <3>1. \A f \in S : f \in Nat /\ k \in Nat /\ ~(f < k)
      BY <2>1
    <3> QED BY <3>1
  <2>3. Cardinality(below(k)) = 0
    BY <2>2, FS_EmptySet
  <2> QED BY <2>3
<1>3. ASSUME NEW m \in 0..(n - 1), m \in G PROVE m + 1 \in G
  <2>1. PICK k \in S : Cardinality(below(k)) = m
    BY <1>3
  <2> DEFINE B == below(k) \cup {k}
             T == S \ B
  <2>2. below(k) \in SUBSET S /\ k \notin below(k)
    OBVIOUS
  <2>3. IsFiniteSet(B) /\ Cardinality(B) = m + 1 /\ B \in SUBSET S
    <3>1. IsFiniteSet(below(k))
      BY <2>2, FS_Subset
    <3> HIDE DEF below
    <3> QED BY <2>1, <2>2, <3>1, FS_AddElement
  <2>4. T # {}
    <3>1. B # S
      <4> HIDE DEF B
      <4> QED BY <1>1, <1>3, <2>3
    <3> HIDE DEF B
    <3> QED BY <2>3, <3>1
  <2>5. PICK t \in T : \A y \in T : t <= y
    <3>1. T \in SUBSET Nat
      OBVIOUS
    <3> HIDE DEF T
    <3> QED BY <2>4, <3>1, LeastOne
  <2>6. below(t) = B
    <3>1. ASSUME NEW f \in S, f < t PROVE f \in B
      BY <2>5, <3>1
    <3>2. ASSUME NEW f \in B PROVE f \in S /\ f < t
      <4>1. t \in Nat /\ t # k /\ ~(t < k)
        OBVIOUS
      <4> QED BY <4>1
    <3> HIDE DEF B
    <3> QED BY <3>1, <3>2
  <2>7. m + 1 \in 0..n /\ t \in S
    BY <1>3
  <2> HIDE DEF below, B, T
  <2> QED BY <2>3, <2>6, <2>7
<1>4. \A m \in 0..(n - 1) : m \in G => m + 1 \in G
  BY <1>3
<1>5. 0..n \subseteq G
  <2> HIDE DEF G
  <2> QED BY <1>2, <1>4, Induction
<1> QED BY <1>5

\* What the assumption says of one export.
LEMMA ExportRows ==
  ASSUME NEW x \in DiaryExports
  PROVE  /\ Len(x) \in Nat /\ DOMAIN x = 1..Len(x)
         /\ \A i \in DOMAIN x : x[i].post \in Nat \ {0} /\ x[i].day \in Nat /\ x[i].n \in Nat
         /\ \A i, j \in DOMAIN x : x[i].post = x[j].post => i = j
<1>1. x \in Seq([post : Nat \ {0}, day : Nat, n : Nat, pic : Pictures \cup {"nopic"}])
  BY ExportsAssumption
<1>2. \A i, j \in DOMAIN x : x[i].post = x[j].post => i = j
  BY ExportsAssumption
<1> DEFINE R == [post : Nat \ {0}, day : Nat, n : Nat, pic : Pictures \cup {"nopic"}]
<1>3. \A r \in R : r.post \in Nat \ {0} /\ r.day \in Nat /\ r.n \in Nat
  OBVIOUS
<1> HIDE DEF R
<1>4. x \in Seq(R)
  BY <1>1 DEF R
<1>5. Len(x) \in Nat /\ DOMAIN x = 1..Len(x) /\ \A i \in DOMAIN x : x[i] \in R
  BY <1>4
<1> QED BY <1>2, <1>3, <1>5

\* The posts of the day before post i that have no picture.
Earlier(x, i) == {j \in 1..(i - 1) : x[j].day = x[i].day /\ x[j].n = 0}

\* A post without pictures gets a number that its day has left, with as many
\* such numbers below it as there are such posts before it: NumberOf.
LEMMA NumberGiven ==
  ASSUME NEW x \in DiaryExports, NEW i \in DOMAIN x, x[i].n = 0,
         NEW free, free = (1..(2 * Len(x))) \ Diary!Numbers(x, x[i].day)
  PROVE  /\ Diary!NumberOf(x, i) \in free
         /\ Cardinality({f \in free : f < Diary!NumberOf(x, i)}) = Cardinality(Earlier(x, i))
<1>1. PICK len \in Nat : len = Len(x) /\ DOMAIN x = 1..len /\ \A j \in 1..len : x[j].n \in Nat
  BY ExportRows
<1>2. i \in 1..len /\ i \in Nat
  BY <1>1
<1>3. PICK before : before = Cardinality(Earlier(x, i))
  OBVIOUS
<1>4. before \in Nat /\ before < len
  <2>1. IsFiniteSet(1..(i - 1)) /\ Cardinality(1..(i - 1)) = i - 1
    <3>1. 1 \in Int /\ i - 1 \in Int /\ (1 > i - 1 => i - 1 = 0) /\ i - 1 - 1 + 1 = i - 1
      BY <1>2
    <3>2. IsFiniteSet(1..(i - 1)) /\ Cardinality(1..(i - 1)) = IF 1 > i - 1 THEN 0 ELSE i - 1 - 1 + 1
      BY <3>1, FS_Interval
    <3> QED BY <3>1, <3>2
  <2>2. Earlier(x, i) \in SUBSET (1..(i - 1))
    BY DEF Earlier
  <2>3. IsFiniteSet(Earlier(x, i)) /\ Cardinality(Earlier(x, i)) <= i - 1
    BY <2>1, <2>2, FS_Subset
  <2>4. before \in Nat
    BY <1>3, <2>3, FS_CardinalityType
  <2> QED BY <1>2, <1>3, <2>3, <2>4
<1>5. free \in SUBSET Nat /\ IsFiniteSet(free) /\ before < Cardinality(free)
  <2> DEFINE all == 1..(2 * len)
             D == {j \in DOMAIN x : x[j].day = x[i].day}
             N == {x[j].n : j \in D}
  <2>1. IsFiniteSet(all) /\ Cardinality(all) = 2 * len
    <3>1. 2 * len \in Int /\ 2 * len >= 0 /\ (1 > 2 * len => 2 * len = 0)
      OBVIOUS
    <3>2. IsFiniteSet(all) /\ Cardinality(all) = IF 1 > 2 * len THEN 0 ELSE 2 * len - 1 + 1
      BY <3>1, FS_Interval
    <3> HIDE DEF all
    <3> QED BY <3>1, <3>2
  <2>2. IsFiniteSet(D) /\ Cardinality(D) <= len
    <3>1. IsFiniteSet(1..len) /\ Cardinality(1..len) = len
      BY FS_Interval
    <3>2. D \in SUBSET (1..len)
      BY <1>1
    <3> HIDE DEF D
    <3> QED BY <3>1, <3>2, FS_Subset
  <2>3. IsFiniteSet(N) /\ Cardinality(N) <= Cardinality(D)
    <3> DEFINE g == [j \in D |-> x[j].n]
    <3>1. g \in Surjection(D, N)
      BY DEF Surjection
    <3> HIDE DEF g, D, N
    <3> QED BY <2>2, <3>1, FS_Surjection
  <2>4. Diary!Numbers(x, x[i].day) = N \ {0}
    BY DEF Diary!Numbers
  <2>5. free = all \ N
    <3>1. 0 \notin all
      OBVIOUS
    <3> HIDE DEF N
    <3> QED BY <1>1, <2>4, <3>1
  <2>6. /\ IsFiniteSet(free) /\ Cardinality(free) = Cardinality(all) - Cardinality(all \cap N)
        /\ Cardinality(all \cap N) <= Cardinality(N) /\ Cardinality(all \cap N) \in Nat
    <3>1. all \cap N \in SUBSET N
      OBVIOUS
    <3> HIDE DEF all, N
    <3>2. IsFiniteSet(all \cap N) /\ Cardinality(all \cap N) <= Cardinality(N)
      BY <2>3, <3>1, FS_Subset
    <3>3. Cardinality(all \cap N) \in Nat
      BY <3>2, FS_CardinalityType
    <3>4. IsFiniteSet(all \ N) /\ Cardinality(all \ N) = Cardinality(all) - Cardinality(all \cap N)
      BY ONLY <2>1, FS_Difference
    <3> QED BY <2>5, <3>2, <3>3, <3>4
  <2>7. Cardinality(N) \in Nat /\ Cardinality(D) \in Nat
    BY <2>2, <2>3, FS_CardinalityType
  <2>8. all \in SUBSET Nat
    OBVIOUS
  <2> HIDE DEF all, N, D
  <2>9. free \in SUBSET Nat
    BY <2>5, <2>8
  <2>10. PICK a, b, c, d \in Int : a = Cardinality(free) /\ b = Cardinality(all \cap N) /\ c = Cardinality(N) /\ d = Cardinality(D)
    BY <2>1, <2>6, <2>7
  <2>11. a = 2 * len - b /\ b <= c /\ c <= d /\ d <= len
    BY <2>1, <2>2, <2>3, <2>6, <2>10
  <2>12. before < a
    BY <1>4, <2>11
  <2> QED BY <2>6, <2>9, <2>10, <2>12
<1>6. \E k \in free : Cardinality({f \in free : f < k}) = before
  BY <1>4, <1>5, RankedMember
<1>7. Diary!NumberOf(x, i) = CHOOSE k \in free : Cardinality({f \in free : f < k}) = before
  <2>1. ~(x[i].n > 0)
    OBVIOUS
  <2>2. Diary!Cardinality(Earlier(x, i)) = before /\ \A k : Diary!Cardinality({f \in free : f < k}) = Cardinality({f \in free : f < k})
    BY <1>3, DiaryCount
  <2>3. (CHOOSE k \in free : Diary!Cardinality({f \in free : f < k}) = before)
          = CHOOSE k \in free : Cardinality({f \in free : f < k}) = before
    BY <2>2, Zenon
  <2>4. Diary!NumberOf(x, i) = CHOOSE k \in free : Diary!Cardinality({f \in free : f < k}) = before
    BY <2>1, <2>2 DEF Diary!NumberOf, Earlier
  <2> QED BY <2>3, <2>4
<1> QED BY <1>3, <1>6, <1>7

\* Two posts of one export never get the same place.
LEMMA PlacesDiffer ==
  ASSUME NEW x \in DiaryExports, Diary!Numbered(x), NEW i \in DOMAIN x, NEW j \in DOMAIN x,
         Diary!SourceOf(x, i) = Diary!SourceOf(x, j)
  PROVE  i = j
<1> SUFFICES ASSUME i # j PROVE FALSE
  OBVIOUS
<1>1. x[i].day = x[j].day /\ Diary!NumberOf(x, i) = Diary!NumberOf(x, j)
  BY Zenon DEF Diary!SourceOf
<1>2. DOMAIN x = 1..Len(x) /\ Len(x) \in Nat /\ \A k \in DOMAIN x : x[k].n \in Nat
  BY ExportRows
<1>3. ASSUME NEW k \in DOMAIN x, NEW l \in DOMAIN x, k # l, x[k].day = x[l].day, x[k].n > 0
      PROVE  Diary!NumberOf(x, k) # Diary!NumberOf(x, l)
  <2>1. Diary!NumberOf(x, k) = x[k].n
    BY <1>3 DEF Diary!NumberOf
  <2>2. CASE x[l].n > 0
    <3>1. x[k].n # x[l].n
      <4>1. x[k].n # 0
        BY <1>2, <1>3
      <4> QED BY <1>3, <4>1 DEF Diary!Numbered
    <3>2. Diary!NumberOf(x, l) = x[l].n
      BY <2>2 DEF Diary!NumberOf
    <3> QED BY <2>1, <3>1, <3>2
  <2>3. CASE x[l].n = 0
    <3>1. Diary!NumberOf(x, l) \notin Diary!Numbers(x, x[l].day)
      <4>1. PICK free : free = (1..(2 * Len(x))) \ Diary!Numbers(x, x[l].day)
        OBVIOUS
      <4>2. Diary!NumberOf(x, l) \in free
        BY <2>3, <4>1, NumberGiven
      <4> QED BY <4>1, <4>2
    <3>2. x[k].n \in Diary!Numbers(x, x[l].day)
      BY <1>2, <1>3 DEF Diary!Numbers
    <3> QED BY <2>1, <3>1, <3>2
  <2> QED BY <1>2, <2>2, <2>3
<1>4. ASSUME NEW k \in DOMAIN x, NEW l \in DOMAIN x, k < l, x[k].day = x[l].day, x[k].n = 0, x[l].n = 0
      PROVE  Diary!NumberOf(x, k) # Diary!NumberOf(x, l)
  <2>1. k \in Nat /\ l \in Nat
    BY <1>2
  <2>2. Earlier(x, k) \cup {k} \in SUBSET Earlier(x, l) /\ k \notin Earlier(x, k)
    <3>1. k \in 1..(l - 1) /\ 1..(k - 1) \in SUBSET (1..(l - 1)) /\ k \notin 1..(k - 1)
      BY <1>2, <1>4, <2>1
    <3> QED BY <1>4, <3>1 DEF Earlier
  <2>3. IsFiniteSet(Earlier(x, l))
    <3>1. 1 \in Int /\ l - 1 \in Int
      BY <2>1
    <3>2. IsFiniteSet(1..(l - 1))
      BY <3>1, FS_Interval
    <3>3. Earlier(x, l) \in SUBSET (1..(l - 1))
      BY DEF Earlier
    <3> QED BY <3>2, <3>3, FS_Subset
  <2>4. Cardinality(Earlier(x, k) \cup {k}) <= Cardinality(Earlier(x, l)) /\ IsFiniteSet(Earlier(x, k))
    <3>1. Earlier(x, k) \in SUBSET Earlier(x, l)
      BY <2>2
    <3> QED BY <2>2, <2>3, <3>1, FS_Subset
  <2>5. Cardinality(Earlier(x, k) \cup {k}) = Cardinality(Earlier(x, k)) + 1
    BY <2>2, <2>4, FS_AddElement
  <2>6. Cardinality(Earlier(x, k)) \in Nat /\ Cardinality(Earlier(x, l)) \in Nat
    BY <2>3, <2>4, FS_CardinalityType
  <2>7. Cardinality(Earlier(x, k)) # Cardinality(Earlier(x, l))
    BY <2>4, <2>5, <2>6
  <2>8. PICK free : free = (1..(2 * Len(x))) \ Diary!Numbers(x, x[k].day)
    OBVIOUS
  <2>9. /\ Cardinality({f \in free : f < Diary!NumberOf(x, k)}) = Cardinality(Earlier(x, k))
        /\ Cardinality({f \in free : f < Diary!NumberOf(x, l)}) = Cardinality(Earlier(x, l))
    BY <1>4, <2>8, NumberGiven
  <2> QED BY <2>7, <2>9
<1>5. CASE x[i].n > 0 \/ x[j].n > 0
  BY <1>1, <1>3, <1>5
<1>6. CASE x[i].n = 0 /\ x[j].n = 0
  BY <1>1, <1>2, <1>4, <1>6
<1> QED BY <1>2, <1>5, <1>6

\* A post and its place determine each other, in one export and across them.
LEMMA PlacesAgree ==
  ASSUME NEW x \in DiaryExports, NEW y \in DiaryExports, Diary!Numbered(x), Diary!Numbered(y),
         NEW i \in DOMAIN x, NEW j \in DOMAIN y
  PROVE  x[i].post = y[j].post <=> Diary!SourceOf(x, i) = Diary!SourceOf(y, j)
<1>1. CASE x = y
  BY <1>1, ExportRows, PlacesDiffer
<1>2. CASE x # y
  BY <1>2, ExportsAssumption
<1> QED BY <1>1, <1>2

NewPosts(x) == {i \in DOMAIN x : Diary!SourceOf(x, i) \notin {entries[e].source : e \in DOMAIN entries}}
NewId(x, i) == Diary!DiaryId - 1 + Cardinality({j \in NewPosts(x) : j <= i})
RowOf(x, i) ==
  [date |-> x[i].day, pics |-> {x[i].pic} \ {"nopic"}, source |-> Diary!SourceOf(x, i), post |-> x[i].post]

RankOf(S, i) == Cardinality({j \in S : j <= i})

\* Counting the members of a set up to each numbers them.
LEMMA RankedIds ==
  ASSUME NEW b \in Nat, NEW S \in SUBSET (1..b)
  PROVE  /\ \A i \in S : RankOf(S, i) \in 1..b
         /\ \A i, j \in S : i # j => RankOf(S, i) # RankOf(S, j)
<1> DEFINE upTo(i) == {j \in S : j <= i}
<1>1. IsFiniteSet(1..b) /\ Cardinality(1..b) = b
  BY Numbers
<1>2. ASSUME NEW i \in S PROVE IsFiniteSet(upTo(i)) /\ Cardinality(upTo(i)) \in 1..b
  <2>1. upTo(i) \in SUBSET (1..b) /\ i \in upTo(i)
    <3>1. i \in Nat
      OBVIOUS
    <3>2. i \in upTo(i)
      BY <3>1
    <3> QED BY <3>2
  <2> HIDE DEF upTo
  <2>2. IsFiniteSet(upTo(i)) /\ Cardinality(upTo(i)) <= b
    BY <1>1, <2>1, FS_Subset
  <2>3. Cardinality(upTo(i)) \in Nat /\ Cardinality(upTo(i)) # 0
    BY <2>1, <2>2, FS_CardinalityType, FS_EmptySet
  <2> QED BY <2>2, <2>3
<1>3. ASSUME NEW i \in S, NEW j \in S, i < j PROVE Cardinality(upTo(i)) # Cardinality(upTo(j))
  <2>0. i \in Nat /\ j \in Nat /\ \A k \in S : k \in Nat
    OBVIOUS
  <2>1. upTo(i) \in SUBSET upTo(j) /\ j \in upTo(j) /\ j \notin upTo(i)
    <3>1. ASSUME NEW k \in upTo(i) PROVE k \in upTo(j)
      <4>1. k \in S /\ k \in Nat /\ k <= i
        BY <2>0
      <4> QED BY <1>3, <2>0, <4>1
    <3>2. j \in upTo(j) /\ j \notin upTo(i)
      BY <1>3, <2>0
    <3> QED BY <3>1, <3>2
  <2> HIDE DEF upTo
  <2> QED BY <1>2, <2>1, FS_Subset
<1>4. ASSUME NEW i \in S, NEW j \in S, i # j PROVE Cardinality(upTo(i)) # Cardinality(upTo(j))
  <2>1. i \in Nat /\ j \in Nat
    OBVIOUS
  <2> HIDE DEF upTo
  <2> QED BY <1>3, <1>4, <2>1
<1>5. \A i : RankOf(S, i) = Cardinality(upTo(i))
  BY DEF RankOf
<1> HIDE DEF upTo
<1> QED BY <1>2, <1>4, <1>5

\* Later posts get larger ids, all larger than those in use.
LEMMA NewIds ==
  ASSUME EntriesInv, NEW x \in DiaryExports
  PROVE  /\ \A i \in NewPosts(x) : NewId(x, i) \notin DOMAIN entries
         /\ \A i, j \in NewPosts(x) : i # j => NewId(x, i) # NewId(x, j)
         /\ \E n \in Nat : DOMAIN entries \cup {NewId(x, i) : i \in NewPosts(x)} \subseteq 1..n
<1>1. PICK b \in Nat : DOMAIN x = 1..b
  BY ExportRows
<1>2. PICK new : new = NewPosts(x)
  OBVIOUS
<1>3. new \in SUBSET (1..b)
  BY <1>1, <1>2 DEF NewPosts
<1>4. /\ \A i \in new : RankOf(new, i) \in 1..b
      /\ \A i, j \in new : i # j => RankOf(new, i) # RankOf(new, j)
  BY <1>3, RankedIds
<1>5. PICK first : first = Diary!DiaryId - 1
  OBVIOUS
<1>6. first \in Nat /\ \A e \in DOMAIN entries : e \in 1..first
  <2>1. Diary!DiaryId \in Nat \ {0} /\ \A e \in DOMAIN entries : e < Diary!DiaryId
    BY DiaryIdNew
  <2>2. \A e \in DOMAIN entries : e \in Nat \ {0}
    BY DEF EntriesInv
  <2>3. PICK n : n = Diary!DiaryId
    OBVIOUS
  <2>4. n \in Nat \ {0} /\ first = n - 1
    BY <1>5, <2>1, <2>3
  <2>5. ASSUME NEW e \in DOMAIN entries PROVE e \in 1..first
    <3>1. e < n /\ e \in Nat \ {0}
      BY <2>1, <2>2, <2>3
    <3> QED BY <2>4, <3>1
  <2> QED BY <2>4, <2>5
<1>7. ASSUME NEW i \in new PROVE NewId(x, i) = first + RankOf(new, i) /\ NewId(x, i) \in (first + 1)..(first + b)
  <2>1. NewId(x, i) = first + RankOf(new, i)
    BY <1>2, <1>5 DEF NewId, RankOf
  <2> QED BY <1>4, <1>6, <2>1
<1>8. ASSUME NEW i \in new, NEW j \in new, i # j PROVE NewId(x, i) # NewId(x, j)
  BY <1>4, <1>6, <1>7, <1>8
<1>9. ASSUME NEW i \in new PROVE NewId(x, i) \notin DOMAIN entries
  BY <1>6, <1>7
<1>10. first + b \in Nat /\ \A e \in DOMAIN entries : e \in 1..(first + b)
  BY <1>6
<1>11. \A i \in new : NewId(x, i) \in 1..(first + b)
  BY <1>6, <1>7
<1> QED BY <1>2, <1>8, <1>9, <1>10, <1>11

\* What an import does to the entries: DiaryImport.
Adds(x) ==
  /\ DOMAIN entries' = DOMAIN entries \cup {NewId(x, i) : i \in NewPosts(x)}
  /\ \A e \in DOMAIN entries : entries'[e] = entries[e]
  /\ \A i \in NewPosts(x) : NewId(x, i) \notin DOMAIN entries /\ entries'[NewId(x, i)] = RowOf(x, i)

LEMMA ImportAdds ==
  ASSUME EntriesInv, NEW x \in DiaryExports, Diary!DiaryImport(x)
  PROVE  Adds(x)
<1> DEFINE row(i) == RowOf(x, i)
           id(i) == NewId(x, i)
<1>1. PICK new : new = NewPosts(x)
  OBVIOUS
<1>2. entries' = [e \in DOMAIN entries \cup {id(i) : i \in new} |->
        IF e \in DOMAIN entries THEN entries[e] ELSE row(CHOOSE i \in new : id(i) = e)]
  BY <1>1, DiaryCount DEF Diary!DiaryImport, NewPosts, NewId, RowOf, Diary!NoPic
<1>3. \A i \in new : id(i) \notin DOMAIN entries
  BY <1>1, NewIds
<1>4. \A i, j \in new : i # j => id(i) # id(j)
  BY <1>1, NewIds
<1> HIDE DEF id, row
<1>5. ASSUME NEW i \in new PROVE entries'[id(i)] = row(i)
  <2>1. PICK k : k = CHOOSE j \in new : id(j) = id(i)
    OBVIOUS
  <2>2. k \in new /\ id(k) = id(i)
    BY <2>1, Zenon
  <2>3. k = i
    BY <1>4, <2>2
  <2>4. entries'[id(i)] = row(k)
    BY <1>2, <1>3, <2>1
  <2> QED BY <2>3, <2>4
<1>6. \A e \in DOMAIN entries : entries'[e] = entries[e]
  BY <1>2
<1>7. DOMAIN entries' = DOMAIN entries \cup {id(i) : i \in new}
  BY <1>2
<1> QED BY <1>1, <1>3, <1>5, <1>6, <1>7 DEF Adds, id, row

\* The import gives new ids, and the pictures of what it adds are there.
LEMMA DiaryImportInv ==
  ASSUME DiaryInv, NEW x \in DiaryExports, Diary!DiaryImport(x)
  PROVE  DiaryInv'
<1>1. EntriesInv /\ Adds(x)
  BY ImportAdds DEF DiaryInv
<1>2. PICK pics : pics = {x[i].pic : i \in DOMAIN x} \ {"nopic"}
  OBVIOUS
<1>3. UNCHANGED <<onCards, files, del, reader>> /\ Diary!Exposes(pics)
  BY <1>2 DEF Diary!DiaryImport, Diary!PicturesOf, Diary!NoPic
<1>4. ASSUME NEW e \in DOMAIN entries', e \notin DOMAIN entries
      PROVE  \E i \in NewPosts(x) : NewId(x, i) = e /\ entries'[e] = RowOf(x, i)
  BY <1>1, <1>4 DEF Adds
<1>5. ASSUME NEW e \in DOMAIN entries PROVE e \in DOMAIN entries' /\ entries'[e] = entries[e]
  BY <1>1 DEF Adds
<1>6. ASSUME NEW i \in NewPosts(x) PROVE DiaryEntry(RowOf(x, i)) /\ RowOf(x, i).pics \subseteq pics
  <2>1. i \in DOMAIN x
    BY DEF NewPosts
  <2>2. x[i].day \in Int
    BY <2>1, ExportRows
  <2>3. DiaryEntry(RowOf(x, i))
    BY <2>2 DEF DiaryEntry, RowOf
  <2>4. RowOf(x, i).pics = {x[i].pic} \ {"nopic"}
    BY DEF RowOf
  <2> QED BY <1>2, <2>1, <2>3, <2>4
<1>7. EntriesInv'
  <2>1. \E n \in Nat : DOMAIN entries' \subseteq 1..n
    <3>1. \E n \in Nat : DOMAIN entries \cup {NewId(x, i) : i \in NewPosts(x)} \subseteq 1..n
      BY <1>1, NewIds
    <3> QED BY <1>1, <3>1 DEF Adds
  <2>2. ASSUME NEW e \in DOMAIN entries' PROVE DiaryEntry(entries'[e])
    BY <1>1, <1>4, <1>5, <1>6 DEF EntriesInv
  <2> QED BY <2>1, <2>2 DEF EntriesInv, DiaryEntry
<1>8. PicturesInv'
  <2>1. ASSUME NEW p \in Diary!Used' PROVE p \in Diary!Used \/ p \in pics
    <3>1. CASE p \in onCards'
      BY <1>3, <3>1, UsedIs
    <3>2. ASSUME NEW e \in DOMAIN entries', p \in entries'[e].pics PROVE p \in Diary!Used \/ p \in pics
      BY <1>4, <1>5, <1>6, <3>2, UsedIs
    <3> QED BY <3>1, <3>2, UsedIs
  <2> QED BY <1>3, <2>1, PicturesSaved DEF DiaryInv
<1>9. ReaderInv'
  BY <1>3, <1>5, ReaderKept DEF DiaryInv, ReaderInv
<1> QED BY <1>7, <1>8, <1>9 DEF DiaryInv

LEMMA DiaryStep == DiaryInv /\ [MCNext]_allVars => DiaryInv'
<1> SUFFICES ASSUME DiaryInv, [MCNext]_allVars PROVE DiaryInv'
  OBVIOUS
<1>1. ASSUME UNCHANGED <<entries, onCards, exposed, reader, del>>, files \subseteq files' PROVE DiaryInv'
  BY <1>1, PicturesSame, MediaInv DEF DiaryInv
<1>2. CASE Diary!DiaryNext
  <2>1. ASSUME NEW u, NEW p, NEW x,
               \/ Diary!UploadAsked(u, p) \/ Diary!MediaDecoded(u) \/ Diary!MediaRenamed(u) \/ Diary!MediaRow(u)
               \/ Diary!ImportRead(x) \/ Diary!ImportPut(p) \/ Diary!ImportFails
        PROVE  DiaryInv'
    <3>1. UNCHANGED <<entries, onCards, exposed, reader, del>> /\ files \subseteq files'
      BY <2>1 DEF Diary!UploadAsked, Diary!MediaDecoded, Diary!MediaRenamed, Diary!MediaRow,
           Diary!ImportRead, Diary!ImportPut, Diary!ImportFails
    <3> QED BY <1>1, <3>1
  <2>2. \A d \in Dates : d \in Nat
    BY PagesAssumption
  <2> QED BY <1>2, <2>1, <2>2, EntryInv, ListPageInv, OpenInv, DeleteInv, DiaryImportInv DEF Diary!DiaryNext
<1>3. CASE UNCHANGED diaryVars
  BY <1>1, <1>3 DEF diaryVars
<1>4. Diary!DiaryNext \/ UNCHANGED diaryVars
  BY DEF MCNext, allVars
<1> QED BY <1>2, <1>3, <1>4

\* For any pictures, uploads, page sizes and dates (diary.go, media.go): a
\* picture that is shown is on the disk, unless it was saved while or after it
\* was deleted, and paging shows every entry nobody moves exactly once.
THEOREM DiaryKept == MCSpec => []DiarySound
<1>1. MCInit => DiaryInv
  BY DiaryInvInit DEF MCInit
<1>2. DiaryInv /\ [MCNext]_allVars => DiaryInv'
  BY DiaryStep
<1>3. DiaryInv => DiarySound
  <2> SUFFICES ASSUME DiaryInv PROVE DiarySound
    OBVIOUS
  <2>1. Diary!PagedOnce
    <3>1. ASSUME NEW i \in reader.stable
          PROVE  Diary!TimesSeen(reader.seen, i) <= 1 /\ (reader.done => Diary!TimesSeen(reader.seen, i) = 1)
      <4>1. /\ Diary!TimesSeen(reader.seen, i) = IF Diary!BeforeCursor(i, reader.cursor) THEN 0 ELSE 1
            /\ reader.done => ~Diary!BeforeCursor(i, reader.cursor)
        BY DEF DiaryInv, ReaderInv
      <4> QED BY <4>1
    <3> QED BY <3>1 DEF Diary!PagedOnce
  <2> QED BY <2>1 DEF DiarySound, DiaryInv, PicturesInv
<1> QED BY <1>1, <1>2, <1>3, PTL DEF MCSpec

\* What a row of the diary was imported from.
PostedAs(r, x, i) == x[i].post = r.post /\ Diary!SourceOf(x, i) = r.source

\* An entry was written by hand, or is the only one of its post.
SourcesInv ==
  /\ \A e \in DOMAIN entries :
       \/ entries[e].post = 0 /\ entries[e].source = <<>>
       \/ \E x \in DiaryExports : Diary!Numbered(x) /\ \E i \in DOMAIN x : PostedAs(entries[e], x, i)
  /\ \A e, f \in DOMAIN entries : entries[e].post # 0 /\ entries[e].post = entries[f].post => e = f

\* Only an import adds a post.
LEMMA SourcesKept ==
  ASSUME SourcesInv,
         \A e \in DOMAIN entries' :
           \/ entries'[e].post = 0 /\ entries'[e].source = <<>>
           \/ e \in DOMAIN entries /\ entries'[e].post = entries[e].post /\ entries'[e].source = entries[e].source
  PROVE  SourcesInv'
<1>1. ASSUME NEW e \in DOMAIN entries'
      PROVE  \/ entries'[e].post = 0 /\ entries'[e].source = <<>>
             \/ \E x \in DiaryExports : Diary!Numbered(x) /\ \E i \in DOMAIN x : PostedAs(entries'[e], x, i)
  BY <1>1 DEF SourcesInv, PostedAs
<1>2. ASSUME NEW e \in DOMAIN entries', NEW f \in DOMAIN entries', entries'[e].post # 0, entries'[e].post = entries'[f].post
      PROVE  e = f
  BY <1>2 DEF SourcesInv
<1> QED BY <1>1, <1>2 DEF SourcesInv, PostedAs

\* An export names no post 0, and no place is that of an entry by hand.
LEMMA PostsNamed ==
  ASSUME NEW x \in DiaryExports, NEW i \in DOMAIN x
  PROVE  x[i].post # 0 /\ Diary!SourceOf(x, i) # <<>>
<1>1. x[i].post # 0
  BY ExportRows
<1>2. PICK a, b : Diary!SourceOf(x, i) = <<a, b>>
  BY DEF Diary!SourceOf
<1>3. <<a, b>> # <<>>
  OBVIOUS
<1> QED BY <1>1, <1>2, <1>3

\* The import under way is of an export that was numbered when it was read.
PuttingInv ==
  /\ putting = [pc |-> putting.pc, of |-> putting.of, left |-> putting.left]
  /\ putting.pc # "idle" => Diary!Numbered(putting.of)

LEMMA PuttingStep == PuttingInv /\ [MCNext]_allVars => PuttingInv'
<1> SUFFICES ASSUME PuttingInv, [MCNext]_allVars PROVE PuttingInv'
  OBVIOUS
<1>1. ASSUME putting' = putting PROVE PuttingInv'
  BY <1>1 DEF PuttingInv
<1>2. CASE Diary!DiaryNext
  <2>1. ASSUME NEW u, NEW p, NEW ps, NEW id, NEW d,
               \/ Diary!DiaryCreate(d) \/ Diary!DiaryUpdate(id, d, ps) \/ Diary!DiaryDelete(id)
               \/ Diary!UploadAsked(u, p) \/ Diary!MediaDecoded(u) \/ Diary!MediaRenamed(u) \/ Diary!MediaRow(u)
               \/ Diary!SaveCard(ps) \/ Diary!DiaryListPage \/ Diary!DiaryOpen
               \/ Diary!DeleteChecked(p) \/ Diary!DeleteRow \/ Diary!DeleteFile \/ Diary!DiaryCrash
        PROVE  putting' = putting
    BY <2>1 DEF Diary!DiaryCreate, Diary!DiaryUpdate, Diary!DiaryDelete,
         Diary!UploadAsked, Diary!MediaDecoded, Diary!MediaRenamed, Diary!MediaRow, Diary!SaveCard,
         Diary!DiaryListPage, Diary!DiaryOpen, Diary!DeleteChecked, Diary!DeleteRow, Diary!DeleteFile, Diary!DiaryCrash
  <2>2. ASSUME NEW x, Diary!ImportRead(x) PROVE PuttingInv'
    BY <2>2 DEF Diary!ImportRead, PuttingInv
  <2>3. ASSUME NEW p, Diary!ImportPut(p) PROVE PuttingInv'
    BY <2>3 DEF Diary!ImportPut, PuttingInv
  <2>4. ASSUME NEW x, Diary!DiaryImport(x) \/ Diary!ImportFails PROVE PuttingInv'
    <3>1. putting' = [pc |-> "idle", of |-> <<>>, left |-> {}]
      BY <2>4 DEF Diary!DiaryImport, Diary!ImportFails, Diary!NoImport
    <3> QED BY <3>1 DEF PuttingInv
  <2> QED BY <1>1, <1>2, <2>1, <2>2, <2>3, <2>4 DEF Diary!DiaryNext
<1>3. CASE UNCHANGED diaryVars
  BY <1>1, <1>3 DEF diaryVars
<1>4. Diary!DiaryNext \/ UNCHANGED diaryVars
  BY DEF MCNext, allVars
<1> QED BY <1>2, <1>3, <1>4

LEMMA SourcesImport ==
  ASSUME DiaryInv, SourcesInv, PuttingInv, NEW x \in DiaryExports, Diary!DiaryImport(x)
  PROVE  /\ SourcesInv'
         /\ \A i \in DOMAIN x : Cardinality({e \in DOMAIN entries' : entries'[e].post = x[i].post}) = 1
<1>1. Adds(x) /\ Diary!Numbered(x)
  <2>1. putting.pc = "put" /\ putting.of = x
    BY DEF Diary!DiaryImport
  <2> QED BY <2>1, ImportAdds DEF DiaryInv, PuttingInv
<1>2. ASSUME NEW i \in NewPosts(x) PROVE i \in DOMAIN x /\ PostedAs(RowOf(x, i), x, i)
  BY DEF NewPosts, RowOf, PostedAs
<1>3. ASSUME NEW e \in DOMAIN entries, NEW i \in DOMAIN x
      PROVE  entries[e].post = x[i].post <=> entries[e].source = Diary!SourceOf(x, i)
  <2>1. CASE entries[e].post = 0 /\ entries[e].source = <<>>
    BY <2>1, PostsNamed
  <2>2. CASE \E y \in DiaryExports : Diary!Numbered(y) /\ \E j \in DOMAIN y : PostedAs(entries[e], y, j)
    <3>1. PICK y \in DiaryExports : Diary!Numbered(y) /\ \E j \in DOMAIN y : PostedAs(entries[e], y, j)
      BY <2>2
    <3>2. PICK j \in DOMAIN y : PostedAs(entries[e], y, j)
      BY <3>1
    <3> QED BY <1>1, <3>1, <3>2, PlacesAgree DEF PostedAs
  <2> QED BY <2>1, <2>2 DEF SourcesInv
<1>4. ASSUME NEW e \in DOMAIN entries', e \notin DOMAIN entries
      PROVE  \E i \in NewPosts(x) : NewId(x, i) = e /\ entries'[e] = RowOf(x, i)
  BY <1>1, <1>4 DEF Adds
<1>5. ASSUME NEW e \in DOMAIN entries PROVE e \in DOMAIN entries' /\ entries'[e] = entries[e]
  BY <1>1 DEF Adds
<1>6. ASSUME NEW e \in DOMAIN entries'
      PROVE  \/ entries'[e].post = 0 /\ entries'[e].source = <<>>
             \/ \E y \in DiaryExports : Diary!Numbered(y) /\ \E i \in DOMAIN y : PostedAs(entries'[e], y, i)
  <2>1. CASE e \in DOMAIN entries
    BY <1>5, <2>1 DEF SourcesInv
  <2>2. CASE e \notin DOMAIN entries
    <3>1. PICK i \in NewPosts(x) : entries'[e] = RowOf(x, i)
      BY <1>4, <2>2
    <3> QED BY <1>1, <1>2, <3>1
  <2> QED BY <2>1, <2>2
\* A new row has a post that no old row has.
<1>7. ASSUME NEW e \in DOMAIN entries, NEW i \in NewPosts(x) PROVE entries[e].post # x[i].post
  <2>1. entries[e].source # Diary!SourceOf(x, i)
    BY DEF NewPosts
  <2> QED BY <1>2, <1>3, <2>1
<1>8. ASSUME NEW e \in DOMAIN entries', NEW f \in DOMAIN entries', entries'[e].post # 0, entries'[e].post = entries'[f].post
      PROVE  e = f
  <2>1. \A i \in NewPosts(x) : RowOf(x, i).post = x[i].post
    BY DEF RowOf
  <2>2. CASE e \in DOMAIN entries /\ f \in DOMAIN entries
    BY <1>5, <1>8, <2>2 DEF SourcesInv
  <2>3. CASE e \in DOMAIN entries /\ f \notin DOMAIN entries
    BY <1>4, <1>5, <1>7, <1>8, <2>1, <2>3
  <2>4. CASE e \notin DOMAIN entries /\ f \in DOMAIN entries
    BY <1>4, <1>5, <1>7, <1>8, <2>1, <2>4
  <2>5. CASE e \notin DOMAIN entries /\ f \notin DOMAIN entries
    <3>1. PICK i \in NewPosts(x) : NewId(x, i) = e /\ entries'[e] = RowOf(x, i)
      BY <1>4, <2>5
    <3>2. PICK j \in NewPosts(x) : NewId(x, j) = f /\ entries'[f] = RowOf(x, j)
      BY <1>4, <2>5
    <3>3. x[i].post = x[j].post
      BY <1>8, <2>1, <3>1, <3>2
    <3>4. i = j
      BY <1>2, <3>3, ExportRows
    <3> QED BY <3>1, <3>2, <3>4
  <2> QED BY <2>2, <2>3, <2>4, <2>5
<1>9. ASSUME NEW i \in DOMAIN x
      PROVE  Cardinality({e \in DOMAIN entries' : entries'[e].post = x[i].post}) = 1
  <2>1. \E e \in DOMAIN entries' : entries'[e].post = x[i].post
    <3>1. CASE i \in NewPosts(x)
      <4>1. NewId(x, i) \in DOMAIN entries' /\ entries'[NewId(x, i)] = RowOf(x, i)
        BY <1>1, <3>1 DEF Adds
      <4>2. RowOf(x, i).post = x[i].post
        BY DEF RowOf
      <4> QED BY <4>1, <4>2
    <3>2. CASE i \notin NewPosts(x)
      <4>1. PICK e \in DOMAIN entries : entries[e].source = Diary!SourceOf(x, i)
        BY <3>2 DEF NewPosts
      <4> QED BY <1>3, <1>5, <4>1
    <3> QED BY <3>1, <3>2
  <2>2. PICK e \in DOMAIN entries' : entries'[e].post = x[i].post
    BY <2>1
  <2>3. {f \in DOMAIN entries' : entries'[f].post = x[i].post} = {e}
    BY <1>8, <2>2, PostsNamed
  <2> QED BY <2>3, FS_Singleton
<1> QED BY <1>6, <1>8, <1>9 DEF SourcesInv, PostedAs

\* For any exports that name their posts (diarycmd.go, diary.go): however
\* often an export is imported, and whatever was edited or deleted between,
\* each of its posts is in the diary exactly once afterwards.
THEOREM ImportsOnce == MCSpec => ImportedOnce
<1>1. MCInit => DiaryInv /\ SourcesInv /\ PuttingInv
  <2>1. MCInit => DiaryInv
    BY DiaryInvInit DEF MCInit
  <2>2. MCInit => SourcesInv
    <3>1. MCInit => \A e \in DOMAIN entries : entries[e].post = 0 /\ entries[e].source = <<>>
      BY DEF MCInit, Diary!DiaryInit
    <3> QED BY <3>1 DEF SourcesInv
  <2>3. MCInit => PuttingInv
    BY DEF MCInit, Diary!DiaryInit, Diary!NoImport, PuttingInv
  <2> QED BY <2>1, <2>2, <2>3
<1>2. DiaryInv /\ SourcesInv /\ PuttingInv /\ [MCNext]_allVars => SourcesInv'
  <2> SUFFICES ASSUME DiaryInv, SourcesInv, PuttingInv, [MCNext]_allVars PROVE SourcesInv'
    OBVIOUS
  <2>1. ASSUME UNCHANGED entries PROVE SourcesInv'
    BY <2>1, SourcesKept, Zenon DEF SourcesInv, PostedAs
  <2>2. CASE Diary!DiaryNext
    <3>1. ASSUME NEW u, NEW p, NEW ps, NEW x,
                 \/ Diary!UploadAsked(u, p) \/ Diary!MediaDecoded(u) \/ Diary!MediaRenamed(u) \/ Diary!MediaRow(u)
                 \/ Diary!SaveCard(ps) \/ Diary!DiaryListPage \/ Diary!DiaryOpen
                 \/ Diary!DeleteChecked(p) \/ Diary!DeleteRow \/ Diary!DeleteFile \/ Diary!DiaryCrash
                 \/ Diary!ImportRead(x) \/ Diary!ImportPut(p) \/ Diary!ImportFails
          PROVE  UNCHANGED entries
      BY <3>1 DEF Diary!UploadAsked, Diary!MediaDecoded, Diary!MediaRenamed, Diary!MediaRow, Diary!SaveCard,
           Diary!DiaryListPage, Diary!DiaryOpen, Diary!DeleteChecked, Diary!DeleteRow, Diary!DeleteFile, Diary!DiaryCrash,
           Diary!ImportRead, Diary!ImportPut, Diary!ImportFails
    <3>2. ASSUME NEW d, Diary!DiaryCreate(d) PROVE SourcesInv'
      <4>1. ASSUME NEW e \in DOMAIN entries'
            PROVE  \/ entries'[e].post = 0 /\ entries'[e].source = <<>>
                   \/ e \in DOMAIN entries /\ entries'[e] = entries[e]
        BY <3>2 DEF Diary!DiaryCreate
      <4> QED BY <4>1, SourcesKept
    <3>3. ASSUME NEW id \in DOMAIN entries, NEW d, NEW ps, Diary!DiaryUpdate(id, d, ps) PROVE SourcesInv'
      <4>1. DiaryEntry(entries[id])
        BY DEF DiaryInv, EntriesInv
      <4>2. entries' = [entries EXCEPT ![id].date = d, ![id].pics = ps]
        BY <3>3 DEF Diary!DiaryUpdate
      <4>3. DOMAIN entries' = DOMAIN entries /\ \A e \in DOMAIN entries : e # id => entries'[e] = entries[e]
        BY <4>2
      <4>4. entries'[id].post = entries[id].post /\ entries'[id].source = entries[id].source
        BY <4>1, <4>2 DEF DiaryEntry
      <4> QED BY <4>3, <4>4, SourcesKept
    <3>4. ASSUME NEW id, Diary!DiaryDelete(id) PROVE SourcesInv'
      <4>1. ASSUME NEW e \in DOMAIN entries' PROVE e \in DOMAIN entries /\ entries'[e] = entries[e]
        BY <3>4 DEF Diary!DiaryDelete
      <4> QED BY <4>1, SourcesKept
    <3> QED BY <2>1, <2>2, <3>1, <3>2, <3>3, <3>4, SourcesImport DEF Diary!DiaryNext
  <2>3. CASE UNCHANGED diaryVars
    BY <2>1, <2>3 DEF diaryVars
  <2>4. Diary!DiaryNext \/ UNCHANGED diaryVars
    BY DEF MCNext, allVars
  <2> QED BY <2>2, <2>3, <2>4
<1>3. (DiaryInv /\ [MCNext]_allVars => DiaryInv') /\ (PuttingInv /\ [MCNext]_allVars => PuttingInv')
  BY DiaryStep, PuttingStep
<1>4. DiaryInv /\ SourcesInv /\ PuttingInv
      => [\A x \in DiaryExports : Diary!DiaryImport(x) =>
            \A i \in DOMAIN x : Diary!Cardinality({e \in DOMAIN entries' : entries'[e].post = x[i].post}) = 1]_diaryVars
  BY SourcesImport, DiaryCount
<1> QED BY <1>1, <1>2, <1>3, <1>4, PTL DEF MCSpec, ImportedOnce, Diary!ImportedOnce, Diary!diaryVars, diaryVars

-----------------------------------------------------------------------------
(***************************************************************************)
(* Boards.                                                                 *)
(***************************************************************************)

LEMMA BoardsCount == \A S : Boards!Cardinality(S) = Cardinality(S)
  BY DEF Boards!Cardinality, Cardinality

\* The members of S are numbered 0 to n - 1 by f, each once.
Dense(S, f, n) ==
  /\ \A c \in S : f[c] \in 0..(n - 1)
  /\ \A c, d \in S : f[c] = f[d] => c = d
  /\ \A y \in 0..(n - 1) : \E c \in S : f[c] = y

LEMMA DenseCount ==
  ASSUME NEW S, NEW f, NEW n \in Nat, Dense(S, f, n)
  PROVE  IsFiniteSet(S) /\ Cardinality(S) = n /\ {f[c] : c \in S} = 0..(n - 1)
<1> DEFINE T == 0..(n - 1)
           g == [c \in S |-> f[c]]
<1>1. IsFiniteSet(T) /\ Cardinality(T) = n
  <2>1. 0 \in Int /\ n - 1 \in Int
    OBVIOUS
  <2>2. IsFiniteSet(T) /\ Cardinality(T) = IF 0 > n - 1 THEN 0 ELSE n - 1 - 0 + 1
    BY <2>1, FS_Interval
  <2> HIDE DEF T
  <2> QED BY <2>2
<1>2. g \in Injection(S, T) /\ g \in Surjection(S, T)
  <2>1. g \in [S -> T]
    BY DEF Dense
  <2>2. \A a, b \in S : g[a] = g[b] => a = b
    BY DEF Dense
  <2>3. \A t \in T : \E a \in S : g[a] = t
    BY DEF Dense
  <2> HIDE DEF T, g
  <2> QED BY <2>1, <2>2, <2>3 DEF Injection, Surjection, IsInjective
<1>3. {f[c] : c \in S} = T
  BY DEF Dense
<1> HIDE DEF T, g
<1>4. IsFiniteSet(S) /\ Cardinality(S) = Cardinality(T)
  BY <1>1, <1>2, FS_Injection
<1> QED BY <1>1, <1>3, <1>4 DEF T

LEMMA DenseSame ==
  ASSUME NEW S, NEW f, NEW g, NEW n \in Nat, Dense(S, f, n), \A c \in S : g[c] = f[c]
  PROVE  Dense(S, g, n)
BY DEF Dense

\* One goes and those behind it move up.
LEMMA DenseRemove ==
  ASSUME NEW S, NEW f, NEW g, NEW n \in Nat, Dense(S, f, n), NEW c \in S,
         \A d \in S \ {c} : g[d] = IF f[d] > f[c] THEN f[d] - 1 ELSE f[d]
  PROVE  n > 0 /\ Dense(S \ {c}, g, n - 1)
<1>1. PICK p : p = f[c]
  OBVIOUS
<1>2. p \in 0..(n - 1) /\ n > 0
  BY <1>1 DEF Dense
<1>3. ASSUME NEW d \in S \ {c}
      PROVE  /\ f[d] \in 0..(n - 1) /\ f[d] # p
             /\ g[d] = IF f[d] > p THEN f[d] - 1 ELSE f[d]
  BY <1>1 DEF Dense
<1>4. ASSUME NEW d \in S \ {c} PROVE g[d] \in 0..(n - 2)
  BY <1>2, <1>3
<1>5. ASSUME NEW d \in S \ {c}, NEW e \in S \ {c}, g[d] = g[e] PROVE d = e
  <2>1. f[d] = f[e]
    BY <1>2, <1>3, <1>5
  <2> QED BY <2>1 DEF Dense
<1>6. ASSUME NEW y \in 0..(n - 2) PROVE \E d \in S \ {c} : g[d] = y
  <2>1. PICK z : z = IF y >= p THEN y + 1 ELSE y
    OBVIOUS
  <2>2. z \in 0..(n - 1) /\ z # p
    BY <1>2, <2>1
  <2>3. PICK d \in S : f[d] = z
    BY <2>2 DEF Dense
  <2>4. d # c
    BY <1>1, <2>2, <2>3
  <2>5. g[d] = y
    BY <1>2, <1>3, <2>1, <2>3, <2>4
  <2> QED BY <2>4, <2>5
<1>7. n - 1 - 1 = n - 2
  OBVIOUS
<1> QED BY <1>2, <1>4, <1>5, <1>6, <1>7 DEF Dense

\* A gap opens for one more.
LEMMA DenseInsert ==
  ASSUME NEW S, NEW f, NEW g, NEW n \in Nat, Dense(S, f, n), NEW c, c \notin S, NEW at \in 0..n, g[c] = at,
         \A d \in S : g[d] = IF f[d] >= at THEN f[d] + 1 ELSE f[d]
  PROVE  Dense(S \cup {c}, g, n + 1)
<1>1. ASSUME NEW d \in S
      PROVE  f[d] \in 0..(n - 1) /\ g[d] = IF f[d] >= at THEN f[d] + 1 ELSE f[d]
  BY DEF Dense
<1>2. ASSUME NEW d \in S PROVE g[d] \in 0..n /\ g[d] # at
  BY <1>1
<1>3. ASSUME NEW d \in S, NEW e \in S, g[d] = g[e] PROVE d = e
  <2>1. f[d] = f[e]
    BY <1>1, <1>3
  <2> QED BY <2>1 DEF Dense
<1>4. ASSUME NEW y \in 0..n PROVE \E d \in S \cup {c} : g[d] = y
  <2>1. CASE y = at
    BY <2>1
  <2>2. CASE y # at
    <3>1. PICK z : z = IF y > at THEN y - 1 ELSE y
      OBVIOUS
    <3>2. z \in 0..(n - 1)
      BY <2>2, <3>1
    <3>3. PICK d \in S : f[d] = z
      BY <3>2 DEF Dense
    <3>4. g[d] = y
      BY <1>1, <2>2, <3>1, <3>3
    <3> QED BY <3>4
  <2> QED BY <2>1, <2>2
<1>5. n + 1 - 1 = n
  OBVIOUS
<1>6. \A d \in S \cup {c} : g[d] \in 0..n
  BY <1>2
<1>7. \A d, e \in S \cup {c} : g[d] = g[e] => d = e
  BY <1>2, <1>3
<1> QED BY <1>4, <1>5, <1>6, <1>7 DEF Dense

\* The greatest of a bounded set of numbers.
LEMMA BoardsMax ==
  ASSUME NEW S, S \subseteq Nat, S # {}, NEW n \in Nat, \A y \in S : y <= n
  PROVE  Boards!Max(S) \in S /\ \A y \in S : y <= Boards!Max(S)
<1>1. PICK x \in S : \A y \in S : x >= y
  <2>1. \E x \in S : \A y \in S : y <= x
    BY GreatestOne
  <2> QED BY <2>1
<1>2. PICK m : m = Boards!Max(S)
  OBVIOUS
<1>3. m \in S /\ \A y \in S : m >= y
  BY <1>1, <1>2, Zenon DEF Boards!Max
<1> QED BY <1>2, <1>3

\* The position of a new one.
LEMMA EndOfDense ==
  ASSUME NEW S, NEW f, NEW n \in Nat, Dense(S, f, n)
  PROVE  Boards!EndOf({f[c] : c \in S}) = n
<1>1. PICK P : P = {f[c] : c \in S}
  OBVIOUS
<1>2. P = 0..(n - 1)
  BY <1>1, DenseCount
<1>3. CASE n = 0
  <2>1. P = {}
    BY <1>2, <1>3
  <2> QED BY <1>1, <1>3, <2>1 DEF Boards!EndOf
<1>4. CASE n > 0
  <2>1. P \subseteq Nat /\ P # {} /\ \A y \in P : y <= n
    BY <1>2, <1>4
  <2>2. PICK m : m = Boards!Max(P)
    OBVIOUS
  <2>3. m \in P /\ \A y \in P : y <= m
    BY <2>1, <2>2, BoardsMax
  <2>4. m = n - 1
    BY <1>2, <1>4, <2>3
  <2>5. Boards!EndOf(P) = m + 1
    BY <2>1, <2>2 DEF Boards!EndOf
  <2> QED BY <1>1, <2>4, <2>5
<1> QED BY <1>3, <1>4

\* The id of a new row is not in use.
LEMMA NextIdNew ==
  ASSUME NEW S, NEW n \in Nat, S \subseteq 1..n
  PROVE  Boards!NextId(S) \in Nat \ {0} /\ \A y \in S : y < Boards!NextId(S)
<1>1. CASE S = {}
  BY <1>1 DEF Boards!NextId
<1>2. CASE S # {}
  <2>1. S \subseteq Nat /\ \A y \in S : y <= n
    OBVIOUS
  <2>2. PICK m : m = Boards!Max(S)
    OBVIOUS
  <2>3. m \in S /\ \A y \in S : y <= m
    BY <1>2, <2>1, <2>2, BoardsMax
  <2>4. Boards!NextId(S) = m + 1
    BY <1>2, <2>2 DEF Boards!NextId
  <2> QED BY <2>1, <2>3, <2>4
<1> QED BY <1>1, <1>2


\* In each group of D, by g, the members are numbered by p.
Placed(D, g, p) == \A k : \E n \in Nat : Dense({x \in D : g[x] = k}, p, n)

LEMMA PlacedSame ==
  ASSUME NEW D, NEW g, NEW p, Placed(D, g, p), NEW h, NEW q, \A x \in D : h[x] = g[x] /\ q[x] = p[x]
  PROVE  Placed(D, h, q)
<1> SUFFICES ASSUME NEW k PROVE \E n \in Nat : Dense({x \in D : h[x] = k}, q, n)
  BY DEF Placed
<1>1. PICK n \in Nat : Dense({x \in D : g[x] = k}, p, n)
  BY DEF Placed
<1>2. {x \in D : h[x] = k} = {x \in D : g[x] = k}
  OBVIOUS
<1> QED BY <1>1, <1>2, DenseSame

\* Whole groups go.
LEMMA PlacedDrop ==
  ASSUME NEW D, NEW g, NEW p, Placed(D, g, p), NEW ks, NEW E, E = {x \in D : g[x] \notin ks}
  PROVE  Placed(E, g, p)
<1> SUFFICES ASSUME NEW k PROVE \E n \in Nat : Dense({x \in E : g[x] = k}, p, n)
  BY DEF Placed
<1>1. CASE k \in ks
  <2>1. {x \in E : g[x] = k} = {}
    BY <1>1
  <2>2. Dense({}, p, 0)
    BY DEF Dense
  <2> QED BY <2>1, <2>2
<1>2. CASE k \notin ks
  <2>1. {x \in E : g[x] = k} = {x \in D : g[x] = k}
    BY <1>2
  <2> QED BY <2>1 DEF Placed
<1> QED BY <1>1, <1>2

\* One goes, and its group closes up.
LEMMA PlacedRemove ==
  ASSUME NEW D, NEW g, NEW p, Placed(D, g, p), NEW c \in D, NEW q,
         \A x \in D \ {c} : q[x] = IF g[x] = g[c] /\ p[x] > p[c] THEN p[x] - 1 ELSE p[x]
  PROVE  Placed(D \ {c}, g, q)
<1> SUFFICES ASSUME NEW k PROVE \E n \in Nat : Dense({x \in D \ {c} : g[x] = k}, q, n)
  BY DEF Placed
<1>1. PICK n \in Nat : Dense({x \in D : g[x] = k}, p, n)
  BY DEF Placed
<1>2. PICK S : S = {x \in D : g[x] = k}
  OBVIOUS
<1>3. CASE k = g[c]
  <2>1. {x \in D \ {c} : g[x] = k} = S \ {c} /\ c \in S
    BY <1>2, <1>3
  <2>2. \A x \in S \ {c} : q[x] = IF p[x] > p[c] THEN p[x] - 1 ELSE p[x]
    BY <1>2, <1>3
  <2>3. n > 0 /\ Dense(S \ {c}, q, n - 1)
    BY <1>1, <1>2, <2>1, <2>2, DenseRemove
  <2>4. n - 1 \in Nat
    BY <2>3
  <2> QED BY <2>1, <2>3, <2>4
<1>4. CASE k # g[c]
  <2>1. {x \in D \ {c} : g[x] = k} = S
    BY <1>2, <1>4
  <2>2. \A x \in S : q[x] = p[x]
    BY <1>2, <1>4
  <2> QED BY <1>1, <1>2, <2>1, <2>2, DenseSame
<1> QED BY <1>3, <1>4

\* c comes to a group at a place up to its size, and the group makes room.
Inserted(D, g, p, c, to, at, h, q) ==
  /\ c \notin D /\ h[c] = to /\ q[c] = at
  /\ at \in 0..Cardinality({x \in D : g[x] = to})
  /\ \A x \in D : h[x] = g[x] /\ q[x] = IF g[x] = to /\ p[x] >= at THEN p[x] + 1 ELSE p[x]

LEMMA PlacedInsert ==
  ASSUME NEW D, NEW g, NEW p, Placed(D, g, p), NEW c, NEW h, NEW q, NEW to, NEW at,
         Inserted(D, g, p, c, to, at, h, q)
  PROVE  Placed(D \cup {c}, h, q)
<1> USE DEF Inserted
<1> SUFFICES ASSUME NEW k PROVE \E n \in Nat : Dense({x \in D \cup {c} : h[x] = k}, q, n)
  BY DEF Placed
<1>1. PICK n \in Nat : Dense({x \in D : g[x] = k}, p, n)
  BY DEF Placed
<1>2. PICK S : S = {x \in D : g[x] = k}
  OBVIOUS
<1>3. CASE k = to
  <2>1. {x \in D \cup {c} : h[x] = k} = S \cup {c} /\ c \notin S
    BY <1>2, <1>3
  <2>2. \A x \in S : q[x] = IF p[x] >= at THEN p[x] + 1 ELSE p[x]
    BY <1>2, <1>3
  <2>3. Cardinality(S) = n
    BY <1>1, <1>2, DenseCount
  <2>4. at \in 0..n
    BY <1>2, <1>3, <2>3
  <2>5. Dense(S \cup {c}, q, n + 1)
    BY <1>1, <1>2, <2>1, <2>2, <2>4, DenseInsert
  <2>6. n + 1 \in Nat
    OBVIOUS
  <2> QED BY <2>1, <2>5, <2>6
<1>4. CASE k # to
  <2>1. {x \in D \cup {c} : h[x] = k} = S
    BY <1>2, <1>4
  <2>2. \A x \in S : q[x] = p[x]
    BY <1>2, <1>4
  <2> QED BY <1>1, <1>2, <2>1, <2>2, DenseSame
<1> QED BY <1>3, <1>4

\* At the end nobody makes room.
Appended(D, g, p, c, to, h, q) ==
  /\ c \notin D /\ h[c] = to /\ q[c] = Boards!EndOf({p[x] : x \in {y \in D : g[y] = to}})
  /\ \A x \in D : h[x] = g[x] /\ q[x] = p[x]

LEMMA PlacedAppend ==
  ASSUME NEW D, NEW g, NEW p, Placed(D, g, p), NEW c, NEW h, NEW q, NEW to, Appended(D, g, p, c, to, h, q)
  PROVE  Placed(D \cup {c}, h, q)
<1> USE DEF Appended
<1>1. PICK n \in Nat : Dense({x \in D : g[x] = to}, p, n)
  BY DEF Placed
<1>2. PICK S : S = {x \in D : g[x] = to}
  OBVIOUS
<1>3. q[c] = n
  BY <1>1, <1>2, EndOfDense
<1>4. Cardinality(S) = n
  BY <1>1, <1>2, DenseCount
<1>5. n \in 0..Cardinality({x \in D : g[x] = to})
  BY <1>2, <1>4
<1>6. \A x \in D : g[x] = to => ~(p[x] >= n)
  BY <1>1 DEF Dense
<1>7. \A x \in D : h[x] = g[x] /\ q[x] = IF g[x] = to /\ p[x] >= n THEN p[x] + 1 ELSE p[x]
  BY <1>6
<1>8. Inserted(D, g, p, c, to, n, h, q)
  BY <1>3, <1>5, <1>7 DEF Inserted
<1> QED BY ONLY Placed(D, g, p), <1>8, PlacedInsert

BoardCard(r) ==
  r = [col |-> r.col, pos |-> r.pos, due |-> r.due, first |-> r.first, recur |-> r.recur, done |-> r.done,
       updated |-> r.updated, archived |-> r.archived, serial |-> r.serial, series |-> r.series]
BoardColumn(r) == r = [board |-> r.board, pos |-> r.pos]

GroupOf(cs) == [c \in DOMAIN cs |-> cs[c].col]
BoardGroup(ks) == [k \in DOMAIN ks |-> ks[k].board]
PlaceOf(cs) == [c \in DOMAIN cs |-> cs[c].pos]

\* The cards, when `top' serials have been given out.
CardRows(cs, top) ==
  /\ \E n \in Nat : DOMAIN cs \subseteq 1..n
  /\ \A c \in DOMAIN cs : BoardCard(cs[c]) /\ cs[c].serial \in 1..top /\ cs[c].series \in 1..top
  /\ \A c, d \in DOMAIN cs : cs[c].serial = cs[d].serial => c = d
  /\ \A c, d \in DOMAIN cs : c # d /\ cs[c].series = cs[d].series => cs[c].recur = -1 \/ cs[d].recur = -1
  /\ Placed(DOMAIN cs, GroupOf(cs), PlaceOf(cs))

ColumnRows(ks, bs) ==
  /\ \E n \in Nat : DOMAIN ks \subseteq 1..n
  /\ \E n \in Nat : bs \subseteq 1..n
  /\ \A k \in DOMAIN ks : BoardColumn(ks[k]) /\ ks[k].board \in bs
  /\ Placed(DOMAIN ks, BoardGroup(ks), PlaceOf(ks))

\* A key is paid under the id of a card: the card there now was rewarded, or
\* took over the id of one that was.
RewardRows(cs, top, keys, rs, timely, again) ==
  /\ \A s \in DOMAIN rs : rs[s] = 1 /\ s \in timely /\ s \in 1..top
  /\ timely \subseteq DOMAIN rs \cup again
  /\ \A c \in DOMAIN cs : cs[c].serial \in DOMAIN rs => c \in keys
  /\ \A c \in DOMAIN cs : c \in keys => cs[c].serial \in DOMAIN rs \cup again

BoardsInv ==
  /\ serials \in Nat
  /\ CardRows(cards, serials)
  /\ ColumnRows(columns, boards)
  /\ RewardRows(cards, serials, paid, rewards, onTime, reused)

\* Rows go, or change in nothing that matters here but their places.
LEMMA CardRowsKept ==
  ASSUME NEW cs, NEW top \in Nat, CardRows(cs, top), NEW ds, DOMAIN ds \subseteq DOMAIN cs,
         \A c \in DOMAIN ds : /\ BoardCard(ds[c]) /\ ds[c].serial = cs[c].serial /\ ds[c].series = cs[c].series
                              /\ ds[c].recur \in {cs[c].recur, -1},
         Placed(DOMAIN ds, GroupOf(ds), PlaceOf(ds))
  PROVE  CardRows(ds, top)
<1>1. \E n \in Nat : DOMAIN ds \subseteq 1..n
  BY DEF CardRows
<1>2. \A c \in DOMAIN ds : BoardCard(ds[c]) /\ ds[c].serial \in 1..top /\ ds[c].series \in 1..top
  BY DEF CardRows
<1>3. \A c, d \in DOMAIN ds : ds[c].serial = ds[d].serial => c = d
  BY DEF CardRows
<1>4. \A c, d \in DOMAIN ds : c # d /\ ds[c].series = ds[d].series => ds[c].recur = -1 \/ ds[d].recur = -1
  BY DEF CardRows
<1> QED BY <1>1, <1>2, <1>3, <1>4 DEF CardRows

\* Nor their places.
LEMMA CardRowsSame ==
  ASSUME NEW cs, NEW top \in Nat, CardRows(cs, top), NEW ds, DOMAIN ds = DOMAIN cs,
         \A c \in DOMAIN ds : /\ BoardCard(ds[c]) /\ ds[c].serial = cs[c].serial /\ ds[c].series = cs[c].series
                              /\ ds[c].recur \in {cs[c].recur, -1}
                              /\ ds[c].col = cs[c].col /\ ds[c].pos = cs[c].pos
  PROVE  CardRows(ds, top)
<1>1. Placed(DOMAIN cs, GroupOf(cs), PlaceOf(cs))
  BY DEF CardRows
<1>2. \A c \in DOMAIN cs : GroupOf(ds)[c] = GroupOf(cs)[c] /\ PlaceOf(ds)[c] = PlaceOf(cs)[c]
  BY DEF GroupOf, PlaceOf
<1>3. Placed(DOMAIN ds, GroupOf(ds), PlaceOf(ds))
  BY <1>1, <1>2, PlacedSame
<1> QED BY <1>3, CardRowsKept

\* A new row at the end of a column, of a series of its own or of one whose
\* rule nobody carries.
LEMMA CardRowsNew ==
  ASSUME NEW cs, NEW top \in Nat, CardRows(cs, top), NEW n \in Nat \ {0}, n \notin DOMAIN cs, NEW k, NEW r,
         BoardCard(r), r.serial = top + 1, r.col = k,
         r.pos = Boards!EndOf({cs[y].pos : y \in {z \in DOMAIN cs : cs[z].col = k}}),
         \/ r.series = top + 1
         \/ r.series \in 1..top /\ \A c \in DOMAIN cs : cs[c].series = r.series => cs[c].recur = -1,
         NEW ds, DOMAIN ds = DOMAIN cs \cup {n}, ds[n] = r, \A c \in DOMAIN cs : ds[c] = cs[c]
  PROVE  CardRows(ds, top + 1)
<1>1. \E m \in Nat : DOMAIN ds \subseteq 1..m
  <2>1. PICK m \in Nat : DOMAIN cs \subseteq 1..m
    BY DEF CardRows
  <2>2. PICK j \in Nat : j >= m /\ j >= n
    <3>1. CASE m >= n
      BY <3>1
    <3>2. CASE n >= m
      BY <3>2
    <3> QED BY <3>1, <3>2
  <2>3. DOMAIN ds \subseteq 1..j
    BY <2>1, <2>2
  <2> QED BY <2>3
<1>2. \A c \in DOMAIN ds : BoardCard(ds[c]) /\ ds[c].serial \in 1..(top + 1) /\ ds[c].series \in 1..(top + 1)
  BY DEF CardRows
<1>3. \A c, d \in DOMAIN ds : ds[c].serial = ds[d].serial => c = d
  BY DEF CardRows
<1>4. \A c, d \in DOMAIN ds : c # d /\ ds[c].series = ds[d].series => ds[c].recur = -1 \/ ds[d].recur = -1
  BY DEF CardRows
<1>5. Placed(DOMAIN ds, GroupOf(ds), PlaceOf(ds))
  <2>1. Placed(DOMAIN cs, GroupOf(cs), PlaceOf(cs))
    BY DEF CardRows
  <2>2. PICK D, g, p, h, q : D = DOMAIN cs /\ g = GroupOf(cs) /\ p = PlaceOf(cs) /\ h = GroupOf(ds) /\ q = PlaceOf(ds)
    OBVIOUS
  <2>3. h[n] = k /\ q[n] = r.pos /\ \A c \in D : h[c] = g[c] /\ q[c] = p[c] /\ g[c] = cs[c].col /\ p[c] = cs[c].pos
    BY <2>2 DEF GroupOf, PlaceOf
  <2>4. {y \in D : g[y] = k} = {z \in D : cs[z].col = k}
    BY <2>3
  <2>5. {p[x] : x \in {y \in D : g[y] = k}} = {cs[x].pos : x \in {z \in D : cs[z].col = k}}
    BY <2>3, <2>4
  <2>6. Appended(D, g, p, n, k, h, q)
    BY <2>2, <2>3, <2>5 DEF Appended
  <2>7. Placed(D \cup {n}, h, q)
    BY ONLY <2>1, <2>2, <2>6, PlacedAppend
  <2> QED BY <2>2, <2>7
<1> QED BY <1>1, <1>2, <1>3, <1>4, <1>5 DEF CardRows

LEMMA RewardRowsKept ==
  ASSUME NEW cs, NEW top \in Nat, NEW keys, NEW rs, NEW timely, NEW again,
         RewardRows(cs, top, keys, rs, timely, again), NEW ds, DOMAIN ds \subseteq DOMAIN cs,
         \A c \in DOMAIN ds : ds[c].serial = cs[c].serial, NEW high \in Nat, high >= top
  PROVE  RewardRows(ds, high, keys, rs, timely, again)
BY DEF RewardRows

LEMMA BoardsInvInit == ASSUME Boards!Init PROVE BoardsInv
<1>1. PICK r : cards = <<Boards!NewCard(1, 0, 0, r, 1, 1), [Boards!NewCard(3, 0, 0, Boards!No, 2, 2) EXCEPT !.done = 0]>>
  BY DEF Boards!Init
<1>0. PICK c1, c2 : c1 = Boards!NewCard(1, 0, 0, r, 1, 1) /\ c2 = [Boards!NewCard(3, 0, 0, Boards!No, 2, 2) EXCEPT !.done = 0]
  OBVIOUS
<1>a. BoardCard(c1) /\ c1.col = 1 /\ c1.pos = 0 /\ c1.serial = 1 /\ c1.series = 1
  BY <1>0 DEF Boards!NewCard, BoardCard
<1>b. BoardCard(c2) /\ c2.col = 3 /\ c2.pos = 0 /\ c2.serial = 2 /\ c2.series = 2
  BY <1>0 DEF Boards!NewCard, BoardCard
<1>c. DOMAIN cards = 1..2 /\ cards[1] = c1 /\ cards[2] = c2
  BY <1>0, <1>1
<1>2. /\ DOMAIN cards = 1..2 /\ BoardCard(cards[1]) /\ BoardCard(cards[2])
      /\ cards[1].col = 1 /\ cards[1].pos = 0 /\ cards[1].serial = 1 /\ cards[1].series = 1
      /\ cards[2].col = 3 /\ cards[2].pos = 0 /\ cards[2].serial = 2 /\ cards[2].series = 2
  BY <1>a, <1>b, <1>c
<1>3. Placed(DOMAIN cards, GroupOf(cards), PlaceOf(cards))
  <2> SUFFICES ASSUME NEW k PROVE \E n \in Nat : Dense({x \in DOMAIN cards : GroupOf(cards)[x] = k}, PlaceOf(cards), n)
    BY DEF Placed
  <2>1. PICK S : S = {x \in DOMAIN cards : GroupOf(cards)[x] = k}
    OBVIOUS
  <2>2. CASE k = 1
    <3>1. S = {1} /\ PlaceOf(cards)[1] = 0
      BY <1>2, <2>1, <2>2 DEF GroupOf, PlaceOf
    <3>2. Dense(S, PlaceOf(cards), 1)
      BY <3>1 DEF Dense
    <3> QED BY <2>1, <3>2
  <2>3. CASE k = 3
    <3>1. S = {2} /\ PlaceOf(cards)[2] = 0
      BY <1>2, <2>1, <2>3 DEF GroupOf, PlaceOf
    <3>2. Dense(S, PlaceOf(cards), 1)
      BY <3>1 DEF Dense
    <3> QED BY <2>1, <3>2
  <2>4. CASE k \notin {1, 3}
    <3>1. S = {}
      BY <1>2, <2>1, <2>4 DEF GroupOf
    <3>2. Dense(S, PlaceOf(cards), 0)
      BY <3>1 DEF Dense
    <3> QED BY <2>1, <3>2
  <2> QED BY <2>2, <2>3, <2>4
<1>4. CardRows(cards, 2)
  BY <1>2, <1>3 DEF CardRows
<1>5. columns = [k \in 1..3 |-> [board |-> 1, pos |-> k - 1]] /\ boards = {1}
  BY DEF Boards!Init
<1>6. Placed(DOMAIN columns, BoardGroup(columns), PlaceOf(columns))
  <2> SUFFICES ASSUME NEW b PROVE \E n \in Nat : Dense({x \in DOMAIN columns : BoardGroup(columns)[x] = b}, PlaceOf(columns), n)
    BY DEF Placed
  <2>1. PICK S : S = {x \in DOMAIN columns : BoardGroup(columns)[x] = b}
    OBVIOUS
  <2>2. CASE b = 1
    <3>1. S = 1..3 /\ \A k \in S : PlaceOf(columns)[k] = k - 1
      BY <1>5, <2>1, <2>2 DEF BoardGroup, PlaceOf
    <3>2. ASSUME NEW y \in 0..2 PROVE \E k \in S : PlaceOf(columns)[k] = y
      <4>1. y + 1 \in S /\ PlaceOf(columns)[y + 1] = y
        BY <3>1
      <4> QED BY <4>1
    <3>3. Dense(S, PlaceOf(columns), 3)
      BY <3>1, <3>2 DEF Dense
    <3> QED BY <2>1, <3>3
  <2>3. CASE b # 1
    <3>1. S = {}
      BY <1>5, <2>1, <2>3 DEF BoardGroup
    <3>2. Dense(S, PlaceOf(columns), 0)
      BY <3>1 DEF Dense
    <3> QED BY <2>1, <3>2
  <2> QED BY <2>2, <2>3
<1>7. ColumnRows(columns, boards)
  <2>1. DOMAIN columns \subseteq 1..3 /\ boards \subseteq 1..1
    BY <1>5
  <2>2. \A k \in DOMAIN columns : BoardColumn(columns[k]) /\ columns[k].board \in boards
    BY <1>5 DEF BoardColumn
  <2> QED BY <1>6, <2>1, <2>2 DEF ColumnRows
<1>8. serials = 2 /\ paid = {2} /\ onTime = {2} /\ rewards = [s \in {2} |-> 1] /\ reused = {}
  BY DEF Boards!Init
<1>9. RewardRows(cards, serials, paid, rewards, onTime, reused)
  BY <1>2, <1>8 DEF RewardRows
<1> QED BY <1>4, <1>7, <1>8, <1>9 DEF BoardsInv

\* The parts of the invariant, after a step that leaves rewards alone.
LEMMA BoardsStep ==
  ASSUME BoardsInv, UNCHANGED <<paid, onTime, rewards, reused>>, serials' \in Nat, serials' >= serials,
         CardRows(cards', serials'), ColumnRows(columns', boards'), DOMAIN cards' \subseteq DOMAIN cards,
         \A c \in DOMAIN cards' : cards'[c].serial = cards[c].serial
  PROVE  BoardsInv'
<1>1. RewardRows(cards', serials', paid', rewards', onTime', reused')
  <2>1. PICK cs, top, ds, high, keys, rs, timely, again :
          /\ cs = cards /\ top = serials /\ ds = cards' /\ high = serials'
          /\ keys = paid /\ rs = rewards /\ timely = onTime /\ again = reused
    OBVIOUS
  <2>2. RewardRows(cs, top, keys, rs, timely, again) /\ top \in Nat
    BY <2>1 DEF BoardsInv
  <2>3. RewardRows(ds, high, keys, rs, timely, again)
    BY <2>1, <2>2, RewardRowsKept
  <2> QED BY <2>1, <2>3
<1> QED BY <1>1 DEF BoardsInv

LEMMA BoardsParts ==
  ASSUME BoardsInv
  PROVE  /\ serials \in Nat /\ CardRows(cards, serials) /\ ColumnRows(columns, boards)
         /\ RewardRows(cards, serials, paid, rewards, onTime, reused)
BY DEF BoardsInv

LEMMA BoardsKeep ==
  ASSUME BoardsInv, UNCHANGED <<boards, columns, cards, paid, serials, onTime, rewards, reused>>
  PROVE  BoardsInv'
<1>1. CardRows(cards', serials') /\ ColumnRows(columns', boards') /\ serials' \in Nat /\ serials' >= serials
  BY BoardsParts
<1> QED BY <1>1, BoardsStep

LEMMA CreateBoardInv == ASSUME BoardsInv, Boards!CreateBoard PROVE BoardsInv'
<1>1. PICK ks, bs, js, b, k0 : ks = columns /\ bs = boards /\ js = columns' /\ b = Boards!NextId(bs) /\ k0 = Boards!NextId(DOMAIN ks)
  OBVIOUS
<1>2. /\ boards' = bs \cup {b} /\ UNCHANGED <<cards, paid, serials, onTime, rewards, reused>>
      /\ js = [k \in DOMAIN ks \cup k0..(k0 + 2) |-> IF k < k0 THEN ks[k] ELSE [board |-> b, pos |-> k - k0]]
  BY <1>1 DEF Boards!CreateBoard, Boards!history
<1>3. ColumnRows(ks, bs)
  BY <1>1 DEF BoardsInv
<1>4. PICK n \in Nat : DOMAIN ks \subseteq 1..n
  BY <1>3 DEF ColumnRows
<1>5. PICK m \in Nat : bs \subseteq 1..m
  BY <1>3 DEF ColumnRows
<1>6. k0 \in Nat \ {0} /\ \A k \in DOMAIN ks : k < k0
  BY <1>1, <1>4, NextIdNew
<1>7. b \in Nat \ {0} /\ \A x \in bs : x < b
  BY <1>1, <1>5, NextIdNew
<1>8. /\ DOMAIN js = DOMAIN ks \cup k0..(k0 + 2)
      /\ \A k \in DOMAIN ks : js[k] = ks[k]
      /\ \A k \in k0..(k0 + 2) : js[k] = [board |-> b, pos |-> k - k0] /\ k \notin DOMAIN ks
  BY <1>2, <1>4, <1>6
<1>9. DOMAIN js \subseteq 1..(n + k0 + 2) /\ n + k0 + 2 \in Nat
  BY <1>4, <1>6, <1>8
<1>10. bs \cup {b} \subseteq 1..(m + b) /\ m + b \in Nat
  BY <1>5, <1>7
<1>11. \A k \in DOMAIN js : BoardColumn(js[k]) /\ js[k].board \in bs \cup {b}
  <2>1. \A k \in DOMAIN ks : BoardColumn(ks[k]) /\ ks[k].board \in bs
    BY <1>3 DEF ColumnRows
  <2>2. ASSUME NEW k \in k0..(k0 + 2) PROVE BoardColumn(js[k]) /\ js[k].board = b
    <3>1. js[k] = [board |-> b, pos |-> k - k0]
      BY ONLY <1>8, k \in k0..(k0 + 2)
    <3> QED BY ONLY <3>1 DEF BoardColumn
  <2> QED BY <1>8, <2>1, <2>2
<1>12. Placed(DOMAIN js, BoardGroup(js), PlaceOf(js))
  <2>1. PICK D, g, p : D = DOMAIN js /\ g = BoardGroup(js) /\ p = PlaceOf(js)
    OBVIOUS
  <2>2. \A k \in D : g[k] = js[k].board /\ p[k] = js[k].pos
    BY <2>1 DEF BoardGroup, PlaceOf
  <2>3. SUFFICES ASSUME NEW x PROVE \E i \in Nat : Dense({k \in D : g[k] = x}, p, i)
    BY <2>1 DEF Placed
  <2>4. PICK S : S = {k \in D : g[k] = x}
    OBVIOUS
  <2>5. \A k \in DOMAIN ks : ks[k].board # b
    BY <1>3, <1>5, <1>7 DEF ColumnRows
  <2>6. CASE x = b
    <3>0. ASSUME NEW k \in k0..(k0 + 2) PROVE k \in D /\ g[k] = b /\ p[k] = k - k0
      <4>1. js[k] = [board |-> b, pos |-> k - k0] /\ k \in D
        BY ONLY <1>8, <2>1, k \in k0..(k0 + 2)
      <4> QED BY ONLY <2>2, <4>1
    <3>1. S = k0..(k0 + 2)
      <4>1. \A k \in DOMAIN ks : g[k] # b
        BY ONLY <1>8, <2>1, <2>2, <2>5
      <4> QED BY ONLY <1>8, <2>1, <2>4, <2>6, <3>0, <4>1
    <3>2. \A k \in S : p[k] = k - k0
      BY ONLY <3>0, <3>1
    <3>3. ASSUME NEW y \in 0..2 PROVE \E k \in S : p[k] = y
      <4>1. k0 + y \in S
        BY <1>6, <3>1
      <4>2. p[k0 + y] = y
        BY <1>6, <3>2, <4>1
      <4> QED BY <4>1, <4>2
    <3>4. \A k \in S : p[k] \in 0..2
      BY <1>6, <3>1, <3>2
    <3>5. \A k, j \in S : p[k] = p[j] => k = j
      BY <1>6, <3>1, <3>2
    <3>6. Dense(S, p, 3)
      BY <3>3, <3>4, <3>5 DEF Dense
    <3> QED BY <2>4, <3>6
  <2>7. CASE x # b
    <3>1. PICK i \in Nat : Dense({k \in DOMAIN ks : BoardGroup(ks)[k] = x}, PlaceOf(ks), i)
      BY <1>3 DEF ColumnRows, Placed
    <3>2. S = {k \in DOMAIN ks : BoardGroup(ks)[k] = x}
      <4>1. \A k \in k0..(k0 + 2) : g[k] = b
        <5> TAKE k \in k0..(k0 + 2)
        <5>1. js[k] = [board |-> b, pos |-> k - k0] /\ k \in D
          BY ONLY <1>8, <2>1, k \in k0..(k0 + 2)
        <5> QED BY ONLY <2>2, <5>1
      <4>2. \A k \in DOMAIN ks : k \in D /\ g[k] = BoardGroup(ks)[k]
        BY ONLY <1>8, <2>1, <2>2 DEF BoardGroup
      <4> QED BY ONLY <1>8, <2>1, <2>4, <2>7, <4>1, <4>2
    <3>3. \A k \in S : p[k] = PlaceOf(ks)[k]
      BY <1>8, <2>1, <2>2, <3>2 DEF PlaceOf
    <3> QED BY <2>4, <3>1, <3>2, <3>3, DenseSame
  <2> QED BY <2>6, <2>7
<1>13. ColumnRows(js, bs \cup {b})
  BY <1>9, <1>10, <1>11, <1>12 DEF ColumnRows
<1>14. ColumnRows(columns', boards')
  BY <1>1, <1>2, <1>13
<1>15. CardRows(cards', serials') /\ serials' \in Nat /\ serials' >= serials
  BY <1>2, BoardsParts
<1> QED BY <1>2, <1>14, <1>15, BoardsStep

\* Cards that go with their columns.
LEMMA WithoutRows ==
  ASSUME NEW ks, CardRows(cards, serials), serials \in Nat
  PROVE  /\ CardRows(Boards!Without(ks), serials)
         /\ DOMAIN Boards!Without(ks) \subseteq DOMAIN cards
         /\ \A c \in DOMAIN Boards!Without(ks) : Boards!Without(ks)[c] = cards[c]
<1>1. PICK cs, ds, top : cs = cards /\ ds = Boards!Without(ks) /\ top = serials
  OBVIOUS
<1>2. DOMAIN ds = {x \in DOMAIN cs : cs[x].col \notin ks} /\ \A c \in DOMAIN ds : ds[c] = cs[c]
  BY <1>1 DEF Boards!Without
<1>3. Placed(DOMAIN ds, GroupOf(ds), PlaceOf(ds))
  <2>1. DOMAIN ds = {x \in DOMAIN cs : GroupOf(cs)[x] \notin ks}
    BY <1>2 DEF GroupOf
  <2>2. Placed(DOMAIN ds, GroupOf(cs), PlaceOf(cs))
    <3>1. Placed(DOMAIN cs, GroupOf(cs), PlaceOf(cs))
      BY <1>1 DEF CardRows
    <3> QED BY ONLY <2>1, <3>1, PlacedDrop
  <2>3. \A c \in DOMAIN ds : GroupOf(ds)[c] = GroupOf(cs)[c] /\ PlaceOf(ds)[c] = PlaceOf(cs)[c]
    BY <1>2 DEF GroupOf, PlaceOf
  <2> QED BY <2>2, <2>3, PlacedSame
<1>4. DOMAIN ds \subseteq DOMAIN cs /\ \A c \in DOMAIN ds : BoardCard(ds[c])
  BY <1>1, <1>2 DEF CardRows
<1>5. CardRows(ds, top)
  BY <1>1, <1>2, <1>3, <1>4, CardRowsKept
<1> QED BY <1>1, <1>2, <1>4, <1>5

LEMMA DeleteBoardInv == ASSUME BoardsInv, NEW b, Boards!DeleteBoard(b) PROVE BoardsInv'
<1>1. PICK ks, bs, js : ks = columns /\ bs = boards /\ js = columns'
  OBVIOUS
<1>2. /\ boards' = bs \ {b} /\ UNCHANGED <<paid, serials, onTime, rewards, reused>>
      /\ js = [k \in DOMAIN ks \ Boards!ColumnsOf(b) |-> ks[k]] /\ cards' = Boards!Without(Boards!ColumnsOf(b))
  BY <1>1 DEF Boards!DeleteBoard, Boards!history
<1>3. ColumnRows(ks, bs)
  BY <1>1 DEF BoardsInv
<1>4. DOMAIN js = {k \in DOMAIN ks : ks[k].board \notin {b}} /\ \A k \in DOMAIN js : js[k] = ks[k]
  BY <1>1, <1>2 DEF Boards!ColumnsOf
<1>5. Placed(DOMAIN js, BoardGroup(js), PlaceOf(js))
  <2>1. DOMAIN js = {k \in DOMAIN ks : BoardGroup(ks)[k] \notin {b}}
    BY <1>4 DEF BoardGroup
  <2>2. Placed(DOMAIN js, BoardGroup(ks), PlaceOf(ks))
    BY <1>3, <2>1, PlacedDrop DEF ColumnRows
  <2>3. \A c \in DOMAIN js : BoardGroup(js)[c] = BoardGroup(ks)[c] /\ PlaceOf(js)[c] = PlaceOf(ks)[c]
    BY <1>4 DEF BoardGroup, PlaceOf
  <2> QED BY <2>2, <2>3, PlacedSame
<1>6. ColumnRows(js, bs \ {b})
  BY <1>3, <1>4, <1>5 DEF ColumnRows
<1>7. PICK gone : gone = Boards!ColumnsOf(b)
  OBVIOUS
<1>8. /\ CardRows(cards', serials) /\ DOMAIN cards' \subseteq DOMAIN cards
      /\ \A c \in DOMAIN cards' : cards'[c] = cards[c]
  BY <1>2, <1>7, WithoutRows, BoardsParts
<1>9. ColumnRows(columns', boards') /\ serials' \in Nat /\ serials' >= serials /\ CardRows(cards', serials')
  BY <1>1, <1>2, <1>6, <1>8, BoardsParts
<1>10. DOMAIN cards' \subseteq DOMAIN cards /\ \A c \in DOMAIN cards' : cards'[c].serial = cards[c].serial
  BY <1>8
<1> QED BY <1>2, <1>9, <1>10, BoardsStep

LEMMA AddColumnInv == ASSUME BoardsInv, NEW b, Boards!AddColumn(b) PROVE BoardsInv'
<1>1. PICK ks, bs, js, k, e : /\ ks = columns /\ bs = boards /\ js = columns' /\ k = Boards!NextId(DOMAIN ks)
                              /\ e = Boards!EndOf({ks[x].pos : x \in {y \in DOMAIN ks : ks[y].board = b}})
  OBVIOUS
<1>2. /\ b \in bs /\ UNCHANGED <<boards, cards, paid, serials, onTime, rewards, reused>>
      /\ js = [j \in DOMAIN ks \cup {k} |-> IF j = k THEN [board |-> b, pos |-> e] ELSE ks[j]]
  BY <1>1 DEF Boards!AddColumn, Boards!history, Boards!ColumnsOf
<1>3. ColumnRows(ks, bs)
  BY <1>1 DEF BoardsInv
<1>4. PICK n \in Nat : DOMAIN ks \subseteq 1..n
  BY <1>3 DEF ColumnRows
<1>5. k \in Nat \ {0} /\ k \notin DOMAIN ks
  BY <1>1, <1>4, NextIdNew
<1>6. DOMAIN js = DOMAIN ks \cup {k} /\ js[k] = [board |-> b, pos |-> e] /\ \A j \in DOMAIN ks : js[j] = ks[j]
  BY <1>2, <1>5
<1>7. DOMAIN js \subseteq 1..(n + k) /\ n + k \in Nat
  BY <1>4, <1>5, <1>6
<1>8. \A j \in DOMAIN js : BoardColumn(js[j]) /\ js[j].board \in bs
  BY <1>2, <1>3, <1>6 DEF ColumnRows, BoardColumn
<1>9. Placed(DOMAIN js, BoardGroup(js), PlaceOf(js))
  <2>1. PICK D, g, p, h, q : D = DOMAIN ks /\ g = BoardGroup(ks) /\ p = PlaceOf(ks) /\ h = BoardGroup(js) /\ q = PlaceOf(js)
    OBVIOUS
  <2>2. h[k] = b /\ q[k] = e /\ \A c \in D : h[c] = g[c] /\ q[c] = p[c] /\ g[c] = ks[c].board /\ p[c] = ks[c].pos
    BY <1>6, <2>1 DEF BoardGroup, PlaceOf
  <2>3. {y \in D : g[y] = b} = {z \in D : ks[z].board = b}
    BY <2>2
  <2>4. {p[x] : x \in {y \in D : g[y] = b}} = {ks[x].pos : x \in {z \in D : ks[z].board = b}}
    BY <2>2, <2>3
  <2>6. Appended(D, g, p, k, b, h, q)
    BY <1>1, <1>5, <2>1, <2>2, <2>4 DEF Appended
  <2>7. Placed(D, g, p)
    BY <1>3, <2>1 DEF ColumnRows
  <2>8. Placed(D \cup {k}, h, q)
    BY ONLY <2>6, <2>7, PlacedAppend
  <2> QED BY <1>6, <2>1, <2>8
<1>10. ColumnRows(js, bs)
  BY <1>3, <1>7, <1>8, <1>9 DEF ColumnRows
<1>11. ColumnRows(columns', boards')
  BY <1>1, <1>2, <1>10
<1>12. CardRows(cards', serials') /\ serials' \in Nat /\ serials' >= serials
  BY <1>2, BoardsParts
<1> QED BY <1>2, <1>11, <1>12, BoardsStep

LEMMA DeleteColumnInv == ASSUME BoardsInv, NEW k, Boards!DeleteColumn(k) PROVE BoardsInv'
<1>1. PICK ks, bs, js : ks = columns /\ bs = boards /\ js = columns'
  OBVIOUS
<1>2. /\ k \in DOMAIN ks /\ UNCHANGED <<boards, paid, serials, onTime, rewards, reused>>
      /\ cards' = Boards!Without({k})
      /\ js = [j \in DOMAIN ks \ {k} |-> IF ks[j].board = ks[k].board /\ ks[j].pos > ks[k].pos
                                           THEN [ks[j] EXCEPT !.pos = ks[j].pos - 1] ELSE ks[j]]
  BY <1>1 DEF Boards!DeleteColumn, Boards!history, Boards!BoardOf
<1>3. ColumnRows(ks, bs)
  BY <1>1 DEF BoardsInv
<1>4. \A j \in DOMAIN ks : BoardColumn(ks[j]) /\ ks[j].board \in bs
  BY <1>3 DEF ColumnRows
<1>5. DOMAIN js = DOMAIN ks \ {k}
  BY <1>2
<1>6. ASSUME NEW j \in DOMAIN js
      PROVE  /\ BoardColumn(js[j]) /\ js[j].board = ks[j].board
             /\ js[j].pos = IF ks[j].board = ks[k].board /\ ks[j].pos > ks[k].pos THEN ks[j].pos - 1 ELSE ks[j].pos
  <2>1. ks[j] = [board |-> ks[j].board, pos |-> ks[j].pos]
    BY <1>4, <1>5 DEF BoardColumn
  <2>2. js[j] = IF ks[j].board = ks[k].board /\ ks[j].pos > ks[k].pos
                  THEN [ks[j] EXCEPT !.pos = ks[j].pos - 1] ELSE ks[j]
    BY <1>2, <1>5
  <2> QED BY <2>1, <2>2 DEF BoardColumn
<1>7. Placed(DOMAIN js, BoardGroup(js), PlaceOf(js))
  <2>1. PICK D, g, p, q : D = DOMAIN ks /\ g = BoardGroup(ks) /\ p = PlaceOf(ks) /\ q = PlaceOf(js)
    OBVIOUS
  <2>2. Placed(D, g, p) /\ k \in D
    BY <1>2, <1>3, <2>1 DEF ColumnRows
  <2>3. \A x \in D \ {k} : q[x] = IF g[x] = g[k] /\ p[x] > p[k] THEN p[x] - 1 ELSE p[x]
    BY <1>2, <1>5, <1>6, <2>1 DEF BoardGroup, PlaceOf
  <2>4. Placed(D \ {k}, g, q)
    BY ONLY <2>2, <2>3, PlacedRemove
  <2>5. Placed(DOMAIN js, g, q)
    BY <1>5, <2>1, <2>4
  <2>6. \A x \in DOMAIN js : BoardGroup(js)[x] = g[x] /\ PlaceOf(js)[x] = q[x]
    BY <1>5, <1>6, <2>1 DEF BoardGroup
  <2> QED BY ONLY <2>5, <2>6, PlacedSame
<1>8. ColumnRows(js, bs)
  <2>1. \E n \in Nat : DOMAIN js \subseteq 1..n
    BY <1>3, <1>5 DEF ColumnRows
  <2>2. \A j \in DOMAIN js : BoardColumn(js[j]) /\ js[j].board \in bs
    BY <1>4, <1>5, <1>6
  <2> QED BY <1>3, <1>7, <2>1, <2>2 DEF ColumnRows
<1>9. PICK gone : gone = {k}
  OBVIOUS
<1>10. /\ CardRows(cards', serials) /\ DOMAIN cards' \subseteq DOMAIN cards
       /\ \A c \in DOMAIN cards' : cards'[c] = cards[c]
  BY <1>2, <1>9, WithoutRows, BoardsParts
<1>11. ColumnRows(columns', boards') /\ serials' \in Nat /\ serials' >= serials /\ CardRows(cards', serials')
  BY <1>1, <1>2, <1>8, <1>10, BoardsParts
<1>12. DOMAIN cards' \subseteq DOMAIN cards /\ \A c \in DOMAIN cards' : cards'[c].serial = cards[c].serial
  BY <1>10
<1> QED BY <1>2, <1>11, <1>12, BoardsStep

\* A new row and its serial: the id of a card rewarded before is noted.
LEMMA RewardRowsNew ==
  ASSUME NEW cs, NEW top \in Nat, NEW keys, NEW rs, NEW timely, NEW again,
         RewardRows(cs, top, keys, rs, timely, again), NEW ds, NEW n, n \notin DOMAIN cs,
         DOMAIN ds = DOMAIN cs \cup {n}, \A c \in DOMAIN cs : ds[c].serial = cs[c].serial,
         ds[n].serial = top + 1, NEW more, again \subseteq more, n \in keys => top + 1 \in more
  PROVE  RewardRows(ds, top + 1, keys, rs, timely, more)
<1>1. \A s \in DOMAIN rs : rs[s] = 1 /\ s \in timely /\ s \in 1..(top + 1)
  BY DEF RewardRows
<1>2. timely \subseteq DOMAIN rs \cup more
  BY DEF RewardRows
<1>3. top + 1 \notin DOMAIN rs
  BY DEF RewardRows
<1>4. \A c \in DOMAIN ds : ds[c].serial \in DOMAIN rs => c \in keys
  BY <1>3 DEF RewardRows
<1>5. \A c \in DOMAIN ds : c \in keys => ds[c].serial \in DOMAIN rs \cup more
  BY DEF RewardRows
<1> QED BY <1>1, <1>2, <1>4, <1>5 DEF RewardRows

LEMMA CreateCardInv ==
  ASSUME BoardsInv, NEW k, NEW due_, NEW recur, Boards!CreateCard(k, due_, recur)
  PROVE  BoardsInv'
<1>1. PICK cs, ds, top, n, e, r :
        /\ cs = cards /\ ds = cards' /\ top = serials /\ n = Boards!NextId(DOMAIN cs)
        /\ e = Boards!EndOf({cs[y].pos : y \in {z \in DOMAIN cs : cs[z].col = k}})
        /\ r = Boards!NewCard(k, e, due_, recur, top + 1, top + 1)
  OBVIOUS
<1>2. /\ serials' = top + 1 /\ UNCHANGED <<boards, columns, paid, onTime, rewards>>
      /\ ds = [x \in DOMAIN cs \cup {n} |-> IF x # n THEN cs[x] ELSE r]
      /\ reused' = IF n \in paid THEN reused \cup {top + 1} ELSE reused
  BY <1>1 DEF Boards!CreateCard, Boards!CardsIn
<1>3. top \in Nat /\ CardRows(cs, top) /\ RewardRows(cs, top, paid, rewards, onTime, reused)
  BY <1>1, BoardsParts
<1>4. PICK m \in Nat : DOMAIN cs \subseteq 1..m
  BY <1>3 DEF CardRows
<1>5. n \in Nat \ {0} /\ n \notin DOMAIN cs
  BY <1>1, <1>4, NextIdNew
<1>6. DOMAIN ds = DOMAIN cs \cup {n} /\ ds[n] = r /\ \A c \in DOMAIN cs : ds[c] = cs[c]
  BY <1>2, <1>5
<1>7. BoardCard(r) /\ r.serial = top + 1 /\ r.series = top + 1 /\ r.col = k /\ r.pos = e
  BY <1>1 DEF Boards!NewCard, BoardCard
<1>8. CardRows(ds, top + 1)
  BY <1>1, <1>3, <1>5, <1>6, <1>7, CardRowsNew
<1>9. RewardRows(ds, top + 1, paid', rewards', onTime', reused')
  <2>1. PICK keys, rs, timely, again, more : keys = paid /\ rs = rewards /\ timely = onTime /\ again = reused /\ more = reused'
    OBVIOUS
  <2>2. RewardRows(ds, top + 1, keys, rs, timely, more)
    <3>1. RewardRows(cs, top, keys, rs, timely, again)
      BY <1>3, <2>1
    <3>2. again \subseteq more /\ (n \in keys => top + 1 \in more)
      BY <1>2, <2>1
    <3>3. ds[n].serial = top + 1 /\ \A c \in DOMAIN cs : ds[c].serial = cs[c].serial
      BY <1>6, <1>7
    <3> QED BY ONLY <1>3, <1>5, <1>6, <3>1, <3>2, <3>3, RewardRowsNew
  <2> QED BY <1>2, <2>1, <2>2
<1>10. ColumnRows(columns', boards')
  BY <1>2, BoardsParts
<1>11. serials' \in Nat
  BY <1>2, <1>3
<1>12. CardRows(cards', serials') /\ RewardRows(cards', serials', paid', rewards', onTime', reused')
  BY <1>1, <1>2, <1>8, <1>9
<1> QED BY <1>10, <1>11, <1>12 DEF BoardsInv

LEMMA UpdateCardInv ==
  ASSUME BoardsInv, NEW c, NEW due_, NEW recur, Boards!UpdateCard(c, due_, recur)
  PROVE  BoardsInv'
<1>1. PICK cs, ds, top : cs = cards /\ ds = cards' /\ top = serials
  OBVIOUS
<1>2. PICK f, sr, high, r :
        /\ f = IF cs[c].first = Boards!No THEN due_ ELSE cs[c].first
        /\ sr = IF recur \notin {Boards!No, cs[c].recur} THEN top + 1 ELSE cs[c].series
        /\ high = IF recur \notin {Boards!No, cs[c].recur} THEN top + 1 ELSE top
        /\ r = [cs[c] EXCEPT !.due = due_, !.first = f, !.recur = recur, !.updated = day, !.series = sr]
  OBVIOUS
<1>3. /\ c \in DOMAIN cs /\ UNCHANGED <<boards, columns, paid, onTime, rewards, reused>>
      /\ ds = [cs EXCEPT ![c] = r] /\ serials' = high
  <2>1. c \in DOMAIN cs /\ UNCHANGED <<boards, columns, paid, onTime, rewards, reused>>
    BY <1>1 DEF Boards!UpdateCard
  <2>2. serials' = high
    BY <1>1, <1>2 DEF Boards!UpdateCard
  <2>3. cards' = [cards EXCEPT ![c] = cards'[c]]
    BY <1>1, <2>1 DEF Boards!UpdateCard
  <2>4. cards'[c] = r
    <3>1. cards' = [cards EXCEPT ![c] = [cards[c] EXCEPT !.due = due_,
             !.first = IF cards[c].first = Boards!No THEN due_ ELSE cards[c].first, !.recur = recur, !.updated = day,
             !.series = IF recur \notin {Boards!No, cards[c].recur} THEN serials + 1 ELSE cards[c].series]]
      BY DEF Boards!UpdateCard
    <3>2. cards' = [cards EXCEPT ![c] = [cards[c] EXCEPT !.due = due_, !.first = f, !.recur = recur, !.updated = day, !.series = sr]]
      BY ONLY <1>1, <1>2, <3>1
    <3> QED BY <1>1, <1>2, <2>1, <3>2
  <2>5. ds = [cs EXCEPT ![c] = r]
    BY <1>1, <2>3, <2>4
  <2> QED BY <2>1, <2>2, <2>5
<1>4. top \in Nat /\ CardRows(cs, top)
  BY <1>1, BoardsParts
<1>5. \/ sr = cs[c].series /\ high = top /\ recur \in {-1, cs[c].recur}
      \/ sr = top + 1 /\ high = top + 1
  <2>1. Boards!No = -1
    BY DEF Boards!No
  <2>2. CASE recur \notin {Boards!No, cs[c].recur}
    BY <1>2, <2>2, Zenon
  <2>3. CASE recur \in {Boards!No, cs[c].recur}
    <3>1. sr = cs[c].series /\ high = top
      BY <1>2, <2>3, Zenon
    <3> QED BY ONLY <2>1, <2>3, <3>1
  <2> QED BY <2>2, <2>3, Zenon
<1>6. high \in Nat /\ high >= top
  BY <1>4, <1>5
<1>7. BoardCard(cs[c])
  BY <1>3, <1>4 DEF CardRows
<1>8. /\ BoardCard(r) /\ r.serial = cs[c].serial /\ r.col = cs[c].col /\ r.pos = cs[c].pos /\ r.recur = recur
      /\ r.series = sr
  BY ONLY <1>2, <1>7 DEF BoardCard
<1>9. DOMAIN ds = DOMAIN cs /\ ds[c] = r /\ \A d \in DOMAIN cs : d # c => ds[d] = cs[d]
  BY <1>3
<1>10. CardRows(ds, high)
  <2>1. \E n \in Nat : DOMAIN ds \subseteq 1..n
    BY <1>4, <1>9 DEF CardRows
  <2>2. ASSUME NEW d \in DOMAIN ds PROVE BoardCard(ds[d]) /\ ds[d].serial \in 1..high /\ ds[d].series \in 1..high
    <3>1. BoardCard(cs[d]) /\ cs[d].serial \in 1..top /\ cs[d].series \in 1..top
      BY <1>4, <1>9 DEF CardRows
    <3>2. CASE d = c
      BY <1>4, <1>5, <1>8, <1>9, <3>1, <3>2
    <3>3. CASE d # c
      BY <1>4, <1>5, <1>9, <3>1, <3>3
    <3> QED BY <3>2, <3>3
  <2>3. \A d, e \in DOMAIN ds : ds[d].serial = ds[e].serial => d = e
    BY <1>4, <1>8, <1>9 DEF CardRows
  <2>4. ASSUME NEW d \in DOMAIN ds, d # c, ds[d].series = r.series PROVE ds[d].recur = -1 \/ r.recur = -1
    <3>1. ds[d] = cs[d] /\ cs[d].series \in 1..top /\ (cs[d].series = cs[c].series => cs[d].recur = -1 \/ cs[c].recur = -1)
      BY <1>3, <1>4, <1>9, <2>4 DEF CardRows
    <3>2. CASE sr = top + 1
      BY <1>4, <1>8, <2>4, <3>1, <3>2
    <3>3. CASE sr = cs[c].series /\ recur \in {-1, cs[c].recur}
      BY <1>8, <2>4, <3>1, <3>3
    <3> QED BY <1>5, <3>2, <3>3
  <2>5. ASSUME NEW d \in DOMAIN ds, NEW e \in DOMAIN ds, d # e, ds[d].series = ds[e].series
        PROVE  ds[d].recur = -1 \/ ds[e].recur = -1
    <3>1. CASE d = c
      BY <1>9, <2>4, <2>5, <3>1
    <3>2. CASE e = c
      BY <1>9, <2>4, <2>5, <3>2
    <3>3. CASE d # c /\ e # c
      BY <1>4, <1>9, <2>5, <3>3 DEF CardRows
    <3> QED BY <3>1, <3>2, <3>3
  <2>6. Placed(DOMAIN ds, GroupOf(ds), PlaceOf(ds))
    <3>1. Placed(DOMAIN cs, GroupOf(cs), PlaceOf(cs))
      BY <1>4 DEF CardRows
    <3>2. \A d \in DOMAIN cs : GroupOf(ds)[d] = GroupOf(cs)[d] /\ PlaceOf(ds)[d] = PlaceOf(cs)[d]
      BY <1>8, <1>9 DEF GroupOf, PlaceOf
    <3>3. Placed(DOMAIN cs, GroupOf(ds), PlaceOf(ds))
      BY ONLY <3>1, <3>2, PlacedSame
    <3> QED BY <1>9, <3>3
  <2> QED BY <2>1, <2>2, <2>3, <2>5, <2>6 DEF CardRows
<1>11. \A d \in DOMAIN ds : ds[d].serial = cs[d].serial
  BY <1>8, <1>9
<1>12. /\ CardRows(cards', serials') /\ ColumnRows(columns', boards') /\ serials' \in Nat /\ serials' >= serials
       /\ DOMAIN cards' \subseteq DOMAIN cards /\ \A d \in DOMAIN cards' : cards'[d].serial = cards[d].serial
  BY <1>1, <1>3, <1>6, <1>9, <1>10, <1>11, BoardsParts
<1> QED BY <1>3, <1>12, BoardsStep

LEMMA DeleteCardInv == ASSUME BoardsInv, NEW c, Boards!DeleteCard(c) PROVE BoardsInv'
<1>1. PICK cs, ds, top : cs = cards /\ ds = cards' /\ top = serials
  OBVIOUS
<1>2. /\ c \in DOMAIN cs /\ UNCHANGED <<boards, columns, paid, serials, onTime, rewards, reused>>
      /\ ds = [x \in DOMAIN cs \ {c} |-> IF cs[x].col = cs[c].col /\ cs[x].pos > cs[c].pos
                                           THEN [cs[x] EXCEPT !.pos = cs[x].pos - 1] ELSE cs[x]]
  BY <1>1 DEF Boards!DeleteCard, Boards!history
<1>3. top \in Nat /\ CardRows(cs, top)
  BY <1>1, BoardsParts
<1>4. DOMAIN ds = DOMAIN cs \ {c}
  BY <1>2
<1>5. ASSUME NEW x \in DOMAIN ds
      PROVE  /\ BoardCard(ds[x]) /\ ds[x].col = cs[x].col /\ ds[x].serial = cs[x].serial
             /\ ds[x].series = cs[x].series /\ ds[x].recur = cs[x].recur
             /\ ds[x].pos = IF cs[x].col = cs[c].col /\ cs[x].pos > cs[c].pos THEN cs[x].pos - 1 ELSE cs[x].pos
  <2>1. BoardCard(cs[x])
    BY <1>3, <1>4 DEF CardRows
  <2>2. ds[x] = IF cs[x].col = cs[c].col /\ cs[x].pos > cs[c].pos
                  THEN [cs[x] EXCEPT !.pos = cs[x].pos - 1] ELSE cs[x]
    BY <1>2, <1>4
  <2> QED BY ONLY <2>1, <2>2 DEF BoardCard
<1>6. Placed(DOMAIN ds, GroupOf(ds), PlaceOf(ds))
  <2>1. PICK D, g, p, q : D = DOMAIN cs /\ g = GroupOf(cs) /\ p = PlaceOf(cs) /\ q = PlaceOf(ds)
    OBVIOUS
  <2>2. Placed(D, g, p) /\ c \in D
    BY <1>2, <1>3, <2>1 DEF CardRows
  <2>3. \A x \in D \ {c} : q[x] = IF g[x] = g[c] /\ p[x] > p[c] THEN p[x] - 1 ELSE p[x]
    BY <1>2, <1>4, <1>5, <2>1 DEF GroupOf, PlaceOf
  <2>4. Placed(D \ {c}, g, q)
    BY ONLY <2>2, <2>3, PlacedRemove
  <2>5. Placed(DOMAIN ds, g, q)
    BY <1>4, <2>1, <2>4
  <2>6. \A x \in DOMAIN ds : GroupOf(ds)[x] = g[x] /\ PlaceOf(ds)[x] = q[x]
    BY <1>4, <1>5, <2>1 DEF GroupOf
  <2> QED BY ONLY <2>5, <2>6, PlacedSame
<1>7. CardRows(ds, top)
  BY <1>3, <1>4, <1>5, <1>6, CardRowsKept
<1>8. /\ CardRows(cards', serials') /\ ColumnRows(columns', boards') /\ serials' \in Nat /\ serials' >= serials
      /\ DOMAIN cards' \subseteq DOMAIN cards /\ \A d \in DOMAIN cards' : cards'[d].serial = cards[d].serial
  BY <1>1, <1>2, <1>4, <1>5, <1>7, BoardsParts
<1> QED BY <1>2, <1>8, BoardsStep

\* The archive.
LEMMA ArchiveInv ==
  ASSUME BoardsInv, NEW b, NEW c, Boards!GetBoard(b) \/ Boards!ArchiveCard(c) \/ Boards!UnarchiveCard(c)
  PROVE  BoardsInv'
<1>1. PICK cs, ds, top : cs = cards /\ ds = cards' /\ top = serials
  OBVIOUS
<1>2. /\ UNCHANGED <<boards, columns, paid, serials, onTime, rewards, reused>>
      /\ DOMAIN ds = DOMAIN cs
  BY <1>1 DEF Boards!GetBoard, Boards!ArchiveCard, Boards!UnarchiveCard, Boards!history
<1>3. top \in Nat /\ CardRows(cs, top)
  BY <1>1, BoardsParts
<1>4. ASSUME NEW x \in DOMAIN ds
      PROVE  ds[x] = cs[x] \/ \E a, d : ds[x] = [cs[x] EXCEPT !.archived = a, !.done = d]
  <2>0. BoardCard(cs[x])
    BY <1>2, <1>3 DEF CardRows
  <2>1. CASE Boards!GetBoard(b)
    <3>1. ds[x] = cs[x] \/ ds[x] = [cs[x] EXCEPT !.archived = TRUE]
      BY <1>1, <1>2, <2>1 DEF Boards!GetBoard
    <3>2. [cs[x] EXCEPT !.archived = TRUE] = [cs[x] EXCEPT !.archived = TRUE, !.done = cs[x].done]
      BY ONLY <2>0 DEF BoardCard
    <3> QED BY <3>1, <3>2
  <2>2. CASE Boards!ArchiveCard(c)
    <3>1. PICK e : cards' = [cards EXCEPT ![c].archived = TRUE, ![c].done = e]
      BY <2>2 DEF Boards!ArchiveCard
    <3> QED BY <1>1, <1>2, <3>1
  <2>3. CASE Boards!UnarchiveCard(c)
    <3>1. PICK e : cards' = [cards EXCEPT ![c].archived = FALSE, ![c].done = e]
      BY <2>3 DEF Boards!UnarchiveCard
    <3> QED BY <1>1, <1>2, <3>1
  <2> QED BY <2>1, <2>2, <2>3
<1>5. ASSUME NEW x \in DOMAIN ds
      PROVE  /\ BoardCard(ds[x]) /\ ds[x].col = cs[x].col /\ ds[x].serial = cs[x].serial
             /\ ds[x].series = cs[x].series /\ ds[x].recur = cs[x].recur /\ ds[x].pos = cs[x].pos
  <2>1. BoardCard(cs[x])
    BY <1>2, <1>3 DEF CardRows
  <2>2. CASE ds[x] = cs[x]
    BY <2>1, <2>2
  <2>3. ASSUME NEW a, NEW d, ds[x] = [cs[x] EXCEPT !.archived = a, !.done = d]
        PROVE  /\ BoardCard(ds[x]) /\ ds[x].col = cs[x].col /\ ds[x].serial = cs[x].serial
               /\ ds[x].series = cs[x].series /\ ds[x].recur = cs[x].recur /\ ds[x].pos = cs[x].pos
    BY ONLY <2>1, <2>3 DEF BoardCard
  <2> QED BY <1>4, <2>2, <2>3
<1>6. CardRows(ds, top)
  BY <1>2, <1>3, <1>5, CardRowsSame
<1>7. /\ CardRows(cards', serials') /\ ColumnRows(columns', boards') /\ serials' \in Nat /\ serials' >= serials
      /\ DOMAIN cards' \subseteq DOMAIN cards /\ \A d \in DOMAIN cards' : cards'[d].serial = cards[d].serial
  BY <1>1, <1>2, <1>5, <1>6, BoardsParts
<1> QED BY <1>2, <1>7, BoardsStep

LEMMA SpliceRows ==
  ASSUME CardRows(cards, serials), serials \in Nat, NEW c \in DOMAIN cards, NEW to, NEW p \in Nat,
         NEW ds, ds = Boards!Splice(c, to, p)
  PROVE  /\ CardRows(ds, serials) /\ DOMAIN ds = DOMAIN cards
         /\ \A x \in DOMAIN cards : /\ BoardCard(ds[x]) /\ ds[x].serial = cards[x].serial
                                    /\ ds[x].series = cards[x].series /\ ds[x].recur = cards[x].recur
<1>1. PICK cs, top : cs = cards /\ top = serials
  OBVIOUS
<1>2. PICK D, g, pl, z, size, at :
        /\ D = DOMAIN cs /\ g = GroupOf(cs) /\ pl = PlaceOf(cs)
        /\ z = [x \in D |-> IF cs[x].col = cs[c].col /\ cs[x].pos > cs[c].pos THEN cs[x].pos - 1 ELSE cs[x].pos]
        /\ size = Boards!Cardinality(Boards!CardsIn(to) \ {c})
        /\ at = IF p > size THEN size ELSE p
  OBVIOUS
<1>3. DOMAIN ds = D /\ ds[c] = [cs[c] EXCEPT !.col = to, !.pos = at, !.updated = day]
  BY <1>1, <1>2 DEF Boards!Splice
<1>4. ASSUME NEW x \in D, x # c
      PROVE  ds[x] = [cs[x] EXCEPT !.pos = IF cs[x].col = to /\ z[x] >= at THEN z[x] + 1 ELSE z[x]]
  BY <1>1, <1>2, <1>4 DEF Boards!Splice
<1>5. ASSUME NEW x \in D PROVE BoardCard(cs[x])
  BY <1>1, <1>2 DEF CardRows
<1>6. /\ BoardCard(ds[c]) /\ ds[c].serial = cs[c].serial /\ ds[c].series = cs[c].series /\ ds[c].recur = cs[c].recur
      /\ ds[c].col = to /\ ds[c].pos = at
  <2>1. BoardCard(cs[c])
    BY <1>1, <1>2, <1>5
  <2> QED BY ONLY <1>3, <2>1 DEF BoardCard
<1>7. ASSUME NEW x \in D, x # c
      PROVE  /\ BoardCard(ds[x]) /\ ds[x].serial = cs[x].serial /\ ds[x].series = cs[x].series
             /\ ds[x].recur = cs[x].recur /\ ds[x].col = cs[x].col
             /\ ds[x].pos = IF cs[x].col = to /\ z[x] >= at THEN z[x] + 1 ELSE z[x]
  <2>1. PICK v : v = IF cs[x].col = to /\ z[x] >= at THEN z[x] + 1 ELSE z[x]
    OBVIOUS
  <2>2. ds[x] = [cs[x] EXCEPT !.pos = v]
    BY <1>4, <1>7, <2>1
  <2>3. BoardCard(cs[x])
    BY <1>5
  <2>4. /\ BoardCard(ds[x]) /\ ds[x].serial = cs[x].serial /\ ds[x].series = cs[x].series
        /\ ds[x].recur = cs[x].recur /\ ds[x].col = cs[x].col /\ ds[x].pos = v
    BY ONLY <2>2, <2>3 DEF BoardCard
  <2> QED BY <2>1, <2>4
<1>8. Placed(D, g, pl) /\ c \in D
  BY <1>1, <1>2 DEF CardRows
<1>9. \A x \in D : g[x] = cs[x].col /\ pl[x] = cs[x].pos
  BY <1>2 DEF GroupOf, PlaceOf
<1>10. PICK S : S = {x \in D \ {c} : g[x] = to}
  OBVIOUS
<1>11. size = Cardinality(S)
  <2>1. Boards!CardsIn(to) \ {c} = S
    BY <1>1, <1>2, <1>9, <1>10 DEF Boards!CardsIn
  <2> QED BY <1>2, <2>1, BoardsCount
<1>12. \A x \in D \ {c} : z[x] = IF g[x] = g[c] /\ pl[x] > pl[c] THEN pl[x] - 1 ELSE pl[x]
  BY <1>2, <1>8, <1>9
<1>13. size \in Nat
  <2>1. Placed(D \ {c}, g, z)
    BY ONLY <1>8, <1>12, PlacedRemove
  <2>2. PICK n \in Nat : Dense(S, z, n)
    BY <1>10, <2>1 DEF Placed
  <2> QED BY <1>11, <2>2, DenseCount
<1>14. at \in 0..size
  BY <1>2, <1>13
<1>15. Placed(D, GroupOf(ds), PlaceOf(ds))
  <2>1. PICK h, q : h = GroupOf(ds) /\ q = PlaceOf(ds)
    OBVIOUS
  <2>2. h[c] = to /\ q[c] = at
    BY <1>3, <1>6, <1>8, <2>1 DEF GroupOf, PlaceOf
  <2>3. ASSUME NEW x \in D \ {c}
        PROVE  h[x] = g[x] /\ q[x] = IF g[x] = to /\ z[x] >= at THEN z[x] + 1 ELSE z[x]
    BY <1>3, <1>7, <1>9, <2>1 DEF GroupOf, PlaceOf
  <2>4. Placed(D \ {c}, g, z)
    BY ONLY <1>8, <1>12, PlacedRemove
  <2>5. Inserted(D \ {c}, g, z, c, to, at, h, q)
    BY <1>10, <1>11, <1>14, <2>2, <2>3 DEF Inserted
  <2>6. Placed((D \ {c}) \cup {c}, h, q)
    BY ONLY <2>4, <2>5, PlacedInsert
  <2>7. (D \ {c}) \cup {c} = D
    BY <1>8
  <2> QED BY <2>1, <2>6, <2>7
<1>16. \A x \in D : /\ BoardCard(ds[x]) /\ ds[x].serial = cs[x].serial
                    /\ ds[x].series = cs[x].series /\ ds[x].recur = cs[x].recur
  BY <1>6, <1>7
<1>17. CardRows(ds, top)
  <2>1. CardRows(cs, top) /\ top \in Nat /\ DOMAIN ds = DOMAIN cs /\ Placed(DOMAIN ds, GroupOf(ds), PlaceOf(ds))
    BY <1>1, <1>2, <1>3, <1>15
  <2>2. \A x \in DOMAIN ds : /\ BoardCard(ds[x]) /\ ds[x].serial = cs[x].serial /\ ds[x].series = cs[x].series
                             /\ ds[x].recur \in {cs[x].recur, -1}
    BY <1>3, <1>16
  <2> QED BY ONLY <2>1, <2>2, CardRowsKept
<1> QED BY <1>1, <1>2, <1>3, <1>16, <1>17

LEMMA StampRow ==
  ASSUME NEW r, BoardCard(r), NEW to, NEW s, s = Boards!Stamp(r, to)
  PROVE  /\ BoardCard(s) /\ s.col = r.col /\ s.pos = r.pos
         /\ s.serial = r.serial /\ s.series = r.series /\ s.recur = r.recur
<1>1. s = [r EXCEPT !.done = day] \/ s = [r EXCEPT !.done = Boards!No, !.archived = FALSE]
  BY DEF Boards!Stamp
<1>2. CASE s = [r EXCEPT !.done = day]
  BY <1>2 DEF BoardCard
<1>3. CASE s = [r EXCEPT !.done = Boards!No, !.archived = FALSE]
  BY <1>3 DEF BoardCard
<1> QED BY <1>1, <1>2, <1>3

\* No row more, or one with an id and a serial of its own.
OneMore(cs, ds, top) ==
  /\ \A x \in DOMAIN cs : x \in DOMAIN ds /\ ds[x].serial = cs[x].serial
  /\ \/ DOMAIN ds = DOMAIN cs /\ CardRows(ds, top)
     \/ \E n : /\ n \notin DOMAIN cs /\ DOMAIN ds = DOMAIN cs \cup {n}
               /\ ds[n].serial = top + 1 /\ CardRows(ds, top + 1)

\* The finished occurrence gives its rule to the next one.
LEMMA SpawnRows ==
  ASSUME NEW rows, CardRows(rows, serials), serials \in Nat, NEW c \in DOMAIN rows, NEW to,
         NEW ds, ds = Boards!Spawn(rows, c, to), rows[c].recur # -1
  PROVE  OneMore(rows, ds, serials)
<1> USE DEF OneMore
<1>1. PICK r, next, k, n, es, e, new, top :
        /\ r = rows[c] /\ next = r.due + r.recur /\ k = Boards!FirstColumn(Boards!BoardOf(to))
        /\ n = Boards!NextId(DOMAIN rows) /\ es = [rows EXCEPT ![c] = Boards!Ended(r)] /\ top = serials
        /\ e = Boards!EndOf({rows[y].pos : y \in {z \in DOMAIN rows : rows[z].col = k}})
        /\ new = Boards!NewCard(k, e, next, r.recur, top + 1, r.series)
  OBVIOUS
<1>2. ds = IF next > Until THEN es ELSE [x \in DOMAIN rows \cup {n} |-> IF x # n THEN es[x] ELSE new]
  BY <1>1 DEF Boards!Spawn
<1>3. BoardCard(r) /\ r.series \in 1..top /\ top \in Nat /\ CardRows(rows, top)
  BY <1>1 DEF CardRows
<1>4. PICK ended : ended = Boards!Ended(r)
  OBVIOUS
<1>5. /\ BoardCard(ended) /\ ended.col = r.col /\ ended.pos = r.pos /\ ended.recur = -1
      /\ ended.serial = r.serial /\ ended.series = r.series
  BY <1>3, <1>4 DEF BoardCard, Boards!Ended, Boards!No
<1>6. DOMAIN es = DOMAIN rows /\ es[c] = ended /\ \A x \in DOMAIN rows : x # c => es[x] = rows[x]
  BY <1>1, <1>4
<1>7. \A x \in DOMAIN es : /\ BoardCard(es[x]) /\ es[x].serial = rows[x].serial /\ es[x].series = rows[x].series
                           /\ es[x].recur \in {rows[x].recur, -1}
                           /\ es[x].col = rows[x].col /\ es[x].pos = rows[x].pos
  BY <1>1, <1>3, <1>5, <1>6 DEF CardRows
<1>8. CardRows(es, top)
  BY ONLY <1>3, <1>6, <1>7, CardRowsSame
<1>9. CASE next > Until
  BY <1>1, <1>2, <1>6, <1>7, <1>8, <1>9
<1>10. CASE ~(next > Until)
  <2>1. PICK m \in Nat : DOMAIN rows \subseteq 1..m
    BY <1>3 DEF CardRows
  <2>2. n \in Nat \ {0} /\ n \notin DOMAIN es
    BY <1>1, <1>6, <2>1, NextIdNew
  <2>3. DOMAIN ds = DOMAIN es \cup {n} /\ ds[n] = new /\ \A x \in DOMAIN es : ds[x] = es[x]
    BY <1>2, <1>6, <1>10, <2>2
  <2>4. BoardCard(new) /\ new.serial = top + 1 /\ new.col = k /\ new.pos = e /\ new.series = r.series
    BY <1>1 DEF Boards!NewCard, BoardCard
  <2>5. e = Boards!EndOf({es[y].pos : y \in {z \in DOMAIN es : es[z].col = k}})
    <3>1. {z \in DOMAIN es : es[z].col = k} = {z \in DOMAIN rows : rows[z].col = k}
      BY <1>6, <1>7
    <3>2. {es[y].pos : y \in {z \in DOMAIN es : es[z].col = k}} = {rows[y].pos : y \in {z \in DOMAIN rows : rows[z].col = k}}
      BY <1>6, <1>7, <3>1
    <3> QED BY <1>1, <3>2
  <2>6. ASSUME NEW x \in DOMAIN es, es[x].series = new.series PROVE es[x].recur = -1
    <3>1. CASE x = c
      BY <1>5, <1>6, <3>1
    <3>2. CASE x # c
      BY <1>1, <1>3, <1>6, <2>4, <2>6, <3>2 DEF CardRows
    <3> QED BY <3>1, <3>2
  <2>7. CardRows(ds, top + 1)
    <3>1. new.series \in 1..top /\ \A x \in DOMAIN es : es[x].series = new.series => es[x].recur = -1
      BY <1>3, <2>4, <2>6
    <3>2. new.pos = Boards!EndOf({es[y].pos : y \in {z \in DOMAIN es : es[z].col = k}})
      BY <2>4, <2>5
    <3> QED BY ONLY <1>3, <1>8, <2>2, <2>3, <2>4, <3>1, <3>2, CardRowsNew
  <2> QED BY <1>1, <1>6, <1>7, <2>2, <2>3, <2>4, <2>7
<1> QED BY <1>9, <1>10

\* A move as taskReward sees it: not in time, or its key is paid, or it is now.
Rewarded(s, c, keys, rs, timely, keys2, rs2, timely2) ==
  \/ keys2 = keys /\ rs2 = rs /\ timely2 = timely
  \/ c \in keys /\ keys2 = keys /\ rs2 = rs /\ timely2 = timely \cup {s}
  \/ /\ c \notin keys /\ keys2 = keys \cup {c} /\ timely2 = timely \cup {s}
     /\ rs2 = [x \in DOMAIN rs \cup {s} |-> IF x \notin DOMAIN rs THEN 1 ELSE IF x = s THEN rs[x] + 1 ELSE rs[x]]

LEMMA RewardRowsMove ==
  ASSUME NEW cs, NEW top \in Nat, NEW keys, NEW rs, NEW timely, NEW again, NEW c \in DOMAIN cs, CardRows(cs, top),
         RewardRows(cs, top, keys, rs, timely, again), NEW keys2, NEW rs2, NEW timely2,
         Rewarded(cs[c].serial, c, keys, rs, timely, keys2, rs2, timely2)
  PROVE  RewardRows(cs, top, keys2, rs2, timely2, again)
<1> USE DEF Rewarded
<1>1. CASE keys2 = keys /\ rs2 = rs /\ timely2 = timely
  BY <1>1
<1>2. CASE c \in keys /\ keys2 = keys /\ rs2 = rs /\ timely2 = timely \cup {cs[c].serial}
  BY <1>2 DEF RewardRows
<1>3. CASE /\ c \notin keys /\ keys2 = keys \cup {c} /\ timely2 = timely \cup {cs[c].serial}
           /\ rs2 = [x \in DOMAIN rs \cup {cs[c].serial} |-> IF x \notin DOMAIN rs THEN 1 ELSE IF x = cs[c].serial THEN rs[x] + 1 ELSE rs[x]]
  <2>1. PICK s : s = cs[c].serial
    OBVIOUS
  <2>2. s \notin DOMAIN rs /\ s \in 1..top
    BY <1>3, <2>1 DEF RewardRows, CardRows
  <2>3. DOMAIN rs2 = DOMAIN rs \cup {s} /\ rs2[s] = 1 /\ \A x \in DOMAIN rs : rs2[x] = rs[x]
    BY <1>3, <2>1, <2>2
  <2>4. \A x \in DOMAIN rs2 : rs2[x] = 1 /\ x \in timely2 /\ x \in 1..top
    BY <1>3, <2>1, <2>2, <2>3 DEF RewardRows
  <2>5. timely2 \subseteq DOMAIN rs2 \cup again
    BY <1>3, <2>1, <2>3 DEF RewardRows
  <2>6. ASSUME NEW d \in DOMAIN cs PROVE cs[d].serial \in DOMAIN rs2 => d \in keys2
    <3>1. cs[d].serial = s => d = c
      BY <2>1 DEF CardRows
    <3> QED BY <1>3, <2>3, <3>1 DEF RewardRows
  <2>7. ASSUME NEW d \in DOMAIN cs PROVE d \in keys2 => cs[d].serial \in DOMAIN rs2 \cup again
    BY <1>3, <2>1, <2>3 DEF RewardRows
  <2> QED BY <2>4, <2>5, <2>6, <2>7 DEF RewardRows
<1> QED BY <1>1, <1>2, <1>3

LEMMA MoveCardInv ==
  ASSUME BoardsInv, NEW c, NEW to, NEW p \in Nat, Boards!MoveCard(c, to, p)
  PROVE  BoardsInv'
<1>1. PICK cs, top, sp, mv, ds :
        /\ cs = cards /\ top = serials /\ sp = Boards!Splice(c, to, p)
        /\ mv = IF to = cards[c].col THEN sp ELSE [sp EXCEPT ![c] = Boards!Stamp(sp[c], to)]
        /\ ds = IF Boards!Spawns(c, to) THEN Boards!Spawn(mv, c, to) ELSE mv
  OBVIOUS
<1>2. c \in DOMAIN cs /\ UNCHANGED <<boards, columns>> /\ cards' = ds
  BY <1>1 DEF Boards!MoveCard
<1>3. top \in Nat /\ CardRows(cs, top) /\ RewardRows(cs, top, paid, rewards, onTime, reused) /\ ColumnRows(columns, boards)
  BY <1>1, BoardsParts
<1>4. /\ CardRows(sp, top) /\ DOMAIN sp = DOMAIN cs
      /\ \A x \in DOMAIN cs : /\ BoardCard(sp[x]) /\ sp[x].serial = cs[x].serial
                              /\ sp[x].series = cs[x].series /\ sp[x].recur = cs[x].recur
  BY <1>1, <1>2, <1>3, SpliceRows
<1>5. /\ CardRows(mv, top) /\ DOMAIN mv = DOMAIN cs
      /\ \A x \in DOMAIN cs : mv[x].serial = cs[x].serial /\ mv[x].recur = cs[x].recur
  <2>1. CASE mv = sp
    BY <1>4, <2>1
  <2>2. CASE mv # sp
    <3>1. PICK r : r = Boards!Stamp(sp[c], to)
      OBVIOUS
    <3>2. mv = [sp EXCEPT ![c] = r]
      BY <1>1, <2>2, <3>1
    <3>3. BoardCard(sp[c])
      BY <1>2, <1>4
    <3>4. /\ BoardCard(r) /\ r.col = sp[c].col /\ r.pos = sp[c].pos
          /\ r.serial = sp[c].serial /\ r.series = sp[c].series /\ r.recur = sp[c].recur
      BY ONLY <3>1, <3>3, StampRow
    <3>5. DOMAIN mv = DOMAIN sp /\ mv[c] = r /\ \A x \in DOMAIN sp : x # c => mv[x] = sp[x]
      BY <1>2, <1>4, <3>2
    <3>6. \A x \in DOMAIN mv : /\ BoardCard(mv[x]) /\ mv[x].serial = sp[x].serial /\ mv[x].series = sp[x].series
                               /\ mv[x].recur \in {sp[x].recur, -1}
                               /\ mv[x].col = sp[x].col /\ mv[x].pos = sp[x].pos
      BY <1>4, <3>4, <3>5
    <3>7. CardRows(mv, top)
      BY ONLY <1>3, <1>4, <3>5, <3>6, CardRowsSame
    <3> QED BY <1>4, <3>4, <3>5, <3>7
  <2> QED BY <2>1, <2>2
<1>6. OneMore(cs, ds, top)
  <2>1. CASE ~Boards!Spawns(c, to)
    <3>1. ds = mv
      BY <1>1, <2>1
    <3> QED BY <1>5, <3>1 DEF OneMore
  <2>2. CASE Boards!Spawns(c, to)
    <3>1. ds = Boards!Spawn(mv, c, to)
      BY <1>1, <2>2
    <3>2. mv[c].recur # -1
      BY <1>1, <1>2, <1>5, <2>2 DEF Boards!Spawns, Boards!No
    <3>3. CardRows(mv, serials) /\ serials \in Nat /\ c \in DOMAIN mv
      BY <1>1, <1>2, <1>3, <1>5
    <3>4. OneMore(mv, ds, serials)
      BY ONLY <3>1, <3>2, <3>3, SpawnRows
    <3>5. OneMore(mv, ds, top)
      BY <1>1, <3>4
    <3> QED BY ONLY <1>5, <3>5 DEF OneMore
  <2> QED BY <2>1, <2>2
<1>7. PICK s, keys, rs, timely : s = cs[c].serial /\ keys = paid' /\ rs = rewards' /\ timely = onTime'
  OBVIOUS
<1>8. RewardRows(cs, top, keys, rs, timely, reused)
  <2>1. Rewarded(s, c, paid, rewards, onTime, keys, rs, timely)
    <3>1. CASE Boards!Pays(c, to)
      <4>1. c \notin paid /\ Boards!FinishedOnTime(c, to)
        BY <3>1 DEF Boards!Pays
      <4> QED BY <1>1, <1>7, <3>1, <4>1 DEF Boards!MoveCard, Rewarded
    <3>2. CASE ~Boards!Pays(c, to)
      <4>1. ~Boards!FinishedOnTime(c, to) \/ c \in paid
        BY <3>2 DEF Boards!Pays
      <4> QED BY <1>1, <1>7, <3>2, <4>1 DEF Boards!MoveCard, Rewarded
    <3> QED BY <3>1, <3>2
  <2>2. PICK keys0, rs0, timely0, again : keys0 = paid /\ rs0 = rewards /\ timely0 = onTime /\ again = reused
    OBVIOUS
  <2>3. RewardRows(cs, top, keys, rs, timely, again)
    <3>1. RewardRows(cs, top, keys0, rs0, timely0, again) /\ Rewarded(cs[c].serial, c, keys0, rs0, timely0, keys, rs, timely)
      BY <1>3, <1>7, <2>1, <2>2
    <3> QED BY ONLY <1>2, <1>3, <3>1, RewardRowsMove
  <2> QED BY <2>2, <2>3
<1>9. /\ reused' = reused \cup {ds[x].serial : x \in (DOMAIN ds \ DOMAIN cs) \cap keys}
      /\ serials' = top + Boards!Cardinality(DOMAIN ds \ DOMAIN cs)
  BY <1>1, <1>7 DEF Boards!MoveCard
<1>10. ColumnRows(columns', boards')
  BY <1>2, <1>3
<1>11. CASE DOMAIN ds = DOMAIN cs /\ CardRows(ds, top)
  <2>1. DOMAIN ds \ DOMAIN cs = {}
    BY <1>11
  <2>2. serials' = top
    BY <1>3, <1>9, <2>1, BoardsCount, FS_EmptySet
  <2>3. reused' = reused
    BY <1>9, <2>1
  <2>4. PICK again : again = reused
    OBVIOUS
  <2>5. RewardRows(ds, top, keys, rs, timely, again)
    <3>1. RewardRows(cs, top, keys, rs, timely, again) /\ DOMAIN ds \subseteq DOMAIN cs /\ top >= top
      BY <1>3, <1>8, <1>11, <2>4
    <3>2. \A x \in DOMAIN ds : ds[x].serial = cs[x].serial
      BY <1>6, <1>11 DEF OneMore
    <3> QED BY ONLY <1>3, <3>1, <3>2, RewardRowsKept
  <2>6. RewardRows(cards', serials', paid', rewards', onTime', reused')
    BY <1>2, <1>7, <2>2, <2>3, <2>4, <2>5
  <2>7. serials' \in Nat /\ CardRows(cards', serials')
    BY <1>2, <1>3, <1>11, <2>2
  <2> QED BY <1>10, <2>6, <2>7 DEF BoardsInv
<1>12. ASSUME NEW n, n \notin DOMAIN cs, DOMAIN ds = DOMAIN cs \cup {n}, ds[n].serial = top + 1, CardRows(ds, top + 1)
       PROVE  BoardsInv'
  <2>1. DOMAIN ds \ DOMAIN cs = {n}
    BY <1>12
  <2>2. serials' = top + 1
    BY <1>9, <2>1, BoardsCount, FS_Singleton
  <2>3. PICK again, more : again = reused /\ more = reused'
    OBVIOUS
  <2>4. again \subseteq more /\ (n \in keys => top + 1 \in more)
    BY <1>9, <1>12, <2>1, <2>3
  <2>5. RewardRows(ds, top + 1, keys, rs, timely, more)
    <3>1. RewardRows(cs, top, keys, rs, timely, again)
      BY <1>8, <2>3
    <3>2. \A x \in DOMAIN cs : ds[x].serial = cs[x].serial
      BY <1>6 DEF OneMore
    <3> QED BY ONLY <1>3, <1>12, <2>4, <3>1, <3>2, RewardRowsNew
  <2>6. RewardRows(cards', serials', paid', rewards', onTime', reused')
    BY <1>2, <1>7, <2>2, <2>3, <2>5
  <2>7. serials' \in Nat /\ CardRows(cards', serials')
    BY <1>2, <1>3, <1>12, <2>2
  <2> QED BY <1>10, <2>6, <2>7 DEF BoardsInv
<1> QED BY <1>6, <1>11, <1>12 DEF OneMore

\* Whatever is created, moved, finished, archived and deleted (boards.go,
\* cards.go), for any number of boards, columns and cards: the places of a
\* column and of a board are 0, 1, 2, ..., one card of a series carries its
\* rule, and a task finished in time is rewarded once.
THEOREM BoardsKept == MCSpec => []BoardsSound
<1>1. MCInit => BoardsInv
  BY BoardsInvInit DEF MCInit
<1>2. BoardsInv /\ [MCNext]_allVars => BoardsInv'
  <2> SUFFICES ASSUME BoardsInv, [MCNext]_allVars PROVE BoardsInv'
    OBVIOUS
  <2>1. CASE Boards!Next
    <3>1. CASE Boards!CreateBoard
      BY <3>1, CreateBoardInv
    <3>2. CASE Boards!NextDay
      BY <3>2, BoardsKeep DEF Boards!NextDay, Boards!history
    <3>3. CASE \E b \in 1..MaxBoards : Boards!DeleteBoard(b) \/ Boards!AddColumn(b) \/ Boards!GetBoard(b)
      BY <3>3, DeleteBoardInv, AddColumnInv, ArchiveInv
    <3>4. CASE \E k \in 1..MaxColumns : Boards!DeleteColumn(k)
      BY <3>4, DeleteColumnInv
    <3>5. CASE \E k \in 1..MaxColumns, d \in Boards!Dues, r \in Periods \cup {Boards!No} : Boards!CreateCard(k, d, r)
      BY <3>5, CreateCardInv
    <3>6. CASE \E c \in 1..MaxCards, d \in Boards!Dues, r \in Periods \cup {Boards!No} : Boards!UpdateCard(c, d, r)
      BY <3>6, UpdateCardInv
    <3>7. CASE \E c \in 1..MaxCards, k \in 1..MaxColumns, p \in 0..MaxCards : Boards!MoveCard(c, k, p)
      <4>1. PICK c \in 1..MaxCards, k \in 1..MaxColumns, p \in 0..MaxCards : Boards!MoveCard(c, k, p)
        BY <3>7
      <4>2. p \in Nat
        BY <4>1
      <4> QED BY <4>1, <4>2, MoveCardInv
    <3>8. CASE \E c \in 1..MaxCards : Boards!DeleteCard(c) \/ Boards!ArchiveCard(c) \/ Boards!UnarchiveCard(c)
      BY <3>8, DeleteCardInv, ArchiveInv
    <3> QED BY <2>1, <3>1, <3>2, <3>3, <3>4, <3>5, <3>6, <3>7, <3>8 DEF Boards!Next
  <2>2. CASE UNCHANGED boardVars
    BY <2>2, BoardsKeep DEF boardVars
  <2>3. Boards!Next \/ UNCHANGED boardVars
    BY DEF MCNext, allVars
  <2> QED BY <2>1, <2>2, <2>3
<1>3. BoardsInv => BoardsSound
  <2> SUFFICES ASSUME BoardsInv PROVE BoardsSound
    OBVIOUS
  <2>1. CardRows(cards, serials) /\ ColumnRows(columns, boards) /\ RewardRows(cards, serials, paid, rewards, onTime, reused)
    BY BoardsParts
  <2>2. ASSUME NEW k
        PROVE  {cards[c].pos : c \in Boards!CardsIn(k)} = 0..(Boards!Cardinality(Boards!CardsIn(k)) - 1)
    <3>1. PICK D, g, p, S : D = DOMAIN cards /\ g = GroupOf(cards) /\ p = PlaceOf(cards) /\ S = {y \in D : g[y] = k}
      OBVIOUS
    <3>2. S = Boards!CardsIn(k) /\ {cards[c].pos : c \in S} = {p[c] : c \in S}
      BY <3>1 DEF GroupOf, PlaceOf, Boards!CardsIn
    <3>3. Placed(D, g, p)
      BY <2>1, <3>1 DEF CardRows
    <3>4. {p[x] : x \in S} = 0..(Cardinality(S) - 1)
      <4>1. PICK n \in Nat : Dense(S, p, n)
        BY <3>1, <3>3 DEF Placed
      <4> QED BY <4>1, DenseCount
    <3> QED BY <3>2, <3>4, BoardsCount
  <2>3. ASSUME NEW b
        PROVE  {columns[k].pos : k \in Boards!ColumnsOf(b)} = 0..(Boards!Cardinality(Boards!ColumnsOf(b)) - 1)
    <3>1. PICK D, g, p, S : D = DOMAIN columns /\ g = BoardGroup(columns) /\ p = PlaceOf(columns) /\ S = {y \in D : g[y] = b}
      OBVIOUS
    <3>2. S = Boards!ColumnsOf(b) /\ {columns[c].pos : c \in S} = {p[c] : c \in S}
      BY <3>1 DEF BoardGroup, PlaceOf, Boards!ColumnsOf
    <3>3. Placed(D, g, p)
      BY <2>1, <3>1 DEF ColumnRows
    <3>4. {p[x] : x \in S} = 0..(Cardinality(S) - 1)
      <4>1. PICK n \in Nat : Dense(S, p, n)
        BY <3>1, <3>3 DEF Placed
      <4> QED BY <4>1, DenseCount
    <3> QED BY <3>2, <3>4, BoardsCount
  <2>4. Boards!PositionsDense
    BY <2>2, <2>3 DEF Boards!PositionsDense
  <2>5. Boards!OneOpenOccurrence
    BY <2>1 DEF CardRows, Boards!OneOpenOccurrence, Boards!No
  <2>6. Boards!RewardedOnce
    BY <2>1 DEF RewardRows, Boards!RewardedOnce
  <2> QED BY <2>4, <2>5, <2>6 DEF BoardsSound
<1> QED BY <1>1, <1>2, <1>3, PTL DEF MCSpec

=============================================================================
