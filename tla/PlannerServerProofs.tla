------------------------- MODULE PlannerServerProofs -------------------------
(***************************************************************************)
(* Proofs about the planner's server, for every set of rules, devices and  *)
(* requests: reminders are pushed once and none that was due is lost;      *)
(* bcrypt slots are given back; a session is as current as its password.   *)
(***************************************************************************)
EXTENDS MCPlannerServer, TLAPS, FiniteSetTheorems, WellFoundedInduction

allVars == <<vars, loginVars, part>>

-----------------------------------------------------------------------------
(***************************************************************************)
(* Reminders.                                                              *)
(***************************************************************************)

\* A set of numbers that has members has a least one.
LEMMA Least ==
  ASSUME NEW T \in SUBSET Nat, T # {}
  PROVE  \E x \in T : \A y \in T : x <= y
PROOF
<1> DEFINE R == OpToRel(<, Nat)
<1>1. \A x, y \in Nat : <<y, x>> \in R <=> y < x
  BY DEF OpToRel
<1>2. IsWellFoundedOn(R, Nat)
  BY NatLessThanWellFounded, Zenon
<1> HIDE DEF R
<1>3. PICK x \in T : \A y \in T : ~(<<y, x>> \in R)
  BY <1>2, WFMin
<1>4. \A y \in T : ~(y < x)
  BY <1>1, <1>3, Zenon
<1>. QED  BY <1>4

\* Notifications name a rule, a place in its list, and a key.
Notices == Rules \X Nat \X Seq(Nat)

\* The history of pushes.
Pushes == [rule : Rules, slot : Nat, key : Seq(Nat), device : Devices, at : Nat]

\* A batch that is not over has a notification whose turn it is (tick goes
\* through the rules in order, and through the list of each).
LEMMA TurnIsDue ==
  ASSUME due \subseteq Notices, due # {}
  PROVE  Turn \in due
PROOF
<1>0. Rules \subseteq Nat
  BY TimesAssumption DEF TimesAssumption, Rules
<1> DEFINE T == {n[1] : n \in due}
<1>1. T \in SUBSET Nat /\ T # {}
  BY <1>0 DEF Notices
<1>2. PICK x \in T : \A y \in T : x <= y
  BY <1>1, Least
<1> DEFINE S == {n[2] : n \in {m \in due : m[1] = x}}
<1>3. S \in SUBSET Nat /\ S # {}
  BY DEF Notices
<1>4. PICK z \in S : \A y \in S : z <= y
  BY <1>3, Least
<1>5. PICK n \in due : n[1] = x /\ n[2] = z
  BY <1>4
<1>6. \A m \in due : m[1] \in Nat /\ m[1] \in T
  BY <1>0 DEF Notices
<1>7. \A m \in due : m[1] = x => m[2] \in S
  OBVIOUS
<1>8. ASSUME NEW m \in due
      PROVE  n[1] < m[1] \/ (n[1] = m[1] /\ n[2] <= m[2])
  <2>1. x \in Nat /\ m[1] \in Nat /\ x <= m[1]
    BY <1>1, <1>2, <1>6
  <2>2. CASE x = m[1]
    <3>1. z <= m[2]
      BY <1>4, <1>7, <2>2
    <3>. QED  BY <1>5, <2>2, <3>1
  <2>3. CASE x < m[1]
    BY <1>5, <2>3
  <2>. QED  BY <2>1, <2>2, <2>3
<1>. QED  BY <1>5, <1>8 DEF Turn

\* Who was pushed to has its mark in notify_sent.
Marked == \A i \in 1..Len(pushed) : pushed[i].rule \in rules => <<pushed[i].rule, pushed[i].key>> \in sent

\* What is to come of a batch was pushed in this batch only, for another place of
\* the list, but for the notification in hand, to no device it has left.
ToCome ==
  \A n \in due : \A i \in 1..Len(pushed) :
    pushed[i].rule = n[1] /\ pushed[i].key = n[3] =>
      /\ pushed[i].at = ticked
      /\ pushed[i].slot = n[2] => pc = "send" /\ n = Turn /\ pushed[i].device \notin left

\* What the loop, the store and the history of pushes hold between two steps.
MarkInv ==
  /\ pc \in {"sleep", "mark", "send"}
  /\ rules \subseteq Rules /\ plan \in [Rules -> Plans] /\ due \subseteq Notices
  /\ clock \in Nat /\ log \in Nat /\ ticked \in Nat
  /\ pushed \in Seq(Pushes)
  /\ subs \subseteq Devices /\ left \subseteq Devices
  /\ pc = "sleep" <=> due = {}
  /\ ~up => due = {}
  /\ pc = "send" => Mark(Turn) \in sent \/ Turn[1] \notin rules
  /\ Marked /\ ToCome /\ PushedOnce

\* What a rule may say (normalize).
LEMMA PlanHas ==
  ASSUME plan \in [Rules -> Plans], NEW r \in Rules
  PROVE  /\ plan[r] \in Plans
         /\ plan[r].times \in Seq(0..(DayLen - 1)) /\ plan[r].limit \in Nat
         /\ plan[r].watch \in BOOLEAN /\ plan[r].since \in BOOLEAN
         /\ plan[r].watch => /\ plan[r].since /\ Len(plan[r].times) = 2
                             /\ plan[r].times[1] < plan[r].times[2]
PROOF
<1>1. plan[r] \in Plans
  OBVIOUS
<1>2. plan[r] \in [days : SUBSET (0..6), times : Seq(0..(DayLen - 1)),
                    since : BOOLEAN, watch : BOOLEAN, limit : Nat]
  BY <1>1, TimesAssumption DEF TimesAssumption, PlansAssumption
<1>3. plan[r].watch => /\ plan[r].since /\ Len(plan[r].times) = 2
                       /\ plan[r].times[1] < plan[r].times[2]
  BY <1>1, TimesAssumption DEF TimesAssumption, PlansAssumption
<1>. QED  BY <1>1, <1>2, <1>3

\* Keys are lists of numbers (a day, a time, a record).
LEMMA KeyIsSeq ==
  ASSUME plan \in [Rules -> Plans], clock \in Nat, log \in Nat,
         NEW r \in Rules, NEW i \in SlotsDue(plan[r])
  PROVE  Key(r, i) \in Seq(Nat) /\ i \in Nat
PROOF
<1>1. DayLen \in Nat \ {0}
  BY TimesAssumption DEF TimesAssumption
<1>2. Today \in Nat
  BY <1>1 DEF Today
<1>3. /\ plan[r].times \in Seq(0..(DayLen - 1)) /\ plan[r].watch \in BOOLEAN /\ plan[r].since \in BOOLEAN
  BY PlanHas
<1>4. CASE plan[r].watch
  <2>1. i = 1 /\ Key(r, i) = <<log>>
    BY <1>4 DEF SlotsDue, Key
  <2>2. <<log>> \in Seq(Nat)
    OBVIOUS
  <2>. QED  BY <2>1, <2>2
<1>5. CASE ~plan[r].watch
  <2>1. i \in DOMAIN plan[r].times
    BY <1>5 DEF SlotsDue
  <2>2. i \in Nat /\ plan[r].times[i] \in Nat
    BY <1>1, <1>3, <2>1
  <2>3. Key(r, i) = IF plan[r].since THEN <<Today, plan[r].times[i], log>> ELSE <<Today, plan[r].times[i]>>
    BY <1>5 DEF Key
  <2>. QED  BY <1>2, <2>2, <2>3
<1>. QED  BY <1>4, <1>5

\* A fresh state has the invariant.
LEMMA MarkInit == Init => MarkInv
PROOF
  BY TimesAssumption DEF Init, MarkInv, Marked, ToCome, PushedOnce, TimesAssumption

\* What is found due is a notification of a rule there is, and not sent.
LEMMA DueUnsent ==
  ASSUME MarkInv, NEW n \in NotifyDue
  PROVE  n \in Notices /\ n[1] \in rules /\ Mark(n) \notin sent
PROOF
<1>0. PICK r \in rules :
        n \in {<<r, i, Key(r, i)>> : i \in {j \in SlotsDue(plan[r]) : <<r, Key(r, j)>> \notin sent}}
  BY DEF NotifyDue
<1>1. PICK i \in SlotsDue(plan[r]) : n = <<r, i, Key(r, i)>> /\ <<r, Key(r, i)>> \notin sent
  BY <1>0
<1>2. Key(r, i) \in Seq(Nat) /\ i \in Nat /\ r \in Rules
  BY KeyIsSeq DEF MarkInv
<1>. QED  BY <1>1, <1>2 DEF Notices, Mark

\* Looking for what is due (tick).
LEMMA MarkTick ==
  ASSUME MarkInv, Tick
  PROVE  MarkInv'
PROOF
<1>1. \A n \in due' : n \in Notices /\ n[1] \in rules /\ Mark(n) \notin sent
  BY DueUnsent DEF Tick
<1>2. /\ pc' = "sleep" <=> due' = {}
      /\ pc' \in {"sleep", "mark"}
  BY DEF Tick
<1>3. UNCHANGED <<up, rules, plan, clock, log, sent, subs, left, pushed>> /\ up /\ ticked' = clock
  BY DEF Tick, store
<1>4. ToCome'
  BY <1>1, <1>3 DEF MarkInv, Marked, ToCome, Mark
<1>5. Marked' /\ PushedOnce'
  BY <1>3 DEF MarkInv, Marked, PushedOnce
<1>. QED  BY <1>1, <1>2, <1>3, <1>4, <1>5 DEF MarkInv

\* The rest of a batch, once the notification in hand is done with.
LEMMA MarkRest ==
  ASSUME MarkInv, due # {}, Rest, pushed' = pushed
  PROVE  /\ due' \subseteq Notices /\ due' = due \ {Turn}
         /\ pc' = "sleep" <=> due' = {}
         /\ pc' \in {"sleep", "mark"}
         /\ ticked' \in Nat
         /\ ToCome'
PROOF
<1>1. due' = due \ {Turn} /\ (due' # {} => ticked' = ticked)
  BY DEF Rest
<1>2. ticked' \in Nat
  BY DEF Rest, MarkInv
<1>3. ToCome'
  BY <1>1 DEF ToCome, MarkInv
<1>. QED  BY <1>1, <1>2, <1>3 DEF Rest, MarkInv

\* Marking (MarkSent).
LEMMA MarkMark ==
  ASSUME MarkInv, MarkSent
  PROVE  MarkInv'
PROOF
<1>1. due \subseteq Notices /\ due # {} /\ pc = "mark" /\ up
  BY DEF MarkInv, MarkSent
<1>2. sent' = IF Turn[1] \in rules THEN sent \cup {Mark(Turn)} ELSE sent
  BY DEF MarkSent
<1>3. UNCHANGED <<up, rules, plan, clock, log, pushed, subs>>
  BY DEF MarkSent, history
<1>4. Marked' /\ PushedOnce'
  BY <1>2, <1>3 DEF MarkInv, Marked, PushedOnce
<1>5. CASE Turn[1] \in rules /\ subs # {}
  <2>1. pc' = "send" /\ left' = subs /\ due' = due /\ ticked' = ticked
    BY <1>5 DEF MarkSent
  <2>2. Turn' = Turn
    BY <2>1 DEF Turn
  <2>3. Mark(Turn') \in sent'
    BY <1>2, <1>5, <2>2
  <2>4. ToCome'
    BY <1>1, <1>3, <2>1 DEF MarkInv, ToCome
  <2>5. left' \subseteq Devices /\ (pc' = "sleep" <=> due' = {}) /\ (~up' => due' = {})
    BY <1>1, <1>3, <2>1 DEF MarkInv
  <2>6. Mark(Turn)' \in sent'
    BY <2>2, <2>3 DEF Mark
  <2>. QED  BY <1>3, <1>4, <2>1, <2>4, <2>5, <2>6 DEF MarkInv
<1>6. CASE ~(Turn[1] \in rules /\ subs # {})
  <2>1. Rest /\ left' = left
    BY <1>6 DEF MarkSent
  <2>2. /\ due' \subseteq Notices /\ pc' \in {"sleep", "mark"} /\ ticked' \in Nat
        /\ pc' = "sleep" <=> due' = {}
        /\ ToCome'
    BY <1>1, <1>3, <2>1, MarkRest
  <2>. QED  BY <1>1, <1>3, <1>4, <2>1, <2>2 DEF MarkInv
<1>. QED  BY <1>5, <1>6

\* What a delivered push adds to the history.
Delivery(d) == [rule |-> Turn[1], slot |-> Turn[2], key |-> Turn[3], device |-> d, at |-> ticked]

\* Pushing to a device, as far as the history of pushes goes.
LEMMA PushHistory ==
  ASSUME MarkInv, NEW d \in Devices, Push(d)
  PROVE  /\ pushed' \in Seq(Pushes) /\ Marked' /\ PushedOnce'
         /\ \A n \in due : \A i \in 1..Len(pushed') :
              pushed'[i].rule = n[1] /\ pushed'[i].key = n[3] =>
                /\ pushed'[i].at = ticked
                /\ pushed'[i].slot = n[2] => n = Turn /\ pushed'[i].device \notin left'
PROOF
<1>1. due \subseteq Notices /\ due # {} /\ pc = "send" /\ d \in left
  BY DEF MarkInv, Push
<1>2. Turn \in due
  BY <1>1, TurnIsDue
<1>3. UNCHANGED <<rules, sent>> /\ left' = left \ {d}
  BY DEF Push
<1>4. pushed' = pushed \/ pushed' = Append(pushed, Delivery(d))
  BY DEF Push, Delivery
<1>5. Delivery(d) \in Pushes
  BY <1>1, <1>2 DEF Delivery, Pushes, Notices, MarkInv
<1>6. pushed \in Seq(Pushes)
  BY DEF MarkInv
<1>7. Turn[1] \in rules => <<Delivery(d).rule, Delivery(d).key>> \in sent
  BY <1>1 DEF MarkInv, Delivery, Mark
<1>8. CASE pushed' = pushed
  BY <1>3, <1>8, <1>6 DEF MarkInv, Marked, PushedOnce, ToCome
<1>9. CASE pushed' = Append(pushed, Delivery(d))
  <2> DEFINE k == Len(pushed) + 1
  <2>1. /\ pushed' \in Seq(Pushes) /\ Len(pushed') = k /\ k \in Nat
        /\ pushed'[k] = Delivery(d)
        /\ \A i \in 1..Len(pushed) : pushed'[i] = pushed[i]
    BY <1>5, <1>6, <1>9
  <2>2. \A i \in 1..Len(pushed') : i \in 1..Len(pushed) \/ i = k
    BY <2>1, <1>6
  <2>3. /\ pushed'[k].rule = Turn[1] /\ pushed'[k].slot = Turn[2] /\ pushed'[k].key = Turn[3]
        /\ pushed'[k].device = d /\ pushed'[k].at = ticked
    BY <2>1 DEF Delivery
  <2>4. Marked'
    <3>1. \A i \in 1..Len(pushed) : pushed'[i].rule \in rules => <<pushed'[i].rule, pushed'[i].key>> \in sent
      BY <2>1 DEF MarkInv, Marked
    <3>2. pushed'[k].rule \in rules => <<pushed'[k].rule, pushed'[k].key>> \in sent
      BY <1>7, <2>1, <2>3
    <3>. QED  BY <1>3, <2>2, <3>1, <3>2 DEF Marked
  <2>5. \A i \in 1..Len(pushed) :
          pushed[i].rule = Turn[1] /\ pushed[i].key = Turn[3] /\ pushed[i].device = d =>
            pushed[i].at = ticked /\ pushed[i].slot # Turn[2]
    BY <1>1, <1>2 DEF MarkInv, ToCome
  <2>6. PushedOnce'
    <3>1. SUFFICES ASSUME NEW i \in 1..Len(pushed'), NEW j \in 1..Len(pushed'), i # j,
                          pushed'[i].rule = pushed'[j].rule, pushed'[i].key = pushed'[j].key,
                          pushed'[i].device = pushed'[j].device
                   PROVE  pushed'[i].at = pushed'[j].at /\ pushed'[i].slot # pushed'[j].slot
      BY Zenon DEF PushedOnce
    <3>2. CASE i \in 1..Len(pushed) /\ j \in 1..Len(pushed)
      BY <2>1, <3>1, <3>2 DEF MarkInv, PushedOnce
    <3>3. CASE i \in 1..Len(pushed) /\ j = k
      <4>1. pushed'[i] = pushed[i]
        BY <2>1, <3>3
      <4>. QED  BY <2>3, <2>5, <3>1, <3>3, <4>1
    <3>4. CASE j \in 1..Len(pushed) /\ i = k
      <4>1. pushed'[j] = pushed[j]
        BY <2>1, <3>4
      <4>. QED  BY <2>3, <2>5, <3>1, <3>4, <4>1
    <3>. QED  BY <2>2, <3>1, <3>2, <3>3, <3>4
  <2>7. ASSUME NEW n \in due, NEW i \in 1..Len(pushed'),
               pushed'[i].rule = n[1], pushed'[i].key = n[3]
        PROVE  /\ pushed'[i].at = ticked
               /\ pushed'[i].slot = n[2] => n = Turn /\ pushed'[i].device \notin left'
    <3>1. CASE i \in 1..Len(pushed)
      <4>1. pushed'[i] = pushed[i]
        BY <2>1, <3>1
      <4>. QED  BY <1>3, <2>7, <3>1, <4>1 DEF MarkInv, ToCome
    <3>2. CASE i = k
      <4>1. n[1] = Turn[1] /\ n[3] = Turn[3] /\ pushed'[i].slot = Turn[2] /\ pushed'[i].at = ticked
        BY <2>3, <2>7, <3>2
      <4>2. n = <<n[1], n[2], n[3]>> /\ Turn = <<Turn[1], Turn[2], Turn[3]>>
        BY <1>1, <1>2 DEF Notices
      <4>3. n[2] = Turn[2] => n = Turn
        BY <4>1, <4>2
      <4>4. pushed'[i].device \notin left'
        BY <1>3, <2>3, <3>2
      <4>. QED  BY <4>1, <4>3, <4>4
    <3>. QED  BY <2>2, <3>1, <3>2
  <2>. QED  BY <2>1, <2>4, <2>6, <2>7
<1>. QED  BY <1>4, <1>8, <1>9

\* Pushing to a device (Send).
LEMMA MarkPush ==
  ASSUME MarkInv, NEW d \in Devices, Push(d)
  PROVE  MarkInv'
PROOF
<1>1. due \subseteq Notices /\ due # {} /\ pc = "send" /\ up
  BY DEF MarkInv, Push
<1>2. UNCHANGED <<up, rules, plan, clock, log, sent>> /\ left' = left \ {d} /\ subs' \subseteq subs
  BY DEF Push
<1>3. /\ pushed' \in Seq(Pushes) /\ Marked' /\ PushedOnce'
      /\ \A n \in due : \A i \in 1..Len(pushed') :
           pushed'[i].rule = n[1] /\ pushed'[i].key = n[3] =>
             /\ pushed'[i].at = ticked
             /\ pushed'[i].slot = n[2] => n = Turn /\ pushed'[i].device \notin left'
  BY PushHistory
<1>4. subs' \subseteq Devices /\ left' \subseteq Devices
  BY <1>2 DEF MarkInv
<1>5. CASE left' = {}
  <2>1. due' = due \ {Turn} /\ (due' # {} => ticked' = ticked) /\ ticked' \in Nat
    BY <1>5 DEF Push, Rest, MarkInv
  <2>2. /\ pc' = "sleep" <=> due' = {}
        /\ pc' \in {"sleep", "mark"}
    BY <1>5 DEF Push, Rest
  <2>3. ToCome'
    BY <1>3, <2>1 DEF ToCome
  <2>. QED  BY <1>1, <1>2, <1>3, <1>4, <2>1, <2>2, <2>3 DEF MarkInv
<1>6. CASE left' # {}
  <2>1. pc' = pc /\ due' = due /\ ticked' = ticked
    BY <1>6 DEF Push
  <2>2. Turn' = Turn
    BY <2>1 DEF Turn
  <2>3. ToCome'
    BY <1>1, <1>3, <2>1, <2>2 DEF ToCome
  <2>4. Mark(Turn)' = Mark(Turn)
    BY <2>2 DEF Mark
  <2>. QED  BY <1>1, <1>2, <1>3, <1>4, <2>1, <2>2, <2>3, <2>4 DEF MarkInv
<1>. QED  BY <1>5, <1>6

\* What the loop does not do: the family's edits, the clock, the process.
Around ==
  \/ Elapse \/ Stop \/ Start \/ Record
  \/ \E r \in Rules : Change(r) \/ NotifySave(r) \/ NotifyDelete(r)
  \/ \E d \in Devices : PushSubscribe(d)

LEMMA MarkAround ==
  ASSUME MarkInv, Around
  PROVE  MarkInv'
PROOF
<1>1. CASE Elapse \/ Record \/ \E r \in Rules : Change(r) \/ NotifySave(r)
  <2>1. UNCHANGED <<pc, up, rules, due, pushed, subs, left, sent, ticked>>
    BY <1>1 DEF Elapse, Record, Change, NotifySave, store, loop, history
  <2>2. clock' \in {clock, clock + 1} /\ log' \in {log, log + 1}
    BY <1>1 DEF Elapse, Record, Change, NotifySave, store, loop, history
  <2>3. Turn' = Turn /\ Mark(Turn)' = Mark(Turn)
    BY <2>1 DEF Turn, Mark
  <2>4. clock' \in Nat /\ log' \in Nat
    BY <2>2, SMTT(40) DEF MarkInv
  <2>5. plan' \in [Rules -> Plans]
    BY <1>1 DEF Elapse, Record, Change, NotifySave, store, MarkInv
  <2>6. Marked' /\ ToCome' /\ PushedOnce'
    BY <2>1, <2>3 DEF MarkInv, Marked, ToCome, PushedOnce
  <2>. QED  BY <2>1, <2>3, <2>4, <2>5, <2>6 DEF MarkInv
<1>2. CASE \E r \in Rules : NotifyDelete(r)
  <2>1. PICK r \in Rules : NotifyDelete(r)
    BY <1>2
  <2>2. /\ UNCHANGED <<pc, up, plan, due, pushed, subs, left, ticked, clock, log>> /\ rules' = rules \ {r}
        /\ sent' = {n \in sent : n[1] # r}
    BY <2>1 DEF NotifyDelete, loop, history
  <2>3. Turn' = Turn /\ Mark(Turn)' = Mark(Turn) /\ Mark(Turn)[1] = Turn[1]
    BY <2>2 DEF Turn, Mark
  <2>4. Mark(Turn) \in sent \/ Turn[1] \notin rules => Mark(Turn)' \in sent' \/ Turn'[1] \notin rules'
    BY <2>2, <2>3
  <2>5. Marked' /\ ToCome' /\ PushedOnce'
    BY <2>2, <2>3 DEF MarkInv, Marked, ToCome, PushedOnce
  <2>. QED  BY <2>2, <2>3, <2>4, <2>5 DEF MarkInv
<1>3. CASE \E d \in Devices : PushSubscribe(d)
  <2>1. UNCHANGED <<pc, up, rules, plan, due, pushed, left, sent, ticked, clock, log>> /\ subs' \subseteq Devices
    BY <1>3 DEF PushSubscribe, loop, history, MarkInv
  <2>2. Turn' = Turn /\ Mark(Turn)' = Mark(Turn)
    BY <2>1 DEF Turn, Mark
  <2>3. Marked' /\ ToCome' /\ PushedOnce'
    BY <2>1, <2>2 DEF MarkInv, Marked, ToCome, PushedOnce
  <2>. QED  BY <2>1, <2>2, <2>3 DEF MarkInv
<1>4. CASE Stop
  <2>1. UNCHANGED <<rules, plan, pushed, sent, ticked, clock, log, subs>> /\ pc' = "sleep" /\ due' = {} /\ left' = {}
    BY <1>4 DEF Stop, store
  <2>. QED  BY <2>1 DEF MarkInv, Marked, ToCome, PushedOnce
<1>5. CASE Start
  <2>1. /\ UNCHANGED <<rules, plan, pushed, sent, clock, log, subs, pc, due, left>>
        /\ ticked' = clock /\ due = {} /\ pc = "sleep"
    BY <1>5 DEF Start, store, history, MarkInv
  <2>. QED  BY <2>1 DEF MarkInv, Marked, ToCome, PushedOnce
<1>. QED  BY <1>1, <1>2, <1>3, <1>4, <1>5 DEF Around

LEMMA MarkNext == MarkInv /\ [Next]_vars => MarkInv'
PROOF
<1>1. ASSUME MarkInv, UNCHANGED vars
      PROVE  MarkInv'
  <2>1. UNCHANGED <<pc, up, rules, plan, due, pushed, subs, left, sent, ticked, clock, log>>
    BY <1>1 DEF vars, store, loop, history
  <2>2. Turn' = Turn /\ Mark(Turn)' = Mark(Turn)
    BY <2>1 DEF Turn, Mark
  <2>3. Marked' /\ ToCome' /\ PushedOnce'
    BY <1>1, <2>1, <2>2 DEF MarkInv, Marked, ToCome, PushedOnce
  <2>. QED  BY <1>1, <2>1, <2>2, <2>3 DEF MarkInv
<1>. QED  BY <1>1, MarkTick, MarkMark, MarkPush, MarkAround DEF Next, LoopStep, Around

LEMMA RemindSteps == [RemindStep \/ LoginStep]_allVars => [Next]_vars
PROOF
  BY DEF RemindStep, LoginStep, allVars

\* However many rules, devices, slow pushes, stops and edits there are, and
\* whatever times a rule lists, twice or not: a device gets the same reminder again
\* only within one batch, for another place of the list (tick marks before it
\* sends).
THEOREM RemindedOnce == MCSpec => []PushedOnce
PROOF
<1>1. MCInit => MarkInv
  BY MarkInit DEF MCInit
<1>2. MarkInv /\ [RemindStep \/ LoginStep]_allVars => MarkInv'
  BY MarkNext, RemindSteps
<1>3. MarkInv => PushedOnce
  BY DEF MarkInv
<1>. QED  BY <1>1, <1>2, <1>3, PTL DEF MCSpec, allVars

\* Whole days are ordered as their numbers are.
LEMMA LaterDay ==
  ASSUME NEW D \in Nat \ {0}, NEW e \in Nat, NEW q \in Nat, e < q
  PROVE  e * D + D <= q * D
PROOF
  OBVIOUS

\* The day and the minute of an instant of day e.
LEMMA DayOf ==
  ASSUME NEW D \in Nat \ {0}, NEW c \in Nat, NEW e \in Nat, e * D <= c, c < e * D + D
  PROVE  c \div D = e /\ c % D = c - e * D
PROOF
<1>1. PICK q \in Nat : q = c \div D
  OBVIOUS
<1>2. PICK m \in 0..(D - 1) : m = c % D
  OBVIOUS
<1>3. c = D * q + m
  BY <1>1, <1>2
<1>4. c = q * D + m
  BY <1>3
<1>5. ~(e < q) /\ ~(q < e)
  BY <1>4, LaterDay
<1>6. q = e
  BY <1>5
<1>7. m = c - e * D
  BY <1>4, <1>6
<1>. QED  BY <1>1, <1>2, <1>6, <1>7

\* A slot that is open at this instant is a slot of today, and its minutes are
\* told right by the times of the day.
LEMMA SlotToday ==
  ASSUME clock \in Nat, NEW e \in 0..Today, NEW s \in Nat, NEW t \in Nat, Spans(e, s, t)
  PROVE  e = Today /\ s <= Minute /\ Minute < t
PROOF
<1>1. DayLen \in Nat \ {0}
  BY TimesAssumption DEF TimesAssumption
<1>2. clock \div DayLen \in Nat
  BY <1>1
<1>3. PICK q \in Nat : q = e * DayLen
  BY <1>1, <1>2 DEF Today
<1>4. e \in Nat /\ q + s <= clock /\ clock < q + t /\ clock < q + DayLen
  BY <1>1, <1>2, <1>3 DEF Today, Spans
<1>5. clock \div DayLen = e /\ clock % DayLen = clock - e * DayLen
  <2>1. e * DayLen <= clock /\ clock < e * DayLen + DayLen
    BY <1>3, <1>4
  <2> HIDE <1>3
  <2>. QED  BY <1>1, <1>4, <2>1, DayOf
<1>6. Today = e /\ Minute = clock - q
  BY <1>3, <1>5 DEF Today, Minute
<1>. QED  BY <1>3, <1>4, <1>6

\* What a family expects of a rule that is on, the loop finds due unless it was
\* sent: NotifyDue, which tells times of day, agrees with Expected, which tells
\* instants.
LEMMA ExpectedIsDue ==
  ASSUME MarkInv, logAt \in Nat, NEW r \in rules, enabled[r], NEW c \in Expected(r)
  PROVE  c \in sent \/ \E n \in NotifyDue : Mark(n) = c
PROOF
<1> DEFINE p == plan[r]
<1>1. /\ clock \in Nat /\ r \in Rules /\ Window \in Nat /\ DayLen \in Nat \ {0}
      /\ p.times \in Seq(0..(DayLen - 1)) /\ p.limit \in Nat
      /\ p.watch \in BOOLEAN /\ p.since \in BOOLEAN
      /\ p.watch => p.since /\ Len(p.times) = 2
  BY PlanHas, TimesAssumption DEF MarkInv, TimesAssumption
<1>2. Wanted(r) => Condition(r)
  BY <1>1 DEF Wanted, Condition, GapOpen
<1>3. SUFFICES ASSUME NEW i \in SlotsDue(p), Today % 7 \in p.days, Condition(r), c = <<r, Key(r, i)>>
               PROVE  c \in sent \/ \E n \in NotifyDue : Mark(n) = c
  <2>1. CASE p.watch
    <3>1. PICK e \in 0..Today : /\ e % 7 \in p.days /\ Wanted(r) /\ Spans(e, p.times[1], p.times[2])
                                 /\ c = <<r, <<log>>>>
      BY <2>1 DEF Expected
    <3>2. p.times[1] \in Nat /\ p.times[2] \in Nat
      BY <1>1, <2>1
    <3>3. e = Today /\ p.times[1] <= Minute /\ Minute < p.times[2]
      BY <1>1, <3>1, <3>2, SlotToday
    <3>4. 1 \in SlotsDue(p) /\ Key(r, 1) = <<log>>
      BY <2>1, <3>3 DEF SlotsDue, Key
    <3>. QED  BY <1>2, <1>3, <3>1, <3>3, <3>4
  <2>2. CASE ~p.watch
    <3>1. PICK e \in 0..Today, i \in DOMAIN p.times :
            /\ e % 7 \in p.days /\ Wanted(r) /\ Spans(e, p.times[i], p.times[i] + Window)
            /\ c = <<r, IF p.since THEN <<e, p.times[i], log>> ELSE <<e, p.times[i]>>>>
      BY <2>2 DEF Expected
    <3>2. p.times[i] \in Nat
      BY <1>1, <3>1
    <3>3. p.times[i] + Window \in Nat
      BY <1>1, <3>2
    <3>4. e = Today /\ p.times[i] <= Minute /\ Minute < p.times[i] + Window
      BY <1>1, <3>1, <3>2, <3>3, SlotToday
    <3>5. i \in SlotsDue(p)
      BY <2>2, <3>1, <3>4 DEF SlotsDue, WithinMinutes
    <3>6. c = <<r, Key(r, i)>>
      BY <2>2, <3>1, <3>4 DEF Key
    <3>. QED  BY <1>2, <1>3, <3>1, <3>4, <3>5, <3>6
  <2>. QED  BY <1>1, <2>1, <2>2
<1>4. <<r, Key(r, i)>> \notin sent => <<r, i, Key(r, i)>> \in NotifyDue
  BY <1>3 DEF NotifyDue
<1>5. Mark(<<r, i, Key(r, i)>>) = c
  BY <1>3 DEF Mark
<1>. QED  BY <1>3, <1>4, <1>5

\* What was due at a minute the loop looked at is marked or still to come in the
\* batch, as long as its rule is there.
ChanceInv ==
  /\ logAt \in Nat
  /\ \A c \in chances : c[1] \in rules => c \in sent \/ \E n \in due : Mark(n) = c

LEMMA ChanceNext ==
  ASSUME MarkInv, ChanceInv, [Next]_vars
  PROVE  ChanceInv'
PROOF
<1>1. CASE Tick
  <2>1. due = {} /\ UNCHANGED <<rules, sent, logAt>> /\ due' = NotifyDue
    BY <1>1 DEF Tick, MarkInv, store
  <2>2. \A c \in chances' : c \in chances \/ \E r \in rules : enabled[r] /\ c \in Expected(r)
    BY <1>1 DEF Tick
  <2>3. \A r \in rules : enabled[r] => \A c \in Expected(r) : c \in sent \/ \E n \in NotifyDue : Mark(n) = c
    BY ExpectedIsDue DEF ChanceInv
  <2>. QED  BY <2>1, <2>2, <2>3 DEF ChanceInv, Mark
<1>2. ASSUME MarkSent \/ \E d \in Devices : Push(d)
      PROVE  ChanceInv'
  <2>1. UNCHANGED <<rules, logAt, chances>>
    BY <1>2 DEF MarkSent, Push, history
  <2>2. due' = due \/ due' = due \ {Turn}
    BY <1>2 DEF MarkSent, Push, Rest
  <2>3. sent \subseteq sent'
    BY <1>2 DEF MarkSent, Push
  <2>4. due' # due => Mark(Turn) \in sent' \/ Turn[1] \notin rules
    BY <1>2 DEF MarkSent, Push, MarkInv
  <2>5. Mark(Turn)[1] = Turn[1]
    BY DEF Mark
  <2>6. ASSUME NEW c \in chances, c[1] \in rules
        PROVE  c \in sent' \/ \E n \in due' : Mark(n) = c
    BY <2>2, <2>3, <2>4, <2>5, <2>6 DEF ChanceInv
  <2>. QED  BY <2>1, <2>6 DEF ChanceInv, Mark
<1>3. CASE Elapse \/ Start \/ Record \/ \E r \in Rules : Change(r) \/ NotifySave(r)
  <2>1. UNCHANGED <<rules, sent, due, chances>> /\ logAt' \in {logAt, clock}
    BY <1>3 DEF Elapse, Start, Record, Change, NotifySave, store, loop, history
  <2>. QED  BY <2>1 DEF ChanceInv, MarkInv, Mark
<1>4. CASE \E r \in Rules : NotifyDelete(r)
  <2>1. PICK r \in Rules : NotifyDelete(r)
    BY <1>4
  <2>2. /\ UNCHANGED <<due, chances, logAt>> /\ rules' = rules \ {r}
        /\ sent' = {n \in sent : n[1] # r}
    BY <2>1 DEF NotifyDelete, loop, history
  <2>. QED  BY <2>2 DEF ChanceInv, Mark
<1>5. CASE \E d \in Devices : PushSubscribe(d)
  BY <1>5 DEF PushSubscribe, loop, history, ChanceInv, Mark
<1>6. CASE Stop
  BY <1>6 DEF Stop, store, ChanceInv, Mark
<1>7. CASE UNCHANGED vars
  BY <1>7 DEF vars, store, loop, history, ChanceInv, Mark
<1>. QED  BY <1>1, <1>2, <1>3, <1>4, <1>5, <1>6, <1>7 DEF Next, LoopStep

\* Reminders are pushed once, and what was due when the loop looked is marked
\* once its batch is over: slow pushes and edits in the batch lose nothing, and
\* of a time just before midnight only the minutes of the next day are lost.
THEOREM RemindersKept == MCSpec => []RemindersHold
PROOF
<1>1. MCInit => MarkInv /\ ChanceInv
  BY MarkInit DEF MCInit, Init, ChanceInv
<1>2. MarkInv /\ ChanceInv /\ [RemindStep \/ LoginStep]_allVars => (MarkInv /\ ChanceInv)'
  BY MarkNext, ChanceNext, RemindSteps
<1>3. MarkInv /\ ChanceInv => RemindersHold
  BY DEF MarkInv, ChanceInv, RemindersHold, DueIsSent
<1>. QED  BY <1>1, <1>2, <1>3, PTL DEF MCSpec, allVars

-----------------------------------------------------------------------------
(***************************************************************************)
(* Bcrypt slots.                                                           *)
(***************************************************************************)

LEMMA LoginSteps == [RemindStep \/ LoginStep]_allVars => [Login!Next]_loginVars
PROOF
  BY DEF RemindStep, LoginStep, allVars

\* The steps of a handler, and those between taking a slot and its release.
Held == {"check", "compare", "record", "session", "set", "add"}
Stages == {"idle", "acquire", "done"} \cup Held
Holding == {r \in Requests : step[r] \in Held}

\* A slot is taken for every request that is between the two, and no other.
SlotInv ==
  /\ step \in [Requests -> Stages]
  /\ slots = Cardinality(Holding) /\ slots <= Slots

\* A step takes a request into its slot, out of it, or neither.
LEMMA SlotMoves ==
  ASSUME LoginAssumption, step \in [Requests -> Stages], [Login!Next]_loginVars
  PROVE  /\ step' \in [Requests -> Stages]
         /\ \/ Holding' = Holding /\ slots' = slots
            \/ \E r \in Requests \ Holding :
                 Holding' = Holding \cup {r} /\ slots' = slots + 1 /\ slots < Slots
            \/ \E r \in Holding : Holding' = Holding \ {r} /\ slots' = slots - 1
PROOF
<1> USE DEF Holding, Held, Stages
<1>1. ASSUME NEW r \in Requests, Login!Acquire(r)
      PROVE  /\ step' \in [Requests -> Stages]
             /\ r \in Requests \ Holding /\ Holding' = Holding \cup {r}
             /\ slots' = slots + 1 /\ slots < Slots
  BY <1>1 DEF Login!Acquire
<1>2. ASSUME NEW r \in Requests, Login!Arrive(r) \/ Login!Busy(r) \/ Login!Check(r) \/ Login!Authenticate(r)
      PROVE  step' \in [Requests -> Stages] /\ Holding' = Holding /\ slots' = slots
  BY <1>2 DEF Login!Arrive, Login!Busy, Login!Check, Login!Authenticate
<1>3. ASSUME NEW r \in Requests,
             Login!Blocked(r) \/ Login!Record(r) \/ Login!CreateSession(r)
               \/ Login!SetPasswordByID(r) \/ Login!CreateUser(r)
      PROVE  /\ step' \in [Requests -> Stages] /\ r \in Holding
             /\ \/ Holding' = Holding /\ slots' = slots
                \/ Holding' = Holding \ {r} /\ slots' = slots - 1
  <2>1. /\ r \in Holding
        /\ \/ step' = [step EXCEPT ![r] = "done"] /\ slots' = slots - 1
           \/ \E s \in {"session", "set"} : step' = [step EXCEPT ![r] = s] /\ slots' = slots
    BY <1>3 DEF Login!Blocked, Login!Record, Login!CreateSession, Login!SetPasswordByID,
                Login!CreateUser, Login!End, Login!Release
  <2>. QED  BY <2>1
<1>4. CASE Login!EndSession \/ Login!Purge \/ Login!Tick \/ UNCHANGED loginVars
  BY <1>4 DEF Login!EndSession, Login!Purge, Login!Tick, Login!local, Login!db, loginVars
<1>. QED  BY <1>1, <1>2, <1>3, <1>4 DEF Login!Next, Login!Step

LEMMA SlotInit == LoginAssumption /\ Login!Init => SlotInv
PROOF
<1> SUFFICES ASSUME LoginAssumption, Login!Init PROVE SlotInv
  OBVIOUS
<1>1. step \in [Requests -> Stages] /\ Holding = {} /\ slots = 0
  BY DEF Login!Init, Stages, Held, Holding
<1>. QED  BY <1>1, FS_EmptySet DEF SlotInv, LoginAssumption

LEMMA SlotNext ==
  ASSUME LoginAssumption, SlotInv, [Login!Next]_loginVars
  PROVE  SlotInv'
PROOF
<1>1. IsFiniteSet(Holding) /\ slots = Cardinality(Holding) /\ slots \in Nat /\ slots <= Slots /\ Slots \in Nat
  <2>1. IsFiniteSet(Holding)
    BY FS_Subset DEF Holding, LoginAssumption
  <2>. QED  BY <2>1, FS_CardinalityType DEF SlotInv, LoginAssumption
<1>2. step' \in [Requests -> Stages]
  BY SlotMoves DEF SlotInv
<1>3. CASE Holding' = Holding /\ slots' = slots
  BY <1>1, <1>2, <1>3 DEF SlotInv
<1>4. ASSUME NEW r \in Requests \ Holding, Holding' = Holding \cup {r}, slots' = slots + 1, slots < Slots
      PROVE  SlotInv'
  <2>1. Cardinality(Holding \cup {r}) = Cardinality(Holding) + 1
    BY <1>1, <1>4, FS_AddElement
  <2>. QED  BY <1>1, <1>2, <1>4, <2>1 DEF SlotInv
<1>5. ASSUME NEW r \in Holding, Holding' = Holding \ {r}, slots' = slots - 1
      PROVE  SlotInv'
  <2>1. Cardinality(Holding \ {r}) = Cardinality(Holding) - 1
    BY <1>1, <1>5, FS_RemoveElement
  <2>. QED  BY <1>1, <1>2, <1>5, <2>1 DEF SlotInv
<1>. QED  BY <1>3, <1>4, <1>5, SlotMoves DEF SlotInv

LEMMA SlotAlways == MCSpec => []SlotInv
PROOF
<1>1. MCInit => SlotInv
  BY SlotInit, LoginAssumption DEF MCInit
<1>2. SlotInv /\ [RemindStep \/ LoginStep]_allVars => SlotInv'
  BY SlotNext, LoginSteps, LoginAssumption
<1>. QED  BY <1>1, <1>2, PTL DEF MCSpec, allVars

\* Slots are given back on every path of every handler, however many requests
\* there are: when none is being worked on, all are free.
THEOREM NoSlotLeaks == MCSpec => []SlotsReturned
PROOF
<1>1. SlotInv => SlotsReturned
  <2> SUFFICES ASSUME SlotInv, \A r \in Requests : step[r] \in {"idle", "acquire", "done"}
               PROVE  slots = 0
    BY DEF SlotsReturned, Login!SlotsReturned
  <2>1. Holding = {}
    BY DEF Holding, Held
  <2>. QED  BY <2>1, FS_EmptySet DEF SlotInv
<1>. QED  BY <1>1, SlotAlways, PTL

-----------------------------------------------------------------------------
(***************************************************************************)
(* Sessions.                                                               *)
(***************************************************************************)

\* A session of user n opened with password v, and whether it may exist.
Session(n, v) == [user |-> n, pass |-> v]
MayOpen(n, v) == v = pass[n] \/ Session(n, v) \in raced
Session0 == [user : Names, pass : Nat \ {0}]
Asks == Login!Ask \cup {Login!NoAsk}

\* What a request in hand has verified is its user's current password, unless a
\* reset found it so and went past it; so is that of every session.
SessionInv ==
  /\ step \in [Requests -> Stages]
  /\ req \in [Requests -> Asks] /\ verified \in [Requests -> Nat] /\ pass \in [Names -> Nat]
  /\ \A r \in Requests : step[r] # "idle" => req[r] \in Login!Ask
  /\ sessions \subseteq Session0
  /\ \A s \in sessions : s.pass = pass[s.user] \/ s \in raced
  /\ \A r \in Requests : step[r] \in {"record", "session"} =>
                           verified[r] = 0 \/ MayOpen(req[r].name, verified[r])
  /\ \A r \in Requests : step[r] = "session" => verified[r] # 0

LEMMA AskTyped ==
  ASSUME LoginAssumption, NEW a \in Login!Ask
  PROVE  a.name \in Names /\ a.target \in Names /\ a.guess \in Nat
PROOF
  BY DEF Login!Ask, LoginAssumption

LEMMA SessionInit == LoginAssumption /\ Login!Init => SessionInv
PROOF
<1> SUFFICES ASSUME LoginAssumption, Login!Init PROVE SessionInv
  OBVIOUS
<1>1. step \in [Requests -> Stages] /\ \A r \in Requests : step[r] = "idle"
  BY DEF Login!Init, Stages, Held
<1>2. req \in [Requests -> Asks] /\ verified \in [Requests -> Nat] /\ pass \in [Names -> Nat]
  BY DEF Login!Init, Asks
<1>3. sessions \subseteq Session0 /\ \A s \in sessions : s.pass = pass[s.user] \/ s \in raced
  BY DEF Login!Init, Session0, LoginAssumption
<1>. QED  BY <1>1, <1>2, <1>3 DEF SessionInv

\* Steps that touch neither passwords nor sessions.
LEMMA SessionQuiet ==
  ASSUME LoginAssumption, SessionInv, step' \in [Requests -> Stages],
         UNCHANGED <<verified, pass, sessions, raced>>,
         NEW r \in Requests,
         \A q \in Requests \ {r} : step'[q] = step[q] /\ req'[q] = req[q],
         req' \in [Requests -> Asks], step'[r] # "idle" => req'[r] \in Login!Ask,
         step'[r] \in {"record", "session"} =>
           step[r] = "record" /\ req'[r] = req[r] /\ (step'[r] = "session" => verified[r] # 0)
  PROVE  SessionInv'
PROOF
  BY DEF SessionInv, MayOpen, Session

LEMMA SessionNext ==
  ASSUME LoginAssumption, SessionInv, [Login!Next]_loginVars
  PROVE  SessionInv'
PROOF
<1>0. step' \in [Requests -> Stages]
  BY SlotMoves DEF SessionInv
<1>1. ASSUME NEW r \in Requests, Login!Arrive(r)
      PROVE  SessionInv'
  <2>1. PICK a \in Login!Ask : req' = [req EXCEPT ![r] = a]
    BY <1>1 DEF Login!Arrive
  <2>2. step' = [step EXCEPT ![r] = "acquire"] /\ UNCHANGED <<verified, pass, sessions, raced>>
    BY <1>1 DEF Login!Arrive, Login!db, Login!history
  <2>. QED  BY <1>0, <2>1, <2>2, SessionQuiet DEF SessionInv, Asks
<1>2. ASSUME NEW r \in Requests,
             Login!Acquire(r) \/ Login!Busy(r) \/ Login!Check(r) \/ Login!Blocked(r)
      PROVE  SessionInv'
  <2>1. PICK s \in {"add", "check", "done", "compare"} : step' = [step EXCEPT ![r] = s]
    BY <1>2 DEF Login!Acquire, Login!Busy, Login!Check, Login!Blocked, Login!End
  <2>2. UNCHANGED <<req, verified, pass, sessions, raced>> /\ step[r] # "idle"
    BY <1>2 DEF Login!Acquire, Login!Busy, Login!Check, Login!Blocked, Login!db, Login!history
  <2>. QED  BY <1>0, <2>1, <2>2, SessionQuiet DEF SessionInv
<1>3. ASSUME NEW r \in Requests, Login!Record(r)
      PROVE  SessionInv'
  <2>1. PICK s \in {"session", "set", "done"} :
          step' = [step EXCEPT ![r] = s] /\ (s = "session" => verified[r] # 0)
    BY <1>3 DEF Login!Record, Login!End
  <2>2. UNCHANGED <<req, verified, pass, sessions, raced>> /\ step[r] = "record"
    BY <1>3 DEF Login!Record
  <2>. QED  BY <1>0, <2>1, <2>2, SessionQuiet DEF SessionInv
<1>4. ASSUME NEW r \in Requests, Login!Authenticate(r)
      PROVE  SessionInv'
  <2>1. /\ step[r] = "compare" /\ step' = [step EXCEPT ![r] = "record"]
        /\ UNCHANGED <<req, pass, sessions, raced>>
    BY <1>4 DEF Login!Authenticate, Login!db, Login!history
  <2>2. req[r] \in Login!Ask /\ req[r].name \in Names /\ req[r].guess \in Nat
    BY <2>1, AskTyped DEF SessionInv
  <2>3. PICK v \in Nat : verified' = [verified EXCEPT ![r] = v] /\ (v = 0 \/ v = pass[req[r].name])
    BY <1>4, <2>2 DEF Login!Authenticate
  <2>. QED  BY <1>0, <2>1, <2>2, <2>3 DEF SessionInv, MayOpen
<1>5. ASSUME NEW r \in Requests, Login!CreateSession(r)
      PROVE  SessionInv'
  <2>1. /\ step[r] = "session" /\ step' = [step EXCEPT ![r] = "done"]
        /\ UNCHANGED <<req, verified, pass, raced>>
        /\ sessions' = sessions \cup {Session(req[r].name, verified[r])}
    BY <1>5 DEF Login!CreateSession, Login!End, Login!history, Session
  <2>2. req[r] \in Login!Ask /\ req[r].name \in Names
    BY <2>1, AskTyped DEF SessionInv
  <2>3. verified[r] \in Nat \ {0} /\ MayOpen(req[r].name, verified[r])
    BY <2>1 DEF SessionInv
  <2>4. \A s \in sessions' : s \in Session0 /\ (s.pass = pass[s.user] \/ s \in raced)
    BY <2>1, <2>2, <2>3 DEF SessionInv, MayOpen, Session, Session0
  <2>. QED  BY <1>0, <2>1, <2>2, <2>4 DEF SessionInv, MayOpen
<1>6. ASSUME NEW r \in Requests, Login!CreateUser(r)
      PROVE  SessionInv'
  <2>1. /\ step[r] = "add" /\ step' = [step EXCEPT ![r] = "done"]
        /\ UNCHANGED <<req, verified, sessions, raced>>
    BY <1>6 DEF Login!CreateUser, Login!End, Login!history
  <2>2. PICK n \in Names : pass' = pass \/ (pass[n] = 0 /\ pass' = [pass EXCEPT ![n] = 1])
    BY <1>6 DEF Login!CreateUser, Login!Exists
  <2>3. pass' \in [Names -> Nat] /\ \A m \in Names : pass[m] # 0 => pass'[m] = pass[m]
    BY <2>2 DEF SessionInv
  <2>4. \A s \in sessions : s.pass = pass'[s.user] \/ s \in raced
    BY <2>3 DEF SessionInv, Session0
  <2>5. \A q \in Requests : step[q] \in {"record", "session"} /\ verified[q] # 0 =>
          MayOpen(req[q].name, verified[q])'
    <3> SUFFICES ASSUME NEW q \in Requests, step[q] \in {"record", "session"}, verified[q] # 0
                 PROVE  MayOpen(req[q].name, verified[q])'
      OBVIOUS
    <3>1. req[q].name \in Names /\ MayOpen(req[q].name, verified[q])
      BY AskTyped DEF SessionInv
    <3>. QED  BY <2>1, <2>3, <3>1 DEF MayOpen
  <2>. QED  BY <1>0, <2>1, <2>3, <2>4, <2>5 DEF SessionInv
<1>7. ASSUME NEW r \in Requests, Login!SetPasswordByID(r)
      PROVE  SessionInv'
  <2> DEFINE t == req[r].target
  <2>1. /\ step[r] = "set" /\ UNCHANGED req /\ pass' = [pass EXCEPT ![t] = pass[t] + 1]
        /\ sessions' = {s \in sessions : s.user # t}
        /\ raced' = raced \cup Login!AboutToOpen(r, t)
    BY <1>7 DEF Login!SetPasswordByID
  <2>2. t \in Names /\ req[r] \in Login!Ask
    BY <2>1, AskTyped DEF SessionInv
  <2>3. \/ step' = [step EXCEPT ![r] = "done"] /\ verified' = verified
        \/ /\ step' = [step EXCEPT ![r] = "session"] /\ t = req[r].name
           /\ verified' = [verified EXCEPT ![r] = pass[t] + 1]
    BY <1>7 DEF Login!SetPasswordByID, Login!End
  <2> HIDE DEF t
  <2>4. pass' \in [Names -> Nat] /\ pass'[t] = pass[t] + 1 /\ \A m \in Names \ {t} : pass'[m] = pass[m]
    BY <2>1, <2>2 DEF SessionInv
  <2>5. /\ verified' \in [Requests -> Nat]
        /\ \A q \in Requests \ {r} : step'[q] = step[q] /\ verified'[q] = verified[q]
    <3>1. pass[t] + 1 \in Nat /\ verified \in [Requests -> Nat] /\ step \in [Requests -> Stages]
      BY <2>2, <2>4 DEF SessionInv
    <3>. QED  BY <2>3, <3>1
  <2>6. sessions' \subseteq Session0 /\ \A s \in sessions' : s.pass = pass'[s.user] \/ s \in raced'
    BY <2>1, <2>4 DEF SessionInv, Session0
  <2>7. ASSUME NEW q \in Requests \ {r}, step[q] \in {"record", "session"}, verified[q] # 0
        PROVE  MayOpen(req[q].name, verified[q])'
    <3>1. req[q].name \in Names /\ MayOpen(req[q].name, verified[q])
      BY <2>7, AskTyped DEF SessionInv
    <3>2. CASE req[q].name # t
      BY <2>1, <2>4, <2>5, <3>1, <3>2 DEF MayOpen
    <3>3. CASE req[q].name = t /\ verified[q] = pass[t]
      <4>1. Session(t, pass[t]) \in Login!AboutToOpen(r, t)
        BY <2>7, <3>3 DEF Login!AboutToOpen, Session
      <4>. QED  BY <2>1, <2>5, <3>3, <4>1 DEF MayOpen
    <3>4. CASE Session(req[q].name, verified[q]) \in raced
      BY <2>1, <2>5, <3>4 DEF MayOpen
    <3>. QED  BY <3>1, <3>2, <3>3, <3>4 DEF MayOpen
  <2>8. step'[r] = "session" => verified'[r] # 0 /\ MayOpen(req[r].name, verified[r])'
    BY <2>1, <2>2, <2>3, <2>4 DEF SessionInv, MayOpen
  <2>9. step'[r] \in {"done", "session"}
    BY <2>3 DEF SessionInv
  <2>. QED  BY <1>0, <2>1, <2>2, <2>4, <2>5, <2>6, <2>7, <2>8, <2>9 DEF SessionInv
<1>8. CASE Login!EndSession
  BY <1>8 DEF Login!EndSession, Login!local, Login!history, SessionInv, MayOpen
<1>9. CASE Login!Purge \/ Login!Tick \/ UNCHANGED loginVars
  <2>1. UNCHANGED <<step, req, verified, pass, sessions, raced>>
    BY <1>9 DEF Login!Purge, Login!Tick, Login!local, Login!db, Login!history, loginVars
  <2>. QED  BY <2>1 DEF SessionInv, MayOpen
<1>. QED  BY <1>1, <1>2, <1>3, <1>4, <1>5, <1>6, <1>7, <1>8, <1>9 DEF Login!Next, Login!Step

\* Every session was opened with its user's current password, or by a login that
\* had verified the old one when the reset ran: for every number of requests,
\* users and resets.
THEOREM SessionsAreCurrent == MCSpec => []SessionsCurrent
PROOF
<1>1. MCInit => SessionInv
  BY SessionInit, LoginAssumption DEF MCInit
<1>2. SessionInv /\ [RemindStep \/ LoginStep]_allVars => SessionInv'
  BY SessionNext, LoginSteps, LoginAssumption
<1>3. SessionInv => SessionsCurrent
  BY DEF SessionInv, SessionsCurrent, Login!SessionsCurrent
<1>. QED  BY <1>1, <1>2, <1>3, PTL DEF MCSpec, allVars

-----------------------------------------------------------------------------
(***************************************************************************)
(* Lockouts.                                                               *)
(***************************************************************************)

AccountRow == [fails : Nat, start : Nat, until : Nat]
AddressRow == [fails : Nat, start : Nat, count : Nat, until : Nat]

\* Requests that CheckLogin let through and that have not recorded their attempt;
\* those of them against one account; those the address's present window counts.
Passed == {r \in Requests : step[r] \in {"compare", "record"} /\ allowed[r]}
Against(n) == {r \in Passed : req[r].name = n}
Counted == {r \in Passed : now[r] - ip.start < IpWindow}

LEMMA EmptyRows ==
  ASSUME LoginAssumption
  PROVE  /\ Login!NoRow \in AccountRow /\ Login!NoRow.until = 0
         /\ Login!NoIp \in AddressRow /\ Login!NoIp.count = 0
         /\ Login!NoWindow.start = 0 - IpWindow /\ Login!NoWindow.count = 0
PROOF
  BY DEF Login!NoRow, Login!NoIp, Login!NoWindow, AccountRow, AddressRow

LEMMA FailedTyped ==
  ASSUME LoginAssumption, NEW w \in AccountRow, NEW t \in Nat
  PROVE  Login!Failed(w, t) \in AccountRow
PROOF
<1>1. ASSUME NEW k \in Nat PROVE Login!LockUntil(k, t) \in Nat
  <2> DEFINE s == k - Threshold + 1
             i == IF s > Len(LockSteps) THEN Len(LockSteps) ELSE s
  <2>1. CASE k < Threshold
    BY <2>1 DEF Login!LockUntil
  <2>2. CASE ~(k < Threshold)
    <3>1. Len(LockSteps) \in Nat /\ Len(LockSteps) # 0 /\ Threshold \in Nat
      BY DEF LoginAssumption
    <3>2. i \in 1..Len(LockSteps)
      BY <1>1, <2>2, <3>1
    <3>3. LockSteps[i] \in Nat
      BY <3>2 DEF LoginAssumption
    <3>4. Login!LockUntil(k, t) = t + LockSteps[i]
      BY <2>2 DEF Login!LockUntil
    <3> HIDE DEF i
    <3>. QED  BY <3>3, <3>4, SMTT(40)
  <2>. QED  BY <2>1, <2>2
<1>2. w.fails + 1 \in Nat /\ w.start \in Nat
  BY DEF AccountRow
<1>3. Login!LockUntil(w.fails + 1, t) \in Nat
  BY <1>1, <1>2
<1>. QED  BY <1>2, <1>3 DEF Login!Failed, AccountRow

\* The address's row after an attempt, whatever its outcome: counted into the
\* present window, or the first of the next.
LEMMA Bumped ==
  ASSUME LoginAssumption, ip \in AddressRow, NEW o, NEW t \in Nat,
         NEW w, w = Login!BumpWindow(o, t) \/ w = Login!BumpUnknown(Login!BumpWindow(o, t), t)
  PROVE  /\ w \in AddressRow
         /\ IF ip.count = 0 \/ t - ip.start >= IpWindow
              THEN w.start = t /\ w.count = 1
              ELSE w.start = ip.start /\ w.count = ip.count + 1
PROOF
<1> DEFINE b == Login!BumpWindow(o, t)
<1>b. ASSUME NEW x \in AddressRow, NEW c \in Nat, NEW y, y = [x EXCEPT !.count = c]
      PROVE  y \in AddressRow /\ y.start = x.start /\ y.count = c
  BY <1>b DEF AddressRow
<1>d. ASSUME NEW x \in AddressRow PROVE x.count + 1 \in Nat /\ x.fails + 1 \in Nat
  <2>1. x.count \in Nat /\ x.fails \in Nat
    BY DEF AddressRow
  <2>. QED  BY <2>1
<1>1. /\ b \in AddressRow
      /\ IF ip.count = 0 \/ t - ip.start >= IpWindow
           THEN b.start = t /\ b.count = 1
           ELSE b.start = ip.start /\ b.count = ip.count + 1
  <2>1. CASE ip.count = 0 \/ t - ip.start >= IpWindow
    <3>1. b = [ip EXCEPT !.start = t, !.count = 1]
      BY <2>1 DEF Login!BumpWindow
    <3> HIDE DEF b
    <3>2. b \in AddressRow /\ b.start = t /\ b.count = 1
      BY <3>1 DEF AddressRow
    <3>. QED  BY <2>1, <3>2
  <2>2. CASE ~(ip.count = 0 \/ t - ip.start >= IpWindow)
    <3>1. b = [ip EXCEPT !.count = ip.count + 1]
      BY <2>2 DEF Login!BumpWindow
    <3>. QED  BY <1>b, <1>d, <2>2, <3>1
  <2>. QED  BY <2>1, <2>2
<1>2. ASSUME NEW x \in AddressRow
      PROVE  /\ Login!BumpUnknown(x, t) \in AddressRow
             /\ Login!BumpUnknown(x, t).start = x.start /\ Login!BumpUnknown(x, t).count = x.count
  <2> DEFINE u == IF x.fails + 1 >= UnknownThreshold THEN t + UnknownLock ELSE 0
  <2>1. u \in Nat
    BY DEF LoginAssumption
  <2>2. Login!BumpUnknown(x, t) = [x EXCEPT !.fails = x.fails + 1, !.until = u]
    BY DEF Login!BumpUnknown
  <2> HIDE DEF u
  <2>3. ASSUME NEW y, NEW k \in Nat, NEW z \in Nat, y = [x EXCEPT !.fails = k, !.until = z]
        PROVE  y \in AddressRow /\ y.start = x.start /\ y.count = x.count
    BY <2>3 DEF AddressRow
  <2>. QED  BY <1>d, <2>1, <2>2, <2>3, Zenon
<1> HIDE DEF b
<1>. QED  BY <1>1, <1>2 DEF b

\* While an account is locked, the attempts recorded against it since and those
\* still to be recorded were in their slots together when the lock fell; the same
\* holds of the address's window once it is full.
LimitInv ==
  /\ ticks \in Nat /\ now \in [Requests -> Nat] /\ \A r \in Requests : now[r] <= ticks
  /\ allowed \in [Requests -> BOOLEAN]
  /\ row \in [Names -> AccountRow] /\ ip \in AddressRow /\ late \in [Names -> Nat]
  /\ admitted.start = IF ip.count = 0 THEN 0 - IpWindow ELSE ip.start
  /\ admitted.count = ip.count
  /\ \A n \in Names : late[n] <= Slots - 1
  /\ \A n \in Names : row[n].until > ticks => late[n] + Cardinality(Against(n)) <= Slots - 1
  /\ ip.count >= IpMax => ip.count + Cardinality(Counted) <= IpMax + Slots - 1

LEMMA LimitInit == LoginAssumption /\ Login!Init => LimitInv
PROOF
<1> SUFFICES ASSUME LoginAssumption, Login!Init PROVE LimitInv
  OBVIOUS
<1>1. /\ ticks = 1 /\ now \in [Requests -> Nat] /\ (\A r \in Requests : now[r] <= ticks)
      /\ allowed \in [Requests -> BOOLEAN] /\ late \in [Names -> Nat] /\ \A n \in Names : late[n] = 0
  BY DEF Login!Init
<1>2. /\ row \in [Names -> AccountRow] /\ (\A n \in Names : row[n].until = 0)
      /\ ip \in AddressRow /\ ip.count = 0
      /\ admitted.start = 0 - IpWindow /\ admitted.count = 0
  BY EmptyRows DEF Login!Init
<1>3. Slots \in Nat \ {0} /\ IpMax \in Nat \ {0}
  BY DEF LoginAssumption
<1>. QED  BY <1>1, <1>2, <1>3 DEF LimitInv

\* The sets of requests counted are finite, and no larger than the slots.
LEMMA PassedFinite ==
  ASSUME LoginAssumption, SlotInv
  PROVE  /\ Passed \subseteq Holding /\ IsFiniteSet(Passed) /\ IsFiniteSet(Holding)
         /\ Cardinality(Holding) <= Slots /\ Cardinality(Holding) \in Nat
         /\ \A T \in SUBSET Passed : /\ IsFiniteSet(T) /\ Cardinality(T) \in Nat
                                     /\ Cardinality(T) <= Slots
PROOF
<1>1. Passed \subseteq Holding /\ Holding \subseteq Requests
  BY DEF Passed, Holding, Held
<1>2. IsFiniteSet(Holding) /\ Cardinality(Holding) <= Slots /\ Cardinality(Holding) \in Nat
  BY <1>1, FS_Subset, FS_CardinalityType DEF SlotInv, LoginAssumption
<1>3. ASSUME NEW T \in SUBSET Holding
      PROVE  IsFiniteSet(T) /\ Cardinality(T) \in Nat /\ Cardinality(T) <= Slots
  BY <1>2, FS_Subset, FS_CardinalityType DEF LoginAssumption
<1>. QED  BY <1>1, <1>2, <1>3

\* Steps that leave the same requests between their check and their record, and
\* forget locks and failures at most.
LEMMA LimitQuiet ==
  ASSUME LoginAssumption, SlotInv, LimitInv,
         Passed' = Passed, \A r \in Passed : req'[r] = req[r] /\ now'[r] = now[r],
         ticks' \in Nat, ticks' >= ticks,
         now' \in [Requests -> Nat], \A r \in Requests : now'[r] <= ticks',
         allowed' \in [Requests -> BOOLEAN],
         row' \in [Names -> AccountRow], late' \in [Names -> Nat],
         \A n \in Names : late'[n] \in {0, late[n]} /\ (row'[n] = row[n] \/ row'[n].until = 0),
         UNCHANGED <<ip, admitted>>
  PROVE  LimitInv'
PROOF
<1>1. /\ \A n \in Names : Against(n)' = Against(n) /\ Against(n) \in SUBSET Passed
      /\ Counted' = Counted
  BY DEF Against, Counted
<1>2. \A n \in Names : Cardinality(Against(n)) \in Nat
  BY <1>1, PassedFinite
<1>3. \A n \in Names : row[n].until \in Nat /\ row'[n].until \in Nat
  BY DEF LimitInv, AccountRow
<1>4. ASSUME NEW n \in Names PROVE late'[n] <= late[n] /\ late'[n] <= Slots - 1 /\ {late[n], late'[n]} \subseteq Nat
  <2>1. late[n] \in Nat /\ late[n] <= Slots - 1 /\ Slots \in Nat /\ late'[n] \in {0, late[n]}
    BY DEF LimitInv, LoginAssumption
  <2>. QED  BY <2>1
<1>5. ASSUME NEW n \in Names, row'[n].until > ticks'
      PROVE  late'[n] + Cardinality(Against(n)') <= Slots - 1
  <2>1. row'[n] = row[n] /\ row[n].until > ticks
    BY <1>3, <1>5 DEF LimitInv
  <2>2. late[n] + Cardinality(Against(n)) <= Slots - 1 /\ late[n] \in Nat
    BY <2>1 DEF LimitInv
  <2>3. Cardinality(Against(n)') = Cardinality(Against(n))
    BY <1>1
  <2>4. PICK k \in Nat : k = Cardinality(Against(n))
    BY <1>2
  <2>5. Slots \in Nat /\ late'[n] <= late[n] /\ late'[n] \in Nat
    BY <1>4 DEF LoginAssumption
  <2>. QED  BY <2>2, <2>3, <2>4, <2>5
<1>. QED  BY <1>1, <1>4, <1>5 DEF LimitInv

\* A check (CheckLogin) lets nobody through to a locked account, nor to the full
\* window of an address.
LEMMA LimitCheck ==
  ASSUME LoginAssumption, SlotInv, SessionInv, LimitInv, NEW r \in Requests, Login!Check(r)
  PROVE  LimitInv'
PROOF
<1> DEFINE n == req[r].name
           ok == Login!CheckLogin(n, now[r])
<1>1. /\ step[r] = "check" /\ step' = [step EXCEPT ![r] = "compare"]
      /\ allowed' = [allowed EXCEPT ![r] = ok]
      /\ UNCHANGED <<ticks, req, now, row, ip, late, admitted>>
  BY DEF Login!Check, Login!db, Login!history
<1>2. ok \in BOOLEAN
  BY DEF Login!CheckLogin
<1>3. Passed' = IF ok THEN Passed \cup {r} ELSE Passed
  BY <1>1 DEF Passed, SlotInv, LimitInv
<1>4. /\ ok => row[n].until <= now[r] /\ (ip.count > 0 /\ ip.count >= IpMax => ~(now[r] - ip.start < IpWindow))
      /\ n \in Names
  BY <1>1, AskTyped DEF Login!CheckLogin, SessionInv
<1> HIDE DEF ok, n
<1>5. allowed' \in [Requests -> BOOLEAN]
  BY <1>1, <1>2 DEF LimitInv
<1>6. \A m \in Names : row[m].until > ticks => Against(m)' = Against(m)
  <2> SUFFICES ASSUME NEW m \in Names, row[m].until > ticks
               PROVE  Against(m)' = Against(m)
    OBVIOUS
  <2>1. row[m].until \in Nat /\ ticks \in Nat /\ now[r] \in Nat /\ now[r] <= ticks
    BY DEF LimitInv, AccountRow
  <2>2. ok => m # n
    BY <1>4, <2>1
  <2>. QED  BY <1>1, <1>3, <2>2 DEF Against, n
<1>7. ip.count >= IpMax => Counted' = Counted
  <2> SUFFICES ASSUME ip.count >= IpMax PROVE Counted' = Counted
    OBVIOUS
  <2>1. ip.count > 0
    BY DEF LimitInv, AddressRow, LoginAssumption
  <2>. QED  BY <1>1, <1>3, <1>4, <2>1 DEF Counted
<1>. QED  BY <1>1, <1>5, <1>6, <1>7 DEF LimitInv

\* Recording an attempt (RecordAttempt) takes its request out of flight.
LEMMA LimitRecord ==
  ASSUME LoginAssumption, SlotInv, SessionInv, LimitInv, NEW r \in Requests, Login!Record(r)
  PROVE  LimitInv'
PROOF
<1> DEFINE n == req[r].name
           t == now[r]
<1>1. /\ step[r] = "record" /\ allowed[r]
      /\ \E s \in {"session", "set", "done"} : step' = [step EXCEPT ![r] = s]
      /\ UNCHANGED <<ticks, req, now, allowed>>
  BY DEF Login!Record, Login!End
<1>2. PICK o : Login!RecordAttempt(n, o, t)
  BY DEF Login!Record
<1>3. n \in Names /\ t \in Nat /\ t <= ticks /\ ticks \in Nat
  BY <1>1, AskTyped DEF SessionInv, LimitInv
<1>4. r \in Passed /\ r \in Against(n) /\ r \in Holding /\ Passed' = Passed \ {r}
  BY <1>1 DEF Passed, Against, Holding, Held, SlotInv
<1> HIDE DEF n, t
<1>5. /\ ip' \in AddressRow
      /\ IF ip.count = 0 \/ t - ip.start >= IpWindow
           THEN ip'.start = t /\ ip'.count = 1
           ELSE ip'.start = ip.start /\ ip'.count = ip.count + 1
  <2>1. ip' = Login!BumpWindow(o, t) \/ ip' = Login!BumpUnknown(Login!BumpWindow(o, t), t)
    BY <1>2 DEF Login!RecordAttempt
  <2>. QED  BY <1>3, <2>1, Bumped DEF LimitInv
<1>6. /\ row' \in [Names -> AccountRow] /\ \A m \in Names \ {n} : row'[m] = row[m]
      /\ o = "success" => row'[n].until = 0
  <2>1. row[n] \in AccountRow
    BY <1>3 DEF LimitInv
  <2>2. row' = [row EXCEPT ![n] = IF o = "success" THEN Login!NoRow ELSE Login!Failed(row[n], t)]
    BY <1>2 DEF Login!RecordAttempt
  <2>. QED  BY <1>3, <2>1, <2>2, EmptyRows, FailedTyped DEF LimitInv
<1>7. late' = [late EXCEPT ![n] = IF o # "success" /\ row[n].until > ticks THEN late[n] + 1 ELSE 0]
  BY <1>2 DEF Login!RecordAttempt
<1>8. late' \in [Names -> Nat] /\ \A m \in Names \ {n} : late'[m] = late[m]
  BY <1>3, <1>7 DEF LimitInv
<1>9. /\ \A m \in Names : Against(m)' = Against(m) \ {r}
      /\ Against(n)' = Against(n) \ {r} /\ \A m \in Names \ {n} : Against(m)' = Against(m)
  BY <1>1, <1>4 DEF Against, n
<1>10. \A T \in SUBSET Passed : /\ Cardinality(T \ {r}) \in Nat /\ Cardinality(T \ {r}) <= Slots - 1
                                /\ r \in T => Cardinality(T) = Cardinality(T \ {r}) + 1
  <2> SUFFICES ASSUME NEW T \in SUBSET Passed
               PROVE  /\ Cardinality(T \ {r}) \in Nat /\ Cardinality(T \ {r}) <= Slots - 1
                      /\ r \in T => Cardinality(T) = Cardinality(T \ {r}) + 1
    OBVIOUS
  <2>1. IsFiniteSet(Holding) /\ Cardinality(Holding) <= Slots /\ Cardinality(Holding) \in Nat
        /\ T \subseteq Holding /\ IsFiniteSet(T) /\ Cardinality(T) \in Nat
    BY PassedFinite
  <2>2. IsFiniteSet(Holding \ {r}) /\ Cardinality(Holding \ {r}) = Cardinality(Holding) - 1
    BY <1>4, <2>1, FS_RemoveElement
  <2>3. T \ {r} \subseteq Holding \ {r}
    BY <2>1
  <2>4. IsFiniteSet(T \ {r}) /\ Cardinality(T \ {r}) <= Cardinality(Holding \ {r}) /\ Cardinality(T \ {r}) \in Nat
    BY <2>2, <2>3, FS_Subset, FS_CardinalityType
  <2>5. r \in T => Cardinality(T \ {r}) = Cardinality(T) - 1
    BY <2>1, FS_RemoveElement
  <2>. QED  BY <2>1, <2>2, <2>4, <2>5 DEF LoginAssumption
<1>11. Against(n) \in SUBSET Passed /\ Counted \in SUBSET Passed
  BY DEF Against, Counted
<1>12. late'[n] <= Slots - 1 /\ late'[n] + Cardinality(Against(n)') <= Slots - 1
  <2>1. PICK k \in Nat : k = Cardinality(Against(n) \ {r})
    BY <1>10, <1>11
  <2>2. k <= Slots - 1 /\ Cardinality(Against(n)) = k + 1 /\ Cardinality(Against(n)') = k
    BY <1>4, <1>9, <1>10, <1>11, <2>1
  <2>3. CASE o # "success" /\ row[n].until > ticks
    <3>1. late'[n] = late[n] + 1 /\ late[n] \in Nat
      BY <1>3, <1>7, <2>3 DEF LimitInv
    <3>2. late[n] + Cardinality(Against(n)) <= Slots - 1
      BY <1>3, <2>3 DEF LimitInv
    <3>. QED  BY <2>2, <3>1, <3>2 DEF LoginAssumption
  <2>4. CASE ~(o # "success" /\ row[n].until > ticks)
    <3>1. late'[n] = 0
      BY <1>3, <1>7, <2>4 DEF LimitInv
    <3>. QED  BY <2>2, <3>1 DEF LoginAssumption
  <2>. QED  BY <2>3, <2>4
<1>13. \A m \in Names : late'[m] <= Slots - 1
  BY <1>8, <1>12 DEF LimitInv
<1>14. \A m \in Names : row'[m].until > ticks' => late'[m] + Cardinality(Against(m)') <= Slots - 1
  BY <1>1, <1>6, <1>8, <1>9, <1>12 DEF LimitInv
<1>15. admitted'.start = ip'.start /\ admitted'.count = ip'.count /\ ip'.count # 0
  <2>1. admitted' = IF t - admitted.start >= IpWindow
                      THEN [start |-> t, count |-> 1]
                      ELSE [start |-> admitted.start, count |-> admitted.count + 1]
    BY <1>2 DEF Login!RecordAttempt
  <2>2. /\ ip.count \in Nat /\ ip.start \in Nat /\ IpWindow \in Nat
        /\ admitted.start = IF ip.count = 0 THEN 0 - IpWindow ELSE ip.start
        /\ admitted.count = ip.count
    BY DEF LimitInv, AddressRow, LoginAssumption
  <2>3. CASE ip.count = 0 \/ t - ip.start >= IpWindow
    BY <1>3, <1>5, <2>1, <2>2, <2>3
  <2>4. CASE ~(ip.count = 0 \/ t - ip.start >= IpWindow)
    BY <1>3, <1>5, <2>1, <2>2, <2>4
  <2>. QED  BY <2>3, <2>4
<1>16. ip'.count >= IpMax => ip'.count + Cardinality(Counted') <= IpMax + Slots - 1
  <2>1. /\ ip.count \in Nat /\ ip.start \in Nat /\ IpWindow \in Nat
        /\ IpMax \in Nat \ {0} /\ Slots \in Nat
    BY DEF LimitInv, AddressRow, LoginAssumption
  <2>2. CASE ip.count = 0 \/ t - ip.start >= IpWindow
    <3>1. Counted' \subseteq Passed /\ r \notin Counted'
      BY <1>4 DEF Counted
    <3>2. Counted' = Counted' \ {r}
      BY <3>1
    <3>3. Cardinality(Counted') <= Slots - 1 /\ Cardinality(Counted') \in Nat
      BY <1>10, <3>1, <3>2
    <3>. QED  BY <1>5, <2>1, <2>2, <3>3
  <2>3. CASE ~(ip.count = 0 \/ t - ip.start >= IpWindow)
    <3>1. ip'.start = ip.start /\ ip'.count = ip.count + 1
      BY <1>5, <2>3
    <3>2. Counted' = Counted \ {r} /\ r \in Counted
      BY <1>1, <1>3, <1>4, <2>1, <2>3, <3>1 DEF Counted, t
    <3>3. PICK k \in Nat : k = Cardinality(Counted \ {r})
      BY <1>10, <1>11
    <3>4. k <= Slots - 1 /\ Cardinality(Counted) = k + 1 /\ Cardinality(Counted') = k
      BY <1>10, <1>11, <3>2, <3>3
    <3>5. ip.count >= IpMax => ip.count + Cardinality(Counted) <= IpMax + Slots - 1
      BY DEF LimitInv
    <3>. QED  BY <2>1, <3>1, <3>4, <3>5
  <2>. QED  BY <2>2, <2>3
<1>. QED  BY <1>1, <1>5, <1>6, <1>8, <1>13, <1>14, <1>15, <1>16 DEF LimitInv

LEMMA LimitNext ==
  ASSUME LoginAssumption, SlotInv, SessionInv, LimitInv, [Login!Next]_loginVars
  PROVE  LimitInv'
PROOF
<1> DEFINE Typed == /\ now \in [Requests -> Nat] /\ ticks \in Nat /\ \A r \in Requests : now[r] <= ticks
                    /\ allowed \in [Requests -> BOOLEAN] /\ row \in [Names -> AccountRow]
                    /\ late \in [Names -> Nat]
<1>0. Typed /\ step \in [Requests -> Stages] /\ req \in [Requests -> Asks]
  BY DEF LimitInv, SessionInv
<1>1. ASSUME NEW r \in Requests,
             Login!Arrive(r) \/ Login!Busy(r) \/ Login!Authenticate(r) \/ Login!Blocked(r)
               \/ Login!CreateSession(r) \/ Login!CreateUser(r)
      PROVE  LimitInv'
  <2>1. UNCHANGED <<ticks, now, allowed, row, ip, late, admitted>>
    BY <1>1 DEF Login!Arrive, Login!Busy, Login!Authenticate, Login!Blocked,
                Login!CreateSession, Login!CreateUser, Login!db, Login!history
  <2>2. Passed' = Passed /\ \A q \in Passed : req'[q] = req[q]
    BY <1>0, <1>1 DEF Login!Arrive, Login!Busy, Login!Authenticate, Login!Blocked,
                Login!CreateSession, Login!CreateUser, Login!End, Passed
  <2>. QED  BY <1>0, <2>1, <2>2, LimitQuiet
<1>2. ASSUME NEW r \in Requests, Login!Acquire(r)
      PROVE  LimitInv'
  <2>1. /\ UNCHANGED <<ticks, req, allowed, row, ip, late, admitted>>
        /\ now' = [now EXCEPT ![r] = ticks]
        /\ \E s \in {"add", "check"} : step' = [step EXCEPT ![r] = s]
        /\ step[r] = "acquire"
    BY <1>2 DEF Login!Acquire, Login!db, Login!history
  <2>2. Passed' = Passed /\ \A q \in Passed : now'[q] = now[q]
    BY <1>0, <2>1 DEF Passed
  <2>3. now' \in [Requests -> Nat] /\ \A q \in Requests : now'[q] <= ticks
    BY <1>0, <2>1
  <2>. QED  BY <1>0, <2>1, <2>2, <2>3, LimitQuiet
<1>3. ASSUME NEW r \in Requests, Login!SetPasswordByID(r)
      PROVE  LimitInv'
  <2> DEFINE t == req[r].target
  <2>1. /\ step[r] = "set" /\ row' = [row EXCEPT ![t] = Login!NoRow] /\ late' = [late EXCEPT ![t] = 0]
        /\ UNCHANGED <<ticks, req, now, allowed, ip, admitted>>
        /\ \E s \in {"session", "done"} : step' = [step EXCEPT ![r] = s]
    BY <1>3 DEF Login!SetPasswordByID, Login!End
  <2>2. Passed' = Passed
    BY <1>0, <2>1 DEF Passed
  <2>3. /\ row' \in [Names -> AccountRow] /\ late' \in [Names -> Nat]
        /\ \A n \in Names : late'[n] \in {0, late[n]} /\ (row'[n] = row[n] \/ row'[n].until = 0)
    BY <1>0, <2>1, EmptyRows
  <2>. QED  BY <1>0, <2>1, <2>2, <2>3, LimitQuiet
<1>4. CASE Login!Purge
  <2> DEFINE dead(w) == w.until <= ticks /\ w.start + IpWindow < ticks
  <2>1. /\ row' = [n \in Names |-> IF dead(row[n]) THEN Login!NoRow ELSE row[n]]
        /\ ip' = IF dead(ip) THEN Login!NoIp ELSE ip
        /\ admitted' = IF dead(ip) THEN Login!NoWindow ELSE admitted
        /\ UNCHANGED <<ticks, step, req, now, allowed, late>>
    BY <1>4 DEF Login!Purge, Login!local
  <2>2. Passed' = Passed
    BY <2>1 DEF Passed
  <2>3. /\ row' \in [Names -> AccountRow]
        /\ \A n \in Names : row'[n] = row[n] \/ row'[n].until = 0
    BY <1>0, <2>1, EmptyRows
  <2>4. CASE ~dead(ip)
    BY <1>0, <2>1, <2>2, <2>3, <2>4, LimitQuiet
  <2>5. CASE dead(ip)
    <3>1. ip' \in AddressRow /\ ip'.count = 0 /\ admitted'.start = 0 - IpWindow /\ admitted'.count = 0
      BY <2>1, <2>5, EmptyRows
    <3>2. IpMax \in Nat \ {0}
      BY DEF LoginAssumption
    <3>3. \A n \in Names : Against(n)' = Against(n)
      BY <2>1, <2>2 DEF Against
    <3>4. ASSUME NEW n \in Names, row'[n].until > ticks'
          PROVE  late'[n] + Cardinality(Against(n)') <= Slots - 1
      <4>1. row'[n] = row[n]
        BY <1>0, <2>1, <2>3, <3>4
      <4>. QED  BY <2>1, <3>3, <3>4, <4>1 DEF LimitInv
    <3>. QED  BY <1>0, <2>1, <2>3, <3>1, <3>2, <3>4 DEF LimitInv
  <2>. QED  BY <2>4, <2>5
<1>5. CASE Login!Tick
  <2>1. ticks' = ticks + 1 /\ UNCHANGED <<step, req, now, allowed, row, ip, late, admitted>>
    BY <1>5 DEF Login!Tick, Login!local, Login!db, Login!history
  <2>2. Passed' = Passed
    BY <2>1 DEF Passed
  <2>3. ticks' \in Nat /\ ticks' >= ticks /\ \A r \in Requests : now'[r] <= ticks'
    BY <1>0, <2>1
  <2>. QED  BY <1>0, <2>1, <2>2, <2>3, LimitQuiet
<1>6. CASE Login!EndSession \/ UNCHANGED loginVars
  <2>1. UNCHANGED <<ticks, step, req, now, allowed, row, ip, late, admitted>>
    BY <1>6 DEF Login!EndSession, Login!local, Login!history, loginVars
  <2>. QED  BY <2>1 DEF LimitInv, Against, Counted, Passed
<1>. QED  BY <1>1, <1>2, <1>3, <1>4, <1>5, <1>6, LimitCheck, LimitRecord DEF Login!Next, Login!Step

\* Guessing is limited by account and by address: a lock, or a full window, is
\* overrun by no more than the attempts that shared the slots with the one that
\* brought it about, for every number of requests, slots and users.
THEOREM GuessingLimited == MCSpec => []LoginLimited
PROOF
<1> DEFINE Inv == SlotInv /\ SessionInv /\ LimitInv
<1>1. MCInit => Inv
  BY SlotInit, SessionInit, LimitInit, LoginAssumption DEF MCInit
<1>2. Inv /\ [RemindStep \/ LoginStep]_allVars => Inv'
  BY SlotNext, SessionNext, LimitNext, LoginSteps, LoginAssumption
<1>3. Inv => LoginLimited
  <2> SUFFICES ASSUME Inv PROVE Login!LockHolds /\ Login!AddressLimited
    BY DEF LoginLimited, Login!LoginLimited
  <2>1. Login!LockHolds
    BY DEF LimitInv, Login!LockHolds
  <2>2. ip.count \in Nat /\ Slots \in Nat \ {0} /\ IpMax \in Nat
    BY LoginAssumption DEF LimitInv, LoginAssumption, AddressRow
  <2>3. Cardinality(Counted) \in Nat
    BY PassedFinite, LoginAssumption DEF Counted
  <2>4. /\ ip.count >= IpMax => ip.count + Cardinality(Counted) <= IpMax + Slots - 1
        /\ admitted.count = ip.count
    BY DEF LimitInv
  <2>5. admitted.count <= IpMax + Slots - 1
    BY <2>2, <2>3, <2>4
  <2>. QED  BY <2>1, <2>5 DEF Login!AddressLimited
<1> HIDE DEF Inv
<1>. QED  BY <1>1, <1>2, <1>3, PTL DEF MCSpec, allVars
=============================================================================
