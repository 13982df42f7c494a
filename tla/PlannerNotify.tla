---------------------------- MODULE PlannerNotify ----------------------------
(***************************************************************************)
(* Reminders of the planner (planner/internal/notify/notify.go and         *)
(* store/notify.go): once a minute the sender asks which rules are due,    *)
(* marks each notification sent, and pushes it to the devices of its       *)
(* recipients.  A rule fires at the times of day it lists, a watch rule at *)
(* any minute between two times; a condition must hold as well: something  *)
(* is left to do, or the last record is too long ago ("since").            *)
(*                                                                         *)
(* Time is counted in minutes; day 0 is a Monday.  A push takes up to 15   *)
(* seconds per device, so minutes may pass in the middle of a batch.       *)
(* Everyone is a recipient.                                                *)
(***************************************************************************)
EXTENDS Naturals, Sequences, FiniteSets

CONSTANTS
  Last,          \* rules have the ids 1..Last
  Plans,         \* what a rule may say
  Given,         \* the plans the rules may start with
  DayLen, Window,   \* minutes in a day; minutes a time stays due (10)
  Devices,
  MaxClock, MaxHalts, MaxSlow, MaxEdits   \* bounds

Rules == 1..Last

\* What normalize lets through: a time may be listed more than once, and a rule
\* that watches has a start and an end.
PlansAssumption ==
  /\ Plans \subseteq [days : SUBSET (0..6), times : Seq(0..(DayLen - 1)),
                      since : BOOLEAN, watch : BOOLEAN, limit : Nat]
  /\ \A p \in Plans : p.watch => p.since /\ Len(p.times) = 2 /\ p.times[1] < p.times[2]

ASSUME TimesAssumption ==
  /\ {Last, MaxClock, MaxHalts, MaxSlow, MaxEdits} \subseteq Nat
  /\ {DayLen, Window} \subseteq Nat \ {0}
  /\ PlansAssumption /\ Given \subseteq [Rules -> Plans]

VARIABLES
  clock, up,
  rules,         \* notify_rules: the ids that exist, what they say, and which
  plan, enabled, \* of them are enabled
  pending,       \* per rule: something is left to do
  log, logAt,    \* the last record: its id (0: none yet) and its time
  sent,          \* notify_sent: <<rule, key>>
  subs,          \* push_subs
  pc, ticked,    \* the loop: step, and the minute it last looked at
  due, left,     \* <<rule, slot, key>> of the batch; devices of the current one
  pushed,        \* history: rule, slot, key, device, and minute of the look
  chances,       \* history: <<rule, key>> that were due when the loop looked
  halts, slow, edits

store == <<rules, plan, enabled, pending, log, logAt, sent, subs>>
loop == <<pc, ticked, due, left>>
history == <<pushed, chances>>
bounds == <<halts, slow, edits>>
vars == <<clock, up, store, loop, history, bounds>>

Init ==
  /\ clock = 0 /\ up = TRUE
  /\ rules = Rules /\ plan \in Given /\ enabled = [r \in Rules |-> TRUE]
  /\ pending = [r \in Rules |-> TRUE] /\ log \in {0, 1} /\ logAt = 0
  /\ sent = {} /\ subs = Devices
  /\ pc = "sleep" /\ ticked = 0 /\ due = {} /\ left = {}
  /\ pushed = <<>> /\ chances = {}
  /\ halts = 0 /\ slow = 0 /\ edits = 0

-----------------------------------------------------------------------------
(***************************************************************************)
(* NotifyDue.                                                              *)
(***************************************************************************)

Today == clock \div DayLen
Minute == clock % DayLen

\* withinMinutes compares times of one day.
WithinMinutes(t) == t <= Minute /\ Minute < t + Window

\* The times of a rule that are due now, by their places in its list; a watch
\* rule has one slot, which lasts from its first time to its second.
SlotsDue(p) ==
  IF p.watch THEN {i \in {1} : p.times[1] <= Minute /\ Minute < p.times[2]}
  ELSE {i \in DOMAIN p.times : WithinMinutes(p.times[i])}

\* Mutant of GapOpen: a gap of exactly the limit does not count.
GapAbove(p) == log > 0 /\ clock - logAt > p.limit

GapOpen(p) == log > 0 /\ clock - logAt >= p.limit

Condition(r) == IF plan[r].since THEN GapOpen(plan[r]) ELSE pending[r]

\* What makes a notification the same one: the record for a watch rule, else the
\* day and the time, and the record too under a since condition.
Key(r, i) ==
  LET p == plan[r] IN
  IF p.watch THEN <<log>>
  ELSE IF p.since THEN <<Today, p.times[i], log>> ELSE <<Today, p.times[i]>>

\* One notification for every due time of a list, without what has been sent: a
\* time that is listed twice gives two of the same key.
NotifyDue ==
  UNION {{<<r, i, Key(r, i)>> : i \in {j \in SlotsDue(plan[r]) : <<r, Key(r, j)>> \notin sent}} :
         r \in {q \in rules : enabled[q] /\ Today % 7 \in plan[q].days /\ Condition(q)}}

\* What a family expects a reminder of now, told in absolute time: every day has
\* its slots, which end with the day, and an open gap began at its record.
Spans(e, s, t) == clock \in (e * DayLen + s)..(e * DayLen + t - 1) /\ clock < e * DayLen + DayLen

Wanted(r) == IF plan[r].since THEN log > 0 /\ clock >= logAt + plan[r].limit ELSE pending[r]

Expected(r) ==
  LET p == plan[r]
      On(e) == e % 7 \in p.days /\ Wanted(r)
  IN IF p.watch
       THEN {<<r, <<log>>>> : e \in {f \in 0..Today : On(f) /\ Spans(f, p.times[1], p.times[2])}}
       ELSE {<<r, IF p.since THEN <<x[1], x[2], log>> ELSE <<x[1], x[2]>>>> :
             x \in {y \in (0..Today) \X {p.times[i] : i \in DOMAIN p.times} :
                     On(y[1]) /\ Spans(y[1], y[2], y[2] + Window)}}

-----------------------------------------------------------------------------
(***************************************************************************)
(* The loop: Run, tick and Send.                                           *)
(***************************************************************************)

Tick ==
  /\ up /\ pc = "sleep" /\ ticked < clock
  /\ ticked' = clock
  /\ due' = NotifyDue
  /\ pc' = IF due' = {} THEN "sleep" ELSE "mark"
  /\ chances' = chances \cup UNION {Expected(r) : r \in {q \in rules : enabled[q]}}
  /\ UNCHANGED <<clock, up, store, left, pushed, bounds>>

\* The notification whose turn it is: a batch is ordered by rule, then by the
\* rule's list.
Turn == CHOOSE n \in due : \A m \in due : n[1] < m[1] \/ (n[1] = m[1] /\ n[2] <= m[2])

\* What notify_sent holds of a notification.
Mark(n) == <<n[1], n[3]>>

\* The batch goes on, or the loop waits for the next full minute.
Rest ==
  /\ due' = due \ {Turn}
  /\ IF due' = {} THEN pc' = "sleep" /\ ticked' = clock ELSE pc' = "mark" /\ UNCHANGED ticked

\* Mutant of MarkSent: the mark is left to the pushes, which do not make it.
MarkLater ==
  /\ up /\ pc = "mark"
  /\ IF subs # {} THEN pc' = "send" /\ left' = subs /\ UNCHANGED <<due, ticked, sent>>
     ELSE Rest /\ sent' = sent \cup {Mark(Turn)} /\ UNCHANGED left
  /\ UNCHANGED <<clock, up, rules, plan, enabled, pending, log, logAt, subs, history, bounds>>

\* The mark comes before the pushes.  One that is there already is as good as
\* made; it fails for a rule that is gone, and the notification is skipped.
\* Without a device there is nothing to push.
MarkSent ==
  /\ up /\ pc = "mark"
  /\ LET n == Turn IN
     /\ sent' = IF n[1] \in rules THEN sent \cup {Mark(n)} ELSE sent
     /\ IF n[1] \in rules /\ subs # {}
          THEN pc' = "send" /\ left' = subs /\ UNCHANGED <<due, ticked>>
          ELSE Rest /\ UNCHANGED left
  /\ UNCHANGED <<clock, up, rules, plan, enabled, pending, log, logAt, subs, history, bounds>>

\* One device: delivered, refused, or gone for good (404, 410).
Push(d) ==
  /\ up /\ pc = "send" /\ d \in left
  /\ LET n == Turn IN
     \/ /\ pushed' = Append(pushed, [rule |-> n[1], slot |-> n[2], key |-> n[3], device |-> d, at |-> ticked])
        /\ UNCHANGED subs
     \/ UNCHANGED <<pushed, subs>>
     \/ subs' = subs \ {d} /\ UNCHANGED pushed
  /\ left' = left \ {d}
  /\ IF left' = {} THEN Rest ELSE UNCHANGED <<pc, due, ticked>>
  /\ UNCHANGED <<clock, up, rules, plan, enabled, pending, log, logAt, sent, chances, bounds>>

-----------------------------------------------------------------------------
(***************************************************************************)
(* The family, the clock, the process.                                     *)
(***************************************************************************)

Edited == edits < MaxEdits /\ edits' = edits + 1

\* Tasks are done and new ones added.
Change(r) ==
  /\ Edited /\ pending' = [pending EXCEPT ![r] = ~@]
  /\ UNCHANGED <<clock, up, rules, plan, enabled, log, logAt, sent, subs, loop, history, halts, slow>>

Record ==
  /\ Edited /\ log' = log + 1 /\ logAt' = clock
  /\ UNCHANGED <<clock, up, rules, plan, enabled, pending, sent, subs, loop, history, halts, slow>>

\* NotifySave replaces all that a rule says, and may switch it on or off.
NotifySave(r) ==
  /\ Edited /\ r \in rules
  /\ \E p \in Plans : plan' = [plan EXCEPT ![r] = p]
  /\ \E on \in BOOLEAN : enabled' = [enabled EXCEPT ![r] = on]
  /\ UNCHANGED <<clock, up, rules, pending, log, logAt, sent, subs, loop, history, halts, slow>>

\* NotifyDelete; what was sent for the rule goes with it.
NotifyDelete(r) ==
  /\ Edited /\ r \in rules /\ rules' = rules \ {r}
  /\ sent' = {n \in sent : n[1] # r}
  /\ UNCHANGED <<clock, up, plan, enabled, pending, log, logAt, subs, loop, history, halts, slow>>

\* PushSubscribe and PushUnsubscribe.
PushSubscribe(d) ==
  /\ Edited /\ subs' = IF d \in subs THEN subs \ {d} ELSE subs \cup {d}
  /\ UNCHANGED <<clock, up, rules, plan, enabled, pending, log, logAt, sent, loop, history, halts, slow>>

\* A minute passes: the loop has looked at it, is in a batch, or is not there.
Elapse ==
  /\ clock < MaxClock /\ clock' = clock + 1
  /\ \/ ~up \/ (pc = "sleep" /\ ticked = clock)
     \/ up /\ pc # "sleep" /\ slow < MaxSlow
  /\ slow' = IF up /\ pc # "sleep" THEN slow + 1 ELSE slow
  /\ UNCHANGED <<up, store, loop, history, halts, edits>>

\* The process ends; what its batch had left counts as a chance again only if
\* the next process finds it due.
Stop ==
  /\ up /\ halts < MaxHalts
  /\ up' = FALSE /\ halts' = halts + 1
  /\ pc' = "sleep" /\ due' = {} /\ left' = {}
  /\ chances' = chances \cap sent
  /\ UNCHANGED <<clock, store, ticked, pushed, slow, edits>>

\* A new loop waits for the next full minute.
Start ==
  /\ ~up /\ up' = TRUE /\ ticked' = clock
  /\ UNCHANGED <<clock, store, pc, due, left, history, bounds>>

LoopStep == Tick \/ MarkSent \/ \E d \in Devices : Push(d)

Next ==
  \/ LoopStep \/ Elapse \/ Stop \/ Start \/ Record
  \/ \E r \in Rules : Change(r) \/ NotifySave(r) \/ NotifyDelete(r)
  \/ \E d \in Devices : PushSubscribe(d)

\* The loop runs on, and time does.
Fairness == WF_vars(LoopStep) /\ WF_vars(Elapse) /\ WF_vars(Start)

Spec == Init /\ [][Next]_vars /\ Fairness

-----------------------------------------------------------------------------

\* A device gets the same reminder again only within one batch, for another place
\* of the rule's list with the same time: never because the loop is slow, the
\* server restarts, or the rule is edited (tick marks before it sends).
PushedOnce ==
  \A i, j \in 1..Len(pushed) :
    LET x == pushed[i]  y == pushed[j] IN
    i # j /\ x.rule = y.rule /\ x.key = y.key /\ x.device = y.device => x.at = y.at /\ x.slot # y.slot

\* What was due at a minute the loop looked at is marked once its batch is over,
\* unless its rule was deleted: slow pushes and edits in the batch lose nothing,
\* and a stop of the server only what nobody looked at (withinMinutes, notifySince).
DueIsSent == pc = "sleep" => \A c \in chances : c[1] \in rules => c \in sent

\* Reminders are sent, and sent once.
RemindersHold == PushedOnce /\ DueIsSent

=============================================================================
