---------------------------- MODULE PlannerRecur ----------------------------
(***************************************************************************)
(* The dates of recurring cards (planner/internal/store/recur.go and       *)
(* shiftEnd of cards.go) on the real calendar: a card due on some day      *)
(* moves to the next occurrence of its rule, again and again.              *)
(***************************************************************************)
EXTENDS Integers, FiniteSets

CONSTANTS
  FirstYear, LastYear,    \* years of the calendar
  Rules,                  \* explicit rules, see NextOccurrence
  MaxLength               \* the longest entry, in days

VARIABLES rule, due, end

recurVars == <<rule, due, end>>

Leap(y) == y % 4 = 0 /\ (y % 100 # 0 \/ y % 400 = 0)
DaysIn(y, m) == IF m = 2 THEN IF Leap(y) THEN 29 ELSE 28 ELSE IF m \in {4, 6, 9, 11} THEN 30 ELSE 31
Calendar == {t \in [y : FirstYear..LastYear, m : 1..12, d : 1..31] : t.d <= DaysIn(t.y, t.m)}

\* Days since 1 January 2023, a Sunday.
DayNumber(t) ==
  LET before == <<0, 31, 59, 90, 120, 151, 181, 212, 243, 273, 304, 334>> IN
  365 * (t.y - 2023) + Cardinality({y \in 2023..(t.y - 1) : Leap(y)})
    + before[t.m] + (IF t.m > 2 /\ Leap(t.y) THEN 1 ELSE 0) + t.d - 1

After(s, t) == DayNumber(s) > DayNumber(t)

\* time.Date turns month 13 into the next year's first.
Month(y, m) == [y |-> y + (m - 1) \div 12, m |-> ((m - 1) % 12) + 1]

\* AddDate(0, 0, n), for n up to a month.
AddDays(t, n) ==
  IF t.d + n <= DaysIn(t.y, t.m) THEN [t EXCEPT !.d = @ + n]
  ELSE LET k == Month(t.y, t.m + 1) IN [y |-> k.y, m |-> k.m, d |-> t.d + n - DaysIn(t.y, t.m)]

isoWeekdayBit(t) == (DayNumber(t) + 6) % 7

\* Mutant of clampDay: time.Date lets the day run over into the next month.
clampDayOverflow(y, m, day) ==
  LET k == Month(y, m) IN
  IF day <= DaysIn(k.y, k.m) THEN [y |-> k.y, m |-> k.m, d |-> day]
  ELSE LET n == Month(k.y, k.m + 1) IN [y |-> n.y, m |-> n.m, d |-> day - DaysIn(k.y, k.m)]

clampDay(y, m, day) ==
  LET k == Month(y, m) IN
  [y |-> k.y, m |-> k.m, d |-> IF day > DaysIn(k.y, k.m) THEN DaysIn(k.y, k.m) ELSE day]

\* The first of the candidates that is after t.
FirstAfter(t, candidates) ==
  CHOOSE s \in candidates : After(s, t) /\ \A u \in candidates : After(u, t) => ~After(s, u)

\* Rules: daily, every n days, a set of week days, a day of the month, a day of
\* the year.  A monthly rule starts with the month after t's.
NextOccurrence(r, t) ==
  CASE r.kind = "daily" -> AddDays(t, 1)
    [] r.kind = "every" -> AddDays(t, r.n)
    [] r.kind = "weekly" -> FirstAfter(t, {s \in {AddDays(t, j) : j \in 1..7} : isoWeekdayBit(s) \in r.days})
    [] r.kind = "monthly" -> FirstAfter(t, {clampDay(t.y, t.m + i, r.day) : i \in 1..2})
    [] r.kind = "yearly" -> FirstAfter(t, {clampDay(t.y + i, r.month, r.day) : i \in 0..2})

\* A rule without its value takes it from the due date.
ExpandRecur(kind, t) ==
  CASE kind = "weekly" -> [kind |-> kind, days |-> {isoWeekdayBit(t)}]
    [] kind = "monthly" -> [kind |-> kind, day |-> t.d]
    [] kind = "yearly" -> [kind |-> kind, month |-> t.m, day |-> t.d]

\* The entry keeps its length.
shiftEnd(oldDue, oldEnd, newDue) == AddDays(newDue, DayNumber(oldEnd) - DayNumber(oldDue))

Init ==
  /\ due \in {t \in Calendar : t.y < LastYear - 1 /\ t.m \in {1, 2, 3, 11, 12}}
  /\ rule \in Rules \cup {ExpandRecur(k, due) : k \in {"weekly", "monthly", "yearly"}}
  /\ \E n \in 0..MaxLength : end = AddDays(due, n)

\* spawnNextOccurrence.
Occur ==
  LET next == NextOccurrence(rule, due) IN
  /\ next.y < LastYear - 1
  /\ due' = next /\ end' = shiftEnd(due, end, next) /\ UNCHANGED rule

Next == Occur

Spec == Init /\ [][Next]_recurVars

-----------------------------------------------------------------------------

\* What a rule says of a date, told without reference to another one.
On(r, t) ==
  CASE r.kind = "weekly" -> isoWeekdayBit(t) \in r.days
    [] r.kind = "monthly" -> t.d = r.day \/ (r.day > t.d /\ t.d = DaysIn(t.y, t.m))
    [] r.kind = "yearly" -> t.m = r.month /\ (t.d = r.day \/ (r.day > t.d /\ t.d = DaysIn(t.y, t.m)))
    [] OTHER -> TRUE

\* The next occurrence is the first later day the rule names, through short
\* months, leap years and the end of the year, and the entry keeps its length
\* (NextOccurrence, clampDay, shiftEnd).  A monthly rule skips the rest of the
\* month, which matters when the due date was put before the rule's day.
NextIsFirst ==
  [][ /\ After(due', due)
      /\ rule.kind \in {"weekly", "monthly", "yearly"} =>
           /\ On(rule, due')
           /\ \A t \in Calendar : After(t, due) /\ After(due', t) /\ On(rule, t) =>
                rule.kind = "monthly" /\ t.m = due.m
      /\ DayNumber(end') - DayNumber(due') = DayNumber(end) - DayNumber(due) ]_recurVars

=============================================================================
