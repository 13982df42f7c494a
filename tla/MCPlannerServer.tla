--------------------------- MODULE MCPlannerServer ---------------------------
(***************************************************************************)
(* Two parts of the planner's server in one run: reminders (PlannerNotify) *)
(* and logging in (PlannerLogin).  They share no variable, so it is enough *)
(* to check each by itself: `part' says which one moves.                   *)
(***************************************************************************)
EXTENDS PlannerNotify, TLC

\* Plans of rules, in days of six minutes: tasks at a time listed twice and just
\* before midnight, a watched gap, and a gap looked at once on Mondays.
Tasks == [days |-> 0..6, times |-> <<2, 2, 5>>, since |-> FALSE, watch |-> FALSE, limit |-> 0]
Watching == [days |-> 0..6, times |-> <<1, 5>>, since |-> TRUE, watch |-> TRUE, limit |-> 2]
Asking == [days |-> {0}, times |-> <<3, 4>>, since |-> TRUE, watch |-> FALSE, limit |-> 2]
AllPlans == {Tasks, Watching, Asking}
FirstPlans == {<<Tasks, Watching>>}

CONSTANTS Requests, Kinds, Names, Family, Slots, Threshold, LockSteps, IpWindow, IpMax,
          UnknownThreshold, UnknownLock, MaxTicks, MaxResets

VARIABLES
  part,
  ticks, step, req, now, allowed, verified, replies, slots, row, ip, pass, sessions,
  late, admitted, raced

Login == INSTANCE PlannerLogin WITH clock <- ticks, pc <- step, MaxClock <- MaxTicks

\* What the server's settings are like (2 slots, 20 attempts in 15 minutes, ...).
ASSUME LoginAssumption ==
  /\ IsFiniteSet(Requests) /\ Family \subseteq Names
  /\ {Slots, IpMax} \subseteq Nat \ {0} /\ {Threshold, IpWindow, UnknownLock} \subseteq Nat
  /\ LockSteps \in Seq(Nat) /\ LockSteps # <<>>

loginVars == <<ticks, step, req, now, allowed, verified, replies, slots, row, ip, pass, sessions,
               late, admitted, raced>>

\* Durations of account locks, in ticks.
Steps == <<1, 3>>

\* Requests are interchangeable.
RequestSymmetry == Permutations(Requests)

MCInit == Init /\ Login!Init /\ part \in {"reminders", "login"}

RemindStep == part = "reminders" /\ Next /\ UNCHANGED <<loginVars, part>>
LoginStep == part = "login" /\ Login!Next /\ UNCHANGED <<vars, part>>

MCSpec == MCInit /\ [][RemindStep \/ LoginStep]_<<vars, loginVars, part>>

\* PlannerLogin's properties.
LoginLimited == Login!LoginLimited
SessionsCurrent == Login!SessionsCurrent
SlotsReturned == Login!SlotsReturned

=============================================================================
