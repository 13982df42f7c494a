---------------------------- MODULE PlannerLogin ----------------------------
(***************************************************************************)
(* Logging in to the family planner (planner/internal/api/auth_handlers.go,*)
(* bcryptlimit.go, store/login.go, store/users.go): concurrent requests    *)
(* that take a bcrypt slot, check the login_attempts rows, compare the     *)
(* password, record the attempt and open a session; password resets,       *)
(* which end the sessions; users added; the hourly purge.                  *)
(*                                                                         *)
(* The database has one connection, so a store call is one step.  Time is  *)
(* a counter of coarse ticks, and every handler keeps the instant it began *)
(* with.  A password is the number of the reset that set it.               *)
(***************************************************************************)
EXTENDS Integers, FiniteSets, Sequences

CONSTANTS
  Requests,      \* concurrent HTTP requests
  Kinds,         \* what they may be: "login", "reset", "add"
  Names,         \* names people type
  Family,        \* the names that have an account at first
  Slots,         \* bcryptSlots (2)
  Threshold,     \* accountThreshold (5)
  LockSteps,     \* durations of successive account locks
  IpWindow, IpMax,               \* attempts per window and address (20 in 15 min)
  UnknownThreshold, UnknownLock, \* unknown names and the lock they earn (3, 1 h)
  MaxClock, MaxResets   \* bounds

VARIABLES
  clock,
  pc, req,      \* per request: step, and what is asked for
  now, allowed, verified,   \* locals of the handler
  replies,      \* per request: status codes written
  slots,        \* bcrypt slots taken
  row,          \* login_attempts of every account: fails, start, until
  ip,           \* login_attempts of the (one) address: fails, start, count, until
  pass,         \* password of every user, or 0 without an account
  sessions,     \* [user, pass]: whose session, and the password it was opened with
  late,         \* history: failures recorded for an account while it was locked
  admitted,     \* history: start of the address's window and attempts admitted in it
  raced         \* history: what a reset found verified but without its session yet

local == <<pc, req, now, allowed, verified, replies>>
db == <<row, ip, pass, sessions>>
history == <<late, admitted, raced>>
vars == <<clock, pc, req, now, allowed, verified, replies, slots, row, ip, pass, sessions,
          late, admitted, raced>>

NoRow == [fails |-> 0, start |-> 0, until |-> 0]
NoIp == [fails |-> 0, start |-> 0, count |-> 0, until |-> 0]
NoWindow == [start |-> 0 - IpWindow, count |-> 0]
Ask == [kind : Kinds, name : Names, guess : 0..(MaxResets + 1), target : Family]

\* A request that has not arrived.
NoAsk == [kind |-> "none", name |-> CHOOSE n \in Names : TRUE, guess |-> 0, target |-> CHOOSE n \in Family : TRUE]

Init ==
  /\ clock = 1
  /\ pc = [r \in Requests |-> "idle"] /\ req = [r \in Requests |-> NoAsk]
  /\ now = [r \in Requests |-> 0] /\ allowed = [r \in Requests |-> FALSE]
  /\ verified = [r \in Requests |-> 0] /\ replies = [r \in Requests |-> <<>>]
  /\ slots = 0
  /\ row = [n \in Names |-> NoRow] /\ ip = NoIp
  /\ pass = [n \in Names |-> IF n \in Family THEN 1 ELSE 0]
  /\ sessions = {[user |-> n, pass |-> 1] : n \in Family}
  /\ late = [n \in Names |-> 0] /\ admitted = NoWindow /\ raced = {}

-----------------------------------------------------------------------------
(***************************************************************************)
(* store/login.go.                                                         *)
(***************************************************************************)

Exists(n) == pass[n] # 0

\* Mutant of CheckLogin: only the address is looked at.
CheckLoginAddress(n, t) ==
  ip.until <= t /\ ~(ip.count > 0 /\ t - ip.start < IpWindow /\ ip.count >= IpMax)

\* CheckLogin: neither key is locked, and the address has attempts left.
CheckLogin(n, t) ==
  /\ row[n].until <= t /\ ip.until <= t
  /\ ~(ip.count > 0 /\ t - ip.start < IpWindow /\ ip.count >= IpMax)

\* Mutant of BumpWindow: a successful attempt is not counted.
BumpWindowFailures(outcome, t) ==
  IF outcome = "success" THEN ip
  ELSE IF ip.count = 0 \/ t - ip.start >= IpWindow
    THEN [ip EXCEPT !.start = t, !.count = 1] ELSE [ip EXCEPT !.count = @ + 1]

\* The address's row after one more attempt.
BumpWindow(outcome, t) ==
  IF ip.count = 0 \/ t - ip.start >= IpWindow
    THEN [ip EXCEPT !.start = t, !.count = 1] ELSE [ip EXCEPT !.count = @ + 1]

BumpUnknown(w, t) ==
  [w EXCEPT !.fails = @ + 1,
            !.until = IF w.fails + 1 >= UnknownThreshold THEN t + UnknownLock ELSE 0]

LockUntil(fails, t) ==
  LET step == fails - Threshold + 1 IN
  IF fails < Threshold THEN 0
    ELSE t + LockSteps[IF step > Len(LockSteps) THEN Len(LockSteps) ELSE step]

\* The account's row after a failure; an upsert keeps the first window_start.
Failed(w, t) ==
  [fails |-> w.fails + 1, start |-> IF w.fails = 0 THEN t ELSE w.start,
   until |-> LockUntil(w.fails + 1, t)]

RecordAttempt(n, outcome, t) ==
  /\ ip' = IF outcome = "unknown" THEN BumpUnknown(BumpWindow(outcome, t), t)
                                  ELSE BumpWindow(outcome, t)
  /\ row' = [row EXCEPT ![n] = IF outcome = "success" THEN NoRow ELSE Failed(@, t)]
  /\ late' = [late EXCEPT ![n] =
       IF outcome # "success" /\ row[n].until > clock THEN @ + 1 ELSE 0]
  /\ admitted' = IF t - admitted.start >= IpWindow
                   THEN [start |-> t, count |-> 1]
                   ELSE [start |-> admitted.start, count |-> admitted.count + 1]

-----------------------------------------------------------------------------
(***************************************************************************)
(* The handlers.                                                           *)
(***************************************************************************)

\* The middleware lets resets and additions through with a session.
Arrive(r) ==
  /\ pc[r] = "idle"
  /\ \E a \in Ask :
       /\ a.kind # "login" => \E s \in sessions : s.user = a.name
       /\ a.kind = "reset" \/ a.target = NoAsk.target
       /\ a.kind = "add" => a.guess = NoAsk.guess
       /\ a.kind = "reset" => Cardinality({q \in Requests : pc[q] # "idle" /\ req[q].kind = "reset"}) < MaxResets
       /\ req' = [req EXCEPT ![r] = a]
  /\ pc' = [pc EXCEPT ![r] = "acquire"]
  /\ UNCHANGED <<clock, now, allowed, verified, replies, slots, db, history>>

Reply(r, code) == replies' = [replies EXCEPT ![r] = Append(@, code)]

Acquire(r) ==
  /\ pc[r] = "acquire" /\ slots < Slots
  /\ slots' = slots + 1
  /\ now' = [now EXCEPT ![r] = clock]
  /\ pc' = [pc EXCEPT ![r] = IF req[r].kind = "add" THEN "add" ELSE "check"]
  /\ UNCHANGED <<clock, req, allowed, verified, replies, db, history>>

\* After three seconds withBcryptSlot answers 503; createUser goes on with
\* what its variables hold, no error and no user.
Busy(r) ==
  /\ pc[r] = "acquire" /\ slots = Slots
  /\ replies' = [replies EXCEPT ![r] = @ \o IF req[r].kind = "add" THEN <<503, 201>> ELSE <<503>>]
  /\ pc' = [pc EXCEPT ![r] = "done"]
  /\ UNCHANGED <<clock, req, now, allowed, verified, slots, db, history>>

Check(r) ==
  /\ pc[r] = "check"
  /\ allowed' = [allowed EXCEPT ![r] = CheckLogin(req[r].name, now[r])]
  /\ pc' = [pc EXCEPT ![r] = "compare"]
  /\ UNCHANGED <<clock, req, now, verified, replies, slots, db, history>>

\* Authenticate reads the hash and compares; it runs even for a blocked request.
Authenticate(r) ==
  /\ pc[r] = "compare"
  /\ verified' = [verified EXCEPT ![r] =
       IF Exists(req[r].name) /\ req[r].guess = pass[req[r].name] THEN req[r].guess ELSE 0]
  /\ pc' = [pc EXCEPT ![r] = "record"]
  /\ UNCHANGED <<clock, req, now, allowed, replies, slots, db, history>>

\* Mutant of Release: a refused request keeps its slot.
ReleaseUnlessBlocked(r) == slots' = IF replies'[r] = <<429>> THEN slots ELSE slots - 1

\* The deferred release runs on every path.
Release(r) == slots' = slots - 1

End(r, code) ==
  /\ pc' = [pc EXCEPT ![r] = "done"]
  /\ Reply(r, code)
  /\ Release(r)

Blocked(r) ==
  /\ pc[r] = "record" /\ ~allowed[r]
  /\ End(r, 429)
  /\ UNCHANGED <<clock, req, now, allowed, verified, db, history>>

\* The outcome is worked out and recorded.  setPassword knows its actor exists;
\* for a login, UserExists says no when its query fails.
Record(r) ==
  /\ pc[r] = "record" /\ allowed[r]
  /\ LET n == req[r].name  ok == verified[r] # 0 IN
     \E known \in IF req[r].kind = "reset" THEN {TRUE} ELSE {Exists(n), FALSE} :
       /\ RecordAttempt(n, CASE ok -> "success" [] ~ok /\ known -> "wrong" [] OTHER -> "unknown",
                        now[r])
       /\ IF ok THEN /\ pc' = [pc EXCEPT ![r] = IF req[r].kind = "login" THEN "session" ELSE "set"]
                     /\ UNCHANGED <<replies, slots>>
                ELSE End(r, IF req[r].kind = "login" THEN 401 ELSE 403)
  /\ UNCHANGED <<clock, req, now, allowed, verified, pass, sessions, raced>>

\* CreateSession, for a login or for the actor of a reset of one's own password.
CreateSession(r) ==
  /\ pc[r] = "session"
  /\ sessions' = sessions \cup {[user |-> req[r].name, pass |-> verified[r]]}
  /\ End(r, 200)
  /\ UNCHANGED <<clock, req, now, allowed, verified, row, ip, pass, history>>

\* Sessions about to be opened with t's present password, by others than r.
AboutToOpen(r, t) ==
  {[user |-> t, pass |-> pass[t]] : q \in {x \in Requests \ {r} :
     pc[x] \in {"record", "session"} /\ req[x].name = t /\ verified[x] = pass[t]}}

\* Mutant of SetPasswordByID: the sessions stay.
SetPasswordKeepsSessions(r) ==
  /\ pc[r] = "set"
  /\ LET t == req[r].target IN
       /\ pass' = [pass EXCEPT ![t] = @ + 1]
       /\ row' = [row EXCEPT ![t] = NoRow] /\ late' = [late EXCEPT ![t] = 0]
       /\ raced' = raced \cup AboutToOpen(r, t)
       /\ UNCHANGED sessions
  /\ End(r, 204) /\ UNCHANGED verified
  /\ UNCHANGED <<clock, req, now, allowed, ip, admitted>>

\* SetPasswordByID, one transaction: the new hash, no sessions, no account lock.
SetPasswordByID(r) ==
  /\ pc[r] = "set"
  /\ LET t == req[r].target IN
       /\ pass' = [pass EXCEPT ![t] = @ + 1]
       /\ row' = [row EXCEPT ![t] = NoRow] /\ late' = [late EXCEPT ![t] = 0]
       /\ sessions' = {s \in sessions : s.user # t}
       /\ raced' = raced \cup AboutToOpen(r, t)
       /\ IF t = req[r].name
            THEN /\ pc' = [pc EXCEPT ![r] = "session"]
                 /\ verified' = [verified EXCEPT ![r] = pass[t] + 1]
                 /\ UNCHANGED <<replies, slots>>
            ELSE End(r, 204) /\ UNCHANGED verified
  /\ UNCHANGED <<clock, req, now, allowed, ip, admitted>>

\* CreateUser; an existing name is a conflict.
CreateUser(r) ==
  /\ pc[r] = "add"
  /\ \E n \in Names :
       IF Exists(n) THEN End(r, 409) /\ UNCHANGED pass
                    ELSE End(r, 201) /\ pass' = [pass EXCEPT ![n] = 1]
  /\ UNCHANGED <<clock, req, now, allowed, verified, row, ip, sessions, history>>

\* logout and the expiry of a token: the last session of its kind may go.
EndSession ==
  /\ \E s \in sessions : sessions' = sessions \ {s}
  /\ UNCHANGED <<clock, local, slots, row, ip, pass, history>>

\* The hourly PurgeLoginAttempts.
Purge ==
  /\ LET dead(w) == w.until <= clock /\ w.start + IpWindow < clock IN
       /\ row' = [n \in Names |-> IF dead(row[n]) THEN NoRow ELSE row[n]]
       /\ ip' = IF dead(ip) THEN NoIp ELSE ip
       /\ admitted' = IF dead(ip) THEN NoWindow ELSE admitted
  /\ UNCHANGED <<clock, local, slots, pass, sessions, late, raced>>

Tick ==
  /\ clock < MaxClock /\ clock' = clock + 1
  /\ UNCHANGED <<local, slots, db, history>>

Step(r) ==
  \/ Acquire(r) \/ Busy(r) \/ Check(r) \/ Authenticate(r) \/ Blocked(r) \/ Record(r)
  \/ CreateSession(r) \/ SetPasswordByID(r) \/ CreateUser(r)

Next == (\E r \in Requests : Arrive(r) \/ Step(r)) \/ EndSession \/ Purge \/ Tick

Spec == Init /\ [][Next]_vars

-----------------------------------------------------------------------------

\* An account lock is overrun only by attempts that were in their bcrypt slots
\* when it fell: checking and recording are separate calls (loginLocked), and
\* the slots bound what may lie between them.
LockHolds == \A n \in Names : late[n] <= Slots - 1

\* The same for the address: successes count too, and in one window the limit is
\* exceeded by the attempts in flight only (bumpWindow).  A window ends with the
\* first attempt after it, or when the hourly purge finds it over, under whatever
\* still is in flight from it.
AddressLimited == admitted.count <= IpMax + Slots - 1

\* Guessing is limited, by name and by address.
LoginLimited == LockHolds /\ AddressLimited

\* Every session was opened with its user's current password: SetPasswordByID
\* ends the others.  The one exception is a login that had verified the old
\* password and not yet opened its session (loginLocked) when the reset ran.
SessionsCurrent == \A s \in sessions : s.pass = pass[s.user] \/ s \in raced

\* Slots are given back on every path, the refused and the failed ones included
\* (withBcryptSlot): no leak locks the family out until the next restart.
SlotsReturned == (\A r \in Requests : pc[r] \in {"idle", "acquire", "done"}) => slots = 0

=============================================================================
