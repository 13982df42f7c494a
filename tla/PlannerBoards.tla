---------------------------- MODULE PlannerBoards ----------------------------
(***************************************************************************)
(* Boards of the planner (planner/internal/store/boards.go, cards.go and   *)
(* api/boards.go): columns and cards with explicit positions, moves by     *)
(* splicing, recurring cards that leave their next occurrence behind when  *)
(* they are done, the reward for a task done by its first due date, and    *)
(* the archive.                                                            *)
(*                                                                         *)
(* Every store call is one transaction or one statement, hence one step.   *)
(* Ids are SQLite's: one more than the largest in the table, so the id of  *)
(* a deleted card may come again.  Titles, contents, priorities and        *)
(* assignees have no effect and are left out.  Due dates are days; the     *)
(* rule of a recurring card is its period (PlannerRecur has the others).   *)
(* The quota that createCard asks about is PlannerDiary's.  patchCard      *)
(* updates, then moves, in two transactions: the two actions.              *)
(***************************************************************************)
EXTENDS Integers, FiniteSets, FiniteSetsExt

CONSTANTS
  Periods,       \* periods of recurring cards
  Until,         \* the last day of a recurrence
  ArchiveAfter,  \* days a done card stays on the board
  MaxBoards, MaxColumns, MaxCards, MaxDay, MaxChanges   \* bounds

VARIABLES
  day,
  boards,        \* ids
  columns,       \* id -> [board, pos]
  cards,         \* id -> [col, pos, due, first, recur, done, updated, archived, serial, series]
  paid,          \* family_drops: ids with a key "task:<id>"
  serials,       \* history: cards and series made so far
  onTime,        \* history: serials of cards finished by their first due date
  rewards,       \* history: serials rewarded, with repetition as a function to Nat
  reused,        \* history: serials of cards whose id had been rewarded before
  changes

boardVars == <<day, boards, columns, cards, paid, serials, onTime, rewards, reused, changes>>

\* No due date, no rule, not done.
No == 0 - 1

NextId(ids) == IF ids = {} THEN 1 ELSE Max(ids) + 1
ColumnsOf(b) == {k \in DOMAIN columns : columns[k].board = b}
CardsIn(k) == {c \in DOMAIN cards : cards[c].col = k}
FirstColumn(b) == CHOOSE k \in ColumnsOf(b) : \A j \in ColumnsOf(b) : columns[k].pos <= columns[j].pos
DoneColumn(b) == CHOOSE k \in ColumnsOf(b) : \A j \in ColumnsOf(b) : columns[j].pos <= columns[k].pos
BoardOf(k) == columns[k].board

\* COALESCE(MAX(position)+1, 0).
EndOf(positions) == IF positions = {} THEN 0 ELSE Max(positions) + 1

NewCard(k, pos, due, recur, serial, series) ==
  [col |-> k, pos |-> pos, due |-> due, first |-> due, recur |-> recur, done |-> No, updated |-> day,
   archived |-> FALSE, serial |-> serial, series |-> series]

\* A board with its three columns, a recurring card, and a card that was
\* finished on time and rewarded.
Init ==
  /\ day = 0
  /\ boards = {1}
  /\ columns = [k \in 1..3 |-> [board |-> 1, pos |-> k - 1]]
  /\ \E r \in Periods :
       cards = <<NewCard(1, 0, 0, r, 1, 1), [NewCard(3, 0, 0, No, 2, 2) EXCEPT !.done = 0]>>
  /\ paid = {2} /\ onTime = {2} /\ rewards = [s \in {2} |-> 1]
  /\ serials = 2 /\ reused = {} /\ changes = 0

Changed == changes < MaxChanges /\ changes' = changes + 1
history == <<serials, onTime, rewards, reused>>

-----------------------------------------------------------------------------
(***************************************************************************)
(* Boards and columns.                                                     *)
(***************************************************************************)

\* A board has three columns at first.
CreateBoard ==
  LET b == NextId(boards)
      k0 == NextId(DOMAIN columns)
  IN /\ Changed /\ b <= MaxBoards /\ k0 + 2 <= MaxColumns
     /\ boards' = boards \cup {b}
     /\ columns' = [k \in DOMAIN columns \cup k0..(k0 + 2) |->
                      IF k < k0 THEN columns[k] ELSE [board |-> b, pos |-> k - k0]]
     /\ UNCHANGED <<day, cards, paid, history>>

\* Rows that cascade with a set of columns.
Without(ks) == [c \in {x \in DOMAIN cards : cards[x].col \notin ks} |-> cards[c]]

DeleteBoard(b) ==
  /\ Changed /\ b \in boards
  /\ boards' = boards \ {b}
  /\ columns' = [k \in DOMAIN columns \ ColumnsOf(b) |-> columns[k]]
  /\ cards' = Without(ColumnsOf(b))
  /\ UNCHANGED <<day, paid, history>>

AddColumn(b) ==
  LET k == NextId(DOMAIN columns) IN
  /\ Changed /\ b \in boards /\ k <= MaxColumns
  /\ columns' = [j \in DOMAIN columns \cup {k} |->
       IF j = k THEN [board |-> b, pos |-> EndOf({columns[x].pos : x \in ColumnsOf(b)})] ELSE columns[j]]
  /\ UNCHANGED <<day, boards, cards, paid, history>>

DeleteColumn(k) ==
  /\ Changed /\ k \in DOMAIN columns
  /\ columns' = [j \in DOMAIN columns \ {k} |->
       IF BoardOf(j) = BoardOf(k) /\ columns[j].pos > columns[k].pos
         THEN [columns[j] EXCEPT !.pos = @ - 1] ELSE columns[j]]
  /\ cards' = Without({k})
  /\ UNCHANGED <<day, boards, paid, history>>

-----------------------------------------------------------------------------
(***************************************************************************)
(* Cards.                                                                  *)
(***************************************************************************)

Dues == {No} \cup 0..MaxDay

\* A recurring card needs a due date.
CreateCard(k, due, recur) ==
  LET c == NextId(DOMAIN cards) IN
  /\ Changed /\ k \in DOMAIN columns /\ c <= MaxCards
  /\ recur # No => due # No
  /\ cards' = [x \in DOMAIN cards \cup {c} |-> IF x # c THEN cards[x] ELSE
       NewCard(k, EndOf({cards[y].pos : y \in CardsIn(k)}), due, recur, serials + 1, serials + 1)]
  /\ serials' = serials + 1
  /\ reused' = IF c \in paid THEN reused \cup {serials + 1} ELSE reused
  /\ UNCHANGED <<day, boards, columns, paid, onTime, rewards>>

\* The first due date stays.  A rule written by hand begins a series of its
\* own; unlike CreateCard, nothing asks for a due date beside it.
UpdateCard(c, due, recur) ==
  /\ Changed /\ c \in DOMAIN cards
  /\ due # cards[c].due \/ recur # cards[c].recur
  /\ LET r == cards[c]
         new == recur \notin {No, r.recur}
     IN
     /\ cards' = [cards EXCEPT ![c] = [r EXCEPT
          !.due = due, !.first = IF r.first = No THEN due ELSE r.first, !.recur = recur, !.updated = day,
          !.series = IF new THEN serials + 1 ELSE r.series]]
     /\ serials' = IF new THEN serials + 1 ELSE serials
  /\ UNCHANGED <<day, boards, columns, paid, onTime, rewards, reused>>

\* Mutant of Splice: the column left behind is not closed up.
SpliceOpen(c, to, p) ==
  LET size == Cardinality(CardsIn(to) \ {c})
      at == IF p > size THEN size ELSE p
  IN [x \in DOMAIN cards |->
       IF x = c THEN [cards[x] EXCEPT !.col = to, !.pos = at, !.updated = day]
       ELSE [cards[x] EXCEPT !.pos = IF cards[x].col = to /\ @ >= at THEN @ + 1 ELSE @]]

\* Steps 1 to 3 of MoveCard: out of its column, which closes up, and into the
\* other one at p, cut to its size, where a gap opens.
Splice(c, to, p) ==
  LET from == cards[c].col
      old == cards[c].pos
      closed(x) == IF cards[x].col = from /\ cards[x].pos > old THEN cards[x].pos - 1 ELSE cards[x].pos
      size == Cardinality(CardsIn(to) \ {c})
      at == IF p > size THEN size ELSE p
  IN [x \in DOMAIN cards |->
       IF x = c THEN [cards[x] EXCEPT !.col = to, !.pos = at, !.updated = day]
       ELSE [cards[x] EXCEPT !.pos = IF cards[x].col = to /\ closed(x) >= at THEN closed(x) + 1 ELSE closed(x)]]

\* done_at on the way into the done column; on the way out it goes, and the archive with it.
Stamp(r, to) ==
  IF to = DoneColumn(BoardOf(to)) THEN [r EXCEPT !.done = day]
  ELSE [r EXCEPT !.done = No, !.archived = FALSE]

\* taskReward: finished by the first due date, and its key not paid yet.
FinishedOnTime(c, to) ==
  /\ to # cards[c].col /\ to = DoneColumn(BoardOf(to))
  /\ cards[c].first # No /\ day <= cards[c].first

\* Mutant of Pays: the key is not looked up.
PaysAgain(c, to) == FinishedOnTime(c, to)

Pays(c, to) == FinishedOnTime(c, to) /\ c \notin paid

Spawns(c, to) ==
  /\ to = DoneColumn(BoardOf(to)) /\ to # FirstColumn(BoardOf(to))
  /\ cards[c].recur # No /\ cards[c].due # No

\* Mutant of Ended: the finished card keeps its rule.
EndedKeeps(r) == r

\* The finished occurrence loses its rule.
Ended(r) == [r EXCEPT !.recur = No]

\* spawnNextOccurrence: the next one at the end of the first column, or none
\* after the last day.
Spawn(rows, c, to) ==
  LET r == rows[c]
      next == r.due + r.recur
      k == FirstColumn(BoardOf(to))
      n == NextId(DOMAIN rows)
      ended == [rows EXCEPT ![c] = Ended(r)]
  IN IF next > Until THEN ended
     ELSE [x \in DOMAIN rows \cup {n} |-> IF x # n THEN ended[x] ELSE
            NewCard(k, EndOf({rows[y].pos : y \in {z \in DOMAIN rows : rows[z].col = k}}), next, r.recur,
                    serials + 1, r.series)]

MoveCard(c, to, p) ==
  /\ Changed /\ c \in DOMAIN cards /\ to \in DOMAIN columns
  /\ BoardOf(to) = BoardOf(cards[c].col)
  /\ LET spliced == Splice(c, to, p)
         moved == IF to = cards[c].col THEN spliced ELSE [spliced EXCEPT ![c] = Stamp(@, to)]
         pays == Pays(c, to)
         after == IF Spawns(c, to) THEN Spawn(moved, c, to) ELSE moved
         s == cards[c].serial
     IN /\ \A x \in DOMAIN after : x <= MaxCards
        /\ cards' = after
        /\ paid' = IF pays THEN paid \cup {c} ELSE paid
        /\ serials' = serials + Cardinality(DOMAIN after \ DOMAIN cards)
        /\ reused' = reused \cup {after[x].serial : x \in (DOMAIN after \ DOMAIN cards) \cap paid'}
        /\ onTime' = IF FinishedOnTime(c, to) THEN onTime \cup {s} ELSE onTime
        /\ rewards' = IF ~pays THEN rewards ELSE
             [x \in DOMAIN rewards \cup {s} |->
               IF x \notin DOMAIN rewards THEN 1 ELSE IF x = s THEN rewards[x] + 1 ELSE rewards[x]]
  /\ UNCHANGED <<day, boards, columns>>

DeleteCard(c) ==
  /\ Changed /\ c \in DOMAIN cards
  /\ cards' = [x \in DOMAIN cards \ {c} |->
       IF cards[x].col = cards[c].col /\ cards[x].pos > cards[c].pos
         THEN [cards[x] EXCEPT !.pos = @ - 1] ELSE cards[x]]
  /\ UNCHANGED <<day, boards, columns, paid, history>>

-----------------------------------------------------------------------------
(***************************************************************************)
(* The archive.                                                            *)
(***************************************************************************)

Finished(r) == IF r.done # No THEN r.done ELSE r.updated

\* archiveOld, when the board is opened (GetBoard).
GetBoard(b) ==
  LET old == {c \in DOMAIN cards : /\ BoardOf(cards[c].col) = b /\ cards[c].col = DoneColumn(b)
                                   /\ ~cards[c].archived /\ Finished(cards[c]) < day - ArchiveAfter}
  IN /\ old # {}
     /\ cards' = [c \in DOMAIN cards |-> IF c \in old THEN [cards[c] EXCEPT !.archived = TRUE] ELSE cards[c]]
     /\ UNCHANGED <<day, boards, columns, paid, history, changes>>

\* Only cards of the done column, at once.
ArchiveCard(c) ==
  /\ Changed /\ c \in DOMAIN cards /\ ~cards[c].archived /\ cards[c].col = DoneColumn(BoardOf(cards[c].col))
  /\ cards' = [cards EXCEPT ![c].archived = TRUE, ![c].done = IF @ = No THEN day ELSE @]
  /\ UNCHANGED <<day, boards, columns, paid, history>>

\* done_at becomes now, or the board would archive the card again.
UnarchiveCard(c) ==
  /\ Changed /\ c \in DOMAIN cards /\ cards[c].archived
  /\ cards' = [cards EXCEPT ![c].archived = FALSE, ![c].done = day]
  /\ UNCHANGED <<day, boards, columns, paid, history>>

NextDay ==
  /\ day < MaxDay /\ day' = day + 1
  /\ UNCHANGED <<boards, columns, cards, paid, history, changes>>

Next ==
  \/ CreateBoard \/ NextDay
  \/ \E b \in 1..MaxBoards : DeleteBoard(b) \/ AddColumn(b) \/ GetBoard(b)
  \/ \E k \in 1..MaxColumns : DeleteColumn(k)
  \/ \E k \in 1..MaxColumns, due \in Dues, recur \in Periods \cup {No} : CreateCard(k, due, recur)
  \/ \E c \in 1..MaxCards, due \in Dues, recur \in Periods \cup {No} : UpdateCard(c, due, recur)
  \/ \E c \in 1..MaxCards, k \in 1..MaxColumns, p \in 0..MaxCards : MoveCard(c, k, p)
  \/ \E c \in 1..MaxCards : DeleteCard(c) \/ ArchiveCard(c) \/ UnarchiveCard(c)

Spec == Init /\ [][Next]_boardVars

-----------------------------------------------------------------------------

\* The cards of a column and the columns of a board are numbered 0, 1, 2, ...
\* without gap or repetition, through moves, deletions and spawned occurrences
\* (MoveCard, DeleteCard, DeleteColumn): the order on the screen is the order stored.
PositionsDense ==
  /\ \A k \in DOMAIN columns : {cards[c].pos : c \in CardsIn(k)} = 0..(Cardinality(CardsIn(k)) - 1)
  /\ \A b \in 1..MaxBoards : {columns[k].pos : k \in ColumnsOf(b)} = 0..(Cardinality(ColumnsOf(b)) - 1)

\* At most one card of a series carries its rule, however often its
\* occurrences go into the done column and out again (spawnNextOccurrence).
OneOpenOccurrence ==
  \A c, d \in DOMAIN cards :
    c # d /\ cards[c].series = cards[d].series => cards[c].recur = No \/ cards[d].recur = No

\* A card finished by its first due date is rewarded exactly once, however
\* often it is finished; but for a card whose id another one was rewarded
\* under (taskReward's key).
RewardedOnce ==
  /\ \A s \in DOMAIN rewards : rewards[s] = 1 /\ s \in onTime
  /\ onTime \subseteq DOMAIN rewards \cup reused

=============================================================================
