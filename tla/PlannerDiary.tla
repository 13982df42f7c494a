---------------------------- MODULE PlannerDiary ----------------------------
(***************************************************************************)
(* The diary and its pictures (planner/internal/store/diary.go, media.go,  *)
(* storage.go, api/diary.go, api/media.go and cmd/planner/diarycmd.go).    *)
(*                                                                         *)
(* A picture is a file named by its content and a row of the media table;  *)
(* entries and cards refer to pictures by name.  An upload and a deletion  *)
(* take several steps that other requests may come between; every other    *)
(* store call is one statement or one transaction.  A reader pages through *)
(* the diary with a (date, id) cursor.  The import command, which runs     *)
(* beside the server, numbers the posts of an export, stores the pictures  *)
(* one by one and then adds the posts it has not seen.                     *)
(*                                                                         *)
(* Titles, texts, references and previews have no effect and are left      *)
(* out.  A picture has size one; the database and the backups have none.   *)
(***************************************************************************)
EXTENDS Integers, FiniteSets, FiniteSetsExt, Sequences

CONSTANTS
  Pictures,     \* contents of pictures
  Uploads,      \* requests that may be storing a picture
  Exports,      \* exports: sequences of [post, day, n, pic], n = 0 without pictures
  Quota, PageSize,
  Dates, MaxEntries, MaxDiaryChanges   \* bounds

VARIABLES
  entries,      \* id -> [date, pics, source, post]
  onCards,      \* pictures in the contents of cards
  files,        \* whole files under their final name
  tmp,          \* picture -> state of its temporary file
  media,        \* rows of the media table
  up,           \* upload -> [pc, pic]
  putting,      \* the import command: [pc, of, left], its export and the pictures it has yet to store
  sem,          \* the upload holding mediaSem, if any
  del,          \* the deletion in progress: [pc, pic]
  exposed,      \* history: pictures saved after or while they were deleted
  reader,       \* [cursor, seen, stable, done]; seen: entry -> how often it was shown
  diaryChanges

diaryVars == <<entries, onCards, files, tmp, media, up, putting, sem, del, exposed, reader, diaryChanges>>

Nobody == "nobody"
NoPic == "nopic"
Here == [pc |-> "idle", pic |-> NoPic]
NoImport == [pc |-> "idle", of |-> <<>>, left |-> {}]
FromTop == <<>>

DiaryInit ==
  /\ entries = [i \in 1..2 |-> [date |-> Min(Dates), pics |-> {}, source |-> <<>>, post |-> 0]]
  /\ onCards = {} /\ files = {} /\ tmp = [p \in Pictures |-> "none"] /\ media = {}
  /\ up = [u \in Uploads |-> Here] /\ putting = NoImport /\ sem = Nobody /\ del = Here /\ exposed = {}
  /\ reader = [cursor |-> FromTop, seen |-> [i \in {} |-> 0], stable |-> {1, 2}, done |-> FALSE]
  /\ diaryChanges = 0

DiaryChanged == diaryChanges < MaxDiaryChanges /\ diaryChanges' = diaryChanges + 1
Used == (UNION {entries[i].pics : i \in DOMAIN entries}) \cup onCards
DiaryId == IF DOMAIN entries = {} THEN 1 ELSE Max(DOMAIN entries) + 1

\* A save that mentions pictures already gone, or whose deletion has already
\* been decided.
Exposes(pics) == exposed' = exposed \cup {p \in pics : p \notin files \/ (del.pc # "idle" /\ del.pic = p)}

\* The reader's promise is about entries nobody touches while it pages.
Touched(ids) == reader' = [reader EXCEPT !.stable = @ \ ids]

-----------------------------------------------------------------------------
(***************************************************************************)
(* Entries.                                                                *)
(***************************************************************************)

\* New entries are refused over the quota.
QuotaExceeded == Cardinality(media) >= Quota

DiaryCreate(date) ==
  /\ DiaryChanged /\ ~QuotaExceeded /\ DiaryId <= MaxEntries
  /\ entries' = [i \in DOMAIN entries \cup {DiaryId} |->
       IF i = DiaryId THEN [date |-> date, pics |-> {}, source |-> <<>>, post |-> 0] ELSE entries[i]]
  /\ UNCHANGED <<onCards, files, tmp, media, up, putting, sem, del, exposed, reader>>

\* The date, the content, or both.
DiaryUpdate(id, date, pics) ==
  /\ DiaryChanged /\ id \in DOMAIN entries
  /\ entries' = [entries EXCEPT ![id].date = date, ![id].pics = pics]
  /\ Exposes(pics)
  /\ Touched(IF date = entries[id].date THEN {} ELSE {id})
  /\ UNCHANGED <<onCards, files, tmp, media, up, putting, sem, del>>

DiaryDelete(id) ==
  /\ DiaryChanged /\ id \in DOMAIN entries
  /\ entries' = [i \in DOMAIN entries \ {id} |-> entries[i]]
  /\ Touched({id})
  /\ UNCHANGED <<onCards, files, tmp, media, up, putting, sem, del, exposed>>

\* The content of a card.
SaveCard(pics) ==
  /\ DiaryChanged /\ onCards' = pics /\ pics # onCards
  /\ Exposes(pics)
  /\ UNCHANGED <<entries, files, tmp, media, up, putting, sem, del, reader>>

-----------------------------------------------------------------------------
(***************************************************************************)
(* A page: entries after the cursor, newest first, up to the limit.        *)
(***************************************************************************)

Newer(i, j) == entries[i].date > entries[j].date \/ (entries[i].date = entries[j].date /\ i > j)

\* Mutant of BeforeCursor: the date alone.
BeforeDate(i, c) == c = FromTop \/ entries[i].date < c[1]

\* Strictly older than the (date, id) of the last entry of the page before.
BeforeCursor(i, c) ==
  c = FromTop \/ entries[i].date < c[1] \/ (entries[i].date = c[1] /\ i < c[2])

\* The newest of the rest.
Page ==
  LET rest == {i \in DOMAIN entries : BeforeCursor(i, reader.cursor)}
  IN {i \in rest : Cardinality({j \in rest : Newer(j, i)}) < PageSize}

Oldest(page) == CHOOSE i \in page : \A j \in page : j = i \/ Newer(j, i)

TimesSeen(seen, i) == IF i \in DOMAIN seen THEN seen[i] ELSE 0

\* The reader asks for the next page; a short page is the last one.
DiaryListPage ==
  LET page == Page
      last == Oldest(page)
  IN /\ ~reader.done
     /\ reader' = [reader EXCEPT
          !.seen = [i \in DOMAIN @ \cup page |-> TimesSeen(@, i) + (IF i \in page THEN 1 ELSE 0)],
          !.cursor = IF page = {} THEN @ ELSE <<entries[last].date, last>>,
          !.done = Cardinality(page) < PageSize]
     /\ UNCHANGED <<entries, onCards, files, tmp, media, up, putting, sem, del, exposed, diaryChanges>>

\* The list is opened again.
DiaryOpen ==
  /\ DiaryChanged /\ reader.done
  /\ reader' = [cursor |-> FromTop, seen |-> [i \in {} |-> 0], stable |-> DOMAIN entries, done |-> FALSE]
  /\ UNCHANGED <<entries, onCards, files, tmp, media, up, putting, sem, del, exposed>>

-----------------------------------------------------------------------------
(***************************************************************************)
(* Pictures.                                                               *)
(***************************************************************************)

\* POST /api/media: the quota is looked at, then the body is read and the
\* request waits for its turn to decode.
UploadAsked(u, p) ==
  /\ DiaryChanged /\ up[u].pc = "idle" /\ ~QuotaExceeded
  /\ up' = [up EXCEPT ![u] = [pc |-> "waiting", pic |-> p]]
  /\ UNCHANGED <<entries, onCards, files, tmp, media, putting, sem, del, exposed, reader>>

\* One at a time; a file already there is kept.
MediaDecoded(u) ==
  LET p == up[u].pic IN
  /\ up[u].pc = "waiting" /\ sem = Nobody
  /\ sem' = u
  /\ IF p \in files
       THEN up' = [up EXCEPT ![u].pc = "row"] /\ UNCHANGED tmp
       ELSE up' = [up EXCEPT ![u].pc = "rename"] /\ tmp' = [tmp EXCEPT ![p] = "half"]
  /\ UNCHANGED <<entries, onCards, files, media, putting, del, exposed, reader, diaryChanges>>

\* The whole content is written, then the file gets its name.
MediaRenamed(u) ==
  LET p == up[u].pic IN
  /\ up[u].pc = "rename"
  /\ files' = files \cup {p} /\ tmp' = [tmp EXCEPT ![p] = "none"]
  /\ up' = [up EXCEPT ![u].pc = "row"]
  /\ UNCHANGED <<entries, onCards, media, putting, sem, del, exposed, reader, diaryChanges>>

MediaRow(u) ==
  /\ up[u].pc = "row"
  /\ media' = media \cup {up[u].pic}
  /\ up' = [up EXCEPT ![u] = Here] /\ sem' = Nobody
  /\ UNCHANGED <<entries, onCards, files, tmp, putting, del, exposed, reader, diaryChanges>>

\* Mutant of Mentioned: cards are not searched.
MentionedInDiary(p) == \E i \in DOMAIN entries : p \in entries[i].pics

\* The contents of entries and cards are searched for the name.
Mentioned(p) == (\E i \in DOMAIN entries : p \in entries[i].pics) \/ p \in onCards

\* MediaDelete: nothing may mention the picture when it is asked ...
DeleteChecked(p) ==
  /\ DiaryChanged /\ del.pc = "idle" /\ p \in files \cup media
  /\ ~Mentioned(p)
  /\ del' = [pc |-> "row", pic |-> p]
  /\ UNCHANGED <<entries, onCards, files, tmp, media, up, putting, sem, exposed, reader>>

\* ... then the row goes ...
DeleteRow ==
  /\ del.pc = "row"
  /\ media' = media \ {del.pic} /\ del' = [del EXCEPT !.pc = "file"]
  /\ UNCHANGED <<entries, onCards, files, tmp, up, putting, sem, exposed, reader, diaryChanges>>

\* ... and then the file.
DeleteFile ==
  /\ del.pc = "file"
  /\ files' = files \ {del.pic} /\ del' = Here
  /\ UNCHANGED <<entries, onCards, tmp, media, up, putting, sem, exposed, reader, diaryChanges>>

\* The server stops in the middle and starts again.
DiaryCrash ==
  /\ DiaryChanged /\ (sem # Nobody \/ del.pc # "idle")
  /\ up' = [u \in Uploads |-> Here] /\ sem' = Nobody /\ del' = Here
  /\ UNCHANGED <<entries, onCards, files, tmp, media, putting, exposed, reader>>

-----------------------------------------------------------------------------
(***************************************************************************)
(* planner diary import.                                                   *)
(***************************************************************************)

Numbers(x, day) == {x[i].n : i \in {j \in DOMAIN x : x[j].day = day}} \ {0}

\* Two posts of a day with the same number are refused.
Numbered(x) ==
  \A i, j \in DOMAIN x : i # j /\ x[i].day = x[j].day /\ x[i].n = x[j].n => x[i].n = 0

\* Mutant of NumberOf: posts without pictures are counted from one.
NumberInOrder(x, i) ==
  IF x[i].n > 0 THEN x[i].n
  ELSE 1 + Cardinality({j \in 1..(i - 1) : x[j].day = x[i].day /\ x[j].n = 0})

\* A post without pictures takes the next number its day has left.
NumberOf(x, i) ==
  LET before == Cardinality({j \in 1..(i - 1) : x[j].day = x[i].day /\ x[j].n = 0})
      free == (1..(2 * Len(x))) \ Numbers(x, x[i].day)
  IN IF x[i].n > 0 THEN x[i].n
     ELSE CHOOSE k \in free : Cardinality({f \in free : f < k}) = before

SourceOf(x, i) == <<x[i].day, NumberOf(x, i)>>

PicturesOf(x) == {x[i].pic : i \in DOMAIN x} \ {NoPic}

\* The export is read, and refused unless it is numbered.
ImportRead(x) ==
  /\ DiaryChanged /\ putting.pc = "idle" /\ Numbered(x)
  /\ putting' = [pc |-> "put", of |-> x, left |-> PicturesOf(x)]
  /\ UNCHANGED <<entries, onCards, files, tmp, media, up, sem, del, exposed, reader>>

\* Its pictures are stored first, one by one, whatever the quota.
ImportPut(p) ==
  /\ p \in putting.left
  /\ files' = files \cup {p} /\ media' = media \cup {p}
  /\ putting' = [putting EXCEPT !.left = @ \ {p}]
  /\ UNCHANGED <<entries, onCards, tmp, up, sem, del, exposed, reader, diaryChanges>>

\* Its entries follow in one transaction, without those whose source is known.
DiaryImport(x) ==
  LET old == {entries[i].source : i \in DOMAIN entries}
      new == {i \in DOMAIN x : SourceOf(x, i) \notin old}
      id(i) == DiaryId - 1 + Cardinality({j \in new : j <= i})
      row(i) == [date |-> x[i].day, pics |-> {x[i].pic} \ {NoPic}, source |-> SourceOf(x, i), post |-> x[i].post]
  IN /\ putting = [pc |-> "put", of |-> x, left |-> {}]
     /\ putting' = NoImport
     /\ Exposes(PicturesOf(x))
     /\ entries' = [e \in DOMAIN entries \cup {id(i) : i \in new} |->
          IF e \in DOMAIN entries THEN entries[e] ELSE row(CHOOSE i \in new : id(i) = e)]
     /\ UNCHANGED <<onCards, files, tmp, media, up, sem, del, reader, diaryChanges>>

\* The command ends early: a picture cannot be read or stored, or it is stopped.
ImportFails ==
  /\ putting.pc = "put" /\ putting' = NoImport
  /\ UNCHANGED <<entries, onCards, files, tmp, media, up, sem, del, exposed, reader, diaryChanges>>

-----------------------------------------------------------------------------

DiaryNext ==
  \/ \E d \in Dates : DiaryCreate(d)
  \/ \E id \in DOMAIN entries, d \in Dates, ps \in SUBSET Pictures :
       <<d, ps>> # <<entries[id].date, entries[id].pics>> /\ DiaryUpdate(id, d, ps)
  \/ \E id \in DOMAIN entries : DiaryDelete(id)
  \/ \E ps \in SUBSET Pictures : SaveCard(ps)
  \/ DiaryListPage \/ DiaryOpen
  \/ \E u \in Uploads, p \in Pictures : UploadAsked(u, p)
  \/ \E u \in Uploads : MediaDecoded(u) \/ MediaRenamed(u) \/ MediaRow(u)
  \/ \E p \in Pictures : DeleteChecked(p)
  \/ DeleteRow \/ DeleteFile \/ DiaryCrash
  \/ \E x \in Exports : ImportRead(x) \/ DiaryImport(x)
  \/ \E p \in Pictures : ImportPut(p)
  \/ ImportFails

-----------------------------------------------------------------------------
(***************************************************************************)
(* Properties.                                                             *)
(***************************************************************************)

\* A picture that an entry or a card shows is on the disk (MediaDelete looks
\* at both before it deletes), unless it was saved from a page that did not
\* know of its deletion or while the deletion ran.
PicturesKept == Used \ exposed \subseteq files

\* A reader that pages through the diary sees each entry that nobody moves or
\* deletes meanwhile exactly once, whatever is written above or below it
\* (the cursor of DiaryListPage).
PagedOnce ==
  \A i \in reader.stable :
    TimesSeen(reader.seen, i) <= 1 /\ (reader.done => TimesSeen(reader.seen, i) = 1)

\* An import leaves one entry for each post of the export, however often it
\* is repeated and whatever was deleted in between (numbers given by
\* readBabyTimeDir, ON CONFLICT(source) in DiaryImport).
ImportedOnce ==
  [][\A x \in Exports : DiaryImport(x) =>
       \A i \in DOMAIN x : Cardinality({e \in DOMAIN entries' : entries'[e].post = x[i].post}) = 1]_diaryVars
====
