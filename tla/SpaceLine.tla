------------------------------ MODULE SpaceLine ------------------------------
(***************************************************************************)
(* The timeline: RSSpaceLineViewModel keeps the spaces it is sent in the   *)
(* table RSSpaceModel and shows the recent ones from there.  A load sends a *)
(* request that nothing cancels, so several may be under way (the view     *)
(* appears again, the user pulls to refresh) and their answers arrive in   *)
(* any order.  Tapping an item marks it read.                              *)
(*                                                                         *)
(* The handlers and the network callbacks run on the main queue, each to   *)
(* its end: an answer is saved and the list rebuilt in one action.         *)
(*                                                                         *)
(* A version of a space is the backend's updateTime, which the table       *)
(* compares, and a revision that stands for the content (spaceData).  Two  *)
(* revisions may carry the same updateTime: it counts seconds.             *)
(***************************************************************************)
EXTENDS Naturals, FiniteSets

CONSTANTS
  Spaces,    \* space ids (svrId)
  Loads,     \* bound: how many loads may be under way together
  Window,    \* the 24 hours of the list, in ticks
  Limit,     \* the longest list, 50 in the code
  MaxTime,   \* bound: the clock
  MaxRev     \* bound: the revisions of a space

ASSUME BoundsAssumption ==
  /\ Window \in Nat \ {0} /\ Limit \in Nat
  /\ MaxTime \in Nat \ {0} /\ MaxRev \in Nat

VARIABLES
  now,      \* the time of day, in ticks
  server,   \* the backend's version of each space
  load,     \* the state of each load: "none", "sent" or "answered"
  answer,   \* the versions an answered load carries
  row,      \* the table RSSpaceModel: version and isReaded of each row
  list,     \* listData: the items shown, with their isReaded
  hud,      \* the controller's loading view is shown
  seen,     \* history: the revisions the user has opened
  faulted   \* history: a load failed, an answer was not saved, or a restart

vars == <<now, server, load, answer, row, list, hud, seen, faulted>>

\* updateTime 0 stands for "no such space" ("no such row", "not shown").
Versions == [time : 0..MaxTime, rev : 0..MaxRev]
NoVersion == [time |-> 0, rev |-> 0]
Rows == [time : 0..MaxTime, rev : 0..MaxRev, read : BOOLEAN]
NoRow == [time |-> 0, rev |-> 0, read |-> FALSE]

UnreadBumped(v) == [time |-> v.time, rev |-> v.rev + 1, read |-> FALSE]   \* mutant

Unread(v) == [time |-> v.time, rev |-> v.rev, read |-> FALSE]

(***************************************************************************)
(* The list: the rows of the last 24 hours, newest first, at most Limit.   *)
(***************************************************************************)
In24Hours(rows) == {s \in Spaces : rows[s].time > 0 /\ rows[s].time + Window > now}

Min2(a, b) == IF a < b THEN a ELSE b

NewestOf(rows) ==
  LET recent == In24Hours(rows)
  IN  {S \in SUBSET recent :
         /\ Cardinality(S) = Min2(Limit, Cardinality(recent))
         /\ \A s \in S, t \in recent \ S : rows[s].time >= rows[t].time}

LoadDataFromDB(rows) ==
  \E S \in NewestOf(rows) :
    list' = [s \in Spaces |-> IF s \in S THEN rows[s] ELSE NoRow]

Init ==
  /\ now = 1
  /\ server = [s \in Spaces |-> NoVersion]
  /\ load = [l \in Loads |-> "none"]
  /\ answer = [l \in Loads |-> [s \in Spaces |-> NoVersion]]
  /\ row = [s \in Spaces |-> NoRow]
  /\ list = [s \in Spaces |-> NoRow]
  /\ hud = FALSE
  /\ seen = {}
  /\ faulted = FALSE

(***************************************************************************)
(* The world: time passes, somebody adds to a space, the backend answers.  *)
(***************************************************************************)
Tick ==
  /\ now < MaxTime
  /\ now' = now + 1
  /\ UNCHANGED <<server, load, answer, row, list, hud, seen, faulted>>

Update(s) ==
  /\ server[s].rev < MaxRev
  /\ server' = [server EXCEPT ![s] = [time |-> now, rev |-> server[s].rev + 1]]
  /\ UNCHANGED <<now, load, answer, row, list, hud, seen, faulted>>

Answer(l) ==
  /\ load[l] = "sent"
  /\ load' = [load EXCEPT ![l] = "answered"]
  /\ answer' = [answer EXCEPT ![l] = server]
  /\ UNCHANGED <<now, server, row, list, hud, seen, faulted>>

(***************************************************************************)
(* The controller and the view model.                                      *)
(***************************************************************************)
\* viewDidAppear and the refresh header: show the loading view and load.
LoadData(l) ==
  /\ load[l] = "none"
  /\ LoadDataFromDB(row)
  /\ load' = [load EXCEPT ![l] = "sent"]
  /\ hud' = TRUE
  /\ UNCHANGED <<now, server, answer, row, seen, faulted>>

SaveToDBKeepingRead(spaces, lost) ==   \* mutant: isReaded is not reset
  [s \in Spaces |->
     IF spaces[s].time > row[s].time /\ s \notin lost
     THEN [Unread(spaces[s]) EXCEPT !.read = row[s].read] ELSE row[s]]

SaveToDBUnordered(spaces, lost) ==   \* mutant: whatever differs is written
  [s \in Spaces |->
     IF spaces[s].time \notin {0, row[s].time} /\ s \notin lost
     THEN Unread(spaces[s]) ELSE row[s]]

SaveToDBInserting(spaces, lost) ==   \* mutant: a row is never updated
  [s \in Spaces |->
     IF spaces[s].time > 0 /\ row[s].time = 0 /\ s \notin lost
     THEN Unread(spaces[s]) ELSE row[s]]

\* saveToDB: a space is written if it is new or strictly newer than its row,
\* as unread.  The result of a write is not looked at: writes of "lost" fail.
\* The SELECT of the row is assumed to work; the code would take a failed one for
\* no row and write the space whatever its updateTime.
SaveToDB(spaces, lost) ==
  [s \in Spaces |->
     IF spaces[s].time > row[s].time /\ s \notin lost THEN Unread(spaces[s]) ELSE row[s]]

FinishBehindHud(l) ==   \* mutant: the loading view stays
  /\ load' = [load EXCEPT ![l] = "none"]
  /\ answer' = [answer EXCEPT ![l] = [s \in Spaces |-> NoVersion]]
  /\ UNCHANGED hud

Finish(l) ==
  /\ load' = [load EXCEPT ![l] = "none"]
  /\ answer' = [answer EXCEPT ![l] = [s \in Spaces |-> NoVersion]]
  /\ hud' = FALSE

ReceiveSilently(l, lost) ==   \* mutant: the list is not rebuilt
  /\ load[l] = "answered"
  /\ row' = SaveToDB(answer[l], lost)
  /\ Finish(l)
  /\ UNCHANGED <<now, server, list, seen, faulted>>

Receive(l, lost) ==
  /\ load[l] = "answered"
  /\ row' = SaveToDB(answer[l], lost)
  /\ LoadDataFromDB(SaveToDB(answer[l], lost))
  /\ Finish(l)
  /\ faulted' = (faulted \/ lost # {})
  /\ UNCHANGED <<now, server, seen>>

\* A transport error or an answer with an error: only the loading view goes.
LoadFails(l) ==
  /\ load[l] # "none"
  /\ Finish(l)
  /\ faulted' = TRUE
  /\ UNCHANGED <<now, server, row, list, seen>>

\* didSelectRow: saveReadedToDB marks the item, and the row with its space id.
\* The result of the write is not looked at.
Tap(s) ==
  /\ list[s].time > 0
  /\ list' = [list EXCEPT ![s].read = TRUE]
  /\ \/ row' = [row EXCEPT ![s].read = TRUE]
     \/ UNCHANGED row
  /\ seen' = seen \cup {<<s, list[s].rev>>}
  /\ UNCHANGED <<now, server, load, answer, hud, faulted>>

\* The process is killed and started again: the table is what is left.
Restart ==
  /\ load' = [l \in Loads |-> "none"]
  /\ answer' = [l \in Loads |-> [s \in Spaces |-> NoVersion]]
  /\ list' = [s \in Spaces |-> NoRow]
  /\ hud' = FALSE
  /\ faulted' = TRUE
  /\ UNCHANGED <<now, server, row, seen>>

Next ==
  \/ Tick
  \/ \E s \in Spaces : Update(s) \/ Tap(s)
  \/ \E l \in Loads : LoadData(l) \/ Answer(l) \/ LoadFails(l)
  \/ \E l \in Loads, lost \in SUBSET Spaces : Receive(l, lost)
  \/ Restart

Spec == Init /\ [][Next]_vars

\* Every request is answered or fails (NSURLSession times out), and its callback runs.
LoadGoesOn(l) == Answer(l) \/ LoadFails(l) \/ \E lost \in SUBSET Spaces : Receive(l, lost)

FairSpec == Spec /\ \A l \in Loads : WF_vars(LoadGoesOn(l))

-----------------------------------------------------------------------------
(* Properties *)

TypeOK ==
  /\ now \in 1..MaxTime
  /\ server \in [Spaces -> Versions]
  /\ load \in [Loads -> {"none", "sent", "answered"}]
  /\ answer \in [Loads -> [Spaces -> Versions]]
  /\ row \in [Spaces -> Rows]
  /\ list \in [Spaces -> Rows]
  /\ hud \in BOOLEAN
  /\ seen \subseteq Spaces \X (0..MaxRev)
  /\ faulted \in BOOLEAN

\* A space is marked read in the table only if the user opened the very content
\* the row holds: the row never moves under an item that is still shown, since
\* every save is followed by a reload (RSSpaceLineViewModel.mm:66-71, 83-84).
ReadMeansSeen ==
  \A s \in Spaces : row[s].read => <<s, row[s].rev>> \in seen

\* What is shown is what is stored: an item has the version of its row, and is
\* shown unread only if the row is (RSSpaceLineViewModel.mm:138-156).
ListMatchesTable ==
  \A s \in Spaces : list[s].time > 0 =>
    /\ list[s].time = row[s].time /\ list[s].rev = row[s].rev
    /\ row[s].read => list[s].read

\* No content comes from nowhere: a row is never ahead of the backend.
NeverAhead ==
  \A s \in Spaces : row[s].time <= server[s].time /\ row[s].rev <= server[s].rev

\* The loading view is up only while a load is under way that will take it down
\* (RSSpaceLineViewController.m:107-112, 282-300).
HudHasCause == hud => \E l \in Loads : load[l] # "none"

\* ... and it does go: no load holds the loading view up for ever.
HudGoes == hud ~> ~hud

\* News get through: what a space was while a load is being sent reaches the
\* table, whichever answer comes first, unless a load or a write fails
\* (RSSpaceLineViewModel.mm:74-130).
NewsArrive ==
  \A s \in Spaces, t \in 1..MaxTime :
    (server[s].time >= t /\ \E l \in Loads : load[l] = "sent")
      ~> (row[s].time >= t \/ faulted)

\* The facts about versions that the order of the table's contents rests on.

\* The versions of a space that are about: NoVersion, the backend's, the row's
\* and those of the answers under way.
Known(s) == {NoVersion, server[s], row[s]} \cup {answer[l][s] : l \in Loads}

\* The backend is ahead of them all, and the clock of the backend.
BackendLeads ==
  \A s \in Spaces :
    /\ server[s].time <= now
    /\ \A v \in Known(s) : v.time <= server[s].time /\ v.rev <= server[s].rev

\* What is newer by updateTime is newer by content.
TimeTellsOrder ==
  \A s \in Spaces : \A v, w \in Known(s) : v.time < w.time => v.rev < w.rev

\* Content of s from time t on is under way: an answer carries it, or a load is
\* sent that will be answered with it.
Coming(s, t) ==
  \E l \in Loads :
    \/ load[l] = "sent" /\ server[s].time >= t
    \/ load[l] = "answered" /\ answer[l][s].time >= t

\* News under way are never dropped: they stay so until the table has them, whatever
\* other answers are saved in between and however they overtake one another, unless
\* a load or a write fails (RSSpaceLineViewModel.mm:74-130).
NewsAreNotDropped ==
  [][\A s \in Spaces, t \in 1..MaxTime :
       Coming(s, t) => Coming(s, t)' \/ row'[s].time >= t \/ faulted']_vars

\* What the table promises, as an abstract specification.
Store == INSTANCE Timeline WITH shown <- row

ImplementsTimeline == Store!Spec
==============================================================================
