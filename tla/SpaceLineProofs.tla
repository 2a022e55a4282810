--------------------------- MODULE SpaceLineProofs ---------------------------
(***************************************************************************)
(* Proofs about the timeline, for any spaces, number of loads under way,   *)
(* window, length of the list and bounds.                                  *)
(***************************************************************************)
EXTENDS SpaceLine, TLAPS

\* The list shows rows of the table, and nothing else; which ones does not
\* matter to safety.
LEMMA ListShowsRows ==
  ASSUME NEW rows, LoadDataFromDB(rows)
  PROVE  \E S \in SUBSET Spaces : list' = [s \in Spaces |-> IF s \in S THEN rows[s] ELSE NoRow]
<1>1. PICK S \in NewestOf(rows) : list' = [s \in Spaces |-> IF s \in S THEN rows[s] ELSE NoRow]
  BY DEF LoadDataFromDB
<1>2. S \in SUBSET Spaces
  BY DEF NewestOf, In24Hours
<1> QED BY <1>1, <1>2

\* Saving writes each row as it was, or newer and unread.
LEMMA SaveToDBWrites ==
  ASSUME NEW spaces, NEW lost, NEW s \in Spaces
  PROVE  \/ SaveToDB(spaces, lost)[s] = row[s]
         \/ /\ spaces[s].time > row[s].time
            /\ SaveToDB(spaces, lost)[s] = Unread(spaces[s])
  BY DEF SaveToDB

LEMMA SaveToDBType ==
  ASSUME TypeOK, NEW l \in Loads, NEW lost
  PROVE  SaveToDB(answer[l], lost) \in [Spaces -> Rows]
  BY DEF TypeOK, SaveToDB, Unread, Rows, Versions

LEMMA ConstantTypes == NoVersion \in Versions /\ NoRow \in Rows
  BY BoundsAssumption DEF NoVersion, NoRow, Versions, Rows

(***************************************************************************)
(* Type correctness.                                                       *)
(***************************************************************************)
LEMMA ListType ==
  ASSUME NEW rows \in [Spaces -> Rows], LoadDataFromDB(rows)
  PROVE  list' \in [Spaces -> Rows]
  BY ListShowsRows, ConstantTypes

LEMMA TypeStep == TypeOK /\ [Next]_vars => TypeOK'
<1> SUFFICES ASSUME TypeOK, [Next]_vars PROVE TypeOK'
  OBVIOUS
<1> USE BoundsAssumption, ConstantTypes
<1>1. CASE Tick
  BY <1>1 DEF TypeOK, Tick
<1>2. ASSUME NEW s \in Spaces, Update(s) PROVE TypeOK'
  <2>1. [time |-> now, rev |-> server[s].rev + 1] \in Versions
    BY <1>2 DEF TypeOK, Update, Versions
  <2> QED BY <1>2, <2>1 DEF TypeOK, Update
<1>3. ASSUME NEW s \in Spaces, Tap(s) PROVE TypeOK'
  <2>1. list' \in [Spaces -> Rows] /\ row' \in [Spaces -> Rows]
    <3>1. [list[s] EXCEPT !.read = TRUE] \in Rows /\ [row[s] EXCEPT !.read = TRUE] \in Rows
      BY DEF TypeOK, Rows
    <3> QED BY <1>3, <3>1 DEF TypeOK, Tap
  <2>2. list[s].rev \in 0..MaxRev
    BY DEF TypeOK, Rows
  <2> QED BY <1>3, <2>1, <2>2 DEF TypeOK, Tap
<1>4. ASSUME NEW l \in Loads, LoadData(l) PROVE TypeOK'
  <2>1. list' \in [Spaces -> Rows]
    BY <1>4, ListType DEF TypeOK, LoadData
  <2> QED BY <1>4, <2>1 DEF TypeOK, LoadData
<1>5. ASSUME NEW l \in Loads, Answer(l) PROVE TypeOK'
  BY <1>5 DEF TypeOK, Answer
<1>6. ASSUME NEW l \in Loads, LoadFails(l) PROVE TypeOK'
  BY <1>6 DEF TypeOK, LoadFails, Finish
<1>7. ASSUME NEW l \in Loads, NEW lost \in SUBSET Spaces, Receive(l, lost) PROVE TypeOK'
  <2>1. row' \in [Spaces -> Rows] /\ list' \in [Spaces -> Rows]
    BY <1>7, SaveToDBType, ListType DEF Receive
  <2>2. faulted' \in BOOLEAN
    BY <1>7, Zenon DEF Receive
  <2> QED BY <1>7, <2>1, <2>2 DEF TypeOK, Receive, Finish
<1>8. CASE Restart
  BY <1>8 DEF TypeOK, Restart
<1>9. CASE UNCHANGED vars
  BY <1>9 DEF TypeOK, vars
<1> QED BY <1>1, <1>2, <1>3, <1>4, <1>5, <1>6, <1>7, <1>8, <1>9 DEF Next

LEMMA TypeInit == Init => TypeOK
<1> SUFFICES ASSUME Init PROVE TypeOK
  OBVIOUS
<1>1. now \in 1..MaxTime
  BY BoundsAssumption DEF Init
<1>2. hud \in BOOLEAN /\ faulted \in BOOLEAN /\ seen \subseteq Spaces \X (0..MaxRev)
  BY DEF Init
<1>3. /\ server \in [Spaces -> Versions] /\ row \in [Spaces -> Rows] /\ list \in [Spaces -> Rows]
      /\ load \in [Loads -> {"none", "sent", "answered"}]
      /\ answer \in [Loads -> [Spaces -> Versions]]
  BY ConstantTypes DEF Init
<1> QED BY <1>1, <1>2, <1>3 DEF TypeOK

\* The variables always have their types.
THEOREM TypeCorrect == Spec => []TypeOK
  BY TypeInit, TypeStep, PTL DEF Spec

(***************************************************************************)
(* Read marks.  ReadMeansSeen is not inductive: a tap marks the row of the *)
(* item's space, so the item must show what the row holds.                 *)
(***************************************************************************)
ReadInv == ReadMeansSeen /\ ListMatchesTable

\* A list rebuilt from a table matches that table.
LEMMA RebuiltMatches ==
  ASSUME LoadDataFromDB(row')
  PROVE  ListMatchesTable'
<1>1. PICK S \in SUBSET Spaces : list' = [s \in Spaces |-> IF s \in S THEN row'[s] ELSE NoRow]
  BY ListShowsRows
<1> QED BY <1>1 DEF ListMatchesTable, NoRow

LEMMA ReadStep == TypeOK /\ ReadInv /\ [Next]_vars => ReadInv'
<1> SUFFICES ASSUME TypeOK, ReadInv, [Next]_vars PROVE ReadInv'
  OBVIOUS
<1> USE DEF ReadInv
<1>1. ASSUME NEW s \in Spaces, Tap(s) PROVE ReadInv'
  <2>1. list[s].time > 0 /\ row[s].rev = list[s].rev /\ row[s].time = list[s].time
    BY <1>1 DEF Tap, ListMatchesTable
  <2>2. /\ \A t \in Spaces :
             /\ row'[t].time = row[t].time /\ row'[t].rev = row[t].rev
             /\ list'[t].time = list[t].time /\ list'[t].rev = list[t].rev
             /\ t # s => row'[t] = row[t] /\ list'[t] = list[t]
        /\ list'[s].read = TRUE
    BY <1>1 DEF Tap, TypeOK, Rows
  <2>3. ReadMeansSeen'
    <3> SUFFICES ASSUME NEW t \in Spaces, row'[t].read PROVE <<t, row'[t].rev>> \in seen'
      BY DEF ReadMeansSeen
    <3>1. CASE t = s
      BY <1>1, <2>1, <2>2, <3>1 DEF Tap
    <3>2. CASE t # s
      BY <1>1, <2>2, <3>2 DEF Tap, ReadMeansSeen
    <3> QED BY <3>1, <3>2
  <2>4. ListMatchesTable'
    <3> SUFFICES ASSUME NEW t \in Spaces, list'[t].time > 0
                 PROVE  /\ list'[t].time = row'[t].time /\ list'[t].rev = row'[t].rev
                        /\ row'[t].read => list'[t].read
      BY DEF ListMatchesTable
    <3>1. list'[t].time = row'[t].time /\ list'[t].rev = row'[t].rev
      BY <2>2 DEF ListMatchesTable
    <3>2. row'[t].read => list'[t].read
      BY <2>2 DEF ListMatchesTable
    <3> QED BY <3>1, <3>2
  <2> QED BY <2>3, <2>4
<1>2. ASSUME NEW l \in Loads, LoadData(l) PROVE ReadInv'
  <2>1. row' = row /\ seen' = seen
    BY <1>2 DEF LoadData
  <2>2. LoadDataFromDB(row')
    BY <1>2, <2>1 DEF LoadData
  <2>3. ReadMeansSeen'
    BY <2>1 DEF ReadMeansSeen
  <2> QED BY <2>2, <2>3, RebuiltMatches
<1>3. ASSUME NEW l \in Loads, NEW lost \in SUBSET Spaces, Receive(l, lost) PROVE ReadInv'
  <2>1. row' = SaveToDB(answer[l], lost) /\ seen' = seen
    BY <1>3 DEF Receive
  <2>2. LoadDataFromDB(row')
    BY <1>3, <2>1 DEF Receive
  <2>3. \A s \in Spaces : row'[s] = row[s] \/ row'[s].read = FALSE
    BY <2>1 DEF SaveToDB, Unread
  <2>4. ReadMeansSeen'
    BY <2>1, <2>3 DEF ReadMeansSeen
  <2> QED BY <2>2, <2>4, RebuiltMatches
<1>4. CASE Restart
  BY <1>4 DEF Restart, ReadMeansSeen, ListMatchesTable, NoRow
<1>5. ASSUME UNCHANGED <<row, list, seen>> PROVE ReadInv'
  BY <1>5 DEF ReadMeansSeen, ListMatchesTable
<1>6. ASSUME Tick \/ UNCHANGED vars PROVE UNCHANGED <<row, list, seen>>
  BY <1>6 DEF Tick, vars
<1>7. ASSUME NEW s \in Spaces, Update(s) PROVE UNCHANGED <<row, list, seen>>
  BY <1>7 DEF Update
<1>8. ASSUME NEW l \in Loads, Answer(l) \/ LoadFails(l) PROVE UNCHANGED <<row, list, seen>>
  BY <1>8 DEF Answer, LoadFails
<1> QED BY <1>1, <1>2, <1>3, <1>4, <1>5, <1>6, <1>7, <1>8 DEF Next

LEMMA ReadInit == Init => ReadInv
  BY DEF Init, ReadInv, ReadMeansSeen, ListMatchesTable, NoRow

LEMMA ReadInductive == Spec => [](TypeOK /\ ReadInv)
<1>1. TypeOK /\ ReadInv /\ [Next]_vars => (TypeOK /\ ReadInv)'
  BY TypeStep, ReadStep
<1> QED BY TypeInit, ReadInit, <1>1, PTL DEF Spec

\* A space is marked read only if the user opened what the row holds, whatever
\* order the answers of however many loads come in.
THEOREM ReadIsSeen == Spec => []ReadMeansSeen
<1>1. ReadInv => ReadMeansSeen
  BY DEF ReadInv
<1> QED BY ReadInductive, <1>1, PTL

\* The list never shows a version the table does not hold.
THEOREM ListIsTrue == Spec => []ListMatchesTable
<1>1. ReadInv => ListMatchesTable
  BY DEF ReadInv
<1> QED BY ReadInductive, <1>1, PTL

(***************************************************************************)
(* The loading view.                                                       *)
(***************************************************************************)
LEMMA HudStep == TypeOK /\ HudHasCause /\ [Next]_vars => HudHasCause'
<1> SUFFICES ASSUME TypeOK, HudHasCause, [Next]_vars PROVE HudHasCause'
  OBVIOUS
<1>1. ASSUME NEW l \in Loads, LoadData(l) PROVE HudHasCause'
  <2>1. load'[l] = "sent"
    BY <1>1 DEF LoadData, TypeOK
  <2> QED BY <2>1 DEF HudHasCause
<1>2. ASSUME NEW l \in Loads, Answer(l) PROVE HudHasCause'
  <2>1. load'[l] = "answered"
    BY <1>2 DEF Answer, TypeOK
  <2> QED BY <2>1 DEF HudHasCause
<1>3. ASSUME NEW l \in Loads, NEW lost \in SUBSET Spaces, Receive(l, lost) PROVE HudHasCause'
  BY <1>3 DEF Receive, Finish, HudHasCause
<1>4. ASSUME NEW l \in Loads, LoadFails(l) PROVE HudHasCause'
  BY <1>4 DEF LoadFails, Finish, HudHasCause
<1>5. CASE Restart
  BY <1>5 DEF Restart, HudHasCause
<1>6. ASSUME UNCHANGED <<load, hud>> PROVE HudHasCause'
  BY <1>6 DEF HudHasCause
<1>7. ASSUME Tick \/ UNCHANGED vars PROVE UNCHANGED <<load, hud>>
  BY <1>7 DEF Tick, vars
<1>8. ASSUME NEW s \in Spaces, Update(s) \/ Tap(s) PROVE UNCHANGED <<load, hud>>
  BY <1>8 DEF Update, Tap
<1> QED BY <1>1, <1>2, <1>3, <1>4, <1>5, <1>6, <1>7, <1>8 DEF Next

\* The loading view is never left up by the last load.
THEOREM HudIsTakenDown == Spec => []HudHasCause
<1>1. Init => HudHasCause
  BY DEF Init, HudHasCause
<1>2. TypeOK /\ HudHasCause /\ [Next]_vars => (TypeOK /\ HudHasCause)'
  BY TypeStep, HudStep
<1> QED BY TypeInit, <1>1, <1>2, PTL DEF Spec

(***************************************************************************)
(* The order of versions.  An answer is newer than a row only if its       *)
(* content is, because everything about stems from the backend, which      *)
(* moves time and revision together (TimeTellsOrder), and because the      *)
(* backend is ahead of everything about (BackendLeads).                    *)
(***************************************************************************)
VersionInv == BackendLeads /\ TimeTellsOrder

LEMMA KnownTypes ==
  ASSUME TypeOK, NEW s \in Spaces, NEW v \in Known(s)
  PROVE  v.time \in Nat /\ v.rev \in Nat
<1>1. CASE v = NoVersion
  BY <1>1 DEF NoVersion
<1>2. CASE v = server[s]
  BY <1>2, BoundsAssumption DEF TypeOK, Versions
<1>3. CASE v = row[s]
  BY <1>3, BoundsAssumption DEF TypeOK, Rows
<1>4. ASSUME NEW l \in Loads, v = answer[l][s] PROVE v.time \in Nat /\ v.rev \in Nat
  BY <1>4, BoundsAssumption DEF TypeOK, Versions
<1> QED BY <1>1, <1>2, <1>3, <1>4 DEF Known

\* A step that brings no version that was not about keeps them in order.
LEMMA NothingNew ==
  ASSUME TypeOK, VersionInv, now' \in Nat, now' >= now, server' = server,
         \A s \in Spaces : \A v \in Known(s)' :
            \E u \in Known(s) : u.time = v.time /\ u.rev = v.rev
  PROVE  VersionInv'
<1>1. BackendLeads'
  <2>1. \A s \in Spaces : server'[s].time <= now'
    BY BoundsAssumption DEF VersionInv, BackendLeads, TypeOK, Versions
  <2>2. ASSUME NEW s \in Spaces, NEW v \in Known(s)'
        PROVE  v.time <= server'[s].time /\ v.rev <= server'[s].rev
    BY <2>2 DEF VersionInv, BackendLeads
  <2> QED BY <2>1, <2>2 DEF BackendLeads
<1>2. TimeTellsOrder'
  <2> SUFFICES ASSUME NEW s \in Spaces, NEW v \in Known(s)', NEW w \in Known(s)', v.time < w.time
               PROVE  v.rev < w.rev
    BY DEF TimeTellsOrder
  <2>1. PICK a \in Known(s) : a.time = v.time /\ a.rev = v.rev
    OBVIOUS
  <2>2. PICK b \in Known(s) : b.time = w.time /\ b.rev = w.rev
    OBVIOUS
  <2> QED BY <2>1, <2>2 DEF VersionInv, TimeTellsOrder
<1> QED BY <1>1, <1>2 DEF VersionInv

\* The backend's own step: its new version is newer than all that is about.
LEMMA UpdateOrders ==
  ASSUME TypeOK, TypeOK', VersionInv, NEW s \in Spaces, Update(s)
  PROVE  VersionInv'
<1>1. /\ now' = now /\ row' = row /\ answer' = answer
      /\ server'[s] = [time |-> now, rev |-> server[s].rev + 1]
      /\ \A t \in Spaces : t # s => server'[t] = server[t]
  BY DEF Update, TypeOK
<1>2. now \in Nat /\ \A t \in Spaces : server[t].time \in Nat /\ server[t].rev \in Nat
  BY BoundsAssumption DEF TypeOK, Versions
<1>3. ASSUME NEW t \in Spaces, NEW v \in Known(t)'
      PROVE  v \in Known(t) \/ (t = s /\ v = server'[s])
  BY <1>1, <1>3 DEF Known
<1>4. ASSUME NEW v \in Known(s)
      PROVE  /\ v.time \in Nat /\ v.rev \in Nat
             /\ v.time <= now /\ v.rev < server[s].rev + 1
  <2>1. v.time \in Nat /\ v.rev \in Nat
    BY <1>4, KnownTypes
  <2>2. v.time <= server[s].time /\ v.rev <= server[s].rev /\ server[s].time <= now
    BY <1>4 DEF VersionInv, BackendLeads
  <2> QED BY <1>2, <2>1, <2>2
<1>5. BackendLeads'
  <2>1. \A t \in Spaces : server'[t].time <= now'
    BY <1>1, <1>2 DEF VersionInv, BackendLeads
  <2>2. ASSUME NEW t \in Spaces, NEW v \in Known(t)'
        PROVE  v.time <= server'[t].time /\ v.rev <= server'[t].rev
    <3>1. CASE t # s
      BY <1>1, <1>3, <2>2, <3>1 DEF VersionInv, BackendLeads
    <3>2. CASE t = s /\ v \in Known(s)
      BY <1>1, <1>2, <1>4, <3>2
    <3>3. CASE t = s /\ v = server'[s]
      BY <1>1, <1>2, <3>3
    <3> QED BY <1>3, <2>2, <3>1, <3>2, <3>3
  <2> QED BY <2>1, <2>2 DEF BackendLeads
<1>6. TimeTellsOrder'
  <2> SUFFICES ASSUME NEW t \in Spaces, NEW v \in Known(t)', NEW w \in Known(t)', v.time < w.time
               PROVE  v.rev < w.rev
    BY DEF TimeTellsOrder
  <2>1. CASE v \in Known(t) /\ w \in Known(t)
    BY <2>1 DEF VersionInv, TimeTellsOrder
  <2>2. CASE t = s /\ v \in Known(s) /\ w = server'[s]
    BY <1>1, <1>4, <2>2
  <2>3. CASE t = s /\ v = server'[s] /\ w \in Known(s)
    BY <1>1, <1>2, <1>4, <2>3
  <2>4. CASE t = s /\ v = server'[s] /\ w = server'[s]
    BY <1>1, <1>2, <2>4
  <2> QED BY <1>3, <2>1, <2>2, <2>3, <2>4
<1> QED BY <1>5, <1>6 DEF VersionInv

\* Finishing a load forgets its answer.
LEMMA FinishForgets ==
  ASSUME TypeOK, NEW l \in Loads, Finish(l)
  PROVE  \A m \in Loads, s \in Spaces : answer'[m][s] \in {answer[m][s], NoVersion}
  BY DEF TypeOK, Finish

LEMMA VersionStep == TypeOK /\ VersionInv /\ [Next]_vars => VersionInv'
<1> SUFFICES ASSUME TypeOK, VersionInv, [Next]_vars PROVE VersionInv'
  OBVIOUS
<1>0. TypeOK' /\ now \in Nat /\ now' \in Nat
  <2>1. TypeOK'
    BY TypeStep
  <2> QED BY <2>1, BoundsAssumption DEF TypeOK
<1>1. ASSUME now' >= now, server' = server,
             \A s \in Spaces :
               \/ row'[s].time = row[s].time /\ row'[s].rev = row[s].rev
               \/ \E l \in Loads :
                    row'[s].time = answer[l][s].time /\ row'[s].rev = answer[l][s].rev,
             \A l \in Loads, s \in Spaces : answer'[l][s] \in {answer[l][s], server[s], NoVersion}
      PROVE  VersionInv'
  <2>1. ASSUME NEW s \in Spaces, NEW v \in Known(s)'
        PROVE  \E u \in Known(s) : u.time = v.time /\ u.rev = v.rev
    <3>1. CASE v = NoVersion \/ v = server'[s]
      BY <1>1, <3>1 DEF Known
    <3>2. CASE v = row'[s]
      BY <1>1, <3>2 DEF Known
    <3>3. ASSUME NEW l \in Loads, v = answer'[l][s] PROVE v \in Known(s)
      BY <1>1, <3>3 DEF Known
    <3> QED BY <2>1, <3>1, <3>2, <3>3 DEF Known
  <2> QED BY <1>0, <1>1, <2>1, NothingNew
<1>2. CASE Tick
  BY <1>0, <1>1, <1>2 DEF Tick
<1>3. ASSUME NEW s \in Spaces, Update(s) PROVE VersionInv'
  BY <1>0, <1>3, UpdateOrders
<1>4. ASSUME NEW s \in Spaces, Tap(s) PROVE VersionInv'
  <2>1. \A t \in Spaces : row'[t].time = row[t].time /\ row'[t].rev = row[t].rev
    BY <1>4 DEF Tap, TypeOK, Rows
  <2> QED BY <1>0, <1>1, <1>4, <2>1 DEF Tap
<1>5. ASSUME NEW l \in Loads, LoadData(l) PROVE VersionInv'
  BY <1>0, <1>1, <1>5 DEF LoadData
<1>6. ASSUME NEW l \in Loads, Answer(l) PROVE VersionInv'
  <2>1. \A m \in Loads, s \in Spaces : answer'[m][s] \in {answer[m][s], server[s]}
    BY <1>6 DEF Answer, TypeOK
  <2> QED BY <1>0, <1>1, <1>6, <2>1 DEF Answer
<1>7. ASSUME NEW l \in Loads, LoadFails(l) PROVE VersionInv'
  BY <1>0, <1>1, <1>7, FinishForgets DEF LoadFails
<1>8. ASSUME NEW l \in Loads, NEW lost \in SUBSET Spaces, Receive(l, lost) PROVE VersionInv'
  <2>1. \A s \in Spaces :
          \/ row'[s] = row[s]
          \/ row'[s].time = answer[l][s].time /\ row'[s].rev = answer[l][s].rev
    BY <1>8 DEF Receive, SaveToDB, Unread
  <2> QED BY <1>0, <1>1, <1>8, <2>1, FinishForgets DEF Receive
<1>9. CASE Restart
  BY <1>0, <1>1, <1>9 DEF Restart
<1>10. CASE UNCHANGED vars
  BY <1>0, <1>1, <1>10 DEF vars
<1> QED BY <1>2, <1>3, <1>4, <1>5, <1>6, <1>7, <1>8, <1>9, <1>10 DEF Next

LEMMA VersionInit == Init => VersionInv
<1> SUFFICES ASSUME Init PROVE VersionInv
  OBVIOUS
<1>1. \A s \in Spaces : server[s] = NoVersion /\ \A v \in Known(s) : v.time = 0 /\ v.rev = 0
  BY DEF Init, Known, NoVersion, NoRow
<1> QED BY <1>1 DEF Init, VersionInv, BackendLeads, TimeTellsOrder, NoVersion

\* No row is ever ahead of the backend, by time or by content.
THEOREM RowsComeFromBackend == Spec => []NeverAhead
<1>1. VersionInv => NeverAhead
  BY DEF VersionInv, BackendLeads, Known, NeverAhead
<1>2. TypeOK /\ VersionInv /\ [Next]_vars => (TypeOK /\ VersionInv)'
  BY TypeStep, VersionStep
<1> QED BY TypeInit, VersionInit, <1>1, <1>2, PTL DEF Spec

(***************************************************************************)
(* News under way.  A load that is sent will bring what the backend has    *)
(* then, which BackendLeads keeps from falling behind the clock.           *)
(***************************************************************************)
LEMMA ComingStays ==
  ASSUME TypeOK, BackendLeads, [Next]_vars, NEW s \in Spaces, NEW t \in 1..MaxTime, Coming(s, t)
  PROVE  Coming(s, t)' \/ row'[s].time >= t \/ faulted'
<1> DEFINE Carries(l) == \/ load[l] = "sent" /\ server[s].time >= t
                         \/ load[l] = "answered" /\ answer[l][s].time >= t
<1>1. PICK l \in Loads : Carries(l)
  BY DEF Coming
<1>2. t \in Nat /\ now \in Nat /\ server[s].time \in Nat
  BY BoundsAssumption DEF TypeOK, Versions
<1>3. SUFFICES Carries(l)' \/ row'[s].time >= t \/ faulted'
  BY Zenon DEF Coming
<1>4. CASE server' = server /\ load'[l] = load[l] /\ answer'[l] = answer[l]
  BY <1>1, <1>4
<1>5. ASSUME NEW r \in Spaces, Update(r)
      PROVE  Carries(l)'
  <2>1. load' = load /\ answer' = answer /\ server'[s].time \in {server[s].time, now}
    BY <1>5 DEF Update, TypeOK
  <2>2. server[s].time <= now
    BY DEF BackendLeads
  <2>3. server[s].time >= t => server'[s].time >= t
    BY <1>2, <2>1, <2>2
  <2> QED BY <1>1, <2>1, <2>3
<1>6. ASSUME NEW m \in Loads, Answer(m)
      PROVE  Carries(l)'
  BY <1>1, <1>6 DEF Answer, TypeOK
<1>7. ASSUME NEW m \in Loads, LoadData(m)
      PROVE  server' = server /\ load'[l] = load[l] /\ answer'[l] = answer[l]
  <2>1. load[l] # "none"
    BY <1>1
  <2> QED BY <1>7, <2>1 DEF LoadData, TypeOK
<1>8. ASSUME NEW m \in Loads, NEW lost \in SUBSET Spaces, Receive(m, lost)
      PROVE  Carries(l)' \/ row'[s].time >= t \/ faulted'
  <2>1. CASE m # l
    BY <1>1, <1>8, <2>1 DEF Receive, Finish, TypeOK
  <2>2. CASE m = l /\ lost = {}
    <3>1. answer[l][s].time >= t
      BY <1>1, <1>8, <2>2 DEF Receive
    <3>2. row'[s] = IF answer[l][s].time > row[s].time THEN Unread(answer[l][s]) ELSE row[s]
      BY <1>8, <2>2 DEF Receive, SaveToDB
    <3>3. answer[l][s].time \in Nat /\ row[s].time \in Nat
      BY BoundsAssumption DEF TypeOK, Versions, Rows
    <3>4. row'[s].time \in {answer[l][s].time, row[s].time} /\ row'[s].time >= answer[l][s].time
      BY <3>2, <3>3 DEF Unread
    <3> QED BY <1>2, <3>1, <3>3, <3>4
  <2>3. CASE lost # {}
    BY <1>8, <2>3, Zenon DEF Receive
  <2> QED BY <2>1, <2>2, <2>3
<1>9. (\E m \in Loads : LoadFails(m)) \/ Restart => faulted'
  BY Zenon DEF LoadFails, Restart
<1>10. Tick \/ (\E r \in Spaces : Tap(r)) \/ UNCHANGED vars
       => server' = server /\ load'[l] = load[l] /\ answer'[l] = answer[l]
  BY DEF Tick, Tap, vars
<1> HIDE DEF Carries
<1> QED BY <1>4, <1>5, <1>6, <1>7, <1>8, <1>9, <1>10, Zenon DEF Next

\* No step drops news that are under way (SpaceLine.NewsAreNotDropped): with the
\* backend answering, which TLC checks, they reach the table.
THEOREM NewsStayUnderWay == Spec => NewsAreNotDropped
<1>1. TypeOK /\ VersionInv /\ [Next]_vars => (TypeOK /\ VersionInv)'
  BY TypeStep, VersionStep
<1>2. TypeOK /\ VersionInv /\ [Next]_vars
        => [\A s \in Spaces, t \in 1..MaxTime :
              Coming(s, t) => Coming(s, t)' \/ row'[s].time >= t \/ faulted']_vars
  BY ComingStays DEF VersionInv
<1> QED BY TypeInit, VersionInit, <1>1, <1>2, PTL DEF Spec, NewsAreNotDropped

(***************************************************************************)
(* Refinement.                                                             *)
(***************************************************************************)
LEMMA StepAdvances ==
  TypeOK /\ ReadInv /\ VersionInv /\ [Next]_vars => [Store!Next]_row
<1> SUFFICES ASSUME TypeOK, ReadInv, VersionInv, [Next]_vars PROVE [Store!Next]_row
  OBVIOUS
<1>0. TypeOK'
  BY TypeStep
<1>1. ASSUME NEW s \in Spaces, Tap(s) PROVE [Store!Next]_row
  <2>1. row[s].time > 0
    BY <1>1 DEF Tap, ReadInv, ListMatchesTable
  <2>2. row' = [row EXCEPT ![s].read = TRUE] \/ row' = row
    BY <1>1 DEF Tap
  <2>3. DOMAIN row' = Spaces
    BY <1>0 DEF TypeOK
  <2> QED BY <2>1, <2>2, <2>3 DEF Store!Next, Store!MarkRead
<1>2. ASSUME NEW l \in Loads, NEW lost \in SUBSET Spaces, Receive(l, lost) PROVE [Store!Next]_row
  <2>1. ASSUME NEW s \in Spaces PROVE row'[s] = row[s] \/ Store!Newer(row[s], row'[s])
    <3>1. \/ row'[s] = row[s]
          \/ answer[l][s].time > row[s].time /\ row'[s] = Unread(answer[l][s])
      BY <1>2 DEF Receive, SaveToDB
    <3>2. row[s] \in Known(s) /\ answer[l][s] \in Known(s)
      BY DEF Known
    <3>3. ASSUME answer[l][s].time > row[s].time PROVE answer[l][s].rev > row[s].rev
      <4>1. /\ answer[l][s].time \in Nat /\ answer[l][s].rev \in Nat
            /\ row[s].time \in Nat /\ row[s].rev \in Nat
        BY <3>2, KnownTypes
      <4>2. row[s].rev < answer[l][s].rev
        BY <3>2, <3>3, <4>1 DEF VersionInv, TimeTellsOrder
      <4> QED BY <4>1, <4>2
    <3> QED BY <3>1, <3>3 DEF Store!Newer, Unread
  <2>2. DOMAIN row' = Spaces
    BY <1>0 DEF TypeOK
  <2> QED BY <2>1, <2>2 DEF Store!Next, Store!Advance
<1>3. CASE Tick \/ Restart \/ UNCHANGED vars
  BY <1>3 DEF Tick, Restart, vars
<1>4. ASSUME NEW s \in Spaces, Update(s) PROVE UNCHANGED row
  BY <1>4 DEF Update
<1>5. ASSUME NEW l \in Loads, LoadData(l) \/ Answer(l) \/ LoadFails(l) PROVE UNCHANGED row
  BY <1>5 DEF LoadData, Answer, LoadFails
<1> QED BY <1>1, <1>2, <1>3, <1>4, <1>5 DEF Next

\* The table implements Timeline: content only gets newer, and what was read stays
\* read until it does, for any number of overlapping loads.
THEOREM TimelineRefined == Spec => ImplementsTimeline
<1>1. Init => Store!Init
  BY DEF Init, Store!Init, NoRow
<1>2. TypeOK /\ ReadInv /\ VersionInv /\ [Next]_vars => (TypeOK /\ ReadInv /\ VersionInv)'
  BY TypeStep, ReadStep, VersionStep
<1> QED BY <1>1, <1>2, TypeInit, ReadInit, VersionInit, StepAdvances, PTL
        DEF Spec, ImplementsTimeline, Store!Spec
==============================================================================
