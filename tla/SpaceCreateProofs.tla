-------------------------- MODULE SpaceCreateProofs --------------------------
(***************************************************************************)
(* Proofs about the posting pipeline, for any posts, spaces and number of  *)
(* restarts.                                                               *)
(***************************************************************************)
EXTENDS SpaceCreate, TLAPS

\* UpdateAllRows writes a status into every row and creates none.
LEMMA UpdateAllRowsType ==
  ASSUME NEW S, NEW table \in [Posts -> S], NEW status \in S, "none" \in S
  PROVE  /\ UpdateAllRows(table, status) \in [Posts -> S]
         /\ \A p \in Posts :
              /\ UpdateAllRows(table, status)[p] = "none" <=> table[p] = "none" \/ status = "none"
              /\ UpdateAllRows(table, status)[p] \in {"none", status}
  BY DEF UpdateAllRows

\* The requests a post sends are requests of that post to its destinations.
LEMMA SubscribedCalls ==
  ASSUME TypeOK, NEW p \in Posts
  PROVE  /\ Subscribed(p) \subseteq Calls
         /\ \A c \in Subscribed(p) : c.post = p /\ c.dest \in audience[p]
  BY DestsAssumption DEF TypeOK, Subscribed, CallsOf, Calls, Copies, Audiences, Dests

\* Type correctness is preserved by every step.
LEMMA TypeStep == TypeOK /\ [Next]_vars => TypeOK'
<1> SUFFICES ASSUME TypeOK, [Next]_vars PROVE TypeOK'
  OBVIOUS
<1> USE MaxKillsAssumption
<1>1. ASSUME NEW p \in Posts, NEW a \in Audiences, SaveFails(p, a) PROVE TypeOK'
  BY <1>1 DEF TypeOK, SaveFails, Press, Tips
<1>2. ASSUME NEW p \in Posts, NEW a \in Audiences, RecordFails(p, a) PROVE TypeOK'
  BY <1>2 DEF TypeOK, RecordFails, Press, Tips, PicStatuses
<1>3. ASSUME NEW p \in Posts, NEW a \in Audiences, CreatePost(p, a) PROVE TypeOK'
  BY <1>3 DEF TypeOK, CreatePost, Press, Tips, PicStatuses, PostStatuses, UpdateAllRows
<1>4. ASSUME NEW p \in Posts, NEW a \in Audiences, KillInPress(p, a) PROVE TypeOK'
  <2>1. /\ audience' \in [Posts -> Audiences \cup {{}}]
        /\ file' \subseteq Posts /\ killed' \subseteq Posts
        /\ UNCHANGED <<tip, unmarked>>
    BY <1>4 DEF TypeOK, KillInPress, Press
  <2>2. /\ uploads' \subseteq Posts /\ task' \in [Calls -> TaskStates] /\ kills' \in 0..MaxKills
        /\ UNCHANGED <<cdn, wire, executed>>
    BY <1>4 DEF TypeOK, KillInPress, LoseProcess, TaskStates
  <2>3. picRow' \in [Posts -> PicStatuses] /\ postRow' \in [Posts -> PostStatuses]
    BY <1>4 DEF TypeOK, KillInPress, PicStatuses, PostStatuses, UpdateAllRows
  <2> QED BY <2>1, <2>2, <2>3 DEF TypeOK
<1>5. ASSUME NEW p \in Posts, StoreOnCDN(p) PROVE TypeOK'
  BY <1>5 DEF TypeOK, StoreOnCDN
<1>6. ASSUME NEW p \in Posts, UploadOk(p) PROVE TypeOK'
  <2>1. uploads' \subseteq Posts /\ UNCHANGED <<audience, tip, file, cdn, executed, killed, kills>>
    BY <1>6 DEF TypeOK, UploadOk
  <2>2. /\ picRow' \in [Posts -> PicStatuses] /\ postRow' \in [Posts -> PostStatuses]
        /\ unmarked' \subseteq Posts
    BY <1>6 DEF TypeOK, UploadOk, MarkUpload, PicStatuses, PostStatuses, UpdateAllRows
  <2>3. task' \in [Calls -> TaskStates] /\ wire' \subseteq Calls
    BY <1>6, SubscribedCalls DEF TypeOK, UploadOk, TaskStates
  <2> QED BY <2>1, <2>2, <2>3 DEF TypeOK
<1>7. ASSUME NEW p \in Posts, UploadFails(p) PROVE TypeOK'
  BY <1>7 DEF TypeOK, UploadFails, MarkUpload, PicStatuses, UpdateAllRows
<1>8. ASSUME NEW c \in Calls, Execute(c) PROVE TypeOK'
  BY <1>8 DEF TypeOK, Execute
<1>9. ASSUME NEW c \in Calls, ReplyOk(c) PROVE TypeOK'
  BY <1>9 DEF TypeOK, ReplyOk, TaskStates, PostStatuses, UpdateAllRows
<1>10. ASSUME NEW c \in Calls, ReplyFails(c) PROVE TypeOK'
  BY <1>10 DEF TypeOK, ReplyFails, GivenUp, TaskStates
<1>11. CASE Kill
  BY <1>11 DEF TypeOK, Kill, LoseProcess, TaskStates
<1>12. CASE UNCHANGED vars
  BY <1>12 DEF TypeOK, vars
<1> QED
  BY <1>1, <1>2, <1>3, <1>4, <1>5, <1>6, <1>7, <1>8, <1>9, <1>10, <1>11, <1>12
  DEF Next, PressAny

\* The variables always have their types.
THEOREM TypeCorrect == Spec => []TypeOK
<1>1. Init => TypeOK
  BY MaxKillsAssumption DEF Init, TypeOK, Tips, PicStatuses, PostStatuses, TaskStates
<1> QED BY <1>1, TypeStep, PTL DEF Spec

(***************************************************************************)
(* Safety.  The inductive invariant is the conjunction of the safety       *)
(* properties and PipelineInv: a request that is executed was on the wire, *)
(* and only SentIsStored knows that its picture was stored before it was   *)
(* sent; "finish" is written on seeing every other zip task "ok", and only *)
(* OkIsExecuted makes that mean executed.                                  *)
(***************************************************************************)
IInv ==
  /\ TypeOK
  /\ PipelineInv
  /\ PublishedIsStored
  /\ RowsHaveFiles
  /\ TipIsTruthful
  /\ FinishIsEarned
  /\ FailuresAreIsolated
  /\ UploadingHasCause

LEMMA InitIInv == Init => IInv
<1> SUFFICES ASSUME Init PROVE IInv
  OBVIOUS
<1>1. TypeOK
  BY MaxKillsAssumption DEF Init, TypeOK, Tips, PicStatuses, PostStatuses, TaskStates
<1>2. PipelineInv
  BY DEF Init, PipelineInv, FreshBeforePress, SentIsStored, OkIsExecuted
<1>3. PublishedIsStored /\ RowsHaveFiles /\ TipIsTruthful
  BY DEF Init, PublishedIsStored, RowsHaveFiles, TipIsTruthful
<1>4. FinishIsEarned /\ FailuresAreIsolated /\ UploadingHasCause
  BY DEF Init, FinishIsEarned, FailuresAreIsolated, UploadingHasCause
<1> QED BY <1>1, <1>2, <1>3, <1>4 DEF IInv

\* Pressing the button chooses a post's audience once and touches no other.
LEMMA PressChooses ==
  ASSUME TypeOK, NEW p \in Posts, NEW a \in Audiences, Press(p, a)
  PROVE  /\ audience[p] = {} /\ audience'[p] = a /\ a # {}
         /\ \A q \in Posts \ {p} : audience'[q] = audience[q]
         /\ \A q \in Posts : audience[q] # {} => audience'[q] = audience[q]
  BY DEF TypeOK, Press, Audiences

\* What was sent and executed, what is "ok" and what is finished survive every
\* step that only presses the button.
LEMMA PressKeeps ==
  ASSUME IInv, NEW p \in Posts, NEW a \in Audiences, Press(p, a),
         UNCHANGED <<cdn, wire, executed>>,
         \A c \in Calls : task'[c] = "ok" => task[c] = "ok",
         \A q \in Posts : postRow'[q] = "finish" => postRow[q] = "finish"
  PROVE  SentIsStored' /\ OkIsExecuted' /\ PublishedIsStored' /\ FinishIsEarned'
<1>1. \A c \in wire \cup executed : c \in Calls /\ c.post \in Posts
  BY DEF IInv, TypeOK, Calls
<1>2. \A c \in wire \cup executed : audience'[c.post] = audience[c.post]
  BY <1>1, PressChooses DEF IInv, PipelineInv, SentIsStored
<1>3. SentIsStored' /\ PublishedIsStored'
  BY <1>2 DEF IInv, PipelineInv, SentIsStored, PublishedIsStored
<1>4. OkIsExecuted'
  BY DEF IInv, PipelineInv, OkIsExecuted
<1>5. FinishIsEarned'
  <2> SUFFICES ASSUME \E q \in Posts : postRow'[q] = "finish"
               PROVE  \E q \in Posts : audience'[q] # {} /\ ZipOf(q)' \subseteq executed'
    BY DEF FinishIsEarned
  <2>1. PICK q \in Posts : audience[q] # {} /\ ZipOf(q) \subseteq executed
    BY DEF IInv, FinishIsEarned
  <2>2. audience'[q] = audience[q] /\ ZipOf(q)' = ZipOf(q)
    BY <2>1, PressChooses DEF IInv, ZipOf
  <2> QED BY <2>1, <2>2
<1> QED BY <1>3, <1>4, <1>5

\* The four ways the button's handler can end.
LEMMA PressStep ==
  ASSUME IInv, NEW p \in Posts, NEW a \in Audiences,
         SaveFails(p, a) \/ RecordFails(p, a) \/ CreatePost(p, a) \/ KillInPress(p, a)
  PROVE  IInv'
<1> USE DEF IInv, PipelineInv
<1>1. TypeOK'
  BY TypeStep DEF Next, PressAny
<1>2. Press(p, a)
  BY DEF SaveFails, RecordFails, CreatePost, KillInPress
<1>3. /\ audience[p] = {} /\ audience'[p] = a /\ a # {}
      /\ \A q \in Posts : q # p => audience'[q] = audience[q]
      /\ tip[p] = "none" /\ picRow[p] = "none" /\ postRow[p] = "none"
      /\ p \notin file \cup uploads \cup cdn
      /\ \A c \in wire \cup executed : c.post # p
  BY <1>2, PressChooses DEF FreshBeforePress, SentIsStored
<1>4. SentIsStored' /\ OkIsExecuted' /\ PublishedIsStored' /\ FinishIsEarned'
  <2>1. UNCHANGED <<cdn, wire, executed>>
    BY DEF SaveFails, RecordFails, CreatePost, KillInPress, LoseProcess
  <2>2. \A c \in Calls : task'[c] = "ok" => task[c] = "ok"
    BY DEF SaveFails, RecordFails, CreatePost, KillInPress, LoseProcess, TypeOK
  <2>3. \A q \in Posts : postRow'[q] = "finish" => postRow[q] = "finish"
    BY DEF SaveFails, RecordFails, CreatePost, KillInPress, TypeOK
  <2> QED BY <1>2, <2>1, <2>2, <2>3, PressKeeps
<1>5. FailuresAreIsolated'
  <2>1. CASE KillInPress(p, a)
    <3>1. \A c \in Calls : c.post \in Posts
      BY DEF Calls
    <3> QED BY <2>1, <3>1 DEF FailuresAreIsolated, KillInPress, LoseProcess, Waiting, TypeOK
  <2>2. CASE ~KillInPress(p, a)
    BY <2>2 DEF FailuresAreIsolated, SaveFails, RecordFails, CreatePost
  <2> QED BY <2>1, <2>2
<1>6. CASE SaveFails(p, a)
  <2>1. FreshBeforePress' /\ RowsHaveFiles' /\ TipIsTruthful' /\ UploadingHasCause'
    BY <1>3, <1>6 DEF SaveFails, Press, TypeOK, FreshBeforePress, RowsHaveFiles, TipIsTruthful,
                      UploadingHasCause
  <2> QED BY <1>1, <1>4, <1>5, <2>1
<1>7. CASE RecordFails(p, a)
  <2>1. FreshBeforePress' /\ RowsHaveFiles' /\ TipIsTruthful' /\ UploadingHasCause'
    BY <1>3, <1>7 DEF RecordFails, Press, TypeOK, FreshBeforePress, RowsHaveFiles, TipIsTruthful,
                      UploadingHasCause
  <2> QED BY <1>1, <1>4, <1>5, <2>1
<1>8. CASE CreatePost(p, a)
  <2>1. FreshBeforePress' /\ RowsHaveFiles' /\ TipIsTruthful' /\ UploadingHasCause'
    BY <1>3, <1>8 DEF CreatePost, Press, TypeOK, FreshBeforePress, RowsHaveFiles, TipIsTruthful,
                      UploadingHasCause, UpdateAllRows
  <2> QED BY <1>1, <1>4, <1>5, <2>1
<1>9. CASE KillInPress(p, a)
  <2>1. FreshBeforePress' /\ RowsHaveFiles' /\ TipIsTruthful' /\ UploadingHasCause'
    BY <1>3, <1>9 DEF KillInPress, LoseProcess, Press, TypeOK, FreshBeforePress, RowsHaveFiles,
                      TipIsTruthful, UploadingHasCause, UpdateAllRows
  <2> QED BY <1>1, <1>4, <1>5, <2>1
<1> QED BY <1>6, <1>7, <1>8, <1>9

\* The CDN stores a picture that is being uploaded.
LEMMA StoreStep == ASSUME IInv, NEW p \in Posts, StoreOnCDN(p) PROVE IInv'
<1> USE DEF IInv, PipelineInv, StoreOnCDN
<1>1. TypeOK'
  BY TypeStep DEF Next
<1>2. audience[p] # {} /\ tip[p] # "failure"
  BY DEF FreshBeforePress, TipIsTruthful
<1>3. FreshBeforePress' /\ TipIsTruthful' /\ RowsHaveFiles' /\ UploadingHasCause'
  BY <1>2 DEF FreshBeforePress, TipIsTruthful, RowsHaveFiles, UploadingHasCause
<1>4. SentIsStored' /\ PublishedIsStored' /\ OkIsExecuted'
  BY DEF SentIsStored, PublishedIsStored, OkIsExecuted
<1>5. FinishIsEarned' /\ FailuresAreIsolated'
  BY DEF FinishIsEarned, FailuresAreIsolated, ZipOf
<1> QED BY <1>1, <1>3, <1>4, <1>5

\* The upload ends well: the requests of a stored picture go out.
LEMMA UploadOkStep == ASSUME IInv, NEW p \in Posts, UploadOk(p) PROVE IInv'
<1> USE DEF IInv, PipelineInv, UploadOk
<1>1. TypeOK'
  BY TypeStep DEF Next
<1>2. audience[p] # {} /\ tip[p] # "failure" /\ p \in cdn
  BY DEF FreshBeforePress, TipIsTruthful
<1>3. /\ Subscribed(p) \subseteq Calls
      /\ \A c \in Subscribed(p) : c.post = p /\ c.dest \in audience[p]
  BY SubscribedCalls
<1>4. \A q \in Posts : /\ picRow'[q] = "none" <=> picRow[q] = "none"
                       /\ postRow'[q] = "none" <=> postRow[q] = "none"
                       /\ picRow'[q] # "uploading" \/ p \in unmarked'
                       /\ postRow'[q] = "finish" => postRow[q] = "finish"
  BY DEF MarkUpload, UpdateAllRows, TypeOK
<1>5. FreshBeforePress' /\ RowsHaveFiles' /\ UploadingHasCause'
  BY <1>4 DEF FreshBeforePress, RowsHaveFiles, UploadingHasCause, TypeOK
<1>6. TipIsTruthful'
  BY <1>2, <1>3, <1>4 DEF TipIsTruthful, TypeOK
<1>7. SentIsStored' /\ PublishedIsStored'
  BY <1>2, <1>3 DEF SentIsStored, PublishedIsStored
<1>8. OkIsExecuted' /\ FailuresAreIsolated'
  BY DEF OkIsExecuted, FailuresAreIsolated, TypeOK
<1>9. FinishIsEarned'
  BY <1>4 DEF FinishIsEarned, ZipOf
<1> QED BY <1>1, <1>5, <1>6, <1>7, <1>8, <1>9

\* The upload ends with an error: only the rows of pictures change.
LEMMA UploadFailsStep == ASSUME IInv, NEW p \in Posts, UploadFails(p) PROVE IInv'
<1> USE DEF IInv, PipelineInv, UploadFails
<1>1. TypeOK'
  BY TypeStep DEF Next
<1>2. \A q \in Posts : /\ picRow'[q] = "none" <=> picRow[q] = "none"
                       /\ picRow'[q] # "uploading" \/ p \in unmarked'
  BY DEF MarkUpload, UpdateAllRows, TypeOK
<1>3. FreshBeforePress' /\ RowsHaveFiles' /\ TipIsTruthful' /\ UploadingHasCause'
  BY <1>2 DEF FreshBeforePress, RowsHaveFiles, TipIsTruthful, UploadingHasCause
<1>4. SentIsStored' /\ PublishedIsStored' /\ OkIsExecuted'
  BY DEF SentIsStored, PublishedIsStored, OkIsExecuted
<1>5. FinishIsEarned' /\ FailuresAreIsolated'
  BY DEF FinishIsEarned, FailuresAreIsolated, ZipOf
<1> QED BY <1>1, <1>3, <1>4, <1>5

\* The backend executes a request that was on the wire.
LEMMA ExecuteStep == ASSUME IInv, NEW c \in Calls, Execute(c) PROVE IInv'
<1> USE DEF IInv, PipelineInv, Execute
<1>1. TypeOK'
  BY TypeStep DEF Next
<1>2. /\ wire' \cup executed' = wire \cup executed
      /\ executed \subseteq executed'
  OBVIOUS
<1>3. FreshBeforePress' /\ RowsHaveFiles' /\ UploadingHasCause' /\ FailuresAreIsolated'
  BY DEF FreshBeforePress, RowsHaveFiles, UploadingHasCause, FailuresAreIsolated
<1>4. TipIsTruthful'
  BY <1>2 DEF TipIsTruthful
<1>5. SentIsStored' /\ PublishedIsStored'
  BY <1>2 DEF SentIsStored, PublishedIsStored
<1>6. OkIsExecuted'
  BY <1>2 DEF OkIsExecuted
<1>7. FinishIsEarned'
  BY <1>2 DEF FinishIsEarned, ZipOf
<1> QED BY <1>1, <1>3, <1>4, <1>5, <1>6, <1>7

\* A request is answered with success; the last of a zip writes "finish".
LEMMA ReplyOkStep == ASSUME IInv, NEW c \in Calls, ReplyOk(c) PROVE IInv'
<1> USE DEF IInv, PipelineInv, ReplyOk
<1>1. TypeOK'
  BY TypeStep DEF Next
<1>2. \A q \in Posts : postRow'[q] = "none" <=> postRow[q] = "none"
  BY DEF UpdateAllRows
<1>3. FreshBeforePress' /\ RowsHaveFiles' /\ TipIsTruthful' /\ UploadingHasCause'
  BY <1>2 DEF FreshBeforePress, RowsHaveFiles, TipIsTruthful, UploadingHasCause
<1>4. SentIsStored' /\ PublishedIsStored'
  BY DEF SentIsStored, PublishedIsStored
<1>5. OkIsExecuted' /\ FailuresAreIsolated'
  BY DEF OkIsExecuted, FailuresAreIsolated, TypeOK
<1>6. FinishIsEarned'
  <2>1. CASE ZipFires(c)
    <3>1. c.post \in Posts /\ audience[c.post] # {}
      BY DEF Calls, SentIsStored
    <3>2. ZipOf(c.post) \subseteq Calls
      BY <3>1 DEF ZipOf, Calls, Copies, TypeOK, Audiences, Dests
    <3>3. ZipOf(c.post) \subseteq executed
      BY <2>1, <3>2 DEF ZipFires, OkIsExecuted
    <3>4. audience'[c.post] # {} /\ ZipOf(c.post)' \subseteq executed'
      BY <3>1, <3>3 DEF ZipOf
    <3> QED BY <3>1, <3>4 DEF FinishIsEarned
  <2>2. CASE UNCHANGED postRow
    BY <2>2 DEF FinishIsEarned, ZipOf
  <2> QED BY <2>1, <2>2
<1> QED BY <1>1, <1>3, <1>4, <1>5, <1>6

\* A request fails: its zip gives up the zip's other tasks, and only those.
LEMMA ReplyFailsStep == ASSUME IInv, NEW c \in Calls, ReplyFails(c) PROVE IInv'
<1> USE DEF IInv, PipelineInv, ReplyFails, GivenUp
<1>1. TypeOK'
  BY TypeStep DEF Next
<1>2. wire' \subseteq wire
  OBVIOUS
<1>3. FreshBeforePress' /\ RowsHaveFiles' /\ UploadingHasCause'
  BY DEF FreshBeforePress, RowsHaveFiles, UploadingHasCause
<1>4. TipIsTruthful' /\ SentIsStored' /\ PublishedIsStored'
  BY <1>2 DEF TipIsTruthful, SentIsStored, PublishedIsStored
<1>5. OkIsExecuted'
  BY DEF OkIsExecuted
<1>6. FailuresAreIsolated'
  <2>1. \A x \in ZipOf(c.post) : x.copy = "zip"
    BY DEF ZipOf
  <2> QED BY <2>1 DEF FailuresAreIsolated
<1>7. FinishIsEarned'
  BY DEF FinishIsEarned, ZipOf
<1> QED BY <1>1, <1>3, <1>4, <1>5, <1>6, <1>7

\* The process is killed while it waits.
LEMMA KillStep == ASSUME IInv, Kill PROVE IInv'
<1> USE DEF IInv, PipelineInv, Kill, LoseProcess
<1>1. TypeOK'
  BY TypeStep DEF Next
<1>2. FreshBeforePress' /\ RowsHaveFiles' /\ TipIsTruthful' /\ UploadingHasCause'
  BY DEF FreshBeforePress, RowsHaveFiles, TipIsTruthful, UploadingHasCause
<1>3. SentIsStored' /\ PublishedIsStored' /\ OkIsExecuted'
  BY DEF SentIsStored, PublishedIsStored, OkIsExecuted
<1>4. FailuresAreIsolated'
  <2>1. \A c \in Calls : c.post \in Posts
    BY DEF Calls
  <2> QED BY <2>1 DEF FailuresAreIsolated, Waiting
<1>5. FinishIsEarned'
  BY DEF FinishIsEarned, ZipOf
<1> QED BY <1>1, <1>2, <1>3, <1>4, <1>5

LEMMA StutterStep == ASSUME IInv, UNCHANGED vars PROVE IInv'
<1> USE DEF IInv, PipelineInv, vars
<1>1. TypeOK' /\ RowsHaveFiles' /\ UploadingHasCause' /\ FailuresAreIsolated'
  BY DEF TypeOK, RowsHaveFiles, UploadingHasCause, FailuresAreIsolated
<1>2. FreshBeforePress' /\ TipIsTruthful' /\ OkIsExecuted'
  BY DEF FreshBeforePress, TipIsTruthful, OkIsExecuted
<1>3. SentIsStored' /\ PublishedIsStored' /\ FinishIsEarned'
  BY DEF SentIsStored, PublishedIsStored, FinishIsEarned, ZipOf
<1> QED BY <1>1, <1>2, <1>3

\* Every step preserves the invariant.
LEMMA IInvStep == IInv /\ [Next]_vars => IInv'
<1> SUFFICES ASSUME IInv, [Next]_vars PROVE IInv'
  OBVIOUS
<1>1. CASE PressAny
  BY <1>1, PressStep DEF PressAny
<1>2. CASE \E p \in Posts : StoreOnCDN(p) \/ UploadOk(p) \/ UploadFails(p)
  BY <1>2, StoreStep, UploadOkStep, UploadFailsStep
<1>3. CASE \E c \in Calls : Execute(c) \/ ReplyOk(c) \/ ReplyFails(c)
  BY <1>3, ExecuteStep, ReplyOkStep, ReplyFailsStep
<1>4. CASE Kill
  BY <1>4, KillStep
<1>5. CASE UNCHANGED vars
  BY <1>5, StutterStep
<1> QED BY <1>1, <1>2, <1>3, <1>4, <1>5 DEF Next

LEMMA Inductive == Spec => []IInv
  BY InitIInv, IInvStep, PTL DEF Spec

\* Nothing is published whose picture is not stored, nor to a destination the
\* author did not choose, for any number of posts, spaces and restarts
\* (RSSpaceService.mm:54-75).
THEOREM PublishesOnlyStored == Spec => []PublishedIsStored
<1>1. IInv => PublishedIsStored
  BY DEF IInv
<1> QED BY <1>1, Inductive, PTL

\* Rows refer to rows and files that exist, wherever the process is killed
\* (RSMediaService.mm:49-62, RSSpaceService.mm:42-54).
THEOREM RowsKeepFiles == Spec => []RowsHaveFiles
<1>1. IInv => RowsHaveFiles
  BY DEF IInv
<1> QED BY <1>1, Inductive, PTL

\* What the user was told after pressing the button stays true
\* (RSSpaceCreateViewModel.m:36-42).
THEOREM TipStaysTrue == Spec => []TipIsTruthful
<1>1. IInv => TipIsTruthful
  BY DEF IInv
<1> QED BY <1>1, Inductive, PTL

\* "finish" is written only after some list post was executed for each of its
\* destinations (RSSpaceService.mm:121-132).
THEOREM FinishMeansExecuted == Spec => []FinishIsEarned
<1>1. IInv => FinishIsEarned
  BY DEF IInv
<1> QED BY <1>1, Inductive, PTL

\* A failing destination disposes no other destination's own request
\* (RSSpaceService.mm:97, 111, 121).
THEOREM FailuresStayIsolated == Spec => []FailuresAreIsolated
<1>1. IInv => FailuresAreIsolated
  BY DEF IInv
<1> QED BY <1>1, Inductive, PTL

\* "uploading" is never left behind by an upload that ended
\* (RSMediaService.mm:70, 94, 103).
THEOREM UploadingIsAccountedFor == Spec => []UploadingHasCause
<1>1. IInv => UploadingHasCause
  BY DEF IInv
<1> QED BY <1>1, Inductive, PTL

(***************************************************************************)
(* No request is sent again.  An upload's end is what sends: it must find  *)
(* the tasks of its post idle, and idle must mean never sent.              *)
(***************************************************************************)
LEMMA UploadFirstStep == TypeOK /\ FreshBeforePress /\ UploadComesFirst /\ [Next]_vars => UploadComesFirst'
<1> SUFFICES ASSUME TypeOK, FreshBeforePress, UploadComesFirst, [Next]_vars PROVE UploadComesFirst'
  OBVIOUS
<1>0. \A c \in Calls : c.post \in Posts
  BY DEF Calls
<1> USE DEF UploadComesFirst
<1>1. ASSUME uploads' \subseteq uploads, \A c \in Calls : task'[c] = "idle" <=> task[c] = "idle",
             wire' \cup executed' \subseteq wire \cup executed, wire' \cap executed' = {},
             \A p \in Posts : audience'[p] = {} => audience[p] = {}
      PROVE  UploadComesFirst'
  BY <1>0, <1>1
<1>2. ASSUME NEW p \in Posts, NEW a \in Audiences,
             SaveFails(p, a) \/ RecordFails(p, a) \/ CreatePost(p, a) \/ KillInPress(p, a)
      PROVE  UploadComesFirst'
  <2>1. /\ uploads' \subseteq uploads \cup {p}
        /\ \A c \in Calls : task'[c] = "idle" <=> task[c] = "idle"
        /\ wire' = wire /\ executed' = executed
    BY <1>2 DEF SaveFails, RecordFails, CreatePost, KillInPress, LoseProcess, TypeOK
  <2>2. Press(p, a)
    BY <1>2 DEF SaveFails, RecordFails, CreatePost, KillInPress
  <2>3. audience[p] = {} /\ \A q \in Posts : audience'[q] = {} => audience[q] = {}
    BY <2>2 DEF Press, TypeOK
  <2> QED BY <1>0, <2>1, <2>3
<1>3. ASSUME NEW p \in Posts, UploadOk(p)
      PROVE  UploadComesFirst'
  <2>1. /\ Subscribed(p) \subseteq Calls
        /\ \A c \in Subscribed(p) : c.post = p
    BY SubscribedCalls
  <2>2. audience[p] # {} /\ p \notin uploads' /\ uploads' \subseteq uploads /\ audience' = audience
    BY <1>3 DEF UploadOk, FreshBeforePress
  <2>3. executed' = executed
    BY <1>3 DEF UploadOk
  <2>4. CASE task' = task /\ wire' = wire
    BY <1>0, <2>2, <2>3, <2>4
  <2>5. ASSUME task' = [c \in Calls |-> IF c \in Subscribed(p) THEN "waiting" ELSE task[c]],
               wire' = wire \cup Subscribed(p)
        PROVE  UploadComesFirst'
    <3>1. \A c \in Calls : c.post # p => task'[c] = task[c]
      BY <2>1, <2>5
    <3>2. \A q \in uploads' : \A c \in Calls : c.post = q => task'[c] = "idle"
      BY <2>2, <3>1
    <3>3. \A c \in Calls : task'[c] = "idle" => c \notin wire' \cup executed'
      BY <2>3, <2>5
    <3>4. \A c \in Calls : audience'[c.post] = {} => task'[c] = "idle"
      BY <2>2, <3>1
    <3>5. \A c \in Subscribed(p) : c \notin executed
      BY <2>1, <1>3 DEF UploadOk
    <3>6. wire' \cap executed' = {}
      BY <2>3, <2>5, <3>5
    <3> QED BY <3>2, <3>3, <3>4, <3>6
  <2>6. \/ /\ task' = [c \in Calls |-> IF c \in Subscribed(p) THEN "waiting" ELSE task[c]]
           /\ wire' = wire \cup Subscribed(p)
        \/ task' = task /\ wire' = wire
    BY <1>3 DEF UploadOk
  <2> QED BY <2>4, <2>5, <2>6
<1>4. ASSUME NEW p \in Posts, StoreOnCDN(p) \/ UploadFails(p)
      PROVE  UploadComesFirst'
  BY <1>1, <1>4 DEF StoreOnCDN, UploadFails
<1>5. ASSUME NEW c \in Calls, Execute(c) \/ ReplyOk(c) \/ ReplyFails(c)
      PROVE  UploadComesFirst'
  <2>1. \A x \in Calls : task'[x] = "idle" <=> task[x] = "idle"
    BY <1>5 DEF Execute, ReplyOk, ReplyFails, GivenUp, TypeOK
  <2>2. /\ wire' \cup executed' \subseteq wire \cup executed /\ wire' \cap executed' = {}
        /\ uploads' = uploads /\ audience' = audience
    BY <1>5 DEF Execute, ReplyOk, ReplyFails
  <2> QED BY <1>1, <2>1, <2>2
<1>6. CASE Kill
  BY <1>1, <1>6 DEF Kill, LoseProcess, TypeOK
<1>7. CASE UNCHANGED vars
  BY <1>1, <1>7 DEF vars
<1> QED BY <1>2, <1>3, <1>4, <1>5, <1>6, <1>7 DEF Next, PressAny

LEMMA UploadFirstInit == Init => UploadComesFirst
  BY DEF Init, UploadComesFirst

\* A task that has ended has ended for good.
LEMMA EndedStays ==
  ASSUME TypeOK, UploadComesFirst, [Next]_vars,
         NEW c \in Calls, task[c] \in {"ok", "failed", "disposed"}
  PROVE  task'[c] = task[c]
<1>1. ASSUME NEW p \in Posts, NEW a \in Audiences,
             SaveFails(p, a) \/ RecordFails(p, a) \/ CreatePost(p, a) \/ KillInPress(p, a)
      PROVE  task'[c] = task[c]
  BY <1>1 DEF SaveFails, RecordFails, CreatePost, KillInPress, LoseProcess
<1>2. ASSUME NEW p \in Posts, UploadOk(p)
      PROVE  task'[c] = task[c]
  <2>1. c \notin Subscribed(p)
    BY <1>2, SubscribedCalls DEF UploadOk, UploadComesFirst
  <2> QED BY <1>2, <2>1 DEF UploadOk
<1>3. ASSUME NEW p \in Posts, StoreOnCDN(p) \/ UploadFails(p)
      PROVE  task'[c] = task[c]
  BY <1>3 DEF StoreOnCDN, UploadFails
<1>4. ASSUME NEW x \in Calls, Execute(x) \/ ReplyOk(x)
      PROVE  task'[c] = task[c]
  BY <1>4 DEF Execute, ReplyOk, TypeOK
<1>5. ASSUME NEW x \in Calls, ReplyFails(x)
      PROVE  task'[c] = task[c]
  BY <1>5 DEF ReplyFails, GivenUp
<1>6. CASE Kill \/ UNCHANGED vars
  BY <1>6 DEF Kill, LoseProcess, vars
<1> QED BY <1>1, <1>2, <1>3, <1>4, <1>5, <1>6 DEF Next, PressAny

\* No subscription sends its request again (SpaceCreate.NeverResent), for any
\* posts, spaces and number of restarts.
THEOREM RequestsGoOutOnce == Spec => NeverResent
<1>1. [Next]_vars => executed \subseteq executed'
  BY DEF Next, PressAny, SaveFails, RecordFails, CreatePost, KillInPress, LoseProcess, StoreOnCDN,
         UploadOk, UploadFails, Execute, ReplyOk, ReplyFails, Kill, vars
<1>2. IInv /\ UploadComesFirst /\ [Next]_vars => UploadComesFirst'
  BY UploadFirstStep DEF IInv, PipelineInv
<1>3. IInv /\ UploadComesFirst /\ UploadComesFirst' /\ [Next]_vars
        => [\A c \in Calls :
              /\ c \in executed => c \notin wire'
              /\ task[c] \in {"ok", "failed", "disposed"} => task'[c] = task[c]]_vars
  <2>1. ASSUME UploadComesFirst', [Next]_vars, NEW c \in executed
        PROVE  c \notin wire'
    BY <1>1, <2>1 DEF UploadComesFirst
  <2> QED BY <2>1, EndedStays DEF IInv
<1> QED BY Inductive, UploadFirstInit, <1>2, <1>3, PTL DEF Spec, NeverResent

\* What is sent to the feed is sent by a subscription that no zip repeats.
FeedIsDirect == \A c \in wire \cup executed : c.dest = Feed => c.copy = "direct"

LEMMA FeedStep == TypeOK /\ FeedIsDirect /\ [Next]_vars => FeedIsDirect'
<1> SUFFICES ASSUME TypeOK, FeedIsDirect, [Next]_vars PROVE FeedIsDirect'
  OBVIOUS
<1>1. CASE wire' \cup executed' \subseteq wire \cup executed
  BY <1>1 DEF FeedIsDirect
<1>2. ASSUME NEW p \in Posts, UploadOk(p)
      PROVE  FeedIsDirect'
  <2>1. wire' \cup executed' \subseteq wire \cup executed \cup Subscribed(p)
    BY <1>2 DEF UploadOk
  <2>2. ASSUME NEW c \in Subscribed(p), c.dest = Feed
        PROVE  c.copy = "direct"
    <3>1. Feed \in audience[p] /\ audience[p] \in Audiences \cup {{}}
      BY <2>2, SubscribedCalls DEF TypeOK
    <3>2. audience[p] = {Feed}
      BY <3>1, DestsAssumption DEF Audiences
    <3> QED BY <2>2, <3>2 DEF Subscribed
  <2> QED BY <2>1, <2>2 DEF FeedIsDirect
<1>3. PressAny \/ Kill \/ UNCHANGED vars => UNCHANGED <<wire, executed>>
  BY DEF PressAny, SaveFails, RecordFails, CreatePost, KillInPress, Kill, LoseProcess, vars
<1>4. (\E p \in Posts : StoreOnCDN(p) \/ UploadFails(p)) => UNCHANGED <<wire, executed>>
  BY DEF StoreOnCDN, UploadFails
<1>5. (\E c \in Calls : Execute(c) \/ ReplyOk(c) \/ ReplyFails(c))
        => wire' \cup executed' \subseteq wire \cup executed
  BY DEF Execute, ReplyOk, ReplyFails
<1> QED BY <1>1, <1>2, <1>3, <1>4, <1>5 DEF Next

\* A post to the feed is published once (SpaceCreate.FeedPublishedOnce), whatever is
\* answered or killed: what posting_twice finds concerns list posts alone.
THEOREM FeedGoesOutOnce == Spec => []FeedPublishedOnce
<1>1. Init => FeedIsDirect
  BY DEF Init, FeedIsDirect
<1>2. IInv /\ FeedIsDirect /\ [Next]_vars => FeedIsDirect'
  BY FeedStep DEF IInv
<1>3. IInv /\ FeedIsDirect => FeedPublishedOnce
  BY DEF IInv, TypeOK, FeedIsDirect, FeedPublishedOnce, Calls
<1> QED BY <1>1, <1>2, <1>3, Inductive, PTL DEF Spec

(***************************************************************************)
(* The pipeline implements PostDelivery: pressing the button is Choose,    *)
(* the CDN storing the picture is Store, the first execution of a request  *)
(* to a destination is Publish and the second one a stutter.               *)
(***************************************************************************)
LEMMA ExecuteDelivers ==
  ASSUME IInv, NEW c \in Calls, Execute(c)
  PROVE  [Delivery!Next]_(Delivery!pvars)
<1> DEFINE published == {<<x.post, x.dest>> : x \in executed}
<1>1. c.post \in Posts /\ c.post \in cdn /\ c.dest \in audience[c.post]
  BY DEF IInv, PipelineInv, SentIsStored, Execute, Calls
<1>2. published' = published \cup {<<c.post, c.dest>>}
  BY DEF Execute
<1>3. CASE <<c.post, c.dest>> \in published
  BY <1>2, <1>3 DEF Execute, Delivery!pvars
<1>4. CASE <<c.post, c.dest>> \notin published
  <2>1. Delivery!Publish(c.post, c.dest)
    BY <1>1, <1>2, <1>4 DEF Execute, Delivery!Publish
  <2> QED BY <1>1, <2>1 DEF Delivery!Next
<1> QED BY <1>3, <1>4

LEMMA StepDelivers == IInv /\ [Next]_vars => [Delivery!Next]_(Delivery!pvars)
<1> SUFFICES ASSUME IInv, [Next]_vars PROVE [Delivery!Next]_(Delivery!pvars)
  OBVIOUS
<1>1. ASSUME NEW p \in Posts, NEW a \in Audiences,
             SaveFails(p, a) \/ RecordFails(p, a) \/ CreatePost(p, a) \/ KillInPress(p, a)
      PROVE  Delivery!Next
  <2>1. Press(p, a) /\ UNCHANGED <<cdn, executed>>
    BY <1>1 DEF SaveFails, RecordFails, CreatePost, KillInPress, LoseProcess
  <2>2. Delivery!Choose(p, a) /\ a \in Delivery!Choices
    BY <2>1 DEF Press, Delivery!Choose, Delivery!Choices, Audiences
  <2> QED BY <2>2 DEF Delivery!Next
<1>2. ASSUME NEW p \in Posts, StoreOnCDN(p) PROVE Delivery!Next
  <2>1. Delivery!Store(p)
    BY <1>2 DEF IInv, PipelineInv, FreshBeforePress, StoreOnCDN, Delivery!Store
  <2> QED BY <2>1 DEF Delivery!Next
<1>3. ASSUME NEW c \in Calls, Execute(c) PROVE [Delivery!Next]_(Delivery!pvars)
  BY <1>3, ExecuteDelivers
<1>4. CASE \E p \in Posts : UploadOk(p) \/ UploadFails(p)
  BY <1>4 DEF UploadOk, UploadFails, Delivery!pvars
<1>5. CASE \E c \in Calls : ReplyOk(c) \/ ReplyFails(c)
  BY <1>5 DEF ReplyOk, ReplyFails, Delivery!pvars
<1>6. CASE Kill \/ UNCHANGED vars
  BY <1>6 DEF Kill, LoseProcess, vars, Delivery!pvars
<1> QED BY <1>1, <1>2, <1>3, <1>4, <1>5, <1>6 DEF Next, PressAny

\* The detailed pipeline implements the abstract one, for any number of posts,
\* spaces and restarts: duplicated requests, lost answers and restarts never
\* show as a publication PostDelivery does not allow.
THEOREM DeliveryRefined == Spec => ImplementsDelivery
<1>1. Init => Delivery!Init
  BY DEF Init, Delivery!Init
<1> QED BY <1>1, Inductive, StepDelivers, PTL DEF Spec, ImplementsDelivery, Delivery!Spec
==============================================================================
