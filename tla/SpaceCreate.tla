----------------------------- MODULE SpaceCreate -----------------------------
(***************************************************************************)
(* The pipeline that turns a picture into a post ("space"):                *)
(* RSSpaceCreateViewModel saves the picture, RSSpaceService records the    *)
(* post, RSMediaService uploads the picture to the CDN and, in the upload's *)
(* callback, RSSpaceService sends the requests that publish it.            *)
(*                                                                         *)
(* Every callback of the pipeline (the button's handler, the Qiniu         *)
(* completion block, the AFNetworking completion blocks) runs to its end on *)
(* the main queue, so each is one action.  What interleaves is the order of *)
(* those callbacks, the backend executing requests, and the process being  *)
(* killed, which may also happen in the middle of the button's handler.    *)
(*                                                                         *)
(* A post is named by its picture id, which is fresh for every press of    *)
(* the button (uid, md5 and time).                                         *)
(***************************************************************************)
EXTENDS Naturals

CONSTANTS
  Posts,      \* picture ids, one per press of the send button
  Spaces,     \* group spaces a picture can be added to
  Friends,    \* the one request that creates a space for the chosen friends
  Feed,       \* the one request of a post to "memories" or to "all friends"
  MaxKills    \* bound: how often the process is killed and started again

ASSUME DestsAssumption == Friends \notin Spaces /\ Feed \notin Spaces \cup {Friends}
ASSUME MaxKillsAssumption == MaxKills \in Nat

VARIABLES
  audience,   \* the destinations of each post, {} before the button is pressed
  tip,        \* what the user was told about each post
  file,       \* pictures whose JPEG is in Documents/pictures
  picRow,     \* table RSPictureModel: the status of each picture's row
  postRow,    \* table RSSpaceCreateModel: the status of each post's row
  uploads,    \* uploads running in this process
  cdn,        \* pictures stored on the CDN
  task,       \* the network task of each subscription to a request signal
  wire,       \* requests sent that the backend has not executed
  executed,   \* requests the backend has executed
  killed,     \* posts that lost an upload or a task when the process was killed
  kills,      \* how often that happened
  unmarked    \* history: posts whose upload ended and whose status was not written

vars == <<audience, tip, file, picRow, postRow, uploads, cdn, task, wire,
          executed, killed, kills, unmarked>>

Dests == Spaces \cup {Friends, Feed}

\* "Memories" and "all friends" are one request each; a list post is one
\* request for the friends, if any are selected, and one for every space.
Audiences == {{Feed}} \cup ((SUBSET (Spaces \cup {Friends})) \ {{}})

\* A request signal is cold: every subscription sends the request again.  The
\* signals of a list post are subscribed to directly and once more by zip.
Copies == {"direct", "zip"}
Calls == [post : Posts, dest : Dests, copy : Copies]

CallsOf(p) == [post : {p}, dest : audience[p], copy : Copies]
ZipOf(p)   == [post : {p}, dest : audience[p], copy : {"zip"}]

Tips         == {"none", "success", "failure"}
PicStatuses  == {"none", "init", "uploading", "uploadFinish", "uploadFail"}
PostStatuses == {"none", "init", "creating", "finish"}
TaskStates   == {"idle", "waiting", "ok", "failed", "disposed"}

UpsertAllRows(table, status) == [p \in Posts |-> status]   \* mutant: inserts too

\* [db updateAllRowsInTable:onProperty:withObject:] has no where clause.
UpdateAllRows(table, status) ==
  [p \in Posts |-> IF table[p] = "none" THEN "none" ELSE status]

Init ==
  /\ audience = [p \in Posts |-> {}]
  /\ tip = [p \in Posts |-> "none"]
  /\ file = {}
  /\ picRow = [p \in Posts |-> "none"]
  /\ postRow = [p \in Posts |-> "none"]
  /\ uploads = {}
  /\ cdn = {}
  /\ task = [c \in Calls |-> "idle"]
  /\ wire = {}
  /\ executed = {}
  /\ killed = {}
  /\ kills = 0
  /\ unmarked = {}

(***************************************************************************)
(* The button's handler: save the picture, record the post, start the      *)
(* upload, tell the user.  It ends at the first write that fails.          *)
(***************************************************************************)
Press(p, a) ==
  /\ audience[p] = {}
  /\ audience' = [audience EXCEPT ![p] = a]

SaveFailsKeepingFile(p, a) ==   \* mutant: the file is not removed again
  /\ Press(p, a)
  /\ tip' = [tip EXCEPT ![p] = "failure"]
  /\ file' = file \cup {p}
  /\ UNCHANGED <<picRow, postRow, uploads, cdn, task, wire, executed, killed, kills, unmarked>>

\* savePictureLocal: the file cannot be written, or its row cannot be inserted
\* and the file is removed again.  (The code does not look whether removing it
\* worked; the module assumes it did.)
SaveFails(p, a) ==
  /\ Press(p, a)
  /\ tip' = [tip EXCEPT ![p] = "failure"]
  /\ UNCHANGED <<file, picRow, postRow, uploads, cdn, task, wire, executed, killed, kills, unmarked>>

\* The picture is saved but the post's row is not: _create returns, the view
\* model still sends completed and the user reads that the post was created.
RecordFails(p, a) ==
  /\ Press(p, a)
  /\ file' = file \cup {p}
  /\ picRow' = [picRow EXCEPT ![p] = "init"]
  /\ tip' = [tip EXCEPT ![p] = "success"]
  /\ UNCHANGED <<postRow, uploads, cdn, task, wire, executed, killed, kills, unmarked>>

\* The upload starts even if its status "uploading" cannot be written.
CreatePost(p, a) ==
  /\ Press(p, a)
  /\ file' = file \cup {p}
  /\ postRow' = [postRow EXCEPT ![p] = "init"]
  /\ LET saved == [picRow EXCEPT ![p] = "init"]
     IN  picRow' \in {saved, UpdateAllRows(saved, "uploading")}
  /\ uploads' = uploads \cup {p}
  /\ tip' = [tip EXCEPT ![p] = "success"]
  /\ UNCHANGED <<cdn, task, wire, executed, killed, kills, unmarked>>

(***************************************************************************)
(* The CDN and the upload's completion block.                              *)
(***************************************************************************)
StoreOnCDN(p) ==
  /\ p \in uploads \ cdn
  /\ cdn' = cdn \cup {p}
  /\ UNCHANGED <<audience, tip, file, picRow, postRow, uploads, task, wire, executed, killed, kills, unmarked>>

\* The upload's outcome is written to every picture's row; nobody looks at
\* whether that worked.
MarkUpload(p, status) ==
  \/ picRow' = UpdateAllRows(picRow, status) /\ UNCHANGED unmarked
  \/ unmarked' = unmarked \cup {p} /\ UNCHANGED picRow

SubscribedThrice(p) ==   \* mutant: each signal is retried once more
  [post : {p}, dest : audience[p], copy : Copies \cup {"retry"}]

\* Subscribing sends.  A feed post subscribes once, a list post twice per signal.
Subscribed(p) ==
  IF audience[p] = {Feed} THEN [post : {p}, dest : {Feed}, copy : {"direct"}]
                          ELSE CallsOf(p)

UploadOk(p) ==
  /\ p \in uploads \cap cdn
  /\ uploads' = uploads \ {p}
  /\ MarkUpload(p, "uploadFinish")
  /\ \/ \* the status is saved: send the requests
        /\ postRow' = UpdateAllRows(postRow, "creating")
        /\ task' = [c \in Calls |-> IF c \in Subscribed(p) THEN "waiting" ELSE task[c]]
        /\ wire' = wire \cup Subscribed(p)
     \/ \* it cannot be saved: return
        UNCHANGED <<postRow, task, wire>>
  /\ UNCHANGED <<audience, tip, file, cdn, executed, killed, kills>>

UploadFailsSending(p) ==   \* mutant: the upload's error is not looked at
  /\ p \in uploads
  /\ uploads' = uploads \ {p}
  /\ MarkUpload(p, "uploadFail")
  /\ task' = [c \in Calls |-> IF c \in Subscribed(p) THEN "waiting" ELSE task[c]]
  /\ wire' = wire \cup Subscribed(p)
  /\ UNCHANGED <<audience, tip, file, postRow, cdn, executed, killed, kills>>

UploadFailsUnmarked(p) ==   \* mutant: the rows keep their status
  /\ p \in uploads
  /\ uploads' = uploads \ {p}
  /\ UNCHANGED <<audience, tip, file, picRow, postRow, cdn, task, wire, executed, killed, kills, unmarked>>

\* The picture may have been stored all the same (the answer was lost).
UploadFails(p) ==
  /\ p \in uploads
  /\ uploads' = uploads \ {p}
  /\ MarkUpload(p, "uploadFail")
  /\ UNCHANGED <<audience, tip, file, postRow, cdn, task, wire, executed, killed, kills>>

(***************************************************************************)
(* The backend and the requests' completion blocks.                        *)
(***************************************************************************)
Execute(c) ==
  /\ c \in wire
  /\ wire' = wire \ {c}
  /\ executed' = executed \cup {c}
  /\ UNCHANGED <<audience, tip, file, picRow, postRow, uploads, cdn, task, killed, kills, unmarked>>

MergeFires(c) == c.copy = "zip"   \* mutant: merge instead of zip

\* zip sends its value in the callback of the last of its signals to succeed;
\* its subscriber then writes the status, and ignores whether that worked.
ZipFires(c) ==
  c.copy = "zip" /\ \A z \in ZipOf(c.post) \ {c} : task[z] = "ok"

ReplyOk(c) ==
  /\ task[c] = "waiting"
  /\ c \in executed
  /\ task' = [task EXCEPT ![c] = "ok"]
  /\ \/ ZipFires(c) /\ postRow' = UpdateAllRows(postRow, "finish")
     \/ UNCHANGED postRow
  /\ UNCHANGED <<audience, tip, file, picRow, uploads, cdn, wire, executed, killed, kills, unmarked>>

GivenUpByAll(c) == {x \in CallsOf(c.post) \ {c} : task[x] = "waiting"}   \* mutant

\* An error of one signal is an error of the zip, which disposes the others:
\* their tasks are cancelled and their answers ignored.
GivenUp(c) ==
  IF c.copy = "zip" THEN {x \in ZipOf(c.post) \ {c} : task[x] = "waiting"} ELSE {}

\* A transport error, an empty or malformed answer, or an answer with an error
\* code.  The backend may have executed the request, or may do so yet.
ReplyFails(c) ==
  /\ task[c] = "waiting"
  /\ task' = [x \in Calls |-> IF x = c THEN "failed"
                              ELSE IF x \in GivenUp(c) THEN "disposed" ELSE task[x]]
  /\ \E lost \in {{}, {c}} : wire' = wire \ lost
  /\ UNCHANGED <<audience, tip, file, picRow, postRow, uploads, cdn, executed, killed, kills, unmarked>>

(***************************************************************************)
(* The process is killed.  Files and tables survive, uploads and tasks do  *)
(* not, and nothing reads the tables to resume them.  Bytes already on     *)
(* their way may still reach the backend.                                  *)
(***************************************************************************)
LoseProcess ==
  /\ kills < MaxKills
  /\ kills' = kills + 1
  /\ uploads' = {}
  /\ task' = [c \in Calls |-> IF task[c] = "waiting" THEN "disposed" ELSE task[c]]
  /\ UNCHANGED <<cdn, wire, executed>>

Waiting(p) == \E c \in Calls : c.post = p /\ task[c] = "waiting"

Kill ==
  /\ LoseProcess
  /\ killed' = killed \cup uploads \cup {p \in Posts : Waiting(p)}
  /\ UNCHANGED <<audience, tip, file, picRow, postRow, unmarked>>

\* Killed inside the button's handler: after the file is written, after the
\* picture's row is inserted, after the post's row is inserted too, or when the
\* upload has marked the rows and not started.  (Killed inside another callback,
\* the process leaves a state that Kill leaves too.)
KillInPress(p, a) ==
  /\ Press(p, a)
  /\ LoseProcess
  /\ killed' = killed \cup uploads \cup {q \in Posts : Waiting(q)} \cup {p}
  /\ file' = file \cup {p}
  /\ \/ UNCHANGED <<picRow, postRow>>
     \/ picRow' = [picRow EXCEPT ![p] = "init"] /\ UNCHANGED postRow
     \/ /\ postRow' = [postRow EXCEPT ![p] = "init"]
        /\ LET saved == [picRow EXCEPT ![p] = "init"]
           IN  picRow' \in {saved, UpdateAllRows(saved, "uploading")}
  /\ UNCHANGED <<tip, unmarked>>

PressAny ==
  \E p \in Posts, a \in Audiences :
    SaveFails(p, a) \/ RecordFails(p, a) \/ CreatePost(p, a) \/ KillInPress(p, a)

Next ==
  \/ PressAny
  \/ \E p \in Posts : StoreOnCDN(p) \/ UploadOk(p) \/ UploadFails(p)
  \/ \E c \in Calls : Execute(c) \/ ReplyOk(c) \/ ReplyFails(c)
  \/ Kill

Spec == Init /\ [][Next]_vars

\* The Qiniu SDK ends every upload and NSURLSession every task, with an answer
\* or an error (both time out).  Nothing else has to happen.
Fairness ==
  /\ \A p \in Posts : WF_vars(UploadOk(p) \/ UploadFails(p))
  /\ \A c \in Calls : WF_vars(ReplyOk(c) \/ ReplyFails(c))

FairSpec == Spec /\ Fairness

-----------------------------------------------------------------------------
(* Properties *)

TypeOK ==
  /\ audience \in [Posts -> Audiences \cup {{}}]
  /\ tip \in [Posts -> Tips]
  /\ file \subseteq Posts
  /\ picRow \in [Posts -> PicStatuses]
  /\ postRow \in [Posts -> PostStatuses]
  /\ uploads \subseteq Posts
  /\ cdn \subseteq Posts
  /\ task \in [Calls -> TaskStates]
  /\ wire \subseteq Calls
  /\ executed \subseteq Calls
  /\ killed \subseteq Posts
  /\ kills \in 0..MaxKills
  /\ unmarked \subseteq Posts

\* The backend never publishes a post whose picture is not on the CDN, nor to a
\* destination its author did not choose: requests are built only in the
\* completion block of a successful upload (RSSpaceService.mm:54-75).
PublishedIsStored ==
  \A c \in executed : c.post \in cdn /\ c.dest \in audience[c.post]

\* Wherever the process is killed, a post's row refers to a picture that has a
\* row, and a picture's row to a file that exists: savePictureLocal writes the
\* file first, _create records the post last (RSMediaService.mm:49-62).
RowsHaveFiles ==
  \A p \in Posts :
    /\ postRow[p] # "none" => picRow[p] # "none"
    /\ picRow[p] # "none" => p \in file

\* What the user is told stays true: after "success" the picture is kept on the
\* device, after "failure" nothing of the post is kept, uploaded or published
\* (RSSpaceCreateViewModel.m:36-42).
TipIsTruthful ==
  \A p \in Posts :
    /\ tip[p] = "success" => p \in file /\ picRow[p] # "none"
    /\ tip[p] = "failure" => /\ p \notin file \cup uploads \cup cdn
                             /\ picRow[p] = "none" /\ postRow[p] = "none"
                             /\ \A c \in wire \cup executed : c.post # p

\* The status "finish" is earned by some list post: the backend has executed a
\* request for each of its destinations.  (Not by the post whose row shows it:
\* the update has no where clause, RSSpaceService.mm:132.)
FinishIsEarned ==
  (\E p \in Posts : postRow[p] = "finish") =>
     \E q \in Posts : audience[q] # {} /\ ZipOf(q) \subseteq executed

\* A destination that fails does not take the others with it: the direct
\* subscription of a request is never disposed, except with the process.  Only
\* the zip gives up its siblings (RSSpaceService.mm:97, 111, 121).
FailuresAreIsolated ==
  \A c \in Calls : task[c] = "disposed" /\ c.copy = "direct" => c.post \in killed

\* No picture is left "uploading" without an upload that will overwrite it,
\* unless an upload died with the process or its outcome could not be written
\* (RSMediaService.mm:70, 94, 103).
UploadingHasCause ==
  (\E p \in Posts : picRow[p] = "uploading") => uploads \cup killed \cup unmarked # {}

\* Every post comes to rest: its upload ends, and each of its direct requests
\* is never sent or is answered, unless the process was killed with it.
PostSettles ==
  \A p \in Posts :
    audience[p] # {} ~>
      \/ p \in killed
      \/ /\ p \notin uploads
         /\ \A d \in Dests :
              task[[post |-> p, dest |-> d, copy |-> "direct"]] \in {"idle", "ok", "failed"}

\* "Add the star to several spaces" (RSSpaceService.mm:108): the backend gets
\* each post for each space once.  The code breaks this: the signal that was
\* subscribed to is zipped, and the zip subscribes to it again.
StarAddedOnce ==
  \A x, y \in executed : x.post = y.post /\ x.dest = y.dest => x = y

\* A post to "memories" or to all friends, whose signal is not zipped, is published
\* once (RSSpaceService.mm:61-74, 97).
FeedPublishedOnce ==
  \A x, y \in executed : x.post = y.post /\ x.dest = Feed /\ y.dest = Feed => x = y

\* The facts about the pipeline's inner state that the properties above rest on.

\* Nothing exists of a post before the button is pressed.
FreshBeforePress ==
  \A p \in Posts : audience[p] = {} =>
    /\ tip[p] = "none" /\ picRow[p] = "none" /\ postRow[p] = "none"
    /\ p \notin file \cup uploads \cup cdn

\* Every request sent is of a stored picture and to a chosen destination.
SentIsStored == \A c \in wire \cup executed : c.post \in cdn /\ c.dest \in audience[c.post]

\* A request that was answered with success was executed.
OkIsExecuted == \A c \in Calls : task[c] = "ok" => c \in executed

PipelineInv == FreshBeforePress /\ SentIsStored /\ OkIsExecuted

\* Nothing of a post is sent while its picture is uploaded, or before; and what
\* the backend executed is no longer on its way.
UploadComesFirst ==
  /\ \A p \in uploads : \A c \in Calls : c.post = p => task[c] = "idle"
  /\ \A c \in Calls : task[c] = "idle" => c \notin wire \cup executed
  /\ \A c \in Calls : audience[c.post] = {} => task[c] = "idle"
  /\ wire \cap executed = {}

\* No subscription sends its request a second time, however uploads, answers and
\* restarts interleave: what was executed, and what was answered, failed or given
\* up, never goes out again.  So a post is published twice only where the code
\* subscribes twice (RSSpaceService.mm:54-75, 108).
NeverResent ==
  [][\A c \in Calls :
       /\ c \in executed => c \notin wire'
       /\ task[c] \in {"ok", "failed", "disposed"} => task'[c] = task[c]]_vars

\* What the pipeline promises, as an abstract specification.
Delivery == INSTANCE PostDelivery WITH
  chosen <- audience, stored <- cdn,
  published <- {<<c.post, c.dest>> : c \in executed}

ImplementsDelivery == Delivery!Spec
==============================================================================
