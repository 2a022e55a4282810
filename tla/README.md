# RealSocial in TLA+

RealSocial is an iOS client (Objective-C, ReactiveCocoa, WCDB) for sharing pictures: a
picture is posted to friends, to group spaces or to one's memories, and the posts of the
last day appear in a timeline. These modules model the parts of the client that hold state
across callbacks, and the one library under it with locks and threads of its own, WCDB's pool of
database handles. The backend, the CDN and the operating system are external; they appear as the
nondeterminism the client has to live with. Of SDWebImage, vendored too, the modules have what it
does to its caller.

Paths below are relative to `src/RealSocial/RealSocial/`, those of WCDB to
`src/RealSocial/Pods/WCDB/objc/WCDB/`.

## Inventory

| Part | Code | State | Operations | What makes it hard |
| --- | --- | --- | --- | --- |
| Posting pipeline | `Features/StoryCreate/RSSpaceCreateViewModel.m`, `Services/RSSpaceService.mm`, `Services/RSMediaService.mm` | picture files, tables `RSPictureModel` and `RSSpaceCreateModel`, running uploads and tasks | create (three kinds of receiver), upload, fan-out, zip | three unprotected writes, table-wide status updates, cold signals subscribed to twice, kills, failures of one of several requests |
| Timeline | `Features/StoryLine/RSSpaceLineViewModel.mm`, `RSSpaceModel.mm`, the controller | table `RSSpaceModel`, `listData`, the loading view | load, receive, fail, tap, restart | overlapping loads answered in any order, read marks by space id, ignored writes |
| Contact sync | `Services/RSSyncService.m`, `RSKeyValueService.mm`, `RSContactService.mm` | cursor per account, contacts, `_disp` | loadData, receive, login, logout, network return | cursor saved under the account of the moment, disposal, a first load on another thread |
| Image downloads | `Services/RSImageDownloadService.m`, its cells | bounded queue, running downloads | download, evict, complete | eviction, reused cells, completion before the operation is queued |
| Login, launch, root view | `Services/RSLoginService.m`, `RSLaunchService.m`, `WXApiService.m`, `AppDelegate.m`, `Utils/FPKeychainUtils.m`, `Features/Register/` | login info, keychain, `_loginSignal`, root view, pending licences and face uploads | press, response, login, logout, start, licence, upload, kill, reinstall | late answers on other screens, a replaced signal, delete-then-add |
| Receiver lists | `Features/ReceiverList/` | two lists and their ticks, two exclusive cells, the bar of avatars | tap, reload, create a group, send | loads that end while the user ticks, observers that fire one another, avatars told apart by URL |
| Handles of the database | WCDB: `core/handle_pool.cpp`, `util/rwlock.cpp`, `core/database.cpp` | idle handles, their count, a read-write lock | take and give back a handle, purge, close, blockade, configure | threads at every step, one condition variable, a count outside the lock |
| Adding friends | `Features/Mine/RSAddFriends*`, `RSMineViewController.m` | the screen, its retry, the last error | shoot, upload, request, retry | a retry with a new picture id, answers that go to the screen of the moment |
| Space detail, browser, comments | `Features/StoryDetail/` | stars, two image views, two indices | page, comment | indices read late; pages number the pictures, comments all stars |
| Network layer | `RSNetWorkService.m`, `RSRequestFactory.m` | none of its own | send, answer, fail, dispose | cold signals |
| The rest | messages, chat, profile, settings, cameras, utilities | screens and tables of their own | | one actor, or fixed data |

How they interact: the receiver lists hand an audience to the posting pipeline; the pipeline,
the timeline, the sync and adding friends send through the network layer; login and logout
are signals that start the sync and change the root view; all tables share one WCDB database,
and so its pool of handles; timeline cells and the browser share the download queue. Almost
everything runs on the main queue, one callback at a time. That is why an action of these modules is
a whole callback. The exceptions are in the modules: in `Sync` the launch thread runs beside the main queue, so
that `loadData` is five steps on either and the callback of an answer two; the kill in the
middle of a handler in `SpaceCreate`, SDWebImage's queues in `ImageDownload`, the service's copy of a
request beside the screen's in `Receivers`. In `HandlePool` nothing is atomic but a call on the lock,
on the list or on the count.

## Modules

| Module | What it is |
| --- | --- |
| `SpaceCreate` | the posting pipeline |
| `PostDelivery` | what the pipeline promises, abstractly |
| `SpaceCreateProofs` | its theorems |
| `SpaceLine` | the timeline |
| `Timeline` | what its table promises, abstractly |
| `SpaceLineProofs` | its theorems |
| `Sync` | the contact sync, with the account changes that disturb it |
| `SyncProofs` | its theorems |
| `ImageDownload` | the bounded download queue and the cells it serves |
| `ImageDownloadProofs` | its theorems |
| `Session` | login, keychain, the root view, face registration |
| `SessionProofs` | its theorems |
| `Receivers` | choosing who gets a picture: lists, ticks, exclusive cells, the bar |
| `ReceiversProofs` | its theorems |
| `RWLock` | WCDB's lock: mutex, condition variable, three counters |
| `HandlePool` | WCDB's pool of handles, over `RWLock` |
| `ReadersWriters` | what the lock promises its users, abstractly |
| `HandlePoolProofs` | its theorems |
| `MCSpaceCreate`, `MCSpaceLine`, `MCReceivers` | the symmetry, and the avatars and tables, of the instances TLC checks |

### SpaceCreate

A post is named by its picture id, fresh for every press of the button. `Press` chooses the
audience; `SaveFails`, `RecordFails`, `CreatePost` and `KillInPress` are the ways the handler
`-[RSSpaceCreateViewModel create:...]` can end: no picture saved, no post recorded (the user is
told "created" all the same), everything done, or killed between two writes. `CreatePost` starts
the upload after marking *every* picture row "uploading", because
`updateAllRowsInTable:` has no where clause; `UpdateAllRows` is that operation. The Qiniu
completion block is `UploadOk` or `UploadFails`; the first sends one request per destination, twice
for a list post: each signal is subscribed to directly and again by `zip` (`Copies`). The backend
executes a request in `Execute`, whether or not its answer will be seen. `ReplyOk` may complete the
zip and write "finish"; `ReplyFails` of a zip's task disposes the zip's other tasks. `Kill` drops
what is in memory. Nothing ever reads the tables to resume.

`killed` and `unmarked` are history variables: which posts lost work to a kill, and whose upload
outcome could not be written. A row's status in `postRow` may be another post's, which is what the
code does; properties about status say so. `SaveFails` assumes that the file whose row cannot be inserted is
removed: the code ignores the result of `removeItemAtPath:` (`RSMediaService.mm:59`).

### SpaceLine

`LoadData` shows the list from the table, raises the loading view and sends; `Answer` is the
backend's reply with its versions of that moment; `Receive` saves (`SaveToDB`), rebuilds the list
and takes the loading view down, in the one callback the code does it in. A version is the
`updateTime` the table compares and a revision that stands for the content. Time is a clock; two
revisions may carry the same time. A write inside the transaction may fail unnoticed (`lost`).
The history variables are `seen` (what the user opened) and `faulted` (a load failed or a write
was lost). `SaveToDB` assumes that the SELECT of a space's row works: the code would take a failed one for a missing
row and write the space whatever its time (`RSSpaceLineViewModel.mm:118-126`), an older one over a newer one too.

### Sync

The backend's log has, per account, the address book each change led to; a cursor is a position in
it with its owner, and an answer carries the next part. Two threads run `loadData`: the main queue
(`Login`, `NetworkReturns`, and an answer that is not the last part), and the background queue on which
the launch request completes, from which `RSLaunchService` calls it (`LaunchCalls`). Both take it statement by
statement: `Calls` is the test of the session, `Disposes`, `Reads`, `Sends` and `Stores` are the accesses to
`_disp`, to the cursor and to the network, and `thread` is where each is. The callback of an answer is two
steps with the launch thread between them: `Receive` saves the contacts, `SavesCursor` the cursor, under whoever
is logged in, and calls `loadData` if there is more; `handling` is the answer in between, and a write
that fails ends the callback (`ReceiveUnsaved`, `CursorUnsaved`). Disposing a subscription does not stop its
callback, so `Disposes` leaves `handling` alone. Nothing else of the main queue runs until the block it runs has ended
(`MainIsFree`). After `Disposes` the model has `disp` at nil where the code still has the disposed one;
disposing that again does nothing.

`overlap` records that the launch thread loaded at the wrong time. There are three: beside `loadData` of the main
queue, over a login or a logout, and when it disposes in the middle of an answer, so that it reads the cursor the
answer is about to replace. In the last a shorter part of the changes moves the cursor back. With `overlap`
nothing is promised about cursors, without it everything is. That is the finest statement that holds.
`faulted` records a failed request or write, after which
only the next event goes on. At this commit `RSRequestFactory.m:53-63` has no service
name for the sync request; the module models the client from an answer on.

### ImageDownload

`Download` is `downloadImageWithUrl:` on a cache miss with the eviction it may cause. SDWebImage may
also complete from within that call, before the operation is queued: `DownloadRefused` for a URL that
is empty or has failed for good, `DownloadStored` for an image stored since the cache was looked at.
Such an operation stays in the queue after it ended (`early`). `Handle` is the cell's completion
handler with its comparison of strings; `RemoveOperation` takes an operation out of the queue wherever
it is by then.

A cell's string may be no URL (`Malformed`): `Parsed` is what `URLWithString:` makes of it, nil, and the error
SDWebImage then gives is for nobody's string, so that the cell's indicator spins until the cell is
reused. SDWebImage's downloader adds the handler of a later request to the operation it has for the URL, outside
its lock (`SDWebImageDownloader.m:276-297`); if that operation is just calling its handlers, the new one is removed
with them and not called. `LosesHandler` has that of any request of a URL that was asked for before, at any
time, which is more than can happen. `Stuck` names both cases, and what is said of indicators excepts them.

### Receivers

The screen pushed before a post. `people` and `spaces` are the two lists, `picked` and `pickedSpaces`
the `isSelected` of their items; a load builds new items, so `UpdateListData` and `SpacesLoaded` drop
the ticks. `LoadData` sends the contacts' request twice, because the service and the screen each
subscribe to it: `SaveContacts` and `ContactsLoaded` are the two answers, in either order.
`SelectCell` and `UnselectCell` are a tap on "all friends" or "my memories" with everything its
observers then do. `bar` counts the avatars of each URL, since that is all
`RSReceiverAvatarStackView` looks at when it removes one; `crowded` is a history variable for a bar
that had no place. `Close` drops the screen but not the service's half of its requests.

### RWLock and HandlePool

A call on `RWLock` holds its mutex from end to end except while it waits, so it is one step, or one
that goes to sleep (`asleep`) and one per wake-up; wake-ups may be spurious. `HandlePool` gives each
thread a program counter: `flowOut` is `Pop`, `Check`, `Generate`, `Count`, `Configure`; `flowBack`
is `FlowBack`, `Unlock`, `Uncount`, `Release`; `fillOne` is `Generate`, `Fill`, `Filled`, `Unlock`;
`drain` and `purgeFreeHandles` are `Clear` and `Subtract`. A thread of the program may call `use`
(a statement or a transaction), `fill`, `purge`, `close` and `blockade`; after `blockade` it may call
`close` again (`CloseInside`), as the header shows it. `stale` is the set of handles a change of
configuration has left behind. `ReadersWriters` is the lock without its counters: sets of readers, of
writers and of those who wait to write, which the program counters of the threads stand for.

### Session

`info` and `keychain` are the login info in memory and its copy; `root` is the window's root view.
`Press`, `WeChatResponds` and `LoginOk` or `LoginFails` are the steps of a login. They are counted,
not paired, because the code does not pair them: what comes goes to the `_loginSignal` of the moment.
A press replaces that signal also while the progress view of an earlier press is up, which lets touches through
(`Utils/RSUtils.m:35`); nothing but the login view on the screen, and the bound, guards `Press`.
`LoginOk` saves (`Save`, where the add may fail) and chooses the view; `StartCompletes`, `LicenseAnswers`
and `UploadOk` choose the view too, each when its request ends. `Launched` is a new process: `Kill`,
`KillInSave` (between delete and add) and `Reinstall`, which keeps the keychain and loses the flag in
NSUserDefaults. Reading the keychain at the start may fail with an item there (`Loaded`). `granted` is a history
variable: whom the last answer admitted.

`needLicense` is what the face SDK says (`getNeedNetLicense`): the same for an installation, and either. With an SDK
that needs no licence from the network, `ShowRegisterFaceView` shows nothing, as `AppDelegate.m:290-292` only
logs: an account whose login asks for a face stays at the login view, logged in, until the app is started again.
`ShutOut` is that state; `LoginViewHasCause`, `HasWayIn` and `GetsIn` except it by name, and nothing else.

Assumed of what the code does not look at: deleting an item of the keychain succeeds (`FPKeychainUtils.m:35`), and an
answer to a login without an error has a session key, so that the session key, which `isLogined` tests
(`RSLoginService.m:57-65`), is empty exactly when the uid is. Behaviours the
module has and no property excludes, because the code does not: a login answer after a logout logs in again,
and a licence that comes after a second login shows the face view to an account that needs none.

## Runs

| Run | Bounds | Question |
| --- | --- | --- |
| `posting` | two posts to the feed or to friends, two kills | do rows, files and what the user was told stay consistent when uploads, failing writes and table-wide updates of two posts interleave? |
| `posting_fanout` | one post, friends and two spaces, one kill, fairness | is "finish" earned, does the pipeline implement `PostDelivery`, does a post come to rest? |
| `posting_twice` | one post, one space | is a star added once per space? **No**: see below. |
| `timeline` | two spaces, a list of one, two loads, three ticks | read marks, list and table |
| `timeline_overlap` | one space, two loads, three revisions, fairness | does the table implement `Timeline` whatever the order of answers, does the loading view go, do news arrive? |
| `sync` | two accounts, two changes each, two events, three names of subscriptions, faults, fairness | with two threads in `loadData` and in the middle of answers: one subscription, cursors of the right account, nothing skipped, never back; does a sync catch up over several answers? |
| `images` | two cells, two URLs and a string that is none, a queue of two, three requests, fairness | the bound, one answer per request, the right picture, no endless indicator but in a stuck cell |
| `session` | two accounts, an SDK with or without a licence from the network, three logins or licences under way, two uploads, fairness | does a session ever come back, does the window show what the login state asks for, does whoever is not shut out get in, does the progress view go after presses through it? |
| `receivers` | three people of whom two share an avatar, one group, a bar of two, two loads | does an exclusive cell stay alone, is whoever is ticked shown? |
| `handles` | two threads, one idle handle, a limit of one, two closes or blockades, one new configuration, fairness | is a closed pool closed to others, has a handle one user, is the count true, is the limit kept, do readers and writers exclude one another as `ReadersWriters` says, does every operation return? |
| `handles_onclosed` | two threads, one close, beside uses, fills and purges | is every handle closed when the `onClosed` block runs? **No**: see below. |
| `handles_separately` | two threads, one blockade | can a thread blockade and then close, as the header shows? **No**: see below. |

Why the bounds are enough. The posting properties relate one post to itself or, through the
table-wide updates, to one other; two posts give every pair, and two destinations beside the
friends give a failing, a succeeding and a late request in one zip. Two overlapping loads give
every order of two answers and a list of one gives an item that leaves the list; three
revisions (in `timeline_overlap`) are an older answer, a newer one and the row between them. A queue of two with three requests evicts once, also
an operation that has already ended, and leaves another request of the same URL running. Two accounts with two events and the login state at the start
give a login over a running sync, a logout and a login again, and two changes give an answer in parts; three names of subscriptions are
one more than can be named at once, as `IdsInv` proves; three logins
or licences under way (`session`) are one answered, one late and one that overtakes a licence, and two
uploads are a frame sent twice. Two people with one URL are the case the bar could confuse, and a bar of
two (the code has five) is full with the third. Two threads race for the one handle, and each step of the
pool involves two at most; the theorems are for any number. Deadlock is not checked: presses,
loads and events are bounded, and a client at rest may stay there.

What the three violations show.

- `posting_twice`: `createSignalSpace...` subscribes to each signal and then zips the same cold
  signals, so every request of a list post is sent twice. `StarAddedOnce`, from the comment at
  `RSSpaceService.mm:108`, is violated after one press, one stored upload and two executions. It
  goes no further: `RequestsGoOutOnce` proves that no subscription sends again, and `FeedGoesOutOnce` that a post to
  the feed, which is not zipped, is published once.
- `handles_onclosed`: `fillOne` gives up the lock (`core/handle_pool.cpp:223`) while its local pointer still
  refers to the handle it has put into the list. A close beside it gets the lock, clears the list and runs its
  block; the list's reference is gone, the filling thread's is not, so the handle is still open.
  `interface/database/WCTDatabase+Database.h:86` promises the block a closed database. The run's trace is this
  one; `flowBack` leaves the same gap after its unlock (:187), for the handle it gave back and for one the full list rejected.
  `NearlyAllIsClosed` proves for any number of threads that the list is empty there, and that only handles of
  calls past their unlock are open.
- `handles_separately`: `close` takes the lock `blockade` already holds, and the lock is not recursive:
  the thread waits for itself. The same header (:92, :103-107) shows the sequence as usable. For any
  number of threads `SeparateCloseHangs` proves that it never gets past the lock.

## Fairness

`posting_fanout`, `timeline_overlap`, `sync`, `session`: the Qiniu SDK and NSURLSession end every upload
and task with an answer or an error, since both time out; and the main queue runs its callbacks.
The user, the backend's execution of a request, and kills are never fair. `sync` also assumes
that both threads run on, the launch thread and the main queue's, inside `loadData` and an answer's callback. `session` assumes it of the licence server's SDK, and WeChat is never
fair. `images`: SDWebImage completes a download that is not cancelled, if it has not lost its handler. `handles`: a thread that is not
asleep on the condition runs on, which includes giving back the handle it uses and lifting its
blockade; nothing is assumed about who gets the mutex first.
Weak fairness suffices everywhere, because a pending callback stays enabled until it runs or its
subscription is disposed, and a thread's next step until it takes it. A thread at the lock that finds
it taken goes to sleep, which is a step too.

## Proofs

`SpaceCreateProofs` proves, for any posts, spaces and number of kills, the type invariant, the
safety properties of the runs, that nothing is published before it is stored
(`PublishesOnlyStored`), and that the pipeline implements `PostDelivery`. The
assumptions are those of `SpaceCreate`: the names of destinations are distinct and
`MaxKills` is a natural number. The inductive invariant `IInv` is the conjunction of those
properties and `PipelineInv`, whose three parts carry the argument: nothing exists of a post before
its press (`FreshBeforePress`), a request on the wire or executed is of a stored picture and to a chosen
destination (`SentIsStored`, needed because execution comes long after sending), and an "ok" was
executed (`OkIsExecuted`, needed because "finish" is written on seeing tasks, not the
backend). There is one lemma per action; the refinement maps each action to `Choose`, `Store`,
`Publish` or a stutter, and `Execute` of a second copy is a stutter.
`RequestsGoOutOnce` needs that a picture is uploaded before anything is sent of it (`UploadComesFirst`), and
`FeedGoesOutOnce` that the feed is only subscribed to directly.

`SpaceLineProofs` proves, for any spaces, loads, window and limit, the type invariant, the safety
properties of `timeline`, that the loading view has a load to take it down and that no row is ahead of the
backend, and that the timeline implements `Timeline`. It rests on
`BoundsAssumption` (the numbers are naturals) alone. Two invariants had to be found.
`ReadInv` takes `ReadMeansSeen` and `ListMatchesTable` together: a tap marks the row of the item's
*space*, so that it marks what the user sees is true only because the list agrees with the table.
`VersionInv` says that the versions about in the system (backend, answers, rows) are ordered alike by time
and by revision, within a space, and that the backend's is the newest: without it a
comparison of times would say nothing about content. `NewsStayUnderWay` is an action property: while a
load is to bring a row as new as a given time, every step leaves such a load or leaves the row as new, unless a load
fails or a write is lost; `VersionInv` is needed again.

`SessionProofs` proves, for any accounts and bounds, the type invariant and the three safety properties of
`session`. They are inductive with the types, from `SessionAssumption` (nobody is not an account) alone:
`SessionIsGranted` because a save deletes before it adds, the two about the view because every callback
that chooses a view reads the login info in the same block, and `LoginViewHasCause` with the one exception of an SDK that
needs no licence. `KeychainNeverDiffers` says what a restart can find.
`WayInStays` and `HudIsAnswered` say that a view (but for `ShutOut`) or a progress view that must go has a callback to come that
takes it away, the latter however many presses replaced the signal meanwhile; the first also needs that the launch view is up only while the start request is out (`StartInv`).

`SyncProofs` proves, for any accounts, contacts and bounds, the type invariant, the three safety properties
of `sync` and that cursors only advance. It assumes that the names are distinct, the bounds naturals, and that there is
a name beside any two (`FreshAssumption`): the subscriptions alive, with `_disp` and what a thread holds that has
not stored it yet, are the main queue's and one more, which is the launch thread's or one it made the main queue
forget, and to prove that (`IdsInv`) is half of the type invariant. The rest of
the invariant is in two parts. `LogInv`, `AnswersInv` and `HandlingInv` are always true: an address book agrees with
every later one up to its own number, an answer goes no further than the log, and the main queue handles one answer and
nothing else meanwhile. `CalmInv` is what
holds until the launch thread loads at the wrong time: one thread is in `loadData`, with nothing alive beside what it
has sent and its copy of the cursor current (`ThreadsInv`); there is at most one subscription or answer in hand,
asked from the very cursor that is saved for whoever is logged in (`AskedInv`); and the contacts of an answer in
hand are saved before its cursor (`KeptInv`). `CursorIsOwn` and `NothingSkipped` follow from `KeptInv`, which needs the other two, and `CursorAdvances` from `AskedInv`. `LoadsAreNotLost` does without the calm: overlapping loads may
mix cursors up, but a load under way stays so until the cursor has passed what it is for.

`ImageDownloadProofs` proves, for any cells, URLs, bound and number of requests, the type invariant, the
three safety properties of `images` and the safety half of its liveness property: an indicator that is not stuck has a running download that will
stop it (`SpinnerHasCause`). The bound must be positive and the names distinct, nothing else. The invariant ties the
number of calls of a handler to where its operation is: running and queued, ended and queued (then it
ended early and was called once), or gone. An operation is in the queue once, which is what makes the
eviction of one answer it for the last time.

`ReceiversProofs` proves, for any users, avatars, groups, places and loads, the type invariant, which says that what is
ticked is in the list, and both properties of `receivers`. `AudienceIsShown` is inductive as it
stands by counting: a tick adds one to its URL on both sides, and unticking takes one from each. It
needs finitely many users.

`HandlePoolProofs` proves, for any number of threads and handles, any capacity and limit, the safety
properties of `handles`, `SeparateCloseHangs`, and that the lock is `ReadersWriters`. The invariant `LockInv` says
that the lock's counters are the numbers of threads at the places where they have it, or wait for it; `PlaceInv` says
which operation can be at which place. With them `ClosedToOthers` is the exclusion of readers and writers, and
each step of the lock maps to one of `ReadersWriters` or a stutter. `OneUser` needs in addition that the
list of idle handles holds none twice, and `LimitHolds` counts the threads that have
passed `Check` and not raised the count yet. `CountIsTrue` is about rest, and the count is not true on the
way there. `CountInv` says what it is: the idle handles and those that threads hold and have counted, and what threads
took out of the list and have not subtracted yet, less those put into the list and not counted yet; a configuration
that fails may leave it higher, never lower. What each of any number of threads has still to subtract is counted as a
set of pairs (`Removed`), so that no sum over the threads is needed. `WakeupsArrive` and `NeverAllAsleep` are the
safety half of `Returns`: with one condition variable for readers and writers nobody sleeps whom the lock would let
in, and somebody is always awake. `PoolAssumption` asks for finitely many threads.

Some properties are stated by theorems only and checked by no run. They are the facts behind a property that is checked, or
bound what a violation shows: `PublishedIsStored`, `FailuresAreIsolated`, `NeverResent` and
`FeedPublishedOnce` of posting; `HudHasCause`, `NeverAhead` and `NewsAreNotDropped` of the timeline; `NoLoadIsLost` of
the sync; `SpinnerHasCause` of the downloads; `KeychainAgrees`, `HasWayIn` and `HudHasCause` of the session;
`NoLostWakeup`, `NoDeadlock` and `ClosedButForLeavers` of the pool.

Only model-checked: the liveness properties (`PostSettles`, `HudGoes`, `NewsArrive`, `CatchesUp`, `SpinnerStops`,
`GetsIn`, `LoginHudGoes`, `Returns`), because the prover does not do fairness. What they rest on, that whatever must
happen stays under way until it does, is proved: for `PostSettles` it is `FailuresStayIsolated`, since a direct
request that is never disposed is waiting, which an answer or an error ends, or has ended.

## Not modelled

Listed with reasons in `PROJECT.json`. Rendering, layout, cameras, face detection, chat (fixed
data), message and picture lists (one actor reading a table) and utilities hold no state that two
steps could get wrong. Adding friends, comments and the photo browser do, and are in the plan. Of WCDB, the SQL, the ORM, SQLCipher and the
checkpoints are left out: they are single calls of a handle that a thread has to itself. `RSContactService`'s cache is
filled and never emptied; the code promises nothing about it. The receivers' list in which the members of a
new group are chosen is its result alone.

The accounts of `Session` and `Sync`, the posting pipeline and the timeline are modelled apart: author
and creator of a post are read late (`RSSpaceService.mm:146`) and the tables have no account
(`RSSpaceLineViewModel.mm:134`), and no property of the code contradicts either.

## Plan

1. `Session` composed with posting (author read late), the timeline (tables not keyed by account, the
   main view kept over a logout) and `Sync`, which has its own logins and logouts so far.
2. `AddFriends`: the photo's upload with its table-wide status, over `SpaceCreate`'s rows; the retry, which
   takes a new picture id and skips the upload; and the screen an answer reaches.
3. Comments and the browser, the second caller of `ImageDownload`: its handlers compare with the page of
   the moment, so that the picture shown is its page's, but one that comes late is dropped; and a comment
   goes to the page's star only in a space of pictures (`RSSpaceDetailAddCommentViewModel.m:25-26`).
4. `Receivers` as the environment of `SpaceCreate`: an audience is what `Send` leaves.
