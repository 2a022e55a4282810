-------------------------------- MODULE Sync --------------------------------
(***************************************************************************)
(* RSSyncService: the incremental download of the account's contacts.      *)
(* The backend numbers the changes of an account's contacts; the client    *)
(* keeps a cursor (syncBuff) per account in RSKeyValueService, asks for    *)
(* what follows it, saves the contacts, then the cursor, and asks again    *)
(* while the answer says there is more.                                    *)
(*                                                                         *)
(* Two threads run loadData, statement by statement: the main queue, when  *)
(* the user logs in, when the network comes back and in the callback of an *)
(* answer; and once the background queue on which the launch request       *)
(* completes.  The callback of an answer is not atomic either: the launch  *)
(* thread may come between the saving of the contacts and of the cursor,   *)
(* and disposing a subscription does not stop a callback that runs.        *)
(*                                                                         *)
(* At this commit RSRequestFactory has no service name for SyncReq         *)
(* (RSRequestFactory.m:53-63).  The module models the client from the      *)
(* point where a sync request is answered or fails.                        *)
(***************************************************************************)
EXTENDS Integers, Sequences, FiniteSets

CONSTANTS
  Uids,       \* accounts
  NoUid,      \* the empty uid: nobody is logged in
  Contacts,   \* contacts, in every account's list
  ReqIds,     \* names of subscriptions, more than can be alive together
  NoReq,      \* _disp is nil
  MaxLog,     \* bound: the changes of an account's contacts
  MaxEvents   \* bound: logins, logouts, network returns and restarts together

ASSUME NamesAssumption == NoUid \notin Uids /\ NoReq \notin ReqIds
ASSUME SizesAssumption == MaxLog \in Nat /\ MaxEvents \in Nat
ASSUME FreshAssumption ==
  \A a, b \in ReqIds \cup {NoReq} : \E i \in ReqIds : i \notin {a, b}

VARIABLES
  log,      \* the backend: per account, the address books its changes led to
  uid,      \* loginInfo.uid; a session exists exactly when there is a uid
  kv,       \* the cursors saved, by account: whose it is, and its number
  applied,  \* the newest version of each contact ever saved, per account
  reqs,     \* the sync subscriptions alive
  disp,     \* _disp, the subscription loadData disposes next
  thread,   \* where each thread is in loadData, with what it has read so far
  handling, \* the answer whose contacts are saved and whose cursor is not yet
  events,   \* how many of the bounded events have happened
  overlap,  \* history: the launch thread has loaded at the wrong time
  faulted   \* history: a request with a session, or a write, has failed

vars == <<log, uid, kv, applied, reqs, disp, thread, handling, events, overlap, faulted>>

NoCursor == [owner |-> NoUid, seq |-> 0]
Cursors  == [owner : Uids \cup {NoUid}, seq : 0..MaxLog]

\* A subscription: sent for an account from a cursor, later answered.
Request(i, u, c) == [id |-> i, owner |-> u, from |-> c, answered |-> FALSE, to |-> 0, isEnd |-> FALSE]
Requests == [id : ReqIds, owner : Uids \cup {NoUid}, from : Cursors,
             answered : BOOLEAN, to : 0..MaxLog, isEnd : BOOLEAN]

Threads == {"main", "launch"}
Phases  == {"pending", "idle", "checked", "disposed", "read", "sent"}
At(phase, c, i) == [phase |-> phase, cursor |-> c, id |-> i]
Idle == At("idle", NoCursor, NoReq)

\* A new process: the launch thread will load.
Started == [t \in Threads |-> IF t = "launch" THEN At("pending", NoCursor, NoReq) ELSE Idle]

\* An address book: the number of the last change to each contact, or 0.
Books   == [Contacts -> 0..MaxLog]
NoBook  == [k \in Contacts |-> 0]

\* Account u's after its first n changes.
BookAt(u, n) == IF n = 0 THEN NoBook ELSE log[u][n]

\* The main queue runs one block at a time; only such a block writes uid or kv.
MainIsFree == thread["main"] = Idle /\ handling = {}

Init ==
  /\ log = [u \in Uids |-> <<>>]
  /\ uid \in Uids \cup {NoUid}
  /\ kv = [u \in Uids \cup {NoUid} |-> NoCursor]
  /\ applied = [u \in Uids |-> NoBook]
  /\ reqs = {}
  /\ disp = NoReq
  /\ thread = Started
  /\ handling = {}
  /\ events = 0
  /\ overlap = FALSE /\ faulted = FALSE

(***************************************************************************)
(* loadData on thread t, one shared read or write at a time.               *)
(***************************************************************************)
InLoadData(t) == thread[t].phase \in {"checked", "disposed", "read", "sent"}

Goes(t, state) == thread' = [thread EXCEPT ![t] = state]

\* loadData is called, and returns at once if account u is nobody's.
Calls(t, u) ==
  IF u = NoUid
  THEN Goes(t, Idle) /\ UNCHANGED overlap
  ELSE /\ Goes(t, At("checked", NoCursor, NoReq))
       /\ overlap' = (overlap \/ \E o \in Threads \ {t} : InLoadData(o))

LaunchCalls ==
  /\ thread["launch"].phase = "pending"
  /\ Calls("launch", uid)
  /\ UNCHANGED <<log, uid, kv, applied, reqs, disp, handling, events, faulted>>

DisposedNot(rs) == rs   \* mutant: the last subscription goes on

Disposed(rs) == {r \in rs : r.id # disp}

\* Too late for an answer that is being handled.  Disposing it again would do
\* nothing, as if there were none.
Disposes(t) ==
  /\ thread[t].phase = "checked"
  /\ reqs' = Disposed(reqs)
  /\ disp' = NoReq
  /\ Goes(t, At("disposed", NoCursor, NoReq))
  /\ overlap' = (overlap \/ handling # {})
  /\ UNCHANGED <<log, uid, kv, applied, handling, events, faulted>>

Reads(t) ==
  /\ thread[t].phase = "disposed"
  /\ Goes(t, At("read", kv[uid], NoReq))
  /\ UNCHANGED <<log, uid, kv, applied, reqs, disp, handling, events, overlap, faulted>>

FreshId ==
  CHOOSE i \in ReqIds : i \notin {r.id : r \in reqs} \cup {disp} \cup {thread[t].id : t \in Threads}

Sends(t) ==
  /\ thread[t].phase = "read"
  /\ reqs' = reqs \cup {Request(FreshId, uid, thread[t].cursor)}
  /\ Goes(t, At("sent", NoCursor, FreshId))
  /\ UNCHANGED <<log, uid, kv, applied, disp, handling, events, overlap, faulted>>

Stores(t) ==
  /\ thread[t].phase = "sent"
  /\ disp' = thread[t].id
  /\ Goes(t, Idle)
  /\ UNCHANGED <<log, uid, kv, applied, reqs, handling, events, overlap, faulted>>

LoadData(t) == Disposes(t) \/ Reads(t) \/ Sends(t) \/ Stores(t)

Launch == LaunchCalls \/ LoadData("launch")

(***************************************************************************)
(* What happens on the main queue beside answers.                          *)
(***************************************************************************)
Event == events < MaxEvents /\ events' = events + 1

\* The answer to a login, also one that comes late, over another session.
Login(u) ==
  /\ Event
  /\ MainIsFree
  /\ uid' = u
  /\ Calls("main", u)
  /\ UNCHANGED <<log, kv, applied, reqs, disp, handling, faulted>>

\* Logging out stops no request.
Logout ==
  /\ Event
  /\ MainIsFree
  /\ uid # NoUid
  /\ uid' = NoUid
  /\ overlap' = (overlap \/ InLoadData("launch"))
  /\ UNCHANGED <<log, kv, applied, reqs, disp, thread, handling, faulted>>

\* The reachability callback, with WWAN or WiFi.
NetworkReturns ==
  /\ Event
  /\ MainIsFree
  /\ Calls("main", uid)
  /\ UNCHANGED <<log, uid, kv, applied, reqs, disp, handling, faulted>>

(***************************************************************************)
(* The backend.                                                            *)
(***************************************************************************)
Change(u, k) ==
  /\ Len(log[u]) < MaxLog
  /\ log' = [log EXCEPT ![u] = Append(@, [BookAt(u, Len(@)) EXCEPT ![k] = Len(log[u]) + 1])]
  /\ UNCHANGED <<uid, kv, applied, reqs, disp, thread, handling, events, overlap, faulted>>

\* It answers a session, with the changes after the cursor or the first part
\* of them.  Nothing in a cursor says whose it is, as far as the client knows.
Answer(r) ==
  /\ r \in reqs /\ ~r.answered /\ r.owner # NoUid
  /\ \E n \in 0..Len(log[r.owner]) :
       /\ n > r.from.seq \/ n = Len(log[r.owner])
       /\ reqs' = (reqs \ {r}) \cup
            {[r EXCEPT !.answered = TRUE, !.to = n, !.isEnd = (n = Len(log[r.owner]))]}
  /\ UNCHANGED <<log, uid, kv, applied, disp, thread, handling, events, overlap, faulted>>

(***************************************************************************)
(* The callbacks of a subscription that was not disposed, on the main      *)
(* queue.                                                                  *)
(***************************************************************************)
Newest(a, b) == IF a > b THEN a ELSE b

SaveContacts(r) ==
  applied' = [applied EXCEPT ![r.owner] = [k \in Contacts |->
                IF BookAt(r.owner, r.to)[k] > r.from.seq
                THEN Newest(@[k], BookAt(r.owner, r.to)[k]) ELSE @[k]]]

\* The contacts are saved.
Receive(r) ==
  /\ MainIsFree
  /\ r \in reqs /\ r.answered
  /\ SaveContacts(r)
  /\ reqs' = reqs \ {r}
  /\ handling' = {r}
  /\ UNCHANGED <<log, uid, kv, disp, thread, events, overlap, faulted>>

ReceiveUnsavedAdvancing(r) ==   \* mutant: the cursor is saved all the same
  /\ MainIsFree
  /\ r \in reqs /\ r.answered
  /\ reqs' = reqs \ {r}
  /\ handling' = {r}
  /\ UNCHANGED <<log, uid, kv, applied, disp, thread, events, overlap>>
  /\ faulted' = TRUE

\* They are not, and the rest stops.
ReceiveUnsaved(r) ==
  /\ MainIsFree
  /\ r \in reqs /\ r.answered
  /\ reqs' = reqs \ {r}
  /\ UNCHANGED <<log, uid, kv, applied, disp, thread, handling, events, overlap>>
  /\ faulted' = TRUE

NextCursorPast(r) == [owner |-> r.owner, seq |-> r.to + 1]   \* mutant: one too far

\* The cursor an answer brings.
NextCursor(r) == [owner |-> r.owner, seq |-> r.to]

SavesCursorOnce(r) ==   \* mutant: isEnd is not looked at
  /\ r \in handling
  /\ handling' = {}
  /\ kv' = [kv EXCEPT ![uid] = NextCursor(r)]
  /\ UNCHANGED <<log, uid, applied, reqs, disp, thread, events, overlap, faulted>>

\* Then the cursor is saved, under the key of whoever is logged in now; if there
\* is more, ask for it.
SavesCursor(r) ==
  /\ r \in handling
  /\ handling' = {}
  /\ kv' = [kv EXCEPT ![uid] = NextCursor(r)]
  /\ IF r.isEnd THEN UNCHANGED <<thread, overlap>> ELSE Calls("main", uid)
  /\ UNCHANGED <<log, uid, applied, reqs, disp, events, faulted>>

CursorUnsaved(r) ==
  /\ r \in handling
  /\ handling' = {}
  /\ UNCHANGED <<log, uid, kv, applied, reqs, disp, thread, events, overlap>>
  /\ faulted' = TRUE

\* A request without a session is always refused.
Fail(r) ==
  /\ MainIsFree
  /\ r \in reqs
  /\ reqs' = reqs \ {r}
  /\ UNCHANGED <<log, uid, kv, applied, disp, thread, handling, events, overlap>>
  /\ faulted' = (faulted \/ r.owner # NoUid)

\* Killed and started again: the tables and the keychain's session are left.
Restart ==
  /\ Event
  /\ reqs' = {}
  /\ disp' = NoReq
  /\ thread' = Started
  /\ handling' = {}
  /\ UNCHANGED <<log, uid, kv, applied, overlap, faulted>>

MainQueue == LoadData("main") \/ \E r \in handling : SavesCursor(r) \/ CursorUnsaved(r)

Callback == \E r \in reqs : Answer(r) \/ Receive(r) \/ ReceiveUnsaved(r) \/ Fail(r)

Next ==
  \/ \E u \in Uids : Login(u) \/ \E k \in Contacts : Change(u, k)
  \/ Logout \/ NetworkReturns \/ Restart
  \/ Launch \/ MainQueue
  \/ Callback

Spec == Init /\ [][Next]_vars

\* Both threads run on; a request is answered or fails in the end.
FairSpec == Spec /\ WF_vars(Launch) /\ WF_vars(MainQueue) /\ WF_vars(Callback)

-----------------------------------------------------------------------------
(* Properties *)

TypeOK ==
  /\ log \in [Uids -> Seq(Books)]
  /\ uid \in Uids \cup {NoUid}
  /\ kv \in [Uids \cup {NoUid} -> Cursors]
  /\ applied \in [Uids -> Books]
  /\ reqs \subseteq Requests
  /\ disp \in ReqIds \cup {NoReq}
  /\ thread \in [Threads -> [phase : Phases, cursor : Cursors, id : ReqIds \cup {NoReq}]]
  /\ handling \subseteq Requests
  /\ events \in 0..MaxEvents
  /\ overlap \in BOOLEAN /\ faulted \in BOOLEAN

\* One subscription is alive at a time, since loadData disposes the last one
\* first; two only if the launch thread loaded at the wrong time: beside the main
\* queue's loadData, over a login or logout, or in the middle of an answer
\* (RSSyncService.m:44-62, RSLaunchService.m:54-57).
OneSync ==
  Cardinality(reqs) > 1 => overlap

\* No account's cursor is ever another account's, although nothing is cancelled
\* on logout and an answer is saved under the uid of the moment: logging in
\* disposes what is left of the last session (RSSyncService.m:44-58).
CursorIsOwn ==
  ~overlap => \A u \in Uids : kv[u] = NoCursor \/ kv[u].owner = u

\* No change is skipped: every change a saved cursor stands for was saved in the
\* table of contacts before it, whichever writes failed (RSSyncService.m:55-58).
NothingSkipped ==
  ~overlap => \A u \in Uids, k \in Contacts :
                kv[u].owner = u => applied[u][k] >= BookAt(u, kv[u].seq)[k]

\* A cursor never moves back (RSSyncService.m:44-58).
CursorAdvances ==
  [][~overlap' => \A u \in Uids : kv'[u].seq >= kv[u].seq]_vars

\* A load catches up with what the backend had when it was sent, in as many
\* answers as that takes, unless the user logs out or another account logs in.
CatchesUp ==
  \A u \in Uids, n \in 1..MaxLog :
    (Len(log[u]) >= n /\ \E r \in reqs : r.owner = u /\ ~r.answered)
      ~> (uid # u \/ kv[u].seq >= n \/ faulted)

\* Account u's first n changes are being loaded: by a subscription whose answer, to
\* come or being received, brings them or leads to the next, or by a thread that will
\* send one.
Underway(u, n) ==
  /\ Len(log[u]) >= n
  /\ \/ \E r \in reqs \cup handling : r.owner = u /\ (r.answered => r.to >= n \/ ~r.isEnd)
     \/ uid = u /\ \E t \in Threads :
                      thread[t].phase \in {"pending", "checked", "disposed", "read"}

\* No load is lost on the way, not by the disposal of its subscription, an answer in
\* parts, a restart, or the launch thread loading at any time: it stays under way
\* until the cursor has passed what it is for (RSSyncService.m:40-69).
NoLoadIsLost ==
  [][\A u \in Uids, n \in 1..MaxLog :
       Underway(u, n) => Underway(u, n)' \/ uid' # u \/ kv'[u].seq >= n \/ faulted']_vars
==============================================================================
