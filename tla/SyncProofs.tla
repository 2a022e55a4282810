----------------------------- MODULE SyncProofs -----------------------------
(***************************************************************************)
(* For any accounts, contacts and number of events: one sync at a time,    *)
(* cursors of the right account that skip nothing and never go back, as    *)
(* long as the launch thread does not load beside the main queue, over a   *)
(* login or logout, or in the middle of an answer.                         *)
(***************************************************************************)
EXTENDS Sync, FiniteSetTheorems, TLAPS

Accounts == Uids \cup {NoUid}
States == [phase : Phases, cursor : Cursors, id : ReqIds \cup {NoReq}]

\* A thread that has disposed the last subscription and not stored the next.
HasDisposed(t) == thread[t].phase \in {"disposed", "read", "sent"}

\* A book names the last change to a contact, so that it is the same in every
\* book from that change on.
LogInv ==
  \A u \in Uids :
    /\ Len(log[u]) <= MaxLog
    /\ \A j \in 0..Len(log[u]), k \in Contacts :
         /\ BookAt(u, j)[k] <= j
         /\ \A i \in 0..j : BookAt(u, j)[k] <= i => BookAt(u, i)[k] = BookAt(u, j)[k]

\* Which subscriptions may be alive: the main queue's, and one more, which is the
\* launch thread's, or one that it made the main queue forget.
Among(ids) == \A r \in reqs : r.id \in ids

MainId == IF HasDisposed("main") THEN thread["main"].id ELSE disp

IdsInv ==
  /\ \A t \in Threads : thread[t].phase # "sent" => thread[t].id = NoReq
  /\ \E x \in ReqIds \cup {NoReq} :
       /\ thread["launch"].phase # "idle" => x = thread["launch"].id
       /\ Among({x, MainId})

\* The main queue handles one answer, and nothing else meanwhile.
HandlingInv ==
  \A r \in handling : handling = {r} /\ r.answered /\ thread["main"] = Idle

AnswersInv ==
  \A r \in reqs \cup handling :
    r.answered => r.owner \in Uids /\ r.to <= Len(log[r.owner])

\* One thread is in loadData, and nothing is alive beside what it has sent.
ThreadsInv ==
  /\ \A t, o \in Threads : InLoadData(t) /\ InLoadData(o) => t = o
  /\ \A t \in Threads :
       /\ InLoadData(t) => uid \in Uids
       /\ thread[t].phase \in {"disposed", "read"} => reqs = {} /\ handling = {}
       /\ thread[t].phase = "sent" => Among({thread[t].id})
       /\ thread[t].phase = "read" => thread[t].cursor = kv[uid]
  /\ (\A t \in Threads : ~HasDisposed(t)) => Among({disp})

\* What is asked continues the cursor of whoever is logged in, until the main
\* queue loads for another.
AskedInv ==
  /\ \A r, s \in reqs : r = s
  /\ handling # {} => reqs = {}
  /\ \A r \in reqs \cup handling :
       /\ r.owner \in Uids
       /\ uid \in Uids /\ thread["main"].phase # "checked" => r.owner = uid /\ r.from = kv[uid]
       /\ r.from.seq <= Len(log[r.owner])
       /\ r.answered => r.from.seq <= r.to

\* The contacts are saved before the cursor.
KeptInv ==
  /\ \A u \in Uids :
       /\ kv[u] = NoCursor \/ kv[u].owner = u
       /\ kv[u].seq <= Len(log[u])
       /\ \A k \in Contacts : applied[u][k] >= BookAt(u, kv[u].seq)[k]
  /\ uid \in Uids => \A r \in handling, k \in Contacts : applied[uid][k] >= BookAt(uid, r.to)[k]

CalmInv == ~overlap => ThreadsInv /\ AskedInv /\ KeptInv

IInv == TypeOK /\ LogInv /\ IdsInv /\ HandlingInv /\ AnswersInv /\ CalmInv

-----------------------------------------------------------------------------
(* Requests, ids, threads and books *)

LEMMA RequestFields ==
  ASSUME NEW i \in ReqIds, NEW u \in Accounts, NEW c \in Cursors
  PROVE  /\ Request(i, u, c) \in Requests
         /\ Request(i, u, c).id = i /\ Request(i, u, c).owner = u
         /\ Request(i, u, c).from = c /\ ~Request(i, u, c).answered
  BY SizesAssumption DEF Request, Requests, Accounts, SizesAssumption

LEMMA StateFields ==
  ASSUME NEW p \in Phases, NEW c \in Cursors, NEW i \in ReqIds \cup {NoReq}
  PROVE  /\ At(p, c, i) \in States
         /\ At(p, c, i).phase = p /\ At(p, c, i).cursor = c /\ At(p, c, i).id = i
  BY DEF At, States

LEMMA IdleFields ==
  /\ NoCursor \in Cursors
  /\ Idle \in States /\ Idle.phase = "idle" /\ Idle.id = NoReq
  /\ Started \in [Threads -> States]
  /\ Started["main"] = Idle
  /\ Started["launch"].phase = "pending" /\ Started["launch"].id = NoReq
  <1>1. NoCursor \in Cursors
    BY SizesAssumption DEF NoCursor, Cursors, SizesAssumption
  <1>2. Idle \in States /\ Idle.phase = "idle" /\ Idle.id = NoReq
    BY <1>1 DEF Idle, At, States, Phases
  <1>3. At("pending", NoCursor, NoReq) \in States
    BY <1>1 DEF At, States, Phases
  <1>4. Started \in [Threads -> States]
    BY <1>2, <1>3 DEF Started
  <1>5. Started["main"] = Idle /\ Started["launch"] = At("pending", NoCursor, NoReq)
    BY DEF Started, Threads
  <1> QED
    BY <1>1, <1>2, <1>4, <1>5 DEF At

\* A step of one thread.
LEMMA GoesTo ==
  ASSUME TypeOK, NEW t \in Threads, NEW s \in States, Goes(t, s)
  PROVE  /\ thread' \in [Threads -> States]
         /\ thread'[t] = s
         /\ \A o \in Threads : o # t => thread'[o] = thread[o]
  BY DEF TypeOK, Goes, States

\* There is a name left for a new subscription.
LEMMA FreshIdIsFresh ==
  ASSUME TypeOK, IdsInv, NEW t \in Threads, thread[t].phase = "read"
  PROVE  FreshId \in ReqIds
  <1>1. PICK x \in ReqIds \cup {NoReq} :
          /\ thread["launch"].phase # "idle" => x = thread["launch"].id
          /\ Among({x, MainId})
    BY DEF IdsInv
  <1>2. \A o \in Threads : thread[o].id \in ReqIds \cup {NoReq} /\ thread[o].phase \in Phases
    BY DEF TypeOK
  <1>3. disp \in ReqIds \cup {NoReq}
    BY DEF TypeOK
  <1>4. \E y \in ReqIds \cup {NoReq} :
          \A i \in {r.id : r \in reqs} \cup {disp} \cup {thread[o].id : o \in Threads} :
             i \in {y, disp, NoReq}
    <2>1. CASE t = "main"
      <3>1. MainId = NoReq /\ thread["main"].id = NoReq /\ thread["launch"].id \in {x, NoReq}
        BY <1>1, <2>1 DEF IdsInv, MainId, HasDisposed, Threads
      <3> QED
        BY <1>1, <3>1 DEF Among, Threads
    <2>2. CASE t = "launch"
      <3>1. x = NoReq /\ thread["launch"].id = NoReq
        BY <1>1, <2>2 DEF IdsInv, Threads
      <3>2. MainId \in {thread["main"].id, disp}
        BY DEF MainId
      <3> QED
        BY <1>1, <1>2, <3>1, <3>2 DEF Among, Threads
    <2> QED
      BY <2>1, <2>2 DEF Threads
  <1>5. PICK i \in ReqIds :
          i \notin {r.id : r \in reqs} \cup {disp} \cup {thread[o].id : o \in Threads}
    <2>1. PICK y \in ReqIds \cup {NoReq} :
            \A i \in {r.id : r \in reqs} \cup {disp} \cup {thread[o].id : o \in Threads} :
               i \in {y, disp, NoReq}
      BY <1>4
    <2>2. PICK i \in ReqIds : i \notin {y, disp}
      BY <1>3, <2>1, FreshAssumption DEF FreshAssumption
    <2>3. i # NoReq
      BY <2>2, NamesAssumption DEF NamesAssumption
    <2> QED
      BY <2>1, <2>2, <2>3
  <1> QED
    BY <1>5 DEF FreshId

LEMMA BookTypes ==
  ASSUME TypeOK, LogInv, NEW u \in Uids, NEW j \in 0..Len(log[u])
  PROVE  BookAt(u, j) \in Books /\ j \in 0..MaxLog
  <1>1. log[u] \in Seq(Books) /\ Len(log[u]) \in Nat /\ Len(log[u]) <= MaxLog
    BY DEF TypeOK, LogInv
  <1>2. CASE j = 0
    BY <1>2, SizesAssumption DEF BookAt, NoBook, Books, SizesAssumption
  <1>3. CASE j # 0
    <2>1. j \in 1..Len(log[u])
      BY <1>1, <1>3
    <2>2. log[u][j] \in Books
      BY <1>1, <2>1
    <2> QED
      BY <1>1, <1>3, <2>2, SizesAssumption DEF BookAt, SizesAssumption
  <1> QED
    BY <1>2, <1>3

-----------------------------------------------------------------------------
(* What an action that leaves the log and the tables alone keeps *)

LEMMA BooksKept ==
  ASSUME LogInv, UNCHANGED log
  PROVE  LogInv'
  BY DEF LogInv, BookAt

LEMMA KeptKept ==
  ASSUME KeptInv, UNCHANGED <<log, kv, applied>>,
         handling' = {} \/ UNCHANGED <<uid, handling>>
  PROVE  KeptInv'
  BY DEF KeptInv, BookAt, NoCursor

LEMMA AnswersKept ==
  ASSUME AnswersInv, UNCHANGED log,
         \A r \in reqs' \cup handling' : r \in reqs \cup handling \/ ~r.answered
  PROVE  AnswersInv'
  BY DEF AnswersInv

-----------------------------------------------------------------------------
(* The invariant: loadData *)

LEMMA CallTypes ==
  ASSUME TypeOK, NEW t \in Threads, NEW u, Calls(t, u)
  PROVE  thread' \in [Threads -> States] /\ overlap' \in BOOLEAN
  <1>1. At("checked", NoCursor, NoReq) \in States
    BY IdleFields, StateFields DEF Phases
  <1> QED
    BY <1>1, IdleFields, GoesTo DEF Calls, TypeOK

\* A call by thread t, whose caller may have changed who is logged in, or the
\* cursors.
LEMMA CallKeeps ==
  ASSUME IInv, TypeOK', NEW t \in Threads, ~InLoadData(t), Calls(t, uid'),
         UNCHANGED <<log, reqs, disp>>, handling' \subseteq handling,
         \/ t = "main" /\ handling' = {}
         \/ t = "launch" /\ thread[t].phase = "pending" /\ UNCHANGED <<uid, kv>>,
         uid' = NoUid => uid' = uid,
         ~overlap => KeptInv'
  PROVE  IInv'
  <1>1. /\ TypeOK /\ thread[t].phase \in Phases /\ overlap \in BOOLEAN
        /\ uid' \in Accounts
    BY DEF IInv, TypeOK, Accounts
  <1>2. PICK s \in States : /\ Goes(t, s) /\ s.id = NoReq
                            /\ s.phase \in {"idle", "checked"}
                            /\ s.phase = "idle" <=> uid' = NoUid
                            /\ s.phase = "idle" => s = Idle
    <2>1. At("checked", NoCursor, NoReq) \in States /\ At("checked", NoCursor, NoReq).id = NoReq
          /\ At("checked", NoCursor, NoReq).phase = "checked"
      BY IdleFields, StateFields DEF Phases
    <2> QED
      BY <2>1, IdleFields DEF Calls
  <1>3. thread'[t] = s /\ \A o \in Threads : o # t => thread'[o] = thread[o]
    BY <1>1, <1>2, GoesTo
  <1>4. /\ overlap => overlap'
        /\ ~overlap' /\ uid' # NoUid => \A o \in Threads : ~InLoadData(o)
    BY <1>1 DEF Calls
  <1>5. ~HasDisposed(t) /\ ~HasDisposed(t)' /\ thread[t].phase # "sent" /\ thread'[t].phase # "sent"
    BY <1>2, <1>3 DEF InLoadData, HasDisposed
  <1>6. LogInv' /\ AnswersInv'
    BY BooksKept, AnswersKept DEF IInv
  <1>7. HandlingInv'
    <2>1. handling' # {} => thread'["main"] = thread["main"]
      BY <1>3 DEF Threads
    <2> QED
      BY <2>1 DEF IInv, HandlingInv
  <1>8. IdsInv'
    <2>1. MainId' = MainId
      BY <1>3, <1>5 DEF MainId, HasDisposed, Threads
    <2>2. \A o \in Threads : thread'[o].phase # "sent" => thread'[o].id = NoReq
      BY <1>2, <1>3 DEF IInv, IdsInv
    <2>3. PICK x \in ReqIds \cup {NoReq} :
            /\ thread["launch"].phase # "idle" => x = thread["launch"].id
            /\ Among({x, MainId})
      BY DEF IInv, IdsInv
    <2>4. thread'["launch"].phase # "idle" /\ thread["launch"].phase # "idle"
            => thread'["launch"].id = thread["launch"].id
      BY <1>2, <1>3, <1>5 DEF IInv, IdsInv, Threads
    <2>5. CASE thread'["launch"].phase = "idle"
      BY <2>1, <2>2, <2>3, <2>5 DEF IdsInv, Among
    <2>6. CASE thread["launch"].phase # "idle"
      BY <2>1, <2>2, <2>3, <2>4, <2>6 DEF IdsInv, Among
    <2>7. CASE thread["launch"].phase = "idle" /\ thread'["launch"].phase # "idle" /\ t = "launch"
      BY <2>7
    <2> QED
      BY <1>3, <2>5, <2>6, <2>7 DEF Threads
  <1>9. ASSUME ~overlap'
        PROVE  ThreadsInv' /\ AskedInv' /\ KeptInv'
    <2>1. ThreadsInv /\ AskedInv /\ KeptInv'
      BY <1>4, <1>9 DEF IInv, CalmInv
    <2>2. \A o \in Threads : ~InLoadData(o)
      <3>1. CASE uid' = NoUid
        BY <2>1, <3>1, NamesAssumption DEF ThreadsInv, NamesAssumption
      <3>2. CASE uid' # NoUid
        BY <1>4, <1>9, <3>2
      <3> QED
        BY <3>1, <3>2
    <2>3. \A o \in Threads : /\ thread'[o].phase \notin {"disposed", "read", "sent"}
                             /\ InLoadData(o)' => o = t /\ uid' \in Uids
      BY <1>1, <1>2, <1>3, <2>2 DEF InLoadData, Accounts
    <2>4. Among({disp})
      BY <2>1, <2>2 DEF ThreadsInv, InLoadData, HasDisposed
    <2>5. ThreadsInv'
      BY <2>3, <2>4 DEF ThreadsInv, Among
    <2>6. uid' \in Uids /\ thread'["main"].phase # "checked" => t = "launch"
      BY <1>2, <1>3, NamesAssumption DEF NamesAssumption
    <2>7. t = "launch" => thread'["main"] = thread["main"]
      BY <1>3 DEF Threads
    <2>8. AskedInv'
      BY <2>1, <2>6, <2>7 DEF AskedInv
    <2> QED
      BY <2>1, <2>5, <2>8
  <1> QED
    BY <1>6, <1>7, <1>8, <1>9 DEF IInv, CalmInv

LEMMA DisposesKeeps == ASSUME IInv, NEW t \in Threads, Disposes(t) PROVE IInv'
  <1>1. /\ thread[t].phase = "checked" /\ reqs' = Disposed(reqs) /\ disp' = NoReq
        /\ Goes(t, At("disposed", NoCursor, NoReq))
        /\ overlap' = (overlap \/ handling # {})
        /\ UNCHANGED <<log, uid, kv, applied, handling, events, faulted>>
    BY DEF Disposes
  <1>2. /\ thread' \in [Threads -> States]
        /\ thread'[t].phase = "disposed" /\ thread'[t].id = NoReq
        /\ \A o \in Threads : o # t => thread'[o] = thread[o]
    BY <1>1, IdleFields, StateFields, GoesTo DEF IInv, Phases
  <1>3. reqs' \subseteq reqs /\ \A r \in reqs' : r.id # disp
    BY <1>1 DEF Disposed
  <1>4. TypeOK'
    BY <1>1, <1>2, <1>3 DEF IInv, TypeOK, States
  <1>5. LogInv' /\ AnswersInv'
    BY <1>1, <1>3, BooksKept, AnswersKept DEF IInv
  <1>6. HandlingInv'
    <2>1. t = "main" => handling = {}
      BY <1>1, IdleFields DEF IInv, HandlingInv
    <2> QED
      BY <1>1, <1>2, <2>1 DEF IInv, HandlingInv, Threads
  <1>7. IdsInv'
    <2>1. PICK x \in ReqIds \cup {NoReq} :
            /\ thread["launch"].phase # "idle" => x = thread["launch"].id
            /\ Among({x, MainId})
      BY DEF IInv, IdsInv
    <2>2. thread[t].id = NoReq
      BY <1>1 DEF IInv, IdsInv
    <2>3. thread'["launch"].phase # "idle" => x = thread'["launch"].id
      BY <1>1, <1>2, <2>1, <2>2 DEF Threads
    <2>4. \A r \in reqs' : r.id \in {x, MainId'}
      <3>1. CASE t = "main"
        BY <1>1, <1>3, <2>1, <3>1 DEF Among, MainId, HasDisposed
      <3>2. CASE t = "launch" /\ HasDisposed("main")
        BY <1>2, <1>3, <2>1, <3>2 DEF Among, MainId, HasDisposed, Threads
      <3>3. CASE t = "launch" /\ ~HasDisposed("main")
        BY <1>3, <2>1, <3>3 DEF Among, MainId
      <3> QED
        BY <3>1, <3>2, <3>3 DEF Threads
    <2>5. \A o \in Threads : thread'[o].phase # "sent" => thread'[o].id = NoReq
      BY <1>2 DEF IInv, IdsInv
    <2> QED
      BY <2>3, <2>4, <2>5 DEF IdsInv, Among
  <1>8. ASSUME ~overlap'
        PROVE  ThreadsInv' /\ AskedInv' /\ KeptInv'
    <2>1. ~overlap /\ handling = {} /\ ThreadsInv /\ KeptInv
      BY <1>1, <1>8 DEF IInv, TypeOK, CalmInv
    <2>2. InLoadData(t) /\ \A o \in Threads : o # t => ~InLoadData(o)
      BY <1>1, <2>1 DEF ThreadsInv, InLoadData
    <2>3. reqs' = {}
      <3>1. Among({disp})
        BY <1>1, <2>1, <2>2 DEF ThreadsInv, InLoadData, HasDisposed
      <3> QED
        BY <1>3, <3>1 DEF Among
    <2>4. \A o \in Threads : InLoadData(o)' => o = t
      BY <1>2, <2>2 DEF InLoadData
    <2>5. uid \in Uids
      BY <2>1, <2>2 DEF ThreadsInv
    <2>6. ThreadsInv'
      BY <1>1, <1>2, <2>1, <2>3, <2>4, <2>5 DEF ThreadsInv, Among, InLoadData
    <2>7. AskedInv'
      BY <1>1, <2>1, <2>3 DEF AskedInv
    <2> QED
      BY <1>1, <2>1, <2>6, <2>7, KeptKept
  <1> QED
    BY <1>4, <1>5, <1>6, <1>7, <1>8 DEF IInv, CalmInv

LEMMA ReadsKeeps == ASSUME IInv, NEW t \in Threads, Reads(t) PROVE IInv'
  <1>1. /\ thread[t].phase = "disposed" /\ Goes(t, At("read", kv[uid], NoReq))
        /\ UNCHANGED <<log, uid, kv, applied, reqs, disp, handling, events, overlap, faulted>>
    BY DEF Reads
  <1>2. kv[uid] \in Cursors
    BY DEF IInv, TypeOK
  <1>3. /\ thread' \in [Threads -> States]
        /\ thread'[t].phase = "read" /\ thread'[t].id = NoReq /\ thread'[t].cursor = kv[uid]
        /\ \A o \in Threads : o # t => thread'[o] = thread[o]
    BY <1>1, <1>2, StateFields, GoesTo DEF IInv, Phases
  <1>4. TypeOK'
    BY <1>1, <1>3 DEF IInv, TypeOK, States
  <1>5. LogInv' /\ AnswersInv'
    BY <1>1, BooksKept, AnswersKept DEF IInv
  <1>6. HandlingInv'
    <2>1. t = "main" => handling = {}
      BY <1>1, IdleFields DEF IInv, HandlingInv
    <2> QED
      BY <1>1, <1>3, <2>1 DEF IInv, HandlingInv, Threads
  <1>7. IdsInv'
    <2>1. thread[t].id = NoReq
      BY <1>1 DEF IInv, IdsInv
    <2>2. \A o \in Threads : thread'[o].id = thread[o].id
      BY <1>3, <2>1
    <2>3. MainId' = MainId
      BY <1>1, <1>3, <2>2 DEF MainId, HasDisposed, Threads
    <2>4. thread["launch"].phase = "idle" <=> thread'["launch"].phase = "idle"
      BY <1>1, <1>3 DEF Threads
    <2>5. \A o \in Threads : thread'[o].phase # "sent" => thread'[o].id = NoReq
      BY <1>3 DEF IInv, IdsInv
    <2> QED
      BY <1>1, <2>2, <2>3, <2>4, <2>5 DEF IInv, IdsInv, Among, Threads
  <1>8. ASSUME ThreadsInv, AskedInv, KeptInv
        PROVE  ThreadsInv' /\ AskedInv' /\ KeptInv'
    <2>1. \A o \in Threads : InLoadData(o)' <=> InLoadData(o)
      BY <1>1, <1>3 DEF InLoadData
    <2>2. ThreadsInv'
      BY <1>1, <1>3, <1>8, <2>1 DEF ThreadsInv, Among, HasDisposed
    <2>3. thread["main"].phase = "checked" <=> thread'["main"].phase = "checked"
      BY <1>1, <1>3 DEF Threads
    <2>4. AskedInv'
      BY <1>1, <1>8, <2>3 DEF AskedInv
    <2> QED
      BY <1>1, <1>8, <2>2, <2>4, KeptKept
  <1> QED
    BY <1>1, <1>4, <1>5, <1>6, <1>7, <1>8 DEF IInv, CalmInv

LEMMA SendsKeeps == ASSUME IInv, NEW t \in Threads, Sends(t) PROVE IInv'
  <1> DEFINE i == FreshId
             r == Request(i, uid, thread[t].cursor)
  <1>1. /\ thread[t].phase = "read" /\ Goes(t, At("sent", NoCursor, i))
        /\ reqs' = reqs \cup {r}
        /\ UNCHANGED <<log, uid, kv, applied, disp, handling, events, overlap, faulted>>
    BY DEF Sends
  <1>2. i \in ReqIds
    BY <1>1, FreshIdIsFresh DEF IInv
  <1> HIDE DEF i
  <1>3. thread[t].cursor \in Cursors /\ uid \in Accounts
    BY DEF IInv, TypeOK, Accounts
  <1>4. /\ r \in Requests /\ r.id = i /\ r.owner = uid /\ r.from = thread[t].cursor
        /\ ~r.answered
    BY <1>2, <1>3, RequestFields
  <1> HIDE DEF r
  <1>5. /\ thread' \in [Threads -> States]
        /\ thread'[t].phase = "sent" /\ thread'[t].id = i
        /\ \A o \in Threads : o # t => thread'[o] = thread[o]
    BY <1>1, <1>2, IdleFields, StateFields, GoesTo DEF IInv, Phases
  <1>6. TypeOK'
    BY <1>1, <1>4, <1>5 DEF IInv, TypeOK, States
  <1>7. LogInv' /\ AnswersInv'
    BY <1>1, <1>4, BooksKept, AnswersKept DEF IInv
  <1>8. HandlingInv'
    <2>1. t = "main" => handling = {}
      BY <1>1, IdleFields DEF IInv, HandlingInv
    <2> QED
      BY <1>1, <1>5, <2>1 DEF IInv, HandlingInv, Threads
  <1>9. IdsInv'
    <2>1. PICK x \in ReqIds \cup {NoReq} :
            /\ thread["launch"].phase # "idle" => x = thread["launch"].id
            /\ Among({x, MainId})
      BY DEF IInv, IdsInv
    <2>2. thread[t].id = NoReq
      BY <1>1 DEF IInv, IdsInv
    <2>3. \A s \in reqs : s.id # NoReq
      BY NamesAssumption DEF IInv, TypeOK, Requests, NamesAssumption
    <2>4. \A o \in Threads : thread'[o].phase # "sent" => thread'[o].id = NoReq
      BY <1>5 DEF IInv, IdsInv
    <2>5. CASE t = "main"
      <3>1. MainId = NoReq /\ MainId' = i /\ thread'["launch"] = thread["launch"]
        BY <1>1, <1>5, <2>2, <2>5 DEF MainId, HasDisposed, Threads
      <3>2. \A s \in reqs' : s.id \in {x, i}
        BY <1>1, <1>4, <2>1, <2>3, <3>1 DEF Among
      <3> QED
        BY <2>1, <2>4, <3>1, <3>2 DEF IdsInv, Among
    <2>6. CASE t = "launch"
      <3>1. x = NoReq /\ thread'["launch"].id = i /\ MainId' = MainId
        BY <1>1, <1>5, <2>1, <2>2, <2>6 DEF MainId, HasDisposed, Threads
      <3>2. \A s \in reqs' : s.id \in {i, MainId}
        BY <1>1, <1>4, <2>1, <2>3, <3>1 DEF Among
      <3> QED
        BY <1>2, <2>4, <3>1, <3>2 DEF IdsInv, Among
    <2> QED
      BY <2>5, <2>6 DEF Threads
  <1>10. ASSUME ThreadsInv, AskedInv, KeptInv
         PROVE  ThreadsInv' /\ AskedInv' /\ KeptInv'
    <2>1. /\ reqs' = {r} /\ handling' = {} /\ uid \in Uids /\ thread[t].cursor = kv[uid]
      BY <1>1, <1>10 DEF ThreadsInv, InLoadData
    <2>2. \A o \in Threads : InLoadData(o)' <=> InLoadData(o)
      BY <1>1, <1>5 DEF InLoadData
    <2>3. \A o \in Threads : o # t => ~InLoadData(o)
      BY <1>1, <1>10 DEF ThreadsInv, InLoadData
    <2>4. \A o \in Threads : o # t => thread'[o].phase \notin {"disposed", "read", "sent"}
      BY <1>5, <2>3 DEF InLoadData
    <2>5. ThreadsInv'
      BY <1>1, <1>4, <1>5, <1>10, <2>1, <2>2, <2>4 DEF ThreadsInv, Among, HasDisposed
    <2>6. kv[uid].seq <= Len(log[uid])
      BY <1>10, <2>1 DEF KeptInv
    <2>7. AskedInv'
      BY <1>1, <1>4, <2>1, <2>6 DEF AskedInv
    <2> QED
      BY <1>1, <1>10, <2>5, <2>7, KeptKept
  <1> QED
    BY <1>1, <1>6, <1>7, <1>8, <1>9, <1>10 DEF IInv, CalmInv

LEMMA StoresKeeps == ASSUME IInv, NEW t \in Threads, Stores(t) PROVE IInv'
  <1>1. /\ thread[t].phase = "sent" /\ disp' = thread[t].id /\ Goes(t, Idle)
        /\ UNCHANGED <<log, uid, kv, applied, reqs, handling, events, overlap, faulted>>
    BY DEF Stores
  <1>2. /\ thread' \in [Threads -> States]
        /\ thread'[t] = Idle /\ thread'[t].phase = "idle" /\ thread'[t].id = NoReq
        /\ \A o \in Threads : o # t => thread'[o] = thread[o]
    BY <1>1, IdleFields, GoesTo DEF IInv
  <1>3. disp \in ReqIds \cup {NoReq} /\ thread[t].id \in ReqIds \cup {NoReq}
    BY DEF IInv, TypeOK
  <1>4. TypeOK'
    BY <1>1, <1>2, <1>3 DEF IInv, TypeOK, States
  <1>5. LogInv' /\ AnswersInv'
    BY <1>1, BooksKept, AnswersKept DEF IInv
  <1>6. HandlingInv'
    BY <1>1, <1>2 DEF IInv, HandlingInv, Threads
  <1>7. IdsInv'
    <2>1. PICK x \in ReqIds \cup {NoReq} :
            /\ thread["launch"].phase # "idle" => x = thread["launch"].id
            /\ Among({x, MainId})
      BY DEF IInv, IdsInv
    <2>2. \A o \in Threads : thread'[o].phase # "sent" => thread'[o].id = NoReq
      BY <1>2 DEF IInv, IdsInv
    <2>3. CASE t = "main"
      <3>1. MainId' = MainId /\ thread'["launch"] = thread["launch"]
        BY <1>1, <1>2, <2>3 DEF MainId, HasDisposed, Threads
      <3> QED
        BY <1>1, <2>1, <2>2, <3>1 DEF IdsInv, Among
    <2>4. CASE t = "launch" /\ HasDisposed("main")
      <3>1. MainId' = MainId /\ thread'["launch"].phase = "idle"
        BY <1>1, <1>2, <2>4 DEF MainId, HasDisposed, Threads
      <3> QED
        BY <1>1, <2>1, <2>2, <3>1 DEF IdsInv, Among
    <2>5. CASE t = "launch" /\ ~HasDisposed("main")
      <3>1. /\ MainId' = x /\ MainId = disp /\ thread'["launch"].phase = "idle"
        BY <1>1, <1>2, <2>1, <2>5 DEF MainId, HasDisposed, Threads
      <3>2. \A r \in reqs' : r.id \in {disp, x}
        BY <1>1, <2>1, <3>1 DEF Among
      <3> QED
        BY <1>3, <2>2, <3>1, <3>2 DEF IdsInv, Among
    <2> QED
      BY <2>3, <2>4, <2>5 DEF Threads
  <1>8. ASSUME ThreadsInv, AskedInv, KeptInv
        PROVE  ThreadsInv' /\ AskedInv' /\ KeptInv'
    <2>1. \A o \in Threads : o # t => ~InLoadData(o)
      BY <1>1, <1>8 DEF ThreadsInv, InLoadData
    <2>2. \A o \in Threads : ~InLoadData(o)'
      BY <1>2, <2>1 DEF InLoadData
    <2>3. Among({thread[t].id})
      BY <1>1, <1>8 DEF ThreadsInv
    <2>4. ThreadsInv'
      BY <1>1, <2>2, <2>3 DEF ThreadsInv, InLoadData, Among
    <2>5. thread["main"].phase # "checked" \/ thread'["main"].phase = "checked"
      BY <1>1, <1>2 DEF Threads
    <2>6. AskedInv'
      BY <1>1, <1>8, <2>5 DEF AskedInv
    <2> QED
      BY <1>1, <1>8, <2>4, <2>6, KeptKept
  <1> QED
    BY <1>1, <1>4, <1>5, <1>6, <1>7, <1>8 DEF IInv, CalmInv

LEMMA LaunchCallsKeeps == ASSUME IInv, LaunchCalls PROVE IInv'
  <1>1. /\ thread["launch"].phase = "pending" /\ Calls("launch", uid)
        /\ UNCHANGED <<log, uid, kv, applied, reqs, disp, handling, events, faulted>>
    BY DEF LaunchCalls
  <1>2. "launch" \in Threads /\ ~InLoadData("launch") /\ Calls("launch", uid')
    BY <1>1 DEF Threads, InLoadData
  <1>3. TypeOK'
    BY <1>1, <1>2, CallTypes DEF IInv, TypeOK, States
  <1>4. ~overlap => KeptInv'
    BY <1>1, KeptKept DEF IInv, CalmInv
  <1> QED
    BY <1>1, <1>2, <1>3, <1>4, CallKeeps

-----------------------------------------------------------------------------
(* The invariant: the start, and what happens beside answers *)

LEMMA InitEstablishes == ASSUME Init PROVE IInv
  <1>1. /\ log = [u \in Uids |-> <<>>] /\ uid \in Uids \cup {NoUid}
        /\ kv = [u \in Uids \cup {NoUid} |-> NoCursor] /\ applied = [u \in Uids |-> NoBook]
        /\ reqs = {} /\ disp = NoReq /\ thread = Started /\ handling = {}
        /\ events = 0 /\ overlap = FALSE /\ faulted = FALSE
    BY DEF Init
  <1>2. thread["main"] = Idle /\ thread["launch"].phase = "pending"
        /\ \A t \in Threads : thread[t].phase \in {"pending", "idle"} /\ thread[t].id = NoReq
    BY <1>1, IdleFields DEF Threads
  <1>3. NoBook \in Books /\ \A k \in Contacts : NoBook[k] = 0
    BY SizesAssumption DEF NoBook, Books, SizesAssumption
  <1>4. TypeOK
    <2>1. log \in [Uids -> Seq(Books)]
      BY <1>1
    <2>2. kv \in [Uids \cup {NoUid} -> Cursors] /\ applied \in [Uids -> Books]
      BY <1>1, <1>3, IdleFields
    <2>3. thread \in [Threads -> States] /\ events \in 0..MaxEvents
      BY <1>1, IdleFields, SizesAssumption DEF SizesAssumption
    <2> QED
      BY <1>1, <2>1, <2>2, <2>3 DEF TypeOK, States
  <1>5. \A u \in Uids : Len(log[u]) = 0
    BY <1>1
  <1>6. LogInv
    BY <1>3, <1>5, SizesAssumption DEF LogInv, BookAt, SizesAssumption
  <1>7. IdsInv /\ HandlingInv /\ AnswersInv
    <2>1. \A t \in Threads : thread[t].id = NoReq
      BY <1>2
    <2>2. HandlingInv /\ AnswersInv
      BY <1>1 DEF HandlingInv, AnswersInv
    <2> QED
      BY <1>1, <2>1, <2>2 DEF IdsInv, Among, Threads
  <1>8. ThreadsInv /\ AskedInv
    BY <1>1, <1>2 DEF ThreadsInv, InLoadData, HasDisposed, Among, AskedInv
  <1>9. KeptInv
    BY <1>1, <1>3, <1>5, SizesAssumption DEF KeptInv, NoCursor, BookAt, SizesAssumption
  <1> QED
    BY <1>4, <1>6, <1>7, <1>8, <1>9 DEF IInv, CalmInv

LEMMA LoginKeeps == ASSUME IInv, NEW u \in Uids, Login(u) PROVE IInv'
  <1>1. /\ uid' = u /\ Calls("main", uid') /\ events' \in 0..MaxEvents
        /\ thread["main"] = Idle /\ handling = {}
        /\ UNCHANGED <<log, kv, applied, reqs, disp, handling, faulted>>
    BY SizesAssumption DEF Login, Event, MainIsFree, IInv, TypeOK, SizesAssumption
  <1>2. "main" \in Threads /\ ~InLoadData("main")
    BY <1>1, IdleFields DEF Threads, InLoadData
  <1>3. TypeOK'
    BY <1>1, <1>2, CallTypes DEF IInv, TypeOK, States
  <1>4. ~overlap => KeptInv'
    BY <1>1, KeptKept DEF IInv, CalmInv
  <1>5. uid' # NoUid
    BY <1>1, NamesAssumption DEF NamesAssumption
  <1> QED
    BY <1>1, <1>2, <1>3, <1>4, <1>5, CallKeeps

LEMMA NetworkReturnsKeeps == ASSUME IInv, NetworkReturns PROVE IInv'
  <1>1. /\ uid' = uid /\ Calls("main", uid') /\ events' \in 0..MaxEvents
        /\ thread["main"] = Idle /\ handling = {}
        /\ UNCHANGED <<log, kv, applied, reqs, disp, handling, faulted>>
    BY SizesAssumption DEF NetworkReturns, Event, MainIsFree, IInv, TypeOK, SizesAssumption
  <1>2. "main" \in Threads /\ ~InLoadData("main")
    BY <1>1, IdleFields DEF Threads, InLoadData
  <1>3. TypeOK'
    BY <1>1, <1>2, CallTypes DEF IInv, TypeOK, States
  <1>4. ~overlap => KeptInv'
    BY <1>1, KeptKept DEF IInv, CalmInv
  <1> QED
    BY <1>1, <1>2, <1>3, <1>4, CallKeeps

LEMMA LogoutKeeps == ASSUME IInv, Logout PROVE IInv'
  <1>1. /\ uid' = NoUid /\ events' \in 0..MaxEvents
        /\ thread["main"] = Idle /\ handling = {}
        /\ overlap' = (overlap \/ InLoadData("launch"))
        /\ UNCHANGED <<log, kv, applied, reqs, disp, thread, handling, faulted>>
    BY SizesAssumption DEF Logout, Event, MainIsFree, IInv, TypeOK, SizesAssumption
  <1>2. TypeOK'
    BY <1>1 DEF IInv, TypeOK
  <1>3. LogInv' /\ AnswersInv'
    BY <1>1, BooksKept, AnswersKept DEF IInv
  <1>4. HandlingInv' /\ IdsInv'
    BY <1>1 DEF IInv, HandlingInv, IdsInv, Among, MainId, HasDisposed
  <1>5. ASSUME ~overlap'
        PROVE  ThreadsInv' /\ AskedInv' /\ KeptInv'
    <2>1. ~overlap /\ ~InLoadData("launch") /\ ThreadsInv /\ AskedInv /\ KeptInv
      BY <1>1, <1>5 DEF IInv, TypeOK, CalmInv
    <2>2. \A t \in Threads : ~InLoadData(t)
      BY <1>1, <2>1, IdleFields DEF InLoadData, Threads
    <2>3. ThreadsInv'
      BY <1>1, <2>1, <2>2 DEF ThreadsInv, InLoadData, HasDisposed, Among
    <2>4. AskedInv'
      BY <1>1, <2>1, NamesAssumption DEF AskedInv, NamesAssumption
    <2> QED
      BY <1>1, <2>1, <2>3, <2>4, KeptKept
  <1> QED
    BY <1>2, <1>3, <1>4, <1>5 DEF IInv, CalmInv

LEMMA RestartKeeps == ASSUME IInv, Restart PROVE IInv'
  <1>1. /\ reqs' = {} /\ disp' = NoReq /\ thread' = Started /\ handling' = {}
        /\ events' \in 0..MaxEvents
        /\ UNCHANGED <<log, uid, kv, applied, overlap, faulted>>
    BY SizesAssumption DEF Restart, Event, IInv, TypeOK, SizesAssumption
  <1>2. \A t \in Threads : thread'[t].phase \in {"pending", "idle"} /\ thread'[t].id = NoReq
    BY <1>1, IdleFields DEF Threads
  <1>3. TypeOK'
    BY <1>1, IdleFields DEF IInv, TypeOK, States
  <1>4. LogInv' /\ AnswersInv'
    BY <1>1, BooksKept, AnswersKept DEF IInv
  <1>5. HandlingInv' /\ IdsInv'
    BY <1>1, <1>2 DEF HandlingInv, IdsInv, Among, Threads
  <1>6. ThreadsInv' /\ AskedInv'
    BY <1>1, <1>2 DEF ThreadsInv, InLoadData, HasDisposed, Among, AskedInv
  <1>7. KeptInv => KeptInv'
    BY <1>1, KeptKept
  <1> QED
    BY <1>1, <1>3, <1>4, <1>5, <1>6, <1>7 DEF IInv, CalmInv

-----------------------------------------------------------------------------
(* The invariant: the backend *)

\* A change adds a book and leaves the others.
LEMMA ChangedBooks ==
  ASSUME TypeOK, LogInv, NEW u \in Uids, NEW k \in Contacts, Change(u, k)
  PROVE  /\ log' \in [Uids -> Seq(Books)]
         /\ \A v \in Uids : Len(log'[v]) <= MaxLog
         /\ \A v \in Uids \ {u} : log'[v] = log[v]
         /\ Len(log'[u]) = Len(log[u]) + 1
         /\ \A v \in Uids : \A j \in 0..Len(log[v]) : BookAt(v, j)' = BookAt(v, j)
         /\ log'[u][Len(log[u]) + 1] = [BookAt(u, Len(log[u])) EXCEPT ![k] = Len(log[u]) + 1]
  <1> DEFINE n == Len(log[u])
             b == [BookAt(u, n) EXCEPT ![k] = n + 1]
  <1>1. n < MaxLog /\ log' = [log EXCEPT ![u] = Append(log[u], b)]
    BY DEF Change
  <1>2. log \in [Uids -> Seq(Books)] /\ log[u] \in Seq(Books) /\ n \in Nat
    BY DEF TypeOK
  <1>3. b \in Books
    <2>1. n \in 0..Len(log[u])
      BY <1>2
    <2>2. BookAt(u, n) \in Books
      BY <2>1, BookTypes
    <2>3. n + 1 \in 0..MaxLog
      BY <1>1, <1>2, SizesAssumption DEF SizesAssumption
    <2> QED
      BY <2>2, <2>3 DEF Books
  <1> HIDE DEF b
  <1>4. log'[u] = Append(log[u], b) /\ \A v \in Uids \ {u} : log'[v] = log[v]
    BY <1>1, <1>2
  <1>5. /\ Append(log[u], b) \in Seq(Books) /\ Len(Append(log[u], b)) = n + 1
        /\ Append(log[u], b)[n + 1] = b
        /\ \A j \in 1..n : Append(log[u], b)[j] = log[u][j]
    BY <1>2, <1>3
  <1>6. log' \in [Uids -> Seq(Books)]
    BY <1>1, <1>2, <1>5
  <1>7. \A v \in Uids : Len(log'[v]) <= MaxLog
    BY <1>1, <1>2, <1>4, <1>5, SizesAssumption DEF LogInv, SizesAssumption
  <1>8. ASSUME NEW v \in Uids, NEW j \in 0..Len(log[v])
        PROVE  BookAt(v, j)' = BookAt(v, j)
    <2>1. CASE v # u
      BY <1>4, <2>1 DEF BookAt
    <2>2. CASE v = u /\ j = 0
      BY <2>2 DEF BookAt
    <2>3. CASE v = u /\ j # 0
      <3>1. j \in 1..n
        BY <1>2, <1>8, <2>3
      <3>2. log'[u][j] = log[u][j]
        BY <1>4, <1>5, <3>1
      <3> QED
        BY <2>3, <3>2 DEF BookAt
    <2> QED
      BY <2>1, <2>2, <2>3
  <1>9. log'[u][n + 1] = b
    BY <1>4, <1>5
  <1> QED
    BY <1>4, <1>5, <1>6, <1>7, <1>8, <1>9 DEF b

LEMMA ChangeKeeps == ASSUME IInv, NEW u \in Uids, NEW k \in Contacts, Change(u, k) PROVE IInv'
  <1> DEFINE n == Len(log[u])
             b == [BookAt(u, n) EXCEPT ![k] = n + 1]
  <1>1. UNCHANGED <<uid, kv, applied, reqs, disp, thread, handling, events, overlap, faulted>>
    BY DEF Change
  <1>2. TypeOK /\ LogInv
    BY DEF IInv
  <1>3. /\ log' \in [Uids -> Seq(Books)]
        /\ \A v \in Uids : Len(log'[v]) <= MaxLog
        /\ \A v \in Uids \ {u} : log'[v] = log[v]
        /\ Len(log'[u]) = n + 1
        /\ \A v \in Uids : \A j \in 0..Len(log[v]) : BookAt(v, j)' = BookAt(v, j)
        /\ log'[u][n + 1] = b
    BY <1>2, ChangedBooks
  <1>4. /\ \A v \in Uids : Len(log[v]) \in Nat /\ Len(log[v]) <= Len(log'[v])
        /\ n \in Nat /\ BookAt(u, n) \in Books
    <2>1. \A v \in Uids : Len(log[v]) \in Nat
      BY <1>2 DEF TypeOK
    <2>2. n \in 0..Len(log[u])
      BY <2>1
    <2>3. BookAt(u, n) \in Books
      BY <1>2, <2>2, BookTypes
    <2>4. \A v \in Uids : Len(log[v]) <= Len(log'[v])
      BY <1>3, <2>1
    <2> QED
      BY <2>1, <2>3, <2>4
  <1>5. TypeOK'
    BY <1>1, <1>2, <1>3 DEF TypeOK
  <1>6. \A j \in 0..n+1 : BookAt(u, j)' = IF j = n + 1 THEN b ELSE BookAt(u, j)
    <2>1. ASSUME NEW j \in 0..n+1
          PROVE  BookAt(u, j)' = IF j = n + 1 THEN b ELSE BookAt(u, j)
      <3>1. CASE j = n + 1
        BY <1>3, <1>4, <3>1 DEF BookAt
      <3>2. CASE j # n + 1
        <4>1. j \in 0..Len(log[u])
          BY <1>4, <2>1, <3>2
        <4> QED
          BY <1>3, <3>2, <4>1
      <3> QED
        BY <3>1, <3>2
    <2> QED
      BY <2>1
  <1>7. \A c \in Contacts : /\ b[c] = IF c = k THEN n + 1 ELSE BookAt(u, n)[c]
                            /\ BookAt(u, n)[c] \in Nat /\ BookAt(u, n)[c] <= n
    <2>1. n \in 0..Len(log[u])
      BY <1>4
    <2>2. \A c \in Contacts : BookAt(u, n)[c] <= n
      BY <1>2, <2>1 DEF LogInv
    <2>3. \A c \in Contacts : BookAt(u, n)[c] \in Nat
      BY <1>4, SizesAssumption DEF Books, SizesAssumption
    <2> QED
      BY <1>4, <2>2, <2>3 DEF Books
  <1> HIDE DEF b
  <1>8. LogInv'
    <2>1. ASSUME NEW v \in Uids \ {u}, NEW j \in 0..Len(log'[v]), NEW c \in Contacts
          PROVE  /\ BookAt(v, j)'[c] <= j
                 /\ \A i \in 0..j : BookAt(v, j)'[c] <= i => BookAt(v, i)'[c] = BookAt(v, j)'[c]
      <3>1. Len(log'[v]) = Len(log[v]) /\ j \in 0..Len(log[v])
        BY <1>3, <2>1
      <3>2. \A i \in 0..j : i \in 0..Len(log[v])
        BY <1>4, <3>1
      <3>3. \A i \in 0..j : BookAt(v, i)' = BookAt(v, i)
        BY <1>3, <3>2
      <3>4. BookAt(v, j)' = BookAt(v, j)
        BY <1>3, <3>1
      <3> QED
        BY <1>2, <3>1, <3>3, <3>4 DEF LogInv
    <2>2. ASSUME NEW j \in 0..n, NEW c \in Contacts
          PROVE  /\ BookAt(u, j)'[c] <= j
                 /\ \A i \in 0..j : BookAt(u, j)'[c] <= i => BookAt(u, i)'[c] = BookAt(u, j)'[c]
      <3>1. \A i \in 0..j : i \in 0..n
        BY <1>4, <2>2
      <3>2. \A i \in 0..j : BookAt(u, i)' = BookAt(u, i)
        BY <1>3, <3>1
      <3>3. BookAt(u, j)' = BookAt(u, j)
        BY <1>3
      <3> QED
        BY <1>2, <3>2, <3>3 DEF LogInv
    <2>3. ASSUME NEW c \in Contacts
          PROVE  /\ b[c] <= n + 1
                 /\ \A i \in 0..n+1 : b[c] <= i => BookAt(u, i)'[c] = b[c]
      <3>1. b[c] <= n + 1
        BY <1>4, <1>7
      <3>2. ASSUME NEW i \in 0..n+1, b[c] <= i
            PROVE  BookAt(u, i)'[c] = b[c]
        <4>1. CASE i = n + 1
          BY <1>6, <4>1
        <4>2. CASE i # n + 1
          <5>1. i \in 0..n /\ c # k /\ n \in 0..Len(log[u])
            BY <1>4, <1>7, <3>2, <4>2
          <5>2. BookAt(u, n)[c] <= i => BookAt(u, i)[c] = BookAt(u, n)[c]
            BY <1>2, <5>1 DEF LogInv
          <5>3. BookAt(u, i)' = BookAt(u, i)
            BY <1>6, <4>2
          <5> QED
            BY <1>7, <3>2, <5>1, <5>2, <5>3
        <4> QED
          BY <4>1, <4>2
      <3> QED
        BY <3>1, <3>2
    <2>4. ASSUME NEW j \in 0..n+1, NEW c \in Contacts
          PROVE  /\ BookAt(u, j)'[c] <= j
                 /\ \A i \in 0..j : BookAt(u, j)'[c] <= i => BookAt(u, i)'[c] = BookAt(u, j)'[c]
      <3>1. CASE j = n + 1
        BY <1>6, <2>3, <3>1
      <3>2. CASE j # n + 1
        <4>1. j \in 0..n
          BY <1>4, <2>4, <3>2
        <4> QED
          BY <2>2, <4>1
      <3> QED
        BY <3>1, <3>2
    <2> QED
      BY <1>3, <2>1, <2>4 DEF LogInv
  <1>9. IdsInv' /\ HandlingInv'
    BY <1>1 DEF IInv, IdsInv, Among, MainId, HasDisposed, HandlingInv
  <1>10. AnswersInv'
    <2>1. ASSUME NEW r \in reqs \cup handling, r.answered
          PROVE  r.owner \in Uids /\ r.to <= Len(log'[r.owner])
      <3>1. r.owner \in Uids /\ r.to <= Len(log[r.owner]) /\ r.to \in Nat
        BY <2>1, SizesAssumption DEF IInv, AnswersInv, TypeOK, Requests, SizesAssumption
      <3>2. Len(log[r.owner]) \in Nat /\ Len(log'[r.owner]) \in Nat /\ Len(log[r.owner]) <= Len(log'[r.owner])
        BY <1>3, <1>4, <3>1
      <3> QED
        BY <3>1, <3>2
    <2> QED
      BY <1>1, <2>1 DEF AnswersInv
  <1>11. ASSUME ThreadsInv, AskedInv, KeptInv
         PROVE  ThreadsInv' /\ AskedInv' /\ KeptInv'
    <2>1. ThreadsInv'
      BY <1>1, <1>11 DEF ThreadsInv, InLoadData, HasDisposed, Among
    <2>2. \A v \in Uids, s \in Nat : s <= Len(log[v]) => s <= Len(log'[v])
      BY <1>3, <1>4
    <2>3. AskedInv'
      <3>1. \A r \in reqs \cup handling : r.from.seq \in Nat
        BY SizesAssumption DEF IInv, TypeOK, Requests, Cursors, SizesAssumption
      <3> QED
        BY <1>1, <1>11, <2>2, <3>1 DEF AskedInv
    <2>4. KeptInv'
      <3>1. ASSUME NEW v \in Uids
            PROVE  /\ kv[v] = NoCursor \/ kv[v].owner = v
                   /\ kv[v].seq <= Len(log'[v])
                   /\ BookAt(v, kv[v].seq)' = BookAt(v, kv'[v].seq)
        <4>1. kv[v].seq \in Nat /\ kv[v].seq <= Len(log[v])
          BY <1>11, SizesAssumption DEF KeptInv, IInv, TypeOK, Cursors, SizesAssumption
        <4>2. kv[v].seq \in 0..Len(log[v])
          BY <1>4, <4>1
        <4> QED
          BY <1>1, <1>3, <1>11, <2>2, <4>1, <4>2 DEF KeptInv
      <3>2. ASSUME uid \in Uids, NEW r \in handling, NEW c \in Contacts
            PROVE  applied[uid][c] >= BookAt(uid, r.to)'[c]
        <4>1. r.answered /\ r.owner = uid /\ r.to \in Nat
          BY <1>11, <3>2, IdleFields, SizesAssumption
          DEF IInv, HandlingInv, AskedInv, TypeOK, Requests, SizesAssumption
        <4>2. r.to \in 0..Len(log[uid])
          BY <1>4, <3>2, <4>1 DEF IInv, AnswersInv
        <4>3. BookAt(uid, r.to)' = BookAt(uid, r.to)
          BY <1>1, <1>3, <3>2, <4>2
        <4> QED
          BY <1>11, <3>2, <4>3 DEF KeptInv
      <3> QED
        BY <1>1, <1>11, <3>1, <3>2 DEF KeptInv
    <2> QED
      BY <2>1, <2>3, <2>4
  <1> QED
    BY <1>1, <1>5, <1>8, <1>9, <1>10, <1>11 DEF IInv, CalmInv

LEMMA AnswerKeeps == ASSUME IInv, NEW r \in reqs, Answer(r) PROVE IInv'
  <1>1. /\ ~r.answered /\ r.owner # NoUid
        /\ UNCHANGED <<log, uid, kv, applied, disp, thread, handling, events, overlap, faulted>>
    BY DEF Answer
  <1>2. r \in Requests /\ r.owner \in Uids /\ Len(log[r.owner]) \in Nat
        /\ r.from.seq \in Nat /\ Len(log[r.owner]) <= MaxLog
    BY <1>1, SizesAssumption
    DEF IInv, TypeOK, LogInv, Requests, Accounts, Cursors, SizesAssumption
  <1>3. PICK n \in 0..Len(log[r.owner]) :
          /\ n > r.from.seq \/ n = Len(log[r.owner])
          /\ reqs' = (reqs \ {r}) \cup
               {[r EXCEPT !.answered = TRUE, !.to = n, !.isEnd = (n = Len(log[r.owner]))]}
    BY DEF Answer
  <1> DEFINE a == [r EXCEPT !.answered = TRUE, !.to = n, !.isEnd = (n = Len(log[r.owner]))]
  <1>4. /\ a \in Requests /\ a.id = r.id /\ a.owner = r.owner /\ a.from = r.from
        /\ a.to = n
    <2>1. n \in 0..MaxLog
      BY <1>2, SizesAssumption DEF SizesAssumption
    <2>2. \E e \in BOOLEAN : a = [r EXCEPT !.answered = TRUE, !.to = n, !.isEnd = e]
      OBVIOUS
    <2> HIDE DEF a
    <2> QED
      BY <1>2, <2>1, <2>2 DEF Requests
  <1>5. reqs' = (reqs \ {r}) \cup {a}
    BY <1>3
  <1> HIDE DEF a
  <1>6. TypeOK'
    BY <1>1, <1>4, <1>5 DEF IInv, TypeOK, Requests, Accounts
  <1>7. \A s \in reqs' : \E q \in reqs : s.id = q.id /\ s.owner = q.owner /\ s.from = q.from
    BY <1>4, <1>5
  <1>8. IdsInv'
    BY <1>1, <1>7 DEF IInv, IdsInv, Among, MainId, HasDisposed
  <1>9. LogInv' /\ HandlingInv' /\ AnswersInv'
    BY <1>1, <1>2, <1>4, <1>5, BooksKept DEF IInv, HandlingInv, AnswersInv
  <1>10. ASSUME ThreadsInv, AskedInv, KeptInv
         PROVE  ThreadsInv' /\ AskedInv' /\ KeptInv'
    <2>1. reqs' = {a} /\ handling = {}
      BY <1>5, <1>10 DEF AskedInv
    <2>2. ThreadsInv'
      BY <1>1, <1>4, <1>10, <2>1 DEF ThreadsInv, InLoadData, HasDisposed, Among
    <2>3. r.from.seq <= n
      BY <1>2, <1>3, <1>10 DEF AskedInv
    <2>4. AskedInv'
      BY <1>1, <1>4, <1>10, <2>1, <2>3 DEF AskedInv
    <2> QED
      BY <1>1, <1>10, <2>2, <2>4, KeptKept
  <1> QED
    BY <1>1, <1>6, <1>8, <1>9, <1>10 DEF IInv, CalmInv

-----------------------------------------------------------------------------
(* The invariant: the callbacks *)

\* What is in an answer is saved, over nothing newer.
LEMMA Saved ==
  ASSUME TypeOK, LogInv, AnswersInv, NEW r \in reqs, r.answered, SaveContacts(r)
  PROVE  /\ applied' \in [Uids -> Books]
         /\ \A u \in Uids, k \in Contacts : applied'[u][k] >= applied[u][k]
         /\ \A k \in Contacts :
              BookAt(r.owner, r.to)[k] > r.from.seq => applied'[r.owner][k] >= BookAt(r.owner, r.to)[k]
  <1> DEFINE b == BookAt(r.owner, r.to)
             kept == [k \in Contacts |-> IF b[k] > r.from.seq
                        THEN Newest(applied[r.owner][k], b[k]) ELSE applied[r.owner][k]]
  <1>1. r.owner \in Uids /\ r.to \in 0..Len(log[r.owner]) /\ r.from.seq \in Nat
    BY SizesAssumption DEF TypeOK, AnswersInv, Requests, Cursors, SizesAssumption
  <1>2. b \in Books
    BY <1>1, BookTypes
  <1>3. applied \in [Uids -> Books]
    BY DEF TypeOK
  <1>4. applied' = [applied EXCEPT ![r.owner] = kept]
    BY <1>1, <1>3 DEF SaveContacts
  <1> HIDE DEF b
  <1>5. \A k \in Contacts : /\ b[k] \in 0..MaxLog /\ applied[r.owner][k] \in 0..MaxLog
                            /\ b[k] \in Nat /\ applied[r.owner][k] \in Nat
    BY <1>1, <1>2, <1>3, SizesAssumption DEF Books, SizesAssumption
  <1>6. ASSUME NEW k \in Contacts
        PROVE  /\ kept[k] \in 0..MaxLog /\ kept[k] >= applied[r.owner][k]
               /\ b[k] > r.from.seq => kept[k] >= b[k]
    BY <1>1, <1>5 DEF Newest
  <1>7. kept \in Books
    BY <1>6 DEF Books
  <1> HIDE DEF kept
  <1>8. applied' \in [Uids -> Books] /\ applied'[r.owner] = kept
        /\ \A u \in Uids \ {r.owner} : applied'[u] = applied[u]
    BY <1>1, <1>3, <1>4, <1>7
  <1>9. \A u \in Uids, k \in Contacts : applied[u][k] \in Nat
    BY <1>3, SizesAssumption DEF Books, SizesAssumption
  <1>10. \A u \in Uids, k \in Contacts : applied'[u][k] >= applied[u][k]
    BY <1>6, <1>8, <1>9
  <1> QED
    BY <1>6, <1>8, <1>10 DEF b

LEMMA ReceiveKeeps == ASSUME IInv, NEW r \in reqs, Receive(r) PROVE IInv'
  <1>1. /\ r.answered /\ SaveContacts(r) /\ reqs' = reqs \ {r} /\ handling' = {r}
        /\ thread["main"] = Idle /\ handling = {}
        /\ UNCHANGED <<log, uid, kv, disp, thread, events, overlap, faulted>>
    BY DEF Receive, MainIsFree
  <1>2. /\ r \in Requests /\ r.owner \in Uids /\ r.from.seq \in Nat /\ r.to \in Nat
        /\ r.to \in 0..Len(log[r.owner])
    BY <1>1, SizesAssumption
    DEF IInv, TypeOK, AnswersInv, Requests, Cursors, SizesAssumption
  <1>3. /\ applied' \in [Uids -> Books]
        /\ \A u \in Uids, k \in Contacts : applied'[u][k] >= applied[u][k]
        /\ \A k \in Contacts :
             BookAt(r.owner, r.to)[k] > r.from.seq => applied'[r.owner][k] >= BookAt(r.owner, r.to)[k]
    BY <1>1, Saved DEF IInv
  <1>4. TypeOK'
    BY <1>1, <1>2, <1>3 DEF IInv, TypeOK
  <1>5. LogInv' /\ AnswersInv'
    BY <1>1, BooksKept, AnswersKept DEF IInv
  <1>6. IdsInv' /\ HandlingInv'
    BY <1>1 DEF IInv, IdsInv, HandlingInv, Among, MainId, HasDisposed
  <1>7. ASSUME ThreadsInv, AskedInv, KeptInv
        PROVE  ThreadsInv' /\ AskedInv' /\ KeptInv'
    <2>1. \A t \in Threads : thread[t].phase \notin {"disposed", "read"}
      BY <1>7 DEF ThreadsInv
    <2>2. ThreadsInv'
      BY <1>1, <1>7, <2>1 DEF ThreadsInv, InLoadData, HasDisposed, Among
    <2>3. AskedInv'
      BY <1>1, <1>7 DEF AskedInv
    <2>4. \A u \in Uids : \A s \in 0..Len(log[u]) : BookAt(u, s) \in Books /\ BookAt(u, s)' = BookAt(u, s)
      BY <1>1, BookTypes DEF IInv, BookAt
    <2>5. ASSUME NEW u \in Uids, NEW s \in 0..Len(log[u]), NEW k \in Contacts,
                 applied[u][k] >= BookAt(u, s)[k]
          PROVE  applied'[u][k] >= BookAt(u, s)[k]
      <3>1. BookAt(u, s)[k] \in Int /\ applied[u][k] \in Int /\ applied'[u][k] \in Int
        BY <1>3, <2>4, SizesAssumption DEF IInv, TypeOK, Books, SizesAssumption
      <3> QED
        BY <1>3, <2>5, <3>1
    <2>6. ASSUME NEW u \in Uids, NEW k \in Contacts
          PROVE  applied'[u][k] >= BookAt(u, kv[u].seq)[k]
      <3>1. kv[u].seq \in 0..Len(log[u])
        BY <1>7, SizesAssumption DEF KeptInv, IInv, TypeOK, Cursors, SizesAssumption
      <3> QED
        BY <1>7, <2>5, <3>1 DEF KeptInv
    <2>7. ASSUME uid \in Uids, NEW k \in Contacts
          PROVE  applied'[uid][k] >= BookAt(uid, r.to)[k]
      <3>1. /\ r.owner = uid /\ r.from = kv[uid] /\ r.from.seq <= r.to
        BY <1>1, <1>7, <2>7, IdleFields DEF AskedInv
      <3>2. /\ r.from.seq \in 0..r.to /\ r.from.seq \in 0..Len(log[uid]) /\ r.to \in 0..Len(log[uid])
        BY <1>2, <2>7, <3>1 DEF IInv, TypeOK
      <3>3. BookAt(uid, r.to)[k] \in Int
        BY <2>4, <2>7, <3>2, SizesAssumption DEF Books, SizesAssumption
      <3>4. CASE BookAt(uid, r.to)[k] > r.from.seq
        BY <1>3, <3>1, <3>4
      <3>5. CASE BookAt(uid, r.to)[k] <= r.from.seq
        <4>1. BookAt(uid, r.from.seq)[k] = BookAt(uid, r.to)[k]
          BY <2>7, <3>2, <3>5 DEF IInv, LogInv
        <4>2. applied'[uid][k] >= BookAt(uid, r.from.seq)[k]
          BY <2>6, <2>7, <3>1
        <4> QED
          BY <4>1, <4>2
      <3> QED
        BY <1>2, <3>3, <3>4, <3>5
    <2>8. \A u \in Uids : BookAt(u, kv[u].seq)' = BookAt(u, kv[u].seq)
      BY <1>1 DEF BookAt
    <2>9. BookAt(uid, r.to)' = BookAt(uid, r.to)
      BY <1>1 DEF BookAt
    <2>10. KeptInv'
      BY <1>1, <1>7, <2>6, <2>7, <2>8, <2>9 DEF KeptInv, NoCursor
    <2> QED
      BY <2>2, <2>3, <2>10
  <1> QED
    BY <1>1, <1>4, <1>5, <1>6, <1>7 DEF IInv, CalmInv

\* A subscription that ends with nothing saved takes nothing with it.
LEMMA EndsKeeps ==
  ASSUME IInv, NEW r \in reqs, reqs' = reqs \ {r}, faulted' \in BOOLEAN,
         UNCHANGED <<log, uid, kv, applied, disp, thread, handling, events, overlap>>
  PROVE  IInv'
  <1>1. TypeOK'
    BY DEF IInv, TypeOK
  <1>2. LogInv' /\ AnswersInv'
    BY BooksKept, AnswersKept DEF IInv
  <1>3. IdsInv' /\ HandlingInv'
    BY DEF IInv, IdsInv, HandlingInv, Among, MainId, HasDisposed
  <1>4. ThreadsInv => ThreadsInv'
    BY DEF ThreadsInv, InLoadData, HasDisposed, Among
  <1>5. AskedInv => AskedInv'
    BY DEF AskedInv
  <1>6. KeptInv => KeptInv'
    BY KeptKept
  <1> QED
    BY <1>1, <1>2, <1>3, <1>4, <1>5, <1>6 DEF IInv, CalmInv

LEMMA FailKeeps == ASSUME IInv, NEW r \in reqs, Fail(r) PROVE IInv'
  BY EndsKeeps DEF Fail, IInv, TypeOK

LEMMA ReceiveUnsavedKeeps == ASSUME IInv, NEW r \in reqs, ReceiveUnsaved(r) PROVE IInv'
  BY EndsKeeps DEF ReceiveUnsaved

LEMMA CursorUnsavedKeeps == ASSUME IInv, NEW r \in handling, CursorUnsaved(r) PROVE IInv'
  <1>1. /\ handling' = {} /\ faulted' \in BOOLEAN
        /\ UNCHANGED <<log, uid, kv, applied, reqs, disp, thread, events, overlap>>
    BY DEF CursorUnsaved
  <1>2. TypeOK'
    BY <1>1 DEF IInv, TypeOK
  <1>3. LogInv' /\ AnswersInv'
    BY <1>1, BooksKept, AnswersKept DEF IInv
  <1>4. IdsInv' /\ HandlingInv'
    BY <1>1 DEF IInv, IdsInv, HandlingInv, Among, MainId, HasDisposed
  <1>5. ThreadsInv => ThreadsInv'
    BY <1>1 DEF ThreadsInv, InLoadData, HasDisposed, Among
  <1>6. AskedInv => AskedInv'
    BY <1>1 DEF AskedInv
  <1>7. KeptInv => KeptInv'
    BY <1>1, KeptKept
  <1> QED
    BY <1>1, <1>2, <1>3, <1>4, <1>5, <1>6, <1>7 DEF IInv, CalmInv

LEMMA SavesCursorKeeps == ASSUME IInv, NEW r \in handling, SavesCursor(r) PROVE IInv'
  <1>1. /\ handling' = {} /\ kv' = [kv EXCEPT ![uid] = NextCursor(r)]
        /\ UNCHANGED <<log, uid, applied, reqs, disp, events, faulted>>
        /\ IF r.isEnd THEN UNCHANGED <<thread, overlap>> ELSE Calls("main", uid)
    BY DEF SavesCursor
  <1>2. /\ r \in Requests /\ r.answered /\ thread["main"] = Idle /\ r.owner \in Uids
        /\ r.to \in 0..MaxLog /\ r.to <= Len(log[r.owner]) /\ uid \in Accounts
    BY DEF IInv, HandlingInv, AnswersInv, TypeOK, Requests, Accounts
  <1>3. NextCursor(r) \in Cursors /\ NextCursor(r).owner = r.owner /\ NextCursor(r).seq = r.to
    BY <1>2 DEF NextCursor, Cursors
  <1>4. /\ kv' \in [Accounts -> Cursors] /\ kv'[uid] = NextCursor(r)
        /\ \A u \in Uids \ {uid} : kv'[u] = kv[u]
    BY <1>1, <1>2, <1>3 DEF IInv, TypeOK, Accounts
  <1>5. "main" \in Threads /\ ~InLoadData("main")
    BY <1>2, IdleFields DEF Threads, InLoadData
  <1>6. TypeOK'
    <2>1. thread' \in [Threads -> States] /\ overlap' \in BOOLEAN
      BY <1>1, <1>5, CallTypes DEF IInv, TypeOK, States
    <2> QED
      BY <1>1, <1>4, <2>1 DEF IInv, TypeOK, States, Accounts
  <1>7. ASSUME ~overlap
        PROVE  KeptInv'
    <2>1. AskedInv /\ KeptInv
      BY <1>7 DEF IInv, CalmInv
    <2>2. uid \in Uids =>
            /\ kv'[uid].owner = uid /\ kv'[uid].seq <= Len(log[uid])
            /\ \A k \in Contacts : applied[uid][k] >= BookAt(uid, kv'[uid].seq)[k]
      BY <1>2, <1>3, <1>4, <2>1, IdleFields DEF AskedInv, KeptInv
    <2>3. \A u \in Uids \ {uid} :
            /\ kv'[u] = NoCursor \/ kv'[u].owner = u
            /\ kv'[u].seq <= Len(log[u])
            /\ \A k \in Contacts : applied[u][k] >= BookAt(u, kv'[u].seq)[k]
      BY <1>4, <2>1 DEF KeptInv
    <2>4. \A u \in Uids : BookAt(u, kv'[u].seq) = BookAt(u, kv[u].seq)'
      BY <1>1 DEF BookAt
    <2> QED
      BY <1>1, <2>2, <2>3, <2>4 DEF KeptInv, NoCursor
  <1>8. CASE r.isEnd
    <2>1. UNCHANGED <<thread, overlap>>
      BY <1>1, <1>8
    <2>2. LogInv' /\ AnswersInv'
      BY <1>1, BooksKept, AnswersKept DEF IInv
    <2>3. IdsInv' /\ HandlingInv'
      BY <1>1, <2>1 DEF IInv, IdsInv, HandlingInv, Among, MainId, HasDisposed
    <2>4. ASSUME ThreadsInv, AskedInv
          PROVE  ThreadsInv' /\ AskedInv'
      <3>1. \A t \in Threads : thread[t].phase # "read"
        BY <2>4 DEF ThreadsInv
      <3> QED
        BY <1>1, <2>1, <2>4, <3>1 DEF ThreadsInv, AskedInv, InLoadData, HasDisposed, Among
    <2> QED
      BY <1>6, <1>7, <2>1, <2>2, <2>3, <2>4 DEF IInv, CalmInv
  <1>9. CASE ~r.isEnd
    <2>1. Calls("main", uid') /\ handling' \subseteq handling
      BY <1>1, <1>9
    <2> QED
      BY <1>1, <1>5, <1>6, <1>7, <2>1, CallKeeps
  <1> QED
    BY <1>8, <1>9

-----------------------------------------------------------------------------
(* Theorems *)

LEMMA NextKeeps == ASSUME IInv, [Next]_vars PROVE IInv'
  <1>1. CASE \E u \in Uids : Login(u) \/ \E k \in Contacts : Change(u, k)
    BY <1>1, LoginKeeps, ChangeKeeps
  <1>2. CASE Logout \/ NetworkReturns \/ Restart
    BY <1>2, LogoutKeeps, NetworkReturnsKeeps, RestartKeeps
  <1>3. ASSUME NEW t \in Threads, LoadData(t)
        PROVE  IInv'
    BY <1>3, DisposesKeeps, ReadsKeeps, SendsKeeps, StoresKeeps DEF LoadData
  <1>4. CASE Launch
    BY <1>3, <1>4, LaunchCallsKeeps DEF Launch, Threads
  <1>5. CASE MainQueue
    BY <1>3, <1>5, SavesCursorKeeps, CursorUnsavedKeeps DEF MainQueue, Threads
  <1>6. CASE Callback
    BY <1>6, AnswerKeeps, ReceiveKeeps, ReceiveUnsavedKeeps, FailKeeps DEF Callback
  <1>7. CASE UNCHANGED vars
    <2>1. UNCHANGED <<log, uid, kv, applied, reqs, disp, thread, handling, events, overlap, faulted>>
      BY <1>7 DEF vars
    <2>2. TypeOK' /\ LogInv' /\ IdsInv' /\ HandlingInv' /\ AnswersInv'
      BY <2>1, BooksKept, AnswersKept
      DEF IInv, TypeOK, IdsInv, HandlingInv, Among, MainId, HasDisposed
    <2>3. ASSUME ThreadsInv, AskedInv, KeptInv
          PROVE  ThreadsInv' /\ AskedInv' /\ KeptInv'
      BY <2>1, <2>3, KeptKept DEF ThreadsInv, AskedInv, InLoadData, HasDisposed, Among
    <2> QED
      BY <2>1, <2>2, <2>3 DEF IInv, CalmInv
  <1> QED
    BY <1>1, <1>2, <1>4, <1>5, <1>6, <1>7 DEF Next

LEMMA Invariance == Spec => []IInv
  <1>1. Init => IInv
    BY InitEstablishes
  <1>2. IInv /\ [Next]_vars => IInv'
    BY NextKeeps
  <1> QED
    BY <1>1, <1>2, PTL DEF Spec

(* Every variable keeps its type; in particular there is always a name left  *)
(* for a subscription: beside what the main queue knows of, only one more    *)
(* can be alive, whenever the launch thread loads (RSSyncService.m:40-69).   *)
THEOREM TypeCorrect == Spec => []TypeOK
  <1>1. IInv => TypeOK
    BY DEF IInv
  <1> QED
    BY <1>1, Invariance, PTL

(* One sync is alive at a time, however logins, network returns, answers in  *)
(* parts and restarts interleave, unless the launch thread loads beside the  *)
(* main queue, over a login or logout, or in the middle of an answer         *)
(* (RSSyncService.m:44-62).                                                  *)
THEOREM OneSyncAtATime == Spec => []OneSync
  <1>1. ASSUME IInv PROVE OneSync
    <2>1. CASE overlap
      BY <2>1 DEF OneSync
    <2>2. CASE ~overlap
      <3>1. \A r, s \in reqs : r = s
        BY <1>1, <2>2 DEF IInv, CalmInv, AskedInv
      <3>2. CASE reqs = {}
        <4>1. Cardinality(reqs) = 0
          BY <3>2, FS_EmptySet
        <4> QED
          BY <4>1 DEF OneSync
      <3>3. CASE reqs # {}
        <4>1. PICK r \in reqs : reqs = {r}
          BY <3>1, <3>3
        <4>2. Cardinality({r}) = 1
          BY FS_Singleton
        <4> QED
          BY <4>1, <4>2 DEF OneSync
      <3> QED
        BY <3>2, <3>3
    <2> QED
      BY <2>1, <2>2
  <1> QED
    BY <1>1, Invariance, PTL

(* No account's cursor is another account's, although logging out stops no   *)
(* request and an answer is saved under the uid of the moment                *)
(* (RSSyncService.m:44-58).                                                  *)
THEOREM CursorsAreOwn == Spec => []CursorIsOwn
  <1>1. IInv => CursorIsOwn
    BY DEF IInv, CalmInv, KeptInv, CursorIsOwn
  <1> QED
    BY <1>1, Invariance, PTL

(* Every change a cursor stands for is in the table of contacts, whichever   *)
(* writes failed, requests were lost or processes killed, also between the   *)
(* saving of an answer's contacts and of its cursor (RSSyncService.m:55-58). *)
THEOREM NothingIsSkipped == Spec => []NothingSkipped
  <1>1. IInv => NothingSkipped
    BY DEF IInv, CalmInv, KeptInv, NothingSkipped
  <1> QED
    BY <1>1, Invariance, PTL

\* Only a callback that goes on writes cursors.
LEMMA CursorsStay ==
  ASSUME [Next]_vars
  PROVE  UNCHANGED kv \/ \E r \in handling : SavesCursor(r)
  <1>1. CASE Launch \/ LoadData("main")
    BY <1>1 DEF Launch, LaunchCalls, LoadData, Disposes, Reads, Sends, Stores
  <1>2. CASE MainQueue
    BY <1>1, <1>2 DEF MainQueue, CursorUnsaved
  <1>3. CASE Callback
    BY <1>3 DEF Callback, Answer, Receive, ReceiveUnsaved, Fail
  <1> QED
    BY <1>1, <1>2, <1>3 DEF Next, vars, Login, Change, Logout, NetworkReturns, Restart

(* A cursor never moves back, not even by the late answer to a request of an *)
(* earlier session, unless the launch thread loads beside the main queue,    *)
(* over a login or logout, or disposes the subscription whose answer is      *)
(* being received (RSSyncService.m:44-62).                                   *)
THEOREM CursorsAdvance == Spec => CursorAdvances
  <1>1. ASSUME IInv, [Next]_vars, ~overlap', NEW u \in Uids
        PROVE  kv'[u].seq >= kv[u].seq
    <2>1. kv \in [Accounts -> Cursors] /\ kv[u].seq \in Int
      BY <1>1, SizesAssumption DEF IInv, TypeOK, Accounts, Cursors, SizesAssumption
    <2>2. CASE UNCHANGED kv
      BY <2>1, <2>2
    <2>3. ASSUME NEW r \in handling, SavesCursor(r)
          PROVE  kv'[u].seq >= kv[u].seq
      <3>1. /\ kv' = [kv EXCEPT ![uid] = NextCursor(r)] /\ NextCursor(r).seq = r.to
            /\ overlap => overlap'
        BY <2>3 DEF SavesCursor, NextCursor, Calls
      <3>2. AskedInv /\ r.answered /\ thread["main"].phase = "idle"
        BY <1>1, <3>1, IdleFields DEF IInv, CalmInv, HandlingInv
      <3>3. CASE u = uid
        BY <2>1, <3>1, <3>2, <3>3 DEF AskedInv, Accounts
      <3>4. CASE u # uid
        BY <2>1, <3>1, <3>4 DEF Accounts
      <3> QED
        BY <3>3, <3>4
    <2> QED
      BY <1>1, <2>2, <2>3, CursorsStay
  <1>2. IInv /\ [Next]_vars => [~overlap' => \A u \in Uids : kv'[u].seq >= kv[u].seq]_vars
    BY <1>1
  <1> QED
    BY <1>2, Invariance, PTL DEF Spec, CursorAdvances

-----------------------------------------------------------------------------
(* Loads under way *)

\* Whoever is logged in when loadData is called will have a subscription.
LEMMA CallChecks ==
  ASSUME TypeOK, NEW t \in Threads, NEW u \in Uids, Calls(t, u)
  PROVE  thread'[t].phase = "checked"
  <1>1. At("checked", NoCursor, NoReq) \in States /\ At("checked", NoCursor, NoReq).phase = "checked"
    BY IdleFields, StateFields DEF Phases
  <1> QED
    BY <1>1, GoesTo, NamesAssumption DEF Calls, NamesAssumption

LEMMA LoadStays ==
  ASSUME IInv, [Next]_vars, NEW u \in Uids, NEW n \in 1..MaxLog,
         Underway(u, n), uid' = u, ~faulted'
  PROVE  Underway(u, n)' \/ kv'[u].seq >= n
  <1> DEFINE Brings(r) == r.owner = u /\ (r.answered => r.to >= n \/ ~r.isEnd)
             Early(t) == thread[t].phase \in {"pending", "checked", "disposed", "read"}
  <1>1. /\ TypeOK /\ u # NoUid /\ n \in Nat
        /\ kv \in [Accounts -> Cursors] /\ u \in Accounts
    BY NamesAssumption DEF IInv, TypeOK, Accounts, NamesAssumption
  <1>2. Len(log[u]) >= n /\ Len(log[u]) \in Nat
    BY DEF IInv, TypeOK, Underway
  <1>3. (\E r \in reqs \cup handling : Brings(r)) \/ (uid = u /\ \E t \in Threads : Early(t))
    BY DEF Underway
  <1>4. ASSUME log' = log,
               (\E r \in (reqs \cup handling)' : Brings(r)) \/ \E t \in Threads : Early(t)'
        PROVE  Underway(u, n)'
    BY <1>2, <1>4 DEF Underway
  <1>5. ASSUME log' = log, (reqs \cup handling)' = reqs \cup handling, thread' = thread, uid' = uid
        PROVE  Underway(u, n)'
    BY <1>3, <1>4, <1>5
  <1>6. ASSUME log' = log, NEW t \in Threads, Calls(t, u)
        PROVE  Underway(u, n)'
    BY <1>1, <1>4, <1>6, CallChecks
  <1>7. ASSUME NEW v \in Uids, Login(v)
        PROVE  Underway(u, n)'
    BY <1>6, <1>7 DEF Login, Threads
  <1>8. CASE NetworkReturns
    BY <1>6, <1>8 DEF NetworkReturns, Threads
  <1>9. CASE Logout
    BY <1>1, <1>9 DEF Logout
  <1>10. CASE Restart
    BY <1>4, <1>10, IdleFields DEF Restart, Threads
  <1>11. CASE LaunchCalls
    BY <1>6, <1>11 DEF LaunchCalls, Threads
  \* A thread is early until its own subscription takes over.
  <1>12. ASSUME NEW t \in Threads, Disposes(t)
         PROVE  Underway(u, n)'
    <2>1. At("disposed", NoCursor, NoReq) \in States
          /\ At("disposed", NoCursor, NoReq).phase = "disposed"
      BY IdleFields, StateFields DEF Phases
    <2>2. thread'[t].phase = "disposed" /\ log' = log
      BY <1>1, <1>12, <2>1, GoesTo DEF Disposes
    <2> QED
      BY <1>4, <2>2
  <1>13. ASSUME NEW t \in Threads, Reads(t)
         PROVE  Underway(u, n)'
    <2>1. kv[uid] \in Cursors
      BY <1>1 DEF TypeOK
    <2>2. At("read", kv[uid], NoReq) \in States /\ At("read", kv[uid], NoReq).phase = "read"
      BY <2>1, StateFields DEF Phases
    <2>3. thread'[t].phase = "read" /\ log' = log
      BY <1>1, <1>13, <2>2, GoesTo DEF Reads
    <2> QED
      BY <1>4, <2>3
  <1>14. ASSUME NEW t \in Threads, Sends(t)
         PROVE  Underway(u, n)'
    <2>1. PICK i : reqs' = reqs \cup {Request(i, uid, thread[t].cursor)}
      BY <1>14 DEF Sends
    <2>2. uid = u /\ log' = log
      BY <1>14 DEF Sends
    <2>3. Brings(Request(i, uid, thread[t].cursor))
      BY <2>2 DEF Request
    <2> QED
      BY <1>4, <2>1, <2>2, <2>3
  <1>15. ASSUME NEW t \in Threads, Stores(t)
         PROVE  Underway(u, n)'
    <2>1. ~Early(t) /\ (reqs \cup handling)' = reqs \cup handling /\ log' = log /\ Goes(t, Idle)
      BY <1>15 DEF Stores
    <2>2. \A o \in Threads : Early(o) => Early(o)'
      BY <1>1, <2>1, IdleFields, GoesTo
    <2> QED
      BY <1>3, <1>4, <2>1, <2>2
  <1>16. ASSUME NEW v \in Uids, NEW k \in Contacts, Change(v, k)
         PROVE  Underway(u, n)'
    <2>1. log \in [Uids -> Seq(Books)] /\ TypeOK'
      BY <1>1, NextKeeps DEF TypeOK, IInv
    <2>2. /\ log' = [log EXCEPT ![v] = Append(@, [BookAt(v, Len(@)) EXCEPT ![k] = Len(log[v]) + 1])]
          /\ reqs' = reqs /\ handling' = handling /\ thread' = thread /\ uid' = uid
      BY <1>16 DEF Change
    <2>3. Len(log'[u]) >= Len(log[u]) /\ Len(log'[u]) \in Nat
      <3>1. CASE u = v
        <4>1. \E b : log'[u] = Append(log[u], b)
          BY <2>1, <2>2, <3>1
        <4> QED
          BY <1>2, <2>1, <4>1
      <3>2. CASE u # v
        BY <1>2, <2>1, <2>2, <3>2
      <3> QED
        BY <3>1, <3>2
    <2>4. Len(log'[u]) >= n
      BY <1>1, <1>2, <2>3
    <2> QED
      BY <1>3, <2>2, <2>4 DEF Underway
  <1>17. ASSUME NEW r \in reqs, Answer(r)
         PROVE  Underway(u, n)'
    <2>1. PICK m \in 0..Len(log[r.owner]) :
            reqs' = (reqs \ {r}) \cup
              {[r EXCEPT !.answered = TRUE, !.to = m, !.isEnd = (m = Len(log[r.owner]))]}
      BY <1>17 DEF Answer
    <2> DEFINE a == [r EXCEPT !.answered = TRUE, !.to = m, !.isEnd = (m = Len(log[r.owner]))]
    <2>2. /\ a.owner = r.owner /\ a.to = m /\ (a.isEnd <=> m = Len(log[r.owner]))
      BY <1>1 DEF TypeOK, Requests
    <2>3. log' = log /\ thread' = thread /\ handling' = handling /\ uid' = uid
      BY <1>17 DEF Answer
    <2>4. CASE r.owner = u
      <3>1. a.to >= n \/ ~a.isEnd
        BY <1>1, <1>2, <2>2, <2>4
      <3>2. Brings(a) /\ a \in reqs'
        BY <2>1, <2>2, <2>4, <3>1
      <3> QED
        BY <1>4, <2>3, <3>2
    <2>5. CASE r.owner # u
      <3>1. \A q \in reqs \cup handling : Brings(q) => q \in (reqs \cup handling)'
        BY <2>1, <2>3, <2>5
      <3> QED
        BY <1>3, <1>4, <2>3, <3>1
    <2> QED
      BY <2>4, <2>5
  <1>18. ASSUME NEW r \in reqs, Receive(r)
         PROVE  Underway(u, n)'
    <2>1. (reqs \cup handling)' = reqs \cup handling /\ log' = log /\ thread' = thread /\ uid' = uid
      BY <1>18 DEF Receive, MainIsFree
    <2> QED
      BY <1>5, <2>1
  <1>19. ASSUME NEW r \in handling, SavesCursor(r)
         PROVE  Underway(u, n)' \/ kv'[u].seq >= n
    <2>1. /\ handling = {r} /\ r.answered
          /\ kv' = [kv EXCEPT ![uid] = NextCursor(r)] /\ NextCursor(r).seq = r.to
          /\ log' = log /\ reqs' = reqs /\ handling' = {} /\ uid' = uid
      BY <1>19 DEF IInv, HandlingInv, SavesCursor, NextCursor
    <2>2. CASE r.isEnd /\ Brings(r)
      <3>1. kv'[u].seq = r.to
        BY <1>1, <2>1
      <3> QED
        BY <2>1, <2>2, <3>1
    <2>3. CASE r.isEnd /\ ~Brings(r)
      <3>1. thread' = thread
        BY <1>19, <2>3 DEF SavesCursor
      <3> QED
        BY <1>3, <1>4, <2>1, <2>3, <3>1
    <2>4. CASE ~r.isEnd
      <3>1. Calls("main", u)
        BY <1>19, <2>1, <2>4 DEF SavesCursor
      <3> QED
        BY <1>6, <2>1, <3>1 DEF Threads
    <2> QED
      BY <2>2, <2>3, <2>4
  <1>20. ASSUME NEW r \in reqs, Fail(r)
         PROVE  Underway(u, n)'
    <2>1. /\ r.owner = NoUid /\ reqs' = reqs \ {r} /\ log' = log /\ thread' = thread
          /\ handling' = handling /\ uid' = uid
      BY <1>20, Zenon DEF Fail
    <2>2. ~Brings(r)
      BY <1>1, <2>1
    <2> QED
      BY <1>3, <1>4, <2>1, <2>2
  <1>21. ~(\E r \in reqs : ReceiveUnsaved(r)) /\ ~(\E r \in handling : CursorUnsaved(r))
    BY Zenon DEF ReceiveUnsaved, CursorUnsaved
  <1>22. CASE UNCHANGED vars
    BY <1>5, <1>22 DEF vars
  <1>23. ASSUME NEW t \in Threads, LoadData(t)
         PROVE  Underway(u, n)'
    BY <1>12, <1>13, <1>14, <1>15, <1>23 DEF LoadData
  <1>24. CASE Launch
    BY <1>11, <1>23, <1>24 DEF Launch, Threads
  <1>25. CASE MainQueue
    BY <1>19, <1>21, <1>23, <1>25 DEF MainQueue, Threads
  <1>26. CASE Callback
    BY <1>17, <1>18, <1>20, <1>21, <1>26 DEF Callback
  <1> QED
    BY <1>7, <1>8, <1>9, <1>10, <1>16, <1>22, <1>24, <1>25, <1>26 DEF Next

(* A load that is under way stays so until the cursor has passed what it is  *)
(* for, also when the launch thread loads at the wrong time: overlapping     *)
(* loads may mix cursors up, but lose none (RSSyncService.m:40-69).          *)
THEOREM LoadsAreNotLost == Spec => NoLoadIsLost
  <1>1. IInv /\ [Next]_vars
          => [\A u \in Uids, n \in 1..MaxLog :
                Underway(u, n) => Underway(u, n)' \/ uid' # u \/ kv'[u].seq >= n \/ faulted']_vars
    BY LoadStays
  <1> QED
    BY <1>1, Invariance, PTL DEF Spec, NoLoadIsLost
==============================================================================
