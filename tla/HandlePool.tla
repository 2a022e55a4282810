----------------------------- MODULE HandlePool -----------------------------
(***************************************************************************)
(* WCDB's pool of SQLite handles, through which every table of the program *)
(* is read and written: on the main queue, on the launch and the upload    *)
(* threads, on WCDB's checkpoint thread, and, for memory warnings, on its  *)
(* purge queue.  One step of a thread is one call on the lock, on the list *)
(* of idle handles or on the count of handles; what lies between two such  *)
(* calls touches nothing another thread sees.                              *)
(*                                                                         *)
(* A handle is a shared pointer: the database is open through it while the *)
(* list or a thread refers to it.  A transaction keeps its handle for the  *)
(* thread, and what the thread runs meanwhile uses that one; so a          *)
(* transaction and a single statement are both a "use".                    *)
(***************************************************************************)
EXTENDS RWLock, Sequences, FiniteSets, Functions

CONSTANTS
  Threads,
  Handles,     \* names for the handles, more than are ever open together
  NoHandle,    \* a null pointer
  Capacity,    \* s_hardwareConcurrency: how many handles may be idle
  MaxHandles,  \* s_maxConcurrency
  MaxCloses,   \* bound: calls of close and blockade
  MaxConfigs   \* bound: changes of the configuration

ASSUME PoolAssumption ==
  /\ Capacity \in Nat /\ MaxHandles \in Nat \ {0}
  /\ MaxCloses \in Nat /\ MaxConfigs \in Nat
  /\ NoHandle \notin Handles
  /\ IsFiniteSet(Threads)

VARIABLES
  op,       \* what each thread has called, or "none"
  pc,       \* how far it is
  held,     \* the handle it refers to
  size,     \* how many handles it removed from the list
  idle,     \* m_handles
  alive,    \* m_aliveHandleCount
  stale,    \* the handles configured otherwise than m_configs says
  closes, configs  \* how much of the bounds is used

vars == <<reader, writer, pending, asleep, op, pc, held, size, idle, alive, stale, closes, configs>>

Reads  == {"use", "fill", "purge"}
Writes == {"close", "blockade", "closeInside"}

\* Where each operation goes on when it has the lock.
Body ==
  [use |-> "pop", fill |-> "generate", purge |-> "clear",
   close |-> "clear", blockade |-> "blockaded", closeInside |-> "clear"]

\* Where a thread reads under the lock, and where it has the lock to itself.
Reading == {"pop", "check", "generate", "count", "configure", "using", "fill", "filled",
            "pushed", "surplus", "clear", "subtract", "giveUp"}
Alone   == {"clear", "subtract", "onClosed", "blockaded"}

Open == (Range(idle) \cup {held[t] : t \in Threads}) \ {NoHandle}

Init ==
  /\ LockInit
  /\ op = [t \in Threads |-> "none"]
  /\ pc = [t \in Threads |-> "out"]
  /\ held = [t \in Threads |-> NoHandle]
  /\ size = [t \in Threads |-> 0]
  /\ idle = <<>> /\ alive = 0 /\ stale = {}
  /\ closes = 0 /\ configs = 0

Goto(t, l) == pc' = [pc EXCEPT ![t] = l]
At(t, l)   == pc[t] = l
Hold(t, h) == held' = [held EXCEPT ![t] = h]
Return(t)  == Goto(t, "out") /\ op' = [op EXCEPT ![t] = "none"]

bounds == <<closes, configs>>
handles == <<held, size, idle, alive, stale>>

\* An operation is called.  canOpen fills the pool only if nothing is open.
Call(t, o) ==
  /\ At(t, "out")
  /\ op' = [op EXCEPT ![t] = o]
  /\ IF o \in Writes
     THEN closes < MaxCloses /\ closes' = closes + 1 /\ Goto(t, "lockWrite")
     ELSE UNCHANGED closes /\ Goto(t, "lockRead")
  /\ o = "fill" => alive = 0
  /\ UNCHANGED <<lockVars, handles, configs>>

LockRead(t) ==
  /\ At(t, "lockRead") /\ t \notin asleep
  /\ \/ ReadLocked /\ Goto(t, Body[op[t]])
     \/ ReadWaits(t) /\ UNCHANGED pc
  /\ UNCHANGED <<op, handles, bounds>>

LockWrite(t) ==
  /\ At(t, "lockWrite")
  /\ \/ WriteLocked /\ Goto(t, Body[op[t]])
     \/ WriteAnnounced(t) /\ Goto(t, "waitWrite")
  /\ UNCHANGED <<op, handles, bounds>>

WaitWrite(t) ==
  /\ At(t, "waitWrite") /\ t \notin asleep
  /\ \/ WriteLockedAtLast /\ Goto(t, Body[op[t]])
     \/ WriteWaits(t) /\ UNCHANGED pc
  /\ UNCHANGED <<op, handles, bounds>>

(***************************************************************************)
(* flowOut: take the last idle handle or open one, and configure it.       *)
(***************************************************************************)
PopKeeping(t) ==   \* mutant: the list keeps what it gives
  /\ At(t, "pop")
  /\ IF idle = <<>>
     THEN Goto(t, "check") /\ UNCHANGED held
     ELSE Hold(t, idle[Len(idle)]) /\ Goto(t, "configure")
  /\ UNCHANGED <<lockVars, op, size, idle, alive, stale, bounds>>

Pop(t) ==
  /\ At(t, "pop")
  /\ IF idle = <<>>
     THEN Goto(t, "check") /\ UNCHANGED <<held, idle>>
     ELSE /\ Hold(t, idle[Len(idle)])
          /\ idle' = SubSeq(idle, 1, Len(idle) - 1)
          /\ Goto(t, "configure")
  /\ UNCHANGED <<lockVars, op, size, alive, stale, bounds>>

CheckAtMost(t) ==   \* mutant: one too many
  /\ At(t, "check")
  /\ Goto(t, IF alive <= MaxHandles THEN "generate" ELSE "giveUp")
  /\ UNCHANGED <<lockVars, op, handles, bounds>>

\* The count is looked at here and raised two steps later, under a lock that
\* other readers share.
Check(t) ==
  /\ At(t, "check")
  /\ Goto(t, IF alive < MaxHandles THEN "generate" ELSE "giveUp")
  /\ UNCHANGED <<lockVars, op, handles, bounds>>

\* Opening and configuring a new handle may fail.
Generate(t) ==
  /\ At(t, "generate")
  /\ \/ \E h \in Handles \ Open :
          /\ h = CHOOSE n \in Handles \ Open : TRUE
          /\ Hold(t, h)
          /\ stale' = stale \ {h}
          /\ Goto(t, IF op[t] = "fill" THEN "fill" ELSE "count")
     \/ Goto(t, "giveUp") /\ UNCHANGED <<held, stale>>
  /\ UNCHANGED <<lockVars, op, size, idle, alive, bounds>>

CountNot(t) ==   \* mutant: a new handle is not counted
  /\ At(t, "count")
  /\ Goto(t, "configure")
  /\ UNCHANGED <<lockVars, op, handles, bounds>>

Count(t) ==
  /\ At(t, "count")
  /\ alive' = alive + 1
  /\ Goto(t, "configure")
  /\ UNCHANGED <<lockVars, op, held, size, idle, stale, bounds>>

\* A configuration changed meanwhile is applied, which may fail: then the
\* handle goes, and it stays counted.
Configure(t) ==
  /\ At(t, "configure")
  /\ \/ /\ stale' = stale \ {held[t]}
        /\ Goto(t, "using")
        /\ UNCHANGED held
     \/ /\ held[t] \in stale
        /\ Hold(t, NoHandle)
        /\ Goto(t, "giveUp")
        /\ UNCHANGED stale
  /\ UNCHANGED <<lockVars, op, size, idle, alive, bounds>>

\* The end of a call that keeps no handle: flowOut in vain, and a purge.
GiveUp(t) ==
  /\ At(t, "giveUp")
  /\ ReadUnlocked
  /\ Return(t)
  /\ UNCHANGED <<handles, bounds>>

(***************************************************************************)
(* flowBack, when the last reference to the handle in use goes; and        *)
(* fillOne.  The handle is given back before the lock, but its last count  *)
(* and the pointer to it go after the lock.                                *)
(***************************************************************************)
PushBackAlways(t, inserted, rejected) ==   \* mutant: the capacity is not looked at
  idle' = Append(idle, held[t]) /\ Goto(t, inserted)

PushBack(t, inserted, rejected) ==
  IF Len(idle) < Capacity
  THEN idle' = Append(idle, held[t]) /\ Goto(t, inserted)
  ELSE UNCHANGED idle /\ Goto(t, rejected)

FlowBack(t) ==
  /\ At(t, "using")
  /\ PushBack(t, "pushed", "surplus")
  /\ UNCHANGED <<lockVars, op, held, size, alive, stale, bounds>>

Fill(t) ==
  /\ At(t, "fill")
  /\ PushBack(t, "filled", "pushed")
  /\ UNCHANGED <<lockVars, op, held, size, alive, stale, bounds>>

Filled(t) ==
  /\ At(t, "filled")
  /\ alive' = alive + 1
  /\ Goto(t, "pushed")
  /\ UNCHANGED <<lockVars, op, held, size, idle, stale, bounds>>

Unlock(t) ==
  /\ At(t, "pushed") \/ At(t, "surplus")
  /\ ReadUnlocked
  /\ Goto(t, IF At(t, "pushed") THEN "release" ELSE "uncount")
  /\ UNCHANGED <<op, handles, bounds>>

Uncount(t) ==
  /\ At(t, "uncount")
  /\ alive' = alive - 1
  /\ Goto(t, "release")
  /\ UNCHANGED <<lockVars, op, held, size, idle, stale, bounds>>

Release(t) ==
  /\ At(t, "release")
  /\ Hold(t, NoHandle)
  /\ Return(t)
  /\ UNCHANGED <<lockVars, size, idle, alive, stale, bounds>>

(***************************************************************************)
(* purgeFreeHandles, drain, blockade and unblockade.                       *)
(***************************************************************************)
Clear(t) ==
  /\ At(t, "clear")
  /\ size' = [size EXCEPT ![t] = Len(idle)]
  /\ idle' = <<>>
  /\ Goto(t, "subtract")
  /\ UNCHANGED <<lockVars, op, held, alive, stale, bounds>>

Subtract(t) ==
  /\ At(t, "subtract")
  /\ alive' = alive - size[t]
  /\ size' = [size EXCEPT ![t] = 0]
  /\ Goto(t, IF op[t] = "purge" THEN "giveUp" ELSE "onClosed")
  /\ UNCHANGED <<lockVars, op, held, idle, stale, bounds>>

\* The callback has run: the others may go on.
Closed(t) ==
  /\ At(t, "onClosed")
  /\ WriteUnlocked
  /\ IF op[t] = "closeInside" THEN Goto(t, "blockaded") /\ UNCHANGED op ELSE Return(t)
  /\ UNCHANGED <<handles, bounds>>

\* Between blockade and unblockade a thread may call close, as the
\* documentation of close has it.
CloseInside(t) ==
  /\ At(t, "blockaded")
  /\ op' = [op EXCEPT ![t] = "closeInside"]
  /\ Goto(t, "lockWrite")
  /\ UNCHANGED <<lockVars, handles, bounds>>

Unblockade(t) ==
  /\ At(t, "blockaded")
  /\ WriteUnlocked
  /\ Return(t)
  /\ UNCHANGED <<handles, bounds>>

(***************************************************************************)
(* The configuration changes, so no open handle has it; and a wait ends    *)
(* for no reason.                                                          *)
(***************************************************************************)
SetConfig ==
  /\ configs < MaxConfigs
  /\ configs' = configs + 1
  /\ stale' = Open
  /\ UNCHANGED <<lockVars, op, pc, held, size, idle, alive, closes>>

SpuriousWake(t) ==
  /\ WokenSpuriously(t)
  /\ UNCHANGED <<op, pc, handles, bounds>>

Step(t) ==
  \/ LockRead(t) \/ LockWrite(t) \/ WaitWrite(t)
  \/ Pop(t) \/ Check(t) \/ Generate(t) \/ Count(t) \/ Configure(t) \/ GiveUp(t)
  \/ FlowBack(t) \/ Fill(t) \/ Filled(t) \/ Unlock(t) \/ Uncount(t) \/ Release(t)
  \/ Clear(t) \/ Subtract(t) \/ Closed(t) \/ Unblockade(t)

Next ==
  \/ \E t \in Threads :
       \/ \E o \in {"use", "fill", "purge", "close", "blockade"} : Call(t, o)
       \/ Step(t) \/ CloseInside(t) \/ SpuriousWake(t)
  \/ SetConfig

Spec == Init /\ [][Next]_vars

\* A thread that is not asleep runs on: it gives back the handle it uses and
\* lifts its blockade.
FairSpec == Spec /\ \A t \in Threads : WF_vars(Step(t))

-----------------------------------------------------------------------------
(* Properties *)

Locations == Reading \cup Alone \cup {"out", "lockRead", "lockWrite", "waitWrite", "uncount", "release"}

TypeOK ==
  /\ reader \in Nat /\ writer \in Nat /\ pending \in Nat
  /\ asleep \subseteq Threads
  /\ op \in [Threads -> Reads \cup Writes \cup {"none"}]
  /\ pc \in [Threads -> Locations]
  /\ held \in [Threads -> Handles \cup {NoHandle}]
  /\ size \in [Threads -> Nat]
  /\ idle \in Seq(Handles) /\ Len(idle) <= Capacity
  /\ alive \in Int
  /\ stale \subseteq Handles
  /\ closes \in 0..MaxCloses /\ configs \in 0..MaxConfigs

\* Where a thread has the lock for reading, and for writing.
Reader(t) == pc[t] \in Reading /\ op[t] \in Reads
Writer(t) == \/ pc[t] \in Alone /\ op[t] \in Writes
             \/ op[t] = "closeInside" /\ pc[t] \in {"lockWrite", "waitWrite"}

Readers == {t \in Threads : Reader(t)}
Writers == {t \in Threads : Writer(t)}
Waiting == {t \in Threads : pc[t] = "waitWrite"}

\* Where a thread's handle is its own.
Owns(t) == pc[t] \in {"count", "configure", "using", "fill"}

\* While the database is closed or blockaded no other operation has a handle
\* in use, and no thread has it closed or blockaded as well (handle_pool.cpp:117-126).
ClosedToOthers ==
  \A t, u \in Threads : t # u /\ Writer(t) => ~Reader(u) /\ ~Writer(u)

\* Two threads never use the same handle, nor one another could still take,
\* although whoever gave it back refers to it a little longer
\* (handle_pool.cpp:141-192).
OneUser ==
  \A t \in Threads : Owns(t) =>
    /\ held[t] \notin Range(idle)
    /\ \A u \in Threads \ {t} : Owns(u) => held[u] # held[t]

AtRest == \A t \in Threads : pc[t] \in {"out", "lockRead", "lockWrite", "waitWrite"}

\* When no operation is under way, the count is that of the idle handles, in
\* whatever order the others raised and lowered it; only a changed
\* configuration may leave it too high, and nothing leaves it too low
\* (handle_pool.cpp:119-192).
CountIsTrue ==
  AtRest => alive >= Len(idle) /\ (configs = 0 => alive = Len(idle))

\* The limit on handles is passed by as many as raced for the last one, one
\* less than the threads, and by no more (handle_pool.cpp:146-149).
LimitHolds == alive <= MaxHandles + Cardinality(Threads) - 1

Exclusion == INSTANCE ReadersWriters
               WITH readers <- Readers, writers <- Writers, waiting <- Waiting

\* The pool's threads read and write as ReadersWriters allows, though the lock
\* counts them and knows none: nobody enters with a writer inside, and no
\* reader overtakes a writer who waits (rwlock.cpp:33-77).
ImplementsExclusion == Exclusion!Spec

\* Nobody sleeps through the change it waits for: a thread is asleep only
\* while the lock refuses it (rwlock.cpp:36-77).
NoLostWakeup ==
  \A t \in asleep : \/ At(t, "lockRead") /\ ~Readable
                    \/ At(t, "waitWrite") /\ ~Writable

\* Never is everyone with an operation under way asleep, unless a thread
\* closes the database it has itself blockaded (rwlock.cpp:33-77).
NoDeadlock ==
  (\E t \in Threads : ~At(t, "out")) =>
    \/ \E t \in Threads \ asleep : ~At(t, "out")
    \/ \E t \in Threads : op[t] = "closeInside"

\* Every operation returns, unless a thread closes the database it has itself
\* blockaded; no thread sleeps through what it waits for (rwlock.cpp:33-77).
Returns ==
  \A t \in Threads :
    pc[t] # "out" ~> \/ pc[t] = "out"
                     \/ \E u \in Threads : op[u] = "closeInside" /\ pc[u] # "out"

\* When the onClosed block runs the list is empty, and all that is still open is
\* with calls that have given up the lock and are about to let it go, those that
\* put it into the list and those whose handle the full list rejected; the latter
\* are all the count still names (handle_pool.cpp:119-126, 187-191, 223-225).
ClosedButForLeavers ==
  \A t \in Threads : At(t, "onClosed") =>
    /\ idle = <<>>
    /\ \A u \in Threads : held[u] # NoHandle => pc[u] \in {"uncount", "release"}
    /\ configs = 0 => alive = Cardinality({u \in Threads : At(u, "uncount")})

\* "this method can make sure database is closed in the onClosed block"
\* (WCTDatabase+Database.h:86): no handle is open there.
ClosedInOnClosed == \A t \in Threads : At(t, "onClosed") => Open = {}

\* "You can simply call close: to do all steps above or call these separately"
\* (WCTDatabase+Database.h:92, :103-107): blockade and then close returns.
SeparateCloseReturns ==
  \A t \in Threads : op[t] = "closeInside" ~> pc[t] \in {"onClosed", "out"}
==============================================================================
