------------------------------- MODULE RWLock -------------------------------
(***************************************************************************)
(* WCDB's RWLock: a mutex, a condition variable and three counters.  A     *)
(* call holds the mutex from end to end, except while it waits on the      *)
(* condition; so a call is one step, or one step that goes to sleep and    *)
(* one for each time it is woken.  A module that uses the lock has its     *)
(* threads' program counters; the lock does not know who holds it.         *)
(***************************************************************************)
EXTENDS Integers

VARIABLES
  reader,   \* m_reader: how often it is locked for reading
  writer,   \* m_writer: how often it is locked for writing
  pending,  \* m_pending: calls of lockWrite under way
  asleep    \* the threads waiting on m_cond

lockVars == <<reader, writer, pending, asleep>>

LockInit == reader = 0 /\ writer = 0 /\ pending = 0 /\ asleep = {}

ReadableOverPending == writer = 0   \* mutant: a waiting writer is not looked at

ReadableWhileWriting == pending = 0   \* mutant: only waiting writers are looked at

\* What lockRead and lockWrite wait for.
Readable == writer = 0 /\ pending = 0
Writable == writer = 0 /\ reader = 0

Sleep(t) == asleep' = asleep \cup {t}

ReadLocked ==
  /\ Readable
  /\ reader' = reader + 1
  /\ UNCHANGED <<writer, pending, asleep>>

ReadWaits(t) ==
  /\ ~Readable
  /\ Sleep(t)
  /\ UNCHANGED <<reader, writer, pending>>

\* lockWrite that need not wait: m_pending goes up and down in one step.
WriteLocked ==
  /\ Writable
  /\ writer' = writer + 1
  /\ UNCHANGED <<reader, pending, asleep>>

WriteAnnounced(t) ==
  /\ ~Writable
  /\ pending' = pending + 1
  /\ Sleep(t)
  /\ UNCHANGED <<reader, writer>>

\* lockWrite after it has waited.
WriteLockedAtLast ==
  /\ Writable
  /\ pending' = pending - 1
  /\ writer' = writer + 1
  /\ UNCHANGED <<reader, asleep>>

WriteWaits(t) ==
  /\ ~Writable
  /\ Sleep(t)
  /\ UNCHANGED <<reader, writer, pending>>

ReadUnlocked ==
  /\ reader' = reader - 1
  /\ asleep' = IF reader = 1 THEN {} ELSE asleep
  /\ UNCHANGED <<writer, pending>>

WriteUnlocked ==
  /\ writer' = writer - 1
  /\ asleep' = {}
  /\ UNCHANGED <<reader, pending>>

\* A wait may also end for no reason.
WokenSpuriously(t) ==
  /\ t \in asleep
  /\ asleep' = asleep \ {t}
  /\ UNCHANGED <<reader, writer, pending>>
==============================================================================
