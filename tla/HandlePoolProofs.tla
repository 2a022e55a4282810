-------------------------- MODULE HandlePoolProofs --------------------------
(***************************************************************************)
(* For any number of threads, any capacity and any limit: the lock keeps   *)
(* closing and using apart and lets nobody sleep whom it would let in, a   *)
(* handle has one user, the limit on handles is passed by less than the    *)
(* number of threads, at rest the count of handles is that of the idle     *)
(* ones, and a close leaves open only what others are about to let go.     *)
(***************************************************************************)
EXTENDS HandlePool, FiniteSetTheorems, SequenceTheorems, TLAPS

\* What was called tells where a thread can be.  A thread that closes inside
\* its own blockade gets no further than the lock.
PlaceInv ==
  \A t \in Threads :
    /\ pc[t] \in (Reading \ {"clear", "subtract"}) \cup {"lockRead"} => op[t] \in Reads
    /\ pc[t] \in {"clear", "subtract"} => op[t] \in {"purge"} \cup Writes
    /\ pc[t] \in {"lockWrite", "waitWrite", "onClosed", "blockaded"} => op[t] \in Writes
    /\ pc[t] \in {"uncount", "release"} => op[t] \in Reads
    /\ op[t] = "closeInside" => pc[t] \in {"lockWrite", "waitWrite"}
    /\ Owns(t) => held[t] \in Handles

\* The counters of the lock are those of the threads that have it, or wait to
\* write.
LockInv ==
  /\ reader = Cardinality(Readers)
  /\ writer = Cardinality(Writers)
  /\ pending = Cardinality(Waiting)
  /\ writer <= 1
  /\ writer > 0 => reader = 0

IInv == TypeOK /\ PlaceInv /\ LockInv

-----------------------------------------------------------------------------
(* Counting threads *)

LEMMA CardJoin ==
  ASSUME NEW S \in SUBSET Threads, NEW t \in Threads, t \notin S
  PROVE  /\ Cardinality(S) \in Nat
         /\ Cardinality(S \cup {t}) = Cardinality(S) + 1
  <1>1. IsFiniteSet(S)
    BY PoolAssumption, FS_Subset
  <1> QED
    BY <1>1, FS_CardinalityType, FS_AddElement

LEMMA CardLeave ==
  ASSUME NEW S \in SUBSET Threads, NEW t \in S
  PROVE  /\ Cardinality(S) \in Nat \ {0}
         /\ Cardinality(S \ {t}) = Cardinality(S) - 1
  <1>1. IsFiniteSet(S)
    BY PoolAssumption, FS_Subset
  <1>2. S # {}
    OBVIOUS
  <1> QED
    BY <1>1, <1>2, FS_CardinalityType, FS_RemoveElement, FS_EmptySet

LEMMA CardNat ==
  ASSUME NEW S \in SUBSET Threads
  PROVE  /\ Cardinality(S) \in Nat
         /\ Cardinality(S) = 0 => S = {}
  <1>1. IsFiniteSet(S)
    BY PoolAssumption, FS_Subset
  <1> QED
    BY <1>1, FS_CardinalityType, FS_EmptySet

\* Two members make two.
LEMMA CardTwo ==
  ASSUME NEW S \in SUBSET Threads, NEW t \in S, NEW u \in S, t # u
  PROVE  Cardinality(S) >= 2
  <1>1. u \in S \ {t}
    OBVIOUS
  <1>2. Cardinality(S \ {t}) \in Nat \ {0}
    BY <1>1, CardLeave
  <1> QED
    BY <1>2, CardLeave

-----------------------------------------------------------------------------
(* Taking from the list of idle handles, and adding to it *)

LEMMA FrontOf ==
  ASSUME NEW s \in Seq(Handles), s # <<>>
  PROVE  /\ Len(s) \in Nat \ {0}
         /\ s[Len(s)] \in Handles
         /\ SubSeq(s, 1, Len(s) - 1) \in Seq(Handles)
         /\ Len(SubSeq(s, 1, Len(s) - 1)) = Len(s) - 1
         /\ \A i \in 1..(Len(s) - 1) : SubSeq(s, 1, Len(s) - 1)[i] = s[i]
  <1>1. Len(s) \in Nat \ {0}
    BY EmptySeq, LenProperties
  <1>2. \A i \in 1..Len(s) : s[i] \in Handles
    BY ElementOfSeq
  <1>3. \A i \in 1..(Len(s) - 1) : s[i] \in Handles
    BY <1>1, <1>2
  <1>4. Len(s) - 1 \in Int /\ 1 \in Int
    BY <1>1
  <1>5. /\ SubSeq(s, 1, Len(s) - 1) \in Seq(Handles)
        /\ Len(SubSeq(s, 1, Len(s) - 1)) = IF 1 <= Len(s) - 1 THEN Len(s) - 1 - 1 + 1 ELSE 0
        /\ \A i \in 1..(Len(s) - 1 - 1 + 1) : SubSeq(s, 1, Len(s) - 1)[i] = s[1 + i - 1]
    BY <1>3, <1>4, SubSeqProperties
  <1>6. s[Len(s)] \in Handles
    BY <1>1, <1>2
  <1>7. Len(SubSeq(s, 1, Len(s) - 1)) = Len(s) - 1
    <2>1. \A n \in Nat \ {0} : (IF 1 <= n - 1 THEN n - 1 - 1 + 1 ELSE 0) = n - 1
      OBVIOUS
    <2> QED
      BY <1>1, <1>5, <2>1, Zenon
  <1>8. \A i \in 1..(Len(s) - 1) : SubSeq(s, 1, Len(s) - 1)[i] = s[i]
    <2> SUFFICES ASSUME NEW i \in 1..(Len(s) - 1)
                 PROVE  SubSeq(s, 1, Len(s) - 1)[i] = s[i]
      OBVIOUS
    <2>1. i \in 1..(Len(s) - 1 - 1 + 1) /\ 1 + i - 1 = i
      BY <1>1
    <2> QED
      BY <1>5, <2>1
  <1> QED
    BY <1>1, <1>5, <1>6, <1>7, <1>8

LEMMA AppendOf ==
  ASSUME NEW s \in Seq(Handles), NEW h \in Handles
  PROVE  /\ Append(s, h) \in Seq(Handles)
         /\ Len(s) \in Nat
         /\ Len(Append(s, h)) = Len(s) + 1
         /\ \A i \in 1..Len(s) : Append(s, h)[i] = s[i]
         /\ Append(s, h)[Len(s) + 1] = h
  BY AppendProperties, LenProperties

-----------------------------------------------------------------------------
(* The lock and its users *)

LEMMA InitIInv == Init => IInv
  <1> SUFFICES ASSUME Init PROVE IInv
    OBVIOUS
  <1>1. TypeOK
    BY PoolAssumption DEF Init, LockInit, TypeOK, Locations
  <1>2. PlaceInv
    BY DEF Init, PlaceInv, Owns, Reading
  <1>3. Readers = {} /\ Writers = {} /\ Waiting = {}
    BY DEF Init, Readers, Writers, Waiting, Reader, Writer, Reading, Alone, Reads, Writes
  <1>4. LockInv
    BY <1>3, FS_EmptySet DEF Init, LockInit, LockInv
  <1> QED
    BY <1>1, <1>2, <1>4 DEF IInv

SameHold(u) ==
  /\ Reader(u)' <=> Reader(u)
  /\ Writer(u)' <=> Writer(u)
  /\ pc'[u] = "waitWrite" <=> pc[u] = "waitWrite"

\* A step of a thread that neither takes nor releases the lock.
LEMMA LockUntouched ==
  ASSUME IInv, UNCHANGED <<reader, writer, pending>>,
         \A u \in Threads : SameHold(u)
  PROVE  LockInv'
  <1>1. Readers' = Readers /\ Writers' = Writers /\ Waiting' = Waiting
    BY DEF Readers, Writers, Waiting, SameHold
  <1> QED
    BY <1>1 DEF IInv, LockInv

Quiet(t) ==
  \/ Pop(t) \/ Check(t) \/ Generate(t) \/ Count(t) \/ Configure(t) \/ FlowBack(t)
  \/ Fill(t) \/ Filled(t) \/ Uncount(t) \/ Release(t) \/ Clear(t) \/ Subtract(t)
  \/ CloseInside(t)

\* It leaves every thread's hold of the lock.
LEMMA QuietHolds ==
  ASSUME IInv, NEW t \in Threads, Quiet(t)
  PROVE  \A u \in Threads : SameHold(u)
  <1> USE DEF Goto, At, Hold, Return, handles, bounds, lockVars
  <1>1. \A u \in Threads \ {t} : pc'[u] = pc[u] /\ op'[u] = op[u]
    BY DEF IInv, TypeOK, Quiet, PushBack, Pop, Check, Generate, Count, Configure, FlowBack, Fill,
           Filled, Uncount, Release, Clear, Subtract, CloseInside
  <1>2. SameHold(t)
    <2>1. CASE Pop(t)
      BY <2>1 DEF IInv, TypeOK, PlaceInv, SameHold, Reader, Writer, Reading, Alone, Reads, Writes, Pop
    <2>2. CASE Check(t)
      BY <2>2 DEF IInv, TypeOK, PlaceInv, SameHold, Reader, Writer, Reading, Alone, Reads, Writes, Check
    <2>3. CASE Generate(t)
      BY <2>3 DEF IInv, TypeOK, PlaceInv, SameHold, Reader, Writer, Reading, Alone, Reads, Writes, Generate
    <2>4. CASE Count(t)
      BY <2>4 DEF IInv, TypeOK, PlaceInv, SameHold, Reader, Writer, Reading, Alone, Reads, Writes, Count
    <2>5. CASE Configure(t)
      BY <2>5 DEF IInv, TypeOK, PlaceInv, SameHold, Reader, Writer, Reading, Alone, Reads, Writes, Configure
    <2>6. CASE FlowBack(t)
      BY <2>6 DEF IInv, TypeOK, PlaceInv, SameHold, Reader, Writer, Reading, Alone, Reads, Writes, FlowBack, PushBack
    <2>7. CASE Fill(t)
      BY <2>7 DEF IInv, TypeOK, PlaceInv, SameHold, Reader, Writer, Reading, Alone, Reads, Writes, Fill, PushBack
    <2>8. CASE Filled(t)
      BY <2>8 DEF IInv, TypeOK, PlaceInv, SameHold, Reader, Writer, Reading, Alone, Reads, Writes, Filled
    <2>9. CASE Uncount(t)
      BY <2>9 DEF IInv, TypeOK, PlaceInv, SameHold, Reader, Writer, Reading, Alone, Reads, Writes, Uncount
    <2>10. CASE Release(t)
      BY <2>10 DEF IInv, TypeOK, PlaceInv, SameHold, Reader, Writer, Reading, Alone, Reads, Writes, Release
    <2>11. CASE Clear(t)
      BY <2>11 DEF IInv, TypeOK, PlaceInv, SameHold, Reader, Writer, Reading, Alone, Reads, Writes, Clear
    <2>12. CASE Subtract(t)
      BY <2>12 DEF IInv, TypeOK, PlaceInv, SameHold, Reader, Writer, Reading, Alone, Reads, Writes, Subtract
    <2>13. CASE CloseInside(t)
      BY <2>13 DEF IInv, TypeOK, PlaceInv, SameHold, Reader, Writer, Reading, Alone, Reads, Writes, CloseInside
    <2> QED
      BY <2>1, <2>2, <2>3, <2>4, <2>5, <2>6, <2>7, <2>8, <2>9, <2>10, <2>11, <2>12, <2>13 DEF Quiet
  <1> QED
    BY <1>1, <1>2 DEF SameHold, Reader, Writer

LEMMA QuietStep ==
  ASSUME IInv, NEW t \in Threads, Quiet(t)
  PROVE  IInv'
  <1> USE DEF Goto, At, Hold, Return, handles, bounds, lockVars
  <1>0. UNCHANGED <<reader, writer, pending, asleep>>
    BY DEF Quiet, Pop, Check, Generate, Count, Configure, FlowBack, Fill, Filled, Uncount,
           Release, Clear, Subtract, CloseInside
  <1>1. TypeOK'
    <2>1. CASE Pop(t)
      <3>1. CASE idle = <<>>
        BY <1>0, <2>1, <3>1 DEF IInv, TypeOK, Locations, Reading, Alone, Reads, Writes, Pop
      <3>2. CASE idle # <<>>
        <4>1. /\ idle[Len(idle)] \in Handles
              /\ SubSeq(idle, 1, Len(idle) - 1) \in Seq(Handles)
              /\ Len(SubSeq(idle, 1, Len(idle) - 1)) = Len(idle) - 1
              /\ Len(idle) \in Nat \ {0}
          BY <3>2, FrontOf DEF IInv, TypeOK
        <4>2. idle' \in Seq(Handles) /\ Len(idle') <= Capacity
          BY <2>1, <3>2, <4>1, PoolAssumption DEF IInv, TypeOK, Pop
        <4> QED
          BY <1>0, <2>1, <3>2, <4>1, <4>2
             DEF IInv, TypeOK, Locations, Reading, Alone, Reads, Writes, Pop
      <3> QED
        BY <3>1, <3>2
    <2>2. CASE Check(t)
      BY <1>0, <2>2 DEF IInv, TypeOK, Locations, Reading, Alone, Reads, Writes, Check
    <2>3. CASE Generate(t)
      <3>1. CASE Goto(t, "giveUp") /\ UNCHANGED <<held, stale>>
        BY <1>0, <2>3, <3>1 DEF IInv, TypeOK, Locations, Reading, Alone, Reads, Writes, Generate
      <3>2. CASE ~(Goto(t, "giveUp") /\ UNCHANGED <<held, stale>>)
        <4>1. PICK h \in Handles : held' = [held EXCEPT ![t] = h] /\ stale' = stale \ {h}
                                   /\ Goto(t, IF op[t] = "fill" THEN "fill" ELSE "count")
          BY <2>3, <3>2 DEF Generate
        <4> QED
          BY <1>0, <2>3, <4>1 DEF IInv, TypeOK, Locations, Reading, Alone, Reads, Writes, Generate
      <3> QED
        BY <3>1, <3>2
    <2>4. CASE Count(t)
      BY <1>0, <2>4 DEF IInv, TypeOK, Locations, Reading, Alone, Reads, Writes, Count
    <2>5. CASE Configure(t)
      BY <1>0, <2>5 DEF IInv, TypeOK, Locations, Reading, Alone, Reads, Writes, Configure
    <2>6. CASE FlowBack(t)
      <3>1. held[t] \in Handles
        BY <2>6 DEF IInv, PlaceInv, Owns, FlowBack
      <3>2. idle' \in Seq(Handles) /\ Len(idle') <= Capacity
        <4>1. /\ Append(idle, held[t]) \in Seq(Handles)
              /\ Len(Append(idle, held[t])) = Len(idle) + 1
              /\ Len(idle) \in Nat
          BY <3>1, AppendOf DEF IInv, TypeOK
        <4> QED
          <5>1. idle' = IF Len(idle) < Capacity THEN Append(idle, held[t]) ELSE idle
            BY <2>6 DEF FlowBack, PushBack
          <5>2. idle \in Seq(Handles) /\ Len(idle) <= Capacity /\ Capacity \in Nat
            BY PoolAssumption DEF IInv, TypeOK
          <5> QED
            BY <4>1, <5>1, <5>2
      <3> QED
        BY <1>0, <2>6, <3>2
           DEF IInv, TypeOK, Locations, Reading, Alone, Reads, Writes, FlowBack, PushBack
    <2>7. CASE Fill(t)
      <3>1. held[t] \in Handles
        BY <2>7 DEF IInv, PlaceInv, Owns, Fill
      <3>2. idle' \in Seq(Handles) /\ Len(idle') <= Capacity
        <4>1. /\ Append(idle, held[t]) \in Seq(Handles)
              /\ Len(Append(idle, held[t])) = Len(idle) + 1
              /\ Len(idle) \in Nat
          BY <3>1, AppendOf DEF IInv, TypeOK
        <4> QED
          <5>1. idle' = IF Len(idle) < Capacity THEN Append(idle, held[t]) ELSE idle
            BY <2>7 DEF Fill, PushBack
          <5>2. idle \in Seq(Handles) /\ Len(idle) <= Capacity /\ Capacity \in Nat
            BY PoolAssumption DEF IInv, TypeOK
          <5> QED
            BY <4>1, <5>1, <5>2
      <3> QED
        BY <1>0, <2>7, <3>2
           DEF IInv, TypeOK, Locations, Reading, Alone, Reads, Writes, Fill, PushBack
    <2>8. CASE Filled(t)
      BY <1>0, <2>8 DEF IInv, TypeOK, Locations, Reading, Alone, Reads, Writes, Filled
    <2>9. CASE Uncount(t)
      BY <1>0, <2>9 DEF IInv, TypeOK, Locations, Reading, Alone, Reads, Writes, Uncount
    <2>10. CASE Release(t)
      BY <1>0, <2>10 DEF IInv, TypeOK, Locations, Reading, Alone, Reads, Writes, Release
    <2>11. CASE Clear(t)
      BY <1>0, <2>11, PoolAssumption
         DEF IInv, TypeOK, Locations, Reading, Alone, Reads, Writes, Clear
    <2>12. CASE Subtract(t)
      BY <1>0, <2>12 DEF IInv, TypeOK, Locations, Reading, Alone, Reads, Writes, Subtract
    <2>13. CASE CloseInside(t)
      BY <1>0, <2>13 DEF IInv, TypeOK, Locations, Reading, Alone, Reads, Writes, CloseInside
    <2> QED
      BY <2>1, <2>2, <2>3, <2>4, <2>5, <2>6, <2>7, <2>8, <2>9, <2>10, <2>11, <2>12, <2>13 DEF Quiet
  <1>2. PlaceInv'
    <2>1. CASE Pop(t)
      BY <1>0, <2>1 DEF IInv, TypeOK, PlaceInv, Owns, Reading, Reads, Writes, Pop
    <2>2. CASE Check(t)
      BY <1>0, <2>2 DEF IInv, TypeOK, PlaceInv, Owns, Reading, Reads, Writes, Check
    <2>3. CASE Generate(t)
      BY <1>0, <2>3 DEF IInv, TypeOK, PlaceInv, Owns, Reading, Reads, Writes, Generate
    <2>4. CASE Count(t)
      BY <1>0, <2>4 DEF IInv, TypeOK, PlaceInv, Owns, Reading, Reads, Writes, Count
    <2>5. CASE Configure(t)
      BY <1>0, <2>5 DEF IInv, TypeOK, PlaceInv, Owns, Reading, Reads, Writes, Configure
    <2>6. CASE FlowBack(t)
      BY <1>0, <2>6 DEF IInv, TypeOK, PlaceInv, Owns, Reading, Reads, Writes, FlowBack, PushBack
    <2>7. CASE Fill(t)
      BY <1>0, <2>7 DEF IInv, TypeOK, PlaceInv, Owns, Reading, Reads, Writes, Fill, PushBack
    <2>8. CASE Filled(t)
      BY <1>0, <2>8 DEF IInv, TypeOK, PlaceInv, Owns, Reading, Reads, Writes, Filled
    <2>9. CASE Uncount(t)
      BY <1>0, <2>9 DEF IInv, TypeOK, PlaceInv, Owns, Reading, Reads, Writes, Uncount
    <2>10. CASE Release(t)
      BY <1>0, <2>10 DEF IInv, TypeOK, PlaceInv, Owns, Reading, Reads, Writes, Release
    <2>11. CASE Clear(t)
      BY <1>0, <2>11 DEF IInv, TypeOK, PlaceInv, Owns, Reading, Reads, Writes, Clear
    <2>12. CASE Subtract(t)
      BY <1>0, <2>12 DEF IInv, TypeOK, PlaceInv, Owns, Reading, Reads, Writes, Subtract
    <2>13. CASE CloseInside(t)
      BY <1>0, <2>13 DEF IInv, TypeOK, PlaceInv, Owns, Reading, Reads, Writes, CloseInside
    <2> QED
      BY <2>1, <2>2, <2>3, <2>4, <2>5, <2>6, <2>7, <2>8, <2>9, <2>10, <2>11, <2>12, <2>13 DEF Quiet
  <1>3. UNCHANGED <<reader, writer, pending>>
    BY <1>0
  <1>4. LockInv'
    BY <1>3, QuietHolds, LockUntouched
  <1> QED
    BY <1>1, <1>2, <1>4 DEF IInv

\* Nor does a call change who has the lock.
LEMMA CallHolds ==
  ASSUME IInv, NEW t \in Threads,
         NEW o \in {"use", "fill", "purge", "close", "blockade"}, Call(t, o)
  PROVE  \A u \in Threads : SameHold(u)
  <1> USE DEF Goto, At, handles, bounds, lockVars
  <1>1. \A u \in Threads \ {t} : pc'[u] = pc[u] /\ op'[u] = op[u]
    BY DEF IInv, TypeOK, Call
  <1>2. SameHold(t)
    BY DEF IInv, TypeOK, PlaceInv, SameHold, Reader, Writer, Reading, Alone, Reads, Writes, Call
  <1> QED
    BY <1>1, <1>2 DEF SameHold, Reader, Writer

LEMMA CallStep ==
  ASSUME IInv, NEW t \in Threads,
         NEW o \in {"use", "fill", "purge", "close", "blockade"}, Call(t, o)
  PROVE  IInv'
  <1> USE DEF Goto, At, handles, bounds, lockVars
  <1>1. TypeOK'
    <2>1. closes' \in 0..MaxCloses
      BY PoolAssumption DEF IInv, TypeOK, Call
    <2>2. /\ pc' \in [Threads -> Locations]
          /\ op' \in [Threads -> Reads \cup Writes \cup {"none"}]
      BY DEF IInv, TypeOK, Locations, Reads, Writes, Call
    <2> QED
      BY <2>1, <2>2 DEF IInv, TypeOK, Call
  <1>2. PlaceInv'
    BY DEF IInv, TypeOK, PlaceInv, Owns, Reading, Reads, Writes, Call
  <1>3. UNCHANGED <<reader, writer, pending>>
    BY DEF Call
  <1>4. LockInv'
    BY <1>3, CallHolds, LockUntouched
  <1> QED
    BY <1>1, <1>2, <1>4 DEF IInv

\* What a step of t leaves to the others.
OthersStay(t) ==
  \A u \in Threads \ {t} : SameHold(u)

LEMMA ReaderJoins ==
  ASSUME IInv, NEW t \in Threads, OthersStay(t), ReadLocked,
         ~Reader(t), Reader(t)', Writer(t)' <=> Writer(t),
         pc'[t] = "waitWrite" <=> pc[t] = "waitWrite"
  PROVE  LockInv'
  <1>1. Readers' = Readers \cup {t} /\ t \notin Readers /\ Writers' = Writers /\ Waiting' = Waiting
    BY DEF Readers, Writers, Waiting, OthersStay, SameHold
  <1>2. Readers \in SUBSET Threads
    BY DEF Readers
  <1>3. Cardinality(Readers') = Cardinality(Readers) + 1
    BY <1>1, <1>2, CardJoin
  <1>4. writer' = 0 /\ writer' = writer /\ pending' = pending /\ reader' = reader + 1
    BY DEF ReadLocked, Readable
  <1> QED
    BY <1>1, <1>3, <1>4 DEF IInv, LockInv

LEMMA ReaderLeaves ==
  ASSUME IInv, NEW t \in Threads, OthersStay(t), ReadUnlocked,
         Reader(t), ~Reader(t)', Writer(t)' <=> Writer(t),
         pc'[t] = "waitWrite" <=> pc[t] = "waitWrite"
  PROVE  LockInv' /\ reader' \in Nat
  <1>1. Readers' = Readers \ {t} /\ t \in Readers /\ Writers' = Writers /\ Waiting' = Waiting
    BY DEF Readers, Writers, Waiting, OthersStay, SameHold
  <1>2. Readers \in SUBSET Threads
    BY DEF Readers
  <1>3. Cardinality(Readers') = Cardinality(Readers) - 1 /\ Cardinality(Readers) \in Nat \ {0}
    BY <1>1, <1>2, CardLeave
  <1> QED
    BY <1>1, <1>3 DEF IInv, TypeOK, LockInv, ReadUnlocked

LEMMA WriterJoins ==
  ASSUME IInv, NEW t \in Threads, OthersStay(t), Reader(t)' <=> Reader(t),
         ~Writer(t), Writer(t)', pc'[t] # "waitWrite",
         \/ WriteLocked /\ pc[t] # "waitWrite"
         \/ WriteLockedAtLast /\ pc[t] = "waitWrite"
  PROVE  LockInv' /\ pending' \in Nat /\ writer' \in Nat
  <1>1. Readers' = Readers /\ Writers' = Writers \cup {t} /\ t \notin Writers
    BY DEF Readers, Writers, OthersStay, SameHold
  <1>2. Writers \in SUBSET Threads /\ Waiting \in SUBSET Threads
    BY DEF Writers, Waiting
  <1>3. Cardinality(Writers') = Cardinality(Writers) + 1
    BY <1>1, <1>2, CardJoin
  <1>4. CASE WriteLocked /\ pc[t] # "waitWrite"
    <2>1. Waiting' = Waiting
      BY <1>4 DEF Waiting, OthersStay, SameHold
    <2> QED
      BY <1>1, <1>3, <1>4, <2>1 DEF IInv, TypeOK, LockInv, WriteLocked, Writable
  <1>5. CASE WriteLockedAtLast /\ pc[t] = "waitWrite"
    <2>1. Waiting' = Waiting \ {t} /\ t \in Waiting
      BY <1>5 DEF Waiting, OthersStay, SameHold
    <2>2. Cardinality(Waiting') = Cardinality(Waiting) - 1 /\ Cardinality(Waiting) \in Nat \ {0}
      BY <1>2, <2>1, CardLeave
    <2> QED
      BY <1>1, <1>3, <1>5, <2>2 DEF IInv, TypeOK, LockInv, WriteLockedAtLast, Writable
  <1> QED
    BY <1>4, <1>5

LEMMA WriterLeaves ==
  ASSUME IInv, NEW t \in Threads, OthersStay(t), Reader(t)' <=> Reader(t), WriteUnlocked,
         Writer(t), ~Writer(t)', pc'[t] = "waitWrite" <=> pc[t] = "waitWrite"
  PROVE  LockInv' /\ writer' \in Nat
  <1>1. Readers' = Readers /\ Writers' = Writers \ {t} /\ t \in Writers /\ Waiting' = Waiting
    BY DEF Readers, Writers, Waiting, OthersStay, SameHold
  <1>2. Writers \in SUBSET Threads
    BY DEF Writers
  <1>3. Cardinality(Writers') = Cardinality(Writers) - 1 /\ Cardinality(Writers) \in Nat \ {0}
    BY <1>1, <1>2, CardLeave
  <1> QED
    BY <1>1, <1>3 DEF IInv, TypeOK, LockInv, WriteUnlocked

LEMMA WriterAnnounces ==
  ASSUME IInv, NEW t \in Threads, OthersStay(t), Reader(t)' <=> Reader(t),
         Writer(t)' <=> Writer(t), WriteAnnounced(t),
         pc[t] # "waitWrite", pc'[t] = "waitWrite"
  PROVE  LockInv'
  <1>1. Readers' = Readers /\ Writers' = Writers /\ Waiting' = Waiting \cup {t} /\ t \notin Waiting
    BY DEF Readers, Writers, Waiting, OthersStay, SameHold
  <1>2. Waiting \in SUBSET Threads
    BY DEF Waiting
  <1>3. Cardinality(Waiting') = Cardinality(Waiting) + 1
    BY <1>1, <1>2, CardJoin
  <1> QED
    BY <1>1, <1>3 DEF IInv, TypeOK, LockInv, WriteAnnounced

\* A thread that has the lock for writing keeps it from everyone.
LEMMA WriterHasLock ==
  ASSUME IInv, NEW t \in Threads, Writer(t)
  PROVE  writer = 1 /\ reader = 0
  <1>1. t \in Writers /\ Writers \in SUBSET Threads
    BY DEF Writers
  <1>2. Cardinality(Writers) \in Nat \ {0}
    BY <1>1, CardLeave
  <1> QED
    BY <1>2 DEF IInv, TypeOK, LockInv

\* A step of t alone leaves the holds of the others.
LEMMA OthersUntouched ==
  ASSUME NEW t \in Threads, \A u \in Threads \ {t} : pc'[u] = pc[u] /\ op'[u] = op[u]
  PROVE  OthersStay(t)
  BY DEF OthersStay, SameHold, Reader, Writer

LEMMA LockReadStep ==
  ASSUME IInv, NEW t \in Threads, LockRead(t)
  PROVE  IInv'
  <1> USE DEF Goto, At, handles, bounds
  <1>1. op[t] \in Reads /\ pc[t] = "lockRead"
    BY DEF IInv, PlaceInv, LockRead
  <1>2. OthersStay(t)
    BY OthersUntouched DEF IInv, TypeOK, LockRead
  <1>3. CASE ReadLocked /\ Goto(t, Body[op[t]])
    <2>1. /\ pc' = [pc EXCEPT ![t] = Body[op[t]]]
          /\ pc'[t] = Body[op[t]] /\ op' = op
          /\ Body[op[t]] \in {"pop", "generate", "clear"}
          /\ Body[op[t]] = "clear" => op[t] = "purge"
      BY <1>1, <1>3 DEF IInv, TypeOK, LockRead, Body, Reads
    <2>2. TypeOK'
      BY <1>3, <2>1 DEF IInv, TypeOK, Locations, Reading, LockRead, ReadLocked
    <2>3. PlaceInv'
      BY <1>1, <2>1 DEF IInv, TypeOK, PlaceInv, Owns, Reading, Reads, Writes, LockRead
    <2>4. /\ ~Reader(t) /\ Reader(t)'
          /\ Writer(t)' <=> Writer(t)
          /\ pc'[t] = "waitWrite" <=> pc[t] = "waitWrite"
      BY <1>1, <2>1 DEF Reader, Writer, Reading, Alone, Reads, Writes
    <2>5. LockInv'
      BY <1>2, <1>3, <2>4, ReaderJoins
    <2> QED
      BY <2>2, <2>3, <2>5 DEF IInv
  <1>4. CASE ReadWaits(t) /\ UNCHANGED pc
    <2>1. TypeOK' /\ PlaceInv'
      BY <1>4 DEF IInv, TypeOK, PlaceInv, Owns, LockRead, ReadWaits, Sleep
    <2>2. UNCHANGED <<reader, writer, pending>> /\ \A u \in Threads : SameHold(u)
      BY <1>4 DEF LockRead, ReadWaits, SameHold, Reader, Writer
    <2> QED
      BY <2>1, <2>2, LockUntouched DEF IInv
  <1> QED
    BY <1>3, <1>4 DEF LockRead

\* Getting the lock for writing, at once or at last: whoever closes inside its
\* own blockade has it already, so nobody gets it.
LEMMA WriteLockedStep ==
  ASSUME IInv, NEW t \in Threads, pc[t] \in {"lockWrite", "waitWrite"},
         UNCHANGED <<op, held, size, idle, alive, stale, closes, configs>>,
         pc' = [pc EXCEPT ![t] = Body[op[t]]],
         \/ WriteLocked /\ pc[t] # "waitWrite"
         \/ WriteLockedAtLast /\ pc[t] = "waitWrite"
  PROVE  IInv'
  <1>1. writer = 0
    BY DEF WriteLocked, WriteLockedAtLast, Writable
  <1>2. ~Writer(t)
    BY <1>1, WriterHasLock
  <1>3. op[t] \in {"close", "blockade"}
    BY <1>2 DEF IInv, PlaceInv, Writer, Writes
  <1>4. /\ pc'[t] = Body[op[t]] /\ op' = op
        /\ Body[op[t]] \in {"clear", "blockaded"}
    BY <1>3 DEF IInv, TypeOK, Body
  <1>5. OthersStay(t)
    BY OthersUntouched DEF IInv, TypeOK
  <1>6. /\ Reader(t)' <=> Reader(t)
        /\ Writer(t)' /\ pc'[t] # "waitWrite"
    BY <1>3, <1>4 DEF Reader, Writer, Reading, Alone, Reads, Writes
  <1>7. LockInv' /\ pending' \in Nat /\ writer' \in Nat
    BY <1>2, <1>5, <1>6, WriterJoins
  <1>8. TypeOK'
    <2>1. reader' = reader /\ asleep' = asleep
      BY DEF WriteLocked, WriteLockedAtLast
    <2>2. pc' \in [Threads -> Locations]
      BY <1>4 DEF IInv, TypeOK, Locations, Reading, Alone
    <2> QED
      BY <1>7, <2>1, <2>2 DEF IInv, TypeOK
  <1>9. PlaceInv'
    BY <1>3, <1>4 DEF IInv, TypeOK, PlaceInv, Owns, Reading, Reads, Writes
  <1> QED
    BY <1>7, <1>8, <1>9 DEF IInv

LEMMA LockWriteStep ==
  ASSUME IInv, NEW t \in Threads, LockWrite(t)
  PROVE  IInv'
  <1> USE DEF Goto, At, handles, bounds
  <1>1. CASE WriteLocked /\ Goto(t, Body[op[t]])
    BY <1>1, WriteLockedStep DEF LockWrite
  <1>2. CASE WriteAnnounced(t) /\ Goto(t, "waitWrite")
    <2>1. pc[t] = "lockWrite" /\ pc' = [pc EXCEPT ![t] = "waitWrite"] /\ op' = op
      BY <1>2 DEF LockWrite
    <2>2. TypeOK'
      BY <1>2, <2>1 DEF IInv, TypeOK, Locations, LockWrite, WriteAnnounced, Sleep
    <2>3. PlaceInv'
      BY <1>2, <2>1 DEF IInv, TypeOK, PlaceInv, Owns, Reading, LockWrite
    <2>4. /\ Reader(t)' <=> Reader(t)
          /\ Writer(t)' <=> Writer(t)
          /\ pc[t] # "waitWrite" /\ pc'[t] = "waitWrite"
      BY <2>1 DEF IInv, TypeOK, Reader, Writer, Reading, Alone
    <2>5. OthersStay(t)
      BY <2>1, OthersUntouched DEF IInv, TypeOK
    <2>6. LockInv'
      BY <1>2, <2>4, <2>5, WriterAnnounces
    <2> QED
      BY <2>2, <2>3, <2>6 DEF IInv
  <1> QED
    BY <1>1, <1>2 DEF LockWrite

LEMMA WaitWriteStep ==
  ASSUME IInv, NEW t \in Threads, WaitWrite(t)
  PROVE  IInv'
  <1> USE DEF Goto, At, handles, bounds
  <1>1. CASE WriteLockedAtLast /\ Goto(t, Body[op[t]])
    BY <1>1, WriteLockedStep DEF WaitWrite
  <1>2. CASE WriteWaits(t) /\ UNCHANGED pc
    <2>1. TypeOK' /\ PlaceInv'
      BY <1>2 DEF IInv, TypeOK, PlaceInv, Owns, WaitWrite, WriteWaits, Sleep
    <2>2. UNCHANGED <<reader, writer, pending>> /\ \A u \in Threads : SameHold(u)
      BY <1>2 DEF WaitWrite, WriteWaits, SameHold, Reader, Writer
    <2> QED
      BY <2>1, <2>2, LockUntouched DEF IInv
  <1> QED
    BY <1>1, <1>2 DEF WaitWrite

LEMMA ReadUnlockStep ==
  ASSUME IInv, NEW t \in Threads, GiveUp(t) \/ Unlock(t)
  PROVE  IInv'
  <1> USE DEF Goto, At, Return, handles, bounds
  <1>1. /\ pc[t] \in {"giveUp", "pushed", "surplus"} /\ op[t] \in Reads
        /\ ReadUnlocked
        /\ UNCHANGED <<held, size, idle, alive, stale, closes, configs>>
    BY DEF IInv, PlaceInv, Reading, GiveUp, Unlock
  <1>2. \/ /\ pc' = [pc EXCEPT ![t] = "out"]
           /\ op' = [op EXCEPT ![t] = "none"]
        \/ /\ \E l \in {"release", "uncount"} : pc' = [pc EXCEPT ![t] = l]
           /\ op' = op
    BY DEF GiveUp, Unlock
  <1>3. \/ pc'[t] = "out" /\ op'[t] = "none"
        \/ pc'[t] \in {"release", "uncount"} /\ op'[t] = op[t]
    BY <1>2 DEF IInv, TypeOK
  <1>4. \A u \in Threads \ {t} : pc'[u] = pc[u] /\ op'[u] = op[u]
    BY <1>2 DEF IInv, TypeOK
  <1>5. OthersStay(t)
    BY <1>4, OthersUntouched
  <1>6. /\ Reader(t) /\ ~Reader(t)'
        /\ Writer(t)' <=> Writer(t)
        /\ pc'[t] = "waitWrite" <=> pc[t] = "waitWrite"
    BY <1>1, <1>3 DEF Reader, Writer, Reading, Alone, Reads, Writes
  <1>7. LockInv' /\ reader' \in Nat
    BY <1>1, <1>5, <1>6, ReaderLeaves
  <1>8. TypeOK'
    <2>1. writer' = writer /\ pending' = pending /\ asleep' \subseteq Threads
      BY <1>1 DEF IInv, TypeOK, ReadUnlocked
    <2>2. /\ pc' \in [Threads -> Locations]
          /\ op' \in [Threads -> Reads \cup Writes \cup {"none"}]
      BY <1>2 DEF IInv, TypeOK, Locations
    <2> QED
      BY <1>1, <1>7, <2>1, <2>2 DEF IInv, TypeOK
  <1>9. PlaceInv'
    BY <1>1, <1>3, <1>4 DEF IInv, PlaceInv, Owns, Reading, Reads, Writes
  <1> QED
    BY <1>7, <1>8, <1>9 DEF IInv

LEMMA WriteUnlockStep ==
  ASSUME IInv, NEW t \in Threads, Closed(t) \/ Unblockade(t)
  PROVE  IInv'
  <1> USE DEF Goto, At, Return, handles, bounds
  <1>1. /\ pc[t] \in {"onClosed", "blockaded"} /\ op[t] \in {"close", "blockade"}
        /\ WriteUnlocked
        /\ UNCHANGED <<held, size, idle, alive, stale, closes, configs>>
    BY DEF IInv, PlaceInv, Writes, Closed, Unblockade
  <1>2. pc' = [pc EXCEPT ![t] = "out"] /\ op' = [op EXCEPT ![t] = "none"]
    BY <1>1 DEF Closed, Unblockade
  <1>3. pc'[t] = "out" /\ op'[t] = "none"
    BY <1>2 DEF IInv, TypeOK
  <1>4. \A u \in Threads \ {t} : pc'[u] = pc[u] /\ op'[u] = op[u]
    BY <1>2 DEF IInv, TypeOK
  <1>5. OthersStay(t)
    BY <1>4, OthersUntouched
  <1>6. /\ Writer(t) /\ ~Writer(t)'
        /\ Reader(t)' <=> Reader(t)
        /\ pc'[t] = "waitWrite" <=> pc[t] = "waitWrite"
    BY <1>1, <1>3 DEF Reader, Writer, Reading, Alone, Reads, Writes
  <1>7. LockInv' /\ writer' \in Nat
    BY <1>1, <1>5, <1>6, WriterLeaves
  <1>8. TypeOK'
    <2>1. reader' = reader /\ pending' = pending /\ asleep' \subseteq Threads
      BY <1>1 DEF IInv, TypeOK, WriteUnlocked
    <2>2. /\ pc' \in [Threads -> Locations]
          /\ op' \in [Threads -> Reads \cup Writes \cup {"none"}]
      BY <1>2 DEF IInv, TypeOK, Locations
    <2> QED
      BY <1>1, <1>7, <2>1, <2>2 DEF IInv, TypeOK
  <1>9. PlaceInv'
    BY <1>1, <1>3, <1>4 DEF IInv, PlaceInv, Owns, Reading, Reads, Writes
  <1> QED
    BY <1>7, <1>8, <1>9 DEF IInv

LEMMA IdleStep ==
  ASSUME IInv, SetConfig \/ UNCHANGED vars \/ \E t \in Threads : SpuriousWake(t)
  PROVE  IInv'
  <1>1. TypeOK'
    <2>1. CASE SetConfig
      <3>1. Open \subseteq Handles
        <4>1. Range(idle) \subseteq Handles
          BY ElementOfSeq, LenProperties DEF IInv, TypeOK, Range
        <4> QED
          BY <4>1 DEF IInv, TypeOK, Open
      <3>2. configs' \in 0..MaxConfigs
        BY <2>1, PoolAssumption DEF IInv, TypeOK, SetConfig
      <3> QED
        BY <2>1, <3>1, <3>2 DEF IInv, TypeOK, SetConfig, lockVars
    <2>2. CASE UNCHANGED vars \/ \E t \in Threads : SpuriousWake(t)
      BY <2>2 DEF IInv, TypeOK, vars, SpuriousWake, WokenSpuriously, handles, bounds
    <2> QED
      BY <2>1, <2>2
  <1>2. UNCHANGED <<reader, writer, pending, op, pc, held>>
    BY DEF SetConfig, lockVars, vars, SpuriousWake, WokenSpuriously, handles, bounds
  <1>3. PlaceInv'
    BY <1>2 DEF IInv, PlaceInv, Owns
  <1>4. UNCHANGED <<reader, writer, pending>> /\ \A u \in Threads : SameHold(u)
    BY <1>2 DEF SameHold, Reader, Writer
  <1> QED
    BY <1>1, <1>3, <1>4, LockUntouched DEF IInv

LEMMA NextIInv ==
  ASSUME IInv, [Next]_vars
  PROVE  IInv'
  <1>1. ASSUME NEW t \in Threads, Step(t)
        PROVE  IInv'
    BY <1>1, QuietStep, LockReadStep, LockWriteStep, WaitWriteStep, ReadUnlockStep, WriteUnlockStep
       DEF Step, Quiet
  <1>2. ASSUME NEW t \in Threads, CloseInside(t)
        PROVE  IInv'
    BY <1>2, QuietStep DEF Quiet
  <1> QED
    BY <1>1, <1>2, CallStep, IdleStep DEF Next

LEMMA Inductive == Spec => []IInv
  BY InitIInv, NextIInv, PTL DEF Spec

\* The state keeps its types: the counters of the lock never go below zero.
THEOREM TypeCorrect == Spec => []TypeOK
  BY Inductive, PTL DEF IInv

\* Whoever has the lock for writing is alone.
LEMMA AloneInside ==
  ASSUME IInv
  PROVE  ClosedToOthers
  <1> SUFFICES ASSUME NEW t \in Threads, NEW u \in Threads, t # u, Writer(t)
               PROVE  ~Reader(u) /\ ~Writer(u)
    BY DEF ClosedToOthers
  <1>1. writer = 1 /\ reader = 0
    BY WriterHasLock
  <1>2. ASSUME Reader(u) PROVE FALSE
    <2>1. u \in Readers /\ Readers \in SUBSET Threads
      BY <1>2 DEF Readers
    <2>2. Cardinality(Readers) \in Nat \ {0}
      BY <2>1, CardLeave
    <2> QED
      BY <1>1, <2>2 DEF IInv, LockInv
  <1>3. ASSUME Writer(u) PROVE FALSE
    <2>1. t \in Writers /\ u \in Writers /\ Writers \in SUBSET Threads
      BY <1>3 DEF Writers
    <2>2. Cardinality(Writers) >= 2
      BY <2>1, CardTwo
    <2> QED
      BY <1>1, <2>2 DEF IInv, LockInv
  <1> QED
    BY <1>2, <1>3

\* Closing and blockading keep every other operation out, and each other.
THEOREM ClosedMeansClosed == Spec => []ClosedToOthers
  <1>1. IInv => ClosedToOthers
    BY AloneInside
  <1> QED
    BY <1>1, Inductive, PTL

\* The documentation's blockade, close, unblockade on one thread: the close
\* never gets the lock, which the thread has already.
THEOREM SeparateCloseHangs ==
  Spec => [](\A t \in Threads : op[t] = "closeInside" => pc[t] \in {"lockWrite", "waitWrite"})
  <1>1. IInv => \A t \in Threads : op[t] = "closeInside" => pc[t] \in {"lockWrite", "waitWrite"}
    BY DEF IInv, PlaceInv
  <1> QED
    BY <1>1, Inductive, PTL

-----------------------------------------------------------------------------
(* A handle has one user *)

\* No handle is twice in the list.
IdleOnce == \A i, j \in 1..Len(idle) : idle[i] = idle[j] => i = j

HandleInv == OneUser /\ IdleOnce

\* Range, for a sequence.
LEMMA RangeOf ==
  ASSUME NEW s \in Seq(Handles)
  PROVE  Range(s) = {s[i] : i \in 1..Len(s)}
  BY LenProperties DEF Range

\* A step that gives no thread a handle and adds none to the list.
LEMMA NoneGained ==
  ASSUME HandleInv, idle' = idle \/ idle' = <<>>,
         \A u \in Threads : Owns(u)' => Owns(u) /\ held'[u] = held[u]
  PROVE  HandleInv'
  <1>1. Range(idle') \subseteq Range(idle)
    BY DEF Range
  <1>2. OneUser'
    BY <1>1 DEF HandleInv, OneUser
  <1>3. IdleOnce'
    BY DEF HandleInv, IdleOnce
  <1> QED
    BY <1>2, <1>3 DEF HandleInv

LEMMA PopHandle ==
  ASSUME IInv, HandleInv, NEW t \in Threads, Pop(t)
  PROVE  HandleInv'
  <1> USE DEF Goto, At, Hold, lockVars, bounds
  <1>1. CASE idle = <<>>
    BY <1>1, NoneGained DEF IInv, TypeOK, Pop, Owns
  <1>2. CASE idle # <<>>
    <2> DEFINE n == Len(idle)
    <2>1. /\ n \in Nat \ {0} /\ idle[n] \in Handles
          /\ idle' = SubSeq(idle, 1, n - 1) /\ Len(idle') = n - 1
          /\ idle' \in Seq(Handles) /\ idle \in Seq(Handles)
          /\ \A i \in 1..(n - 1) : idle'[i] = idle[i]
      BY <1>2, FrontOf DEF IInv, TypeOK, Pop
    <2>2. held' = [held EXCEPT ![t] = idle[n]] /\ pc' = [pc EXCEPT ![t] = "configure"]
      BY <1>2 DEF Pop
    <2>3. /\ Range(idle) = {idle[i] : i \in 1..n}
          /\ Range(idle') = {idle[i] : i \in 1..(n - 1)}
      BY <2>1, RangeOf
    <2>4. IdleOnce'
      BY <2>1 DEF HandleInv, IdleOnce
    <2>5. Range(idle') \subseteq Range(idle) /\ idle[n] \in Range(idle)
      BY <2>1, <2>3
    <2>6. idle[n] \notin Range(idle')
      <3> SUFFICES ASSUME NEW i \in 1..(n - 1), idle[i] = idle[n] PROVE FALSE
        BY <2>3
      <3>1. i \in 1..n /\ n \in 1..n /\ i # n
        BY <2>1
      <3> QED
        BY <3>1 DEF HandleInv, IdleOnce
    <2>7. \A u \in Threads \ {t} : Owns(u)' => Owns(u) /\ held'[u] = held[u]
      BY <2>2 DEF IInv, TypeOK, Owns
    <2>8. held'[t] = idle[n] /\ ~Owns(t)
      BY <2>2 DEF IInv, TypeOK, Owns, Pop
    <2>9. OneUser'
      BY <2>5, <2>6, <2>7, <2>8 DEF HandleInv, OneUser
    <2> QED
      BY <2>4, <2>9 DEF HandleInv
  <1> QED
    BY <1>1, <1>2

LEMMA GenerateHandle ==
  ASSUME IInv, HandleInv, NEW t \in Threads, Generate(t)
  PROVE  HandleInv'
  <1> USE DEF Goto, At, Hold, lockVars, bounds
  <1>1. CASE Goto(t, "giveUp") /\ UNCHANGED <<held, stale>>
    BY <1>1, NoneGained DEF IInv, TypeOK, Generate, Owns
  <1>2. CASE ~(Goto(t, "giveUp") /\ UNCHANGED <<held, stale>>)
    <2>1. PICK h \in Handles \ Open : held' = [held EXCEPT ![t] = h] /\ idle' = idle
      BY <1>2 DEF Generate
    <2>2. h # NoHandle
      BY PoolAssumption
    <2>3. h \notin Range(idle) /\ \A u \in Threads : held[u] # h
      BY <2>2 DEF Open
    <2>4. \A u \in Threads \ {t} : Owns(u)' => Owns(u) /\ held'[u] = held[u]
      BY <2>1 DEF IInv, TypeOK, Owns, Generate
    <2>5. held'[t] = h
      BY <2>1 DEF IInv, TypeOK
    <2>6. OneUser'
      BY <2>1, <2>3, <2>4, <2>5 DEF HandleInv, OneUser
    <2> QED
      BY <2>1, <2>6 DEF HandleInv, IdleOnce
  <1> QED
    BY <1>1, <1>2

LEMMA PushHandle ==
  ASSUME IInv, HandleInv, NEW t \in Threads, FlowBack(t) \/ Fill(t)
  PROVE  HandleInv'
  <1> USE DEF Goto, At, lockVars, bounds
  <1>1. /\ Owns(t) /\ held' = held
        /\ \A u \in Threads : Owns(u)' => Owns(u) /\ u # t
    BY DEF IInv, TypeOK, Owns, FlowBack, Fill, PushBack
  <1>2. held[t] \in Handles /\ idle \in Seq(Handles)
    BY <1>1 DEF IInv, TypeOK, PlaceInv
  <1>3. idle' = idle \/ idle' = Append(idle, held[t])
    BY DEF FlowBack, Fill, PushBack
  <1>4. CASE idle' = idle
    BY <1>1, <1>4, NoneGained
  <1>5. CASE idle' = Append(idle, held[t])
    <2> DEFINE n == Len(idle)
    <2>1. /\ n \in Nat /\ Len(idle') = n + 1 /\ idle' \in Seq(Handles)
          /\ \A i \in 1..n : idle'[i] = idle[i]
          /\ idle'[n + 1] = held[t]
      BY <1>2, <1>5, AppendOf
    <2>2. held[t] \notin Range(idle)
      BY <1>1 DEF HandleInv, OneUser
    <2>3. \A i \in 1..n : idle[i] # held[t]
      BY <1>2, <2>2, RangeOf
    <2>4. \A i \in 1..(n + 1) : i \in 1..n \/ i = n + 1
      BY <2>1
    <2>5. IdleOnce'
      BY <2>1, <2>3, <2>4 DEF HandleInv, IdleOnce
    <2>6. Range(idle') \subseteq Range(idle) \cup {held[t]}
      BY <1>2, <2>1, <2>4, RangeOf
    <2>7. OneUser'
      BY <1>1, <2>6 DEF HandleInv, OneUser
    <2> QED
      BY <2>5, <2>7 DEF HandleInv
  <1> QED
    BY <1>3, <1>4, <1>5

LEMMA NextHandle ==
  ASSUME IInv, HandleInv, [Next]_vars
  PROVE  HandleInv'
  <1> USE DEF Goto, At, Hold, Return, lockVars, bounds, handles
  <1>1. ASSUME NEW t \in Threads,
               \/ LockRead(t) \/ LockWrite(t) \/ WaitWrite(t) \/ GiveUp(t)
               \/ Unlock(t) \/ Closed(t) \/ Unblockade(t) \/ CloseInside(t) \/ Release(t)
        PROVE  HandleInv'
    <2>1. idle' = idle
      BY <1>1 DEF LockRead, LockWrite, WaitWrite, GiveUp, Unlock, Closed, Unblockade,
                  CloseInside, Release
    <2>2. \A u \in Threads : Owns(u)' => Owns(u) /\ held'[u] = held[u]
      <3>1. CASE LockRead(t)
        <4>1. pc'[t] \notin {"count", "configure", "using", "fill"}
          BY <3>1 DEF IInv, TypeOK, PlaceInv, LockRead, Body, Reads, Writes
        <4> QED
          BY <3>1, <4>1 DEF IInv, TypeOK, LockRead, Owns
      <3>2. CASE LockWrite(t)
        <4>1. pc'[t] \notin {"count", "configure", "using", "fill"}
          BY <3>2 DEF IInv, TypeOK, PlaceInv, LockWrite, Body, Reads, Writes
        <4> QED
          BY <3>2, <4>1 DEF IInv, TypeOK, LockWrite, Owns
      <3>3. CASE WaitWrite(t)
        <4>1. pc'[t] \notin {"count", "configure", "using", "fill"}
          BY <3>3 DEF IInv, TypeOK, PlaceInv, WaitWrite, Body, Reads, Writes
        <4> QED
          BY <3>3, <4>1 DEF IInv, TypeOK, WaitWrite, Owns
      <3>4. CASE GiveUp(t)
        BY <3>4 DEF IInv, TypeOK, GiveUp, Owns
      <3>5. CASE Unlock(t)
        BY <3>5 DEF IInv, TypeOK, Unlock, Owns
      <3>6. CASE Closed(t)
        BY <3>6 DEF IInv, TypeOK, Closed, Owns
      <3>7. CASE Unblockade(t)
        BY <3>7 DEF IInv, TypeOK, Unblockade, Owns
      <3>8. CASE CloseInside(t)
        BY <3>8 DEF IInv, TypeOK, CloseInside, Owns
      <3>9. CASE Release(t)
        BY <3>9 DEF IInv, TypeOK, Release, Owns
      <3> QED
        BY <1>1, <3>1, <3>2, <3>3, <3>4, <3>5, <3>6, <3>7, <3>8, <3>9
    <2> QED
      BY <2>1, <2>2, NoneGained
  <1>2. ASSUME NEW t \in Threads,
               \/ Check(t) \/ Count(t) \/ Configure(t) \/ Filled(t) \/ Uncount(t)
               \/ Clear(t) \/ Subtract(t)
        PROVE  HandleInv'
    <2>1. idle' = idle \/ idle' = <<>>
      BY <1>2 DEF Check, Count, Configure, Filled, Uncount, Clear, Subtract
    <2>2. \A u \in Threads : Owns(u)' => Owns(u) /\ held'[u] = held[u]
      <3>1. CASE Check(t)
        BY <3>1 DEF IInv, TypeOK, Check, Owns
      <3>2. CASE Count(t)
        BY <3>2 DEF IInv, TypeOK, Count, Owns
      <3>3. CASE Configure(t)
        BY <3>3 DEF IInv, TypeOK, Configure, Owns
      <3>4. CASE Filled(t)
        BY <3>4 DEF IInv, TypeOK, Filled, Owns
      <3>5. CASE Uncount(t)
        BY <3>5 DEF IInv, TypeOK, Uncount, Owns
      <3>6. CASE Clear(t)
        BY <3>6 DEF IInv, TypeOK, Clear, Owns
      <3>7. CASE Subtract(t)
        BY <3>7 DEF IInv, TypeOK, Subtract, Owns
      <3> QED
        BY <1>2, <3>1, <3>2, <3>3, <3>4, <3>5, <3>6, <3>7
    <2> QED
      BY <2>1, <2>2, NoneGained
  <1>3. ASSUME NEW t \in Threads, NEW o \in {"use", "fill", "purge", "close", "blockade"},
               Call(t, o)
        PROVE  HandleInv'
    BY <1>3, NoneGained DEF IInv, TypeOK, Call, Owns
  <1>4. CASE SetConfig \/ UNCHANGED vars \/ \E t \in Threads : SpuriousWake(t)
    BY <1>4, NoneGained DEF SetConfig, vars, SpuriousWake, WokenSpuriously, Owns
  <1> QED
    BY <1>1, <1>2, <1>3, <1>4, PopHandle, GenerateHandle, PushHandle DEF Next, Step

\* Two threads never use one handle, and none another could still take.
THEOREM HandlesHaveOneUser == Spec => []OneUser
  <1>1. Init => HandleInv
    BY DEF Init, HandleInv, OneUser, IdleOnce, Owns
  <1>2. IInv /\ HandleInv /\ [Next]_vars => HandleInv'
    BY NextHandle
  <1>3. HandleInv => OneUser
    BY DEF HandleInv
  <1> QED
    BY <1>1, <1>2, <1>3, Inductive, PTL DEF Spec

-----------------------------------------------------------------------------
(* The limit on handles *)

\* A thread that has found room for a handle it has not counted yet.
MayCount(t) ==
  \/ pc[t] \in {"generate", "count", "fill", "filled"}
  \/ pc[t] = "lockRead" /\ op[t] = "fill"

Ms == {t \in Threads : MayCount(t)}

LimitInv == alive + Cardinality(Ms) <= MaxHandles + Cardinality(Threads) - 1

LEMMA CardWithin ==
  ASSUME NEW S \in SUBSET Threads, NEW U \in SUBSET S
  PROVE  /\ Cardinality(U) \in Nat /\ Cardinality(S) \in Nat
         /\ Cardinality(U) <= Cardinality(S)
  <1>1. IsFiniteSet(S)
    BY PoolAssumption, FS_Subset
  <1> QED
    BY <1>1, FS_Subset, FS_CardinalityType

\* A step that counts no handle and lets nobody count one.
LEMMA LimitKept ==
  ASSUME IInv, LimitInv, alive' \in Int, alive' <= alive,
         \A u \in Threads : MayCount(u)' => MayCount(u)
  PROVE  LimitInv'
  <1>1. Ms' \subseteq Ms /\ Ms \in SUBSET Threads
    BY DEF Ms
  <1>2. /\ Cardinality(Ms') \in Nat /\ Cardinality(Ms) \in Nat
        /\ Cardinality(Ms') <= Cardinality(Ms)
    BY <1>1, CardWithin
  <1>3. Cardinality(Threads) \in Nat /\ MaxHandles \in Nat /\ alive \in Int
    BY CardWithin, PoolAssumption DEF IInv, TypeOK
  <1> QED
    BY <1>2, <1>3 DEF LimitInv

\* A step that finds room, of whichever thread.
LEMMA RoomFound ==
  ASSUME IInv, alive' = alive, alive < MaxHandles
  PROVE  LimitInv'
  <1>1. Ms' \subseteq Threads
    BY DEF Ms
  <1>2. /\ Cardinality(Ms') \in Nat /\ Cardinality(Threads) \in Nat
        /\ Cardinality(Ms') <= Cardinality(Threads)
    BY <1>1, CardWithin
  <1>3. MaxHandles \in Nat /\ alive \in Int
    BY PoolAssumption DEF IInv, TypeOK
  <1> QED
    BY <1>2, <1>3 DEF LimitInv

LEMMA CountStep ==
  ASSUME IInv, LimitInv, NEW t \in Threads, Count(t) \/ Filled(t)
  PROVE  LimitInv'
  <1> USE DEF Goto, At, lockVars, bounds
  <1>1. MayCount(t) /\ ~MayCount(t)' /\ alive' = alive + 1
    BY DEF IInv, TypeOK, MayCount, Count, Filled
  <1>2. \A u \in Threads \ {t} : MayCount(u)' <=> MayCount(u)
    BY DEF IInv, TypeOK, MayCount, Count, Filled
  <1>3. Ms' = Ms \ {t} /\ t \in Ms /\ Ms \in SUBSET Threads
    BY <1>1, <1>2 DEF Ms
  <1>4. Cardinality(Ms') = Cardinality(Ms) - 1 /\ Cardinality(Ms) \in Nat \ {0}
    BY <1>3, CardLeave
  <1>5. Cardinality(Threads) \in Nat /\ MaxHandles \in Nat /\ alive \in Int
    BY CardWithin, PoolAssumption DEF IInv, TypeOK
  <1> QED
    BY <1>1, <1>4, <1>5 DEF LimitInv

LEMMA NextLimit ==
  ASSUME IInv, LimitInv, [Next]_vars
  PROVE  LimitInv'
  <1> USE DEF Goto, At, Hold, Return, lockVars, bounds, handles
  <1>1. ASSUME NEW t \in Threads, Step(t) \/ CloseInside(t), ~Count(t), ~Filled(t), ~Check(t)
        PROVE  LimitInv'
    <2>1. alive' \in Int /\ alive' <= alive
      <3>1. CASE Subtract(t)
        BY <3>1 DEF IInv, TypeOK, Subtract
      <3>2. CASE Uncount(t)
        BY <3>2 DEF IInv, TypeOK, Uncount
      <3>3. CASE ~Subtract(t) /\ ~Uncount(t)
        <4>1. alive' = alive
          BY <1>1, <3>3 DEF Step, LockRead, LockWrite, WaitWrite, Pop, Generate, Configure, GiveUp,
                FlowBack, Fill, Unlock, Release, Clear, Closed, Unblockade, CloseInside
        <4> QED
          BY <4>1 DEF IInv, TypeOK
      <3> QED
        BY <3>1, <3>2, <3>3
    <2>2. \A u \in Threads : MayCount(u)' => MayCount(u)
      <3>1. CASE LockRead(t)
        BY <3>1 DEF IInv, TypeOK, PlaceInv, MayCount, LockRead, Body, Reads, Writes
      <3>2. CASE LockWrite(t)
        BY <3>2 DEF IInv, TypeOK, PlaceInv, MayCount, LockWrite, Body, Reads, Writes
      <3>3. CASE WaitWrite(t)
        BY <3>3 DEF IInv, TypeOK, PlaceInv, MayCount, WaitWrite, Body, Reads, Writes
      <3>4. CASE Pop(t)
        BY <3>4 DEF IInv, TypeOK, PlaceInv, MayCount, Pop
      <3>5. CASE Generate(t)
        BY <3>5 DEF IInv, TypeOK, PlaceInv, MayCount, Generate
      <3>6. CASE Configure(t)
        BY <3>6 DEF IInv, TypeOK, PlaceInv, MayCount, Configure
      <3>7. CASE GiveUp(t)
        BY <3>7 DEF IInv, TypeOK, PlaceInv, MayCount, GiveUp
      <3>8. CASE FlowBack(t)
        BY <3>8 DEF IInv, TypeOK, PlaceInv, MayCount, FlowBack, PushBack
      <3>9. CASE Fill(t)
        BY <3>9 DEF IInv, TypeOK, PlaceInv, MayCount, Fill, PushBack
      <3>10. CASE Unlock(t)
        BY <3>10 DEF IInv, TypeOK, PlaceInv, MayCount, Unlock
      <3>11. CASE Uncount(t)
        BY <3>11 DEF IInv, TypeOK, PlaceInv, MayCount, Uncount
      <3>12. CASE Release(t)
        BY <3>12 DEF IInv, TypeOK, PlaceInv, MayCount, Release
      <3>13. CASE Clear(t)
        BY <3>13 DEF IInv, TypeOK, PlaceInv, MayCount, Clear
      <3>14. CASE Subtract(t)
        BY <3>14 DEF IInv, TypeOK, PlaceInv, MayCount, Subtract
      <3>15. CASE Closed(t)
        BY <3>15 DEF IInv, TypeOK, PlaceInv, MayCount, Closed
      <3>16. CASE Unblockade(t)
        BY <3>16 DEF IInv, TypeOK, PlaceInv, MayCount, Unblockade
      <3>17. CASE CloseInside(t)
        BY <3>17 DEF IInv, TypeOK, PlaceInv, MayCount, CloseInside
      <3> QED
        BY <1>1, <3>1, <3>2, <3>3, <3>4, <3>5, <3>6, <3>7, <3>8, <3>9, <3>10, <3>11, <3>12, <3>13, <3>14, <3>15, <3>16, <3>17 DEF Step
    <2> QED
      BY <2>1, <2>2, LimitKept
  <1>2. ASSUME NEW t \in Threads, Check(t)
        PROVE  LimitInv'
    <2>1. CASE alive < MaxHandles
      BY <1>2, <2>1, RoomFound DEF Check
    <2>2. CASE ~(alive < MaxHandles)
      <3>1. \A u \in Threads : MayCount(u)' => MayCount(u)
        BY <1>2, <2>2 DEF IInv, TypeOK, MayCount, Check
      <3>2. alive' = alive /\ alive \in Int
        BY <1>2 DEF IInv, TypeOK, Check
      <3> QED
        BY <3>1, <3>2, LimitKept
    <2> QED
      BY <2>1, <2>2
  <1>3. ASSUME NEW t \in Threads, NEW o \in {"use", "fill", "purge", "close", "blockade"},
               Call(t, o)
        PROVE  LimitInv'
    <2>1. alive' = alive /\ alive \in Int
      BY <1>3 DEF IInv, TypeOK, Call
    <2>2. CASE o = "fill"
      BY <1>3, <2>1, <2>2, RoomFound, PoolAssumption DEF Call
    <2>3. CASE o # "fill"
      <3>1. \A u \in Threads : MayCount(u)' => MayCount(u)
        BY <1>3, <2>3 DEF IInv, TypeOK, MayCount, Call
      <3> QED
        BY <2>1, <3>1, LimitKept
    <2> QED
      BY <2>2, <2>3
  <1>4. CASE SetConfig \/ UNCHANGED vars \/ \E t \in Threads : SpuriousWake(t)
    <2>1. UNCHANGED <<alive, pc, op>> /\ alive \in Int
      BY <1>4 DEF IInv, TypeOK, SetConfig, vars, SpuriousWake, WokenSpuriously
    <2> QED
      BY <2>1, LimitKept DEF MayCount
  <1> QED
    BY <1>1, <1>2, <1>3, <1>4, CountStep DEF Next, Step

\* The limit on handles may be passed, because the count is looked at before
\* it is raised, but by less than the number of threads.
THEOREM LimitIsKept == Spec => []LimitHolds
  <1>1. Init => LimitInv
    <2> SUFFICES ASSUME Init PROVE LimitInv
      OBVIOUS
    <2>1. Ms = {}
      BY DEF Init, Ms, MayCount
    <2>2. Cardinality(Ms) = 0 /\ Cardinality(Threads) \in Nat /\ MaxHandles \in Nat \ {0}
      BY <2>1, CardWithin, FS_EmptySet, PoolAssumption
    <2> QED
      BY <2>2 DEF Init, LimitInv
  <1>2. IInv /\ LimitInv /\ [Next]_vars => LimitInv'
    BY NextLimit
  <1>3. IInv /\ LimitInv => LimitHolds
    <2>1. Ms \in SUBSET Threads
      BY DEF Ms
    <2>2. Cardinality(Ms) \in Nat /\ Cardinality(Threads) \in Nat /\ MaxHandles \in Nat
      BY <2>1, CardWithin, PoolAssumption
    <2> QED
      BY <2>2 DEF IInv, TypeOK, LimitInv, LimitHolds
  <1> QED
    BY <1>1, <1>2, <1>3, Inductive, PTL DEF Spec

-----------------------------------------------------------------------------
(* The count of handles *)

\* The threads with a handle that is counted and not in the list, and those
\* with one that is in the list and not counted yet.
Counted == {t \in Threads : pc[t] \in {"configure", "using", "surplus", "uncount"}}
Uncounted == {t \in Threads : pc[t] = "filled"}

\* The handles taken out of the list by clearing it, and still counted: for
\* every thread as many as it found there.
Removed == {r \in Threads \X Nat : r[2] \in 1..size[r[1]]}

Expected == Len(idle) + Cardinality(Counted) + Cardinality(Removed) - Cardinality(Uncounted)

\* What is counted is what is idle or held, to which a failed configuration
\* adds.
CountInv ==
  /\ alive >= Expected
  /\ configs = 0 => alive = Expected /\ stale = {}
  /\ IsFiniteSet(Removed)
  /\ \A t \in Threads : size[t] # 0 => pc[t] = "subtract"

\* What one thread took out of the list.
LEMMA CardTaken ==
  ASSUME NEW t \in Threads, NEW n \in Nat
  PROVE  /\ IsFiniteSet({t} \X (1..n))
         /\ Cardinality({t} \X (1..n)) = n
  <1>1. IsFiniteSet({t}) /\ Cardinality({t}) = 1
    BY FS_Singleton
  <1>2. IsFiniteSet(1..n) /\ Cardinality(1..n) = n
    <2>1. Cardinality(1..n) = IF 1 > n THEN 0 ELSE n - 1 + 1
      BY FS_Interval
    <2> QED
      BY <2>1, FS_Interval
  <1> DEFINE A == {t}  B == 1..n
  <1> HIDE DEF A, B
  <1>3. IsFiniteSet(A \X B) /\ Cardinality(A \X B) = Cardinality(A) * Cardinality(B)
    <2>1. IsFiniteSet(A) /\ IsFiniteSet(B)
      BY <1>1, <1>2 DEF A, B
    <2> QED
      BY <2>1, FS_Product
  <1>4. Cardinality(A) * Cardinality(B) = n
    <2>1. Cardinality(A) = 1 /\ Cardinality(B) = n
      BY <1>1, <1>2 DEF A, B
    <2> QED
      BY <2>1
  <1> QED
    BY <1>3, <1>4 DEF A, B

\* The parts of the expected count are numbers.
LEMMA ExpectedType ==
  ASSUME IInv, CountInv
  PROVE  /\ Len(idle) \in Nat /\ alive \in Int
         /\ Counted \in SUBSET Threads /\ Cardinality(Counted) \in Nat
         /\ Uncounted \in SUBSET Threads /\ Cardinality(Uncounted) \in Nat
         /\ Cardinality(Removed) \in Nat
  <1>1. Counted \in SUBSET Threads /\ Uncounted \in SUBSET Threads
    BY DEF Counted, Uncounted
  <1>2. Len(idle) \in Nat
    BY LenProperties DEF IInv, TypeOK
  <1>3. Cardinality(Removed) \in Nat
    BY FS_CardinalityType DEF CountInv
  <1> QED
    BY <1>1, <1>2, <1>3, CardNat DEF IInv, TypeOK

\* What a thread adds to what is expected, and takes from it.
Own(t) == IF pc[t] \in {"configure", "using", "surplus", "uncount"} THEN 1 ELSE 0
Ahead(t) == IF pc[t] = "filled" THEN 1 ELSE 0

LEMMA OneMoves ==
  ASSUME NEW t \in Threads, \A u \in Threads \ {t} : pc'[u] = pc[u]
  PROVE  /\ Cardinality(Counted') = Cardinality(Counted) + Own(t)' - Own(t)
         /\ Cardinality(Uncounted') = Cardinality(Uncounted) + Ahead(t)' - Ahead(t)
         /\ Cardinality(Counted') \in Nat /\ Cardinality(Uncounted') \in Nat
  <1>1. ASSUME NEW S \in SUBSET Threads, NEW T \in SUBSET Threads, S \ {t} = T \ {t}
        PROVE  /\ Cardinality(T) = Cardinality(S) + (IF t \in T THEN 1 ELSE 0) - (IF t \in S THEN 1 ELSE 0)
               /\ Cardinality(T) \in Nat
    <2>1. Cardinality(T) \in Nat /\ Cardinality(S) \in Nat /\ Cardinality(S \ {t}) \in Nat
      BY CardNat
    <2>2. t \in S => Cardinality(S \ {t}) = Cardinality(S) - 1
      BY CardLeave
    <2>3. t \in T => Cardinality(T \ {t}) = Cardinality(T) - 1
      BY CardLeave
    <2>4. /\ t \notin S => S \ {t} = S
          /\ t \notin T => T \ {t} = T
      OBVIOUS
    <2>5. /\ t \in S => Cardinality(T \ {t}) = Cardinality(S) - 1
          /\ t \notin S => Cardinality(T \ {t}) = Cardinality(S)
      BY <1>1, <2>2, <2>4
    <2>6. t \in T => Cardinality(T) = Cardinality(T \ {t}) + 1
      BY <2>1, <2>3
    <2>7. t \notin T => Cardinality(T) = Cardinality(T \ {t})
      BY <2>4, Zenon
    <2> QED
      BY <2>1, <2>5, <2>6, <2>7
  <1>2. /\ Counted \in SUBSET Threads /\ Counted' \in SUBSET Threads
        /\ Uncounted \in SUBSET Threads /\ Uncounted' \in SUBSET Threads
        /\ Counted \ {t} = Counted' \ {t} /\ Uncounted \ {t} = Uncounted' \ {t}
    BY DEF Counted, Uncounted
  <1>3. /\ Own(t) = IF t \in Counted THEN 1 ELSE 0
        /\ Own(t)' = IF t \in Counted' THEN 1 ELSE 0
        /\ Ahead(t) = IF t \in Uncounted THEN 1 ELSE 0
        /\ Ahead(t)' = IF t \in Uncounted' THEN 1 ELSE 0
    BY DEF Own, Ahead, Counted, Uncounted
  <1>4. /\ Cardinality(Counted') = Cardinality(Counted) + Own(t)' - Own(t)
        /\ Cardinality(Counted') \in Nat
    BY <1>1, <1>2, <1>3
  <1>5. /\ Cardinality(Uncounted') = Cardinality(Uncounted) + Ahead(t)' - Ahead(t)
        /\ Cardinality(Uncounted') \in Nat
    BY <1>1, <1>2, <1>3
  <1> QED
    BY <1>4, <1>5

\* A step of a thread that takes nothing out of the list by clearing it:
\* either the count changes as what is expected does, or a configuration that
\* failed lowers what is expected.
LEMMA CountMoves ==
  ASSUME IInv, IInv', CountInv, NEW t \in Threads,
         \A u \in Threads \ {t} : pc'[u] = pc[u],
         pc[t] # "subtract", size' = size, configs' = configs,
         stale' \subseteq stale,
         \/ alive' - alive = Len(idle') - Len(idle) + Own(t)' - Own(t) - (Ahead(t)' - Ahead(t))
         \/ /\ configs # 0 /\ alive' = alive /\ Len(idle') = Len(idle)
            /\ Own(t)' <= Own(t) /\ Ahead(t)' = Ahead(t)
  PROVE  CountInv'
  <1>1. /\ Len(idle) \in Nat /\ Len(idle') \in Nat /\ alive \in Int /\ alive' \in Int
        /\ Cardinality(Counted) \in Nat /\ Cardinality(Uncounted) \in Nat
        /\ Cardinality(Removed) \in Nat
    BY ExpectedType, LenProperties DEF IInv, TypeOK
  <1>2. Removed' = Removed
    BY DEF Removed
  <1>3. /\ Cardinality(Counted') = Cardinality(Counted) + Own(t)' - Own(t)
        /\ Cardinality(Uncounted') = Cardinality(Uncounted) + Ahead(t)' - Ahead(t)
        /\ Cardinality(Counted') \in Nat /\ Cardinality(Uncounted') \in Nat
    BY OneMoves
  <1>4. /\ Own(t) \in {0, 1} /\ Own(t)' \in {0, 1}
        /\ Ahead(t) \in {0, 1} /\ Ahead(t)' \in {0, 1}
    BY DEF Own, Ahead
  <1>5. \A u \in Threads : size'[u] # 0 => pc'[u] = "subtract"
    BY DEF CountInv
  <1>6. /\ alive' >= Expected'
        /\ configs' = 0 => alive' = Expected'
    <2>1. Expected' - Expected = Len(idle') - Len(idle) + Own(t)' - Own(t) - (Ahead(t)' - Ahead(t))
      <3>0. /\ Len(idle) \in Int /\ Len(idle') \in Int /\ Cardinality(Removed) \in Int
            /\ Cardinality(Counted) \in Int /\ Cardinality(Uncounted) \in Int
            /\ Cardinality(Counted') \in Int /\ Cardinality(Uncounted') \in Int
        BY <1>1, <1>3
      <3>1. Expected = Len(idle) + Cardinality(Counted) + Cardinality(Removed) - Cardinality(Uncounted)
        BY DEF Expected
      <3>2. Expected' = Len(idle') + Cardinality(Counted') + Cardinality(Removed) - Cardinality(Uncounted')
        BY <1>2 DEF Expected
      <3>3. Cardinality(Counted') - Cardinality(Counted) = Own(t)' - Own(t)
        BY <1>1, <1>3, <1>4
      <3>4. Cardinality(Uncounted') - Cardinality(Uncounted) = Ahead(t)' - Ahead(t)
        BY <1>1, <1>3, <1>4
      <3>5. /\ Own(t)' - Own(t) \in Int
            /\ Ahead(t)' - Ahead(t) \in Int
        BY <1>4
      <3>6. Expected' - Expected =
              (Len(idle') - Len(idle)) + (Cardinality(Counted') - Cardinality(Counted))
                - (Cardinality(Uncounted') - Cardinality(Uncounted))
        BY <3>0, <3>1, <3>2
      <3> QED
        BY <3>0, <3>3, <3>4, <3>5, <3>6
    <2>2. Expected \in Int /\ Expected' \in Int
      BY <1>1, <1>2, <1>3 DEF Expected
    <2>3. \/ alive' - alive = Expected' - Expected
          \/ configs # 0 /\ alive' = alive /\ Expected' <= Expected
      BY <1>1, <1>4, <2>1, <2>2
    <2> QED
      BY <1>1, <2>2, <2>3 DEF CountInv
  <1>7. configs' = 0 => stale' = {}
    BY DEF CountInv
  <1> QED
    BY <1>2, <1>5, <1>6, <1>7 DEF CountInv

LEMMA ClearCounts ==
  ASSUME IInv, IInv', CountInv, NEW t \in Threads, Clear(t)
  PROVE  CountInv'
  <1> USE DEF Goto, At, lockVars, bounds
  <1> DEFINE n == Len(idle)
             T == {t} \X (1..n)
  <1>1. /\ n \in Nat /\ Len(idle') = 0 /\ alive' = alive /\ alive \in Int
        /\ Cardinality(Removed) \in Nat
        /\ Cardinality(Counted) \in Nat /\ Cardinality(Uncounted) \in Nat
    BY ExpectedType DEF Clear
  <1>2. size[t] = 0 /\ size' = [size EXCEPT ![t] = n] /\ pc' = [pc EXCEPT ![t] = "subtract"]
    BY DEF Clear, CountInv
  <1>3. Removed' = Removed \cup T /\ Removed \cap T = {}
    <2>1. \A u \in Threads, k \in Nat : k \in 1..size'[u] <=> (k \in 1..size[u] \/ (u = t /\ k \in 1..n))
      BY <1>1, <1>2 DEF IInv, TypeOK
    <2>2. \A k \in Nat : k \notin 1..size[t]
      BY <1>2
    <2> QED
      BY <1>1, <2>1, <2>2 DEF Removed
  <1>4. IsFiniteSet(T) /\ Cardinality(T) = n
    BY <1>1, CardTaken
  <1>5. IsFiniteSet(Removed') /\ Cardinality(Removed') = Cardinality(Removed) + n
    <2> HIDE DEF T
    <2>1. IsFiniteSet(Removed) /\ Cardinality({}) = 0
      BY FS_EmptySet DEF CountInv
    <2>2. /\ IsFiniteSet(Removed \cup T)
          /\ Cardinality(Removed \cup T) = Cardinality(Removed) + n - Cardinality(Removed \cap T)
      BY <1>4, <2>1, FS_Union
    <2>3. Removed' = Removed \cup T /\ Cardinality(Removed \cap T) = 0
      BY <1>3, <2>1
    <2> QED
      BY <1>1, <2>2, <2>3
  <1>6. Counted' = Counted /\ Uncounted' = Uncounted
    BY <1>2 DEF Clear, IInv, TypeOK, Counted, Uncounted
  <1>7. \A u \in Threads : size'[u] # 0 => pc'[u] = "subtract"
    BY <1>2 DEF IInv, TypeOK, CountInv
  <1>8. Expected' = Expected
    BY <1>1, <1>5, <1>6 DEF Expected
  <1> QED
    BY <1>5, <1>7, <1>8 DEF CountInv, Clear

LEMMA SubtractCounts ==
  ASSUME IInv, IInv', CountInv, NEW t \in Threads, Subtract(t)
  PROVE  CountInv'
  <1> USE DEF Goto, At, lockVars, bounds
  <1> DEFINE n == size[t]
             T == {t} \X (1..n)
  <1>1. /\ n \in Nat /\ Len(idle) \in Nat /\ idle' = idle /\ alive' = alive - n /\ alive \in Int
        /\ Cardinality(Removed) \in Nat
        /\ Cardinality(Counted) \in Nat /\ Cardinality(Uncounted) \in Nat
    BY ExpectedType DEF Subtract, IInv, TypeOK
  <1>2. /\ size' = [size EXCEPT ![t] = 0] /\ pc[t] = "subtract"
        /\ pc' = [pc EXCEPT ![t] = IF op[t] = "purge" THEN "giveUp" ELSE "onClosed"]
    BY DEF Subtract
  <1>3. Removed' = Removed \ T /\ T \subseteq Removed
    <2>1. \A u \in Threads, k \in Nat : k \in 1..size'[u] <=> k \in 1..size[u] /\ u # t
      BY <1>1, <1>2 DEF IInv, TypeOK
    <2> QED
      BY <1>1, <2>1 DEF Removed
  <1>4. IsFiniteSet(T) /\ Cardinality(T) = n
    BY <1>1, CardTaken
  <1>5. IsFiniteSet(Removed') /\ Cardinality(Removed') = Cardinality(Removed) - n
    <2> HIDE DEF T
    <2>1. IsFiniteSet(Removed)
      BY DEF CountInv
    <2>2. Removed \cap T = T
      BY <1>3
    <2> QED
      BY <1>3, <1>4, <2>1, <2>2, FS_Difference
  <1>6. Counted' = Counted /\ Uncounted' = Uncounted
    BY <1>2 DEF IInv, TypeOK, Counted, Uncounted
  <1>7. \A u \in Threads : size'[u] # 0 => pc'[u] = "subtract"
    BY <1>2 DEF IInv, TypeOK, CountInv
  <1>8. Expected' = Expected - n /\ Expected \in Int
    BY <1>1, <1>5, <1>6 DEF Expected
  <1> QED
    BY <1>1, <1>5, <1>7, <1>8 DEF CountInv, Subtract

LEMMA IdleCounts ==
  ASSUME IInv, CountInv, SetConfig \/ UNCHANGED vars \/ \E t \in Threads : SpuriousWake(t)
  PROVE  CountInv'
  <1>1. UNCHANGED <<pc, size, idle, alive>>
    BY DEF SetConfig, vars, SpuriousWake, WokenSpuriously, handles
  <1>2. Counted' = Counted /\ Uncounted' = Uncounted /\ Removed' = Removed
    BY <1>1 DEF Counted, Uncounted, Removed
  <1>3. Expected' = Expected
    BY <1>1, <1>2 DEF Expected
  <1>4. configs' = 0 => configs = 0 /\ stale' = stale
    BY DEF IInv, TypeOK, SetConfig, vars, SpuriousWake, bounds, handles
  <1> QED
    BY <1>1, <1>2, <1>3, <1>4 DEF CountInv

\* What a step of a thread, other than clearing the list, does to the sizes
\* and to the configuration.
LEMMA MovesQuietly ==
  ASSUME IInv, NEW t \in Threads, Step(t) \/ CloseInside(t), ~Clear(t), ~Subtract(t)
  PROVE  /\ \A u \in Threads \ {t} : pc'[u] = pc[u]
         /\ pc[t] # "subtract" /\ size' = size /\ configs' = configs
         /\ stale' \subseteq stale
  <1> USE DEF Goto, At, Hold, Return, lockVars, bounds, handles
  <1>1. CASE LockRead(t)
    BY <1>1 DEF IInv, TypeOK, LockRead
  <1>2. CASE LockWrite(t)
    BY <1>2 DEF IInv, TypeOK, LockWrite
  <1>3. CASE WaitWrite(t)
    BY <1>3 DEF IInv, TypeOK, WaitWrite
  <1>4. CASE Pop(t)
    BY <1>4 DEF IInv, TypeOK, Pop
  <1>5. CASE Check(t)
    BY <1>5 DEF IInv, TypeOK, Check
  <1>6. CASE Generate(t)
    BY <1>6 DEF IInv, TypeOK, Generate
  <1>7. CASE Count(t)
    BY <1>7 DEF IInv, TypeOK, Count
  <1>8. CASE Configure(t)
    BY <1>8 DEF IInv, TypeOK, Configure
  <1>9. CASE GiveUp(t)
    BY <1>9 DEF IInv, TypeOK, GiveUp
  <1>10. CASE FlowBack(t)
    BY <1>10 DEF IInv, TypeOK, FlowBack, PushBack
  <1>11. CASE Fill(t)
    BY <1>11 DEF IInv, TypeOK, Fill, PushBack
  <1>12. CASE Filled(t)
    BY <1>12 DEF IInv, TypeOK, Filled
  <1>13. CASE Unlock(t)
    BY <1>13 DEF IInv, TypeOK, Unlock
  <1>14. CASE Uncount(t)
    BY <1>14 DEF IInv, TypeOK, Uncount
  <1>15. CASE Release(t)
    BY <1>15 DEF IInv, TypeOK, Release
  <1>16. CASE Closed(t)
    BY <1>16 DEF IInv, TypeOK, Closed
  <1>17. CASE Unblockade(t)
    BY <1>17 DEF IInv, TypeOK, Unblockade
  <1>18. CASE CloseInside(t)
    BY <1>18 DEF IInv, TypeOK, CloseInside
  <1> QED
    BY <1>1, <1>2, <1>3, <1>4, <1>5, <1>6, <1>7, <1>8, <1>9, <1>10, <1>11, <1>12, <1>13, <1>14, <1>15, <1>16, <1>17, <1>18 DEF Step

LEMMA StepCounts ==
  ASSUME IInv, IInv', CountInv, NEW t \in Threads,
         Step(t) \/ CloseInside(t), ~Clear(t), ~Subtract(t)
  PROVE  CountInv'
  <1> USE DEF Goto, At, Hold, Return, lockVars, bounds, handles
  <1> DEFINE Even == alive' - alive = Len(idle') - Len(idle) + Own(t)' - Own(t) - (Ahead(t)' - Ahead(t))
             Lost == /\ configs # 0 /\ alive' = alive /\ Len(idle') = Len(idle)
                     /\ Own(t)' <= Own(t) /\ Ahead(t)' = Ahead(t)
  <1>1. /\ Len(idle) \in Nat /\ alive \in Int
    BY ExpectedType
  <1>2. ASSUME LockRead(t) PROVE Even
    BY <1>1, <1>2 DEF IInv, TypeOK, Own, Ahead, LockRead, PlaceInv, Body, Reads
  <1>3. ASSUME LockWrite(t) PROVE Even
    BY <1>1, <1>3 DEF IInv, TypeOK, Own, Ahead, LockWrite, PlaceInv, Body, Reads, Writes
  <1>4. ASSUME WaitWrite(t) PROVE Even
    BY <1>1, <1>4 DEF IInv, TypeOK, Own, Ahead, WaitWrite, PlaceInv, Body, Reads, Writes
  <1>5. ASSUME Pop(t) PROVE Even
    <2>1. CASE idle = <<>>
      BY <1>1, <1>5, <2>1 DEF IInv, TypeOK, Own, Ahead, Pop
    <2>2. CASE idle # <<>>
      <3>1. Len(idle') = Len(idle) - 1
        BY <1>5, <2>2, FrontOf DEF IInv, TypeOK, Pop
      <3> QED
        BY <1>1, <1>5, <2>2, <3>1 DEF IInv, TypeOK, Own, Ahead, Pop
    <2> QED
      BY <2>1, <2>2
  <1>6. ASSUME Check(t) PROVE Even
    BY <1>1, <1>6 DEF IInv, TypeOK, Own, Ahead, Check
  <1>7. ASSUME Generate(t) PROVE Even
    BY <1>1, <1>7 DEF IInv, TypeOK, Own, Ahead, Generate
  <1>8. ASSUME Count(t) PROVE Even
    BY <1>1, <1>8 DEF IInv, TypeOK, Own, Ahead, Count
  <1>9. ASSUME Configure(t) PROVE Even \/ Lost
    <2>1. CASE pc' = [pc EXCEPT ![t] = "using"]
      BY <1>1, <1>9, <2>1 DEF IInv, TypeOK, Own, Ahead, Configure
    <2>2. CASE held[t] \in stale /\ pc' = [pc EXCEPT ![t] = "giveUp"]
      <3>1. configs # 0
        BY <2>2 DEF CountInv
      <3> QED
        BY <1>1, <1>9, <2>2, <3>1 DEF IInv, TypeOK, Own, Ahead, Configure
    <2> QED
      BY <1>9, <2>1, <2>2 DEF Configure
  <1>10. ASSUME GiveUp(t) PROVE Even
    BY <1>1, <1>10 DEF IInv, TypeOK, Own, Ahead, GiveUp
  <1>11. ASSUME FlowBack(t) PROVE Even
    <2>1. held[t] \in Handles /\ idle \in Seq(Handles)
      BY <1>11 DEF IInv, TypeOK, PlaceInv, Owns, FlowBack
    <2>2. Len(Append(idle, held[t])) = Len(idle) + 1
      BY <2>1, AppendOf
    <2> QED
      BY <1>1, <1>11, <2>2 DEF IInv, TypeOK, Own, Ahead, FlowBack, PushBack
  <1>12. ASSUME Fill(t) PROVE Even
    <2>1. held[t] \in Handles /\ idle \in Seq(Handles)
      BY <1>12 DEF IInv, TypeOK, PlaceInv, Owns, Fill
    <2>2. Len(Append(idle, held[t])) = Len(idle) + 1
      BY <2>1, AppendOf
    <2> QED
      BY <1>1, <1>12, <2>2 DEF IInv, TypeOK, Own, Ahead, Fill, PushBack
  <1>13. ASSUME Filled(t) PROVE Even
    BY <1>1, <1>13 DEF IInv, TypeOK, Own, Ahead, Filled
  <1>14. ASSUME Unlock(t) PROVE Even
    BY <1>1, <1>14 DEF IInv, TypeOK, Own, Ahead, Unlock
  <1>15. ASSUME Uncount(t) PROVE Even
    BY <1>1, <1>15 DEF IInv, TypeOK, Own, Ahead, Uncount
  <1>16. ASSUME Release(t) PROVE Even
    BY <1>1, <1>16 DEF IInv, TypeOK, Own, Ahead, Release
  <1>17. ASSUME Closed(t) PROVE Even
    BY <1>1, <1>17 DEF IInv, TypeOK, Own, Ahead, Closed
  <1>18. ASSUME Unblockade(t) PROVE Even
    BY <1>1, <1>18 DEF IInv, TypeOK, Own, Ahead, Unblockade
  <1>19. ASSUME CloseInside(t) PROVE Even
    BY <1>1, <1>19 DEF IInv, TypeOK, Own, Ahead, CloseInside
  <1>20. Even \/ Lost
    BY <1>2, <1>3, <1>4, <1>5, <1>6, <1>7, <1>8, <1>9, <1>10, <1>11, <1>12, <1>13, <1>14, <1>15, <1>16, <1>17, <1>18, <1>19 DEF Step
  <1> QED
    BY <1>20, MovesQuietly, CountMoves

LEMMA NextCount ==
  ASSUME IInv, IInv', CountInv, [Next]_vars
  PROVE  CountInv'
  <1>1. ASSUME NEW t \in Threads, NEW o \in {"use", "fill", "purge", "close", "blockade"},
               Call(t, o)
        PROVE  CountInv'
    <2>1. /\ pc[t] = "out" /\ pc'[t] \in {"lockRead", "lockWrite"}
          /\ \A u \in Threads \ {t} : pc'[u] = pc[u]
          /\ size' = size /\ configs' = configs /\ stale' = stale
          /\ alive' = alive /\ idle' = idle
      BY <1>1 DEF IInv, TypeOK, Call, Goto, At, handles, lockVars
    <2>2. alive' - alive = Len(idle') - Len(idle) + Own(t)' - Own(t) - (Ahead(t)' - Ahead(t))
      BY <2>1, ExpectedType DEF Own, Ahead
    <2> QED
      BY <2>1, <2>2, CountMoves
  <1>2. ASSUME NEW t \in Threads, Step(t) \/ CloseInside(t)
        PROVE  CountInv'
    BY <1>2, StepCounts, ClearCounts, SubtractCounts
  <1>3. CASE SetConfig \/ UNCHANGED vars \/ \E t \in Threads : SpuriousWake(t)
    BY <1>3, IdleCounts
  <1> QED
    BY <1>1, <1>2, <1>3 DEF Next

LEMMA CountInductive == Spec => []CountInv
  <1>1. Init => CountInv
    <2> SUFFICES ASSUME Init PROVE CountInv
      OBVIOUS
    <2>1. Counted = {} /\ Uncounted = {} /\ Removed = {}
      BY DEF Init, Counted, Uncounted, Removed
    <2>2. Expected = 0
      <3>1. Cardinality({}) = 0 /\ Len(idle) = 0
        BY FS_EmptySet DEF Init
      <3> QED
        BY <2>1, <3>1 DEF Expected
    <2> QED
      BY <2>1, <2>2, FS_EmptySet DEF Init, CountInv
  <1>2. IInv /\ IInv' /\ CountInv /\ [Next]_vars => CountInv'
    BY NextCount
  <1> QED
    BY <1>1, <1>2, Inductive, PTL DEF Spec

\* When no operation is under way, the count is that of the idle handles, or
\* higher after a configuration that failed; it is never too low.
THEOREM CountStaysTrue == Spec => []CountIsTrue
  <1>1. IInv /\ CountInv => CountIsTrue
    <2> SUFFICES ASSUME IInv, CountInv, AtRest
                 PROVE  alive >= Len(idle) /\ (configs = 0 => alive = Len(idle))
      BY DEF CountIsTrue
    <2>1. Counted = {} /\ Uncounted = {}
      BY DEF AtRest, Counted, Uncounted
    <2>2. \A t \in Threads : size[t] = 0
      BY DEF AtRest, CountInv
    <2>3. Removed = {}
      BY <2>2 DEF Removed
    <2>4. Expected = Len(idle)
      <3>1. Cardinality({}) = 0 /\ Len(idle) \in Nat
        BY FS_EmptySet, ExpectedType
      <3> QED
        BY <2>1, <2>3, <3>1 DEF Expected
    <2> QED
      BY <2>4 DEF CountInv
  <1> QED
    BY <1>1, Inductive, CountInductive, PTL

-----------------------------------------------------------------------------
(* What is open when the database is closed *)

\* Where a thread may refer to a handle.
Holding == {"count", "configure", "using", "fill", "filled", "pushed", "surplus", "uncount", "release"}

\* Only there does it; and what a close has cleared stays empty.
ClearedInv ==
  /\ \A u \in Threads : held[u] # NoHandle => pc[u] \in Holding
  /\ \A t \in Threads : pc[t] \in {"subtract", "onClosed"} /\ op[t] \in Writes => idle = <<>>

LEMMA OneHolds ==
  ASSUME ClearedInv, NEW t \in Threads,
         \A u \in Threads \ {t} : pc'[u] = pc[u] /\ held'[u] = held[u] /\ op'[u] = op[u],
         \/ held'[t] = NoHandle \/ pc'[t] \in Holding
         \/ held'[t] = held[t] /\ pc[t] \notin Holding,
         \/ pc'[t] \notin {"subtract", "onClosed"} \/ idle' = <<>>
         \/ pc[t] \in {"subtract", "onClosed"} /\ op'[t] = op[t] /\ idle' = idle,
         \/ idle = <<>> => idle' = <<>>
         \/ \A u \in Threads \ {t} : ~(pc[u] \in {"subtract", "onClosed"} /\ op[u] \in Writes)
  PROVE  ClearedInv'
  BY DEF ClearedInv

LEMMA NextCleared ==
  ASSUME IInv, ClearedInv, [Next]_vars
  PROVE  ClearedInv'
  <1> USE DEF Goto, At, Hold, Return, lockVars, bounds, handles
  <1>1. ASSUME NEW t \in Threads, pc[t] \in {"using", "fill"}, NEW u \in Threads \ {t}
        PROVE  ~(pc[u] \in {"subtract", "onClosed"} /\ op[u] \in Writes)
    <2>1. Reader(t)
      BY <1>1 DEF IInv, PlaceInv, Reader, Reading
    <2>2. ~Writer(u)
      BY <2>1, AloneInside DEF ClosedToOthers
    <2> QED
      BY <2>2 DEF Writer, Alone
  <1>2. ASSUME NEW t \in Threads,
               \/ LockRead(t) \/ LockWrite(t) \/ WaitWrite(t) \/ GiveUp(t) \/ Check(t)
               \/ Count(t) \/ Configure(t) \/ Generate(t)
        PROVE  ClearedInv'
    <2>1. \A u \in Threads \ {t} : pc'[u] = pc[u] /\ held'[u] = held[u] /\ op'[u] = op[u]
      BY <1>2 DEF IInv, TypeOK, LockRead, LockWrite, WaitWrite, GiveUp, Check, Count, Configure, Generate
    <2>2. idle' = idle
      BY <1>2 DEF LockRead, LockWrite, WaitWrite, GiveUp, Check, Count, Configure, Generate
    <2>3. \/ held'[t] = NoHandle \/ pc'[t] \in Holding
          \/ held'[t] = held[t] /\ pc[t] \notin Holding
      BY <1>2 DEF IInv, TypeOK, Holding, LockRead, LockWrite, WaitWrite, GiveUp, Check, Count,
                  Configure, Generate
    <2>4. pc'[t] \notin {"subtract", "onClosed"}
      BY <1>2 DEF IInv, TypeOK, PlaceInv, LockRead, LockWrite, WaitWrite, GiveUp, Check, Count,
                  Configure, Generate, Body, Reads, Writes
    <2> QED
      BY <2>1, <2>2, <2>3, <2>4, OneHolds
  <1>3. ASSUME NEW t \in Threads,
               \/ Filled(t) \/ Unlock(t) \/ Uncount(t) \/ Release(t)
               \/ Subtract(t) \/ Closed(t) \/ Unblockade(t) \/ CloseInside(t)
        PROVE  ClearedInv'
    <2>1. \A u \in Threads \ {t} : pc'[u] = pc[u] /\ held'[u] = held[u] /\ op'[u] = op[u]
      BY <1>3 DEF IInv, TypeOK, Filled, Unlock, Uncount, Release, Subtract, Closed, Unblockade, CloseInside
    <2>2. idle' = idle
      BY <1>3 DEF Filled, Unlock, Uncount, Release, Subtract, Closed, Unblockade, CloseInside
    <2>3. \/ held'[t] = NoHandle \/ pc'[t] \in Holding
          \/ held'[t] = held[t] /\ pc[t] \notin Holding
      BY <1>3 DEF IInv, TypeOK, Holding, Filled, Unlock, Uncount, Release, Subtract, Closed,
                  Unblockade, CloseInside
    <2>4. \/ pc'[t] \notin {"subtract", "onClosed"}
          \/ pc[t] \in {"subtract", "onClosed"} /\ op'[t] = op[t]
      BY <1>3 DEF IInv, TypeOK, Filled, Unlock, Uncount, Release, Subtract, Closed, Unblockade, CloseInside
    <2> QED
      BY <2>1, <2>2, <2>3, <2>4, OneHolds
  <1>4. ASSUME NEW t \in Threads, Pop(t)
        PROVE  ClearedInv'
    <2>1. /\ pc[t] = "pop" /\ pc'[t] \in {"check", "configure"}
          /\ held'[t] = held[t] \/ pc'[t] = "configure"
          /\ idle = <<>> => idle' = <<>>
          /\ \A u \in Threads \ {t} : pc'[u] = pc[u] /\ held'[u] = held[u] /\ op'[u] = op[u]
      BY <1>4 DEF IInv, TypeOK, Pop
    <2> QED
      BY <2>1, OneHolds DEF Holding
  <1>5. ASSUME NEW t \in Threads, FlowBack(t) \/ Fill(t)
        PROVE  ClearedInv'
    <2>1. /\ pc[t] \in {"using", "fill"} /\ pc'[t] \in {"pushed", "surplus", "filled"}
          /\ \A u \in Threads \ {t} : pc'[u] = pc[u] /\ held'[u] = held[u] /\ op'[u] = op[u]
      BY <1>5 DEF IInv, TypeOK, FlowBack, Fill, PushBack
    <2> QED
      BY <1>1, <2>1, OneHolds DEF Holding
  <1>6. ASSUME NEW t \in Threads, Clear(t)
        PROVE  ClearedInv'
    <2>1. /\ pc[t] = "clear" /\ held' = held /\ idle' = <<>>
          /\ \A u \in Threads \ {t} : pc'[u] = pc[u] /\ op'[u] = op[u]
      BY <1>6 DEF IInv, TypeOK, Clear
    <2> QED
      BY <2>1, OneHolds DEF Holding
  <1>7. ASSUME NEW t \in Threads, NEW o \in {"use", "fill", "purge", "close", "blockade"}, Call(t, o)
        PROVE  ClearedInv'
    <2>1. /\ pc[t] = "out" /\ pc'[t] \in {"lockRead", "lockWrite"} /\ held' = held /\ idle' = idle
          /\ \A u \in Threads \ {t} : pc'[u] = pc[u] /\ op'[u] = op[u]
      BY <1>7 DEF IInv, TypeOK, Call
    <2> QED
      BY <2>1, OneHolds DEF Holding
  <1>8. CASE SetConfig \/ UNCHANGED vars \/ \E t \in Threads : SpuriousWake(t)
    BY <1>8 DEF SetConfig, vars, SpuriousWake, ClearedInv
  <1> QED
    BY <1>2, <1>3, <1>4, <1>5, <1>6, <1>7, <1>8 DEF Next, Step

\* The count in the onClosed block.
LEMMA CountClosed ==
  ASSUME IInv, CountInv, ClearedInv, NEW t \in Threads, pc[t] = "onClosed", configs = 0
  PROVE  alive = Cardinality({u \in Threads : pc[u] = "uncount"})
  <1>1. op[t] \in Writes /\ Writer(t)
    BY DEF IInv, PlaceInv, Writer, Alone
  <1>2. \A u \in Threads \ {t} : ~Reader(u) /\ ~Writer(u)
    BY <1>1, AloneInside DEF ClosedToOthers
  <1>3. \A u \in Threads : pc[u] \notin {"configure", "using", "surplus", "filled"}
    BY <1>2 DEF IInv, PlaceInv, Reader, Reading
  <1>4. \A u \in Threads : pc[u] # "subtract"
    BY <1>2 DEF IInv, PlaceInv, Reader, Writer, Reading, Alone, Reads
  <1>5. Counted = {u \in Threads : pc[u] = "uncount"} /\ Uncounted = {}
    BY <1>3 DEF Counted, Uncounted
  <1>6. \A u \in Threads : size[u] = 0
    BY <1>4 DEF CountInv
  <1>7. Removed = {}
    BY <1>6 DEF Removed
  <1>8. idle = <<>>
    BY <1>1 DEF ClearedInv
  <1>9. Expected = Cardinality(Counted)
    <2>1. Cardinality({}) = 0 /\ Len(idle) = 0 /\ Cardinality(Counted) \in Nat
      BY <1>8, FS_EmptySet, ExpectedType
    <2> QED
      BY <1>5, <1>7, <2>1 DEF Expected
  <1> QED
    BY <1>5, <1>9 DEF CountInv

\* The onClosed block finds the list empty, and open only what calls that have given
\* up the lock are about to let go: as near as the code comes to the promise that
\* handles_onclosed refutes.
THEOREM NearlyAllIsClosed == Spec => []ClosedButForLeavers
  <1>1. Init => ClearedInv
    BY DEF Init, ClearedInv
  <1>2. IInv /\ ClearedInv /\ [Next]_vars => ClearedInv'
    BY NextCleared
  <1>3. IInv /\ CountInv /\ ClearedInv => ClosedButForLeavers
    <2> SUFFICES ASSUME IInv, CountInv, ClearedInv, NEW t \in Threads, pc[t] = "onClosed"
                 PROVE  /\ idle = <<>>
                        /\ \A u \in Threads : held[u] # NoHandle => pc[u] \in {"uncount", "release"}
                        /\ configs = 0 => alive = Cardinality({u \in Threads : pc[u] = "uncount"})
      BY DEF ClosedButForLeavers, At
    <2>1. op[t] \in Writes /\ Writer(t)
      BY DEF IInv, PlaceInv, Writer, Alone
    <2>2. \A u \in Threads \ {t} : ~Reader(u)
      BY <2>1, AloneInside DEF ClosedToOthers
    <2>3. \A u \in Threads : pc[u] \in Holding => pc[u] \in {"uncount", "release"}
      BY <2>2 DEF IInv, PlaceInv, Reader, Reading, Holding
    <2> QED
      BY <2>1, <2>3, CountClosed DEF ClearedInv
  <1> QED
    BY <1>1, <1>2, <1>3, Inductive, CountInductive, PTL DEF Spec

-----------------------------------------------------------------------------
(* Waiting for the lock *)

\* A step that leaves the lock alone, of a thread that is not asleep.
LEMMA SleepersStay ==
  ASSUME NoLostWakeup, UNCHANGED <<reader, writer, pending, asleep>>,
         \A u \in asleep : pc'[u] = pc[u]
  PROVE  NoLostWakeup'
  BY DEF NoLostWakeup, At, Readable, Writable

\* A step that lets nobody in who had to wait, wakes whom it likes, and may put
\* a thread to sleep that the lock refuses.
LEMMA RefusedStill ==
  ASSUME NoLostWakeup, NEW t \in Threads,
         \A u \in asleep' : u = t \/ (u \in asleep /\ pc'[u] = pc[u]),
         asleep' # {} => (~Readable => ~Readable') /\ (~Writable => ~Writable'),
         t \in asleep' => \/ pc'[t] = "lockRead" /\ ~Readable'
                          \/ pc'[t] = "waitWrite" /\ ~Writable'
  PROVE  NoLostWakeup'
  BY DEF NoLostWakeup, At

LEMMA NextWakeup ==
  ASSUME IInv, IInv', NoLostWakeup, [Next]_vars
  PROVE  NoLostWakeup'
  <1> USE DEF Goto, At, Hold, Return, bounds, handles
  <1>0. reader \in Nat /\ writer \in Nat /\ pending \in Nat /\ asleep \subseteq Threads
    BY DEF IInv, TypeOK
  <1>1. ASSUME NEW t \in Threads, Quiet(t)
        PROVE  NoLostWakeup'
    <2>1. UNCHANGED <<reader, writer, pending, asleep>> /\ t \notin asleep
      BY <1>1 DEF NoLostWakeup, lockVars, Quiet, Pop, Check, Generate, Count, Configure, FlowBack, Fill,
                  Filled, Uncount, Release, Clear, Subtract, CloseInside
    <2>2. \A u \in Threads \ {t} : pc'[u] = pc[u]
      BY <1>1 DEF IInv, TypeOK, Quiet, PushBack, Pop, Check, Generate, Count, Configure, FlowBack,
                  Fill, Filled, Uncount, Release, Clear, Subtract, CloseInside
    <2> QED
      BY <1>0, <2>1, <2>2, SleepersStay
  <1>2. ASSUME NEW t \in Threads, NEW o \in {"use", "fill", "purge", "close", "blockade"},
               Call(t, o)
        PROVE  NoLostWakeup'
    <2>1. UNCHANGED <<reader, writer, pending, asleep>> /\ t \notin asleep
      BY <1>2 DEF NoLostWakeup, lockVars, Call
    <2>2. \A u \in Threads \ {t} : pc'[u] = pc[u]
      BY <1>2 DEF IInv, TypeOK, Call
    <2> QED
      BY <1>0, <2>1, <2>2, SleepersStay
  <1>3. ASSUME NEW t \in Threads, LockRead(t)
        PROVE  NoLostWakeup'
    <2>1. \A u \in Threads \ {t} : pc'[u] = pc[u]
      BY <1>3 DEF IInv, TypeOK, LockRead
    <2>2. CASE ReadLocked
      BY <1>0, <1>3, <2>1, <2>2, RefusedStill DEF LockRead, ReadLocked, Readable, Writable
    <2>3. CASE ReadWaits(t) /\ UNCHANGED pc
      BY <1>0, <1>3, <2>1, <2>3, RefusedStill DEF LockRead, ReadWaits, Sleep, Readable, Writable
    <2> QED
      BY <1>3, <2>2, <2>3 DEF LockRead
  <1>4. ASSUME NEW t \in Threads, LockWrite(t)
        PROVE  NoLostWakeup'
    <2>1. t \notin asleep /\ \A u \in Threads \ {t} : pc'[u] = pc[u]
      BY <1>4 DEF IInv, TypeOK, LockWrite, NoLostWakeup
    <2>2. CASE WriteLocked
      BY <1>0, <2>1, <2>2, RefusedStill DEF WriteLocked, Readable, Writable
    <2>3. CASE WriteAnnounced(t) /\ Goto(t, "waitWrite")
      <3>1. pc'[t] = "waitWrite"
        BY <2>3 DEF IInv, TypeOK
      <3>2. ~Writable' /\ ~Readable' /\ asleep' = asleep \cup {t}
        BY <1>0, <2>3 DEF WriteAnnounced, Sleep, Readable, Writable
      <3> QED
        BY <1>0, <2>1, <3>1, <3>2 DEF NoLostWakeup
    <2> QED
      BY <1>4, <2>2, <2>3 DEF LockWrite
  <1>5. ASSUME NEW t \in Threads, WaitWrite(t)
        PROVE  NoLostWakeup'
    <2>1. t \notin asleep /\ \A u \in Threads \ {t} : pc'[u] = pc[u]
      BY <1>5 DEF IInv, TypeOK, WaitWrite
    <2>2. CASE WriteLockedAtLast
      BY <1>0, <2>1, <2>2, RefusedStill DEF WriteLockedAtLast, Readable, Writable
    <2>3. CASE WriteWaits(t) /\ UNCHANGED pc
      BY <1>0, <1>5, <2>1, <2>3, RefusedStill DEF WaitWrite, WriteWaits, Sleep, Readable, Writable
    <2> QED
      BY <1>5, <2>2, <2>3 DEF WaitWrite
  <1>6. ASSUME NEW t \in Threads, GiveUp(t) \/ Unlock(t)
        PROVE  NoLostWakeup'
    <2>1. ReadUnlocked /\ t \notin asleep
      BY <1>6 DEF GiveUp, Unlock, NoLostWakeup
    <2>2. \A u \in Threads \ {t} : pc'[u] = pc[u]
      BY <1>6 DEF IInv, TypeOK, GiveUp, Unlock
    <2> QED
      BY <1>0, <2>1, <2>2, RefusedStill DEF ReadUnlocked, Readable, Writable
  <1>7. ASSUME NEW t \in Threads, Closed(t) \/ Unblockade(t)
        PROVE  NoLostWakeup'
    BY <1>7 DEF Closed, Unblockade, WriteUnlocked, NoLostWakeup
  <1>8. CASE SetConfig \/ UNCHANGED vars
    BY <1>0, <1>8, SleepersStay DEF SetConfig, vars, lockVars
  <1>9. ASSUME NEW t \in Threads, SpuriousWake(t)
        PROVE  NoLostWakeup'
    BY <1>9 DEF SpuriousWake, WokenSpuriously, NoLostWakeup, Readable, Writable
  <1> QED
    BY <1>1, <1>2, <1>3, <1>4, <1>5, <1>6, <1>7, <1>8, <1>9 DEF Next, Step, Quiet

\* Whoever has the lock is awake, and so is one of those who could have it.
LEMMA SomebodyAwake ==
  ASSUME IInv, NoLostWakeup
  PROVE  NoDeadlock
  <1> SUFFICES ASSUME \A u \in Threads : ~At(u, "out") => u \in asleep,
                      \A u \in Threads : op[u] # "closeInside",
                      NEW t \in Threads, ~At(t, "out")
               PROVE  FALSE
    BY DEF NoDeadlock
  <1> USE DEF At
  <1>1. \A u \in Threads : pc[u] \in {"out", "lockRead", "waitWrite"}
    BY DEF NoLostWakeup
  <1>2. Readers = {} /\ Writers = {}
    BY <1>1 DEF Readers, Writers, Reader, Writer, Reading, Alone
  <1>3. reader = 0 /\ writer = 0
    BY <1>2, FS_EmptySet DEF IInv, LockInv
  <1>4. \A u \in Threads : pc[u] # "waitWrite"
    BY <1>1, <1>3 DEF NoLostWakeup, Writable
  <1>5. Waiting = {}
    BY <1>4 DEF Waiting
  <1>6. pending = 0
    BY <1>5, FS_EmptySet DEF IInv, LockInv
  <1> QED
    BY <1>3, <1>4, <1>6 DEF NoLostWakeup, Readable

\* A thread sleeps only while the lock refuses it: no wake-up is lost.
THEOREM WakeupsArrive == Spec => []NoLostWakeup
  <1>1. Init => NoLostWakeup
    BY DEF Init, LockInit, NoLostWakeup
  <1>2. IInv /\ IInv' /\ NoLostWakeup /\ [Next]_vars => NoLostWakeup'
    BY NextWakeup
  <1> QED
    BY <1>1, <1>2, Inductive, PTL DEF Spec

\* Not all who have called sleep at once, except behind a thread that closes
\* inside its own blockade.
THEOREM NeverAllAsleep == Spec => []NoDeadlock
  <1>1. IInv /\ NoLostWakeup => NoDeadlock
    BY SomebodyAwake
  <1> QED
    BY <1>1, WakeupsArrive, Inductive, PTL

-----------------------------------------------------------------------------
(* The lock as its users see it *)

\* The counters tell whether there is anyone.
LEMMA CountersTell ==
  ASSUME IInv
  PROVE  /\ reader = 0 <=> Readers = {}
         /\ writer = 0 <=> Writers = {}
         /\ pending = 0 <=> Waiting = {}
  <1>1. Readers \in SUBSET Threads /\ Writers \in SUBSET Threads /\ Waiting \in SUBSET Threads
    BY DEF Readers, Writers, Waiting
  <1> QED
    BY <1>1, CardNat, FS_EmptySet DEF IInv, LockInv

SetsStay == Readers' = Readers /\ Writers' = Writers /\ Waiting' = Waiting

LEMMA HoldsStay ==
  ASSUME \A u \in Threads : SameHold(u)
  PROVE  SetsStay
  BY DEF SetsStay, Readers, Writers, Waiting, SameHold

\* A thread begins or ends to read, begins to wait, begins or ends to write.
LEMMA OneChanges ==
  ASSUME NEW t \in Threads, OthersStay(t)
  PROVE  /\ Readers' = IF Reader(t)' THEN Readers \cup {t} ELSE Readers \ {t}
         /\ Writers' = IF Writer(t)' THEN Writers \cup {t} ELSE Writers \ {t}
         /\ Waiting' = IF pc'[t] = "waitWrite" THEN Waiting \cup {t} ELSE Waiting \ {t}
         /\ t \in Readers <=> Reader(t)
         /\ t \in Writers <=> Writer(t)
         /\ t \in Waiting <=> pc[t] = "waitWrite"
  BY DEF OthersStay, SameHold, Readers, Writers, Waiting

LEMMA TakesForReading ==
  ASSUME IInv, NEW t \in Threads, LockRead(t), ReadLocked
  PROVE  Exclusion!BeginReading(t)
  <1> USE DEF Goto, At, handles, bounds
  <1>1. op[t] \in Reads /\ pc[t] = "lockRead" /\ pc' = [pc EXCEPT ![t] = Body[op[t]]] /\ op' = op
    BY DEF IInv, PlaceInv, LockRead, ReadLocked, ReadWaits
  <1>2. pc'[t] \in {"pop", "generate", "clear"} /\ op'[t] \in Reads
    BY <1>1 DEF IInv, TypeOK, Body, Reads
  <1>3. ~Reader(t) /\ Reader(t)' /\ ~Writer(t) /\ ~Writer(t)'
    BY <1>1, <1>2 DEF Reader, Writer, Reading, Alone, Reads, Writes
  <1>4. OthersStay(t)
    BY <1>1, OthersUntouched DEF IInv, TypeOK
  <1>5. /\ Readers' = Readers \cup {t} /\ t \notin Readers
        /\ Writers' = Writers /\ Waiting' = Waiting
    BY <1>1, <1>2, <1>3, <1>4, OneChanges
  <1>6. Writers = {} /\ Waiting = {}
    BY CountersTell DEF ReadLocked, Readable
  <1> QED
    BY <1>5, <1>6 DEF Exclusion!BeginReading

LEMMA GivesUpReading ==
  ASSUME IInv, NEW t \in Threads, GiveUp(t) \/ Unlock(t)
  PROVE  Exclusion!EndReading(t)
  <1> USE DEF Goto, At, Return, handles, bounds
  <1>1. pc[t] \in {"giveUp", "pushed", "surplus"} /\ op[t] \in Reads
    BY DEF IInv, PlaceInv, Reading, GiveUp, Unlock
  <1>2. /\ pc'[t] \in {"out", "release", "uncount"}
        /\ op'[t] \in {"none", op[t]}
        /\ \A u \in Threads \ {t} : pc'[u] = pc[u] /\ op'[u] = op[u]
    BY DEF IInv, TypeOK, GiveUp, Unlock
  <1>3. Reader(t) /\ ~Reader(t)' /\ ~Writer(t) /\ ~Writer(t)'
    BY <1>1, <1>2 DEF Reader, Writer, Reading, Alone, Reads, Writes
  <1>4. /\ Readers' = Readers \ {t} /\ t \in Readers
        /\ Writers' = Writers /\ Waiting' = Waiting
    BY <1>1, <1>2, <1>3, OthersUntouched, OneChanges
  <1> QED
    BY <1>4 DEF Exclusion!EndReading

LEMMA WaitsToWrite ==
  ASSUME IInv, NEW t \in Threads, LockWrite(t), WriteAnnounced(t)
  PROVE  Exclusion!Wait(t)
  <1> USE DEF Goto, At, handles, bounds
  <1>1. reader \in Nat /\ writer \in Nat
    BY DEF IInv, TypeOK
  <1>2. ~Writable
    BY DEF WriteAnnounced
  <1>3. pc[t] = "lockWrite" /\ pc' = [pc EXCEPT ![t] = "waitWrite"] /\ op' = op
    BY <1>2 DEF LockWrite, WriteLocked
  <1>4. pc'[t] = "waitWrite" /\ OthersStay(t)
    BY <1>3, OthersUntouched DEF IInv, TypeOK
  <1>5. ~Reader(t) /\ ~Reader(t)' /\ (Writer(t)' <=> Writer(t))
    BY <1>3, <1>4 DEF Reader, Writer, Reading, Alone
  <1>6. /\ Waiting' = Waiting \cup {t} /\ t \notin Waiting
        /\ t \notin Readers /\ Readers' = Readers /\ Writers' = Writers
    BY <1>3, <1>4, <1>5, OneChanges
  <1>7. Readers \cup Writers # {}
    BY <1>2, CountersTell DEF Writable
  <1> QED
    BY <1>6, <1>7 DEF Exclusion!Wait

LEMMA TakesForWriting ==
  ASSUME IInv, NEW t \in Threads,
         \/ LockWrite(t) /\ WriteLocked
         \/ WaitWrite(t) /\ WriteLockedAtLast
  PROVE  Exclusion!BeginWriting(t)
  <1> USE DEF Goto, At, handles, bounds
  <1>1. reader = 0 /\ writer = 0
    BY DEF WriteLocked, WriteLockedAtLast, Writable
  <1>2. Readers = {} /\ Writers = {}
    BY <1>1, CountersTell
  <1>3. /\ pc[t] \in {"lockWrite", "waitWrite"}
        /\ pc' = [pc EXCEPT ![t] = Body[op[t]]] /\ op' = op
    BY DEF LockWrite, WaitWrite, WriteLocked, WriteLockedAtLast, WriteAnnounced, WriteWaits
  <1>4. op[t] \in {"close", "blockade"}
    BY <1>2, <1>3 DEF Writers, Writer, IInv, PlaceInv, Writes
  <1>5. pc'[t] \in {"clear", "blockaded"} /\ op'[t] = op[t] /\ OthersStay(t)
    BY <1>3, <1>4, OthersUntouched DEF IInv, TypeOK, Body
  <1>6. ~Reader(t)' /\ Writer(t)'
    BY <1>4, <1>5 DEF Reader, Writer, Reads, Alone, Writes
  <1>7. /\ Readers' = Readers /\ Writers' = {t}
        /\ Waiting' = Waiting \ {t}
    BY <1>2, <1>5, <1>6, OneChanges
  <1> QED
    BY <1>2, <1>7 DEF Exclusion!BeginWriting

LEMMA GivesUpWriting ==
  ASSUME IInv, NEW t \in Threads, Closed(t) \/ Unblockade(t)
  PROVE  Exclusion!EndWriting(t)
  <1> USE DEF Goto, At, Return, handles, bounds
  <1>1. pc[t] \in {"onClosed", "blockaded"} /\ op[t] \in {"close", "blockade"}
    BY DEF IInv, PlaceInv, Writes, Closed, Unblockade
  <1>2. /\ pc'[t] = "out" /\ op'[t] = "none"
        /\ \A u \in Threads \ {t} : pc'[u] = pc[u] /\ op'[u] = op[u]
    BY <1>1 DEF IInv, TypeOK, Closed, Unblockade
  <1>3. Writer(t) /\ ~Writer(t)' /\ ~Reader(t) /\ ~Reader(t)'
    BY <1>1, <1>2 DEF Reader, Writer, Reading, Alone, Reads, Writes
  <1>4. /\ Writers' = Writers \ {t} /\ t \in Writers
        /\ Readers' = Readers /\ Waiting' = Waiting
    BY <1>1, <1>2, <1>3, OthersUntouched, OneChanges
  <1>5. Writers = {t}
    <2>1. \A u \in Threads : u # t => ~Writer(u)
      BY <1>3, AloneInside DEF ClosedToOthers
    <2> QED
      BY <1>4, <2>1 DEF Writers
  <1> QED
    BY <1>4, <1>5 DEF Exclusion!EndWriting

\* Waiting on, and a configuration, are not seen by the users of the lock.
LEMMA RestHolds ==
  ASSUME \/ \E t \in Threads : \/ LockRead(t) /\ ~ReadLocked
                               \/ WaitWrite(t) /\ ~WriteLockedAtLast
                               \/ SpuriousWake(t)
         \/ SetConfig \/ UNCHANGED vars
  PROVE  SetsStay
  <1>1. UNCHANGED <<pc, op>>
    BY DEF LockRead, WaitWrite, SpuriousWake, SetConfig, vars, Goto
  <1> QED
    BY <1>1 DEF SetsStay, Readers, Writers, Waiting, Reader, Writer

\* Every step of the pool is a step of its users on the lock, or none.
LEMMA NextExclusion ==
  ASSUME IInv, [Next]_vars
  PROVE  [Exclusion!Next]_<<Readers, Writers, Waiting>>
  <1>1. ASSUME NEW t \in Threads, Step(t) \/ CloseInside(t)
        PROVE  Exclusion!Next \/ SetsStay
    <2>1. CASE Quiet(t)
      BY <2>1, QuietHolds DEF SetsStay, Readers, Writers, Waiting, SameHold
    <2>2. CASE LockRead(t)
      BY <2>2, TakesForReading, RestHolds DEF Exclusion!Next
    <2>3. CASE LockWrite(t)
      BY <2>3, WaitsToWrite, TakesForWriting DEF LockWrite, Exclusion!Next
    <2>4. CASE WaitWrite(t)
      BY <2>4, TakesForWriting, RestHolds DEF Exclusion!Next
    <2>5. CASE GiveUp(t) \/ Unlock(t)
      BY <2>5, GivesUpReading DEF Exclusion!Next
    <2>6. CASE Closed(t) \/ Unblockade(t)
      BY <2>6, GivesUpWriting DEF Exclusion!Next
    <2> QED
      BY <1>1, <2>1, <2>2, <2>3, <2>4, <2>5, <2>6 DEF Step, Quiet
  <1>2. ASSUME NEW t \in Threads, NEW o \in {"use", "fill", "purge", "close", "blockade"},
               Call(t, o)
        PROVE  SetsStay
    BY <1>2, CallHolds DEF SetsStay, Readers, Writers, Waiting, SameHold
  <1>3. ASSUME NEW t \in Threads, SpuriousWake(t)
        PROVE  SetsStay
    BY <1>3, RestHolds
  <1>4. CASE SetConfig \/ UNCHANGED vars
    BY <1>4, RestHolds DEF SetsStay
  <1> QED
    BY <1>1, <1>2, <1>3, <1>4 DEF Next, SetsStay

\* The threads of the pool read and write as ReadersWriters allows.
THEOREM ExclusionRefined == Spec => ImplementsExclusion
  <1>1. Init => Exclusion!Init
    BY DEF Init, Exclusion!Init, Readers, Writers, Waiting, Reader, Writer, Reading, Alone, Reads, Writes
  <1>2. IInv /\ [Next]_vars => [Exclusion!Next]_<<Readers, Writers, Waiting>>
    BY NextExclusion
  <1> QED
    BY <1>1, <1>2, Inductive, PTL DEF Spec, ImplementsExclusion, Exclusion!Spec
==============================================================================
