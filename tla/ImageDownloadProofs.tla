------------------------ MODULE ImageDownloadProofs ------------------------
(***************************************************************************)
(* For any cells, URLs, queue length and number of requests: the bound of  *)
(* the queue, one answer per request, the right picture in every cell and  *)
(* no indicator, but for a stuck one, without a download that will stop it.*)
(***************************************************************************)
EXTENDS ImageDownload, SequenceTheorems, TLAPS

\* The queue keeps to its bound, and an operation is in it once.
QueueInv ==
  /\ Len(queue) <= MaxOperation
  /\ \A j, k \in 1..Len(queue) : queue[j] = queue[k] => j = k

\* Whoever runs is in the queue and did not end before it was.
RunningInv ==
  \A i \in running : i \notin early /\ \E k \in 1..Len(queue) : queue[k] = i

\* How often a handler was called tells what became of its operation: one that
\* has ended and is still in the queue ended early and was answered once so far.
CallsInv ==
  /\ \A i \in Requests : i > Len(op) => calls[i] = 0
  /\ \A i \in running : calls[i] = 0
  /\ \A i \in (1..Len(op)) \ running : calls[i] = 1 \/ (calls[i] = 2 /\ i \in early)
  /\ \A k \in 1..Len(queue) :
       queue[k] \notin running => queue[k] \in early /\ calls[queue[k]] = 1

\* A cell whose string is a URL spins only while an operation of its own runs.
SpinnerInv ==
  \A c \in Cells : cell[c].spinning =>
    cell[c].url \in Malformed \/ \E i \in running : WouldStop(i, c)

IInv ==
  /\ TypeOK
  /\ QueueInv
  /\ RunningInv
  /\ CallsInv
  /\ PictureIsOwn
  /\ SpinnerInv

Operations == [cell : Cells, url : Urls \cup {NoImage}]

LEMMA InitEstablishes == Init => IInv
  <1> SUFFICES ASSUME Init PROVE IInv
    OBVIOUS
  <1>1. TypeOK
    BY LimitsAssumption DEF Init, TypeOK, Shown, Requests, Strings
  <1>2. QueueInv /\ RunningInv
    BY LimitsAssumption DEF Init, QueueInv, RunningInv
  <1>3. CallsInv
    BY DEF Init, CallsInv, Requests
  <1>4. PictureIsOwn /\ SpinnerInv
    BY DEF Init, PictureIsOwn, SpinnerInv, Shown
  <1> QED
    BY <1>1, <1>2, <1>3, <1>4 DEF IInv


-----------------------------------------------------------------------------
(* The queue *)

\* What is left when the operation at a place is removed.
LEMMA Removed ==
  ASSUME NEW S, NEW q \in Seq(S), NEW k \in 1..Len(q)
  PROVE  /\ RemoveAt(q, k) \in Seq(S)
         /\ Len(RemoveAt(q, k)) = Len(q) - 1
         /\ \A j \in 1..(Len(q) - 1) : RemoveAt(q, k)[j] = IF j < k THEN q[j] ELSE q[j + 1]
  <1> DEFINE left  == SubSeq(q, 1, k - 1)
             right == SubSeq(q, k + 1, Len(q))
  <1>0. Len(q) \in Nat /\ k \in Nat /\ k >= 1 /\ k <= Len(q)
    OBVIOUS
  <1>1. /\ left \in Seq(S) /\ Len(left) = k - 1
        /\ \A j \in 1..(k - 1) : left[j] = q[j]
    BY SubSeqProperties
  <1>2. /\ right \in Seq(S) /\ Len(right) = Len(q) - k
        /\ \A j \in 1..(Len(q) - k) : right[j] = q[j + k]
    BY SubSeqProperties
  <1>3. /\ left \o right \in Seq(S)
        /\ Len(left \o right) = Len(left) + Len(right)
        /\ \A j \in 1..(Len(left) + Len(right)) :
             (left \o right)[j] = IF j <= Len(left) THEN left[j] ELSE right[j - Len(left)]
    BY <1>1, <1>2, ConcatProperties
  <1>4. RemoveAt(q, k) = left \o right
    BY DEF RemoveAt
  <1> HIDE DEF left, right
  <1>5. ASSUME NEW j \in 1..(Len(q) - 1)
        PROVE  (left \o right)[j] = IF j < k THEN q[j] ELSE q[j + 1]
    <2>1. CASE j < k
      BY <1>1, <1>2, <1>3, <2>1
    <2>2. CASE ~(j < k)
      <3>1. (left \o right)[j] = right[j - (k - 1)] /\ j - (k - 1) \in 1..(Len(q) - k)
        BY <1>1, <1>2, <1>3, <2>2
      <3> QED
        BY <1>2, <2>2, <3>1
    <2> QED
      BY <1>0, <2>1, <2>2
  <1>6. Len(left \o right) = Len(q) - 1
    BY <1>0, <1>1, <1>2, <1>3
  <1> QED
    BY <1>3, <1>4, <1>5, <1>6

-----------------------------------------------------------------------------
(* The cells *)

Looks == [url : Strings, image : Urls \cup {NoImage}, spinning : BOOLEAN]

Own(cells) == \A c \in Cells : cells[c].image \in {NoImage, cells[c].url}

\* A handler given its own URL's image, or an error, leaves every image its
\* cell's own, stops the operation's indicator and starts none.
LEMMA Handled ==
  ASSUME NEW cells \in [Cells -> Looks], Own(cells),
         NEW o \in Operations, NEW image \in {NoImage, o.url}
  PROVE  /\ Handle(cells, o, image) \in [Cells -> Looks]
         /\ Own(Handle(cells, o, image))
         /\ \A c \in Cells : Handle(cells, o, image)[c].url = cells[c].url
         /\ \A c \in Cells : Handle(cells, o, image)[c].spinning =>
              cells[c].spinning /\ o # [cell |-> c, url |-> cells[c].url]
  <1>1. CASE cells[o.cell].url # o.url
    BY <1>1 DEF Handle, Own
  <1>2. CASE cells[o.cell].url = o.url
    <2> DEFINE new == Shown(o.url, IF image = NoImage THEN cells[o.cell].image ELSE image, FALSE)
    <2>1. new \in Looks /\ new.url = o.url /\ new.image \in {NoImage, o.url} /\ ~new.spinning
      BY <1>2 DEF Shown, Looks, Own, Operations, Strings
    <2>2. Handle(cells, o, image) = [cells EXCEPT ![o.cell] = new]
      BY <1>2 DEF Handle
    <2> HIDE DEF new
    <2> QED
      BY <1>2, <2>1, <2>2 DEF Own, Operations
  <1> QED
    BY <1>1, <1>2

LEMMA ReusedIsOwn ==
  ASSUME TypeOK, PictureIsOwn, NEW c \in Cells, NEW s \in Strings
  PROVE  /\ Reused(c, s) \in [Cells -> Looks]
         /\ Own(Reused(c, s))
         /\ Reused(c, s)[c] = Shown(s, NoImage, TRUE)
         /\ \A d \in Cells \ {c} : Reused(c, s)[d] = cell[d]
  BY DEF TypeOK, PictureIsOwn, Own, Reused, Shown, Looks, Strings

-----------------------------------------------------------------------------
(* Adding an operation, and what it evicts *)

\* Operation i was made for a cell and runs, or ended early and is answered; the
\* indicators left have a download each.
Made(o, i, cells, live, done) ==
  /\ i = Len(op) + 1 /\ i <= MaxRequests
  /\ op' = Append(op, o)
  /\ cells \in [Cells -> Looks] /\ Own(cells)
  /\ \A d \in Cells : cells[d].spinning =>
       \/ cells[d].url \in Malformed
       \/ \E r \in live : op'[r] = [cell |-> d, url |-> cells[d].url]
  /\ done \in [Requests -> 0..2] /\ \A r \in Requests \ {i} : done[r] = calls[r]
  /\ \/ live = running \cup {i} /\ done[i] = 0 /\ early' = early
     \/ live = running /\ done[i] = 1 /\ early' = early \cup {i}
  /\ cached' \subseteq Urls /\ bad' \subseteq Urls /\ lost' = lost

\* Then it is added, and if the queue was full its first is answered and gone.
LEMMA AddKeeps ==
  ASSUME IInv, NEW o \in Operations, NEW i, NEW cells, NEW live, NEW done,
         Made(o, i, cells, live, done),
         AddOperation(i, cells, live, done)
  PROVE  IInv'
  <1>1. /\ op \in Seq(Operations) /\ Len(op) \in Nat
        /\ i \in Nat /\ i >= 1 /\ i = Len(op) + 1 /\ MaxRequests \in Nat /\ MaxOperation \in Nat
        /\ i \in Requests /\ calls[i] = 0 /\ i \notin running
        /\ \A r \in 1..Len(op) : r \in Requests /\ r \in 1..i /\ r # i
        /\ calls \in [Requests -> 0..2]
        /\ queue \in Seq(1..Len(op)) /\ Len(queue) \in Nat
        /\ \A k \in 1..Len(queue) : queue[k] \in 1..Len(op)
        /\ running \subseteq 1..Len(op) /\ early \subseteq 1..Len(op) /\ lost \subseteq 1..Len(op)
        /\ cached \subseteq Urls /\ bad \subseteq Urls
    BY LimitsAssumption DEF Made, IInv, TypeOK, CallsInv, Requests, Operations
  <1>0. 1..Len(op) \subseteq 1..i /\ running \subseteq 1..i /\ early \subseteq 1..i
       /\ lost \subseteq 1..i /\ i \in 1..i
    BY <1>1
  <1>2. /\ op' \in Seq(Operations) /\ Len(op') = i
        /\ \A r \in 1..Len(op) : op'[r] = op[r]
    BY <1>1 DEF Made
  <1>3. /\ done \in [Requests -> 0..2]
        /\ \A r \in Requests \ {i} : done[r] = calls[r]
        /\ done[i] = IF i \in live THEN 0 ELSE 1
        /\ \A r \in Requests \ {i} : (r \in live) <=> (r \in running)
        /\ i \in live => early' = early
        /\ i \notin live => early' = early \cup {i}
        /\ live \subseteq 1..i
    <2>1. CASE live = running \cup {i} /\ done[i] = 0 /\ early' = early
      BY <1>0, <1>1, <2>1 DEF Made
    <2>2. CASE live = running /\ done[i] = 1 /\ early' = early \cup {i}
      BY <1>0, <1>1, <2>2 DEF Made
    <2> QED
      BY <2>1, <2>2 DEF Made
  <1>6. /\ cells \in [Cells -> Looks] /\ Own(cells) /\ cached' \subseteq Urls /\ bad' \subseteq Urls
        /\ lost' = lost
        /\ \A d \in Cells : cells[d].spinning =>
             \/ cells[d].url \in Malformed
             \/ \E r \in live : op'[r] = [cell |-> d, url |-> cells[d].url]
    BY DEF Made
  <1>4. CASE Len(queue) < MaxOperation
    <2>1. cell' = cells /\ running' = live /\ calls' = done /\ queue' = Append(queue, i)
      BY <1>1, <1>4, LimitsAssumption DEF AddOperation
    <2>2. /\ queue' \in Seq(1..i) /\ Len(queue') = Len(queue) + 1
          /\ queue'[Len(queue) + 1] = i
          /\ \A k \in 1..Len(queue) : queue'[k] = queue[k] /\ queue[k] \in 1..Len(op)
      BY <1>1, <2>1
    <2>3. TypeOK'
      <3>1. early' \subseteq 1..i /\ running' \subseteq 1..i
        BY <1>0, <1>3, <2>1
      <3> QED
        BY <1>0, <1>1, <1>2, <1>3, <1>6, <2>1, <2>2, <3>1 DEF TypeOK, Looks, Operations, Made
    <2>4. QueueInv'
      <3>1. \A j, k \in 1..Len(queue) : queue[j] = queue[k] => j = k
        BY DEF IInv, QueueInv
      <3>2. \A k \in 1..Len(queue) : queue'[k] # i /\ queue'[k] = queue[k]
        BY <1>1, <2>2
      <3>3. \A k \in 1..Len(queue') : k \in 1..Len(queue) \/ k = Len(queue) + 1
        BY <1>1, <2>2
      <3>4. \A j, k \in 1..Len(queue') : queue'[j] = queue'[k] => j = k
        BY <2>2, <3>1, <3>2, <3>3
      <3> QED
        BY <1>1, <1>4, <2>2, <3>4 DEF QueueInv
    <2>5. RunningInv'
      BY <1>1, <1>3, <2>1, <2>2 DEF IInv, TypeOK, RunningInv
    <2>6. CallsInv'
      <3>1. ASSUME NEW r \in Requests, r > Len(op') PROVE calls'[r] = 0
        <4>1. r > Len(op) /\ r # i
          BY <1>1, <1>2, <3>1 DEF Requests
        <4>2. calls[r] = 0
          BY <4>1 DEF IInv, CallsInv
        <4> QED
          BY <1>1, <1>3, <2>1, <3>1, <4>1, <4>2
      <3>2. ASSUME NEW r \in running' PROVE calls'[r] = 0
        BY <1>1, <1>3, <2>1, <3>2 DEF IInv, CallsInv
      <3>3. ASSUME NEW r \in (1..Len(op')) \ running'
            PROVE  calls'[r] = 1 \/ (calls'[r] = 2 /\ r \in early')
        <4>1. r = i \/ r \in (1..Len(op)) \ running
          BY <1>1, <1>2, <1>3, <2>1, <3>3
        <4> QED
          BY <1>1, <1>3, <2>1, <3>3, <4>1 DEF IInv, CallsInv
      <3>4. ASSUME NEW k \in 1..Len(queue'), queue'[k] \notin running'
            PROVE  queue'[k] \in early' /\ calls'[queue'[k]] = 1
        <4>1. CASE k = Len(queue) + 1
          BY <1>3, <2>1, <2>2, <3>4, <4>1
        <4>2. CASE k \in 1..Len(queue)
          BY <1>1, <1>3, <2>1, <2>2, <3>4, <4>2 DEF IInv, CallsInv
        <4> QED
          BY <1>1, <2>2, <4>1, <4>2
      <3> QED
        BY <3>1, <3>2, <3>3, <3>4 DEF CallsInv
    <2>7. PictureIsOwn' /\ SpinnerInv'
      BY <1>6, <2>1 DEF Own, PictureIsOwn, SpinnerInv, WouldStop
    <2> QED
      BY <2>3, <2>4, <2>5, <2>6, <2>7 DEF IInv
  <1>5. CASE Len(queue) >= MaxOperation
    <2> DEFINE h == Head(queue)
    <2>1. /\ h = queue[1] /\ h \in 1..Len(op) /\ h # i /\ op[h] \in Operations
          /\ Len(queue) = MaxOperation /\ Len(queue) >= 1
      <3>1. Len(queue) = MaxOperation /\ Len(queue) >= 1
        BY <1>1, <1>5, LimitsAssumption DEF IInv, QueueInv
      <3>2. h = queue[1] /\ 1 \in 1..Len(queue)
        BY <1>1, <3>1
      <3> HIDE DEF h
      <3>3. h \in 1..Len(op) /\ h # i
        BY <1>1, <3>2
      <3>4. op[h] \in Operations
        BY <1>1, <3>3, ElementOfSeq
      <3> QED
        BY <3>1, <3>2, <3>3, <3>4
    <2>2. /\ cell' = Handle(cells, op[h], NoImage)
          /\ running' = live \ {h}
          /\ calls' = [done EXCEPT ![h] = @ + 1]
          /\ queue' = Append(Tail(queue), i)
      BY <1>5 DEF AddOperation, Evict
    <2> HIDE DEF h
    <2>3. /\ queue' \in Seq(1..i) /\ Len(queue') = Len(queue)
          /\ queue'[Len(queue)] = i
          /\ \A k \in 1..(Len(queue) - 1) :
               queue'[k] = queue[k + 1] /\ queue[k + 1] \in 1..Len(op)
      BY <1>1, <2>1, <2>2
    <2>4. \A k \in 1..(Len(queue) - 1) : queue'[k] # h
      BY <1>1, <2>1, <2>3 DEF IInv, QueueInv
    <2>5. /\ cell' \in [Cells -> Looks] /\ Own(cell')
          /\ \A d \in Cells : cell'[d].url = cells[d].url
          /\ \A d \in Cells : cell'[d].spinning =>
               cells[d].spinning /\ op[h] # [cell |-> d, url |-> cells[d].url]
      BY <1>6, <2>1, <2>2, Handled
    <2>6. /\ done[h] \in {0, 1} /\ calls[h] = done[h]
          /\ h \notin live => h \in early
          /\ h \in live <=> done[h] = 0
      BY <1>1, <1>3, <2>1 DEF IInv, CallsInv, Requests
    <2>7. TypeOK'
      <3>1. early' \subseteq 1..i /\ running' \subseteq 1..i
        BY <1>0, <1>3, <2>2
      <3>2. calls' \in [Requests -> 0..2]
        BY <1>1, <1>3, <2>1, <2>2, <2>6
      <3> QED
        BY <1>0, <1>1, <1>2, <1>6, <2>3, <2>5, <3>1, <3>2 DEF TypeOK, Looks, Operations, Made
    <2>8. QueueInv'
      <3>1. \A j, k \in 1..Len(queue) : queue[j] = queue[k] => j = k
        BY DEF IInv, QueueInv
      <3>2. \A k \in 1..Len(queue') : k \in 1..(Len(queue) - 1) \/ k = Len(queue)
        BY <1>1, <2>3
      <3>3. \A k \in 1..(Len(queue) - 1) : queue'[k] # i /\ k + 1 \in 1..Len(queue)
        BY <1>1, <2>3
      <3>4. \A j, k \in 1..Len(queue') : queue'[j] = queue'[k] => j = k
        <4>1. ASSUME NEW j \in 1..(Len(queue) - 1), NEW k \in 1..(Len(queue) - 1),
                     queue'[j] = queue'[k]
              PROVE  j = k
          <5>1. queue[j + 1] = queue[k + 1]
            BY <2>3, <4>1
          <5>2. j + 1 \in 1..Len(queue) /\ k + 1 \in 1..Len(queue)
            BY <3>3
          <5>3. j + 1 = k + 1
            BY <3>1, <5>1, <5>2
          <5> QED
            BY <1>1, <5>3
        <4> QED
          BY <2>3, <3>2, <3>3, <4>1
      <3>5. Len(queue') <= MaxOperation
        BY <1>1, <2>1, <2>3
      <3> QED
        BY <3>4, <3>5 DEF QueueInv
    <2>9. RunningInv'
      <3>1. ASSUME NEW r \in running', r # i
            PROVE  r \notin early' /\ \E k \in 1..Len(queue') : queue'[k] = r
        <4>1. r \in running /\ r # h /\ r \notin early'
          BY <1>1, <1>3, <2>2, <3>1 DEF IInv, RunningInv
        <4>2. PICK k \in 1..Len(queue) : queue[k] = r
          BY <4>1 DEF IInv, RunningInv
        <4>3. k - 1 \in 1..(Len(queue) - 1) /\ (k - 1) + 1 = k
          BY <1>1, <2>1, <4>1, <4>2
        <4>4. k - 1 \in 1..Len(queue') /\ queue'[k - 1] = r
          BY <1>1, <2>3, <4>2, <4>3
        <4> QED
          BY <4>1, <4>4
      <3>2. ASSUME i \in running'
            PROVE  i \notin early' /\ \E k \in 1..Len(queue') : queue'[k] = i
        <4>1. Len(queue) \in 1..Len(queue')
          BY <1>1, <2>1, <2>3
        <4> QED
          BY <1>1, <1>3, <2>2, <2>3, <3>2, <4>1
      <3> QED
        BY <3>1, <3>2 DEF RunningInv
    <2>10. CallsInv'
      <3>1. ASSUME NEW r \in Requests, r > Len(op') PROVE calls'[r] = 0
        <4>1. r > Len(op) /\ r # i /\ r # h
          BY <1>1, <1>2, <2>1, <3>1 DEF Requests
        <4>2. calls[r] = 0
          BY <4>1 DEF IInv, CallsInv
        <4> QED
          BY <1>1, <1>3, <2>1, <2>2, <3>1, <4>1, <4>2
      <3>2. ASSUME NEW r \in running' PROVE calls'[r] = 0
        <4>1. r \in live /\ r # h
          BY <2>2, <3>2
        <4>2. r \in Requests /\ done[r] = 0
          <5>1. CASE r = i
            BY <1>1, <1>3, <4>1, <5>1
          <5>2. CASE r # i
            <6>1. r \in running /\ r \in 1..Len(op)
              BY <1>1, <1>3, <4>1, <5>2
            <6>2. calls[r] = 0
              BY <6>1 DEF IInv, CallsInv
            <6> QED
              BY <1>1, <1>3, <5>2, <6>1, <6>2
          <5> QED
            BY <5>1, <5>2
        <4>3. calls'[r] = done[r]
          BY <1>3, <2>2, <4>1, <4>2
        <4> QED
          BY <4>2, <4>3
      <3>3. ASSUME NEW r \in (1..Len(op')) \ running'
            PROVE  calls'[r] = 1 \/ (calls'[r] = 2 /\ r \in early')
        <4>1. CASE r = h
          <5>1. calls'[h] = done[h] + 1
            BY <1>1, <1>3, <2>1, <2>2
          <5>2. h \notin live => h \in early'
            BY <1>3, <2>1, <2>6
          <5> QED
            BY <2>6, <4>1, <5>1, <5>2
        <4>2. CASE r # h
          <5>1. r = i \/ r \in (1..Len(op)) \ running
            BY <1>1, <1>2, <1>3, <2>2, <3>3, <4>2
          <5>2. calls'[r] = done[r] /\ r \notin live
            BY <1>1, <1>3, <2>2, <3>3, <4>2, <5>1
          <5> QED
            BY <1>1, <1>3, <5>1, <5>2 DEF IInv, CallsInv
        <4> QED
          BY <4>1, <4>2
      <3>4. ASSUME NEW k \in 1..Len(queue'), queue'[k] \notin running'
            PROVE  queue'[k] \in early' /\ calls'[queue'[k]] = 1
        <4>1. CASE k = Len(queue)
          BY <1>1, <1>3, <2>1, <2>2, <2>3, <3>4, <4>1
        <4>2. CASE k \in 1..(Len(queue) - 1)
          <5>0. k + 1 \in 1..Len(queue)
            BY <1>1, <4>2
          <5>1. k + 1 \in 1..Len(queue) /\ queue'[k] = queue[k + 1] /\ queue'[k] # h
            BY <2>3, <2>4, <4>2, <5>0
          <5>2. queue[k + 1] # i /\ queue[k + 1] \in Requests
            BY <1>1, <5>1
          <5>3. queue[k + 1] \notin running
            BY <1>3, <2>2, <3>4, <5>1, <5>2
          <5>4. queue[k + 1] \in early /\ calls[queue[k + 1]] = 1
            BY <5>1, <5>3 DEF IInv, CallsInv
          <5> QED
            BY <1>3, <2>2, <5>1, <5>2, <5>4
        <4> QED
          BY <1>1, <2>3, <4>1, <4>2
      <3> QED
        BY <3>1, <3>2, <3>3, <3>4 DEF CallsInv
    <2>11. PictureIsOwn' /\ SpinnerInv'
      <3>1. ASSUME NEW d \in Cells, cell'[d].spinning, cell'[d].url \notin Malformed
            PROVE  \E r \in running' : op'[r] = [cell |-> d, url |-> cell'[d].url]
        <4>1. /\ cells[d].spinning /\ cell'[d].url = cells[d].url
              /\ op[h] # [cell |-> d, url |-> cells[d].url]
          BY <2>5, <3>1
        <4>2. PICK r \in live : op'[r] = [cell |-> d, url |-> cells[d].url]
          BY <1>6, <3>1, <4>1
        <4>3. r # h
          BY <1>2, <2>1, <4>1, <4>2
        <4> QED
          BY <2>2, <4>1, <4>2, <4>3
      <3> QED
        BY <2>5, <3>1 DEF Own, PictureIsOwn, SpinnerInv, WouldStop
    <2> QED
      BY <2>7, <2>8, <2>9, <2>10, <2>11 DEF IInv
  <1> QED
    BY <1>1, <1>4, <1>5, LimitsAssumption

-----------------------------------------------------------------------------
(* The steps *)

LEMMA ShowCachedKeeps ==
  ASSUME IInv, NEW c \in Cells, NEW u \in Urls, ShowCached(c, u)
  PROVE  IInv'
  <1> DEFINE o == [cell |-> c, url |-> u]
             cells == Reused(c, u)
  <1>1. /\ cells \in [Cells -> Looks] /\ Own(cells)
        /\ cells[c] = Shown(u, NoImage, TRUE)
        /\ \A d \in Cells \ {c} : cells[d] = cell[d]
    BY ReusedIsOwn DEF IInv, Strings
  <1>2. o \in Operations /\ u \in {NoImage, o.url}
    BY DEF Operations
  <1>3. cell' = Handle(cells, o, u) /\ UNCHANGED <<cached, bad, op, queue, running, lost, early, calls>>
    BY DEF ShowCached
  <1> HIDE DEF cells
  <1>4. /\ cell' \in [Cells -> Looks] /\ Own(cell')
        /\ \A d \in Cells : cell'[d].url = cells[d].url
        /\ \A d \in Cells : cell'[d].spinning =>
             cells[d].spinning /\ o # [cell |-> d, url |-> cells[d].url]
    <2> HIDE DEF o
    <2> QED
      BY <1>1, <1>2, <1>3, Handled
  <1>5. TypeOK'
    BY <1>3, <1>4 DEF IInv, TypeOK, Looks
  <1>6. QueueInv' /\ RunningInv' /\ CallsInv'
    BY <1>3 DEF IInv, QueueInv, RunningInv, CallsInv
  <1>7. ASSUME NEW d \in Cells, cell'[d].spinning, cell'[d].url \notin Malformed
        PROVE  \E r \in running' : op'[r] = [cell |-> d, url |-> cell'[d].url]
    <2>1. d # c
      BY <1>1, <1>4, <1>7 DEF Shown
    <2>2. cell[d].spinning /\ cell'[d].url = cell[d].url
      BY <1>1, <1>4, <1>7, <2>1
    <2> QED
      BY <1>3, <1>7, <2>2 DEF IInv, SpinnerInv, WouldStop
  <1> QED
    BY <1>4, <1>5, <1>6, <1>7 DEF IInv, Own, PictureIsOwn, SpinnerInv, WouldStop

LEMMA DownloadKeeps ==
  ASSUME IInv, NEW c \in Cells, NEW u \in Urls, Download(c, u)
  PROVE  IInv'
  <1> DEFINE i == Len(op) + 1
             cells == Reused(c, u)
             o == [cell |-> c, url |-> u]
  <1>1. /\ i <= MaxRequests /\ op' = Append(op, o)
        /\ AddOperation(i, cells, running \cup {i}, calls)
        /\ UNCHANGED <<cached, bad, lost, early>>
    BY DEF Download
  <1>2. /\ cells \in [Cells -> Looks] /\ Own(cells)
        /\ cells[c] = Shown(u, NoImage, TRUE)
        /\ \A d \in Cells \ {c} : cells[d] = cell[d]
    BY ReusedIsOwn DEF IInv, Strings
  <1>3. /\ op' = Append(op, o) /\ op'[i] = o
        /\ \A r \in running : op'[r] = op[r]
    BY <1>1 DEF IInv, TypeOK
  <1>4. ASSUME NEW d \in Cells, cells[d].spinning, cells[d].url \notin Malformed
        PROVE  \E r \in running \cup {i} : op'[r] = [cell |-> d, url |-> cells[d].url]
    <2>1. CASE d = c
      BY <1>2, <1>3, <2>1 DEF Shown
    <2>2. CASE d # c
      <3>1. PICK r \in running : op[r] = [cell |-> d, url |-> cell[d].url]
        BY <1>2, <1>4, <2>2 DEF IInv, SpinnerInv, WouldStop
      <3> QED
        BY <1>2, <1>3, <2>2, <3>1
    <2> QED
      BY <2>1, <2>2
  <1>5. /\ o \in Operations /\ i = Len(op) + 1 /\ early' = early
        /\ cached' \subseteq Urls /\ bad' \subseteq Urls /\ lost' = lost
    BY <1>1 DEF IInv, TypeOK, Operations
  <1>6. calls \in [Requests -> 0..2] /\ calls[i] = 0
    BY <1>1 DEF IInv, TypeOK, CallsInv, Requests
  <1> HIDE DEF i, cells, o
  <1>7. Made(o, i, cells, running \cup {i}, calls)
    BY <1>1, <1>2, <1>4, <1>5, <1>6 DEF Made
  <1> QED
    BY <1>1, <1>5, <1>7, AddKeeps

LEMMA EndsWithinKeeps ==
  ASSUME IInv, NEW c \in Cells, NEW s \in Strings, NEW image \in {NoImage, Parsed(s)},
         EndsWithin(c, s, image), cached' \subseteq Urls, bad' \subseteq Urls
  PROVE  IInv'
  <1> DEFINE i == Len(op) + 1
             o == [cell |-> c, url |-> Parsed(s)]
             reused == Reused(c, s)
             cells == Handle(reused, o, image)
             done == [calls EXCEPT ![i] = @ + 1]
  <1>1. /\ i <= MaxRequests /\ op' = Append(op, o)
        /\ AddOperation(i, cells, running, done)
        /\ early' = early \cup {i} /\ lost' = lost
    BY DEF EndsWithin
  <1>2. /\ reused \in [Cells -> Looks] /\ Own(reused)
        /\ reused[c] = Shown(s, NoImage, TRUE)
        /\ \A d \in Cells \ {c} : reused[d] = cell[d]
    BY ReusedIsOwn DEF IInv
  <1>3. o \in Operations /\ image \in {NoImage, o.url}
    BY DEF Operations, Parsed
  <1>4. \A r \in running : op'[r] = op[r]
    BY <1>1 DEF IInv, TypeOK
  <1> HIDE DEF reused
  <1>5. /\ cells \in [Cells -> Looks] /\ Own(cells)
        /\ \A d \in Cells : cells[d].url = reused[d].url
        /\ \A d \in Cells : cells[d].spinning =>
             reused[d].spinning /\ o # [cell |-> d, url |-> reused[d].url]
    <2> HIDE DEF o
    <2> QED
      BY <1>2, <1>3, Handled
  <1> HIDE DEF cells
  <1>6. ASSUME NEW d \in Cells, cells[d].spinning, cells[d].url \notin Malformed
        PROVE  \E r \in running : op'[r] = [cell |-> d, url |-> cells[d].url]
    <2>1. d # c
      BY <1>2, <1>5, <1>6 DEF Shown, Parsed, Strings
    <2>2. cell[d].spinning /\ cells[d].url = cell[d].url
      BY <1>2, <1>5, <1>6, <2>1
    <2>3. PICK r \in running : op[r] = [cell |-> d, url |-> cell[d].url]
      BY <1>6, <2>2 DEF IInv, SpinnerInv, WouldStop
    <2> QED
      BY <1>4, <2>2, <2>3
  <1>7. i = Len(op) + 1 /\ early' = early \cup {i}
    BY <1>1
  <1>8. /\ done \in [Requests -> 0..2] /\ done[i] = 1
        /\ \A r \in Requests \ {i} : done[r] = calls[r]
    BY <1>1, LimitsAssumption DEF IInv, TypeOK, CallsInv, Requests
  <1> HIDE DEF i, o, done
  <1>9. Made(o, i, cells, running, done)
    BY <1>1, <1>5, <1>6, <1>7, <1>8 DEF Made
  <1> QED
    BY <1>1, <1>3, <1>9, AddKeeps

LEMMA CompletesKeeps ==
  ASSUME IInv, NEW i \in running, NEW image \in {op[i].url, NoImage}, Completes(i, image)
  PROVE  IInv'
  <1>1. /\ i \in 1..Len(op) /\ i \in Requests /\ op[i] \in Operations
        /\ image \in {NoImage, op[i].url}
        /\ cell \in [Cells -> Looks] /\ Own(cell)
        /\ calls \in [Requests -> 0..2] /\ calls[i] = 0
        /\ queue \in Seq(1..Len(op)) /\ Len(queue) \in Nat
    <2>1. /\ op \in Seq(Operations) /\ Len(op) \in Nat /\ Len(op) <= MaxRequests
          /\ running \subseteq 1..Len(op) /\ queue \in Seq(1..Len(op)) /\ Len(queue) \in Nat
          /\ calls \in [Requests -> 0..2] /\ cell \in [Cells -> Looks] /\ Own(cell)
      BY DEF IInv, TypeOK, Looks, Operations, Own, PictureIsOwn
    <2>2. i \in 1..Len(op) /\ calls[i] = 0
      BY <2>1 DEF IInv, CallsInv
    <2>3. i \in Requests
      BY <2>1, <2>2, LimitsAssumption DEF Requests
    <2>4. op[i] \in Operations
      BY <2>1, <2>2, ElementOfSeq
    <2> QED
      BY <2>1, <2>2, <2>3, <2>4
  <1>2. /\ running' = running \ {i} /\ RemoveOperation(i)
        /\ cell' = Handle(cell, op[i], image)
        /\ calls' = [calls EXCEPT ![i] = @ + 1]
        /\ UNCHANGED <<cached, bad, op, lost, early>>
    BY DEF Completes
  <1>3. /\ cell' \in [Cells -> Looks] /\ Own(cell')
        /\ \A d \in Cells : cell'[d].url = cell[d].url
        /\ \A d \in Cells : cell'[d].spinning =>
             cell[d].spinning /\ op[i] # [cell |-> d, url |-> cell[d].url]
    BY <1>1, <1>2, Handled
  <1>4. \E k \in 1..Len(queue) : queue[k] = i
    BY DEF IInv, RunningInv
  <1>5. PICK k \in 1..Len(queue) : queue[k] = i /\ queue' = RemoveAt(queue, k)
    <2>1. i \in ToSet(queue) /\ DOMAIN queue = 1..Len(queue)
      BY <1>1, <1>4 DEF ToSet
    <2> QED
      BY <1>2, <2>1 DEF RemoveOperation
  <1>6. /\ queue' \in Seq(1..Len(op)) /\ Len(queue') = Len(queue) - 1
        /\ \A j \in 1..(Len(queue) - 1) : queue'[j] = IF j < k THEN queue[j] ELSE queue[j + 1]
    <2> DEFINE S == 1..Len(op)
    <2>1. queue \in Seq(S)
      BY <1>1
    <2> HIDE DEF S
    <2>2. /\ RemoveAt(queue, k) \in Seq(S) /\ Len(RemoveAt(queue, k)) = Len(queue) - 1
          /\ \A j \in 1..(Len(queue) - 1) :
               RemoveAt(queue, k)[j] = IF j < k THEN queue[j] ELSE queue[j + 1]
      BY <2>1, Removed
    <2> QED
      BY <1>5, <2>2 DEF S
  <1> DEFINE from(j) == IF j < k THEN j ELSE j + 1
  <1>7. \A j \in 1..Len(queue') :
          from(j) \in 1..Len(queue) /\ queue'[j] = queue[from(j)] /\ from(j) # k
    <2> TAKE j \in 1..Len(queue')
    <2>1. /\ j \in 1..(Len(queue) - 1) /\ j + 1 \in 1..Len(queue) /\ j \in 1..Len(queue)
          /\ j \in Nat /\ k \in Nat
      BY <1>1, <1>6
    <2>2. CASE j < k
      BY <1>6, <2>1, <2>2
    <2>3. CASE ~(j < k)
      BY <1>6, <2>1, <2>3
    <2> QED
      BY <2>2, <2>3
  <1>8. \A m \in 1..Len(queue) : m # k => \E j \in 1..Len(queue') : m = from(j)
    <2> TAKE m \in 1..Len(queue)
    <2> HAVE m # k
    <2>1. CASE m < k
      <3>1. m \in 1..Len(queue')
        BY <1>1, <1>6, <2>1
      <3>2. m = from(m)
        BY <2>1
      <3> QED
        BY <3>1, <3>2
    <2>2. CASE ~(m < k)
      <3>0. /\ m \in Nat /\ k \in Nat /\ k >= 1 /\ m > k /\ m <= Len(queue)
            /\ Len(queue') = Len(queue) - 1
        BY <1>1, <1>6, <2>2
      <3>1. m - 1 \in 1..Len(queue') /\ ~(m - 1 < k) /\ m = (m - 1) + 1
        BY <1>1, <3>0
      <3>2. m = from(m - 1)
        BY <3>1
      <3> QED
        BY <3>1, <3>2
    <2> QED
      BY <2>1, <2>2
  <1>9. \A j, m \in 1..Len(queue') : from(j) = from(m) => j = m
    BY <1>1, <1>5, <1>6
  <1> HIDE DEF from
  <1>10. \A j, m \in 1..Len(queue) : queue[j] = queue[m] => j = m
    BY DEF IInv, QueueInv
  <1>11. \A j \in 1..Len(queue') : queue'[j] # i
    BY <1>5, <1>7, <1>10
  <1>12. TypeOK'
    <2>1. calls' \in [Requests -> 0..2]
      BY <1>1, <1>2
    <2> QED
      BY <1>2, <1>3, <1>6, <2>1 DEF IInv, TypeOK, Looks
  <1>13. QueueInv'
    <2>1. \A j, m \in 1..Len(queue') : queue'[j] = queue'[m] => j = m
      BY <1>7, <1>9, <1>10
    <2>2. Len(queue') <= MaxOperation
      BY <1>1, <1>6, LimitsAssumption DEF IInv, QueueInv
    <2> QED
      BY <2>1, <2>2 DEF QueueInv
  <1>14. RunningInv'
    <2>1. ASSUME NEW r \in running'
          PROVE  r \notin early' /\ \E j \in 1..Len(queue') : queue'[j] = r
      <3>1. PICK m \in 1..Len(queue) : queue[m] = r
        BY <1>2, <2>1 DEF IInv, RunningInv
      <3>2. m # k
        BY <1>2, <1>5, <2>1, <3>1
      <3>3. \E j \in 1..Len(queue') : queue'[j] = r
        BY <1>7, <1>8, <3>1, <3>2
      <3> QED
        BY <1>2, <2>1, <3>3 DEF IInv, RunningInv
    <2> QED
      BY <2>1 DEF RunningInv
  <1>15. CallsInv'
    <2>1. /\ calls'[i] = 1
          /\ \A r \in Requests \ {i} : calls'[r] = calls[r]
      BY <1>1, <1>2
    <2>2. \A r \in Requests : r > Len(op') => calls'[r] = 0
      BY <1>1, <1>2, <2>1 DEF IInv, CallsInv
    <2>3. \A r \in running' : calls'[r] = 0
      BY <1>2 DEF IInv, CallsInv
    <2>4. \A r \in (1..Len(op')) \ running' : calls'[r] = 1 \/ (calls'[r] = 2 /\ r \in early')
      BY <1>1, <1>2, <2>1 DEF IInv, CallsInv
    <2>5. ASSUME NEW j \in 1..Len(queue'), queue'[j] \notin running'
          PROVE  queue'[j] \in early' /\ calls'[queue'[j]] = 1
      <3>1. queue[from(j)] # i /\ queue[from(j)] \notin running /\ queue[from(j)] \in 1..Len(op)
        BY <1>1, <1>2, <1>7, <1>11, <2>5
      <3>2. queue[from(j)] \in early /\ calls[queue[from(j)]] = 1
        BY <1>7, <3>1 DEF IInv, CallsInv
      <3> QED
        BY <1>2, <1>7, <3>1, <3>2
    <2> QED
      BY <2>2, <2>3, <2>4, <2>5 DEF CallsInv
  <1>16. ASSUME NEW d \in Cells, cell'[d].spinning, cell'[d].url \notin Malformed
         PROVE  \E r \in running' : op'[r] = [cell |-> d, url |-> cell'[d].url]
    <2>1. PICK r \in running : op[r] = [cell |-> d, url |-> cell[d].url]
      BY <1>3, <1>16 DEF IInv, SpinnerInv, WouldStop
    <2> QED
      BY <1>2, <1>3, <1>16, <2>1
  <1> QED
    BY <1>3, <1>12, <1>13, <1>14, <1>15, <1>16
    DEF IInv, Own, PictureIsOwn, SpinnerInv, WouldStop

\* What SDWebImage does beside the completions is with what it has stored, refuses,
\* or has lost, only.
LEMMA ElsewhereKeeps ==
  ASSUME IInv, cached' \subseteq Urls, bad' \subseteq Urls, lost' \subseteq 1..Len(op),
         UNCHANGED <<cell, op, queue, running, early, calls>>
  PROVE  IInv'
  <1>1. TypeOK'
    BY DEF IInv, TypeOK
  <1> QED
    BY <1>1 DEF IInv, QueueInv, RunningInv, CallsInv, PictureIsOwn, SpinnerInv, WouldStop

LEMMA NextKeeps == IInv /\ [Next]_vars => IInv'
  <1> SUFFICES ASSUME IInv, [Next]_vars PROVE IInv'
    OBVIOUS
  <1>1. /\ cached \subseteq Urls /\ bad \subseteq Urls
        /\ lost \subseteq 1..Len(op) /\ running \subseteq 1..Len(op)
    BY DEF IInv, TypeOK
  <1>2. ASSUME NEW c \in Cells, NEW u \in Urls, ShowCached(c, u) \/ Download(c, u)
        PROVE  IInv'
    BY <1>2, ShowCachedKeeps, DownloadKeeps
  <1>3. ASSUME NEW c \in Cells, NEW s \in Strings, DownloadRefused(c, s) PROVE IInv'
    BY <1>1, <1>3, EndsWithinKeeps DEF DownloadRefused
  <1>4. ASSUME NEW c \in Cells, NEW u \in Urls, DownloadStored(c, u) PROVE IInv'
    BY <1>1, <1>4, EndsWithinKeeps DEF DownloadStored, Strings, Parsed
  <1>5. ASSUME NEW i \in running, Ends(i) PROVE IInv'
    BY <1>5, CompletesKeeps DEF Ends
  <1>6. ASSUME NEW i \in running, LosesHandler(i) PROVE IInv'
    BY <1>1, <1>6, ElsewhereKeeps DEF LosesHandler
  <1>7. ASSUME NEW u \in Urls, Stores(u) \/ NotesFailed(u) \/ Purge(u) PROVE IInv'
    BY <1>1, <1>7, ElsewhereKeeps DEF Stores, NotesFailed, Purge
  <1>8. CASE UNCHANGED vars
    BY <1>1, <1>8, ElsewhereKeeps DEF vars
  <1> QED
    BY <1>2, <1>3, <1>4, <1>5, <1>6, <1>7, <1>8 DEF Next

LEMMA Invariance == Spec => []IInv
  <1>1. Init => IInv
    BY InitEstablishes
  <1>2. IInv /\ [Next]_vars => IInv'
    BY NextKeeps
  <1> QED
    BY <1>1, <1>2, PTL DEF Spec

-----------------------------------------------------------------------------
(* Theorems *)

(* Every variable keeps its type; in particular no handler is called a third *)
(* time (RSImageDownloadService.m:33-78).                                    *)
THEOREM TypeCorrect == Spec => []TypeOK
  <1>1. IInv => TypeOK
    BY DEF IInv
  <1> QED
    BY <1>1, Invariance, PTL

(* The queue keeps to its bound, and every download that runs is in it, for  *)
(* any bound and however refusals, evictions and completions follow one      *)
(* another (RSImageDownloadService.m:33-53).                                 *)
THEOREM BoundIsKept == Spec => []DownloadsBounded
  <1>1. ASSUME IInv PROVE DownloadsBounded
    <2>1. ASSUME NEW i \in running PROVE i \in ToSet(queue)
      <3>1. PICK k \in 1..Len(queue) : queue[k] = i
        BY <1>1 DEF IInv, RunningInv
      <3>2. DOMAIN queue = 1..Len(queue)
        BY <1>1 DEF IInv, TypeOK
      <3> QED
        BY <3>1, <3>2 DEF ToSet
    <2> QED
      BY <1>1, <2>1 DEF IInv, QueueInv, DownloadsBounded
  <1> QED
    BY <1>1, Invariance, PTL

(* Every request is answered when it ends and not again, but for one that    *)
(* ended before it was queued, whose eviction answers it a second time       *)
(* (RSImageDownloadService.m:37-43, 66-78).                                  *)
THEOREM OneAnswer == Spec => []AnsweredOnce
  <1>1. IInv => AnsweredOnce
    BY DEF IInv, CallsInv, AnsweredOnce
  <1> QED
    BY <1>1, Invariance, PTL

(* A reused cell never shows another URL's image                             *)
(* (RSSpaceLineViewTableViewCell.m:151-165).                                 *)
THEOREM PicturesAreOwn == Spec => []PictureIsOwn
  <1>1. IInv => PictureIsOwn
    BY DEF IInv
  <1> QED
    BY <1>1, Invariance, PTL

(* An indicator spins only while a download runs whose handler will stop it, *)
(* or because its string is no URL, or waits for an eviction since its       *)
(* handler was lost: the safety part of SpinnerStops                         *)
(* (RSSpaceLineViewTableViewCell.m:148-165, RSImageDownloadService.m:35-43). *)
THEOREM SpinnersHaveCause == Spec => []SpinnerHasCause
  <1>1. IInv => SpinnerHasCause
    BY DEF IInv, SpinnerInv, SpinnerHasCause, Stuck
  <1> QED
    BY <1>1, Invariance, PTL
==============================================================================
