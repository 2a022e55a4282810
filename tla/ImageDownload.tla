---------------------------- MODULE ImageDownload ----------------------------
(***************************************************************************)
(* RSImageDownloadService: at most maxOperation image downloads at once.   *)
(* A request over the limit evicts the oldest operation of the queue: its  *)
(* download is cancelled and its completion handler called with an error.  *)
(* The callers are the reused cells of the timeline, each with an activity *)
(* indicator that only a handler takes away.                               *)
(*                                                                         *)
(* Everything here runs on the main queue, handlers included, so a request *)
(* with the eviction it causes, and a completion with its handler, are one *)
(* action each.  SDWebImage works on queues of its own and completes on    *)
(* the main queue, or at once, from within loadImageWithURL and so before  *)
(* addOperation; it never calls back for an operation that was cancelled,  *)
(* nor for one whose handler comes too late to a download of the same URL. *)
(***************************************************************************)
EXTENDS Naturals, Sequences, SequencesExt

CONSTANTS
  Cells,        \* table view cells
  Urls,         \* media URLs
  Malformed,    \* strings that are no URL
  NoImage,      \* nil, and the gray placeholder
  MaxOperation, \* the longest queue, 20 in the code
  MaxRequests   \* bound: the downloads that miss the cache

ASSUME NamesAssumption == NoImage \notin Urls \cup Malformed /\ Urls \cap Malformed = {}
ASSUME LimitsAssumption == MaxOperation \in Nat \ {0} /\ MaxRequests \in Nat

VARIABLES
  cell,      \* each cell: its view model's mediaUrl, its image, its indicator
  cached,    \* URLs in SDImageCache
  bad,       \* URLs SDWebImage refuses
  op,        \* the operations made so far: the cell and URL of each
  queue,     \* downloadOperationQueue, by the operations' numbers
  running,   \* operations SDWebImage has not finished or cancelled
  lost,      \* operations that nothing but an eviction will answer
  early,     \* history: operations that completed before they were queued
  calls      \* history: how often each operation's handler was called

vars == <<cell, cached, bad, op, queue, running, lost, early, calls>>

Requests == 1..MaxRequests
Strings  == Urls \cup Malformed \cup {NoImage}

\* URLWithString: nil of what is no URL; absoluteString gives back the others.
Parsed(s) == IF s \in Urls THEN s ELSE NoImage

Shown(u, image, spinning) == [url |-> u, image |-> image, spinning |-> spinning]

Init ==
  /\ cell = [c \in Cells |-> Shown(NoImage, NoImage, FALSE)]
  /\ cached \in SUBSET Urls
  /\ bad \in SUBSET (Urls \ cached)
  /\ op = <<>>
  /\ queue = <<>>
  /\ running = {} /\ lost = {}
  /\ early = {}
  /\ calls = [i \in Requests |-> 0]

HandleAnyUrl(cells, o, image) ==   \* mutant: the URL is not compared
  [cells EXCEPT ![o.cell] =
    Shown(@.url, IF image = NoImage THEN @.image ELSE image, FALSE)]

\* The completion handler of operation o, with an image or (NoImage) an error:
\* it touches the cell only if that still shows the operation's URL, which a cell
\* given a malformed string never does.
Handle(cells, o, image) ==
  IF cells[o.cell].url # o.url THEN cells
  ELSE [cells EXCEPT ![o.cell] =
          Shown(o.url, IF image = NoImage THEN @.image ELSE image, FALSE)]

(***************************************************************************)
(* setViewModel: the cell is given a string, shows the placeholder and the *)
(* indicator, and asks for the image.                                      *)
(***************************************************************************)
Reused(c, s) == [cell EXCEPT ![c] = Shown(s, NoImage, TRUE)]

ShowCached(c, u) ==
  /\ u \in cached
  /\ cell' = Handle(Reused(c, u), [cell |-> c, url |-> u], u)
  /\ UNCHANGED <<cached, bad, op, queue, running, lost, early, calls>>

EvictSilently(cells, live, done) ==   \* mutant: the handler is not called
  cell' = cells /\ running' = live \ {Head(queue)} /\ calls' = done

EvictUncancelled(cells, live, done) ==   \* mutant: the download goes on
  /\ cell' = Handle(cells, op[Head(queue)], NoImage)
  /\ running' = live
  /\ calls' = [done EXCEPT ![Head(queue)] = @ + 1]

\* Cancel the first operation of the queue and call its handler.  The arguments
\* are the cells, the live operations and the calls made so far in this action.
Evict(cells, live, done) ==
  /\ cell' = Handle(cells, op[Head(queue)], NoImage)
  /\ running' = live \ {Head(queue)}
  /\ calls' = [done EXCEPT ![Head(queue)] = @ + 1]

\* addOperation
AddOperation(i, cells, live, done) ==
  IF Len(queue) >= MaxOperation
  THEN Evict(cells, live, done) /\ queue' = Append(Tail(queue), i)
  ELSE cell' = cells /\ running' = live /\ calls' = done /\ queue' = Append(queue, i)

\* Somebody has asked for it and missed the cache.
Asked(u) == \E i \in DOMAIN op : op[i].url = u

Download(c, u) ==
  LET i == Len(op) + 1
  IN  /\ i <= MaxRequests
      /\ u \notin cached \cup bad
      /\ op' = Append(op, [cell |-> c, url |-> u])
      /\ AddOperation(i, Reused(c, u), running \cup {i}, calls)
      /\ UNCHANGED <<cached, bad, lost, early>>

\* SDWebImage completes at once, from within the call: removeOperation finds
\* nothing, the handler is called, and then the operation is added all the same.
EndsWithin(c, s, image) ==
  LET i == Len(op) + 1
      o == [cell |-> c, url |-> Parsed(s)]
  IN  /\ i <= MaxRequests
      /\ op' = Append(op, o)
      /\ early' = early \cup {i}
      /\ AddOperation(i, Handle(Reused(c, s), o, image), running,
                      [calls EXCEPT ![i] = @ + 1])
      /\ UNCHANGED lost

\* ... with an error, when there is no URL or it is empty or has failed for good;
DownloadRefused(c, s) ==
  /\ Parsed(s) \in (bad \cup {NoImage}) \ cached
  /\ EndsWithin(c, s, NoImage)
  /\ UNCHANGED <<cached, bad>>

\* ... with an image that was stored since the cache was looked at.
DownloadStored(c, u) ==
  /\ u \notin cached \cup bad /\ Asked(u)
  /\ cached' = cached \cup {u}
  /\ EndsWithin(c, u, u)
  /\ UNCHANGED bad

(***************************************************************************)
(* SDWebImage's completion of operation i, with an image or an error.      *)
(***************************************************************************)
CompletesPartly(i, image) ==   \* mutant: the completion is called for every part
  /\ i \in running \ lost
  /\ cell' = Handle(cell, op[i], image)
  /\ calls' = [calls EXCEPT ![i] = @ + 1]
  /\ UNCHANGED <<cached, bad, op, queue, running, lost, early>>

CompletesQueued(i, image) ==   \* mutant: removeOperation is not called
  /\ i \in running \ lost
  /\ running' = running \ {i}
  /\ cell' = Handle(cell, op[i], image)
  /\ calls' = [calls EXCEPT ![i] = @ + 1]
  /\ UNCHANGED <<cached, bad, op, queue, lost, early>>

\* removeOperation: the queue holds an operation once, or no longer.
RemoveOperation(i) ==
  \/ \E k \in DOMAIN queue : queue[k] = i /\ queue' = RemoveAt(queue, k)
  \/ i \notin ToSet(queue) /\ UNCHANGED queue

Completes(i, image) ==
  /\ i \in running \ lost
  /\ running' = running \ {i}
  /\ RemoveOperation(i)
  /\ cell' = Handle(cell, op[i], image)
  /\ calls' = [calls EXCEPT ![i] = @ + 1]
  /\ UNCHANGED <<cached, bad, op, lost, early>>

\* The downloader has one operation per URL, and adds the handler of a later request
\* to it outside its lock: that of one whose handlers were just called is not called,
\* and removed with them.
LosesHandler(i) ==
  /\ i \in running
  /\ \E j \in 1..i-1 : op[j].url = op[i].url
  /\ lost' = lost \cup {i}
  /\ UNCHANGED <<cell, cached, bad, op, queue, running, early, calls>>

\* SDWebImage stores an image before it sends the completion to the main queue,
\* for a download that is not cancelled, and notes a URL as failed after that, when
\* the main queue may have completed it.  Memory warnings and expiry purge the
\* cache.  (An image stored while its download is being cancelled is left out.)
Stores(u) ==
  /\ \E i \in running : op[i].url = u
  /\ cached' = cached \cup {u}
  /\ UNCHANGED <<cell, bad, op, queue, running, lost, early, calls>>

NotesFailed(u) ==
  /\ Asked(u)
  /\ bad' = bad \cup {u}
  /\ UNCHANGED <<cell, cached, op, queue, running, lost, early, calls>>

Purge(u) ==
  /\ u \in cached
  /\ cached' = cached \ {u}
  /\ UNCHANGED <<cell, bad, op, queue, running, lost, early, calls>>

Ends(i) == Completes(i, op[i].url) \/ Completes(i, NoImage)

Next ==
  \/ \E c \in Cells, u \in Urls : ShowCached(c, u) \/ Download(c, u) \/ DownloadStored(c, u)
  \/ \E c \in Cells, s \in Strings : DownloadRefused(c, s)
  \/ \E i \in running : Ends(i) \/ LosesHandler(i)
  \/ \E u \in Urls : Stores(u) \/ NotesFailed(u) \/ Purge(u)

Spec == Init /\ [][Next]_vars

\* SDWebImage ends every download that is not cancelled (NSURLSession times out), and
\* calls the handlers it has not lost.
FairSpec == Spec /\ \A i \in Requests : WF_vars(i \in running /\ Ends(i))

-----------------------------------------------------------------------------
(* Properties *)

TypeOK ==
  /\ cell \in [Cells -> [url : Strings, image : Urls \cup {NoImage}, spinning : BOOLEAN]]
  /\ cached \subseteq Urls /\ bad \subseteq Urls
  /\ op \in Seq([cell : Cells, url : Urls \cup {NoImage}]) /\ Len(op) <= MaxRequests
  /\ queue \in Seq(1..Len(op))
  /\ running \subseteq 1..Len(op) /\ lost \subseteq 1..Len(op) /\ early \subseteq 1..Len(op)
  /\ calls \in [Requests -> 0..2]

\* At most MaxOperation downloads run: all of them are in the queue, which is never
\* longer, whatever completed before it was queued (RSImageDownloadService.m:33-53).
DownloadsBounded == Len(queue) <= MaxOperation /\ running \subseteq ToSet(queue)

\* The handler of an operation is called when it ends and not again, except that
\* one that ended before it was queued stays there and is called once more, to say
\* that there were too many, when it is evicted (RSImageDownloadService.m:37-43, 66-78).
AnsweredOnce ==
  \A i \in 1..Len(op) :
    IF i \in running THEN calls[i] = 0
    ELSE calls[i] = 1 \/ (calls[i] = 2 /\ i \in early)

\* A reused cell never shows the image of another URL, however late that comes
\* (RSSpaceLineViewTableViewCell.m:151-165).
PictureIsOwn == \A c \in Cells : cell[c].image \in {NoImage, cell[c].url}

\* Operation i's handler would stop cell c's indicator.
WouldStop(i, c) == op[i] = [cell |-> c, url |-> cell[c].url]

\* Nothing is sure to stop the indicator of a cell whose string is no URL: the error
\* comes without one, which the string does not equal (RSSpaceLineViewTableViewCell.m:159);
\* and only an eviction does if the handler was lost (SDWebImageDownloader.m:276-297).
Stuck(c) == cell[c].url \in Malformed \/ \E i \in running \cap lost : WouldStop(i, c)

\* A cell's indicator spins only while a download runs that will stop it, unless it
\* is stuck: not after an eviction, a refusal or the end of an earlier download.
SpinnerHasCause ==
  \A c \in Cells : cell[c].spinning => Stuck(c) \/ \E i \in running \ lost : WouldStop(i, c)

\* Every indicator stops or is stuck: the downloads that would stop it end, also those
\* for which there was no place (RSSpaceLineViewTableViewCell.m:148-165).
SpinnerStops == \A c \in Cells : cell[c].spinning ~> ~cell[c].spinning \/ Stuck(c)
==============================================================================
