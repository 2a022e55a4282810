--------------------------- MODULE ReadersWriters ---------------------------
(***************************************************************************)
(* What a lock with two modes promises its users: any number read          *)
(* together, whoever writes is alone, and once somebody waits to write     *)
(* nobody else begins to read before.  How that is counted, and who sleeps *)
(* meanwhile, does not show.                                               *)
(***************************************************************************)

CONSTANT Threads

VARIABLES readers, writers, waiting   \* sets of threads

Init == readers = {} /\ writers = {} /\ waiting = {}

BeginReading(t) ==
  /\ writers = {} /\ waiting = {}
  /\ t \notin readers
  /\ readers' = readers \cup {t}
  /\ UNCHANGED <<writers, waiting>>

EndReading(t) ==
  /\ t \in readers
  /\ readers' = readers \ {t}
  /\ UNCHANGED <<writers, waiting>>

\* Only who is kept out waits.
Wait(t) ==
  /\ readers \cup writers # {}
  /\ t \notin readers \cup waiting
  /\ waiting' = waiting \cup {t}
  /\ UNCHANGED <<readers, writers>>

BeginWriting(t) ==
  /\ readers = {} /\ writers = {}
  /\ writers' = {t}
  /\ waiting' = waiting \ {t}
  /\ UNCHANGED readers

EndWriting(t) ==
  /\ writers = {t}
  /\ writers' = {}
  /\ UNCHANGED <<readers, waiting>>

Next ==
  \E t \in Threads :
    BeginReading(t) \/ EndReading(t) \/ Wait(t) \/ BeginWriting(t) \/ EndWriting(t)

Spec == Init /\ [][Next]_<<readers, writers, waiting>>
==============================================================================
