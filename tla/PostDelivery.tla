---------------------------- MODULE PostDelivery ----------------------------
(***************************************************************************)
(* What the posting pipeline promises, whatever fails: the audience of a   *)
(* post is chosen once, its picture is stored at most once and only then,  *)
(* and it is published only to that audience, only when the picture is     *)
(* stored, and for good.  Retries and duplicates of a request do not show. *)
(***************************************************************************)
CONSTANTS Posts, Spaces, Friends, Feed

VARIABLES chosen, stored, published

pvars == <<chosen, stored, published>>

Choices == {{Feed}} \cup ((SUBSET (Spaces \cup {Friends})) \ {{}})

Init ==
  /\ chosen = [p \in Posts |-> {}]
  /\ stored = {}
  /\ published = {}

Choose(p, a) ==
  /\ chosen[p] = {}
  /\ chosen' = [chosen EXCEPT ![p] = a]
  /\ UNCHANGED <<stored, published>>

Store(p) ==
  /\ chosen[p] # {}
  /\ p \notin stored
  /\ stored' = stored \cup {p}
  /\ UNCHANGED <<chosen, published>>

Publish(p, d) ==
  /\ p \in stored
  /\ d \in chosen[p]
  /\ <<p, d>> \notin published
  /\ published' = published \cup {<<p, d>>}
  /\ UNCHANGED <<chosen, stored>>

Next ==
  \E p \in Posts :
    \/ \E a \in Choices : Choose(p, a)
    \/ Store(p)
    \/ \E d \in chosen[p] : Publish(p, d)

Spec == Init /\ [][Next]_pvars
==============================================================================
