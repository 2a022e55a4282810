------------------------------ MODULE Timeline ------------------------------
(***************************************************************************)
(* What the user may rely on in a timeline: the content of a space only    *)
(* gets newer, and a space that was read stays read until newer content    *)
(* arrives.  Which answers arrive, and in what order, does not show.       *)
(***************************************************************************)
EXTENDS Naturals

CONSTANTS Spaces

VARIABLE shown     \* [time, rev, read] of each space

Init == shown = [s \in Spaces |-> [time |-> 0, rev |-> 0, read |-> FALSE]]

\* Some spaces get newer content, which is unread.
Newer(old, new) == new.time > old.time /\ new.rev > old.rev /\ ~new.read

Advance == \A s \in Spaces : shown'[s] = shown[s] \/ Newer(shown[s], shown'[s])

MarkRead ==
  \E s \in Spaces : shown[s].time > 0 /\ shown' = [shown EXCEPT ![s].read = TRUE]

Next == DOMAIN shown' = Spaces /\ (Advance \/ MarkRead)

Spec == Init /\ [][Next]_shown
==============================================================================
