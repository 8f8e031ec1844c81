------------------------------- MODULE Floor -------------------------------
(***************************************************************************)
(* What a smart group promises its listeners: one talker at a time.  The   *)
(* floor is taken only when nobody has it, it never passes from one talker *)
(* straight to another, and those who hear a talk are fixed when it starts *)
(* and nobody hears anything once it is over.                              *)
(***************************************************************************)
CONSTANTS
    Talkers,    \* stream ids
    Nobody,     \* the id of an idle group
    Listeners   \* repeaters

VARIABLES talker, audience

Init == talker = Nobody /\ audience = {}

Take(i) ==
    /\ talker = Nobody
    /\ talker' = i
    /\ audience' \in SUBSET Listeners

Release ==
    /\ talker # Nobody
    /\ talker' = Nobody
    /\ audience' = {}

Next == (\E i \in Talkers : Take(i)) \/ Release

Spec == Init /\ [][Next]_<<talker, audience>>
=============================================================================
