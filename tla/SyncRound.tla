------------------------------ MODULE SyncRound ------------------------------
(***************************************************************************)
(* What a synchronization of the storage node promises: a round begins     *)
(* with the objects that are missing, ends only when each of them has been *)
(* dealt with, and does end, however many workers share the tasks.         *)
(***************************************************************************)
CONSTANT Objects

VARIABLES
    running,   \* a round is being processed
    todo       \* objects of the round not dealt with yet

vars == <<running, todo>>

Init == running = FALSE /\ todo = {}

Begin ==
    /\ ~ running
    /\ running' = TRUE
    /\ todo' \in SUBSET Objects

Finish ==
    /\ running
    /\ \E o \in todo : todo' = todo \ {o}
    /\ UNCHANGED running

End ==
    /\ running /\ todo = {}
    /\ running' = FALSE
    /\ UNCHANGED todo

(* The process stops: the round is forgotten. *)
Abandon ==
    /\ running' = FALSE
    /\ todo' = {}

Next == Begin \/ Finish \/ End \/ Abandon

Spec == Init /\ [][Next]_vars /\ WF_vars(Finish \/ End)
=============================================================================
