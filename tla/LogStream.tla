----------------------------- MODULE LogStream ------------------------------
(***************************************************************************)
(* What sf2000-logd promises about its log, without saying how: the        *)
(* records form one stream of cells numbered in the order they were        *)
(* produced; each cell waits in RAM until it is handed to the card, and    *)
(* only when more than Capacity cells wait may any be given up, the        *)
(* oldest first.                                                           *)
(***************************************************************************)
EXTENDS Naturals, FiniteSets

CONSTANT Capacity   \* cells the RAM journal holds

VARIABLES
    waiting,   \* cells in RAM only
    stored,    \* cells handed to the card's file
    shed       \* cells given up

cells == <<waiting, stored, shed>>

Init == waiting = {} /\ stored = {} /\ shed = {}

Produced == waiting \cup stored \cup shed

(* Every cell of A is older than every cell of B.                          *)
Older(A, B) == \A a \in A, b \in B : a < b

(* One step of the logger may drain the oldest waiting cells to the card   *)
(* (a write may fail half-way), append new cells behind everything         *)
(* produced so far, and shed the oldest of those that no longer fit.       *)
Step ==
    /\ stored \subseteq stored' /\ shed \subseteq shed'
    /\ Produced \subseteq Produced'
    /\ Older(Produced, Produced' \ Produced)
    /\ Older(stored' \ stored, waiting')
    /\ Older(shed' \ shed, waiting')
    /\ waiting' \cap (stored' \cup shed') = {} /\ stored' \cap shed' = {}
    /\ shed' # shed => Cardinality(Produced' \ (stored \cup shed')) >= Capacity
    /\ Cardinality(waiting') <= Capacity

Spec == Init /\ [][Step]_cells
=============================================================================
