--------------------------- MODULE MCDatabaseService ---------------------------
(* Two single points and a batch of two. *)
EXTENDS DatabaseService

CONSTANTS w1, w2, w3

MCPoint == 1..4
MCPointsOf == [w \in Writer |-> CASE w = w1 -> {1} [] w = w2 -> {2} [] w = w3 -> {3, 4}]
===============================================================================
