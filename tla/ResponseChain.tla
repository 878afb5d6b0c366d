----------------------------- MODULE ResponseChain -----------------------------
(***************************************************************************)
(* What the modules of backend/main.go promise together about every alarm: *)
(* the database is told of it before anything else happens, then it is     *)
(* offered to and received by EmergencyController in the order in which    *)
(* alarms are raised, and answered when all commands it calls for have     *)
(* been processed.  On the way it may be lost, by a full channel or by the *)
(* end of the program, and a lost alarm stays lost.                        *)
(***************************************************************************)
EXTENDS Naturals, Sequences

VARIABLES
  stage,    \* how far each alarm has come; the index is the ID
  stored    \* the alarms with a row in table alarms

Stage == {"raised", "stored", "offered", "received", "answered", "lost"}

vars == <<stage, stored>>

At(s) == {a \in DOMAIN stage : stage[a] = s}

\* a is the oldest of the alarms at its stage.
Oldest(a) == \A b \in At(stage[a]) : a <= b

Init == stage = <<>> /\ stored = {}

\* AlarmRouter handles one alarm at a time.
Raise ==
  /\ At("raised") \cup At("stored") = {}
  /\ stage' = Append(stage, "raised")
  /\ UNCHANGED stored

\* The INSERT may fail; nobody is told.
Store(a) ==
  /\ stage[a] = "raised"
  /\ stage' = [stage EXCEPT ![a] = "stored"]
  /\ stored' \in {stored, stored \cup {a}}

\* A full channel holds other alarms.
Offer(a) ==
  /\ stage[a] = "stored"
  /\ \/ stage' = [stage EXCEPT ![a] = "offered"]
     \/ At("offered") # {} /\ stage' = [stage EXCEPT ![a] = "lost"]
  /\ UNCHANGED stored

\* An alarm that calls for no command is answered at once.
Receive(a) ==
  /\ stage[a] = "offered" /\ Oldest(a)
  /\ stage' \in {[stage EXCEPT ![a] = s] : s \in {"received", "answered"}}
  /\ UNCHANGED stored

Answer(a) ==
  /\ stage[a] = "received" /\ Oldest(a)
  /\ stage' = [stage EXCEPT ![a] = "answered"]
  /\ UNCHANGED stored

\* The program ends and starts again.
Restart ==
  /\ stage' = [a \in DOMAIN stage |-> IF stage[a] = "answered" THEN "answered" ELSE "lost"]
  /\ UNCHANGED stored

Next ==
  \/ Raise \/ Restart
  \/ \E a \in DOMAIN stage : Store(a) \/ Offer(a) \/ Receive(a) \/ Answer(a)

Spec == Init /\ [][Next]_vars
===============================================================================
