----------------------------- MODULE MCLeakLocator -----------------------------
(* Low and high readings; positions within and beyond the merge distance. *)
EXTENDS LeakLocator

CONSTANTS d1, d2
===============================================================================
