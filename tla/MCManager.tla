----------------------------- MODULE MCManager -----------------------------
(* Manager for TLC: an app of two instances and an app of one.             *)
EXTENDS Manager
CONSTANTS a, b
MCSlots == [n \in Names |-> IF n = a THEN 2 ELSE 1]
=============================================================================
