------------------------- MODULE MCGarbageCollector -------------------------
(* Instances of GarbageCollector for TLC: a once-only node, a periodic node  *)
(* with the same name, and a periodic node with a name of its own.           *)
EXTENDS GarbageCollector

CONSTANTS once, again, loop

SharedName == [n \in Nodes |-> IF n = loop THEN "loop" ELSE "once"]
Intervals == [n \in Nodes |-> IF n = loop THEN 2 ELSE 1]
=============================================================================
