----------------------------- MODULE MCStreamOps -----------------------------
(* Instances of StreamOps for TLC: a Pull and a Save, and a writer.          *)
EXTENDS StreamOps

CONSTANTS pull, save, builder

\* Three messages fill the channel and block a worker whose reader has taken one.
MCMaxPuts == [q \in Reqs |-> IF q \in Locking THEN 3 ELSE 1]
=============================================================================
