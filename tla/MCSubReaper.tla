----------------------------- MODULE MCSubReaper -----------------------------
(* Instances of SubReaper for TLC.  RUN instructions share nothing in the    *)
(* runner, and builds meet only at the lock.                                 *)
EXTENDS SubReaper

CONSTANTS r1, o1
=============================================================================
