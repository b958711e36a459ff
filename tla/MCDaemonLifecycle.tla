-------------------------- MODULE MCDaemonLifecycle --------------------------
(* Instances of DaemonLifecycle for TLC.                                     *)
EXTENDS DaemonLifecycle

CONSTANTS p1, p2, p3, b1
=============================================================================
