---------------------------- MODULE RecycleTasks ----------------------------
(***************************************************************************)
(* What the garbage collector of pkg/gc promises about the functions that  *)
(* are registered with it: a function never overlaps itself, and one that  *)
(* is registered as once-only is never started again after it succeeded.   *)
(***************************************************************************)
CONSTANTS Nodes,      \* registered functions
          OnceNodes   \* those registered with Once

VARIABLES running,    \* the functions being executed
          success     \* the functions that returned without error

Init == running = {} /\ success = {}

Start(n) ==
  /\ n \notin running
  /\ ~(n \in OnceNodes /\ n \in success)
  /\ running' = running \cup {n}
  /\ UNCHANGED success

End(n) ==
  /\ n \in running
  /\ running' = running \ {n}
  /\ success' \in {success, success \cup {n}}

Next == \E n \in Nodes : Start(n) \/ End(n)

Spec == Init /\ [][Next]_<<running, success>>
=============================================================================
