---------------------------- MODULE BuildService ----------------------------
(***************************************************************************)
(* What the build service promises, without channels, RPCs or handlers.    *)
(* A build is refused or it starts; while it is on building it is the only *)
(* one of its entity; it emits a log, closes it and ends.  Its command     *)
(* shows the log in order, and takes it to be complete only if it is.      *)
(***************************************************************************)
EXTENDS Naturals

CONSTANTS Builds, Entities, EntityOf, NoBuild

VARIABLES phase,    \* "idle", "running", "closing" (the log is closed) or "ended"
          holder,   \* the build of an entity that is on building
          log,      \* messages emitted
          shown,    \* messages shown by the command
          complete  \* the command has seen the end of the log

vars == <<phase, holder, log, shown, complete>>

Init ==
  /\ phase = [b \in Builds |-> "idle"]
  /\ holder = [e \in Entities |-> NoBuild]
  /\ log = [b \in Builds |-> 0]
  /\ shown = [b \in Builds |-> 0]
  /\ complete = [b \in Builds |-> FALSE]

Step(b, from, to) ==
  /\ phase[b] = from
  /\ phase' = [phase EXCEPT ![b] = to]

Refuse(b) ==
  /\ Step(b, "idle", "ended")
  /\ UNCHANGED <<holder, log, shown, complete>>

Start(b) ==
  /\ holder[EntityOf[b]] = NoBuild
  /\ Step(b, "idle", "running")
  /\ holder' = [holder EXCEPT ![EntityOf[b]] = b]
  /\ UNCHANGED <<log, shown, complete>>

Emit(b) ==
  /\ phase[b] = "running"
  /\ log' = [log EXCEPT ![b] = @ + 1]
  /\ UNCHANGED <<phase, holder, shown, complete>>

CloseLog(b) ==
  /\ Step(b, "running", "closing")
  /\ UNCHANGED <<holder, log, shown, complete>>

Finish(b) ==
  /\ Step(b, "closing", "ended")
  /\ holder' = [holder EXCEPT ![EntityOf[b]] = NoBuild]
  /\ UNCHANGED <<log, shown, complete>>

Show(b) ==
  /\ shown[b] < log[b]
  /\ ~complete[b]
  /\ shown' = [shown EXCEPT ![b] = @ + 1]
  /\ UNCHANGED <<phase, holder, log, complete>>

SeeEnd(b) ==
  /\ phase[b] \in {"closing", "ended"}
  /\ shown[b] = log[b]
  /\ complete' = [complete EXCEPT ![b] = TRUE]
  /\ UNCHANGED <<phase, holder, log, shown>>

Next ==
  \E b \in Builds :
    \/ Refuse(b) \/ Start(b) \/ Emit(b) \/ CloseLog(b) \/ Finish(b) \/ Show(b) \/ SeeEnd(b)

Spec == Init /\ [][Next]_vars
=============================================================================
