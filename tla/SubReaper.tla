------------------------------ MODULE SubReaper ------------------------------
(***************************************************************************)
(* The daemon is a subreaper, and a task of its garbage collector waits    *)
(* for any child that ended (registerSubReaper, daemon/daemon.go).  The    *)
(* same children are waited for by RUN instructions (Runner) and by Pull,  *)
(* Load and Import, which unpack layers in child processes.  This module   *)
(* composes the task, the daemon's lock, the registry of builds and these  *)
(* waiters.  Builds are named after their RUN instruction.                 *)
(*                                                                         *)
(* The daemon's lock is a sync.RWMutex: a writer waits for the readers to  *)
(* leave, and no reader enters while a writer waits.  The sections of the  *)
(* writers are single steps.                                               *)
(***************************************************************************)
EXTENDS Runner

CONSTANTS Ops,     \* Pull, Load and Import requests
          Reaper   \* the subreaper task, as a writer of the lock

ASSUME ActorsAssumption == Reaper \notin Runs

VARIABLES
  builders,  \* daemon.builders
  breg,      \* where the Build handler of a build is
  readers,   \* requests that hold the lock for reading
  writers,   \* the task and builds that wait for the lock for writing
  opc,       \* where a Pull, Load or Import request is
  child,     \* the child process of a request
  ores       \* what the request concluded from its child

daemonVars == <<builders, breg, readers, writers, opc, child, ores>>
vars == <<ctxDone, rpc, ret, apc, bpc, wstatus, wErr, runc, container, exit, killed, known, pidFile,
          builders, breg, readers, writers, opc, child, ores>>

Init ==
  /\ RunInit
  /\ builders = {}
  /\ breg = [b \in Runs |-> "idle"]
  /\ readers = {}
  /\ writers = {}
  /\ opc = [o \in Ops |-> "idle"]
  /\ child = [o \in Ops |-> "none"]
  /\ ores = [o \in Ops |-> "none"]

-----------------------------------------------------------------------------
(* The daemon's lock.                                                      *)

CanRLock == writers = {}
CanLock(w) == w \in writers /\ readers = {}

-----------------------------------------------------------------------------
(* A build: registered before its RUN instruction, deleted after it.       *)

\* NewBuilder asks for the lock.
NewBuilderLock(b) ==
  /\ breg[b] = "idle"
  /\ breg' = [breg EXCEPT ![b] = "new"]
  /\ writers' = writers \cup {b}
  /\ UNCHANGED <<runVars, builders, readers, opc, child, ores>>

NewBuilder(b) ==
  /\ breg[b] = "new"
  /\ CanLock(b)
  /\ builders' = builders \cup {b}
  /\ breg' = [breg EXCEPT ![b] = "run"]
  /\ writers' = writers \ {b}
  /\ UNCHANGED <<runVars, readers, opc, child, ores>>

\* Mutant of DeleteBuilderLock: the build is deleted while its RUN instruction runs.
DeleteBuilderEarly(b) ==
  /\ breg[b] = "run"
  /\ breg' = [breg EXCEPT ![b] = "delete"]
  /\ writers' = writers \cup {b}
  /\ UNCHANGED <<runVars, builders, readers, opc, child, ores>>

\* deleteBuilder asks for the lock when the build is over.
DeleteBuilderLock(b) ==
  /\ breg[b] = "run"
  /\ Returned(b)
  /\ breg' = [breg EXCEPT ![b] = "delete"]
  /\ writers' = writers \cup {b}
  /\ UNCHANGED <<runVars, builders, readers, opc, child, ores>>

\* Mutant of DeleteBuilder: the entry of the builders map is kept.
DeleteBuilderKeeps(b) ==
  /\ breg[b] = "delete"
  /\ CanLock(b)
  /\ breg' = [breg EXCEPT ![b] = "done"]
  /\ writers' = writers \ {b}
  /\ UNCHANGED <<runVars, builders, readers, opc, child, ores>>

DeleteBuilder(b) ==
  /\ breg[b] = "delete"
  /\ CanLock(b)
  /\ builders' = builders \ {b}
  /\ breg' = [breg EXCEPT ![b] = "done"]
  /\ writers' = writers \ {b}
  /\ UNCHANGED <<runVars, readers, opc, child, ores>>

\* The RUN instruction of a build starts while the build is registered.
BuildRun(b) ==
  /\ breg[b] = "run"
  /\ RunStart(b)
  /\ UNCHANGED daemonVars

BuildStep(b) ==
  /\ ContextDone(b) \/ RunStep(b)
  /\ UNCHANGED daemonVars

-----------------------------------------------------------------------------
(* A Pull, Load or Import request.                                         *)

OpLock(o) ==
  /\ opc[o] = "idle"
  /\ CanRLock
  /\ opc' = [opc EXCEPT ![o] = "locked"]
  /\ readers' = readers \cup {o}
  /\ UNCHANGED <<runVars, builders, breg, writers, child, ores>>

\* Unpacking a layer starts a process.
OpUnpack(o) ==
  /\ opc[o] = "locked"
  /\ child[o] = "none"
  /\ child' = [child EXCEPT ![o] = "running"]
  /\ opc' = [opc EXCEPT ![o] = "wait"]
  /\ UNCHANGED <<runVars, builders, breg, readers, writers, ores>>

ChildExit(o) ==
  /\ child[o] = "running"
  /\ child' = [child EXCEPT ![o] = "zombie"]
  /\ UNCHANGED <<runVars, builders, breg, readers, writers, opc, ores>>

\* Without the status of the process the unpacking has failed.
OpWait(o) ==
  /\ opc[o] = "wait"
  /\ child[o] \in {"zombie", "stolen"}
  /\ ores' = [ores EXCEPT ![o] = IF child[o] = "zombie" THEN "ok" ELSE "err"]
  /\ child' = [child EXCEPT ![o] = IF @ = "zombie" THEN "reaped" ELSE @]
  /\ opc' = [opc EXCEPT ![o] = "unlock"]
  /\ UNCHANGED <<runVars, builders, breg, readers, writers>>

\* The deferred RUnlock, at the end of the request.
OpUnlock(o) ==
  /\ opc[o] \in {"locked", "unlock"}
  /\ opc' = [opc EXCEPT ![o] = "done"]
  /\ readers' = readers \ {o}
  /\ UNCHANGED <<runVars, builders, breg, writers, child, ores>>

-----------------------------------------------------------------------------
(* The task of the subreaper.                                              *)

\* The garbage collector starts the task when it is due and not being executed.
ReaperLock ==
  /\ Reaper \notin writers
  /\ writers' = writers \cup {Reaper}
  /\ UNCHANGED <<runVars, builders, breg, readers, opc, child, ores>>

\* "if any of image build process is running, skip reap"
ReaperSkip ==
  /\ CanLock(Reaper)
  /\ builders # {}
  /\ writers' = writers \ {Reaper}
  /\ UNCHANGED <<runVars, builders, breg, readers, opc, child, ores>>

\* reaper.Reap: wait4(-1) for every child that has ended.
ReapChildren ==
  /\ runc' = [r \in Runs |-> IF runc[r] \in {"ok", "bad"} THEN "stolen" ELSE runc[r]]
  /\ container' = [r \in Runs |->
       IF container[r] \in {"zero", "nonzero"} /\ runc[r] # "running" THEN "stolen" ELSE container[r]]
  /\ child' = [o \in Ops |-> IF child[o] = "zombie" THEN "stolen" ELSE child[o]]

\* Mutant of Reap: the task takes the lock for reading.
ReapShared ==
  /\ Reaper \in writers
  /\ builders = {}
  /\ ReapChildren
  /\ writers' = writers \ {Reaper}
  /\ UNCHANGED <<ctxDone, mainVars, waitVars, exit, killed, known, pidFile,
                 builders, breg, readers, opc, ores>>

Reap ==
  /\ CanLock(Reaper)
  /\ builders = {}
  /\ ReapChildren
  /\ writers' = writers \ {Reaper}
  /\ UNCHANGED <<ctxDone, mainVars, waitVars, exit, killed, known, pidFile,
                 builders, breg, readers, opc, ores>>

ReaperStep == ReaperLock \/ ReaperSkip \/ Reap
BuilderStep(b) == NewBuilder(b) \/ BuildRun(b) \/ DeleteBuilderLock(b) \/ DeleteBuilder(b)
OpStep(o) == OpUnpack(o) \/ OpWait(o) \/ OpUnlock(o)

Next ==
  \/ ReaperStep
  \/ \E b \in Runs : NewBuilderLock(b) \/ BuilderStep(b) \/ BuildStep(b)
  \/ \E o \in Ops : OpLock(o) \/ OpStep(o) \/ ChildExit(o)

Spec == Init /\ [][Next]_vars

\* The garbage collector executes the task again and again; handlers go on; child
\* processes end.  Nothing makes a container end.
FairSpec ==
  /\ Spec
  /\ WF_vars(ReaperStep)
  /\ RunFairness
  /\ \A b \in Runs : WF_vars(BuilderStep(b))
  /\ \A o \in Ops : WF_vars(OpStep(o)) /\ WF_vars(ChildExit(o))

-----------------------------------------------------------------------------
\* Types.
TypeOK ==
  /\ RunTypeOK
  /\ builders \subseteq Runs
  /\ breg \in [Runs -> {"idle", "new", "run", "delete", "done"}]
  /\ readers \subseteq Ops
  /\ writers \subseteq Runs \cup {Reaper}
  /\ opc \in [Ops -> {"idle", "locked", "wait", "unlock", "done"}]
  /\ child \in [Ops -> {"none", "running", "zombie", "reaped", "stolen"}]
  /\ ores \in [Ops -> {"none", "ok", "err"}]

\* The subreaper never takes the exit status of a process that a RUN instruction in
\* progress or a Pull, Load or Import request waits for: only what a cancelled or
\* timed out RUN instruction has left (childProcessReap, daemon/daemon.go).
NoStolenStatus ==
  /\ \A r \in Runs : "stolen" \in {runc[r], container[r]} => Returned(r)
  /\ \A o \in Ops : child[o] # "stolen"

\* A container's process does not stay a zombie for ever, whoever waits for it: what
\* RUN instructions leave behind is reaped when no build is running any more.
ZombiesReaped == \A r \in Runs : []<>(container[r] \notin {"zero", "nonzero"})
=============================================================================
