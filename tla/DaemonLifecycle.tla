--------------------------- MODULE DaemonLifecycle ---------------------------
(***************************************************************************)
(* The life of daemon processes that share a store and a lock file: start, *)
(* serving, shutdown by signal or failure, crash and restart, with the     *)
(* builds they serve.  A process is used once; a restart is another one.   *)
(*                                                                         *)
(* server.Stop closes the listener and the connections but does not wait   *)
(* for handlers, so a Build handler that the server has already started    *)
(* may count itself in the wait group after the shutdown stopped waiting.  *)
(* The lock is flock(2) on a file: it belongs to the inode a process has   *)
(* opened, and the kernel releases it when the process ends.               *)
(***************************************************************************)
EXTENDS Naturals, FiniteSets

CONSTANTS Procs,      \* daemon processes
          Builds,     \* build requests
          NoProc

ASSUME ProcsAssumption == NoProc \notin Procs /\ IsFiniteSet(Procs)

VARIABLES
  dpc,        \* where a process is
  file,       \* inode at the path of the lock file, 0 if there is none
  inodes,     \* inodes made so far
  opened,     \* inode a process has opened
  holder,     \* who holds the flock of an inode
  bpc,        \* where the Build handler is
  server,     \* the process that serves a build
  builders,   \* builds registered in the daemon that serves them
  containers, \* builds with a container in the store
  late,       \* builds counted after their daemon stopped waiting (history)
  overlapped  \* a daemon was started while another one ran (history)

vars == <<dpc, file, inodes, opened, holder, bpc, server, builders, containers,
          late, overlapped>>
lockVars == <<file, inodes, opened, holder>>
buildVars == <<bpc, server, builders, containers, late, overlapped>>

MaxInode == Cardinality(Procs)

Init ==
  /\ dpc = [p \in Procs |-> "off"]
  /\ file = 0 /\ inodes = 0
  /\ opened = [p \in Procs |-> 0]
  /\ holder = [i \in 1..MaxInode |-> NoProc]
  /\ bpc = [b \in Builds |-> "none"]
  /\ server = [b \in Builds |-> NoProc]
  /\ builders = {}
  /\ containers = {}
  /\ late = {}
  /\ overlapped = FALSE

Ended == {"off", "exit", "refused", "panic", "dead"}
Alive(p) == dpc[p] \notin Ended
Served(b, p) == server[b] = p
InHandler == {"accepted", "counted", "registered", "container", "cleaned"}
Counted == InHandler \ {"accepted"}
Waiting(p) == dpc[p] \in {"serve", "wait"}

\* The process is gone, and with it its handlers and its flock.
Gone(p, how) ==
  /\ dpc' = [dpc EXCEPT ![p] = how]
  /\ holder' = [i \in 1..MaxInode |-> IF holder[i] = p THEN NoProc ELSE holder[i]]
  /\ bpc' = [b \in Builds |-> IF Served(b, p) /\ bpc[b] \in InHandler THEN "killed" ELSE bpc[b]]
  /\ builders' = {b \in builders : ~Served(b, p)}

-----------------------------------------------------------------------------
(* Start.                                                                  *)

Start(p) ==
  /\ dpc[p] = "off"
  /\ dpc' = [dpc EXCEPT ![p] = "clean"]
  /\ overlapped' = (overlapped \/ \E q \in Procs : Alive(q))
  /\ UNCHANGED <<lockVars, bpc, server, builders, containers, late>>

\* Every container of the store is taken to be residual.
CleanContainers(p) ==
  /\ dpc[p] = "clean"
  /\ dpc' = [dpc EXCEPT ![p] = "open"]
  /\ containers' = {}
  /\ UNCHANGED <<lockVars, bpc, server, builders, late, overlapped>>

\* SetDaemonLock opens the lock file, or makes it ...
LockOpen(p) ==
  /\ dpc[p] = "open"
  /\ dpc' = [dpc EXCEPT ![p] = "flock"]
  /\ IF file = 0 THEN file' = inodes + 1 /\ inodes' = inodes + 1 ELSE UNCHANGED <<file, inodes>>
  /\ opened' = [opened EXCEPT ![p] = file']
  /\ UNCHANGED <<holder, buildVars>>

\* Mutant of TryLock: the lock is shared.
TryLockShared(p) ==
  /\ dpc[p] = "flock"
  /\ dpc' = [dpc EXCEPT ![p] = "new"]
  /\ holder' = [holder EXCEPT ![opened[p]] = p]
  /\ UNCHANGED <<file, inodes, opened, buildVars>>

\* ... and tries to lock it; whoever fails gives up.
TryLock(p) ==
  /\ dpc[p] = "flock"
  /\ IF holder[opened[p]] = NoProc
     THEN /\ dpc' = [dpc EXCEPT ![p] = "new"]
          /\ holder' = [holder EXCEPT ![opened[p]] = p]
          /\ UNCHANGED buildVars
     ELSE Gone(p, "refused") /\ UNCHANGED <<server, containers, late, overlapped>>
  /\ UNCHANGED <<file, inodes, opened>>

\* NewDaemon and Run up to the server: each may fail, and only the former skips Cleanup.
NewDaemon(p) ==
  /\ dpc[p] = "new"
  /\ \E next \in {"serve", "deleteAll", "unlock"} : dpc' = [dpc EXCEPT ![p] = next]
  /\ UNCHANGED <<lockVars, buildVars>>

-----------------------------------------------------------------------------
(* Builds.                                                                 *)

\* The server starts a handler.
Accept(b, p) ==
  /\ dpc[p] = "serve"
  /\ bpc[b] = "none"
  /\ bpc' = [bpc EXCEPT ![b] = "accepted"]
  /\ server' = [server EXCEPT ![b] = p]
  /\ UNCHANGED <<dpc, lockVars, builders, containers, late, overlapped>>

\* wg.Add(1)
Count(b) ==
  /\ bpc[b] = "accepted"
  /\ bpc' = [bpc EXCEPT ![b] = "counted"]
  /\ late' = IF Waiting(server[b]) THEN late ELSE late \cup {b}
  /\ UNCHANGED <<dpc, lockVars, server, builders, containers, overlapped>>

\* Mutant of NewBuilder: a failure is tried again.
NewBuilderRetries(b) ==
  /\ bpc[b] = "counted"
  /\ \/ /\ bpc' = [bpc EXCEPT ![b] = "registered"]
        /\ builders' = builders \cup {b}
     \/ /\ bpc' = [bpc EXCEPT ![b] = "accepted"]
        /\ UNCHANGED builders
  /\ UNCHANGED <<dpc, lockVars, server, containers, late, overlapped>>

\* NewBuilder registers the build, or the handler returns its error.
NewBuilder(b) ==
  /\ bpc[b] = "counted"
  /\ \/ /\ bpc' = [bpc EXCEPT ![b] = "registered"]
        /\ builders' = builders \cup {b}
     \/ /\ bpc' = [bpc EXCEPT ![b] = "done"]
        /\ UNCHANGED builders
  /\ UNCHANGED <<dpc, lockVars, server, containers, late, overlapped>>

\* A stage of the build gets its container.
MakeContainer(b) ==
  /\ bpc[b] = "registered"
  /\ bpc' = [bpc EXCEPT ![b] = "container"]
  /\ containers' = containers \cup {b}
  /\ UNCHANGED <<dpc, lockVars, server, builders, late, overlapped>>

\* The build ends, well or not; its cleanup deletes the containers of its stages.
CleanupBuild(b) ==
  /\ bpc[b] \in {"registered", "container"}
  /\ bpc' = [bpc EXCEPT ![b] = "cleaned"]
  /\ containers' = containers \ {b}
  /\ UNCHANGED <<dpc, lockVars, server, builders, late, overlapped>>

\* deleteBuilder asks the builder it looks up for its entity: without one the handler,
\* and so the process, panics.
DeleteBuilder(b) ==
  /\ bpc[b] = "cleaned"
  /\ IF b \in builders
     THEN /\ bpc' = [bpc EXCEPT ![b] = "done"]
          /\ builders' = builders \ {b}
          /\ UNCHANGED <<dpc, holder>>
     ELSE Gone(server[b], "panic")
  /\ UNCHANGED <<file, inodes, opened, server, containers, late, overlapped>>

HandlerStep(b) ==
  Count(b) \/ NewBuilder(b) \/ MakeContainer(b) \/ CleanupBuild(b) \/ DeleteBuilder(b)

-----------------------------------------------------------------------------
(* Shutdown and crash.                                                     *)

\* Mutant of Stop: the containers are cleaned when the signal comes.
StopCleans(p) ==
  /\ dpc[p] = "serve"
  /\ dpc' = [dpc EXCEPT ![p] = "wait"]
  /\ containers' = {}
  /\ UNCHANGED <<lockVars, bpc, server, builders, late, overlapped>>

\* A signal, or the failure of the server: no call is accepted any more.
Stop(p) ==
  /\ dpc[p] = "serve"
  /\ dpc' = [dpc EXCEPT ![p] = "wait"]
  /\ UNCHANGED <<lockVars, buildVars>>

\* Mutant of WgWait: the shutdown does not wait for the builds.
WgWaitNot(p) ==
  /\ dpc[p] = "wait"
  /\ dpc' = [dpc EXCEPT ![p] = "deleteAll"]
  /\ UNCHANGED <<lockVars, buildVars>>

WgWait(p) ==
  /\ dpc[p] = "wait"
  /\ ~\E b \in Builds : Served(b, p) /\ bpc[b] \in Counted
  /\ dpc' = [dpc EXCEPT ![p] = "deleteAll"]
  /\ UNCHANGED <<lockVars, buildVars>>

\* Cleanup: deleteAllStatus and deleteAllBuilders ...
DeleteAllBuilders(p) ==
  /\ dpc[p] = "deleteAll"
  /\ dpc' = [dpc EXCEPT ![p] = "cleanAll"]
  /\ builders' = {b \in builders : ~Served(b, p)}
  /\ UNCHANGED <<lockVars, bpc, server, containers, late, overlapped>>

\* ... then CleanContainers and the shutdown of the store.
CleanAll(p) ==
  /\ dpc[p] = "cleanAll"
  /\ dpc' = [dpc EXCEPT ![p] = "unlock"]
  /\ containers' = {}
  /\ UNCHANGED <<lockVars, bpc, server, builders, late, overlapped>>

\* The deferred unlock ...
Unlock(p) ==
  /\ dpc[p] = "unlock"
  /\ dpc' = [dpc EXCEPT ![p] = "remove"]
  /\ holder' = [holder EXCEPT ![opened[p]] = NoProc]
  /\ UNCHANGED <<file, inodes, opened, buildVars>>

\* ... and removal of whatever file is at the path; then the process exits.
RemoveLockFile(p) ==
  /\ dpc[p] = "remove"
  /\ file' = 0
  /\ Gone(p, "exit")
  /\ UNCHANGED <<inodes, opened, server, containers, late, overlapped>>

Crash(p) ==
  /\ Alive(p)
  /\ Gone(p, "dead")
  /\ UNCHANGED <<file, inodes, opened, server, containers, late, overlapped>>

ProcStep(p) ==
  \/ CleanContainers(p) \/ LockOpen(p) \/ TryLock(p) \/ NewDaemon(p)
  \/ WgWait(p) \/ DeleteAllBuilders(p) \/ CleanAll(p) \/ Unlock(p) \/ RemoveLockFile(p)

Next ==
  \/ \E p \in Procs : \/ Start(p) \/ ProcStep(p) \/ Stop(p) \/ Crash(p)
                      \/ \E b \in Builds : Accept(b, p)
  \/ \E b \in Builds : HandlerStep(b)

Spec == Init /\ [][Next]_vars

\* Processes and handlers that can take a step do; nothing makes a daemon start, stop
\* or crash.
FairSpec ==
  /\ Spec
  /\ \A p \in Procs : WF_vars(ProcStep(p))
  /\ \A b \in Builds : WF_vars(HandlerStep(b))

-----------------------------------------------------------------------------
\* Types; a process that is past the lock has opened an inode.
TypeOK ==
  /\ dpc \in [Procs -> Ended \cup {"clean", "open", "flock", "new", "serve", "wait",
                                   "deleteAll", "cleanAll", "unlock", "remove"}]
  /\ inodes \in 0..MaxInode /\ file \in 0..inodes
  /\ opened \in [Procs -> 0..inodes]
  /\ holder \in [1..MaxInode -> Procs \cup {NoProc}]
  /\ bpc \in [Builds -> InHandler \cup {"none", "done", "killed"}]
  /\ server \in [Builds -> Procs \cup {NoProc}]
  /\ builders \subseteq Builds /\ containers \subseteq Builds /\ late \subseteq Builds
  /\ overlapped \in BOOLEAN
  /\ \A p \in Procs : Alive(p) /\ dpc[p] \notin {"clean", "open"} => opened[p] # 0

Locked(p) == dpc[p] \in {"new", "serve", "wait", "deleteAll", "cleanAll", "unlock"}

\* "Ensure we have only one daemon running at the same time" (cmd/daemon/main.go).
OneDaemon == \A p, q \in Procs : Locked(p) /\ Locked(q) => p = q

\* What the lock does ensure: crashes, refused starts and starts at the same time never
\* bring two daemons to run; it takes the removal of the lock file by one that exits.
OneDaemonUntilExit == (~\E r \in Procs : dpc[r] = "exit") => OneDaemon

\* CleanContainers of a start and of a shutdown removes residual containers only, never
\* the one of a build whose daemon is serving or waiting for its builds, as long as no
\* daemon is started beside a running one: the start cleans before it tries the lock
\* (cmd/daemon/main.go).
OnlyResidualCleaned ==
  \A b \in Builds :
    bpc[b] = "container" /\ Waiting(server[b]) => b \in containers \/ overlapped

\* A shutdown does no harm to a build that was counted before its wait was over: only
\* a crash ends such a build, neither the exit of the process nor the panic of a
\* handler that finds its builder deleted.
WaitedBuildsComplete ==
  [][\A b \in Builds \ late :
       bpc[b] \in Counted /\ bpc'[b] = "killed" => dpc'[server[b]] = "dead"]_vars

\* A shutdown comes to its end, with builds that end (BuildSession says when they do).
ShutdownEnds == \A p \in Procs : dpc[p] = "wait" ~> ~Alive(p)
=============================================================================
