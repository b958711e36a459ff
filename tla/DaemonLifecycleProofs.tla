------------------------ MODULE DaemonLifecycleProofs ------------------------
(* Safety of DaemonLifecycle, for any number of processes and builds.        *)
EXTENDS DaemonLifecycle, FiniteSetTheorems, TLAPS

Places == Ended \cup {"clean", "open", "flock", "new", "serve", "wait",
                     "deleteAll", "cleanAll", "unlock", "remove"}

\* TypeOK without the bound on the number of inodes.
Types ==
  /\ dpc \in [Procs -> Places]
  /\ inodes \in Nat /\ file \in 0..inodes
  /\ opened \in [Procs -> Nat]
  /\ holder \in [1..MaxInode -> Procs \cup {NoProc}]
  /\ bpc \in [Builds -> InHandler \cup {"none", "done", "killed"}]
  /\ server \in [Builds -> Procs \cup {NoProc}]
  /\ builders \subseteq Builds /\ containers \subseteq Builds /\ late \subseteq Builds
  /\ overlapped \in BOOLEAN

\* A handler runs in a daemon that has served, and is late exactly if it was counted
\* when the daemon no longer waited; a build that is not late finds its builder.
ServedOf(b) ==
  /\ bpc[b] \in InHandler =>
       /\ server[b] \in Procs
       /\ dpc[server[b]] \in {"serve", "wait", "deleteAll", "cleanAll", "unlock", "remove"}
  /\ bpc[b] \in {"none", "accepted"} => b \notin late
  /\ bpc[b] \in Counted => (b \in late <=> ~Waiting(server[b]))
  /\ bpc[b] \in {"registered", "container", "cleaned"} /\ b \notin late => b \in builders

ContainerOf(b) == bpc[b] = "container" /\ Waiting(server[b]) => b \in containers \/ overlapped

Alone == ~overlapped => \A p, q \in Procs : Alive(p) /\ Alive(q) => p = q

NoExit == \A r \in Procs : dpc[r] # "exit"

\* Until a daemon exits there is one inode, which the only running daemon holds.
LockInv ==
  NoExit =>
    /\ file = inodes /\ inodes \in {0, 1}
    /\ \A p \in Procs : dpc[p] = "flock" \/ Locked(p) => opened[p] = 1
    /\ \A p \in Procs : Locked(p) => holder[1] = p

IInv ==
  /\ Types
  /\ \A b \in Builds : ServedOf(b) /\ ContainerOf(b)
  /\ Alone
  /\ LockInv

\* There is an inode for every process.
LEMMA OneInode ==
  ASSUME NEW p \in Procs
  PROVE  1 \in 1..MaxInode
<1>1. Procs # {} /\ IsFiniteSet(Procs)
  BY ProcsAssumption
<1>2. Cardinality(Procs) \in Nat /\ Cardinality(Procs) # 0
  BY <1>1, FS_CardinalityType, FS_EmptySet
<1> QED
  BY <1>2 DEF MaxInode

\* No process runs at the start.
LEMMA InitInv == Init => IInv
<1> SUFFICES ASSUME Init PROVE IInv
  OBVIOUS
<1>1. Types
  <2>1. inodes \in Nat /\ file \in 0..inodes /\ opened \in [Procs -> Nat]
    BY DEF Init
  <2>2. holder \in [1..MaxInode -> Procs \cup {NoProc}] /\ server \in [Builds -> Procs \cup {NoProc}]
    BY DEF Init
  <2>3. dpc \in [Procs -> Places] /\ bpc \in [Builds -> InHandler \cup {"none", "done", "killed"}]
    BY DEF Init, Places, Ended
  <2> QED
    BY <2>1, <2>2, <2>3 DEF Init, Types
<1>2. \A b \in Builds : ServedOf(b) /\ ContainerOf(b)
  BY DEF Init, ServedOf, ContainerOf, InHandler, Counted
<1>3. Alone
  BY DEF Init, Alone, Alive, Ended
<1>4. LockInv
  BY DEF Init, LockInv, Locked
<1> QED
  BY <1>1, <1>2, <1>3, <1>4 DEF IInv

\* A process that ends without removing the lock file leaves the lock to nobody or to
\* whoever holds it.
LEMMA GoneKeepsLock ==
  ASSUME IInv, NEW p \in Procs, NEW how \in {"refused", "panic", "dead"}, dpc[p] # "exit",
         Gone(p, how), UNCHANGED <<file, inodes, opened>>
  PROVE  LockInv'
<1>1. NoExit' => NoExit
  BY DEF Gone, NoExit, IInv, Types
<1>2. \A q \in Procs : dpc'[q] = IF q = p THEN how ELSE dpc[q]
  BY DEF Gone, IInv, Types
<1>3. \A q \in Procs : q # p /\ holder[1] = q => holder'[1] = q
  BY OneInode DEF Gone, IInv, Types
<1> QED
  BY <1>1, <1>2, <1>3 DEF IInv, LockInv, Locked

\* Start and serving: containers are cleaned, the lock is tried, the daemon is made.
LEMMA StartKeeps ==
  ASSUME IInv, NEW p \in Procs, Start(p) \/ CleanContainers(p) \/ LockOpen(p) \/ TryLock(p) \/ NewDaemon(p)
  PROVE  IInv'
<1> USE ProcsAssumption
    DEF IInv, Types, ServedOf, lockVars, buildVars, Served, Waiting, InHandler, Counted, Ended, Alive
<1>1. CASE Start(p)
  <2>1. Types'
    BY <1>1 DEF Start, Places
  <2>2. \A c \in Builds : ServedOf(c)'
    BY <1>1 DEF Start
  <2>3. \A c \in Builds : ContainerOf(c)'
    BY <1>1 DEF Start, ContainerOf, Alone
  <2>4. Alone'
    <3>1. (overlapped' = FALSE) => \A q \in Procs : ~Alive(q)
      BY <1>1 DEF Start
    <3>2. \A q \in Procs : Alive(q)' => Alive(q) \/ q = p
      BY <1>1 DEF Start
    <3>3. overlapped' \in BOOLEAN
      BY <2>1
    <3> QED
      BY <3>1, <3>2, <3>3 DEF Alone
  <2>5. LockInv'
    BY <1>1 DEF Start, LockInv, Locked, NoExit
  <2> QED
    BY <2>1, <2>2, <2>3, <2>4, <2>5
<1>2. CASE CleanContainers(p)
  <2>1. Types'
    BY <1>2 DEF CleanContainers, Places
  <2>2. \A c \in Builds : ServedOf(c)'
    BY <1>2 DEF CleanContainers
  <2>3. \A c \in Builds : ContainerOf(c)'
    BY <1>2 DEF CleanContainers, ContainerOf, Alone
  <2>4. Alone'
    BY <1>2 DEF CleanContainers, Alone
  <2>5. LockInv'
    BY <1>2 DEF CleanContainers, LockInv, Locked, NoExit
  <2> QED
    BY <2>1, <2>2, <2>3, <2>4, <2>5
<1>3. CASE LockOpen(p)
  <2>1. Types'
    BY <1>3 DEF LockOpen, Places
  <2>2. \A c \in Builds : ServedOf(c)'
    BY <1>3 DEF LockOpen
  <2>3. \A c \in Builds : ContainerOf(c)'
    BY <1>3 DEF LockOpen, ContainerOf, Alone
  <2>4. Alone'
    BY <1>3 DEF LockOpen, Alone
  <2>5. LockInv'
    BY <1>3 DEF LockOpen, LockInv, Locked, NoExit
  <2> QED
    BY <2>1, <2>2, <2>3, <2>4, <2>5
<1>4. CASE TryLock(p)
  <2>1. Types'
    BY <1>4 DEF TryLock, Gone, Places
  <2>2. \A c \in Builds : ServedOf(c)'
    BY <1>4 DEF TryLock, Gone
  <2>3. \A c \in Builds : ContainerOf(c)'
    BY <1>4 DEF TryLock, Gone, ContainerOf, Alone
  <2>4. Alone'
    <3>1. \A q \in Procs : Alive(q)' => Alive(q)
      BY <1>4 DEF TryLock, Gone
    <3>2. UNCHANGED overlapped
      BY <1>4 DEF TryLock
    <3> QED
      BY <3>1, <3>2 DEF Alone
  <2>5. LockInv'
    <3>1. CASE holder[opened[p]] = NoProc
      <4> SUFFICES ASSUME NoExit' PROVE LockInv'
        BY  DEF LockInv
      <4>1. dpc[p] = "flock" /\ dpc' = [dpc EXCEPT ![p] = "new"] /\ UNCHANGED <<file, inodes, opened>>
            /\ holder' = [holder EXCEPT ![opened[p]] = p]
        BY <1>4, <3>1 DEF TryLock
      <4>2. NoExit
        BY <4>1 DEF NoExit
      <4>3. opened[p] = 1 /\ holder[1] = NoProc
        BY <3>1, <4>1, <4>2 DEF LockInv
      <4>4. \A q \in Procs : ~Locked(q)
        BY <4>2, <4>3 DEF LockInv
      <4>5. holder'[1] = p
        BY <4>1, <4>3, OneInode
      <4>6. \A q \in Procs : q # p => dpc'[q] = dpc[q]
        BY <4>1
      <4> QED
        BY <4>1, <4>2, <4>3, <4>4, <4>5, <4>6 DEF LockInv, Locked
    <3>2. CASE holder[opened[p]] # NoProc
      BY <1>4, <3>2, GoneKeepsLock DEF TryLock
    <3> QED
      BY <3>1, <3>2
  <2> QED
    BY <2>1, <2>2, <2>3, <2>4, <2>5
<1>5. CASE NewDaemon(p)
  <2>1. Types'
    BY <1>5 DEF NewDaemon, Places
  <2>2. \A c \in Builds : ServedOf(c)'
    BY <1>5 DEF NewDaemon
  <2>3. \A c \in Builds : ContainerOf(c)'
    BY <1>5 DEF NewDaemon, ContainerOf, Alone
  <2>4. Alone'
    BY <1>5 DEF NewDaemon, Alone
  <2>5. LockInv'
    BY <1>5 DEF NewDaemon, LockInv, Locked, NoExit
  <2> QED
    BY <2>1, <2>2, <2>3, <2>4, <2>5
<1> QED
  BY <1>1, <1>2, <1>3, <1>4, <1>5

\* A step of a Build handler.
LEMMA BuildKeeps ==
  ASSUME IInv, NEW b \in Builds, Count(b) \/ NewBuilder(b) \/ MakeContainer(b) \/ CleanupBuild(b) \/ DeleteBuilder(b)
  PROVE  IInv'
<1> USE ProcsAssumption
    DEF IInv, Types, ServedOf, lockVars, buildVars, Served, Waiting, InHandler, Counted, Ended, Alive
<1>1. CASE Count(b)
  <2>1. Types'
    BY <1>1 DEF Count, Places
  <2>2. \A c \in Builds : ServedOf(c)'
    BY <1>1 DEF Count
  <2>3. \A c \in Builds : ContainerOf(c)'
    BY <1>1 DEF Count, ContainerOf, Alone
  <2>4. Alone'
    BY <1>1 DEF Count, Alone
  <2>5. LockInv'
    BY <1>1 DEF Count, LockInv, Locked, NoExit
  <2> QED
    BY <2>1, <2>2, <2>3, <2>4, <2>5
<1>2. CASE NewBuilder(b)
  <2>1. Types'
    BY <1>2 DEF NewBuilder, Places
  <2>2. \A c \in Builds : ServedOf(c)'
    BY <1>2 DEF NewBuilder
  <2>3. \A c \in Builds : ContainerOf(c)'
    BY <1>2 DEF NewBuilder, ContainerOf, Alone
  <2>4. Alone'
    BY <1>2 DEF NewBuilder, Alone
  <2>5. LockInv'
    BY <1>2 DEF NewBuilder, LockInv, Locked, NoExit
  <2> QED
    BY <2>1, <2>2, <2>3, <2>4, <2>5
<1>3. CASE MakeContainer(b)
  <2>1. Types'
    BY <1>3 DEF MakeContainer, Places
  <2>2. \A c \in Builds : ServedOf(c)'
    BY <1>3 DEF MakeContainer
  <2>3. \A c \in Builds : ContainerOf(c)'
    BY <1>3 DEF MakeContainer, ContainerOf, Alone
  <2>4. Alone'
    BY <1>3 DEF MakeContainer, Alone
  <2>5. LockInv'
    BY <1>3 DEF MakeContainer, LockInv, Locked, NoExit
  <2> QED
    BY <2>1, <2>2, <2>3, <2>4, <2>5
<1>4. CASE CleanupBuild(b)
  <2>1. Types'
    BY <1>4 DEF CleanupBuild, Places
  <2>2. \A c \in Builds : ServedOf(c)'
    BY <1>4 DEF CleanupBuild
  <2>3. \A c \in Builds : ContainerOf(c)'
    BY <1>4 DEF CleanupBuild, ContainerOf, Alone
  <2>4. Alone'
    BY <1>4 DEF CleanupBuild, Alone
  <2>5. LockInv'
    BY <1>4 DEF CleanupBuild, LockInv, Locked, NoExit
  <2> QED
    BY <2>1, <2>2, <2>3, <2>4, <2>5
<1>5. CASE DeleteBuilder(b)
  <2>1. Types'
    BY <1>5 DEF DeleteBuilder, Gone, Places
  <2>2. \A c \in Builds : ServedOf(c)'
    BY <1>5 DEF DeleteBuilder, Gone
  <2>3. \A c \in Builds : ContainerOf(c)'
    BY <1>5 DEF DeleteBuilder, Gone, ContainerOf, Alone
  <2>4. Alone'
    <3>1. CASE b \in builders
      <4>1. dpc' = dpc /\ overlapped' = overlapped
        BY <1>5, <3>1 DEF DeleteBuilder
      <4> QED
        BY <4>1, Zenon DEF Alone, Alive
    <3>2. CASE b \notin builders
      <4>1. /\ overlapped' = overlapped
            /\ \A p \in Procs : dpc'[p] = dpc[p] \/ dpc'[p] = "panic"
        BY <1>5, <3>2 DEF DeleteBuilder, Gone
      <4>2. \A p \in Procs : Alive(p)' => Alive(p)
        BY <4>1 DEF Alive, Ended
      <4> QED
        BY <4>1, <4>2, Zenon DEF Alone
    <3> QED
      BY <3>1, <3>2
  <2>5. LockInv'
    <3>1. CASE b \in builders
      BY <1>5, <3>1 DEF DeleteBuilder, LockInv, Locked, NoExit
    <3>2. CASE b \notin builders
      <4>1. server[b] \in Procs /\ dpc[server[b]] # "exit"
        BY <1>5, SMTT(30) DEF DeleteBuilder
      <4> QED
        BY <1>5, <3>2, <4>1, GoneKeepsLock DEF DeleteBuilder
    <3> QED
      BY <3>1, <3>2
  <2> QED
    BY <2>1, <2>2, <2>3, <2>4, <2>5
<1> QED
  BY <1>1, <1>2, <1>3, <1>4, <1>5

\* Shutdown, from the signal to the exit, and crash.
LEMMA StopKeeps ==
  ASSUME IInv, NEW p \in Procs, Stop(p) \/ WgWait(p) \/ DeleteAllBuilders(p) \/ CleanAll(p) \/ Unlock(p) \/ RemoveLockFile(p) \/ Crash(p)
  PROVE  IInv'
<1> USE ProcsAssumption
    DEF IInv, Types, ServedOf, lockVars, buildVars, Served, Waiting, InHandler, Counted, Ended, Alive
<1>1. CASE Stop(p)
  <2>1. Types'
    BY <1>1 DEF Stop, Places
  <2>2. \A c \in Builds : ServedOf(c)'
    BY <1>1 DEF Stop
  <2>3. \A c \in Builds : ContainerOf(c)'
    BY <1>1 DEF Stop, ContainerOf, Alone
  <2>4. Alone'
    BY <1>1 DEF Stop, Alone
  <2>5. LockInv'
    BY <1>1 DEF Stop, LockInv, Locked, NoExit
  <2> QED
    BY <2>1, <2>2, <2>3, <2>4, <2>5
<1>2. CASE WgWait(p)
  <2>1. Types'
    BY <1>2 DEF WgWait, Places
  <2>2. \A c \in Builds : ServedOf(c)'
    BY <1>2 DEF WgWait
  <2>3. \A c \in Builds : ContainerOf(c)'
    BY <1>2 DEF WgWait, ContainerOf, Alone
  <2>4. Alone'
    BY <1>2 DEF WgWait, Alone
  <2>5. LockInv'
    BY <1>2 DEF WgWait, LockInv, Locked, NoExit
  <2> QED
    BY <2>1, <2>2, <2>3, <2>4, <2>5
<1>3. CASE DeleteAllBuilders(p)
  <2>1. Types'
    BY <1>3 DEF DeleteAllBuilders, Places
  <2>2. \A c \in Builds : ServedOf(c)'
    BY <1>3 DEF DeleteAllBuilders
  <2>3. \A c \in Builds : ContainerOf(c)'
    BY <1>3 DEF DeleteAllBuilders, ContainerOf, Alone
  <2>4. Alone'
    BY <1>3 DEF DeleteAllBuilders, Alone
  <2>5. LockInv'
    BY <1>3 DEF DeleteAllBuilders, LockInv, Locked, NoExit
  <2> QED
    BY <2>1, <2>2, <2>3, <2>4, <2>5
<1>4. CASE CleanAll(p)
  <2>1. Types'
    BY <1>4 DEF CleanAll, Places
  <2>2. \A c \in Builds : ServedOf(c)'
    BY <1>4 DEF CleanAll
  <2>3. \A c \in Builds : ContainerOf(c)'
    BY <1>4 DEF CleanAll, ContainerOf, Alone
  <2>4. Alone'
    BY <1>4 DEF CleanAll, Alone
  <2>5. LockInv'
    BY <1>4 DEF CleanAll, LockInv, Locked, NoExit
  <2> QED
    BY <2>1, <2>2, <2>3, <2>4, <2>5
<1>5. CASE Unlock(p)
  <2>1. Types'
    BY <1>5 DEF Unlock, Places
  <2>2. \A c \in Builds : ServedOf(c)'
    BY <1>5 DEF Unlock
  <2>3. \A c \in Builds : ContainerOf(c)'
    BY <1>5 DEF Unlock, ContainerOf, Alone
  <2>4. Alone'
    BY <1>5 DEF Unlock, Alone
  <2>5. LockInv'
    BY <1>5, OneInode DEF Unlock, LockInv, Locked, NoExit
  <2> QED
    BY <2>1, <2>2, <2>3, <2>4, <2>5
<1>6. CASE RemoveLockFile(p)
  <2>1. Types'
    BY <1>6 DEF RemoveLockFile, Gone, Places
  <2>2. \A c \in Builds : ServedOf(c)'
    BY <1>6 DEF RemoveLockFile, Gone
  <2>3. \A c \in Builds : ContainerOf(c)'
    BY <1>6 DEF RemoveLockFile, Gone, ContainerOf, Alone
  <2>4. Alone'
    BY <1>6 DEF RemoveLockFile, Gone, Alone
  <2>5. LockInv'
    BY <1>6 DEF RemoveLockFile, Gone, LockInv, Locked, NoExit
  <2> QED
    BY <2>1, <2>2, <2>3, <2>4, <2>5
<1>7. CASE Crash(p)
  <2>1. Types'
    BY <1>7 DEF Crash, Gone, Places
  <2>2. \A c \in Builds : ServedOf(c)'
    BY <1>7 DEF Crash, Gone
  <2>3. \A c \in Builds : ContainerOf(c)'
    BY <1>7 DEF Crash, Gone, ContainerOf, Alone
  <2>4. Alone'
    BY <1>7 DEF Crash, Gone, Alone
  <2>5. LockInv'
    BY <1>7, GoneKeepsLock DEF Crash
  <2> QED
    BY <2>1, <2>2, <2>3, <2>4, <2>5
<1> QED
  BY <1>1, <1>2, <1>3, <1>4, <1>5, <1>6, <1>7

\* The server starts a handler.
LEMMA AcceptKeeps ==
  ASSUME IInv, NEW b \in Builds, NEW p \in Procs, Accept(b, p)
  PROVE  IInv'
<1>1. Types' /\ Alone' /\ LockInv'
  BY DEF Accept, IInv, Types, Alone, LockInv, Locked, NoExit, InHandler, Ended, Alive, lockVars
<1>2. \A c \in Builds : ServedOf(c)' /\ ContainerOf(c)'
  BY DEF Accept, IInv, Types, ServedOf, ContainerOf, InHandler, Counted, Waiting
<1> QED
  BY <1>1, <1>2 DEF IInv

\* The invariant holds in every state of every instance.
LEMMA Invariance == Spec => []IInv
<1>1. IInv /\ [Next]_vars => IInv'
  <2> SUFFICES ASSUME IInv, [Next]_vars PROVE IInv'
    OBVIOUS
  <2>1. CASE UNCHANGED vars
    BY <2>1 DEF vars, IInv, Types, ServedOf, ContainerOf, Alone, LockInv, Locked, NoExit, Alive,
                Waiting, MaxInode
  <2> QED
    BY <2>1, StartKeeps, BuildKeeps, StopKeeps, AcceptKeeps DEF Next, ProcStep, HandlerStep
<1> QED
  BY <1>1, InitInv, PTL DEF Spec

\* Until a daemon exits and removes the lock file, no two of them run, whatever crashes
\* and however many are started at once (util.SetDaemonLock, cmd/daemon/main.go).
THEOREM LockExcludes == Spec => []OneDaemonUntilExit
<1>1. IInv => OneDaemonUntilExit
  BY DEF IInv, LockInv, NoExit, OneDaemonUntilExit, OneDaemon
<1> QED
  BY <1>1, Invariance, PTL

\* CleanContainers takes no container from a build whose daemon is serving or waiting,
\* unless a daemon was started beside a running one (cmd/daemon/main.go, store.go).
THEOREM CleansOnlyResidual == Spec => []OnlyResidualCleaned
<1>1. IInv => OnlyResidualCleaned
  BY DEF IInv, ContainerOf, OnlyResidualCleaned
<1> QED
  BY <1>1, Invariance, PTL

\* Only a crash ends a build that its daemon has counted in time (daemon.go, Cleanup).
THEOREM WaitedComplete == Spec => WaitedBuildsComplete
<1> DEFINE Safe == \A b \in Builds \ late :
              bpc[b] \in Counted /\ bpc'[b] = "killed" => dpc'[server[b]] = "dead"
<1>1. ASSUME IInv, [Next]_vars
      PROVE  Safe
  <2> SUFFICES ASSUME NEW c \in Builds \ late, bpc[c] \in Counted, bpc'[c] = "killed"
               PROVE  dpc'[server[c]] = "dead"
    OBVIOUS
  <2> USE <1>1 DEF IInv, Types, ServedOf, Waiting, Served, InHandler, Counted
  <2>1. CASE UNCHANGED vars
    BY <2>1, SMTT(30) DEF vars
  <2>2. ASSUME NEW p \in Procs, Start(p) \/ ProcStep(p) \/ Stop(p) \/ Crash(p)
        PROVE  dpc'[server[c]] = "dead"
    <3>1. CASE TryLock(p)
      BY <3>1 DEF TryLock, Gone, buildVars
    <3>2. CASE RemoveLockFile(p)
      BY <3>2, SMTT(30) DEF RemoveLockFile, Gone
    <3>3. CASE Crash(p)
      BY <3>3 DEF Crash, Gone
    <3> QED
      BY <2>2, <3>1, <3>2, <3>3
      DEF Start, ProcStep, CleanContainers, LockOpen, NewDaemon, Stop, WgWait, DeleteAllBuilders,
          CleanAll, Unlock, buildVars
  <2>3. ASSUME NEW p \in Procs, NEW b \in Builds, Accept(b, p)
        PROVE  dpc'[server[c]] = "dead"
    BY <2>3 DEF Accept
  <2>4. ASSUME NEW b \in Builds, HandlerStep(b)
        PROVE  dpc'[server[c]] = "dead"
    BY <2>4 DEF HandlerStep, Count, NewBuilder, MakeContainer, CleanupBuild, DeleteBuilder, Gone
  <2> QED
    BY <2>1, <2>2, <2>3, <2>4 DEF Next
<1> QED
  BY <1>1, Invariance, PTL DEF Spec, WaitedBuildsComplete
==============================================================================
