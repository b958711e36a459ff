---------------------------- MODULE BuildSession ----------------------------
(***************************************************************************)
(* One `isula-build ctr-img build` command is two concurrent RPCs for the  *)
(* same build ID: Build (daemon/build.go), which runs the build, and       *)
(* Status (daemon/status.go), which streams the build's log back.  This    *)
(* module models the command (cmd/cli/build.go), both handlers, the        *)
(* registries they share (daemon/daemon.go, daemon/backend.go), the        *)
(* bounded log channel (pkg/logger/logger.go) and the goroutine that       *)
(* copies the output of a RUN container into that channel                  *)
(* (runner/runner.go).                                                     *)
(*                                                                         *)
(* Log messages are numbered in the order they are put in the channel;     *)
(* the channel holds messages taken[b]+1 .. printed[b].  Sending on the    *)
(* stream is one step with receiving from the channel.                     *)
(***************************************************************************)
EXTENDS Naturals

CONSTANTS Builds,      \* build IDs: one command each, drawn at random by the CLI
          Entities,    \* entity IDs: Dockerfile digest and static build time
          EntityOf,    \* the entity ID each command sends
          BufLen,      \* constant.CliLogBufferLen
          MaxPrints,   \* bound: messages after which a build starts no further one
          NoBuild      \* absent entry of the entities map

ASSUME EntityOfAssumption == EntityOf \in [Builds -> Entities]
ASSUME BufLenAssumption == BufLen \in Nat \ {0}
ASSUME MaxPrintsAssumption == MaxPrints \in Nat
ASSUME NoBuildAssumption == NoBuild \notin Builds

VARIABLES
  cancelled,     \* the command's context is done, for both of its RPCs
  cbuild,        \* the runBuild goroutine of the command
  cstatus,       \* the runStatus goroutine of the command
  got,           \* number of log messages the command has shown
  bpc,           \* where the Build handler is
  bchan,         \* the startBuild channel the Build handler sends on
  bres,          \* what the Build handler answers
  io,            \* the copier of the RUN container's output
  spc,           \* where the Status handler is
  schan,         \* the startBuild channel the Status handler receives from
  sres,          \* how the Status handler ends
  status,        \* backend.status: the startBuild channel of a build ID
  closed,        \* the startBuild channels that are closed
  builders,      \* daemon.builders
  entities,      \* daemon.entities
  dirs,          \* the data and run directories of a build
  printed,       \* messages put in the log channel so far
  taken,         \* messages received from the log channel so far
  contentClosed, \* the log channel is closed
  crashed        \* the daemon died of a send on a closed channel

clientVars == <<cancelled, cbuild, cstatus, got>>
buildVars == <<bpc, bchan, bres, io>>
statusVars == <<spc, schan, sres>>
syncVars == <<status, closed>>
registryVars == <<builders, entities, dirs>>
logVars == <<printed, taken, contentClosed>>
vars == <<cancelled, cbuild, cstatus, got, bpc, bchan, bres, io, spc, schan, sres, status,
          closed, builders, entities, dirs, printed, taken, contentClosed, crashed>>

\* A startBuild channel is named after the handler whose syncBuildStatus made it.
NoChan == "none"
Chans == {"byBuild", "byStatus"}

BuildPCs == {"idle", "new", "register", "sync", "send", "closeStart", "run", "print",
             "exec", "container", "final", "cleanup", "warn", "closeContent",
             "clean", "deleteBuilder", "deleteStatus", "done"}
StatusPCs == {"idle", "sync", "wait", "drop", "lookup", "range", "done"}

\* The command's goroutine is over: it returned, or the command's process died.
Returned == {"ok", "err", "gone"}

Init ==
  /\ cancelled = [b \in Builds |-> FALSE]
  /\ cbuild = [b \in Builds |-> "start"]
  /\ cstatus = [b \in Builds |-> "start"]
  /\ got = [b \in Builds |-> 0]
  /\ bpc = [b \in Builds |-> "idle"]
  /\ bchan = [b \in Builds |-> NoChan]
  /\ bres = [b \in Builds |-> "none"]
  /\ io = [b \in Builds |-> "none"]
  /\ spc = [b \in Builds |-> "idle"]
  /\ schan = [b \in Builds |-> NoChan]
  /\ sres = [b \in Builds |-> "none"]
  /\ status = [b \in Builds |-> NoChan]
  /\ closed = [b \in Builds |-> {}]
  /\ builders = {}
  /\ entities = [e \in Entities |-> NoBuild]
  /\ dirs = [b \in Builds |-> "none"]
  /\ printed = [b \in Builds |-> 0]
  /\ taken = [b \in Builds |-> 0]
  /\ contentClosed = [b \in Builds |-> FALSE]
  /\ crashed = FALSE

-----------------------------------------------------------------------------
(* The command: buildCommand, runBuild and runStatus.                      *)

\* Mutant of EndRunBuild: a failed runBuild does not cancel the context.
EndRunBuildNoCancel(b, r) ==
  /\ cbuild' = [cbuild EXCEPT ![b] = r]
  /\ UNCHANGED <<cancelled, cstatus, got>>

\* A goroutine of the command ends with r; an error cancels the shared context.
EndRunBuild(b, r) ==
  /\ cbuild' = [cbuild EXCEPT ![b] = r]
  /\ cancelled' = [cancelled EXCEPT ![b] = @ \/ r = "err"]
  /\ UNCHANGED <<cstatus, got>>

EndRunStatus(b, r) ==
  /\ cstatus' = [cstatus EXCEPT ![b] = r]
  /\ cancelled' = [cancelled EXCEPT ![b] = @ \/ r = "err"]
  /\ UNCHANGED <<cbuild, got>>

\* The RPCs of the command can no longer be answered.
Unreachable(b) == cancelled[b] \/ crashed

\* runBuild fails a check of its own, or its RPC finds the context already done.
RunBuildFail(b) ==
  /\ cbuild[b] = "start"
  /\ EndRunBuild(b, "err")
  /\ UNCHANGED <<buildVars, statusVars, syncVars, registryVars, logVars, crashed>>

RunBuildCall(b) ==
  /\ cbuild[b] = "start"
  /\ ~Unreachable(b)
  /\ cbuild' = [cbuild EXCEPT ![b] = "called"]
  /\ bpc' = [bpc EXCEPT ![b] = "new"]
  /\ UNCHANGED <<cancelled, cstatus, got, bchan, bres, io, statusVars, syncVars,
                 registryVars, logVars, crashed>>

RunBuildReturn(b) ==
  /\ cbuild[b] = "called"
  /\ \/ Unreachable(b) /\ EndRunBuild(b, "err")
     \/ ~Unreachable(b) /\ bpc[b] = "done" /\ EndRunBuild(b, IF bres[b] = "ok" THEN "ok" ELSE "err")
  /\ UNCHANGED <<buildVars, statusVars, syncVars, registryVars, logVars, crashed>>

RunStatusCall(b) ==
  /\ cstatus[b] = "start"
  /\ \/ /\ Unreachable(b)
        /\ EndRunStatus(b, "err")
        /\ UNCHANGED spc
     \/ /\ ~Unreachable(b)
        /\ cstatus' = [cstatus EXCEPT ![b] = "called"]
        /\ spc' = [spc EXCEPT ![b] = "sync"]
        /\ UNCHANGED <<cancelled, cbuild, got>>
  /\ UNCHANGED <<buildVars, schan, sres, syncVars, registryVars, logVars, crashed>>

RunStatusReturn(b) ==
  /\ cstatus[b] = "called"
  /\ \/ Unreachable(b) /\ EndRunStatus(b, "err")
     \/ ~Unreachable(b) /\ spc[b] = "done" /\ EndRunStatus(b, IF sres[b] = "eof" THEN "ok" ELSE "err")
  /\ UNCHANGED <<buildVars, statusVars, syncVars, registryVars, logVars, crashed>>

\* The command's process is killed: its connection and both of its RPCs end.
ClientDies(b) ==
  /\ cbuild[b] \notin Returned \/ cstatus[b] \notin Returned
  /\ cancelled' = [cancelled EXCEPT ![b] = TRUE]
  /\ cbuild' = [cbuild EXCEPT ![b] = IF @ \in Returned THEN @ ELSE "gone"]
  /\ cstatus' = [cstatus EXCEPT ![b] = IF @ \in Returned THEN @ ELSE "gone"]
  /\ UNCHANGED <<got, buildVars, statusVars, syncVars, registryVars, logVars, crashed>>

-----------------------------------------------------------------------------
(* Backend.Build up to the start of the build.                             *)

\* The Build handler moves on.  A crashed daemon takes no step.
BuildGoto(b, from, to) ==
  /\ ~crashed
  /\ bpc[b] = from
  /\ bpc' = [bpc EXCEPT ![b] = to]

\* dockerfile.NewBuilder refuses the request, or rolls back its directories.
NewBuilderFail(b) ==
  /\ BuildGoto(b, "new", "done")
  /\ bres' = [bres EXCEPT ![b] = "err"]
  /\ UNCHANGED <<clientVars, bchan, io, statusVars, syncVars, registryVars, logVars, crashed>>

\* dockerfile.NewBuilder makes the directories, before the daemon lock is taken.
NewBuilderPrepare(b) ==
  /\ BuildGoto(b, "new", "register")
  /\ dirs' = [dirs EXCEPT ![b] = "made"]
  /\ UNCHANGED <<clientVars, bchan, bres, io, statusVars, syncVars, builders, entities,
                 logVars, crashed>>

\* Daemon.NewBuilder under the daemon lock: an entity already on building refuses the build.
NewBuilderDuplicate(b) ==
  /\ entities[EntityOf[b]] # NoBuild
  /\ BuildGoto(b, "register", "done")
  /\ bres' = [bres EXCEPT ![b] = "duplicate"]
  /\ UNCHANGED <<clientVars, bchan, io, statusVars, syncVars, registryVars, logVars, crashed>>

\* Mutant of NewBuilderRegister: the entity is not looked up.
NewBuilderRegisterUnchecked(b) ==
  /\ BuildGoto(b, "register", "sync")
  /\ entities' = [entities EXCEPT ![EntityOf[b]] = b]
  /\ builders' = builders \cup {b}
  /\ UNCHANGED <<clientVars, bchan, bres, io, statusVars, syncVars, dirs, logVars, crashed>>

NewBuilderRegister(b) ==
  /\ entities[EntityOf[b]] = NoBuild
  /\ BuildGoto(b, "register", "sync")
  /\ entities' = [entities EXCEPT ![EntityOf[b]] = b]
  /\ builders' = builders \cup {b}
  /\ UNCHANGED <<clientVars, bchan, bres, io, statusVars, syncVars, dirs, logVars, crashed>>

\* Mutant of syncBuildStatus: the caller always makes a new channel.
syncBuildStatusAlwaysNew(b, mine) == mine

\* syncBuildStatus: the channel of the build ID, made by the caller if there is none.
syncBuildStatus(b, mine) == IF status[b] = NoChan THEN mine ELSE status[b]

BuildSync(b) ==
  /\ BuildGoto(b, "sync", "send")
  /\ bchan' = [bchan EXCEPT ![b] = syncBuildStatus(b, "byBuild")]
  /\ status' = [status EXCEPT ![b] = syncBuildStatus(b, "byBuild")]
  /\ UNCHANGED <<clientVars, bres, io, statusVars, closed, registryVars, logVars, crashed>>

\* The unbuffered startBuild channel: Build sends when Status receives.  A Status
\* never receives from a closed channel: Build closes only after this handoff, and
\* a command makes one Status call.
Handoff(b) ==
  /\ spc[b] = "wait"
  /\ schan[b] = bchan[b]
  /\ BuildGoto(b, "send", "closeStart")
  /\ spc' = [spc EXCEPT ![b] = "lookup"]
  /\ UNCHANGED <<clientVars, bchan, bres, io, schan, sres, syncVars, registryVars, logVars, crashed>>

closeStatusChan(b) ==
  /\ BuildGoto(b, "closeStart", "run")
  /\ closed' = [closed EXCEPT ![b] = IF status[b] = NoChan THEN @ ELSE @ \cup {status[b]}]
  /\ UNCHANGED <<clientVars, bchan, bres, io, statusVars, status, registryVars, logVars, crashed>>

-----------------------------------------------------------------------------
(* Builder.Build: commands are executed one by one, each after a message.  *)

\* Room in the log channel for one more message.
HasRoom(b) == printed[b] - taken[b] < BufLen

BuildFails(b, from) ==
  /\ BuildGoto(b, from, "cleanup")
  /\ bres' = [bres EXCEPT ![b] = "err"]
  /\ UNCHANGED <<clientVars, bchan, io, statusVars, syncVars, registryVars, logVars, crashed>>

\* Parsing, the stage graph, an export or the image ID file fails.
BuildFail(b) == BuildFails(b, "run")

\* prepare and cmdExecutor announce the next line with StepPrint.
NextCommand(b) ==
  /\ printed[b] < MaxPrints
  /\ BuildGoto(b, "run", "print")
  /\ UNCHANGED <<clientVars, bchan, bres, io, statusVars, syncVars, registryVars, logVars, crashed>>

\* Where a message of the Build handler leads: the command it announces, the end
\* of a successful build, or the closing of the log after the unused-args warning.
AfterPrint(pc) ==
  CASE pc = "print" -> "exec"
    [] pc = "final" -> "cleanup"
    [] pc = "warn" -> "closeContent"

\* The blocking channel send of Print and StepPrint.
LogPrint(b) ==
  /\ ~crashed
  /\ bpc[b] \in {"print", "final", "warn"}
  /\ HasRoom(b)
  /\ printed' = [printed EXCEPT ![b] = @ + 1]
  /\ bres' = [bres EXCEPT ![b] = IF bpc[b] = "final" THEN "ok" ELSE @]
  /\ bpc' = [bpc EXCEPT ![b] = AfterPrint(@)]
  /\ UNCHANGED <<clientVars, bchan, io, statusVars, syncVars, registryVars, taken,
                 contentClosed, crashed>>

ExecDone(b) ==
  /\ BuildGoto(b, "exec", "run")
  /\ UNCHANGED <<clientVars, bchan, bres, io, statusVars, syncVars, registryVars, logVars, crashed>>

ExecFail(b) == BuildFails(b, "exec")

\* A RUN line: the runtime is started and its output is copied to the log.
ExecRun(b) ==
  /\ BuildGoto(b, "exec", "container")
  /\ io' = [io EXCEPT ![b] = "idle"]
  /\ UNCHANGED <<clientVars, bchan, bres, statusVars, syncVars, registryVars, logVars, crashed>>

\* Mutant of ContainerExit: the exit of the process is enough, the copier is not awaited.
ContainerExitNoWait(b) ==
  /\ ~crashed
  /\ bpc[b] = "container"
  /\ bpc' = [bpc EXCEPT ![b] = "run"]
  /\ UNCHANGED <<clientVars, bchan, bres, io, statusVars, syncVars, registryVars, logVars, crashed>>

\* runContainer returns: the runtime command is over, its output copied to the end.
ContainerExit(b) ==
  /\ ~crashed
  /\ io[b] = "idle"
  /\ bpc[b] = "container"
  /\ io' = [io EXCEPT ![b] = "none"]
  /\ \/ bpc' = [bpc EXCEPT ![b] = "run"] /\ UNCHANGED bres
     \/ bpc' = [bpc EXCEPT ![b] = "cleanup"] /\ bres' = [bres EXCEPT ![b] = "err"]
  /\ UNCHANGED <<clientVars, bchan, statusVars, syncVars, registryVars, logVars, crashed>>

\* runContainer returns on the done context, without waiting for the copier.
ContainerCancelled(b) ==
  /\ cancelled[b]
  /\ BuildFails(b, "container")

\* writeImageID is the last step of a successful build.  Every build has announced
\* its FROM line by then.
BuildSuccess(b) ==
  /\ printed[b] > 0
  /\ BuildGoto(b, "run", "final")
  /\ UNCHANGED <<clientVars, bchan, bres, io, statusVars, syncVars, registryVars, logVars, crashed>>

\* Mutant of Cleanup: the channel is closed before the warning is printed.
CleanupCloseFirst(b) ==
  /\ BuildGoto(b, "cleanup", "warn") \/ BuildGoto(b, "cleanup", "closeContent")
  /\ contentClosed' = [contentClosed EXCEPT ![b] = TRUE]
  /\ UNCHANGED <<clientVars, bchan, bres, io, statusVars, syncVars, registryVars, printed,
                 taken, crashed>>

\* Builder.cleanup warns about build-args that were not consumed, if there are any.
Cleanup(b) ==
  /\ BuildGoto(b, "cleanup", "warn") \/ BuildGoto(b, "cleanup", "closeContent")
  /\ UNCHANGED <<clientVars, bchan, bres, io, statusVars, syncVars, registryVars, logVars, crashed>>

CloseContent(b) ==
  /\ BuildGoto(b, "closeContent", "clean")
  /\ contentClosed' = [contentClosed EXCEPT ![b] = TRUE]
  /\ UNCHANGED <<clientVars, bchan, bres, io, statusVars, syncVars, registryVars, printed,
                 taken, crashed>>

-----------------------------------------------------------------------------
(* The deferred function of Backend.Build.                                 *)

\* Mutant of CleanResources: only a successful build removes its directories.
CleanResourcesOnSuccess(b) ==
  /\ BuildGoto(b, "clean", "deleteBuilder")
  /\ dirs' = [dirs EXCEPT ![b] = IF bres[b] = "ok" THEN "none" ELSE @]
  /\ UNCHANGED <<clientVars, bchan, bres, io, statusVars, syncVars, builders, entities,
                 logVars, crashed>>

\* CleanResources: a directory that cannot be removed is only logged.
CleanResources(b) ==
  /\ BuildGoto(b, "clean", "deleteBuilder")
  /\ \E r \in {"none", "kept"} : dirs' = [dirs EXCEPT ![b] = r]
  /\ UNCHANGED <<clientVars, bchan, bres, io, statusVars, syncVars, builders, entities,
                 logVars, crashed>>

deleteBuilder(b) ==
  /\ BuildGoto(b, "deleteBuilder", "deleteStatus")
  /\ builders' = builders \ {b}
  /\ entities' = [entities EXCEPT ![EntityOf[b]] = NoBuild]
  /\ UNCHANGED <<clientVars, bchan, bres, io, statusVars, syncVars, dirs, logVars, crashed>>

deleteStatus(b) == status' = [status EXCEPT ![b] = NoChan]

BuildEnd(b) ==
  /\ BuildGoto(b, "deleteStatus", "done")
  /\ deleteStatus(b)
  /\ UNCHANGED <<clientVars, bchan, bres, io, statusVars, closed, registryVars, logVars, crashed>>

-----------------------------------------------------------------------------
(* The copier of a RUN container's output (the exec.Cmd behind forwardIO). *)

CopierRead(b) ==
  /\ ~crashed
  /\ io[b] = "idle"
  /\ printed[b] < MaxPrints
  /\ io' = [io EXCEPT ![b] = "write"]
  /\ UNCHANGED <<clientVars, bpc, bchan, bres, statusVars, syncVars, registryVars, logVars, crashed>>

\* Logger.Write: a blocking send, which panics if the channel is or becomes closed.
CopierWrite(b) ==
  /\ ~crashed
  /\ io[b] = "write"
  /\ ~contentClosed[b]
  /\ HasRoom(b)
  /\ printed' = [printed EXCEPT ![b] = @ + 1]
  /\ io' = [io EXCEPT ![b] = "idle"]
  /\ UNCHANGED <<clientVars, bpc, bchan, bres, statusVars, syncVars, registryVars, taken,
                 contentClosed, crashed>>

CopierPanic(b) ==
  /\ ~crashed
  /\ io[b] = "write"
  /\ contentClosed[b]
  /\ crashed' = TRUE
  /\ UNCHANGED <<clientVars, buildVars, statusVars, syncVars, registryVars, logVars>>

\* The killed container's pipe is at its end after runContainer has returned.
CopierEnd(b) ==
  /\ ~crashed
  /\ io[b] = "idle"
  /\ bpc[b] # "container"
  /\ io' = [io EXCEPT ![b] = "none"]
  /\ UNCHANGED <<clientVars, bpc, bchan, bres, statusVars, syncVars, registryVars, logVars, crashed>>

-----------------------------------------------------------------------------
(* Backend.Status.                                                         *)

StatusGoto(b, from, to) ==
  /\ ~crashed
  /\ spc[b] = from
  /\ spc' = [spc EXCEPT ![b] = to]

StatusEnds(b, from, r) ==
  /\ StatusGoto(b, from, "done")
  /\ sres' = [sres EXCEPT ![b] = r]

StatusSync(b) ==
  /\ StatusGoto(b, "sync", "wait")
  /\ schan' = [schan EXCEPT ![b] = syncBuildStatus(b, "byStatus")]
  /\ status' = [status EXCEPT ![b] = syncBuildStatus(b, "byStatus")]
  /\ UNCHANGED <<clientVars, buildVars, sres, closed, registryVars, logVars, crashed>>

\* The other case of the select: the stream's context is done ...
StatusCtxDone(b) ==
  /\ cancelled[b]
  /\ StatusGoto(b, "wait", "drop")
  /\ UNCHANGED <<clientVars, buildVars, schan, sres, syncVars, registryVars, logVars, crashed>>

\* Mutant of StatusDrop: the entry is left to the Build handler.
StatusDropKeepsEntry(b) ==
  /\ StatusEnds(b, "drop", "dropped")
  /\ UNCHANGED <<clientVars, buildVars, schan, syncVars, registryVars, logVars, crashed>>

\* ... and the build ID's channel is dropped from the map, whoever holds it.
StatusDrop(b) ==
  /\ StatusEnds(b, "drop", "dropped")
  /\ deleteStatus(b)
  /\ UNCHANGED <<clientVars, buildVars, schan, closed, registryVars, logVars, crashed>>

StatusLookup(b) ==
  /\ b \in builders
  /\ StatusGoto(b, "lookup", "range")
  /\ UNCHANGED <<clientVars, buildVars, schan, sres, syncVars, registryVars, logVars, crashed>>

StatusLookupFail(b) ==
  /\ b \notin builders
  /\ StatusEnds(b, "lookup", "err")
  /\ UNCHANGED <<clientVars, buildVars, schan, syncVars, registryVars, logVars, crashed>>

\* Receive a message and send it; sent to a command that has gone, it is lost.
StatusSend(b) ==
  /\ ~crashed
  /\ spc[b] = "range"
  /\ taken[b] < printed[b]
  /\ taken' = [taken EXCEPT ![b] = @ + 1]
  /\ got' = [got EXCEPT ![b] = IF cancelled[b] THEN @ ELSE @ + 1]
  /\ UNCHANGED <<cancelled, cbuild, cstatus, buildVars, statusVars, syncVars, registryVars,
                 printed, contentClosed, crashed>>

\* stream.Send fails on a done context: the message is lost and the log has no reader.
StatusSendFail(b) ==
  /\ cancelled[b]
  /\ taken[b] < printed[b]
  /\ StatusEnds(b, "range", "err")
  /\ taken' = [taken EXCEPT ![b] = @ + 1]
  /\ UNCHANGED <<clientVars, buildVars, schan, syncVars, registryVars, printed, contentClosed, crashed>>

\* The range over the channel ends when it is closed and empty.
StatusEOF(b) ==
  /\ contentClosed[b]
  /\ taken[b] = printed[b]
  /\ StatusEnds(b, "range", "eof")
  /\ UNCHANGED <<clientVars, buildVars, schan, syncVars, registryVars, logVars, crashed>>

-----------------------------------------------------------------------------
CommandBuildStep(b) == RunBuildCall(b) \/ RunBuildReturn(b)
CommandStatusStep(b) == RunStatusCall(b) \/ RunStatusReturn(b)

BuildStep(b) ==
  \/ NewBuilderFail(b) \/ NewBuilderPrepare(b) \/ NewBuilderDuplicate(b)
  \/ NewBuilderRegister(b) \/ BuildSync(b) \/ Handoff(b) \/ closeStatusChan(b)
  \/ BuildFail(b) \/ NextCommand(b) \/ LogPrint(b) \/ ExecDone(b) \/ ExecFail(b)
  \/ ExecRun(b) \/ ContainerExit(b) \/ ContainerCancelled(b) \/ BuildSuccess(b)
  \/ Cleanup(b) \/ CloseContent(b) \/ CleanResources(b) \/ deleteBuilder(b) \/ BuildEnd(b)

CopierStep(b) == CopierRead(b) \/ CopierWrite(b) \/ CopierPanic(b) \/ CopierEnd(b)

StatusStep(b) ==
  \/ StatusSync(b) \/ StatusCtxDone(b) \/ StatusDrop(b) \/ StatusLookup(b)
  \/ StatusLookupFail(b) \/ StatusSend(b) \/ StatusSendFail(b) \/ StatusEOF(b)

Next ==
  \E b \in Builds :
    \/ CommandBuildStep(b) \/ CommandStatusStep(b) \/ RunBuildFail(b) \/ ClientDies(b)
    \/ BuildStep(b) \/ CopierStep(b) \/ StatusStep(b)

Spec == Init /\ [][Next]_vars

\* Goroutines that can run do run, commands call and read their RPCs, RUN containers
\* end.  Nothing makes a command fail its own checks or die.
Fairness ==
  \A b \in Builds :
    /\ WF_vars(CommandBuildStep(b) \/ (Unreachable(b) /\ RunBuildFail(b)))
    /\ WF_vars(CommandStatusStep(b))
    /\ WF_vars(BuildStep(b))
    /\ WF_vars(CopierStep(b))
    /\ WF_vars(StatusStep(b))

FairSpec == Spec /\ Fairness

-----------------------------------------------------------------------------
(* Properties.                                                             *)

VariableTypes ==
  /\ cancelled \in [Builds -> BOOLEAN]
  /\ cbuild \in [Builds -> {"start", "called"} \cup Returned]
  /\ cstatus \in [Builds -> {"start", "called"} \cup Returned]
  /\ got \in [Builds -> Nat]
  /\ bpc \in [Builds -> BuildPCs]
  /\ bchan \in [Builds -> Chans \cup {NoChan}]
  /\ bres \in [Builds -> {"none", "ok", "err", "duplicate"}]
  /\ io \in [Builds -> {"none", "idle", "write"}]
  /\ spc \in [Builds -> StatusPCs]
  /\ schan \in [Builds -> Chans \cup {NoChan}]
  /\ sres \in [Builds -> {"none", "dropped", "err", "eof"}]
  /\ status \in [Builds -> Chans \cup {NoChan}]
  /\ closed \in [Builds -> SUBSET Chans]
  /\ builders \in SUBSET Builds
  /\ entities \in [Entities -> Builds \cup {NoBuild}]
  /\ dirs \in [Builds -> {"none", "made", "kept"}]
  /\ printed \in [Builds -> Nat]
  /\ taken \in [Builds -> Nat]
  /\ contentClosed \in [Builds -> BOOLEAN]
  /\ crashed \in BOOLEAN

\* The log channel never holds more than its capacity.
ChannelBounded ==
  \A b \in Builds : taken[b] <= printed[b] /\ printed[b] <= taken[b] + BufLen

\* Every variable keeps its type, and the log channel its capacity (NewCliLogger and the
\* blocking sends of pkg/logger/logger.go).
TypeOK == VariableTypes /\ ChannelBounded

\* A build is registered from the moment NewBuilder accepts it to deleteBuilder.
Registered(b) == bpc[b] \notin {"idle", "new", "register", "deleteStatus", "done"}

\* The two maps of the daemon agree with each other and with the handlers: builders
\* holds exactly the registered builds, and the entry of an entity is the registered
\* build of that entity.  Hence no two builds of one entity are ever on building at
\* the same time (daemon.go, NewBuilder and deleteBuilder).
RegistryExact ==
  /\ builders = {b \in Builds : Registered(b)}
  /\ \A e \in Entities, b \in Builds :
       entities[e] = b <=> Registered(b) /\ EntityOf[b] = e

\* backend.status keeps no entry for a build ID once neither handler is at work on it,
\* in whatever order Build fails or ends, Status arrives and the command goes away.
StatusEntriesReclaimed ==
  \A b \in Builds :
    bpc[b] \in {"idle", "done"} /\ spc[b] \in {"idle", "done"} => status[b] = NoChan

\* A command whose status stream ended normally has shown every message the build ever
\* printed: the channel is closed after the last message and none is lost before.
CompleteLog ==
  \A b \in Builds : cstatus[b] = "ok" => contentClosed[b] /\ got[b] = printed[b]

\* The log channel is not closed under a writer: the Build handler never prints after
\* CloseContent, and the copier of a RUN container can only be caught by it, and the
\* daemon only die of it, when the command has been cancelled.
LogCloseSafe ==
  /\ \A b \in Builds :
       contentClosed[b] => /\ bpc[b] \notin {"print", "final", "warn"}
                           /\ io[b] # "none" => cancelled[b]
  /\ crashed => \E b \in Builds : cancelled[b] /\ contentClosed[b]

\* The directories a build made are gone when its handler is over, unless they could
\* not be removed or the build was refused as a duplicate: NewBuilder makes them before
\* it looks at the entities and that early return does not remove them.
DirsReclaimed ==
  \A b \in Builds : bpc[b] = "done" /\ dirs[b] = "made" => bres[b] = "duplicate"

\* The reader of the log is gone for good: the Status handler ended, or will not start.
ReaderGone(b) == spc[b] = "done" \/ (spc[b] = "idle" /\ cstatus[b] \in Returned)

\* A Build handler ends, whatever the build does, as long as a Status handler is there
\* to take the start signal and the log (build.go:47 and Logger.Print block without one).
BuildEnds ==
  \A b \in Builds :
    bpc[b] = "new" ~> bpc[b] = "done" \/ crashed \/ (cancelled[b] /\ ReaderGone(b))

\* Both goroutines of a command come to an end, so the command itself does.
CommandEnds ==
  \A b \in Builds : <>(cbuild[b] \in Returned /\ cstatus[b] \in Returned)

-----------------------------------------------------------------------------
(* The session as an implementation of BuildService.                       *)

PhaseOf(b) ==
  CASE bpc[b] \in {"idle", "new", "register"} -> "idle"
    [] bpc[b] \in {"clean", "deleteBuilder"} -> "closing"
    [] bpc[b] \in {"deleteStatus", "done"} -> "ended"
    [] OTHER -> "running"

Service == INSTANCE BuildService WITH
  phase <- [b \in Builds |-> PhaseOf(b)],
  holder <- entities,
  log <- printed,
  shown <- got,
  complete <- [b \in Builds |-> cstatus[b] = "ok"]

\* Every behaviour of the handlers, the registries, the log channel and the command is
\* one that BuildService allows: builds of an entity exclude each other, and the log is
\* shown in order and is complete when the command believes it to be.
ImplementsService == Service!Spec
=============================================================================
