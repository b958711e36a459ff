------------------------------- MODULE Runner -------------------------------
(***************************************************************************)
(* runner/runner.go: a RUN instruction starts `runc run --detach` in a     *)
(* goroutine (A), finds the container's process through the pid file and   *)
(* waits for it in another (B), and waits for both or for the end of the   *)
(* build's context.  On return the container is killed if it still runs,   *)
(* and deleted.                                                            *)
(*                                                                         *)
(* runc and the kernel are external: the container's process is a child of *)
(* runc until runc exits, and is then handed to the daemon, which is a     *)
(* subreaper.  A process that ended is a zombie until somebody waits for   *)
(* it; a status taken by anybody but its waiter is "stolen".               *)
(***************************************************************************)

CONSTANT Runs       \* RUN instructions

VARIABLES
  ctxDone,    \* the context of the build is done
  rpc,        \* where runContainer is
  ret,        \* what runContainer decided to return
  apc,        \* goroutine A: runtime.Run
  bpc,        \* goroutine B: readPid, waitPid
  wstatus,    \* the exit status B has stored; its zero value is a success
  wErr,       \* B's wait failed: the process was not yet, or no longer, a child
  runc,       \* the runc process
  container,  \* the container's process
  exit,       \* the status the container's process ended with
  killed,     \* SIGKILL was sent to the container's process
  known,      \* the runtime has a record of the container
  pidFile     \* the pid file exists

mainVars == <<rpc, ret>>
waitVars == <<apc, bpc, wstatus, wErr>>
procVars == <<runc, container, exit, killed, known, pidFile>>
runVars == <<ctxDone, rpc, ret, apc, bpc, wstatus, wErr,
             runc, container, exit, killed, known, pidFile>>

RunInit ==
  /\ ctxDone = [r \in Runs |-> FALSE]
  /\ rpc = [r \in Runs |-> "idle"]
  /\ ret = [r \in Runs |-> "none"]
  /\ apc = [r \in Runs |-> "idle"]
  /\ bpc = [r \in Runs |-> "idle"]
  /\ wstatus = [r \in Runs |-> "zero"]
  /\ wErr = [r \in Runs |-> "no"]
  /\ runc = [r \in Runs |-> "none"]
  /\ container = [r \in Runs |-> "none"]
  /\ exit = [r \in Runs |-> "none"]
  /\ killed = [r \in Runs |-> FALSE]
  /\ known = [r \in Runs |-> FALSE]
  /\ pidFile = [r \in Runs |-> FALSE]

Returned(r) == rpc[r] \in {"ok", "err"}

\* The build's context ends at any time: the client went away.
ContextDone(r) ==
  /\ ~ctxDone[r]
  /\ ctxDone' = [ctxDone EXCEPT ![r] = TRUE]
  /\ UNCHANGED <<mainVars, waitVars, procVars>>

-----------------------------------------------------------------------------
(* runc and the container's process.                                       *)

RuncCreate(r) ==
  /\ runc[r] = "running"
  /\ container[r] = "none"
  /\ container' = [container EXCEPT ![r] = "running"]
  /\ known' = [known EXCEPT ![r] = TRUE]
  /\ UNCHANGED <<ctxDone, mainVars, waitVars, runc, exit, killed, pidFile>>

\* The pid file is in the bundle directory, which is removed when RUN is over.
RuncWritePid(r) ==
  /\ runc[r] = "running"
  /\ container[r] # "none"
  /\ ~pidFile[r]
  /\ ~Returned(r)
  /\ pidFile' = [pidFile EXCEPT ![r] = TRUE]
  /\ UNCHANGED <<ctxDone, mainVars, waitVars, runc, container, exit, killed, known>>

\* Detached: runc ends when the container is started and its pid is written.
RuncExit(r) ==
  /\ runc[r] = "running"
  /\ pidFile[r]
  /\ runc' = [runc EXCEPT ![r] = "ok"]
  /\ UNCHANGED <<ctxDone, mainVars, waitVars, container, exit, killed, known, pidFile>>

\* runc fails before the pid is written, and removes what it created.
RuncFail(r) ==
  /\ runc[r] = "running"
  /\ ~pidFile[r]
  /\ runc' = [runc EXCEPT ![r] = "bad"]
  /\ container' = [container EXCEPT ![r] = "none"]
  /\ known' = [known EXCEPT ![r] = FALSE]
  /\ UNCHANGED <<ctxDone, mainVars, waitVars, exit, killed, pidFile>>

\* exec.CommandContext kills runc when the context is done; the container stays.
RuncKilled(r) ==
  /\ ctxDone[r]
  /\ runc[r] = "running"
  /\ runc' = [runc EXCEPT ![r] = "bad"]
  /\ UNCHANGED <<ctxDone, mainVars, waitVars, container, exit, killed, known, pidFile>>

ContainerExit(r) ==
  /\ container[r] = "running"
  /\ \E s \in {"zero", "nonzero"} :
       /\ killed[r] => s = "nonzero"
       /\ exit' = [exit EXCEPT ![r] = s]
       /\ container' = [container EXCEPT ![r] = s]
  /\ UNCHANGED <<ctxDone, mainVars, waitVars, runc, killed, known, pidFile>>

-----------------------------------------------------------------------------
(* Goroutine A.                                                            *)

\* runtime.Run starts runc; the start can fail, and does if the context is done.
ARun(r) ==
  /\ apc[r] = "run"
  /\ \/ /\ ~ctxDone[r]
        /\ apc' = [apc EXCEPT ![r] = "wait"]
        /\ runc' = [runc EXCEPT ![r] = "running"]
     \/ /\ apc' = [apc EXCEPT ![r] = "err"]
        /\ UNCHANGED runc
  /\ UNCHANGED <<ctxDone, mainVars, bpc, wstatus, wErr, container, exit, killed, known, pidFile>>

\* The wait for runc, and for the end of the output it shares with the container,
\* is over; a container may close its output and go on.  Without the status of
\* runc the wait is an error.
AWait(r) ==
  /\ apc[r] = "wait"
  /\ runc[r] \in {"ok", "bad", "stolen"}
  /\ apc' = [apc EXCEPT ![r] = IF runc[r] = "ok" THEN "ok" ELSE "err"]
  /\ runc' = [runc EXCEPT ![r] = IF @ = "stolen" THEN @ ELSE "reaped"]
  /\ UNCHANGED <<ctxDone, mainVars, bpc, wstatus, wErr, container, exit, killed, known, pidFile>>

-----------------------------------------------------------------------------
(* Goroutine B.                                                            *)

\* readPid finds the pid file, or is tried pidGetWaitTimes times without success.
BPoll(r) ==
  /\ bpc[r] = "poll"
  /\ bpc' = [bpc EXCEPT ![r] = IF pidFile[r] THEN "wait" ELSE "err"]
  /\ UNCHANGED <<ctxDone, mainVars, apc, wstatus, wErr, procVars>>

\* wait4 on a process that is no child of the daemon (yet, or any more) fails at once.
NoChild(r) == runc[r] = "running" \/ container[r] \in {"reaped", "stolen"}

\* waitPid turns the failure into the status of a success.
BWaitFails(r) ==
  /\ bpc[r] = "wait"
  /\ NoChild(r)
  /\ bpc' = [bpc EXCEPT ![r] = "ok"]
  /\ wErr' = [wErr EXCEPT ![r] = IF runc[r] = "running" THEN "early" ELSE "late"]
  /\ wstatus' = [wstatus EXCEPT ![r] = "zero"]
  /\ UNCHANGED <<ctxDone, mainVars, apc, procVars>>

BWait(r) ==
  /\ bpc[r] = "wait"
  /\ ~NoChild(r)
  /\ container[r] \in {"zero", "nonzero"}
  /\ bpc' = [bpc EXCEPT ![r] = "ok"]
  /\ wstatus' = [wstatus EXCEPT ![r] = container[r]]
  /\ container' = [container EXCEPT ![r] = "reaped"]
  /\ UNCHANGED <<ctxDone, mainVars, apc, wErr, runc, exit, killed, known, pidFile>>

-----------------------------------------------------------------------------
(* runContainer and Run.                                                   *)

\* config.json is written; then both goroutines are started.
RunStart(r) ==
  /\ rpc[r] = "idle"
  /\ \/ /\ rpc' = [rpc EXCEPT ![r] = "select"]
        /\ apc' = [apc EXCEPT ![r] = "run"]
        /\ bpc' = [bpc EXCEPT ![r] = "poll"]
        /\ UNCHANGED ret
     \/ /\ rpc' = [rpc EXCEPT ![r] = "err"]
        /\ ret' = [ret EXCEPT ![r] = "err"]
        /\ UNCHANGED <<apc, bpc>>
  /\ UNCHANGED <<ctxDone, wstatus, wErr, procVars>>

\* Mutant of SelectContext: the end of the context is noticed when the goroutines are over.
SelectContextLate(r) ==
  /\ rpc[r] = "select"
  /\ ctxDone[r]
  /\ apc[r] \in {"ok", "err"} /\ bpc[r] \in {"ok", "err"}
  /\ rpc' = [rpc EXCEPT ![r] = "state"]
  /\ ret' = [ret EXCEPT ![r] = "ctx"]
  /\ UNCHANGED <<ctxDone, waitVars, procVars>>

SelectContext(r) ==
  /\ rpc[r] = "select"
  /\ ctxDone[r]
  /\ rpc' = [rpc EXCEPT ![r] = "state"]
  /\ ret' = [ret EXCEPT ![r] = "ctx"]
  /\ UNCHANGED <<ctxDone, waitVars, procVars>>

\* eg.Wait has returned; Run turns a status that is no success into an error.
SelectGroup(r) ==
  /\ rpc[r] = "select"
  /\ apc[r] \in {"ok", "err"} /\ bpc[r] \in {"ok", "err"}
  /\ rpc' = [rpc EXCEPT ![r] = "state"]
  /\ ret' = [ret EXCEPT ![r] = IF apc[r] = "err" \/ bpc[r] = "err" \/ wstatus[r] # "zero"
                               THEN "err" ELSE "ok"]
  /\ UNCHANGED <<ctxDone, waitVars, procVars>>

\* Mutant of DeferState: the container is not killed.
DeferStateNoKill(r) ==
  /\ rpc[r] = "state"
  /\ rpc' = [rpc EXCEPT ![r] = "delete"]
  /\ UNCHANGED <<ctxDone, ret, waitVars, procVars>>

\* The deferred function asks for the state of the container.
DeferState(r) ==
  /\ rpc[r] = "state"
  /\ rpc' = [rpc EXCEPT ![r] = IF known[r] /\ container[r] = "running" THEN "kill" ELSE "delete"]
  /\ UNCHANGED <<ctxDone, ret, waitVars, procVars>>

\* runtime.Kill succeeds, or it fails and the process is killed if B has stored its
\* pid; pid is read without synchronisation, so the read may miss it.
DeferKill(r) ==
  /\ rpc[r] = "kill"
  /\ rpc' = [rpc EXCEPT ![r] = "delete"]
  /\ \E signalled \in BOOLEAN :
       /\ bpc[r] = "ok" => signalled
       /\ killed' = [killed EXCEPT ![r] = signalled /\ container[r] = "running"]
  /\ UNCHANGED <<ctxDone, ret, waitVars, runc, container, exit, known, pidFile>>

\* runtime.Delete refuses a container that still runs; Run then removes the bundle.
DeferDelete(r) ==
  /\ rpc[r] = "delete"
  /\ rpc' = [rpc EXCEPT ![r] = IF ret[r] = "ok" THEN "ok" ELSE "err"]
  /\ known' = [known EXCEPT ![r] = @ /\ container[r] = "running"]
  /\ pidFile' = [pidFile EXCEPT ![r] = FALSE]
  /\ UNCHANGED <<ctxDone, ret, waitVars, runc, container, exit, killed>>

-----------------------------------------------------------------------------
RuncStep(r) == RuncCreate(r) \/ RuncWritePid(r) \/ RuncExit(r) \/ RuncFail(r) \/ RuncKilled(r)
AStep(r) == ARun(r) \/ AWait(r)
BStep(r) == BPoll(r) \/ BWaitFails(r) \/ BWait(r)
MainStep(r) == SelectContext(r) \/ SelectGroup(r) \/ DeferState(r) \/ DeferKill(r) \/ DeferDelete(r)

RunStep(r) == RuncStep(r) \/ ContainerExit(r) \/ AStep(r) \/ BStep(r) \/ MainStep(r)

\* Goroutines and runc go on; A's wait is only sure to end when the container has.
\* Nothing makes a container end.
RunFairness ==
  \A r \in Runs :
    /\ WF_runVars(RuncStep(r))
    /\ WF_runVars(ARun(r))
    /\ WF_runVars(AWait(r) /\ container[r] # "running")
    /\ WF_runVars(BStep(r))
    /\ WF_runVars(MainStep(r))

-----------------------------------------------------------------------------
\* Types; a container's process has ended with a status exactly when it is gone or
\* a zombie.
RunTypeOK ==
  /\ ctxDone \in [Runs -> BOOLEAN] /\ killed \in [Runs -> BOOLEAN]
  /\ known \in [Runs -> BOOLEAN] /\ pidFile \in [Runs -> BOOLEAN]
  /\ rpc \in [Runs -> {"idle", "select", "state", "kill", "delete", "ok", "err"}]
  /\ ret \in [Runs -> {"none", "ok", "err", "ctx"}]
  /\ apc \in [Runs -> {"idle", "run", "wait", "ok", "err"}]
  /\ bpc \in [Runs -> {"idle", "poll", "wait", "ok", "err"}]
  /\ wstatus \in [Runs -> {"zero", "nonzero"}]
  /\ wErr \in [Runs -> {"no", "early", "late"}]
  /\ runc \in [Runs -> {"none", "running", "ok", "bad", "reaped", "stolen"}]
  /\ container \in [Runs -> {"none", "running", "zero", "nonzero", "reaped", "stolen"}]
  /\ exit \in [Runs -> {"none", "zero", "nonzero"}]

\* A RUN instruction whose container failed is not taken for a success, unless its
\* process was waited for before runc had handed it over: nobody else takes the
\* status first (waitPid and Run, runner/runner.go).
FailureReported == \A r \in Runs : rpc[r] = "ok" => wErr[r] = "early" \/ exit[r] = "zero"

\* Unless its build was cancelled, a RUN instruction whose process was found leaves
\* no container running without having killed it (the deferred kill of runContainer).
NoRunaway ==
  \A r \in Runs :
    (Returned(r) /\ ret[r] # "ctx" /\ bpc[r] = "ok" /\ container[r] = "running") => killed[r]

\* The end of the build's context ends the RUN instruction, whatever the container does.
CancelEndsRun == \A r \in Runs : (ctxDone[r] /\ rpc[r] # "idle") ~> Returned(r)
=============================================================================
