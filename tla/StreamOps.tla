------------------------------ MODULE StreamOps ------------------------------
(***************************************************************************)
(* Pull, Push, Load, Import, Save and ManifestPush have one shape: a       *)
(* worker goroutine copies images and writes messages to a bounded log     *)
(* channel, a message goroutine sends them on the stream, and the handler  *)
(* waits for both.  Pull, Load and Import hold the daemon's lock for       *)
(* reading from beginning to end; the registry of builds and the subreaper *)
(* take it for writing.  The lock is a sync.RWMutex: no reader enters      *)
(* while a writer waits.                                                   *)
(*                                                                         *)
(* Messages are never empty (the copy of an image prints none), so the     *)
(* message goroutines leave their loops only at the close of the channel   *)
(* or at a failed send.                                                    *)
(***************************************************************************)
EXTENDS Naturals

CONSTANTS Reqs,      \* requests
          Locking,   \* those that hold the daemon's lock: Pull, Load, Import
          Saving,    \* those that write a tarball: Save
          Writers,   \* who takes the lock for writing: NewBuilder, deleteBuilder, the subreaper
          BufLen,    \* constant.CliLogBufferLen
          MaxPuts    \* bound: messages of a request

ASSUME ReqsAssumption == Locking \subseteq Reqs /\ Saving \subseteq Reqs
ASSUME BoundsAssumption == BufLen \in Nat \ {0} /\ MaxPuts \in [Reqs -> Nat]

VARIABLES
  client,   \* the command: receiving, told success or failure, or gone
  pc,       \* where the handler is
  res,      \* what the handler returns
  worker,   \* where the worker goroutine is
  msg,      \* where the message goroutine is
  put,      \* messages the worker has put in the channel
  taken,    \* messages the message goroutine has taken out
  shown,    \* messages the command has received
  closed,   \* the channel is closed
  output,   \* the tarball of a Save
  readers,  \* requests that hold the lock
  writers   \* writers that wait for the lock

vars == <<client, pc, res, worker, msg, put, taken, shown, closed, output, readers, writers>>
logVars == <<put, taken, shown, closed>>
lockVars == <<readers, writers>>

Init ==
  /\ client = [q \in Reqs |-> "recv"]
  /\ pc = [q \in Reqs |-> "idle"]
  /\ res = [q \in Reqs |-> "none"]
  /\ worker = [q \in Reqs |-> "idle"]
  /\ msg = [q \in Reqs |-> "idle"]
  /\ put = [q \in Reqs |-> 0]
  /\ taken = [q \in Reqs |-> 0]
  /\ shown = [q \in Reqs |-> 0]
  /\ closed = [q \in Reqs |-> FALSE]
  /\ output = [q \in Reqs |-> "none"]
  /\ readers = {}
  /\ writers = {}

-----------------------------------------------------------------------------
(* The handler.                                                            *)

Arrive(q) ==
  /\ pc[q] = "idle"
  /\ pc' = [pc EXCEPT ![q] = IF q \in Locking THEN "lock" ELSE "check"]
  /\ UNCHANGED <<client, res, worker, msg, logVars, output, lockVars>>

RLock(q) ==
  /\ pc[q] = "lock"
  /\ writers = {}
  /\ readers' = readers \cup {q}
  /\ pc' = [pc EXCEPT ![q] = "check"]
  /\ UNCHANGED <<client, res, worker, msg, logVars, output, writers>>

\* The handler returns r: the deferred functions release the lock.
Return(q, r) ==
  /\ pc' = [pc EXCEPT ![q] = "done"]
  /\ res' = [res EXCEPT ![q] = r]
  /\ readers' = readers \ {q}

\* A check of the request, or the preparation of the work, fails.
Refuse(q) ==
  /\ pc[q] = "check"
  /\ Return(q, "err")
  /\ UNCHANGED <<client, worker, msg, logVars, output, writers>>

StartGroup(q) ==
  /\ pc[q] = "check"
  /\ pc' = [pc EXCEPT ![q] = "group"]
  /\ worker' = [worker EXCEPT ![q] = "work"]
  /\ msg' = [msg EXCEPT ![q] = "range"]
  /\ output' = [output EXCEPT ![q] = IF q \in Saving THEN "partial" ELSE @]
  /\ UNCHANGED <<client, res, logVars, lockVars>>

\* Mutant of GroupWait: only the worker is waited for.
GroupWaitWorker(q) ==
  /\ pc[q] = "group"
  /\ worker[q] \in {"ok", "err"}
  /\ Return(q, worker[q])
  /\ output' = [output EXCEPT ![q] = IF res'[q] = "err" THEN "none" ELSE @]
  /\ UNCHANGED <<client, worker, msg, logVars, writers>>

GroupResult(q) == IF "err" \in {worker[q], msg[q]} THEN "err" ELSE "ok"

\* Mutant of GroupWait: the tarball is removed only when the worker has failed.
GroupWaitKeepsOutput(q) ==
  /\ pc[q] = "group"
  /\ worker[q] \in {"ok", "err"} /\ msg[q] \in {"ok", "err"}
  /\ Return(q, GroupResult(q))
  /\ output' = [output EXCEPT ![q] = IF worker[q] = "err" THEN "none" ELSE @]
  /\ UNCHANGED <<client, worker, msg, logVars, writers>>

\* eg.Wait, and for a Save the separation of the images, which can fail as well; a Save
\* that fails removes its tarball.
GroupWait(q) ==
  /\ pc[q] = "group"
  /\ worker[q] \in {"ok", "err"} /\ msg[q] \in {"ok", "err"}
  /\ \/ Return(q, GroupResult(q))
     \/ q \in Saving /\ Return(q, "err")
  /\ output' = [output EXCEPT ![q] = IF res'[q] = "err" THEN "none" ELSE @]
  /\ UNCHANGED <<client, worker, msg, logVars, writers>>

-----------------------------------------------------------------------------
(* The worker.                                                             *)

\* The copy has something to report: it writes to the channel.
WorkWrite(q) ==
  /\ worker[q] = "work"
  /\ put[q] < MaxPuts[q]
  /\ worker' = [worker EXCEPT ![q] = "write"]
  /\ UNCHANGED <<client, pc, res, msg, logVars, output, lockVars>>

\* The write is over when there is room; the end of a context does not interrupt it.
WorkPut(q) ==
  /\ worker[q] = "write"
  /\ put[q] - taken[q] < BufLen
  /\ put' = [put EXCEPT ![q] = @ + 1]
  /\ worker' = [worker EXCEPT ![q] = "work"]
  /\ UNCHANGED <<client, pc, res, msg, taken, shown, closed, output, lockVars>>

\* The work is done, or it fails, for instance because the context has ended.
WorkEnd(q) ==
  /\ worker[q] = "work"
  /\ worker' \in {[worker EXCEPT ![q] = "closeOk"], [worker EXCEPT ![q] = "closeErr"]}
  /\ UNCHANGED <<client, pc, res, msg, logVars, output, lockVars>>

\* Mutant of CloseContent: a worker that failed does not close the channel.
CloseContentOnSuccess(q) ==
  /\ worker[q] \in {"closeOk", "closeErr"}
  /\ worker' = [worker EXCEPT ![q] = CASE q \in Saving -> IF @ = "closeOk" THEN "tarOk" ELSE "tarErr"
                                       [] OTHER -> IF @ = "closeOk" THEN "ok" ELSE "err"]
  /\ closed' = [closed EXCEPT ![q] = worker[q] = "closeOk"]
  /\ UNCHANGED <<client, pc, res, msg, put, taken, shown, output, lockVars>>

\* The deferred CloseContent; the worker of a Save goes on to close its archive.
CloseContent(q) ==
  /\ worker[q] \in {"closeOk", "closeErr"}
  /\ worker' = [worker EXCEPT ![q] = CASE q \in Saving -> IF @ = "closeOk" THEN "tarOk" ELSE "tarErr"
                                       [] OTHER -> IF @ = "closeOk" THEN "ok" ELSE "err"]
  /\ closed' = [closed EXCEPT ![q] = TRUE]
  /\ UNCHANGED <<client, pc, res, msg, put, taken, shown, output, lockVars>>

\* Closing the archive writer completes the tarball; a failure is only logged.
CloseArchive(q) ==
  /\ worker[q] \in {"tarOk", "tarErr"}
  /\ worker' = [worker EXCEPT ![q] = IF @ = "tarOk" THEN "ok" ELSE "err"]
  /\ \/ UNCHANGED output
     \/ worker[q] = "tarOk" /\ output' = [output EXCEPT ![q] = "whole"]
  /\ UNCHANGED <<client, pc, res, msg, logVars, lockVars>>

-----------------------------------------------------------------------------
(* The message goroutine.                                                  *)

MsgTake(q) ==
  /\ msg[q] = "range"
  /\ taken[q] < put[q]
  /\ taken' = [taken EXCEPT ![q] = @ + 1]
  /\ msg' = [msg EXCEPT ![q] = "send"]
  /\ UNCHANGED <<client, pc, res, worker, put, shown, closed, output, lockVars>>

\* Mutant of MsgSend: the goroutine ends after a message.
MsgSendOnce(q) ==
  /\ msg[q] = "send"
  /\ \/ client[q] = "recv" /\ shown' = [shown EXCEPT ![q] = @ + 1]
     \/ client[q] = "gone" /\ UNCHANGED shown
  /\ msg' = [msg EXCEPT ![q] = "ok"]
  /\ UNCHANGED <<client, pc, res, worker, put, taken, closed, output, lockVars>>

\* stream.Send fails when the command is gone, though not at once.
MsgSend(q) ==
  /\ msg[q] = "send"
  /\ \/ /\ client[q] = "recv"
        /\ shown' = [shown EXCEPT ![q] = @ + 1]
        /\ msg' = [msg EXCEPT ![q] = "range"]
     \/ /\ client[q] = "gone"
        /\ msg' \in {[msg EXCEPT ![q] = "range"], [msg EXCEPT ![q] = "err"]}
        /\ UNCHANGED shown
  /\ UNCHANGED <<client, pc, res, worker, put, taken, closed, output, lockVars>>

MsgEnd(q) ==
  /\ msg[q] = "range"
  /\ closed[q] /\ taken[q] = put[q]
  /\ msg' = [msg EXCEPT ![q] = "ok"]
  /\ UNCHANGED <<client, pc, res, worker, logVars, output, lockVars>>

-----------------------------------------------------------------------------
(* The command, and the writers of the lock.                               *)

\* The command has received the messages and the status that ends the stream.
ClientEnd(q) ==
  /\ client[q] = "recv"
  /\ pc[q] = "done"
  /\ client' = [client EXCEPT ![q] = res[q]]
  /\ UNCHANGED <<pc, res, worker, msg, logVars, output, lockVars>>

ClientGone(q) ==
  /\ client[q] = "recv"
  /\ client' = [client EXCEPT ![q] = "gone"]
  /\ UNCHANGED <<pc, res, worker, msg, logVars, output, lockVars>>

WriterLock(w) ==
  /\ w \notin writers
  /\ writers' = writers \cup {w}
  /\ UNCHANGED <<client, pc, res, worker, msg, logVars, output, readers>>

\* The section of a writer is one step.
WriterSection(w) ==
  /\ w \in writers
  /\ readers = {}
  /\ writers' = writers \ {w}
  /\ UNCHANGED <<client, pc, res, worker, msg, logVars, output, readers>>

HandlerStep(q) == RLock(q) \/ Refuse(q) \/ StartGroup(q) \/ GroupWait(q)
WorkerStep(q) == WorkWrite(q) \/ WorkPut(q) \/ WorkEnd(q) \/ CloseContent(q)
                 \/ CloseArchive(q)
MsgStep(q) == MsgTake(q) \/ MsgSend(q) \/ MsgEnd(q)

Next ==
  \/ \E q \in Reqs : Arrive(q) \/ HandlerStep(q) \/ WorkerStep(q) \/ MsgStep(q)
                     \/ ClientEnd(q) \/ ClientGone(q)
  \/ \E w \in Writers : WriterLock(w) \/ WriterSection(w)

Spec == Init /\ [][Next]_vars

\* Goroutines that can go on do, the lock lets in whoever waits again and again, and
\* a copy ends.  Nothing makes a request arrive or a command leave.
FairSpec ==
  /\ Spec
  /\ \A q \in Reqs : /\ SF_vars(RLock(q))
                     /\ WF_vars(HandlerStep(q))
                     /\ WF_vars(WorkerStep(q))
                     /\ WF_vars(MsgStep(q))
  /\ \A w \in Writers : WF_vars(WriterSection(w))

-----------------------------------------------------------------------------
\* Types; the channel holds at most BufLen messages.
TypeOK ==
  /\ client \in [Reqs -> {"recv", "ok", "err", "gone"}]
  /\ pc \in [Reqs -> {"idle", "lock", "check", "group", "done"}]
  /\ res \in [Reqs -> {"none", "ok", "err"}]
  /\ worker \in [Reqs -> {"idle", "work", "write", "closeOk", "closeErr", "tarOk", "tarErr",
                       "ok", "err"}]
  /\ msg \in [Reqs -> {"idle", "range", "send", "ok", "err"}]
  /\ put \in [Reqs -> Nat] /\ taken \in [Reqs -> Nat] /\ shown \in [Reqs -> Nat]
  /\ closed \in [Reqs -> BOOLEAN]
  /\ output \in [Reqs -> {"none", "partial", "whole"}]
  /\ readers \subseteq Locking
  /\ writers \subseteq Writers
  /\ \A q \in Reqs : taken[q] <= put[q] /\ put[q] - taken[q] <= BufLen

\* The worker waits in a write that nobody will ever make room for.
Stuck(q) == worker[q] = "write" /\ put[q] - taken[q] = BufLen /\ msg[q] \in {"ok", "err"}

\* A worker blocks for ever only when its command has gone before its work was done:
\* the message goroutine does not leave a command that still listens.
StuckOnlyWhenGone == \A q \in Reqs : Stuck(q) => client[q] = "gone"

\* A command that is told of success has been shown every message, the work is done
\* and a Save has not removed its tarball (eg.Wait, and the commands' Recv loops).
SuccessIsComplete ==
  \A q \in Reqs :
    client[q] = "ok" => /\ worker[q] = "ok"
                        /\ shown[q] = put[q]
                        /\ q \in Saving => output[q] # "none"

\* A Save that returns an error leaves no tarball, whichever goroutine failed.
FailedSaveLeavesNothing ==
  \A q \in Reqs : pc[q] = "done" /\ res[q] = "err" => output[q] = "none"

\* Every request ends unless some worker is stuck: the lock, which is held during the
\* whole of a Pull, Load or Import, does not bring requests to wait for each other.
RequestsEnd ==
  [](\A q \in Reqs : ~Stuck(q)) => \A q \in Reqs : pc[q] # "idle" ~> pc[q] = "done"
=============================================================================
