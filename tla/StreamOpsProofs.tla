--------------------------- MODULE StreamOpsProofs ---------------------------
(* Safety of StreamOps, for any number of requests and any channel length.  *)
EXTENDS StreamOps, TLAPS

\* Before the goroutines start nothing has happened; the handler returns after both.
HandlerOf(q) ==
  /\ pc[q] \in {"idle", "lock", "check"} =>
       worker[q] = "idle" /\ msg[q] = "idle" /\ output[q] = "none"
  /\ pc[q] = "done" => worker[q] \in {"idle", "ok", "err"} /\ msg[q] \in {"idle", "ok", "err"}
  /\ pc[q] = "done" /\ res[q] = "ok" => worker[q] = "ok" /\ msg[q] = "ok"
  /\ pc[q] = "done" <=> res[q] # "none"
  /\ pc[q] = "lock" => q \in Locking

\* The channel is closed by the worker, and the message goroutine leaves it empty unless
\* its command has gone.
ChannelOf(q) ==
  /\ closed[q] <=> worker[q] \in {"tarOk", "tarErr", "ok", "err"}
  /\ msg[q] = "ok" => closed[q] /\ taken[q] = put[q]
  /\ msg[q] = "err" => client[q] = "gone"
  /\ client[q] \in {"recv", "ok"} => taken[q] = shown[q] + (IF msg[q] = "send" THEN 1 ELSE 0)

\* A command is told the result of the handler.
ClientOf(q) == client[q] \in {"ok", "err"} => pc[q] = "done" /\ client[q] = res[q]

\* The tarball is there from the start of the work until a failure removes it.
OutputOf(q) ==
  /\ worker[q] \in {"tarOk", "tarErr"} => q \in Saving
  /\ q \in Saving /\ pc[q] = "group" => output[q] # "none"
  /\ q \in Saving /\ pc[q] = "done" /\ res[q] = "ok" => output[q] # "none"
  /\ pc[q] = "done" /\ res[q] = "err" => output[q] = "none"

ReqInv(q) == HandlerOf(q) /\ ChannelOf(q) /\ ClientOf(q) /\ OutputOf(q)
IInv == TypeOK /\ \A q \in Reqs : ReqInv(q)

\* The initial state has the types, and satisfies the invariant.
LEMMA InitInv == Init => IInv
  BY ReqsAssumption, BoundsAssumption
  DEF Init, IInv, TypeOK, ReqInv, HandlerOf, ChannelOf, ClientOf, OutputOf

\* The variables that belong to one request, q, are left alone.
Untouched(q) ==
  /\ client'[q] = client[q] /\ pc'[q] = pc[q] /\ res'[q] = res[q]
  /\ worker'[q] = worker[q] /\ msg'[q] = msg[q]
  /\ put'[q] = put[q] /\ taken'[q] = taken[q] /\ shown'[q] = shown[q]
  /\ closed'[q] = closed[q] /\ output'[q] = output[q]

\* What the invariant says of a request depends only on that request.
LEMMA UntouchedKeeps ==
  ASSUME NEW q, ReqInv(q), Untouched(q)
  PROVE  ReqInv(q)'
  BY DEF ReqInv, HandlerOf, ChannelOf, ClientOf, OutputOf, Untouched

\* A step of the handler: arrival, lock, refusal, start of its goroutines and the wait for
\* them.
LEMMA HandlerKeeps ==
  ASSUME IInv, NEW q \in Reqs, Arrive(q) \/ HandlerStep(q)
  PROVE  IInv'
<1> USE ReqsAssumption, BoundsAssumption
<1>1. CASE Arrive(q)
  <2>1. TypeOK'
    BY <1>1 DEF Arrive, IInv, TypeOK, ReqInv, HandlerOf, logVars, lockVars
  <2>2. ReqInv(q)'
    BY <1>1 DEF Arrive, IInv, TypeOK, ReqInv, HandlerOf, ChannelOf, ClientOf, OutputOf,
                  logVars, lockVars
  <2>3. \A r \in Reqs \ {q} : Untouched(r)
    BY <1>1 DEF Arrive, IInv, TypeOK, Untouched, logVars, lockVars
  <2> QED
    BY <2>1, <2>2, <2>3, UntouchedKeeps DEF IInv
<1>2. CASE RLock(q)
  <2>1. TypeOK'
    BY <1>2 DEF RLock, IInv, TypeOK, ReqInv, HandlerOf, logVars, lockVars
  <2>2. ReqInv(q)'
    BY <1>2 DEF RLock, IInv, TypeOK, ReqInv, HandlerOf, ChannelOf, ClientOf, OutputOf,
                  logVars, lockVars
  <2>3. \A r \in Reqs \ {q} : Untouched(r)
    BY <1>2 DEF RLock, IInv, TypeOK, Untouched, logVars, lockVars
  <2> QED
    BY <2>1, <2>2, <2>3, UntouchedKeeps DEF IInv
<1>3. CASE Refuse(q)
  <2>1. TypeOK'
    BY <1>3 DEF Refuse, Return, IInv, TypeOK, ReqInv, HandlerOf, logVars, lockVars
  <2>2. ReqInv(q)'
    BY <1>3 DEF Refuse, Return, IInv, TypeOK, ReqInv, HandlerOf, ChannelOf, ClientOf, OutputOf,
                  logVars, lockVars
  <2>3. \A r \in Reqs \ {q} : Untouched(r)
    BY <1>3 DEF Refuse, Return, IInv, TypeOK, Untouched, logVars, lockVars
  <2> QED
    BY <2>1, <2>2, <2>3, UntouchedKeeps DEF IInv
<1>4. CASE StartGroup(q)
  <2>1. TypeOK'
    BY <1>4 DEF StartGroup, IInv, TypeOK, ReqInv, HandlerOf, logVars, lockVars
  <2>2. ReqInv(q)'
    BY <1>4 DEF StartGroup, IInv, TypeOK, ReqInv, HandlerOf, ChannelOf, ClientOf, OutputOf,
                  logVars, lockVars
  <2>3. \A r \in Reqs \ {q} : Untouched(r)
    BY <1>4 DEF StartGroup, IInv, TypeOK, Untouched, logVars, lockVars
  <2> QED
    BY <2>1, <2>2, <2>3, UntouchedKeeps DEF IInv
<1>5. CASE GroupWait(q)
  <2>1. TypeOK'
    BY <1>5 DEF GroupWait, Return, GroupResult, IInv, TypeOK, ReqInv, HandlerOf, logVars, lockVars
  <2>2. ReqInv(q)'
    BY <1>5 DEF GroupWait, Return, GroupResult, IInv, TypeOK, ReqInv, HandlerOf, ChannelOf, ClientOf, OutputOf,
                  logVars, lockVars
  <2>3. \A r \in Reqs \ {q} : Untouched(r)
    BY <1>5 DEF GroupWait, Return, GroupResult, IInv, TypeOK, Untouched, logVars, lockVars
  <2> QED
    BY <2>1, <2>2, <2>3, UntouchedKeeps DEF IInv
<1> QED
  BY <1>1, <1>2, <1>3, <1>4, <1>5 DEF HandlerStep

\* A step of the worker: messages, end of the work, close of the channel and of the archive.
LEMMA WorkerKeeps ==
  ASSUME IInv, NEW q \in Reqs, WorkerStep(q)
  PROVE  IInv'
<1> USE ReqsAssumption, BoundsAssumption
<1>1. CASE WorkWrite(q)
  <2>1. TypeOK'
    BY <1>1 DEF WorkWrite, IInv, TypeOK, ReqInv, HandlerOf, logVars, lockVars
  <2>2. ReqInv(q)'
    BY <1>1 DEF WorkWrite, IInv, TypeOK, ReqInv, HandlerOf, ChannelOf, ClientOf, OutputOf,
                  logVars, lockVars
  <2>3. \A r \in Reqs \ {q} : Untouched(r)
    BY <1>1 DEF WorkWrite, IInv, TypeOK, Untouched, logVars, lockVars
  <2> QED
    BY <2>1, <2>2, <2>3, UntouchedKeeps DEF IInv
<1>2. CASE WorkPut(q)
  <2>1. TypeOK'
    BY <1>2 DEF WorkPut, IInv, TypeOK, ReqInv, HandlerOf, logVars, lockVars
  <2>2. ReqInv(q)'
    BY <1>2 DEF WorkPut, IInv, TypeOK, ReqInv, HandlerOf, ChannelOf, ClientOf, OutputOf,
                  logVars, lockVars
  <2>3. \A r \in Reqs \ {q} : Untouched(r)
    BY <1>2 DEF WorkPut, IInv, TypeOK, Untouched, logVars, lockVars
  <2> QED
    BY <2>1, <2>2, <2>3, UntouchedKeeps DEF IInv
<1>3. CASE WorkEnd(q)
  <2>1. TypeOK'
    BY <1>3 DEF WorkEnd, IInv, TypeOK, ReqInv, HandlerOf, logVars, lockVars
  <2>2. ReqInv(q)'
    BY <1>3 DEF WorkEnd, IInv, TypeOK, ReqInv, HandlerOf, ChannelOf, ClientOf, OutputOf,
                  logVars, lockVars
  <2>3. \A r \in Reqs \ {q} : Untouched(r)
    BY <1>3 DEF WorkEnd, IInv, TypeOK, Untouched, logVars, lockVars
  <2> QED
    BY <2>1, <2>2, <2>3, UntouchedKeeps DEF IInv
<1>4. CASE CloseContent(q)
  <2>1. TypeOK'
    BY <1>4 DEF CloseContent, IInv, TypeOK, ReqInv, HandlerOf, logVars, lockVars
  <2>2. ReqInv(q)'
    BY <1>4 DEF CloseContent, IInv, TypeOK, ReqInv, HandlerOf, ChannelOf, ClientOf, OutputOf,
                  logVars, lockVars
  <2>3. \A r \in Reqs \ {q} : Untouched(r)
    BY <1>4 DEF CloseContent, IInv, TypeOK, Untouched, logVars, lockVars
  <2> QED
    BY <2>1, <2>2, <2>3, UntouchedKeeps DEF IInv
<1>5. CASE CloseArchive(q)
  <2>1. TypeOK'
    BY <1>5 DEF CloseArchive, IInv, TypeOK, ReqInv, HandlerOf, logVars, lockVars
  <2>2. ReqInv(q)'
    BY <1>5 DEF CloseArchive, IInv, TypeOK, ReqInv, HandlerOf, ChannelOf, ClientOf, OutputOf,
                  logVars, lockVars
  <2>3. \A r \in Reqs \ {q} : Untouched(r)
    BY <1>5 DEF CloseArchive, IInv, TypeOK, Untouched, logVars, lockVars
  <2> QED
    BY <2>1, <2>2, <2>3, UntouchedKeeps DEF IInv
<1> QED
  BY <1>1, <1>2, <1>3, <1>4, <1>5 DEF WorkerStep

\* A step of the message goroutine or of the command.
LEMMA MessageKeeps ==
  ASSUME IInv, NEW q \in Reqs, MsgStep(q) \/ ClientEnd(q) \/ ClientGone(q)
  PROVE  IInv'
<1> USE ReqsAssumption, BoundsAssumption
<1>1. CASE MsgTake(q)
  <2>1. TypeOK'
    BY <1>1 DEF MsgTake, IInv, TypeOK, ReqInv, HandlerOf, logVars, lockVars
  <2>2. ReqInv(q)'
    BY <1>1 DEF MsgTake, IInv, TypeOK, ReqInv, HandlerOf, ChannelOf, ClientOf, OutputOf,
                  logVars, lockVars
  <2>3. \A r \in Reqs \ {q} : Untouched(r)
    BY <1>1 DEF MsgTake, IInv, TypeOK, Untouched, logVars, lockVars
  <2> QED
    BY <2>1, <2>2, <2>3, UntouchedKeeps DEF IInv
<1>2. CASE MsgSend(q)
  <2>1. TypeOK'
    BY <1>2 DEF MsgSend, IInv, TypeOK, ReqInv, HandlerOf, logVars, lockVars
  <2>2. ReqInv(q)'
    BY <1>2 DEF MsgSend, IInv, TypeOK, ReqInv, HandlerOf, ChannelOf, ClientOf, OutputOf,
                  logVars, lockVars
  <2>3. \A r \in Reqs \ {q} : Untouched(r)
    BY <1>2 DEF MsgSend, IInv, TypeOK, Untouched, logVars, lockVars
  <2> QED
    BY <2>1, <2>2, <2>3, UntouchedKeeps DEF IInv
<1>3. CASE MsgEnd(q)
  <2>1. TypeOK'
    BY <1>3 DEF MsgEnd, IInv, TypeOK, ReqInv, HandlerOf, logVars, lockVars
  <2>2. ReqInv(q)'
    BY <1>3 DEF MsgEnd, IInv, TypeOK, ReqInv, HandlerOf, ChannelOf, ClientOf, OutputOf,
                  logVars, lockVars
  <2>3. \A r \in Reqs \ {q} : Untouched(r)
    BY <1>3 DEF MsgEnd, IInv, TypeOK, Untouched, logVars, lockVars
  <2> QED
    BY <2>1, <2>2, <2>3, UntouchedKeeps DEF IInv
<1>4. CASE ClientEnd(q)
  <2>1. TypeOK'
    BY <1>4 DEF ClientEnd, IInv, TypeOK, ReqInv, HandlerOf, logVars, lockVars
  <2>2. ReqInv(q)'
    BY <1>4 DEF ClientEnd, IInv, TypeOK, ReqInv, HandlerOf, ChannelOf, ClientOf, OutputOf,
                  logVars, lockVars
  <2>3. \A r \in Reqs \ {q} : Untouched(r)
    BY <1>4 DEF ClientEnd, IInv, TypeOK, Untouched, logVars, lockVars
  <2> QED
    BY <2>1, <2>2, <2>3, UntouchedKeeps DEF IInv
<1>5. CASE ClientGone(q)
  <2>1. TypeOK'
    BY <1>5 DEF ClientGone, IInv, TypeOK, ReqInv, HandlerOf, logVars, lockVars
  <2>2. ReqInv(q)'
    BY <1>5 DEF ClientGone, IInv, TypeOK, ReqInv, HandlerOf, ChannelOf, ClientOf, OutputOf,
                  logVars, lockVars
  <2>3. \A r \in Reqs \ {q} : Untouched(r)
    BY <1>5 DEF ClientGone, IInv, TypeOK, Untouched, logVars, lockVars
  <2> QED
    BY <2>1, <2>2, <2>3, UntouchedKeeps DEF IInv
<1> QED
  BY <1>1, <1>2, <1>3, <1>4, <1>5 DEF MsgStep

\* A writer of the lock does nothing to requests.
LEMMA WriterKeeps ==
  ASSUME IInv, NEW w \in Writers, WriterLock(w) \/ WriterSection(w)
  PROVE  IInv'
<1>1. TypeOK' /\ \A r \in Reqs : Untouched(r)
  BY DEF IInv, TypeOK, WriterLock, WriterSection, Untouched, logVars, lockVars
<1> QED
  BY <1>1, UntouchedKeeps DEF IInv

\* The invariant holds in every state of every instance.
LEMMA Invariance == Spec => []IInv
<1>1. IInv /\ [Next]_vars => IInv'
  <2> SUFFICES ASSUME IInv, [Next]_vars PROVE IInv'
    OBVIOUS
  <2>1. CASE UNCHANGED vars
    <3>1. TypeOK' /\ \A r \in Reqs : Untouched(r)
      BY <2>1 DEF IInv, TypeOK, vars, Untouched
    <3> QED
      BY <3>1, UntouchedKeeps DEF IInv
  <2> QED
    BY <2>1, HandlerKeeps, WorkerKeeps, MessageKeeps, WriterKeeps DEF Next
<1> QED
  BY <1>1, InitInv, PTL DEF Spec

\* The channel never holds more than BufLen messages, and the other variables of the
\* requests have their types.
THEOREM TypeCorrect == Spec => []TypeOK
<1>1. IInv => TypeOK
  BY DEF IInv
<1> QED
  BY <1>1, Invariance, PTL

\* A worker blocks for ever only when its command has gone: the message goroutine does
\* not stop reading the channel of a command that listens (push.go, save.go, pull.go).
THEOREM OnlyGoneCommandsBlock == Spec => []StuckOnlyWhenGone
<1>1. IInv => StuckOnlyWhenGone
  BY DEF IInv, ReqInv, ChannelOf, StuckOnlyWhenGone, Stuck
<1> QED
  BY <1>1, Invariance, PTL

\* Success is complete: worker done, all messages shown, the tarball of a Save in place.
THEOREM CompleteSuccess == Spec => []SuccessIsComplete
<1>1. IInv => SuccessIsComplete
  BY DEF IInv, TypeOK, ReqInv, HandlerOf, ChannelOf, ClientOf, OutputOf, SuccessIsComplete
<1> QED
  BY <1>1, Invariance, PTL

\* A Save that returns an error has removed its tarball, whichever goroutine failed.
THEOREM FailureLeavesNothing == Spec => []FailedSaveLeavesNothing
<1>1. IInv => FailedSaveLeavesNothing
  BY DEF IInv, ReqInv, OutputOf, FailedSaveLeavesNothing
<1> QED
  BY <1>1, Invariance, PTL
==============================================================================
