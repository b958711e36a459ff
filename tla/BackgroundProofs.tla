-------------------------- MODULE BackgroundProofs --------------------------
(***************************************************************************)
(* Proofs about what the daemon does in the background: the garbage        *)
(* collector, for any number of nodes and ticks, and the subreaper with    *)
(* the waiters it must leave alone, for any number of builds and requests. *)
(***************************************************************************)
EXTENDS GarbageCollector, SubReaper, TLAPS

-----------------------------------------------------------------------------
(* The garbage collector.                                                  *)


\* What an action does to the variables of checkAndExec.
LEMMA GCActionTypes ==
  ASSUME GCTypeOK, [GCNext]_gcVars
  PROVE  GCTypeOK'
<1> USE IntervalAssumption, NoNodeAssumption, MaxNowAssumption
<1>1. CASE Tick
  <2>1. now' \in 0..MaxNow /\ 0..now \subseteq 0..now' /\ 1..now \subseteq 1..now' /\ now' \in 1..now'
    BY <1>1 DEF Tick, GCTypeOK
  <2>2. lastTrigger' \in [Nodes -> 0..now']
    BY <1>1, <2>1 DEF Tick, GCTypeOK
  <2>3. (waiting \cup removing)' \subseteq Nodes \X (1..now')
    BY <1>1, <2>1 DEF Tick, GCTypeOK
  <2> QED
    BY <1>1, <2>1, <2>2, <2>3 DEF Tick, GCTypeOK
<1>2. CASE Cancel
  BY <1>2 DEF Cancel, GCTypeOK
<1>3. ASSUME NEW m \in Names, RemoveGCNode(m)
      PROVE  GCTypeOK'
  BY <1>3 DEF RemoveGCNode, GCTypeOK
<1>4. ASSUME NEW n \in Nodes, RegisterGC(n)
      PROVE  GCTypeOK'
  <2>1. now \in 0..now
    BY DEF GCTypeOK
  <2> QED
    BY <1>4, <2>1 DEF RegisterGC, GCTypeOK, Names
<1>5. ASSUME NEW n \in Nodes, ExecReturn(n)
      PROVE  GCTypeOK'
  BY <1>5 DEF ExecReturn, GCTypeOK
<1>6. ASSUME NEW n \in Nodes, NEW t \in Ticks, CheckAndExec(n, t) \/ RemoveDiscarded(n, t)
      PROVE  GCTypeOK'
  <2>1. CASE Discard(n, t)
    BY <2>1 DEF Discard, GCTypeOK
  <2>2. CASE NotDue(n, t)
    BY <2>2 DEF NotDue, GCTypeOK
  <2>3. CASE Exec(n, t)
    <3>1. t \in 0..now
      BY <2>3 DEF Exec, GCTypeOK
    <3> QED
      BY <2>3, <3>1 DEF Exec, GCTypeOK
  <2>4. CASE RemoveDiscarded(n, t)
    BY <2>4 DEF RemoveDiscarded, GCTypeOK, Names
  <2> QED
    BY <1>6, <2>1, <2>2, <2>3, <2>4 DEF CheckAndExec
<1>7. CASE UNCHANGED gcVars
  BY <1>7 DEF gcVars, GCTypeOK
<1> QED
  BY <1>1, <1>2, <1>3, <1>4, <1>5, <1>6, <1>7 DEF GCNext

\* The variables of the garbage collector keep their types, and no goroutine is
\* stamped with a tick that has not happened.
THEOREM GCTypeCorrect == GCSpec => []GCTypeOK
<1>1. GCInit => GCTypeOK
  <2> SUFFICES ASSUME GCInit
               PROVE  GCTypeOK
    OBVIOUS
  <2>1. now \in 0..MaxNow /\ 0 \in 0..now
    BY MaxNowAssumption DEF GCInit
  <2>2. nodes \in [Names -> Nodes \cup {NoNode}] /\ lastTrigger \in [Nodes -> 0..now]
    BY <2>1 DEF GCInit
  <2> QED
    BY <2>1, <2>2, Zenon DEF GCInit, GCTypeOK
<1>2. GCTypeOK /\ [GCNext]_gcVars => GCTypeOK'
  BY GCActionTypes
<1> QED
  BY <1>1, <1>2, PTL DEF GCSpec

-----------------------------------------------------------------------------
\* Every step starts a function, ends one, or is invisible to RecycleTasks.
LEMMA GCStepRefines ==
  ASSUME [GCNext]_gcVars
  PROVE  [Tasks!Next]_<<running, success>>
<1> USE DEF Tasks!Next, Tasks!Start, Tasks!End
<1>1. CASE Tick \/ Cancel
  BY <1>1 DEF Tick, Cancel
<1>2. ASSUME NEW m \in Names, RemoveGCNode(m)
      PROVE  [Tasks!Next]_<<running, success>>
  BY <1>2 DEF RemoveGCNode
<1>3. ASSUME NEW n \in Nodes, RegisterGC(n) \/ ExecReturn(n)
      PROVE  [Tasks!Next]_<<running, success>>
  BY <1>3 DEF RegisterGC, ExecReturn
<1>4. ASSUME NEW n \in Nodes, NEW t \in Ticks, CheckAndExec(n, t) \/ RemoveDiscarded(n, t)
      PROVE  [Tasks!Next]_<<running, success>>
  <2>1. CASE Exec(n, t)
    BY <2>1 DEF Exec, isDiscarded
  <2>2. CASE Discard(n, t) \/ NotDue(n, t) \/ RemoveDiscarded(n, t)
    BY <2>2 DEF Discard, NotDue, RemoveDiscarded
  <2> QED
    BY <1>4, <2>1, <2>2 DEF CheckAndExec
<1>5. CASE UNCHANGED gcVars
  BY <1>5 DEF gcVars
<1> QED
  BY <1>1, <1>2, <1>3, <1>4, <1>5 DEF GCNext

\* No function registered with the garbage collector overlaps itself, and no
\* once-only one is started after its success, however many goroutines wait.
THEOREM TasksImplemented == GCSpec => ImplementsTasks
<1>1. GCInit => Tasks!Init
  BY DEF GCInit, Tasks!Init
<1>2. [GCNext]_gcVars => [Tasks!Next]_<<running, success>>
  BY GCStepRefines
<1> QED
  BY <1>1, <1>2, PTL DEF GCSpec, ImplementsTasks, Tasks!Spec

-----------------------------------------------------------------------------
\* A step moves the trigger of a registered node forward by an interval or not at all.
LEMMA StepSpaces ==
  ASSUME GCTypeOK, [GCNext]_gcVars, NEW k \in Nodes \ fresh, lastTrigger'[k] # lastTrigger[k]
  PROVE  lastTrigger'[k] - lastTrigger[k] >= IntervalOf[k]
<1>1. PICK n \in Nodes, t \in Ticks : Exec(n, t)
  <2>1. ~(Tick \/ Cancel) /\ ~UNCHANGED gcVars
    BY DEF Tick, Cancel, gcVars
  <2>2. ASSUME NEW m \in Names, RemoveGCNode(m)
        PROVE  FALSE
    BY <2>2 DEF RemoveGCNode
  <2>3. ASSUME NEW n \in Nodes, RegisterGC(n) \/ ExecReturn(n)
        PROVE  FALSE
    BY <2>3 DEF RegisterGC, ExecReturn, GCTypeOK
  <2>4. ASSUME NEW n \in Nodes, NEW t \in Ticks, Discard(n, t) \/ NotDue(n, t) \/ RemoveDiscarded(n, t)
        PROVE  FALSE
    BY <2>4 DEF Discard, NotDue, RemoveDiscarded
  <2> QED
    BY <2>1, <2>2, <2>3, <2>4 DEF GCNext, CheckAndExec
<1>2. k = n /\ lastTrigger'[k] = t
  BY <1>1 DEF Exec, GCTypeOK
<1> QED
  BY <1>1, <1>2 DEF Exec, isReadyToRun

\* A goroutine that was delayed never moves the trigger of its node backwards, or
\* forwards by less than the interval.
THEOREM TriggersCorrect == GCSpec => TriggersSpaced
<1>1. GCTypeOK /\ [GCNext]_gcVars
        => [\A n \in Nodes \ fresh :
              lastTrigger'[n] # lastTrigger[n]
                => lastTrigger'[n] - lastTrigger[n] >= IntervalOf[n]]_gcVars
  BY StepSpaces, SMTT(30)
<1> QED
  BY <1>1, GCTypeCorrect, PTL DEF GCSpec, TriggersSpaced

-----------------------------------------------------------------------------
(* The subreaper.                                                          *)


\* An action of one RUN instruction in the composed system.
LEMMA BuildStepTypes ==
  ASSUME TypeOK, NEW b \in Runs, ContextDone(b) \/ RunStart(b) \/ RunStep(b)
  PROVE  RunTypeOK'
<1> USE DEF TypeOK, RunTypeOK, mainVars, waitVars, procVars
<1>1. CASE ContextDone(b)
  BY <1>1 DEF ContextDone
<1>2. CASE RunStart(b)
  <2>1. rpc' \in [Runs -> {"idle", "select", "state", "kill", "delete", "ok", "err"}]
        /\ ret' \in [Runs -> {"none", "ok", "err", "ctx"}]
    BY <1>2 DEF RunStart
  <2>2. apc' \in [Runs -> {"idle", "run", "wait", "ok", "err"}]
        /\ bpc' \in [Runs -> {"idle", "poll", "wait", "ok", "err"}]
    BY <1>2, SMTT(30) DEF RunStart
  <2> QED
    BY <1>2, <2>1, <2>2 DEF RunStart
<1>3. CASE RuncStep(b)
  <2>1. CASE RuncCreate(b)
    BY <2>1 DEF RuncCreate
  <2>2. CASE RuncWritePid(b)
    BY <2>2 DEF RuncWritePid
  <2>3. CASE RuncExit(b)
    BY <2>3 DEF RuncExit
  <2>4. CASE RuncFail(b)
    BY <2>4 DEF RuncFail
  <2>5. CASE RuncKilled(b)
    BY <2>5 DEF RuncKilled
  <2> QED
    BY <1>3, <2>1, <2>2, <2>3, <2>4, <2>5 DEF RuncStep
<1>4. CASE ContainerExit(b)
  BY <1>4 DEF ContainerExit
<1>5. CASE AStep(b)
  <2>1. CASE ARun(b)
    BY <2>1 DEF ARun
  <2>2. CASE AWait(b)
    BY <2>2 DEF AWait
  <2> QED
    BY <1>5, <2>1, <2>2 DEF AStep
<1>6. CASE BStep(b)
  <2>1. CASE BPoll(b)
    BY <2>1 DEF BPoll
  <2>2. CASE BWaitFails(b)
    BY <2>2 DEF BWaitFails
  <2>3. CASE BWait(b)
    BY <2>3, SMTT(30) DEF BWait
  <2> QED
    BY <1>6, <2>1, <2>2, <2>3 DEF BStep
<1>7. CASE MainStep(b)
  <2>1. CASE SelectContext(b)
    BY <2>1 DEF SelectContext
  <2>2. CASE SelectGroup(b)
    BY <2>2 DEF SelectGroup
  <2>3. CASE DeferState(b)
    BY <2>3 DEF DeferState
  <2>4. CASE DeferKill(b)
    BY <2>4 DEF DeferKill
  <2>5. CASE DeferDelete(b)
    BY <2>5 DEF DeferDelete
  <2> QED
    BY <1>7, <2>1, <2>2, <2>3, <2>4, <2>5 DEF MainStep
<1> QED
  BY <1>1, <1>2, <1>3, <1>4, <1>5, <1>6, <1>7 DEF RunStep

\* The types of the runner hold as long as its variables do not change.
LEMMA RunTypesKept ==
  ASSUME RunTypeOK, UNCHANGED runVars
  PROVE  RunTypeOK'
BY DEF RunTypeOK, runVars

\* Every step keeps the types.
LEMMA TypesStep ==
  ASSUME TypeOK, [Next]_vars
  PROVE  TypeOK'
<1>1. ASSUME NEW b \in Runs, BuildRun(b) \/ BuildStep(b)
      PROVE  TypeOK'
  <2>1. RunTypeOK'
    BY <1>1, BuildStepTypes DEF BuildRun, BuildStep
  <2> QED
    BY <1>1, <2>1 DEF BuildRun, BuildStep, TypeOK, daemonVars
<1>2. ASSUME NEW b \in Runs, NewBuilderLock(b) \/ NewBuilder(b) \/ DeleteBuilderLock(b) \/ DeleteBuilder(b)
      PROVE  TypeOK'
  <2>1. RunTypeOK'
    BY <1>2, RunTypesKept DEF NewBuilderLock, NewBuilder, DeleteBuilderLock, DeleteBuilder, TypeOK
  <2>2. breg' \in [Runs -> {"idle", "new", "run", "delete", "done"}]
    BY <1>2 DEF NewBuilderLock, NewBuilder, DeleteBuilderLock, DeleteBuilder, TypeOK
  <2> QED
    BY <1>2, <2>1, <2>2 DEF NewBuilderLock, NewBuilder, DeleteBuilderLock, DeleteBuilder, TypeOK
<1>3. ASSUME NEW o \in Ops, OpLock(o) \/ OpStep(o) \/ ChildExit(o)
      PROVE  TypeOK'
  <2>1. RunTypeOK'
    BY <1>3, RunTypesKept DEF OpLock, OpStep, OpUnpack, OpWait, OpUnlock, ChildExit, TypeOK
  <2>2. /\ opc' \in [Ops -> {"idle", "locked", "wait", "unlock", "done"}]
        /\ ores' \in [Ops -> {"none", "ok", "err"}]
    BY <1>3 DEF OpLock, OpStep, OpUnpack, OpWait, OpUnlock, ChildExit, TypeOK
  <2>3. child' \in [Ops -> {"none", "running", "zombie", "reaped", "stolen"}]
    BY <1>3 DEF OpLock, OpStep, OpUnpack, OpWait, OpUnlock, ChildExit, TypeOK
  <2> QED
    BY <1>3, <2>1, <2>2, <2>3 DEF OpLock, OpStep, OpUnpack, OpWait, OpUnlock, ChildExit, TypeOK
<1>4. CASE ReaperLock \/ ReaperSkip
  <2>1. RunTypeOK'
    BY <1>4, RunTypesKept DEF ReaperLock, ReaperSkip, TypeOK
  <2> QED
    BY <1>4, <2>1 DEF ReaperLock, ReaperSkip, TypeOK
<1>5. CASE Reap
  <2>1. runc' \in [Runs -> {"none", "running", "ok", "bad", "reaped", "stolen"}]
    BY <1>5 DEF Reap, ReapChildren, TypeOK, RunTypeOK
  <2>2. container' \in [Runs -> {"none", "running", "zero", "nonzero", "reaped", "stolen"}]
    BY <1>5, SMTT(30) DEF Reap, ReapChildren, TypeOK, RunTypeOK
  <2>3. child' \in [Ops -> {"none", "running", "zombie", "reaped", "stolen"}]
    BY <1>5 DEF Reap, ReapChildren, TypeOK
  <2> QED
    BY <1>5, <2>1, <2>2, <2>3 DEF Reap, TypeOK, RunTypeOK, mainVars, waitVars
<1>6. CASE UNCHANGED vars
  BY <1>6, RunTypesKept, SMTT(30) DEF vars, runVars, TypeOK
<1> QED
  BY <1>1, <1>2, <1>3, <1>4, <1>5, <1>6 DEF Next, ReaperStep, BuilderStep

-----------------------------------------------------------------------------
\* A build has processes only after its RUN instruction was started, which is while
\* it is registered; it is deleted when the instruction has returned.
RunInv(r) ==
  /\ breg[r] \in {"idle", "new"} => rpc[r] = "idle"
  /\ rpc[r] = "idle" => /\ runc[r] = "none" /\ container[r] = "none"
                        /\ apc[r] = "idle" /\ bpc[r] = "idle"
  /\ r \in builders <=> breg[r] \in {"run", "delete"}
  /\ breg[r] \in {"delete", "done"} => Returned(r)
  /\ "stolen" \in {runc[r], container[r]} => Returned(r)

\* Where the status that Run looks at comes from.
ReportInv(r) ==
  /\ rpc[r] = "ok" => ret[r] = "ok"
  /\ ret[r] = "ok" => bpc[r] = "ok" /\ wstatus[r] = "zero"
  /\ apc[r] \in {"idle", "run"} => runc[r] = "none" /\ container[r] = "none"
  /\ container[r] \in {"zero", "nonzero"} => exit[r] = container[r]
  /\ container[r] = "reaped" => bpc[r] = "ok"
  /\ container[r] = "stolen" => Returned(r)
  /\ bpc[r] = "ok" => \/ wErr[r] = "early" \/ rpc[r] = "err"
                      \/ /\ wstatus[r] = exit[r]
                         /\ apc[r] \notin {"idle", "run"}
                         /\ runc[r] # "running" /\ container[r] # "running"

\* Why the deferred function finds what it must kill: when the goroutines are over no
\* container is started any more, and the runtime has a record of one that still runs.
KillInv(r) ==
  /\ rpc[r] \in {"idle", "select"} <=> ret[r] = "none"
  /\ ret[r] \in {"ok", "err"} => apc[r] \in {"idle", "ok", "err"} /\ bpc[r] \in {"idle", "ok", "err"}
  /\ apc[r] # "wait" => runc[r] # "running"
  /\ container[r] = "running" /\ rpc[r] \notin {"delete", "ok", "err"} => known[r]
  /\ (rpc[r] \in {"delete", "ok", "err"} /\ ret[r] # "ctx" /\ bpc[r] = "ok" /\ container[r] = "running")
     => killed[r]

\* A request has a process only while it holds the lock.
OpInv(o) ==
  /\ o \in readers <=> opc[o] \in {"locked", "wait", "unlock"}
  /\ child[o] \in {"running", "zombie"} => opc[o] = "wait"
  /\ child[o] # "stolen"

IInv ==
  /\ TypeOK
  /\ \A r \in Runs : RunInv(r) /\ ReportInv(r) /\ KillInv(r)
  /\ \A o \in Ops : OpInv(o)

\* The variables of a RUN instruction change only for one build at a time, or by Reap.
LEMMA RunFrame ==
  ASSUME TypeOK, NEW b \in Runs, NEW r \in Runs, r # b, ContextDone(b) \/ RunStart(b) \/ RunStep(b)
  PROVE  /\ UNCHANGED <<rpc[r], ret[r], apc[r], bpc[r]>>
         /\ UNCHANGED <<wstatus[r], wErr[r], runc[r], container[r], exit[r]>>
         /\ UNCHANGED <<known[r], killed[r]>>
<1> USE DEF TypeOK, RunTypeOK, mainVars, waitVars, procVars
<1>1. CASE ContextDone(b) \/ RunStart(b)
  BY <1>1, SMTT(30) DEF ContextDone, RunStart
<1>2. CASE RuncStep(b)
  BY <1>2 DEF RuncStep, RuncCreate, RuncWritePid, RuncExit, RuncFail, RuncKilled
<1>3. CASE ContainerExit(b)
  BY <1>3, SMTT(30) DEF ContainerExit
<1>4. CASE AStep(b)
  BY <1>4, SMTT(30) DEF AStep, ARun, AWait
<1>5. CASE BStep(b)
  BY <1>5, SMTT(30) DEF BStep, BPoll, BWaitFails, BWait
<1>6. CASE MainStep(b)
  BY <1>6, SMTT(30) DEF MainStep, SelectContext, SelectGroup, DeferState, DeferKill, DeferDelete
<1> QED
  BY <1>1, <1>2, <1>3, <1>4, <1>5, <1>6, ZenonT(30) DEF RunStep

\* A step of a RUN instruction keeps its own invariants.
LEMMA RunInvStep ==
  ASSUME TypeOK, NEW b \in Runs, RunInv(b), ReportInv(b), UNCHANGED <<breg, builders>>,
         ContextDone(b) \/ (breg[b] = "run" /\ RunStart(b)) \/ RunStep(b)
  PROVE  RunInv(b)' /\ ReportInv(b)'
<1>0. /\ rpc \in [Runs -> {"idle", "select", "state", "kill", "delete", "ok", "err"}]
      /\ ret \in [Runs -> {"none", "ok", "err", "ctx"}]
      /\ apc \in [Runs -> {"idle", "run", "wait", "ok", "err"}]
      /\ bpc \in [Runs -> {"idle", "poll", "wait", "ok", "err"}]
      /\ wstatus \in [Runs -> {"zero", "nonzero"}] /\ wErr \in [Runs -> {"no", "early", "late"}]
      /\ runc \in [Runs -> {"none", "running", "ok", "bad", "reaped", "stolen"}]
      /\ container \in [Runs -> {"none", "running", "zero", "nonzero", "reaped", "stolen"}]
      /\ exit \in [Runs -> {"none", "zero", "nonzero"}]
  BY SMTT(30) DEF TypeOK, RunTypeOK
<1> USE <1>0 DEF RunInv, ReportInv, Returned, mainVars, waitVars, procVars
<1>1. CASE ContextDone(b)
  BY <1>1, SMTT(30) DEF ContextDone
<1>2. CASE breg[b] = "run" /\ RunStart(b)
  BY <1>2, SMTT(30) DEF RunStart
<1>3. CASE RuncStep(b)
  <2>1. CASE RuncCreate(b)
    BY <2>1, SMTT(30) DEF RuncCreate
  <2>2. CASE RuncWritePid(b)
    BY <2>2, SMTT(30) DEF RuncWritePid
  <2>3. CASE RuncExit(b)
    BY <2>3, SMTT(30) DEF RuncExit
  <2>4. CASE RuncFail(b)
    BY <2>4, SMTT(30) DEF RuncFail
  <2>5. CASE RuncKilled(b)
    BY <2>5, SMTT(30) DEF RuncKilled
  <2> QED
    BY <1>3, <2>1, <2>2, <2>3, <2>4, <2>5, ZenonT(30) DEF RuncStep
<1>4. CASE ContainerExit(b)
  BY <1>4, SMTT(30) DEF ContainerExit
<1>5. CASE AStep(b)
  <2>1. CASE ARun(b)
    BY <2>1, ZenonT(30) DEF ARun
  <2>2. CASE AWait(b)
    BY <2>2, SMTT(30) DEF AWait
  <2> QED
    BY <1>5, <2>1, <2>2, ZenonT(30) DEF AStep
<1>6. CASE BStep(b)
  <2>1. CASE BPoll(b)
    BY <2>1, ZenonT(30) DEF BPoll
  <2>2. CASE BWaitFails(b)
    <3>1. bpc[b] = "wait" /\ ret[b] # "ok" /\ container[b] # "reaped"
      BY <2>2, SMTT(30) DEF BWaitFails
    <3>2. runc[b] = "running" \/ rpc[b] = "err"
      BY <2>2, <3>1, SMTT(30) DEF BWaitFails, NoChild
    <3>3. /\ bpc'[b] = "ok" /\ wstatus'[b] = "zero"
          /\ wErr'[b] = IF runc[b] = "running" THEN "early" ELSE "late"
          /\ UNCHANGED <<rpc, ret, apc, runc, container, exit>>
      BY <2>2, SMTT(30) DEF BWaitFails
    <3> QED
      BY <3>1, <3>2, <3>3
  <2>3. CASE BWait(b)
    BY <2>3, SMTT(30) DEF BWait, NoChild
  <2> QED
    BY <1>6, <2>1, <2>2, <2>3, ZenonT(30) DEF BStep
<1>7. CASE MainStep(b)
  <2>1. CASE SelectContext(b)
    BY <2>1, SMTT(30) DEF SelectContext
  <2>2. CASE SelectGroup(b)
    BY <2>2, SMTT(30) DEF SelectGroup
  <2>3. CASE DeferState(b)
    BY <2>3, SMTT(30) DEF DeferState
  <2>4. CASE DeferKill(b)
    BY <2>4, SMTT(30) DEF DeferKill
  <2>5. CASE DeferDelete(b)
    BY <2>5, SMTT(30) DEF DeferDelete
  <2> QED
    BY <1>7, <2>1, <2>2, <2>3, <2>4, <2>5, ZenonT(30) DEF MainStep
<1> QED
  BY <1>1, <1>2, <1>3, <1>4, <1>5, <1>6, <1>7, Zenon DEF RunStep

\* A step of a RUN instruction keeps the invariant of its deferred kill.
LEMMA KillInvStep ==
  ASSUME TypeOK, NEW b \in Runs, RunInv(b), KillInv(b),
         ContextDone(b) \/ RunStart(b) \/ RunStep(b)
  PROVE  KillInv(b)'
<1>0. /\ rpc \in [Runs -> {"idle", "select", "state", "kill", "delete", "ok", "err"}]
      /\ ret \in [Runs -> {"none", "ok", "err", "ctx"}]
      /\ apc \in [Runs -> {"idle", "run", "wait", "ok", "err"}]
      /\ bpc \in [Runs -> {"idle", "poll", "wait", "ok", "err"}]
      /\ runc \in [Runs -> {"none", "running", "ok", "bad", "reaped", "stolen"}]
      /\ container \in [Runs -> {"none", "running", "zero", "nonzero", "reaped", "stolen"}]
      /\ known \in [Runs -> BOOLEAN] /\ killed \in [Runs -> BOOLEAN]
  BY SMTT(30) DEF TypeOK, RunTypeOK
<1>00. rpc[b] = "idle" => /\ runc[b] = "none" /\ container[b] = "none"
                          /\ apc[b] = "idle" /\ bpc[b] = "idle"
  BY Zenon DEF RunInv, Returned
<1> USE <1>0 DEF KillInv, mainVars, waitVars, procVars
<1>1. CASE ContextDone(b)
  BY <1>1, SMTT(30) DEF ContextDone
<1>2. CASE RunStart(b)
  BY <1>00, <1>2, SMTT(30) DEF RunStart
<1>3. CASE RuncStep(b)
  <2>1. CASE RuncCreate(b)
    BY <2>1, SMTT(30) DEF RuncCreate
  <2>2. CASE RuncWritePid(b) \/ RuncExit(b) \/ RuncKilled(b)
    BY <2>2, SMTT(30) DEF RuncWritePid, RuncExit, RuncKilled
  <2>3. CASE RuncFail(b)
    BY <2>3, SMTT(30) DEF RuncFail
  <2> QED
    BY <1>3, <2>1, <2>2, <2>3, Zenon DEF RuncStep
<1>4. CASE ContainerExit(b)
  BY <1>4, SMTT(30) DEF ContainerExit
<1>5. CASE AStep(b)
  BY <1>5, SMTT(30) DEF AStep, ARun, AWait
<1>6. CASE BStep(b)
  <2>1. CASE BPoll(b)
    BY <2>1, SMTT(30) DEF BPoll
  <2>2. CASE BWaitFails(b)
    BY <2>2, SMTT(30) DEF BWaitFails
  <2>3. CASE BWait(b)
    BY <2>3, SMTT(30) DEF BWait
  <2> QED
    BY <1>6, <2>1, <2>2, <2>3, ZenonT(30) DEF BStep
<1>7. CASE MainStep(b)
  <2>1. CASE SelectContext(b) \/ SelectGroup(b)
    BY <2>1, ZenonT(30) DEF SelectContext, SelectGroup
  <2>2. CASE DeferState(b)
    BY <2>2 DEF DeferState
  <2>3. CASE DeferKill(b)
    BY <2>3, SMTT(30) DEF DeferKill
  <2>4. CASE DeferDelete(b)
    BY <2>4 DEF DeferDelete
  <2> QED
    BY <1>7, <2>1, <2>2, <2>3, <2>4, ZenonT(30) DEF MainStep
<1> QED
  BY <1>1, <1>2, <1>3, <1>4, <1>5, <1>6, <1>7, Zenon DEF RunStep

\* Every step keeps the invariants of every RUN instruction: when Reap takes a
\* status, no build is registered, so the status belongs to a build that is over.
LEMMA RunsStep ==
  ASSUME IInv, [Next]_vars, NEW r \in Runs
  PROVE  RunInv(r)' /\ ReportInv(r)' /\ KillInv(r)'
<1>0. TypeOK /\ RunInv(r) /\ ReportInv(r) /\ KillInv(r)
  BY DEF IInv
<1>1. ASSUME NEW b \in Runs, BuildRun(b) \/ BuildStep(b)
      PROVE  RunInv(r)' /\ ReportInv(r)' /\ KillInv(r)'
  <2>1. /\ UNCHANGED <<breg, builders>>
        /\ ContextDone(b) \/ (breg[b] = "run" /\ RunStart(b)) \/ RunStep(b)
    BY <1>1 DEF BuildRun, BuildStep, daemonVars
  <2>2. CASE r = b
    BY <1>0, <2>1, <2>2, RunInvStep, KillInvStep, SMTT(30)
  <2>3. CASE r # b
    <3>1. /\ UNCHANGED <<rpc[r], ret[r], apc[r], bpc[r]>>
          /\ UNCHANGED <<wstatus[r], wErr[r], runc[r], container[r], exit[r]>>
          /\ UNCHANGED <<known[r], killed[r]>>
      BY <1>0, <2>1, <2>3, RunFrame, Zenon
    <3> QED
      <4>1. RunInv(r)'
        BY <1>0, <2>1, <3>1, Zenon DEF RunInv, Returned
      <4>2. ReportInv(r)'
        BY <1>0, <2>1, <3>1, Zenon DEF ReportInv, Returned
      <4>3. KillInv(r)'
        BY <1>0, <2>1, <3>1, Zenon DEF KillInv, Returned
      <4> QED
        BY <4>1, <4>2, <4>3
  <2> QED
    BY <2>2, <2>3
<1>2. ASSUME NEW b \in Runs, NewBuilderLock(b) \/ NewBuilder(b) \/ DeleteBuilderLock(b) \/ DeleteBuilder(b)
      PROVE  RunInv(r)' /\ ReportInv(r)' /\ KillInv(r)'
  <2>1. /\ breg \in [Runs -> {"idle", "new", "run", "delete", "done"}]
        /\ UNCHANGED <<rpc, ret, apc, bpc, wstatus, wErr, runc, container, exit, known, killed>>
    BY <1>0, <1>2, SMTT(30) DEF TypeOK, NewBuilderLock, NewBuilder, DeleteBuilderLock, DeleteBuilder, runVars
  <2>2. RunInv(r)'
    BY <1>0, <1>2, <2>1, ZenonT(30) DEF NewBuilderLock, NewBuilder, DeleteBuilderLock, DeleteBuilder, RunInv, Returned
  <2>3. ReportInv(r)' /\ KillInv(r)'
    BY <1>0, <2>1, SMTT(30) DEF ReportInv, KillInv, Returned
  <2> QED
    BY <2>2, <2>3, SMTT(30)
<1>3. ASSUME NEW o \in Ops, OpLock(o) \/ OpStep(o) \/ ChildExit(o)
      PROVE  RunInv(r)' /\ ReportInv(r)' /\ KillInv(r)'
  <2>1. UNCHANGED <<rpc, ret, apc, bpc, wstatus, wErr, runc, container, exit, known, killed, breg, builders>>
    BY <1>3 DEF OpLock, OpStep, OpUnpack, OpWait, OpUnlock, ChildExit, runVars
  <2> QED
    <3>1. RunInv(r)'
      BY <1>0, <2>1, Zenon DEF RunInv, Returned
    <3>2. ReportInv(r)'
      BY <1>0, <2>1, Zenon DEF ReportInv, Returned
    <3>3. KillInv(r)'
      BY <1>0, <2>1, Zenon DEF KillInv, Returned
    <3> QED
      BY <3>1, <3>2, <3>3
<1>4. CASE ReaperLock \/ ReaperSkip \/ UNCHANGED vars
  <2>1. UNCHANGED <<rpc, ret, apc, bpc, wstatus, wErr, runc, container, exit, known, killed, breg, builders>>
    BY <1>4, SMTT(30) DEF ReaperLock, ReaperSkip, vars, runVars
  <2> QED
    BY <1>0, <2>1 DEF RunInv, ReportInv, KillInv, Returned
<1>5. CASE Reap
  <2>1. rpc[r] = "idle" \/ Returned(r)
    <3>1. breg[r] \in {"idle", "new", "run", "delete", "done"} /\ r \notin builders
      BY <1>0, <1>5, SMTT(30) DEF Reap, TypeOK
    <3> QED
      BY <1>0, <3>1, Zenon DEF RunInv, Returned
  <2>2. /\ runc'[r] = IF runc[r] \in {"ok", "bad"} THEN "stolen" ELSE runc[r]
        /\ container'[r] = IF container[r] \in {"zero", "nonzero"} /\ runc[r] # "running"
                           THEN "stolen" ELSE container[r]
        /\ UNCHANGED <<rpc, ret, apc, bpc, wstatus, wErr, exit, known, killed, breg, builders>>
    BY <1>5, Zenon DEF Reap, ReapChildren, mainVars, waitVars
  <2> QED
    BY <1>0, <2>1, <2>2, ZenonT(30) DEF RunInv, ReportInv, KillInv, Returned
<1> QED
  BY <1>1, <1>2, <1>3, <1>4, <1>5 DEF Next, ReaperStep, BuilderStep

\* Every step keeps the invariant of every request: Reap finds no reader.
LEMMA OpsStep ==
  ASSUME IInv, [Next]_vars, NEW p \in Ops
  PROVE  OpInv(p)'
<1>0. /\ OpInv(p)
      /\ opc \in [Ops -> {"idle", "locked", "wait", "unlock", "done"}]
      /\ child \in [Ops -> {"none", "running", "zombie", "reaped", "stolen"}]
  BY SMTT(30) DEF IInv, TypeOK
<1>1. ASSUME NEW b \in Runs, NewBuilderLock(b) \/ BuilderStep(b) \/ BuildStep(b)
      PROVE  OpInv(p)'
  BY <1>0, <1>1 DEF NewBuilderLock, BuilderStep, NewBuilder, BuildRun, DeleteBuilderLock, DeleteBuilder,
                    BuildStep, daemonVars, OpInv
<1>2. ASSUME NEW o \in Ops, OpLock(o) \/ OpStep(o) \/ ChildExit(o)
      PROVE  OpInv(p)'
  <2>1. CASE OpLock(o)
    BY <1>0, <2>1 DEF OpLock, OpInv
  <2>2. CASE OpUnpack(o)
    BY <1>0, <2>2 DEF OpUnpack, OpInv
  <2>3. CASE OpWait(o)
    BY <1>0, <2>3 DEF OpWait, OpInv
  <2>4. CASE OpUnlock(o)
    BY <1>0, <2>4 DEF OpUnlock, OpInv
  <2>5. CASE ChildExit(o)
    BY <1>0, <2>5, SMTT(30) DEF ChildExit, OpInv
  <2> QED
    BY <1>2, <2>1, <2>2, <2>3, <2>4, <2>5 DEF OpStep
<1>3. CASE ReaperLock \/ ReaperSkip \/ UNCHANGED vars
  BY <1>0, <1>3, SMTT(30) DEF ReaperLock, ReaperSkip, vars, OpInv
<1>4. CASE Reap
  <2>1. child[p] # "zombie"
    BY <1>0, <1>4 DEF Reap, CanLock, OpInv
  <2> QED
    BY <1>0, <1>4, <2>1, Zenon DEF Reap, ReapChildren, OpInv
<1> QED
  BY <1>1, <1>2, <1>3, <1>4 DEF Next, ReaperStep

\* IInv is an invariant.
THEOREM Invariance == Spec => []IInv
<1>1. Init => IInv
  <2> SUFFICES ASSUME Init
               PROVE  IInv
    OBVIOUS
  <2>1. TypeOK
    BY SMTT(30) DEF Init, RunInit, TypeOK, RunTypeOK
  <2>2. ASSUME NEW r \in Runs
        PROVE  RunInv(r) /\ ReportInv(r) /\ KillInv(r)
    BY DEF Init, RunInit, RunInv, ReportInv, KillInv, Returned
  <2>3. ASSUME NEW o \in Ops
        PROVE  OpInv(o)
    BY DEF Init, OpInv
  <2> QED
    BY <2>1, <2>2, <2>3, SMTT(30) DEF IInv
<1>2. IInv /\ [Next]_vars => IInv'
  <2> SUFFICES ASSUME IInv, [Next]_vars
               PROVE  IInv'
    OBVIOUS
  <2>1. TypeOK'
    BY TypesStep DEF IInv
  <2>2. ASSUME NEW r \in Runs
        PROVE  RunInv(r)' /\ ReportInv(r)' /\ KillInv(r)'
    BY RunsStep
  <2>3. ASSUME NEW o \in Ops
        PROVE  OpInv(o)'
    BY OpsStep
  <2> QED
    BY <2>1, <2>2, <2>3 DEF IInv
<1> QED
  BY <1>1, <1>2, PTL DEF Spec

\* The subreaper leaves every status alone that somebody still waits for, for any
\* number of builds and of Pull, Load and Import requests.
THEOREM StatusNotStolen == Spec => []NoStolenStatus
<1>1. IInv => NoStolenStatus
  BY DEF IInv, RunInv, OpInv, NoStolenStatus
<1> QED
  BY <1>1, Invariance, PTL

\* With the subreaper at work, a RUN instruction whose process could be waited for
\* never hides the failure of its container: no status is taken before B waits.
THEOREM FailureReportCorrect == Spec => []FailureReported
<1>1. IInv => FailureReported
  BY SMTT(30) DEF IInv, ReportInv, FailureReported
<1> QED
  BY <1>1, Invariance, PTL

\* A RUN instruction that was not cancelled leaves no container running behind it that
\* was found and not killed, whatever order runc, the container, the two goroutines and
\* the deferred function of runContainer act in.
THEOREM NoContainerLeft == Spec => []NoRunaway
<1>1. IInv => NoRunaway
  BY DEF IInv, KillInv, NoRunaway, Returned
<1> QED
  BY <1>1, Invariance, PTL
=============================================================================
