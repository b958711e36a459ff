------------------------- MODULE BuildSessionProofs -------------------------
(***************************************************************************)
(* Proofs about BuildSession, for any set of builds, any assignment of     *)
(* entities, any length of the log channel and any number of messages.     *)
(* The invariants of BuildSession follow from IInv, whose parts are shown  *)
(* to be inductive one after the other; with them, BuildSession is shown   *)
(* to implement BuildService.                                              *)
(***************************************************************************)
EXTENDS BuildSession, TLAPS

-----------------------------------------------------------------------------
(* Types, and the capacity of the log channel.                             *)

\* An entry of the entities map is written.
LEMMA EntityUpdate ==
  ASSUME NEW f \in [Entities -> Builds \cup {NoBuild}], NEW e, NEW v \in Builds \cup {NoBuild}
  PROVE  [f EXCEPT ![e] = v] \in [Entities -> Builds \cup {NoBuild}]
OBVIOUS

\* Every variable keeps its type.
LEMMA TypesStep == VariableTypes /\ [Next]_vars => VariableTypes'
<1> SUFFICES ASSUME VariableTypes, [Next]_vars PROVE VariableTypes'
  OBVIOUS
<1> USE DEF VariableTypes, BuildPCs, StatusPCs, Chans, NoChan, Returned, clientVars,
        buildVars, statusVars, syncVars, registryVars, logVars
<1>1. ASSUME NEW b \in Builds, RunBuildCall(b) PROVE VariableTypes'
  BY <1>1 DEF RunBuildCall
<1>2. ASSUME NEW b \in Builds, RunBuildReturn(b) \/ RunBuildFail(b) PROVE VariableTypes'
  <2>1. PICK r \in {"ok", "err"} : EndRunBuild(b, r)
    BY <1>2 DEF RunBuildReturn, RunBuildFail
  <2>2. UNCHANGED <<buildVars, statusVars, syncVars, registryVars, logVars, crashed>>
    BY <1>2 DEF RunBuildReturn, RunBuildFail
  <2> QED
    BY <2>1, <2>2 DEF EndRunBuild
<1>3. ASSUME NEW b \in Builds, RunStatusCall(b) \/ RunStatusReturn(b) PROVE VariableTypes'
  <2>1. UNCHANGED <<buildVars, schan, sres, syncVars, registryVars, logVars, crashed>>
    BY <1>3 DEF RunStatusCall, RunStatusReturn
  <2>2. CASE \E r \in {"ok", "err"} : EndRunStatus(b, r) /\ UNCHANGED spc
    BY <2>1, <2>2 DEF EndRunStatus
  <2>3. CASE /\ cstatus' = [cstatus EXCEPT ![b] = "called"]
             /\ spc' = [spc EXCEPT ![b] = "sync"]
             /\ UNCHANGED <<cancelled, cbuild, got>>
    BY <2>1, <2>3
  <2> QED
    BY <1>3, <2>2, <2>3 DEF RunStatusCall, RunStatusReturn
<1>4. ASSUME NEW b \in Builds, ClientDies(b) PROVE VariableTypes'
  BY <1>4 DEF ClientDies
<1>5. ASSUME NEW b \in Builds, NewBuilderFail(b) PROVE VariableTypes'
  BY <1>5 DEF NewBuilderFail, BuildGoto
<1>6. ASSUME NEW b \in Builds, NewBuilderDuplicate(b) PROVE VariableTypes'
  BY <1>6 DEF NewBuilderDuplicate, BuildGoto
<1>7. ASSUME NEW b \in Builds, NewBuilderPrepare(b) PROVE VariableTypes'
  BY <1>7 DEF NewBuilderPrepare, BuildGoto
<1>8. ASSUME NEW b \in Builds, NewBuilderRegister(b) PROVE VariableTypes'
  <2>1. builders' \in SUBSET Builds
    BY <1>8 DEF NewBuilderRegister
  <2>2. entities' \in [Entities -> Builds \cup {NoBuild}]
    BY <1>8, EntityUpdate DEF NewBuilderRegister
  <2> QED
    BY <1>8, <2>1, <2>2 DEF NewBuilderRegister, BuildGoto
<1>9. ASSUME NEW b \in Builds, BuildSync(b) PROVE VariableTypes'
  BY <1>9 DEF BuildSync, BuildGoto, syncBuildStatus
<1>10. ASSUME NEW b \in Builds, Handoff(b) PROVE VariableTypes'
  BY <1>10 DEF Handoff, BuildGoto
<1>11. ASSUME NEW b \in Builds, closeStatusChan(b) PROVE VariableTypes'
  BY <1>11 DEF closeStatusChan, BuildGoto
<1>12. ASSUME NEW b \in Builds, BuildFail(b) \/ ExecFail(b) \/ ContainerCancelled(b) PROVE
      VariableTypes'
  <2>1. PICK pc : BuildFails(b, pc)
    BY <1>12 DEF BuildFail, ExecFail, ContainerCancelled
  <2> QED
    BY <2>1 DEF BuildFails, BuildGoto
<1>13. ASSUME NEW b \in Builds, NextCommand(b) \/ ExecDone(b) \/ BuildSuccess(b) \/
      Cleanup(b) PROVE VariableTypes'
  BY <1>13 DEF NextCommand, BuildGoto, ExecDone, BuildSuccess, Cleanup
<1>14. ASSUME NEW b \in Builds, LogPrint(b) PROVE VariableTypes'
  BY <1>14 DEF LogPrint, AfterPrint
<1>15. ASSUME NEW b \in Builds, ExecRun(b) PROVE VariableTypes'
  BY <1>15 DEF ExecRun, BuildGoto
<1>16. ASSUME NEW b \in Builds, ContainerExit(b) PROVE VariableTypes'
  BY <1>16 DEF ContainerExit
<1>17. ASSUME NEW b \in Builds, CloseContent(b) PROVE VariableTypes'
  BY <1>17 DEF CloseContent, BuildGoto
<1>18. ASSUME NEW b \in Builds, CleanResources(b) PROVE VariableTypes'
  BY <1>18 DEF CleanResources, BuildGoto
<1>19. ASSUME NEW b \in Builds, deleteBuilder(b) PROVE VariableTypes'
  BY <1>19 DEF deleteBuilder, BuildGoto
<1>20. ASSUME NEW b \in Builds, BuildEnd(b) PROVE VariableTypes'
  BY <1>20 DEF BuildEnd, BuildGoto, deleteStatus
<1>21. ASSUME NEW b \in Builds, CopierRead(b) \/ CopierEnd(b) PROVE VariableTypes'
  BY <1>21 DEF CopierRead, CopierEnd
<1>22. ASSUME NEW b \in Builds, CopierWrite(b) PROVE VariableTypes'
  BY <1>22 DEF CopierWrite
<1>23. ASSUME NEW b \in Builds, CopierPanic(b) PROVE VariableTypes'
  BY <1>23 DEF CopierPanic
<1>24. ASSUME NEW b \in Builds, StatusSync(b) PROVE VariableTypes'
  BY <1>24 DEF StatusSync, StatusGoto, syncBuildStatus
<1>25. ASSUME NEW b \in Builds, StatusDrop(b) PROVE VariableTypes'
  BY <1>25 DEF StatusDrop, StatusEnds, StatusGoto, deleteStatus
<1>26. ASSUME NEW b \in Builds, StatusCtxDone(b) \/ StatusLookup(b) PROVE VariableTypes'
  BY <1>26 DEF StatusCtxDone, StatusGoto, StatusLookup
<1>27. ASSUME NEW b \in Builds, StatusLookupFail(b) \/ StatusEOF(b) PROVE VariableTypes'
  BY <1>27 DEF StatusLookupFail, StatusEnds, StatusGoto, StatusEOF
<1>28. ASSUME NEW b \in Builds, StatusSend(b) PROVE VariableTypes'
  BY <1>28 DEF StatusSend
<1>29. ASSUME NEW b \in Builds, StatusSendFail(b) PROVE VariableTypes'
  BY <1>29 DEF StatusSendFail, StatusEnds, StatusGoto
<1>30. CASE UNCHANGED vars
  BY <1>30 DEF vars
<1> HIDE DEF VariableTypes, BuildPCs, StatusPCs, Chans, NoChan, Returned
<1> QED
  BY <1>1, <1>2, <1>3, <1>4, <1>5, <1>6, <1>7, <1>8, <1>9, <1>10, <1>11, <1>12, <1>13,
     <1>14, <1>15, <1>16, <1>17, <1>18, <1>19, <1>20, <1>21, <1>22, <1>23, <1>24, <1>25,
     <1>26, <1>27, <1>28, <1>29, <1>30 DEF Next, CommandBuildStep, CommandStatusStep,
     BuildStep, CopierStep, StatusStep

\* Only the two prints and the two sends of Status move the counters of the log.
LEMMA LogFrame ==
  [Next]_vars =>
    \/ UNCHANGED <<printed, taken>>
    \/ \E b \in Builds : LogPrint(b) \/ CopierWrite(b) \/ StatusSend(b) \/ StatusSendFail(b)
<1> USE DEF logVars
<1>1. ASSUME NEW b \in Builds, CommandBuildStep(b) \/ CommandStatusStep(b) \/ RunBuildFail(b)
             \/ ClientDies(b)
      PROVE  UNCHANGED <<printed, taken>>
  BY <1>1 DEF CommandBuildStep, CommandStatusStep, RunBuildCall, RunBuildReturn, RunBuildFail,
              RunStatusCall, RunStatusReturn, ClientDies
<1>2. ASSUME NEW b \in Builds, BuildStep(b)
      PROVE  UNCHANGED <<printed, taken>> \/ LogPrint(b)
  BY <1>2 DEF BuildStep, NewBuilderFail, NewBuilderPrepare, NewBuilderDuplicate,
              NewBuilderRegister, BuildSync, Handoff, closeStatusChan, BuildFail, BuildFails,
              NextCommand, ExecDone, ExecFail, ExecRun, ContainerExit, ContainerCancelled,
              BuildSuccess, Cleanup, CloseContent, CleanResources, deleteBuilder, BuildEnd
<1>3. ASSUME NEW b \in Builds, CopierStep(b)
      PROVE  UNCHANGED <<printed, taken>> \/ CopierWrite(b)
  BY <1>3 DEF CopierStep, CopierRead, CopierPanic, CopierEnd
<1>4. ASSUME NEW b \in Builds, StatusStep(b)
      PROVE  UNCHANGED <<printed, taken>> \/ StatusSend(b) \/ StatusSendFail(b)
  BY <1>4 DEF StatusStep, StatusSync, StatusCtxDone, StatusDrop, StatusLookup,
              StatusLookupFail, StatusEOF
<1> QED
  BY <1>1, <1>2, <1>3, <1>4 DEF Next, vars

\* A message is put in the channel only when there is room, and taken only when there is one.
LEMMA BoundStep == VariableTypes /\ ChannelBounded /\ [Next]_vars => ChannelBounded'
<1> SUFFICES ASSUME VariableTypes, ChannelBounded, [Next]_vars, NEW c \in Builds
             PROVE  (taken[c] <= printed[c] /\ printed[c] <= taken[c] + BufLen)'
  BY DEF ChannelBounded
<1>1. /\ taken[c] \in Nat /\ printed[c] \in Nat /\ BufLen \in Nat \ {0}
      /\ taken[c] <= printed[c] /\ printed[c] <= taken[c] + BufLen
  BY BufLenAssumption DEF VariableTypes, ChannelBounded
<1>2. ASSUME NEW b \in Builds, LogPrint(b) \/ CopierWrite(b)
      PROVE  /\ printed'[c] \in Nat /\ printed'[c] <= taken[c] + BufLen
             /\ taken[c] <= printed'[c] /\ taken' = taken
  BY <1>1, <1>2 DEF LogPrint, CopierWrite, HasRoom, VariableTypes
<1>3. ASSUME NEW b \in Builds, StatusSend(b) \/ StatusSendFail(b)
      PROVE  /\ taken'[c] \in Nat /\ taken'[c] <= printed[c]
             /\ printed[c] <= taken'[c] + BufLen /\ printed' = printed
  BY <1>1, <1>3 DEF StatusSend, StatusSendFail, VariableTypes
<1> QED
  BY LogFrame, <1>1, <1>2, <1>3

-----------------------------------------------------------------------------
(* The inductive invariant.                                                *)

\* A handler is idle until the command has called it.
StartOf(b) ==
  /\ cbuild[b] = "start" => bpc[b] = "idle"
  /\ cstatus[b] = "start" => spc[b] = "idle"

\* The Build handler is past the handoff and not yet over.
AfterHandoff(b) == bpc[b] \notin {"idle", "new", "register", "sync", "send", "done"}

\* After the handoff the Status handler never waits again, so an entry of the status map
\* always has a handler that is bound to delete it.
SyncOf(b) ==
  /\ AfterHandoff(b) => spc[b] \in {"lookup", "range", "done"}
  /\ status[b] # NoChan =>
       bpc[b] = "send" \/ AfterHandoff(b) \/ spc[b] \in {"wait", "drop"}

\* The directories of a build exist between NewBuilder and CleanResources, or for ever
\* after a refusal.
DirsOf(b) ==
  dirs[b] = "made" =>
    \/ bpc[b] \notin {"idle", "new", "deleteBuilder", "deleteStatus", "done"}
    \/ bpc[b] = "done" /\ bres[b] = "duplicate"

\* The log is closed at the end of the build, and a copier outlives its container only
\* when the command was cancelled.
CloseOf(b) ==
  /\ contentClosed[b] => bpc[b] \in {"clean", "deleteBuilder", "deleteStatus", "done"}
  /\ io[b] # "none" => bpc[b] = "container" \/ cancelled[b]
  /\ io[b] # "none" => \/ bpc[b] \in {"container", "cleanup", "warn", "closeContent"}
                       \/ contentClosed[b]

\* Nothing is lost between the channel and a command that is still there.
ShownOf(b) ==
  /\ ~cancelled[b] => got[b] = taken[b]
  /\ sres[b] = "eof" => contentClosed[b] /\ taken[b] = printed[b]
  /\ cstatus[b] = "ok" => contentClosed[b] /\ got[b] = printed[b] /\ taken[b] = printed[b]

\* The daemon only dies of a log closed under a cancelled build.
CrashInv == crashed => \E b \in Builds : cancelled[b] /\ contentClosed[b]

\* What holds of every build by itself.
BuildInv(b) == StartOf(b) /\ SyncOf(b) /\ DirsOf(b) /\ CloseOf(b) /\ ShownOf(b)

IInv ==
  /\ TypeOK
  /\ RegistryExact
  /\ CrashInv
  /\ \A b \in Builds : BuildInv(b)

-----------------------------------------------------------------------------

\* What holds of a build is kept by the steps of its handlers and of every other build.
LEMMA BuildInvStep ==
  ASSUME VariableTypes, [Next]_vars, NEW c \in Builds, BuildInv(c)
  PROVE  BuildInv(c)'
<1>0. /\ cancelled \in [Builds -> BOOLEAN]
      /\ cbuild \in [Builds -> {"start", "called"} \cup Returned]
      /\ cstatus \in [Builds -> {"start", "called"} \cup Returned]
      /\ got \in [Builds -> Nat]
      /\ bpc \in [Builds -> BuildPCs]
      /\ bres \in [Builds -> {"none", "ok", "err", "duplicate"}]
      /\ io \in [Builds -> {"none", "idle", "write"}]
      /\ spc \in [Builds -> StatusPCs]
      /\ sres \in [Builds -> {"none", "dropped", "err", "eof"}]
      /\ status \in [Builds -> Chans \cup {NoChan}]
      /\ dirs \in [Builds -> {"none", "made", "kept"}]
      /\ printed \in [Builds -> Nat]
      /\ taken \in [Builds -> Nat]
      /\ contentClosed \in [Builds -> BOOLEAN]
  BY DEF VariableTypes
<1> USE DEF BuildInv, StartOf, SyncOf, DirsOf, CloseOf, ShownOf, AfterHandoff, NoChan,
        Returned, Unreachable, clientVars, buildVars, statusVars, syncVars, registryVars,
        logVars
<1>1. ASSUME NEW b \in Builds, RunBuildCall(b) PROVE BuildInv(c)'
  BY <1>0, <1>1 DEF RunBuildCall
<1>2. ASSUME NEW b \in Builds, RunBuildReturn(b) \/ RunBuildFail(b) PROVE BuildInv(c)'
  BY <1>0, <1>2 DEF RunBuildReturn, EndRunBuild, RunBuildFail
<1>3. ASSUME NEW b \in Builds, RunStatusCall(b) PROVE BuildInv(c)'
  BY <1>0, <1>3 DEF RunStatusCall, EndRunStatus
<1>4. ASSUME NEW b \in Builds, RunStatusReturn(b) PROVE BuildInv(c)'
  BY <1>0, <1>4 DEF RunStatusReturn, EndRunStatus
<1>5. ASSUME NEW b \in Builds, ClientDies(b) PROVE BuildInv(c)'
  BY <1>0, <1>5 DEF ClientDies
<1>6. ASSUME NEW b \in Builds, NewBuilderFail(b) \/ NewBuilderDuplicate(b) PROVE
      BuildInv(c)'
  BY <1>0, <1>6 DEF NewBuilderFail, BuildGoto, NewBuilderDuplicate
<1>7. ASSUME NEW b \in Builds, NewBuilderPrepare(b) PROVE BuildInv(c)'
  BY <1>0, <1>7 DEF NewBuilderPrepare, BuildGoto
<1>8. ASSUME NEW b \in Builds, NewBuilderRegister(b) PROVE BuildInv(c)'
  BY <1>0, <1>8 DEF NewBuilderRegister, BuildGoto
<1>9. ASSUME NEW b \in Builds, BuildSync(b) PROVE BuildInv(c)'
  BY <1>0, <1>9 DEF BuildSync, BuildGoto, syncBuildStatus
<1>10. ASSUME NEW b \in Builds, Handoff(b) \/ closeStatusChan(b) PROVE BuildInv(c)'
  BY <1>0, <1>10 DEF Handoff, BuildGoto, closeStatusChan
<1>11. ASSUME NEW b \in Builds, BuildFail(b) \/ ExecFail(b) \/ ContainerCancelled(b) PROVE
      BuildInv(c)'
  BY <1>0, <1>11 DEF BuildFail, BuildFails, BuildGoto, ExecFail, ContainerCancelled
<1>12. ASSUME NEW b \in Builds, NextCommand(b) \/ ExecDone(b) \/ BuildSuccess(b) \/
      Cleanup(b) PROVE BuildInv(c)'
  BY <1>0, <1>12 DEF NextCommand, BuildGoto, ExecDone, BuildSuccess, Cleanup
<1>13. ASSUME NEW b \in Builds, LogPrint(b) PROVE BuildInv(c)'
  BY <1>0, <1>13 DEF LogPrint, AfterPrint
<1>14. ASSUME NEW b \in Builds, ExecRun(b) PROVE BuildInv(c)'
  BY <1>0, <1>14 DEF ExecRun, BuildGoto
<1>15. ASSUME NEW b \in Builds, ContainerExit(b) PROVE BuildInv(c)'
  BY <1>0, <1>15 DEF ContainerExit
<1>16. ASSUME NEW b \in Builds, CloseContent(b) PROVE BuildInv(c)'
  BY <1>0, <1>16 DEF CloseContent, BuildGoto
<1>17. ASSUME NEW b \in Builds, CleanResources(b) PROVE BuildInv(c)'
  BY <1>0, <1>17 DEF CleanResources, BuildGoto
<1>18. ASSUME NEW b \in Builds, deleteBuilder(b) \/ BuildEnd(b) PROVE BuildInv(c)'
  BY <1>0, <1>18 DEF deleteBuilder, BuildGoto, BuildEnd, deleteStatus
<1>19. ASSUME NEW b \in Builds, CopierRead(b) \/ CopierPanic(b) \/ CopierEnd(b) PROVE
      BuildInv(c)'
  BY <1>0, <1>19 DEF CopierRead, CopierPanic, CopierEnd
<1>20. ASSUME NEW b \in Builds, CopierWrite(b) PROVE BuildInv(c)'
  BY <1>0, <1>20 DEF CopierWrite
<1>21. ASSUME NEW b \in Builds, StatusSync(b) \/ StatusCtxDone(b) \/ StatusDrop(b) PROVE
      BuildInv(c)'
  BY <1>0, <1>21 DEF StatusSync, StatusGoto, syncBuildStatus, StatusCtxDone, StatusDrop,
     StatusEnds, deleteStatus
<1>22. ASSUME NEW b \in Builds, StatusLookup(b) \/ StatusLookupFail(b) PROVE BuildInv(c)'
  BY <1>0, <1>22 DEF StatusLookup, StatusGoto, StatusLookupFail, StatusEnds
<1>23. ASSUME NEW b \in Builds, StatusSend(b) \/ StatusSendFail(b) PROVE BuildInv(c)'
  BY <1>0, <1>23 DEF StatusSend, StatusSendFail, StatusEnds, StatusGoto
<1>24. ASSUME NEW b \in Builds, StatusEOF(b) PROVE BuildInv(c)'
  BY <1>0, <1>24 DEF StatusEOF, StatusEnds, StatusGoto
<1>25. CASE UNCHANGED vars
  BY <1>25, ZenonT(30) DEF vars
<1> HIDE DEF BuildInv, StartOf, SyncOf, DirsOf, CloseOf, ShownOf, AfterHandoff, NoChan,
        Returned, Unreachable
<1> QED
  BY <1>1, <1>2, <1>3, <1>4, <1>5, <1>6, <1>7, <1>8, <1>9, <1>10, <1>11, <1>12, <1>13,
     <1>14, <1>15, <1>16, <1>17, <1>18, <1>19, <1>20, <1>21, <1>22, <1>23, <1>24, <1>25
     DEF Next, CommandBuildStep, CommandStatusStep, BuildStep, CopierStep, StatusStep

\* The step neither registers nor removes build c, and leaves the maps alone.
RegistryKept(c) == (Registered(c)' <=> Registered(c)) /\ UNCHANGED <<builders, entities>>

\* Only NewBuilder and deleteBuilder write the maps or register and remove a build.
LEMMA RegistryFrame ==
  ASSUME VariableTypes, [Next]_vars, NEW c \in Builds, StartOf(c)
  PROVE  \/ RegistryKept(c)
         \/ \E b \in Builds : NewBuilderRegister(b) \/ deleteBuilder(b)
<1>0. /\ bpc \in [Builds -> BuildPCs]
  BY DEF VariableTypes
<1> USE DEF StartOf, RegistryKept, Registered, clientVars, buildVars, statusVars,
        syncVars, registryVars, logVars
<1>1. ASSUME NEW b \in Builds, RunBuildCall(b) PROVE RegistryKept(c)
  BY <1>0, <1>1, ZenonT(30) DEF RunBuildCall
<1>2. ASSUME NEW b \in Builds, RunBuildReturn(b) \/ RunBuildFail(b) PROVE RegistryKept(c)
  BY <1>0, <1>2 DEF RunBuildReturn, EndRunBuild, RunBuildFail
<1>3. ASSUME NEW b \in Builds, RunStatusCall(b) PROVE RegistryKept(c)
  BY <1>0, <1>3 DEF RunStatusCall, EndRunStatus
<1>4. ASSUME NEW b \in Builds, RunStatusReturn(b) PROVE RegistryKept(c)
  BY <1>0, <1>4 DEF RunStatusReturn, EndRunStatus
<1>5. ASSUME NEW b \in Builds, ClientDies(b) PROVE RegistryKept(c)
  BY <1>0, <1>5 DEF ClientDies
<1>6. ASSUME NEW b \in Builds, NewBuilderFail(b) \/ NewBuilderPrepare(b) \/
      NewBuilderDuplicate(b) PROVE RegistryKept(c)
  BY <1>0, <1>6 DEF NewBuilderFail, BuildGoto, NewBuilderPrepare, NewBuilderDuplicate
<1>7. ASSUME NEW b \in Builds, BuildSync(b) \/ Handoff(b) \/ closeStatusChan(b) PROVE
      RegistryKept(c)
  BY <1>0, <1>7 DEF BuildSync, BuildGoto, syncBuildStatus, Handoff, closeStatusChan
<1>8. ASSUME NEW b \in Builds, BuildFail(b) \/ NextCommand(b) \/ ExecDone(b) \/
      ExecFail(b) \/ ExecRun(b) PROVE RegistryKept(c)
  BY <1>0, <1>8 DEF BuildFail, BuildFails, BuildGoto, NextCommand, ExecDone, ExecFail,
     ExecRun
<1>9. ASSUME NEW b \in Builds, LogPrint(b) PROVE RegistryKept(c)
  BY <1>0, <1>9, SMTT(30) DEF LogPrint, AfterPrint
<1>10. ASSUME NEW b \in Builds, ContainerExit(b) \/ ContainerCancelled(b) \/
      BuildSuccess(b) PROVE RegistryKept(c)
  BY <1>0, <1>10 DEF ContainerExit, ContainerCancelled, BuildFails, BuildGoto,
     BuildSuccess
<1>11. ASSUME NEW b \in Builds, Cleanup(b) \/ CloseContent(b) \/ CleanResources(b) PROVE
      RegistryKept(c)
  BY <1>0, <1>11, SMTT(30) DEF Cleanup, BuildGoto, CloseContent, CleanResources
<1>12. ASSUME NEW b \in Builds, BuildEnd(b) PROVE RegistryKept(c)
  BY <1>0, <1>12 DEF BuildEnd, BuildGoto, deleteStatus
<1>13. ASSUME NEW b \in Builds, CopierRead(b) \/ CopierWrite(b) \/ CopierPanic(b) \/
      CopierEnd(b) PROVE RegistryKept(c)
  BY <1>0, <1>13 DEF CopierRead, CopierWrite, CopierPanic, CopierEnd
<1>14. ASSUME NEW b \in Builds, StatusSync(b) \/ StatusCtxDone(b) \/ StatusDrop(b) PROVE
      RegistryKept(c)
  BY <1>0, <1>14 DEF StatusSync, StatusGoto, syncBuildStatus, StatusCtxDone, StatusDrop,
     StatusEnds, deleteStatus
<1>15. ASSUME NEW b \in Builds, StatusLookup(b) \/ StatusLookupFail(b) PROVE
      RegistryKept(c)
  BY <1>0, <1>15 DEF StatusLookup, StatusGoto, StatusLookupFail, StatusEnds
<1>16. ASSUME NEW b \in Builds, StatusSend(b) \/ StatusSendFail(b) \/ StatusEOF(b) PROVE
      RegistryKept(c)
  BY <1>0, <1>16 DEF StatusSend, StatusSendFail, StatusEnds, StatusGoto, StatusEOF
<1>17. CASE UNCHANGED vars
  BY <1>17 DEF vars
<1> HIDE DEF StartOf, RegistryKept, Registered
<1> QED
  BY <1>1, <1>2, <1>3, <1>4, <1>5, <1>6, <1>7, <1>8, <1>9, <1>10, <1>11, <1>12, <1>13,
     <1>14, <1>15, <1>16, <1>17 DEF Next, CommandBuildStep, CommandStatusStep, BuildStep,
     CopierStep, StatusStep

\* The command of build c stays cancelled if it is, and its log closed.
MarksKeptOf(c) ==
  (cancelled[c] => cancelled'[c]) /\ (contentClosed[c] => contentClosed'[c])

\* A cancelled command stays cancelled and a closed log stays closed.
LEMMA MarksKept ==
  ASSUME VariableTypes, [Next]_vars, NEW c \in Builds
  PROVE  MarksKeptOf(c)
<1>0. cancelled \in [Builds -> BOOLEAN] /\ contentClosed \in [Builds -> BOOLEAN]
  BY DEF VariableTypes
<1> USE DEF clientVars, logVars, MarksKeptOf
<1>1. ASSUME NEW b \in Builds, CommandBuildStep(b) \/ RunBuildFail(b) PROVE MarksKeptOf(c)
  BY <1>0, <1>1, SMTT(20)
     DEF CommandBuildStep, RunBuildCall, RunBuildReturn, EndRunBuild, RunBuildFail
<1>2. ASSUME NEW b \in Builds, BuildStep(b) PROVE MarksKeptOf(c)
  BY <1>0, <1>2 DEF BuildStep, NewBuilderFail, BuildGoto, NewBuilderPrepare,
     NewBuilderDuplicate, NewBuilderRegister, BuildSync, syncBuildStatus, Handoff,
     closeStatusChan, BuildFail, BuildFails, NextCommand, LogPrint, AfterPrint, ExecDone,
     ExecFail, ExecRun, ContainerExit, ContainerCancelled, BuildSuccess, Cleanup,
     CloseContent, CleanResources, deleteBuilder, BuildEnd, deleteStatus
<1>3. ASSUME NEW b \in Builds, CopierStep(b) PROVE MarksKeptOf(c)
  BY <1>0, <1>3 DEF CopierStep, CopierRead, CopierWrite, CopierPanic, CopierEnd
<1>4. ASSUME NEW b \in Builds, StatusStep(b) PROVE MarksKeptOf(c)
  BY <1>0, <1>4 DEF StatusStep, StatusSync, StatusGoto, syncBuildStatus, StatusCtxDone,
     StatusDrop, StatusEnds, deleteStatus, StatusLookup, StatusLookupFail, StatusSend,
     StatusSendFail, StatusEOF
<1>5. ASSUME NEW b \in Builds, CommandStatusStep(b) \/ ClientDies(b) PROVE MarksKeptOf(c)
  BY <1>0, <1>5, SMTT(20) DEF CommandStatusStep, RunStatusCall, EndRunStatus, RunStatusReturn, ClientDies
<1> QED
  BY <1>1, <1>2, <1>3, <1>4, <1>5, ZenonT(30) DEF Next, vars

\* The daemon only dies in a panic of a copier.
LEMMA CrashFrame == [Next]_vars => crashed' = crashed \/ \E b \in Builds : CopierPanic(b)
<1>1. ASSUME NEW b \in Builds, CommandBuildStep(b) \/ CommandStatusStep(b) \/
      RunBuildFail(b) \/ ClientDies(b) PROVE crashed' = crashed \/ CopierPanic(b)
  BY <1>1, SMTT(30) DEF CommandBuildStep, CommandStatusStep, RunBuildCall, RunBuildReturn,
     RunBuildFail, RunStatusCall, RunStatusReturn, ClientDies
<1>2. ASSUME NEW b \in Builds, BuildStep(b) PROVE crashed' = crashed \/ CopierPanic(b)
  BY <1>2, SMTT(30) DEF BuildStep, NewBuilderFail, NewBuilderPrepare, NewBuilderDuplicate,
     NewBuilderRegister, BuildSync, Handoff, closeStatusChan, BuildFail, BuildFails,
     NextCommand, LogPrint, ExecDone, ExecFail, ExecRun, ContainerExit,
     ContainerCancelled, BuildSuccess, Cleanup, CloseContent, CleanResources,
     deleteBuilder, BuildEnd
<1>3. ASSUME NEW b \in Builds, CopierStep(b) PROVE crashed' = crashed \/ CopierPanic(b)
  BY <1>3 DEF CopierStep, CopierRead, CopierWrite, CopierEnd
<1>4. ASSUME NEW b \in Builds, StatusStep(b) PROVE crashed' = crashed \/ CopierPanic(b)
  BY <1>4 DEF StatusStep, StatusSync, StatusCtxDone, StatusDrop, StatusLookup,
     StatusLookupFail, StatusSend, StatusSendFail, StatusEOF
<1> QED
  BY <1>1, <1>2, <1>3, <1>4 DEF Next, vars


\* The maps of the daemon move together with the handlers.
LEMMA RegistryStep ==
  ASSUME VariableTypes, \A b \in Builds : BuildInv(b), RegistryExact, [Next]_vars
  PROVE  RegistryExact'
<1>0. /\ bpc \in [Builds -> BuildPCs]
      /\ entities \in [Entities -> Builds \cup {NoBuild}]
  BY DEF VariableTypes
<1>1. ASSUME NEW b \in Builds, NewBuilderRegister(b) PROVE RegistryExact'
  BY <1>0, <1>1, EntityOfAssumption, NoBuildAssumption
     DEF NewBuilderRegister, BuildGoto, RegistryExact, Registered
<1>2. ASSUME NEW b \in Builds, deleteBuilder(b) PROVE RegistryExact'
  BY <1>0, <1>2, EntityOfAssumption, NoBuildAssumption
     DEF deleteBuilder, BuildGoto, RegistryExact, Registered
<1>3. CASE /\ \A c \in Builds : Registered(c)' <=> Registered(c)
           /\ UNCHANGED <<builders, entities>>
  BY <1>3 DEF RegistryExact
<1>4. CASE Builds = {}
  <2>1. UNCHANGED vars
    BY <1>4 DEF Next
  <2> QED
    BY <2>1 DEF vars, RegistryExact, Registered
<1> QED
  BY <1>1, <1>2, <1>3, <1>4, RegistryFrame DEF RegistryKept, BuildInv

\* A copier that panics finds its log closed, and runs on only after a cancellation.
LEMMA CrashStep ==
  ASSUME VariableTypes, \A b \in Builds : BuildInv(b), CrashInv, [Next]_vars
  PROVE  CrashInv'
<1>0. cancelled \in [Builds -> BOOLEAN] /\ contentClosed \in [Builds -> BOOLEAN]
  BY DEF VariableTypes
<1>1. ASSUME NEW c \in Builds, cancelled[c] /\ contentClosed[c]
      PROVE  (cancelled[c] /\ contentClosed[c])'
  BY <1>0, <1>1, MarksKept DEF MarksKeptOf
<1>2. ASSUME NEW b \in Builds, CopierPanic(b) PROVE cancelled[b] /\ contentClosed[b]
  BY <1>2 DEF CopierPanic, BuildInv, CloseOf
<1>3. crashed' => crashed \/ \E b \in Builds : CopierPanic(b)
  BY CrashFrame
<1> QED
  BY <1>1, <1>2, <1>3 DEF CrashInv

-----------------------------------------------------------------------------
\* The inductive invariant holds in every reachable state.
THEOREM Invariance == Spec => []IInv
<1>1. Init => IInv
  <2> SUFFICES ASSUME Init PROVE IInv
    OBVIOUS
  <2>1. VariableTypes
    BY DEF Init, VariableTypes, BuildPCs, StatusPCs, Chans, NoChan, Returned
  <2>2. ChannelBounded
    <3>1. ASSUME NEW b \in Builds
          PROVE  taken[b] <= printed[b] /\ printed[b] <= taken[b] + BufLen
      BY BufLenAssumption DEF Init
    <3> QED
      BY <3>1 DEF ChannelBounded
  <2>3. RegistryExact
    BY NoBuildAssumption DEF Init, RegistryExact, Registered
  <2>4. CrashInv
    BY DEF Init, CrashInv
  <2>5. ASSUME NEW b \in Builds PROVE BuildInv(b)
    BY DEF Init, BuildInv, StartOf, SyncOf, AfterHandoff, DirsOf, CloseOf, ShownOf, NoChan
  <2> QED
    BY <2>1, <2>2, <2>3, <2>4, <2>5 DEF IInv, TypeOK
<1>2. IInv /\ [Next]_vars => IInv'
  <2> SUFFICES ASSUME IInv, [Next]_vars PROVE IInv'
    OBVIOUS
  <2> USE DEF IInv, TypeOK
  <2>1. TypeOK'
    BY TypesStep, BoundStep
  <2>2. RegistryExact'
    BY RegistryStep
  <2>3. CrashInv'
    BY CrashStep
  <2>4. \A b \in Builds : BuildInv(b)'
    BY BuildInvStep
  <2> QED
    BY <2>1, <2>2, <2>3, <2>4
<1> QED
  BY <1>1, <1>2, PTL DEF Spec

\* The types of the variables and the capacity of the log channel.
THEOREM TypeCorrect == Spec => []TypeOK
<1>1. IInv => TypeOK
  BY DEF IInv
<1> QED
  BY <1>1, Invariance, PTL

\* Builds of one entity exclude each other, and the two maps of the daemon agree.
THEOREM RegistryCorrect == Spec => []RegistryExact
<1>1. IInv => RegistryExact
  BY DEF IInv
<1> QED
  BY <1>1, Invariance, PTL

\* No entry of the status map outlives the two handlers of its build.
THEOREM StatusEntriesCorrect == Spec => []StatusEntriesReclaimed
<1>1. IInv => StatusEntriesReclaimed
  BY DEF IInv, BuildInv, SyncOf, AfterHandoff, StatusEntriesReclaimed
<1> QED
  BY <1>1, Invariance, PTL

\* A command that saw its status stream end has shown the whole log.
THEOREM CompleteLogCorrect == Spec => []CompleteLog
<1>1. IInv => CompleteLog
  BY DEF IInv, BuildInv, ShownOf, CompleteLog
<1> QED
  BY <1>1, Invariance, PTL

\* The log is closed under a writer only when the command was cancelled.
THEOREM LogCloseCorrect == Spec => []LogCloseSafe
<1>1. IInv => LogCloseSafe
  BY DEF IInv, BuildInv, CloseOf, CrashInv, LogCloseSafe
<1> QED
  BY <1>1, Invariance, PTL

\* Only a build refused as a duplicate leaves its directories behind.
THEOREM DirsCorrect == Spec => []DirsReclaimed
<1>1. IInv => DirsReclaimed
  BY DEF IInv, BuildInv, DirsOf, DirsReclaimed
<1> QED
  BY <1>1, Invariance, PTL

-----------------------------------------------------------------------------
(* The handlers, registries, channel and command keep the promise of the   *)
(* build service.                                                          *)

phases == [b \in Builds |-> PhaseOf(b)]
completed == [b \in Builds |-> cstatus[b] = "ok"]

\* A handler that moves moves the phase of its own build only.
LEMMA PhaseMove ==
  ASSUME NEW b \in Builds, NEW pc, bpc \in [Builds -> BuildPCs], bpc' = [bpc EXCEPT ![b] = pc]
  PROVE  phases' = [phases EXCEPT ![b] = PhaseOf(b)']
  BY ZenonT(30) DEF phases, PhaseOf

\* The step is invisible to BuildService.
Invisible == UNCHANGED <<phases, entities, printed, got, completed>>

\* What a goroutine of the command does is invisible, but for the end of the status stream,
\* which it reports only when it has shown everything and the log is closed.
LEMMA CommandRefines ==
  ASSUME IInv, NEW b \in Builds,
         CommandBuildStep(b) \/ CommandStatusStep(b) \/ RunBuildFail(b) \/ ClientDies(b)
  PROVE  Invisible \/ Service!SeeEnd(b)
<1>0. /\ bpc \in [Builds -> BuildPCs]
      /\ cstatus \in [Builds -> {"start", "called"} \cup Returned]
      /\ StartOf(b) /\ CloseOf(b) /\ ShownOf(b)
  BY DEF IInv, BuildInv, TypeOK, VariableTypes
<1> USE DEF clientVars, buildVars, statusVars, registryVars, logVars, Invisible
<1>1. CASE RunBuildCall(b)
  <2>1. phases' = phases
    BY <1>0, <1>1 DEF RunBuildCall, phases, PhaseOf, StartOf
  <2> QED
    BY <1>1, <2>1 DEF RunBuildCall, completed
<1>2. CASE RunBuildReturn(b) \/ RunBuildFail(b)
  BY <1>2 DEF RunBuildReturn, RunBuildFail, EndRunBuild, phases, PhaseOf, completed
<1>3. CASE RunStatusCall(b)
  <2>1. completed' = completed
    BY <1>0, <1>3, SMTT(30) DEF RunStatusCall, EndRunStatus, completed
  <2> QED
    BY <1>3, <2>1 DEF RunStatusCall, EndRunStatus, phases, PhaseOf
<1>4. CASE RunStatusReturn(b)
  <2>1. phases' = phases /\ UNCHANGED <<entities, printed, got>>
    BY <1>4 DEF RunStatusReturn, EndRunStatus, phases, PhaseOf
  <2>2. CASE cstatus' = [cstatus EXCEPT ![b] = "err"]
    BY <1>0, <1>4, <2>1, <2>2, ZenonT(30) DEF RunStatusReturn, completed
  <2>3. CASE cstatus' = [cstatus EXCEPT ![b] = "ok"] /\ ~cancelled[b] /\ sres[b] = "eof"
    <3>1. completed' = [completed EXCEPT ![b] = TRUE]
      BY <1>0, <2>3, ZenonT(30) DEF completed
    <3>2. got[b] = printed[b] /\ phases[b] \in {"closing", "ended"}
      BY <1>0, <2>3 DEF ShownOf, CloseOf, phases, PhaseOf
    <3> QED
      BY <2>1, <3>1, <3>2, ZenonT(30) DEF Service!SeeEnd, phases, completed
  <2> QED
    BY <1>4, <2>2, <2>3 DEF RunStatusReturn, EndRunStatus, Unreachable
<1>5. CASE ClientDies(b)
  <2>1. completed' = completed
    BY <1>0, <1>5 DEF ClientDies, completed, Returned
  <2> QED
    BY <1>5, <2>1 DEF ClientDies, phases, PhaseOf
<1> QED
  BY <1>1, <1>2, <1>3, <1>4, <1>5 DEF CommandBuildStep, CommandStatusStep

\* The Build handler refuses or starts the build, emits the log, closes it and finishes;
\* all its other steps are invisible.
LEMMA BuildRefines ==
  ASSUME IInv, NEW b \in Builds, BuildStep(b)
  PROVE  \/ Invisible
         \/ Service!Refuse(b) \/ Service!Start(b) \/ Service!Emit(b)
         \/ Service!CloseLog(b) \/ Service!Finish(b)
<1>0. bpc \in [Builds -> BuildPCs]
  BY DEF IInv, BuildInv, TypeOK, VariableTypes
<1> USE DEF clientVars, buildVars, statusVars, registryVars, logVars, BuildGoto
<1>1. CASE NewBuilderFail(b) \/ NewBuilderDuplicate(b)
  <2>1. phases[b] = "idle" /\ phases' = [phases EXCEPT ![b] = "ended"]
    BY <1>0, <1>1, PhaseMove DEF NewBuilderFail, NewBuilderDuplicate, phases, PhaseOf
  <2>2. Service!Refuse(b)
    BY <1>1, <2>1 DEF NewBuilderFail, NewBuilderDuplicate, Service!Refuse, Service!Step, phases
  <2> QED
    BY <2>2
<1>2. CASE NewBuilderRegister(b)
  <2>1. phases[b] = "idle" /\ phases' = [phases EXCEPT ![b] = "running"]
    BY <1>0, <1>2, PhaseMove, ZenonT(30) DEF NewBuilderRegister, phases, PhaseOf
  <2>2. Service!Start(b)
    BY <1>2, <2>1, ZenonT(30) DEF NewBuilderRegister, Service!Start, Service!Step, phases
  <2> QED
    BY <2>2
<1>3. CASE CloseContent(b)
  <2>1. phases[b] = "running" /\ phases' = [phases EXCEPT ![b] = "closing"]
    BY <1>0, <1>3, PhaseMove, ZenonT(30) DEF CloseContent, phases, PhaseOf
  <2>2. Service!CloseLog(b)
    BY <1>3, <2>1 DEF CloseContent, Service!CloseLog, Service!Step, phases
  <2> QED
    BY <2>2
<1>4. CASE deleteBuilder(b)
  <2>1. phases[b] = "closing" /\ phases' = [phases EXCEPT ![b] = "ended"]
    BY <1>0, <1>4, PhaseMove, ZenonT(30) DEF deleteBuilder, phases, PhaseOf
  <2>2. Service!Finish(b)
    BY <1>4, <2>1 DEF deleteBuilder, Service!Finish, Service!Step, phases
  <2> QED
    BY <2>2
<1>5. CASE LogPrint(b)
  <2>1. phases[b] = "running" /\ phases' = phases
    BY <1>0, <1>5 DEF LogPrint, AfterPrint, phases, PhaseOf
  <2>2. Service!Emit(b)
    BY <1>5, <2>1 DEF LogPrint, Service!Emit, phases
  <2> QED
    BY <2>2
<1>6. CASE \/ NewBuilderPrepare(b) \/ BuildSync(b) \/ Handoff(b) \/ closeStatusChan(b)
           \/ BuildEnd(b) \/ CleanResources(b)
  <2>1. phases' = phases
    BY <1>0, <1>6 DEF NewBuilderPrepare, BuildSync, Handoff, closeStatusChan, BuildEnd,
                      CleanResources, phases, PhaseOf
  <2> QED
    BY <1>6, <2>1 DEF NewBuilderPrepare, BuildSync, Handoff, closeStatusChan, BuildEnd,
                      CleanResources, Invisible, completed
<1>7. CASE \/ BuildFail(b) \/ NextCommand(b) \/ ExecDone(b) \/ ExecFail(b) \/ ExecRun(b)
           \/ ContainerExit(b) \/ ContainerCancelled(b) \/ BuildSuccess(b) \/ Cleanup(b)
  <2>1. phases' = phases
    BY <1>0, <1>7 DEF BuildFail, BuildFails, NextCommand, ExecDone, ExecFail, ExecRun,
                      ContainerExit, ContainerCancelled, BuildSuccess, Cleanup, phases, PhaseOf
  <2> QED
    BY <1>7, <2>1, ZenonT(30) DEF BuildFail, BuildFails, NextCommand, ExecDone, ExecFail, ExecRun,
                      ContainerExit, ContainerCancelled, BuildSuccess, Cleanup, Invisible,
                      completed
<1> QED
  BY <1>1, <1>2, <1>3, <1>4, <1>5, <1>6, <1>7 DEF BuildStep

\* A copier emits a message of a build whose log is not closed; its other steps, its panic
\* included, are invisible.
LEMMA CopierRefines ==
  ASSUME IInv, NEW b \in Builds, CopierStep(b)
  PROVE  Invisible \/ Service!Emit(b)
<1>0. CloseOf(b)
  BY DEF IInv, BuildInv
<1> USE DEF clientVars, buildVars, registryVars, logVars
<1>1. CASE CopierRead(b) \/ CopierPanic(b) \/ CopierEnd(b)
  BY <1>1 DEF CopierRead, CopierPanic, CopierEnd, Invisible, phases, PhaseOf, completed
<1>2. CASE CopierWrite(b)
  <2>1. phases[b] = "running" /\ phases' = phases
    BY <1>0, <1>2 DEF CopierWrite, CloseOf, phases, PhaseOf
  <2>2. Service!Emit(b)
    BY <1>2, <2>1 DEF CopierWrite, Service!Emit, phases
  <2> QED
    BY <2>2
<1> QED
  BY <1>1, <1>2 DEF CopierStep

\* The Status handler shows the next message, or nothing visible happens.
LEMMA StatusRefines ==
  ASSUME IInv, NEW b \in Builds, StatusStep(b)
  PROVE  Invisible \/ Service!Show(b)
<1>0. /\ got \in [Builds -> Nat] /\ taken \in [Builds -> Nat] /\ printed \in [Builds -> Nat]
      /\ ShownOf(b)
  BY DEF IInv, BuildInv, TypeOK, VariableTypes
<1> USE DEF clientVars, buildVars, statusVars, registryVars, logVars, StatusGoto, StatusEnds
<1>1. CASE StatusSend(b) /\ ~cancelled[b]
  <2>1. got[b] < printed[b] /\ ~(cstatus[b] = "ok")
    BY <1>0, <1>1 DEF StatusSend, ShownOf
  <2>2. phases' = phases /\ completed' = completed
    BY <1>1, SMTT(30) DEF StatusSend, phases, PhaseOf, completed
  <2>3. Service!Show(b)
    BY <1>0, <1>1, <2>1, <2>2, ZenonT(30) DEF StatusSend, Service!Show, phases, completed
  <2> QED
    BY <2>3
<1>2. CASE StatusSend(b) /\ cancelled[b]
  <2>1. got' = got
    BY <1>0, <1>2 DEF StatusSend
  <2> QED
    BY <1>2, <2>1 DEF StatusSend, Invisible, phases, PhaseOf, completed
<1>3. CASE \/ StatusSync(b) \/ StatusCtxDone(b) \/ StatusDrop(b) \/ StatusLookup(b)
           \/ StatusLookupFail(b) \/ StatusSendFail(b) \/ StatusEOF(b)
  BY <1>3 DEF StatusSync, StatusCtxDone, StatusDrop, StatusLookup, StatusLookupFail,
              StatusSendFail, StatusEOF, Invisible, phases, PhaseOf, completed
<1> QED
  BY <1>1, <1>2, <1>3 DEF StatusStep

\* Every behaviour of the session is a behaviour of BuildService.
THEOREM ServiceImplemented == Spec => ImplementsService
<1>1. Init => Service!Init
  <2> SUFFICES ASSUME Init PROVE Service!Init
    OBVIOUS
  <2>1. phases = [b \in Builds |-> "idle"]
    BY DEF Init, phases, PhaseOf
  <2>2. completed = [b \in Builds |-> FALSE]
    BY ZenonT(30) DEF Init, completed
  <2> QED
    BY <2>1, <2>2, ZenonT(30) DEF Init, Service!Init, phases, completed
<1>2. IInv /\ [Next]_vars => [Service!Next]_Service!vars
  <2> SUFFICES ASSUME IInv, [Next]_vars PROVE [Service!Next]_Service!vars
    OBVIOUS
  <2>1. CASE Invisible
    BY <2>1 DEF Invisible, Service!vars, phases, completed
  <2>2. CASE UNCHANGED vars
    BY <2>2 DEF vars, Service!vars, PhaseOf
  <2>3. ASSUME NEW b \in Builds, CommandBuildStep(b) \/ CommandStatusStep(b) \/ RunBuildFail(b)
               \/ ClientDies(b) \/ BuildStep(b) \/ CopierStep(b) \/ StatusStep(b)
        PROVE  Invisible \/ Service!Next
    BY <2>3, CommandRefines, BuildRefines, CopierRefines, StatusRefines DEF Service!Next
  <2> QED
    BY <2>1, <2>2, <2>3 DEF Next
<1> QED
  BY <1>1, <1>2, Invariance, PTL DEF Spec, ImplementsService, Service!Spec
=============================================================================
