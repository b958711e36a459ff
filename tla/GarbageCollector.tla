-------------------------- MODULE GarbageCollector --------------------------
(***************************************************************************)
(* pkg/gc: a ticker goroutine starts, every second, one goroutine for each *)
(* registered node; that goroutine locks the node, decides whether it is   *)
(* discarded or due, and executes its function under the lock.  A          *)
(* discarded node is removed from the table, by name, by yet another       *)
(* goroutine.                                                              *)
(*                                                                         *)
(* A member of Nodes is one node struct: the outcome of one successful     *)
(* RegisterGC.  Time is counted in ticks.  The goroutine started for node  *)
(* n at tick t is the pair <<n, t>>.                                       *)
(***************************************************************************)
EXTENDS Integers

CONSTANTS Nodes,
          NameOf,      \* option.Name of each node
          IntervalOf,  \* option.Interval of each node, in ticks
          OnceNodes,   \* nodes whose option.Once is set
          NoNode,      \* absent entry of the table
          MaxNow       \* bound: number of ticks

ASSUME IntervalAssumption == IntervalOf \in [Nodes -> Nat] /\ OnceNodes \subseteq Nodes
ASSUME NoNodeAssumption == NoNode \notin Nodes
ASSUME MaxNowAssumption == MaxNow \in Nat

VARIABLES
  now,         \* ticks so far
  gcDone,     \* the context given to StartGC is cancelled
  nodes,       \* GarbageCollector.nodes
  fresh,       \* nodes not registered yet
  lastTrigger, \* node.lastTrigger
  running,     \* nodes whose function is being executed, under the node's lock
  success,     \* nodes whose function has returned without error
  waiting,     \* goroutines in checkAndExec that do not hold the node's lock
  removing     \* goroutines in RemoveGCNode that checkAndExec started

gcVars == <<now, gcDone, nodes, fresh, lastTrigger, running, success, waiting, removing>>

Names == {NameOf[n] : n \in Nodes}
Ticks == 1..MaxNow

GCInit ==
  /\ now = 0
  /\ gcDone = FALSE
  /\ nodes = [m \in Names |-> NoNode]
  /\ fresh = Nodes
  /\ lastTrigger = [n \in Nodes |-> 0]
  /\ running = {}
  /\ success = {}
  /\ waiting = {}
  /\ removing = {}

-----------------------------------------------------------------------------
\* A name that is taken is refused.
RegisterGC(n) ==
  /\ n \in fresh
  /\ nodes[NameOf[n]] = NoNode
  /\ nodes' = [nodes EXCEPT ![NameOf[n]] = n]
  /\ fresh' = fresh \ {n}
  /\ lastTrigger' = [lastTrigger EXCEPT ![n] = now]
  /\ UNCHANGED <<now, gcDone, running, success, waiting, removing>>

\* The owner of a registered function removes it.
RemoveGCNode(m) ==
  /\ nodes[m] # NoNode
  /\ nodes' = [nodes EXCEPT ![m] = NoNode]
  /\ UNCHANGED <<now, gcDone, fresh, lastTrigger, running, success, waiting, removing>>

\* The ticker of StartGC starts a goroutine for every node in the table.
Tick ==
  /\ ~gcDone
  /\ now < MaxNow
  /\ now' = now + 1
  /\ waiting' = waiting \cup {<<nodes[m], now'>> : m \in {k \in Names : nodes[k] # NoNode}}
  /\ UNCHANGED <<gcDone, nodes, fresh, lastTrigger, running, success, removing>>

Cancel ==
  /\ ~gcDone
  /\ gcDone' = TRUE
  /\ UNCHANGED <<now, nodes, fresh, lastTrigger, running, success, waiting, removing>>

-----------------------------------------------------------------------------
(* checkAndExec, by the goroutine started for node n at tick t.            *)

\* Mutant of isDiscarded: a once-only node is kept after its success.
IsDiscardedNever(n) == FALSE

isDiscarded(n) == n \in OnceNodes /\ n \in success

\* Mutant of isReadyToRun: the tick of the goroutine is not compared.
IsReadyAlways(n, t) == TRUE

isReadyToRun(n, t) == t - lastTrigger[n] >= IntervalOf[n]

\* Mutant of Discard: the discarded node is not removed.
DiscardOnly(n, t) ==
  /\ <<n, t>> \in waiting
  /\ n \notin running
  /\ isDiscarded(n)
  /\ waiting' = waiting \ {<<n, t>>}
  /\ UNCHANGED <<now, gcDone, nodes, fresh, lastTrigger, running, success, removing>>

Discard(n, t) ==
  /\ <<n, t>> \in waiting
  /\ n \notin running
  /\ isDiscarded(n)
  /\ waiting' = waiting \ {<<n, t>>}
  /\ removing' = removing \cup {<<n, t>>}
  /\ UNCHANGED <<now, gcDone, nodes, fresh, lastTrigger, running, success>>

NotDue(n, t) ==
  /\ <<n, t>> \in waiting
  /\ n \notin running
  /\ ~isDiscarded(n)
  /\ ~isReadyToRun(n, t)
  /\ waiting' = waiting \ {<<n, t>>}
  /\ UNCHANGED <<now, gcDone, nodes, fresh, lastTrigger, running, success, removing>>

Exec(n, t) ==
  /\ <<n, t>> \in waiting
  /\ n \notin running
  /\ ~isDiscarded(n)
  /\ isReadyToRun(n, t)
  /\ waiting' = waiting \ {<<n, t>>}
  /\ lastTrigger' = [lastTrigger EXCEPT ![n] = t]
  /\ running' = running \cup {n}
  /\ UNCHANGED <<now, gcDone, nodes, fresh, success, removing>>

\* The function returns, with an error or without.
ExecReturn(n) ==
  /\ n \in running
  /\ running' = running \ {n}
  /\ success' \in {success, success \cup {n}}
  /\ UNCHANGED <<now, gcDone, nodes, fresh, lastTrigger, waiting, removing>>

\* The removal a discarding goroutine started: it knows only the name.
RemoveDiscarded(n, t) ==
  /\ <<n, t>> \in removing
  /\ removing' = removing \ {<<n, t>>}
  /\ nodes' = [nodes EXCEPT ![NameOf[n]] = NoNode]
  /\ UNCHANGED <<now, gcDone, fresh, lastTrigger, running, success, waiting>>

CheckAndExec(n, t) == Discard(n, t) \/ NotDue(n, t) \/ Exec(n, t)

GCNext ==
  \/ Tick
  \/ Cancel
  \/ \E m \in Names : RemoveGCNode(m)
  \/ \E n \in Nodes : RegisterGC(n) \/ ExecReturn(n)
  \/ \E n \in Nodes, t \in Ticks : CheckAndExec(n, t) \/ RemoveDiscarded(n, t)

GCSpec == GCInit /\ [][GCNext]_gcVars

\* The ticker ticks, and every goroutine and every registered function goes on.
GCFairness ==
  /\ WF_gcVars(Tick)
  /\ \A n \in Nodes : WF_gcVars(ExecReturn(n))
  /\ \A n \in Nodes, t \in Ticks : WF_gcVars(CheckAndExec(n, t)) /\ WF_gcVars(RemoveDiscarded(n, t))

GCFairSpec == GCSpec /\ GCFairness

-----------------------------------------------------------------------------
\* Types; every goroutine belongs to a tick that has happened.
GCTypeOK ==
  /\ now \in 0..MaxNow
  /\ gcDone \in BOOLEAN
  /\ nodes \in [Names -> Nodes \cup {NoNode}]
  /\ fresh \subseteq Nodes
  /\ lastTrigger \in [Nodes -> 0..now]
  /\ running \subseteq Nodes /\ success \subseteq Nodes
  /\ waiting \cup removing \subseteq Nodes \X (1..now)

Tasks == INSTANCE RecycleTasks

\* checkAndExec keeps what RecycleTasks promises, although goroutines of many
\* ticks queue up for the lock of one node while its function is executed.
ImplementsTasks == Tasks!Spec

\* Two executions of a node are at least an interval apart, counted in the ticks
\* that triggered them: a goroutine that got the lock late does not bring the
\* trigger of its node back to an older tick (isReadyToRun, pkg/gc/gc.go).
TriggersSpaced ==
  [][\A n \in Nodes \ fresh :
       lastTrigger'[n] # lastTrigger[n] => lastTrigger'[n] - lastTrigger[n] >= IntervalOf[n]]_gcVars

\* A once-only node whose function succeeded leaves the table at one of the next
\* ticks, if there is one (checkAndExec, RemoveGCNode).
OnceNodeRemoved ==
  \A n \in OnceNodes :
    (n \in success /\ now < MaxNow) ~> (gcDone \/ nodes[NameOf[n]] # n)
=============================================================================
