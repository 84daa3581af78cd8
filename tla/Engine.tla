------------------------------- MODULE Engine -------------------------------
(***************************************************************************)
(* The synthesis engine's transaction protocol and scheduler, with the     *)
(* transactions bsepcmmodule.cc builds to insert and remove its PCM        *)
(* modules.                                                                *)
(*                                                                         *)
(* The control domain builds a transaction privately, validates it against *)
(* its own view of the graph (the graph every committed transaction will   *)
(* produce) and commits it to a FIFO queue.  The engine thread applies the *)
(* queued jobs one at a time; only at a transaction boundary does it check *)
(* the registered polls and evaluate a block, recomputing the dependency   *)
(* order first when a job changed the topology.  A discarded module's data *)
(* is freed by the control domain once the transaction that discarded it   *)
(* has been applied.  A stop request ends the engine at the next tick      *)
(* boundary, discarding every module.                                      *)
(***************************************************************************)
EXTENDS Naturals, Sequences, FiniteSets, EngineJobs

CONSTANTS
  MaxCommits,   \* bound on committed transactions
  MaxTicks      \* bound on evaluated blocks

ASSUME MaxCommits \in Nat /\ MaxTicks \in Nat

-----------------------------------------------------------------------------
(* The scheduler.                                                          *)

\* Jobs after which the dependency order must be recomputed.
TouchesTopology(j) ==
  j.op \in {"integrate", "discard", "set_consumer", "connect", "disconnect"}

\* The modules a block evaluates: the consumers and everything feeding them.
Scheduled(g) ==
  g.cons \cup UNION {Ancestors(AsGraph(g), c) : c \in g.cons}

\* The dependency order: a module's level is one above its highest input.
RECURSIVE Level(_, _)
Level(g, m) ==
  LET ins == Predecessors(AsGraph(g), m)
  IN IF ins = {} THEN 0 ELSE 1 + Max({Level(g, p) : p \in ins})

Schedule(g) == [m \in Scheduled(g) |-> Level(g, m)]

-----------------------------------------------------------------------------
VARIABLES
  view,      \* the control domain's graph: every committed transaction applied
  queue,     \* committed transactions not yet completely applied
  pos,       \* jobs of Head(queue) already applied
  graph,     \* the engine's graph
  dirty,     \* a topology job was applied since the order was computed
  schedule,  \* the dependency order: module -> level
  trash,     \* modules discarded by the transaction being applied
  garbage,   \* discarded modules handed back to the control domain
  freed,     \* modules whose data the control domain has freed
  commits,   \* transactions committed so far
  applied,   \* transactions completely applied so far
  ticks,     \* blocks evaluated so far
  seen,      \* history: graph and order the last block was evaluated with
  stopping,  \* a stop was requested
  stopped,   \* the engine thread has exited
  fault      \* the engine met a job it cannot execute

vars == <<view, queue, pos, graph, dirty, schedule, trash, garbage, freed,
          commits, applied, ticks, seen, stopping, stopped, fault>>

-----------------------------------------------------------------------------
(* Control domain.                                                         *)

\* Validate a transaction against the view and commit it.
Commit(t) ==
  /\ ~stopping
  /\ commits < MaxCommits
  /\ ValidTrans(view, t)
  /\ view' = ApplyTrans(view, t)
  /\ queue' = Append(queue, t)
  /\ commits' = commits + 1
  /\ UNCHANGED <<pos, graph, dirty, schedule, trash, garbage, freed, applied,
                 ticks, seen, stopping, stopped, fault>>

\* Free the data of a module the engine has handed back (module free()).
FreeModule(m) ==
  /\ m \in garbage
  /\ garbage' = garbage \ {m}
  /\ freed' = freed \cup {m}
  /\ UNCHANGED <<view, queue, pos, graph, dirty, schedule, trash, commits,
                 applied, ticks, seen, stopping, stopped, fault>>

RequestStop ==
  /\ ~stopping
  /\ stopping' = TRUE
  /\ UNCHANGED <<view, queue, pos, graph, dirty, schedule, trash, garbage,
                 freed, commits, applied, ticks, seen, stopped, fault>>

(* Engine thread.                                                          *)

\* The engine thread takes jobs whenever it is running.
EngineRunning == ~stopped /\ ~fault

\* Mutant: a block may start in the middle of a transaction.
AnyJobBoundary == TRUE

\* Blocks and the stop happen between transactions only.
TickBoundary == pos = 0

\* The modules a stop discards and hands back to the control domain.
HandBack(g) == g.int

\* Mutant: the trash of a finished transaction is carried into the next.
FinishKeepingTrash(trash1) ==
  /\ queue' = Tail(queue)
  /\ pos' = 0
  /\ trash' = trash1
  /\ garbage' = garbage \cup trash1
  /\ applied' = applied + 1

\* After the last job of a transaction, its discarded modules are handed back.
FinishTransaction(trash1) ==
  /\ queue' = Tail(queue)
  /\ pos' = 0
  /\ trash' = {}
  /\ garbage' = garbage \cup trash1
  /\ applied' = applied + 1

\* Apply the next job of the oldest queued transaction.
ApplyNextJob ==
  /\ EngineRunning
  /\ queue # <<>>
  /\ LET t == Head(queue)
         j == t[pos + 1]
         last == pos + 1 = Len(t)
         trash1 == IF j.op = "discard" THEN trash \cup {j.m} ELSE trash
     IN IF ~JobValid(graph, j)
        THEN /\ fault' = TRUE
             /\ UNCHANGED <<queue, pos, graph, dirty, trash, garbage, applied>>
        ELSE /\ graph' = ApplyJob(graph, j)
             /\ dirty' = (dirty \/ TouchesTopology(j))
             /\ IF last
                THEN FinishTransaction(trash1)
                ELSE /\ pos' = pos + 1
                     /\ trash' = trash1
                     /\ UNCHANGED <<queue, garbage, applied>>
             /\ UNCHANGED fault
  /\ UNCHANGED <<view, schedule, freed, commits, ticks, seen, stopping, stopped>>

\* At a transaction boundary and once a registered poll reports the device
\* ready, recompute the order if needed and evaluate one block.
EvaluateBlock ==
  /\ ~stopped /\ ~fault /\ ~stopping
  /\ TickBoundary
  /\ ticks < MaxTicks
  /\ schedule' = IF dirty THEN Schedule(graph) ELSE schedule
  /\ dirty' = FALSE
  /\ ticks' = ticks + 1
  /\ seen' = [g |-> graph, order |-> schedule']
  /\ UNCHANGED <<view, queue, pos, graph, trash, garbage, freed, commits,
                 applied, stopping, stopped, fault>>

\* A stop takes effect at the next tick boundary: every module is discarded
\* and handed back, and the thread exits.
Shutdown ==
  /\ stopping /\ ~stopped /\ ~fault
  /\ TickBoundary
  /\ garbage' = garbage \cup HandBack(graph)
  /\ graph' = [EmptyGraph0 EXCEPT !.gone = graph.gone \cup graph.int]
  /\ stopped' = TRUE
  /\ UNCHANGED <<view, queue, pos, dirty, schedule, trash, freed, commits,
                 applied, ticks, seen, stopping, fault>>

\* The process has nothing left to do.
Exited == (stopped \/ fault) /\ garbage = {} /\ UNCHANGED vars

-----------------------------------------------------------------------------
Init ==
  /\ view = EmptyGraph0
  /\ queue = <<>>
  /\ pos = 0
  /\ graph = EmptyGraph0
  /\ dirty = FALSE
  /\ schedule = [m \in {} |-> 0]
  /\ trash = {}
  /\ garbage = {}
  /\ freed = {}
  /\ commits = 0
  /\ applied = 0
  /\ ticks = 0
  /\ seen = [g |-> EmptyGraph0, order |-> [m \in {} |-> 0]]
  /\ stopping = FALSE
  /\ stopped = FALSE
  /\ fault = FALSE

Next ==
  \/ \E t \in Transactions : Commit(t)
  \/ \E m \in Modules : FreeModule(m)
  \/ RequestStop
  \/ ApplyNextJob
  \/ EvaluateBlock
  \/ Shutdown
  \/ Exited

\* The engine thread runs whenever it has jobs or a stop to act on, and the
\* control domain's garbage collection keeps running.
Fairness ==
  /\ WF_vars(ApplyNextJob)
  /\ WF_vars(Shutdown)
  /\ \A m \in Modules : WF_vars(FreeModule(m))

Spec == Init /\ [][Next]_vars
FairSpec == Spec /\ Fairness

-----------------------------------------------------------------------------
TypeOK ==
  /\ view \in GraphRecords /\ graph \in GraphRecords
  /\ \A g \in {view, graph} : g.edges \subseteq g.int \X g.int
  /\ queue \in Seq(Transactions)
  /\ pos \in Nat /\ (queue # <<>> => pos < Len(Head(queue)))
  /\ dirty \in BOOLEAN
  /\ \E S \in SUBSET Modules : schedule \in [S -> Nat]
  /\ trash \subseteq Modules /\ garbage \subseteq Modules /\ freed \subseteq Modules
  /\ commits \in 0 .. MaxCommits /\ applied \in 0 .. commits
  /\ ticks \in 0 .. MaxTicks
  /\ stopping \in BOOLEAN /\ stopped \in BOOLEAN /\ fault \in BOOLEAN

(* No poll function stays registered with the data of a module that has    *)
(* been freed: bse_pcm_omodule_remove unregisters bse_pcm_module_poll in   *)
(* the same transaction that discards the module.                          *)
NoPollOfFreedData == graph.polls \cap freed = {}

(* Every block evaluated with a PCM output module integrated also has it   *)
(* as a consumer with its poll function registered: a block never sees     *)
(* part of the transaction bse_pcm_omodule_insert built.                   *)
BlocksSeeWholeInserts ==
  \A m \in seen.g.int \cap OutModules :
    m \in seen.g.cons /\ m \in seen.g.polls

-----------------------------------------------------------------------------
(* Refinement.  A transaction counts as having taken effect once the       *)
(* engine has applied its first job: from then on the abstract graph is    *)
(* the engine's graph with the rest of the transaction applied, and the    *)
(* modules it discards count as handed back.                               *)
AbsPending == IF pos = 0 THEN queue ELSE Tail(queue)
AbsGraph ==
  IF pos = 0 THEN graph
  ELSE ApplyTrans(graph, SubSeq(Head(queue), pos + 1, Len(Head(queue))))
AbsGarbage == IF pos = 0 THEN garbage ELSE garbage \cup Discarded(Head(queue))

Atomic == INSTANCE AtomicEngine
            WITH pending <- AbsPending, graph <- AbsGraph,
                 garbage <- AbsGarbage, seen <- seen.g

(* The job-by-job engine implements the atomic one: every step of the      *)
(* control domain or of the engine thread is a step of AtomicEngine or     *)
(* leaves its state alone, so that no block and no stop ever observes a    *)
(* transaction half applied, the control domain's view accepts exactly the *)
(* transactions valid on the graph the queue will produce, and discarded   *)
(* modules are handed back with the last job of their transaction.  Under  *)
(* the engine's fairness every pending transaction takes effect.           *)
EngineRefinesAtomic == Atomic!FairSpec

=============================================================================
