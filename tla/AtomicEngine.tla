----------------------------- MODULE AtomicEngine -----------------------------
(***************************************************************************)
(* What the engine promises its clients (spec sections 4.1 and 4.2): a     *)
(* committed transaction takes effect atomically and in commit order; a    *)
(* transaction is accepted when it is valid on the graph every earlier     *)
(* commit will produce; a block is evaluated on a graph between            *)
(* transactions; a module leaves the graph and its data is handed back     *)
(* once the transaction discarding it has taken effect; a stop discards    *)
(* every module and ends the engine.                                       *)
(***************************************************************************)
EXTENDS Sequences, EngineJobs

LOCAL INSTANCE SequencesExt

VARIABLES
  pending,   \* committed transactions that have not taken effect
  graph,     \* the engine's graph
  garbage,   \* discarded modules handed back to the control domain
  freed,     \* modules whose data the control domain has freed
  seen,      \* the graph the last block was evaluated on
  stopping,  \* a stop was requested
  stopped    \* the engine has ended

vars == <<pending, graph, garbage, freed, seen, stopping, stopped>>

\* The graph once every pending transaction has taken effect.
Promised == FoldLeft(ApplyTrans, graph, pending)

Init ==
  /\ pending = <<>>
  /\ graph = EmptyGraph0
  /\ garbage = {} /\ freed = {}
  /\ seen = EmptyGraph0
  /\ stopping = FALSE /\ stopped = FALSE

Commit(t) ==
  /\ ~stopping
  /\ ValidTrans(Promised, t)
  /\ pending' = Append(pending, t)
  /\ UNCHANGED <<graph, garbage, freed, seen, stopping, stopped>>

TakeEffect ==
  /\ ~stopped
  /\ pending # <<>>
  /\ graph' = ApplyTrans(graph, Head(pending))
  /\ pending' = Tail(pending)
  /\ garbage' = garbage \cup Discarded(Head(pending))
  /\ UNCHANGED <<freed, seen, stopping, stopped>>

EvaluateBlock ==
  /\ ~stopping /\ ~stopped
  /\ seen' = graph
  /\ UNCHANGED <<pending, graph, garbage, freed, stopping, stopped>>

FreeModule(m) ==
  /\ m \in garbage
  /\ garbage' = garbage \ {m}
  /\ freed' = freed \cup {m}
  /\ UNCHANGED <<pending, graph, seen, stopping, stopped>>

RequestStop ==
  /\ ~stopping
  /\ stopping' = TRUE
  /\ UNCHANGED <<pending, graph, garbage, freed, seen, stopped>>

Shutdown ==
  /\ stopping /\ ~stopped
  /\ garbage' = garbage \cup graph.int
  /\ graph' = [EmptyGraph0 EXCEPT !.gone = graph.gone \cup graph.int]
  /\ stopped' = TRUE
  /\ UNCHANGED <<pending, freed, seen, stopping>>

Next ==
  \/ \E t \in Transactions : Commit(t)
  \/ TakeEffect
  \/ EvaluateBlock
  \/ \E m \in Modules : FreeModule(m)
  \/ RequestStop
  \/ Shutdown

Spec == Init /\ [][Next]_vars

\* Committed transactions take effect, a stop is honoured and handed-back
\* data is freed.
FairSpec ==
  /\ Spec
  /\ WF_vars(TakeEffect)
  /\ WF_vars(Shutdown)
  /\ \A m \in Modules : WF_vars(FreeModule(m))

=============================================================================
