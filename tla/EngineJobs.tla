------------------------------ MODULE EngineJobs -----------------------------
(***************************************************************************)
(* The engine graph and the jobs that change it, shared by the engine's    *)
(* job-by-job model (Engine) and its atomic specification (AtomicEngine):  *)
(* the transactions bsepcmmodule.cc builds to insert and remove its PCM    *)
(* modules, the conditions under which the engine can execute a job, and   *)
(* what executing it does to the graph.                                    *)
(***************************************************************************)
EXTENDS Naturals, Sequences, Graphs

CONSTANTS
  OutModules,   \* PCM output modules (bse_pcm_omodule_insert)
  InModules,    \* PCM input modules (bse_pcm_imodule_insert)
  SynthModules  \* other synthesis modules, e.g. the amplifier

Modules == OutModules \cup InModules \cup SynthModules
ASSUME OutModules \cap InModules = {} /\ OutModules \cap SynthModules = {}
ASSUME InModules \cap SynthModules = {}

\* Output channels feed input channels: the PCM input module has only
\* output streams, the PCM output module only joint input streams.
Sources == InModules \cup SynthModules
Sinks == SynthModules \cup OutModules

Links == {l \in Sources \X Sinks : l[1] # l[2]}

Job(op, m) == [op |-> op, m |-> m, d |-> m]
Link(op, s, d) == [op |-> op, m |-> s, d |-> d]

-----------------------------------------------------------------------------
(* Transactions built by bsepcmmodule.cc.                                  *)

bse_pcm_omodule_insert(m) ==
  <<Job("integrate", m), Job("set_consumer", m), Job("add_poll", m)>>
\* Mutant: the poll function is left registered.
RemoveWithoutPoll(m) == <<Job("discard", m)>>
bse_pcm_omodule_remove(m) ==
  <<Job("remove_poll", m), Job("discard", m)>>
bse_pcm_imodule_insert(m) == <<Job("integrate", m)>>
bse_pcm_imodule_remove(m) == <<Job("discard", m)>>

\* Every transaction the control domain may build.
Transactions ==
  {bse_pcm_omodule_insert(m) : m \in OutModules}
  \cup {bse_pcm_omodule_remove(m) : m \in OutModules}
  \cup {bse_pcm_imodule_insert(m) : m \in InModules}
  \cup {bse_pcm_imodule_remove(m) : m \in InModules}
  \cup {<<Job("integrate", m)>> : m \in SynthModules}
  \cup {<<Job("discard", m)>> : m \in SynthModules}
  \cup {<<Link("connect", l[1], l[2])>> : l \in Links}
  \cup {<<Link("disconnect", l[1], l[2])>> : l \in Links}
  \cup {<<Link("connect", l[1], l[2]), Link("disconnect", l[1], l[2])>> : l \in Links}

-----------------------------------------------------------------------------
(* The graph: integrated modules, consumers, modules whose poll function   *)
(* is registered, connections, and modules discarded for good.             *)

EmptyGraph0 == [int |-> {}, cons |-> {}, polls |-> {}, edges |-> {}, gone |-> {}]

AsGraph(g) == [node |-> g.int, edge |-> g.edges]

\* The conditions under which a job may be executed.
JobValid(g, j) ==
  CASE j.op = "integrate"    -> j.m \notin g.int \cup g.gone
    [] j.op = "discard"      -> j.m \in g.int
    [] j.op = "set_consumer" -> j.m \in g.int
    [] j.op = "add_poll"     -> j.m \notin g.polls
    [] j.op = "remove_poll"  -> j.m \in g.polls
    [] j.op = "connect"      -> /\ {j.m, j.d} \subseteq g.int
                                /\ <<j.m, j.d>> \notin g.edges
                                /\ IsDag([node |-> g.int,
                                          edge |-> g.edges \cup {<<j.m, j.d>>}])
    [] j.op = "disconnect"   -> <<j.m, j.d>> \in g.edges

\* Mutant: the connections of a discarded module are left in place.
SeverNone(edges, m) == edges
\* The connections that remain once module m is disconnected from all.
Sever(edges, m) == {e \in edges : m \notin {e[1], e[2]}}

\* Executing a job; discard severs every connection of the module first.
ApplyJob(g, j) ==
  CASE j.op = "integrate"    -> [g EXCEPT !.int = @ \cup {j.m}]
    [] j.op = "discard"      -> [g EXCEPT !.int = @ \ {j.m}, !.cons = @ \ {j.m},
                                  !.edges = Sever(@, j.m),
                                  !.gone = @ \cup {j.m}]
    [] j.op = "set_consumer" -> [g EXCEPT !.cons = @ \cup {j.m}]
    [] j.op = "add_poll"     -> [g EXCEPT !.polls = @ \cup {j.m}]
    [] j.op = "remove_poll"  -> [g EXCEPT !.polls = @ \ {j.m}]
    [] j.op = "connect"      -> [g EXCEPT !.edges = @ \cup {<<j.m, j.d>>}]
    [] j.op = "disconnect"   -> [g EXCEPT !.edges = @ \ {<<j.m, j.d>>}]

RECURSIVE ValidTrans(_, _), ApplyTrans(_, _)
ValidTrans(g, t) ==
  IF t = <<>> THEN TRUE
  ELSE JobValid(g, Head(t)) /\ ValidTrans(ApplyJob(g, Head(t)), Tail(t))
ApplyTrans(g, t) == IF t = <<>> THEN g ELSE ApplyTrans(ApplyJob(g, Head(t)), Tail(t))

\* The modules a transaction discards.
Discarded(t) == {t[i].m : i \in {k \in 1 .. Len(t) : t[k].op = "discard"}}

GraphRecords ==
  [int : SUBSET Modules, cons : SUBSET Modules, polls : SUBSET Modules,
   edges : SUBSET (Modules \X Modules), gone : SUBSET Modules]

=============================================================================
