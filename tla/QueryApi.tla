------------------------------ MODULE QueryApi ------------------------------
(***************************************************************************)
(* cmd/api beside cmd/indexer: the API's process reads the tables the      *)
(* indexer's writes.                                                       *)
(***************************************************************************)
EXTENDS MessageQuerier, StatsQuerier

CONSTANT Workloads  \* bound: the statistics that are asked for in one behaviour

ASSUME WorkloadAssumption == Workloads \subseteq SUBSET Requests

VARIABLE workload  \* none of them: a client walks through pages.  Neither kind of
                   \* request changes what the other reads

apiVars == <<tableVars, walk, statsVars, workload>>

ApiInit ==
  /\ TableInit
  /\ walk = NoWalk
  /\ StatsInit
  /\ workload \in Workloads

\* Lists are sorted by created_at, ...
WalkPages ==
  /\ workload = {}
  /\ (TableNext /\ UNCHANGED walk) \/ StartWalk \/ NextPage
  /\ UNCHANGED <<statsVars, workload>>

\* ... which statistics do not read.
AskStats ==
  /\ workload # {}
  /\ \/ /\ Next
        /\ served' = NoAnswer
        /\ UNCHANGED <<clock, stamp, created, now, cache, request>>
     \/ TimePasses
     \/ \E r \in workload : Handle(r)
  /\ UNCHANGED <<walk, workload>>

ApiNext == WalkPages \/ AskStats

ApiSpec == ApiInit /\ [][ApiNext]_apiVars

ApiTypeOK == QuerierTypeOK /\ StatsTypeOK /\ workload \in Workloads
=============================================================================
