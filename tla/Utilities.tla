----------------------------- MODULE Utilities ------------------------------
(***************************************************************************)
(* Five small components that share no state with each other: a behaviour  *)
(* is one of the component its first state picks, with the others at rest. *)
(***************************************************************************)
EXTENDS HttpBatch, Singleton, BlockCounter, MetricsPipe, MetricWriter

VARIABLE component

utilVars == <<component, httpVars, storeVars, ringVars, pipeVars, writerVars>>

Init == /\ component \in {"batch", "singleton", "blocks", "metrics", "writer"}
        /\ HttpInit /\ StoreInit /\ RingInit /\ PipeInit /\ WriterInit

Next ==
  /\ UNCHANGED component
  /\ \/ /\ component = "batch" /\ HttpNext
        /\ UNCHANGED <<storeVars, ringVars, pipeVars, writerVars>>
     \/ /\ component = "singleton" /\ StoreNext
        /\ UNCHANGED <<httpVars, ringVars, pipeVars, writerVars>>
     \/ /\ component = "blocks" /\ RingNext
        /\ UNCHANGED <<httpVars, storeVars, pipeVars, writerVars>>
     \/ /\ component = "metrics" /\ PipeNext
        /\ UNCHANGED <<httpVars, storeVars, ringVars, writerVars>>
     \/ /\ component = "writer" /\ WriterNext
        /\ UNCHANGED <<httpVars, storeVars, ringVars, pipeVars>>

Spec == Init /\ [][Next]_utilVars

=============================================================================
