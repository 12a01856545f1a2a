---------------------------- MODULE MetricsPipe -----------------------------
(***************************************************************************)
(* The metrics endpoint of metrics/metrics.go: Record drops a value when   *)
(* the channel is full, one goroutine folds the values into its state and  *)
(* marshals a snapshot when it meets a tick of its ticker, and another     *)
(* puts the snapshots where GetMetrics reads them.  Values of one key are  *)
(* numbered in the order they are recorded; 0 is none.                     *)
(***************************************************************************)
EXTENDS Naturals, Sequences

CONSTANTS MaxRecords,    \* a bound: values recorded
          ChCap,         \* metrics.ch holds 1000
          UpdatesCap     \* metricUpdates holds 10

VARIABLES recorded, ch, folded, due, marshalled, updates, update, state, reads

pipeVars == <<recorded, ch, folded, due, marshalled, updates, update, state, reads>>

ASSUME PipeAssumption == MaxRecords \in Nat /\ ChCap \in Nat /\ UpdatesCap \in Nat

None == [full |-> FALSE, value |-> 0]
Some(v) == [full |-> TRUE, value |-> v]

\* reads: what the last two answers of the endpoint showed.
PipeInit == /\ recorded = 0 /\ ch = <<>> /\ folded = 0 /\ due = FALSE
            /\ marshalled = None /\ updates = <<>> /\ update = None /\ state = 0
            /\ reads = <<0, 0>>

Record == /\ recorded < MaxRecords /\ recorded' = recorded + 1
          /\ ch' = IF Len(ch) < ChCap THEN Append(ch, recorded + 1) ELSE ch
          /\ UNCHANGED <<folded, due, marshalled, updates, update, state, reads>>

\* The ticker's channel holds one tick.
Ticks == /\ ~due /\ due' = TRUE
         /\ UNCHANGED <<recorded, ch, folded, marshalled, updates, update, state, reads>>

\* A value is folded in; only then is the ticker looked at.
Fold == /\ ~marshalled.full /\ ch # <<>>
        /\ ch' = Tail(ch) /\ folded' = Head(ch) /\ due' = FALSE
        /\ marshalled' = IF due THEN Some(Head(ch)) ELSE None
        /\ UNCHANGED <<recorded, updates, update, state, reads>>

\* The newest snapshot first, as a list used for a queue would have it.
PushUpdateFront == /\ marshalled.full /\ Len(updates) < UpdatesCap
                   /\ updates' = <<marshalled.value>> \o updates /\ marshalled' = None
                   /\ UNCHANGED <<recorded, ch, folded, due, update, state, reads>>

\* metricUpdates <- bytes waits for room.
PushUpdate == /\ marshalled.full /\ Len(updates) < UpdatesCap
              /\ updates' = Append(updates, marshalled.value) /\ marshalled' = None
              /\ UNCHANGED <<recorded, ch, folded, due, update, state, reads>>

TakeUpdate == /\ ~update.full /\ updates # <<>>
              /\ update' = Some(Head(updates)) /\ updates' = Tail(updates)
              /\ UNCHANGED <<recorded, ch, folded, due, marshalled, state, reads>>

StoreUpdate == /\ update.full /\ state' = update.value /\ update' = None
               /\ UNCHANGED <<recorded, ch, folded, due, marshalled, updates, reads>>

GetMetrics == /\ reads' = <<reads[2], state>> /\ reads' # reads
              /\ UNCHANGED <<recorded, ch, folded, due, marshalled, updates, update, state>>

PipeNext == \/ Record \/ Ticks \/ Fold \/ PushUpdate \/ TakeUpdate \/ StoreUpdate \/ GetMetrics

(***************************************************************************)
(* Through both channels and three goroutines, an answer of the endpoint   *)
(* never shows an older value than the answer before, nor one that was     *)
(* not recorded, however many values were dropped (metrics.go:68-104).     *)
(***************************************************************************)
ReadsMoveForward == reads[1] <= reads[2] /\ reads[2] <= state /\ state <= folded /\ folded <= recorded

=============================================================================
