---------------------------- MODULE MetricWriter ----------------------------
(***************************************************************************)
(* The metric writer of tools/metric.go: Record offers a metric to a       *)
(* bounded channel, poll collects a batch, and the goroutine of            *)
(* NewMetricWriter writes the batch to a UDP connection that it dials      *)
(* again after an error.                                                   *)
(***************************************************************************)
EXTENDS Naturals, Sequences, SequencesExt

CONSTANTS MaxMetrics,    \* a bound: metrics recorded
          QueueCap,      \* the channel holds 1000
          BatchCap       \* poll takes up to 100

VARIABLES offered, queue, accepted, writer, batch, connected, written

writerVars == <<offered, queue, accepted, writer, batch, connected, written>>

ASSUME WriterAssumption == /\ MaxMetrics \in Nat /\ QueueCap \in Nat \ {0}
                           /\ BatchCap \in Nat \ {0}

\* accepted: what Record put into the channel; written: what a write that
\* returned without an error has carried.  connected stands for err = nil.
WriterInit == /\ offered = 0 /\ queue = <<>> /\ accepted = {} /\ written = {}
              /\ writer = "poll" /\ batch = <<>> /\ connected \in BOOLEAN

RecordMetric ==
  /\ offered < MaxMetrics /\ offered' = offered + 1
  /\ IF Len(queue) < QueueCap
     THEN queue' = Append(queue, offered + 1) /\ accepted' = accepted \cup {offered + 1}
     ELSE UNCHANGED <<queue, accepted>>
  /\ UNCHANGED <<writer, batch, connected, written>>

Poll == /\ writer = "poll" /\ queue # <<>> /\ Len(batch) < BatchCap
        /\ batch' = Append(batch, Head(queue)) /\ queue' = Tail(queue)
        /\ UNCHANGED <<offered, accepted, writer, connected, written>>

\* The count is reached, or the timer ran out on a batch that is not empty.
PollReturns == /\ writer = "poll" /\ batch # <<>> /\ writer' = "write"
               /\ UNCHANGED <<offered, queue, accepted, batch, connected, written>>

\* A failed write gives its batch up.
WriteBatchDrops == /\ writer = "write" /\ connected /\ writer' = "poll" /\ batch' = <<>>
                   /\ \/ written' = written \cup Range(batch) /\ UNCHANGED connected
                      \/ connected' = FALSE /\ UNCHANGED written
                   /\ UNCHANGED <<offered, queue, accepted>>

\* After a write without an error the inner loop writes the same batch again.
WriteBatch == /\ writer = "write" /\ connected
              /\ \/ written' = written \cup Range(batch) /\ UNCHANGED connected
                 \/ connected' = FALSE /\ UNCHANGED written
              /\ UNCHANGED <<offered, queue, accepted, writer, batch>>

Dial == /\ writer = "write" /\ ~connected /\ connected' \in BOOLEAN
        /\ UNCHANGED <<offered, queue, accepted, writer, batch, written>>

WriterNext == RecordMetric \/ Poll \/ PollReturns \/ WriteBatch \/ Dial

(***************************************************************************)
(* Record drops a metric only at the full channel: what it accepted is in  *)
(* the channel, in the batch in hand, or was written, whatever errors the  *)
(* connection had (tools/metric.go:87-145).                                *)
(***************************************************************************)
AcceptedIsKept == accepted = Range(queue) \cup Range(batch) \cup written

=============================================================================
