-------------------------- MODULE UtilitiesProofs ---------------------------
(***************************************************************************)
(* The properties of the five small components, for all sizes of their     *)
(* batches, rings and channels and any number of callers.  Each has an     *)
(* inductive invariant of its own; Frame takes it to the whole module.     *)
(***************************************************************************)
EXTENDS Utilities, FiniteSetTheorems, TLAPS

\* A step of the whole is, for every component, a step of it or none.
LEMMA Frame ==
    [Next]_utilVars =>
        /\ [HttpNext]_httpVars /\ [StoreNext]_storeVars /\ [RingNext]_ringVars
        /\ [PipeNext]_pipeVars /\ [WriterNext]_writerVars
BY Zenon DEF Next, utilVars

-----------------------------------------------------------------------------
(* Sequences.                                                              *)

LEMMA TailIs ==
    ASSUME NEW S, NEW s \in Seq(S), s # << >>
    PROVE  /\ Tail(s) \in Seq(S) /\ Head(s) \in S /\ Head(s) = s[1]
           /\ Len(s) \in Nat /\ Len(s) > 0 /\ Len(Tail(s)) = Len(s) - 1
           /\ \A i \in 1 .. Len(s) - 1 : Tail(s)[i] = s[i + 1]
OBVIOUS

LEMMA AppendIs ==
    ASSUME NEW S, NEW s \in Seq(S), NEW e \in S
    PROVE  /\ Append(s, e) \in Seq(S)
           /\ Len(s) \in Nat /\ Len(Append(s, e)) = Len(s) + 1
           /\ Append(s, e)[Len(s) + 1] = e
           /\ \A i \in 1 .. Len(s) : Append(s, e)[i] = s[i]
OBVIOUS

LEMMA RangeAppend ==
    ASSUME NEW S, NEW s \in Seq(S), NEW e \in S
    PROVE  Range(Append(s, e)) = Range(s) \cup {e}
<1>1. DOMAIN Append(s, e) = 1 .. Len(s) + 1 /\ DOMAIN s = 1 .. Len(s)
  OBVIOUS
<1> QED BY <1>1, AppendIs DEF Range

LEMMA RangeTail ==
    ASSUME NEW S, NEW s \in Seq(S), s # << >>
    PROVE  Range(s) = Range(Tail(s)) \cup {Head(s)}
<1>1. DOMAIN Tail(s) = 1 .. Len(s) - 1 /\ DOMAIN s = 1 .. Len(s)
  BY TailIs
<1>2. \A i \in 2 .. Len(s) : i - 1 \in 1 .. Len(s) - 1 /\ (i - 1) + 1 = i
  BY TailIs
<1>3. \A i \in 2 .. Len(s) : s[i] = Tail(s)[i - 1]
  BY <1>2, TailIs
<1>4. \A i \in 1 .. Len(s) : s[i] \in Range(Tail(s)) \cup {Head(s)}
  <2> SUFFICES ASSUME NEW i \in 1 .. Len(s) PROVE s[i] \in Range(Tail(s)) \cup {Head(s)}
    OBVIOUS
  <2>1. CASE i = 1
    BY <2>1, TailIs
  <2>2. CASE i # 1
    <3>1. i \in 2 .. Len(s)
      BY <2>2, TailIs
    <3> QED BY <3>1, <1>1, <1>2, <1>3 DEF Range
  <2> QED BY <2>1, <2>2
<1>5. \A i \in 1 .. Len(s) - 1 : Tail(s)[i] \in Range(s)
  <2> SUFFICES ASSUME NEW i \in 1 .. Len(s) - 1 PROVE Tail(s)[i] \in Range(s)
    OBVIOUS
  <2>1. i + 1 \in 1 .. Len(s) /\ Tail(s)[i] = s[i + 1]
    BY TailIs
  <2> QED BY <2>1, <1>1 DEF Range
<1>6. Head(s) \in Range(s)
  BY TailIs, <1>1 DEF Range
<1>7. Range(s) \subseteq Range(Tail(s)) \cup {Head(s)}
  BY <1>1, <1>4 DEF Range
<1>8. Range(Tail(s)) \subseteq Range(s)
  BY <1>1, <1>5 DEF Range
<1> QED BY <1>6, <1>7, <1>8

-----------------------------------------------------------------------------
(* The metric writer.                                                      *)

WriterInv ==
    /\ offered \in Nat /\ queue \in Seq(Nat) /\ batch \in Seq(Nat)
    /\ AcceptedIsKept

LEMMA WriterStep == WriterInv /\ [WriterNext]_writerVars => WriterInv'
<1> SUFFICES ASSUME WriterInv, [WriterNext]_writerVars PROVE WriterInv'
  OBVIOUS
<1> USE DEF WriterInv, AcceptedIsKept
<1>1. CASE RecordMetric
  <2>1. offered + 1 \in Nat /\ offered' = offered + 1 /\ batch' = batch /\ written' = written
    BY <1>1 DEF RecordMetric
  <2>2. CASE Len(queue) < QueueCap
    <3>1. queue' = Append(queue, offered + 1) /\ accepted' = accepted \cup {offered + 1}
      BY <1>1, <2>2 DEF RecordMetric
    <3>2. queue' \in Seq(Nat) /\ Range(queue') = Range(queue) \cup {offered + 1}
      BY <3>1, <2>1, AppendIs, RangeAppend
    <3> QED BY <2>1, <3>1, <3>2
  <2>3. CASE ~(Len(queue) < QueueCap)
    BY <1>1, <2>1, <2>3 DEF RecordMetric
  <2> QED BY <2>2, <2>3
<1>2. CASE Poll
  <2>1. /\ queue # << >> /\ queue' = Tail(queue) /\ batch' = Append(batch, Head(queue))
        /\ UNCHANGED <<offered, accepted, written>>
    BY <1>2 DEF Poll
  <2>2. queue' \in Seq(Nat) /\ Head(queue) \in Nat
        /\ Range(queue) = Range(queue') \cup {Head(queue)}
    BY <2>1, TailIs, RangeTail
  <2>3. batch' \in Seq(Nat) /\ Range(batch') = Range(batch) \cup {Head(queue)}
    BY <2>1, <2>2, AppendIs, RangeAppend
  <2> QED BY <2>1, <2>2, <2>3
<1>3. CASE PollReturns \/ Dial
  BY <1>3 DEF PollReturns, Dial
<1>4. CASE WriteBatch
  BY <1>4 DEF WriteBatch
<1>5. CASE UNCHANGED writerVars
  BY <1>5 DEF writerVars
<1> QED BY <1>1, <1>2, <1>3, <1>4, <1>5 DEF WriterNext

\* The metric writer loses no metric that Record put into the channel, whatever
\* errors the connection has and for all capacities (tools/metric.go, Record,
\* poll and NewMetricWriter).
THEOREM NothingAcceptedIsLost == Spec => []AcceptedIsKept
<1>1. Init => WriterInv
  BY DEF Init, WriterInit, WriterInv, AcceptedIsKept, Range
<1>2. WriterInv /\ [Next]_utilVars => WriterInv'
  BY WriterStep, Frame
<1>3. WriterInv => AcceptedIsKept
  BY DEF WriterInv
<1> QED BY <1>1, <1>2, <1>3, PTL DEF Spec

-----------------------------------------------------------------------------
(* The singleton store.                                                    *)

Things == Nat \cup {Absent, Nil}

\* One caller at most is past the lookup, and it holds the lock over an empty
\* store; nothing was created or handed out before.
StoreInv ==
    /\ created \in Nat /\ store \in Things /\ mutex \in Callers \cup {Free}
    /\ at \in [Callers -> {"retry", "lock", "create", "done"}]
    /\ err \in [Callers -> BOOLEAN] /\ ins \in [Callers -> Things]
    /\ \A p \in Callers : at[p] = "create" <=> mutex = p
    /\ mutex # Free => store = Absent
    /\ store = Absent => created = 0 /\ \A p \in Callers : ins[p] = Absent /\ ~err[p]
    /\ SameForAll

LEMMA StoreStep == StoreInv /\ [StoreNext]_storeVars => StoreInv'
<1> SUFFICES ASSUME StoreInv, [StoreNext]_storeVars PROVE StoreInv'
  OBVIOUS
<1>a. Free \notin Callers /\ Absent \notin Nat /\ Nil \notin Nat /\ Nil # Absent
  BY StoreAssumption DEF Free
<1>1. ASSUME NEW p \in Callers, Try(p) \/ GiveUp(p) PROVE StoreInv'
  <2>1. \E l \in {"lock", "done"} : at' = [at EXCEPT ![p] = l]
    BY <1>1 DEF Try, GiveUp
  <2>2. at[p] = "retry" /\ UNCHANGED <<mutex, store, created, err, ins>>
    BY <1>1 DEF Try, GiveUp
  <2> QED BY <2>1, <2>2 DEF StoreInv, SameForAll
<1>2. ASSUME NEW p \in Callers, Lookup(p) PROVE StoreInv'
  <2>1. at[p] = "lock" /\ mutex = Free /\ UNCHANGED <<store, created>>
    BY <1>2 DEF Lookup
  <2>2. CASE store = Absent
    <3>1. mutex' = p /\ at' = [at EXCEPT ![p] = "create"] /\ UNCHANGED <<err, ins>>
      BY <1>2, <2>2 DEF Lookup
    <3> QED BY <1>a, <2>1, <2>2, <3>1 DEF StoreInv, SameForAll
  <2>3. CASE store # Absent
    <3>1. /\ mutex' = Free /\ err' = [err EXCEPT ![p] = FALSE]
          /\ ins' = [ins EXCEPT ![p] = store] /\ at' = [at EXCEPT ![p] = "done"]
      BY <1>2, <2>3 DEF Lookup, Got
    <3> QED BY <1>a, <2>1, <2>3, <3>1 DEF StoreInv, SameForAll
  <2> QED BY <2>2, <2>3
<1>3. ASSUME NEW p \in Callers, NEW ok \in BOOLEAN, Create(p, ok) PROVE StoreInv'
  <2>1. mutex = p /\ store = Absent /\ created = 0 /\ mutex' = Free
    BY <1>3, <1>a DEF Create, Got, StoreInv
  <2>2. CASE ok
    <3>1. /\ created' = 1 /\ store' = 1 /\ err' = [err EXCEPT ![p] = FALSE]
          /\ ins' = [ins EXCEPT ![p] = 1] /\ at' = [at EXCEPT ![p] = "done"]
      <4>1. ok = TRUE
        BY <2>2
      <4>2. Create(p, TRUE)
        BY <1>3, <4>1
      <4>3. Got(p, store', FALSE) /\ store' = created + 1 /\ created' = created + 1
        BY <4>2 DEF Create
      <4> QED BY <2>1, <4>3 DEF Got
    <3> QED BY <1>a, <2>1, <3>1 DEF StoreInv, SameForAll, Things
  <2>3. CASE ~ok
    <3>1. /\ created' = 0 /\ store' = Nil /\ err' = [err EXCEPT ![p] = TRUE]
          /\ ins' = [ins EXCEPT ![p] = Absent] /\ at' = [at EXCEPT ![p] = "retry"]
      <4>1. ok = FALSE
        BY <2>3
      <4>2. Create(p, FALSE)
        BY <1>3, <4>1
      <4>3. Got(p, store', TRUE) /\ store' = Nil /\ created' = created
        BY <4>2 DEF Create
      <4> QED BY <2>1, <4>3 DEF Got
    <3> QED BY <1>a, <2>1, <3>1 DEF StoreInv, SameForAll, Things
  <2> QED BY <2>2, <2>3
<1>4. CASE UNCHANGED storeVars
  BY <1>4 DEF storeVars, StoreInv, SameForAll
<1> QED BY <1>1, <1>2, <1>3, <1>4 DEF StoreNext

\* Of all the callers of WithOptions, with any number of retries, one at most
\* creates an SDK, all others get what it stored, and one alone learns that
\* Create failed (util/single.go, Single).
THEOREM OneForAll == Spec => []SameForAll
<1>1. Init => StoreInv
  <2>1. \A p \in Callers : p # Free
    BY StoreAssumption DEF Free
  <2> SUFFICES ASSUME StoreInit PROVE StoreInv
    BY DEF Init
  <2> QED BY <2>1 DEF StoreInit, StoreInv, SameForAll, Things
<1>2. StoreInv /\ [Next]_utilVars => StoreInv'
  BY StoreStep, Frame
<1>3. StoreInv => SameForAll
  BY DEF StoreInv
<1> QED BY <1>1, <1>2, <1>3, PTL DEF Spec

-----------------------------------------------------------------------------
(* The metrics endpoint.                                                   *)

\* Values move from recorded down to what was read, each place older than the
\* one before.
Maybe == [full : BOOLEAN, value : Nat]
InOrder(s) == \A i, j \in 1 .. Len(s) : i < j => s[i] <= s[j]

PipeInv ==
    /\ recorded \in Nat /\ folded \in Nat /\ state \in Nat /\ reads \in Nat \X Nat
    /\ ch \in Seq(Nat) /\ updates \in Seq(Nat) /\ marshalled \in Maybe /\ update \in Maybe
    /\ InOrder(ch) /\ \A i \in 1 .. Len(ch) : folded <= ch[i] /\ ch[i] <= recorded
    /\ marshalled.full => state <= marshalled.value /\ marshalled.value <= folded
    /\ InOrder(updates)
    /\ \A i \in 1 .. Len(updates) : /\ state <= updates[i] /\ updates[i] <= folded
                                    /\ marshalled.full => updates[i] <= marshalled.value
    /\ update.full => /\ state <= update.value /\ update.value <= folded
                      /\ marshalled.full => update.value <= marshalled.value
                      /\ \A i \in 1 .. Len(updates) : update.value <= updates[i]
    /\ ReadsMoveForward

LEMMA TailInOrder ==
    ASSUME NEW s \in Seq(Nat), s # << >>, InOrder(s)
    PROVE  /\ InOrder(Tail(s)) /\ \A i \in 1 .. Len(Tail(s)) : Head(s) <= Tail(s)[i]
<1>1. \A i \in 1 .. Len(Tail(s)) : i + 1 \in 1 .. Len(s) /\ Tail(s)[i] = s[i + 1] /\ 1 < i + 1
  BY TailIs
<1>2. Head(s) = s[1] /\ 1 \in 1 .. Len(s) /\ Len(Tail(s)) \in Nat
  BY TailIs
<1>3. \A i, j \in 1 .. Len(Tail(s)) : i < j => i + 1 < j + 1
  BY <1>2
<1> QED BY <1>1, <1>2, <1>3 DEF InOrder

LEMMA AppendInOrder ==
    ASSUME NEW s \in Seq(Nat), NEW e \in Nat, InOrder(s), \A i \in 1 .. Len(s) : s[i] <= e
    PROVE  /\ InOrder(Append(s, e))
           /\ \A i \in 1 .. Len(Append(s, e)) :
                 \/ i \in 1 .. Len(s) /\ Append(s, e)[i] = s[i]
                 \/ Append(s, e)[i] = e
<1>1. \A i \in 1 .. Len(Append(s, e)) :
         \/ i \in 1 .. Len(s) /\ Append(s, e)[i] = s[i]
         \/ i = Len(s) + 1 /\ Append(s, e)[i] = e
  BY AppendIs
<1>2. \A i, j \in 1 .. Len(Append(s, e)) : i < j => i \in 1 .. Len(s)
  BY AppendIs
<1>3. \A i \in 1 .. Len(s) : s[i] \in Nat
  OBVIOUS
<1> QED BY <1>1, <1>2, <1>3 DEF InOrder

LEMMA PipeStep == PipeInv /\ [PipeNext]_pipeVars => PipeInv'
<1> SUFFICES ASSUME PipeInv, [PipeNext]_pipeVars PROVE PipeInv'
  OBVIOUS
<1>a. /\ \A i \in 1 .. Len(ch) : ch[i] \in Nat
      /\ \A i \in 1 .. Len(updates) : updates[i] \in Nat
      /\ reads[1] \in Nat /\ reads[2] \in Nat
      /\ marshalled.value \in Nat /\ update.value \in Nat
  <2>1. ch \in Seq(Nat) /\ updates \in Seq(Nat)
    BY DEF PipeInv
  <2>2. reads \in Nat \X Nat
    BY DEF PipeInv
  <2>3. marshalled \in Maybe /\ update \in Maybe
    BY DEF PipeInv
  <2> QED BY <2>1, <2>2, <2>3 DEF Maybe
<1>1. CASE Record
  <2>1. /\ recorded' = recorded + 1
        /\ UNCHANGED <<folded, due, marshalled, updates, update, state, reads>>
        /\ (ch' = ch \/ ch' = Append(ch, recorded + 1))
    BY <1>1 DEF Record
  <2>2. /\ recorded + 1 \in Nat /\ \A i \in 1 .. Len(ch) : ch[i] <= recorded + 1
        /\ folded <= recorded + 1 /\ recorded <= recorded + 1
    BY <1>a DEF PipeInv, ReadsMoveForward
  <2>3. /\ ch' \in Seq(Nat) /\ InOrder(ch')
        /\ \A i \in 1 .. Len(ch') : folded <= ch'[i] /\ ch'[i] <= recorded + 1
    <3>1. CASE ch' = ch
      BY <3>1, <2>2 DEF PipeInv
    <3>2. CASE ch' = Append(ch, recorded + 1)
      <4>1. ch \in Seq(Nat) /\ InOrder(ch) /\ \A i \in 1 .. Len(ch) : folded <= ch[i]
        BY DEF PipeInv
      <4>2. ch' \in Seq(Nat)
        BY <3>2, <2>2, <4>1, AppendIs
      <4>3. /\ InOrder(ch')
            /\ \A i \in 1 .. Len(ch') : \/ i \in 1 .. Len(ch) /\ ch'[i] = ch[i]
                                        \/ ch'[i] = recorded + 1
        BY <3>2, <2>2, <4>1, AppendInOrder
      <4>4. recorded + 1 <= recorded + 1
        BY <2>2
      <4> QED BY <2>2, <4>1, <4>2, <4>3, <4>4
    <3> QED BY <2>1, <3>1, <3>2
  <2> QED BY <2>1, <2>2, <2>3, <1>a DEF PipeInv, ReadsMoveForward
<1>2. CASE Ticks
  BY <1>2 DEF Ticks, PipeInv, ReadsMoveForward
<1>3. CASE Fold
  <2>1. /\ ~marshalled.full /\ ch # << >> /\ ch' = Tail(ch) /\ folded' = Head(ch)
        /\ (marshalled' = Some(Head(ch)) \/ marshalled' = None)
        /\ UNCHANGED <<recorded, updates, update, state, reads>>
    BY <1>3 DEF Fold
  <2>2. /\ ch' \in Seq(Nat) /\ folded' \in Nat /\ Head(ch) = ch[1] /\ 1 \in 1 .. Len(ch)
        /\ Len(ch') = Len(ch) - 1 /\ Len(ch) \in Nat
        /\ \A i \in 1 .. Len(ch') : ch'[i] = ch[i + 1] /\ i + 1 \in 1 .. Len(ch)
    BY <2>1, TailIs DEF PipeInv
  <2>3. InOrder(ch') /\ \A i \in 1 .. Len(ch') : folded' <= ch'[i]
    BY <2>1, TailInOrder DEF PipeInv
  <2>4. folded <= folded' /\ folded' <= recorded
        /\ \A i \in 1 .. Len(ch') : ch'[i] <= recorded
    BY <2>1, <2>2 DEF PipeInv
  <2>5. marshalled' \in Maybe /\ (marshalled'.full => marshalled'.value = folded')
    <3>1. Head(ch) \in Nat /\ folded' = Head(ch)
      BY <2>1, <2>2
    <3>2. Some(Head(ch)) \in Maybe /\ Some(Head(ch)).value = Head(ch)
      BY <3>1 DEF Some, Maybe
    <3>3. None \in Maybe /\ ~None.full
      BY DEF None, Maybe
    <3>4. marshalled' = Some(Head(ch)) \/ marshalled' = None
      BY <2>1
    <3> QED BY <3>1, <3>2, <3>3, <3>4
  <2>6. /\ state <= folded /\ state <= folded'
        /\ \A i \in 1 .. Len(updates) : updates[i] <= folded'
        /\ update.full => update.value <= folded'
    <3>1. \A v \in Nat : v <= folded => v <= folded'
      <4>1. folded \in Nat /\ folded' \in Nat /\ folded <= folded'
        BY <2>2, <2>4 DEF PipeInv
      <4> HIDE DEF PipeInv
      <4> QED BY <4>1
    <3>2. state \in Nat /\ state <= folded /\ (update.full => update.value <= folded)
          /\ \A i \in 1 .. Len(updates) : updates[i] <= folded
      BY DEF PipeInv, ReadsMoveForward
    <3> QED BY <1>a, <3>1, <3>2
  <2> HIDE DEF PipeInv
  <2>7. /\ recorded' \in Nat /\ state' \in Nat /\ reads' \in Nat \X Nat
        /\ updates' \in Seq(Nat) /\ update' \in Maybe /\ InOrder(updates')
        /\ \A i \in 1 .. Len(updates') : state' <= updates'[i]
        /\ update'.full => /\ state' <= update'.value
                           /\ \A i \in 1 .. Len(updates') : update'.value <= updates'[i]
        /\ reads'[1] <= reads'[2] /\ reads'[2] <= state'
    BY <2>1 DEF PipeInv, ReadsMoveForward
  <2>8. folded' <= folded'
    BY <2>2
  <2> QED BY <2>1, <2>2, <2>3, <2>4, <2>5, <2>6, <2>7, <2>8 DEF PipeInv, ReadsMoveForward
<1>4. CASE PushUpdate
  <2>1. /\ marshalled.full /\ updates' = Append(updates, marshalled.value) /\ marshalled' = None
        /\ UNCHANGED <<recorded, ch, folded, update, state, reads>>
    BY <1>4 DEF PushUpdate
  <2>2. marshalled' \in Maybe /\ ~marshalled'.full
    BY <2>1 DEF None, Maybe
  <2>3. updates \in Seq(Nat) /\ InOrder(updates) /\ \A i \in 1 .. Len(updates) : updates[i] <= marshalled.value
    BY <2>1 DEF PipeInv
  <2>4. updates' \in Seq(Nat) /\ InOrder(updates')
    BY <2>1, <2>3, <1>a, AppendIs, AppendInOrder
  <2>5. \A i \in 1 .. Len(updates') : \/ i \in 1 .. Len(updates) /\ updates'[i] = updates[i]
                                      \/ updates'[i] = marshalled.value
    BY <2>1, <2>3, <1>a, AppendInOrder
  <2> QED BY <2>1, <2>2, <2>4, <2>5 DEF PipeInv, ReadsMoveForward
<1>5. CASE TakeUpdate
  <2>1. /\ ~update.full /\ updates # << >> /\ update' = Some(Head(updates))
        /\ updates' = Tail(updates)
        /\ UNCHANGED <<recorded, ch, folded, marshalled, state, reads>>
    BY <1>5 DEF TakeUpdate
  <2>2. /\ updates' \in Seq(Nat) /\ Head(updates) = updates[1] /\ 1 \in 1 .. Len(updates)
        /\ \A i \in 1 .. Len(updates') : updates'[i] = updates[i + 1] /\ i + 1 \in 1 .. Len(updates)
    BY <2>1, TailIs DEF PipeInv
  <2>3. InOrder(updates') /\ \A i \in 1 .. Len(updates') : Head(updates) <= updates'[i]
    BY <2>1, TailInOrder DEF PipeInv
  <2>4. update' \in Maybe /\ update'.value = updates[1]
    BY <2>1, <2>2, <1>a DEF Some, Maybe
  <2> QED BY <2>1, <2>2, <2>3, <2>4 DEF PipeInv, ReadsMoveForward
<1>6. CASE StoreUpdate
  <2>1. /\ update.full /\ state' = update.value /\ update' = None
        /\ UNCHANGED <<recorded, ch, folded, marshalled, updates, reads>>
    BY <1>6 DEF StoreUpdate
  <2>2. update' \in Maybe /\ ~update'.full
    BY <2>1 DEF None, Maybe
  <2>3. reads[2] <= update.value
    BY <2>1, <1>a DEF PipeInv, ReadsMoveForward
  <2> QED BY <2>1, <2>2, <2>3, <1>a DEF PipeInv, ReadsMoveForward
<1>7. CASE GetMetrics
  <2>1. /\ reads' = <<reads[2], state>>
        /\ UNCHANGED <<recorded, ch, folded, marshalled, updates, update, state>>
    BY <1>7 DEF GetMetrics
  <2>2. state \in Nat /\ state <= state
    BY DEF PipeInv
  <2> QED BY <2>1, <2>2, <1>a DEF PipeInv, ReadsMoveForward
<1>8. CASE UNCHANGED pipeVars
  BY <1>8 DEF pipeVars, PipeInv, ReadsMoveForward
<1> QED BY <1>1, <1>2, <1>3, <1>4, <1>5, <1>6, <1>7, <1>8 DEF PipeNext

\* The endpoint never goes back to an older value and never shows one that was
\* not recorded, for all sizes of both channels (metrics/metrics.go, Record,
\* Metrics.start, start and GetMetrics).
THEOREM ReadsInOrder == Spec => []ReadsMoveForward
<1>1. Init => PipeInv
  BY DEF Init, PipeInit, PipeInv, ReadsMoveForward, InOrder, Maybe, None
<1>2. PipeInv /\ [Next]_utilVars => PipeInv'
  BY PipeStep, Frame
<1>3. PipeInv => ReadsMoveForward
  BY DEF PipeInv
<1> QED BY <1>1, <1>2, <1>3, PTL DEF Spec

-----------------------------------------------------------------------------
(* The batch over HTTP.                                                    *)

\* The responses pass op.resp in the order of the body, and no more of them
\* than there are elements.
InTransit ==
    /\ body \in Seq(Ids) /\ pushed \in 0 .. Len(body) /\ waited \in 0 .. pushed
    /\ resp \in Seq(Ids) /\ Len(resp) = pushed - waited
    /\ \A i \in 1 .. pushed - waited : resp[i] = body[waited + i]
    /\ answered = {body[i] : i \in 1 .. waited}
    /\ pc = "push" => waited = 0
    /\ verdict # "panic"
    /\ verdict = "ok" => waited = Len(body)

NothingYet == pushed = 0 /\ waited = 0 /\ resp = << >> /\ answered = {} /\ verdict = "none"

HttpInv == (pc = "post" => NothingYet) /\ (Faithful(body) => InTransit)

LEMMA HttpStep == HttpInv /\ [HttpNext]_httpVars => HttpInv'
<1> SUFFICES ASSUME HttpInv, [HttpNext]_httpVars PROVE HttpInv'
  OBVIOUS
<1>b. pc' = "post" => NothingYet'
  BY DEF HttpInv, NothingYet, HttpNext, ContextEnds, PostFails, Post, Push, Pushed,
         WaitCancelled, WaitAnswer, Waited, Return, httpVars
<1> SUFFICES ASSUME Faithful(body') PROVE InTransit'
  BY <1>b DEF HttpInv
<1>a. Cardinality(Ids) \in Nat
  BY HttpAssumption, FS_CardinalityType
<1>1. CASE Post
  <2>1. PICK r \in Replies : body' = r
    BY <1>1 DEF Post
  <2>2. body' \in Seq(Ids \cup {Stray})
    BY <2>1, <1>a DEF Replies, BoundedSeq, SeqOf
  <2>3. body' \in Seq(Ids) /\ Len(body') \in Nat
    <3>1. \A i \in 1 .. Len(body') : body'[i] \in Ids
      BY <2>2 DEF Faithful, Range
    <3> QED BY <2>2, <3>1
  <2>4. /\ pushed' = 0 /\ waited' = 0 /\ resp' = << >> /\ answered' = {}
        /\ verdict' = "none" /\ pc' = "push"
    BY <1>1 DEF Post, HttpInv, NothingYet
  <2>5. /\ << >> \in Seq(Ids) /\ Len(<< >>) = 0 /\ 0 \in 0 .. Len(body') /\ 0 - 0 = 0
        /\ 0 \in 0 .. 0
    BY <2>3
  <2> QED BY <2>3, <2>4, <2>5 DEF InTransit
<1>2. CASE body' = body
  <2> USE DEF InTransit
  <2>a. /\ Faithful(body) /\ InTransit /\ Len(body) \in Nat /\ Len(body) = Cardinality(Ids)
        /\ pushed \in Nat /\ waited \in Nat
    BY <1>2 DEF Faithful, HttpInv
  <2>1. CASE ContextEnds
    BY <1>2, <2>1, <2>a DEF ContextEnds
  <2>2. CASE PostFails \/ WaitCancelled
    BY <1>2, <2>2, <2>a DEF PostFails, WaitCancelled, Return
  <2>3. CASE Push
    <3>1. /\ pc' = "push" /\ pc = "push" /\ pushed < Len(body) /\ pushed' = pushed + 1
          /\ resp' = Append(resp, body[pushed + 1])
          /\ waited = 0 /\ UNCHANGED <<waited, answered, verdict>>
      BY <2>3, <2>a DEF Push
    <3>2. body[pushed + 1] \in Ids /\ pushed + 1 \in 0 .. Len(body) /\ 0 \in 0 .. pushed + 1
      BY <3>1, <2>a
    <3>3. /\ resp' \in Seq(Ids) /\ Len(resp') = pushed' - waited'
          /\ \A i \in 1 .. pushed' - waited' : resp'[i] = body[waited' + i]
      <4>1. /\ resp \in Seq(Ids) /\ Len(resp) = pushed
            /\ \A i \in 1 .. pushed : resp[i] = body[i]
        BY <2>a, <3>1
      <4>2. /\ resp' \in Seq(Ids) /\ Len(resp') = pushed + 1 /\ resp'[pushed + 1] = body[pushed + 1]
            /\ \A i \in 1 .. pushed : resp'[i] = resp[i]
        BY <4>1, <3>1, <3>2, AppendIs
      <4> HIDE DEF InTransit
      <4> QED BY <2>a, <3>1, <4>1, <4>2
    <3> HIDE DEF InTransit
    <3>4. /\ answered' = {body'[i] : i \in 1 .. waited'} /\ body' \in Seq(Ids)
          /\ verdict' # "panic"
          /\ verdict' = "ok" => waited' = Len(body')
      BY <1>2, <2>a, <3>1 DEF InTransit
    <3>5. pushed' \in 0 .. Len(body') /\ waited' \in 0 .. pushed' /\ waited' = 0
      BY <1>2, <3>1, <3>2
    <3> QED BY <1>2, <3>3, <3>4, <3>5 DEF InTransit
  <2>4. CASE Pushed
    BY <1>2, <2>4, <2>a DEF Pushed
  <2>5. CASE WaitAnswer
    <3>1. /\ pc = "wait" /\ resp # << >> /\ resp' = Tail(resp) /\ waited' = waited + 1
          /\ pushed' = pushed
      BY <2>5 DEF WaitAnswer
    <3>2. /\ resp \in Seq(Ids) /\ Len(resp) = pushed - waited
          /\ \A i \in 1 .. pushed - waited : resp[i] = body[waited + i]
      BY <2>a
    <3>3. /\ Head(resp) \in Ids /\ Head(resp) = resp[1] /\ Len(resp) > 0
          /\ resp' \in Seq(Ids) /\ Len(resp') = Len(resp) - 1
          /\ \A i \in 1 .. Len(resp) - 1 : resp'[i] = resp[i + 1]
      BY <3>1, <3>2, TailIs
    <3>4. answered' = answered \cup {Head(resp)} /\ UNCHANGED <<pc, verdict>>
      BY <2>5, <3>3 DEF WaitAnswer
    <3>5. /\ waited' \in 0 .. pushed' /\ Len(resp') = pushed' - waited'
          /\ Head(resp) = body[waited']
      <4> HIDE DEF InTransit
      <4> QED BY <2>a, <3>1, <3>2, <3>3
    <3>6. \A i \in 1 .. pushed' - waited' : resp'[i] = body[waited' + i]
      <4> SUFFICES ASSUME NEW i \in 1 .. pushed' - waited' PROVE resp'[i] = body[waited' + i]
        OBVIOUS
      <4> HIDE DEF InTransit
      <4>1. i + 1 \in 1 .. pushed - waited /\ i \in 1 .. Len(resp) - 1 /\ waited' + i = waited + (i + 1)
        BY <2>a, <3>1, <3>2
      <4> QED BY <4>1, <3>2, <3>3
    <3>7. answered' = {body[i] : i \in 1 .. waited'}
      <4>1. 1 .. waited' = (1 .. waited) \cup {waited'}
        BY <2>a, <3>1
      <4>2. answered = {body[i] : i \in 1 .. waited}
        BY <2>a
      <4> HIDE DEF InTransit
      <4> QED BY <3>4, <3>5, <4>1, <4>2
    <3>8. /\ body \in Seq(Ids) /\ pushed \in 0 .. Len(body) /\ verdict' # "panic"
      BY <2>a, <3>4
    <3>9. verdict # "ok"
      BY <2>a, <3>1, <3>2, <3>3
    <3> HIDE DEF InTransit
    <3> QED BY <1>2, <3>1, <3>3, <3>4, <3>5, <3>6, <3>7, <3>8, <3>9 DEF InTransit
  <2>6. CASE Waited
    BY <1>2, <2>6, <2>a DEF Waited, Return
  <2>7. CASE UNCHANGED httpVars
    BY <2>7, <2>a DEF httpVars
  <2>8. CASE Post
    BY <1>1, <2>8
  <2> QED BY <2>1, <2>2, <2>3, <2>4, <2>5, <2>6, <2>7, <2>8 DEF HttpNext
<1> QED BY <1>1, <1>2
        DEF HttpNext, ContextEnds, PostFails, Push, Pushed, WaitCancelled, WaitAnswer, Waited,
            httpVars

\* A batch of any size that the node answers in full gets through: it never
\* blocks on op.resp, finds every element and is successful only when all are
\* filled (chains/custom/http.go, sendBatchHTTP; client.go, BatchCallContext).
THEOREM FaithfulAnswered == Spec => []FaithfulReplyAnswers
<1>1. Init => HttpInv
  BY DEF Init, HttpInit, HttpInv, NothingYet, InTransit
<1>2. HttpInv /\ [Next]_utilVars => HttpInv'
  BY HttpStep, Frame
<1>3. HttpInv => FaithfulReplyAnswers
  <2> SUFFICES ASSUME HttpInv, Faithful(body)
               PROVE  ~Wedged /\ verdict # "panic" /\ (verdict = "ok" => answered = Ids)
    BY DEF FaithfulReplyAnswers
  <2>1. ~Wedged
    BY DEF Wedged, HttpInv, InTransit, Faithful, RespCap
  <2>2. DOMAIN body = 1 .. Len(body)
    BY DEF HttpInv, InTransit
  <2>3. verdict = "ok" => answered = Range(body)
    BY <2>2 DEF HttpInv, InTransit, Range
  <2> QED BY <2>1, <2>3 DEF HttpInv, InTransit, Faithful
<1> QED BY <1>1, <1>2, <1>3, PTL DEF Spec

-----------------------------------------------------------------------------
(* The block counter.  Back and Succ walk the ring without a modulus; the   *)
(* place d behind the tail holds what was ticked d before the last, also    *)
(* while a Tick has moved the tail and not yet written the new entry.       *)

Succ(t) == IF t + 1 = Count THEN 0 ELSE t + 1
Back(t, d) == IF d <= t THEN t - d ELSE t - d + Count

Places == 0 .. Count - 1
Blocks == [height : Nat, time : Nat]
Wrote  == tick.at \in {"idle", "index", "head"}     \* the entry of the last Tick
Begun  == IF Wrote THEN Len(ticked) ELSE Len(ticked) + 1

RingTypeOK ==
    /\ ring \in [Places -> Blocks] /\ head \in Places /\ tail \in Places
    /\ full \in BOOLEAN /\ clock \in Nat /\ ticked \in Seq(Blocks)
    /\ tick \in [at : {"idle", "index", "height", "time", "head"}, height : Nat]
    /\ reader \in [at : {"idle", "tail"}, clean : BOOLEAN, value : Blocks]

Filled ==
    \A d \in Places : (d < Begun /\ (d > 0 \/ Wrote)) => ring[Back(tail, d)] = ticked[Begun - d]

Ends ==
    /\ full <=> Begun >= Count
    /\ ~full => tail = Begun /\ head = 1
    /\ full /\ tick.at \in {"idle", "index"} => head = Succ(tail)

Oldest == ticked[IF Len(ticked) <= Count THEN 1 ELSE Len(ticked) - Count + 1]
Newest == ticked[Len(ticked)]
Span   == Block(Minus(Newest.height, Oldest.height), Minus(Newest.time, Oldest.time))

ReaderInv ==
    reader.clean => /\ tick = Idle
                    /\ ticked # << >> => IF reader.at = "tail" THEN reader.value = Oldest
                                                              ELSE reader.value = Span

RingInv == RingTypeOK /\ Filled /\ Ends /\ (tick.at = "time" => ring[tail].height = tick.height)
                      /\ ReaderInv

LEMMA SuccIs == \A t \in Places : (t + 1) % Count = Succ(t) /\ Succ(t) \in Places
BY RingAssumption DEF Succ, Places

LEMMA BackIs ==
    \A t, d \in Places : /\ Back(t, d) \in Places
                         /\ Back(t, d) = t <=> d = 0
                         /\ d > 0 => Back(Succ(t), d) = Back(t, d - 1)
                         /\ Back(t, Count - 1) = Succ(t)
                         /\ d <= t => Back(t, d) = t - d
BY RingAssumption DEF Succ, Back, Places

LEMMA MinusIs == \A a, b \in Nat : Minus(a, b) \in Nat
BY RingAssumption DEF Minus

LEMMA KeptIs == ASSUME RingTypeOK, ticked # << >> PROVE Head(Kept) = Oldest /\ Last(Kept) = Newest
<1> DEFINE k == Len(ticked)
           from == k - Count + 1
<1>1. k \in Nat /\ k > 0 /\ Count \in Nat /\ Count >= 2 /\ ticked \in Seq(Blocks)
  BY RingAssumption DEF RingTypeOK
<1>2. CASE k <= Count
  BY <1>1, <1>2 DEF Kept, Oldest, Newest, Last
<1>3. CASE ~(k <= Count)
  <2>1. from \in 1 .. k /\ from > 1 /\ k - from + 1 = Count
    BY <1>1, <1>3
  <2> DEFINE s == SubSeq(ticked, from, k)
  <2>2. Len(s) = Count /\ s[1] = ticked[from] /\ s[Count] = ticked[k] /\ Head(s) = s[1]
    BY <1>1, <2>1
  <2>3. Kept = s
    BY <1>3 DEF Kept
  <2>4. Oldest = ticked[from] /\ Newest = ticked[k]
    BY <1>3 DEF Oldest, Newest
  <2> QED BY <2>2, <2>3, <2>4 DEF Last
<1> QED BY <1>2, <1>3

\* Between two Ticks the head is the place of the oldest entry, the tail of the
\* newest.
LEMMA EndsAre ==
    ASSUME RingTypeOK, Filled, Ends, tick = Idle, ticked # << >>
    PROVE  ring[head] = Oldest /\ ring[tail] = Newest
<1>1. /\ Len(ticked) \in Nat /\ Len(ticked) > 0 /\ Begun = Len(ticked) /\ Wrote
      /\ tick.at = "idle" /\ Count \in Nat /\ Count >= 2 /\ tail \in Places
  BY RingAssumption DEF RingTypeOK, Begun, Wrote, Idle
<1>2. \A d \in Places : d < Len(ticked) => ring[Back(tail, d)] = ticked[Len(ticked) - d]
  BY <1>1 DEF Filled
<1>3. ring[tail] = Newest
  <2>1. 0 \in Places /\ Back(tail, 0) = tail /\ Len(ticked) - 0 = Len(ticked)
    BY <1>1, BackIs DEF Places
  <2> QED BY <1>1, <1>2, <2>1 DEF Newest
<1>4. CASE full
  <2>1. Len(ticked) >= Count /\ head = Back(tail, Count - 1) /\ Count - 1 \in Places
    BY <1>1, <1>4, BackIs DEF Ends, Places
  <2>2. ring[head] = ticked[Len(ticked) - (Count - 1)]
    BY <1>1, <1>2, <2>1
  <2>3. Len(ticked) - (Count - 1) = IF Len(ticked) <= Count THEN 1 ELSE Len(ticked) - Count + 1
    BY <1>1, <2>1
  <2> QED BY <1>3, <2>2, <2>3 DEF Oldest
<1>5. CASE ~full
  <2>1. Len(ticked) < Count /\ head = 1 /\ tail = Len(ticked)
    BY <1>1, <1>5 DEF Ends
  <2> DEFINE d == Len(ticked) - 1
  <2>2. /\ d \in Places /\ d < Len(ticked) /\ d <= tail /\ tail - d = 1 /\ Len(ticked) - d = 1
        /\ Len(ticked) <= Count
    BY <1>1, <2>1 DEF Places
  <2>3. Back(tail, d) = 1
    BY <1>1, <2>2, BackIs
  <2>4. ring[1] = ticked[1]
    BY <1>2, <2>2, <2>3
  <2> QED BY <1>3, <2>1, <2>2, <2>4 DEF Oldest
<1> QED BY <1>4, <1>5

LEMMA RingStep == RingInv /\ [RingNext]_ringVars => RingInv'
<1> SUFFICES ASSUME RingInv, [RingNext]_ringVars PROVE RingInv'
  OBVIOUS
<1> USE DEF RingInv
<1>a. /\ RingTypeOK /\ Len(ticked) \in Nat /\ Count \in Nat /\ Count >= 2 /\ Begun \in Nat
      /\ head \in Places /\ tail \in Places /\ tick.height \in Nat /\ 0 \in Places
  BY RingAssumption DEF RingTypeOK, Begun, Places
<1>b. ASSUME Disturb PROVE ReaderInv' /\ reader' \in [at : {"idle", "tail"}, clean : BOOLEAN, value : Blocks]
  BY <1>a, <1>b DEF Disturb, RingTypeOK, ReaderInv
<1>1. CASE Passes
  <2>1. clock' \in Nat /\ UNCHANGED <<ring, head, tail, full, tick, reader, ticked>>
    BY <1>1 DEF Passes, RingTypeOK
  <2> QED BY <2>1 DEF RingTypeOK, Filled, Ends, ReaderInv, Begun, Wrote, Oldest, Newest, Span
<1>2. ASSUME NEW h \in 0 .. MaxHeight, TickLocks(h) PROVE RingInv'
  <2>1. /\ tick = Idle /\ tick' = [at |-> "index", height |-> h] /\ Disturb /\ h \in Nat
        /\ UNCHANGED <<ring, head, tail, full, clock, ticked>>
    BY <1>2, RingAssumption DEF TickLocks
  <2>2. RingTypeOK'
    BY <1>b, <2>1 DEF RingTypeOK
  <2>3. Wrote /\ Wrote' /\ Begun' = Begun /\ tick.at = "idle" /\ tick'.at = "index"
    BY <2>1 DEF Wrote, Begun, Idle
  <2>4. Filled' /\ Ends'
    BY <2>1, <2>3 DEF Filled, Ends
  <2> QED BY <1>b, <2>1, <2>2, <2>3, <2>4
<1>3. CASE TickIndex
  <2>1. /\ tick.at = "index" /\ tick' = [tick EXCEPT !.at = "height"] /\ Disturb
        /\ full' = (full \/ tail = Count - 1) /\ tail' = Succ(tail)
        /\ UNCHANGED <<ring, head, clock, ticked>>
    BY <1>3, <1>a, SuccIs DEF TickIndex
  <2>2. RingTypeOK'
    BY <1>a, <1>b, <2>1, SuccIs DEF RingTypeOK
  <2>3. /\ Wrote /\ ~Wrote' /\ Begun = Len(ticked) /\ Begun' = Len(ticked) + 1
        /\ tick'.at = "height"
    BY <2>1 DEF RingTypeOK, Wrote, Begun
  <2>4. Filled'
    <3> SUFFICES ASSUME NEW d \in Places, d < Begun', d > 0
                 PROVE  ring[Back(Succ(tail), d)] = ticked[Begun' - d]
      BY <2>1, <2>3 DEF Filled
    <3>1. d - 1 \in Places /\ d - 1 < Begun /\ Begun - (d - 1) = Begun' - d
      BY <2>3, <1>a DEF Places
    <3>2. ring[Back(tail, d - 1)] = ticked[Begun - (d - 1)]
      BY <2>3, <3>1 DEF Filled
    <3> QED BY <3>1, <3>2, <1>a, BackIs
  <2>5. Ends'
    <3>1. ~full => tail = Len(ticked) /\ head = 1 /\ Len(ticked) < Count
      BY <2>3, <1>a DEF Ends
    <3>2. full => Len(ticked) >= Count
      BY <2>3 DEF Ends
    <3>3. Len(ticked) \in Nat /\ tail \in Nat /\ Count \in Nat /\ Count >= 2
      BY <1>a DEF Places
    <3>4. full' <=> Begun' >= Count
      <4>1. CASE full
        <5>1. full'
          BY <2>1, <4>1, Zenon
        <5>2. Begun' >= Count
          BY <2>3, <3>2, <3>3, <4>1
        <5> QED BY <5>1, <5>2
      <4>2. CASE ~full
        <5>1. full' <=> tail = Count - 1
          BY <2>1, <4>2, Zenon
        <5>2. Begun' >= Count <=> tail = Count - 1
          BY <2>3, <3>1, <3>3, <4>2
        <5> QED BY <5>1, <5>2
      <4> QED BY <4>1, <4>2
    <3>5. ~full' => tail' = Begun' /\ head' = 1
      <4> SUFFICES ASSUME ~full' PROVE tail' = Begun' /\ head' = 1
        OBVIOUS
      <4>1. ~full /\ tail # Count - 1
        BY <2>1
      <4>2. tail' = tail + 1
        BY <2>1, <3>3, <4>1 DEF Succ
      <4> QED BY <2>1, <2>3, <3>1, <4>1, <4>2
    <3> QED BY <2>3, <3>4, <3>5 DEF Ends
  <2> QED BY <1>b, <2>1, <2>2, <2>3, <2>4, <2>5
<1>4. CASE TickHeight
  <2>1. /\ tick.at = "height" /\ tick' = [tick EXCEPT !.at = "time"] /\ Disturb
        /\ ring' = [ring EXCEPT ![tail].height = tick.height]
        /\ UNCHANGED <<head, tail, full, clock, ticked>>
    BY <1>4 DEF TickHeight
  <2>2. RingTypeOK'
    BY <1>a, <1>b, <2>1 DEF RingTypeOK, Blocks
  <2>3. ~Wrote /\ ~Wrote' /\ Begun' = Begun /\ tick'.at = "time" /\ tick'.height = tick.height
    BY <2>1 DEF RingTypeOK, Wrote, Begun
  <2>4. ring'[tail].height = tick.height /\ \A i \in Places : i # tail => ring'[i] = ring[i]
    BY <1>a, <2>1 DEF RingTypeOK, Blocks
  <2>5. Filled'
    <3> SUFFICES ASSUME NEW d \in Places, d < Begun, d > 0
                 PROVE  ring'[Back(tail, d)] = ticked[Begun - d]
      BY <2>1, <2>3 DEF Filled
    <3>1. ring[Back(tail, d)] = ticked[Begun - d]
      BY DEF Filled
    <3>2. d # 0
      BY DEF Places
    <3>3. Back(tail, d) \in Places /\ Back(tail, d) # tail
      BY <1>a, <3>2, BackIs
    <3> QED BY <2>4, <3>1, <3>3
  <2>6. Ends'
    BY <2>1, <2>3 DEF Ends
  <2> QED BY <1>b, <2>1, <2>2, <2>3, <2>4, <2>5, <2>6
<1>5. CASE TickTime
  <2>1. /\ tick.at = "time" /\ tick' = [tick EXCEPT !.at = "head"] /\ Disturb
        /\ ring' = [ring EXCEPT ![tail].time = clock]
        /\ ticked' = Append(ticked, Block(tick.height, clock))
        /\ UNCHANGED <<head, tail, full, clock>>
    BY <1>5 DEF TickTime
  <2> DEFINE e == Block(tick.height, clock)
  <2>2. e \in Blocks /\ e = [height |-> tick.height, time |-> clock] /\ ticked \in Seq(Blocks)
    BY <1>a DEF Block, Blocks, RingTypeOK
  <2>3. /\ ticked' \in Seq(Blocks) /\ Len(ticked') = Len(ticked) + 1
        /\ ticked'[Len(ticked) + 1] = e
        /\ \A i \in 1 .. Len(ticked) : ticked'[i] = ticked[i]
    <3> HIDE DEF e
    <3> QED BY <2>1, <2>2, AppendIs DEF e
  <2>4. ring' \in [Places -> Blocks] /\ ring'[tail] = e
        /\ \A i \in Places : i # tail => ring'[i] = ring[i]
    <3>1. ring \in [Places -> Blocks] /\ clock \in Nat /\ ring[tail].height = tick.height
      BY <2>1 DEF RingTypeOK
    <3>2. ring'[tail] = [ring[tail] EXCEPT !.time = clock] /\ ring[tail] \in Blocks
      BY <1>a, <2>1, <3>1
    <3>3. [ring[tail] EXCEPT !.time = clock] = e
      BY <3>1, <3>2, <2>2 DEF Blocks
    <3>4. ring' \in [Places -> Blocks]
      BY <1>a, <2>1, <3>1 DEF Blocks
    <3> QED BY <2>1, <3>1, <3>2, <3>3, <3>4
  <2>5. RingTypeOK'
    BY <1>b, <2>1, <2>3, <2>4 DEF RingTypeOK
  <2>6. ~Wrote /\ Wrote' /\ Begun' = Begun /\ Begun = Len(ticked) + 1 /\ tick'.at = "head"
    BY <2>1, <2>3 DEF RingTypeOK, Wrote, Begun
  <2>7. Filled'
    <3> SUFFICES ASSUME NEW d \in Places, d < Begun
                 PROVE  ring'[Back(tail, d)] = ticked'[Begun - d]
      BY <2>1, <2>6 DEF Filled
    <3>1. CASE d = 0
      BY <1>a, <2>3, <2>4, <2>6, <3>1, BackIs
    <3>2. CASE d # 0
      <4>1. d > 0 /\ Begun - d \in 1 .. Len(ticked)
        BY <1>a, <2>6, <3>2 DEF Places
      <4>2. ring[Back(tail, d)] = ticked[Begun - d]
        BY <2>6, <4>1 DEF Filled
      <4>3. Back(tail, d) \in Places /\ Back(tail, d) # tail
        BY <1>a, <3>2, BackIs
      <4> QED BY <2>3, <2>4, <4>1, <4>2, <4>3
    <3> QED BY <3>1, <3>2
  <2>8. Ends'
    BY <2>1, <2>6 DEF Ends
  <2> QED BY <1>b, <2>1, <2>5, <2>6, <2>7, <2>8
<1>6. CASE TickHead
  <2>1. /\ tick.at = "head" /\ tick' = Idle /\ Disturb
        /\ head' = IF full THEN Succ(tail) ELSE head
        /\ UNCHANGED <<ring, tail, full, clock, ticked>>
    BY <1>6, <1>a, SuccIs DEF TickHead
  <2>2. RingTypeOK'
    BY <1>a, <1>b, <2>1, SuccIs DEF RingTypeOK, Idle
  <2>3. Wrote /\ Wrote' /\ Begun' = Begun /\ tick'.at = "idle"
    BY <2>1 DEF Wrote, Begun, Idle
  <2>4. Filled' /\ Ends'
    BY <2>1, <2>3 DEF Filled, Ends
  <2> QED BY <1>b, <2>1, <2>2, <2>3, <2>4
<1>7. CASE ReadLocks \/ ReadTail
  <2>1. /\ UNCHANGED <<ring, head, tail, full, clock, tick, ticked>>
        /\ Begun' = Begun /\ (Wrote' <=> Wrote) /\ Oldest' = Oldest /\ Newest' = Newest
    BY <1>7 DEF ReadLocks, ReadTail, Begun, Wrote, Oldest, Newest
  <2>2. Filled' /\ Ends' /\ Span' = Span
    BY <2>1 DEF Filled, Ends, Span
  <2>3. CASE ReadLocks
    <3>1. reader' = [at |-> "tail", clean |-> tick = Idle, value |-> ring[head]]
      BY <2>3 DEF ReadLocks
    <3>2. ring[head] \in Blocks /\ (tick = Idle) \in BOOLEAN
      BY <1>a DEF RingTypeOK
    <3>3. RingTypeOK'
      BY <2>1, <3>1, <3>2 DEF RingTypeOK
    <3>4. ReaderInv'
      BY <1>a, <2>1, <3>1, EndsAre DEF ReaderInv
    <3> QED BY <2>1, <2>2, <3>3, <3>4
  <2>4. CASE ReadTail
    <3> DEFINE v == Block(Minus(ring[tail].height, reader.value.height),
                          Minus(ring[tail].time, reader.value.time))
    <3>1. reader' = [reader EXCEPT !.at = "idle", !.value = v] /\ reader.at = "tail"
      BY <2>4 DEF ReadTail
    <3>2. v \in Blocks
      <4>1. ring[tail] \in Blocks /\ reader.value \in Blocks
        BY <1>a DEF RingTypeOK
      <4> QED BY <4>1, MinusIs DEF Blocks, Block
    <3> HIDE DEF v
    <3>3. /\ reader' \in [at : {"idle", "tail"}, clean : BOOLEAN, value : Blocks]
          /\ reader'.at = "idle" /\ reader'.value = v /\ reader'.clean = reader.clean
      BY <1>a, <3>1, <3>2 DEF RingTypeOK
    <3>4. ASSUME reader.clean, ticked # << >> PROVE v = Span
      <4>1. tick = Idle /\ reader.value = Oldest
        BY <3>1, <3>4 DEF ReaderInv
      <4>2. ring[tail] = Newest
        BY <1>a, <3>4, <4>1, EndsAre
      <4> QED BY <4>1, <4>2 DEF v, Span
    <3>5. RingTypeOK' /\ ReaderInv'
      BY <2>1, <2>2, <3>3, <3>4 DEF RingTypeOK, ReaderInv
    <3> QED BY <2>1, <2>2, <3>5
  <2> QED BY <1>7, <2>3, <2>4
<1>8. CASE UNCHANGED ringVars
  BY <1>8 DEF ringVars, RingTypeOK, Filled, Ends, ReaderInv, Begun, Wrote, Oldest, Newest, Span
<1> QED BY <1>1, <1>2, <1>3, <1>4, <1>5, <1>6, <1>7, <1>8 DEF RingNext

\* BlockTime without a Tick in between spans what the ring should hold, from
\* the oldest of the last Count blocks to the newest, for every size of the
\* ring and every number of wraps (tools/counter.go, Tick and BlockTime).
THEOREM ReadsExactly == Spec => []ReadExact
<1>1. Init => RingInv
  <2> SUFFICES ASSUME RingInit PROVE RingInv
    BY DEF Init
  <2>1. Block(0, 0) \in Blocks /\ 0 \in Places /\ 1 \in Places /\ Count >= 2 /\ Count \in Nat
    BY RingAssumption DEF Block, Blocks, Places
  <2>2. RingTypeOK
    <3>1. ring \in [Places -> Blocks] /\ head \in Places /\ tail \in Places
      BY <2>1 DEF RingInit, Places
    <3>2. /\ tick \in [at : {"idle", "index", "height", "time", "head"}, height : Nat]
          /\ reader \in [at : {"idle", "tail"}, clean : BOOLEAN, value : Blocks]
      BY <2>1 DEF RingInit, Idle
    <3>3. full \in BOOLEAN /\ clock \in Nat /\ ticked \in Seq(Blocks)
      <4>1. full = FALSE /\ clock = 1 /\ ticked = << >>
        BY DEF RingInit
      <4>2. full \in BOOLEAN
        BY <4>1, Zenon
      <4> QED BY <4>1, <4>2
    <3> QED BY <3>1, <3>2, <3>3 DEF RingTypeOK
  <2>3. Begun = 0 /\ Wrote /\ tick = Idle /\ ticked = << >> /\ tick.at = "idle" /\ ~full /\ tail = 0 /\ head = 1
    BY DEF RingInit, Begun, Wrote, Idle
  <2> QED BY <2>1, <2>2, <2>3 DEF RingInv, Filled, Ends, ReaderInv, Places
<1>2. RingInv /\ [Next]_utilVars => RingInv'
  BY RingStep, Frame
<1>3. RingInv => ReadExact
  BY KeptIs DEF RingInv, ReaderInv, ReadExact, Span
<1> QED BY <1>1, <1>2, <1>3, PTL DEF Spec

=============================================================================
