--------------------------- MODULE ChainSDKProofs ---------------------------
(***************************************************************************)
(* Proofs about ChainSDK, for every number of nodes, gap, height bound,    *)
(* word size and any sets of client goroutines.                            *)
(***************************************************************************)
EXTENDS ChainSDK, TLAPS

LEMMA NodeFacts == 0 \in Node /\ NoNode \notin Node /\ NoNode \in 0 .. N
BY PoolAssumption DEF Node, NoNode

\* s.cursor % len(s.nodes) is always the index of a node.
LEMMA ModNode == ASSUME NEW a \in Nat PROVE a % N \in Node
BY PoolAssumption DEF Node

\* Every variable keeps its type: the cursor stays an index of a node, the
\* published fields stay in range.
THEOREM TypeCorrect == Spec => []TypeOK
<1>1. Init => TypeOK
  <2> SUFFICES ASSUME Init PROVE TypeOK
    OBVIOUS
  <2> USE DEF Init
  <2>1. 0 \in 0 .. N /\ 0 \in Height /\ NoNode \in 0 .. N /\ 0 \in Node
    BY PoolAssumption DEF Height, Node, NoNode
  <2>2. sweep \in Sweep
    BY <2>1 DEF FreshSweep, Sweep
  <2>3. pub \in Pub
    BY <2>1 DEF Pub
  <2>4. Outside \in Sel
    BY <2>1 DEF Sel, Outside
  <2>5. wait \in [Waiters -> Wait]
    BY <2>1 DEF Wait
  <2> QED BY <2>1, <2>2, <2>3, <2>4, <2>5 DEF TypeOK
<1>2. TypeOK /\ [Next]_vars => TypeOK'
  <2> SUFFICES ASSUME TypeOK, [Next]_vars PROVE TypeOK'
    OBVIOUS
  <2> USE DEF TypeOK
  <2>1. ASSUME NEW n \in Node, Advance(n) PROVE TypeOK'
    BY <2>1, PoolAssumption DEF Advance, Height
  <2>2. ASSUME NEW n \in Node, Toggle(n) PROVE TypeOK'
    BY <2>2 DEF Toggle
  <2>3. CASE Ping
    <3> DEFINE n == sweep.next
               h == IF up[n] THEN tip[n] ELSE 0
    <3>1. n \in Node /\ n \in 0 .. N /\ n + 1 \in 0 .. N
      BY <2>3, PoolAssumption DEF Ping, Sweep, Node
    <3>2. h \in Height
      BY <3>1, PoolAssumption DEF Height
    <3>3. [sweep.sample EXCEPT ![n] = h] \in [Node -> Height]
      BY <3>2 DEF Sweep
    <3> HIDE DEF h
    <3>4. sweep' \in Sweep
      BY <2>3, <3>1, <3>2, <3>3 DEF Ping, Sweep, h
    <3> QED BY <2>3, <3>4 DEF Ping
  <2>4. CASE LockRequest
    BY <2>4 DEF LockRequest
  <2>5. CASE Publish
    <3>1. sweep.sdk # NoNode => sweep.sdk \in 0 .. N
      BY DEF Sweep
    <3>2. /\ sweep.index \in Node /\ sweep.height \in Height
          /\ (IF sweep.sdk = NoNode THEN 0 ELSE sweep.sdk) \in 0 .. N
      BY <3>1, PoolAssumption DEF Sweep
    <3>3. [n \in Node |-> sweep.sample[n] >= Minus(sweep.height, MaxGap)]
             \in [Node -> BOOLEAN]
      OBVIOUS
    <3>4. Outcome \in Pub
      BY <3>2, <3>3 DEF Outcome, Pub
    <3> QED BY <2>5, <3>4 DEF Publish
  <2>6. CASE Tick
    BY <2>6, PoolAssumption, NodeFacts DEF Tick, FreshSweep, Sweep, Height
  <2>7. ASSUME NEW s \in Selectors, SelectBegin(s) PROVE TypeOK'
    BY <2>7, NodeFacts DEF SelectBegin, Sel, Inside
  <2>8. ASSUME NEW s \in Selectors, SelectStep(s) PROVE TypeOK'
    <3>1. CASE IncLoad(s)
      <4>1. [sel[s] EXCEPT !.pc = "store", !.tmp = cursor] \in Sel
        BY DEF Sel
      <4> QED BY <3>1, <4>1 DEF IncLoad
    <3>2. CASE IncStore(s)
      <4>1. sel[s].tmp + 1 \in Nat
        BY DEF Sel, Node
      <4>2. [sel[s] EXCEPT !.pc = "check", !.tmp = 0] \in Sel
        BY NodeFacts DEF Sel
      <4> QED BY <3>2, <4>1, <4>2, ModNode DEF IncStore
    <3>3. CASE Check(s)
      <4>1. CASE sel' = [sel EXCEPT ![s].pc = "finish", ![s].pos = cursor]
        <5>1. [sel[s] EXCEPT !.pc = "finish", !.pos = cursor] \in Sel
          BY DEF Sel
        <5> QED BY <3>3, <4>1, <5>1 DEF Check
      <4>2. CASE sel' = [sel EXCEPT ![s].pc = "load"]
        <5>1. [sel[s] EXCEPT !.pc = "load"] \in Sel
          BY DEF Sel
        <5> QED BY <3>3, <4>2, <5>1 DEF Check
      <4> QED BY <3>3, <4>1, <4>2 DEF Check
    <3>4. CASE Finish(s)
      <4>1. Outside \in Sel /\ sel[s].pos \in Node
        BY NodeFacts DEF Outside, Sel
      <4> QED BY <3>4, <4>1 DEF Finish
    <3> QED BY <2>8, <3>1, <3>2, <3>3, <3>4 DEF SelectStep
  <2>9. ASSUME NEW w \in Waiters, WaitStep(w) \/ Cancel(w) PROVE TypeOK'
    <3>1. CASE WaitAsk(w)
      <4>1. [wait[w] EXCEPT !.pc = "query", !.node = pub.sdk] \in Wait
        BY DEF Wait, Pub
      <4> QED BY <3>1, <4>1 DEF WaitAsk
    <3>2. CASE WaitQuery(w)
      <4> DEFINE Moved(p, b) == [wait EXCEPT ![w].pc = p, ![w].reached = b]
      <4>1. wait' \in {Moved("done", TRUE), Moved("select", FALSE)}
        <5> DEFINE ok == up[wait[w].node] /\ tip[wait[w].node] >= Target
        <5>1. ok = TRUE \/ ok = FALSE
          OBVIOUS
        <5>2. wait' = Moved(IF ok THEN "done" ELSE "select", ok)
          BY <3>2 DEF WaitQuery
        <5> HIDE DEF ok, Moved
        <5> QED BY <5>1, <5>2
      <4>2. \A p \in {"done", "select"}, b \in BOOLEAN : Moved(p, b) \in [Waiters -> Wait]
        BY DEF Wait
      <4> HIDE DEF Moved
      <4>3. wait' \in [Waiters -> Wait]
        BY <4>1, <4>2
      <4> QED BY <3>2, <4>3 DEF WaitQuery
    <3>3. CASE WaitTimer(w) \/ WaitCancelled(w) \/ Cancel(w)
      <4>1. ASSUME NEW p \in {"ask", "done"} PROVE [wait[w] EXCEPT !.pc = p] \in Wait
        BY DEF Wait
      <4>2. [wait[w] EXCEPT !.cancelled = TRUE] \in Wait
        BY DEF Wait
      <4>3. CASE WaitTimer(w)
        BY <4>3, <4>1 DEF WaitTimer
      <4>4. CASE WaitCancelled(w)
        BY <4>4, <4>1 DEF WaitCancelled
      <4>5. CASE Cancel(w)
        BY <4>5, <4>2 DEF Cancel
      <4> QED BY <3>3, <4>3, <4>4, <4>5
    <3> QED BY <2>9, <3>1, <3>2, <3>3 DEF WaitStep
  <2>10. CASE UNCHANGED vars
    BY <2>10 DEF vars
  <2> QED BY <2>1, <2>2, <2>3, <2>4, <2>5, <2>6, <2>7, <2>8, <2>9, <2>10 DEF Next, Monitor
<1> QED BY <1>1, <1>2, PTL DEF Spec

-----------------------------------------------------------------------------
(* The sweep and what it publishes.  SweepInv says what updateSelection's   *)
(* locals mean in the middle of the loop; the published fields inherit it. *)

LEMMA SweepInit == Init => SweepInv
BY PoolAssumption DEF Init, SweepInv, FreshSweep, Node, NoNode, Height

\* The answer of one more node keeps the accumulator the first maximum.
LEMMA PingSweep == ASSUME TypeOK, SweepInv, Ping PROVE SweepInv'
<1> DEFINE n == sweep.next
           h == IF up[n] THEN tip[n] ELSE 0
<1>1. n \in Node /\ n # NoNode
  BY PoolAssumption DEF Ping, TypeOK, Sweep, Node, NoNode
<1>2. h \in Nat /\ h <= tip[n] /\ tip[n] \in Nat
  BY <1>1, PoolAssumption DEF TypeOK, Height
<1>3. /\ sweep.height \in Nat /\ sweep.index \in Node /\ sweep.sdk \in 0 .. N
      /\ sweep.sample \in [Node -> Nat] /\ tip \in [Node -> Nat]
  BY PoolAssumption DEF TypeOK, Sweep, Height
<1>4. /\ mode' = "ping" /\ tip' = tip
      /\ sweep' = [next   |-> n + 1,
                   sample |-> [sweep.sample EXCEPT ![n] = h],
                   height |-> IF h > sweep.height THEN h ELSE sweep.height,
                   sdk    |-> IF h > sweep.height THEN n ELSE sweep.sdk,
                   index  |-> IF h > sweep.height THEN n ELSE sweep.index]
  BY DEF Ping
<1>5. sweep.sample[n] = 0
  BY <1>1, <1>3 DEF SweepInv, Node
<1> HIDE DEF h
<1>6. CASE h > sweep.height
  <2>1. /\ sweep'.next = n + 1 /\ sweep'.height = h /\ sweep'.sdk = n /\ sweep'.index = n
        /\ sweep'.sample = [sweep.sample EXCEPT ![n] = h]
    BY <1>4, <1>6
  <2>2. \A m \in Node : sweep.sample[m] <= sweep.height /\ sweep.sample[m] \in Nat
    BY <1>3 DEF SweepInv
  <2>3. \A m \in Node : /\ sweep'.sample[m] <= h
                        /\ sweep'.sample[m] <= tip[m]
                        /\ m >= n + 1 => sweep'.sample[m] = 0
                        /\ m < n => sweep'.sample[m] < h
    BY <2>1, <2>2, <1>1, <1>2, <1>3, <1>6 DEF SweepInv, Node
  <2>4. sweep'.sample[n] = h
    BY <2>1, <1>1, <1>3
  <2> QED BY <2>1, <2>3, <2>4, <1>1, <1>2, <1>3, <1>4, <1>6 DEF SweepInv
<1>7. CASE ~(h > sweep.height)
  <2>1. /\ sweep'.next = n + 1 /\ sweep'.height = sweep.height
        /\ sweep'.sdk = sweep.sdk /\ sweep'.index = sweep.index
        /\ sweep'.sample = [sweep.sample EXCEPT ![n] = h]
    BY <1>4, <1>7
  <2>2. \A m \in Node : /\ sweep'.sample[m] <= sweep.height
                        /\ sweep'.sample[m] <= tip[m]
                        /\ m >= n + 1 => sweep'.sample[m] = 0
    BY <2>1, <1>1, <1>2, <1>3, <1>7 DEF SweepInv, Node
  <2>3. CASE sweep.sdk = NoNode
    BY <2>1, <2>2, <2>3, <1>4 DEF SweepInv
  <2>4. CASE sweep.sdk # NoNode
    <3>1. sweep.index # n
      BY <2>4, <1>3, <1>5 DEF SweepInv
    <3>2. sweep.index < n
      BY <3>1, <2>4, <1>1, <1>3 DEF SweepInv, Node
    <3>3. /\ sweep'.sample[sweep.index] = sweep.height
          /\ \A m \in Node : m < sweep.index => sweep'.sample[m] < sweep.height
      BY <3>1, <3>2, <2>1, <2>4, <1>1, <1>3 DEF SweepInv, Node
    <3> QED BY <3>3, <2>1, <2>2, <2>4, <1>4 DEF SweepInv
  <2> QED BY <2>3, <2>4
<1> QED BY <1>6, <1>7

\* In every state the locals of updateSelection hold the first maximum of the
\* answers so far, and no answer above what its node has reached by now.
THEOREM SweepCorrect == Spec => []SweepInv
<1>1. TypeOK /\ SweepInv /\ [Next]_vars => SweepInv'
  <2> SUFFICES ASSUME TypeOK, SweepInv, [Next]_vars PROVE SweepInv'
    OBVIOUS
  <2>1. ASSUME NEW n \in Node, Advance(n) PROVE SweepInv'
    <3>1. \A m \in Node : /\ tip[m] \in Nat /\ tip'[m] \in Nat /\ tip[m] <= tip'[m]
                          /\ sweep.sample[m] \in Nat
      BY <2>1, PoolAssumption DEF Advance, TypeOK, Height, Sweep
    <3>2. \A m \in Node : sweep.sample[m] <= tip'[m]
      BY <3>1 DEF SweepInv
    <3> QED BY <2>1, <3>2 DEF Advance, SweepInv
  <2>2. CASE Ping
    BY <2>2, PingSweep
  <2>3. CASE LockRequest
    BY <2>3 DEF LockRequest, SweepInv
  <2>4. CASE Publish
    BY <2>4 DEF Publish, SweepInv
  <2>5. CASE Tick
    BY <2>5, PoolAssumption DEF Tick, SweepInv, FreshSweep, TypeOK, Node, NoNode, Height
  <2>6. CASE UNCHANGED <<sweep, tip, mode>>
    BY <2>6 DEF SweepInv
  <2> QED
    BY <2>1, <2>2, <2>3, <2>4, <2>5, <2>6
       DEF Next, Monitor, Toggle, SelectBegin, SelectStep, IncLoad, IncStore, Check, Finish,
           WaitStep, WaitAsk, WaitQuery, WaitTimer, WaitCancelled, Cancel, vars
<1> QED BY <1>1, SweepInit, TypeCorrect, PTL DEF Spec

\* What the critical section is about to write is honest.
LEMMA OutcomeHonest ==
    ASSUME TypeOK, SweepInv
    PROVE  /\ Outcome.sdk \in Node /\ Outcome.sdk = Outcome.index
           /\ Outcome.index = sweep.index /\ Outcome.height = sweep.height
           /\ Outcome.height > 0 <=> Outcome.status = 1
           /\ Outcome.height <= tip[Outcome.index]
<1>1. /\ sweep.height \in Nat /\ sweep.index \in Node /\ sweep.sdk \in 0 .. N
      /\ sweep.sample \in [Node -> Nat] /\ tip \in [Node -> Nat]
  BY PoolAssumption DEF TypeOK, Sweep, Height
<1>2. 0 \in Node
  BY NodeFacts
<1> QED BY <1>1, <1>2 DEF SweepInv, Outcome

\* The published node, index and height never contradict each other or the
\* chain, however the nodes move during a sweep.
THEOREM HonestPool == Spec => []ServedNodeHonest
<1>1. Init => ServedNodeHonest
  BY PoolAssumption DEF Init, ServedNodeHonest, Height, Node
<1>2. TypeOK /\ SweepInv /\ ServedNodeHonest /\ [Next]_vars => ServedNodeHonest'
  <2> SUFFICES ASSUME TypeOK, SweepInv, ServedNodeHonest, [Next]_vars
               PROVE  ServedNodeHonest'
    OBVIOUS
  <2>1. ASSUME NEW n \in Node, Advance(n) PROVE ServedNodeHonest'
    <3>1. /\ pub.index \in Node /\ pub.height \in Nat
          /\ tip[pub.index] \in Nat /\ tip'[pub.index] \in Nat
          /\ tip[pub.index] <= tip'[pub.index]
      BY <2>1, PoolAssumption DEF Advance, TypeOK, Pub, Height
    <3> QED BY <2>1, <3>1 DEF Advance, ServedNodeHonest
  <2>2. CASE Publish
    BY <2>2, OutcomeHonest DEF Publish, ServedNodeHonest
  <2>3. CASE UNCHANGED <<pub, tip, shared>>
    BY <2>3 DEF ServedNodeHonest
  <2> QED
    BY <2>1, <2>2, <2>3
       DEF Next, Monitor, Toggle, Ping, LockRequest, Tick, SelectBegin, SelectStep, IncLoad,
           IncStore, Check, Finish, WaitStep, WaitAsk, WaitQuery, WaitTimer, WaitCancelled,
           Cancel, vars
<1> QED BY <1>1, <1>2, TypeCorrect, SweepCorrect, PTL DEF Spec

\* The node that is served is also one that Select hands out, for every gap and
\* word size, as soon as the chain is at least MaxGap long.
THEOREM BestSelectable == Spec => []BestNodeSelectable
<1>1. Init => BestNodeSelectable
  BY DEF Init, BestNodeSelectable
<1>2. TypeOK /\ SweepInv /\ BestNodeSelectable /\ [Next]_vars => BestNodeSelectable'
  <2> SUFFICES ASSUME TypeOK, SweepInv, BestNodeSelectable, [Next]_vars
               PROVE  BestNodeSelectable'
    OBVIOUS
  <2>1. CASE Publish
    <3>1. /\ sweep.height \in Nat /\ sweep.index \in Node /\ MaxGap \in Nat
      BY PoolAssumption DEF TypeOK, Sweep, Height
    <3>2. /\ Outcome.status = 1 => sweep.sdk # NoNode
          /\ Outcome.height = sweep.height /\ Outcome.index = sweep.index
          /\ Outcome.usable[sweep.index] =
                (sweep.sample[sweep.index] >= Minus(sweep.height, MaxGap))
      BY <3>1 DEF Outcome
    <3>3. sweep.sdk # NoNode => sweep.sample[sweep.index] = sweep.height
      BY DEF SweepInv
    <3>4. sweep.height >= MaxGap => sweep.height >= Minus(sweep.height, MaxGap)
      BY <3>1 DEF Minus
    <3> QED BY <2>1, <3>2, <3>3, <3>4 DEF Publish, BestNodeSelectable
  <2>2. CASE UNCHANGED pub
    BY <2>2 DEF BestNodeSelectable
  <2> QED
    BY <2>1, <2>2
       DEF Next, Monitor, Advance, Toggle, Ping, LockRequest, Tick, SelectBegin, SelectStep,
           IncLoad, IncStore, Check, Finish, WaitStep, WaitAsk, WaitQuery, WaitTimer,
           WaitCancelled, Cancel, vars
<1> QED BY <1>1, <1>2, TypeCorrect, SweepCorrect, PTL DEF Spec

\* A publication serves the first of the best nodes of the sweep and declares
\* usable exactly the nodes within MaxGap of it, none on a chain shorter than
\* MaxGap: the uint64 subtraction wraps to a number no height reaches.
THEOREM PublishesFirstBest == Spec => SweepPublishes
<1> DEFINE A == mode = "lock" /\ mode' # "lock" =>
                  /\ \A n \in Node : sweep.sample[n] <= pub'.height
                  /\ sweep.sample[pub'.index] = pub'.height
                  /\ \A n \in Node : n < pub'.index => sweep.sample[n] < pub'.height
                  /\ \A n \in Node :
                        pub'.usable[n] <=> /\ pub'.height >= MaxGap
                                           /\ sweep.sample[n] + MaxGap >= pub'.height
<1>1. TypeOK /\ SweepInv /\ [Next]_vars => [A]_vars
  <2> SUFFICES ASSUME TypeOK, SweepInv, [Next]_vars, mode = "lock", mode' # "lock"
               PROVE  A
    OBVIOUS
  <2>1. Publish
    BY DEF Next, Monitor, Advance, Toggle, Ping, LockRequest, Tick, SelectBegin, SelectStep,
           IncLoad, IncStore, Check, Finish, WaitStep, WaitAsk, WaitQuery, WaitTimer,
           WaitCancelled, Cancel, vars
  <2>2. /\ pub'.height = sweep.height /\ pub'.index = sweep.index
        /\ \A n \in Node : pub'.usable[n] = (sweep.sample[n] >= Minus(sweep.height, MaxGap))
    BY <2>1 DEF Publish, Outcome
  <2>3. /\ sweep.height \in Nat /\ sweep.height < Word /\ Word \in Nat
        /\ MaxGap \in Nat /\ MaxGap < Word
        /\ sweep.index \in Node /\ \A n \in Node : sweep.sample[n] \in Nat
    BY PoolAssumption DEF TypeOK, Sweep, Height
  <2>4. \A n \in Node : sweep.sample[n] <= sweep.height
    BY DEF SweepInv
  <2>5. /\ sweep.sample[sweep.index] = sweep.height
        /\ \A n \in Node : n < sweep.index => sweep.sample[n] < sweep.height
    BY <2>3, <2>4 DEF SweepInv, Node
  <2>6. \A n \in Node :
          sweep.sample[n] >= Minus(sweep.height, MaxGap)
            <=> sweep.height >= MaxGap /\ sweep.sample[n] + MaxGap >= sweep.height
    BY <2>3, <2>4 DEF Minus
  <2> QED BY <2>2, <2>4, <2>5, <2>6
<1> QED BY <1>1, TypeCorrect, SweepCorrect, PTL DEF Spec, SweepPublishes

-----------------------------------------------------------------------------
(* The round robin.                                                        *)

\* The modulo of s.cursor++ only ever wraps once.
LEMMA AheadValue ==
    ASSUME NEW a \in Node, NEW k \in 0 .. N
    PROVE  Ahead(a, k) = IF a + k < N THEN a + k ELSE a + k - N
BY PoolAssumption DEF Ahead, Node

LEMMA AheadNext ==
    ASSUME NEW a \in Node, NEW k \in 0 .. N - 1
    PROVE  (Ahead(a, k) + 1) % N = Ahead(a, k + 1)
<1>1. k + 1 \in 0 .. N /\ k \in 0 .. N
  BY PoolAssumption
<1>2. Ahead(a, k) \in Node /\ Ahead(Ahead(a, k), 1) = (Ahead(a, k) + 1) % N
  BY <1>1, AheadValue, PoolAssumption DEF Node, Ahead
<1>3. Ahead(Ahead(a, k), 1) =
        IF Ahead(a, k) + 1 < N THEN Ahead(a, k) + 1 ELSE Ahead(a, k) + 1 - N
  BY <1>2, AheadValue, PoolAssumption
<1> QED BY <1>1, <1>2, <1>3, AheadValue, PoolAssumption DEF Node

\* A scan is back at its start only after N places.
LEMMA AheadStart ==
    ASSUME NEW a \in Node, NEW k \in 1 .. N
    PROVE  Ahead(a, k) = a <=> k = N
BY AheadValue, PoolAssumption DEF Node

\* The place where a scan stops is the one NextUsable chooses.
LEMMA StopIsNext ==
    ASSUME NEW a \in Node, NEW k \in 1 .. N, Skips(a, k),
           k = N \/ pub.usable[Ahead(a, k)]
    PROVE  NextUsable(a) = Ahead(a, k)
<1> DEFINE P(d) == Skips(a, d) /\ (d = N \/ pub.usable[Ahead(a, d)])
<1>1. \A d \in 1 .. N : P(d) => d = k
  <2> SUFFICES ASSUME NEW d \in 1 .. N, P(d) PROVE d = k
    OBVIOUS
  <2>1. CASE d < k
    <3>1. d \in 1 .. k - 1 /\ d # N
      BY <2>1
    <3> QED BY <3>1 DEF Skips
  <2>2. CASE k < d
    <3>1. k \in 1 .. d - 1 /\ k # N
      BY <2>2
    <3> QED BY <3>1 DEF Skips
  <2> QED BY <2>1, <2>2
<1>2. P(k)
  OBVIOUS
<1> HIDE DEF P
<1>3. (CHOOSE d \in 1 .. N : P(d)) = k
  BY <1>1, <1>2
<1> QED BY <1>3 DEF NextUsable, P

LEMMA ScanSound ==
    ASSUME TypeOK, SelectInv PROVE SelectSound
<1> SUFFICES ASSUME NEW s \in Selectors, sel[s].pc = "finish", ~sel[s].raced
             PROVE  sel[s].pos = NextUsable(sel[s].start)
  BY DEF SelectInv, SelectSound
<1>1. PICK k \in 0 .. N : ScanAt(s, k)
  BY DEF SelectInv, Inside
<1>2. /\ k \in 1 .. N /\ sel[s].pos = Ahead(sel[s].start, k) /\ Skips(sel[s].start, k)
      /\ k = N \/ pub.usable[Ahead(sel[s].start, k)]
  BY <1>1, PoolAssumption DEF ScanAt
<1>3. sel[s].start \in Node
  BY DEF TypeOK, Sel
<1> QED BY <1>2, <1>3, StopIsNext

\* One step of a Select that runs alone takes its scan one place further.
LEMMA ScanStep ==
    ASSUME TypeOK, NEW s \in Selectors, NEW k \in 0 .. N, ScanAt(s, k), SelectStep(s),
           Inside(s)'
    PROVE  \E l \in 0 .. N : ScanAt(s, l)'
<1> DEFINE start == sel[s].start
<1>1. start \in Node /\ cursor \in Node /\ sel[s].tmp \in Node
  BY DEF TypeOK, Sel
<1>2. CASE IncLoad(s)
  <2>1. /\ sel[s].pc = "load" /\ k < N /\ cursor = Ahead(start, k) /\ Skips(start, k + 1)
        /\ sel'[s].pc = "store" /\ sel'[s].tmp = cursor /\ sel'[s].start = start
        /\ pub' = pub
    BY <1>2 DEF IncLoad, ScanAt, TypeOK, Sel
  <2> QED BY <2>1 DEF ScanAt, Skips, Ahead
<1>3. CASE IncStore(s)
  <2>1. /\ k < N /\ sel[s].tmp = Ahead(start, k) /\ Skips(start, k + 1)
        /\ sel'[s].pc = "check" /\ sel'[s].start = start /\ pub' = pub
        /\ cursor' = (sel[s].tmp + 1) % N
    BY <1>3 DEF IncStore, ScanAt, TypeOK, Sel
  <2>2. k + 1 \in 0 .. N /\ k + 1 > 0 /\ k \in 0 .. N - 1
    BY <2>1, PoolAssumption
  <2>3. cursor' = Ahead(start, k + 1)
    BY <2>1, <2>2, <1>1, AheadNext
  <2>4. ScanAt(s, k + 1)'
    BY <2>1, <2>2, <2>3 DEF ScanAt, Skips, Ahead
  <2> QED BY <2>2, <2>4
<1>4. CASE Check(s)
  <2>1. /\ k > 0 /\ cursor = Ahead(start, k) /\ Skips(start, k)
        /\ sel'[s].start = start /\ pub' = pub /\ cursor' = cursor
    BY <1>4 DEF Check, ScanAt, TypeOK, Sel
  <2>2. k \in 1 .. N
    BY <2>1
  <2>3. cursor = start <=> k = N
    BY <1>1, <2>1, <2>2, AheadStart
  <2>4. CASE cursor = start \/ pub.usable[cursor]
    <3>1. sel'[s].pc = "finish" /\ sel'[s].pos = cursor
      BY <1>4, <2>4 DEF Check, TypeOK, Sel
    <3> QED BY <3>1, <2>1, <2>2, <2>3, <2>4 DEF ScanAt, Skips, Ahead
  <2>5. CASE cursor # start /\ ~pub.usable[cursor]
    <3>1. sel'[s].pc = "load"
      BY <1>4, <2>5 DEF Check, TypeOK, Sel
    <3>2. Skips(start, k + 1)
      <4>1. \A j \in 1 .. (k + 1) - 1 : j \in 1 .. k - 1 \/ j = k
        BY <2>2
      <4> QED BY <4>1, <2>1, <2>5 DEF Skips
    <3>3. k < N
      <4>1. k # N
        BY <2>3, <2>5
      <4> QED BY <4>1, <2>2, PoolAssumption
    <3> QED BY <3>1, <3>2, <3>3, <2>1 DEF ScanAt, Skips, Ahead
  <2> QED BY <2>4, <2>5
<1>5. CASE Finish(s)
  BY <1>5 DEF Finish, Inside, Outside, TypeOK
<1> QED BY <1>2, <1>3, <1>4, <1>5 DEF SelectStep

\* However many goroutines call Select and wherever they interleave, each
\* returns a usable node or the one it started from; one that no other
\* overlapped returns the next usable node in round-robin order.
THEOREM RoundRobin == Spec => []SelectSound
<1>1. Init => SelectInv
  BY DEF Init, SelectInv, Outside, Inside
<1>2. TypeOK /\ SelectInv /\ [Next]_vars => SelectInv'
  <2> SUFFICES ASSUME TypeOK, SelectInv, [Next]_vars PROVE SelectInv'
    OBVIOUS
  <2>1. ASSUME NEW s \in Selectors, SelectBegin(s) PROVE SelectInv'
    <3> SUFFICES ASSUME NEW t \in Selectors
                 PROVE /\ sel'[t].pc = "finish" =>
                            sel'[t].pos = sel'[t].start \/ pub'.usable[sel'[t].pos]
                       /\ Inside(t)' /\ ~sel'[t].raced =>
                            Readers' = {t} /\ \E k \in 0 .. N : ScanAt(t, k)'
      BY DEF SelectInv
    <3>1. CASE t = s
      <4>1. /\ sel'[s].pc = "load" /\ sel'[s].start = cursor /\ cursor' = cursor
            /\ sel'[s].raced = (Readers # {})
        BY <2>1 DEF SelectBegin
      <4>2. cursor \in Node /\ 0 \in 0 .. N /\ 0 < N
        BY PoolAssumption DEF TypeOK
      <4>3. ScanAt(s, 0)'
        <5>1. cursor = Ahead(cursor, 0)
          <6>1. Ahead(cursor, 0) = IF cursor + 0 < N THEN cursor + 0 ELSE cursor + 0 - N
            BY <4>2, AheadValue
          <6> QED BY <6>1, <4>2, PoolAssumption DEF Node
        <5>2. 1 .. (0 + 1) - 1 = {}
          OBVIOUS
        <5> QED BY <4>1, <4>2, <5>1, <5>2 DEF ScanAt, Skips, Ahead
      <4>4. Readers = {} => Readers' = {s}
        BY <2>1 DEF SelectBegin, Readers, Inside, TypeOK, Sel
      <4> QED BY <3>1, <4>1, <4>2, <4>3, <4>4
    <3>2. CASE t # s
      <4>1. /\ sel'[t].pc = sel[t].pc /\ sel'[t].pos = sel[t].pos
            /\ sel'[t].start = sel[t].start /\ sel'[t].raced = Inside(t) /\ pub' = pub
        BY <2>1, <3>2 DEF SelectBegin, TypeOK, Sel
      <4> QED BY <4>1 DEF SelectInv, Inside
    <3> QED BY <3>1, <3>2
  <2>2. ASSUME NEW s \in Selectors, SelectStep(s) PROVE SelectInv'
    <3>1. Inside(s) /\ pub' = pub
      BY <2>2 DEF SelectStep, IncLoad, IncStore, Check, Finish, Inside
    <3>2. \A t \in Selectors : t # s => sel'[t] = sel[t]
      BY <2>2 DEF SelectStep, IncLoad, IncStore, Check, Finish, TypeOK
    <3>3. ASSUME NEW t \in Selectors, t # s
          PROVE  /\ sel'[t].pc = "finish" =>
                       sel'[t].pos = sel'[t].start \/ pub'.usable[sel'[t].pos]
                 /\ ~(Inside(t)' /\ ~sel'[t].raced)
      BY <3>1, <3>2, <3>3 DEF SelectInv, Inside, Readers
    <3>4. sel'[s].pc = "finish" =>
            sel'[s].pos = sel'[s].start \/ pub'.usable[sel'[s].pos]
      BY <2>2, <3>1 DEF SelectStep, IncLoad, IncStore, Check, Finish, TypeOK, Sel, Outside
    <3>5. ASSUME Inside(s)', ~sel'[s].raced
          PROVE  Readers' = {s} /\ \E k \in 0 .. N : ScanAt(s, k)'
      <4>1. ~sel[s].raced
        BY <2>2, <3>5 DEF SelectStep, IncLoad, IncStore, Check, Finish, TypeOK, Sel, Inside,
                          Outside
      <4>2. Readers = {s} /\ \E k \in 0 .. N : ScanAt(s, k)
        BY <4>1, <3>1 DEF SelectInv
      <4>3. Readers' = {s}
        BY <4>2, <3>2, <3>5 DEF Readers, Inside
      <4> QED BY <4>2, <4>3, <2>2, <3>5, ScanStep
    <3> QED BY <3>3, <3>4, <3>5 DEF SelectInv
  <2>3. CASE Publish
    <3>1. \A t \in Selectors : sel'[t] = sel[t] /\ sel[t].pc = "out"
      BY <2>3 DEF Publish, Readers, Inside
    <3> QED BY <3>1 DEF SelectInv, Inside
  <2>4. CASE UNCHANGED <<pub, cursor, sel>>
    <3>1. /\ Readers' = Readers
          /\ \A t \in Selectors : /\ Inside(t)' <=> Inside(t)
                                  /\ \A k \in 0 .. N : ScanAt(t, k)' <=> ScanAt(t, k)
      BY <2>4 DEF Readers, Inside, ScanAt, Skips, Ahead
    <3> QED BY <2>4, <3>1 DEF SelectInv
  <2> QED
    BY <2>1, <2>2, <2>3, <2>4
       DEF Next, Monitor, Advance, Toggle, Ping, LockRequest, Tick, WaitStep, WaitAsk,
           WaitQuery, WaitTimer, WaitCancelled, Cancel, vars
<1> QED BY <1>1, <1>2, ScanSound, TypeCorrect, PTL DEF Spec

-----------------------------------------------------------------------------
(* WaitTillHeight.  A caller on its way has not reached anything, and the   *)
(* node that answered it is one of the pool's, whose chain only grows.      *)

WaitInv ==
    \A w \in Waiters :
        /\ wait[w].pc # "new" => wait[w].node \in Node
        /\ wait[w].pc # "done" => ~wait[w].reached
        /\ wait[w].pc = "done" =>
              IF wait[w].reached THEN tip[wait[w].node] >= Target ELSE wait[w].cancelled

\* WaitTillHeight returns true only when the node it last asked has the height,
\* and false only when its context is done, whatever the nodes, the monitor and
\* the other callers do meanwhile (chains/chain.go, WaitTillHeight).
THEOREM WaitTold == Spec => []WaitOutcome
<1>1. Init => WaitInv
  BY DEF Init, WaitInv
<1>2. TypeOK /\ ServedNodeHonest /\ WaitInv /\ [Next]_vars => WaitInv'
  <2> SUFFICES ASSUME TypeOK, ServedNodeHonest, WaitInv, [Next]_vars PROVE WaitInv'
    OBVIOUS
  <2>1. ASSUME NEW n \in Node, Advance(n) PROVE WaitInv'
    <3>1. \A m \in Node : tip[m] \in Nat /\ tip'[m] \in Nat /\ tip[m] <= tip'[m]
      BY <2>1, PoolAssumption DEF Advance, TypeOK, Height
    <3>2. wait' = wait /\ Target \in Nat
      BY <2>1, PoolAssumption DEF Advance
    <3> SUFFICES ASSUME NEW w \in Waiters, wait[w].pc = "done", wait[w].reached
                 PROVE  tip'[wait[w].node] >= Target
      BY <3>2 DEF WaitInv
    <3>3. wait[w].node \in Node /\ tip[wait[w].node] >= Target
      BY DEF WaitInv
    <3> HIDE DEF WaitInv
    <3> QED BY <3>1, <3>2, <3>3
  <2>2. ASSUME NEW v \in Waiters, WaitAsk(v) PROVE WaitInv'
    <3>1. pub.sdk \in Node /\ wait' = [wait EXCEPT ![v].pc = "query", ![v].node = pub.sdk]
      BY <2>2 DEF WaitAsk, ServedNodeHonest
    <3> QED BY <2>2, <3>1 DEF WaitAsk, WaitInv, TypeOK, Wait
  <2>3. ASSUME NEW v \in Waiters, WaitQuery(v) PROVE WaitInv'
    <3> DEFINE ok == up[wait[v].node] /\ tip[wait[v].node] >= Target
    <3>1. wait' = [wait EXCEPT ![v].pc = IF ok THEN "done" ELSE "select", ![v].reached = ok]
      BY <2>3 DEF WaitQuery
    <3>2. tip' = tip /\ wait[v].pc = "query"
      BY <2>3 DEF WaitQuery
    <3>3. CASE ok
      <4>1. wait' = [wait EXCEPT ![v].pc = "done", ![v].reached = TRUE]
        BY <3>1, <3>3
      <4> QED BY <3>2, <3>3, <4>1 DEF WaitInv, TypeOK, Wait
    <3>4. CASE ~ok
      <4>1. wait' = [wait EXCEPT ![v].pc = "select", ![v].reached = FALSE]
        BY <3>1, <3>4
      <4> QED BY <3>2, <4>1 DEF WaitInv, TypeOK, Wait
    <3> QED BY <3>3, <3>4
  <2>4. ASSUME NEW v \in Waiters, WaitTimer(v) \/ WaitCancelled(v) \/ Cancel(v) PROVE WaitInv'
    BY <2>4 DEF WaitTimer, WaitCancelled, Cancel, WaitInv, TypeOK, Wait
  <2>5. CASE UNCHANGED <<wait, tip>>
    BY <2>5 DEF WaitInv
  <2> QED
    BY <2>1, <2>2, <2>3, <2>4, <2>5
       DEF Next, Monitor, Toggle, Ping, LockRequest, Publish, Tick, SelectBegin, SelectStep,
           IncLoad, IncStore, Check, Finish, WaitStep, vars
<1>3. WaitInv => WaitOutcome
  BY DEF WaitInv, WaitOutcome
<1> QED BY <1>1, <1>2, <1>3, TypeCorrect, HonestPool, PTL DEF Spec

=============================================================================
