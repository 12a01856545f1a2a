------------------------------ MODULE ChainSDK ------------------------------
(***************************************************************************)
(* The node pool of chains/chain.go.  A ChainSDK owns N nodes of one       *)
(* chain.  A monitor goroutine asks every node for its height, keeps the   *)
(* highest answer and publishes, under a RWMutex, the served node, its     *)
(* height and which nodes are close enough to it to take part in the       *)
(* round robin of Select.  Client goroutines call Select (which moves the  *)
(* shared cursor while it holds only the READ lock, so two of them race)   *)
(* and WaitTillHeight.                                                     *)
(***************************************************************************)
EXTENDS Integers

CONSTANTS
    N,           \* number of nodes of the pool
    MaxGap,      \* Options.MaxGap: how far behind a usable node may be
    MaxHeight,   \* bound: no node's chain grows past this height
    Word,        \* modulus of uint64
    Selectors,   \* goroutines that call Select, again and again
    Waiters,     \* goroutines that call WaitTillHeight once
    Target       \* the height the waiters wait for

\* A pool without nodes never gets past Init (status stays 0), so N > 0.
ASSUME PoolAssumption ==
    /\ N \in Nat \ {0}
    /\ MaxHeight \in Nat
    /\ Word \in Nat
    /\ MaxHeight < Word
    /\ MaxGap \in 0 .. Word - 1
    /\ Target \in Nat

Node   == 0 .. N - 1
NoNode == N                  \* the nil SDK
Height == 0 .. MaxHeight

VARIABLES
    up,      \* up[n]: node n answers GetLatestHeight          (environment)
    tip,     \* tip[n]: the height node n would answer         (environment)
    mode,    \* the monitor: "ping", "lock", "idle", or "failed" after Init
    sweep,   \* locals of updateSelection: next, sample, height, sdk, index
    pub,     \* the fields the lock protects: sdk, index, status, height, usable
    cursor,  \* s.cursor modulo N (it is only ever used modulo N)
    shared,  \* NewChainSDK returned the pool without an error
    sel,     \* sel[s]: one Select in progress: pc, start, tmp, pos, raced
    wait     \* wait[w]: one WaitTillHeight: pc, node, cancelled, reached

env   == <<up, tip>>
lockd == <<pub, cursor>>
vars  == <<up, tip, mode, sweep, pub, cursor, shared, sel, wait>>

FreshSweep == [next |-> 0, sample |-> [n \in Node |-> 0],
               height |-> 0, sdk |-> NoNode, index |-> 0]

Outside == [pc |-> "out", start |-> 0, tmp |-> 0, pos |-> 0, raced |-> FALSE]

Init ==
    /\ up \in [Node -> BOOLEAN]
    /\ tip \in [Node -> Height]
    /\ mode = "ping"
    /\ sweep = FreshSweep
    /\ pub = [sdk |-> NoNode, index |-> 0, status |-> 0, height |-> 0,
              usable |-> [n \in Node |-> FALSE]]
    /\ cursor = 0
    /\ shared = FALSE
    /\ sel = [s \in Selectors |-> Outside]
    /\ wait = [w \in Waiters |->
                 [pc |-> "new", node |-> NoNode, cancelled |-> FALSE, reached |-> FALSE]]

-----------------------------------------------------------------------------
(* The nodes: remote servers, modelled by what GetLatestHeight may return. *)

\* The chain seen by node n grows by one block.
Advance(n) ==
    /\ tip[n] < MaxHeight
    /\ tip' = [tip EXCEPT ![n] = @ + 1]
    /\ UNCHANGED <<up, mode, sweep, pub, cursor, shared, sel, wait>>

\* Node n stops answering, or answers again.
Toggle(n) ==
    /\ up' = [up EXCEPT ![n] = ~@]
    /\ UNCHANGED <<tip, mode, sweep, pub, cursor, shared, sel, wait>>

-----------------------------------------------------------------------------
(* The RWMutex.  A writer that waits holds back new readers.               *)

Inside(s)   == sel[s].pc # "out"
Readers     == {s \in Selectors : Inside(s)}
MayReadLock == mode # "lock"

-----------------------------------------------------------------------------
(* The monitor goroutine: updateSelection, first called by Init.           *)

\* h >= height-s.maxGap is computed in uint64 and wraps below zero.
Minus(a, b) == IF a >= b THEN a - b ELSE a - b + Word

\* One round of the first loop: node sweep.next is asked for its height.
Ping ==
    /\ mode = "ping"
    /\ sweep.next < N
    /\ LET n == sweep.next
           h == IF up[n] THEN tip[n] ELSE 0
           best == h > sweep.height
       IN  sweep' = [next   |-> n + 1,
                     sample |-> [sweep.sample EXCEPT ![n] = h],
                     height |-> IF best THEN h ELSE sweep.height,
                     sdk    |-> IF best THEN n ELSE sweep.sdk,
                     index  |-> IF best THEN n ELSE sweep.index]
    /\ UNCHANGED <<up, tip, mode, pub, cursor, shared, sel, wait>>

\* Every node was asked: the monitor calls s.Lock().
LockRequest ==
    /\ mode = "ping"
    /\ sweep.next = N
    /\ mode' = "lock"
    /\ UNCHANGED <<up, tip, sweep, pub, cursor, shared, sel, wait>>

\* Mutant of Outcome: with every node down the served node becomes nil.
OutcomeNil ==
    [sdk    |-> sweep.sdk,
     index  |-> sweep.index,
     status |-> IF sweep.sdk = NoNode THEN 0 ELSE 1,
     height |-> sweep.height,
     usable |-> [n \in Node |-> sweep.sample[n] >= Minus(sweep.height, MaxGap)]]

\* Mutant of Outcome: > for >=.
OutcomeStrict ==
    [sdk    |-> IF sweep.sdk = NoNode THEN 0 ELSE sweep.sdk,
     index  |-> sweep.index,
     status |-> IF sweep.sdk = NoNode THEN 0 ELSE 1,
     height |-> sweep.height,
     usable |-> [n \in Node |-> sweep.sample[n] > Minus(sweep.height, MaxGap)]]

\* What the critical section writes, from the locals of the sweep.
Outcome ==
    [sdk    |-> IF sweep.sdk = NoNode THEN 0 ELSE sweep.sdk,
     index  |-> sweep.index,
     status |-> IF sweep.sdk = NoNode THEN 0 ELSE 1,
     height |-> sweep.height,
     usable |-> [n \in Node |-> sweep.sample[n] >= Minus(sweep.height, MaxGap)]]

\* Mutant of Publish: it does not wait for the readers.
PublishUnlocked ==
    /\ mode = "lock"
    /\ pub' = Outcome
    /\ shared' = (shared \/ Outcome.status = 1)
    /\ mode' = IF shared' THEN "idle" ELSE "failed"
    /\ UNCHANGED <<up, tip, sweep, cursor, sel, wait>>

\* Mutant of Publish: an outage of every node ends the monitor.
PublishGivesUp ==
    /\ mode = "lock"
    /\ Readers = {}
    /\ pub' = Outcome
    /\ shared' = (shared \/ Outcome.status = 1)
    /\ mode' = IF Outcome.status = 1 THEN "idle" ELSE "failed"
    /\ UNCHANGED <<up, tip, sweep, cursor, sel, wait>>

\* The critical section.  On the first sweep Init then reads the status: with
\* every node down NewChainSDK returns an error and starts no monitor.
Publish ==
    /\ mode = "lock"
    /\ Readers = {}
    /\ pub' = Outcome
    /\ shared' = (shared \/ Outcome.status = 1)
    /\ mode' = IF shared' THEN "idle" ELSE "failed"
    /\ UNCHANGED <<up, tip, sweep, cursor, sel, wait>>

\* Mutant of Tick: the locals of the last sweep survive.
TickKeepsSweep ==
    /\ mode = "idle"
    /\ mode' = "ping"
    /\ sweep' = [sweep EXCEPT !.next = 0]
    /\ UNCHANGED <<up, tip, pub, cursor, shared, sel, wait>>

\* The ticker fires; ticks that come during a sweep are dropped.
Tick ==
    /\ mode = "idle"
    /\ mode' = "ping"
    /\ sweep' = FreshSweep
    /\ UNCHANGED <<up, tip, pub, cursor, shared, sel, wait>>

Monitor == Ping \/ LockRequest \/ Publish \/ Tick

-----------------------------------------------------------------------------
(* Select, a step for each access to the unprotected s.cursor.             *)

\* RLock and the first read of the cursor.
SelectBegin(s) ==
    /\ shared
    /\ sel[s].pc = "out"
    /\ MayReadLock
    /\ sel' = [t \in Selectors |->
                 IF t = s THEN [pc |-> "load", start |-> cursor, tmp |-> 0, pos |-> 0,
                                raced |-> Readers # {}]
                          ELSE [sel[t] EXCEPT !.raced = Inside(t)]]
    /\ UNCHANGED <<up, tip, mode, sweep, pub, cursor, shared, wait>>

\* s.cursor++ reads ...
IncLoad(s) ==
    /\ sel[s].pc = "load"
    /\ sel' = [sel EXCEPT ![s].pc = "store", ![s].tmp = cursor]
    /\ UNCHANGED <<up, tip, mode, sweep, pub, cursor, shared, wait>>

\* Mutant of IncStore: the cursor is not reduced modulo N.
IncStoreUnbounded(s) ==
    /\ sel[s].pc = "store"
    /\ cursor' = sel[s].tmp + 1
    /\ sel' = [sel EXCEPT ![s].pc = "check", ![s].tmp = 0]
    /\ UNCHANGED <<up, tip, mode, sweep, pub, shared, wait>>

\* ... and writes back one more.
IncStore(s) ==
    /\ sel[s].pc = "store"
    /\ cursor' = (sel[s].tmp + 1) % N
    /\ sel' = [sel EXCEPT ![s].pc = "check", ![s].tmp = 0]
    /\ UNCHANGED <<up, tip, mode, sweep, pub, shared, wait>>

\* Mutant of Check: the loop does not end at the start.
CheckUsableOnly(s) ==
    /\ sel[s].pc = "check"
    /\ sel' = IF pub.usable[cursor]
              THEN [sel EXCEPT ![s].pc = "finish", ![s].pos = cursor]
              ELSE [sel EXCEPT ![s].pc = "load"]
    /\ UNCHANGED <<up, tip, mode, sweep, pub, cursor, shared, wait>>

\* c is read again; the loop ends at the start or at a usable node.
Check(s) ==
    /\ sel[s].pc = "check"
    /\ \/ /\ cursor = sel[s].start \/ pub.usable[cursor]
          /\ sel' = [sel EXCEPT ![s].pc = "finish", ![s].pos = cursor]
       \/ /\ cursor # sel[s].start
          /\ ~pub.usable[cursor]
          /\ sel' = [sel EXCEPT ![s].pc = "load"]
    /\ UNCHANGED <<up, tip, mode, sweep, pub, cursor, shared, wait>>

\* s.cursor = c, RUnlock, and c is the node the caller gets.
Finish(s) ==
    /\ sel[s].pc = "finish"
    /\ cursor' = sel[s].pos
    /\ sel' = [sel EXCEPT ![s] = Outside]
    /\ UNCHANGED <<up, tip, mode, sweep, pub, shared, wait>>

SelectStep(s) == IncLoad(s) \/ IncStore(s) \/ Check(s) \/ Finish(s)

-----------------------------------------------------------------------------
(* WaitTillHeight.                                                         *)

\* Mutant of WaitAsk: the loop keeps the node it asked first.
WaitAskFirst(w) ==
    /\ shared
    /\ wait[w].pc \in {"new", "ask"}
    /\ MayReadLock
    /\ wait' = [wait EXCEPT ![w].pc = "query",
                            ![w].node = IF wait[w].pc = "new" THEN pub.sdk ELSE @]
    /\ UNCHANGED <<up, tip, mode, sweep, pub, cursor, shared, sel>>

\* Each round asks the node served at that moment (Node() read-locks).
WaitAsk(w) ==
    /\ shared
    /\ wait[w].pc \in {"new", "ask"}
    /\ MayReadLock
    /\ wait' = [wait EXCEPT ![w].pc = "query", ![w].node = pub.sdk]
    /\ UNCHANGED <<up, tip, mode, sweep, pub, cursor, shared, sel>>

\* Mutant of WaitQuery: any answer will do.
WaitQueryAny(w) ==
    /\ wait[w].pc = "query"
    /\ LET ok == up[wait[w].node]
       IN  wait' = [wait EXCEPT ![w].pc = IF ok THEN "done" ELSE "select",
                                ![w].reached = ok]
    /\ UNCHANGED <<up, tip, mode, sweep, pub, cursor, shared, sel>>

\* GetLatestHeight on that node, which may have gone down or fallen behind.
WaitQuery(w) ==
    /\ wait[w].pc = "query"
    /\ LET n == wait[w].node
           ok == up[n] /\ tip[n] >= Target
       IN  wait' = [wait EXCEPT ![w].pc = IF ok THEN "done" ELSE "select",
                                ![w].reached = ok]
    /\ UNCHANGED <<up, tip, mode, sweep, pub, cursor, shared, sel>>

\* The select of the loop: the timer fires ...
WaitTimer(w) ==
    /\ wait[w].pc = "select"
    /\ wait' = [wait EXCEPT ![w].pc = "ask"]
    /\ UNCHANGED <<up, tip, mode, sweep, pub, cursor, shared, sel>>

\* Mutant of WaitCancelled: the context is looked at only after an answer.
WaitCancelledUp(w) ==
    /\ wait[w].pc = "select"
    /\ wait[w].cancelled
    /\ up[wait[w].node]
    /\ wait' = [wait EXCEPT ![w].pc = "done"]
    /\ UNCHANGED <<up, tip, mode, sweep, pub, cursor, shared, sel>>

\* ... or the context is done.
WaitCancelled(w) ==
    /\ wait[w].pc = "select"
    /\ wait[w].cancelled
    /\ wait' = [wait EXCEPT ![w].pc = "done"]
    /\ UNCHANGED <<up, tip, mode, sweep, pub, cursor, shared, sel>>

\* The caller cancels the context of a call in progress.
Cancel(w) ==
    /\ wait[w].pc \in {"ask", "query", "select"}
    /\ ~wait[w].cancelled
    /\ wait' = [wait EXCEPT ![w].cancelled = TRUE]
    /\ UNCHANGED <<up, tip, mode, sweep, pub, cursor, shared, sel>>

WaitStep(w) ==
    \/ WaitAsk(w)
    \/ WaitQuery(w)
    \/ WaitTimer(w)
    \/ WaitCancelled(w)

-----------------------------------------------------------------------------
Next ==
    \/ \E n \in Node : Advance(n) \/ Toggle(n)
    \/ Monitor
    \/ \E s \in Selectors : SelectBegin(s) \/ SelectStep(s)
    \/ \E w \in Waiters : WaitStep(w) \/ Cancel(w)

Spec == Init /\ [][Next]_vars

(***************************************************************************)
(* The monitor runs for ever; a goroutine inside Select or WaitTillHeight  *)
(* keeps running (its node call returns: an answer or an error).  A done   *)
(* context is noticed sooner or later: both cases of the select are then   *)
(* ready again and again, and Go chooses among the ready ones at random.   *)
(* A reader that the monitor's Lock held back gets in: RWMutex.Unlock      *)
(* admits the readers that wait before another writer.                     *)
(***************************************************************************)
Fairness ==
    /\ WF_vars(Monitor)
    /\ \A s \in Selectors : WF_vars(SelectStep(s))
    /\ \A w \in Waiters :
          /\ WF_vars(WaitStep(w))
          /\ SF_vars(WaitAsk(w))
          /\ SF_vars(WaitCancelled(w))

FairSpec == Spec /\ Fairness

-----------------------------------------------------------------------------
(* Type invariant.                                                         *)

Sweep  == [next : 0 .. N, sample : [Node -> Height], height : Height,
           sdk : 0 .. N, index : Node]
Pub    == [sdk : 0 .. N, index : Node, status : {0, 1}, height : Height,
           usable : [Node -> BOOLEAN]]
Sel    == [pc : {"out", "load", "store", "check", "finish"}, start : Node,
           tmp : Node, pos : Node, raced : BOOLEAN]
Wait   == [pc : {"new", "ask", "query", "select", "done"}, node : 0 .. N,
           cancelled : BOOLEAN, reached : BOOLEAN]

\* The values every variable of the pool ranges over.
TypeOK ==
    /\ up \in [Node -> BOOLEAN]
    /\ tip \in [Node -> Height]
    /\ mode \in {"ping", "lock", "idle", "failed"}
    /\ sweep \in Sweep
    /\ pub \in Pub
    /\ cursor \in Node
    /\ shared \in BOOLEAN
    /\ sel \in [Selectors -> Sel]
    /\ wait \in [Waiters -> Wait]

-----------------------------------------------------------------------------
(* Safety.                                                                 *)

\* The pool handed to callers always serves one of its nodes, Node() and
\* Index() name the same one, and the published height is one that node really
\* reached: failed pings, an outage of every node and nodes that move between
\* two pings of a sweep never leave the three fields out of step.
ServedNodeHonest ==
    /\ shared => pub.sdk \in Node /\ pub.sdk = pub.index
    /\ pub.height > 0 <=> pub.status = 1
    /\ pub.height <= tip[pub.index]

\* The node with the best height stays in Select's rotation, unless the chain
\* is shorter than MaxGap and height-s.maxGap wraps around.
BestNodeSelectable ==
    pub.status = 1 /\ pub.height >= MaxGap => pub.usable[pub.index]

\* The node k places after start, and: none of the k - 1 before it is usable.
Ahead(start, k) == (start + k) % N
Skips(start, k) == \A j \in 1 .. k - 1 : ~pub.usable[Ahead(start, j)]

\* The first node after start in round-robin order that is usable; start itself
\* when there is no other.
NextUsable(start) ==
    Ahead(start, CHOOSE k \in 1 .. N :
                    /\ Skips(start, k)
                    /\ k = N \/ pub.usable[Ahead(start, k)])

\* A Select that no other Select overlapped moves on to the next usable node.
\* One that was overlapped, whose cursor the others moved under it, may skip
\* usable nodes but never returns an unusable one, except the node it started
\* from; and no publication changes the states it compares between its steps.
SelectSound ==
    \A s \in Selectors :
        sel[s].pc = "finish" =>
            /\ sel[s].pos = sel[s].start \/ pub.usable[sel[s].pos]
            /\ ~sel[s].raced => sel[s].pos = NextUsable(sel[s].start)

\* WaitTillHeight reports failure only when its context is done, and success
\* only when the node it asked has the height.
WaitOutcome ==
    \A w \in Waiters :
        wait[w].pc = "done" =>
            IF wait[w].reached THEN tip[wait[w].node] >= Target
                               ELSE wait[w].cancelled

\* What a sweep publishes, in unbounded arithmetic: the first of the nodes
\* with the highest answer is served, and the nodes within MaxGap of it are
\* usable, but none at all while the chain is shorter than MaxGap.
SweepPublishes ==
    [][ mode = "lock" /\ mode' # "lock" =>
        /\ \A n \in Node : sweep.sample[n] <= pub'.height
        /\ sweep.sample[pub'.index] = pub'.height
        /\ \A n \in Node : n < pub'.index => sweep.sample[n] < pub'.height
        /\ \A n \in Node :
              pub'.usable[n] <=> /\ pub'.height >= MaxGap
                                 /\ sweep.sample[n] + MaxGap >= pub'.height
      ]_vars

\* The locals of a sweep in progress: the best answer so far, the first node
\* that gave it, and nothing from nodes not asked yet.  It makes ServedNodeHonest
\* and BestNodeSelectable inductive.
SweepInv ==
    /\ mode = "lock" => sweep.next = N
    /\ \A n \in Node :
          /\ sweep.sample[n] <= sweep.height
          /\ sweep.sample[n] <= tip[n]
          /\ n >= sweep.next => sweep.sample[n] = 0
    /\ IF sweep.sdk = NoNode
       THEN sweep.height = 0 /\ sweep.index = 0
       ELSE /\ sweep.sdk = sweep.index
            /\ sweep.height > 0
            /\ sweep.sample[sweep.index] = sweep.height
            /\ \A n \in Node : n < sweep.index => sweep.sample[n] < sweep.height

\* How far an undisturbed Select has come: k places, all of them unusable.
ScanAt(s, k) ==
    LET start == sel[s].start IN
    \/ /\ sel[s].pc = "load"
       /\ k < N /\ cursor = Ahead(start, k) /\ Skips(start, k + 1)
    \/ /\ sel[s].pc = "store"
       /\ k < N /\ sel[s].tmp = Ahead(start, k) /\ Skips(start, k + 1)
    \/ /\ sel[s].pc = "check"
       /\ k > 0 /\ cursor = Ahead(start, k) /\ Skips(start, k)
    \/ /\ sel[s].pc = "finish"
       /\ k > 0 /\ sel[s].pos = Ahead(start, k) /\ Skips(start, k)
       /\ k = N \/ pub.usable[sel[s].pos]

\* The inductive strengthening of SelectSound.
SelectInv ==
    \A s \in Selectors :
        /\ sel[s].pc = "finish" => sel[s].pos = sel[s].start \/ pub.usable[sel[s].pos]
        /\ Inside(s) /\ ~sel[s].raced =>
              Readers = {s} /\ \E k \in 0 .. N : ScanAt(s, k)

-----------------------------------------------------------------------------
(* Liveness.                                                               *)

OnlyUp(n) == \A m \in Node : up[m] <=> m = n

\* When from some time on one node alone answers, the pool ends up serving it.
Failover ==
    \A n \in Node :
        <>shared /\ <>[](OnlyUp(n) /\ tip[n] > 0)
            => <>[](pub.index = n /\ pub.status = 1)

\* A caller of WaitTillHeight then gets its answer from that node.
WaitSucceeds ==
    \A n \in Node :
        <>shared /\ <>[](OnlyUp(n) /\ tip[n] > 0 /\ tip[n] >= Target)
            => \A w \in Waiters : <>(wait[w].pc = "done")

\* A WaitTillHeight whose context is done returns, whatever the nodes do.
CancelledWaitReturns ==
    \A w \in Waiters : wait[w].cancelled ~> wait[w].pc = "done"

\* Select terminates while no other goroutine moves the cursor, and the lock
\* it holds delays the monitor only for that long.
SelectReturns ==
    \A s \in Selectors : Inside(s) ~> ~Inside(s)

=============================================================================
