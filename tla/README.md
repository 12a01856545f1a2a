# bridge-common in TLA+

A model of the concurrent core of `devfans/bridge-common`, a Go library that
cross-chain relayers use to talk to several blockchains: a pool of nodes per
chain, typed chain SDKs on top of it, a JSON-RPC client (a fork of go-ethereum's
`rpc` package), a wallet, and small tools. The modules are checked with TLC on
small instances, and the safety properties are proved with TLAPS for every value
of the constants.

## 1. Inventory

| Part | State it keeps | Operations | Talks to | What is hard |
|---|---|---|---|---|
| **Node pool** `chains/chain.go` | served node, its index and height, status, usable flags (RWMutex); the cursor (unprotected) | monitor sweep, `Select`, `Node`, `Index`, `Height`, `Available`, `WaitTillHeight`, `Init` | nodes by `GetLatestHeight`; typed SDKs read `Index`/`Select` | the sweep is not a snapshot; uint64 wrap; cursor race; failover |
| **RPC client** `chains/custom/client.go`, `handler.go` | `writeConn`, `respWait`, `lastOp`, the channels between goroutines | `Call`, `BatchCall`, `Notify`, reconnect, `Close`, `dispatch` | connections, the peer, methods the peer calls | hand-over of the write lock and of connections, late and repeated answers, shutdown |
| **Client subscriptions** `chains/custom/subscription.go` | a buffer of at most 20000, quit and err channels, `quitOnce`, `errOnce` | `Subscribe`, `deliver`, `forward`, `Unsubscribe` | dispatch, in both directions | `quitOnce` held across a call to dispatch; overflow; four goroutines that may end it |
| **Notifier and services** `subscription.go`, `handler.go`, `service.go` | buffered notifications, server subscriptions | `Notify`, `activate`, `unsubscribe` | call goroutines | order of response and notifications |
| **HTTP transport** `chains/custom/http.go` | one buffered channel per request | `sendHTTP`, `sendBatchHTTP` | HTTP servers | responses that do not match the requests |
| **JSON codec** `json.go`, `types.go`, `errors.go` | closed flag, write mutex | read, write, close | connection | - |
| **Typed SDKs** `chains/eth`, `poly`, `neo`, `ont`, `harmony`, `starcoin`, `switcheo`, `bridge` | a pool and a slice of typed nodes | `Node`, `Select`, confirmation loops | node pool, singletons | reads of one confirmation from different blocks, reorganisations |
| **Singletons, Retry** `util` | instance map | `Single`, `Retry` | typed SDKs | a failed creation is cached |
| **Wallet** `wallet` | accounts, nonce providers, cursor | `Send`, `SendWithAccount` (also of `EthWallet`), `EstimateWithAccount`, `Select`, `Upgrade` | eth SDK | concurrent nonces, failed steps |
| **Metrics** `metrics`, **metric writer** `tools/metric.go`, **counters** `tools/counter.go` | bounded channels, last snapshot, ring | `Record`, flush, `poll`, `Tick` | UDP, HTTP | drops, re-dial loop, misplaced unlock |
| **Ding, base, log, debug, key stores, abi** | - | formatting, constants, files, generated bindings | - | - |

What makes each part correct:

* *Node pool*: the published record is consistent and a node of it is always
  served; Select moves on to a usable node; WaitTillHeight tells the truth.
* *RPC client*: each request gets its own answers, at most once, or is told why
  not; no goroutine waits for something that nobody will do; the write lock and
  the connections are neither shared nor lost.
* *Subscriptions*: the reader gets the notifications in the order they were
  published, none skipped while the subscription lives; its end is reported once.
* *HTTP batch*: a faithful reply fills every element and never blocks.
* *Wallet and confirmation*: the nonces leave no hole; a reported confirmation is real,
  and no two transactions with one nonce are both reported, when the reads agree.
* *Singletons*: one creation at most, everybody sees its result.
* *Tools*: the block time spans exactly the ring; the metrics endpoint never goes
  back; the metric writer loses nothing it accepted.

`PROJECT.json` lists every part as a component and the concrete hazards, each at
its line.

## 2. Modules

### ChainSDK (with MCChainSDK, ChainSDKProofs)

`chains/chain.go`. The monitor goroutine is `Ping` (one node per step, so heights
and failures change between two pings), `LockRequest` (`s.Lock()` is called: new
readers are held back), `Publish` (the critical section, which waits for the
readers), `Tick`. `sweep` holds the locals of `updateSelection`, `pub` the fields
that the lock protects. The first sweep is the one of `Init`; if it finds every
node down `NewChainSDK` returns an error and starts no monitor (`mode =
"failed"`, `shared = FALSE`).

`Select` runs under the read lock, so several of them overlap, and it writes
`s.cursor`: the model has a step for every access that can interleave
(`SelectBegin`, `IncLoad`, `IncStore`, `Check`, `Finish`). A Go data race has no
defined result in general; for one machine word on the platforms Go supports the
accesses are single loads and stores, which is what the steps are. The cursor is
kept modulo N because it is only used modulo N. `WaitAsk`, `WaitQuery`, `WaitTimer`,
`WaitCancelled` are a round of `WaitTillHeight`. `Advance`, `Toggle` and `Cancel`
are the environment: a node's chain grows, a node fails or recovers, a caller
cancels.

Assumptions: N > 0 (with no node `Init` returns an error, and nothing else may be
called); a node's height never goes down; a node call returns, with an answer or
an error. The last one is the caller's burden: `GetLatestHeight` has no deadline
of its own, and a call that hangs stops the monitor (listed as a hazard).

### RpcClient, RpcContract (with MCRpcClient, RpcClientProofs, RpcContractProofs)

`chains/custom/client.go`, `handler.go` over a stream codec.

* *Callers* (`pc`): `Begin`, `ReqInit` or `SendGivesUp` (the select of `send`),
  `WriteOk`/`WriteFails`, `DialFails`/`DialOk`, `Reconnected`/`HandoverQuit` (the
  select of `reconnect`), then `Receive`, `Lost`, or `Timeout` followed by
  `ReqTimeout`/`TimeoutQuit` (`op.wait`). A channel without a buffer is a joint step of
  the two goroutines that meet on it; `c.reqSent`, which has room for one, is a
  variable.
* *Dispatch* (`dpc`): `"select"` is its select statement. `conn.close` is split
  where it can block or others can move: `Cancel` (cancelAllRequests), `CallsDone`
  (callWG.Wait, then the codec is closed), `DrainMsg`/`DrainErr` (drainRead), `Attach`
  (a new reader and handler, lastOp re-registered).
* *Readers*: one per connection; `Read` takes any answers to requests written on
  that connection, again and again, and at most one new call of the peer.
* *Call goroutines*: `ReverseCall` (a method that uses the client it was called
  from, `ClientFromContext`), `ProcEnd`. *Close*: `CloseBegin`, `CloseTaken`, `CloseEnd`.

Abstractions: an answer is the id it answers; an error answer and a result are
the same to the control. Several calls in one array share one goroutine and are
one member of `Procs`. `spared` is a history variable: requests that were in
flight when a read error closed their connection. Subscriptions have their own
modules.

`RpcContract` is the abstract specification of Call, BatchCall and Notify, for those who
use the client and for the peer: a request goes out at most once, whatever becomes of the
connection, and not after Close returned; each answer counts once, for a caller that still
waits; and the way a call ends tells what happened to it ("ok": all answers arrived;
"lost": it was sent, and cut off; "error": it was not sent; "quit": it was not sent, the
client is closing; "timeout": its context is done). It has no locks, queues or
connections, and does not say when. `RpcClient` implements it (`ContractKept`, with
`Phases`, `SentOps`, `ArrivedIds`, `ClientNow` as the mapping). "error" means "not sent"
because a write that fails has not delivered a whole message, which is how `WriteFails`
models the codec: a stream decoder never yields half a message.

At this commit nothing in the repository starts the dispatch path: `Dial` accepts only
`http` and `https`, `newClient` is called only by `DialHTTP`, and `initClient`, which starts
dispatch for every other codec, only by `newClient`. The path is complete code without a
caller, kept from the package it was forked from; the model says what it does for whoever
connects a stream codec to it. The same holds of subscriptions.

Assumption on the peer: it answers what was written on the connection, as often and as
late as it likes. An id that nobody registered is dropped by the lookup in `respWait`, as a
repeated answer is; an answer to an id that is registered and not yet written, which
would end a call whose request is still to go out, is left out.

### Feed, Notifier, ClientSub, Subscription (with MCSubscription, SubscriptionProofs, DispatchProofs)

`Feed` is the abstract specification: what the reader of a subscription's channel
is promised, and nothing about how. `Notifier` (server end) and `ClientSub` (client
end) are `subscription.go` with the parts of `handler.go` and `client.go` they meet;
`Subscription` joins them by a connection that keeps the order of messages and
breaks at any time (`Break`), and refines `Feed` (`FeedHolds`, an INSTANCE whose
`phase` is computed from forward and quit).

* *Server*: the goroutine of the subscribe call (`proc`) runs the callback, registers
  the subscription (`CallbackReturns`), writes the answer, then flushes what was
  published meanwhile (`Activate`, `FlushOne`, `Activated`), holding the notifier's
  mutex, so `Notify` waits. `ServerLost` and `CancelServerSubs` are
  `handler.close` before and after `callWG.Wait`.
* *Dispatch of the client* (`d`): `pc` is `"select"`, inside `deliver`, or inside
  `cancelAllRequests`. `HandleAnswer` enters the subscription and starts forward.
* *forward* and the callers of Unsubscribe (`q`): `"want"` is at the door of
  `quitOnce`, `"unsub"` inside it with the unsubscribe call under way. `OnceEnter` is
  the step that closes quit; `OnceLeave` sends the error. `CloseErr` is `errOnce`.
* A call (`Subscribe`'s or the one of `requestUnsubscribe`) takes the same way through
  send, `reqInit`, write, `reqSent` and `op.wait` as in RpcClient.

Assumptions: one connection (a subscription does not survive its connection, and
reconnection is in RpcClient); notifications are numbered as they are published; a
value that does not decode may come at any time (`badmsg`); `unsubscribe` has no
deadline, as in the code. In `Feed` the phase `"ending"` begins when quit is closed: from
there deliver and forward choose at random between quit and the next notification,
so late ones can arrive with gaps.

### TxSend (with MCTxSend, TxSendProofs)

`Wallet.Select` and `sendWithAccount` with the `RemoteNonceProvider`
(`wallet/wallet.go`, `wallet/nonce.go`), then `eth.Confirm`. Each sender is a goroutine that
sends one transaction; `pc` names the next call of the node. `"notSent"` is the end of a
call that failed before SendTransaction, of a dry run and of one that finds the
transaction executed. `Tx(s)` stands for the hash: account, nonce, and a `payload` for the
rest the hash covers, so two senders that say the same with one nonce make one
transaction (`wallet.go:209`).

The chain is external: `Mine` takes sent transactions with the next nonce of their
account, one of an account in a block, and `Reorg` drops the latest block. Every call reads
one of the `Nodes`, and `view[n]` is the chain as node n last saw it (`Sync`): any earlier
state of the chain, and a branch that was since abandoned. So `Acquire`, `SendTransaction`
and both reads of Confirm can meet a node that is behind by any distance, and one read
can be older than the one before. `sent` has every transaction a node accepted; which of
two with the same nonce a node keeps is not said, and a block may take either.

*What Confirm promises.* `GetTxHeight` accepts whatever block the node names and
`GetLatestHeight` is a call of its own, so Confirm may take the height of an abandoned block
and then count blocks of another branch: it reports success for a transaction that is not
mined. That is a behaviour of the code and of the model, and no comment of the code excludes
it. `ConfirmHonest` says what is left: the chain did grow `Blocks` above the reported
height; and if the node that answered the second read holds the transaction at that very
height, the transaction is in the chain there, for good. `apart` records that it does not; it
is a history variable that no action reads. `NonceOnce` says the same of two senders: told
of success by such reads, with one account and one nonce, they made one transaction.

Assumptions: a block with `Blocks` more on top of it, on any branch, is final (that is what
the caller of Confirm asks for); transactions come from this wallet, and what a node
accepted is not forgotten by all. `NonceProvider.Update` of the remote provider does
nothing. `EthWallet.SendWithAccount` (`wallet/eth.go`) is the same sequence with the tip and
the price, two calls that may fail where `GasPrice` has one, and without a dry mode.
`Wallet.Upgrade` copies the wallet by value, its mutex and cursor included: the copy rotates
on its own, over the same providers, and is not modelled. Other SDKs have the same loop with
other calls: only eth's is modelled.

### Utilities (with MCUtilities, UtilitiesProofs)

Five small modules without common state; a behaviour of `Utilities` is one of the
module its first state picks.

* `HttpBatch`: `BatchCallContext` over HTTP. `Replies` is whatever a node may write:
  responses missing, repeated, one too many, or with an id of nobody. The call then
  waits, blocks (`Wedged`) or panics; only a faithful reply is promised success.
* `Singleton`: `SingletonStore.Single` under its lock, called by `WithOptions` inside
  `util.Retry` (count + 1 attempts).
* `BlockCounter`: Tick unlocks at once, so each of its writes is a step; BlockTime reads
  the head, then the tail. Times and heights are unsigned words.
* `MetricsPipe`: `Record`, the folding goroutine, both channels, `GetMetrics`.
* `MetricWriter`: `Record`, `poll`, the writing goroutine and its re-dial loop.

### Mutants

A definition with the comment "Mutant of X" is a plausible bug in X. It is used by
no action; replacing X by it makes TLC find the property it is there for violated,
which shows that the property depends on the code being right.

## 3. Runs

| Run | Instance | Shows |
|---|---|---|
| `chain_sweep` | 3 nodes, heights 0..2, gap 1, words of 3 bits, one caller of Select | published record consistent, first best node, usable set exact, uint64 wrap included |
| `chain_select` | 3 nodes, heights 0..1, gap 0, two callers of Select (symmetric) | which node each of two racing callers may get |
| `chain_live` | 2 nodes, one Select, one WaitTillHeight | failover, waiting and cancelling, termination |
| `rpc_safety` | a batch of two with a deadline, a notification, a reverse call, two calls of the peer, 3 connections, one Close | `ContractKept`: the client implements `RpcContract`; write lock (never given twice, never orphaned), readers, no leak |
| `rpc_live` | a call with a deadline, a batch without, 2 connections, one Close | every waiting goroutine is released |
| `rpc_orphan` | one call, one connection, one Close | violation of `CloseAborts` |
| `rpc_reverse` | one reverse call, one connection | violation of `DispatchComesBack` |
| `sub_feed` | 3 notifications, a buffer of 1, two callers of Unsubscribe (symmetric), a breaking connection, one Close | both ends implement `Feed`; err, quit and registration agree; dispatch waits for nobody who waits for it (`DispatchUnblocked`) |
| `sub_live` | 2 notifications, a buffer of 1, one caller, a connection only Close ends | dispatch and Unsubscribe return, the end is reported, the server told |
| `sub_deadlock` | no notification, one caller, a breaking connection | violation of `UnsubscribeExecutes` |
| `tx_send` | 2 senders, 2 payloads and 2 nodes (all symmetric), 1 account, 2 confirmations, 2 rounds, heights to 3 | nonces and confirmations |
| `utilities` | batch of 3; 3 callers with 2 retries; ring of 3 with 5 ticks; channels of 2 | the property of each of the five modules |

Why these bounds: three nodes are the fewest for a scan that skips one usable and
one unusable node; heights 0..2 with gap 1 have a node below, at and above the gap,
and height 0 gives the wrap; gap 0 makes nodes unusable with heights 0..1. Two
callers are the fewest that race. With three connections one is replaced while its
replacement fails again; a batch of two is the smallest that can be half answered.
With a buffer of 1 two notifications overflow it, and a third is one that overtakes
or is skipped. Two senders of one account collide in a nonce, with equal payloads or
different ones; senders of different accounts share only the cursor. Heights to 3 leave
room for two confirmations and for a reorganisation of depth two whose replacement is
confirmed while a node is still on the abandoned blocks. A ring of 3 wraps
at the third tick, and five ticks go around it; a batch of 3 can lose, repeat and
exchange responses; channels of 2 fill. The pool's monitor and Select run for ever,
and messages of the RPC peer repeat for ever; everything else is finite by these
bounds. The proofs of section 4 hold without them.

`CHECK_DEADLOCK FALSE` is said where the system really stops: when every request
has returned, the subscription is over, all senders are done, or a bound is reached.
The pool never stops.

### Fairness

*ChainSDK*: the monitor and the steps of a Select or WaitTillHeight in progress are
weakly fair (goroutines run, node calls return). `WaitAsk` is strongly fair because
`RWMutex.Unlock` lets in the readers that wait before another writer.
`WaitCancelled` is strongly fair because a loop that comes to a select with a done
context again and again takes that case some time: Go picks among the ready cases
at random. The environment is not fair.

*RpcClient*: each request moves on when it can, which includes the case that its
context ends; writes and dials return (they have deadlines); a reader on a closed
codec gets an error; a method that makes no call returns; each ready case of
dispatch is taken. The peer owes nothing, so all liveness properties hold with a
peer that never answers. `rpc_live` has no reverse calls: with them
`DispatchComesBack` is false, which is what `rpc_reverse` shows.

*Subscription*: goroutines of the library that can run do run, on both ends, and the
server's callback returns; the cases of dispatch's select are strongly fair, as above.
Nobody has to read the channel, publish, call Unsubscribe or Close, and the connection
need not break. `unsubscribe` has no deadline, so `UnsubscribeReturns` rests on a server
that runs this code and on a connection that does not break by itself.

### Disagreements with comments

* `client.go:258` "Close closes the client, aborting any in-flight requests."
  `rpc_orphan`: a call is written; the connection breaks; dispatch sees `readErr`
  before `reqSent`, and spares the call as `lastOp`; then `reqSent` arrives and
  clears `lastOp`. The id is in no `respWait`. Without a deadline the caller waits
  for ever, also after `Close`. With a deadline it returns (`TimedReturns`), and
  `WaitersTracked` shows that this is the only way to lose track of a request, and
  `CloseAbortsRest`, which is proved, that Close does abort every other one.
* `handler.go:31` "Message handling never blocks indefinitely ...".
  `rpc_reverse`: `handler.close` waits for the call goroutines before it cancels
  their context, on the dispatch goroutine; a method that is in `send` on the same
  client waits for dispatch.
* `subscription.go:234` "The dispatch loop won't be able to execute the unsubscribe
  call if it is blocked on deliver. Close sub.quit first because it unblocks deliver."
  `sub_deadlock`: deliver is not the only place where dispatch blocks. Unsubscribe is
  inside `quitOnce` and wants dispatch to take its call; the connection breaks, and
  dispatch, in `cancelAllRequests`, calls `quitWithError` and waits for `quitOnce`.
  Neither moves again. `DispatchUnblocked`, which is proved, is what remains of the
  comment: in deliver, and in a `cancelAllRequests` that Close causes, it is true.

Smaller things met while modelling, which no run is about: `client.go:401-403` says
the element of a response is "guaranteed to be present", which holds for stream
codecs, where dispatch filters ids, and over HTTP only of a faithful reply;
`sendBatchHTTP` leaves the body of a bad status open; after a write without an error
the metric writer writes the same batch again and again; a `BlockTime` that a `Tick`
overlaps can return anything; `util.Retry` calls count + 1 times; `poly.Confirm`
returns 0 without an error when its rounds run out on a transaction that is not deep
enough.

## 4. Proofs

Every theorem is of the form `Spec => []P` (or an action property, or
`Spec => Promise!FeedSpec`, `Spec => Contract!ContractSpec`) for arbitrary constants under the named assumptions
of the modules (`PoolAssumption`, `RequestAssumption`, `FiniteAssumption`,
`SubAssumption`, `TxAssumption`, and those of the five utilities), so for any number
of nodes, goroutines, requests, connections, notifications and callers. One lemma per
invariant shows that a step preserves it, with one step per action.

*ChainSDKProofs.* `TypeCorrect` first. `SweepCorrect`: the locals of the sweep are the
first maximum so far (`SweepInv`); it needs that heights only grow. `HonestPool` and
`BestSelectable` follow, because `Publish` copies the locals; `PublishesFirstBest` is
the action property, where the wrap-around is computed. `RoundRobin`: `SelectSound`
alone is not inductive, since it speaks of the end of a scan; `SelectInv` says where
an undisturbed scan is (`ScanAt(s, k)`: k nodes passed, all unusable) and that it is
the only reader. `WaitTold` needs `WaitInv`: the node asked is one of the pool's, which
it is because the pool is handed out only with a node (`HonestPool`).

*RpcClientProofs.* `WriteLock` is inductive with `PhaseInv` (why dispatch is in the
phase it is in); it says that the lock has one owner, and that a lock that is taken has
a goroutine or a pending `reqSent` that gives it back. `ReaderInv` says exactly when the current reader is alive and gives
`OneReader`. `RespHasRoom` needs `FreshInv`: an id is not waited for, answered or
cancelled before its request was registered, nor answered before it was written.
`ExactAnswers` needs `CountInv`: `count` is the cardinality of the answered ids, so a
full count means all of them. `CodecInv` names the owner of every open connection and
gives `NoLeakedConn`. `WaitersTracked` is inductive with `TrackInv` on top of all of
these: a successful write implies that the connection is the handler's or about to be.
`CloseAbortsTheRest` combines the last with `PhaseInv`: dispatch that has quit waits for
no answer, so whoever it tracked was answered or told.

*RpcContractProofs.* `ContractImplemented`: every step of the callers, of dispatch, of the
readers and of Close is a step of `RpcContract` or a stutter. Two more invariants carry it.
`SentInv`: who waits for an answer has sent its request, and a write that failed has not;
so the two ways to return an error without an answer, and the way to return "lost", mean
what the contract says. `AwaitInv`: dispatch expects no answer for a call that has
returned, except between a failed write and its `reqSent`, when none can come; so an
answer that arrives is for an open call. One lemma per kind of step: `WriteSends`,
`EndImplemented`, `ReceiveImplemented`, `ArriveImplemented` (the answers of one message,
each the first for its id, by `RespHasRoom`), `CutImplemented`, `CloseImplemented`; the
remaining actions change nothing the contract sees (`OthersSendNothing` and `Same...`).
That a call's "ok" has all its answers is `ExactAnswers`, now a consequence.

*SubscriptionProofs.* `FeedImplemented` is the refinement: every step of both ends and
the connection is a step of `Feed` or a stutter. It rests on `SubInv`, built in layers.
`OnceInv` is the discipline of `quitOnce` (one holder, quit closed and errors sent inside
it only). `StartInv`: nothing of the subscription happens before its answer was handled.
`CallInv`: nothing reaches the client before the server answered, and it answers after
registering. `UnsubInv`: there is one unsubscribe call at most. `HeldInv`: what was
published is held back or was sent. `OrderInv`: the reader, forward's buffer, the item in
deliver and the connection are in ascending order, whatever is dropped on the way.
`ExactInv`: while the subscription lives, they hold together exactly 1, 2, ..., n. The
last two give the two ways a notification arrives in `Feed`; the other theorems of the
module read off the layers below.

*DispatchProofs.* `DispatchNeverWedged` is the safety half of `DispatchReturns`, for any
number of callers of Unsubscribe. Leaving deliver needs `HolderInv`: forward stops reading
only when it wants quitOnce, and whoever is in quitOnce has closed quit first. Leaving
`cancelAllRequests` needs `ToldInv`: while the client reads, a written and unanswered
unsubscribe call is in `respWait`, so Close, which cancels the requests before the
subscriptions, has told it; a call not yet written needs only its own goroutine, because
send gives up on closing. `LockInv` (the write lock, as in RpcClient) keeps the entry of
`respWait` until then, and `LostInv` says that only a break leads to the third case, the
one of `sub_deadlock`.

*TxSendProofs.* `Sound` describes a chain whoever holds it: it mines sent transactions,
each nonce once, and the nonces mined up to any block are 0 .. n - 1, by cardinalities. A
block and a reorganisation keep it (`SoundBlock`, `SoundTruncate`), and a node's chain is an
earlier one. So what `Acquire` reads from any node is a nonce with all lower ones sent:
`Backed` says this of senders that have not sent yet, and makes `NoHole` inductive. `Final`
is the fact about abandoned branches: what has `Blocks` above it in the chain of any node is
in the chain, because a block is dropped only less than `Blocks` below the highest there
was. `ConfirmHonest` follows for reads that agree, and `NonceOnce` from it and `Sound`.

*UtilitiesProofs.* One invariant per module, and `Frame`: a step of `Utilities` is, for
each of them, a step or none. `HttpInv`: `op.resp` is the part of the body between what
was taken and what was pushed. `StoreInv`: the one caller past the lookup holds the lock
over an empty store. `RingInv`: the place d behind the tail holds what was ticked d
before the last, without a modulus (`Back`, `Succ`), in every phase of a Tick. `PipeInv`:
values are ordered along the pipe. `WriterInv` is the property with its types.

Model-checked only: all liveness properties, because fairness and ENABLED are out of
the prover's reach, and the three disagreements, which are counterexamples.

## 5. Plan

Done: the node pool, the RPC client, subscriptions with both ends, the HTTP batch, the
wallet with eth's confirmation, the utilities, their proofs, and the two abstract
specifications `Feed` and `RpcContract`. Left, in this order:

1. **Rotation**: the node pool's Select as one atomic step of an abstract pool, for
   callers that no other overlaps; what `SelectSound` says, as a refinement.
2. Two subscriptions on one client, which share dispatch, and one more connection.
3. The confirmation loops of poly, neo and ontology, which read fewer things.

## Not modelled

* *Contract bindings* (`abi`): generated from contract ABIs, and the largest part of the
  repository by far (17242 of 23604 lines of implementation). Each method packs its
  arguments and makes one call; there is no state or control of this program in it, so
  most lines of the repository have no counterpart here.
* *JSON codec and types*, *chain messages*, *ding*, *logging*: encoding and formatting.
  Of the codec, closing and the write lock are in RpcClient.
* *Service registry* (`service.go`): reflection over methods, built at start-up.
* *Key stores*, *wallet providers*: files and signatures; a failure of either is a
  branch of `Prepare`.
* *Local nonce providers*: not part of the repository; `RemoteNonceProvider` is the one
  it has.
* *HTTP client helper*, *bridge service queries*, a single RPC over HTTP: one request,
  one answer, nothing kept.
* *TimedCounter*: one number swapped under its lock.
* *Networks and chain ids*: constants.
* A torn interface value in `cancelAllRequests` (`handler.go:180`), a node call that
  never returns (`chain.go:107`), the metric writer's endless resend
  (`tools/metric.go:135`), the last values before a quiet period (`metrics.go:80`): listed
  as hazards with the reason why no property is about them.
