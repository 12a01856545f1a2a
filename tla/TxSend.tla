------------------------------- MODULE TxSend -------------------------------
(***************************************************************************)
(* Sending a transaction and waiting for its confirmations: Wallet.Select, *)
(* Wallet.sendWithAccount with its RemoteNonceProvider, and eth.Confirm.   *)
(* Every sender is a goroutine of its own; they share the wallet, and the  *)
(* chain, which mines and forgets its latest blocks.  Every read is of one *)
(* node, which holds the chain as it was, abandoned blocks included.       *)
(* wallet/wallet.go, wallet/nonce.go, chains/eth/eth.go.                   *)
(***************************************************************************)
EXTENDS Naturals, FiniteSets

CONSTANTS Senders,      \* goroutines, each sends one transaction
          NumAccounts,  \* accounts of the wallet
          Payloads,     \* what the hash covers beside sender and nonce: target, amount, limit, price, data
          Nodes,        \* nodes of the chain behind the clients
          Blocks,       \* confirmations asked for; a block this deep is final
          Count,        \* rounds of Confirm
          MaxHeight     \* bound: height of the chain

ASSUME TxAssumption ==
  /\ NumAccounts \in Nat \ {0} /\ IsFiniteSet(Senders)
  /\ Blocks \in Nat /\ Count \in Nat /\ MaxHeight \in Nat

VARIABLES
  cursor,      \* Wallet.cursor
  pc, acct, nonce, payload,    \* of each sender
  count, height,               \* locals of Confirm
  apart,       \* history: who answered the height of the chain does not hold the block of the lookup
  sent,        \* transactions some node accepted: its pool has them until they are mined
  chain, peak, \* the chain, and the height it once had
  view         \* the chain each node holds

walletVars  == <<cursor, acct, nonce, payload>>
confirmVars == <<count, height, apart>>
chainVars   == <<chain, peak, view>>
vars == <<pc, walletVars, confirmVars, sent, chainVars>>

Accounts == 0 .. NumAccounts - 1
Txs      == [from : Accounts, nonce : Nat, payload : Payloads]
Chains   == [tip : Nat, mined : SUBSET [tx : Txs, at : Nat]]
Done     == {"notSent", "sentErr", "confirmed", "unconfirmed"}

Genesis == [tip |-> 0, mined |-> {}]

Init ==
  /\ cursor = 0
  /\ pc     = [s \in Senders |-> "start"]
  /\ acct   = [s \in Senders |-> 0]
  /\ nonce  = [s \in Senders |-> 0]
  /\ payload \in [Senders -> Payloads]
  /\ count  = [s \in Senders |-> Count]
  /\ height = [s \in Senders |-> 0]
  /\ apart  = [s \in Senders |-> FALSE]
  /\ sent = {} /\ chain = Genesis /\ peak = 0 /\ view = [n \in Nodes |-> Genesis]

-----------------------------------------------------------------------------
(* The chain, as the calls of the code see it                              *)

\* Chain c up to its block k.
Truncate(c, k) == [tip |-> k, mined |-> {m \in c.mined : m.at <= k}]

\* What chain c has mined of account a; its next nonce is their number.
MinedOf(c, a) == {m \in c.mined : m.tx.from = a}
NonceAt(c, a) == Cardinality(MinedOf(c, a))

\* The block of transaction t in chain c, if it has one.
Heights(c, t) == {m.at : m \in {x \in c.mined : x.tx = t}}

\* A block takes sent transactions that carry the next nonce, one of an account.
Mine ==
  /\ chain.tip < MaxHeight
  /\ \E B \in SUBSET {t \in sent : t.nonce = NonceAt(chain, t.from)} :
       /\ \A t, u \in B : t.from = u.from => t = u
       /\ chain' = [tip   |-> chain.tip + 1,
                    mined |-> chain.mined \cup {[tx |-> t, at |-> chain.tip + 1] : t \in B}]
  /\ peak' = IF chain'.tip > peak THEN chain'.tip ELSE peak
  /\ UNCHANGED <<pc, walletVars, confirmVars, sent, view>>

\* The latest block is dropped; final blocks stay.
Reorg ==
  /\ chain.tip > 0 /\ chain.tip + Blocks > peak
  /\ chain' = Truncate(chain, chain.tip - 1)
  /\ UNCHANGED <<pc, walletVars, confirmVars, sent, peak, view>>

\* A node catches up; until then it stays where it is, on an abandoned block perhaps.
Sync(n) ==
  /\ view' = [view EXCEPT ![n] = chain]
  /\ UNCHANGED <<pc, walletVars, confirmVars, sent, chain, peak>>

-----------------------------------------------------------------------------
Goto(s, label) == pc' = [pc EXCEPT ![s] = label]

(* Wallet.Select (Send), or the caller's account (SendWithAccount)         *)
Select(s) ==
  /\ pc[s] = "start"
  /\ acct'  = [acct EXCEPT ![s] = cursor]
  /\ cursor' = (cursor + 1) % NumAccounts
  /\ Goto(s, "price")
  /\ UNCHANGED <<nonce, payload, confirmVars, sent, chainVars>>

SendWithAccount(s) ==
  /\ pc[s] = "start"
  /\ \E a \in Accounts : acct' = [acct EXCEPT ![s] = a]
  /\ Goto(s, "price")
  /\ UNCHANGED <<cursor, nonce, payload, confirmVars, sent, chainVars>>

(* sendWithAccount, one step for each call of the node                     *)
GasPrice(s) ==
  /\ pc[s] = "price"
  /\ Goto(s, "acquire") \/ Goto(s, "notSent")
  /\ UNCHANGED <<walletVars, confirmVars, sent, chainVars>>

\* Mutant of Acquire: the provider counts transactions under way as well.
AcquirePending(s) ==
  /\ pc[s] = "acquire"
  /\ LET underWay == {t \in Senders : acct[t] = acct[s] /\ pc[t] = "gas"}
     IN  nonce' = [nonce EXCEPT ![s] = NonceAt(chain, acct[s]) + Cardinality(underWay)]
  /\ Goto(s, "gas")
  /\ UNCHANGED <<cursor, acct, payload, confirmVars, sent, chainVars>>

\* NonceProvider.Acquire: the nonce after the latest block the node knows.
Acquire(s) ==
  /\ pc[s] = "acquire"
  /\ \/ /\ \E n \in Nodes : nonce' = [nonce EXCEPT ![s] = NonceAt(view[n], acct[s])]
        /\ Goto(s, "gas")
     \/ Goto(s, "notSent") /\ UNCHANGED nonce
  /\ UNCHANGED <<cursor, acct, payload, confirmVars, sent, chainVars>>

\* EstimateGas may fail or find the transaction executed, dry returns, the limit and
\* the signature may fail: nothing is sent.  NonceProvider.Update does nothing.
Prepare(s) ==
  /\ pc[s] = "gas"
  /\ Goto(s, "send") \/ Goto(s, "notSent")
  /\ UNCHANGED <<walletVars, confirmVars, sent, chainVars>>

\* The transaction of a sender.  It stands for its hash: senders that say the same
\* with the same nonce make one transaction.
Tx(s) == [from |-> acct[s], nonce |-> nonce[s], payload |-> payload[s]]

\* SendTransaction: a node refuses a nonce its chain has used, and may refuse another
\* transaction or a second copy.  The answer may be lost.  The hash is returned anyhow.
SendTransaction(s) ==
  /\ pc[s] = "send"
  /\ \/ /\ \E n \in Nodes : nonce[s] >= NonceAt(view[n], acct[s])
        /\ sent' = sent \cup {Tx(s)}
        /\ Goto(s, "tx") \/ Goto(s, "sentErr")
     \/ Goto(s, "sentErr") /\ UNCHANGED sent
  /\ UNCHANGED <<walletVars, confirmVars, chainVars>>

-----------------------------------------------------------------------------
(* eth.Confirm.  The URL of its client may stand for several nodes.        *)

\* Mutant of ReadTx: a transaction that is in a block counts as confirmed.
ReadTxMined(s) ==
  /\ pc[s] = "tx" /\ count[s] > 0
  /\ count' = [count EXCEPT ![s] = @ - 1]
  /\ \E n \in Nodes : \E h \in {0} \cup Heights(view[n], Tx(s)) :
       /\ height' = [height EXCEPT ![s] = h]
       /\ Goto(s, IF h = 0 THEN "tx" ELSE "confirmed")
  /\ apart' = [apart EXCEPT ![s] = FALSE]
  /\ UNCHANGED <<walletVars, sent, chainVars>>

\* GetTxHeight: 0 if the transaction is pending or unknown to the node, or the call fails.
ReadTx(s) ==
  /\ pc[s] = "tx" /\ count[s] > 0
  /\ count' = [count EXCEPT ![s] = @ - 1]
  /\ \E n \in Nodes : \E h \in {0} \cup Heights(view[n], Tx(s)) :
       /\ height' = [height EXCEPT ![s] = h]
       /\ Goto(s, IF h = 0 THEN "tx" ELSE IF Blocks = 0 THEN "confirmed" ELSE "head")
  /\ apart' = [apart EXCEPT ![s] = FALSE]
  /\ UNCHANGED <<walletVars, sent, chainVars>>

\* No round is left: Confirm returns what the last one read.
LastRound(s) ==
  /\ pc[s] = "tx" /\ count[s] = 0
  /\ Goto(s, "unconfirmed")
  /\ UNCHANGED <<walletVars, confirmVars, sent, chainVars>>

\* Mutant of ReadHead: one confirmation less is enough.
ReadHeadShallow(s) ==
  /\ pc[s] = "head"
  /\ \E n \in Nodes :
       /\ Goto(s, IF view[n].tip + 1 >= height[s] + Blocks THEN "confirmed" ELSE "tx")
       /\ apart' = [apart EXCEPT ![s] = height[s] \notin Heights(view[n], Tx(s))]
  /\ UNCHANGED <<walletVars, count, height, sent, chainVars>>

\* GetLatestHeight.
ReadHead(s) ==
  /\ pc[s] = "head"
  /\ \/ \E n \in Nodes :
          /\ Goto(s, IF view[n].tip >= height[s] + Blocks THEN "confirmed" ELSE "tx")
          /\ apart' = [apart EXCEPT ![s] = height[s] \notin Heights(view[n], Tx(s))]
     \/ Goto(s, "tx") /\ UNCHANGED apart
  /\ UNCHANGED <<walletVars, count, height, sent, chainVars>>

Next ==
  \/ Mine \/ Reorg
  \/ \E n \in Nodes : Sync(n)
  \/ \E s \in Senders :
       \/ Select(s) \/ SendWithAccount(s) \/ GasPrice(s) \/ Acquire(s) \/ Prepare(s)
       \/ SendTransaction(s) \/ ReadTx(s) \/ LastRound(s) \/ ReadHead(s)

Spec == Init /\ [][Next]_vars

-----------------------------------------------------------------------------
(* Every variable keeps its type; no chain is higher than the peak.        *)
TxTypeOK ==
  /\ cursor \in Accounts
  /\ pc \in [Senders -> {"start", "price", "acquire", "gas", "send", "tx", "head"} \cup Done]
  /\ acct \in [Senders -> Accounts] /\ nonce \in [Senders -> Nat]
  /\ payload \in [Senders -> Payloads]
  /\ count \in [Senders -> 0 .. Count] /\ height \in [Senders -> Nat]
  /\ apart \in [Senders -> BOOLEAN] /\ sent \subseteq Txs
  /\ chain \in Chains /\ view \in [Nodes -> Chains] /\ peak \in Nat
  /\ chain.tip <= peak /\ \A n \in Nodes : view[n].tip <= peak

(* The wallet leaves no hole: whatever nodes answer and blocks vanish, the *)
(* nonces below that of a transaction the wallet sent are those of others  *)
(* that a node accepted, so none waits for one that nobody sent.           *)
NoHole ==
  \A t \in sent : \A n \in 0 .. t.nonce - 1 :
    \E u \in sent : u.from = t.from /\ u.nonce = n

(* Confirm's two reads may be of different nodes, or of one that changed   *)
(* its chain in between.  Whenever Confirm reports success the chain had   *)
(* grown that far above the height; and if the node that answered the      *)
(* height of the chain still held the transaction where the lookup found   *)
(* it, abandoned block or not, then it is there in the chain, for good.    *)
ConfirmHonest ==
  \A s \in Senders : pc[s] = "confirmed" =>
    /\ height[s] + Blocks <= peak
    /\ ~apart[s] => [tx |-> Tx(s), at |-> height[s]] \in chain.mined

(* Senders of one account may hold the same nonce, since the wallet asks a *)
(* node for it and reserves nothing.  If two of them are both told of      *)
(* success, by reads that agree as above, they made the same transaction.  *)
NonceOnce ==
  \A s, t \in Senders :
    /\ pc[s] = "confirmed" /\ pc[t] = "confirmed" /\ ~apart[s] /\ ~apart[t]
    /\ acct[s] = acct[t] /\ nonce[s] = nonce[t]
    => Tx(s) = Tx(t)

=============================================================================
