---------------------------- MODULE TxSendProofs ----------------------------
(***************************************************************************)
(* Proofs about TxSend, for every set of senders, payloads and nodes, and  *)
(* every number of accounts, depth, number of rounds and height bound.     *)
(***************************************************************************)
EXTENDS TxSend, FiniteSetTheorems, TLAPS

\* What chain c has mined of account a up to block k.
UpTo(c, a, k) == {m \in MinedOf(c, a) : m.at <= k}

(* A chain mines transactions of S, in its blocks, each nonce once; and    *)
(* the nonces of an account mined up to a block are an initial segment of  *)
(* the numbers.                                                            *)
Sound(c, S) ==
  /\ \A m \in c.mined : m.tx \in S /\ m.at \in 1 .. c.tip
  /\ \A m, o \in c.mined : m.tx.from = o.tx.from /\ m.tx.nonce = o.tx.nonce => m = o
  /\ \A a \in Accounts : IsFiniteSet(MinedOf(c, a))
  /\ \A a \in Accounts, k \in 0 .. c.tip :
       {m.tx.nonce : m \in UpTo(c, a, k)} = 0 .. Cardinality(UpTo(c, a, k)) - 1

ChainInv == Sound(chain, sent) /\ \A n \in Nodes : Sound(view[n], sent)

(* Whoever holds a nonce, sent or not, finds every lower one sent.         *)
Backed ==
  \A s \in Senders :
    /\ pc[s] \in {"start", "price", "acquire"} => nonce[s] = 0
    /\ \A n \in 0 .. nonce[s] - 1 : \E u \in sent : u.from = acct[s] /\ u.nonce = n

(* What is deep enough in the chain of a node, abandoned or not, is in the *)
(* chain.                                                                  *)
Final ==
  \A n \in Nodes : \A m \in view[n].mined :
    m.at + Blocks <= view[n].tip => m \in chain.mined

TxInv == TxTypeOK /\ ChainInv /\ Backed /\ NoHole /\ Final /\ ConfirmHonest

-----------------------------------------------------------------------------
(* Facts about one chain                                                   *)

\* The next nonce of an account is a number, and the nonces mined are those below.
LEMMA SoundNonces ==
  ASSUME NEW c \in Chains, NEW S, Sound(c, S), NEW a \in Accounts
  PROVE  /\ NonceAt(c, a) \in Nat
         /\ {m.tx.nonce : m \in MinedOf(c, a)} = 0 .. NonceAt(c, a) - 1
<1>1. UpTo(c, a, c.tip) = MinedOf(c, a)
  BY DEF UpTo, MinedOf, Sound, Chains
<1>2. c.tip \in 0 .. c.tip
  BY DEF Chains
<1>3. {m.tx.nonce : m \in UpTo(c, a, c.tip)} = 0 .. Cardinality(UpTo(c, a, c.tip)) - 1
  BY <1>2 DEF Sound
<1>4. NonceAt(c, a) \in Nat
  BY FS_CardinalityType DEF Sound, NonceAt
<1> QED BY <1>1, <1>3, <1>4 DEF NonceAt

\* A chain that is sound stays so when more transactions are sent.
LEMMA SoundMore ==
  ASSUME NEW c, NEW S, NEW T, Sound(c, S), S \subseteq T
  PROVE  Sound(c, T)
BY DEF Sound

LEMMA SoundGenesis == ASSUME NEW S PROVE Sound(Genesis, S)
<1>1. \A a, k : MinedOf(Genesis, a) = {} /\ UpTo(Genesis, a, k) = {}
  BY DEF Genesis, MinedOf, UpTo
<1>2. IsFiniteSet({}) /\ Cardinality({}) = 0
  BY FS_EmptySet
<1> QED BY <1>1, <1>2 DEF Sound, Genesis

\* Dropping a block leaves the transactions of every lower one.
LEMMA SoundTruncate ==
  ASSUME NEW c \in Chains, NEW S, Sound(c, S), c.tip > 0
  PROVE  Truncate(c, c.tip - 1) \in Chains /\ Sound(Truncate(c, c.tip - 1), S)
<1> DEFINE d == Truncate(c, c.tip - 1)
<1>1. /\ d.tip = c.tip - 1 /\ d.mined = {m \in c.mined : m.at <= c.tip - 1}
      /\ c.tip \in Nat /\ c.mined \subseteq [tx : Txs, at : Nat]
  BY DEF Truncate, Chains
<1>2. d \in Chains
  BY <1>1 DEF Truncate, Chains
<1>3. \A m \in d.mined : m.tx \in S /\ m.at \in 1 .. d.tip
  BY <1>1 DEF Sound
<1>4. \A m, o \in d.mined : m.tx.from = o.tx.from /\ m.tx.nonce = o.tx.nonce => m = o
  BY <1>1 DEF Sound
<1>5. ASSUME NEW a \in Accounts PROVE IsFiniteSet(MinedOf(d, a))
  <2>1. MinedOf(d, a) \subseteq MinedOf(c, a)
    BY <1>1 DEF MinedOf
  <2> QED BY <2>1, FS_Subset DEF Sound
<1>6. ASSUME NEW a \in Accounts, NEW k \in 0 .. d.tip PROVE UpTo(d, a, k) = UpTo(c, a, k)
  BY <1>1 DEF UpTo, MinedOf
<1>7. \A k \in 0 .. d.tip : k \in 0 .. c.tip
  BY <1>1
<1>8. \A a \in Accounts, k \in 0 .. d.tip :
        {m.tx.nonce : m \in UpTo(d, a, k)} = 0 .. Cardinality(UpTo(d, a, k)) - 1
  BY <1>6, <1>7 DEF Sound
<1> HIDE DEF d
<1>9. Sound(d, S)
  BY <1>3, <1>4, <1>5, <1>8 DEF Sound
<1> QED BY <1>2, <1>9 DEF d

\* A block that takes one transaction at most of an account, with its next nonce,
\* makes a longer sound chain.
LEMMA SoundBlock ==
  ASSUME NEW c \in Chains, NEW S \in SUBSET Txs, Sound(c, S), NEW B \in SUBSET S,
         \A t \in B : t.nonce = NonceAt(c, t.from),
         \A t, u \in B : t.from = u.from => t = u,
         NEW d, d = [tip |-> c.tip + 1, mined |-> c.mined \cup {[tx |-> t, at |-> c.tip + 1] : t \in B}]
  PROVE  d \in Chains /\ Sound(d, S)
<1> DEFINE New == {[tx |-> t, at |-> c.tip + 1] : t \in B}
<1>1. /\ d.tip = c.tip + 1 /\ d.mined = c.mined \cup New
      /\ c.tip \in Nat /\ c.mined \subseteq [tx : Txs, at : Nat]
  BY DEF Chains
<1>2. d \in Chains
  <2>1. New \subseteq [tx : Txs, at : Nat]
    BY <1>1
  <2> QED BY <1>1, <2>1 DEF Chains
<1>3. \A m \in New : m.tx \in B /\ m.at = c.tip + 1 /\ m = [tx |-> m.tx, at |-> c.tip + 1]
  OBVIOUS
<1>4. \A t \in B : t.from \in Accounts /\ t.nonce \in Nat
  BY DEF Txs
<1>5. ASSUME NEW m \in c.mined, NEW o \in New, m.tx.from = o.tx.from, m.tx.nonce = o.tx.nonce
      PROVE  FALSE
  <2> DEFINE a == o.tx.from
  <2>1. a \in Accounts /\ o.tx.nonce = NonceAt(c, a) /\ m \in MinedOf(c, a)
    BY <1>3, <1>4, <1>5 DEF MinedOf
  <2>2. m.tx.nonce \in 0 .. NonceAt(c, a) - 1 /\ NonceAt(c, a) \in Nat
    BY <2>1, SoundNonces
  <2> QED BY <1>5, <2>1, <2>2
<1>6. \A m \in d.mined : m.tx \in S /\ m.at \in 1 .. d.tip
  BY <1>1, <1>3 DEF Sound
<1>7. \A m, o \in d.mined : m.tx.from = o.tx.from /\ m.tx.nonce = o.tx.nonce => m = o
  <2>1. \A m, o \in New : m.tx.from = o.tx.from => m = o
    BY <1>3
  <2> QED BY <1>1, <1>5, <2>1 DEF Sound
<1>8. ASSUME NEW a \in Accounts
      PROVE  /\ IsFiniteSet(MinedOf(d, a))
             /\ {m.tx.nonce : m \in MinedOf(d, a)} = 0 .. Cardinality(MinedOf(d, a)) - 1
  <2> DEFINE M == MinedOf(c, a)
             A == {m \in New : m.tx.from = a}
             k == NonceAt(c, a)
  <2>1. MinedOf(d, a) = M \cup A
    BY <1>1 DEF MinedOf
  <2>2. /\ {m.tx.nonce : m \in M} = 0 .. k - 1 /\ k \in Nat
        /\ IsFiniteSet(M) /\ k = Cardinality(M)
    BY SoundNonces DEF Sound, NonceAt
  <2>3. CASE A = {}
    BY <2>1, <2>2, <2>3
  <2>4. CASE A # {}
    <3>1. PICK m : m \in A
      BY <2>4
    <3>2. A = {m}
      BY <3>1, <1>3
    <3>3. m.tx.nonce = k /\ m \notin M
      <4>1. m.tx.nonce = k
        BY <3>1, <1>3
      <4>2. m \notin c.mined
        BY <3>1, <1>5
      <4> QED BY <4>1, <4>2 DEF MinedOf
    <3>4. IsFiniteSet(M \cup {m}) /\ Cardinality(M \cup {m}) = k + 1
      BY <2>2, <3>3, FS_AddElement
    <3>5. {o.tx.nonce : o \in M \cup {m}} = {o.tx.nonce : o \in M} \cup {k}
      BY <3>3
    <3>6. (0 .. k - 1) \cup {k} = 0 .. (k + 1) - 1
      BY <2>2
    <3> QED BY <2>1, <2>2, <3>2, <3>4, <3>5, <3>6
  <2> QED BY <2>3, <2>4
<1>9. ASSUME NEW a \in Accounts, NEW k \in 0 .. d.tip
      PROVE  {m.tx.nonce : m \in UpTo(d, a, k)} = 0 .. Cardinality(UpTo(d, a, k)) - 1
  <2>1. CASE k = d.tip
    <3>1. UpTo(d, a, k) = MinedOf(d, a)
      BY <1>6, <2>1 DEF UpTo, MinedOf
    <3> QED BY <3>1, <1>8
  <2>2. CASE k # d.tip
    <3>1. k \in 0 .. c.tip
      BY <1>1, <2>2
    <3>2. UpTo(d, a, k) = UpTo(c, a, k)
      BY <1>1, <1>3, <3>1 DEF UpTo, MinedOf
    <3> QED BY <3>1, <3>2 DEF Sound
  <2> QED BY <2>1, <2>2
<1>10. Sound(d, S)
  BY <1>6, <1>7, <1>8, <1>9 DEF Sound
<1> QED BY <1>2, <1>10

-----------------------------------------------------------------------------
(* Steps of the whole                                                      *)

\* The steps that only move a sender leave what nodes and chains hold alone.
Quiet(s) == \/ Select(s) \/ SendWithAccount(s) \/ GasPrice(s) \/ Acquire(s) \/ Prepare(s)
            \/ ReadTx(s) \/ LastRound(s) \/ ReadHead(s)

LEMMA QuietStep ==
  ASSUME NEW s \in Senders, Quiet(s)
  PROVE  UNCHANGED <<sent, chain, peak, view, payload>>
BY DEF Quiet, Select, SendWithAccount, GasPrice, Acquire, Prepare, ReadTx, LastRound, ReadHead,
       walletVars, chainVars

\* A step of one sender leaves the others where they are.
LEMMA OthersStay ==
  ASSUME TxTypeOK, NEW s \in Senders, Quiet(s) \/ SendTransaction(s),
         NEW t \in Senders \ {s}
  PROVE  UNCHANGED <<pc[t], acct[t], nonce[t], payload[t], count[t], height[t], apart[t]>>
BY DEF Quiet, Select, SendWithAccount, GasPrice, Acquire, Prepare, ReadTx, LastRound, ReadHead,
       SendTransaction, Goto, walletVars, confirmVars, TxTypeOK

LEMMA TypeStep == ASSUME TxTypeOK, ChainInv, [Next]_vars PROVE TxTypeOK'
<1> USE DEF TxTypeOK
<1>1. CASE Mine
  <2>1. PICK B \in SUBSET {t \in sent : t.nonce = NonceAt(chain, t.from)} :
          /\ \A t, u \in B : t.from = u.from => t = u
          /\ chain' = [tip   |-> chain.tip + 1,
                       mined |-> chain.mined \cup {[tx |-> t, at |-> chain.tip + 1] : t \in B}]
    BY <1>1 DEF Mine
  <2>2. chain' \in Chains
    <3>1. B \in SUBSET sent /\ \A t \in B : t.nonce = NonceAt(chain, t.from)
      BY <2>1
    <3>2. Sound(chain, sent) /\ chain \in Chains /\ sent \in SUBSET Txs
      BY DEF ChainInv
    <3> QED BY <2>1, <3>1, <3>2, SoundBlock
  <2>3. chain'.tip = chain.tip + 1 /\ chain.tip \in Nat
    BY <2>1 DEF Chains
  <2>4. peak' \in Nat /\ peak <= peak' /\ chain'.tip <= peak'
    BY <1>1, <2>3 DEF Mine
  <2>5. \A n \in Nodes : view[n].tip \in Nat
    BY DEF Chains
  <2>6. \A n \in Nodes : view[n].tip <= peak'
    BY <2>4, <2>5
  <2> QED BY <1>1, <2>2, <2>4, <2>6 DEF Mine, walletVars, confirmVars
<1>2. CASE Reorg
  <2>1. chain' \in Chains /\ chain'.tip = chain.tip - 1
    BY <1>2, SoundTruncate DEF Reorg, ChainInv, Truncate
  <2>2. chain.tip \in Nat
    BY DEF Chains
  <2> QED BY <1>2, <2>1, <2>2 DEF Reorg, walletVars, confirmVars
<1>3. ASSUME NEW n \in Nodes, Sync(n) PROVE TxTypeOK'
  BY <1>3 DEF Sync, walletVars, confirmVars
<1>4. ASSUME NEW s \in Senders, SendTransaction(s) PROVE TxTypeOK'
  <2>1. Tx(s) \in Txs
    BY DEF Tx, Txs
  <2> QED BY <1>4, <2>1 DEF SendTransaction, Goto, Done, walletVars, confirmVars, chainVars
<1> USE DEF walletVars, confirmVars, chainVars, Goto, Done
<1>5. ASSUME NEW s \in Senders, Select(s) PROVE TxTypeOK'
  BY <1>5, TxAssumption DEF Select, Accounts
<1>6. ASSUME NEW s \in Senders, SendWithAccount(s) PROVE TxTypeOK'
  BY <1>6 DEF SendWithAccount
<1>7. ASSUME NEW s \in Senders, GasPrice(s) PROVE TxTypeOK'
  BY <1>7 DEF GasPrice
<1>8. ASSUME NEW s \in Senders, Acquire(s) PROVE TxTypeOK'
  <2>1. \A n \in Nodes : NonceAt(view[n], acct[s]) \in Nat
    BY SoundNonces DEF ChainInv
  <2> QED BY <1>8, <2>1 DEF Acquire
<1>9. ASSUME NEW s \in Senders, Prepare(s) PROVE TxTypeOK'
  BY <1>9 DEF Prepare
<1>10. ASSUME NEW s \in Senders, ReadTx(s) PROVE TxTypeOK'
  <2>1. count[s] - 1 \in 0 .. Count
    BY <1>10, TxAssumption DEF ReadTx
  <2>2. \A n \in Nodes : Heights(view[n], Tx(s)) \subseteq Nat
    BY DEF Heights, Chains
  <2> QED BY <1>10, <2>1, <2>2 DEF ReadTx
<1>11. ASSUME NEW s \in Senders, LastRound(s) PROVE TxTypeOK'
  BY <1>11 DEF LastRound
<1>12. ASSUME NEW s \in Senders, ReadHead(s) PROVE TxTypeOK'
  BY <1>12 DEF ReadHead
<1>13. CASE UNCHANGED vars
  BY <1>13 DEF vars
<1> QED BY <1>1, <1>2, <1>3, <1>4, <1>5, <1>6, <1>7, <1>8, <1>9, <1>10, <1>11, <1>12, <1>13 DEF Next

\* Nothing sent is forgotten, and every chain stays sound.
LEMMA ChainStep ==
  ASSUME TxTypeOK, ChainInv, [Next]_vars
  PROVE  ChainInv' /\ sent \subseteq sent'
<1> USE DEF ChainInv
<1>1. CASE Mine
  <2>1. PICK B \in SUBSET {t \in sent : t.nonce = NonceAt(chain, t.from)} :
          /\ \A t, u \in B : t.from = u.from => t = u
          /\ chain' = [tip   |-> chain.tip + 1,
                       mined |-> chain.mined \cup {[tx |-> t, at |-> chain.tip + 1] : t \in B}]
    BY <1>1 DEF Mine
  <2>2. B \in SUBSET sent /\ \A t \in B : t.nonce = NonceAt(chain, t.from)
    BY <2>1
  <2>3. chain \in Chains /\ sent \in SUBSET Txs
    BY DEF TxTypeOK
  <2>4. Sound(chain', sent)
    BY <2>1, <2>2, <2>3, SoundBlock
  <2> QED BY <1>1, <2>4 DEF Mine
<1>2. CASE Reorg
  <2>1. Sound(chain', sent)
    BY <1>2, SoundTruncate DEF Reorg, TxTypeOK
  <2> QED BY <1>2, <2>1 DEF Reorg
<1>3. ASSUME NEW n \in Nodes, Sync(n) PROVE ChainInv' /\ sent \subseteq sent'
  BY <1>3 DEF Sync, TxTypeOK
<1>4. ASSUME NEW s \in Senders, SendTransaction(s) PROVE ChainInv' /\ sent \subseteq sent'
  <2>1. sent \subseteq sent' /\ UNCHANGED <<chain, view>>
    BY <1>4 DEF SendTransaction, chainVars
  <2> QED BY <2>1, SoundMore
<1>5. ASSUME NEW s \in Senders, Quiet(s) PROVE ChainInv' /\ sent \subseteq sent'
  BY <1>5, QuietStep
<1>6. CASE UNCHANGED vars
  BY <1>6 DEF vars, chainVars
<1> QED BY <1>1, <1>2, <1>3, <1>4, <1>5, <1>6 DEF Next, Quiet

\* Acquire gives the number of transactions a node has mined, all of them sent and
\* with the nonces below; and only a nonce so acquired is ever sent.
LEMMA NonceStep ==
  ASSUME TxTypeOK, ChainInv, Backed, NoHole, [Next]_vars
  PROVE  Backed' /\ NoHole'
<1> DEFINE Below(a, n) == \E u \in sent' : u.from = a /\ u.nonce = n
<1>1. sent \subseteq sent'
  BY ChainStep
<1>2. ASSUME NEW s \in Senders
      PROVE  /\ pc'[s] \in {"start", "price", "acquire"} => nonce'[s] = 0
             /\ \A n \in 0 .. nonce'[s] - 1 : Below(acct'[s], n)
  <2>1. CASE /\ acct'[s] = acct[s] /\ nonce'[s] = nonce[s]
             /\ pc'[s] \in {"start", "price", "acquire"} => pc[s] \in {"start", "price", "acquire"}
    BY <1>1, <2>1 DEF Backed
  <2>2. CASE Select(s) \/ SendWithAccount(s)
    <3>1. nonce'[s] = 0
      BY <2>2 DEF Select, SendWithAccount, Backed
    <3> QED BY <3>1
  <2>3. CASE Acquire(s) /\ nonce' # nonce
    <3>1. PICK n \in Nodes : nonce' = [nonce EXCEPT ![s] = NonceAt(view[n], acct[s])]
      BY <2>3 DEF Acquire
    <3>2. /\ nonce'[s] = NonceAt(view[n], acct[s]) /\ acct'[s] = acct[s] /\ pc'[s] = "gas"
          /\ acct[s] \in Accounts /\ view[n] \in Chains /\ Sound(view[n], sent)
      BY <2>3, <3>1 DEF Acquire, Goto, TxTypeOK, ChainInv
    <3>3. {m.tx.nonce : m \in MinedOf(view[n], acct[s])} = 0 .. nonce'[s] - 1
      BY <3>2, SoundNonces
    <3>4. ASSUME NEW k \in 0 .. nonce'[s] - 1 PROVE Below(acct[s], k)
      <4>1. PICK m \in MinedOf(view[n], acct[s]) : m.tx.nonce = k
        BY <3>3, <3>4
      <4>2. m.tx \in sent /\ m.tx.from = acct[s]
        BY <3>2 DEF MinedOf, Sound
      <4> QED BY <1>1, <4>1, <4>2
    <3> QED BY <3>2, <3>4
  <2>4. ASSUME NEW r \in Senders, r # s, Quiet(r) \/ SendTransaction(r)
        PROVE  acct'[s] = acct[s] /\ nonce'[s] = nonce[s] /\ pc'[s] = pc[s]
    BY <2>4, OthersStay
  <2>5. Mine \/ Reorg \/ (\E n \in Nodes : Sync(n)) \/ UNCHANGED vars
          => UNCHANGED <<pc, acct, nonce>>
    BY DEF Mine, Reorg, Sync, vars, walletVars
  <2>6. (Acquire(s) /\ nonce' = nonce) \/ GasPrice(s) \/ Prepare(s) \/ SendTransaction(s)
          \/ ReadTx(s) \/ LastRound(s) \/ ReadHead(s)
          => /\ acct'[s] = acct[s] /\ nonce'[s] = nonce[s]
             /\ pc'[s] \in {"start", "price", "acquire"} => pc[s] \in {"start", "price", "acquire"}
    BY DEF Acquire, GasPrice, Prepare, SendTransaction, ReadTx, LastRound, ReadHead, Goto,
           walletVars, TxTypeOK
  <2> QED BY <2>1, <2>2, <2>3, <2>4, <2>5, <2>6 DEF Next, Quiet
<1>3. ASSUME NEW t \in sent', NEW n \in 0 .. t.nonce - 1 PROVE Below(t.from, n)
  <2>1. CASE t \in sent
    BY <1>1, <1>3, <2>1 DEF NoHole
  <2>2. CASE t \notin sent
    <3>1. PICK s \in Senders : SendTransaction(s)
      BY <2>2, QuietStep DEF Next, Quiet, Mine, Reorg, Sync, vars
    <3>2. t.from = acct[s] /\ t.nonce = nonce[s]
      BY <2>2, <3>1 DEF SendTransaction, Tx
    <3> QED BY <1>1, <1>3, <3>2 DEF Backed
  <2> QED BY <2>1, <2>2
<1> QED BY <1>2, <1>3 DEF Backed, NoHole

\* A block is dropped only while fewer than Blocks are above it in any chain a node holds.
LEMMA FinalStep == ASSUME TxTypeOK, ChainInv, Final, [Next]_vars PROVE Final'
<1>1. CASE Mine
  <2>1. chain.mined \subseteq chain'.mined
    BY <1>1 DEF Mine
  <2> QED BY <1>1, <2>1 DEF Mine, Final
<1>2. CASE Reorg
  <2>1. chain'.mined = {m \in chain.mined : m.at <= chain.tip - 1} /\ UNCHANGED view
        /\ chain.tip + Blocks > peak
    BY <1>2 DEF Reorg, Truncate
  <2> SUFFICES ASSUME NEW n \in Nodes, NEW m \in view[n].mined, m.at + Blocks <= view[n].tip
               PROVE  m \in chain'.mined
    BY <2>1 DEF Final
  <2>2. m \in chain.mined /\ view[n].tip <= peak
    BY DEF Final, TxTypeOK
  <2>3. m.at \in Nat /\ chain.tip \in Nat /\ view[n].tip \in Nat /\ peak \in Nat /\ Blocks \in Nat
    BY <2>2, TxAssumption DEF TxTypeOK, Chains
  <2>4. m.at <= chain.tip - 1
    BY <2>1, <2>2, <2>3
  <2> QED BY <2>1, <2>2, <2>4
<1>3. ASSUME NEW n \in Nodes, Sync(n) PROVE Final'
  BY <1>3 DEF Sync, Final, TxTypeOK
<1>4. ASSUME NEW s \in Senders, Quiet(s) \/ SendTransaction(s) PROVE Final'
  BY <1>4, QuietStep DEF Final, SendTransaction, chainVars
<1>5. CASE UNCHANGED vars
  BY <1>5 DEF vars, chainVars, Final
<1> QED BY <1>1, <1>2, <1>3, <1>4, <1>5 DEF Next, Quiet

LEMMA ConfirmStep ==
  ASSUME TxTypeOK, ChainInv, Final, ConfirmHonest, [Next]_vars
  PROVE  ConfirmHonest'
<1> DEFINE In(s)     == [tx |-> Tx(s), at |-> height[s]] \in chain.mined
           Honest(s) == pc[s] = "confirmed" => height[s] + Blocks <= peak /\ (~apart[s] => In(s))
<1>1. \A s \in Senders : Honest(s) /\ height[s] \in Nat
  BY DEF ConfirmHonest, TxTypeOK
<1>2. peak \in Nat /\ chain.tip \in Nat /\ Blocks \in Nat
      /\ \A n \in Nodes : view[n].tip \in Nat /\ view[n].tip <= peak
  BY TxAssumption DEF TxTypeOK, Chains
<1>3. ASSUME NEW s \in Senders, Mine PROVE Honest(s)'
  <2>1. chain.mined \subseteq chain'.mined /\ chain'.tip = chain.tip + 1
        /\ peak' = (IF chain'.tip > peak THEN chain'.tip ELSE peak)
        /\ UNCHANGED <<pc, acct, nonce, payload, height, apart>>
    BY <1>3 DEF Mine, walletVars, confirmVars
  <2>2. peak' >= peak /\ peak' \in Nat /\ Tx(s)' = Tx(s)
    BY <1>2, <2>1 DEF Tx
  <2> QED BY <1>1, <1>2, <2>1, <2>2
<1>4. ASSUME NEW s \in Senders, Reorg PROVE Honest(s)'
  <2>1. chain'.mined = {m \in chain.mined : m.at <= chain.tip - 1} /\ chain.tip + Blocks > peak
        /\ UNCHANGED <<pc, acct, nonce, payload, height, apart, peak>>
    BY <1>4 DEF Reorg, Truncate, walletVars, confirmVars
  <2>2. height[s] + Blocks <= peak => height[s] <= chain.tip - 1
    <3>1. height[s] \in Nat /\ peak \in Nat /\ chain.tip \in Nat /\ Blocks \in Nat
      BY <1>1, <1>2
    <3>2. chain.tip + Blocks > peak
      BY <2>1
    <3> QED BY <3>1, <3>2
  <2>3. Tx(s)' = Tx(s)
    BY <2>1 DEF Tx
  <2> QED BY <1>1, <2>1, <2>2, <2>3
<1>5. ASSUME NEW s \in Senders, NEW r \in Senders, r # s, Quiet(r) \/ SendTransaction(r)
      PROVE  Honest(s)'
  <2>1. UNCHANGED <<pc[s], acct[s], nonce[s], payload[s], height[s], apart[s]>>
    BY <1>5, OthersStay
  <2>2. UNCHANGED <<chain, peak>>
    BY <1>5, QuietStep DEF SendTransaction, chainVars
  <2>3. Tx(s)' = Tx(s)
    BY <2>1 DEF Tx
  <2> QED BY <1>1, <2>1, <2>2, <2>3
<1>6. ASSUME NEW s \in Senders, NEW n \in Nodes, NEW h \in Heights(view[n], Tx(s)),
             h + Blocks <= view[n].tip
      PROVE  [tx |-> Tx(s), at |-> h] \in chain.mined
  <2>1. PICK m \in view[n].mined : m.tx = Tx(s) /\ m.at = h
    BY <1>6 DEF Heights
  <2>2. m \in chain.mined /\ m \in [tx : Txs, at : Nat]
    BY <1>6, <2>1 DEF Final, TxTypeOK, Chains
  <2>3. m = [tx |-> Tx(s), at |-> h]
    BY <2>1, <2>2
  <2> QED BY <2>2, <2>3
<1>7. ASSUME NEW s \in Senders, ReadTx(s) PROVE Honest(s)'
  <2>1. UNCHANGED <<chain, peak, acct, nonce, payload>>
    BY <1>7 DEF ReadTx, chainVars, walletVars
  <2>2. PICK n \in Nodes : \E h \in {0} \cup Heights(view[n], Tx(s)) :
          /\ height' = [height EXCEPT ![s] = h]
          /\ Goto(s, IF h = 0 THEN "tx" ELSE IF Blocks = 0 THEN "confirmed" ELSE "head")
    BY <1>7 DEF ReadTx
  <2>3. PICK h \in {0} \cup Heights(view[n], Tx(s)) :
          /\ height' = [height EXCEPT ![s] = h]
          /\ Goto(s, IF h = 0 THEN "tx" ELSE IF Blocks = 0 THEN "confirmed" ELSE "head")
    BY <2>2
  <2>4. height'[s] = h /\ (pc'[s] = "confirmed" => h # 0 /\ Blocks = 0)
    BY <2>3 DEF Goto, TxTypeOK
  <2>5. h \in Heights(view[n], Tx(s)) => h \in Nat /\ h <= view[n].tip
    BY <1>2 DEF Heights, ChainInv, Sound
  <2>6. Tx(s)' = Tx(s)
    BY <2>1 DEF Tx
  <2>7. ASSUME pc'[s] = "confirmed" PROVE h + Blocks <= peak /\ [tx |-> Tx(s), at |-> h] \in chain.mined
    <3>1. h \in Heights(view[n], Tx(s)) /\ Blocks = 0
      BY <2>3, <2>4, <2>7
    <3>2. h + Blocks <= view[n].tip /\ h + Blocks <= peak
      BY <1>2, <2>5, <3>1
    <3> QED BY <1>6, <3>1, <3>2
  <2> QED BY <2>1, <2>4, <2>6, <2>7
<1>8. ASSUME NEW s \in Senders, ReadHead(s) PROVE Honest(s)'
  <2>1. UNCHANGED <<chain, peak, height, acct, nonce, payload>>
    BY <1>8 DEF ReadHead, chainVars, walletVars
  <2>2. Tx(s)' = Tx(s)
    BY <2>1 DEF Tx
  <2>3. CASE Goto(s, "tx")
    BY <2>3 DEF Goto, TxTypeOK
  <2>4. ASSUME NEW n \in Nodes,
               Goto(s, IF view[n].tip >= height[s] + Blocks THEN "confirmed" ELSE "tx"),
               apart' = [apart EXCEPT ![s] = height[s] \notin Heights(view[n], Tx(s))]
        PROVE  Honest(s)'
    <3>1. pc'[s] = "confirmed" => height[s] + Blocks <= view[n].tip
      BY <1>1, <1>2, <2>4 DEF Goto, TxTypeOK
    <3>2. apart'[s] = (height[s] \notin Heights(view[n], Tx(s)))
      BY <2>4 DEF TxTypeOK
    <3>3. pc'[s] = "confirmed" => height[s] + Blocks <= peak
      <4>1. /\ height[s] \in Nat /\ peak \in Nat /\ view[n].tip \in Nat /\ Blocks \in Nat
            /\ view[n].tip <= peak
        BY <1>1, <1>2
      <4> QED BY <3>1, <4>1
    <3>4. pc'[s] = "confirmed" /\ ~apart'[s] => In(s)
      BY <1>6, <3>1, <3>2
    <3> QED BY <2>1, <2>2, <3>3, <3>4
  <2> QED BY <1>8, <2>3, <2>4 DEF ReadHead
<1>9. ASSUME NEW s \in Senders,
             \/ Select(s) \/ SendWithAccount(s) \/ GasPrice(s) \/ Acquire(s) \/ Prepare(s)
             \/ SendTransaction(s) \/ LastRound(s)
      PROVE  Honest(s)'
  <2>1. pc'[s] # "confirmed"
    BY <1>9 DEF Select, SendWithAccount, GasPrice, Acquire, Prepare, SendTransaction, LastRound,
                Goto, TxTypeOK
  <2> QED BY <2>1
<1>10. ASSUME NEW s \in Senders, (\E n \in Nodes : Sync(n)) \/ UNCHANGED vars PROVE Honest(s)'
  <2>1. UNCHANGED <<pc, acct, nonce, payload, height, apart, chain, peak>>
    BY <1>10 DEF Sync, vars, walletVars, confirmVars, chainVars
  <2>2. Tx(s)' = Tx(s)
    BY <2>1 DEF Tx
  <2> QED BY <1>1, <2>1, <2>2
<1>11. \A s \in Senders : Honest(s)'
  BY <1>3, <1>4, <1>5, <1>7, <1>8, <1>9, <1>10 DEF Next, Quiet
<1> QED BY <1>11 DEF ConfirmHonest

-----------------------------------------------------------------------------
LEMMA Inductive == Spec => []TxInv
<1>1. Init => TxInv
  <2> SUFFICES ASSUME Init PROVE TxInv
    OBVIOUS
  <2>1. TxTypeOK
    BY TxAssumption DEF Init, TxTypeOK, Accounts, Chains, Genesis
  <2>2. ChainInv
    BY SoundGenesis DEF Init, ChainInv
  <2>3. Backed /\ NoHole /\ Final /\ ConfirmHonest
    BY DEF Init, Backed, NoHole, Final, ConfirmHonest, Genesis
  <2> QED BY <2>1, <2>2, <2>3 DEF TxInv
<1>2. TxInv /\ [Next]_vars => TxInv'
  BY TypeStep, ChainStep, NonceStep, FinalStep, ConfirmStep DEF TxInv
<1> QED BY <1>1, <1>2, PTL DEF Spec

\* Every variable keeps its type: the cursor stays an account, no chain is above the peak.
THEOREM TypeCorrect == Spec => []TxTypeOK
<1>1. TxInv => TxTypeOK
  BY DEF TxInv
<1> QED BY <1>1, Inductive, PTL

\* No transaction of the wallet waits for a nonce that nobody sent, whatever chain
\* the nodes hold and whatever blocks vanish.
THEOREM NoHoleHolds == Spec => []NoHole
<1>1. TxInv => NoHole
  BY DEF TxInv
<1> QED BY <1>1, Inductive, PTL

\* What Confirm reports was reached; and it is true and final if the node that
\* answered the height of the chain holds the block of the lookup.
THEOREM ConfirmHonestHolds == Spec => []ConfirmHonest
<1>1. TxInv => ConfirmHonest
  BY DEF TxInv
<1> QED BY <1>1, Inductive, PTL

\* Senders with one account and nonce that are all told so by such reads made one
\* transaction: their reports are of blocks of one chain, which mines a nonce once.
THEOREM NonceOnceHolds == Spec => []NonceOnce
<1>1. TxInv => NonceOnce
  <2> SUFFICES ASSUME TxInv, NEW s \in Senders, NEW t \in Senders,
                      pc[s] = "confirmed", pc[t] = "confirmed", ~apart[s], ~apart[t],
                      acct[s] = acct[t], nonce[s] = nonce[t]
               PROVE  Tx(s) = Tx(t)
    BY DEF NonceOnce
  <2> DEFINE m == [tx |-> Tx(s), at |-> height[s]]
             o == [tx |-> Tx(t), at |-> height[t]]
  <2>1. m \in chain.mined /\ o \in chain.mined
    BY DEF TxInv, ConfirmHonest
  <2>2. m.tx.from = o.tx.from /\ m.tx.nonce = o.tx.nonce
    BY DEF Tx
  <2>3. m = o
    BY <2>1, <2>2 DEF TxInv, ChainInv, Sound
  <2> QED BY <2>3
<1> QED BY <1>1, Inductive, PTL

=============================================================================
