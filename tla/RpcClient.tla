----------------------------- MODULE RpcClient ------------------------------
(***************************************************************************)
(* The RPC client of chains/custom over a stream connection: client.go and *)
(* the request side of handler.go.                                         *)
(*                                                                         *)
(* Callers register a request with the dispatch goroutine (which takes the *)
(* write lock), write it on the connection themselves, re-dialling if the  *)
(* previous write failed, and wait.  A read goroutine per connection feeds *)
(* dispatch, which routes the answers, starts a goroutine for every call   *)
(* of the peer, and replaces or closes connections.                        *)
(*                                                                         *)
(* Subscriptions are not part of this module.                              *)
(***************************************************************************)
EXTENDS Integers, FiniteSets

CONSTANTS
    Ops,        \* the requests: one Call, BatchCall or Notify each
    Ids,        \* message ids
    NoOp,       \* the nil *requestOp
    IdsOf,      \* IdsOf[o]: the ids of o; one for Call, none for Notify
    Timed,      \* the requests whose context ends some day
    Procs,      \* calls the peer may make, each served by a goroutine
    Reverse,    \* Reverse[p]: the request that p's method makes, or NoOp
    MaxConns,   \* bound: connections made during a behaviour, the first included
    Closers     \* goroutines that call Close

ASSUME RequestAssumption ==
    /\ NoOp \notin Ops
    /\ IdsOf \in [Ops -> SUBSET Ids]
    /\ \A o \in Ops, q \in Ops : o # q => IdsOf[o] \cap IdsOf[q] = {}
    /\ Timed \subseteq Ops
    /\ Reverse \in [Procs -> Ops \cup {NoOp}]
    /\ \A p, q \in Procs : Reverse[p] = Reverse[q] /\ Reverse[p] # NoOp => p = q
    /\ Ids \cap Procs = {}
    /\ MaxConns \in Nat \ {0}

ASSUME FiniteAssumption == \A o \in Ops : IsFiniteSet(IdsOf[o])

Conns  == 1 .. MaxConns
NoConn == 0

VARIABLES
    \* the callers
    pc,        \* pc[o]: "idle", "send", "write", "handover", "wait", "timeout", "done"
    result,    \* result[o]: "none", "ok", "lost", "timeout", "error", "quit"
    queued,    \* queued[i]: copies of the answer to i in op.resp
    taken,     \* taken[i]: copies of it the caller has received
    count,     \* count[o]: responses received (n of BatchCallContext)
    closedResp,\* the requests whose op.resp is closed and op.err set
    writeConn, \* c.writeConn, NoConn for nil
    dialed,    \* the connection a caller has dialled and not handed over yet
    reqSent,   \* the channel c.reqSent: "empty", "ok" or "err"
    \* the dispatch goroutine
    dpc,       \* "select", "cancel", "calls", "drain", "attach", "dead"
    reason,    \* why it closes the connection: "none", "readErr", "reconnect", "quit"
    lastOp,    \* the request that holds the write lock, NoOp when it is free
    conn,      \* the connection of the current handler
    reading,   \* its read goroutine has not reported an error
    incoming,  \* the connection received from c.reconnected, being attached
    respWait,  \* ids the current handler waits for
    \* connections, their read goroutines, and the peer
    codec,     \* codec[k]: "unused", "open", "closed"
    reader,    \* reader[k]: "none", "reading", "msg", "err", "dead"
    inbox,     \* inbox[k]: what the message read from k holds: ids and calls
    written,   \* written[k]: ids of the requests written on k
    \* call goroutines and Close
    proc,      \* proc[p]: "new", "run", "call", "ended"
    closer,    \* closer[c]: "idle", "closing", "await", "done"
    \* history
    spared     \* requests a lost connection spared because they were in flight

callerVars == <<pc, result, queued, taken, count, closedResp, writeConn, dialed, reqSent>>
dispVars   == <<dpc, reason, lastOp, conn, reading, incoming, respWait>>
connVars   == <<codec, reader, inbox, written>>
vars == <<pc, result, queued, taken, count, closedResp, writeConn, dialed, reqSent,
          dpc, reason, lastOp, conn, reading, incoming, respWait,
          codec, reader, inbox, written, proc, closer, spared>>

Closing  == reason = "quit"    \* c.closing is closed
DidClose == dpc = "dead"       \* c.didClose is closed

\* newClient: the first connection is there, its reader runs, no request yet.
Init ==
    /\ pc = [o \in Ops |-> "idle"]
    /\ result = [o \in Ops |-> "none"]
    /\ queued = [i \in Ids |-> 0]
    /\ taken = [i \in Ids |-> 0]
    /\ count = [o \in Ops |-> 0]
    /\ closedResp = {}
    /\ writeConn = 1
    /\ dialed = NoConn
    /\ reqSent = "empty"
    /\ dpc = "select"
    /\ reason = "none"
    /\ lastOp = NoOp
    /\ conn = 1
    /\ reading = TRUE
    /\ incoming = NoConn
    /\ respWait = {}
    /\ codec = [k \in Conns |-> IF k = 1 THEN "open" ELSE "unused"]
    /\ reader = [k \in Conns |-> IF k = 1 THEN "reading" ELSE "none"]
    /\ inbox = [k \in Conns |-> {}]
    /\ written = [k \in Conns |-> {}]
    /\ proc = [p \in Procs |-> "new"]
    /\ closer = [c \in Closers |-> "idle"]
    /\ spared = {}

-----------------------------------------------------------------------------
(* The callers: send, write, reconnect and op.wait.                        *)

\* A request that some goroutine other than a call of the peer makes.
IsRoot(o) == \A p \in Procs : Reverse[p] # o

Return(o, r) ==
    /\ pc' = [pc EXCEPT ![o] = "done"]
    /\ result' = [result EXCEPT ![o] = r]

\* Call, BatchCall or Notify reaches the select of send.
Begin(o) ==
    /\ IsRoot(o)
    /\ pc[o] = "idle"
    /\ pc' = [pc EXCEPT ![o] = "send"]
    /\ UNCHANGED <<result, queued, taken, count, closedResp, writeConn, dialed, reqSent,
                   proc, closer, spared>>
    /\ UNCHANGED dispVars /\ UNCHANGED connVars

\* Mutant of ReqInit: reqInitLock is not set to nil.
ReqInitUnlocked(o) ==
    /\ dpc = "select"
    /\ pc[o] = "send"
    /\ pc' = [pc EXCEPT ![o] = "write"]
    /\ lastOp' = o
    /\ respWait' = respWait \cup IdsOf[o]
    /\ UNCHANGED <<result, queued, taken, count, closedResp, writeConn, dialed, reqSent,
                   dpc, reason, conn, reading, incoming, proc, closer, spared>>
    /\ UNCHANGED connVars

\* The select of send: dispatch takes the request and with it the write lock ...
ReqInit(o) ==
    /\ dpc = "select"
    /\ lastOp = NoOp
    /\ pc[o] = "send"
    /\ pc' = [pc EXCEPT ![o] = "write"]
    /\ lastOp' = o
    /\ respWait' = respWait \cup IdsOf[o]
    /\ UNCHANGED <<result, queued, taken, count, closedResp, writeConn, dialed, reqSent,
                   dpc, reason, conn, reading, incoming, proc, closer, spared>>
    /\ UNCHANGED connVars

\* ... or the context ends, or the client is closing.
SendGivesUp(o) ==
    /\ pc[o] = "send"
    /\ \/ o \in Timed /\ Return(o, "timeout")
       \/ Closing     /\ Return(o, "quit")
    /\ UNCHANGED <<queued, taken, count, closedResp, writeConn, dialed, reqSent,
                   proc, closer, spared>>
    /\ UNCHANGED dispVars /\ UNCHANGED connVars

\* write with a connection: the message goes out and reqSent signals success.
\* A codec that dispatch has closed refuses it.
WriteOk(o) ==
    /\ pc[o] = "write"
    /\ writeConn # NoConn
    /\ codec[writeConn] = "open"
    /\ written' = [written EXCEPT ![writeConn] = @ \cup IdsOf[o]]
    /\ reqSent' = "ok"
    /\ IF IdsOf[o] = {}
       THEN Return(o, "ok")
       ELSE pc' = [pc EXCEPT ![o] = "wait"] /\ UNCHANGED result
    /\ UNCHANGED <<queued, taken, count, closedResp, writeConn, dialed,
                   codec, reader, inbox, proc, closer, spared>>
    /\ UNCHANGED dispVars

\* The write fails, at any time, also by its deadline: the next one re-dials.
WriteFails(o) ==
    /\ pc[o] = "write"
    /\ writeConn # NoConn
    /\ writeConn' = NoConn
    /\ reqSent' = "err"
    /\ Return(o, "error")
    /\ UNCHANGED <<queued, taken, count, closedResp, dialed, proc, closer, spared>>
    /\ UNCHANGED dispVars /\ UNCHANGED connVars

\* reconnect: the dial fails (or there is no reconnectFunc) ...
DialFails(o) ==
    /\ pc[o] = "write"
    /\ writeConn = NoConn
    /\ reqSent' = "err"
    /\ Return(o, "error")
    /\ UNCHANGED <<queued, taken, count, closedResp, writeConn, dialed,
                   proc, closer, spared>>
    /\ UNCHANGED dispVars /\ UNCHANGED connVars

\* ... or gives a new connection, to be sent on c.reconnected.
DialOk(o) ==
    /\ pc[o] = "write"
    /\ writeConn = NoConn
    /\ \E k \in Conns :
          /\ codec[k] = "unused"
          /\ \A j \in Conns : j < k => codec[j] # "unused"
          /\ codec' = [codec EXCEPT ![k] = "open"]
          /\ dialed' = k
    /\ pc' = [pc EXCEPT ![o] = "handover"]
    /\ UNCHANGED <<result, queued, taken, count, closedResp, writeConn, reqSent,
                   reader, inbox, written, proc, closer, spared>>
    /\ UNCHANGED dispVars

\* Mutant of Reconnected: the old connection is not closed and drained first.
ReconnectedNoDrain(o) ==
    /\ dpc = "select"
    /\ pc[o] = "handover"
    /\ pc' = [pc EXCEPT ![o] = "write"]
    /\ writeConn' = dialed
    /\ incoming' = dialed
    /\ dialed' = NoConn
    /\ dpc' = "attach"
    /\ UNCHANGED <<result, queued, taken, count, closedResp, reqSent,
                   reason, lastOp, conn, reading, respWait, proc, closer, spared>>
    /\ UNCHANGED connVars

\* Dispatch takes the new connection; the caller goes on to write on it while
\* dispatch is still closing the old one.
Reconnected(o) ==
    /\ dpc = "select"
    /\ pc[o] = "handover"
    /\ pc' = [pc EXCEPT ![o] = "write"]
    /\ writeConn' = dialed
    /\ incoming' = dialed
    /\ dialed' = NoConn
    /\ IF reading
       THEN dpc' = "cancel" /\ reason' = "reconnect"
       ELSE dpc' = "attach" /\ UNCHANGED reason
    /\ UNCHANGED <<result, queued, taken, count, closedResp, reqSent,
                   lastOp, conn, reading, respWait, proc, closer, spared>>
    /\ UNCHANGED connVars

\* Mutant of HandoverQuit: newconn.close() is missing.
HandoverQuitLeaks(o) ==
    /\ pc[o] = "handover"
    /\ DidClose
    /\ dialed' = NoConn
    /\ reqSent' = "err"
    /\ Return(o, "quit")
    /\ UNCHANGED <<queued, taken, count, closedResp, writeConn, proc, closer, spared>>
    /\ UNCHANGED dispVars /\ UNCHANGED connVars

\* The client has quit meanwhile: the new connection is closed.
HandoverQuit(o) ==
    /\ pc[o] = "handover"
    /\ DidClose
    /\ codec' = [codec EXCEPT ![dialed] = "closed"]
    /\ dialed' = NoConn
    /\ reqSent' = "err"
    /\ Return(o, "quit")
    /\ UNCHANGED <<queued, taken, count, closedResp, writeConn,
                   reader, inbox, written, proc, closer, spared>>
    /\ UNCHANGED dispVars

\* Mutant of Receive: a closed and empty op.resp counts as a response.
ReceiveClosed(o) ==
    /\ pc[o] = "wait"
    /\ \E i \in IdsOf[o] :
          /\ queued[i] > 0 \/ o \in closedResp
          /\ queued' = [queued EXCEPT ![i] = @ - 1]
          /\ taken' = [taken EXCEPT ![i] = @ + 1]
    /\ count' = [count EXCEPT ![o] = @ + 1]
    /\ IF count'[o] = Cardinality(IdsOf[o])
       THEN Return(o, "ok")
       ELSE UNCHANGED <<pc, result>>
    /\ UNCHANGED <<closedResp, writeConn, dialed, reqSent, proc, closer, spared>>
    /\ UNCHANGED dispVars /\ UNCHANGED connVars

\* Mutant of Receive: the loop of BatchCallContext ends one response early.
ReceiveShort(o) ==
    /\ pc[o] = "wait"
    /\ \E i \in IdsOf[o] :
          /\ queued[i] > 0
          /\ queued' = [queued EXCEPT ![i] = @ - 1]
          /\ taken' = [taken EXCEPT ![i] = @ + 1]
    /\ count' = [count EXCEPT ![o] = @ + 1]
    /\ IF count'[o] >= Cardinality(IdsOf[o]) - 1
       THEN Return(o, "ok")
       ELSE UNCHANGED <<pc, result>>
    /\ UNCHANGED <<closedResp, writeConn, dialed, reqSent, proc, closer, spared>>
    /\ UNCHANGED dispVars /\ UNCHANGED connVars

\* op.wait returns a response; a batch goes on until it has len(b) of them.
Receive(o) ==
    /\ pc[o] = "wait"
    /\ \E i \in IdsOf[o] :
          /\ queued[i] > 0
          /\ queued' = [queued EXCEPT ![i] = @ - 1]
          /\ taken' = [taken EXCEPT ![i] = @ + 1]
    /\ count' = [count EXCEPT ![o] = @ + 1]
    /\ \/ o \in closedResp /\ Return(o, "lost")
       \/ /\ o \notin closedResp
          /\ count'[o] = Cardinality(IdsOf[o])
          /\ Return(o, "ok")
       \/ /\ o \notin closedResp
          /\ count'[o] # Cardinality(IdsOf[o])
          /\ UNCHANGED <<pc, result>>
    /\ UNCHANGED <<closedResp, writeConn, dialed, reqSent, proc, closer, spared>>
    /\ UNCHANGED dispVars /\ UNCHANGED connVars

\* op.resp is closed and empty: op.wait returns op.err.
Lost(o) ==
    /\ pc[o] = "wait"
    /\ o \in closedResp
    /\ \A i \in IdsOf[o] : queued[i] = 0
    /\ Return(o, "lost")
    /\ UNCHANGED <<queued, taken, count, closedResp, writeConn, dialed, reqSent,
                   proc, closer, spared>>
    /\ UNCHANGED dispVars /\ UNCHANGED connVars

\* The context of op.wait ends: the caller offers its request on c.reqTimeout ...
Timeout(o) ==
    /\ pc[o] = "wait"
    /\ o \in Timed
    /\ pc' = [pc EXCEPT ![o] = "timeout"]
    /\ UNCHANGED <<result, queued, taken, count, closedResp, writeConn, dialed, reqSent,
                   proc, closer, spared>>
    /\ UNCHANGED dispVars /\ UNCHANGED connVars

\* ... until dispatch takes it and forgets its ids, or the client is closing.
ReqTimeout(o) ==
    /\ dpc = "select"
    /\ pc[o] = "timeout"
    /\ Return(o, "timeout")
    /\ respWait' = respWait \ IdsOf[o]
    /\ UNCHANGED <<queued, taken, count, closedResp, writeConn, dialed, reqSent,
                   dpc, reason, lastOp, conn, reading, incoming, proc, closer, spared>>
    /\ UNCHANGED connVars

\* Mutant of TimeoutQuit: op.wait does not listen to c.closing.
TimeoutQuitMissing(o) == pc[o] = "timeout" /\ FALSE /\ UNCHANGED vars

TimeoutQuit(o) ==
    /\ pc[o] = "timeout"
    /\ Closing
    /\ Return(o, "timeout")
    /\ UNCHANGED <<queued, taken, count, closedResp, writeConn, dialed, reqSent,
                   proc, closer, spared>>
    /\ UNCHANGED dispVars /\ UNCHANGED connVars

-----------------------------------------------------------------------------
(* The peer and the read goroutines.                                       *)

\* The next message on k: answers to requests written on it, late and repeated
\* ones too, as one response or as an array, and at most one call of the peer
\* (the calls of one array share a goroutine).
\* What the decoder still holds when its codec is closed is left out: the reader
\* of a closed codec only meets drainRead, which drops messages.
Read(k) ==
    /\ reader[k] = "reading"
    /\ codec[k] = "open"
    /\ \E M \in SUBSET (written[k] \cup {p \in Procs : proc[p] = "new"}) :
          /\ M # {}
          /\ \A p, q \in M \cap Procs : p = q
          /\ inbox' = [inbox EXCEPT ![k] = M]
    /\ reader' = [reader EXCEPT ![k] = "msg"]
    /\ UNCHANGED <<codec, written, proc, closer, spared>>
    /\ UNCHANGED callerVars /\ UNCHANGED dispVars

\* readBatch fails: the peer hung up, sent bad JSON, or the codec is closed.
ReadFails(k) ==
    /\ reader[k] = "reading"
    /\ reader' = [reader EXCEPT ![k] = "err"]
    /\ UNCHANGED <<codec, inbox, written, proc, closer, spared>>
    /\ UNCHANGED callerVars /\ UNCHANGED dispVars

-----------------------------------------------------------------------------
(* The dispatch goroutine: the cases of its select (ReqInit, Reconnected   *)
(* and ReqTimeout are above, with the caller each meets).                  *)

\* Mutant of Handle: the id stays in respWait.
HandleKeepsWaiting(k) ==
    /\ dpc = "select"
    /\ reader[k] = "msg"
    /\ queued' = [i \in Ids |-> IF i \in inbox[k] \cap respWait
                                THEN queued[i] + 1 ELSE queued[i]]
    /\ proc' = [p \in Procs |-> IF p \in inbox[k] THEN "run" ELSE proc[p]]
    /\ reader' = [reader EXCEPT ![k] = "reading"]
    /\ inbox' = [inbox EXCEPT ![k] = {}]
    /\ UNCHANGED <<pc, result, taken, count, closedResp, writeConn, dialed, reqSent,
                   dpc, reason, lastOp, conn, reading, incoming, respWait, codec, written,
                   closer, spared>>

\* A message: every answer that is waited for goes to its request, once; then
\* the peer's call, if any, gets a goroutine.
Handle(k) ==
    /\ dpc = "select"
    /\ reader[k] = "msg"
    /\ LET hits == inbox[k] \cap respWait IN
          /\ queued' = [i \in Ids |-> IF i \in hits THEN queued[i] + 1 ELSE queued[i]]
          /\ respWait' = respWait \ hits
    /\ proc' = [p \in Procs |-> IF p \in inbox[k] THEN "run" ELSE proc[p]]
    /\ reader' = [reader EXCEPT ![k] = "reading"]
    /\ inbox' = [inbox EXCEPT ![k] = {}]
    /\ UNCHANGED <<pc, result, taken, count, closedResp, writeConn, dialed, reqSent,
                   dpc, reason, lastOp, conn, reading, incoming, codec, written,
                   closer, spared>>

\* A read error starts conn.close(err, lastOp).
ReadErr(k) ==
    /\ dpc = "select"
    /\ reader[k] = "err"
    /\ reader' = [reader EXCEPT ![k] = "dead"]
    /\ dpc' = "cancel"
    /\ reason' = "readErr"
    /\ UNCHANGED <<lastOp, conn, reading, incoming, respWait, codec, inbox, written,
                   proc, closer, spared>>
    /\ UNCHANGED callerVars

\* Mutant of ReqSent: after a failed write the lock is kept.
ReqSentKeepsLock ==
    /\ dpc = "select"
    /\ reqSent # "empty"
    /\ respWait' = IF reqSent = "err" THEN respWait \ IdsOf[lastOp] ELSE respWait
    /\ lastOp' = IF reqSent = "err" THEN lastOp ELSE NoOp
    /\ reqSent' = "empty"
    /\ UNCHANGED <<pc, result, queued, taken, count, closedResp, writeConn, dialed,
                   dpc, reason, conn, reading, incoming, proc, closer, spared>>
    /\ UNCHANGED connVars

\* The write lock comes back; a failed write deregisters its request.
ReqSent ==
    /\ dpc = "select"
    /\ reqSent # "empty"
    /\ respWait' = IF reqSent = "err" THEN respWait \ IdsOf[lastOp] ELSE respWait
    /\ reqSent' = "empty"
    /\ lastOp' = NoOp
    /\ UNCHANGED <<pc, result, queued, taken, count, closedResp, writeConn, dialed,
                   dpc, reason, conn, reading, incoming, proc, closer, spared>>
    /\ UNCHANGED connVars

\* Close: dispatch leaves its loop and closes c.closing.
CloseTaken(c) ==
    /\ dpc = "select"
    /\ closer[c] = "closing"
    /\ closer' = [closer EXCEPT ![c] = "await"]
    /\ reason' = "quit"
    /\ dpc' = IF reading THEN "cancel" ELSE "dead"
    /\ UNCHANGED <<lastOp, conn, reading, incoming, respWait, proc, spared>>
    /\ UNCHANGED callerVars /\ UNCHANGED connVars

-----------------------------------------------------------------------------
(* conn.close, drainRead and what follows them.                            *)

\* Mutant of Inflight: the request in flight is spared by Close, too.
InflightAlways == IF lastOp = NoOp THEN {} ELSE {lastOp}

\* The request conn.close leaves alone: lastOp, but nobody when quitting.
Inflight == IF Closing \/ lastOp = NoOp THEN {} ELSE {lastOp}

\* cancelAllRequests: every id is dropped, every request but the one in flight
\* gets its error and its channel closed.
Cancel ==
    /\ dpc = "cancel"
    /\ closedResp' = closedResp \cup
          {o \in Ops : IdsOf[o] \cap respWait # {} /\ o \notin Inflight}
    /\ respWait' = {}
    /\ dpc' = "calls"
    /\ spared' = IF reason = "readErr" THEN spared \cup Inflight ELSE spared
    /\ UNCHANGED <<pc, result, queued, taken, count, writeConn, dialed, reqSent,
                   reason, lastOp, conn, reading, incoming, proc, closer>>
    /\ UNCHANGED connVars

\* Mutant of CallsDone: a read error does not reset "reading".
CallsDoneStillReading ==
    /\ dpc = "calls"
    /\ \A p \in Procs : proc[p] \in {"new", "ended"}
    /\ codec' = [codec EXCEPT ![conn] = "closed"]
    /\ IF reason = "readErr"
       THEN dpc' = "select" /\ reason' = "none"
       ELSE dpc' = "drain" /\ UNCHANGED reason
    /\ UNCHANGED <<lastOp, conn, reading, incoming, respWait, reader, inbox, written,
                   proc, closer, spared>>
    /\ UNCHANGED callerVars

\* Mutant of CallsDone: a read error is drained, too.
CallsDoneDrains ==
    /\ dpc = "calls"
    /\ \A p \in Procs : proc[p] \in {"new", "ended"}
    /\ codec' = [codec EXCEPT ![conn] = "closed"]
    /\ dpc' = "drain"
    /\ UNCHANGED <<reason, lastOp, conn, reading, incoming, respWait, reader, inbox, written,
                   proc, closer, spared>>
    /\ UNCHANGED callerVars

\* callWG.Wait returns once no call goroutine runs; then the codec is closed.
CallsDone ==
    /\ dpc = "calls"
    /\ \A p \in Procs : proc[p] \in {"new", "ended"}
    /\ codec' = [codec EXCEPT ![conn] = "closed"]
    /\ IF reason = "readErr"
       THEN dpc' = "select" /\ reading' = FALSE /\ reason' = "none"
       ELSE dpc' = "drain" /\ UNCHANGED <<reading, reason>>
    /\ UNCHANGED <<lastOp, conn, incoming, respWait, reader, inbox, written,
                   proc, closer, spared>>
    /\ UNCHANGED callerVars

\* drainRead drops a message ...
DrainMsg(k) ==
    /\ dpc = "drain"
    /\ reader[k] = "msg"
    /\ reader' = [reader EXCEPT ![k] = "reading"]
    /\ inbox' = [inbox EXCEPT ![k] = {}]
    /\ UNCHANGED <<codec, written, proc, closer, spared>>
    /\ UNCHANGED callerVars /\ UNCHANGED dispVars

\* ... and ends with the reader: dispatch quits or attaches the new connection.
DrainErr(k) ==
    /\ dpc = "drain"
    /\ reader[k] = "err"
    /\ reader' = [reader EXCEPT ![k] = "dead"]
    /\ dpc' = IF Closing THEN "dead" ELSE "attach"
    /\ UNCHANGED <<reason, lastOp, conn, reading, incoming, respWait,
                   codec, inbox, written, proc, closer, spared>>
    /\ UNCHANGED callerVars

\* Mutant of Attach: the request in flight is not re-registered.
AttachForgets ==
    /\ dpc = "attach"
    /\ conn' = incoming
    /\ incoming' = NoConn
    /\ reader' = [reader EXCEPT ![incoming] = "reading"]
    /\ reading' = TRUE
    /\ respWait' = {}
    /\ spared' = spared \ {lastOp}
    /\ dpc' = "select"
    /\ reason' = "none"
    /\ UNCHANGED <<lastOp, codec, inbox, written, proc, closer>>
    /\ UNCHANGED callerVars

\* The new connection gets a reader and a handler, which waits for the request
\* in flight, because that is where it is being written.
Attach ==
    /\ dpc = "attach"
    /\ conn' = incoming
    /\ incoming' = NoConn
    /\ reader' = [reader EXCEPT ![incoming] = "reading"]
    /\ reading' = TRUE
    /\ respWait' = IdsOf[lastOp]
    /\ spared' = spared \ {lastOp}
    /\ dpc' = "select"
    /\ reason' = "none"
    /\ UNCHANGED <<lastOp, codec, inbox, written, proc, closer>>
    /\ UNCHANGED callerVars

-----------------------------------------------------------------------------
(* Call goroutines and Close.                                              *)

\* The method run for the peer's call makes a request on the same client.
ReverseCall(p) ==
    /\ proc[p] = "run"
    /\ Reverse[p] # NoOp
    /\ pc[Reverse[p]] = "idle"       \* a request of its own
    /\ proc' = [proc EXCEPT ![p] = "call"]
    /\ pc' = [pc EXCEPT ![Reverse[p]] = "send"]
    /\ UNCHANGED <<result, queued, taken, count, closedResp, writeConn, dialed, reqSent,
                   closer, spared>>
    /\ UNCHANGED dispVars /\ UNCHANGED connVars

\* The method returns, its answer is written (or refused) and callWG.Done runs.
ProcEnd(p) ==
    /\ \/ proc[p] = "run" /\ Reverse[p] = NoOp
       \/ proc[p] = "call" /\ pc[Reverse[p]] = "done"
    /\ proc' = [proc EXCEPT ![p] = "ended"]
    /\ UNCHANGED <<closer, spared>>
    /\ UNCHANGED callerVars /\ UNCHANGED dispVars /\ UNCHANGED connVars

\* Close offers on c.close, and returns when dispatch is gone.
CloseBegin(c) ==
    /\ closer[c] = "idle"
    /\ closer' = [closer EXCEPT ![c] = "closing"]
    /\ UNCHANGED <<proc, spared>>
    /\ UNCHANGED callerVars /\ UNCHANGED dispVars /\ UNCHANGED connVars

CloseEnd(c) ==
    /\ closer[c] \in {"closing", "await"}
    /\ DidClose
    /\ closer' = [closer EXCEPT ![c] = "done"]
    /\ UNCHANGED <<proc, spared>>
    /\ UNCHANGED callerVars /\ UNCHANGED dispVars /\ UNCHANGED connVars

-----------------------------------------------------------------------------
\* What a caller does by itself, and what it does together with dispatch.
CallerStep(o) ==
    \/ SendGivesUp(o)
    \/ WriteOk(o) \/ WriteFails(o)
    \/ DialFails(o) \/ DialOk(o)
    \/ HandoverQuit(o)
    \/ Receive(o) \/ Lost(o)
    \/ Timeout(o) \/ TimeoutQuit(o)

RequestStep(o) == CallerStep(o) \/ ReqInit(o) \/ Reconnected(o) \/ ReqTimeout(o)

\* The steps of conn.close and of what follows it.
CloseStep == Cancel \/ CallsDone \/ Attach \/ \E k \in Conns : DrainMsg(k) \/ DrainErr(k)

Next ==
    \/ \E o \in Ops : Begin(o) \/ RequestStep(o)
    \/ \E k \in Conns : Read(k) \/ ReadFails(k) \/ Handle(k) \/ ReadErr(k)
    \/ ReqSent
    \/ CloseStep
    \/ \E p \in Procs : ReverseCall(p) \/ ProcEnd(p)
    \/ \E c \in Closers : CloseBegin(c) \/ CloseTaken(c) \/ CloseEnd(c)

Spec == Init /\ [][Next]_vars

(***************************************************************************)
(* Fairness.  Every goroutine that can go on does: a request whose caller  *)
(* or whose meeting with dispatch is possible moves on, so a context that  *)
(* can end ends unless an answer comes first; a write or a dial in         *)
(* progress returns (both have deadlines); a reader whose codec is closed  *)
(* gets an error; a method without a reverse call returns.  Dispatch takes *)
(* a case of its select that stays ready: Go picks among the ready ones at *)
(* random, which is even strongly fair.  The peer owes nothing: there is   *)
(* no fairness for Read, nor for ReadFails on an open connection.          *)
(***************************************************************************)
Fairness ==
    /\ \A o \in Ops : WF_vars(RequestStep(o))
    /\ WF_vars(\E k \in Conns : Handle(k) \/ ReadErr(k))
    /\ WF_vars(\E k \in Conns : codec[k] = "closed" /\ ReadFails(k))
    /\ WF_vars(ReqSent)
    /\ WF_vars(CloseStep)
    /\ \A p \in Procs : WF_vars(ReverseCall(p) \/ ProcEnd(p))
    /\ \A c \in Closers : WF_vars(CloseTaken(c) \/ CloseEnd(c))

FairSpec == Spec /\ Fairness

-----------------------------------------------------------------------------
(* Type invariant.                                                         *)

\* The values every variable of the client ranges over.
TypeOK ==
    /\ pc \in [Ops -> {"idle", "send", "write", "handover", "wait", "timeout", "done"}]
    /\ result \in [Ops -> {"none", "ok", "lost", "timeout", "error", "quit"}]
    /\ queued \in [Ids -> Nat]
    /\ taken \in [Ids -> Nat]
    /\ count \in [Ops -> Nat]
    /\ closedResp \subseteq Ops
    /\ writeConn \in Conns \cup {NoConn}
    /\ dialed \in Conns \cup {NoConn}
    /\ reqSent \in {"empty", "ok", "err"}
    /\ dpc \in {"select", "cancel", "calls", "drain", "attach", "dead"}
    /\ reason \in {"none", "readErr", "reconnect", "quit"}
    /\ lastOp \in Ops \cup {NoOp}
    /\ conn \in Conns
    /\ reading \in BOOLEAN
    /\ incoming \in Conns \cup {NoConn}
    /\ respWait \subseteq Ids
    /\ codec \in [Conns -> {"unused", "open", "closed"}]
    /\ reader \in [Conns -> {"none", "reading", "msg", "err", "dead"}]
    /\ inbox \in [Conns -> SUBSET (Ids \cup Procs)]
    /\ written \in [Conns -> SUBSET Ids]
    /\ proc \in [Procs -> {"new", "run", "call", "ended"}]
    /\ closer \in [Closers -> {"idle", "closing", "await", "done"}]
    /\ spared \subseteq Ops

-----------------------------------------------------------------------------
(* Safety.                                                                 *)

\* writeConn is touched by one goroutine at a time, the one whose request is
\* lastOp; c.reqSent has room when it reports, and dispatch never dereferences
\* a nil lastOp when a report or a new connection arrives.  The lock is never
\* orphaned: while it is taken its holder is writing, or its report is there.
WriteLock ==
    /\ \A o \in Ops : pc[o] \in {"write", "handover"} => lastOp = o /\ reqSent = "empty"
    /\ lastOp # NoOp => pc[lastOp] \in {"write", "handover"} \/ reqSent # "empty"
    /\ reqSent # "empty" => lastOp # NoOp
    /\ dpc = "attach" \/ reason = "reconnect" => lastOp # NoOp /\ incoming # NoConn
    /\ dialed # NoConn <=> \E o \in Ops : pc[o] = "handover"

\* An id that is waited for was never answered, so the buffered op.resp has
\* room and dispatch is not blocked by an answer that comes twice or late; and
\* its request's channel is open, so no answer and no second cancellation hits
\* a closed channel.
RespHasRoom ==
    \A o \in Ops : \A i \in IdsOf[o] :
        /\ queued[i] + taken[i] <= 1
        /\ i \in respWait => queued[i] = 0 /\ taken[i] = 0 /\ o \notin closedResp

\* A batch returns without an error only with one response for each element:
\* repeated answers never stand in for a missing one.
ExactAnswers ==
    \A o \in Ops : result[o] = "ok" => \A i \in IdsOf[o] : taken[i] = 1

\* Only the current connection is read, so no message of an old connection
\* reaches the handler of a new one; and drainRead always has a reader to wait
\* for, whichever way the connection was lost.
OneReader ==
    /\ \A k \in Conns : reader[k] \in {"reading", "msg", "err"} => k = conn
    /\ reading /\ dpc \in {"select", "drain"} => reader[conn] \in {"reading", "msg", "err"}

\* Whoever waits for a response can still get it or be told: each missing id is
\* waited for on a connection that is read, or will be when the new connection
\* is attached.  The exception is a request that was in flight when a read
\* error closed its connection (see CloseAborts).
WaitersTracked ==
    \A o \in Ops :
        pc[o] = "wait" /\ o \notin closedResp /\ o \notin spared =>
            \/ incoming # NoConn /\ o = lastOp
            \/ \A i \in IdsOf[o] :
                  taken[i] + queued[i] = 1 \/ (reading /\ i \in respWait)

\* A client that has quit leaves no connection open, wherever the callers were
\* in dialling, handing over and writing.
NoLeakedConn ==
    DidClose /\ dialed = NoConn => \A k \in Conns : codec[k] # "open"

\* How the state of the client looks to its callers and to the peer.
Phases     == [o \in Ops |-> IF pc[o] \in {"idle", "done"} THEN pc[o] ELSE "open"]
SentOps    == {o \in Ops : IF IdsOf[o] = {} THEN result[o] = "ok"
                          ELSE \E k \in Conns : IdsOf[o] \subseteq written[k]}
ArrivedIds == {i \in Ids : queued[i] + taken[i] > 0}
ClientNow  == IF ~Closing THEN "serving" ELSE IF ~DidClose THEN "closing" ELSE "gone"

Contract == INSTANCE RpcContract
              WITH phase <- Phases, sent <- SentOps,
                   arrived <- ArrivedIds, cut <- closedResp, client <- ClientNow

\* Callers and the peer get what RpcContract promises: a request goes out at most
\* once, over whichever connection, and not after Close; a batch succeeds only
\* with an answer for every element, each from the peer, in time and counted
\* once; and a call that says the request was not sent has not sent it.
ContractKept == Contract!ContractSpec

\* client.go:258: Close closes the client, aborting any in-flight requests.
CloseAborts ==
    \A o \in Ops :
        DidClose /\ pc[o] = "wait" =>
            o \in closedResp \/ \A i \in IdsOf[o] : taken[i] + queued[i] = 1

\* What is true of that comment: after Close everybody who waits is told, the
\* requests excepted that a read error spared.  It follows from WaitersTracked.
CloseAbortsRest ==
    \A o \in Ops :
        DidClose /\ pc[o] = "wait" /\ o \notin spared =>
            o \in closedResp \/ \A i \in IdsOf[o] : taken[i] + queued[i] = 1

-----------------------------------------------------------------------------
(* Inductive strengthening of the safety invariants, in named parts.       *)

\* What dispatch is in the middle of, and why.
PhaseInv ==
    /\ dpc = "select" => reason = "none"
    /\ incoming # NoConn => dpc = "attach" \/ reason = "reconnect"
    /\ dpc \in {"cancel", "calls"} => reason \in {"readErr", "reconnect", "quit"}
    /\ dpc = "drain" => reason \in {"reconnect", "quit"}
    /\ dpc = "attach" => reason \in {"none", "reconnect"}
    /\ dpc = "dead" => reason = "quit"

\* A reader is alive exactly while it is on the current connection and has not
\* reported its error; dispatch forgets neither.
ReaderInv ==
    /\ \A k \in Conns : reader[k] \in {"reading", "msg", "err"} => k = conn
    /\ reader[conn] \in {"reading", "msg", "err"}
         <=> reading /\ reason # "readErr" /\ dpc \notin {"attach", "dead"}

Unanswered(o) == \A i \in IdsOf[o] : queued[i] = 0 /\ taken[i] = 0

\* A request is answered, or cancelled, only after it was registered, and
\* answered only after it was written.
FreshInv ==
    /\ \A k \in Conns : inbox[k] \cap Ids \subseteq written[k]
    /\ \A o \in Ops :
          /\ pc[o] \in {"idle", "send"} =>
                /\ IdsOf[o] \cap respWait = {}
                /\ o \notin closedResp
          /\ pc[o] \in {"idle", "send", "write", "handover"} =>
                /\ Unanswered(o)
                /\ \A k \in Conns : IdsOf[o] \cap written[k] = {}
          /\ o \in closedResp /\ pc[o] \in {"write", "handover"} => Closing
    /\ lastOp # NoOp => pc[lastOp] \notin {"idle", "send"}
    /\ incoming # NoConn => Unanswered(lastOp) /\ (lastOp \in closedResp => Closing)

\* count is the number of ids answered, so only full batches end with "ok".
Answered(o) == {i \in IdsOf[o] : taken[i] = 1}

CountInv ==
    \A o \in Ops :
        /\ count[o] = Cardinality(Answered(o))
        /\ result[o] = "ok" => pc[o] = "done" /\ Answered(o) = IdsOf[o]

\* Every open connection is somebody's to close, and the one of the current
\* handler is closed once its reader is gone or dispatch is past conn.close.
CodecInv ==
    /\ \A k \in Conns : codec[k] = "open" => k \in {conn, dialed, incoming}
    /\ ~reading \/ dpc \in {"drain", "attach", "dead"} => codec[conn] = "closed"

\* What WaitersTracked needs of the requests that are not written yet, and of
\* the handler between cancelAllRequests and the next connection.
TrackInv ==
    /\ \A o \in Ops :
          pc[o] \in {"write", "handover"} /\ o \notin closedResp /\ o \notin spared
          /\ reading /\ incoming = NoConn => IdsOf[o] \subseteq respWait
    /\ dpc \in {"calls", "drain"} => respWait = {}
    /\ dpc = "dead" /\ reading => respWait = {}
    /\ dpc = "attach" /\ reading => respWait = {}
    /\ reqSent = "err" => pc[lastOp] = "done"

\* Who waits has sent its request; a write that failed has not sent it.
SentInv ==
    /\ \A o \in Ops :
          /\ result[o] # "none" => pc[o] = "done"
          /\ pc[o] \in {"wait", "timeout"} => o \in SentOps
          /\ pc[o] = "timeout" => o \in Timed
    /\ reqSent = "err" => \A k \in Conns : IdsOf[lastOp] \cap written[k] = {}

\* Dispatch expects no answer for a call that has returned, but until it takes
\* the report of a failed write.
AwaitInv ==
    /\ respWait \subseteq UNION {IdsOf[o] : o \in Ops}
    /\ \A o \in Ops : pc[o] = "done" /\ ~Closing =>
          IdsOf[o] \cap respWait = {} \/ (o = lastOp /\ reqSent = "err")
    /\ incoming # NoConn /\ ~Closing /\ pc[lastOp] = "done" =>
          IdsOf[lastOp] = {} \/ reqSent = "err"

-----------------------------------------------------------------------------
(* Liveness, when no method makes a reverse call.                          *)

\* A call with a deadline returns, whatever the peer and the connections do.
TimedReturns == \A o \in Timed : pc[o] = "send" ~> pc[o] = "done"

\* Close returns.
CloseReturns == \A c \in Closers : closer[c] = "closing" ~> closer[c] = "done"

\* After Close every call returns, the spared ones excepted.
QuitWakesCallers ==
    \A o \in Ops : DidClose /\ pc[o] # "idle" ~> pc[o] = "done" \/ o \in spared

\* The write lock comes back: dispatch is not stuck with a dead lastOp.
LockComesBack == \A o \in Ops : lastOp = o ~> lastOp # o \/ DidClose

\* handler.go:31: message handling never blocks indefinitely, because the calls
\* of the peer run on goroutines of their own: dispatch comes back to its select.
DispatchComesBack == dpc # "select" ~> dpc \in {"select", "dead"}

=============================================================================
