------------------------- MODULE RpcContractProofs --------------------------
(***************************************************************************)
(* RpcClient implements RpcContract, for any requests, calls of the peer,  *)
(* reconnections and goroutines that call Close.                           *)
(***************************************************************************)
EXTENDS RpcClientProofs

-----------------------------------------------------------------------------
(* What was sent.                                                          *)

\* An empty request and one with ids are sent in different ways.
LEMMA SentIs ==
    ASSUME NEW o \in Ops
    PROVE  /\ IdsOf[o] = {} => (o \in SentOps <=> result[o] = "ok")
           /\ IdsOf[o] # {} => (o \in SentOps <=> \E k \in Conns : IdsOf[o] \subseteq written[k])
BY DEF SentOps

\* A step that writes nothing and lets no Notify succeed sends nothing.
LEMMA NothingSent ==
    ASSUME written' = written,
           \A o \in Ops : IdsOf[o] = {} => (result'[o] = "ok" <=> result[o] = "ok")
    PROVE  SentOps' = SentOps
BY DEF SentOps

\* WriteOk sends its request and no other.
LEMMA WriteSends ==
    ASSUME TypeOK, WriteLock, FreshInv, SentInv, NEW o \in Ops, WriteOk(o)
    PROVE  o \notin SentOps /\ SentOps' = SentOps \cup {o}
<1> USE DEF TypeOK
<1>1. /\ pc[o] = "write" /\ writeConn \in Conns
      /\ written' = [written EXCEPT ![writeConn] = @ \cup IdsOf[o]]
      /\ IF IdsOf[o] = {} THEN result' = [result EXCEPT ![o] = "ok"] ELSE result' = result
  BY ConnFacts DEF WriteOk, Return
<1>2. result[o] = "none" /\ \A k \in Conns : IdsOf[o] \cap written[k] = {}
  BY <1>1 DEF SentInv, FreshInv
<1>3. o \notin SentOps
  BY <1>2, SentIs
<1>4. o \in SentOps'
  <2>1. IdsOf[o] \subseteq written'[writeConn]
    BY <1>1
  <2> QED BY <1>1, <2>1 DEF SentOps
<1>5. ASSUME NEW q \in Ops, q # o PROVE q \in SentOps' <=> q \in SentOps
  <2>1. result'[q] = result[q]
    BY <1>1, <1>5
  <2>2. CASE IdsOf[q] = {}
    BY <2>1, <2>2 DEF SentOps
  <2>3. CASE IdsOf[q] # {}
    <3>1. IdsOf[q] \cap IdsOf[o] = {}
      BY <1>5, RequestAssumption
    <3>2. \A k \in Conns : IdsOf[q] \subseteq written'[k] <=> IdsOf[q] \subseteq written[k]
      BY <1>1, <3>1
    <3> QED BY <2>3, <3>2 DEF SentOps
  <2> QED BY <2>2, <2>3
<1>6. SentOps \subseteq Ops /\ SentOps' \subseteq Ops
  BY DEF SentOps
<1> QED BY <1>3, <1>4, <1>5, <1>6

\* No other step sends anything.
LEMMA OthersSendNothing ==
    ASSUME TypeOK, SentInv, CountInv, RespHasRoom, [Next]_vars, \A o \in Ops : ~WriteOk(o)
    PROVE  SentOps' = SentOps
<1> USE DEF TypeOK, callerVars, dispVars, connVars
<1>1. ASSUME NEW o \in Ops, Begin(o) PROVE SentOps' = SentOps
  BY <1>1, NothingSent DEF Begin
<1>2. ASSUME NEW o \in Ops, NEW r \in {"lost", "timeout", "error", "quit"},
             Return(o, r), pc[o] # "done", written' = written
      PROVE  SentOps' = SentOps
  BY <1>2, NothingSent DEF Return, SentInv
<1>3. ASSUME NEW o \in Ops, SendGivesUp(o) PROVE SentOps' = SentOps
  BY <1>2, <1>3 DEF SendGivesUp
<1>4. ASSUME NEW o \in Ops, WriteFails(o) PROVE SentOps' = SentOps
  BY <1>2, <1>4 DEF WriteFails
<1>5. ASSUME NEW o \in Ops, DialFails(o) PROVE SentOps' = SentOps
  BY <1>2, <1>5 DEF DialFails
<1>6. ASSUME NEW o \in Ops, HandoverQuit(o) PROVE SentOps' = SentOps
  BY <1>2, <1>6 DEF HandoverQuit
<1>7. ASSUME NEW o \in Ops, Lost(o) PROVE SentOps' = SentOps
  BY <1>2, <1>7 DEF Lost
<1>8. ASSUME NEW o \in Ops, ReqTimeout(o) PROVE SentOps' = SentOps
  BY <1>2, <1>8 DEF ReqTimeout
<1>9. ASSUME NEW o \in Ops, TimeoutQuit(o) PROVE SentOps' = SentOps
  BY <1>2, <1>9 DEF TimeoutQuit
<1>10. ASSUME NEW o \in Ops, Receive(o) PROVE SentOps' = SentOps
  <2>1. IdsOf[o] # {} /\ written' = written /\ \A q \in Ops : q # o => result'[q] = result[q]
    BY <1>10 DEF Receive, Return
  <2> QED BY <2>1, NothingSent
<1>11. ASSUME NEW o \in Ops,
              ReqInit(o) \/ DialOk(o) \/ Reconnected(o) \/ Timeout(o)
       PROVE  SentOps' = SentOps
  BY <1>11, NothingSent DEF ReqInit, DialOk, Reconnected, Timeout
<1>12. ASSUME NEW k \in Conns,
              Read(k) \/ ReadFails(k) \/ Handle(k) \/ ReadErr(k) \/ DrainMsg(k) \/ DrainErr(k)
       PROVE  SentOps' = SentOps
  BY <1>12, NothingSent DEF Read, ReadFails, Handle, ReadErr, DrainMsg, DrainErr
<1>13. ASSUME ReqSent \/ Cancel \/ CallsDone \/ Attach \/ UNCHANGED vars
       PROVE  SentOps' = SentOps
  BY <1>13, NothingSent DEF ReqSent, Cancel, CallsDone, Attach, vars
<1>14. ASSUME NEW p \in Procs, ReverseCall(p) \/ ProcEnd(p) PROVE SentOps' = SentOps
  BY <1>14, NothingSent DEF ReverseCall, ProcEnd
<1>15. ASSUME NEW c \in Closers, CloseBegin(c) \/ CloseTaken(c) \/ CloseEnd(c)
       PROVE  SentOps' = SentOps
  BY <1>15, NothingSent DEF CloseBegin, CloseTaken, CloseEnd
<1> QED
  BY <1>1, <1>3, <1>4, <1>5, <1>6, <1>7, <1>8, <1>9, <1>10, <1>11, <1>12, <1>13, <1>14, <1>15
     DEF Next, RequestStep, CallerStep, CloseStep

LEMMA SentGrows ==
    ASSUME TypeOK, WriteLock, FreshInv, SentInv, CountInv, RespHasRoom, [Next]_vars
    PROVE  SentOps \subseteq SentOps'
BY WriteSends, OthersSendNothing

\* A call that has returned keeps its result; who starts to wait has sent.
LEMMA SentStep ==
    ASSUME TypeOK, WriteLock, PhaseInv, FreshInv, SentInv, CountInv, RespHasRoom, [Next]_vars
    PROVE  SentInv'
<1> USE DEF TypeOK, SentInv, callerVars, dispVars, connVars
<1> USE SentGrows
<1>1. ASSUME NEW o \in Ops, Begin(o) \/ ReqInit(o) \/ DialOk(o) \/ Reconnected(o) PROVE SentInv'
  BY <1>1 DEF Begin, ReqInit, DialOk, Reconnected, WriteLock
<1>2. ASSUME NEW o \in Ops, SendGivesUp(o) \/ Lost(o) \/ ReqTimeout(o) \/ TimeoutQuit(o)
      PROVE  SentInv'
  BY <1>2 DEF SendGivesUp, Lost, ReqTimeout, TimeoutQuit, Return
<1>3. ASSUME NEW o \in Ops, WriteFails(o) \/ DialFails(o) \/ HandoverQuit(o) PROVE SentInv'
  BY <1>3 DEF WriteFails, DialFails, HandoverQuit, Return, WriteLock, FreshInv
<1>4. ASSUME NEW o \in Ops, WriteOk(o) PROVE SentInv'
  <2>1. o \in SentOps'
    BY <1>4, WriteSends
  <2> QED BY <1>4, <2>1 DEF WriteOk, Return
<1>5. ASSUME NEW o \in Ops, Receive(o) PROVE SentInv'
  BY <1>5 DEF Receive, Return
<1>6. ASSUME NEW o \in Ops, Timeout(o) PROVE SentInv'
  BY <1>6 DEF Timeout
<1>7. ASSUME NEW k \in Conns,
             Read(k) \/ ReadFails(k) \/ Handle(k) \/ ReadErr(k) \/ DrainMsg(k) \/ DrainErr(k)
      PROVE  SentInv'
  BY <1>7 DEF Read, ReadFails, Handle, ReadErr, DrainMsg, DrainErr
<1>8. ASSUME ReqSent \/ Cancel \/ CallsDone \/ Attach \/ UNCHANGED vars PROVE SentInv'
  BY <1>8 DEF ReqSent, Cancel, CallsDone, Attach, vars
<1>9. ASSUME NEW p \in Procs, ReverseCall(p) \/ ProcEnd(p) PROVE SentInv'
  BY <1>9 DEF ReverseCall, ProcEnd
<1>10. ASSUME NEW c \in Closers, CloseBegin(c) \/ CloseTaken(c) \/ CloseEnd(c) PROVE SentInv'
  BY <1>10 DEF CloseBegin, CloseTaken, CloseEnd
<1> QED
  BY <1>1, <1>2, <1>3, <1>4, <1>5, <1>6, <1>7, <1>8, <1>9, <1>10
     DEF Next, RequestStep, CallerStep, CloseStep

-----------------------------------------------------------------------------
(* What is awaited.                                                        *)

LEMMA AwaitStep ==
    ASSUME TypeOK, WriteLock, PhaseInv, FreshInv, CountInv, RespHasRoom, AwaitInv, [Next]_vars
    PROVE  AwaitInv'
<1> USE RequestAssumption DEF TypeOK, AwaitInv, Closing, callerVars, dispVars, connVars
<1>a. incoming # NoConn => lastOp \in Ops
  BY DEF WriteLock, PhaseInv
<1> USE <1>a
<1>1. ASSUME NEW o \in Ops, Begin(o) \/ DialOk(o) \/ Timeout(o) PROVE AwaitInv'
  BY <1>1 DEF Begin, DialOk, Timeout
<1>2. ASSUME NEW o \in Ops, ReqInit(o) PROVE AwaitInv'
  BY <1>2 DEF ReqInit, PhaseInv
<1>3. ASSUME NEW o \in Ops, SendGivesUp(o) PROVE AwaitInv'
  BY <1>3 DEF SendGivesUp, Return, FreshInv
<1>4. ASSUME NEW o \in Ops, WriteFails(o) \/ DialFails(o) PROVE AwaitInv'
  BY <1>4 DEF WriteFails, DialFails, Return, WriteLock
<1>5. ASSUME NEW o \in Ops, HandoverQuit(o) PROVE AwaitInv'
  BY <1>5 DEF HandoverQuit, Return, PhaseInv, DidClose
<1>6. ASSUME NEW o \in Ops, WriteOk(o) PROVE AwaitInv'
  BY <1>6 DEF WriteOk, Return, WriteLock
<1>7. ASSUME NEW o \in Ops, Reconnected(o) PROVE AwaitInv'
  BY <1>7 DEF Reconnected, WriteLock, PhaseInv
<1>8. ASSUME NEW o \in Ops, Lost(o) PROVE AwaitInv'
  BY <1>8 DEF Lost, Return, RespHasRoom, FreshInv
<1>9. ASSUME NEW o \in Ops, ReqTimeout(o) PROVE AwaitInv'
  BY <1>9 DEF ReqTimeout, Return, PhaseInv
<1>10. ASSUME NEW o \in Ops, TimeoutQuit(o) PROVE AwaitInv'
  BY <1>10 DEF TimeoutQuit, Return
<1>11. ASSUME NEW o \in Ops, Receive(o) PROVE AwaitInv'
  <2>1. /\ UNCHANGED <<respWait, lastOp, reqSent, reason, incoming, closedResp>>
        /\ \A q \in Ops : q # o => pc'[q] = pc[q]
        /\ pc[o] = "wait"
    BY <1>11 DEF Receive, Return
  <2>2. pc'[o] = "done" => IdsOf[o] \cap respWait = {}
    <3>1. RespHasRoom' /\ CountInv'
      BY <1>11, RoomStep, ReceiveCounts
    <3>2. pc'[o] = "done" => o \in closedResp \/ result'[o] = "ok"
      BY <1>11 DEF Receive, Return
    <3>3. result'[o] = "ok" => \A i \in IdsOf[o] : taken'[i] = 1
      <4>1. result'[o] = "ok" => Answered(o)' = IdsOf[o]
        BY <3>1 DEF CountInv
      <4> QED BY <4>1 DEF Answered
    <3> QED BY <2>1, <3>1, <3>2, <3>3 DEF RespHasRoom
  <2>3. \E i \in IdsOf[o] : queued[i] > 0
    BY <1>11 DEF Receive
  <2>4. incoming # NoConn => o # lastOp
    BY <2>3 DEF FreshInv, Unanswered
  <2>5. \A q \in Ops : pc'[q] = "done" /\ ~Closing =>
          IdsOf[q] \cap respWait = {} \/ (q = lastOp /\ reqSent = "err")
    BY <2>1, <2>2
  <2>6. incoming # NoConn /\ ~Closing /\ pc'[lastOp] = "done" =>
          IdsOf[lastOp] = {} \/ reqSent = "err"
    BY <2>1, <2>4
  <2> QED BY <2>1, <2>5, <2>6
<1>12. ASSUME NEW k \in Conns, Read(k) \/ ReadFails(k) PROVE AwaitInv'
  BY <1>12 DEF Read, ReadFails
<1>13. ASSUME NEW k \in Conns, Handle(k) \/ ReadErr(k) \/ DrainMsg(k) \/ DrainErr(k)
       PROVE  AwaitInv'
  BY <1>13 DEF Handle, ReadErr, DrainMsg, DrainErr, PhaseInv
<1>14. CASE ReqSent
  BY <1>14 DEF ReqSent, PhaseInv
<1>15. CASE Cancel \/ CallsDone
  BY <1>15 DEF Cancel, CallsDone
<1>16. CASE Attach
  BY <1>16 DEF Attach, PhaseInv, WriteLock
<1>17. ASSUME NEW p \in Procs, ReverseCall(p) \/ ProcEnd(p) PROVE AwaitInv'
  BY <1>17 DEF ReverseCall, ProcEnd
<1>18. ASSUME NEW c \in Closers, CloseBegin(c) \/ CloseTaken(c) \/ CloseEnd(c) PROVE AwaitInv'
  BY <1>18 DEF CloseBegin, CloseTaken, CloseEnd
<1>19. CASE UNCHANGED vars
  BY <1>19 DEF vars
<1> QED
  BY <1>1, <1>2, <1>3, <1>4, <1>5, <1>6, <1>7, <1>8, <1>9, <1>10, <1>11, <1>12, <1>13, <1>14,
     <1>15, <1>16, <1>17, <1>18, <1>19
     DEF Next, RequestStep, CallerStep, CloseStep

-----------------------------------------------------------------------------
(* The refinement.                                                         *)

RpcInv ==
    /\ TypeOK /\ WriteLock /\ PhaseInv /\ FreshInv /\ RespHasRoom
    /\ CountInv /\ CodecInv /\ SentInv /\ AwaitInv

\* A caller that returns is done, and was not before.
LEMMA ReturnIs ==
    ASSUME TypeOK, NEW o \in Ops, NEW r, pc[o] \notin {"idle", "done"}, Return(o, r)
    PROVE  Contract!Return(o, r)
BY DEF TypeOK, Return, Contract!Return, Phases

\* A caller that goes on in the middle of a call is still open.
LEMMA StaysOpen ==
    ASSUME TypeOK, NEW o \in Ops, pc[o] \notin {"idle", "done"},
           NEW x \in {"send", "write", "handover", "wait", "timeout"},
           pc' = [pc EXCEPT ![o] = x]
    PROVE  Phases' = Phases
BY DEF TypeOK, Phases

LEMMA SameArrived == UNCHANGED <<queued, taken>> => ArrivedIds' = ArrivedIds
BY DEF ArrivedIds

LEMMA SameClient == UNCHANGED <<dpc, reason>> => ClientNow' = ClientNow
BY DEF ClientNow, Closing, DidClose

LEMMA SamePhases == UNCHANGED pc => Phases' = Phases
BY DEF Phases

\* A write reaches the peer only while a connection is open, so not after Close.
LEMMA SendImplemented ==
    ASSUME RpcInv, NEW o \in Ops, WriteOk(o) PROVE Contract!Send(o)
<1> USE DEF RpcInv
<1>1. o \notin SentOps /\ SentOps' = SentOps \cup {o}
  BY WriteSends
<1>2. ClientNow # "gone"
  <2>1. pc[o] = "write" /\ writeConn \in Conns /\ codec[writeConn] = "open"
    BY DEF WriteOk, TypeOK
  <2>2. dialed = NoConn
    BY <2>1 DEF WriteLock
  <2>3. dpc # "dead"
    BY <2>1, <2>2, ConnFacts DEF CodecInv, PhaseInv, TypeOK
  <2> QED BY <2>3 DEF ClientNow, DidClose
<1>3. UNCHANGED <<ArrivedIds, closedResp, ClientNow>>
  BY SameArrived, SameClient DEF WriteOk, dispVars
<1>4. IF IdsOf[o] = {} THEN Contract!Return(o, "ok") ELSE UNCHANGED <<Phases, result>>
  <2>1. pc[o] = "write"
    BY DEF WriteOk
  <2>2. CASE IdsOf[o] = {}
    <3>1. Return(o, "ok")
      BY <2>2 DEF WriteOk
    <3> QED BY <2>1, <2>2, <3>1, ReturnIs
  <2>3. CASE IdsOf[o] # {}
    <3>1. pc' = [pc EXCEPT ![o] = "wait"] /\ UNCHANGED result
      BY <2>3 DEF WriteOk
    <3> QED BY <2>1, <2>3, <3>1, StaysOpen
  <2> QED BY <2>2, <2>3
<1>5. Phases[o] = "open"
  BY DEF WriteOk, Phases
<1> QED BY <1>1, <1>2, <1>3, <1>4, <1>5 DEF Contract!Send

\* An answer that dispatch routes is the first for its id, was written to the
\* peer, and finds a caller that still waits.
LEMMA ArriveImplemented ==
    ASSUME RpcInv, NEW k \in Conns, Handle(k), SentOps' = SentOps PROVE Contract!Arrive
<1> USE RequestAssumption DEF RpcInv, TypeOK
<1> DEFINE hits == inbox[k] \cap respWait
<1>1. /\ queued' = [i \in Ids |-> IF i \in hits THEN queued[i] + 1 ELSE queued[i]]
      /\ UNCHANGED <<pc, result, taken, closedResp, dpc, reason>> /\ dpc = "select"
  BY DEF Handle
<1>2. ClientNow = "serving" /\ ~Closing
  BY <1>1 DEF PhaseInv, ClientNow, Closing
<1>3. hits \subseteq ArrivedIds'
  BY <1>1 DEF ArrivedIds
<1>4. ArrivedIds' \subseteq ArrivedIds \cup hits
  BY <1>1 DEF ArrivedIds
<1>5. ArrivedIds \subseteq ArrivedIds'
  BY <1>1 DEF ArrivedIds
<1>6. ASSUME NEW i \in hits
      PROVE  i \notin ArrivedIds /\ \E o \in Ops : Contract!Expects(o) /\ i \in IdsOf[o]
  <2>1. PICK o \in Ops : i \in IdsOf[o]
    BY <1>6 DEF AwaitInv
  <2>2. i \in Ids /\ i \in written[k]
    BY <1>6, <2>1 DEF FreshInv
  <2>3. queued[i] = 0 /\ taken[i] = 0 /\ o \notin closedResp
    BY <1>6, <2>1 DEF RespHasRoom
  <2>4. pc[o] \notin {"idle", "send", "write", "handover"}
    BY <2>1, <2>2 DEF FreshInv
  <2>5. pc[o] # "done"
    BY <1>2, <1>6, <2>1, <2>2 DEF AwaitInv, SentInv
  <2>6. o \in SentOps /\ Phases[o] = "open"
    BY <2>4, <2>5 DEF SentInv, Phases
  <2>7. i \notin ArrivedIds
    BY <2>3 DEF ArrivedIds
  <2> QED BY <2>1, <2>3, <2>6, <2>7 DEF Contract!Expects
<1>7. hits \in SUBSET {i \in Ids \ ArrivedIds :
                         \E o \in Ops : Contract!Expects(o) /\ i \in IdsOf[o]}
  BY <1>6
<1>8. ArrivedIds' = ArrivedIds \cup hits
  BY <1>3, <1>4, <1>5
<1>9. UNCHANGED <<Phases, ClientNow>>
  BY <1>1, SamePhases, SameClient
<1> QED BY <1>1, <1>2, <1>7, <1>8, <1>9 DEF Contract!Arrive

\* cancelAllRequests cuts requests that were sent, and at Close the one in flight.
LEMMA CutImplemented ==
    ASSUME RpcInv, Cancel, SentOps' = SentOps PROVE Contract!Cut
<1> USE RequestAssumption DEF RpcInv, TypeOK
<1> DEFINE S == {o \in Ops : IdsOf[o] \cap respWait # {} /\ o \notin Inflight}
<1>1. /\ closedResp' = closedResp \cup S /\ dpc = "cancel" /\ dpc' = "calls"
      /\ UNCHANGED <<pc, result, queued, taken, reason>>
  BY DEF Cancel
<1>2. ASSUME NEW o \in S
      PROVE  /\ Phases[o] # "idle" /\ ~ IdsOf[o] \subseteq ArrivedIds
             /\ o \in SentOps \/ ClientNow = "closing"
  <2>1. pc[o] \notin {"idle", "send"}
    BY DEF FreshInv
  <2>2. ~ IdsOf[o] \subseteq ArrivedIds
    <3>1. PICK i \in IdsOf[o] : i \in respWait
      OBVIOUS
    <3>2. queued[i] = 0 /\ taken[i] = 0
      BY <3>1 DEF RespHasRoom
    <3> QED BY <3>2 DEF ArrivedIds
  <2>3. CASE Closing
    BY <1>1, <2>1, <2>2, <2>3 DEF Phases, ClientNow, DidClose
  <2>4. CASE ~Closing
    <3>1. o # lastOp
      BY <2>4 DEF Inflight
    <3>2. pc[o] \notin {"write", "handover"}
      BY <3>1 DEF WriteLock
    <3>3. pc[o] # "done"
      BY <2>4, <3>1 DEF AwaitInv
    <3>4. o \in SentOps
      BY <2>1, <3>2, <3>3 DEF SentInv
    <3> QED BY <2>1, <2>2, <3>4 DEF Phases
  <2> QED BY <2>3, <2>4
<1>3. S \in SUBSET {o \in Ops : /\ Phases[o] # "idle" /\ ~ IdsOf[o] \subseteq ArrivedIds
                                /\ o \in SentOps \/ ClientNow = "closing"}
  BY <1>2
<1>4. ClientNow # "gone" /\ ClientNow' = ClientNow
  BY <1>1 DEF ClientNow, DidClose, Closing
<1>5. UNCHANGED <<Phases, ArrivedIds>>
  BY <1>1, SamePhases, SameArrived
<1> QED BY <1>1, <1>3, <1>4, <1>5 DEF Contract!Cut

\* How a call ends tells what became of its request.
LEMMA EndImplemented ==
    ASSUME RpcInv, SentOps' = SentOps, NEW o \in Ops,
           \/ SendGivesUp(o) \/ WriteFails(o) \/ DialFails(o) \/ HandoverQuit(o)
           \/ Lost(o) \/ ReqTimeout(o) \/ TimeoutQuit(o)
    PROVE  Contract!End(o)
<1> USE DEF RpcInv
<1>1. UNCHANGED <<SentOps, ArrivedIds, closedResp, ClientNow>>
  BY SameArrived, SameClient
     DEF SendGivesUp, WriteFails, DialFails, HandoverQuit, Lost, ReqTimeout, TimeoutQuit, dispVars
<1>2. pc[o] \in {"send", "write", "handover"} => o \notin SentOps
  <2>1. SUFFICES ASSUME pc[o] \in {"send", "write", "handover"} PROVE o \notin SentOps
    OBVIOUS
  <2>2. result[o] # "ok" /\ \A k \in Conns : IdsOf[o] \cap written[k] = {}
    BY <2>1 DEF SentInv, FreshInv
  <2> QED BY <2>2, SentIs
<1>3. CASE SendGivesUp(o)
  <2>1. pc[o] = "send"
    BY <1>3 DEF SendGivesUp
  <2>2. CASE o \in Timed /\ Return(o, "timeout")
    BY <1>1, <2>1, <2>2, ReturnIs DEF Contract!End, Contract!TimedOut
  <2>3. CASE Closing /\ Return(o, "quit")
    <3>1. ClientNow # "serving"
      BY <2>3 DEF ClientNow
    <3> QED BY <1>1, <1>2, <2>1, <2>3, <3>1, ReturnIs DEF Contract!End, Contract!Refused
  <2> QED BY <1>3, <2>2, <2>3 DEF SendGivesUp
<1>4. CASE WriteFails(o) \/ DialFails(o)
  <2>1. pc[o] = "write" /\ Return(o, "error")
    BY <1>4 DEF WriteFails, DialFails
  <2> QED BY <1>1, <1>2, <2>1, ReturnIs DEF Contract!End, Contract!NotSent
<1>5. CASE HandoverQuit(o)
  <2>1. pc[o] = "handover" /\ Return(o, "quit") /\ dpc = "dead"
    BY <1>5 DEF HandoverQuit, DidClose
  <2>2. ClientNow # "serving"
    BY <2>1 DEF PhaseInv, ClientNow, Closing
  <2> QED BY <1>1, <1>2, <2>1, <2>2, ReturnIs DEF Contract!End, Contract!Refused
<1>6. CASE Lost(o)
  <2>1. pc[o] = "wait" /\ Return(o, "lost") /\ o \in closedResp
    BY <1>6 DEF Lost
  <2>2. o \in SentOps
    BY <2>1 DEF SentInv
  <2> QED BY <1>1, <2>1, <2>2, ReturnIs DEF Contract!End, Contract!Lost
<1>7. CASE ReqTimeout(o) \/ TimeoutQuit(o)
  <2>1. pc[o] = "timeout" /\ Return(o, "timeout")
    BY <1>7 DEF ReqTimeout, TimeoutQuit
  <2>2. o \in Timed
    BY <2>1 DEF SentInv
  <2> QED BY <1>1, <2>1, <2>2, ReturnIs DEF Contract!End, Contract!TimedOut
<1> QED BY <1>3, <1>4, <1>5, <1>6, <1>7

\* A response that completes a batch ends the call; every other one is between
\* the call and its channel.
LEMMA ReceiveImplemented ==
    ASSUME RpcInv, SentOps' = SentOps, NEW o \in Ops, Receive(o)
    PROVE  Contract!End(o) \/ UNCHANGED Contract!contractVars
<1> USE DEF RpcInv, TypeOK
<1>1. ArrivedIds' = ArrivedIds
  <2>1. PICK i \in IdsOf[o] : /\ queued[i] > 0
                              /\ queued' = [queued EXCEPT ![i] = @ - 1]
                              /\ taken' = [taken EXCEPT ![i] = @ + 1]
    BY DEF Receive
  <2>2. i \in Ids
    BY RequestAssumption
  <2>3. \A j \in Ids : queued'[j] + taken'[j] = queued[j] + taken[j]
    BY <2>1, <2>2
  <2> QED BY <2>3 DEF ArrivedIds
<1>2. UNCHANGED <<SentOps, ArrivedIds, closedResp, ClientNow>>
  BY <1>1, SameClient DEF Receive, dispVars
<1>3. pc[o] = "wait" /\ o \in SentOps
  BY DEF Receive, SentInv
<1>4. CASE o \in closedResp /\ Return(o, "lost")
  BY <1>2, <1>3, <1>4, ReturnIs DEF Contract!End, Contract!Lost
<1>5. CASE o \notin closedResp /\ Return(o, "ok")
  <2>1. \A i \in IdsOf[o] : taken'[i] = 1
    <3>1. Answered(o)' = IdsOf[o]
      BY <1>5, ReceiveCounts DEF Return, CountInv
    <3> QED BY <3>1 DEF Answered
  <2>2. queued' \in [Ids -> Nat] /\ IdsOf[o] \subseteq Ids
    <3>1. PICK i \in IdsOf[o] : queued[i] > 0 /\ queued' = [queued EXCEPT ![i] = @ - 1]
      BY DEF Receive
    <3>2. IdsOf[o] \subseteq Ids
      BY RequestAssumption
    <3> QED BY <3>1, <3>2
  <2>3. \A i \in IdsOf[o] : queued'[i] + taken'[i] > 0
    BY <2>1, <2>2
  <2>4. IdsOf[o] \subseteq ArrivedIds'
    BY <2>2, <2>3 DEF ArrivedIds
  <2> QED BY <1>2, <1>1, <1>3, <1>5, <2>4, ReturnIs DEF Contract!End, Contract!Answered
<1>6. CASE UNCHANGED <<pc, result>>
  BY <1>2, <1>6, SamePhases DEF Contract!contractVars
<1> QED BY <1>4, <1>5, <1>6 DEF Receive

\* Close, and the end of dispatch after it.
LEMMA CloseImplemented ==
    ASSUME RpcInv, SentOps' = SentOps,
           \/ \E c \in Closers : CloseTaken(c)
           \/ \E k \in Conns : DrainErr(k)
    PROVE  Contract!Close \/ UNCHANGED Contract!contractVars
<1> USE DEF RpcInv
<1>1. UNCHANGED <<Phases, result, ArrivedIds, closedResp>>
  BY SamePhases, SameArrived DEF CloseTaken, DrainErr, callerVars
<1>2. CASE \E c \in Closers : CloseTaken(c)
  <2>1. ClientNow = "serving" /\ ClientNow' \in {"closing", "gone"}
    BY <1>2 DEF CloseTaken, PhaseInv, ClientNow, Closing, DidClose
  <2> QED BY <1>1, <2>1 DEF Contract!Close
<1>3. CASE \E k \in Conns : DrainErr(k)
  <2>1. ClientNow' = ClientNow \/ (ClientNow = "closing" /\ ClientNow' = "gone")
    BY <1>3 DEF DrainErr, ClientNow, Closing, DidClose
  <2> QED BY <1>1, <2>1 DEF Contract!Close, Contract!contractVars
<1> QED BY <1>2, <1>3

\* Every step of the client is a step of its contract, or none.
LEMMA ContractStep ==
    ASSUME RpcInv, [Next]_vars PROVE [Contract!ContractNext]_(Contract!contractVars)
<1> USE DEF RpcInv
<1>1. ASSUME NEW o \in Ops, WriteOk(o) PROVE Contract!ContractNext
  BY <1>1, SendImplemented DEF Contract!ContractNext
<1>2. CASE \A o \in Ops : ~WriteOk(o)
  <2>a. SentOps' = SentOps
    BY <1>2, OthersSendNothing
  <2>b. UNCHANGED <<pc, result, queued, taken, closedResp, dpc, reason>>
          => UNCHANGED Contract!contractVars
    BY <2>a, SamePhases, SameArrived, SameClient DEF Contract!contractVars
  <2>c. ASSUME NEW o \in Ops, NEW x \in {"send", "write", "handover", "wait", "timeout"},
               pc[o] \notin {"idle", "done"}, pc' = [pc EXCEPT ![o] = x],
               UNCHANGED <<result, queued, taken, closedResp, ClientNow>>
        PROVE  UNCHANGED Contract!contractVars
    BY <2>a, <2>c, StaysOpen, SameArrived DEF Contract!contractVars
  <2>d. ASSUME NEW o \in Ops, pc[o] = "idle", pc' = [pc EXCEPT ![o] = "send"],
               UNCHANGED <<result, queued, taken, closedResp, dpc, reason>>
        PROVE  Contract!ContractNext
    <3>1. Phases[o] = "idle" /\ Phases' = [Phases EXCEPT ![o] = "open"]
      BY <2>d DEF TypeOK, Phases
    <3> QED BY <2>a, <2>d, <3>1, SameArrived, SameClient DEF Contract!ContractNext, Contract!Begin
  <2>1. ASSUME NEW o \in Ops, Begin(o) PROVE Contract!ContractNext
    BY <2>1, <2>d DEF Begin, dispVars
  <2>2. ASSUME NEW o \in Ops, ReqInit(o) \/ DialOk(o) \/ Timeout(o)
        PROVE  UNCHANGED Contract!contractVars
    BY <2>2, <2>c, SameClient DEF ReqInit, DialOk, Timeout, dispVars
  <2>3. ASSUME NEW o \in Ops, Reconnected(o) PROVE UNCHANGED Contract!contractVars
    <3>1. ClientNow' = ClientNow
      BY <2>3 DEF Reconnected, PhaseInv, ClientNow, Closing, DidClose
    <3> QED BY <2>3, <2>c, <3>1 DEF Reconnected
  <2>4. ASSUME NEW o \in Ops,
               \/ SendGivesUp(o) \/ WriteFails(o) \/ DialFails(o) \/ HandoverQuit(o)
               \/ Lost(o) \/ ReqTimeout(o) \/ TimeoutQuit(o)
        PROVE  Contract!ContractNext
    BY <2>4, <2>a, EndImplemented DEF Contract!ContractNext
  <2>5. ASSUME NEW o \in Ops, Receive(o)
        PROVE  Contract!ContractNext \/ UNCHANGED Contract!contractVars
    BY <2>5, <2>a, ReceiveImplemented DEF Contract!ContractNext
  <2>6. ASSUME NEW k \in Conns, Handle(k) PROVE Contract!ContractNext
    BY <2>6, <2>a, ArriveImplemented DEF Contract!ContractNext
  <2>7. ASSUME NEW k \in Conns, Read(k) \/ ReadFails(k) \/ DrainMsg(k)
        PROVE  UNCHANGED Contract!contractVars
    BY <2>7, <2>b DEF Read, ReadFails, DrainMsg, callerVars, dispVars
  <2>8. CASE Cancel
    BY <2>8, <2>a, CutImplemented DEF Contract!ContractNext
  <2>9. ASSUME \/ \E k \in Conns : ReadErr(k)
               \/ CallsDone \/ Attach
        PROVE  UNCHANGED Contract!contractVars
    <3>1. ClientNow' = ClientNow
      BY <2>9 DEF ReadErr, CallsDone, Attach, PhaseInv, ClientNow, Closing, DidClose
    <3>2. UNCHANGED <<pc, result, queued, taken, closedResp>>
      BY <2>9 DEF ReadErr, CallsDone, Attach, callerVars
    <3> QED BY <2>a, <3>1, <3>2, SamePhases, SameArrived DEF Contract!contractVars
  <2>10. CASE ReqSent
    BY <2>10, <2>b DEF ReqSent
  <2>11. ASSUME NEW p \in Procs, ReverseCall(p)
         PROVE  Contract!ContractNext
    BY <2>11, <2>d, RequestAssumption DEF ReverseCall, dispVars
  <2>12. ASSUME NEW p \in Procs, ProcEnd(p) PROVE UNCHANGED Contract!contractVars
    BY <2>12, <2>b DEF ProcEnd, callerVars, dispVars
  <2>13. ASSUME NEW c \in Closers, CloseBegin(c) \/ CloseEnd(c)
         PROVE  UNCHANGED Contract!contractVars
    BY <2>13, <2>b DEF CloseBegin, CloseEnd, callerVars, dispVars
  <2>14. ASSUME \/ \E c \in Closers : CloseTaken(c)
                \/ \E k \in Conns : DrainErr(k)
         PROVE  Contract!ContractNext \/ UNCHANGED Contract!contractVars
    BY <2>14, <2>a, CloseImplemented DEF Contract!ContractNext
  <2>15. CASE UNCHANGED vars
    BY <2>15, <2>b DEF vars
  <2> QED
    BY <1>2, <2>1, <2>2, <2>3, <2>4, <2>5, <2>6, <2>7, <2>8, <2>9, <2>10, <2>11, <2>12, <2>13,
       <2>14, <2>15
       DEF Next, RequestStep, CallerStep, CloseStep
<1> QED BY <1>1, <1>2

\* Callers and the peer get what RpcContract promises, however connections break,
\* answers repeat or come late, and calls, replacements and Close interleave.
THEOREM ContractImplemented == Spec => ContractKept
<1>1. Init => SentInv /\ AwaitInv
  BY ConnFacts DEF Init, SentInv, AwaitInv, NoConn
<1>2. Init => Contract!ContractInit
  BY ConnFacts DEF Init, Contract!ContractInit, Phases, SentOps, ArrivedIds, ClientNow, Closing
<1>3. /\ TypeOK /\ WriteLock /\ PhaseInv /\ FreshInv /\ RespHasRoom /\ CountInv
      /\ SentInv /\ AwaitInv /\ [Next]_vars
      => (SentInv /\ AwaitInv)'
  BY SentStep, AwaitStep
<1>4. Spec => []RpcInv
  BY <1>1, <1>3, WriteLockHolds, RoomHolds, CountHolds, CodecsTracked, PTL DEF Spec, RpcInv
<1> QED BY <1>2, <1>4, ContractStep, PTL DEF Spec, ContractKept, Contract!ContractSpec

=============================================================================
