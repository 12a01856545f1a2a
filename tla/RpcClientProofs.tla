-------------------------- MODULE RpcClientProofs ---------------------------
(***************************************************************************)
(* Proofs about RpcClient, for any requests and ids, any calls of the peer *)
(* (with or without reverse calls), any number of reconnections and any    *)
(* goroutines that call Close.                                             *)
(***************************************************************************)
EXTENDS RpcClient, TLAPS, FiniteSetTheorems

LEMMA ConnFacts == 1 \in Conns /\ NoConn \notin Conns
BY RequestAssumption DEF Conns, NoConn

LEMMA InitInv == Init => TypeOK /\ WriteLock /\ PhaseInv
BY ConnFacts DEF Init, TypeOK, WriteLock, PhaseInv, NoConn

\* Every step keeps the types; attaching a connection needs the write lock.
LEMMA TypeStep == ASSUME TypeOK, WriteLock, [Next]_vars PROVE TypeOK'
<1> USE DEF TypeOK, dispVars, connVars, callerVars
<1>1. ASSUME NEW o \in Ops, Begin(o) PROVE TypeOK'
  BY <1>1 DEF Begin
<1>2. ASSUME NEW o \in Ops, ReqInit(o) PROVE TypeOK'
  BY <1>2, RequestAssumption DEF ReqInit
<1>3. ASSUME NEW o \in Ops, SendGivesUp(o) PROVE TypeOK'
  BY <1>3 DEF SendGivesUp, Return
<1>4. ASSUME NEW o \in Ops, WriteOk(o) PROVE TypeOK'
  <2>1. written' \in [Conns -> SUBSET Ids]
    BY <1>4, RequestAssumption DEF WriteOk
  <2> QED BY <1>4, <2>1 DEF WriteOk, Return
<1>5. ASSUME NEW o \in Ops, WriteFails(o) PROVE TypeOK'
  BY <1>5 DEF WriteFails, Return
<1>6. ASSUME NEW o \in Ops, DialFails(o) PROVE TypeOK'
  BY <1>6 DEF DialFails, Return
<1>7. ASSUME NEW o \in Ops, DialOk(o) PROVE TypeOK'
  BY <1>7 DEF DialOk
<1>8. ASSUME NEW o \in Ops, Reconnected(o) PROVE TypeOK'
  BY <1>8 DEF Reconnected
<1>9. ASSUME NEW o \in Ops, HandoverQuit(o) PROVE TypeOK'
  BY <1>9 DEF HandoverQuit, Return
<1>10. ASSUME NEW o \in Ops, Receive(o) PROVE TypeOK'
  <2>1. IdsOf[o] \subseteq Ids
    BY RequestAssumption
  <2>2. queued' \in [Ids -> Nat] /\ taken' \in [Ids -> Nat] /\ count' \in [Ops -> Nat]
    BY <1>10, <2>1 DEF Receive
  <2>3. /\ pc' \in [Ops -> {"idle", "send", "write", "handover", "wait", "timeout", "done"}]
        /\ result' \in [Ops -> {"none", "ok", "lost", "timeout", "error", "quit"}]
    BY <1>10 DEF Receive, Return
  <2> QED BY <1>10, <2>2, <2>3 DEF Receive
<1>11. ASSUME NEW o \in Ops, Lost(o) PROVE TypeOK'
  BY <1>11 DEF Lost, Return
<1>12. ASSUME NEW o \in Ops, Timeout(o) PROVE TypeOK'
  BY <1>12 DEF Timeout
<1>13. ASSUME NEW o \in Ops, ReqTimeout(o) PROVE TypeOK'
  BY <1>13 DEF ReqTimeout, Return
<1>14. ASSUME NEW o \in Ops, TimeoutQuit(o) PROVE TypeOK'
  BY <1>14 DEF TimeoutQuit, Return
<1>15. ASSUME NEW k \in Conns, Read(k) PROVE TypeOK'
  <2>1. PICK M \in SUBSET (written[k] \cup {p \in Procs : proc[p] = "new"}) :
           inbox' = [inbox EXCEPT ![k] = M]
    BY <1>15 DEF Read
  <2>2. M \in SUBSET (Ids \cup Procs)
    OBVIOUS
  <2> QED BY <1>15, <2>1, <2>2 DEF Read
<1>16. ASSUME NEW k \in Conns, ReadFails(k) PROVE TypeOK'
  BY <1>16 DEF ReadFails
<1>17. ASSUME NEW k \in Conns, Handle(k) PROVE TypeOK'
  BY <1>17 DEF Handle
<1>18. ASSUME NEW k \in Conns, ReadErr(k) PROVE TypeOK'
  BY <1>18 DEF ReadErr
<1>19. CASE ReqSent
  BY <1>19 DEF ReqSent
<1>20. CASE Cancel
  BY <1>20 DEF Cancel, Inflight
<1>21. CASE CallsDone
  BY <1>21 DEF CallsDone
<1>22. ASSUME NEW k \in Conns, DrainMsg(k) PROVE TypeOK'
  BY <1>22 DEF DrainMsg
<1>23. ASSUME NEW k \in Conns, DrainErr(k) PROVE TypeOK'
  BY <1>23 DEF DrainErr
<1>24. CASE Attach
  <2>1. lastOp \in Ops /\ incoming \in Conns
    BY <1>24 DEF Attach, WriteLock
  <2>2. IdsOf[lastOp] \subseteq Ids
    BY <2>1, RequestAssumption
  <2> QED BY <1>24, <2>1, <2>2 DEF Attach
<1>25. ASSUME NEW p \in Procs, ReverseCall(p) \/ ProcEnd(p) PROVE TypeOK'
  BY <1>25 DEF ReverseCall, ProcEnd
<1>26. ASSUME NEW c \in Closers, CloseBegin(c) \/ CloseTaken(c) \/ CloseEnd(c)
       PROVE  TypeOK'
  BY <1>26 DEF CloseBegin, CloseTaken, CloseEnd
<1>27. CASE UNCHANGED vars
  BY <1>27 DEF vars
<1> QED
  BY <1>1, <1>2, <1>3, <1>4, <1>5, <1>6, <1>7, <1>8, <1>9, <1>10, <1>11, <1>12, <1>13,
     <1>14, <1>15, <1>16, <1>17, <1>18, <1>19, <1>20, <1>21, <1>22, <1>23, <1>24, <1>25,
     <1>26, <1>27
     DEF Next, RequestStep, CallerStep, CloseStep

\* The phases of dispatch.
LEMMA PhaseStep == ASSUME TypeOK, WriteLock, PhaseInv, [Next]_vars PROVE PhaseInv'
<1> USE DEF PhaseInv, dispVars
<1>1. ASSUME NEW o \in Ops, Begin(o) \/ CallerStep(o) PROVE PhaseInv'
  BY <1>1
     DEF Begin, CallerStep, SendGivesUp, WriteOk, WriteFails, DialFails, DialOk, HandoverQuit,
         Receive, Lost, Timeout, TimeoutQuit
<1>2. ASSUME NEW o \in Ops, ReqInit(o) \/ Reconnected(o) \/ ReqTimeout(o) PROVE PhaseInv'
  BY <1>2 DEF ReqInit, Reconnected, ReqTimeout
<1>3. ASSUME NEW k \in Conns, Read(k) \/ ReadFails(k) \/ Handle(k) \/ ReadErr(k)
      PROVE  PhaseInv'
  BY <1>3 DEF Read, ReadFails, Handle, ReadErr
<1>4. CASE ReqSent
  BY <1>4 DEF ReqSent
<1>5. CASE Cancel
  BY <1>5 DEF Cancel
<1>6. CASE CallsDone
  BY <1>6 DEF CallsDone
<1>7. ASSUME NEW k \in Conns, DrainMsg(k) \/ DrainErr(k) PROVE PhaseInv'
  BY <1>7 DEF DrainMsg, DrainErr, Closing
<1>8. CASE Attach
  BY <1>8 DEF Attach
<1>9. ASSUME NEW p \in Procs, ReverseCall(p) \/ ProcEnd(p) PROVE PhaseInv'
  BY <1>9 DEF ReverseCall, ProcEnd
<1>10. ASSUME NEW c \in Closers, CloseBegin(c) \/ CloseTaken(c) \/ CloseEnd(c)
       PROVE  PhaseInv'
  BY <1>10 DEF CloseBegin, CloseTaken, CloseEnd
<1>11. CASE UNCHANGED vars
  BY <1>11 DEF vars
<1> QED
  BY <1>1, <1>2, <1>3, <1>4, <1>5, <1>6, <1>7, <1>8, <1>9, <1>10, <1>11
     DEF Next, RequestStep, CloseStep

\* The write lock: lastOp is set and reset only when nobody is writing.
LEMMA LockStep == ASSUME TypeOK, WriteLock, PhaseInv, [Next]_vars PROVE WriteLock'
<1> USE DEF TypeOK, WriteLock, callerVars, dispVars
<1> USE ConnFacts, RequestAssumption
<1>1. ASSUME NEW o \in Ops, Begin(o) PROVE WriteLock'
  BY <1>1 DEF Begin
<1>2. ASSUME NEW o \in Ops, ReqInit(o) PROVE WriteLock'
  BY <1>2 DEF ReqInit
<1>3. ASSUME NEW o \in Ops, SendGivesUp(o) PROVE WriteLock'
  BY <1>3 DEF SendGivesUp, Return
<1>4. ASSUME NEW o \in Ops, WriteOk(o) PROVE WriteLock'
  BY <1>4 DEF WriteOk, Return
<1>5. ASSUME NEW o \in Ops, WriteFails(o) \/ DialFails(o) PROVE WriteLock'
  BY <1>5 DEF WriteFails, DialFails, Return
<1>6. ASSUME NEW o \in Ops, DialOk(o) PROVE WriteLock'
  BY <1>6 DEF DialOk
<1>7. ASSUME NEW o \in Ops, Reconnected(o) PROVE WriteLock'
  BY <1>7 DEF Reconnected
<1>8. ASSUME NEW o \in Ops, HandoverQuit(o) PROVE WriteLock'
  BY <1>8 DEF HandoverQuit, Return
<1>9. ASSUME NEW o \in Ops, Receive(o) PROVE WriteLock'
  BY <1>9 DEF Receive, Return
<1>10. ASSUME NEW o \in Ops, Lost(o) \/ Timeout(o) \/ TimeoutQuit(o) PROVE WriteLock'
  BY <1>10 DEF Lost, Timeout, TimeoutQuit, Return
<1>11. ASSUME NEW o \in Ops, ReqTimeout(o) PROVE WriteLock'
  BY <1>11 DEF ReqTimeout, Return
<1>12. ASSUME NEW k \in Conns, Read(k) \/ ReadFails(k) \/ Handle(k) \/ ReadErr(k)
       PROVE  WriteLock'
  BY <1>12 DEF Read, ReadFails, Handle, ReadErr
<1>13. CASE ReqSent
  BY <1>13 DEF ReqSent, PhaseInv
<1>14. CASE Cancel
  BY <1>14 DEF Cancel
<1>15. CASE CallsDone
  BY <1>15 DEF CallsDone
<1>16. ASSUME NEW k \in Conns, DrainMsg(k) \/ DrainErr(k) PROVE WriteLock'
  BY <1>16 DEF DrainMsg, DrainErr, PhaseInv, Closing
<1>17. CASE Attach
  BY <1>17 DEF Attach
<1>18. ASSUME NEW p \in Procs, ReverseCall(p) \/ ProcEnd(p) PROVE WriteLock'
  BY <1>18 DEF ReverseCall, ProcEnd
<1>19. ASSUME NEW c \in Closers, CloseBegin(c) \/ CloseTaken(c) \/ CloseEnd(c)
       PROVE  WriteLock'
  BY <1>19 DEF CloseBegin, CloseTaken, CloseEnd
<1>20. CASE UNCHANGED vars
  BY <1>20 DEF vars
<1> QED
  BY <1>1, <1>2, <1>3, <1>4, <1>5, <1>6, <1>7, <1>8, <1>9, <1>10, <1>11, <1>12, <1>13,
     <1>14, <1>15, <1>16, <1>17, <1>18, <1>19, <1>20
     DEF Next, RequestStep, CallerStep, CloseStep

\* Types, the write lock and the phases hold each other up.
THEOREM WriteLockHolds == Spec => [](TypeOK /\ WriteLock /\ PhaseInv)
<1>1. TypeOK /\ WriteLock /\ PhaseInv /\ [Next]_vars => (TypeOK /\ WriteLock /\ PhaseInv)'
  BY TypeStep, PhaseStep, LockStep
<1> QED BY <1>1, InitInv, PTL DEF Spec

\* Every variable keeps its type.
THEOREM TypeCorrect == Spec => []TypeOK
BY WriteLockHolds, PTL

-----------------------------------------------------------------------------
(* Readers.                                                                *)

\* Each step keeps track of the one live reader.
LEMMA ReaderStep ==
    ASSUME TypeOK, WriteLock, PhaseInv, ReaderInv, [Next]_vars PROVE ReaderInv'
<1> USE DEF TypeOK, ReaderInv, callerVars, dispVars, connVars
<1>1. ASSUME NEW o \in Ops, Begin(o) \/ SendGivesUp(o) \/ WriteFails(o) \/ DialFails(o)
      PROVE  ReaderInv'
  BY <1>1 DEF Begin, SendGivesUp, WriteFails, DialFails
<1>2. ASSUME NEW o \in Ops, ReqInit(o) \/ WriteOk(o) \/ DialOk(o) \/ HandoverQuit(o)
      PROVE  ReaderInv'
  BY <1>2 DEF ReqInit, WriteOk, DialOk, HandoverQuit
<1>3. ASSUME NEW o \in Ops, Reconnected(o) PROVE ReaderInv'
  BY <1>3 DEF Reconnected, PhaseInv
<1>4. ASSUME NEW o \in Ops,
             Receive(o) \/ Lost(o) \/ Timeout(o) \/ TimeoutQuit(o) \/ ReqTimeout(o)
      PROVE  ReaderInv'
  BY <1>4 DEF Receive, Lost, Timeout, TimeoutQuit, ReqTimeout
<1>5. ASSUME NEW k \in Conns, Read(k) \/ ReadFails(k) \/ Handle(k) PROVE ReaderInv'
  BY <1>5 DEF Read, ReadFails, Handle
<1>6. ASSUME NEW k \in Conns, ReadErr(k) PROVE ReaderInv'
  BY <1>6 DEF ReadErr
<1>7. CASE ReqSent
  BY <1>7 DEF ReqSent
<1>8. CASE Cancel
  BY <1>8 DEF Cancel
<1>9. CASE CallsDone
  BY <1>9 DEF CallsDone, PhaseInv
<1>10. ASSUME NEW k \in Conns, DrainMsg(k) PROVE ReaderInv'
  BY <1>10 DEF DrainMsg
<1>11. ASSUME NEW k \in Conns, DrainErr(k) PROVE ReaderInv'
  BY <1>11 DEF DrainErr
<1>12. CASE Attach
  <2>1. incoming \in Conns
    BY <1>12 DEF Attach, WriteLock
  <2>2. \A k \in Conns : reader[k] \notin {"reading", "msg", "err"}
    BY <1>12 DEF Attach
  <2> QED BY <1>12, <2>1, <2>2 DEF Attach
<1>13. ASSUME NEW p \in Procs, ReverseCall(p) \/ ProcEnd(p) PROVE ReaderInv'
  BY <1>13 DEF ReverseCall, ProcEnd
<1>14. ASSUME NEW c \in Closers, CloseBegin(c) \/ CloseEnd(c) PROVE ReaderInv'
  BY <1>14 DEF CloseBegin, CloseEnd
<1>15. ASSUME NEW c \in Closers, CloseTaken(c) PROVE ReaderInv'
  BY <1>15 DEF CloseTaken, PhaseInv
<1>16. CASE UNCHANGED vars
  BY <1>16 DEF vars
<1> QED
  BY <1>1, <1>2, <1>3, <1>4, <1>5, <1>6, <1>7, <1>8, <1>9, <1>10, <1>11, <1>12, <1>13,
     <1>14, <1>15, <1>16
     DEF Next, RequestStep, CallerStep, CloseStep

THEOREM ReadersTracked == Spec => []ReaderInv
<1>1. Init => ReaderInv
  BY ConnFacts DEF Init, ReaderInv
<1>2. TypeOK /\ WriteLock /\ PhaseInv /\ ReaderInv /\ [Next]_vars => ReaderInv'
  BY ReaderStep
<1> QED BY <1>1, <1>2, WriteLockHolds, PTL DEF Spec

\* Only the current connection is read, and drainRead never waits for a reader
\* that has already gone.
THEOREM OneReaderHolds == Spec => []OneReader
<1>1. PhaseInv /\ ReaderInv => OneReader
  BY DEF PhaseInv, ReaderInv, OneReader
<1> QED BY <1>1, ReadersTracked, WriteLockHolds, PTL

-----------------------------------------------------------------------------
(* Answers.                                                                *)

\* A request is not answered or cancelled before its turn.
LEMMA FreshStep ==
    ASSUME TypeOK, WriteLock, PhaseInv, FreshInv, RespHasRoom, [Next]_vars PROVE FreshInv'
<1> USE RequestAssumption DEF TypeOK, FreshInv, Unanswered, Closing, callerVars, dispVars,
                              connVars
<1>1. ASSUME NEW o \in Ops, Begin(o) PROVE FreshInv'
  BY <1>1 DEF Begin
<1>2. ASSUME NEW o \in Ops, SendGivesUp(o) PROVE FreshInv'
  BY <1>2 DEF SendGivesUp, Return
<1>3. ASSUME NEW o \in Ops, WriteFails(o) \/ DialFails(o) PROVE FreshInv'
  <2>1. /\ pc' = [pc EXCEPT ![o] = "done"]
        /\ UNCHANGED <<queued, taken, closedResp, lastOp, incoming, respWait, reason, inbox, written>>
    BY <1>3 DEF WriteFails, DialFails, Return
  <2>2. Closing' = Closing /\ \A p \in Ops : Unanswered(p)' <=> Unanswered(p)
    BY <2>1
  <2>3. \A p \in Ops : pc'[p] = pc[p] \/ pc'[p] = "done"
    BY <2>1
  <2>4. (\A k \in Conns : inbox[k] \cap Ids \subseteq written[k])'
    BY <2>1
  <2>5. (incoming # NoConn => Unanswered(lastOp) /\ (lastOp \in closedResp => Closing))'
    BY <2>1, <2>2
  <2>6. (lastOp # NoOp => pc[lastOp] \notin {"idle", "send"})'
    BY <2>1, <2>3
  <2> HIDE DEF Unanswered, Closing
  <2> QED BY <2>1, <2>2, <2>3, <2>4, <2>5, <2>6
<1>4. ASSUME NEW o \in Ops, ReqInit(o) PROVE FreshInv'
  BY <1>4, ConnFacts DEF ReqInit, PhaseInv
<1>5. ASSUME NEW o \in Ops, WriteOk(o) PROVE FreshInv'
  BY <1>5 DEF WriteOk, Return
<1>6. ASSUME NEW o \in Ops, DialOk(o) PROVE FreshInv'
  BY <1>6 DEF DialOk
<1>7. ASSUME NEW o \in Ops, HandoverQuit(o) PROVE FreshInv'
  BY <1>7 DEF HandoverQuit, Return
<1>8. ASSUME NEW o \in Ops, Reconnected(o) PROVE FreshInv'
  BY <1>8 DEF Reconnected, PhaseInv, WriteLock
<1>9. ASSUME NEW o \in Ops, Receive(o) PROVE FreshInv'
  BY <1>9 DEF Receive, Return
<1>10. ASSUME NEW o \in Ops, Lost(o) \/ Timeout(o) \/ TimeoutQuit(o) PROVE FreshInv'
  BY <1>10 DEF Lost, Timeout, TimeoutQuit, Return
<1>11. ASSUME NEW o \in Ops, ReqTimeout(o) PROVE FreshInv'
  BY <1>11 DEF ReqTimeout, Return
<1>12. ASSUME NEW k \in Conns, Read(k) PROVE FreshInv'
  <2>1. PICK M \in SUBSET (written[k] \cup {p \in Procs : proc[p] = "new"}) :
           inbox' = [inbox EXCEPT ![k] = M]
    BY <1>12 DEF Read
  <2>2. M \cap Ids \subseteq written[k]
    OBVIOUS
  <2> QED BY <1>12, <2>1, <2>2 DEF Read
<1>13. ASSUME NEW k \in Conns, ReadFails(k) \/ ReadErr(k) PROVE FreshInv'
  BY <1>13 DEF ReadFails, ReadErr, PhaseInv
<1>14. ASSUME NEW k \in Conns, Handle(k) PROVE FreshInv'
  <2>1. \A i \in Ids : i \notin written[k] => queued'[i] = queued[i]
    BY <1>14 DEF Handle
  <2> QED BY <1>14, <2>1 DEF Handle, PhaseInv
<1>15. CASE ReqSent
  BY <1>15 DEF ReqSent, PhaseInv
<1>16. CASE Cancel
  BY <1>16 DEF Cancel, Inflight, WriteLock
<1>17. CASE CallsDone
  BY <1>17 DEF CallsDone
<1>18. ASSUME NEW k \in Conns, DrainMsg(k) \/ DrainErr(k) PROVE FreshInv'
  BY <1>18 DEF DrainMsg, DrainErr
<1>19. CASE Attach
  BY <1>19 DEF Attach, PhaseInv, WriteLock
<1>20. ASSUME NEW p \in Procs, ReverseCall(p) PROVE FreshInv'
  BY <1>20 DEF ReverseCall
<1>21. ASSUME NEW p \in Procs, ProcEnd(p) PROVE FreshInv'
  BY <1>21 DEF ProcEnd
<1>22. ASSUME NEW c \in Closers, CloseBegin(c) \/ CloseTaken(c) \/ CloseEnd(c)
       PROVE  FreshInv'
  BY <1>22 DEF CloseBegin, CloseTaken, CloseEnd, PhaseInv
<1>23. CASE UNCHANGED vars
  BY <1>23 DEF vars
<1> QED
  BY <1>1, <1>2, <1>3, <1>4, <1>5, <1>6, <1>7, <1>8, <1>9, <1>10, <1>11, <1>12, <1>13,
     <1>14, <1>15, <1>16, <1>17, <1>18, <1>19, <1>20, <1>21, <1>22, <1>23
     DEF Next, RequestStep, CallerStep, CloseStep

\* Answers and cancellations go to requests that expect them.
LEMMA RoomStep ==
    ASSUME TypeOK, WriteLock, PhaseInv, FreshInv, RespHasRoom, [Next]_vars
    PROVE  RespHasRoom'
<1> USE RequestAssumption DEF TypeOK, RespHasRoom, callerVars, dispVars, connVars
<1>1. ASSUME NEW o \in Ops, Begin(o) \/ SendGivesUp(o) \/ WriteOk(o) PROVE RespHasRoom'
  BY <1>1 DEF Begin, SendGivesUp, WriteOk
<1>2. ASSUME NEW o \in Ops, WriteFails(o) \/ DialFails(o) \/ DialOk(o) \/ HandoverQuit(o)
      PROVE  RespHasRoom'
  BY <1>2 DEF WriteFails, DialFails, DialOk, HandoverQuit
<1>3. ASSUME NEW o \in Ops, ReqInit(o) PROVE RespHasRoom'
  BY <1>3 DEF ReqInit, FreshInv, Unanswered
<1>4. ASSUME NEW o \in Ops, Reconnected(o) \/ Lost(o) \/ Timeout(o) \/ TimeoutQuit(o)
      PROVE  RespHasRoom'
  BY <1>4 DEF Reconnected, Lost, Timeout, TimeoutQuit
<1>5. ASSUME NEW o \in Ops, Receive(o) PROVE RespHasRoom'
  BY <1>5 DEF Receive
<1>6. ASSUME NEW o \in Ops, ReqTimeout(o) PROVE RespHasRoom'
  BY <1>6 DEF ReqTimeout
<1>7. ASSUME NEW k \in Conns, Read(k) \/ ReadFails(k) \/ ReadErr(k) PROVE RespHasRoom'
  BY <1>7 DEF Read, ReadFails, ReadErr
<1>8. ASSUME NEW k \in Conns, Handle(k) PROVE RespHasRoom'
  <2>1. /\ respWait' = respWait \ (inbox[k] \cap respWait)
        /\ taken' = taken /\ closedResp' = closedResp
        /\ \A i \in Ids : queued'[i] = IF i \in inbox[k] \cap respWait
                                       THEN queued[i] + 1 ELSE queued[i]
    BY <1>8 DEF Handle
  <2>2. ASSUME NEW o \in Ops, NEW i \in IdsOf[o]
        PROVE  /\ queued'[i] + taken'[i] <= 1
               /\ i \in respWait' => queued'[i] = 0 /\ taken'[i] = 0 /\ o \notin closedResp'
    BY <2>1, <2>2
  <2> QED BY <2>2
<1>9. CASE ReqSent
  BY <1>9 DEF ReqSent
<1>10. CASE Cancel
  BY <1>10 DEF Cancel
<1>11. CASE CallsDone
  BY <1>11 DEF CallsDone
<1>12. ASSUME NEW k \in Conns, DrainMsg(k) \/ DrainErr(k) PROVE RespHasRoom'
  BY <1>12 DEF DrainMsg, DrainErr
<1>13. CASE Attach
  BY <1>13 DEF Attach, WriteLock, PhaseInv, FreshInv, Unanswered, Closing
<1>14. ASSUME NEW p \in Procs, ReverseCall(p) \/ ProcEnd(p) PROVE RespHasRoom'
  BY <1>14 DEF ReverseCall, ProcEnd
<1>15. ASSUME NEW c \in Closers, CloseBegin(c) \/ CloseTaken(c) \/ CloseEnd(c)
       PROVE  RespHasRoom'
  BY <1>15 DEF CloseBegin, CloseTaken, CloseEnd
<1>16. CASE UNCHANGED vars
  BY <1>16 DEF vars
<1> QED
  BY <1>1, <1>2, <1>3, <1>4, <1>5, <1>6, <1>7, <1>8, <1>9, <1>10, <1>11, <1>12, <1>13,
     <1>14, <1>15, <1>16
     DEF Next, RequestStep, CallerStep, CloseStep

\* No answer and no cancellation reaches a channel that is full or closed, and
\* no answer is delivered twice, however often the peer repeats itself.
THEOREM RoomHolds == Spec => [](RespHasRoom /\ FreshInv)
<1>1. Init => FreshInv /\ RespHasRoom
  BY ConnFacts, RequestAssumption DEF Init, FreshInv, RespHasRoom, Unanswered, NoConn
<1>2. TypeOK /\ WriteLock /\ PhaseInv /\ FreshInv /\ RespHasRoom /\ [Next]_vars
        => (FreshInv /\ RespHasRoom)'
  BY FreshStep, RoomStep
<1> QED BY <1>1, <1>2, WriteLockHolds, PTL DEF Spec

\* Receiving an answer adds one id to the answered ones.
LEMMA ReceiveCounts ==
    ASSUME TypeOK, RespHasRoom, CountInv, NEW o \in Ops, Receive(o) PROVE CountInv'
<1> USE DEF TypeOK
<1>1. PICK i \in IdsOf[o] : /\ queued[i] > 0
                            /\ taken' = [taken EXCEPT ![i] = @ + 1]
  BY DEF Receive
<1>2. /\ i \in Ids /\ taken[i] = 0 /\ taken'[i] = 1
      /\ \A j \in Ids : j # i => taken'[j] = taken[j]
  <2>1. i \in Ids /\ queued[i] + taken[i] <= 1
    BY RequestAssumption DEF RespHasRoom
  <2>2. taken[i] = 0
    BY <1>1, <2>1
  <2> QED BY <1>1, <2>1, <2>2
<1>3. IsFiniteSet(Answered(o)) /\ IsFiniteSet(IdsOf[o])
  BY FiniteAssumption, FS_Subset DEF Answered
<1>4. Answered(o)' = Answered(o) \cup {i} /\ i \notin Answered(o)
  BY <1>2, RequestAssumption DEF Answered
<1>5. \A q \in Ops : q # o => Answered(q)' = Answered(q)
  BY <1>2, RequestAssumption DEF Answered
<1>6. /\ count'[o] = Cardinality(Answered(o)')
      /\ \A q \in Ops : q # o => count'[q] = count[q] /\ result'[q] = result[q]
                                 /\ pc'[q] = pc[q]
  <2>1. Cardinality(Answered(o)') = Cardinality(Answered(o)) + 1
    BY <1>3, <1>4, FS_AddElement
  <2> QED BY <2>1 DEF Receive, Return, CountInv
<1>7. count'[o] = Cardinality(IdsOf[o]) => Answered(o)' = IdsOf[o]
  <2>1. Answered(o)' \in SUBSET IdsOf[o]
    BY <1>4, <1>1 DEF Answered
  <2> QED BY <2>1, <1>3, <1>6, FS_Subset
<1>8. result'[o] = "ok" => pc'[o] = "done" /\ count'[o] = Cardinality(IdsOf[o])
  BY DEF Receive, Return, CountInv
<1> QED BY <1>5, <1>6, <1>7, <1>8 DEF CountInv

LEMMA CountStep ==
    ASSUME TypeOK, RespHasRoom, CountInv, [Next]_vars PROVE CountInv'
<1> USE DEF TypeOK, CountInv, callerVars
<1>a. taken' = taken => \A q \in Ops : Answered(q)' = Answered(q)
  BY DEF Answered
<1> USE <1>a
<1>1. ASSUME NEW o \in Ops, Receive(o) PROVE CountInv'
  BY <1>1, ReceiveCounts
<1>2. ASSUME NEW o \in Ops,
             Begin(o) \/ ReqInit(o) \/ DialOk(o) \/ Reconnected(o) \/ Timeout(o)
      PROVE  CountInv'
  BY <1>2 DEF Begin, ReqInit, DialOk, Reconnected, Timeout
<1>3. ASSUME NEW o \in Ops,
             SendGivesUp(o) \/ WriteFails(o) \/ DialFails(o) \/ HandoverQuit(o)
             \/ Lost(o) \/ ReqTimeout(o) \/ TimeoutQuit(o)
      PROVE  CountInv'
  BY <1>3 DEF SendGivesUp, WriteFails, DialFails, HandoverQuit, Lost, ReqTimeout,
              TimeoutQuit, Return
<1>4. ASSUME NEW o \in Ops, WriteOk(o) PROVE CountInv'
  <2>1. IdsOf[o] = {} => Answered(o) = {}
    BY DEF Answered
  <2>2. taken' = taken /\ count' = count
    BY <1>4 DEF WriteOk
  <2>3. CASE IdsOf[o] = {}
    <3>1. /\ pc' = [pc EXCEPT ![o] = "done"] /\ result' = [result EXCEPT ![o] = "ok"]
          /\ Answered(o)' = IdsOf[o]
      BY <1>4, <2>1, <2>2, <2>3 DEF WriteOk, Return
    <3>2. \A q \in Ops : Answered(q)' = Answered(q)
      BY <2>2
    <3> QED BY <2>2, <3>1, <3>2
  <2>4. CASE IdsOf[o] # {}
    BY <1>4, <2>2, <2>4 DEF WriteOk
  <2> QED BY <2>3, <2>4
<1>5. ASSUME NEW p \in Procs, ReverseCall(p) PROVE CountInv'
  BY <1>5 DEF ReverseCall
<1>6. CASE UNCHANGED <<pc, result, taken, count>>
  BY <1>6
<1>7. ASSUME NEW k \in Conns,
             Read(k) \/ ReadFails(k) \/ Handle(k) \/ ReadErr(k) \/ DrainMsg(k) \/ DrainErr(k)
      PROVE  UNCHANGED <<pc, result, taken, count>>
  BY <1>7 DEF Read, ReadFails, Handle, ReadErr, DrainMsg, DrainErr
<1>8. ReqSent \/ Cancel \/ CallsDone \/ Attach \/ UNCHANGED vars
        => UNCHANGED <<pc, result, taken, count>>
  BY DEF ReqSent, Cancel, CallsDone, Attach, vars
<1>9. ASSUME NEW p \in Procs, ProcEnd(p) PROVE UNCHANGED <<pc, result, taken, count>>
  BY <1>9 DEF ProcEnd
<1>10. ASSUME NEW c \in Closers, CloseBegin(c) \/ CloseTaken(c) \/ CloseEnd(c)
       PROVE  UNCHANGED <<pc, result, taken, count>>
  BY <1>10 DEF CloseBegin, CloseTaken, CloseEnd
<1> QED
  BY <1>1, <1>2, <1>3, <1>4, <1>5, <1>6, <1>7, <1>8, <1>9, <1>10
     DEF Next, RequestStep, CallerStep, CloseStep

\* The responses a caller counts are answers to different elements of its batch.
THEOREM CountHolds == Spec => []CountInv
<1>1. Init => CountInv
  <2> SUFFICES ASSUME Init, NEW o \in Ops
               PROVE  count[o] = Cardinality(Answered(o)) /\ result[o] # "ok"
    BY DEF CountInv
  <2>1. \A i \in IdsOf[o] : taken[i] = 0
    BY RequestAssumption DEF Init
  <2>2. Answered(o) = {}
    BY <2>1 DEF Answered
  <2>3. Cardinality({}) = 0
    BY FS_EmptySet
  <2> QED BY <2>2, <2>3 DEF Init
<1>2. TypeOK /\ RespHasRoom /\ CountInv /\ [Next]_vars => CountInv'
  BY CountStep
<1> QED BY <1>1, <1>2, TypeCorrect, RoomHolds, PTL DEF Spec

\* A BatchCall that returns without an error has one response for each of its
\* elements, whatever the peer repeats, reorders or sends too late.
THEOREM ExactAnswersHolds == Spec => []ExactAnswers
<1>1. CountInv => ExactAnswers
  BY DEF CountInv, Answered, ExactAnswers
<1> QED BY <1>1, CountHolds, PTL

-----------------------------------------------------------------------------
(* Connections.                                                            *)

\* Each step that opens a connection says who will close it.
LEMMA CodecStep ==
    ASSUME TypeOK, WriteLock, PhaseInv, CodecInv, [Next]_vars PROVE CodecInv'
<1> USE ConnFacts DEF TypeOK, CodecInv, callerVars, dispVars, connVars
<1>1. ASSUME NEW o \in Ops, Begin(o) \/ SendGivesUp(o) \/ WriteFails(o) \/ DialFails(o)
      PROVE  CodecInv'
  BY <1>1 DEF Begin, SendGivesUp, WriteFails, DialFails
<1>2. ASSUME NEW o \in Ops, ReqInit(o) \/ WriteOk(o) PROVE CodecInv'
  BY <1>2 DEF ReqInit, WriteOk
<1>3. ASSUME NEW o \in Ops, DialOk(o) PROVE CodecInv'
  <2>1. dialed = NoConn
    BY <1>3 DEF DialOk, WriteLock
  <2> QED BY <1>3, <2>1 DEF DialOk
<1>4. ASSUME NEW o \in Ops, HandoverQuit(o) PROVE CodecInv'
  BY <1>4 DEF HandoverQuit, WriteLock
<1>5. ASSUME NEW o \in Ops, Reconnected(o) PROVE CodecInv'
  BY <1>5 DEF Reconnected, PhaseInv
<1>6. ASSUME NEW o \in Ops,
             Receive(o) \/ Lost(o) \/ Timeout(o) \/ TimeoutQuit(o) \/ ReqTimeout(o)
      PROVE  CodecInv'
  BY <1>6 DEF Receive, Lost, Timeout, TimeoutQuit, ReqTimeout
<1>7. ASSUME NEW k \in Conns, Read(k) \/ ReadFails(k) \/ Handle(k) \/ ReadErr(k)
      PROVE  CodecInv'
  BY <1>7 DEF Read, ReadFails, Handle, ReadErr
<1>8. ReqSent \/ Cancel => CodecInv'
  BY DEF ReqSent, Cancel
<1>9. CASE CallsDone
  BY <1>9 DEF CallsDone
<1>10. ASSUME NEW k \in Conns, DrainMsg(k) \/ DrainErr(k) PROVE CodecInv'
  BY <1>10 DEF DrainMsg, DrainErr
<1>11. CASE Attach
  BY <1>11 DEF Attach
<1>12. ASSUME NEW p \in Procs, ReverseCall(p) \/ ProcEnd(p) PROVE CodecInv'
  BY <1>12 DEF ReverseCall, ProcEnd
<1>13. ASSUME NEW c \in Closers, CloseBegin(c) \/ CloseTaken(c) \/ CloseEnd(c)
       PROVE  CodecInv'
  BY <1>13 DEF CloseBegin, CloseTaken, CloseEnd
<1>14. CASE UNCHANGED vars
  BY <1>14 DEF vars
<1> QED
  BY <1>1, <1>2, <1>3, <1>4, <1>5, <1>6, <1>7, <1>8, <1>9, <1>10, <1>11, <1>12, <1>13,
     <1>14
     DEF Next, RequestStep, CallerStep, CloseStep

\* Every open connection is the current one, or one on its way to dispatch.
THEOREM CodecsTracked == Spec => []CodecInv
<1>1. Init => CodecInv
  BY ConnFacts DEF Init, CodecInv
<1>2. TypeOK /\ WriteLock /\ PhaseInv /\ CodecInv /\ [Next]_vars => CodecInv'
  BY CodecStep
<1> QED BY <1>1, <1>2, WriteLockHolds, PTL DEF Spec

\* A client that has quit leaves no connection open.
THEOREM NoConnLeaks == Spec => []NoLeakedConn
<1>1. TypeOK /\ PhaseInv /\ CodecInv => NoLeakedConn
  BY ConnFacts DEF TypeOK, PhaseInv, CodecInv, NoLeakedConn, DidClose
<1> QED BY <1>1, CodecsTracked, WriteLockHolds, PTL

-----------------------------------------------------------------------------
(* Waiting requests.                                                       *)

\* WaitersTracked and what makes it inductive.
Tracked == WaitersTracked /\ TrackInv

LEMMA TrackStep ==
    ASSUME TypeOK, WriteLock, PhaseInv, RespHasRoom, FreshInv, CodecInv, Tracked,
           [Next]_vars
    PROVE  Tracked'
<1> USE RequestAssumption, ConnFacts
    DEF TypeOK, Tracked, WaitersTracked, TrackInv, callerVars, dispVars, connVars
<1>1. ASSUME NEW o \in Ops, Begin(o) PROVE Tracked'
  BY <1>1 DEF Begin
<1>2. ASSUME NEW o \in Ops, SendGivesUp(o) PROVE Tracked'
  <2>1. /\ pc' = [pc EXCEPT ![o] = "done"]
        /\ UNCHANGED <<queued, taken, closedResp, reqSent, spared, dpc, lastOp, reading, incoming,
                       respWait>>
    BY <1>2 DEF SendGivesUp, Return
  <2>2. WaitersTracked'
    BY <2>1
  <2>3. TrackInv'
    BY <2>1 DEF WriteLock
  <2> QED BY <2>2, <2>3
<1>3. ASSUME NEW o \in Ops, ReqInit(o) PROVE Tracked'
  BY <1>3 DEF ReqInit, WriteLock
<1>4. ASSUME NEW o \in Ops, WriteOk(o) PROVE Tracked'
  <2>1. pc[o] = "write" /\ lastOp = o /\ dialed = NoConn
    BY <1>4 DEF WriteOk, WriteLock
  <2>2. ~reading => incoming # NoConn
    BY <1>4, <2>1 DEF WriteOk, CodecInv
  <2> QED BY <1>4, <2>1, <2>2 DEF WriteOk, Return
<1>5. ASSUME NEW o \in Ops, WriteFails(o) \/ DialFails(o) \/ HandoverQuit(o)
      PROVE  Tracked'
  BY <1>5 DEF WriteFails, DialFails, HandoverQuit, Return, WriteLock
<1>6. ASSUME NEW o \in Ops, DialOk(o) PROVE Tracked'
  BY <1>6 DEF DialOk
<1>7. ASSUME NEW o \in Ops, Reconnected(o) PROVE Tracked'
  BY <1>7 DEF Reconnected, PhaseInv
<1>8. ASSUME NEW o \in Ops, Receive(o) PROVE Tracked'
  <2>1. \A i \in Ids : taken'[i] + queued'[i] = taken[i] + queued[i]
    BY <1>8 DEF Receive
  <2>2. /\ UNCHANGED <<reading, respWait, incoming, lastOp, closedResp, spared, reqSent, dpc>>
        /\ \A q \in Ops : q # o => pc'[q] = pc[q]
        /\ pc[o] = "wait" /\ pc'[o] \in {"wait", "done"}
    BY <1>8 DEF Receive, Return
  <2>3. WaitersTracked'
    BY <2>1, <2>2
  <2> QED BY <2>2, <2>3 DEF WriteLock
<1>9. ASSUME NEW o \in Ops, Lost(o) \/ Timeout(o) \/ TimeoutQuit(o) PROVE Tracked'
  BY <1>9 DEF Lost, Timeout, TimeoutQuit, Return, WriteLock
<1>10. ASSUME NEW o \in Ops, ReqTimeout(o) PROVE Tracked'
  BY <1>10 DEF ReqTimeout, Return
<1>11. ASSUME NEW k \in Conns, Read(k) \/ ReadFails(k) \/ ReadErr(k) PROVE Tracked'
  BY <1>11 DEF Read, ReadFails, ReadErr
<1>12. ASSUME NEW k \in Conns, Handle(k) PROVE Tracked'
  BY <1>12 DEF Handle, RespHasRoom, FreshInv
<1>13. CASE ReqSent
  <2>1. lastOp \in Ops /\ (reqSent = "err" => pc[lastOp] = "done")
    BY <1>13 DEF ReqSent, WriteLock
  <2>2. ASSUME NEW o \in Ops, pc[o] = "wait"
        PROVE  IdsOf[o] \cap respWait \subseteq respWait'
    BY <1>13, <2>1, <2>2 DEF ReqSent
  <2>3. WaitersTracked'
    BY <1>13, <2>2 DEF ReqSent, PhaseInv
  <2> QED BY <1>13, <2>3 DEF ReqSent, WriteLock
<1>14. CASE Cancel
  BY <1>14 DEF Cancel, Inflight, Closing, PhaseInv, WriteLock
<1>15. CASE CallsDone
  BY <1>15 DEF CallsDone
<1>16. ASSUME NEW k \in Conns, DrainMsg(k) \/ DrainErr(k) PROVE Tracked'
  BY <1>16 DEF DrainMsg, DrainErr
<1>17. CASE Attach
  BY <1>17 DEF Attach, WriteLock
<1>18. ASSUME NEW p \in Procs, ReverseCall(p) \/ ProcEnd(p) PROVE Tracked'
  BY <1>18 DEF ReverseCall, ProcEnd, WriteLock
<1>19. ASSUME NEW c \in Closers, CloseBegin(c) \/ CloseTaken(c) \/ CloseEnd(c)
       PROVE  Tracked'
  BY <1>19 DEF CloseBegin, CloseTaken, CloseEnd, PhaseInv
<1>20. CASE UNCHANGED vars
  BY <1>20 DEF vars
<1> QED
  BY <1>1, <1>2, <1>3, <1>4, <1>5, <1>6, <1>7, <1>8, <1>9, <1>10, <1>11, <1>12, <1>13,
     <1>14, <1>15, <1>16, <1>17, <1>18, <1>19, <1>20
     DEF Next, RequestStep, CallerStep, CloseStep

\* The bookkeeping of dispatch behind the next theorem.
THEOREM TrackedHolds == Spec => []Tracked
<1>1. Init => Tracked
  BY ConnFacts DEF Init, Tracked, WaitersTracked, TrackInv
<1>2. TypeOK /\ WriteLock /\ PhaseInv /\ RespHasRoom /\ FreshInv /\ CodecInv /\ Tracked
        /\ [Next]_vars => Tracked'
  BY TrackStep
<1> QED BY <1>1, <1>2, WriteLockHolds, RoomHolds, CodecsTracked, PTL DEF Spec

\* A caller that waits can still be answered or told of the loss, unless its
\* request was in flight when a read error closed its connection.
THEOREM WaitersTrackedHolds == Spec => []WaitersTracked
<1>1. Tracked => WaitersTracked
  BY DEF Tracked
<1> QED BY <1>1, TrackedHolds, PTL

\* After Close everybody who waits is told, the spared requests excepted: what
\* the comment of Close says fails for those alone.
THEOREM CloseAbortsTheRest == Spec => []CloseAbortsRest
<1>1. TypeOK /\ PhaseInv /\ Tracked => CloseAbortsRest
  BY RequestAssumption
     DEF TypeOK, PhaseInv, Tracked, TrackInv, WaitersTracked, CloseAbortsRest, DidClose
<1> QED BY <1>1, WriteLockHolds, TrackedHolds, PTL

=============================================================================
