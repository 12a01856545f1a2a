--------------------------- MODULE DispatchProofs ---------------------------
(***************************************************************************)
(* Proof that dispatch is never blocked by a goroutine that waits for it,  *)
(* for every number of callers of Unsubscribe, buffer bound and number of  *)
(* notifications, unless the connection breaks by itself.                  *)
(*                                                                         *)
(* HolderInv follows quitOnce, LockInv the write lock of the connection.   *)
(* ToldInv is the heart: as long as the client reads, an unsubscribe call  *)
(* that is written and not answered is known to dispatch, so Close tells   *)
(* its caller before it looks at quitOnce.                                 *)
(***************************************************************************)
EXTENDS SubscriptionProofs

\* A held quitOnce has somebody in it, whose call has begun; forward leaves it done.
HolderInv ==
  /\ c.once = "held" => /\ \E a \in Client!Actors : q[a] = "unsub"
                        /\ rq["unsubscribe"] # "idle"
  /\ q["forward"] \in {"closeErr", "out"} => c.once = "done"

\* The request that writes is the one dispatch has let; a failed write is that one's, too.
LockInv ==
  /\ \A r \in Client!Requests : rq[r] = "write" => d.lastOp = r /\ reqSent = "none"
  /\ reqSent # "none" => d.lastOp # "none"
  /\ reqSent = "err" => rq[d.lastOp] = "failed"

\* The unsubscribe call waits for an answer that dispatch has not handled.
Untold == rq["unsubscribe"] \in {"write", "wait"} /\ resp["unsubscribe"] = "none"

ToldInv ==
  /\ Untold /\ d.reading =>
       IF d.pc = "cancel" THEN ~d.closing ELSE "unsubscribe" \in d.respWait
  /\ d.pc = "cancel" => d.reading
  /\ d.pc \in {"select", "deliver"} => ~d.closing
  /\ d.pc = "deliver" => Begun

\* Without a break the connection lasts as long as the client reads from it.
LostInv ==
  /\ ~up /\ d.reading => Breaks
  /\ d.pc = "cancel" /\ ~d.closing => ~up

-----------------------------------------------------------------------------
LEMMA HolderInit == Init => HolderInv
BY DEF Init, Client!ClientInit, HolderInv, Client!Actors

LEMMA LockInit == Init => LockInv
BY DEF Init, Client!ClientInit, LockInv, Client!Requests

LEMMA ToldInit == Init => ToldInv /\ LostInv
BY DEF Init, Server!ServerInit, Client!ClientInit, ToldInv, LostInv, Untold, Client!Requests

(* A call that has begun stays begun.                                      *)
LEMMA RequestsStay ==
  ASSUME SubTypeOK, [Next]_vars, rq["unsubscribe"] # "idle"
  PROVE  rq'["unsubscribe"] # "idle"
<1>1. rq \in [Client!Requests -> {"idle", "send", "write", "wait", "done", "failed"}]
  BY DEF SubTypeOK
<1> QED BY <1>1, UnsubChanges DEF AtServer, AtClient, clientVars, Client!Requests,
     Server!HandleSubscribe, Server!CreateSubscription, Server!CallbackReturns,
     Server!HandleUnsubscribe, Server!ServerLost, Server!CancelServerSubs, Client!Subscribe,
     Client!ReqInit, Client!SendGivesUp, Client!Write, Client!Receive, Client!SubscribeTimeout,
     Client!OnceEnter

LEMMA HolderStep == SubTypeOK /\ OnceInv /\ StartInv /\ HolderInv /\ [Next]_vars => HolderInv'
<1> SUFFICES ASSUME SubTypeOK, OnceInv, StartInv, HolderInv, [Next]_vars PROVE HolderInv'
  OBVIOUS
<1> USE SubAssumption DEF HolderInv, Client!Actors
<1>a. c \in Forward /\ q \in [Client!Actors -> {"idle", "loop", "want", "unsub", "closeErr", "out"}]
  BY DEF SubTypeOK
<1>b. rq \in [Client!Requests -> {"idle", "send", "write", "wait", "done", "failed"}]
  BY DEF SubTypeOK
<1>c. rq["unsubscribe"] # "idle" => rq'["unsubscribe"] # "idle"
  BY RequestsStay
<1>1. CASE UNCHANGED <<q, c>>
  BY <1>1, <1>c
<1>2. CASE AtClient(Client!HandleAnswer)
  <2>1. c' = c /\ q' \in {q, [q EXCEPT !["forward"] = "loop"]} /\ (q' # q => ~Begun)
    BY <1>2 DEF AtClient, Client!HandleAnswer, StartInv
  <2> QED BY <2>1, <1>a, <1>c DEF Begun
<1>3. ASSUME NEW w, Client!Ends(w), q["forward"] = "loop" PROVE HolderInv'
  <2>1. c'.once = c.once /\ q' = [q EXCEPT !["forward"] = "want"]
    BY <1>3, <1>a DEF Client!Ends, Forward
  <2> QED BY <2>1, <1>3, <1>a, <1>c
<1>4. CASE AtClient(Client!Deliver)
  <2>1. CASE UNCHANGED q
    <3>1. c'.once = c.once
      BY <2>1, <1>4, <1>a DEF AtClient, Client!Deliver, Client!Ends, Forward
    <3> QED BY <3>1, <2>1, <1>c
  <2> QED BY <1>3, <1>4, <2>1 DEF AtClient, Client!Deliver
<1>5. CASE AtClient(Client!ForwardSend)
  BY <1>5, <1>a, <1>c DEF AtClient, Client!ForwardSend, Forward
<1>6. CASE AtClient(Client!ForwardQuit)
  BY <1>3, <1>6 DEF AtClient, Client!ForwardQuit
<1>7. ASSUME NEW u \in Users, AtClient(Client!Unsubscribe(u)) PROVE HolderInv'
  BY <1>7, <1>a, <1>c DEF AtClient, Client!Unsubscribe
<1>8. ASSUME NEW u \in Users, AtClient(Client!CloseErr(u)) PROVE HolderInv'
  <2>1. c'.once = c.once
    BY <1>8, <1>a DEF AtClient, Client!CloseErr, Forward
  <2> QED BY <1>8, <2>1, <1>a, <1>c DEF AtClient, Client!CloseErr
<1>9. ASSUME NEW a \in Client!Actors, AtClient(Client!OnceEnter(a)) PROVE HolderInv'
  <2>1. c'.once = "held" /\ c.once = "free"
    BY <1>9, <1>a DEF AtClient, Client!OnceEnter, Forward
  <2>2. q' = [q EXCEPT ![a] = "unsub"] /\ rq'["unsubscribe"] = "send"
    BY <1>9, <1>b DEF AtClient, Client!OnceEnter, Client!Requests
  <2> QED BY <2>1, <2>2, <1>a
<1>10. ASSUME NEW a \in Client!Actors, AtClient(Client!OnceLeave(a)) PROVE HolderInv'
  BY <1>10, <1>a DEF AtClient, Client!OnceLeave, Forward
<1>11. ASSUME NEW a \in Client!Actors, AtClient(Client!OnceSkip(a)) PROVE HolderInv'
  BY <1>11, <1>a DEF AtClient, Client!OnceSkip
<1>12. CASE AtClient(Client!CancelSub)
  <2>1. UNCHANGED c \/ c'.once = "done"
    BY <1>12, <1>a DEF AtClient, Client!CancelSub, Forward
  <2> QED BY <2>1, <1>12, <1>c DEF AtClient, Client!CancelSub
<1> QED
  BY <1>1, <1>2, <1>4, <1>5, <1>6, <1>7, <1>8, <1>9, <1>10, <1>11, <1>12, OnceChanges

(* What the steps of the client do to dispatch apart from requests.        *)
LEMMA DispatchIs ==
  ASSUME SubTypeOK
  PROVE  /\ AtClient(Client!HandleAnswer) \/ AtClient(Client!HandleUnsubscribed)
              => /\ UNCHANGED <<d.pc, d.closing, d.reading, d.lastOp, reqSent, rq, up>>
                 /\ d'.respWait \subseteq d.respWait /\ d.pc = "select"
         /\ AtClient(Client!HandleNote)
              => /\ UNCHANGED <<d.closing, d.reading, d.lastOp, d.respWait, reqSent, rq, resp, up>>
                 /\ d'.pc = IF d.subs THEN "deliver" ELSE d.pc
                 /\ d.pc = "select"
         /\ AtClient(Client!Deliver) \/ AtClient(Client!DeliverQuit)
              => /\ UNCHANGED <<d.closing, d.reading, d.lastOp, d.respWait, reqSent, rq, resp, up>>
                 /\ d'.pc = "select" /\ d.pc = "deliver"
         /\ AtClient(Client!ReadErr)
              => /\ UNCHANGED <<d.closing, d.reading, d.lastOp, reqSent, rq, up>>
                 /\ d'.pc = "cancel" /\ d.pc = "select" /\ d.reading /\ ~up
         /\ AtClient(Client!Close)
              => /\ UNCHANGED <<d.reading, d.lastOp, reqSent, rq, up>>
                 /\ d'.pc = (IF d.reading THEN "cancel" ELSE "quit") /\ d'.closing
                 /\ d.pc = "select" /\ ~d.closing
         /\ AtClient(Client!CancelSub)
              => /\ UNCHANGED <<d.closing, d.lastOp, reqSent, rq, resp>>
                 /\ d'.pc = (IF d.closing THEN "quit" ELSE "select") /\ ~d'.reading /\ ~up'
                 /\ d.pc = "cancel"
<1>a. d \in Dispatch
  BY DEF SubTypeOK
<1>1. AtClient(Client!HandleAnswer) \/ AtClient(Client!HandleUnsubscribed)
        => /\ UNCHANGED <<d.pc, d.closing, d.reading, d.lastOp, reqSent, rq, up>>
           /\ d'.respWait \subseteq d.respWait /\ d.pc = "select"
  <2>1. CASE AtClient(Client!HandleAnswer)
    BY <2>1, <1>a DEF AtClient, Client!HandleAnswer, Client!Incoming, Dispatch
  <2>2. CASE AtClient(Client!HandleUnsubscribed)
    BY <2>2, <1>a DEF AtClient, Client!HandleUnsubscribed, Client!Incoming, Dispatch
  <2> QED BY <2>1, <2>2
<1>2. AtClient(Client!HandleNote)
        => /\ UNCHANGED <<d.closing, d.reading, d.lastOp, d.respWait, reqSent, rq, resp, up>>
           /\ d'.pc = IF d.subs THEN "deliver" ELSE d.pc
           /\ d.pc = "select"
  BY <1>a DEF AtClient, Client!HandleNote, Client!Incoming, Dispatch
<1>3. AtClient(Client!Deliver) \/ AtClient(Client!DeliverQuit)
        => /\ UNCHANGED <<d.closing, d.reading, d.lastOp, d.respWait, reqSent, rq, resp, up>>
           /\ d'.pc = "select" /\ d.pc = "deliver"
  <2>1. AtClient(Client!Deliver) \/ AtClient(Client!DeliverQuit)
          => /\ UNCHANGED <<reqSent, rq, resp, up>> /\ d.pc = "deliver"
             /\ d' = [d EXCEPT !.pc = "select", !.item = 0]
    BY DEF AtClient, Client!Deliver, Client!DeliverQuit, Client!wire
  <2> QED BY <2>1, <1>a DEF Dispatch
<1>4. AtClient(Client!ReadErr)
        => /\ UNCHANGED <<d.closing, d.reading, d.lastOp, reqSent, rq, up>>
           /\ d'.pc = "cancel" /\ d.pc = "select" /\ d.reading /\ ~up
  BY <1>a DEF AtClient, Client!ReadErr, Client!wire, Dispatch
<1>5. AtClient(Client!Close)
        => /\ UNCHANGED <<d.reading, d.lastOp, reqSent, rq, up>>
           /\ d'.pc = (IF d.reading THEN "cancel" ELSE "quit") /\ d'.closing
           /\ d.pc = "select" /\ ~d.closing
  BY <1>a DEF AtClient, Client!Close, Client!wire, Dispatch
<1>6. AtClient(Client!CancelSub)
        => /\ UNCHANGED <<d.closing, d.lastOp, reqSent, rq, resp>>
           /\ d'.pc = (IF d.closing THEN "quit" ELSE "select") /\ ~d'.reading /\ ~up'
           /\ d.pc = "cancel"
  <2>1. AtClient(Client!CancelSub)
          => /\ UNCHANGED <<reqSent, rq, resp>> /\ ~up' /\ d.pc = "cancel"
             /\ d' = [d EXCEPT !.pc = IF d.closing THEN "quit" ELSE "select",
                               !.subs = FALSE, !.reading = FALSE, !.open = FALSE]
    BY DEF AtClient, Client!CancelSub
  <2> QED BY <2>1, <1>a DEF Dispatch
<1> QED BY <1>1, <1>2, <1>3, <1>4, <1>5, <1>6

(* The other steps leave dispatch and its requests alone.                  *)
LEMMA RequestChanges ==
  ASSUME [Next]_vars
  PROVE  \/ UNCHANGED <<d, reqSent, rq, resp>>
         \/ AtClient(Client!Subscribe)
         \/ \E r \in Client!Requests : \/ AtClient(Client!ReqInit(r))
                                       \/ AtClient(Client!SendGivesUp(r))
                                       \/ AtClient(Client!Write(r))
                                       \/ AtClient(Client!Receive(r))
         \/ AtClient(Client!ReqSent) \/ AtClient(Client!SubscribeTimeout)
         \/ AtClient(Client!HandleAnswer) \/ AtClient(Client!HandleUnsubscribed)
         \/ AtClient(Client!HandleNote) \/ AtClient(Client!Deliver)
         \/ AtClient(Client!DeliverQuit) \/ AtClient(Client!ReadErr)
         \/ AtClient(Client!Close) \/ AtClient(Client!CancelSub)
         \/ \E a \in Client!Actors : AtClient(Client!OnceEnter(a))
BY ServerStep DEF clientVars, AtClient, Client!ForwardSend, Client!ForwardQuit, Client!Unsubscribe,
   Client!CloseErr, Client!OnceLeave, Client!OnceSkip

(* The unsubscribe call begins inside a quitOnce that nobody was in yet.   *)
LEMMA EnterIs ==
  ASSUME SubTypeOK, OnceInv, StartInv, NEW a \in Client!Actors, AtClient(Client!OnceEnter(a))
  PROVE  /\ rq["unsubscribe"] = "idle" /\ rq' = [rq EXCEPT !["unsubscribe"] = "send"]
         /\ UNCHANGED <<d, reqSent, resp, up>>
BY DEF AtClient, Client!OnceEnter, Client!wire, OnceInv, StartInv

LEMMA LockStep == SubTypeOK /\ OnceInv /\ StartInv /\ LockInv /\ [Next]_vars => LockInv'
<1> SUFFICES ASSUME SubTypeOK, OnceInv, StartInv, LockInv, [Next]_vars PROVE LockInv'
  OBVIOUS
<1> USE DEF LockInv, Client!Requests
<1>a. /\ d \in Dispatch /\ reqSent \in {"none", "ok", "err"}
      /\ rq \in [Client!Requests -> {"idle", "send", "write", "wait", "done", "failed"}]
  BY DEF SubTypeOK
<1>b. d.lastOp \in {"subscribe", "unsubscribe", "none"}
  BY <1>a DEF Dispatch
<1>1. CASE UNCHANGED <<d, reqSent, rq, resp>>
  BY <1>1
<1>2. CASE AtClient(Client!Subscribe)
  BY <1>2, <1>a, <1>b DEF AtClient, Client!Subscribe
<1>3. ASSUME NEW r \in Client!Requests, AtClient(Client!ReqInit(r)) PROVE LockInv'
  <2>1. d'.lastOp = r /\ d.lastOp = "none"
    BY <1>3, <1>a DEF AtClient, Client!ReqInit, Dispatch
  <2> QED BY <2>1, <1>3, <1>a DEF AtClient, Client!ReqInit
<1>4. ASSUME NEW r \in Client!Requests,
             AtClient(Client!SendGivesUp(r)) \/ AtClient(Client!Receive(r))
      PROVE  LockInv'
  <2>1. /\ UNCHANGED <<d, reqSent>>
        /\ \E p \in {"done", "failed"} : rq' = [rq EXCEPT ![r] = p]
        /\ rq[r] \in {"send", "wait"}
    BY <1>4 DEF AtClient, Client!SendGivesUp, Client!Receive
  <2> QED BY <2>1, <1>a, <1>b
<1>5. ASSUME NEW r \in Client!Requests, AtClient(Client!Write(r)) PROVE LockInv'
  <2>1. /\ rq[r] = "write" /\ UNCHANGED d
        /\ \/ rq' = [rq EXCEPT ![r] = "wait"] /\ reqSent' = "ok"
           \/ rq' = [rq EXCEPT ![r] = "failed"] /\ reqSent' = "err"
    BY <1>5 DEF AtClient, Client!Write
  <2> QED BY <2>1, <1>a, <1>b
<1>6. CASE AtClient(Client!ReqSent)
  <2>1. reqSent' = "none" /\ rq' = rq /\ reqSent # "none"
    BY <1>6 DEF AtClient, Client!ReqSent
  <2> QED BY <2>1
<1>7. CASE AtClient(Client!SubscribeTimeout)
  <2>1. d'.lastOp = d.lastOp
    BY <1>7, <1>a DEF AtClient, Client!SubscribeTimeout, Dispatch
  <2> QED BY <2>1, <1>7, <1>a, <1>b DEF AtClient, Client!SubscribeTimeout
<1>8. CASE \/ AtClient(Client!HandleAnswer) \/ AtClient(Client!HandleUnsubscribed)
           \/ AtClient(Client!HandleNote) \/ AtClient(Client!Deliver)
           \/ AtClient(Client!DeliverQuit) \/ AtClient(Client!ReadErr)
           \/ AtClient(Client!Close) \/ AtClient(Client!CancelSub)
  <2>1. d'.lastOp = d.lastOp /\ UNCHANGED <<reqSent, rq>>
    BY <1>8, DispatchIs
  <2> QED BY <2>1
<1>9. ASSUME NEW a \in Client!Actors, AtClient(Client!OnceEnter(a)) PROVE LockInv'
  BY <1>9, <1>a, <1>b, EnterIs
<1> QED BY <1>1, <1>2, <1>3, <1>4, <1>5, <1>6, <1>7, <1>8, <1>9, RequestChanges

(* Reading and the connection end together, unless the connection breaks.  *)
LEMMA LostStep == SubTypeOK /\ LostInv /\ [Next]_vars => LostInv'
<1> SUFFICES ASSUME SubTypeOK, LostInv, [Next]_vars PROVE LostInv'
  OBVIOUS
<1> USE SubAssumption DEF LostInv
<1>a. d \in Dispatch /\ up \in BOOLEAN
  BY DEF SubTypeOK
<1>1. CASE Break
  BY <1>1 DEF Break, clientVars
<1>2. CASE UNCHANGED up /\ UNCHANGED <<d.pc, d.closing, d.reading>>
  BY <1>2
<1>3. CASE \/ AtClient(Client!HandleNote) \/ AtClient(Client!Deliver)
           \/ AtClient(Client!DeliverQuit) \/ AtClient(Client!ReadErr)
           \/ AtClient(Client!Close) \/ AtClient(Client!CancelSub)
  <2>1. CASE AtClient(Client!HandleNote) \/ AtClient(Client!Deliver) \/ AtClient(Client!DeliverQuit)
    BY <2>1, <1>a, DispatchIs DEF Dispatch
  <2>2. CASE AtClient(Client!ReadErr) \/ AtClient(Client!Close) \/ AtClient(Client!CancelSub)
    BY <2>2, <1>a, DispatchIs
  <2> QED BY <1>3, <2>1, <2>2
<1>4. CASE AtClient(Client!ReqSent) \/ AtClient(Client!SubscribeTimeout)
  BY <1>2, <1>4, <1>a DEF AtClient, Client!ReqSent, Client!SubscribeTimeout, Client!wire, Dispatch
<1>5. ASSUME NEW r \in Client!Requests, AtClient(Client!ReqInit(r)) PROVE LostInv'
  BY <1>2, <1>5, <1>a DEF AtClient, Client!ReqInit, Client!wire, Dispatch
<1>6. CASE AtClient(Client!HandleAnswer) \/ AtClient(Client!HandleUnsubscribed)
  BY <1>2, <1>6, DispatchIs
<1>7. \/ UNCHANGED <<up, d>> \/ Break
      \/ \E r \in Client!Requests : AtClient(Client!ReqInit(r))
      \/ AtClient(Client!ReqSent) \/ AtClient(Client!SubscribeTimeout)
      \/ AtClient(Client!HandleAnswer) \/ AtClient(Client!HandleUnsubscribed)
      \/ AtClient(Client!HandleNote) \/ AtClient(Client!Deliver)
      \/ AtClient(Client!DeliverQuit) \/ AtClient(Client!ReadErr)
      \/ AtClient(Client!Close) \/ AtClient(Client!CancelSub)
  BY DEF Next, vars, serverVars, clientVars, AtServer, AtClient, Server!wire, Client!wire,
     Server!HandleSubscribe, Server!CreateSubscription, Server!CallbackReturns, Server!WriteAnswer,
     Server!Activate, Server!FlushOne, Server!FlushFails, Server!Activated, Server!Notify,
     Server!HandleUnsubscribe, Server!ServerLost, Server!CancelServerSubs, Client!Subscribe,
     Client!SendGivesUp, Client!Write, Client!Receive, Client!ForwardSend, Client!ForwardQuit,
     Client!Unsubscribe, Client!CloseErr, Client!OnceEnter, Client!OnceLeave, Client!OnceSkip
<1> QED BY <1>1, <1>2, <1>3, <1>4, <1>5, <1>6, <1>7

(* Close, and the answer itself, tell the caller of the unsubscribe call.  *)
LEMMA ToldStep ==
  SubTypeOK /\ OnceInv /\ StartInv /\ LockInv /\ ToldInv /\ [Next]_vars => ToldInv'
<1> SUFFICES ASSUME SubTypeOK, OnceInv, StartInv, LockInv, ToldInv, [Next]_vars PROVE ToldInv'
  OBVIOUS
<1> USE DEF ToldInv, Untold, Client!Requests
<1>a. /\ d \in Dispatch
      /\ rq \in [Client!Requests -> {"idle", "send", "write", "wait", "done", "failed"}]
      /\ resp \in [Client!Requests -> {"none", "ok", "err"}]
  BY DEF SubTypeOK
<1>b. (Begun' <=> Begun) \/ AtClient(Client!HandleAnswer)
  BY BegunChanges
<1>c. AtClient(Client!HandleAnswer) => d'.pc = "select"
  BY DispatchIs
<1>d. d'.pc = "deliver" /\ d.pc = "deliver" => Begun'
  BY <1>b, <1>c
<1>1. CASE UNCHANGED <<d, reqSent, rq, resp>>
  BY <1>1, <1>d
<1>2. CASE AtClient(Client!Subscribe)
  BY <1>2, <1>a, <1>d DEF AtClient, Client!Subscribe
<1>3. ASSUME NEW r \in Client!Requests, AtClient(Client!ReqInit(r)) PROVE ToldInv'
  <2>1. /\ UNCHANGED <<d.pc, d.closing, d.reading, resp>> /\ d.pc = "select"
        /\ d'.respWait = d.respWait \cup {r} /\ rq' = [rq EXCEPT ![r] = "write"]
    BY <1>3, <1>a DEF AtClient, Client!ReqInit, Dispatch
  <2> QED BY <2>1, <1>a
<1>4. ASSUME NEW r \in Client!Requests,
             \/ AtClient(Client!SendGivesUp(r)) \/ AtClient(Client!Receive(r))
             \/ AtClient(Client!Write(r))
      PROVE  ToldInv'
  <2>1. /\ UNCHANGED <<d, resp>>
        /\ \E p \in {"done", "failed", "wait"} :
             rq' = [rq EXCEPT ![r] = p] /\ (p = "wait" => rq[r] = "write")
    BY <1>4 DEF AtClient, Client!SendGivesUp, Client!Receive, Client!Write
  <2> QED BY <2>1, <1>a, <1>d
<1>5. CASE AtClient(Client!ReqSent)
  <2>1. /\ UNCHANGED <<d.pc, d.closing, d.reading, rq, resp>> /\ d.pc = "select"
        /\ d'.respWait = IF reqSent = "err" THEN d.respWait \ {d.lastOp} ELSE d.respWait
    BY <1>5, <1>a DEF AtClient, Client!ReqSent, Dispatch
  <2>2. reqSent = "err" /\ d.lastOp = "unsubscribe" => ~Untold
    BY DEF LockInv
  <2> QED BY <2>1, <2>2
<1>6. CASE AtClient(Client!SubscribeTimeout)
  <2>1. /\ UNCHANGED <<d.pc, d.closing, d.reading, resp>>
        /\ rq' = [rq EXCEPT !["subscribe"] = "failed"]
        /\ d'.respWait \in {d.respWait, d.respWait \ {"subscribe"}}
    BY <1>6, <1>a DEF AtClient, Client!SubscribeTimeout, Dispatch
  <2> QED BY <2>1, <1>a, <1>d
<1>7. CASE AtClient(Client!HandleAnswer)
  <2>1. d'.respWait = d.respWait \ {"subscribe"}
    BY <1>7, <1>a DEF AtClient, Client!HandleAnswer, Dispatch
  <2>2. resp'["unsubscribe"] = resp["unsubscribe"]
    BY <1>7, <1>a DEF AtClient, Client!HandleAnswer
  <2> QED BY <2>1, <2>2, <1>7, DispatchIs
<1>8. CASE AtClient(Client!HandleUnsubscribed)
  <2>1. "unsubscribe" \in d.respWait => resp'["unsubscribe"] = "ok"
    BY <1>8, <1>a DEF AtClient, Client!HandleUnsubscribed
  <2>2. "unsubscribe" \notin d.respWait => resp' = resp
    BY <1>8 DEF AtClient, Client!HandleUnsubscribed
  <2> QED BY <2>1, <2>2, <1>8, DispatchIs
<1>9. CASE AtClient(Client!HandleNote)
  <2>1. d.subs => Begun
    BY DEF StartInv
  <2>2. Begun' <=> Begun
    <3>1. q' = q
      BY <1>9 DEF AtClient, Client!HandleNote
    <3> QED BY <3>1 DEF Begun
  <2> QED BY <2>1, <2>2, <1>9, DispatchIs
<1>10. CASE AtClient(Client!Deliver) \/ AtClient(Client!DeliverQuit)
  BY <1>10, DispatchIs
<1>11. CASE AtClient(Client!ReadErr)
  BY <1>11, DispatchIs
<1>12. CASE AtClient(Client!Close)
  <2>1. CASE d.reading
    <3>1. "unsubscribe" \in d.respWait => resp'["unsubscribe"] = "err"
      BY <2>1, <1>12, <1>a DEF AtClient, Client!Close, Client!CancelRequests
    <3>2. "unsubscribe" \notin d.respWait => resp'["unsubscribe"] = resp["unsubscribe"]
      BY <2>1, <1>12, <1>a DEF AtClient, Client!Close, Client!CancelRequests
    <3> QED BY <3>1, <3>2, <2>1, <1>12, DispatchIs
  <2>2. CASE ~d.reading
    BY <2>2, <1>12, DispatchIs
  <2> QED BY <2>1, <2>2
<1>13. CASE AtClient(Client!CancelSub)
  BY <1>13, DispatchIs
<1>14. ASSUME NEW a \in Client!Actors, AtClient(Client!OnceEnter(a)) PROVE ToldInv'
  BY <1>14, <1>a, <1>d, EnterIs
<1> QED BY <1>1, <1>2, <1>3, <1>4, <1>5, <1>6, <1>7, <1>8, <1>9, <1>10, <1>11, <1>12, <1>13,
        <1>14, RequestChanges

-----------------------------------------------------------------------------
UnblockedInv == HolderInv /\ LockInv /\ ToldInv /\ LostInv

LEMMA UnblockedInductive == Spec => []UnblockedInv
<1>1. Init => UnblockedInv
  BY HolderInit, LockInit, ToldInit DEF UnblockedInv
<1>2. SubInv /\ UnblockedInv /\ [Next]_vars => UnblockedInv'
  BY HolderStep, LockStep, ToldStep, LostStep DEF UnblockedInv, SubInv
<1> QED BY <1>1, <1>2, Inductive, PTL DEF Spec

(* Whatever the interleaving of forward, of any number of callers of       *)
(* Unsubscribe and of Close: dispatch inside deliver or, because of Close, *)
(* inside cancelAllRequests waits for nobody who waits for dispatch.       *)
THEOREM DispatchNeverWedged == Spec => []DispatchUnblocked
<1>1. ASSUME SubInv, UnblockedInv PROVE DispatchUnblocked
  <2> USE <1>1 DEF UnblockedInv, Untold
  <2>a. /\ q \in [Client!Actors -> {"idle", "loop", "want", "unsub", "closeErr", "out"}]
        /\ rq \in [Client!Requests -> {"idle", "send", "write", "wait", "done", "failed"}]
        /\ "forward" \in Client!Actors /\ "unsubscribe" \in Client!Requests
    BY DEF SubInv, SubTypeOK, Client!Actors, Client!Requests
  <2>1. ASSUME d.pc = "deliver", q["forward"] # "loop", ~c.quit
        PROVE  q["forward"] = "want" /\ c.once = "free"
    <3>1. c.once = "free"
      BY <2>1 DEF SubInv, OnceInv
    <3>2. q["forward"] \notin {"idle", "unsub", "closeErr", "out"}
      BY <2>1, <3>1, <2>a DEF SubInv, OnceInv, HolderInv, ToldInv, Begun
    <3> QED BY <2>1, <3>1, <3>2, <2>a
  <2>2. ASSUME d.pc = "cancel", c.once = "held", Breaks => d.closing
        PROVE  /\ d.closing /\ \E a \in Client!Actors : q[a] = "unsub"
               /\ rq["unsubscribe"] \in {"send", "write", "wait", "done", "failed"}
               /\ rq["unsubscribe"] = "wait" => resp["unsubscribe"] # "none"
    <3>1. d.reading
      BY <2>2 DEF ToldInv
    <3>2. d.closing
      BY <2>2, <3>1 DEF LostInv
    <3>3. rq["unsubscribe"] = "wait" => resp["unsubscribe"] # "none"
      BY <2>2, <3>1, <3>2 DEF ToldInv
    <3>4. (\E a \in Client!Actors : q[a] = "unsub") /\ rq["unsubscribe"] # "idle"
      BY <2>2 DEF HolderInv
    <3> QED BY <3>2, <3>3, <3>4, <2>a
  <2> QED BY <2>1, <2>2 DEF DispatchUnblocked
<1> QED BY <1>1, Inductive, UnblockedInductive, PTL

=============================================================================
