------------------------- MODULE SubscriptionProofs -------------------------
(***************************************************************************)
(* Proofs about Subscription, for every number of notifications, buffer    *)
(* bound and set of callers of Unsubscribe: its types, the three           *)
(* invariants of the run SubFeed, and that the two ends and the connection *)
(* between them implement Feed.                                            *)
(*                                                                         *)
(* The invariant has a layer per concern.  OnceInv, StartInv, CallInv and  *)
(* UnsubInv say who may still do what; HeldInv counts what Notifier holds  *)
(* back; OrderInv follows every notification from the program that         *)
(* publishes to the one that reads; ExactInv says that none is missing     *)
(* while the subscription is live.                                         *)
(***************************************************************************)
EXTENDS Subscription, TLAPS

\* forward was started; the goroutine of the subscribe call has written its answer.
Begun    == q["forward"] # "idle"
Answered == proc \in {"answered", "flush", "done"}

\* quitOnce: one goroutine at a time, and what its function has done so far.
OnceInv ==
  /\ \A a \in Client!Actors : /\ q[a] = "unsub" => c.once = "held"
                              /\ q[a] = "closeErr" => c.once = "done"
  /\ \A a, b \in Client!Actors : q[a] = "unsub" /\ q[b] = "unsub" => a = b
  /\ c.once # "done" => c.err = << >> /\ ~c.errClosed
  /\ Len(c.err) <= 1
  /\ c.quit <=> c.once # "free"

\* Nothing of the client's subscription happens before its answer is handled.
StartInv ==
  /\ Begun => rq["subscribe"] \notin {"idle", "send"} /\ "subscribe" \notin d.respWait
  /\ rq["subscribe"] \in {"idle", "send"} => "subscribe" \notin d.respWait
  /\ resp["subscribe"] = "ok" \/ rq["subscribe"] = "done" \/ d.subs \/ c.quit => Begun
  /\ \A u \in Users : q[u] # "idle" => Begun
  /\ rq["unsubscribe"] # "idle" => c.quit
  /\ Begun => d.subs \/ c.quit
  /\ ~Begun => got = << >> /\ c.buffer = << >>

\* Where unsubscribe calls are on the connection.
Unsubs == {i \in 1 .. Len(toServer) : toServer[i] = "unsubscribe"}

\* The server has answered before anything reaches the client, and registered before that.
CallInv ==
  /\ toClient # << >> \/ Begun => Answered
  /\ proc = "idle" => sub = "none"
  /\ sub = "created" => proc = "callback"
  /\ proc = "accept" \/ Begun => sub # "none"
  /\ \A i \in 1 .. Len(toClient) : toClient[i].kind = "accept" => i = 1 /\ sub # "none" /\ ~Begun

\* The subscription is unsubscribed by the one call there is.
UnsubInv ==
  /\ Unsubs # {} => rq["unsubscribe"] \in {"wait", "done", "failed"}
  /\ \A i, j \in Unsubs : i = j
  /\ sub = "unsubscribed" => Unsubs = {} /\ rq["unsubscribe"] \in {"wait", "done", "failed"}
  /\ sub = "cancelled" => served = "closed"

\* What was published and is not held back was sent, or lost with the connection.
Sent == published - Len(pending)
HeldInv ==
  /\ Sent >= 0
  /\ \A i \in 1 .. Len(pending) : pending[i] = Sent + i
  /\ activated => pending = << >> /\ proc = "done"
  /\ ~Answered => Sent = 0

\* What the i-th message is; the reader's latest notification.
Note(i) == toClient[i].kind = "note"
Latest == IF got = << >> THEN 0 ELSE got[Len(got)]

\* The notifications on the connection, and those in forward's buffer, are in order ...
WireSorted == \A i, j \in 1 .. Len(toClient) :
                i < j /\ Note(i) /\ Note(j) => toClient[i].note < toClient[j].note
BufferSorted == \A i, j \in 1 .. Len(c.buffer) : i < j => c.buffer[i] < c.buffer[j]

\* ... and the reader's latest, the buffer, the one in deliver and the connection follow each other.
WireLast == \A j \in 1 .. Len(toClient) : Note(j) =>
              /\ toClient[j].note <= Sent /\ Latest < toClient[j].note
              /\ d.pc = "deliver" => d.item < toClient[j].note
WireAfterBuffer == \A j \in 1 .. Len(toClient), i \in 1 .. Len(c.buffer) :
                     Note(j) => c.buffer[i] < toClient[j].note
BufferNext == \A i \in 1 .. Len(c.buffer) : /\ Latest < c.buffer[i] /\ c.buffer[i] <= Sent
                                            /\ d.pc = "deliver" => c.buffer[i] < d.item
ItemNext == d.pc = "deliver" => Latest < d.item /\ d.item <= Sent

OrderInv == /\ WireSorted /\ BufferSorted /\ WireLast /\ WireAfterBuffer
            /\ BufferNext /\ ItemNext /\ Latest <= Sent

\* How many notifications have come through to the client.
Through == IF d.pc = "deliver" THEN Len(got) + Len(c.buffer) + 1 ELSE Len(got) + Len(c.buffer)
Live == q["forward"] = "loop" /\ ~c.quit

\* While it is live the reader, the buffer, deliver and the connection hold 1, 2, ... in this order.
LiveExact ==
  /\ Latest = Len(got)
  /\ \A i \in 1 .. Len(c.buffer) : c.buffer[i] = Len(got) + i
  /\ d.pc = "deliver" => d.item = Through
  /\ \A i \in 1 .. Len(toClient) : Note(i) /\ toClient[i].note = Through + i
  /\ up => Through + Len(toClient) = Sent

\* Before the client has the answer, all that was sent follows it.
AnswerExact ==
  /\ \A i \in 2 .. Len(toClient) : Note(i) /\ toClient[i].note = i - 1
  /\ up => Len(toClient) - 1 = Sent

Answer == Len(toClient) > 0 /\ toClient[1].kind = "accept"
ExactInv == (Live => LiveExact) /\ (Answer => AnswerExact)

-----------------------------------------------------------------------------
(* Types                                                                   *)

LEMMA SendTyped ==
  ASSUME SubTypeOK, NEW m \in Messages, Server!Send(m)
  PROVE  toClient' \in Seq(Messages)
BY DEF SubTypeOK, Server!Send

LEMMA EndsTyped ==
  ASSUME SubTypeOK, NEW w \in {"quit", "overflow", "badmsg"}, Client!Ends(w)
  PROVE  c' \in Forward /\ Len(c'.buffer) <= MaxBuffer
<1>1. c' = [c EXCEPT !.why = w, !.buffer = << >>]
  BY DEF Client!Ends
<1>2. << >> \in Seq(Nat) /\ Len(<< >>) = 0 /\ c \in Forward
  BY DEF SubTypeOK
<1>3. ASSUME NEW b \in Seq(Nat) PROVE [c EXCEPT !.why = w, !.buffer = b] \in Forward
  BY <1>2 DEF Forward
<1>4. c' \in Forward /\ c'.buffer = << >>
  BY <1>1, <1>2, <1>3 DEF Forward
<1> QED BY <1>2, <1>4, SubAssumption

LEMMA TypeInit == Init => SubTypeOK
<1> SUFFICES ASSUME Init PROVE SubTypeOK
  OBVIOUS
<1> USE DEF Init
<1>1. d \in Dispatch /\ c \in Forward /\ Len(c.buffer) <= MaxBuffer
  BY SubAssumption DEF Client!ClientInit, Dispatch, Forward
<1>2. rq \in [Client!Requests -> {"idle", "send", "write", "wait", "done", "failed"}]
  BY DEF Client!ClientInit
<1>3. resp \in [Client!Requests -> {"none", "ok", "err"}]
  BY DEF Client!ClientInit
<1>4. q \in [Client!Actors -> {"idle", "loop", "want", "unsub", "closeErr", "out"}]
  BY DEF Client!ClientInit
<1>5. reqSent = "none" /\ got = << >>
  BY DEF Client!ClientInit
<1>6. /\ toServer = << >> /\ toClient = << >> /\ up = TRUE
      /\ served = "up" /\ proc = "idle" /\ sub = "none"
      /\ activated = FALSE /\ pending = << >> /\ published = 0
  BY DEF Server!ServerInit
<1>7. 0 \in 0 .. MaxNotes
  BY SubAssumption
<1>8. << >> \in Seq({"subscribe", "unsubscribe"}) /\ << >> \in Seq(Messages) /\ << >> \in Seq(Nat)
  OBVIOUS
<1> QED BY <1>1, <1>2, <1>3, <1>4, <1>5, <1>6, <1>7, <1>8 DEF SubTypeOK

LEMMA TypeStep == SubTypeOK /\ [Next]_vars => SubTypeOK'
<1> SUFFICES ASSUME SubTypeOK, [Next]_vars PROVE SubTypeOK'
  OBVIOUS
<1> USE SubAssumption DEF SubTypeOK, serverVars, clientVars, Server!wire, Client!wire
<1>1. ASSUME AtServer(Server!HandleSubscribe) PROVE SubTypeOK'
  BY <1>1 DEF AtServer, Server!HandleSubscribe, Server!Incoming
<1>2. ASSUME AtServer(Server!CreateSubscription) PROVE SubTypeOK'
  BY <1>2 DEF AtServer, Server!CreateSubscription
<1>3. ASSUME NEW ok \in BOOLEAN, AtServer(Server!CallbackReturns(ok)) PROVE SubTypeOK'
  BY <1>3 DEF AtServer, Server!CallbackReturns
<1>4. ASSUME AtServer(Server!WriteAnswer) PROVE SubTypeOK'
  <2>1. Server!Message(proc, 0) \in Messages
    BY <1>4 DEF AtServer, Server!WriteAnswer, Server!Message, Messages
  <2>2. toClient' \in Seq(Messages)
    BY <1>4, <2>1, SendTyped DEF AtServer, Server!WriteAnswer
  <2> QED BY <1>4, <2>1, <2>2 DEF AtServer, Server!WriteAnswer
<1>5. ASSUME AtServer(Server!Activate) PROVE SubTypeOK'
  BY <1>5 DEF AtServer, Server!Activate
<1>6. ASSUME AtServer(Server!FlushOne) PROVE SubTypeOK'
  <2>1. Head(pending) \in Nat /\ pending' \in Seq(Nat)
    BY <1>6 DEF AtServer, Server!FlushOne
  <2>2. Server!Message("note", Head(pending)) \in Messages
    BY <1>6, <2>1 DEF AtServer, Server!Message, Messages
  <2>3. toClient' \in Seq(Messages)
    BY <1>6, <2>2, SendTyped DEF AtServer, Server!FlushOne
  <2> QED BY <1>6, <2>1, <2>2, <2>3 DEF AtServer, Server!FlushOne
<1>7. ASSUME AtServer(Server!FlushFails) PROVE SubTypeOK'
  BY <1>7 DEF AtServer, Server!FlushFails
<1>8. ASSUME AtServer(Server!Activated) PROVE SubTypeOK'
  BY <1>8 DEF AtServer, Server!Activated
<1>9. ASSUME AtServer(Server!Notify) PROVE SubTypeOK'
  <2>1. published' \in 0 .. MaxNotes /\ published' \in Nat
    BY <1>9 DEF AtServer, Server!Notify
  <2>2. Server!Message("note", published') \in Messages
    BY <1>9, <2>1 DEF AtServer, Server!Message, Messages
  <2>3. toClient' \in Seq(Messages)
    BY <1>9, <2>2, SendTyped DEF AtServer, Server!Notify
  <2>4. Append(pending, published') \in Seq(Nat)
    BY <2>1
  <2>5. pending' \in Seq(Nat)
    BY <1>9, <2>4 DEF AtServer, Server!Notify
  <2> QED BY <1>9, <2>1, <2>2, <2>3, <2>4, <2>5 DEF AtServer, Server!Notify
<1>10. ASSUME AtServer(Server!HandleUnsubscribe) PROVE SubTypeOK'
  <2>1. toServer' \in Seq({"subscribe", "unsubscribe"})
    BY <1>10 DEF AtServer, Server!HandleUnsubscribe, Server!Incoming
  <2>2. Server!Message("unsubscribed", 0) \in Messages
    BY <1>10 DEF AtServer, Server!Message, Messages
  <2>3. toClient' \in Seq(Messages)
    BY <1>10, <2>2, SendTyped DEF AtServer, Server!HandleUnsubscribe
  <2> QED BY <1>10, <2>1, <2>2, <2>3 DEF AtServer, Server!HandleUnsubscribe
<1>11. ASSUME AtServer(Server!ServerLost) PROVE SubTypeOK'
  BY <1>11 DEF AtServer, Server!ServerLost
<1>12. ASSUME AtServer(Server!CancelServerSubs) PROVE SubTypeOK'
  BY <1>12 DEF AtServer, Server!CancelServerSubs
<1>13. ASSUME AtClient(Client!Subscribe) PROVE SubTypeOK'
  <2>1. rq' \in [Client!Requests -> {"idle", "send", "write", "wait", "done", "failed"}]
    BY <1>13 DEF AtClient, Client!Subscribe, Client!Requests
  <2> QED BY <1>13, <2>1 DEF AtClient, Client!Subscribe
<1>14. ASSUME NEW r \in Client!Requests, AtClient(Client!ReqInit(r)) PROVE SubTypeOK'
  <2>1. d' \in Dispatch
    BY <1>14 DEF AtClient, Client!ReqInit, Client!Requests, Dispatch
  <2>2. rq' \in [Client!Requests -> {"idle", "send", "write", "wait", "done", "failed"}]
    BY <1>14 DEF AtClient, Client!ReqInit, Client!Requests
  <2> QED BY <1>14, <2>1, <2>2 DEF AtClient, Client!ReqInit
<1>15. ASSUME NEW r \in Client!Requests, AtClient(Client!SendGivesUp(r)) PROVE SubTypeOK'
  <2>1. rq' \in [Client!Requests -> {"idle", "send", "write", "wait", "done", "failed"}]
    BY <1>15 DEF AtClient, Client!SendGivesUp, Client!Requests
  <2> QED BY <1>15, <2>1 DEF AtClient, Client!SendGivesUp
<1>16. ASSUME NEW r \in Client!Requests, AtClient(Client!Write(r)) PROVE SubTypeOK'
  <2>1. rq' \in [Client!Requests -> {"idle", "send", "write", "wait", "done", "failed"}]
    BY <1>16 DEF AtClient, Client!Write, Client!Requests
  <2>2. Append(toServer, r) \in Seq({"subscribe", "unsubscribe"})
    BY <1>16 DEF AtClient, Client!Requests
  <2>3. toServer' \in Seq({"subscribe", "unsubscribe"}) /\ reqSent' \in {"ok", "err"}
    BY <1>16, <2>2 DEF AtClient, Client!Write
  <2> QED BY <1>16, <2>1, <2>2, <2>3 DEF AtClient, Client!Write
<1>17. ASSUME NEW r \in Client!Requests, AtClient(Client!Receive(r)) PROVE SubTypeOK'
  <2>1. rq' \in [Client!Requests -> {"idle", "send", "write", "wait", "done", "failed"}]
    BY <1>17 DEF AtClient, Client!Receive, Client!Requests
  <2> QED BY <1>17, <2>1 DEF AtClient, Client!Receive
<1>18. ASSUME AtClient(Client!ReqSent) PROVE SubTypeOK'
  <2>1. d' \in Dispatch
    BY <1>18 DEF AtClient, Client!ReqSent, Dispatch
  <2> QED BY <1>18, <2>1 DEF AtClient, Client!ReqSent
<1>19. ASSUME AtClient(Client!SubscribeTimeout) PROVE SubTypeOK'
  <2>1. d' \in Dispatch
    BY <1>19 DEF AtClient, Client!SubscribeTimeout, Dispatch
  <2>2. rq' \in [Client!Requests -> {"idle", "send", "write", "wait", "done", "failed"}]
    BY <1>19 DEF AtClient, Client!SubscribeTimeout, Client!Requests
  <2> QED BY <1>19, <2>1, <2>2 DEF AtClient, Client!SubscribeTimeout
<1>20. ASSUME AtClient(Client!HandleAnswer) PROVE SubTypeOK'
  <2>1. toClient' \in Seq(Messages)
    BY <1>20 DEF AtClient, Client!HandleAnswer, Client!Incoming
  <2>2. d' \in Dispatch
    BY <1>20 DEF AtClient, Client!HandleAnswer, Dispatch
  <2>3. resp' \in [Client!Requests -> {"none", "ok", "err"}]
    BY <1>20 DEF AtClient, Client!HandleAnswer, Client!Requests
  <2>4. q' \in [Client!Actors -> {"idle", "loop", "want", "unsub", "closeErr", "out"}]
    BY <1>20 DEF AtClient, Client!HandleAnswer, Client!Actors
  <2> QED BY <1>20, <2>1, <2>2, <2>3, <2>4 DEF AtClient, Client!HandleAnswer, Client!Incoming
<1>21. ASSUME AtClient(Client!HandleUnsubscribed) PROVE SubTypeOK'
  <2>1. toClient' \in Seq(Messages)
    BY <1>21 DEF AtClient, Client!HandleUnsubscribed, Client!Incoming
  <2>2. d' \in Dispatch
    BY <1>21 DEF AtClient, Client!HandleUnsubscribed, Dispatch
  <2>3. resp' \in [Client!Requests -> {"none", "ok", "err"}]
    BY <1>21 DEF AtClient, Client!HandleUnsubscribed, Client!Requests
  <2> QED BY <1>21, <2>1, <2>2, <2>3 DEF AtClient, Client!HandleUnsubscribed, Client!Incoming
<1>22. ASSUME AtClient(Client!HandleNote) PROVE SubTypeOK'
  <2>1. toClient' \in Seq(Messages) /\ Head(toClient) \in Messages
    BY <1>22 DEF AtClient, Client!HandleNote, Client!Incoming
  <2>2. Head(toClient).note \in Nat
    BY <2>1 DEF Messages
  <2>3. d' \in Dispatch
    BY <1>22, <2>2 DEF AtClient, Client!HandleNote, Dispatch
  <2> QED BY <1>22, <2>1, <2>2, <2>3 DEF AtClient, Client!HandleNote, Client!Incoming
<1>23. ASSUME AtClient(Client!Deliver) PROVE SubTypeOK'
  <2>1. d' \in Dispatch
    BY <1>23 DEF AtClient, Client!Deliver, Dispatch
  <2>2. q' \in [Client!Actors -> {"idle", "loop", "want", "unsub", "closeErr", "out"}]
    BY <1>23 DEF AtClient, Client!Deliver, Client!Ends, Client!Actors
  <2>3. Append(c.buffer, d.item) \in Seq(Nat) /\ Len(Append(c.buffer, d.item)) = Len(c.buffer) + 1
    BY DEF Forward, Dispatch
  <2>4. Len(c.buffer) # MaxBuffer => Len(c.buffer) + 1 <= MaxBuffer
    BY DEF Forward
  <2>5. ASSUME c' = [c EXCEPT !.buffer = Append(@, d.item)], Len(c.buffer) # MaxBuffer
        PROVE  c' \in Forward /\ Len(c'.buffer) <= MaxBuffer
    BY <2>3, <2>4, <2>5 DEF Forward
  <2>6. c' \in Forward /\ Len(c'.buffer) <= MaxBuffer
    BY <1>23, <2>5, EndsTyped DEF AtClient, Client!Deliver
  <2> QED BY <1>23, <2>1, <2>2, <2>3, <2>4, <2>5, <2>6 DEF AtClient, Client!Deliver
<1>24. ASSUME AtClient(Client!DeliverQuit) PROVE SubTypeOK'
  <2>1. d' \in Dispatch
    BY <1>24 DEF AtClient, Client!DeliverQuit, Dispatch
  <2> QED BY <1>24, <2>1 DEF AtClient, Client!DeliverQuit
<1>25. ASSUME AtClient(Client!ForwardSend) PROVE SubTypeOK'
  <2>1. Tail(c.buffer) \in Seq(Nat) /\ Len(Tail(c.buffer)) <= MaxBuffer
    BY <1>25 DEF AtClient, Client!ForwardSend, Forward
  <2>2. c' \in Forward /\ Len(c'.buffer) <= MaxBuffer
    BY <1>25, <2>1 DEF AtClient, Client!ForwardSend, Forward
  <2>3. got' \in Seq(Nat)
    BY <1>25 DEF AtClient, Client!ForwardSend, Forward
  <2> QED BY <1>25, <2>1, <2>2, <2>3 DEF AtClient, Client!ForwardSend
<1>26. ASSUME AtClient(Client!ForwardQuit) PROVE SubTypeOK'
  <2>1. c' \in Forward /\ Len(c'.buffer) <= MaxBuffer
    BY <1>26, EndsTyped DEF AtClient, Client!ForwardQuit
  <2>2. q' \in [Client!Actors -> {"idle", "loop", "want", "unsub", "closeErr", "out"}]
    BY <1>26 DEF AtClient, Client!ForwardQuit, Client!Ends, Client!Actors
  <2> QED BY <1>26, <2>1, <2>2 DEF AtClient, Client!ForwardQuit
<1>27. ASSUME NEW u \in Users, AtClient(Client!Unsubscribe(u)) PROVE SubTypeOK'
  <2>1. q' \in [Client!Actors -> {"idle", "loop", "want", "unsub", "closeErr", "out"}]
    BY <1>27 DEF AtClient, Client!Unsubscribe, Client!Actors
  <2> QED BY <1>27, <2>1 DEF AtClient, Client!Unsubscribe
<1>28. ASSUME NEW u \in Users, AtClient(Client!CloseErr(u)) PROVE SubTypeOK'
  <2>1. q' \in [Client!Actors -> {"idle", "loop", "want", "unsub", "closeErr", "out"}]
    BY <1>28 DEF AtClient, Client!CloseErr, Client!Actors
  <2>2. c' \in Forward /\ c'.buffer = c.buffer
    BY <1>28 DEF AtClient, Client!CloseErr, Forward
  <2> QED BY <1>28, <2>1, <2>2 DEF AtClient, Client!CloseErr
<1>29. ASSUME NEW a \in Client!Actors, AtClient(Client!OnceEnter(a)) PROVE SubTypeOK'
  <2>1. rq' \in [Client!Requests -> {"idle", "send", "write", "wait", "done", "failed"}]
    BY <1>29 DEF AtClient, Client!OnceEnter, Client!Requests
  <2>2. q' \in [Client!Actors -> {"idle", "loop", "want", "unsub", "closeErr", "out"}]
    BY <1>29 DEF AtClient, Client!OnceEnter, Client!Actors
  <2>3. c' \in Forward /\ c'.buffer = c.buffer
    BY <1>29 DEF AtClient, Client!OnceEnter, Forward
  <2> QED BY <1>29, <2>1, <2>2, <2>3 DEF AtClient, Client!OnceEnter
<1>30. ASSUME NEW a \in Client!Actors, AtClient(Client!OnceLeave(a)) PROVE SubTypeOK'
  <2>1. q' \in [Client!Actors -> {"idle", "loop", "want", "unsub", "closeErr", "out"}]
    BY <1>30 DEF AtClient, Client!OnceLeave, Client!After, Client!Actors
  <2>2. Append(c.err, c.why) \in Seq({"none", "quit", "overflow", "badmsg", "nil", "lost"})
    BY DEF Forward
  <2>3. c' \in Forward /\ c'.buffer = c.buffer
    BY <1>30, <2>2 DEF AtClient, Client!OnceLeave, Forward
  <2> QED BY <1>30, <2>1, <2>2, <2>3 DEF AtClient, Client!OnceLeave
<1>31. ASSUME NEW a \in Client!Actors, AtClient(Client!OnceSkip(a)) PROVE SubTypeOK'
  <2>1. q' \in [Client!Actors -> {"idle", "loop", "want", "unsub", "closeErr", "out"}]
    BY <1>31 DEF AtClient, Client!OnceSkip, Client!After, Client!Actors
  <2> QED BY <1>31, <2>1 DEF AtClient, Client!OnceSkip
<1>32. ASSUME AtClient(Client!ReadErr) PROVE SubTypeOK'
  <2>1. d' \in Dispatch
    BY <1>32 DEF AtClient, Client!ReadErr, Dispatch
  <2>2. resp' \in [Client!Requests -> {"none", "ok", "err"}]
    BY <1>32 DEF AtClient, Client!ReadErr, Client!CancelRequests, Client!Requests
  <2> QED BY <1>32, <2>1, <2>2 DEF AtClient, Client!ReadErr
<1>33. ASSUME AtClient(Client!Close) PROVE SubTypeOK'
  <2>1. [d EXCEPT !.pc = "cancel", !.closing = TRUE, !.respWait = {}] \in Dispatch
    BY DEF Dispatch
  <2>2. [d EXCEPT !.pc = "quit", !.closing = TRUE] \in Dispatch
    BY DEF Dispatch
  <2>3. d' \in Dispatch
    BY <1>33, <2>1, <2>2 DEF AtClient, Client!Close
  <2>4. resp' \in [Client!Requests -> {"none", "ok", "err"}]
    BY <1>33 DEF AtClient, Client!Close, Client!CancelRequests, Client!Requests
  <2> QED BY <1>33, <2>1, <2>2, <2>3, <2>4 DEF AtClient, Client!Close
<1>34. ASSUME AtClient(Client!CancelSub) PROVE SubTypeOK'
  <2>1. d' \in Dispatch
    BY <1>34 DEF AtClient, Client!CancelSub, Dispatch
  <2>2. \A e \in {"nil", "lost"} : Append(c.err, e) \in Seq({"none", "quit", "overflow", "badmsg", "nil", "lost"})
    BY DEF Forward
  <2>3. \/ UNCHANGED c
        \/ \E e \in {"nil", "lost"} :
             c' = [c EXCEPT !.once = "done", !.quit = TRUE, !.err = Append(c.err, e)]
    BY <1>34 DEF AtClient, Client!CancelSub
  <2>4. c' \in Forward /\ c'.buffer = c.buffer
    <3>1. CASE UNCHANGED c
      BY <3>1 DEF SubTypeOK
    <3>2. ASSUME NEW e \in {"nil", "lost"},
                 c' = [c EXCEPT !.once = "done", !.quit = TRUE, !.err = Append(c.err, e)]
          PROVE  c' \in Forward /\ c'.buffer = c.buffer
      <4>1. c \in Forward
        BY DEF SubTypeOK
      <4>2. Append(c.err, e) \in Seq({"none", "quit", "overflow", "badmsg", "nil", "lost"})
        BY <2>2
      <4> QED BY <3>2, <4>1, <4>2 DEF Forward
    <3> QED BY <2>3, <3>1, <3>2
  <2> QED BY <1>34, <2>1, <2>4 DEF AtClient, Client!CancelSub
<1>35. CASE Break
  BY <1>35 DEF Break
<1>36. CASE UNCHANGED vars
  BY <1>36 DEF vars
<1> QED
  BY <1>1, <1>2, <1>3, <1>4, <1>5, <1>6, <1>7, <1>8, <1>9, <1>10, <1>11, <1>12, <1>13, <1>14,
     <1>15, <1>16, <1>17, <1>18, <1>19, <1>20, <1>21, <1>22, <1>23, <1>24, <1>25, <1>26, <1>27,
     <1>28, <1>29, <1>30, <1>31, <1>32, <1>33, <1>34, <1>35, <1>36 DEF Next

\* Every variable keeps its type; the buffer of forward keeps its bound.
THEOREM TypeCorrect == Spec => []SubTypeOK
BY TypeInit, TypeStep, PTL DEF Spec

-----------------------------------------------------------------------------
(* quitOnce                                                                *)

LEMMA OnceChanges ==
  ASSUME [Next]_vars
  PROVE  \/ UNCHANGED <<q, c>>
         \/ AtClient(Client!HandleAnswer) \/ AtClient(Client!Deliver)
         \/ AtClient(Client!ForwardSend) \/ AtClient(Client!ForwardQuit)
         \/ \E u \in Users : AtClient(Client!Unsubscribe(u)) \/ AtClient(Client!CloseErr(u))
         \/ \E a \in Client!Actors : \/ AtClient(Client!OnceEnter(a))
                                     \/ AtClient(Client!OnceLeave(a))
                                     \/ AtClient(Client!OnceSkip(a))
         \/ AtClient(Client!CancelSub)
BY DEF Next, Break, vars, clientVars, AtServer, AtClient, Client!Subscribe, Client!ReqInit,
       Client!SendGivesUp, Client!Write, Client!Receive, Client!ReqSent, Client!SubscribeTimeout,
       Client!HandleUnsubscribed, Client!HandleNote, Client!DeliverQuit, Client!ReadErr,
       Client!Close

LEMMA OnceInit == Init => OnceInv
BY DEF Init, Client!ClientInit, OnceInv

LEMMA OnceStep == SubTypeOK /\ OnceInv /\ [Next]_vars => OnceInv'
<1> SUFFICES ASSUME SubTypeOK, OnceInv, [Next]_vars PROVE OnceInv'
  OBVIOUS
<1> USE SubAssumption DEF OnceInv, Client!Actors
<1>a. c \in Forward /\ q \in [Client!Actors -> {"idle", "loop", "want", "unsub", "closeErr", "out"}]
  BY DEF SubTypeOK
<1>1. CASE UNCHANGED <<q, c>>
  BY <1>1
<1>2. CASE AtClient(Client!HandleAnswer)
  BY <1>2, <1>a DEF AtClient, Client!HandleAnswer
<1>3. ASSUME NEW w, Client!Ends(w) PROVE OnceInv'
  <2>1. /\ c'.once = c.once /\ c'.err = c.err /\ c'.errClosed = c.errClosed /\ c'.quit = c.quit
        /\ q' = [q EXCEPT !["forward"] = "want"]
    BY <1>3, <1>a DEF Client!Ends, Forward
  <2> QED BY <2>1, <1>a
<1>4. CASE AtClient(Client!Deliver)
  <2>1. CASE UNCHANGED q
    <3>1. c'.once = c.once /\ c'.err = c.err /\ c'.errClosed = c.errClosed /\ c'.quit = c.quit
      BY <2>1, <1>4, <1>a DEF AtClient, Client!Deliver, Client!Ends, Forward
    <3> QED BY <3>1, <2>1
  <2> QED BY <1>3, <1>4, <2>1 DEF AtClient, Client!Deliver
<1>5. CASE AtClient(Client!ForwardSend)
  BY <1>5, <1>a DEF AtClient, Client!ForwardSend, Forward
<1>6. CASE AtClient(Client!ForwardQuit)
  BY <1>3, <1>6 DEF AtClient, Client!ForwardQuit
<1>7. ASSUME NEW u \in Users, AtClient(Client!Unsubscribe(u)) PROVE OnceInv'
  BY <1>7, <1>a DEF AtClient, Client!Unsubscribe
<1>8. ASSUME NEW u \in Users, AtClient(Client!CloseErr(u)) PROVE OnceInv'
  <2>1. c'.once = c.once /\ c'.err = c.err /\ c'.quit = c.quit /\ c.once = "done"
    BY <1>8, <1>a DEF AtClient, Client!CloseErr, Forward
  <2> QED BY <1>8, <2>1, <1>a DEF AtClient, Client!CloseErr
<1>9. ASSUME NEW a \in Client!Actors, AtClient(Client!OnceEnter(a)) PROVE OnceInv'
  <2>1. c'.once = "held" /\ c'.err = c.err /\ c'.errClosed = c.errClosed /\ c'.quit = TRUE /\ c.once = "free"
    BY <1>9, <1>a DEF AtClient, Client!OnceEnter, Forward
  <2> QED BY <1>9, <2>1, <1>a DEF AtClient, Client!OnceEnter
<1>10. ASSUME NEW a \in Client!Actors, AtClient(Client!OnceLeave(a)) PROVE OnceInv'
  <2>1. c.once = "held" /\ c.err = << >>
    BY <1>10 DEF AtClient, Client!OnceLeave
  <2>2. c'.once = "done" /\ c'.quit = c.quit /\ Len(c'.err) <= 1
    BY <1>10, <2>1, <1>a DEF AtClient, Client!OnceLeave, Forward
  <2> QED BY <1>10, <2>1, <2>2, <1>a DEF AtClient, Client!OnceLeave, Client!After
<1>11. ASSUME NEW a \in Client!Actors, AtClient(Client!OnceSkip(a)) PROVE OnceInv'
  BY <1>11, <1>a DEF AtClient, Client!OnceSkip, Client!After
<1>12. CASE AtClient(Client!CancelSub)
  <2>1. CASE UNCHANGED c
    BY <2>1, <1>12 DEF AtClient, Client!CancelSub
  <2>2. CASE ~UNCHANGED c
    <3>1. c.once = "free" /\ c.err = << >> /\ q' = q
      BY <2>2, <1>12 DEF AtClient, Client!CancelSub
    <3>2. PICK e : c' = [c EXCEPT !.once = "done", !.quit = TRUE, !.err = Append(@, e)]
      BY <2>2, <1>12 DEF AtClient, Client!CancelSub
    <3>3. c'.once = "done" /\ c'.quit = TRUE /\ c'.err = <<e>>
      BY <3>1, <3>2, <1>a DEF Forward
    <3> QED BY <3>1, <3>3
  <2> QED BY <2>1, <2>2
<1> QED
  BY <1>1, <1>2, <1>4, <1>5, <1>6, <1>7, <1>8, <1>9, <1>10, <1>11, <1>12, OnceChanges

-----------------------------------------------------------------------------
(* The start of the subscription                                           *)

LEMMA ServerStep ==
  ASSUME [Next]_vars
  PROVE  \/ UNCHANGED clientVars
         \/ AtClient(Client!Subscribe)
         \/ \E r \in Client!Requests : \/ AtClient(Client!ReqInit(r))
                                       \/ AtClient(Client!SendGivesUp(r))
                                       \/ AtClient(Client!Write(r))
                                       \/ AtClient(Client!Receive(r))
         \/ AtClient(Client!ReqSent)
         \/ AtClient(Client!SubscribeTimeout)
         \/ AtClient(Client!HandleAnswer)
         \/ AtClient(Client!HandleUnsubscribed)
         \/ AtClient(Client!HandleNote)
         \/ AtClient(Client!Deliver)
         \/ AtClient(Client!DeliverQuit)
         \/ AtClient(Client!ForwardSend)
         \/ AtClient(Client!ForwardQuit)
         \/ \E u \in Users : AtClient(Client!Unsubscribe(u)) \/ AtClient(Client!CloseErr(u))
         \/ \E a \in Client!Actors : \/ AtClient(Client!OnceEnter(a))
                                     \/ AtClient(Client!OnceLeave(a))
                                     \/ AtClient(Client!OnceSkip(a))
         \/ AtClient(Client!ReadErr)
         \/ AtClient(Client!Close)
         \/ AtClient(Client!CancelSub)
BY DEF Next, Break, vars, AtServer

LEMMA StartInit == Init => StartInv
BY DEF Init, Client!ClientInit, StartInv, Begun, Client!Actors, Client!Requests

LEMMA StartStep == SubTypeOK /\ OnceInv /\ StartInv /\ [Next]_vars => StartInv'
<1> SUFFICES ASSUME SubTypeOK, OnceInv, StartInv, [Next]_vars PROVE StartInv'
  OBVIOUS
<1> USE SubAssumption DEF StartInv, Begun, Client!Actors, Client!Requests
<1>a. /\ d \in Dispatch /\ c \in Forward
      /\ rq \in [Client!Requests -> {"idle", "send", "write", "wait", "done", "failed"}]
      /\ resp \in [Client!Requests -> {"none", "ok", "err"}]
      /\ q \in [Client!Actors -> {"idle", "loop", "want", "unsub", "closeErr", "out"}]
  BY DEF SubTypeOK
<1>1. CASE UNCHANGED clientVars
  BY <1>1 DEF clientVars
<1>2. CASE AtClient(Client!Subscribe)
  BY <1>2, <1>a DEF AtClient, Client!Subscribe
<1>3. ASSUME NEW r \in Client!Requests, AtClient(Client!ReqInit(r)) PROVE StartInv'
  BY <1>3, <1>a DEF AtClient, Client!ReqInit, Dispatch
<1>4. ASSUME NEW r \in Client!Requests, AtClient(Client!SendGivesUp(r)) PROVE StartInv'
  BY <1>4, <1>a DEF AtClient, Client!SendGivesUp
<1>5. ASSUME NEW r \in Client!Requests, AtClient(Client!Write(r)) PROVE StartInv'
  BY <1>5, <1>a DEF AtClient, Client!Write
<1>6. ASSUME NEW r \in Client!Requests, AtClient(Client!Receive(r)) PROVE StartInv'
  BY <1>6, <1>a DEF AtClient, Client!Receive
<1>7. CASE AtClient(Client!ReqSent)
  BY <1>7, <1>a DEF AtClient, Client!ReqSent, Dispatch
<1>8. CASE AtClient(Client!SubscribeTimeout)
  BY <1>8, <1>a DEF AtClient, Client!SubscribeTimeout, Dispatch
<1>9. CASE AtClient(Client!HandleAnswer)
  BY <1>9, <1>a DEF AtClient, Client!HandleAnswer, Client!Incoming, Dispatch
<1>10. CASE AtClient(Client!HandleUnsubscribed)
  BY <1>10, <1>a DEF AtClient, Client!HandleUnsubscribed, Client!Incoming, Dispatch
<1>11. CASE AtClient(Client!HandleNote)
  BY <1>11, <1>a DEF AtClient, Client!HandleNote, Client!Incoming, Dispatch
<1>12. CASE AtClient(Client!Deliver)
  <2>1. /\ d.pc = "deliver" /\ q["forward"] = "loop"
        /\ d' = [d EXCEPT !.pc = "select", !.item = 0] /\ UNCHANGED <<rq, resp, got>>
    BY <1>12 DEF AtClient, Client!Deliver
  <2>2. d'.respWait = d.respWait /\ d'.subs = d.subs
    BY <2>1, <1>a DEF Dispatch
  <2>3. \/ /\ q' = [q EXCEPT !["forward"] = "want"]
           /\ \E why \in {"badmsg", "overflow"} : c' = [c EXCEPT !.why = why, !.buffer = << >>]
        \/ c' = [c EXCEPT !.buffer = Append(@, d.item)] /\ UNCHANGED q
    BY <1>12 DEF AtClient, Client!Deliver, Client!Ends
  <2>4. c'.quit = c.quit
    BY <2>3, <1>a DEF Forward
  <2>5. q'["forward"] # "idle" /\ \A u \in Users : q'[u] = q[u]
    BY <2>1, <2>3, <1>a
  <2> QED BY <2>1, <2>2, <2>4, <2>5, <1>a
<1>13. CASE AtClient(Client!DeliverQuit)
  BY <1>13, <1>a DEF AtClient, Client!DeliverQuit, Dispatch
<1>14. CASE AtClient(Client!ForwardSend)
  BY <1>14, <1>a DEF AtClient, Client!ForwardSend, Forward
<1>15. CASE AtClient(Client!ForwardQuit)
  BY <1>15, <1>a DEF AtClient, Client!ForwardQuit, Client!Ends, Forward
<1>16. ASSUME NEW u \in Users, AtClient(Client!Unsubscribe(u)) PROVE StartInv'
  BY <1>16, <1>a DEF AtClient, Client!Unsubscribe
<1>17. ASSUME NEW u \in Users, AtClient(Client!CloseErr(u)) PROVE StartInv'
  BY <1>17, <1>a DEF AtClient, Client!CloseErr, Forward
<1>18. ASSUME NEW a \in Client!Actors, AtClient(Client!OnceEnter(a)) PROVE StartInv'
  BY <1>18, <1>a DEF AtClient, Client!OnceEnter, Forward
<1>19. ASSUME NEW a \in Client!Actors, AtClient(Client!OnceLeave(a)) PROVE StartInv'
  BY <1>19, <1>a DEF AtClient, Client!OnceLeave, Client!After, Forward
<1>20. ASSUME NEW a \in Client!Actors, AtClient(Client!OnceSkip(a)) PROVE StartInv'
  BY <1>20, <1>a DEF AtClient, Client!OnceSkip, Client!After
<1>21. CASE AtClient(Client!ReadErr)
  BY <1>21, <1>a DEF AtClient, Client!ReadErr, Client!CancelRequests, Dispatch
<1>22. CASE AtClient(Client!Close)
  <2>0. /\ \/ d' = [d EXCEPT !.pc = "cancel", !.closing = TRUE, !.respWait = {}]
           \/ d' = [d EXCEPT !.pc = "quit", !.closing = TRUE]
        /\ UNCHANGED <<rq, c, q, got>>
    BY <1>22 DEF AtClient, Client!Close
  <2>1. d'.respWait \subseteq d.respWait /\ d'.subs = d.subs
    BY <2>0, <1>a DEF Dispatch
  <2>2. resp'["subscribe"] = "ok" => resp["subscribe"] = "ok"
    BY <1>22, <1>a DEF AtClient, Client!Close, Client!CancelRequests
  <2> QED BY <2>0, <2>1, <2>2
<1>23. CASE AtClient(Client!CancelSub)
  <2>1. /\ d' = [d EXCEPT !.pc = IF d.closing THEN "quit" ELSE "select",
                          !.subs = FALSE, !.reading = FALSE, !.open = FALSE]
        /\ UNCHANGED <<rq, resp, q, got>>
    BY <1>23 DEF AtClient, Client!CancelSub
  <2>2. d'.respWait = d.respWait /\ ~d'.subs
    BY <2>1, <1>a DEF Dispatch
  <2>3. \/ UNCHANGED c /\ (d.subs => c.once = "done")
        \/ \E e \in {"nil", "lost"} :
             d.subs /\ c' = [c EXCEPT !.once = "done", !.quit = TRUE, !.err = Append(c.err, e)]
    BY <1>23 DEF AtClient, Client!CancelSub
  <2>4. /\ c.quit => c'.quit
        /\ d.subs => c'.quit
        /\ c'.quit => d.subs \/ c.quit
        /\ c'.buffer = c.buffer
    BY <2>3, <1>a DEF OnceInv, Forward
  <2> QED BY <2>1, <2>2, <2>4, <1>a
<1> QED
  BY <1>1, <1>2, <1>3, <1>4, <1>5, <1>6, <1>7, <1>8, <1>9, <1>10, <1>11, <1>12, <1>13, <1>14,
     <1>15, <1>16, <1>17, <1>18, <1>19, <1>20, <1>21, <1>22, <1>23, ServerStep

-----------------------------------------------------------------------------
(* The answer to the subscribe call                                        *)

(* What Head, Tail and Append do to the elements of a sequence.            *)
LEMMA TailIs ==
  ASSUME NEW S, NEW s \in Seq(S), s # << >>
  PROVE  /\ Head(s) = s[1] /\ Tail(s) \in Seq(S) /\ Len(Tail(s)) = Len(s) - 1 /\ Len(s) \in Nat \ {0}
         /\ \A i \in 1 .. Len(s) - 1 : Tail(s)[i] = s[i + 1]
OBVIOUS

LEMMA AppendIs ==
  ASSUME NEW S, NEW s \in Seq(S), NEW e \in S
  PROVE  /\ Append(s, e) \in Seq(S) /\ Len(Append(s, e)) = Len(s) + 1 /\ Len(s) \in Nat
         /\ \A i \in 1 .. Len(s) : Append(s, e)[i] = s[i]
         /\ Append(s, e)[Len(s) + 1] = e
OBVIOUS

(* A write appends one message to the connection, or nothing at all.       *)
LEMMA SendIs ==
  ASSUME SubTypeOK, NEW m \in Messages, Server!Send(m)
  PROVE  \/ ~up /\ toClient' = toClient
         \/ /\ up /\ Len(toClient') = Len(toClient) + 1 /\ toClient'[Len(toClient) + 1] = m
            /\ \A i \in 1 .. Len(toClient) : toClient'[i] = toClient[i]
BY AppendIs DEF SubTypeOK, Server!Send

(* Dispatch takes the first message.                                       *)
LEMMA IncomingIs ==
  ASSUME SubTypeOK, NEW kinds, Client!Incoming(kinds)
  PROVE  /\ toClient \in Seq(Messages) /\ toClient # << >> /\ Len(toClient) \in Nat \ {0}
         /\ toClient[1] \in Messages /\ toClient[1] = Head(toClient) /\ toClient[1].kind \in kinds
         /\ Len(toClient') = Len(toClient) - 1
         /\ \A i \in 1 .. Len(toClient) - 1 : toClient'[i] = toClient[i + 1]
         /\ UNCHANGED <<toServer, up>> /\ d.pc = "select"
<1>1. toClient \in Seq(Messages) /\ toClient # << >> /\ toClient' = Tail(toClient)
  BY DEF SubTypeOK, Client!Incoming
<1>2. UNCHANGED <<toServer, up>> /\ Head(toClient).kind \in kinds /\ d.pc = "select"
  BY DEF Client!Incoming
<1> QED BY <1>1, <1>2, TailIs

LEMMA MessagesAre ==
  /\ \A k \in {"accept", "refuse", "unsubscribed", "note"}, n \in Nat :
       Server!Message(k, n) \in Messages /\ Server!Message(k, n).kind = k /\ Server!Message(k,
       n).note = n
  /\ \A m \in Messages : m.note \in Nat
BY DEF Server!Message, Messages

(* Only the answer to the subscribe call makes forward run.                *)
LEMMA BegunChanges ==
  ASSUME SubTypeOK, StartInv, [Next]_vars
  PROVE  (Begun' <=> Begun) \/ AtClient(Client!HandleAnswer)
<1> USE SubAssumption DEF Begun, Client!Actors
<1>a. q \in [Client!Actors -> {"idle", "loop", "want", "unsub", "closeErr", "out"}]
  BY DEF SubTypeOK
<1>1. AtClient(Client!Deliver) \/ AtClient(Client!ForwardSend) \/ AtClient(Client!ForwardQuit) => (Begun' <=> Begun)
  BY <1>a DEF AtClient, Client!Deliver, Client!ForwardSend, Client!ForwardQuit, Client!Ends
<1>2. ASSUME NEW u \in Users, AtClient(Client!Unsubscribe(u)) \/ AtClient(Client!CloseErr(u)) PROVE Begun' <=> Begun
  BY <1>2, <1>a DEF AtClient, Client!Unsubscribe, Client!CloseErr
<1>3. ASSUME NEW a \in Client!Actors,
             AtClient(Client!OnceEnter(a)) \/ AtClient(Client!OnceLeave(a)) \/ AtClient(Client!OnceSkip(a))
      PROVE  Begun' <=> Begun
  BY <1>3, <1>a DEF AtClient, Client!OnceEnter, Client!OnceLeave, Client!OnceSkip, Client!After
<1>4. AtClient(Client!CancelSub) \/ UNCHANGED <<q, c>> => (Begun' <=> Begun)
  BY DEF AtClient, Client!CancelSub
<1> QED BY <1>1, <1>2, <1>3, <1>4, OnceChanges

LEMMA CallChanges ==
  ASSUME [Next]_vars
  PROVE  \/ UNCHANGED <<toClient, proc, sub>>
         \/ AtServer(Server!HandleSubscribe) \/ AtServer(Server!CreateSubscription)
         \/ \E ok \in BOOLEAN : AtServer(Server!CallbackReturns(ok))
         \/ AtServer(Server!WriteAnswer) \/ AtServer(Server!Activate)
         \/ AtServer(Server!FlushOne) \/ AtServer(Server!FlushFails)
         \/ AtServer(Server!Activated) \/ AtServer(Server!Notify)
         \/ AtServer(Server!HandleUnsubscribe) \/ AtServer(Server!CancelServerSubs)
         \/ AtClient(Client!HandleAnswer)
         \/ AtClient(Client!HandleUnsubscribed) \/ AtClient(Client!HandleNote)
BY DEF Next, Break, vars, serverVars, AtServer, AtClient, Server!wire, Client!wire,
   Server!ServerLost,
       Client!Subscribe, Client!ReqInit, Client!SendGivesUp, Client!Write, Client!Receive,
       Client!ReqSent,
       Client!SubscribeTimeout, Client!Deliver, Client!DeliverQuit, Client!ForwardSend,
       Client!ForwardQuit,
       Client!Unsubscribe, Client!CloseErr, Client!OnceEnter, Client!OnceLeave, Client!OnceSkip,
       Client!ReadErr, Client!Close, Client!CancelSub

LEMMA CallInit == Init => CallInv
BY DEF Init, Server!ServerInit, Client!ClientInit, CallInv, Begun, Answered, Client!Actors

LEMMA CallStep == SubTypeOK /\ StartInv /\ UnsubInv /\ HeldInv /\ CallInv /\ [Next]_vars => CallInv'
<1> SUFFICES ASSUME SubTypeOK, StartInv, UnsubInv, HeldInv, CallInv, [Next]_vars PROVE CallInv'
  OBVIOUS
<1> USE DEF CallInv, Answered
<1>a. toClient \in Seq(Messages) /\ Len(toClient) \in Nat /\ toServer \in Seq({"subscribe", "unsubscribe"})
  BY DEF SubTypeOK
<1>1. CASE UNCHANGED <<toClient, proc, sub>> /\ (Begun' <=> Begun)
  BY <1>1
<1>b. ASSUME UNCHANGED clientVars PROVE Begun' <=> Begun
  BY <1>b DEF Begun, clientVars
<1>2. CASE AtServer(Server!HandleSubscribe)
  BY <1>2, <1>b DEF AtServer, Server!HandleSubscribe
<1>3. CASE AtServer(Server!CreateSubscription)
  BY <1>3, <1>b DEF AtServer, Server!CreateSubscription, Server!wire
<1>4. ASSUME NEW ok \in BOOLEAN, AtServer(Server!CallbackReturns(ok)) PROVE CallInv'
  BY <1>4, <1>b DEF AtServer, Server!CallbackReturns, Server!wire
<1>5. CASE AtServer(Server!WriteAnswer)
  <2>1. /\ proc \in {"accept", "refuse"} /\ Server!Send(Server!Message(proc, 0)) /\ proc' = "answered"
        /\ UNCHANGED <<sub, clientVars>> /\ toClient = << >> /\ ~Begun
    BY <1>5 DEF AtServer, Server!WriteAnswer
  <2>2. Server!Message(proc, 0) \in Messages /\ Server!Message(proc, 0).kind = proc
    BY <2>1, MessagesAre
  <2>3. Len(toClient) = 0
    BY <2>1
  <2>4. \A i \in 1 .. Len(toClient') : i = 1 /\ toClient'[i].kind = proc
    BY <2>1, <2>2, <2>3, SendIs
  <2> QED BY <2>1, <2>4, <1>b
<1>6. CASE AtServer(Server!Activate) \/ AtServer(Server!FlushFails) \/ AtServer(Server!Activated)
  BY <1>6, <1>b DEF AtServer, Server!Activate, Server!FlushFails, Server!Activated, Server!wire
<1>c. ASSUME NEW m \in Messages, m.kind # "accept", Server!Send(m)
      PROVE  \A i \in 1 .. Len(toClient') :
               toClient'[i].kind = "accept" => i \in 1 .. Len(toClient) /\ toClient[i].kind = "accept"
  BY <1>a, <1>c, SendIs
<1>7. CASE AtServer(Server!FlushOne)
  <2>1. Server!Send(Server!Message("note", Head(pending))) /\ Head(pending) \in Nat
        /\ proc = "flush" /\ UNCHANGED <<proc, sub, clientVars>>
    BY <1>7 DEF AtServer, Server!FlushOne, SubTypeOK
  <2> QED BY <2>1, <1>b, <1>c, MessagesAre
<1>8. CASE AtServer(Server!Notify)
  <2>1. UNCHANGED <<proc, sub, clientVars>> /\ published' \in Nat
    BY <1>8 DEF AtServer, Server!Notify, SubTypeOK
  <2>2. CASE ~activated
    BY <2>1, <2>2, <1>8, <1>b DEF AtServer, Server!Notify
  <2>3. CASE activated
    <3>1. Server!Send(Server!Message("note", published'))
      BY <2>3, <1>8 DEF AtServer, Server!Notify
    <3>2. proc = "done"
      BY <2>3 DEF HeldInv
    <3> QED BY <2>1, <3>1, <3>2, <1>b, <1>c, MessagesAre
  <2> QED BY <2>2, <2>3
<1>9. CASE AtServer(Server!HandleUnsubscribe)
  <2>1. /\ Server!Send(Server!Message("unsubscribed", 0)) /\ UNCHANGED <<proc, clientVars>>
        /\ sub' = (IF sub = "registered" THEN "unsubscribed" ELSE sub)
        /\ toServer # << >> /\ Head(toServer) = "unsubscribe"
    BY <1>9 DEF AtServer, Server!HandleUnsubscribe, Server!Incoming
  <2>2. Begun
    <3>1. 1 \in Unsubs
      BY <2>1, <1>a, TailIs DEF Unsubs
    <3> QED BY <3>1 DEF UnsubInv, StartInv
  <2> QED BY <2>1, <2>2, <1>b, <1>c, MessagesAre
<1>10. CASE AtServer(Server!CancelServerSubs)
  BY <1>10, <1>b DEF AtServer, Server!CancelServerSubs, Server!wire
<1>11. CASE AtClient(Client!HandleAnswer)
  <2>1. Client!Incoming({"accept", "refuse"}) /\ UNCHANGED <<proc, sub>>
    BY <1>11 DEF AtClient, Client!HandleAnswer, serverVars
  <2>2. Begun' => Begun \/ toClient[1].kind = "accept"
    BY <1>11, <2>1, IncomingIs DEF AtClient, Client!HandleAnswer, Begun
  <2> QED BY <2>1, <2>2, <1>a, IncomingIs
<1>12. CASE AtClient(Client!HandleUnsubscribed) \/ AtClient(Client!HandleNote)
  <2>1. PICK kinds : Client!Incoming(kinds)
    BY <1>12 DEF AtClient, Client!HandleUnsubscribed, Client!HandleNote
  <2>2. UNCHANGED <<proc, sub, q>>
    BY <1>12 DEF AtClient, Client!HandleUnsubscribed, Client!HandleNote, serverVars
  <2>3. /\ toClient # << >> /\ Len(toClient) \in Nat /\ Len(toClient') = Len(toClient) - 1
        /\ \A i \in 1 .. Len(toClient) - 1 : toClient'[i] = toClient[i + 1]
    BY <2>1, IncomingIs
  <2>4. \A i \in 1 .. Len(toClient') :
           i + 1 \in 1 .. Len(toClient) /\ i + 1 # 1 /\ toClient'[i] = toClient[i + 1]
    BY <2>3
  <2>5. \A i \in 1 .. Len(toClient') : toClient'[i].kind # "accept"
    BY <2>4
  <2> QED BY <2>2, <2>3, <2>5 DEF Begun
<1> QED
  BY <1>1, <1>2, <1>3, <1>4, <1>5, <1>6, <1>7, <1>8, <1>9, <1>10, <1>11, <1>12, CallChanges,
     BegunChanges

-----------------------------------------------------------------------------
(* The end of the subscription at the server                              *)

LEMMA UnsubChanges ==
  ASSUME [Next]_vars
  PROVE  \/ UNCHANGED <<toServer, rq, sub, served>>
         \/ AtServer(Server!HandleSubscribe) \/ AtServer(Server!CreateSubscription)
         \/ \E ok \in BOOLEAN : AtServer(Server!CallbackReturns(ok))
         \/ AtServer(Server!HandleUnsubscribe) \/ AtServer(Server!ServerLost)
         \/ AtServer(Server!CancelServerSubs) \/ AtClient(Client!Subscribe)
         \/ \E r \in Client!Requests : \/ AtClient(Client!ReqInit(r))
                                       \/ AtClient(Client!SendGivesUp(r))
                                       \/ AtClient(Client!Write(r))
                                       \/ AtClient(Client!Receive(r))
         \/ AtClient(Client!SubscribeTimeout)
         \/ \E a \in Client!Actors : AtClient(Client!OnceEnter(a))
BY DEF Next, Break, vars, serverVars, clientVars, AtServer, AtClient, Server!wire, Client!wire,
       Server!WriteAnswer, Server!Activate, Server!FlushOne, Server!FlushFails, Server!Activated,
       Server!Notify, Client!ReqSent, Client!HandleAnswer, Client!HandleUnsubscribed,
       Client!HandleNote,
       Client!Incoming, Client!Deliver, Client!DeliverQuit, Client!ForwardSend, Client!ForwardQuit,
       Client!Unsubscribe, Client!CloseErr, Client!OnceLeave, Client!OnceSkip,
       Client!ReadErr, Client!Close, Client!CancelSub

LEMMA UnsubInit == Init => UnsubInv
BY DEF Init, Server!ServerInit, Client!ClientInit, UnsubInv, Unsubs

LEMMA UnsubStep == SubTypeOK /\ OnceInv /\ StartInv /\ UnsubInv /\ [Next]_vars => UnsubInv'
<1> SUFFICES ASSUME SubTypeOK, OnceInv, StartInv, UnsubInv, [Next]_vars PROVE UnsubInv'
  OBVIOUS
<1> USE DEF UnsubInv
<1>a. /\ toServer \in Seq({"subscribe", "unsubscribe"}) /\ Len(toServer) \in Nat
      /\ rq \in [Client!Requests -> {"idle", "send", "write", "wait", "done", "failed"}]
  BY DEF SubTypeOK
<1>b. ASSUME toServer # << >>, toServer' = Tail(toServer)
      PROVE  /\ \A i \in Unsubs' : i + 1 \in Unsubs
             /\ Head(toServer) = "unsubscribe" => 1 \in Unsubs
             /\ \A i, j \in Unsubs' : i = j
  <2>1. \A i \in Unsubs' : i + 1 \in Unsubs
    BY <1>a, <1>b, TailIs DEF Unsubs
  <2>2. Head(toServer) = "unsubscribe" => 1 \in Unsubs
    BY <1>a, <1>b, TailIs DEF Unsubs
  <2>3. ASSUME NEW i \in Unsubs', NEW j \in Unsubs' PROVE i = j
    BY <2>1, <1>a DEF Unsubs
  <2> QED BY <2>1, <2>2, <2>3
<1>c. toServer' = toServer => Unsubs' = Unsubs
  BY DEF Unsubs
<1>1. CASE UNCHANGED <<toServer, rq, sub, served>>
  BY <1>1, <1>c
<1>2. CASE AtServer(Server!HandleSubscribe)
  BY <1>2, <1>b DEF AtServer, Server!HandleSubscribe, Server!Incoming, clientVars
<1>3. CASE AtServer(Server!CreateSubscription)
  BY <1>3, <1>c DEF AtServer, Server!CreateSubscription, Server!wire, clientVars
<1>4. ASSUME NEW ok \in BOOLEAN, AtServer(Server!CallbackReturns(ok)) PROVE UnsubInv'
  BY <1>4, <1>c DEF AtServer, Server!CallbackReturns, Server!wire, clientVars
<1>5. CASE AtServer(Server!HandleUnsubscribe)
  <2>1. /\ toServer # << >> /\ toServer' = Tail(toServer) /\ Head(toServer) = "unsubscribe"
        /\ UNCHANGED <<rq, served>> /\ sub' \in {"unsubscribed", sub}
    BY <1>5 DEF AtServer, Server!HandleUnsubscribe, Server!Incoming, clientVars
  <2>2. 1 \in Unsubs /\ \A i \in Unsubs' : i + 1 \in Unsubs /\ i \in Nat \ {0}
    BY <2>1, <1>a, <1>b DEF Unsubs
  <2>3. Unsubs' = {}
    BY <2>2
  <2> QED BY <2>1, <2>2, <2>3
<1>6. CASE AtServer(Server!ServerLost) \/ AtServer(Server!CancelServerSubs)
  BY <1>6, <1>c DEF AtServer, Server!ServerLost, Server!CancelServerSubs, Server!wire, clientVars
<1>7. CASE AtClient(Client!Subscribe)
  BY <1>7, <1>a, <1>c DEF AtClient, Client!Subscribe, Client!wire, serverVars, Client!Requests
<1>8. ASSUME NEW r \in Client!Requests,
             AtClient(Client!ReqInit(r)) \/ AtClient(Client!SendGivesUp(r)) \/ AtClient(Client!Receive(r))
      PROVE  UnsubInv'
  BY <1>8, <1>a, <1>c DEF AtClient, Client!ReqInit, Client!SendGivesUp, Client!Receive,
     Client!wire, serverVars, Client!Requests
<1>9. ASSUME NEW r \in Client!Requests, AtClient(Client!Write(r)) PROVE UnsubInv'
  <2>1. UNCHANGED <<sub, served>> /\ rq[r] = "write" /\ rq' \in {[rq EXCEPT ![r] = "wait"], [rq EXCEPT ![r] = "failed"]}
    BY <1>9 DEF AtClient, Client!Write, serverVars
  <2>2. CASE toServer' = toServer
    BY <2>1, <2>2, <1>a, <1>c DEF Client!Requests
  <2>3. CASE toServer' = Append(toServer, r) /\ rq' = [rq EXCEPT ![r] = "wait"]
    <3>1. Unsubs' = Unsubs \cup (IF r = "unsubscribe" THEN {Len(toServer) + 1} ELSE {})
      BY <2>3, <1>a, AppendIs DEF Unsubs, Client!Requests
    <3>2. r = "unsubscribe" => Unsubs = {} /\ sub # "unsubscribed"
      BY <2>1
    <3> QED BY <2>1, <2>3, <3>1, <3>2, <1>a DEF Client!Requests
  <2> QED BY <1>9, <2>2, <2>3 DEF AtClient, Client!Write
<1>10. CASE AtClient(Client!SubscribeTimeout)
  BY <1>10, <1>a, <1>c DEF AtClient, Client!SubscribeTimeout, Client!wire, serverVars,
     Client!Requests
<1>11. ASSUME NEW a \in Client!Actors, AtClient(Client!OnceEnter(a)) PROVE UnsubInv'
  <2>1. rq["unsubscribe"] = "idle"
    BY <1>11 DEF AtClient, Client!OnceEnter, OnceInv, StartInv
  <2> QED BY <2>1, <1>11, <1>a, <1>c DEF AtClient, Client!OnceEnter, Client!wire, serverVars,
  Client!Requests
<1> QED
  BY <1>1, <1>2, <1>3, <1>4, <1>5, <1>6, <1>7, <1>8, <1>9, <1>10, <1>11, UnsubChanges

-----------------------------------------------------------------------------
(* What Notifier holds back, and what a step moves                        *)

LEMMA HeldChanges ==
  ASSUME [Next]_vars
  PROVE  \/ UNCHANGED <<proc, activated, pending, published>>
         \/ AtServer(Server!HandleSubscribe) \/ \E ok \in BOOLEAN : AtServer(Server!CallbackReturns(ok))
         \/ AtServer(Server!WriteAnswer) \/ AtServer(Server!Activate)
         \/ AtServer(Server!FlushOne) \/ AtServer(Server!FlushFails)
         \/ AtServer(Server!Activated) \/ AtServer(Server!Notify)
<1>1. ASSUME UNCHANGED serverVars PROVE UNCHANGED <<proc, activated, pending, published>>
  BY <1>1 DEF serverVars
<1> QED
  BY <1>1 DEF Next, Break, vars, AtServer, AtClient, Server!CreateSubscription,
     Server!HandleUnsubscribe,
              Server!ServerLost, Server!CancelServerSubs

LEMMA HeldInit == Init => HeldInv
<1> SUFFICES ASSUME Init PROVE HeldInv
  OBVIOUS
<1>1. published = 0 /\ ~activated /\ proc = "idle"
  BY DEF Init, Server!ServerInit
<1>2. Len(pending) = 0
  BY DEF Init, Server!ServerInit
<1>3. Sent = 0
  BY <1>1, <1>2 DEF Sent
<1> QED BY <1>1, <1>2, <1>3 DEF HeldInv, Answered

LEMMA HeldStep == SubTypeOK /\ HeldInv /\ [Next]_vars => HeldInv'
<1> SUFFICES ASSUME SubTypeOK, HeldInv, [Next]_vars PROVE HeldInv'
  OBVIOUS
<1> USE DEF HeldInv, Answered, Sent
<1>a. pending \in Seq(Nat) /\ Len(pending) \in Nat /\ published \in Nat
  BY DEF SubTypeOK
<1>1. CASE UNCHANGED <<proc, activated, pending, published>>
  BY <1>1
<1>2. CASE AtServer(Server!HandleSubscribe) \/ \E ok \in BOOLEAN : AtServer(Server!CallbackReturns(ok))
  BY <1>2 DEF AtServer, Server!HandleSubscribe, Server!CallbackReturns
<1>3. CASE AtServer(Server!WriteAnswer) \/ AtServer(Server!Activate) \/ AtServer(Server!FlushFails)
           \/ AtServer(Server!Activated)
  BY <1>3 DEF AtServer, Server!WriteAnswer, Server!Activate, Server!FlushFails, Server!Activated
<1>4. CASE AtServer(Server!FlushOne)
  <2>1. pending # << >> /\ pending' = Tail(pending) /\ proc = "flush" /\ UNCHANGED <<proc, activated, published>>
    BY <1>4 DEF AtServer, Server!FlushOne
  <2> QED BY <2>1, <1>a, TailIs
<1>5. CASE AtServer(Server!Notify)
  <2>1. published' = published + 1 /\ UNCHANGED <<proc, activated>>
    BY <1>5 DEF AtServer, Server!Notify
  <2>2. CASE activated
    BY <2>1, <2>2, <1>5, <1>a DEF AtServer, Server!Notify
  <2>3. CASE ~activated
    <3>1. pending' = Append(pending, published') /\ published' \in Nat
      BY <2>1, <2>3, <1>5, <1>a DEF AtServer, Server!Notify
    <3>2. /\ Len(pending') = Len(pending) + 1 /\ pending'[Len(pending) + 1] = published'
          /\ \A i \in 1 .. Len(pending) : pending'[i] = pending[i]
      BY <3>1, <1>a, AppendIs
    <3>3. Sent' = Sent /\ Sent + (Len(pending) + 1) = published'
      BY <2>1, <3>2, <1>a
    <3>4. \A i \in 1 .. Len(pending') : i \in 1 .. Len(pending) \/ i = Len(pending) + 1
      BY <3>2, <1>a
    <3>5. \A i \in 1 .. Len(pending') : pending'[i] = Sent + i
      BY <3>2, <3>3, <3>4
    <3> QED BY <2>1, <2>3, <3>3, <3>5
  <2> QED BY <2>2, <2>3
<1> QED BY <1>1, <1>2, <1>3, <1>4, <1>5, HeldChanges

-----------------------------------------------------------------------------
\* A step that leaves what is on its way to the reader where it is.
Quiet ==
  /\ UNCHANGED <<toClient, got, Sent>> /\ c'.buffer = c.buffer
  /\ d'.item = d.item /\ (d'.pc = "deliver" <=> d.pc = "deliver")
  /\ (Live' => Live) /\ (up' => up)

\* The server writes m.
Wrote(m) == Server!Send(m) /\ UNCHANGED <<up, clientVars>>

Serves ==
  \/ AtServer(Server!HandleSubscribe) \/ AtServer(Server!CreateSubscription)
  \/ \E ok \in BOOLEAN : AtServer(Server!CallbackReturns(ok))
  \/ AtServer(Server!WriteAnswer) \/ AtServer(Server!Activate)
  \/ AtServer(Server!FlushOne) \/ AtServer(Server!FlushFails)
  \/ AtServer(Server!Activated) \/ AtServer(Server!Notify)
  \/ AtServer(Server!HandleUnsubscribe) \/ AtServer(Server!ServerLost)
  \/ AtServer(Server!CancelServerSubs)

LEMMA ServerSends ==
  ASSUME SubTypeOK, StartInv, CallInv, UnsubInv, HeldInv, Serves
  PROVE  \/ Quiet
         \/ Sent' = Sent + 1 /\ Answered /\ Wrote(Server!Message("note", Sent + 1))
         \/ /\ Sent' = Sent /\ Sent = 0 /\ toClient = << >> /\ ~Begun
            /\ \E k \in {"accept", "refuse"} : Wrote(Server!Message(k, 0))
         \/ Sent' = Sent /\ Begun /\ c.quit /\ Wrote(Server!Message("unsubscribed", 0))
<1>a. UNCHANGED clientVars
  BY DEF Serves, AtServer
<1>b. d' = d /\ c' = c /\ q' = q /\ got' = got
  BY <1>a DEF clientVars
<1>c. ASSUME UNCHANGED <<toClient, up, pending, published>> PROVE Quiet
  BY <1>b, <1>c DEF Quiet, Sent, Live
<1>d. pending \in Seq(Nat) /\ published \in Nat
  BY DEF SubTypeOK
<1>1. CASE AtServer(Server!WriteAnswer)
  <2>1. /\ proc \in {"accept", "refuse"} /\ Wrote(Server!Message(proc, 0))
        /\ UNCHANGED <<pending, published>>
    BY <1>1, <1>a DEF AtServer, Server!WriteAnswer, Wrote
  <2>2. Sent' = Sent /\ Sent = 0 /\ toClient = << >> /\ ~Begun
    BY <2>1 DEF HeldInv, CallInv, Answered, Sent
  <2> QED BY <2>1, <2>2
<1>2. CASE AtServer(Server!FlushOne)
  <2>1. /\ proc = "flush" /\ pending # << >> /\ pending' = Tail(pending) /\ published' = published
        /\ Wrote(Server!Message("note", Head(pending)))
    BY <1>2, <1>a DEF AtServer, Server!FlushOne, Wrote
  <2>2. Head(pending) = Sent + 1 /\ Sent' = Sent + 1
    BY <2>1, <1>d, TailIs DEF HeldInv, Sent
  <2> QED BY <2>1, <2>2 DEF Answered
<1>3. CASE AtServer(Server!Notify)
  <2>1. published' = published + 1 /\ UNCHANGED <<proc, activated, up>>
    BY <1>3 DEF AtServer, Server!Notify
  <2>2. CASE activated
    <3>1. Wrote(Server!Message("note", published')) /\ pending' = pending
      BY <2>1, <2>2, <1>3, <1>a DEF AtServer, Server!Notify, Wrote
    <3>2. Sent = published /\ Sent' = Sent + 1 /\ Answered
      BY <2>1, <2>2, <3>1, <1>d DEF HeldInv, Sent, Answered
    <3> QED BY <2>1, <3>1, <3>2
  <2>3. CASE ~activated
    <3>1. pending' = Append(pending, published') /\ toClient' = toClient
      BY <2>3, <1>3 DEF AtServer, Server!Notify
    <3>2. Sent' = Sent
      BY <2>1, <3>1, <1>d, AppendIs DEF Sent
    <3> QED BY <2>1, <3>1, <3>2, <1>b DEF Quiet, Live
  <2> QED BY <2>2, <2>3
<1>4. CASE AtServer(Server!HandleUnsubscribe)
  <2>1. /\ toServer # << >> /\ Head(toServer) = "unsubscribe" /\ UNCHANGED <<pending, published>>
        /\ Wrote(Server!Message("unsubscribed", 0))
        /\ toServer \in Seq({"subscribe", "unsubscribe"})
    BY <1>4, <1>a DEF AtServer, Server!HandleUnsubscribe, Server!Incoming, Wrote, SubTypeOK
  <2>2. 1 \in Unsubs
    BY <2>1, TailIs DEF Unsubs
  <2> QED BY <2>1, <2>2 DEF UnsubInv, StartInv, Sent
<1>5. CASE \/ AtServer(Server!HandleSubscribe) \/ AtServer(Server!CreateSubscription)
           \/ \E ok \in BOOLEAN : AtServer(Server!CallbackReturns(ok))
           \/ AtServer(Server!Activate) \/ AtServer(Server!FlushFails) \/ AtServer(Server!Activated)
           \/ AtServer(Server!ServerLost) \/ AtServer(Server!CancelServerSubs)
  BY <1>5, <1>c DEF AtServer, Server!wire, Server!HandleSubscribe, Server!CreateSubscription,
     Server!CallbackReturns, Server!Activate, Server!FlushFails, Server!Activated,
     Server!ServerLost,
     Server!CancelServerSubs
<1> QED BY <1>1, <1>2, <1>3, <1>4, <1>5 DEF Serves

(* What a step does to what is on its way, besides what Serves does.       *)
LEMMA QuietSteps ==
  ASSUME SubTypeOK, OnceInv, [Next]_vars
  PROVE  \/ Quiet \/ Serves
         \/ AtClient(Client!HandleAnswer) \/ AtClient(Client!HandleUnsubscribed)
         \/ AtClient(Client!HandleNote) \/ AtClient(Client!Deliver) \/ AtClient(Client!DeliverQuit)
         \/ AtClient(Client!ForwardSend) \/ AtClient(Client!ForwardQuit)
<1> USE SubAssumption DEF Quiet, Live, Sent, AtClient, Client!wire, serverVars, Client!Actors
<1>a. /\ d \in Dispatch /\ c \in Forward
      /\ q \in [Client!Actors -> {"idle", "loop", "want", "unsub", "closeErr", "out"}]
  BY DEF SubTypeOK
<1>1. CASE UNCHANGED vars \/ Break
  BY <1>1 DEF vars, clientVars, Break
<1>2. ASSUME AtClient(Client!Subscribe) PROVE Quiet
  BY <1>2 DEF Client!Subscribe
<1>3. ASSUME NEW r \in Client!Requests,
             AtClient(Client!SendGivesUp(r)) \/ AtClient(Client!Write(r)) \/ AtClient(Client!Receive(r))
      PROVE  Quiet
  BY <1>3 DEF Client!SendGivesUp, Client!Write, Client!Receive
<1>4. ASSUME NEW r \in Client!Requests, AtClient(Client!ReqInit(r)) PROVE Quiet
  BY <1>4, <1>a DEF Client!ReqInit, Dispatch
<1>5. ASSUME AtClient(Client!ReqSent) PROVE Quiet
  BY <1>5, <1>a DEF Client!ReqSent, Dispatch
<1>6. ASSUME AtClient(Client!SubscribeTimeout) PROVE Quiet
  BY <1>6, <1>a DEF Client!SubscribeTimeout, Dispatch
<1>7. ASSUME NEW u \in Users, AtClient(Client!Unsubscribe(u)) PROVE Quiet
  BY <1>7, <1>a DEF Client!Unsubscribe
<1>8. ASSUME NEW u \in Users, AtClient(Client!CloseErr(u)) PROVE Quiet
  BY <1>8, <1>a DEF Client!CloseErr, Forward
<1>9. ASSUME NEW a \in Client!Actors, AtClient(Client!OnceEnter(a)) PROVE Quiet
  BY <1>9, <1>a DEF Client!OnceEnter, Forward
<1>10. ASSUME NEW a \in Client!Actors, AtClient(Client!OnceLeave(a)) PROVE Quiet
  BY <1>10, <1>a DEF Client!OnceLeave, Client!After, Forward
<1>11. ASSUME NEW a \in Client!Actors, AtClient(Client!OnceSkip(a)) PROVE Quiet
  BY <1>11, <1>a DEF Client!OnceSkip, Client!After
<1>12. ASSUME AtClient(Client!ReadErr) PROVE Quiet
  BY <1>12, <1>a DEF Client!ReadErr, Dispatch
<1>13. ASSUME AtClient(Client!Close) PROVE Quiet
  <2>1. d'.item = d.item /\ d'.pc # "deliver" /\ d.pc # "deliver"
    BY <1>13, <1>a DEF Client!Close, Dispatch
  <2> QED BY <1>13, <2>1 DEF Client!Close
<1>14. ASSUME AtClient(Client!CancelSub) PROVE Quiet
  <2>1. d'.item = d.item /\ d'.pc # "deliver" /\ d.pc # "deliver"
    BY <1>14, <1>a DEF Client!CancelSub, Dispatch
  <2>2. c'.buffer = c.buffer /\ (c'.quit = c.quit \/ c'.quit)
    BY <1>14, <1>a DEF Client!CancelSub, Forward
  <2> QED BY <1>14, <2>1, <2>2 DEF Client!CancelSub
<1> QED
  BY <1>1, <1>2, <1>3, <1>4, <1>5, <1>6, <1>7, <1>8, <1>9, <1>10, <1>11, <1>12, <1>13,
     <1>14 DEF Next, Serves

-----------------------------------------------------------------------------
(* Order                                                                   *)

LEMMA OrderInit == Init => OrderInv
<1> SUFFICES ASSUME Init PROVE OrderInv
  OBVIOUS
<1>1. Len(toClient) = 0 /\ Len(c.buffer) = 0 /\ Len(pending) = 0
  BY DEF Init, Server!ServerInit, Client!ClientInit
<1>2. d.pc = "select" /\ published = 0 /\ Latest = 0
  BY DEF Init, Server!ServerInit, Client!ClientInit, Latest
<1>3. Sent = 0
  BY <1>1, <1>2 DEF Sent
<1> QED BY <1>1, <1>2, <1>3 DEF OrderInv, WireSorted, BufferSorted, WireLast, WireAfterBuffer,
BufferNext, ItemNext

LEMMA NumbersAre ==
  ASSUME SubTypeOK, HeldInv
  PROVE  /\ d \in Dispatch /\ c \in Forward /\ toClient \in Seq(Messages) /\ Len(toClient) \in Nat
         /\ c.buffer \in Seq(Nat) /\ Len(c.buffer) \in Nat /\ got \in Seq(Nat) /\ Sent \in Nat
         /\ Latest \in Nat /\ d.item \in Nat /\ \A i \in 1 .. Len(c.buffer) : c.buffer[i] \in Nat
         /\ \A i \in 1 .. Len(toClient) : toClient[i] \in Messages /\ toClient[i].note \in Nat
<1>1. d \in Dispatch /\ c \in Forward /\ toClient \in Seq(Messages) /\ got \in Seq(Nat)
  BY DEF SubTypeOK
<1>2. d.item \in Nat /\ c.buffer \in Seq(Nat)
  BY <1>1 DEF Dispatch, Forward
<1>3. Sent \in Nat
  BY DEF SubTypeOK, HeldInv, Sent
<1>4. Latest \in Nat
  BY <1>1 DEF Latest
<1>5. \A i \in 1 .. Len(toClient) : toClient[i] \in Messages
  BY <1>1
<1> QED BY <1>1, <1>2, <1>3, <1>4, <1>5, MessagesAre

\* Nothing, or one more message, at the end of the connection.
LEMMA OrderWrite ==
  ASSUME SubTypeOK, HeldInv, OrderInv, NEW m \in Messages, Wrote(m), Sent' \in Nat, Sent' >= Sent,
         m.kind = "note" => m.note = Sent + 1 /\ Sent' = Sent + 1
  PROVE  OrderInv'
<1>1. c' = c /\ d' = d /\ Latest' = Latest
  BY DEF Wrote, clientVars, Latest
<1>2. /\ Len(toClient) \in Nat /\ Sent \in Nat /\ Latest \in Nat /\ d.item \in Nat
      /\ \A i \in 1 .. Len(c.buffer) : c.buffer[i] \in Nat
      /\ \A i \in 1 .. Len(toClient) : toClient[i].note \in Nat
  BY NumbersAre
<1>3. ASSUME NEW i \in 1 .. Len(toClient'), Note(i)'
      PROVE  \/ i \in 1 .. Len(toClient) /\ Note(i) /\ toClient'[i].note = toClient[i].note
             \/ i = Len(toClient) + 1 /\ toClient'[i].note = Sent + 1 /\ Sent' = Sent + 1
  <2>1. CASE toClient' = toClient
    BY <1>3, <2>1 DEF Note
  <2>2. CASE /\ Len(toClient') = Len(toClient) + 1 /\ toClient'[Len(toClient) + 1] = m
             /\ \A k \in 1 .. Len(toClient) : toClient'[k] = toClient[k]
    <3>1. CASE i \in 1 .. Len(toClient)
      BY <1>3, <2>2, <3>1 DEF Note
    <3>2. CASE i = Len(toClient) + 1
      BY <1>3, <2>2, <3>2 DEF Note
    <3> QED BY <1>2, <2>2, <3>1, <3>2
  <2> QED BY <2>1, <2>2, SendIs DEF Wrote
<1>4. \A j \in 1 .. Len(toClient) : Note(j) => toClient[j].note <= Sent
  BY DEF OrderInv, WireLast
<1>5. WireSorted'
  <2> SUFFICES ASSUME NEW i \in 1 .. Len(toClient'), NEW j \in 1 .. Len(toClient'), i < j, Note(i)', Note(j)'
               PROVE  toClient'[i].note < toClient'[j].note
    BY DEF WireSorted
  <2>1. CASE j \in 1 .. Len(toClient) /\ Note(j) /\ toClient'[j].note = toClient[j].note
    <3>1. i \in 1 .. Len(toClient) /\ Note(i) /\ toClient'[i].note = toClient[i].note
      BY <1>2, <1>3, <2>1
    <3> QED BY <2>1, <3>1 DEF OrderInv, WireSorted
  <2>2. CASE j = Len(toClient) + 1 /\ toClient'[j].note = Sent + 1
    <3>1. i \in 1 .. Len(toClient) /\ Note(i) /\ toClient'[i].note = toClient[i].note
      BY <1>2, <1>3, <2>2
    <3> QED BY <1>2, <1>4, <2>2, <3>1
  <2> QED BY <1>3, <2>1, <2>2
<1>6. BufferSorted'
  BY <1>1 DEF OrderInv, BufferSorted
<1>7. BufferNext'
  <2>1. \A i \in 1 .. Len(c.buffer) : c.buffer[i] <= Sent'
    BY <1>2 DEF OrderInv, BufferNext
  <2> QED BY <1>1, <2>1 DEF OrderInv, BufferNext
<1>8. ItemNext' /\ Latest' <= Sent'
  BY <1>1, <1>2 DEF OrderInv, ItemNext
<1>9. WireLast'
  BY <1>1, <1>2, <1>3 DEF OrderInv, WireLast, ItemNext
<1>10. WireAfterBuffer'
  <2> SUFFICES ASSUME NEW j \in 1 .. Len(toClient'), Note(j)', NEW i \in 1 .. Len(c.buffer)
               PROVE  c.buffer[i] < toClient'[j].note
    BY <1>1 DEF WireAfterBuffer
  <2>1. c.buffer[i] <= Sent /\ c.buffer[i] \in Nat
    BY <1>2 DEF OrderInv, BufferNext
  <2> QED BY <1>2, <1>3, <2>1 DEF OrderInv, WireAfterBuffer
<1> QED BY <1>5, <1>6, <1>7, <1>8, <1>9, <1>10 DEF OrderInv

\* The first message leaves the connection and is dropped, or goes to deliver.
LEMMA OrderTake ==
  ASSUME SubTypeOK, HeldInv, OrderInv, NEW kinds, Client!Incoming(kinds),
         c' = c, got' = got, Sent' = Sent,
         d'.pc = "deliver" => d'.item = toClient[1].note /\ Note(1)
  PROVE  OrderInv'
<1>1. Latest' = Latest
  BY DEF Latest
<1>2. /\ Len(toClient) \in Nat \ {0} /\ Sent \in Nat /\ Latest \in Nat
      /\ \A i \in 1 .. Len(c.buffer) : c.buffer[i] \in Nat
      /\ \A i \in 1 .. Len(toClient) : toClient[i].note \in Nat
  BY NumbersAre, IncomingIs
<1>3. \A i \in 1 .. Len(toClient') : /\ toClient'[i] = toClient[i + 1] /\ i + 1 \in 1 .. Len(toClient)
                                     /\ 1 < i + 1 /\ Note(i)' = Note(i + 1)
  BY IncomingIs DEF Note
<1>4. 1 \in 1 .. Len(toClient)
  BY <1>2
<1>5. WireSorted'
  <2> SUFFICES ASSUME NEW i \in 1 .. Len(toClient'), NEW j \in 1 .. Len(toClient'), i < j, Note(i)', Note(j)'
               PROVE  toClient'[i].note < toClient'[j].note
    BY DEF WireSorted
  <2>1. i + 1 < j + 1
    OBVIOUS
  <2> QED BY <1>3, <2>1 DEF OrderInv, WireSorted
<1>6. BufferSorted'
  BY DEF OrderInv, BufferSorted
<1>7. BufferNext'
  BY <1>1, <1>2, <1>4 DEF OrderInv, BufferNext, WireLast, WireAfterBuffer
<1>8. ItemNext' /\ Latest' <= Sent'
  BY <1>1, <1>4 DEF OrderInv, ItemNext, WireLast
<1>9. WireLast'
  BY <1>1, <1>3, <1>4 DEF OrderInv, WireLast, WireSorted
<1>10. WireAfterBuffer'
  BY <1>3 DEF OrderInv, WireAfterBuffer
<1> QED BY <1>5, <1>6, <1>7, <1>8, <1>9, <1>10 DEF OrderInv

\* Entries leave the buffer, or the one in deliver is dropped.
LEMMA OrderDrop ==
  ASSUME OrderInv, toClient' = toClient, got' = got, Sent' = Sent, c'.buffer \in {c.buffer, << >>},
         d'.pc = "deliver" => d.pc = "deliver" /\ d'.item = d.item
  PROVE  OrderInv'
<1>1. Latest' = Latest /\ \A i : Note(i)' = Note(i)
  BY DEF Latest, Note
<1>2. CASE c'.buffer = c.buffer
  BY <1>1, <1>2 DEF OrderInv, WireSorted, BufferSorted, WireLast, WireAfterBuffer, BufferNext,
     ItemNext
<1>3. CASE c'.buffer = << >>
  <2>1. \A i \in 1 .. Len(c'.buffer) : FALSE
    BY <1>3
  <2> QED
    BY <1>1, <2>1 DEF OrderInv, WireSorted, BufferSorted, WireLast, WireAfterBuffer, BufferNext,
       ItemNext
<1> QED BY <1>2, <1>3

\* deliver hands its entry to forward.
LEMMA OrderPush ==
  ASSUME SubTypeOK, HeldInv, OrderInv, toClient' = toClient, got' = got, Sent' = Sent,
         d.pc = "deliver", d'.pc # "deliver",
         c'.buffer = Append(c.buffer, d.item)
  PROVE  OrderInv'
<1>1. Latest' = Latest /\ \A i : Note(i)' = Note(i)
  BY DEF Latest, Note
<1>2. c.buffer \in Seq(Nat) /\ d.item \in Nat /\ Len(c.buffer) \in Nat
  BY NumbersAre
<1>3. /\ Len(c'.buffer) = Len(c.buffer) + 1 /\ c'.buffer[Len(c.buffer) + 1] = d.item
      /\ \A i \in 1 .. Len(c.buffer) : c'.buffer[i] = c.buffer[i]
  BY <1>2, AppendIs
<1>8. \A i \in 1 .. Len(c'.buffer) : \/ i \in 1 .. Len(c.buffer) /\ c'.buffer[i] = c.buffer[i]
                                     \/ i = Len(c.buffer) + 1 /\ c'.buffer[i] = d.item
  BY <1>2, <1>3
<1>4. WireSorted' /\ WireLast' /\ ItemNext' /\ Latest' <= Sent'
  BY <1>1 DEF OrderInv, WireSorted, WireLast, ItemNext
<1>5. BufferSorted'
  <2> SUFFICES ASSUME NEW i \in 1 .. Len(c'.buffer), NEW j \in 1 .. Len(c'.buffer), i < j
               PROVE  c'.buffer[i] < c'.buffer[j]
    BY DEF BufferSorted
  <2>1. i \in 1 .. Len(c.buffer) /\ c'.buffer[i] = c.buffer[i]
    BY <1>2, <1>8, <1>3
  <2>2. CASE j \in 1 .. Len(c.buffer)
    BY <1>3, <2>1, <2>2 DEF OrderInv, BufferSorted
  <2>3. CASE c'.buffer[j] = d.item
    BY <2>1, <2>3 DEF OrderInv, BufferNext
  <2> QED BY <1>8, <2>2, <2>3
<1>6. BufferNext'
  BY <1>1, <1>8 DEF OrderInv, BufferNext, ItemNext
<1>7. WireAfterBuffer'
  BY <1>1, <1>8 DEF OrderInv, WireAfterBuffer, WireLast
<1> QED BY <1>4, <1>5, <1>6, <1>7 DEF OrderInv

\* The reader takes the oldest entry of the buffer.
LEMMA OrderRead ==
  ASSUME SubTypeOK, HeldInv, OrderInv, toClient' = toClient, Sent' = Sent, d' = d, c.buffer # << >>,
         c'.buffer = Tail(c.buffer), got' = Append(got, Head(c.buffer))
  PROVE  OrderInv'
<1>1. c.buffer \in Seq(Nat) /\ got \in Seq(Nat)
  BY NumbersAre
<1>2. Latest' = c.buffer[1] /\ Len(c.buffer) \in Nat \ {0}
  BY <1>1, TailIs DEF Latest
<1>3. \A i \in 1 .. Len(c'.buffer) : c'.buffer[i] = c.buffer[i + 1] /\ i + 1 \in 1 .. Len(c.buffer) /\ 1 < i + 1
  BY <1>1, TailIs
<1>4. 1 \in 1 .. Len(c.buffer) /\ \A i : Note(i)' = Note(i)
  BY <1>2 DEF Note
<1>5. WireSorted' /\ Latest' <= Sent'
  BY <1>2, <1>4 DEF OrderInv, WireSorted, BufferNext
<1>6. BufferSorted'
  <2> SUFFICES ASSUME NEW i \in 1 .. Len(c'.buffer), NEW j \in 1 .. Len(c'.buffer), i < j
               PROVE  c'.buffer[i] < c'.buffer[j]
    BY DEF BufferSorted
  <2>1. i + 1 < j + 1
    OBVIOUS
  <2> QED BY <1>3, <2>1 DEF OrderInv, BufferSorted
<1>7. WireLast' /\ ItemNext'
  BY <1>2, <1>4 DEF OrderInv, WireLast, WireAfterBuffer, BufferNext, ItemNext
<1>8. WireAfterBuffer'
  BY <1>3, <1>4 DEF OrderInv, WireAfterBuffer
<1>9. BufferNext'
  BY <1>2, <1>3, <1>4 DEF OrderInv, BufferNext, BufferSorted
<1> QED BY <1>5, <1>6, <1>7, <1>8, <1>9 DEF OrderInv

LEMMA OrderStep ==
  SubTypeOK /\ OnceInv /\ StartInv /\ CallInv /\ UnsubInv /\ HeldInv /\ OrderInv /\ [Next]_vars => OrderInv'
<1> SUFFICES ASSUME SubTypeOK, OnceInv, StartInv, CallInv, UnsubInv, HeldInv, OrderInv, [Next]_vars
             PROVE  OrderInv'
  OBVIOUS
<1>a. d \in Dispatch /\ c \in Forward /\ Sent \in Nat
  BY NumbersAre
<1>1. CASE Quiet
  BY <1>1, OrderDrop DEF Quiet
<1>2. CASE Serves
  <2>1. CASE Sent' = Sent + 1 /\ Wrote(Server!Message("note", Sent + 1))
    BY <2>1, <1>a, OrderWrite, MessagesAre
  <2>2. ASSUME NEW k \in {"accept", "refuse", "unsubscribed"}, Sent' = Sent, Wrote(Server!Message(k, 0))
        PROVE  OrderInv'
    <3>1. Server!Message(k, 0) \in Messages /\ Server!Message(k, 0).kind # "note"
      BY MessagesAre
    <3>2. Sent' \in Nat /\ Sent' >= Sent
      BY <2>2, <1>a
    <3> QED BY <2>2, <3>1, <3>2, OrderWrite
  <2> QED BY <1>2, <1>1, <2>1, <2>2, ServerSends
<1>3. CASE AtClient(Client!HandleAnswer) \/ AtClient(Client!HandleUnsubscribed)
  <2>1. /\ c' = c /\ got' = got /\ Sent' = Sent /\ d'.pc # "deliver"
        /\ \E kinds : Client!Incoming(kinds)
    BY <1>3, <1>a DEF AtClient, Client!Incoming, Client!HandleAnswer, Client!HandleUnsubscribed,
                      serverVars, Sent, Dispatch
  <2> QED BY <2>1, OrderTake
<1>4. CASE AtClient(Client!HandleNote)
  <2>1. /\ c' = c /\ got' = got /\ Sent' = Sent /\ Client!Incoming({"note"})
        /\ d'.pc = "deliver" => d'.item = Head(toClient).note
    BY <1>4, <1>a DEF AtClient, Client!Incoming, Client!HandleNote, serverVars, Sent, Dispatch
  <2>2. Head(toClient) = toClient[1] /\ Note(1)
    BY <2>1, IncomingIs DEF Note
  <2> QED BY <2>1, <2>2, OrderTake
<1>5. CASE AtClient(Client!Deliver)
  <2>1. UNCHANGED <<toClient, got, Sent>> /\ d'.pc # "deliver" /\ d.pc = "deliver"
    BY <1>5, <1>a DEF AtClient, Client!Deliver, Client!wire, serverVars, Sent, Dispatch
  <2>2. ASSUME NEW w, Client!Ends(w) PROVE c'.buffer = << >>
    BY <2>2, <1>a DEF Client!Ends, Forward
  <2>3. CASE c' = [c EXCEPT !.buffer = Append(@, d.item)]
    <3>1. c'.buffer = Append(c.buffer, d.item)
      BY <2>3, <1>a DEF Forward
    <3> QED BY <2>1, <3>1, OrderPush
  <2> QED BY <1>5, <2>1, <2>2, <2>3, OrderDrop DEF AtClient, Client!Deliver
<1>6. CASE AtClient(Client!DeliverQuit)
  <2>1. UNCHANGED <<toClient, got, Sent, c>> /\ d'.pc # "deliver"
    BY <1>6, <1>a DEF AtClient, Client!DeliverQuit, Client!wire, serverVars, Sent, Dispatch
  <2> QED BY <2>1, OrderDrop
<1>7. CASE AtClient(Client!ForwardSend)
  <2>1. /\ UNCHANGED <<toClient, Sent, d>> /\ c.buffer # << >>
        /\ c'.buffer = Tail(c.buffer) /\ got' = Append(got, Head(c.buffer))
    BY <1>7, <1>a DEF AtClient, Client!ForwardSend, Client!wire, serverVars, Sent, Forward
  <2> QED BY <2>1, OrderRead
<1>8. CASE AtClient(Client!ForwardQuit)
  <2>1. c'.buffer = << >> /\ UNCHANGED <<toClient, got, Sent, d>>
    BY <1>8, <1>a DEF AtClient, Client!ForwardQuit, Client!Ends, Client!wire, serverVars, Sent,
       Forward
  <2> QED BY <2>1, OrderDrop
<1> QED BY <1>1, <1>2, <1>3, <1>4, <1>5, <1>6, <1>7, <1>8, QuietSteps

-----------------------------------------------------------------------------
(* Exactness                                                               *)

LEMMA ExactInit == Init => ExactInv
<1> SUFFICES ASSUME Init PROVE ExactInv
  OBVIOUS
<1>1. Len(toClient) = 0 /\ ~c.quit /\ q["forward"] = "idle"
  BY DEF Init, Server!ServerInit, Client!ClientInit, Client!Actors
<1> QED BY <1>1 DEF ExactInv, Live, Answer

\* Nothing, or one more message, at the end of the connection.
LEMMA ExactWrite ==
  ASSUME SubTypeOK, HeldInv, ExactInv, NEW m \in Messages, Wrote(m),
         \/ Sent' = Sent + 1 /\ m.kind = "note" /\ m.note = Sent + 1
         \/ Sent' = Sent /\ ~Live /\ ~Answer /\ (m.kind = "accept" => Sent = 0 /\ toClient = << >>)
  PROVE  ExactInv'
<1>1. c' = c /\ d' = d /\ q' = q /\ got' = got /\ Latest' = Latest /\ Through' = Through /\ up' = up /\ Live' = Live
  BY DEF Wrote, clientVars, Latest, Through, Live
<1>2. Len(toClient) \in Nat /\ Sent \in Nat /\ Through \in Nat
  <2>1. Len(got) \in Nat /\ Len(c.buffer) \in Nat /\ Len(toClient) \in Nat /\ Sent \in Nat
    BY NumbersAre
  <2> QED BY <2>1 DEF Through
<1>3. CASE ~up /\ toClient' = toClient
  <2>1. Answer' = Answer /\ \A i : Note(i)' = Note(i)
    BY <1>3 DEF Answer, Note
  <2> QED BY <1>1, <1>3, <2>1 DEF ExactInv, LiveExact, AnswerExact
<1>4. CASE /\ up /\ Len(toClient') = Len(toClient) + 1 /\ toClient'[Len(toClient) + 1] = m
           /\ \A i \in 1 .. Len(toClient) : toClient'[i] = toClient[i]
  <2>1. \A i \in 1 .. Len(toClient') : \/ i \in 1 .. Len(toClient) /\ toClient'[i] = toClient[i]
                                       \/ i = Len(toClient) + 1 /\ toClient'[i] = m
    BY <1>2, <1>4
  <2>2. CASE Sent' = Sent + 1 /\ m.kind = "note" /\ m.note = Sent + 1
    <3>1. ASSUME Live PROVE LiveExact'
      <4>1. LiveExact
        BY <3>1 DEF ExactInv
      <4>2. ASSUME NEW i \in 1 .. Len(toClient') PROVE Note(i)' /\ toClient'[i].note = Through + i
        <5>1. CASE i \in 1 .. Len(toClient) /\ toClient'[i] = toClient[i]
          BY <4>1, <5>1 DEF LiveExact, Note
        <5>2. CASE i = Len(toClient) + 1 /\ toClient'[i] = m
          BY <1>2, <1>4, <2>2, <4>1, <5>2 DEF LiveExact, Note
        <5> QED BY <2>1, <5>1, <5>2
      <4>3. Through + Len(toClient') = Sent'
        BY <1>2, <1>4, <2>2, <4>1 DEF LiveExact
      <4> QED BY <1>1, <4>1, <4>2, <4>3 DEF LiveExact
    <3>2. ASSUME Answer' PROVE AnswerExact'
      <4>1. Len(toClient) > 0
        BY <1>2, <1>4, <2>2, <3>2 DEF Answer
      <4>2. AnswerExact
        BY <1>2, <1>4, <3>2, <4>1 DEF ExactInv, Answer
      <4>3. \A i \in 2 .. Len(toClient') : Note(i)' /\ toClient'[i].note = i - 1
        BY <1>2, <1>4, <2>1, <2>2, <4>1, <4>2 DEF AnswerExact, Note
      <4>4. Len(toClient') - 1 = Sent'
        BY <1>2, <1>4, <2>2, <4>2 DEF AnswerExact
      <4> QED BY <4>3, <4>4 DEF AnswerExact
    <3> QED BY <1>1, <3>1, <3>2 DEF ExactInv
  <2>3. CASE Sent' = Sent /\ ~Live /\ ~Answer /\ (m.kind = "accept" => Sent = 0 /\ toClient = << >>)
    <3>1. ASSUME Answer' PROVE AnswerExact'
      <4>1. Len(toClient) = 0
        BY <1>2, <1>4, <2>3, <3>1 DEF Answer
      <4>2. Sent = 0
        BY <1>4, <2>3, <3>1, <4>1 DEF Answer
      <4> QED BY <1>4, <2>3, <4>1, <4>2 DEF AnswerExact
    <3> QED BY <1>1, <2>3, <3>1 DEF ExactInv
  <2> QED BY <2>2, <2>3
<1> QED BY <1>3, <1>4, SendIs DEF Wrote

\* Only the answer itself can be an answer.
LEMMA NoSecondAnswer ==
  ASSUME SubTypeOK, CallInv, NEW kinds, Client!Incoming(kinds)
  PROVE  ~Answer'
<1>1. /\ Len(toClient) \in Nat /\ Len(toClient') = Len(toClient) - 1
      /\ \A i \in 1 .. Len(toClient) - 1 : toClient'[i] = toClient[i + 1]
  BY IncomingIs
<1> SUFFICES ASSUME Answer' PROVE FALSE
  OBVIOUS
<1>2. 1 \in 1 .. Len(toClient) - 1 /\ 2 \in 1 .. Len(toClient)
  BY <1>1 DEF Answer
<1>3. toClient[2].kind = "accept"
  BY <1>1, <1>2 DEF Answer
<1> QED BY <1>2, <1>3 DEF CallInv

LEMMA ExactStep ==
  SubTypeOK /\ OnceInv /\ StartInv /\ CallInv /\ UnsubInv /\ HeldInv /\ ExactInv /\ [Next]_vars => ExactInv'
<1> SUFFICES ASSUME SubTypeOK, OnceInv, StartInv, CallInv, UnsubInv, HeldInv, ExactInv, [Next]_vars
             PROVE  ExactInv'
  OBVIOUS
<1>a. /\ d \in Dispatch /\ c \in Forward /\ Sent \in Nat /\ Len(toClient) \in Nat
      /\ Len(got) \in Nat /\ Len(c.buffer) \in Nat /\ Through \in Nat
      /\ c.buffer \in Seq(Nat) /\ got \in Seq(Nat) /\ d.item \in Nat
  <2>1. Len(got) \in Nat /\ Len(c.buffer) \in Nat
    BY NumbersAre
  <2> QED BY <2>1, NumbersAre DEF Through
<1>b. q \in [Client!Actors -> {"idle", "loop", "want", "unsub", "closeErr", "out"}]
  BY DEF SubTypeOK
<1>c. ASSUME toClient' = toClient, Sent' = Sent, up' = up, ~Live' PROVE ExactInv'
  BY <1>c DEF ExactInv, Answer, AnswerExact, Note
<1>1. CASE Quiet
  <2>1. /\ toClient' = toClient /\ got' = got /\ Sent' = Sent /\ c'.buffer = c.buffer /\ d'.item = d.item
        /\ (d'.pc = "deliver" <=> d.pc = "deliver") /\ (Live' => Live) /\ (up' => up)
    BY <1>1 DEF Quiet
  <2>2. Latest' = Latest /\ Through' = Through /\ Answer' = Answer /\ \A i : Note(i)' = Note(i)
    BY <2>1 DEF Latest, Through, Answer, Note
  <2> QED BY <2>1, <2>2 DEF ExactInv, LiveExact, AnswerExact
<1>2. CASE Serves
  <2>1. CASE Sent' = Sent + 1 /\ Wrote(Server!Message("note", Sent + 1))
    <3>1. /\ Server!Message("note", Sent + 1) \in Messages
          /\ Server!Message("note", Sent + 1).kind = "note"
          /\ Server!Message("note", Sent + 1).note = Sent + 1
      BY <1>a, MessagesAre
    <3> QED BY <2>1, <3>1, ExactWrite
  <2>2. ASSUME Sent' = Sent, Sent = 0, toClient = << >>, ~Begun,
               NEW k \in {"accept", "refuse"}, Wrote(Server!Message(k, 0))
        PROVE  ExactInv'
    <3>1. ~Live /\ ~Answer /\ Server!Message(k, 0) \in Messages
      BY <2>2, MessagesAre DEF Begun, Live, Answer
    <3> QED BY <2>2, <3>1, ExactWrite
  <2>3. ASSUME Sent' = Sent, Begun, c.quit, Wrote(Server!Message("unsubscribed", 0)) PROVE ExactInv'
    <3>1. /\ Server!Message("unsubscribed", 0) \in Messages
          /\ Server!Message("unsubscribed", 0).kind = "unsubscribed"
      BY MessagesAre
    <3>2. ~Live
      BY <2>3 DEF Live
    <3>3. ~Answer
      BY <2>3, <1>a DEF Answer, CallInv
    <3> QED BY <2>3, <3>1, <3>2, <3>3, ExactWrite
  <2> QED BY <1>2, <1>1, <2>1, <2>2, <2>3, ServerSends
<1>3. CASE AtClient(Client!HandleAnswer)
  <2>1. /\ Client!Incoming({"accept", "refuse"}) /\ got' = got /\ c' = c /\ Sent' = Sent /\ d'.pc # "deliver"
    BY <1>3, <1>a DEF AtClient, Client!HandleAnswer, Client!Incoming, serverVars, Sent, Dispatch
  <2>2. toClient[1].kind \in {"accept", "refuse"} /\ 1 \in 1 .. Len(toClient)
    BY <2>1, IncomingIs
  <2>3. ~Live
    BY <2>2 DEF ExactInv, LiveExact, Note
  <2>4. ASSUME Live' PROVE LiveExact'
    <3>1. "subscribe" \in d.respWait /\ Answer
      BY <1>3, <2>1, <2>2, <2>3, <2>4, IncomingIs DEF AtClient, Client!HandleAnswer, Live, Answer
    <3>2. got = << >> /\ c.buffer = << >>
      BY <3>1 DEF StartInv
    <3>3. Latest' = 0 /\ Len(got') = 0 /\ Len(c'.buffer) = 0
      BY <2>1, <3>2 DEF Latest
    <3>4. Through' = 0
      BY <2>1, <3>3 DEF Through
    <3>5. AnswerExact /\ up' = up /\ Len(toClient') = Len(toClient) - 1
      BY <2>1, <3>1, IncomingIs DEF ExactInv
    <3>6. \A i \in 1 .. Len(toClient') : Note(i)' /\ toClient'[i].note = i
      <4> SUFFICES ASSUME NEW i \in 1 .. Len(toClient') PROVE Note(i)' /\ toClient'[i].note = i
        OBVIOUS
      <4>1. toClient'[i] = toClient[i + 1] /\ i + 1 \in 2 .. Len(toClient)
        BY <2>1, <3>5, IncomingIs
      <4> QED BY <3>5, <4>1 DEF AnswerExact, Note
    <3> QED BY <1>a, <2>1, <3>3, <3>4, <3>5, <3>6 DEF LiveExact, AnswerExact
  <2> QED BY <2>1, <2>4, NoSecondAnswer DEF ExactInv
<1>4. CASE AtClient(Client!HandleUnsubscribed)
  <2>1. Client!Incoming({"unsubscribed"}) /\ q' = q /\ c' = c
    BY <1>4 DEF AtClient, Client!HandleUnsubscribed
  <2>2. ~Live /\ Live' = Live
    BY <2>1, IncomingIs DEF ExactInv, LiveExact, Note, Live
  <2> QED BY <2>1, <2>2, NoSecondAnswer DEF ExactInv
<1>5. CASE AtClient(Client!HandleNote)
  <2>1. /\ Client!Incoming({"note"}) /\ q' = q /\ c' = c /\ got' = got /\ Sent' = Sent /\ d.pc = "select"
        /\ d.subs => d'.pc = "deliver" /\ d'.item = Head(toClient).note
    BY <1>5, <1>a DEF AtClient, Client!HandleNote, Client!Incoming, serverVars, Sent, Dispatch
  <2>2. ASSUME Live' PROVE LiveExact'
    <3>1. LiveExact /\ d.subs
      BY <2>1, <2>2 DEF ExactInv, Live, StartInv, Begun
    <3>2. /\ d'.pc = "deliver" /\ d'.item = toClient[1].note /\ 1 \in 1 .. Len(toClient) /\ up' = up
          /\ Len(toClient') = Len(toClient) - 1
      BY <2>1, <3>1, IncomingIs
    <3>3. Latest' = Latest /\ Through' = Through + 1
      BY <1>a, <2>1, <3>2 DEF Latest, Through
    <3>4. d'.item = Through + 1
      BY <3>1, <3>2 DEF LiveExact
    <3>5. \A i \in 1 .. Len(toClient') : Note(i)' /\ toClient'[i].note = Through + 1 + i
      <4> SUFFICES ASSUME NEW i \in 1 .. Len(toClient') PROVE Note(i)' /\ toClient'[i].note = Through + 1 + i
        OBVIOUS
      <4>1. toClient'[i] = toClient[i + 1] /\ i + 1 \in 1 .. Len(toClient)
        BY <2>1, IncomingIs
      <4> QED BY <1>a, <3>1, <4>1 DEF LiveExact, Note
    <3>9. up => Through + Len(toClient) = Sent
      BY <3>1 DEF LiveExact
    <3>10. Sent' = Sent /\ Len(toClient) \in Nat /\ Through \in Nat
      BY <1>a, <2>1
    <3>6. up' => Through' + Len(toClient') = Sent'
      BY <3>2, <3>3, <3>9, <3>10
    <3>7. Latest' = Len(got') /\ d'.item = Through'
      BY <2>1, <3>1, <3>3, <3>4 DEF LiveExact
    <3>8. \A i \in 1 .. Len(c'.buffer) : c'.buffer[i] = Len(got') + i
      BY <2>1, <3>1 DEF LiveExact
    <3> QED BY <3>3, <3>5, <3>6, <3>7, <3>8 DEF LiveExact
  <2> QED BY <2>1, <2>2, NoSecondAnswer DEF ExactInv
<1>6. CASE AtClient(Client!Deliver)
  <2>1. toClient' = toClient /\ up' = up /\ got' = got /\ Sent' = Sent /\ d'.pc # "deliver" /\ d.pc = "deliver"
    BY <1>6, <1>a DEF AtClient, Client!Deliver, Client!wire, serverVars, Sent, Dispatch
  <2>2. ASSUME NEW w, Client!Ends(w) PROVE ExactInv'
    <3>1. ~Live'
      BY <2>2, <1>b DEF Client!Ends, Live, Client!Actors
    <3> QED BY <2>1, <3>1, <1>c
  <2>3. CASE c' = [c EXCEPT !.buffer = Append(@, d.item)] /\ q' = q
    <3>1. c'.buffer = Append(c.buffer, d.item) /\ c'.quit = c.quit
      BY <2>3, <1>a DEF Forward
    <3>2. /\ Len(c'.buffer) = Len(c.buffer) + 1 /\ c'.buffer[Len(c.buffer) + 1] = d.item
          /\ \A i \in 1 .. Len(c.buffer) : c'.buffer[i] = c.buffer[i]
      BY <1>a, <3>1, AppendIs
    <3>3. Latest' = Latest /\ Through' = Through /\ Live' = Live /\ Answer' = Answer /\ \A i : Note(i)' = Note(i)
      BY <1>a, <2>1, <2>3, <3>1, <3>2 DEF Latest, Through, Live, Answer, Note
    <3>4. ASSUME Live PROVE LiveExact'
      <4>1. LiveExact /\ d.item = Len(got) + Len(c.buffer) + 1
        BY <2>1, <3>4 DEF ExactInv, LiveExact, Through
      <4>2. \A i \in 1 .. Len(c'.buffer) : c'.buffer[i] = Len(got) + i
        <5> SUFFICES ASSUME NEW i \in 1 .. Len(c'.buffer) PROVE c'.buffer[i] = Len(got) + i
          OBVIOUS
        <5>1. CASE i \in 1 .. Len(c.buffer)
          BY <3>2, <4>1, <5>1 DEF LiveExact
        <5>2. CASE i = Len(c.buffer) + 1
          BY <1>a, <3>2, <4>1, <5>2
        <5> QED BY <1>a, <3>2, <5>1, <5>2
      <4> QED BY <2>1, <3>3, <4>1, <4>2 DEF LiveExact
    <3> QED BY <2>1, <3>3, <3>4 DEF ExactInv, AnswerExact
  <2> QED BY <1>6, <2>2, <2>3 DEF AtClient, Client!Deliver
<1>7. CASE AtClient(Client!DeliverQuit)
  <2>1. toClient' = toClient /\ up' = up /\ Sent' = Sent /\ ~Live'
    BY <1>7 DEF AtClient, Client!DeliverQuit, Client!wire, serverVars, Sent, Live
  <2> QED BY <2>1, <1>c
<1>8. CASE AtClient(Client!ForwardSend)
  <2>1. /\ toClient' = toClient /\ up' = up /\ Sent' = Sent /\ d' = d /\ q' = q /\ c.buffer # << >>
        /\ c'.buffer = Tail(c.buffer) /\ c'.quit = c.quit /\ got' = Append(got, Head(c.buffer))
    BY <1>8, <1>a DEF AtClient, Client!ForwardSend, Client!wire, serverVars, Sent, Forward
  <2>2. /\ Head(c.buffer) = c.buffer[1] /\ Len(c'.buffer) = Len(c.buffer) - 1 /\ Len(c.buffer) \in Nat \ {0}
        /\ \A i \in 1 .. Len(c.buffer) - 1 : c'.buffer[i] = c.buffer[i + 1]
    BY <1>a, <2>1, TailIs
  <2>3. Head(c.buffer) \in Nat
    BY <1>a, <2>1
  <2>4. Len(got') = Len(got) + 1 /\ Latest' = c.buffer[1]
    BY <1>a, <2>1, <2>2, <2>3, AppendIs DEF Latest
  <2>5. Live' = Live /\ Answer' = Answer /\ \A i : Note(i)' = Note(i)
    BY <2>1 DEF Live, Answer, Note
  <2>8. Len(got') + Len(c'.buffer) = Len(got) + Len(c.buffer)
    <3>1. Len(got') = Len(got) + 1 /\ Len(got) \in Nat
      BY <1>a, <2>4
    <3>2. Len(c'.buffer) = Len(c.buffer) - 1 /\ Len(c.buffer) \in Nat
      BY <1>a, <2>2
    <3>3. \A m, n \in Nat : (m + 1) + (n - 1) = m + n
      OBVIOUS
    <3> QED BY <3>1, <3>2, <3>3
  <2>7. Through' = Through
    BY <2>1, <2>8 DEF Through
  <2>6. ASSUME Live PROVE LiveExact'
    <3>1. LiveExact
      BY <2>6 DEF ExactInv
    <3>2. Latest' = Len(got')
      BY <2>2, <2>4, <3>1 DEF LiveExact
    <3>3. \A i \in 1 .. Len(c'.buffer) : c'.buffer[i] = Len(got') + i
      BY <1>a, <2>2, <2>4, <3>1 DEF LiveExact
    <3> QED BY <2>1, <2>5, <2>7, <3>1, <3>2, <3>3 DEF LiveExact
  <2> QED BY <2>1, <2>5, <2>6 DEF ExactInv, AnswerExact
<1>9. CASE AtClient(Client!ForwardQuit)
  <2>1. toClient' = toClient /\ up' = up /\ Sent' = Sent /\ ~Live'
    BY <1>9, <1>b DEF AtClient, Client!ForwardQuit, Client!Ends, Client!wire, serverVars, Sent,
       Live, Client!Actors
  <2> QED BY <2>1, <1>c
<1> QED BY <1>1, <1>2, <1>3, <1>4, <1>5, <1>6, <1>7, <1>8, <1>9, QuietSteps

-----------------------------------------------------------------------------
(* The invariant, and what follows from it                                 *)
SubInv == SubTypeOK /\ OnceInv /\ StartInv /\ CallInv /\ UnsubInv /\ HeldInv /\ OrderInv /\ ExactInv

LEMMA Inductive == Spec => []SubInv
<1>1. Init => SubInv
  BY TypeInit, OnceInit, StartInit, CallInit, UnsubInit, HeldInit, OrderInit, ExactInit DEF SubInv
<1>2. SubInv /\ [Next]_vars => SubInv'
  BY TypeStep, OnceStep, StartStep, CallStep, UnsubStep, HeldStep, OrderStep, ExactStep DEF SubInv
<1> QED BY <1>1, <1>2, PTL DEF Spec

(* sub.err never needs more room than it has, it is closed only when nobody *)
(* can send on it, and quit is closed and errors are sent inside quitOnce.  *)
THEOREM ErrChannelHolds == Spec => []ErrChannel
<1>1. SubInv => ErrChannel
  BY DEF SubInv, OnceInv, ErrChannel
<1> QED BY <1>1, Inductive, PTL

(* When Subscribe has returned the subscription, dispatch knows it, or it   *)
(* has already ended.                                                       *)
THEOREM SubscribedIsListedHolds == Spec => []SubscribedIsListed
<1>1. SubInv => SubscribedIsListed
  BY DEF SubInv, StartInv, Begun, SubscribedIsListed
<1> QED BY <1>1, Inductive, PTL

(* An unsubscribe request under way finds the subscription registered, as   *)
(* long as the server's handler runs.                                       *)
THEOREM UnsubscribeFindsItHolds == Spec => []UnsubscribeFindsIt
<1>1. ASSUME SubInv, served = "up", NEW i \in DOMAIN toServer, toServer[i] = "unsubscribe"
      PROVE  sub = "registered"
  <2>1. i \in Unsubs
    BY <1>1 DEF Unsubs, SubInv, SubTypeOK
  <2>2. Begun /\ sub # "unsubscribed" /\ sub # "cancelled"
    BY <1>1, <2>1 DEF SubInv, UnsubInv, StartInv
  <2>3. proc # "callback" /\ sub # "none"
    BY <1>1, <2>2 DEF SubInv, CallInv, Answered
  <2>4. sub \in {"none", "created", "registered", "unsubscribed", "cancelled"} /\ sub # "created"
    BY <1>1, <2>3 DEF SubInv, SubTypeOK, CallInv
  <2> QED BY <2>2, <2>3, <2>4
<1>2. SubInv => UnsubscribeFindsIt
  BY <1>1 DEF UnsubscribeFindsIt
<1> QED BY <1>2, Inductive, PTL

-----------------------------------------------------------------------------
(* The refinement                                                          *)

Phase == IF Ended THEN "over" ELSE IF c.quit THEN "ending" ELSE "live"

LEMMA FeedStep == SubInv /\ [Next]_vars => [Promise!FeedNext]_<<published, got, Phase>>
<1> SUFFICES ASSUME SubInv, [Next]_vars PROVE [Promise!FeedNext]_<<published, got, Phase>>
  OBVIOUS
<1> USE SubAssumption
<1>a. /\ SubTypeOK /\ OnceInv /\ StartInv /\ HeldInv /\ OrderInv /\ ExactInv /\ c \in Forward
      /\ q \in [Client!Actors -> {"idle", "loop", "want", "unsub", "closeErr", "out"}]
  BY DEF SubInv, SubTypeOK
<1>b. ASSUME published' = published, got' = got, Phase' = Phase
      PROVE  [Promise!FeedNext]_<<published, got, Phase>>
  BY <1>b
<1>c. ASSUME published' = published, got' = got, c'.quit \/ Ended', ~Ended, (c.quit => Ended')
      PROVE  [Promise!FeedNext]_<<published, got, Phase>>
  BY <1>c DEF Promise!FeedNext, Promise!End, Phase
<1>1. CASE AtServer(Server!Notify)
  <2>1. published' = published + 1 /\ got' = got /\ Phase' = Phase
    BY <1>1 DEF AtServer, Server!Notify, clientVars, Phase, Ended
  <2> QED BY <2>1 DEF Promise!FeedNext, Promise!Publish, Phase
<1>2. CASE AtClient(Client!ForwardSend)
  <2>1. /\ q["forward"] = "loop" /\ c.buffer # << >> /\ got' = Append(got, Head(c.buffer))
        /\ c' = [c EXCEPT !.buffer = Tail(@)] /\ published' = published /\ q' = q
    BY <1>2 DEF AtClient, Client!ForwardSend, serverVars
  <2>2. c'.quit = c.quit /\ c.buffer \in Seq(Nat)
    BY <1>a, <2>1 DEF Forward
  <2>3. ~Ended /\ Phase' = Phase
    BY <2>1, <2>2 DEF Ended, Phase
  <2>4. Head(c.buffer) = c.buffer[1] /\ 1 \in 1 .. Len(c.buffer)
    BY <2>1, <2>2, TailIs
  <2>5. /\ Latest < c.buffer[1] /\ c.buffer[1] <= published /\ c.buffer[1] \in Nat /\ Latest \in Nat
        /\ published \in Nat /\ Len(got) \in Nat
    <3>1. c.buffer[1] \in Nat /\ Latest \in Nat /\ Len(got) \in Nat /\ published \in Nat /\ Len(pending) \in Nat
      BY <1>a, <2>4, NumbersAre DEF SubTypeOK
    <3>2. Latest < c.buffer[1] /\ c.buffer[1] <= published - Len(pending)
      BY <1>a, <2>4 DEF OrderInv, BufferNext, Sent
    <3> QED BY <3>1, <3>2
  <2>6. CASE ~c.quit
    <3>1. c.buffer[1] = Len(got) + 1
      BY <1>a, <2>1, <2>4, <2>6 DEF ExactInv, Live, LiveExact
    <3>2. Phase = "live" /\ Len(got) < published
      BY <2>3, <2>5, <2>6, <3>1 DEF Phase
    <3>3. Promise!Arrive
      BY <2>1, <2>3, <2>4, <3>1, <3>2 DEF Promise!Arrive, Phase
    <3> QED BY <3>3 DEF Promise!FeedNext
  <2>7. CASE c.quit
    <3>1. Phase = "ending" /\ c.buffer[1] \in Latest + 1 .. published
      BY <2>3, <2>5, <2>7 DEF Phase
    <3>2. Promise!ArriveLate
      BY <2>1, <2>3, <2>4, <3>1 DEF Promise!ArriveLate, Promise!Latest, Latest, Phase
    <3> QED BY <3>2 DEF Promise!FeedNext
  <2> QED BY <2>6, <2>7
<1>3. CASE UNCHANGED <<q, c, published, got>>
  BY <1>3, <1>b DEF Phase, Ended
<1>4. CASE AtClient(Client!HandleAnswer)
  <2>1. published' = published /\ got' = got /\ c' = c
    BY <1>4 DEF AtClient, Client!HandleAnswer, serverVars
  <2>2. q' = q \/ (q["forward"] = "idle" /\ q'["forward"] = "loop")
    BY <1>4, <1>a DEF AtClient, Client!HandleAnswer, StartInv, Begun, Client!Actors
  <2> QED BY <2>1, <2>2, <1>b DEF Phase, Ended
<1>d. ASSUME published' = published, got' = got, q["forward"] = "loop", NEW w, Client!Ends(w)
      PROVE  [Promise!FeedNext]_<<published, got, Phase>>
  <2>1. ~Ended /\ Ended'
    BY <1>d, <1>a DEF Ended, Client!Ends, Client!Actors
  <2> QED BY <1>d, <2>1, <1>c
<1>5. CASE AtClient(Client!Deliver)
  <2>1. published' = published /\ got' = got /\ q["forward"] = "loop"
    BY <1>5 DEF AtClient, Client!Deliver, serverVars
  <2>2. CASE c' = [c EXCEPT !.buffer = Append(@, d.item)] /\ q' = q
    BY <2>1, <2>2, <1>a, <1>b DEF Phase, Ended, Forward
  <2> QED BY <1>5, <2>1, <2>2, <1>d DEF AtClient, Client!Deliver
<1>6. CASE AtClient(Client!ForwardQuit)
  <2>1. published' = published /\ got' = got /\ q["forward"] = "loop" /\ Client!Ends("quit")
    BY <1>6 DEF AtClient, Client!ForwardQuit, serverVars
  <2> QED BY <2>1, <1>d
<1>7. ASSUME NEW u \in Users, AtClient(Client!Unsubscribe(u)) \/ AtClient(Client!CloseErr(u))
      PROVE  [Promise!FeedNext]_<<published, got, Phase>>
  <2>1. published' = published /\ got' = got /\ q'["forward"] = q["forward"] /\ c'.quit = c.quit
    BY <1>7, <1>a DEF AtClient, Client!Unsubscribe, Client!CloseErr, serverVars, Client!Actors,
       Forward
  <2> QED BY <2>1, <1>b DEF Phase, Ended
<1>8. ASSUME NEW a \in Client!Actors, AtClient(Client!OnceEnter(a))
      PROVE  [Promise!FeedNext]_<<published, got, Phase>>
  <2>1. published' = published /\ got' = got /\ ~c.quit /\ c'.quit
    BY <1>8, <1>a DEF AtClient, Client!OnceEnter, serverVars, Forward, OnceInv
  <2>2. Ended' <=> Ended
    BY <1>8, <1>a DEF AtClient, Client!OnceEnter, Ended, Client!Actors
  <2> QED BY <2>1, <2>2, <1>b, <1>c DEF Phase
<1>9. ASSUME NEW a \in Client!Actors, AtClient(Client!OnceLeave(a)) \/ AtClient(Client!OnceSkip(a))
      PROVE  [Promise!FeedNext]_<<published, got, Phase>>
  <2>1. published' = published /\ got' = got
    BY <1>9 DEF AtClient, Client!OnceLeave, Client!OnceSkip, serverVars
  <2>2. c'.quit = c.quit
    BY <1>9, <1>a DEF AtClient, Client!OnceLeave, Client!OnceSkip, Forward
  <2>3. Ended' <=> Ended
    BY <1>9, <1>a DEF AtClient, Client!OnceLeave, Client!OnceSkip, Client!After, Ended,
       Client!Actors
  <2> QED BY <2>1, <2>2, <2>3, <1>b DEF Phase
<1>10. CASE AtClient(Client!CancelSub)
  <2>1. published' = published /\ got' = got /\ q' = q
    BY <1>10 DEF AtClient, Client!CancelSub, serverVars
  <2>2. c'.quit = c.quit \/ (c'.quit /\ ~c.quit)
    <3>1. CASE c' = c
      BY <3>1
    <3>2. CASE c' # c
      <4>1. PICK e : c' = [c EXCEPT !.once = "done", !.quit = TRUE, !.err = Append(@, e)]
        BY <1>10, <3>2 DEF AtClient, Client!CancelSub
      <4>2. c.once = "free"
        BY <1>10, <3>2 DEF AtClient, Client!CancelSub
      <4> QED BY <4>1, <4>2, <1>a DEF Forward, OnceInv
    <3> QED BY <3>1, <3>2
  <2> QED BY <2>1, <2>2, <1>b, <1>c DEF Phase, Ended
<1>11. \/ UNCHANGED <<q, c, published, got>> \/ AtServer(Server!Notify) \/ AtClient(Client!ForwardSend)
       \/ ~UNCHANGED <<q, c>>
  BY DEF Next, Break, vars, serverVars, clientVars, AtServer, AtClient, Server!HandleSubscribe,
         Server!CreateSubscription, Server!CallbackReturns, Server!WriteAnswer, Server!Activate,
         Server!FlushOne, Server!FlushFails, Server!Activated, Server!HandleUnsubscribe,
         Server!ServerLost, Server!CancelServerSubs, Client!Subscribe, Client!ReqInit,
         Client!SendGivesUp, Client!Write, Client!Receive, Client!ReqSent, Client!SubscribeTimeout,
         Client!HandleAnswer, Client!HandleUnsubscribed, Client!HandleNote, Client!Deliver,
         Client!DeliverQuit, Client!ForwardQuit, Client!Unsubscribe, Client!CloseErr,
         Client!OnceEnter, Client!OnceLeave, Client!OnceSkip, Client!ReadErr, Client!Close,
         Client!CancelSub
<1> QED
  BY <1>1, <1>2, <1>3, <1>4, <1>5, <1>6, <1>7, <1>8, <1>9, <1>10, <1>11, OnceChanges

(* Notifier, the connection and ClientSubscription together implement Feed: *)
(* in order and none skipped while live, in order to the end.               *)
THEOREM FeedImplemented == Spec => FeedHolds
<1>1. Init => Promise!FeedInit
  BY DEF Init, Server!ServerInit, Client!ClientInit, Promise!FeedInit, Ended, Client!Actors
<1>2. SubInv /\ [Next]_vars => [Promise!FeedNext]_<<published, got,
           IF Ended THEN "over" ELSE IF c.quit THEN "ending" ELSE "live">>
  BY FeedStep DEF Phase
<1> QED BY <1>1, <1>2, Inductive, PTL DEF Spec, FeedHolds, Promise!FeedSpec

=============================================================================
