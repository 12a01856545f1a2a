------------------------------ MODULE Notifier ------------------------------
(***************************************************************************)
(* The server side of one subscription: the goroutine that answers the     *)
(* peer's "subscribe" call (handleMsg, handleSubscribe), the Notifier it   *)
(* installs, the program that publishes through it, and the end of the     *)
(* subscription by the peer's "unsubscribe" call or by the loss of the     *)
(* connection.  chains/custom/handler.go and subscription.go.              *)
(***************************************************************************)
EXTENDS Naturals, Sequences

CONSTANT MaxNotes  \* bound: notifications the program publishes

VARIABLES
  toServer, toClient,  \* the connection: messages under way in each direction
  up,                  \* the connection is intact
  served,              \* the server's handler: "up", "closing" (in callWG.Wait) or "closed"
  proc,                \* the goroutine of the subscribe call
  sub,                 \* the Subscription and its place in serverSubs
  activated, pending,  \* Notifier.activated, Notifier.buffer
  published            \* notifications published so far

wire       == <<toServer, toClient, up>>
serverVars == <<served, proc, sub, activated, pending, published>>

Message(k, i) == [kind |-> k, note |-> i]

ServerInit ==
  /\ toServer = << >> /\ toClient = << >> /\ up = TRUE
  /\ served = "up" /\ proc = "idle" /\ sub = "none"
  /\ activated = FALSE /\ pending = << >> /\ published = 0

\* A write on a broken connection is lost, whether it reports an error or not.
Send(m) == toClient' = IF up THEN Append(toClient, m) ELSE toClient

Incoming(call) ==
  served = "up" /\ toServer # << >> /\ Head(toServer) = call

-----------------------------------------------------------------------------
(* The goroutine of the subscribe call                                     *)

HandleSubscribe ==
  /\ Incoming("subscribe") /\ proc = "idle"
  /\ toServer' = Tail(toServer) /\ proc' = "callback"
  /\ UNCHANGED <<toClient, up, served, sub, activated, pending, published>>

CreateSubscription ==
  /\ proc = "callback" /\ sub = "none"
  /\ sub' = "created"
  /\ UNCHANGED <<wire, served, proc, activated, pending, published>>

\* Mutant of CallbackReturns: addSubscriptions is left to a later moment.
CallbackReturnsUnregistered(ok) ==
  /\ proc = "callback" /\ (ok => sub = "created")
  /\ proc' = IF ok THEN "accept" ELSE "refuse"
  /\ UNCHANGED <<wire, served, sub, activated, pending, published>>

\* The callback returns the subscription or an error; a subscription it created
\* is registered in either case (addSubscriptions, takeSubscription).
CallbackReturns(ok) ==
  /\ proc = "callback" /\ (ok => sub = "created")
  /\ proc' = IF ok THEN "accept" ELSE "refuse"
  /\ sub'  = IF sub = "created" THEN "registered" ELSE sub
  /\ UNCHANGED <<wire, served, activated, pending, published>>

\* The error of this write is ignored: the notifier is activated in any case.
WriteAnswer ==
  /\ proc \in {"accept", "refuse"}
  /\ Send(Message(proc, 0)) /\ proc' = "answered"
  /\ UNCHANGED <<toServer, up, served, sub, activated, pending, published>>

\* activate takes n.mu, so that Notify waits until it is done.
Activate ==
  /\ proc = "answered" /\ proc' = "flush"
  /\ UNCHANGED <<wire, served, sub, activated, pending, published>>

FlushOne ==
  /\ proc = "flush" /\ pending # << >>
  /\ Send(Message("note", Head(pending))) /\ pending' = Tail(pending)
  /\ UNCHANGED <<toServer, up, served, proc, sub, activated, published>>

\* A failed write ends activate: the notifier stays inactive for good.
FlushFails ==
  /\ proc = "flush" /\ pending # << >> /\ ~up
  /\ proc' = "done"
  /\ UNCHANGED <<wire, served, sub, activated, pending, published>>

Activated ==
  /\ proc = "flush" /\ pending = << >>
  /\ activated' = TRUE /\ proc' = "done"
  /\ UNCHANGED <<wire, served, sub, pending, published>>

-----------------------------------------------------------------------------
(* The program publishes.  It may do so before the call has returned.      *)

\* Mutant of Notify: what is published is sent at once, never buffered.
NotifyAtOnce ==
  /\ sub # "none" /\ proc # "flush" /\ published < MaxNotes
  /\ published' = published + 1
  /\ Send(Message("note", published')) /\ UNCHANGED pending
  /\ UNCHANGED <<toServer, up, served, proc, sub, activated>>

Notify ==
  /\ sub # "none" /\ proc # "flush" /\ published < MaxNotes
  /\ published' = published + 1
  /\ IF activated
     THEN Send(Message("note", published')) /\ UNCHANGED pending
     ELSE pending' = Append(pending, published') /\ UNCHANGED toClient
  /\ UNCHANGED <<toServer, up, served, proc, sub, activated>>

-----------------------------------------------------------------------------
(* The end of the subscription on the server                               *)

\* The unsubscribe callback and its answer.
HandleUnsubscribe ==
  /\ Incoming("unsubscribe")
  /\ toServer' = Tail(toServer)
  /\ sub' = IF sub = "registered" THEN "unsubscribed" ELSE sub
  /\ Send(Message("unsubscribed", 0))
  /\ UNCHANGED <<up, served, proc, activated, pending, published>>

\* The read loop fails; handler.close starts and waits for the call goroutines.
ServerLost ==
  /\ ~up /\ served = "up" /\ served' = "closing"
  /\ UNCHANGED <<wire, proc, sub, activated, pending, published>>

\* Mutant of CancelServerSubs: it does not wait for the call goroutines.
CancelServerSubsEarly ==
  /\ served = "closing"
  /\ served' = "closed"
  /\ sub' = IF sub = "registered" THEN "cancelled" ELSE sub
  /\ UNCHANGED <<wire, proc, activated, pending, published>>

\* callWG.Wait returns; cancelServerSubscriptions tells the program.
CancelServerSubs ==
  /\ served = "closing" /\ proc \in {"idle", "done"}
  /\ served' = "closed"
  /\ sub' = IF sub = "registered" THEN "cancelled" ELSE sub
  /\ UNCHANGED <<wire, proc, activated, pending, published>>

-----------------------------------------------------------------------------
CallStep ==
  \/ HandleSubscribe \/ \E ok \in BOOLEAN : CallbackReturns(ok)
  \/ WriteAnswer \/ Activate \/ FlushOne \/ FlushFails \/ Activated

=============================================================================
