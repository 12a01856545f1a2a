---------------------------- MODULE Subscription ----------------------------
(***************************************************************************)
(* One subscription from the program that publishes to the program that    *)
(* reads: Notifier and ClientSub joined by a connection that keeps the     *)
(* order of messages and may break at any time.  Both ends run the code of *)
(* chains/custom.                                                          *)
(***************************************************************************)
EXTENDS Naturals, Sequences

CONSTANTS MaxNotes, MaxBuffer, Users,
          Breaks     \* whether the connection may break by itself

ASSUME SubAssumption == /\ MaxNotes \in Nat /\ MaxBuffer \in Nat
                        /\ "forward" \notin Users /\ Breaks \in BOOLEAN

VARIABLES toServer, toClient, up,
          served, proc, sub, activated, pending, published,
          d, reqSent, rq, resp, c, q, got

Server == INSTANCE Notifier
Client == INSTANCE ClientSub

serverVars == <<served, proc, sub, activated, pending, published>>
clientVars == <<d, reqSent, rq, resp, c, q, got>>
vars       == <<toServer, toClient, up, serverVars, clientVars>>

Init == Server!ServerInit /\ Client!ClientInit

Break == /\ Breaks /\ up /\ up' = FALSE
         /\ UNCHANGED <<toServer, toClient, serverVars, clientVars>>

\* A step of one end leaves the other as it is; they share the connection only.
AtServer(A) == A /\ UNCHANGED <<clientVars>>
AtClient(A) == A /\ UNCHANGED <<serverVars>>

Next ==
  \/ AtServer(Server!HandleSubscribe)
  \/ AtServer(Server!CreateSubscription)
  \/ \E ok \in BOOLEAN : AtServer(Server!CallbackReturns(ok))
  \/ AtServer(Server!WriteAnswer)
  \/ AtServer(Server!Activate)
  \/ AtServer(Server!FlushOne)
  \/ AtServer(Server!FlushFails)
  \/ AtServer(Server!Activated)
  \/ AtServer(Server!Notify)
  \/ AtServer(Server!HandleUnsubscribe)
  \/ AtServer(Server!ServerLost)
  \/ AtServer(Server!CancelServerSubs)
  \/ AtClient(Client!Subscribe)
  \/ \E r \in Client!Requests : \/ AtClient(Client!ReqInit(r))
                                \/ AtClient(Client!SendGivesUp(r))
                                \/ AtClient(Client!Write(r))
                                \/ AtClient(Client!Receive(r))
  \/ AtClient(Client!ReqSent)
  \/ AtClient(Client!SubscribeTimeout)
  \/ AtClient(Client!HandleAnswer)
  \/ AtClient(Client!HandleUnsubscribed)
  \/ AtClient(Client!HandleNote)
  \/ AtClient(Client!Deliver)
  \/ AtClient(Client!DeliverQuit)
  \/ AtClient(Client!ForwardSend)
  \/ AtClient(Client!ForwardQuit)
  \/ \E u \in Users : AtClient(Client!Unsubscribe(u)) \/ AtClient(Client!CloseErr(u))
  \/ \E a \in Client!Actors : \/ AtClient(Client!OnceEnter(a))
                              \/ AtClient(Client!OnceLeave(a))
                              \/ AtClient(Client!OnceSkip(a))
  \/ AtClient(Client!ReadErr)
  \/ AtClient(Client!Close)
  \/ AtClient(Client!CancelSub)
  \/ Break

Spec == Init /\ [][Next]_vars

(***************************************************************************)
(* Goroutines that can run do run, and a callback of the server returns.   *)
(* Nobody has to read the channel, publish, unsubscribe or close.  The     *)
(* select of dispatch picks among its ready cases at random, so a case     *)
(* that is ready again and again is taken: strong fairness there.          *)
(***************************************************************************)
Fairness ==
  /\ WF_vars(AtServer(Server!CallStep))
  /\ WF_vars(AtServer(Server!HandleUnsubscribe \/ Server!ServerLost \/ Server!CancelServerSubs))
  /\ \A r \in Client!Requests : /\ WF_vars(AtClient(Client!CallerStep(r)))
                                /\ SF_vars(AtClient(Client!ReqInit(r)))
  /\ SF_vars(AtClient(Client!ReqSent))
  /\ SF_vars(AtClient(Client!MessageStep))
  /\ SF_vars(AtClient(Client!ReadErr))
  /\ WF_vars(AtClient(Client!DeliverStep))
  /\ WF_vars(AtClient(Client!CancelSub))
  /\ WF_vars(AtClient(Client!ForwardQuit))
  /\ WF_vars(AtClient(Client!OnceStep("forward")))
  /\ \A u \in Users : WF_vars(AtClient(Client!UserStep(u)))

FairSpec == Spec /\ Fairness

-----------------------------------------------------------------------------
Messages == [kind : {"accept", "refuse", "unsubscribed", "note"}, note : Nat]

Dispatch == [pc : {"select", "deliver", "cancel", "quit"}, item : Nat, reading : BOOLEAN,
             closing : BOOLEAN, open : BOOLEAN, lastOp : {"subscribe", "unsubscribe", "none"},
             respWait : SUBSET {"subscribe", "unsubscribe"}, subs : BOOLEAN]

Forward == [quit : BOOLEAN, once : {"free", "held", "done"}, buffer : Seq(Nat),
            why : {"none", "quit", "overflow", "badmsg"},
            err : Seq({"none", "quit", "overflow", "badmsg", "nil", "lost"}), errClosed : BOOLEAN]

(* Every variable keeps its type; the buffer of forward keeps its bound.   *)
SubTypeOK ==
  /\ toServer \in Seq({"subscribe", "unsubscribe"}) /\ toClient \in Seq(Messages) /\ up \in BOOLEAN
  /\ served \in {"up", "closing", "closed"}
  /\ proc \in {"idle", "callback", "accept", "refuse", "answered", "flush", "done"}
  /\ sub \in {"none", "created", "registered", "unsubscribed", "cancelled"}
  /\ activated \in BOOLEAN /\ pending \in Seq(Nat) /\ published \in 0 .. MaxNotes
  /\ d \in Dispatch /\ reqSent \in {"none", "ok", "err"}
  /\ rq \in [Client!Requests -> {"idle", "send", "write", "wait", "done", "failed"}]
  /\ resp \in [Client!Requests -> {"none", "ok", "err"}]
  /\ c \in Forward /\ q \in [Client!Actors -> {"idle", "loop", "want", "unsub", "closeErr", "out"}]
  /\ got \in Seq(Nat) /\ Len(c.buffer) <= MaxBuffer

(* The reader of the channel gets what Feed promises.  It rests on both    *)
(* ends at once: the server holds notifications back until the answer with *)
(* the id is written (Notifier.activate), the client enters the            *)
(* subscription before it handles the next message (handleResponse), and   *)
(* forward ends rather than drop one.  When quit is closed deliver and     *)
(* forward still choose at random between it and a notification.           *)
Ended == q["forward"] \in {"want", "unsub", "out"}
Promise == INSTANCE Feed
             WITH phase <- IF Ended THEN "over" ELSE IF c.quit THEN "ending" ELSE "live"
FeedHolds == Promise!FeedSpec

(* An unsubscribe request on its way finds the subscription at the server: *)
(* it can only follow the answer, and addSubscriptions precedes that, or   *)
(* else the connection is lost and the server has told the program.        *)
UnsubscribeFindsIt ==
  /\ \E i \in DOMAIN toServer : toServer[i] = "unsubscribe"
  /\ served = "up"
  => sub = "registered"

(* sub.err: at most one error is sent, so no sender blocks in quitOnce; it *)
(* is closed only when nobody can send any more; and nothing is sent, nor  *)
(* quit closed, outside of quitOnce.                                       *)
ErrChannel ==
  /\ Len(c.err) <= 1
  /\ c.errClosed => c.once = "done"
  /\ c.once = "free" => c.err = << >> /\ ~c.quit

(* A program that has got its subscription finds it listed by dispatch, or *)
(* ended already: no notification is lost between the two.                 *)
SubscribedIsListed == rq["subscribe"] = "done" => d.subs \/ c.quit

(* Dispatch never waits for a goroutine that waits for dispatch, neither   *)
(* when it delivers a notification nor when it cancels the subscription    *)
(* because of Close: forward takes what is delivered, unless quit is       *)
(* closed or free to be closed; and the one goroutine inside quitOnce can  *)
(* finish its unsubscribe call without dispatch.  It is what the comments  *)
(* in quitWithError and at the head of handler.go are after; a connection  *)
(* that breaks is the exception, see UnsubscribeExecutes.                  *)
DispatchUnblocked ==
  /\ d.pc = "deliver" => \/ q["forward"] = "loop" \/ c.quit
                         \/ q["forward"] = "want" /\ c.once = "free"
  /\ d.pc = "cancel" /\ c.once = "held" /\ (Breaks => d.closing) =>
       /\ d.closing /\ \E a \in Client!Actors : q[a] = "unsub"
       /\ rq["unsubscribe"] \in {"send", "write", "wait", "done", "failed"}
       /\ rq["unsubscribe"] = "wait" => resp["unsubscribe"] # "none"

-----------------------------------------------------------------------------
(* On a connection that does not break by itself (Close may still come):   *)

(* a slow or absent reader never keeps dispatch, and an unsubscribe call   *)
(* made inside quitOnce never does.  The comments in quitWithError and at  *)
(* the head of handler.go.                                                 *)
DispatchReturns == d.pc \in {"deliver", "cancel"} ~> d.pc \in {"select", "quit"}

(* Unsubscribe returns, also when forward unsubscribes at the same time.   *)
UnsubscribeReturns == \A u \in Users : q[u] = "want" ~> q[u] = "out"

(* The end of a subscription is reported: an error, or a closed sub.err.   *)
EndIsReported == Ended ~> c.err # << >> \/ c.errClosed

(* Whatever the client does, the program at the server is told when the    *)
(* connection is gone, even if its callback was still running.             *)
ServerTold == ~up ~> sub \notin {"created", "registered"}

-----------------------------------------------------------------------------
(* What the comment in quitWithError says: closing quit first lets the     *)
(* dispatch loop execute the unsubscribe call.                             *)
UnsubscribeExecutes == \A u \in Users : q[u] = "want" ~> q[u] = "out"

=============================================================================
