----------------------------- MODULE ClientSub ------------------------------
(***************************************************************************)
(* The client side of one subscription over one connection: the caller of  *)
(* Subscribe, the dispatch loop and handler of the client, the goroutine   *)
(* that forwards notifications (ClientSubscription.start), the callers of  *)
(* Unsubscribe, and Close.  chains/custom/client.go, handler.go and        *)
(* subscription.go.  Reconnection is in RpcClient; here a lost connection  *)
(* is not replaced.                                                        *)
(***************************************************************************)
EXTENDS Naturals, Sequences

CONSTANTS Users,      \* goroutines that may call Unsubscribe
          MaxBuffer   \* maxClientSubscriptionBuffer

VARIABLES
  toServer, toClient, up,  \* the connection
  d,        \* dispatch: pc, the item it delivers, reading, closing, whether the
            \* codec is open, lastOp, respWait and clientSubs (one or none)
  reqSent,  \* Client.reqSent, which has room for one
  rq, resp, \* per request: its caller, and what op.resp tells
  c,        \* ClientSubscription: quit, quitOnce, buffer, err, and why forward ended
  q,        \* forward and the callers of Unsubscribe
  got       \* what the reader of the channel received

wire       == <<toServer, toClient, up>>
clientVars == <<d, reqSent, rq, resp, c, q, got>>

Requests == {"subscribe", "unsubscribe"}
Actors   == Users \cup {"forward"}

ClientInit ==
  /\ d = [pc |-> "select", item |-> 0, reading |-> TRUE, closing |-> FALSE, open |-> TRUE,
          lastOp |-> "none", respWait |-> {}, subs |-> FALSE]
  /\ reqSent = "none"
  /\ rq   = [r \in Requests |-> "idle"]
  /\ resp = [r \in Requests |-> "none"]
  /\ c    = [quit |-> FALSE, once |-> "free", why |-> "none", buffer |-> << >>,
             err |-> << >>, errClosed |-> FALSE]
  /\ q    = [a \in Actors |-> "idle"]
  /\ got  = << >>

-----------------------------------------------------------------------------
(* A request: Subscribe's call, or the one of requestUnsubscribe           *)

Subscribe ==
  /\ rq["subscribe"] = "idle" /\ rq' = [rq EXCEPT !["subscribe"] = "send"]
  /\ UNCHANGED <<wire, d, reqSent, resp, c, q, got>>

\* Dispatch takes the request; while lastOp is set it takes no other.
ReqInit(r) ==
  /\ d.pc = "select" /\ d.lastOp = "none" /\ rq[r] = "send"
  /\ d'  = [d EXCEPT !.lastOp = r, !.respWait = @ \cup {r}]
  /\ rq' = [rq EXCEPT ![r] = "write"]
  /\ UNCHANGED <<wire, reqSent, resp, c, q, got>>

\* The client quits, or the context of Subscribe ends; unsubscribe has no deadline.
SendGivesUp(r) ==
  /\ rq[r] = "send" /\ (d.closing \/ r = "subscribe")
  /\ rq' = [rq EXCEPT ![r] = "failed"]
  /\ UNCHANGED <<wire, d, reqSent, resp, c, q, got>>

\* A write on an open codec may succeed although the connection is already gone.
Write(r) ==
  /\ rq[r] = "write"
  /\ \/ /\ d.open
        /\ toServer' = IF up THEN Append(toServer, r) ELSE toServer
        /\ rq' = [rq EXCEPT ![r] = "wait"] /\ reqSent' = "ok"
     \/ /\ ~up \/ ~d.open
        /\ rq' = [rq EXCEPT ![r] = "failed"] /\ reqSent' = "err"
        /\ UNCHANGED toServer
  /\ UNCHANGED <<toClient, up, d, resp, c, q, got>>

ReqSent ==
  /\ d.pc = "select" /\ reqSent # "none"
  /\ d' = [d EXCEPT !.lastOp = "none",
                    !.respWait = IF reqSent = "err" THEN @ \ {d.lastOp} ELSE @]
  /\ reqSent' = "none"
  /\ UNCHANGED <<wire, rq, resp, c, q, got>>

\* op.wait returns.
Receive(r) ==
  /\ rq[r] = "wait" /\ resp[r] # "none"
  /\ rq' = [rq EXCEPT ![r] = IF resp[r] = "ok" THEN "done" ELSE "failed"]
  /\ UNCHANGED <<wire, d, reqSent, resp, c, q, got>>

\* The context of Subscribe ends in op.wait: dispatch forgets the request.
SubscribeTimeout ==
  /\ rq["subscribe"] = "wait" /\ (d.pc = "select" \/ d.closing)
  /\ d'  = IF d.closing THEN d ELSE [d EXCEPT !.respWait = @ \ {"subscribe"}]
  /\ rq' = [rq EXCEPT !["subscribe"] = "failed"]
  /\ UNCHANGED <<wire, reqSent, resp, c, q, got>>

-----------------------------------------------------------------------------
(* Dispatch handles a message of the server                                *)

Incoming(kinds) ==
  /\ d.pc = "select" /\ d.reading
  /\ toClient # << >> /\ Head(toClient).kind \in kinds
  /\ toClient' = Tail(toClient) /\ UNCHANGED <<toServer, up>>

\* Mutant of HandleAnswer: the subscription starts but is not entered in clientSubs.
HandleAnswerUnlisted ==
  /\ Incoming({"accept", "refuse"})
  /\ LET known == "subscribe" \in d.respWait
         ok    == known /\ Head(toClient).kind = "accept"
     IN  /\ d'    = [d EXCEPT !.respWait = @ \ {"subscribe"}]
         /\ resp' = IF known THEN [resp EXCEPT !["subscribe"] = IF ok THEN "ok" ELSE "err"] ELSE resp
         /\ q'    = IF ok THEN [q EXCEPT !["forward"] = "loop"] ELSE q
  /\ UNCHANGED <<reqSent, rq, c, got>>

\* handleResponse of a subscription request; an unknown id is ignored.
HandleAnswer ==
  /\ Incoming({"accept", "refuse"})
  /\ LET known == "subscribe" \in d.respWait
         ok    == known /\ Head(toClient).kind = "accept"
     IN  /\ d'    = [d EXCEPT !.respWait = @ \ {"subscribe"}, !.subs = @ \/ ok]
         /\ resp' = IF known THEN [resp EXCEPT !["subscribe"] = IF ok THEN "ok" ELSE "err"] ELSE resp
         /\ q'    = IF ok THEN [q EXCEPT !["forward"] = "loop"] ELSE q
  /\ UNCHANGED <<reqSent, rq, c, got>>

HandleUnsubscribed ==
  /\ Incoming({"unsubscribed"})
  /\ d'    = [d EXCEPT !.respWait = @ \ {"unsubscribe"}]
  /\ resp' = IF "unsubscribe" \in d.respWait THEN [resp EXCEPT !["unsubscribe"] = "ok"] ELSE resp
  /\ UNCHANGED <<reqSent, rq, c, q, got>>

\* handleSubscriptionResult: a notification of an unknown subscription is dropped.
HandleNote ==
  /\ Incoming({"note"})
  /\ d' = IF d.subs THEN [d EXCEPT !.pc = "deliver", !.item = Head(toClient).note] ELSE d
  /\ UNCHANGED <<reqSent, rq, resp, c, q, got>>

-----------------------------------------------------------------------------
(* deliver and forward                                                     *)

\* forward ends and calls quitWithError; its buffer is emptied.
Ends(why) ==
  /\ q' = [q EXCEPT !["forward"] = "want"]
  /\ c' = [c EXCEPT !.why = why, !.buffer = << >>]

\* Mutant of Deliver: the bound is tested after the entry is pushed.
DeliverOverfull ==
  /\ d.pc = "deliver" /\ q["forward"] = "loop"
  /\ d' = [d EXCEPT !.pc = "select", !.item = 0]
  /\ \/ Ends("badmsg")
     \/ Len(c.buffer) > MaxBuffer /\ Ends("overflow")
     \/ /\ Len(c.buffer) <= MaxBuffer
        /\ c' = [c EXCEPT !.buffer = Append(@, d.item)]
        /\ UNCHANGED q
  /\ UNCHANGED <<wire, reqSent, rq, resp, got>>

\* sub.in <- result meets forward's select; the value may fail to decode.
Deliver ==
  /\ d.pc = "deliver" /\ q["forward"] = "loop"
  /\ d' = [d EXCEPT !.pc = "select", !.item = 0]
  /\ \/ Ends("badmsg")
     \/ Len(c.buffer) = MaxBuffer /\ Ends("overflow")
     \/ /\ Len(c.buffer) # MaxBuffer
        /\ c' = [c EXCEPT !.buffer = Append(@, d.item)]
        /\ UNCHANGED q
  /\ UNCHANGED <<wire, reqSent, rq, resp, got>>

DeliverQuit ==
  /\ d.pc = "deliver" /\ c.quit
  /\ d' = [d EXCEPT !.pc = "select", !.item = 0]
  /\ UNCHANGED <<wire, reqSent, rq, resp, c, q, got>>

\* The reader of the channel takes the oldest entry of the buffer.
ForwardSend ==
  /\ q["forward"] = "loop" /\ c.buffer # << >>
  /\ got' = Append(got, Head(c.buffer))
  /\ c'   = [c EXCEPT !.buffer = Tail(@)]
  /\ UNCHANGED <<wire, d, reqSent, rq, resp, q>>

ForwardQuit ==
  /\ q["forward"] = "loop" /\ c.quit
  /\ Ends("quit")
  /\ UNCHANGED <<wire, d, reqSent, rq, resp, got>>

-----------------------------------------------------------------------------
(* quitWithError: quitOnce runs its function once and makes others wait    *)

Unsubscribe(u) ==
  /\ q[u] = "idle" /\ rq["subscribe"] = "done"
  /\ q' = [q EXCEPT ![u] = "want"]
  /\ UNCHANGED <<wire, d, reqSent, rq, resp, c, got>>

\* Mutant of OnceEnter: quit is closed only after the unsubscribe call.
OnceEnterQuitLast(a) ==
  /\ q[a] = "want" /\ c.once = "free"
  /\ c'  = [c EXCEPT !.once = "held"]
  /\ q'  = [q EXCEPT ![a] = "unsub"]
  /\ rq' = [rq EXCEPT !["unsubscribe"] = "send"]
  /\ UNCHANGED <<wire, d, reqSent, resp, got>>

\* close(quit), then requestUnsubscribe.  forward that ends because quit is closed
\* finds quitOnce taken, so every actor here asks the server to unsubscribe.
OnceEnter(a) ==
  /\ q[a] = "want" /\ c.once = "free"
  /\ c'  = [c EXCEPT !.once = "held", !.quit = TRUE]
  /\ q'  = [q EXCEPT ![a] = "unsub"]
  /\ rq' = [rq EXCEPT !["unsubscribe"] = "send"]
  /\ UNCHANGED <<wire, d, reqSent, resp, got>>

After(a) == IF a = "forward" THEN "out" ELSE "closeErr"

\* Mutant of OnceLeave: the error of forward is dropped.
OnceLeaveSilent(a) ==
  /\ q[a] = "unsub" /\ rq["unsubscribe"] \in {"done", "failed"}
  /\ c' = [c EXCEPT !.once = "done"]
  /\ q' = [q EXCEPT ![a] = After(a)]
  /\ UNCHANGED <<wire, d, reqSent, rq, resp, got>>

\* The unsubscribe call has returned, its result is ignored; sub.err <- err.
OnceLeave(a) ==
  /\ q[a] = "unsub" /\ rq["unsubscribe"] \in {"done", "failed"}
  /\ c' = [c EXCEPT !.once = "done",
                    !.err  = IF a = "forward" THEN Append(@, c.why) ELSE @]
  /\ q' = [q EXCEPT ![a] = After(a)]
  /\ UNCHANGED <<wire, d, reqSent, rq, resp, got>>

\* Mutant of OnceSkip: a second caller does not wait for the first.
OnceSkipAtOnce(a) ==
  /\ q[a] = "want" /\ c.once # "free"
  /\ q' = [q EXCEPT ![a] = After(a)]
  /\ UNCHANGED <<wire, d, reqSent, rq, resp, c, got>>

OnceSkip(a) ==
  /\ q[a] = "want" /\ c.once = "done"
  /\ q' = [q EXCEPT ![a] = After(a)]
  /\ UNCHANGED <<wire, d, reqSent, rq, resp, c, got>>

CloseErr(u) ==
  /\ q[u] = "closeErr"
  /\ c' = [c EXCEPT !.errClosed = TRUE]
  /\ q' = [q EXCEPT ![u] = "out"]
  /\ UNCHANGED <<wire, d, reqSent, rq, resp, got>>

-----------------------------------------------------------------------------
(* The connection is lost, or the program closes the client                *)

\* cancelAllRequests, requests: the one in flight is spared and also forgotten.
CancelRequests(spared) ==
  resp' = [r \in Requests |-> IF r \in d.respWait \ {spared} THEN "err" ELSE resp[r]]

ReadErr ==
  /\ d.pc = "select" /\ d.reading /\ ~up
  /\ CancelRequests(d.lastOp)
  /\ d' = [d EXCEPT !.pc = "cancel", !.respWait = {}]
  /\ UNCHANGED <<wire, reqSent, rq, c, q, got>>

\* Mutant of Close: the request in flight is spared, as for a read error.
CloseSparing ==
  /\ d.pc = "select" /\ ~d.closing
  /\ IF d.reading
     THEN /\ CancelRequests(d.lastOp)
          /\ d' = [d EXCEPT !.pc = "cancel", !.closing = TRUE, !.respWait = {}]
     ELSE d' = [d EXCEPT !.pc = "quit", !.closing = TRUE] /\ UNCHANGED resp
  /\ UNCHANGED <<wire, reqSent, rq, c, q, got>>

Close ==
  /\ d.pc = "select" /\ ~d.closing
  /\ IF d.reading
     THEN /\ CancelRequests("none")
          /\ d' = [d EXCEPT !.pc = "cancel", !.closing = TRUE, !.respWait = {}]
     ELSE d' = [d EXCEPT !.pc = "quit", !.closing = TRUE] /\ UNCHANGED resp
  /\ UNCHANGED <<wire, reqSent, rq, c, q, got>>

\* cancelAllRequests, subscriptions: dispatch itself calls quitWithError(false, err)
\* and waits while another goroutine is in quitOnce.  Then the codec is closed.
CancelSub ==
  /\ d.pc = "cancel"
  /\ IF d.subs /\ c.once # "done"
     THEN /\ c.once = "free"
          /\ c' = [c EXCEPT !.once = "done", !.quit = TRUE,
                            !.err = Append(@, IF d.closing THEN "nil" ELSE "lost")]
     ELSE UNCHANGED c
  /\ d' = [d EXCEPT !.pc = IF d.closing THEN "quit" ELSE "select",
                    !.subs = FALSE, !.reading = FALSE, !.open = FALSE]
  /\ up' = FALSE
  /\ UNCHANGED <<toServer, toClient, reqSent, rq, resp, q, got>>

-----------------------------------------------------------------------------
CallerStep(r)  == Write(r) \/ Receive(r) \/ (d.closing /\ SendGivesUp(r))
MessageStep    == HandleAnswer \/ HandleUnsubscribed \/ HandleNote
DeliverStep    == Deliver \/ DeliverQuit
OnceStep(a)    == OnceEnter(a) \/ OnceLeave(a) \/ OnceSkip(a)
UserStep(u)    == OnceStep(u) \/ CloseErr(u)

=============================================================================
