----------------------------- MODULE HttpBatch ------------------------------
(***************************************************************************)
(* BatchCallContext of chains/custom/client.go over HTTP: one goroutine    *)
(* posts the batch, puts the responses of the reply into the buffered      *)
(* op.resp and then waits for one response per request.  The ids of the    *)
(* reply are what the node wrote: nothing filters them on the way.         *)
(***************************************************************************)
EXTENDS Naturals, Sequences, SequencesExt, FiniteSets, FiniteSetsExt

CONSTANTS Ids,       \* the ids of the batch, one per element
          Stray      \* an id that is not of the batch

VARIABLES pc, body, pushed, resp, waited, answered, ended, verdict

httpVars == <<pc, body, pushed, resp, waited, answered, ended, verdict>>

ASSUME HttpAssumption == IsFiniteSet(Ids) /\ Stray \notin Ids

\* A node may leave requests out, repeat one, or answer one too many.
Replies == BoundedSeq(Ids \cup {Stray}, Cardinality(Ids) + 1)

Faithful(r) == Len(r) = Cardinality(Ids) /\ Range(r) = Ids

HttpInit == /\ pc = "post" /\ body = <<>> /\ pushed = 0 /\ resp = <<>>
            /\ waited = 0 /\ answered = {} /\ ended = FALSE /\ verdict = "none"

ContextEnds == /\ ~ended /\ ended' = TRUE
               /\ UNCHANGED <<pc, body, pushed, resp, waited, answered, verdict>>

Return(v) == pc' = "done" /\ verdict' = v

\* sendBatchHTTP fails: no connection, a bad status, a body that is not JSON.
PostFails == /\ pc = "post" /\ Return("error")
             /\ UNCHANGED <<body, pushed, resp, waited, answered, ended>>

Post == /\ pc = "post" /\ ~ended /\ pc' = "push"
        /\ \E r \in Replies : body' = r
        /\ UNCHANGED <<pushed, resp, waited, answered, ended, verdict>>

RespCapOne == 1

RespCap == Cardinality(Ids)

\* op.resp <- &respmsgs[i] waits for room, and nobody else reads the channel.
Push == /\ pc = "push" /\ pushed < Len(body) /\ Len(resp) < RespCap
        /\ resp' = Append(resp, body[pushed + 1]) /\ pushed' = pushed + 1
        /\ UNCHANGED <<pc, body, waited, answered, ended, verdict>>

Pushed == /\ pc = "push" /\ pushed = Len(body) /\ pc' = "wait"
          /\ UNCHANGED <<body, pushed, resp, waited, answered, ended, verdict>>

WaitCancelled == /\ pc = "wait" /\ waited < Cardinality(Ids) /\ ended
                 /\ Return("error")
                 /\ UNCHANGED <<body, pushed, resp, waited, answered, ended>>

\* An id of no request leaves elem nil, and its use panics.
WaitAnswer == /\ pc = "wait" /\ waited < Cardinality(Ids) /\ resp # <<>>
              /\ resp' = Tail(resp) /\ waited' = waited + 1
              /\ IF Head(resp) \in Ids
                 THEN answered' = answered \cup {Head(resp)} /\ UNCHANGED <<pc, verdict>>
                 ELSE Return("panic") /\ UNCHANGED answered
              /\ UNCHANGED <<body, pushed, ended>>

Waited == /\ pc = "wait" /\ waited = Cardinality(Ids) /\ Return("ok")
          /\ UNCHANGED <<body, pushed, resp, waited, answered, ended>>

HttpNext == \/ ContextEnds \/ PostFails \/ Post \/ Push \/ Pushed
            \/ WaitCancelled \/ WaitAnswer \/ Waited

Wedged == pc = "push" /\ pushed < Len(body) /\ ~(Len(resp) < RespCap)

(***************************************************************************)
(* With a node that answers every request of the batch once, in any order, *)
(* the call never blocks before it waits, where its context could not      *)
(* release it (http.go:163), never meets an element it cannot find         *)
(* (client.go:403-411), and reports success only with every element filled.*)
(***************************************************************************)
FaithfulReplyAnswers ==
  Faithful(body) => /\ ~Wedged
                    /\ verdict # "panic"
                    /\ verdict = "ok" => answered = Ids

=============================================================================
