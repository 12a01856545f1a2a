---------------------------- MODULE RpcContract -----------------------------
(***************************************************************************)
(* What Call, BatchCall and Notify promise to their callers and to the     *)
(* peer, apart from dispatch, the write lock and the connections that keep *)
(* it.  A request goes out at most once, and never after Close returned;   *)
(* an answer counts once, for a caller that still waits; and how the call  *)
(* ends tells what happened to the request.  How soon is left open.        *)
(***************************************************************************)
CONSTANTS Ops,      \* the requests
          Ids,      \* message ids
          IdsOf,    \* the ids of each request, none for Notify
          Timed     \* the requests whose context ends some day

VARIABLES phase,    \* phase[o]: "idle", "open", "done"
          result,   \* result[o]: how the call ended, "none" before
          sent,     \* the requests the peer was sent
          arrived,  \* the ids whose answers reached their request
          cut,      \* the requests that were told their answers are lost
          client    \* "serving", "closing", "gone"

contractVars == <<phase, result, sent, arrived, cut, client>>

ContractInit ==
  /\ phase  = [o \in Ops |-> "idle"]
  /\ result = [o \in Ops |-> "none"]
  /\ sent = {} /\ arrived = {} /\ cut = {} /\ client = "serving"

Begin(o) ==
  /\ phase[o] = "idle" /\ phase' = [phase EXCEPT ![o] = "open"]
  /\ UNCHANGED <<result, sent, arrived, cut, client>>

Return(o, r) ==
  /\ phase[o] = "open"
  /\ phase'  = [phase EXCEPT ![o] = "done"]
  /\ result' = [result EXCEPT ![o] = r]

\* Nothing is repeated, whatever became of the connection.
Send(o) ==
  /\ phase[o] = "open" /\ o \notin sent /\ client # "gone"
  /\ sent' = sent \cup {o}
  /\ IF IdsOf[o] = {} THEN Return(o, "ok") ELSE UNCHANGED <<phase, result>>
  /\ UNCHANGED <<arrived, cut, client>>

Expects(o) == phase[o] = "open" /\ o \in sent /\ o \notin cut

\* The answers of one message: each to a call in progress, and the first for its id.
Arrive ==
  /\ client = "serving"
  /\ \E S \in SUBSET {i \in Ids \ arrived : \E o \in Ops : Expects(o) /\ i \in IdsOf[o]} :
       arrived' = arrived \cup S
  /\ UNCHANGED <<phase, result, sent, cut, client>>

\* A lost connection cuts what was sent; Close also what is just going out.
Cut ==
  /\ client # "gone"
  /\ \E S \in SUBSET {o \in Ops : /\ phase[o] # "idle" /\ ~ IdsOf[o] \subseteq arrived
                                  /\ o \in sent \/ client = "closing"} :
       cut' = cut \cup S
  /\ UNCHANGED <<phase, result, sent, arrived, client>>

Answered(o) == o \in sent \ cut /\ IdsOf[o] \subseteq arrived /\ Return(o, "ok")
Lost(o)     == o \in sent \cap cut /\ Return(o, "lost")
TimedOut(o) == o \in Timed /\ Return(o, "timeout")
NotSent(o)  == o \notin sent /\ Return(o, "error")
Refused(o)  == o \notin sent /\ client # "serving" /\ Return(o, "quit")

End(o) ==
  /\ Answered(o) \/ Lost(o) \/ TimedOut(o) \/ NotSent(o) \/ Refused(o)
  /\ UNCHANGED <<sent, arrived, cut, client>>

Close ==
  /\ \/ client = "serving" /\ client' \in {"closing", "gone"}
     \/ client = "closing" /\ client' = "gone"
  /\ UNCHANGED <<phase, result, sent, arrived, cut>>

ContractNext ==
  \/ \E o \in Ops : Begin(o) \/ Send(o) \/ End(o)
  \/ Arrive \/ Cut \/ Close

ContractSpec == ContractInit /\ [][ContractNext]_contractVars

=============================================================================
