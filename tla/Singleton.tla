----------------------------- MODULE Singleton ------------------------------
(***************************************************************************)
(* util.SingletonStore for one key, asked by goroutines that each call     *)
(* WithOptions of a chain SDK inside util.Retry.                           *)
(***************************************************************************)
EXTENDS Naturals

CONSTANTS Callers, Retries,   \* Retries: the count of Retry
          Absent,           \* the key is not in the map
          Nil               \* the (*SDK)(nil) a failed NewSDK returns

VARIABLES mutex, store, created, at, tries, err, ins

storeVars == <<mutex, store, created, at, tries, err, ins>>

ASSUME StoreAssumption == /\ Retries \in Nat \ {0} /\ "free" \notin Callers
                          /\ Absent \notin Nat /\ Nil \notin Nat \cup {Absent}

Free == "free"

StoreInit == /\ mutex = Free /\ store = Absent /\ created = 0
             /\ at    = [p \in Callers |-> "retry"]
             /\ tries = [p \in Callers |-> 0]
             /\ err   = [p \in Callers |-> FALSE]
             /\ ins   = [p \in Callers |-> Absent]

\* The head of Retry's loop: another call, or the last error.
Try(p) == /\ at[p] = "retry"
          /\ IF tries[p] > Retries
             THEN at' = [at EXCEPT ![p] = "done"] /\ UNCHANGED tries
             ELSE at' = [at EXCEPT ![p] = "lock"] /\ tries' = [tries EXCEPT ![p] = @ + 1]
          /\ UNCHANGED <<mutex, store, created, err, ins>>

\* The context of Retry ends while it sleeps between two calls.
GiveUp(p) == /\ at[p] = "retry" /\ err[p] /\ at' = [at EXCEPT ![p] = "done"]
             /\ UNCHANGED <<mutex, store, created, tries, err, ins>>

\* Single returns i: without an error WithOptions hands it out, whatever it is.
Got(p, i, e) == /\ mutex' = Free
                /\ err' = [err EXCEPT ![p] = e]
                /\ ins' = [ins EXCEPT ![p] = IF e THEN Absent ELSE i]
                /\ at'  = [at EXCEPT ![p] = IF e THEN "retry" ELSE "done"]

\* The map guarded, the slow Create outside of the lock.
LookupUnlocked(p) == /\ at[p] = "lock" /\ mutex = Free
                     /\ IF store = Absent
                        THEN at' = [at EXCEPT ![p] = "create"] /\ UNCHANGED <<mutex, err, ins>>
                        ELSE Got(p, store, FALSE)
                     /\ UNCHANGED <<store, created, tries>>

Lookup(p) == /\ at[p] = "lock" /\ mutex = Free
             /\ IF store = Absent
                THEN mutex' = p /\ at' = [at EXCEPT ![p] = "create"] /\ UNCHANGED <<err, ins>>
                ELSE Got(p, store, FALSE)
             /\ UNCHANGED <<store, created, tries>>

\* Create returns an SDK or an error; its first result is stored either way.
Create(p, ok) == /\ at[p] = "create"
                 /\ created' = IF ok THEN created + 1 ELSE created
                 /\ store' = IF ok THEN created + 1 ELSE Nil
                 /\ Got(p, store', ~ok)
                 /\ UNCHANGED tries

StoreNext == \E p \in Callers : \/ Try(p) \/ GiveUp(p) \/ Lookup(p)
                                \/ \E ok \in BOOLEAN : Create(p, ok)

(***************************************************************************)
(* Whatever the order of the callers and their retries, Create runs for    *)
(* one of them only, so at most one SDK and its monitor goroutine exist,   *)
(* and all who get something get the same: the SDK, or for ever the nil of *)
(* a Create that failed, while one caller alone holds its error            *)
(* (single.go:34-46).                                                      *)
(***************************************************************************)
SameForAll ==
  /\ created <= 1
  /\ \A p \in Callers : ins[p] # Absent => ins[p] = store
  /\ \A p, r \in Callers : (err[p] /\ err[r]) => p = r

=============================================================================
