---------------------------- MODULE BlockCounter ----------------------------
(***************************************************************************)
(* tools.BlockCounter: the ring of the last Count blocks a listener ticked *)
(* and the goroutine that asks for the block time.  Tick gives the lock    *)
(* back before it changes anything, so each of its writes is a step.       *)
(***************************************************************************)
EXTENDS Naturals, Sequences, SequencesExt

CONSTANTS Count,      \* the size of the ring
          MaxHeight, MaxTime, MaxTicks,    \* bounds
          Word        \* heights and times are unsigned words below Word

VARIABLES ring, head, tail, last, full, tick, reader, clock, ticked

ringVars == <<ring, head, tail, last, full, tick, reader, clock, ticked>>

ASSUME RingAssumption == /\ Count \in Nat /\ Count >= 2
                         /\ MaxHeight \in Nat /\ MaxTime \in Nat /\ MaxTicks \in Nat
                         /\ Word \in Nat /\ MaxHeight < Word /\ MaxTime < Word

Minus(a, b) == (a + Word - b) % Word

Block(h, t) == [height |-> h, time |-> t]
Idle == [at |-> "idle", height |-> 0]

\* ticked is what the listener told the counter, of which the ring keeps the end.
RingInit == /\ ring = [i \in 0..Count-1 |-> Block(0, 0)]
            /\ head = 1 /\ tail = 0 /\ last = 0 /\ full = FALSE
            /\ tick = Idle /\ clock = 1 /\ ticked = <<>>
            /\ reader = [at |-> "idle", clean |-> TRUE, value |-> Block(0, 0)]

Passes == /\ clock < MaxTime /\ clock' = clock + 1
          /\ UNCHANGED <<ring, head, tail, last, full, tick, reader, ticked>>

\* A step of Tick while BlockTime is between its Lock and its return.
Disturb == reader' = [reader EXCEPT !.clean = FALSE]

\* c.Lock() waits for a reader; c.Unlock() follows at once.
TickLocks(h) == /\ Len(ticked) < MaxTicks
                /\ tick = Idle /\ reader.at = "idle" /\ h # last
                /\ tick' = [at |-> "index", height |-> h] /\ last' = h /\ Disturb
                /\ UNCHANGED <<ring, head, tail, full, clock, ticked>>

\* The ring counts as full one block too early.
TickIndexEarly == /\ tick.at = "index" /\ tick' = [tick EXCEPT !.at = "height"]
                  /\ full' = (full \/ tail + 1 = Count - 1)
                  /\ tail' = (tail + 1) % Count /\ Disturb
                  /\ UNCHANGED <<ring, head, last, clock, ticked>>

TickIndex == /\ tick.at = "index" /\ tick' = [tick EXCEPT !.at = "height"]
             /\ full' = (full \/ tail = Count - 1)
             /\ tail' = (tail + 1) % Count /\ Disturb
             /\ UNCHANGED <<ring, head, last, clock, ticked>>

TickHeight == /\ tick.at = "height" /\ tick' = [tick EXCEPT !.at = "time"]
              /\ ring' = [ring EXCEPT ![tail].height = tick.height] /\ Disturb
              /\ UNCHANGED <<head, tail, last, full, clock, ticked>>

TickTime == /\ tick.at = "time" /\ tick' = [tick EXCEPT !.at = "head"]
            /\ ring' = [ring EXCEPT ![tail].time = clock] /\ Disturb
            /\ ticked' = Append(ticked, Block(tick.height, clock))
            /\ UNCHANGED <<head, tail, last, full, clock>>

TickHead == /\ tick.at = "head" /\ tick' = Idle
            /\ head' = IF full THEN (tail + 1) % Count ELSE head
            /\ Disturb
            /\ UNCHANGED <<ring, tail, last, full, clock, ticked>>

\* BlockTime keeps the lock, which no longer stops a Tick that is past it.
ReadLocks == /\ reader.at = "idle"
             /\ reader' = [at |-> "tail", clean |-> tick = Idle, value |-> ring[head]]
             /\ UNCHANGED <<ring, head, tail, last, full, tick, clock, ticked>>

ReadTail == /\ reader.at = "tail"
            /\ reader' = [reader EXCEPT !.at = "idle",
                            !.value = Block(Minus(ring[tail].height, @.height),
                                            Minus(ring[tail].time, @.time))]
            /\ UNCHANGED <<ring, head, tail, last, full, tick, clock, ticked>>

RingNext == \/ Passes \/ \E h \in 0..MaxHeight : TickLocks(h)
            \/ TickIndex \/ TickHeight \/ TickTime \/ TickHead \/ ReadLocks \/ ReadTail

Kept == IF Len(ticked) <= Count THEN ticked
        ELSE SubSeq(ticked, Len(ticked) - Count + 1, Len(ticked))

(***************************************************************************)
(* A BlockTime that no Tick overlapped measures from the oldest block the  *)
(* ring should still hold to the latest one ticked, through every wrap of  *)
(* the ring; a height that fell (a reorganisation) gives the wrapped word. *)
(* Nothing of the kind holds of a BlockTime that a Tick overlapped.        *)
(***************************************************************************)
ReadExact ==
  (reader.at = "idle" /\ reader.clean /\ ticked # <<>>) =>
    LET first == Head(Kept)
        final == Last(Kept)
    IN  reader.value = Block(Minus(final.height, first.height), Minus(final.time, first.time))

=============================================================================
