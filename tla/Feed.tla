-------------------------------- MODULE Feed --------------------------------
(***************************************************************************)
(* What a subscription promises to the reader of its channel, apart from   *)
(* how Notifier, the connection and ClientSubscription keep it.  While it  *)
(* is live the notifications arrive in the order they were published, none *)
(* twice and none skipped.  Once somebody ends it, what was on its way may *)
(* still arrive, with gaps but never out of order or twice; when it is     *)
(* over nothing arrives.  How soon, or whether, it ends is left open.      *)
(***************************************************************************)
EXTENDS Naturals, Sequences

VARIABLES published,  \* how many notifications the server has published: 1, 2, ...
          got,        \* what the reader received, in order
          phase       \* "live", "ending" or "over"

FeedInit == published = 0 /\ got = << >> /\ phase = "live"

Latest == IF got = << >> THEN 0 ELSE got[Len(got)]

Publish == published' = published + 1 /\ UNCHANGED <<got, phase>>

\* The next notification, and no other.
Arrive == /\ phase = "live" /\ Len(got) < published
          /\ got' = Append(got, Len(got) + 1)
          /\ UNCHANGED <<published, phase>>

ArriveLate == /\ phase = "ending"
              /\ \E i \in Latest + 1 .. published : got' = Append(got, i)
              /\ UNCHANGED <<published, phase>>

End == /\ \/ phase = "live" /\ phase' \in {"ending", "over"}
          \/ phase = "ending" /\ phase' = "over"
       /\ UNCHANGED <<published, got>>

FeedNext == Publish \/ Arrive \/ ArriveLate \/ End

FeedSpec == FeedInit /\ [][FeedNext]_<<published, got, phase>>

=============================================================================
