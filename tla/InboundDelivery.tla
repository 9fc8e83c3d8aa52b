-------------------------- MODULE InboundDelivery --------------------------
(***************************************************************************)
(* What the engine promises the application about inbound messages         *)
(* (ADR-0030), without dispatcher, store or crash: a message is taken at    *)
(* most once; a taken message is finished by from_app or named in a report *)
(* of what the application may not have seen, and the record of a stream   *)
(* is erased only once every message taken from it is one or the other.    *)
(***************************************************************************)
CONSTANT Numbers   \* the MsgSeqNums of one stream

VARIABLES
    taken,      \* application messages accepted: never asked for again
    finished,   \* taken messages whose from_app returned
    reported    \* numbers named by on_inbound_lost

vars == <<taken, finished, reported>>

Resolved == finished \union reported

Init == taken = {} /\ finished = {} /\ reported = {}

\* A message is accepted, once.
Take(n) ==
    /\ n \notin taken
    /\ taken' = taken \union {n}
    /\ UNCHANGED <<finished, reported>>

Finish(n) ==
    /\ n \in taken \ finished
    /\ finished' = finished \union {n}
    /\ UNCHANGED <<taken, reported>>

\* A report may name more than was lost.
Report(span) ==
    /\ reported' = reported \union span
    /\ UNCHANGED <<taken, finished>>

\* A sequence reset erases the stream: nothing of it may be unresolved.
Renew ==
    /\ taken \subseteq Resolved
    /\ taken' = {} /\ finished' = {} /\ reported' = {}

Next == \/ \E n \in Numbers : Take(n) \/ Finish(n)
        \/ \E span \in SUBSET Numbers : Report(span)
        \/ Renew

Spec == Init /\ [][Next]_vars
=============================================================================
