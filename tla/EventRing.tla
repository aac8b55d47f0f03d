------------------------------- MODULE EventRing -------------------------------
(***************************************************************************)
(* Progress events of one session (managed.Event and the events route of   *)
(* src/agentplatform/server.go): the owner numbers its events and keeps    *)
(* the latest; a client polls with the last number it knows and is told    *)
(* when events it has not seen are gone.  A restarted service begins again *)
(* at one with an empty buffer; the client keeps its number.               *)
(***************************************************************************)
EXTENDS Naturals, Sequences, FiniteSets, Functions

CONSTANTS
    Size,         \* 512 in the code
    MaxSequence, MaxIncarnation  \* bounds on events and restarts

ASSUME RingAssumption == {Size, MaxIncarnation} \subseteq Nat \ {0} /\ MaxSequence \in Nat

VARIABLES
    incarnation, \* of the owner
    sequence,    \* managed.sequence
    events,      \* managed.events, by their numbers
    cursor,      \* the number the client polls with
    since,       \* the incarnation in which the client got that number
    received,    \* what the client was given of this incarnation, in order
    reported,    \* events of this incarnation covered by a reported gap
    unreported   \* events passed over without a report, with the client's "since"

ringVars == <<incarnation, sequence, events, cursor, since, received, reported, unreported>>

RingTypeOK ==
    /\ incarnation \in 1..MaxIncarnation
    /\ sequence \in 0..MaxSequence
    /\ events \in Seq(1..MaxSequence) /\ Len(events) <= Size
    /\ cursor \in 0..MaxSequence
    /\ since \in 1..MaxIncarnation
    /\ received \in Seq(1..MaxSequence)
    /\ reported \in SUBSET (1..MaxSequence)
    /\ unreported \in SUBSET ((1..MaxSequence) \X (1..MaxIncarnation) \X (1..MaxIncarnation))

RingInit ==
    /\ incarnation = 1
    /\ sequence = 0
    /\ events = <<>>
    /\ cursor = 0
    /\ since = 1
    /\ received = <<>>
    /\ reported = {}
    /\ unreported = {}

Latest(s) == IF Len(s) > Size THEN SubSeq(s, Len(s) - Size + 1, Len(s)) ELSE s

Event ==
    /\ sequence < MaxSequence
    /\ sequence' = sequence + 1
    /\ events' = Latest(Append(events, sequence + 1))
    /\ UNCHANGED <<incarnation, cursor, since, received, reported, unreported>>

\* The events at some places of the buffer, in their order: the k-th is the one at the
\* place that has k - 1 of them before it.
EventsAt(places) ==
    [k \in 1..Cardinality(places) |->
        events[CHOOSE i \in places : Cardinality({j \in places : j <= i}) = k]]

\* Mutants: one missing event is overlooked; the event the client knows is sent
\* again.
GapBeyondNext(after) == events # <<>> /\ after + 2 < Head(events)
NewsFrom(after) == EventsAt({i \in DOMAIN events : events[i] >= after})

Gap(after) == events # <<>> /\ after + 1 < Head(events)

News(after) == EventsAt({i \in DOMAIN events : events[i] > after})

\* What the client is not given, and was not passed over before.
Missing ==
    (1..sequence) \ (Range(received) \cup Range(News(cursor)) \cup reported
                       \cup {x[1] : x \in {y \in unreported : y[2] = incarnation}})

\* The client goes on from the number that comes with the answer.
Poll ==
    /\ received' = received \o News(cursor)
    /\ cursor' = sequence
    /\ since' = incarnation
    /\ IF Gap(cursor)
       THEN reported' = reported \cup Missing /\ UNCHANGED unreported
       ELSE /\ unreported' = unreported \cup {<<n, incarnation, since>> : n \in Missing}
            /\ UNCHANGED reported
    /\ UNCHANGED <<incarnation, sequence, events>>

Restart ==
    /\ incarnation < MaxIncarnation
    /\ incarnation' = incarnation + 1
    /\ sequence' = 0
    /\ events' = <<>>
    /\ received' = <<>>
    /\ reported' = {}
    /\ UNCHANGED <<cursor, since, unreported>>

RingNext == Event \/ Poll \/ Restart

RingSpec == RingInit /\ [][RingNext]_ringVars

--------------------------------------------------------------------------------
(* Properties. *)

\* Of one incarnation a client is given no event twice and none out of order.
ReceivedInOrder ==
    \A i, j \in DOMAIN received : i < j => received[i] < received[j]

\* A client whose number belongs to this owner is told of every event it will
\* not get, and there is no false alarm: a gap is reported only if events are gone.
LossIsReported ==
    /\ \A x \in unreported : x[3] # x[2]
    /\ Gap(cursor) => Missing # {}

\* What a client was given and told is what happened, in its order.
PollingIsHonest == RingTypeOK /\ ReceivedInOrder /\ LossIsReported

\* "Report a replay gap": whatever a client is not given, it is told.
GapsAreExplicit == unreported = {}
================================================================================
