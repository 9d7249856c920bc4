------------------------------ MODULE EventStore ------------------------------
(***************************************************************************)
(* EventStore and EventStoreConsumer: an in-memory log with offsets, which *)
(* several subscribers read at their own pace.  What every active          *)
(* subscriber has acknowledged is collected; what is too old or too much   *)
(* goes unread, and a subscriber behind it is told of a gap.  A commit     *)
(* runs while the next receive_batch does.                                 *)
(***************************************************************************)
EXTENDS Naturals, Sequences, FiniteSets, FiniteSetsExt

CONSTANTS
    Subscribers,
    EsEvents,       \* how many events are appended
    EsBatch,        \* max_messages of a receive_batch
    EsMaxCounts,    \* values of RetentionPolicy.max_count
    EsNacks         \* bound on nacked batches

ASSUME EventStoreBounds ==
    /\ EsEvents \in Nat /\ EsNacks \in Nat
    /\ EsBatch \in Nat \ {0} /\ EsMaxCounts \subseteq Nat \ {0}

VARIABLES
    esMax,          \* max_count of this store
    esBase,         \* base_offset: the offset of the oldest event
    esNext,         \* next_offset
    esAck,          \* last_ack_offset of the registered subscribers
    esLast,         \* last_offset of each consumer
    esRewinds,      \* its rewinds
    esCall,         \* what its receive_batch is doing
    esFrom,         \* last_offset_val of that call
    esBatch,        \* the events it has read
    esOut,          \* batches with the route
    esTaken,        \* events its sink has taken
    esLost,         \* events removed unread by the retention policy
    esRaced,        \* consumers whose receive_batch a nack ran into
    esNacked

esVars == <<esMax, esBase, esNext, esAck, esLast, esRewinds, esCall, esFrom, esBatch, esOut, esTaken, esLost, esRaced, esNacked>>

EsInit ==
    /\ esMax \in EsMaxCounts
    /\ esBase = 1
    /\ esNext = 1
    /\ esAck = [s \in {} |-> 0]
    /\ esLast = [s \in Subscribers |-> 0]
    /\ esRewinds = [s \in Subscribers |-> 0]
    /\ esCall = [s \in Subscribers |-> "idle"]
    /\ esFrom = [s \in Subscribers |-> 0]
    /\ esBatch = [s \in Subscribers |-> {}]
    /\ esOut = [s \in Subscribers |-> <<>>]
    /\ esTaken = [s \in Subscribers |-> {}]
    /\ esLost = {}
    /\ esRaced = {}
    /\ esNacked = 0

-----------------------------------------------------------------------------
(* EventStore *)

\* The base once max_count is enforced.
BaseAfter(next) == Max({esBase} \cup IF next - esBase > esMax THEN {next - esMax} ELSE {})

\* append and append_batch.
AppendBatch(n) ==
    /\ esNext + n <= EsEvents + 1
    /\ esNext' = esNext + n
    /\ esBase' = BaseAfter(esNext + n)
    /\ esLost' = esLost \cup (esBase..(BaseAfter(esNext + n) - 1))
    /\ UNCHANGED <<esMax, esAck, esLast, esRewinds, esCall, esFrom, esBatch, esOut, esTaken, esRaced, esNacked>>

\* Mutated: collects what the fastest subscriber has acknowledged.
CollectableFast(acks) == IF DOMAIN acks = {} THEN 0 ELSE Max({acks[s] : s \in DOMAIN acks})

\* The offset up to which run_gc removes what the active subscribers have acknowledged.
Collectable(acks) == IF DOMAIN acks = {} THEN 0 ELSE Min({acks[s] : s \in DOMAIN acks})

\* ack, perhaps with a collection: subscribers not seen for subscriber_timeout are dropped,
\* then the acknowledged prefix goes, and events past max_age behind it.
AckAndCollect(s, offset) ==
    LET acks == IF s \in DOMAIN esAck THEN [esAck EXCEPT ![s] = Max({@, offset})] ELSE esAck
    IN  \/ /\ esAck' = acks
           /\ UNCHANGED <<esBase, esLost>>
        \/ \E seen \in SUBSET DOMAIN acks :
            LET active == [t \in seen |-> acks[t]]
                base   == Max({esBase, Min({Collectable(active) + 1, esNext})})
            IN  /\ s \in seen \/ s \notin DOMAIN acks
                /\ DOMAIN acks # {}
                /\ esAck' = active
                /\ \E aged \in base..esNext :
                    /\ esBase' = aged
                    /\ esLost' = esLost \cup (base..(aged - 1))

-----------------------------------------------------------------------------
(* EventStoreConsumer *)

\* receive_batch: register the subscriber and load last_offset.
EsReceive(s) ==
    /\ esCall[s] = "idle"
    /\ esAck' = IF s \in DOMAIN esAck THEN esAck
                  ELSE [t \in DOMAIN esAck \cup {s} |-> IF t = s THEN 0 ELSE esAck[t]]
    /\ esFrom' = [esFrom EXCEPT ![s] = esLast[s]]
    /\ esCall' = [esCall EXCEPT ![s] = "reading"]
    /\ UNCHANGED <<esMax, esBase, esNext, esLast, esRewinds, esBatch, esOut, esTaken, esLost, esRaced, esNacked>>

\* Mutated: a reader behind the base goes on from there.
GapNone(from) == FALSE

\* get_events_since: what a reader needs next is gone.
Gap(from) == from + 1 < esBase

\* The events are read, if need be after waiting for one, and last_offset is stored.
EsRead(s) ==
    /\ esCall[s] = "reading"
    /\ ~Gap(esFrom[s])
    /\ LET first == Max({esFrom[s] + 1, esBase})
           new   == Min({first + EsBatch, esNext}) - 1
       IN  /\ first < esNext
           /\ esBatch' = [esBatch EXCEPT ![s] = first..new]
           /\ esLast' = [esLast EXCEPT ![s] = new]
    /\ esCall' = [esCall EXCEPT ![s] = "read"]
    /\ UNCHANGED <<esMax, esBase, esNext, esAck, esRewinds, esFrom, esOut, esTaken, esLost, esRaced, esNacked>>

\* The batch is handed on, with the number of rewinds so far.
EsReturn(s) ==
    /\ esCall[s] = "read"
    /\ esOut' = [esOut EXCEPT ![s] =
            Append(@, [events |-> esBatch[s], from |-> esFrom[s], readAt |-> esRewinds[s]])]
    /\ esBatch' = [esBatch EXCEPT ![s] = {}]
    /\ esFrom' = [esFrom EXCEPT ![s] = 0]
    /\ esCall' = [esCall EXCEPT ![s] = "idle"]
    /\ UNCHANGED <<esMax, esBase, esNext, esAck, esLast, esRewinds, esTaken, esLost, esRaced, esNacked>>

\* receive_batch reports a gap, or nothing within the drain time.
EsGap(s) ==
    /\ esCall[s] = "reading"
    /\ Gap(esFrom[s]) \/ esFrom[s] + 1 >= esNext
    /\ esCall' = [esCall EXCEPT ![s] = IF Gap(esFrom[s]) THEN "gap" ELSE "idle"]
    /\ esFrom' = [esFrom EXCEPT ![s] = 0]
    /\ UNCHANGED <<esMax, esBase, esNext, esAck, esLast, esRewinds, esBatch, esOut, esTaken, esLost, esRaced, esNacked>>

\* The sink has taken the oldest batch and the route acknowledges it, unless a nack came
\* after it was read.
EsCommitAck(s) ==
    /\ esOut[s] # <<>>
    /\ LET d == Head(esOut[s])
       IN  /\ esTaken' = [esTaken EXCEPT ![s] = @ \cup d.events]
           /\ IF esRewinds[s] = d.readAt THEN AckAndCollect(s, Max(d.events))
                                         ELSE UNCHANGED <<esAck, esBase, esLost>>
    /\ esOut' = [esOut EXCEPT ![s] = Tail(@)]
    /\ UNCHANGED <<esMax, esNext, esLast, esRewinds, esCall, esFrom, esBatch, esRaced, esNacked>>

\* The sink refused some of the oldest batch: the consumer goes back to its start.
EsCommitNack(s) ==
    /\ esOut[s] # <<>>
    /\ esNacked < EsNacks
    /\ esNacked' = esNacked + 1
    /\ LET d == Head(esOut[s])
       IN  /\ \E some \in SUBSET d.events : some # d.events /\ esTaken' = [esTaken EXCEPT ![s] = @ \cup some]
           /\ esRewinds' = [esRewinds EXCEPT ![s] = @ + 1]
           /\ esLast' = [esLast EXCEPT ![s] = Min({@, d.from})]
    /\ esRaced' = IF esCall[s] \in {"reading", "read"} THEN esRaced \cup {s} ELSE esRaced
    /\ esOut' = [esOut EXCEPT ![s] = Tail(@)]
    /\ UNCHANGED <<esMax, esBase, esNext, esAck, esCall, esFrom, esBatch, esLost>>

EsNext ==
    \/ \E n \in 1..EsBatch : AppendBatch(n)
    \/ \E s \in Subscribers :
        \/ EsReceive(s) \/ EsRead(s) \/ EsReturn(s) \/ EsGap(s)
        \/ EsCommitAck(s) \/ EsCommitNack(s)

EsSpec == EsInit /\ [][EsNext]_esVars

-----------------------------------------------------------------------------
(* Properties *)

\* The types of the variables.
EsTypeOK ==
    /\ esBase \in 1..esNext /\ esNext \in 1..(EsEvents + 1)
    /\ DOMAIN esAck \subseteq Subscribers
    /\ \A s \in Subscribers :
        /\ esLast[s] \in 0..EsEvents /\ esFrom[s] \in 0..EsEvents
        /\ esBatch[s] \subseteq 1..EsEvents /\ esTaken[s] \subseteq 1..EsEvents

\* Events in batches the route has not settled.  One read before a nack counts no more, but
\* its commit still takes its events or goes back to its start.
EventsOf(q, I) == UNION {q[i].events : i \in I}
Outstanding(s) == EventsOf(esOut[s], DOMAIN esOut[s])

Accounted(s) == 1..esLast[s] \subseteq esTaken[s] \cup Outstanding(s) \cup esBatch[s]

\* No event is passed over: what a consumer has behind it its sink took, a batch on its way
\* has, or the consumer was told of a gap.
NothingPassedOver == \A s \in Subscribers \ esRaced : Accounted(s)

\* An acknowledged offset covers only what that subscriber's sink took.
AckIsTrue == \A s \in DOMAIN esAck \ esRaced : 1..esAck[s] \subseteq esTaken[s]

\* What the event store keeps true for a subscriber whose receives no nack ran into.
EventStoreInv == EsTypeOK /\ NothingPassedOver /\ AckIsTrue

\* A collection removes only what the sinks of all active subscribers took, or what the
\* retention policy gives up: a slow subscriber keeps its events.
CollectsOnlyTaken ==
    [][\A o \in esBase..(esBase' - 1) :
            o \in esLost' \/ \A s \in DOMAIN esAck' \ esRaced : o \in esTaken'[s]]_esVars

\* Of a nack: "A batch read before a rewind must not ack past it."
NoAckPastNack == \A s \in DOMAIN esAck : 1..esAck[s] \subseteq esTaken[s]

-----------------------------------------------------------------------------
(* The inductive invariant *)

EventSets == SUBSET (1..EsEvents)
Deliveries == [events : EventSets, from : 0..EsEvents, readAt : Nat]

EsDataOK ==
    /\ esMax \in EsMaxCounts
    /\ \A s \in DOMAIN esAck : esAck[s] \in 0..EsEvents
    /\ esLast \in [Subscribers -> 0..EsEvents] /\ esFrom \in [Subscribers -> 0..EsEvents]
    /\ esRewinds \in [Subscribers -> Nat]
    /\ esCall \in [Subscribers -> {"idle", "reading", "read", "gap"}]
    /\ esBatch \in [Subscribers -> EventSets] /\ esTaken \in [Subscribers -> EventSets]
    /\ esOut \in [Subscribers -> Seq(Deliveries)]

\* A batch has the events from its start on, without a hole.
OutInv(s) ==
    \A i \in DOMAIN esOut[s] :
        /\ \E last \in (esOut[s][i].from + 1)..EsEvents :
                esOut[s][i].events = (esOut[s][i].from + 1)..last
        /\ esOut[s][i].readAt <= esRewinds[s]

\* What comes before a batch whose commit counts is taken or ahead of it.
AheadInv(s) ==
    \A i \in DOMAIN esOut[s] :
        esOut[s][i].readAt = esRewinds[s] =>
            1..esOut[s][i].from \subseteq esTaken[s] \cup EventsOf(esOut[s], 1..(i - 1))

\* A receive_batch no nack ran into goes on from where the consumer is.
ReadInv(s) ==
    /\ esCall[s] \in {"idle", "gap", "reading"} => esBatch[s] = {}
    /\ esCall[s] = "read" =>
        \E last \in (esFrom[s] + 1)..EsEvents :
            esBatch[s] = (esFrom[s] + 1)..last /\ (s \notin esRaced => esLast[s] = last)
    /\ s \notin esRaced =>
        /\ esCall[s] = "reading" => esFrom[s] = esLast[s]
        /\ esCall[s] \in {"reading", "read"} => 1..esFrom[s] \subseteq esTaken[s] \cup Outstanding(s)

ConsumerInv(s) == OutInv(s) /\ ReadInv(s) /\ (s \notin esRaced => Accounted(s) /\ AheadInv(s))

EsInv == EventStoreInv /\ EsDataOK /\ \A s \in Subscribers : ConsumerInv(s)
=============================================================================
