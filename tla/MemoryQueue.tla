------------------------------ MODULE MemoryQueue ------------------------------
(***************************************************************************)
(* The queue backend of the memory endpoint: a bounded channel of batches  *)
(* between publishers and competing consumers.  A consumer splits and      *)
(* merges batches to the size it is asked for, nacked messages and those   *)
(* of a dropped delivery go back onto the channel, in a task of their own  *)
(* if it is full, and a dropped consumer gives back its rest.  The channel *)
(* may be closed and the runtime may end, and what is to go back then is   *)
(* lost.  A batch is the set of its messages: which of them a split hands  *)
(* on is any part of the right size.                                       *)
(***************************************************************************)
EXTENDS Naturals, Sequences, FiniteSets, FiniteSetsExt, Functions

CONSTANTS
    MqBatches,      \* the batches the publishers send, in order: sets of messages
    MqConsumers,
    MqMax,          \* max_messages of a receive_batch
    MqCapacity,     \* capacity of the channel
    MqPermits,      \* deliveries a route has open at a time
    MqNacks         \* bound on nacked or dropped deliveries and dropped consumers

MqMessages == UNION Range(MqBatches)

ASSUME QueueBounds ==
    /\ MqMax \in Nat \ {0} /\ MqCapacity \in Nat \ {0} /\ MqPermits \in Nat \ {0} /\ MqNacks \in Nat
    /\ MqBatches \in Seq(SUBSET MqMessages) /\ IsFiniteSet(MqMessages)
    /\ \A i, j \in DOMAIN MqBatches : MqBatches[i] # {} /\ (i # j => MqBatches[i] \cap MqBatches[j] = {})

VARIABLES
    mqNackable,     \* enable_nack
    mqClosed,       \* the channel is closed
    mqRuntime,      \* the runtime is there
    mqSent,         \* batches sent so far
    mqChannel,      \* the channel
    mqGot,          \* what a receive_batch of each consumer has so far
    mqBuffer,       \* the rest each consumer keeps of a batch larger than asked for
    mqOut,          \* deliveries with the route
    mqFailed,       \* messages with the route that the sink failed
    mqTasks,        \* batches waiting in spawned tasks for room in the channel
    mqAcked,        \* messages settled by an ack or a reply
    mqDropped,      \* messages given up: nacked or dropped with enable_nack off
    mqLost,         \* messages lost with an error in the log
    mqNacked

mqEnv == <<mqNackable, mqClosed, mqRuntime>>
mqVars == <<mqEnv, mqSent, mqChannel, mqGot, mqBuffer, mqOut, mqFailed, mqTasks, mqAcked, mqDropped, mqLost, mqNacked>>

MqInit ==
    /\ mqNackable \in BOOLEAN
    /\ mqClosed = FALSE
    /\ mqRuntime = TRUE
    /\ mqSent = 0
    /\ mqChannel = <<>>
    /\ mqGot = [c \in MqConsumers |-> {}]
    /\ mqBuffer = [c \in MqConsumers |-> {}]
    /\ mqOut = {}
    /\ mqFailed = {}
    /\ mqTasks = {}
    /\ mqAcked = {}
    /\ mqDropped = {}
    /\ mqLost = {}
    /\ mqNacked = 0

\* send_batch waits for room, and fails once the channel is closed.
MqSend ==
    /\ mqRuntime /\ ~mqClosed
    /\ mqSent < Len(MqBatches)
    /\ Len(mqChannel) < MqCapacity
    /\ mqSent' = mqSent + 1
    /\ mqChannel' = Append(mqChannel, MqBatches[mqSent + 1])
    /\ UNCHANGED <<mqEnv, mqGot, mqBuffer, mqOut, mqFailed, mqTasks, mqAcked, mqDropped, mqLost, mqNacked>>

\* close: consumers still get what is on the channel.
MqClose ==
    /\ ~mqClosed
    /\ mqClosed' = TRUE
    /\ UNCHANGED <<mqNackable, mqRuntime, mqSent, mqChannel, mqGot, mqBuffer, mqOut, mqFailed, mqTasks, mqAcked,
                   mqDropped, mqLost, mqNacked>>

\* The runtime ends, its tasks with it; the deliveries and the consumers are dropped later.
\* A receive that has taken a batch does not wait for anything before it hands it on.
MqShutdown ==
    /\ mqRuntime
    /\ \A c \in MqConsumers : mqGot[c] = {}
    /\ mqRuntime' = FALSE
    /\ mqTasks' = {}
    /\ mqLost' = mqLost \cup UNION mqTasks
    /\ UNCHANGED <<mqNackable, mqClosed, mqSent, mqChannel, mqGot, mqBuffer, mqOut, mqFailed, mqAcked, mqDropped,
                   mqNacked>>

-----------------------------------------------------------------------------
(* receive_batch *)

\* The parts of a batch that may be handed on where there is room for n messages.
Parts(batch, n) == IF Cardinality(batch) <= n THEN {batch} ELSE kSubset(n, batch)

\* The route reads while it has a permit for another delivery.
PermitLeft == Cardinality(mqOut) + Cardinality({c \in MqConsumers : mqGot[c] # {}}) < MqPermits

\* get_buffered_msgs: up to max_messages of the rest, or of the next batch.
MqFirst(c) ==
    LET buffered == mqBuffer[c] # {}
        batch    == IF buffered THEN mqBuffer[c] ELSE Head(mqChannel)
    IN  /\ mqRuntime /\ PermitLeft
        /\ mqGot[c] = {}
        /\ buffered \/ mqChannel # <<>>
        /\ mqChannel' = IF buffered THEN mqChannel ELSE Tail(mqChannel)
        /\ \E part \in Parts(batch, MqMax) :
                /\ mqGot' = [mqGot EXCEPT ![c] = part]
                /\ mqBuffer' = [mqBuffer EXCEPT ![c] = batch \ part]
        /\ UNCHANGED <<mqEnv, mqSent, mqOut, mqFailed, mqTasks, mqAcked, mqDropped, mqLost, mqNacked>>

\* Fewer than half of what was asked for is there.
WantsMore(got) == Cardinality(got) < MqMax \div 2

\* Another batch is taken without waiting.  If it does not fit, its rest replaces what the
\* consumer keeps.
MqMore(c) ==
    LET batch == Head(mqChannel)
        room  == MqMax - Cardinality(mqGot[c])
    IN  /\ mqGot[c] # {} /\ WantsMore(mqGot[c])
        /\ mqChannel # <<>>
        /\ mqChannel' = Tail(mqChannel)
        /\ \E part \in Parts(batch, room) :
                /\ mqGot' = [mqGot EXCEPT ![c] = @ \cup part]
                /\ mqBuffer' = IF Cardinality(batch) <= room THEN mqBuffer
                                 ELSE [mqBuffer EXCEPT ![c] = batch \ part]
        /\ UNCHANGED <<mqEnv, mqSent, mqOut, mqFailed, mqTasks, mqAcked, mqDropped, mqLost, mqNacked>>

\* The batch is handed on with its commit.
MqHandOn(c) ==
    /\ mqGot[c] # {}
    /\ WantsMore(mqGot[c]) => mqChannel = <<>>
    /\ mqOut' = mqOut \cup {mqGot[c]}
    /\ mqGot' = [mqGot EXCEPT ![c] = {}]
    /\ UNCHANGED <<mqEnv, mqSent, mqChannel, mqBuffer, mqFailed, mqTasks, mqAcked, mqDropped, mqLost, mqNacked>>

-----------------------------------------------------------------------------
(* Requeueing *)

\* Mutated: a full channel drops what is requeued.
RequeueTries(messages) ==
    IF messages # {} /\ Len(mqChannel) < MqCapacity
      THEN mqChannel' = Append(mqChannel, messages) /\ UNCHANGED <<mqTasks, mqLost>>
      ELSE UNCHANGED <<mqChannel, mqTasks, mqLost>>

\* Mutated: the commit waits for room in the channel.
RequeueBlocks(messages) ==
    IF messages = {} THEN UNCHANGED <<mqChannel, mqTasks, mqLost>>
      ELSE /\ Len(mqChannel) < MqCapacity
           /\ mqChannel' = Append(mqChannel, messages)
           /\ UNCHANGED <<mqTasks, mqLost>>

\* try_send
OntoChannel(messages) ==
    /\ ~mqClosed /\ Len(mqChannel) < MqCapacity
    /\ mqChannel' = Append(mqChannel, messages)
    /\ UNCHANGED <<mqTasks, mqLost>>

\* A task that waits for room, if there is a runtime.
Spawned(messages) ==
    /\ mqTasks' = IF mqRuntime THEN mqTasks \cup {messages} ELSE mqTasks
    /\ mqLost' = IF mqRuntime THEN mqLost ELSE mqLost \cup messages
    /\ mqChannel' = mqChannel

\* requeue_messages: onto the channel, or by a task if it is full.
Requeue(messages) ==
    \/ messages = {} /\ UNCHANGED <<mqChannel, mqTasks, mqLost>>
    \/ messages # {} /\ OntoChannel(messages)
    \/ messages # {} /\ mqClosed /\ mqLost' = mqLost \cup messages /\ UNCHANGED <<mqChannel, mqTasks>>
    \/ messages # {} /\ ~mqClosed /\ Len(mqChannel) >= MqCapacity /\ Spawned(messages)

\* The task's send ends when there is room or the channel is closed.
RequeueTask(messages) ==
    /\ \/ /\ ~mqClosed /\ Len(mqChannel) < MqCapacity
          /\ mqChannel' = Append(mqChannel, messages)
          /\ mqLost' = mqLost
       \/ /\ mqClosed
          /\ mqLost' = mqLost \cup messages
          /\ mqChannel' = mqChannel
    /\ mqTasks' = mqTasks \ {messages}
    /\ UNCHANGED <<mqEnv, mqSent, mqGot, mqBuffer, mqOut, mqFailed, mqAcked, mqDropped, mqNacked>>

\* Messages of a delivery that are not acknowledged.
GiveBack(messages) ==
    IF mqNackable THEN Requeue(messages) /\ mqDropped' = mqDropped
                  ELSE mqDropped' = mqDropped \cup messages /\ UNCHANGED <<mqChannel, mqTasks, mqLost>>

\* The sink fails some messages of a delivery.
MqFail(d) ==
    /\ mqRuntime
    /\ d \cap mqFailed = {} /\ mqNacked < MqNacks
    /\ \E failed \in SUBSET d \ {{}} : mqFailed' = mqFailed \cup failed
    /\ mqNacked' = mqNacked + 1
    /\ UNCHANGED <<mqEnv, mqSent, mqChannel, mqGot, mqBuffer, mqOut, mqTasks, mqAcked, mqDropped, mqLost>>

\* The commit of a delivery, in any order: what the sink failed is given back.
MqCommit(d) ==
    /\ mqRuntime
    /\ mqAcked' = mqAcked \cup (d \ mqFailed)
    /\ GiveBack(d \cap mqFailed)
    /\ mqOut' = mqOut \ {d}
    /\ mqFailed' = mqFailed \ d
    /\ UNCHANGED <<mqEnv, mqSent, mqGot, mqBuffer, mqNacked>>

\* A delivery is dropped without a commit, or while its commit runs: its guard gives it back.
MqDrop(d) ==
    /\ mqNacked < MqNacks
    /\ mqNacked' = mqNacked + 1
    /\ GiveBack(d)
    /\ mqOut' = mqOut \ {d}
    /\ mqFailed' = mqFailed \ d
    /\ UNCHANGED <<mqEnv, mqSent, mqGot, mqBuffer, mqAcked>>

\* A consumer is dropped: its rest goes back, with or without enable_nack.  On a closed
\* channel too a task is spawned for it.
MqDropConsumer(c) ==
    /\ mqGot[c] = {} /\ mqBuffer[c] # {}
    /\ mqNacked < MqNacks
    /\ mqNacked' = mqNacked + 1
    /\ \/ OntoChannel(mqBuffer[c])
       \/ (mqClosed \/ Len(mqChannel) >= MqCapacity) /\ Spawned(mqBuffer[c])
    /\ mqBuffer' = [mqBuffer EXCEPT ![c] = {}]
    /\ UNCHANGED <<mqEnv, mqSent, mqGot, mqOut, mqFailed, mqAcked, mqDropped>>

MqReceive(c) == MqFirst(c) \/ MqMore(c) \/ MqHandOn(c)

MqNext ==
    \/ MqSend \/ MqClose \/ MqShutdown
    \/ \E c \in MqConsumers : MqReceive(c) \/ MqDropConsumer(c)
    \/ \E d \in mqOut : MqFail(d) \/ MqCommit(d) \/ MqDrop(d)
    \/ \E t \in mqTasks : RequeueTask(t)

MqSpec == MqInit /\ [][MqNext]_mqVars

\* The route polls its consumers and runs its commits, and the runtime runs its tasks.
MqFairness ==
    /\ \A c \in MqConsumers : WF_mqVars(MqReceive(c))
    /\ WF_mqVars(\E d \in mqOut : MqCommit(d))
    /\ WF_mqVars(\E t \in mqTasks : RequeueTask(t))

-----------------------------------------------------------------------------
(* Properties *)

\* The types of the variables.
MqTypeOK ==
    /\ mqNackable \in BOOLEAN /\ mqClosed \in BOOLEAN /\ mqRuntime \in BOOLEAN
    /\ mqSent \in 0..Len(MqBatches)
    /\ mqChannel \in Seq(SUBSET MqMessages) /\ Len(mqChannel) <= MqCapacity
    /\ mqGot \in [MqConsumers -> SUBSET MqMessages] /\ mqBuffer \in [MqConsumers -> SUBSET MqMessages]
    /\ mqOut \subseteq SUBSET MqMessages /\ mqTasks \subseteq SUBSET MqMessages
    /\ mqFailed \subseteq MqMessages
    /\ mqAcked \subseteq MqMessages /\ mqDropped \subseteq MqMessages /\ mqLost \subseteq MqMessages
    /\ mqNacked \in 0..MqNacks

Published == UNION {MqBatches[i] : i \in 1..mqSent}
InChannel == UNION {mqChannel[i] : i \in DOMAIN mqChannel}
WithRoute == UNION mqOut
InTasks == UNION mqTasks
WithConsumers == UNION {mqGot[c] \cup mqBuffer[c] : c \in MqConsumers}

\* Every message sent is somewhere, however batches are split, merged, nacked and given
\* back, or it is lost with an error in the log.
NoneVanishes ==
    Published = InChannel \cup WithConsumers \cup WithRoute \cup InTasks \cup mqAcked \cup mqDropped \cup mqLost

\* None is lost that way as long as the channel is open and the runtime there.
NoneLost == mqRuntime /\ ~mqClosed => mqLost = {}

Gone == mqAcked \cup mqDropped \cup mqLost

PlacesApart ==
    /\ InChannel \cap WithConsumers = {}
    /\ (InChannel \cup WithConsumers) \cap WithRoute = {}
    /\ (InChannel \cup WithConsumers \cup WithRoute) \cap InTasks = {}
    /\ (InChannel \cup WithConsumers \cup WithRoute \cup InTasks) \cap Gone = {}
    /\ mqAcked \cap mqDropped = {}
    /\ (mqAcked \cup mqDropped) \cap mqLost = {}

BatchesApart ==
    /\ \A i, j \in DOMAIN mqChannel : i # j => mqChannel[i] \cap mqChannel[j] = {}
    /\ \A c, e \in MqConsumers : c # e => (mqGot[c] \cup mqBuffer[c]) \cap (mqGot[e] \cup mqBuffer[e]) = {}
    /\ \A c \in MqConsumers : mqGot[c] \cap mqBuffer[c] = {}
    /\ \A d, e \in mqOut : d # e => d \cap e = {}
    /\ \A t, u \in mqTasks : t # u => t \cap u = {}

\* None is in two places, so none is delivered twice at a time or after it was settled.
NoneTwice == PlacesApart /\ BatchesApart

\* With enable_nack no message is given up silently.
NackKeeps == mqNackable => mqDropped = {}

\* No delivery is empty or larger than asked for.
DeliveriesFit == \A d \in mqOut : Cardinality(d) \in 1..MqMax

\* What the memory queue keeps true.
MemoryQueueInv == MqTypeOK /\ NoneVanishes /\ NoneLost /\ NoneTwice /\ NackKeeps /\ DeliveriesFit

\* What was published is settled in the end, unless the runtime ended: the route never waits
\* for room in the channel that only its own reads would make, although commits requeue
\* while they hold its permits.
QueueSettles == <>[](mqRuntime => Published \subseteq Gone)

-----------------------------------------------------------------------------
(* What keeps MemoryQueueInv *)

\* A batch that came up short leaves no rest with the consumer, so that the rest of the
\* next one may replace it.
ShortLeavesNothing ==
    \A c \in MqConsumers :
        /\ Cardinality(mqGot[c]) <= MqMax
        /\ mqGot[c] # {} /\ Cardinality(mqGot[c]) < MqMax => mqBuffer[c] = {}

\* No empty batch is on the channel or in a task.
NoneEmpty == {} \notin Range(mqChannel) \cup mqTasks

MqInv == MemoryQueueInv /\ ShortLeavesNothing /\ NoneEmpty
=============================================================================
