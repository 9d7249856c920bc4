------------------------------- MODULE DirSpool -------------------------------
(***************************************************************************)
(* The dir_spool endpoint: a directory as a queue between processes.       *)
(* Producers, one after the other under a lock, write every message of a   *)
(* batch as a sidecar and a payload file named by a sequence number, and a *)
(* sentinel when production is over.  The consumer serves batches from a   *)
(* cached listing; commits run in the route's tasks and delete the chunks, *)
(* or release them for redelivery.                                         *)
(***************************************************************************)
EXTENDS Naturals, FiniteSets, FiniteSetsExt

CONSTANTS
    SpMessages,     \* number of messages produced
    SpBatch,        \* max_messages of a receive_batch
    SpOpen,         \* bound on deliveries open at once
    SpReopens,      \* bound on producers, one after the other
    SpNames,        \* bound on sequence numbers
    SpTracked,      \* MAX_UNWRITTEN_TRACKED
    SpReadFailures, \* MAX_CHUNK_READ_FAILURES
    SpFaults        \* bound on failed writes, syncs and deletes, nacks and dropped deliveries

ASSUME SpoolBounds ==
    /\ SpMessages \in Nat /\ SpFaults \in Nat /\ SpReopens \in Nat /\ SpNames \in Nat
    /\ SpTracked \in Nat
    /\ SpBatch \in Nat \ {0} /\ SpOpen \in Nat \ {0} /\ SpReadFailures \in Nat \ {0}

Messages == 1..SpMessages
Names == 0..(SpNames - 1)
NoFile == 0
SpSlots == 1..SpOpen
NoChunks == [n \in Names |-> NoFile]
NoneUnwritten == [m \in Messages |-> 0]

VARIABLES
    spDrain,        \* drain_on_read
    spBad,          \* messages whose chunk cannot be read
    spProducers,    \* number of producers, one after the other
    spProducer,     \* where the producer that holds the lock is, or "none"
    spReopens,      \* further producers to come
    spNext,         \* the first message not yet sent
    spBack,         \* messages the route has to send again
    spSend,         \* the messages of this send_batch,
    spLeft,         \*   and those it has not come to
    spSeq,          \* seq: the number of the next chunk
    spUnwritten,    \* unwritten: how often this producer failed to write each message
    spWriteFailed,  \* write_failed
    spPayload,      \* the files on disk: the message whose payload, and whose metadata,
    spSidecar,      \*   a name holds
    spDone,         \* the sentinel is there
    spPhase,        \* where receive_batch is
    spSampled,      \* done_before_scan
    spSettled,      \* a delivery was settled since settled_before was read
    spAttempts,     \* listings none of whose chunks could be read
    spReady,        \* ready: in queue order and without repetition, so a set
    spTaken,        \* the chunks being read
    spFailed,       \* read_failures
    spClaimed,      \* claimed
    spRequeued,     \* requeued
    spTodo,         \* open deliveries: the message read of each chunk left to settle,
    spAt,           \*   and the state of the first
    spFaultsLeft,
    spWritten,      \* messages written
    spMissing,      \* messages this producer failed to write and has not written since
    spAgain,        \* messages that were sent again
    spAcked,        \* messages acknowledged
    spOwed          \* messages on disk when the sentinel was last sampled

spSending == <<spNext, spBack, spSend, spLeft, spAgain>>
spNotes == <<spUnwritten, spWriteFailed, spWritten, spMissing>>
spProducerVars == <<spProducer, spReopens, spSending, spSeq, spNotes>>
spFiles == <<spPayload, spSidecar>>
spReader == <<spPhase, spSampled, spAttempts, spReady, spTaken, spFailed, spOwed>>
spShared == <<spClaimed, spRequeued, spTodo, spAt, spSettled>>
spVars == <<spDrain, spBad, spProducers, spProducerVars, spFiles, spDone, spReader, spShared,
            spFaultsLeft, spAcked>>

SpInit ==
    /\ spDrain \in BOOLEAN
    /\ spBad \in SUBSET Messages
    /\ spProducers \in 1..SpReopens
    /\ spProducer = "none"
    /\ spReopens = spProducers
    /\ spFaultsLeft \in {0, SpFaults}
    /\ spNext = 1 /\ spBack = {} /\ spSend = {} /\ spLeft = {} /\ spAgain = {}
    /\ spSeq = 0
    /\ spUnwritten = NoneUnwritten /\ spWriteFailed = FALSE /\ spWritten = {} /\ spMissing = {}
    /\ spPayload = NoChunks /\ spSidecar = NoChunks
    /\ spDone = FALSE
    /\ spPhase = "idle" /\ spSampled = FALSE /\ spSettled = FALSE /\ spAttempts = 0
    /\ spReady = {} /\ spTaken = {} /\ spFailed = [n \in Names |-> 0]
    /\ spClaimed = {} /\ spRequeued = {}
    /\ spTodo = [b \in SpSlots |-> NoChunks] /\ spAt = [b \in SpSlots |-> "free"]
    /\ spAcked = {} /\ spOwed = {}

Chunks == {n \in Names : spPayload[n] # NoFile}

-----------------------------------------------------------------------------
(* Producers *)

\* new: the lock first, so that no other producer is at work.
SpOpenProducer ==
    /\ spProducer = "none" /\ spReopens > 0
    /\ spProducer' = "locked"
    /\ spReopens' = spReopens - 1
    /\ spUnwritten' = NoneUnwritten /\ spWriteFailed' = FALSE
    /\ spMissing' = {}
    /\ UNCHANGED <<spDrain, spBad, spProducers, spSending, spSeq, spWritten, spFiles, spDone,
                   spReader, spShared, spFaultsLeft, spAcked>>

\* clear_done: production is live again.
SpClearDone ==
    /\ spProducer = "locked"
    /\ spProducer' = "cleared"
    /\ spDone' = FALSE
    /\ UNCHANGED <<spDrain, spBad, spProducers, spReopens, spSending, spSeq, spNotes, spFiles,
                   spReader, spShared, spFaultsLeft, spAcked>>

\* highest_sequence: one above the highest number on disk.
NextSeq == IF Chunks = {} THEN 0 ELSE Max(Chunks) + 1

SpSeed ==
    /\ spProducer = "cleared"
    /\ spProducer' = "open"
    /\ spSeq' = NextSeq
    /\ UNCHANGED <<spDrain, spBad, spProducers, spReopens, spSending, spNotes, spFiles, spDone,
                   spReader, spShared, spFaultsLeft, spAcked>>

\* send_batch is called with new messages in source order, or with some to be sent again.
SpSendBatch ==
    /\ spProducer = "open"
    /\ spProducer' = "sending"
    /\ \/ \E last \in spNext..SpMessages :
            /\ spSend' = spNext..last
            /\ spNext' = last + 1
            /\ spBack' = spBack
       \/ \E again \in SUBSET spBack \ {{}} :
            /\ spSend' = again
            /\ spBack' = spBack \ again
            /\ spNext' = spNext
    /\ spLeft' = spSend'
    /\ UNCHANGED <<spDrain, spBad, spProducers, spReopens, spAgain, spSeq, spNotes, spFiles,
                   spDone, spReader, spShared, spFaultsLeft, spAcked>>

\* write_chunk: the number is taken, and the sidecar is in place before the payload.
SpWriteSidecar ==
    /\ spProducer = "sending" /\ spLeft # {} /\ spSeq < SpNames
    /\ spProducer' = "sidecar"
    /\ spSidecar' = [spSidecar EXCEPT ![spSeq] = Min(spLeft)]
    /\ UNCHANGED <<spDrain, spBad, spProducers, spReopens, spSending, spSeq, spNotes, spPayload,
                   spDone, spReader, spShared, spFaultsLeft, spAcked>>

\* The payload, and note_written, which clears one earlier failure.
SpWritePayload ==
    LET m == Min(spLeft)
    IN  /\ spProducer = "sidecar"
        /\ spProducer' = "sending"
        /\ spPayload' = [spPayload EXCEPT ![spSeq] = m]
        /\ spSeq' = spSeq + 1
        /\ spLeft' = spLeft \ {m}
        /\ spUnwritten' = [spUnwritten EXCEPT ![m] = IF @ = 0 THEN 0 ELSE @ - 1]
        /\ spWritten' = spWritten \cup {m}
        /\ spMissing' = spMissing \ {m}
        /\ UNCHANGED <<spDrain, spBad, spProducers, spReopens, spNext, spBack, spSend, spAgain,
                       spWriteFailed, spSidecar, spDone, spReader, spShared, spFaultsLeft, spAcked>>

Tracked == {m \in Messages : spUnwritten[m] > 0}

\* note_unwritten: past the limit the sentinel is held back for good.
NoteUnwritten(m) ==
    IF m \in Tracked \/ Cardinality(Tracked) < SpTracked
      THEN spUnwritten' = [spUnwritten EXCEPT ![m] = @ + 1] /\ spWriteFailed' = spWriteFailed
      ELSE spWriteFailed' = TRUE /\ spUnwritten' = spUnwritten

\* A failed write uses up its number.  The rest of the batch is written all the same; what
\* failed is reported, and the route sends it again.
SpWriteFails ==
    LET m == Min(spLeft)
    IN  /\ spProducer \in {"sending", "sidecar"} /\ spLeft # {} /\ spSeq < SpNames
        /\ spFaultsLeft > 0
        /\ spFaultsLeft' = spFaultsLeft - 1
        /\ spProducer' = "sending"
        /\ spSeq' = spSeq + 1
        /\ spLeft' = spLeft \ {m}
        /\ spBack' = spBack \cup {m} /\ spAgain' = spAgain \cup {m}
        /\ NoteUnwritten(m)
        /\ spMissing' = spMissing \cup {m}
        /\ UNCHANGED <<spDrain, spBad, spProducers, spReopens, spNext, spSend, spWritten, spFiles,
                       spDone, spReader, spShared, spAcked>>

\* send_batch returns.
SpSent ==
    /\ spProducer = "sending" /\ spLeft = {}
    /\ spProducer' = "open"
    /\ spSend' = {}
    /\ UNCHANGED <<spDrain, spBad, spProducers, spReopens, spNext, spBack, spLeft, spAgain, spSeq,
                   spNotes, spFiles, spDone, spReader, spShared, spFaultsLeft, spAcked>>

\* The directory cannot be synced: the whole batch is reported as failed, though written.
SpSyncFails ==
    /\ spProducer = "sending" /\ spLeft = {}
    /\ spFaultsLeft > 0
    /\ spFaultsLeft' = spFaultsLeft - 1
    /\ spProducer' = "open"
    /\ spBack' = spBack \cup spSend /\ spAgain' = spAgain \cup spSend
    /\ spSend' = {}
    /\ spWriteFailed' = TRUE
    /\ UNCHANGED <<spDrain, spBad, spProducers, spReopens, spNext, spLeft, spSeq, spUnwritten,
                   spWritten, spMissing, spFiles, spDone, spReader, spShared, spAcked>>

\* close_with, with emit_done: success.  The sentinel is down before the lock is released;
\* a stopped or failed route leaves none.
SpWriteDone ==
    /\ spProducer = "open" /\ Tracked = {} /\ ~spWriteFailed
    /\ spProducer' = "closing"
    /\ spDone' = TRUE
    /\ UNCHANGED <<spDrain, spBad, spProducers, spReopens, spSending, spSeq, spNotes, spFiles,
                   spReader, spShared, spFaultsLeft, spAcked>>

\* release_lock, at the end of close_with.
SpRelease ==
    /\ spProducer = "closing"
    /\ spProducer' = "none"
    /\ UNCHANGED <<spDrain, spBad, spProducers, spReopens, spSending, spSeq, spNotes, spFiles,
                   spDone, spReader, spShared, spFaultsLeft, spAcked>>

\* A stopped route, or a crash at any point, which leaves the lock to be broken by the next
\* producer; the last one simply ends.  The source delivers again what was not acknowledged
\* there: this batch, and any other that was sent.
SpStop ==
    /\ spProducer \notin {"none", "closing"} /\ spReopens > 0
    /\ spProducer' = "none"
    /\ \E again \in SUBSET (1..(spNext - 1)) :
            /\ spSend \subseteq again
            /\ spBack' = spBack \cup again /\ spAgain' = spAgain \cup again
    /\ spSend' = {} /\ spLeft' = {}
    /\ UNCHANGED <<spDrain, spBad, spProducers, spReopens, spNext, spSeq, spNotes, spFiles, spDone,
                   spReader, spShared, spFaultsLeft, spAcked>>

-----------------------------------------------------------------------------
(* receive_batch *)

\* done_before_scan, sampled ahead of every listing of this call.
SpSample ==
    /\ spPhase = "idle"
    /\ spSampled' = spDone
    /\ spOwed' = {spPayload[n] : n \in Chunks}
    /\ spAttempts' = 0
    /\ spPhase' = "listing"
    /\ UNCHANGED <<spDrain, spBad, spProducers, spProducerVars, spFiles, spDone, spReady, spTaken, spFailed,
                   spShared, spFaultsLeft, spAcked>>

\* settled_before, then absorb_requeued: what was released is merged into the listing.
SpAbsorb ==
    /\ spPhase = "listing"
    /\ spSettled' = FALSE
    /\ spReady' = spReady \cup spRequeued
    /\ spRequeued' = {}
    /\ spPhase' = "absorbed"
    /\ UNCHANGED <<spDrain, spBad, spProducers, spProducerVars, spFiles, spDone, spSampled, spAttempts,
                   spTaken, spFailed, spOwed, spClaimed, spTodo, spAt, spFaultsLeft, spAcked>>

\* The first k of the names in queue order.
Smallest(names, k) == {n \in names : Cardinality({m \in names : m < n}) < k}

\* list_ready: the directory is only scanned for what is not claimed if nothing is cached.
SpList ==
    LET listing == IF spReady # {} THEN spReady ELSE Chunks \ spClaimed
        taken   == Smallest(listing, SpBatch)
    IN  /\ spPhase = "absorbed"
        /\ spTaken' = taken
        /\ spReady' = listing \ taken
        /\ spPhase' = IF taken = {} THEN "empty" ELSE "reading"
        /\ UNCHANGED <<spDrain, spBad, spProducers, spProducerVars, spFiles, spDone, spSampled, spAttempts,
                       spFailed, spOwed, spShared, spFaultsLeft, spAcked>>

\* settled_since: a delivery settled meanwhile may have put chunks back.
SpRescan ==
    /\ spPhase = "empty" /\ spSampled /\ spSettled
    /\ spPhase' = "listing"
    /\ UNCHANGED <<spDrain, spBad, spProducers, spProducerVars, spFiles, spDone, spSampled, spAttempts,
                   spReady, spTaken, spFailed, spOwed, spShared, spFaultsLeft, spAcked>>

Held(b) == {n \in Names : spTodo[b][n] # NoFile}

OpenDeliveries == {b \in SpSlots : spAt[b] # "free"}

\* Mutated: open deliveries are not waited for.
DrainedAtOnce == TRUE

\* Mutated: the end waits until no chunk is claimed.
DrainedWhenUnclaimed == spSampled => ~spSettled /\ spClaimed = {}

\* Whether the queue may be reported empty (without exit_on_empty).
Drained == spSampled => ~spSettled /\ OpenDeliveries = {}

\* idle: the end of the stream if the sentinel was there before the scan.
SpIdle ==
    /\ spPhase = "empty" /\ Drained
    /\ spPhase' = IF spSampled THEN "end" ELSE "idle"
    /\ UNCHANGED <<spDrain, spBad, spProducers, spProducerVars, spFiles, spDone, spSampled, spAttempts,
                   spReady, spTaken, spFailed, spOwed, spShared, spFaultsLeft, spAcked>>

Readable(n) == spPayload[n] \notin spBad \cup {NoFile}

\* read_ready and the delivery of what could be read.  A chunk that keeps failing is set
\* aside by a claim; two listings without a message end the call with an empty batch.
SpRead ==
    LET read      == {n \in spTaken : Readable(n)}
        delivered == [n \in Names |-> IF n \in read THEN spPayload[n] ELSE NoFile]
        failed    == spTaken \ read
        aside     == {n \in failed : spFailed[n] + 1 = SpReadFailures}
    IN  /\ spPhase = "reading"
        /\ spTaken' = {}
        /\ spFailed' = [n \in Names |->
                          IF n \in failed \ aside THEN spFailed[n] + 1
                          ELSE IF n \in spTaken THEN 0 ELSE spFailed[n]]
        /\ spClaimed' = spClaimed \cup aside \cup read
        /\ IF read # {}
             THEN /\ \E b \in SpSlots \ OpenDeliveries :
                       /\ \A c \in SpSlots \ OpenDeliveries : b <= c
                       /\ spTodo' = [spTodo EXCEPT ![b] = delivered]
                       /\ spAt' = [spAt EXCEPT ![b] = "first"]
                  /\ spPhase' = "idle"
                  /\ UNCHANGED <<spReady, spAttempts>>
             ELSE /\ spReady' = {}
                  /\ spAttempts' = spAttempts + 1
                  /\ spPhase' = IF spAttempts = 1 THEN "idle" ELSE "listing"
                  /\ UNCHANGED <<spTodo, spAt>>
        /\ UNCHANGED <<spDrain, spBad, spProducers, spProducerVars, spFiles, spDone, spSampled, spOwed,
                       spRequeued, spSettled, spFaultsLeft, spAcked>>

-----------------------------------------------------------------------------
(* The commit of a delivery *)

\* The chunk being settled, and the message it was delivered with.
First(b) == Min(Held(b))
Handled(b) == {spTodo[b][First(b)]}

At(b, where) == spAt[b] = where /\ Held(b) # {}

To(b, where) == spAt' = [spAt EXCEPT ![b] = where] /\ spTodo' = spTodo

Popped(b) ==
    /\ spTodo' = [spTodo EXCEPT ![b] = [@ EXCEPT ![First(b)] = NoFile]]
    /\ spAt' = [spAt EXCEPT ![b] = "first"]

\* An ack: the payload is deleted first.  Without drain_on_read the file and the claim stay.
SpAck(b) ==
    /\ At(b, "first")
    /\ spAcked' = spAcked \cup Handled(b)
    /\ IF spDrain
         THEN spPayload' = [spPayload EXCEPT ![First(b)] = NoFile] /\ To(b, "deleted")
         ELSE spPayload' = spPayload /\ Popped(b)
    /\ UNCHANGED <<spDrain, spBad, spProducers, spProducerVars, spSidecar, spDone, spReader, spClaimed,
                   spRequeued, spSettled, spFaultsLeft>>

\* A delete that fails keeps the claim.
SpAckStuck(b) ==
    /\ At(b, "first") /\ spDrain
    /\ spFaultsLeft > 0
    /\ spFaultsLeft' = spFaultsLeft - 1
    /\ spAcked' = spAcked \cup Handled(b)
    /\ Popped(b)
    /\ UNCHANGED <<spDrain, spBad, spProducers, spProducerVars, spFiles, spDone, spReader, spClaimed,
                   spRequeued, spSettled>>

\* remove_chunk goes on with the sidecar.
SpSweep(b) ==
    /\ At(b, "deleted")
    /\ spSidecar' = [spSidecar EXCEPT ![First(b)] = NoFile]
    /\ To(b, "swept")
    /\ UNCHANGED <<spDrain, spBad, spProducers, spProducerVars, spPayload, spDone, spReader, spClaimed,
                   spRequeued, spSettled, spFaultsLeft, spAcked>>

SpUnclaim(b) ==
    /\ At(b, "swept")
    /\ spClaimed' = spClaimed \ {First(b)}
    /\ Popped(b)
    /\ UNCHANGED <<spDrain, spBad, spProducers, spProducerVars, spFiles, spDone, spReader, spRequeued,
                   spSettled, spFaultsLeft, spAcked>>

\* A nack releases the chunk, then puts it back: two locks, one after the other.
SpNack(b) ==
    /\ At(b, "first")
    /\ spFaultsLeft > 0
    /\ spFaultsLeft' = spFaultsLeft - 1
    /\ spClaimed' = spClaimed \ {First(b)}
    /\ To(b, "nacked")
    /\ UNCHANGED <<spDrain, spBad, spProducers, spProducerVars, spFiles, spDone, spReader, spRequeued,
                   spSettled, spAcked>>

SpRequeue(b) ==
    /\ At(b, "nacked")
    /\ spRequeued' = spRequeued \cup {First(b)}
    /\ Popped(b)
    /\ UNCHANGED <<spDrain, spBad, spProducers, spProducerVars, spFiles, spDone, spReader, spClaimed,
                   spSettled, spFaultsLeft, spAcked>>

\* A commit that is dropped at an await: its guard releases the chunks left, then puts
\* them back and settles the delivery.
SpDrop(b) ==
    /\ At(b, "first") \/ At(b, "deleted") \/ At(b, "swept")
    /\ spFaultsLeft > 0
    /\ spFaultsLeft' = spFaultsLeft - 1
    /\ spClaimed' = spClaimed \ Held(b)
    /\ To(b, "dropped")
    /\ UNCHANGED <<spDrain, spBad, spProducers, spProducerVars, spFiles, spDone, spReader, spRequeued,
                   spSettled, spAcked>>

SpSettle(b) ==
    /\ spAt[b] # "free"
    /\ Held(b) = {} \/ spAt[b] = "dropped"
    /\ spRequeued' = spRequeued \cup Held(b)
    /\ spTodo' = [spTodo EXCEPT ![b] = NoChunks] /\ spAt' = [spAt EXCEPT ![b] = "free"]
    /\ spSettled' = TRUE
    /\ UNCHANGED <<spDrain, spBad, spProducers, spProducerVars, spFiles, spDone, spReader, spClaimed,
                   spFaultsLeft, spAcked>>

SpNextProducer ==
    \/ SpOpenProducer \/ SpClearDone \/ SpSeed
    \/ SpSendBatch \/ SpWriteSidecar \/ SpWritePayload \/ SpWriteFails \/ SpSent \/ SpSyncFails
    \/ SpWriteDone \/ SpRelease \/ SpStop

SpNextReader ==
    \/ SpSample \/ SpAbsorb \/ SpList \/ SpRescan \/ SpIdle
    \/ OpenDeliveries # SpSlots /\ SpRead

SpNextCommit(b) ==
    \/ SpAck(b) \/ SpAckStuck(b) \/ SpSweep(b) \/ SpUnclaim(b)
    \/ SpNack(b) \/ SpRequeue(b) \/ SpDrop(b) \/ SpSettle(b)

SpNextStep == SpNextProducer \/ SpNextReader \/ \E b \in SpSlots : SpNextCommit(b)

SpSpec == SpInit /\ [][SpNextStep]_spVars

\* What a commit does when nothing fails.
SpCommitRuns(b) == SpAck(b) \/ SpSweep(b) \/ SpUnclaim(b) \/ SpRequeue(b) \/ SpSettle(b)

\* The route runs its commits, and polls the consumer as long as it runs (SpNextReader, for
\* the specification that composes them to say).  No producer has to go on.
SpFairness == \A b \in SpSlots : WF_spVars(SpCommitRuns(b))

-----------------------------------------------------------------------------
(* Properties *)

\* The types of the variables.
SpTypeOK ==
    /\ spNext \in 1..(SpMessages + 1) /\ spSeq \in 0..SpNames /\ spAttempts \in 0..2
    /\ spBack \cup spSend \cup spLeft \cup spAgain \subseteq Messages
    /\ spUnwritten \in [Messages -> Nat] /\ spWriteFailed \in BOOLEAN
    /\ spWritten \cup spMissing \subseteq Messages
    /\ \A n \in Names : spPayload[n] \in 0..SpMessages /\ spSidecar[n] \in 0..SpMessages
    /\ spReady \cup spClaimed \cup spRequeued \cup spTaken \subseteq Names
    /\ \A b \in SpSlots, n \in Names : spTodo[b][n] \in 0..SpMessages

\* models.rs of the pair of files of a message: "(with `drain_on_read`) the pair is deleted
\* once the message is acknowledged".  A message that was written is on disk until then.
SpooledUntilAcked == \A m \in spWritten : m \in spAcked \/ \E n \in Chunks : spPayload[n] = m

\* requires_ordered_publish: "the directory listing stays source order".  Queue order is the
\* order of production, across producers that take over from each other, but for messages
\* that had to be sent again: send_batch goes on after a failed write.
OnlyResentOvertaken ==
    \A i, j \in Chunks : i < j => spPayload[i] < spPayload[j] \/ spPayload[j] \in spAgain

\* should_emit_done: the sentinel says that "everything this producer accepted reached the
\* disk", however many of its writes failed.
DoneIsWhole == spProducer = "closing" => spMissing = {}

\* Every payload on disk has its sidecar.
MetadataIsThere == \A n \in Chunks : spSidecar[n] = spPayload[n]

\* write_chunk_files: "a consumer that keys off the payload file always finds the metadata
\* already there".  With one producer it does; one that takes over may reuse the number of
\* a chunk whose sidecar is still to be deleted.
OneProducersMetadata == spProducers = 1 => MetadataIsThere

\* The end of the stream is only reported when every chunk that was there with the
\* sentinel has been acknowledged, or was set aside as unreadable.
EndIsDrained == spPhase = "end" => spOwed \subseteq spAcked \cup spBad

\* Every chunk on disk that has not been handled can still be reached by a listing: it is
\* not claimed without an open delivery or a record that it is unreadable.
NoClaimLeaks ==
    \A n \in spClaimed \cap Chunks :
        \/ \E b \in SpSlots : n \in Held(b)
        \/ spPayload[n] \in spAcked \cup spBad

\* What the directory spool keeps true.
DirSpoolInv ==
    /\ SpTypeOK /\ SpooledUntilAcked /\ OnlyResentOvertaken /\ DoneIsWhole
    /\ OneProducersMetadata /\ EndIsDrained /\ NoClaimLeaks

\* The consumer never waits for good: what was written is acknowledged or set aside, unless
\* the end of the stream was reported first, and a sentinel that stays is reported.
SpoolDrains ==
    /\ []<>(spWritten \subseteq spAcked \cup spBad \/ spPhase = "end")
    /\ []<>(spDone => spPhase = "end")
=============================================================================
