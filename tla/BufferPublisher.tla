---------------------------- MODULE BufferPublisher ----------------------------
(***************************************************************************)
(* The buffer middleware of an output: it collects concurrent sends into   *)
(* one batch for its inner publisher, sent when it is full, when a timer   *)
(* fires or on flush, and matches the results back to the callers.  What   *)
(* is pending or in a batch is a set of sends in the order of their        *)
(* numbers.                                                                *)
(***************************************************************************)
EXTENDS Naturals, Sequences, FiniteSets, FiniteSetsExt

CONSTANTS
    NumSends,       \* messages sent through the publisher, numbered as they are enqueued
    MessageId,      \* the message id of each
    BufMax          \* max_messages

Sends == 1..NumSends

ASSUME BufferBounds ==
    /\ NumSends \in Nat /\ BufMax \in Nat \ {0}
    /\ DOMAIN MessageId = Sends

VARIABLES
    bfPending,      \* BufferState.pending
    bfInFlight,     \* the batch with the inner publisher; flush_in_progress while it is not empty
    bfGeneration,   \* BufferState.timer_generation
    bfTimers,       \* generations of the timers that are armed
    bfTasks,        \* spawned maybe_flush calls that have not run
    bfCaller,       \* each send: not made, waiting, given up, or its result
    bfNext,         \* the next send to be made
    bfTook,         \* what the inner publisher took of each batch, in order
    bfFlush,        \* the flush call: idle, checking, waiting, returned
    bfCovers        \* sends enqueued when flush was called

bfVars == <<bfPending, bfInFlight, bfGeneration, bfTimers, bfTasks, bfCaller, bfNext, bfTook, bfFlush, bfCovers>>

BfInit ==
    /\ bfPending = {} /\ bfInFlight = {} /\ bfGeneration = 0 /\ bfTimers = {} /\ bfTasks = 0
    /\ bfCaller = [s \in Sends |-> "new"]
    /\ bfNext = 1
    /\ bfTook = <<>>
    /\ bfFlush = "idle" /\ bfCovers = {}

-----------------------------------------------------------------------------
(* Sending *)

\* enqueue_messages: a full buffer is flushed at once, the first message of an idle one
\* arms the timer.
EnqueueMessages(count) ==
    LET pending == bfPending \cup bfNext..(bfNext + count - 1)
        full == Cardinality(pending) >= BufMax
        arm == ~full /\ bfPending = {} /\ bfInFlight = {}
    IN  /\ bfPending' = pending
        /\ bfTasks' = IF full THEN bfTasks + 1 ELSE bfTasks
        /\ bfGeneration' = IF arm THEN bfGeneration + 1 ELSE bfGeneration
        /\ bfTimers' = IF arm THEN bfTimers \cup {bfGeneration + 1} ELSE bfTimers

\* send and send_batch: the caller waits for its results.
BfSend ==
    /\ \E count \in 1..(NumSends + 1 - bfNext) :
            /\ EnqueueMessages(count)
            /\ bfNext' = bfNext + count
            /\ bfCaller' = [s \in Sends |-> IF s \in bfNext..(bfNext + count - 1) THEN "waiting" ELSE bfCaller[s]]
    /\ UNCHANGED <<bfInFlight, bfTook, bfFlush, bfCovers>>

\* A caller drops its send.
BfGiveUp(s) ==
    /\ bfCaller[s] = "waiting"
    /\ bfCaller' = [bfCaller EXCEPT ![s] = "closed"]
    /\ UNCHANGED <<bfPending, bfInFlight, bfGeneration, bfTimers, bfTasks, bfNext, bfTook, bfFlush, bfCovers>>

\* The pending sends before e, and those of them still wanted.
Earlier(e) == {s \in bfPending : s < e}
Wanted(e) == {s \in Earlier(e) : bfCaller[s] # "closed"}

\* Mutated: looks at no message id.
TakeUptoNumber == Max({e \in 1..bfNext : Cardinality(Wanted(e)) <= BufMax})

\* take_batch: the send it stops at.  That is when the batch is full or would hold a
\* message id twice; sends that were given up are dropped.
TakeUpto ==
    LET fits(e) == /\ Cardinality(Wanted(e)) <= BufMax
                   /\ \A s, t \in Wanted(e) : s # t => MessageId[s] # MessageId[t]
        full(e) == Cardinality(Wanted(e)) = BufMax
    IN  Max({e \in 1..bfNext : fits(e) /\ \A f \in Earlier(e) : ~full(f)})

FlushIdle == bfPending # {} /\ bfInFlight = {}

\* maybe_flush: one batch at a time goes to the inner publisher.  If only given-up sends
\* were pending, the flush waiters are woken.
MaybeFlush ==
    /\ bfTasks > 0
    /\ bfTasks' = bfTasks - 1
    /\ IF ~FlushIdle
         THEN UNCHANGED <<bfPending, bfInFlight, bfGeneration, bfFlush>>
         ELSE LET batch == Wanted(TakeUpto)
              IN /\ bfPending' = bfPending \ Earlier(TakeUpto)
                 /\ bfInFlight' = batch
                 /\ bfGeneration' = IF batch = {} THEN bfGeneration ELSE bfGeneration + 1
                 /\ bfFlush' = IF batch = {} /\ bfFlush = "waiting" THEN "checking" ELSE bfFlush
    /\ UNCHANGED <<bfTimers, bfCaller, bfNext, bfTook, bfCovers>>

\* on_timer: a timer of the current generation that finds something to send flushes it.
OnTimer(g) ==
    /\ g \in bfTimers
    /\ bfTimers' = bfTimers \ {g}
    /\ bfTasks' = IF g = bfGeneration /\ FlushIdle THEN bfTasks + 1 ELSE bfTasks
    /\ UNCHANGED <<bfPending, bfInFlight, bfGeneration, bfCaller, bfNext, bfTook, bfFlush, bfCovers>>

\* distribute_batch_results: each caller is told what became of the message with its id.
Distribute(failedIds) ==
    bfCaller' = [s \in Sends |->
        IF s \in bfInFlight /\ bfCaller[s] = "waiting"
          THEN IF MessageId[s] \in failedIds THEN "failed" ELSE "ok"
          ELSE bfCaller[s]]

\* Mutated: what came in during the send waits for the next caller.
AfterBatchIdle ==
    /\ bfFlush' = IF bfPending = {} /\ bfFlush = "waiting" THEN "checking" ELSE bfFlush
    /\ UNCHANGED <<bfGeneration, bfTimers, bfTasks>>

\* The end of process_batch: wake the flush waiters of an empty buffer, flush again if
\* it is full, else arm a new timer.
AfterBatch ==
    /\ bfFlush' = IF bfPending = {} /\ bfFlush = "waiting" THEN "checking" ELSE bfFlush
    /\ LET again == Cardinality(bfPending) >= BufMax
           arm == bfPending # {} /\ ~again
       IN  /\ bfTasks' = IF again THEN bfTasks + 1 ELSE bfTasks
           /\ bfGeneration' = IF arm THEN bfGeneration + 1 ELSE bfGeneration
           /\ bfTimers' = IF arm THEN bfTimers \cup {bfGeneration + 1} ELSE bfTimers

\* process_batch: the inner publisher takes part of the batch; an error or a panic fails
\* it whole.
ProcessBatch ==
    /\ bfInFlight # {}
    /\ \E took \in SUBSET bfInFlight :
            /\ bfTook' = Append(bfTook, took)
            /\ Distribute({MessageId[s] : s \in bfInFlight \ took})
    /\ bfInFlight' = {}
    /\ AfterBatch
    /\ UNCHANGED <<bfPending, bfNext, bfCovers>>

\* flush is called.
FlushCall ==
    /\ bfFlush = "idle"
    /\ bfFlush' = "checking"
    /\ bfCovers' = 1..(bfNext - 1)
    /\ UNCHANGED <<bfPending, bfInFlight, bfGeneration, bfTimers, bfTasks, bfCaller, bfNext, bfTook>>

FlushDone == bfPending = {} /\ bfInFlight = {}

\* It returns once the buffer is empty and idle; else it waits and starts a flush.
FlushCheck ==
    /\ bfFlush = "checking"
    /\ IF FlushDone THEN bfFlush' = "returned" /\ bfTasks' = bfTasks
                    ELSE bfFlush' = "waiting" /\ bfTasks' = bfTasks + 1
    /\ UNCHANGED <<bfPending, bfInFlight, bfGeneration, bfTimers, bfCaller, bfNext, bfTook, bfCovers>>

BfWork ==
    MaybeFlush \/ (\E g \in bfTimers : OnTimer(g)) \/ ProcessBatch \/ FlushCheck

BfNext == BfSend \/ (\E s \in Sends : BfGiveUp(s)) \/ FlushCall \/ BfWork

BfSpec == BfInit /\ [][BfNext]_bfVars

\* Spawned tasks run, timers fire and the inner publisher answers.
BfFairness == WF_bfVars(BfWork)

-----------------------------------------------------------------------------
(* Properties *)

\* The types of the variables.
BfTypeOK ==
    /\ bfPending \subseteq Sends /\ bfInFlight \subseteq Sends
    /\ bfGeneration \in Nat
    /\ bfTimers \subseteq 1..bfGeneration
    /\ bfTasks \in Nat
    /\ bfCaller \in [Sends -> {"new", "waiting", "closed", "ok", "failed"}]
    /\ bfNext \in 1..(NumSends + 1)
    /\ bfTook \in Seq(SUBSET Sends)
    /\ bfFlush \in {"idle", "checking", "waiting", "returned"}
    /\ bfCovers \subseteq Sends

\* The inner publisher gets the messages in the order they were sent, each at most once,
\* although tasks and timers race to flush.
BufferKeepsOrder ==
    \A i, j \in DOMAIN bfTook : i < j => \A s \in bfTook[i], t \in bfTook[j] : s < t

BfTaken == UNION {bfTook[i] : i \in DOMAIN bfTook}

\* A caller is told the truth about its own message: results are matched by message id,
\* and two sends may carry the same one.
ResultsMatch ==
    \A s \in Sends :
        /\ bfCaller[s] = "ok" => s \in BfTaken
        /\ bfCaller[s] = "failed" => s \notin BfTaken

\* When flush returns, what was enqueued before it was called has its result, so a commit
\* that waited for the flush finds nothing in the buffer.
FlushCovers ==
    bfFlush = "returned" => \A s \in bfCovers : bfCaller[s] # "waiting"

\* What the buffer keeps true of the messages that pass through it.
BufferInv == BfTypeOK /\ BufferKeepsOrder /\ ResultsMatch /\ FlushCovers

\* Every send gets its result, without a later send to push it out.
SendsReturn == <>[](\A s \in Sends : bfCaller[s] # "waiting")
-----------------------------------------------------------------------------
(* What keeps BufferInv *)

\* Sends move through the buffer in order: taken, then in flight, then pending.
StagesInv ==
    /\ \A s \in bfPending : s < bfNext
    /\ \A s \in bfInFlight : s < bfNext /\ \A t \in bfPending : s < t
    /\ \A s \in BfTaken : s < bfNext /\ \A t \in bfPending \cup bfInFlight : s < t
    /\ \A s \in bfCovers : s < bfNext

\* A send has no result while it is in the buffer, and waits only there; a batch holds no
\* message id twice.
CallersInv ==
    /\ \A s \in bfPending \cup bfInFlight : bfCaller[s] \in {"waiting", "closed"}
    /\ \A s \in Sends : /\ bfCaller[s] = "waiting" => s \in bfPending \cup bfInFlight
                        /\ bfCaller[s] \in {"ok", "failed"} => s < bfNext
    /\ \A s, t \in bfInFlight : s # t => MessageId[s] # MessageId[t]

BfInv == BufferInv /\ StagesInv /\ CallersInv
=============================================================================
