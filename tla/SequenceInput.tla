---------------------------- MODULE SequenceInput ----------------------------
(***************************************************************************)
(* The sequence input: endpoints read one after the other, each drained    *)
(* before the next, the last one a stream.  The phases before it take      *)
(* snapshots of tables; the stream retains the rows inserted from the      *)
(* moment its position was pinned.  A marker lets a restart skip phases.   *)
(***************************************************************************)
EXTENDS Naturals, FiniteSets

CONSTANTS
    SqPhases,       \* endpoints.len(): the last phase is the stream
    SqRows,         \* rows inserted into the tables
    SqTable,        \* the phase that takes the snapshot of a row's table
    SqFaults,       \* bound on deliveries that fail, time-outs and dropped calls
    SqRestarts      \* bound on restarts of the process

ASSUME SequenceBounds ==
    /\ SqPhases \in Nat \ {0} /\ SqFaults \in Nat /\ SqRestarts \in Nat
    /\ \A r \in SqRows : SqTable[r] \in 1..(SqPhases - 1)

VARIABLES
    sqInserted,     \* rows there are
    sqStream,       \* rows the stream retains
    sqPinned,       \* its position is pinned
    sqMarker,       \* the stored phase
    sqAt,           \* "down", "up", or "saving" the marker
    sqPhase,        \* phase
    sqOpen,         \* current is there
    sqQueue,        \* rows the current phase has yet to deliver
    sqOut,          \* deliveries the route has not settled: row, and whether unsettled counts it
    sqFailed,       \* unsettled.failed
    sqUnconfirmed,  \* unconfirmed
    sqAcked,        \* rows acknowledged, by a snapshot or by the stream
    sqFaultsLeft,
    sqRestartsLeft

sqStore == <<sqInserted, sqStream, sqPinned, sqMarker>>
sqVars == <<sqStore, sqAt, sqPhase, sqOpen, sqQueue, sqOut, sqFailed, sqUnconfirmed, sqAcked,
            sqFaultsLeft, sqRestartsLeft>>

SqInit ==
    /\ sqInserted = {} /\ sqStream = {} /\ sqPinned = FALSE
    /\ sqMarker = 1
    /\ sqAt = "down" /\ sqPhase = 1 /\ sqOpen = FALSE
    /\ sqQueue = {} /\ sqOut = {}
    /\ sqFailed = FALSE /\ sqUnconfirmed = FALSE
    /\ sqAcked = {}
    /\ sqFaultsLeft = SqFaults /\ sqRestartsLeft = SqRestarts

LastPhase == sqPhase = SqPhases

\* The application inserts a row at any time.
SqInsert(r) ==
    /\ r \notin sqInserted
    /\ sqInserted' = sqInserted \cup {r}
    /\ sqStream' = IF sqPinned THEN sqStream \cup {r} ELSE sqStream
    /\ UNCHANGED <<sqPinned, sqMarker, sqAt, sqPhase, sqOpen, sqQueue, sqOut, sqFailed,
                   sqUnconfirmed, sqAcked, sqFaultsLeft, sqRestartsLeft>>

\* new: load_phase, and pin_resume_position of every later phase before anything is read.
SqNew ==
    /\ sqAt = "down"
    /\ sqAt' = "up"
    /\ sqPhase' = sqMarker
    /\ sqPinned' = (sqPinned \/ sqMarker < SqPhases)
    /\ sqOpen' = FALSE /\ sqFailed' = FALSE /\ sqUnconfirmed' = FALSE
    /\ UNCHANGED <<sqInserted, sqStream, sqMarker, sqQueue, sqOut, sqAcked, sqFaultsLeft,
                   sqRestartsLeft>>

\* open_current: what the source still has to deliver.
SqOpenPhase ==
    /\ sqAt = "up" /\ ~sqOpen
    /\ sqOpen' = TRUE
    /\ sqQueue' = (IF LastPhase THEN sqStream ELSE {r \in sqInserted : SqTable[r] = sqPhase}) \ sqAcked
    /\ UNCHANGED <<sqStore, sqAt, sqPhase, sqOut, sqFailed, sqUnconfirmed, sqAcked,
                   sqFaultsLeft, sqRestartsLeft>>

\* A batch is handed on; track counts those of the phases before the last.
SqReceive(r) ==
    /\ sqAt = "up" /\ sqOpen
    /\ r \in sqQueue
    /\ sqQueue' = sqQueue \ {r}
    /\ sqOut' = sqOut \cup {[row |-> r, counted |-> ~LastPhase]}
    /\ UNCHANGED <<sqStore, sqAt, sqPhase, sqOpen, sqFailed, sqUnconfirmed, sqAcked,
                   sqFaultsLeft, sqRestartsLeft>>

\* The commit of a batch succeeds.
SqSettleClean(d) ==
    /\ sqAcked' = sqAcked \cup {d.row}
    /\ sqOut' = sqOut \ {d}
    /\ UNCHANGED <<sqStore, sqAt, sqPhase, sqOpen, sqQueue, sqFailed, sqUnconfirmed,
                   sqFaultsLeft, sqRestartsLeft>>

\* It is nacked, fails, or is dropped.  Its source delivers it again now, or when reopened.
SqSettleFailed(d) ==
    /\ sqFaultsLeft > 0
    /\ sqFaultsLeft' = sqFaultsLeft - 1
    /\ sqFailed' = (sqFailed \/ d.counted)
    /\ sqOut' = sqOut \ {d}
    /\ \/ sqQueue' = sqQueue
       \/ sqOpen /\ (d.counted \/ (LastPhase /\ d.row \in sqStream)) /\ sqQueue' = sqQueue \cup {d.row}
    /\ UNCHANGED <<sqStore, sqAt, sqPhase, sqOpen, sqUnconfirmed, sqAcked, sqRestartsLeft>>

-----------------------------------------------------------------------------
(* The handoff *)

\* The phase is drained: its source answers with an empty batch or the end of the stream.
PhaseDrained == sqAt = "up" /\ sqOpen /\ ~LastPhase /\ sqQueue = {}

InDoubt == {d \in sqOut : d.counted}

\* advance: the phase is closed and the next one entered; the marker follows.
Advance ==
    /\ sqOpen' = FALSE
    /\ sqPhase' = sqPhase + 1
    /\ sqAt' = "saving"

\* phase_settled: every batch has been settled, none of them failed.
SqHandOff ==
    /\ PhaseDrained /\ InDoubt = {} /\ ~sqFailed
    /\ Advance
    /\ UNCHANGED <<sqStore, sqQueue, sqOut, sqFailed, sqUnconfirmed, sqAcked, sqFaultsLeft,
                   sqRestartsLeft>>

\* One of them failed: the phase is polled again, and no marker is stored any more.
SqPollAgain ==
    /\ PhaseDrained /\ InDoubt = {} /\ sqFailed
    /\ sqFailed' = FALSE
    /\ sqUnconfirmed' = TRUE
    /\ UNCHANGED <<sqStore, sqAt, sqPhase, sqOpen, sqQueue, sqOut, sqAcked, sqFaultsLeft,
                   sqRestartsLeft>>

\* Mutated: the phase counts as confirmed.
SqTimeoutConfirms ==
    /\ PhaseDrained /\ InDoubt # {}
    /\ sqFaultsLeft > 0
    /\ sqFaultsLeft' = sqFaultsLeft - 1
    /\ sqFailed' = FALSE
    /\ sqOut' = {[d EXCEPT !.counted = FALSE] : d \in sqOut}
    /\ Advance
    /\ UNCHANGED <<sqStore, sqQueue, sqUnconfirmed, sqAcked, sqRestartsLeft>>

\* SETTLE_TIMEOUT without progress: the handoff goes on unconfirmed, with a new count.
SqTimeout ==
    /\ PhaseDrained /\ InDoubt # {}
    /\ sqFaultsLeft > 0
    /\ sqFaultsLeft' = sqFaultsLeft - 1
    /\ sqUnconfirmed' = TRUE
    /\ sqFailed' = FALSE
    /\ sqOut' = {[d EXCEPT !.counted = FALSE] : d \in sqOut}
    /\ Advance
    /\ UNCHANGED <<sqStore, sqQueue, sqAcked, sqRestartsLeft>>

\* receive_batch is dropped while the drained phase is closed: it will be opened again.
SqCloseDropped ==
    /\ PhaseDrained /\ InDoubt = {} /\ ~sqFailed
    /\ sqFaultsLeft > 0
    /\ sqFaultsLeft' = sqFaultsLeft - 1
    /\ sqOpen' = FALSE
    /\ UNCHANGED <<sqStore, sqAt, sqPhase, sqQueue, sqOut, sqFailed, sqUnconfirmed, sqAcked,
                   sqRestartsLeft>>

\* The marker is stored unless a delivery is unconfirmed; a save that fails is not fatal.
SqSave ==
    /\ sqAt = "saving"
    /\ sqAt' = "up"
    /\ \/ ~sqUnconfirmed /\ sqMarker' = sqPhase /\ sqFaultsLeft' = sqFaultsLeft
       \/ sqUnconfirmed /\ UNCHANGED <<sqMarker, sqFaultsLeft>>
       \/ /\ ~sqUnconfirmed /\ sqFaultsLeft > 0
          /\ sqFaultsLeft' = sqFaultsLeft - 1 /\ sqMarker' = sqMarker
    /\ UNCHANGED <<sqInserted, sqStream, sqPinned, sqPhase, sqOpen, sqQueue, sqOut, sqFailed,
                   sqUnconfirmed, sqAcked, sqRestartsLeft>>

\* The process ends; what was not acknowledged will be delivered again.
SqRestart ==
    /\ sqAt # "down" /\ sqRestartsLeft > 0
    /\ sqRestartsLeft' = sqRestartsLeft - 1
    /\ sqAt' = "down"
    /\ sqOpen' = FALSE /\ sqQueue' = {} /\ sqOut' = {}
    /\ UNCHANGED <<sqStore, sqPhase, sqFailed, sqUnconfirmed, sqAcked, sqFaultsLeft>>

SqNext ==
    \/ \E r \in SqRows : SqInsert(r) \/ SqReceive(r)
    \/ \E d \in sqOut : SqSettleClean(d) \/ SqSettleFailed(d)
    \/ SqNew \/ SqOpenPhase \/ SqHandOff \/ SqPollAgain \/ SqTimeout \/ SqCloseDropped
    \/ SqSave \/ SqRestart

SqSpec == SqInit /\ [][SqNext]_sqVars

-----------------------------------------------------------------------------
(* Properties *)

\* The types of the variables.
SqTypeOK ==
    /\ sqPhase \in 1..SqPhases /\ sqMarker \in 1..SqPhases
    /\ sqAt \in {"down", "up", "saving"}
    /\ sqInserted \cup sqStream \cup sqQueue \cup sqAcked \subseteq SqRows
    /\ \A d \in sqOut : d.row \in SqRows /\ d.counted \in BOOLEAN

Covered(r) == r \in sqAcked \cup sqStream

\* Gapless: what a phase the marker skips has not acknowledged comes with the stream, so
\* no restart loses a row, whenever it was inserted.
MarkerSkipsNothing == \A r \in sqInserted : SqTable[r] < sqMarker => Covered(r)

\* The same holds for a phase that was left without doubt; after a doubt the marker stays
\* where a restart reads the phase again.
HandoffSkipsNothing ==
    \A r \in sqInserted :
        sqAt # "down" /\ SqTable[r] < sqPhase /\ ~Covered(r)
            => sqUnconfirmed /\ sqMarker <= SqTable[r]

\* What the sequence input keeps true.
SequenceInv == SqTypeOK /\ MarkerSkipsNothing /\ HandoffSkipsNothing

-----------------------------------------------------------------------------
(* The inductive invariant *)

\* While it can leave a phase behind, the input has pinned the stream, so that a row
\* inserted behind a phase reaches the stream.
PinInv == (sqMarker > 1 \/ (sqAt # "down" /\ SqPhases > 1)) => sqPinned

\* Where a row of the open phase is: the source still has to deliver it, the route has it,
\* or a delivery of it has failed, which a handoff looks at.
Reached(r) ==
    \/ Covered(r) \/ r \in sqQueue
    \/ \E d \in sqOut : d.row = r /\ d.counted
    \/ sqFailed \/ sqUnconfirmed

\* The phase the input is in, and how the rows of an open one are accounted for.
PhaseInv ==
    /\ sqOut \subseteq [row : SqRows, counted : BOOLEAN]
    /\ sqAt # "down" => sqMarker <= sqPhase
    /\ sqOpen => sqAt = "up"
    /\ sqOpen /\ ~LastPhase => \A r \in sqInserted : SqTable[r] = sqPhase => Reached(r)

SqInv == SequenceInv /\ PinInv /\ PhaseInv
=============================================================================
