----------------------------- MODULE CursorReader -----------------------------
(***************************************************************************)
(* SqlxCursorReader: a resumable reader that pages through a table by a    *)
(* cursor column and checkpoints the value up to which the sink has taken  *)
(* everything.  Transactions that write the table commit out of order and  *)
(* their values may interleave or repeat; only PostgreSQL with a readable  *)
(* xmin holds back rows behind an open transaction.  The route settles     *)
(* batches in order, acknowledges part of one, or drops any of them; the   *)
(* process may crash and resume from the checkpoint.  Value 0 stands for   *)
(* "no cursor yet".                                                        *)
(***************************************************************************)
EXTENDS Naturals, Sequences, SequencesExt, FiniteSets, FiniteSetsExt

CONSTANTS
    Rows,           \* rows 1..n in the order of their cursor value
    ValueOf,        \* the cursor value of each
    Txs,            \* transactions, numbered by xid
    TxChoices,      \* which transaction writes each row, one of these
    CrBatch,        \* max_messages
    CrRestarts,     \* bound on crashes
    CrNacks         \* bound on batches that are nacked or dropped

ASSUME CursorBounds ==
    /\ IsFiniteSet(Rows) /\ Rows = 1..Cardinality(Rows)
    /\ Txs \subseteq Nat /\ TxChoices \subseteq [Rows -> Txs]
    /\ CrBatch \in Nat \ {0} /\ CrRestarts \in Nat /\ CrNacks \in Nat
    /\ \A r \in Rows : ValueOf[r] \in Nat \ {0}
    /\ \A r, s \in Rows : r < s => ValueOf[r] <= ValueOf[s]

VARIABLES
    crTxOf,         \* the transaction that writes each row
    crGuarded,      \* commit_order_guard: PostgreSQL and its xmin is readable
    crTx,           \* each transaction: not begun, open, committed
    crLast,         \* CursorPosition.last
    crEpoch,        \* CursorPosition.epoch
    crPage,         \* the page being read: its rows, lower bound and epoch
    crOut,          \* batches handed to the route, in order
    crSink,         \* rows the sink has taken
    crStored,       \* the checkpoint
    crSaving,       \* the value a commit is about to save
    crRestarted,
    crNacked,
    crLate,         \* rows committed when the reader was past their value
    crStranded      \* rows a nack or a drop left behind the position

crTable == <<crTxOf, crGuarded>>
crPassed == <<crLate, crStranded>>
crVars == <<crTable, crTx, crLast, crEpoch, crPage, crOut, crSink, crStored, crSaving, crRestarted, crNacked, crPassed>>

NoPage == [rows |-> {}, from |-> 0, epoch |-> 0]

CrInit ==
    /\ crTxOf \in TxChoices
    /\ crGuarded \in BOOLEAN
    /\ crTx = [t \in Txs |-> "none"]
    /\ crLast = 0
    /\ crEpoch = 0
    /\ crPage = NoPage
    /\ crOut = <<>>
    /\ crSink = {}
    /\ crStored = 0
    /\ crSaving = 0
    /\ crRestarted = 0
    /\ crNacked = 0
    /\ crLate = {}
    /\ crStranded = {}

-----------------------------------------------------------------------------
(* The database *)

\* Transactions take their xids in order and commit in any order.
TxBegins(t) ==
    /\ crTx[t] = "none"
    /\ \A u \in Txs : u < t => crTx[u] # "none"
    /\ crTx' = [crTx EXCEPT ![t] = "open"]
    /\ UNCHANGED <<crTable, crLast, crEpoch, crPage, crOut, crSink, crStored, crSaving, crRestarted, crNacked, crPassed>>

\* The reader will not come to value v any more: its position or the page it is about to
\* hand on lies beyond.
Beyond(v) ==
    v <= crLast \/ (crPage.epoch = crEpoch /\ \E p \in crPage.rows : v <= ValueOf[p])

TxCommits(t) ==
    /\ crTx[t] = "open"
    /\ crTx' = [crTx EXCEPT ![t] = "done"]
    /\ crLate' = crLate \cup {r \in Rows : crTxOf[r] = t /\ Beyond(ValueOf[r])}
    /\ UNCHANGED <<crTable, crLast, crEpoch, crPage, crOut, crSink, crStored, crSaving, crRestarted, crNacked, crStranded>>

Visible == {r \in Rows : crTx[crTxOf[r]] = "done"}

\* The first n rows of S by cursor value.
Window(S, n) == {r \in S : Cardinality({s \in S : s < r}) < n}

\* pg_in_flight_cut: the rows of the window written by a transaction no older than the
\* oldest one still open.
InFlightCut(window) ==
    {r \in window : \E t \in Txs : crTx[t] = "open" /\ t <= crTxOf[r]}

\* fetch_page: up to one row more than the batch, where the guard is on cut before the first
\* row in flight.
FetchPage(from) ==
    LET window == Window({r \in Visible : ValueOf[r] > from}, CrBatch + 1)
    IN  {r \in window : crGuarded => \A s \in InFlightCut(window) : ValueOf[r] < ValueOf[s]}

-----------------------------------------------------------------------------
(* receive_batch *)

\* A page with the peek row leaves out the trailing rows of the peek row's value, so that
\* equal values are not split over two pages.
EmitPage(fetched) ==
    LET peeked == fetched \ Window(fetched, CrBatch)
    IN  {r \in Window(fetched, CrBatch) : \A p \in peeked : ValueOf[r] # ValueOf[p]}

\* Snapshot the position and read a page; a page that is empty is read again later, and a
\* group of equal values larger than a batch stops the route.
CrFetch ==
    /\ crPage = NoPage
    /\ EmitPage(FetchPage(crLast)) # {}
    /\ crPage' = [rows |-> EmitPage(FetchPage(crLast)), from |-> crLast, epoch |-> crEpoch]
    /\ UNCHANGED <<crTable, crTx, crLast, crEpoch, crOut, crSink, crStored, crSaving, crRestarted, crNacked, crPassed>>

\* The page is handed on and the position advances, unless a nack rewound the cursor while
\* it was read.
CrHandOn ==
    /\ crPage # NoPage
    /\ crPage' = NoPage
    /\ IF crPage.epoch = crEpoch
         THEN /\ crLast' = ValueOf[Max(crPage.rows)]
              /\ crOut' = Append(crOut, crPage)
         ELSE UNCHANGED <<crLast, crOut>>
    /\ UNCHANGED <<crTable, crTx, crEpoch, crSink, crStored, crSaving, crRestarted, crNacked, crPassed>>

-----------------------------------------------------------------------------
(* The commit of a batch *)

\* The cursor value a settled batch confirms: that of the last row acknowledged in front.
Boundary(d, acked) == IF acked = {} THEN d.from ELSE ValueOf[Max(acked)]

\* Mutated: a nack does not start a new epoch.
ConfirmSameEpoch(d, acked) ==
    IF d.epoch # crEpoch
      THEN UNCHANGED <<crSaving, crLast, crEpoch>>
      ELSE /\ crSaving' = Boundary(d, acked)
           /\ crLast' = IF acked # d.rows THEN Boundary(d, acked) ELSE crLast
           /\ crEpoch' = crEpoch

\* A batch read before an earlier nack confirms nothing.  One that was not acknowledged
\* whole rewinds the position to its last acknowledged row and starts a new epoch.
Confirm(d, acked) ==
    IF d.epoch # crEpoch
      THEN UNCHANGED <<crSaving, crLast, crEpoch>>
      ELSE /\ crSaving' = Boundary(d, acked)
           /\ IF acked # d.rows
                THEN crLast' = Boundary(d, acked) /\ crEpoch' = crEpoch + 1
                ELSE UNCHANGED <<crLast, crEpoch>>

\* The rows of a batch the sink took in front, before the first it failed; the next may
\* have the value of the last one.
Fronts(d) == {acked \in SUBSET d.rows : \A r \in acked, s \in d.rows \ acked : r < s}

\* The route settles the oldest batch: the sink took the rows in front and perhaps some
\* behind a failed one.  A failed row with the value of the boundary lies behind it.
CrCommit ==
    /\ crOut # <<>>
    /\ crSaving = 0
    /\ LET d == Head(crOut)
       IN  \E acked \in Fronts(d) :
            /\ acked # d.rows => crNacked < CrNacks
            /\ crNacked' = IF acked # d.rows THEN crNacked + 1 ELSE crNacked
            /\ \E behind \in SUBSET {r \in d.rows \ acked : \E s \in d.rows \ acked : s < r} :
                    crSink' = crSink \cup acked \cup behind
            /\ Confirm(d, acked)
            /\ crStranded' = crStranded \cup
                    {r \in d.rows \ acked : d.epoch = crEpoch /\ ValueOf[r] <= Boundary(d, acked)}
    /\ crOut' = Tail(crOut)
    /\ UNCHANGED <<crTable, crTx, crPage, crStored, crRestarted, crLate>>

\* The checkpoint is saved, or that fails with a warning.
CrSave ==
    /\ crSaving # 0
    /\ crStored' \in {crStored, crSaving}
    /\ crSaving' = 0
    /\ UNCHANGED <<crTable, crTx, crLast, crEpoch, crPage, crOut, crSink, crRestarted, crNacked, crPassed>>

\* Rows of the batches before the i-th that could move the position.
OpenBefore(i) == UNION {crOut[j].rows : j \in {k \in 1..(i - 1) : crOut[k].epoch = crEpoch}}

\* A batch is dropped without a commit, in any order: its rows are read again, unless an
\* earlier nack has them read again already.  Batches read before it and still open are of
\* an older epoch from now on, and the position stays beyond them.
CrDrop(i) ==
    /\ crNacked < CrNacks
    /\ crNacked' = crNacked + 1
    /\ IF crOut[i].epoch = crEpoch
         THEN /\ crLast' = crOut[i].from
              /\ crEpoch' = crEpoch + 1
              /\ crStranded' = crStranded \cup OpenBefore(i)
         ELSE UNCHANGED <<crLast, crEpoch, crStranded>>
    /\ crOut' = RemoveAt(crOut, i)
    /\ UNCHANGED <<crTable, crTx, crPage, crSink, crStored, crSaving, crRestarted, crLate>>

\* The process crashes, or the route reconnects: a new reader resumes from the checkpoint,
\* and reads whatever lies beyond it.
CrRestart ==
    /\ crRestarted < CrRestarts
    /\ crRestarted' = crRestarted + 1
    /\ crLast' = crStored
    /\ crEpoch' = 0
    /\ crPage' = NoPage
    /\ crOut' = <<>>
    /\ crSaving' = 0
    /\ crLate' = {r \in crLate : ValueOf[r] <= crStored}
    /\ crStranded' = {r \in crStranded : ValueOf[r] <= crStored}
    /\ UNCHANGED <<crTable, crTx, crSink, crStored, crNacked>>

CrRead == CrFetch \/ CrHandOn
CrSettle == CrCommit \/ CrSave

CrNext ==
    \/ \E t \in Txs : TxBegins(t) \/ TxCommits(t)
    \/ CrRead \/ CrSettle \/ CrRestart
    \/ \E i \in DOMAIN crOut : CrDrop(i)

CrSpec == CrInit /\ [][CrNext]_crVars

\* Open transactions end, the reader polls and the route settles what it got.
CrFairness ==
    /\ WF_crVars(CrRead) /\ WF_crVars(CrSettle)
    /\ \A t \in Txs : WF_crVars(TxCommits(t))

-----------------------------------------------------------------------------
(* Properties *)

Pages == [rows : SUBSET Rows, from : Nat, epoch : Nat]

\* The types of the variables.
CrTypeOK ==
    /\ crTxOf \in TxChoices /\ crGuarded \in BOOLEAN
    /\ crTx \in [Txs -> {"none", "open", "done"}]
    /\ crLast \in Nat /\ crStored \in Nat /\ crSaving \in Nat /\ crEpoch \in Nat
    /\ crPage \in Pages
    /\ crOut \in Seq(Pages)
    /\ crSink \subseteq Rows
    /\ crRestarted \in 0..CrRestarts /\ crNacked \in 0..CrNacks
    /\ crLate \subseteq Rows /\ crStranded \subseteq Rows

\* Rows of batches whose commit can still move the position.
Pending == UNION {crOut[i].rows : i \in {j \in DOMAIN crOut : crOut[j].epoch = crEpoch}}

\* Rows the reader may leave out: committed when it was past them, tied with the boundary of
\* a nack, or in a batch that was open when a later one was dropped.
Forgone == crLate \cup crStranded

\* No other row is skipped: what the reader's position has passed is with the sink or in a
\* batch that is still to be settled, however pages are read while the cursor is rewound.
NoRowSkipped ==
    \A r \in Visible : ValueOf[r] <= crLast => r \in crSink \cup Pending \cup Forgone

\* The checkpoint passes no other row the sink does not have: a crash loses nothing more.
CheckpointSafe ==
    \A r \in Visible : ValueOf[r] <= crStored \/ ValueOf[r] <= crSaving => r \in crSink \cup Forgone

\* Later transactions write greater values.
TxOrdered == \A r, s \in Rows : crTxOf[r] < crTxOf[s] => ValueOf[r] < ValueOf[s]

\* What pg_in_flight_cut is for: with the guard on, and values that follow the transactions,
\* no row commits behind the reader, in whatever order the transactions commit.
GuardHoldsBack == crGuarded /\ TxOrdered => crLate = {}

\* What the reader keeps true of its position and its checkpoint.
CursorReaderInv == CrTypeOK /\ NoRowSkipped /\ CheckpointSafe /\ GuardHoldsBack

\* Every other committed row reaches the sink, although batches are nacked and dropped,
\* pages are read while the cursor is rewound, and the reader restarts.
RowsArrive == <>[](Visible \subseteq crSink \cup Forgone)

-----------------------------------------------------------------------------
(* What keeps CursorReaderInv *)

\* A transaction that has begun has every older one begun before it.
BegunInOrder == \A t, u \in Txs : crTx[t] # "none" /\ u < t => crTx[u] # "none"

\* A page holds every row from its lower bound up to any row of it, but for late ones.
WholePage(d) ==
    /\ d.rows # {}
    /\ \A p \in d.rows : d.from < ValueOf[p]
    /\ \A r \in Visible, p \in d.rows :
            d.from < ValueOf[r] /\ ValueOf[r] <= ValueOf[p] => r \in d.rows \cup crLate

\* The page being read is complete and starts at the position, unless that was rewound.
PageInv ==
    crPage # NoPage =>
        /\ crPage.rows # {} /\ crPage.epoch <= crEpoch
        /\ crPage.epoch = crEpoch => WholePage(crPage) /\ crPage.from = crLast

\* The batches that can move the position lie between the checkpoint and the position, one
\* behind the other.
PositionInv ==
    /\ crStored <= crLast /\ crSaving <= crLast
    /\ \A i \in DOMAIN crOut : crOut[i].epoch = crEpoch =>
        /\ crStored <= crOut[i].from /\ crSaving <= crOut[i].from
        /\ \A p \in crOut[i].rows :
            /\ ValueOf[p] <= crLast
            /\ \A j \in DOMAIN crOut : i < j /\ crOut[j].epoch = crEpoch => ValueOf[p] <= crOut[j].from

\* Up to the lower bound of a batch that can move the position, the sink has every row but
\* the ones forgone, or an earlier such batch carries it.
BatchesInv ==
    \A i \in DOMAIN crOut :
        /\ crOut[i].rows # {} /\ crOut[i].epoch <= crEpoch
        /\ crOut[i].epoch = crEpoch =>
             /\ WholePage(crOut[i])
             /\ \A r \in Visible : ValueOf[r] <= crOut[i].from => r \in crSink \cup OpenBefore(i) \cup Forgone

\* With the guard and ordered transactions, all that lies behind the reader is committed.
SettledBehind == crGuarded /\ TxOrdered => \A r \in Rows : Beyond(ValueOf[r]) => r \in Visible

CrInv == CursorReaderInv /\ BegunInOrder /\ PageInv /\ PositionInv /\ BatchesInv /\ SettledBehind
=============================================================================
