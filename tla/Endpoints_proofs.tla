-------------------------- MODULE Endpoints_proofs --------------------------
(***************************************************************************)
(* What the endpoints keep true, proved for any tables, batches,           *)
(* destinations and capacities, and any number of restarts and faults.     *)
(***************************************************************************)
EXTENDS SequenceInput, CursorReader, MemoryQueue, Fanout, FiniteSetTheorems, WellFoundedInduction,
        NaturalsInduction, TLAPS

-----------------------------------------------------------------------------
(* The sequence input *)

LEMMA SequenceStarts == SqInit => SqInv
<1>. USE SequenceBounds
<1>1. ASSUME SqInit PROVE SqTypeOK /\ PinInv
  BY <1>1 DEF SqInit, SqTypeOK, PinInv
<1>2. ASSUME SqInit PROVE MarkerSkipsNothing /\ HandoffSkipsNothing /\ PhaseInv
  BY <1>2 DEF SqInit, MarkerSkipsNothing, HandoffSkipsNothing, PhaseInv
<1>3. QED BY <1>1, <1>2 DEF SqInv, SequenceInv

\* The rows that come into being, and those the route receives.
LEMMA SequenceRows ==
    ASSUME SqInv, NEW r \in SqRows, SqInsert(r) \/ SqReceive(r) PROVE SqInv'
<1>. USE SequenceBounds
<1>1. CASE SqInsert(r)
  <2>1. sqPinned => sqStream' = sqStream \cup {r}
    BY <1>1 DEF SqInsert
  <2>2. sqStream \subseteq sqStream' /\ sqInserted' = sqInserted \cup {r}
    BY <1>1 DEF SqInsert
  <2>3. UNCHANGED <<sqPinned, sqMarker, sqAt, sqPhase, sqOpen, sqQueue, sqOut, sqFailed,
                   sqUnconfirmed, sqAcked>>
    BY <1>1 DEF SqInsert
  <2>4. sqStream' \subseteq sqStream \cup {r}
    BY <1>1 DEF SqInsert
  <2>5. SqTypeOK' /\ PinInv'
    BY <2>2, <2>3, <2>4 DEF SqInv, SequenceInv, SqTypeOK, PinInv
  <2>6. MarkerSkipsNothing' /\ HandoffSkipsNothing'
    BY <2>1, <2>2, <2>3
      DEF SqInv, SequenceInv, SqTypeOK, PinInv, MarkerSkipsNothing, HandoffSkipsNothing, Covered
  <2>7. PhaseInv'
    BY <2>1, <2>2, <2>3
      DEF SqInv, SequenceInv, SqTypeOK, PinInv, PhaseInv, Covered, Reached, LastPhase
  <2>8. QED BY <2>5, <2>6, <2>7 DEF SqInv, SequenceInv
<1>2. CASE SqReceive(r)
  <2>1. UNCHANGED <<sqStore, sqAt, sqPhase, sqOpen, sqFailed, sqUnconfirmed, sqAcked>>
    BY <1>2 DEF SqReceive
  <2>2. PICK d \in [row : SqRows, counted : BOOLEAN] :
            /\ sqOut' = sqOut \cup {d}
            /\ d.row = r
            /\ ~LastPhase => d.counted
    <3>. DEFINE d == [row |-> r, counted |-> ~LastPhase]
    <3>1. d \in [row : SqRows, counted : BOOLEAN] /\ d.row = r /\ (~LastPhase => d.counted)
      OBVIOUS
    <3>2. QED BY <3>1, <1>2 DEF SqReceive
  <2>3. sqAt = "up" /\ sqOpen /\ r \in sqQueue /\ sqQueue' = sqQueue \ {r}
    BY <1>2 DEF SqReceive
  <2>4. SqTypeOK' /\ PinInv' /\ MarkerSkipsNothing' /\ HandoffSkipsNothing'
    BY <2>1, <2>2, <2>3
      DEF SqInv, SequenceInv, SqTypeOK, PinInv, MarkerSkipsNothing, HandoffSkipsNothing, Covered,
          sqStore
  <2>5. PhaseInv'
    BY <2>1, <2>2, <2>3
      DEF SqInv, SequenceInv, SqTypeOK, PhaseInv, Covered, Reached, LastPhase, sqStore
  <2>6. QED BY <2>4, <2>5 DEF SqInv, SequenceInv
<1>3. QED BY <1>1, <1>2

\* The route settles a delivery.
LEMMA SequenceSettles ==
    ASSUME SqInv, NEW d \in sqOut, SqSettleClean(d) \/ SqSettleFailed(d) PROVE SqInv'
<1>. USE SequenceBounds
<1>1. d.row \in SqRows /\ d.counted \in BOOLEAN
  BY DEF SqInv, SequenceInv, SqTypeOK
<1>2. /\ UNCHANGED <<sqStore, sqAt, sqPhase, sqOpen, sqUnconfirmed>>
      /\ sqOut' = sqOut \ {d}
      /\ sqAcked \subseteq sqAcked' /\ sqAcked' \subseteq SqRows
      /\ sqQueue \subseteq sqQueue' /\ sqQueue' \subseteq SqRows
      /\ sqFailed => sqFailed'
      /\ d.counted => (sqFailed' \/ d.row \in sqAcked')
  <2>1. CASE SqSettleClean(d)
    BY <2>1, <1>1 DEF SqSettleClean, SqInv, SequenceInv, SqTypeOK
  <2>2. CASE SqSettleFailed(d)
    BY <2>2, <1>1 DEF SqSettleFailed, SqInv, SequenceInv, SqTypeOK
  <2>3. QED BY <2>1, <2>2
<1>3. SqTypeOK' /\ PinInv' /\ MarkerSkipsNothing' /\ HandoffSkipsNothing'
  BY <1>2
    DEF SqInv, SequenceInv, SqTypeOK, PinInv, MarkerSkipsNothing, HandoffSkipsNothing, Covered,
        sqStore
<1>4. PhaseInv'
  BY <1>2 DEF SqInv, SequenceInv, SqTypeOK, PhaseInv, Covered, Reached, LastPhase, sqStore
<1>5. QED BY <1>3, <1>4 DEF SqInv, SequenceInv

\* A phase is left without doubt: what it has not acknowledged the stream retains.
LEMMA HandoffCovers ==
    ASSUME SqInv, PhaseDrained, InDoubt = {}, ~sqFailed, ~sqUnconfirmed
    PROVE  \A r \in sqInserted : SqTable[r] = sqPhase => Covered(r)
BY DEF SqInv, PhaseInv, PhaseDrained, InDoubt, Reached

\* The steps of the handoff.
LEMMA SequenceHandsOff ==
    ASSUME SqInv, SqHandOff \/ SqPollAgain \/ SqTimeout \/ SqCloseDropped PROVE SqInv'
<1>. USE SequenceBounds
<1>1. /\ UNCHANGED <<sqStore, sqQueue, sqAcked>>
      /\ PhaseDrained
      /\ sqUnconfirmed => sqUnconfirmed'
    BY DEF SqHandOff, SqPollAgain, SqTimeout, SqCloseDropped
<1>2. /\ sqOut' \subseteq [row : SqRows, counted : BOOLEAN]
      /\ \A d \in sqOut' : d.row \in SqRows /\ d.counted \in BOOLEAN
  <2>1. CASE SqTimeout
    BY <2>1 DEF SqTimeout, SqInv, PhaseInv
  <2>2. CASE sqOut' = sqOut
    BY <2>2 DEF SqInv, PhaseInv
  <2>3. QED BY <2>1, <2>2 DEF SqHandOff, SqPollAgain, SqCloseDropped
<1>3. \/ sqAt' = "up" /\ sqPhase' = sqPhase /\ (sqOpen' => sqUnconfirmed')
      \/ /\ sqAt' = "saving" /\ sqPhase' = sqPhase + 1 /\ ~sqOpen'
         /\ sqUnconfirmed' \/ (InDoubt = {} /\ ~sqFailed)
  BY <1>1 DEF SqHandOff, SqPollAgain, SqTimeout, SqCloseDropped, Advance, PhaseDrained
<1>4. SqTypeOK' /\ PinInv' /\ MarkerSkipsNothing'
  BY <1>1, <1>2, <1>3
    DEF SqInv, SequenceInv, SqTypeOK, PinInv, PhaseInv, MarkerSkipsNothing, Covered, sqStore, PhaseDrained,
        LastPhase
<1>5. PhaseInv'
  BY <1>1, <1>2, <1>3
    DEF SqInv, SequenceInv, SqTypeOK, PhaseInv, Reached, LastPhase, sqStore, PhaseDrained
<1>6. HandoffSkipsNothing'
  <2>1. ASSUME NEW r \in sqInserted, SqTable[r] < sqPhase', ~Covered(r)
        PROVE  sqUnconfirmed' /\ sqMarker <= SqTable[r]
    <3>1. sqAt = "up" /\ sqMarker <= sqPhase /\ r \in SqRows
          /\ sqPhase \in Nat /\ sqMarker \in Nat /\ SqTable[r] \in Nat
      BY <1>1 DEF PhaseDrained, SqInv, SequenceInv, SqTypeOK, PhaseInv
    <3>2. CASE SqTable[r] < sqPhase
      BY <2>1, <3>1, <3>2, <1>1 DEF SqInv, SequenceInv, HandoffSkipsNothing
    <3>3. CASE SqTable[r] = sqPhase
      BY <2>1, <3>1, <3>3, <1>1, <1>3, HandoffCovers
    <3>4. QED BY <2>1, <3>1, <3>2, <3>3, <1>3
  <2>2. QED BY <2>1, <1>1 DEF HandoffSkipsNothing, Covered, sqStore
<1>7. QED BY <1>4, <1>5, <1>6 DEF SqInv, SequenceInv

\* A start, a marker that is stored and the end of the process.
LEMMA SequenceRuns ==
    ASSUME SqInv, SqNew \/ SqOpenPhase \/ SqSave \/ SqRestart PROVE SqInv'
<1>. USE SequenceBounds
<1>1. CASE SqNew
  <2>1. /\ UNCHANGED <<sqInserted, sqStream, sqMarker, sqQueue, sqOut, sqAcked>>
        /\ sqAt' = "up" /\ sqPhase' = sqMarker /\ ~sqOpen'
        /\ sqPinned \/ sqMarker < SqPhases => sqPinned'
    BY <1>1 DEF SqNew
  <2>2. QED BY <2>1
    DEF SqInv, SequenceInv, SqTypeOK, PinInv, PhaseInv, MarkerSkipsNothing, HandoffSkipsNothing,
        Covered
<1>2. CASE SqOpenPhase
  <2>1. SqTypeOK' /\ PinInv' /\ MarkerSkipsNothing' /\ HandoffSkipsNothing'
    BY <1>2
      DEF SqOpenPhase, SqInv, SequenceInv, SqTypeOK, PinInv, MarkerSkipsNothing, HandoffSkipsNothing,
          Covered, sqStore
  <2>2. PhaseInv'
    BY <1>2 DEF SqOpenPhase, SqInv, PhaseInv, Reached, Covered, LastPhase, sqStore
  <2>3. QED BY <2>1, <2>2 DEF SqInv, SequenceInv
<1>3. CASE SqSave
  <2>1. /\ UNCHANGED <<sqInserted, sqStream, sqPinned, sqPhase, sqOpen, sqQueue, sqOut, sqFailed,
                       sqUnconfirmed, sqAcked>>
        /\ sqAt = "saving" /\ sqAt' = "up"
        /\ sqMarker' = sqMarker \/ (~sqUnconfirmed /\ sqMarker' = sqPhase)
    BY <1>3 DEF SqSave
  <2>2. QED
    BY <2>1
      DEF SqInv, SequenceInv, SqTypeOK, PinInv, PhaseInv, MarkerSkipsNothing, HandoffSkipsNothing, Covered
<1>4. CASE SqRestart
  BY <1>4
    DEF SqRestart, SqInv, SequenceInv, SqTypeOK, PinInv, PhaseInv, MarkerSkipsNothing,
        HandoffSkipsNothing, Covered, sqStore
<1>5. QED BY <1>1, <1>2, <1>3, <1>4

\* SequenceConsumer: however many phases, rows, failed deliveries, time-outs and restarts

\* there are, a row behind the marker or behind a phase left without doubt has been
\* acknowledged or is retained by the stream, and after a doubt the marker stays.
THEOREM SequenceGapless == SqSpec => []SequenceInv
<1>1. ASSUME SqInv, [SqNext]_sqVars PROVE SqInv'
  <2>1. CASE SqNext
    BY <1>1, <2>1, SequenceRows, SequenceSettles, SequenceHandsOff, SequenceRuns DEF SqNext
  <2>2. CASE UNCHANGED sqVars
    BY <1>1, <2>2
      DEF sqVars, sqStore, SqInv, SequenceInv, SqTypeOK, PinInv, PhaseInv, MarkerSkipsNothing,
          HandoffSkipsNothing, Covered, Reached, LastPhase
  <2>3. QED BY <1>1, <2>1, <2>2
<1>2. SqInv => SequenceInv
  BY DEF SqInv
<1>3. QED BY <1>1, <1>2, SequenceStarts, PTL DEF SqSpec

-----------------------------------------------------------------------------
(* The cursor reader *)

\* A set of numbers has a least one.
LEMMA LeastRow ==
    ASSUME NEW S \in SUBSET Nat, S # {}
    PROVE  \E n \in S : \A m \in S : n <= m
<1>1. \E x \in S : \A y \in S : ~(<<y, x>> \in OpToRel(<, Nat))
  BY NatLessThanWellFounded, WFMin
<1>2. PICK x \in S : \A y \in S : ~(<<y, x>> \in OpToRel(<, Nat))
  BY <1>1
<1>3. ASSUME NEW y \in S PROVE x <= y
  <2>1. <<y, x>> \in Nat \X Nat /\ <<y, x>>[1] = y /\ <<y, x>>[2] = x
    OBVIOUS
  <2>2. ~(y < x)
    BY <1>2, <2>1 DEF OpToRel
  <2>3. QED BY <2>2
<1>4. QED BY <1>2, <1>3

\* Rows are numbers, finitely many.
LEMMA RowsFinite ==
    /\ Rows \in SUBSET Nat /\ Cardinality(Rows) \in Nat /\ \A r \in Rows : r <= Cardinality(Rows)
    /\ \A S \in SUBSET Rows : /\ IsFiniteSet(S) /\ Cardinality(S) \in Nat
                              /\ \A T \in SUBSET S : Cardinality(T) <= Cardinality(S)
<1>1. IsFiniteSet(Rows) /\ Rows = 1..Cardinality(Rows)
  BY CursorBounds
<1>2. Cardinality(Rows) \in Nat
  BY <1>1, FS_CardinalityType
<1>3. ASSUME NEW S \in SUBSET Rows PROVE IsFiniteSet(S) /\ Cardinality(S) \in Nat
  BY <1>1, FS_Subset, FS_CardinalityType
<1>4. ASSUME NEW S \in SUBSET Rows, NEW T \in SUBSET S PROVE Cardinality(T) <= Cardinality(S)
  BY <1>3, FS_Subset
<1>5. QED BY <1>1, <1>2, <1>3, <1>4

\* Some rows have a last one.
LEMMA LastRow ==
    ASSUME NEW S \in SUBSET Rows, S # {}
    PROVE  Max(S) \in S /\ \A r \in S : r <= Max(S)
<1>. DEFINE n == Cardinality(Rows)
            left == {n - r : r \in S}
<1>1. n \in Nat /\ S \in SUBSET Nat /\ \A r \in S : r <= n
  BY RowsFinite
<1>. HIDE DEF n
<1>2. left \in SUBSET Nat /\ left # {}
  <2>1. \A r \in S : n - r \in Nat
    BY <1>1
  <2>2. QED BY <2>1
<1>3. PICK k \in left : \A m \in left : k <= m
  BY <1>2, LeastRow
<1>4. PICK x \in S : k = n - x
  BY <1>3
<1>5. \A r \in S : r <= x
  <2>1. TAKE r \in S
  <2>2. n - x <= n - r
    BY <1>3, <1>4
  <2>3. QED BY <1>1, <1>4, <2>2
<1>6. \E y \in S : \A r \in S : y >= r
  BY <1>1, <1>4, <1>5
<1>7. Max(S) \in S /\ \A r \in S : Max(S) >= r
  BY <1>6 DEF Max
<1>8. QED BY <1>1, <1>7

\* How many rows of S come before r, which is what a window counts.
Below(S, r) == Cardinality({s \in S : s < r})

LEMMA BelowGrows ==
    ASSUME NEW S \in SUBSET Rows, NEW r \in Rows, NEW q \in Rows, r <= q
    PROVE  Below(S, r) \in Nat /\ Below(S, q) \in Nat /\ Below(S, r) <= Below(S, q)
<1>1. /\ {s \in S : s < q} \in SUBSET Rows /\ {s \in S : s < r} \in SUBSET Rows
      /\ {s \in S : s < r} \in SUBSET {s \in S : s < q}
  <2>1. \A s \in S : s \in Nat /\ r \in Nat /\ q \in Nat
    BY RowsFinite
  <2>2. \A s \in S : s < r => s < q
    BY <2>1
  <2>3. QED BY <2>2
<1>2. QED BY <1>1, RowsFinite DEF Below

\* A row with n or more before it has a row of the same set at or before it that has

\* exactly n: the peek row of a page that has more behind it.
LEMMA PeekFound ==
    ASSUME NEW S \in SUBSET Rows, NEW r \in S, NEW n \in Nat, Below(S, r) >= n
    PROVE  \E q \in S : q <= r /\ Below(S, q) = n
<1>. DEFINE late == {x \in S : Below(S, x) >= n}
<1>1. S \in SUBSET Nat /\ late \in SUBSET Nat /\ r \in late
  BY RowsFinite
<1>2. PICK q \in late : \A m \in late : q <= m
  BY <1>1, LeastRow
<1>3. q \in S /\ q <= r /\ Below(S, q) >= n /\ Below(S, q) \in Nat
  BY <1>1, <1>2, BelowGrows
<1>. DEFINE before == {s \in S : s < q}
<1>4. before \in SUBSET Rows
  OBVIOUS
<1>5. CASE before = {}
  <2>1. Below(S, q) = 0
    BY <1>5, FS_EmptySet DEF Below
  <2>2. QED BY <1>3, <2>1
<1>6. CASE before # {}
  <2>. DEFINE m == Max(before)
              less == {s \in S : s < m}
  <2>1. m \in before /\ \A s \in before : s <= m
    BY <1>4, <1>6, LastRow
  <2>. HIDE DEF m
  <2>2. m \in S /\ m < q /\ m \notin late
    BY <1>1, <1>2, <2>1
  <2>3. Below(S, m) < n
    <3>1. Below(S, m) \in Nat
      BY <2>2, BelowGrows, RowsFinite
    <3>2. QED BY <2>2, <3>1
  <2>4. before = less \cup {m} /\ m \notin less
    <3>1. \A s \in before : s \in less \cup {m}
      BY <1>1, <2>1
    <3>2. \A s \in less : s \in before
      BY <1>1, <1>3, <2>2
    <3>3. m \notin less /\ m \in before
      BY <1>1, <2>1, <2>2
    <3>. HIDE DEF less, before
    <3>4. QED BY <3>1, <3>2, <3>3
  <2>5. IsFiniteSet(less) /\ Cardinality(less) = Below(S, m)
    BY RowsFinite DEF Below
  <2>6. Below(S, q) = Below(S, m) + 1
    <3>1. Cardinality(less \cup {m}) = Cardinality(less) + 1
      BY <2>4, <2>5, FS_AddElement
    <3>2. QED BY <2>4, <2>5, <3>1 DEF Below
  <2>7. Below(S, m) \in Nat
    BY <2>2, BelowGrows, RowsFinite
  <2>8. QED BY <1>3, <2>3, <2>6, <2>7
<1>7. QED BY <1>5, <1>6

\* A page read holds every committed row from its lower bound up to any row of it: rows of
\* equal value are on one side of the peek row, and on one side of the cut.
LEMMA PageComplete ==
    ASSUME CrTypeOK, NEW from \in Nat
    PROVE  /\ EmitPage(FetchPage(from)) \subseteq Rows
           /\ \A p \in EmitPage(FetchPage(from)) :
                /\ from < ValueOf[p]
                /\ \A r \in Visible : from < ValueOf[r] /\ ValueOf[r] <= ValueOf[p] =>
                                      r \in EmitPage(FetchPage(from))
<1>. DEFINE S == {r \in Visible : ValueOf[r] > from}
            window == Window(S, CrBatch + 1)
            cut == InFlightCut(window)
            fetched == FetchPage(from)
            emitted == Window(fetched, CrBatch)
            peeked == fetched \ emitted
            page == EmitPage(fetched)
<1>0. /\ Rows \in SUBSET Nat /\ CrBatch \in Nat
      /\ \A r \in Rows : ValueOf[r] \in Nat
      /\ \A r, s \in Rows : r < s => ValueOf[r] <= ValueOf[s]
  BY CursorBounds, RowsFinite
<1>1. S \subseteq Rows /\ Visible \subseteq Rows /\ \A r \in Visible : ValueOf[r] > from => r \in S
  BY DEF Visible
<1>2. \A r : r \in window <=> r \in S /\ Below(S, r) < CrBatch + 1
  BY DEF Window, Below
<1>3. \A r : r \in fetched <=> r \in window /\ (crGuarded => \A s \in cut : ValueOf[r] < ValueOf[s])
  BY DEF FetchPage
<1>4. cut \subseteq window
  BY DEF InFlightCut
<1>5. \A r : r \in emitted <=> r \in fetched /\ Below(fetched, r) < CrBatch
  BY DEF Window, Below
<1>6. \A r : r \in page <=> r \in emitted /\ \A p \in peeked : ValueOf[r] # ValueOf[p]
  BY DEF EmitPage
<1>7. page \subseteq fetched /\ fetched \subseteq window /\ window \subseteq S
  BY <1>2, <1>3, <1>5, <1>6
<1>. HIDE DEF S, window, cut, fetched, emitted, peeked, page
<1>8. \* Below a fetched row, the page and the table have the same rows.
      ASSUME NEW p \in fetched, NEW s \in S, s <= p \/ ValueOf[s] = ValueOf[p], s \in window
      PROVE  s \in fetched
  <2>1. p \in Rows /\ s \in Rows
    BY <1>1, <1>7
  <2>2. ValueOf[s] <= ValueOf[p] /\ ValueOf[s] \in Nat /\ ValueOf[p] \in Nat
    BY <1>0, <1>8, <2>1
  <2>3. crGuarded => \A c \in cut : ValueOf[s] < ValueOf[c]
    <3>0. HAVE crGuarded
    <3>1. TAKE c \in cut
    <3>2. c \in Rows /\ ValueOf[c] \in Nat
      BY <1>0, <1>1, <1>4, <1>7
    <3>3. ValueOf[p] < ValueOf[c]
      BY <1>3, <3>0
    <3>4. QED BY <2>2, <3>2, <3>3
  <2>4. QED BY <1>3, <1>8, <2>3
<1>9. ASSUME NEW p \in fetched, NEW s \in S, s <= p PROVE s \in fetched
  <2>1. Below(S, s) <= Below(S, p) /\ Below(S, s) \in Nat /\ Below(S, p) \in Nat
    BY <1>1, <1>7, <1>9, BelowGrows
  <2>2. s \in window
    BY <1>0, <1>2, <1>7, <2>1
  <2>3. QED BY <1>8, <1>9, <2>2
<1>10. ASSUME NEW p \in fetched PROVE Below(fetched, p) = Below(S, p)
  <2>1. p \in Nat /\ \A s \in S : s \in Nat
    BY <1>0, <1>1, <1>7
  <2>2. {s \in fetched : s < p} = {s \in S : s < p}
    <3>1. \A s \in S : s < p => s \in fetched
      BY <1>9, <2>1
    <3>2. \A s \in fetched : s \in S
      BY <1>7
    <3>3. QED BY <3>1, <3>2
  <2>3. QED BY <2>2 DEF Below
<1>11. SUFFICES ASSUME NEW p \in page, NEW r \in Visible, from < ValueOf[r], ValueOf[r] <= ValueOf[p]
                PROVE  r \in page
  <2>1. page \subseteq Rows /\ \A p \in page : from < ValueOf[p]
    <3>1. \A p \in S : from < ValueOf[p] /\ p \in Rows
      BY <1>0, <1>1 DEF S
    <3>2. QED BY <1>7, <3>1
  <2>2. QED BY <1>11, <2>1 DEF page, fetched
<1>12. /\ p \in Rows /\ p \in fetched /\ p \in window /\ p \in S /\ p \in Nat /\ r \in Nat /\ r \in Rows
       /\ Below(S, p) < CrBatch /\ Below(S, p) \in Nat /\ \A q \in peeked : ValueOf[p] # ValueOf[q]
  BY <1>0, <1>1, <1>5, <1>6, <1>7, <1>10, BelowGrows
<1>13. r \in S /\ r \in Rows
  BY <1>0, <1>1, <1>11
<1>14. ASSUME NEW q \in fetched, Below(S, q) >= CrBatch PROVE q \in peeked /\ p < q
  <2>1. q \in Rows /\ q \in Nat /\ Below(S, q) \in Nat
    BY <1>0, <1>1, <1>7, BelowGrows
  <2>2. q \in peeked
    BY <1>0, <1>5, <1>10, <1>14, <2>1 DEF peeked
  <2>3. ~(q <= p)
    BY <1>0, <1>1, <1>12, <1>14, <2>1, BelowGrows
  <2>4. QED BY <1>12, <2>1, <2>2, <2>3
<1>15. r \in window
  <2>1. SUFFICES ASSUME Below(S, r) >= CrBatch + 1 PROVE FALSE
    <3>1. Below(S, r) \in Nat
      BY <1>1, BelowGrows, <1>12
    <3>2. QED BY <1>0, <1>2, <1>13, <2>1, <3>1
  <2>2. Below(S, r) \in Nat /\ Below(S, r) >= CrBatch
    BY <1>0, <1>1, <1>12, <2>1, BelowGrows
  <2>3. PICK q \in S : q <= r /\ Below(S, q) = CrBatch
    BY <1>0, <1>1, <1>13, <2>2, PeekFound
  <2>4. q \in Rows /\ q \in Nat /\ q \in window
    BY <1>0, <1>1, <1>2, <2>3
  <2>5. ~(q <= p)
    BY <1>0, <1>1, <1>12, <2>3, <2>4, BelowGrows
  <2>6. ValueOf[q] = ValueOf[p]
    <3>1. ValueOf[p] <= ValueOf[q]
      BY <1>0, <1>12, <2>4, <2>5
    <3>2. ValueOf[q] <= ValueOf[r]
      BY <1>0, <1>12, <2>3, <2>4
    <3>3. QED BY <1>0, <1>11, <1>12, <2>4, <3>1, <3>2
  <2>7. q \in fetched
    BY <1>8, <1>12, <2>3, <2>4, <2>6
  <2>8. QED BY <1>0, <1>12, <1>14, <2>3, <2>6, <2>7
<1>16. r \in fetched
  <2>1. CASE r <= p BY <1>9, <1>12, <1>13, <2>1
  <2>2. CASE p < r
    <3>1. ValueOf[r] = ValueOf[p]
      BY <1>0, <1>11, <1>12, <2>2
    <3>2. QED BY <1>8, <1>12, <1>13, <1>15, <3>1
  <2>3. QED BY <1>12, <2>1, <2>2
<1>17. \A q \in peeked : ValueOf[r] # ValueOf[q]
  <2>1. SUFFICES ASSUME NEW q \in peeked, ValueOf[r] = ValueOf[q] PROVE FALSE
    OBVIOUS
  <2>2. q \in fetched /\ q \in Rows /\ q \notin emitted
    BY <1>1, <1>7 DEF peeked
  <2>3. Below(S, q) >= CrBatch
    BY <1>0, <1>1, <1>5, <1>10, <2>2, BelowGrows
  <2>4. p < q
    BY <1>14, <2>2, <2>3
  <2>5. ValueOf[p] <= ValueOf[q]
    BY <1>0, <1>12, <2>2, <2>4
  <2>6. ValueOf[p] = ValueOf[q]
    BY <1>0, <1>11, <1>12, <2>1, <2>2, <2>5
  <2>7. QED BY <1>12, <2>6
<1>18. r \in emitted
  BY <1>16, <1>17 DEF peeked
<1>19. QED BY <1>6, <1>17, <1>18

\* With the guard on and values that follow the transactions, all that a page passes is
\* committed: a row in between was written by a transaction no younger than that of the
\* row behind it; had it not committed, its transaction would be open and the page cut.
LEMMA PageSettled ==
    ASSUME CrTypeOK, BegunInOrder, crGuarded, TxOrdered, NEW from \in Nat,
           NEW p \in EmitPage(FetchPage(from)), NEW r \in Rows, ValueOf[r] <= ValueOf[p]
    PROVE  r \in Visible
<1>. DEFINE window == Window({s \in Visible : ValueOf[s] > from}, CrBatch + 1)
            cut == InFlightCut(window)
<1>0. /\ \A s \in Rows : ValueOf[s] \in Nat /\ crTxOf[s] \in Nat /\ crTxOf[s] \in Txs
      /\ \A t \in Txs : t \in Nat /\ crTx[t] \in {"none", "open", "done"}
  BY CursorBounds DEF CrTypeOK
<1>1. p \in FetchPage(from)
  BY DEF EmitPage, Window
<1>2. p \in window /\ \A s \in cut : ValueOf[p] < ValueOf[s]
  BY <1>1 DEF FetchPage
<1>3. p \in Rows /\ crTx[crTxOf[p]] = "done"
  BY <1>2 DEF Window, Visible
<1>4. p \notin cut
  BY <1>0, <1>2, <1>3
<1>5. ~ \E t \in Txs : crTx[t] = "open" /\ t <= crTxOf[p]
  BY <1>2, <1>4 DEF InFlightCut
<1>6. crTxOf[r] <= crTxOf[p]
  BY <1>0, <1>3 DEF TxOrdered
<1>7. crTx[crTxOf[r]] # "open"
  BY <1>0, <1>5, <1>6
<1>8. crTx[crTxOf[r]] # "none"
  <2>1. CASE crTxOf[r] = crTxOf[p] BY <1>3, <2>1
  <2>2. CASE crTxOf[r] < crTxOf[p] BY <1>0, <1>3, <2>2 DEF BegunInOrder
  <2>3. QED BY <1>0, <1>3, <1>6, <2>1, <2>2
<1>9. QED BY <1>0, <1>7, <1>8 DEF Visible

LEMMA CursorStarts == CrInit => CrInv
<1>. SUFFICES ASSUME CrInit PROVE CrInv
  OBVIOUS
<1>1. NoPage \in Pages
  BY DEF NoPage, Pages
<1>2. CrTypeOK
  BY <1>1, CursorBounds DEF CrInit, CrTypeOK
<1>3. \A r \in Rows : ValueOf[r] \in Nat \ {0}
  BY CursorBounds
<1>4. NoRowSkipped /\ CheckpointSafe /\ GuardHoldsBack
  BY <1>3 DEF CrInit, NoRowSkipped, CheckpointSafe, GuardHoldsBack, Visible
<1>5. BegunInOrder /\ PageInv /\ BatchesInv /\ PositionInv
  BY DEF CrInit, BegunInOrder, PageInv, BatchesInv, PositionInv
<1>6. \A r \in Rows : ~Beyond(ValueOf[r])
  BY <1>3 DEF CrInit, Beyond, NoPage
<1>7. QED BY <1>2, <1>4, <1>5, <1>6 DEF CrInv, CursorReaderInv, SettledBehind

\* What the type invariant says of the values, the rows and the pages.
LEMMA CursorTypes ==
    ASSUME CrTypeOK
    PROVE  /\ crLast \in Nat /\ crStored \in Nat /\ crSaving \in Nat /\ crEpoch \in Nat
           /\ Visible \subseteq Rows /\ \A r \in Rows : ValueOf[r] \in Nat \ {0}
           /\ crPage \in Pages /\ crPage.rows \in SUBSET Rows /\ crPage.from \in Nat /\ crPage.epoch \in Nat
           /\ crOut \in Seq(Pages) /\ Len(crOut) \in Nat /\ DOMAIN crOut = 1..Len(crOut)
           /\ \A i \in DOMAIN crOut : /\ crOut[i] \in Pages /\ crOut[i].rows \in SUBSET Rows
                                      /\ crOut[i].from \in Nat /\ crOut[i].epoch \in Nat
<1>1. \A d \in Pages : d.rows \in SUBSET Rows /\ d.from \in Nat /\ d.epoch \in Nat
  BY DEF Pages
<1>2. crOut \in Seq(Pages) /\ crPage \in Pages
  BY DEF CrTypeOK
<1>3. Len(crOut) \in Nat /\ DOMAIN crOut = 1..Len(crOut) /\ \A i \in DOMAIN crOut : crOut[i] \in Pages
  BY <1>2
<1>4. QED BY <1>1, <1>2, <1>3, CursorBounds DEF CrTypeOK, Visible

\* The database moves.  A row that becomes visible where the reader has been is late; with
\* the guard and ordered transactions there is none, for all behind the reader is committed.
LEMMA DatabaseKeeps ==
    ASSUME CrInv, NEW t \in Txs, TxBegins(t) \/ TxCommits(t) PROVE CrInv'
<1>0. CrTypeOK /\ crTx \in [Txs -> {"none", "open", "done"}] /\ crTxOf \in [Rows -> Txs]
  BY CursorBounds DEF CrInv, CursorReaderInv, CrTypeOK
<1>1. /\ UNCHANGED <<crTxOf, crGuarded, crLast, crEpoch, crPage, crOut, crSink, crStored, crSaving, crRestarted,
                     crNacked, crStranded>>
      /\ crTx[t] = "none" => \A u \in Txs : u < t => crTx[u] # "none"
      /\ \/ crTx' = [crTx EXCEPT ![t] = "open"] /\ crTx[t] = "none" /\ crLate' = crLate
         \/ /\ crTx' = [crTx EXCEPT ![t] = "done"] /\ crTx[t] = "open"
            /\ crLate' = crLate \cup {r \in Rows : crTxOf[r] = t /\ Beyond(ValueOf[r])}
  BY DEF TxBegins, TxCommits, crTable, crPassed
<1>2. /\ crTx' \in [Txs -> {"none", "open", "done"}] /\ crTx'[t] # "none"
      /\ \A u \in Txs : u # t => crTx'[u] = crTx[u]
      /\ Txs' = Txs
  BY <1>0, <1>1
<1>3. BegunInOrder'
  BY <1>1, <1>2 DEF CrInv, BegunInOrder
<1>4. CrTypeOK'
  BY <1>1, <1>2 DEF CrInv, CursorReaderInv, CrTypeOK
<1>5. /\ Visible \subseteq Visible' /\ Visible' \subseteq Rows /\ crLate \subseteq crLate'
      /\ \A r \in Visible' : r \in Visible \/ (Beyond(ValueOf[r]) => r \in crLate')
  BY <1>0, <1>1, <1>2 DEF Visible
<1>6. /\ Beyond(0)' = Beyond(0) /\ \A r \in Rows : Beyond(ValueOf[r])' <=> Beyond(ValueOf[r])
      /\ TxOrdered' <=> TxOrdered
      /\ Pending' = Pending /\ \A i \in DOMAIN crOut : OpenBefore(i)' = OpenBefore(i)
      /\ Forgone \subseteq Forgone' /\ crLate' \subseteq Forgone'
  BY <1>1, <1>5 DEF Beyond, TxOrdered, Pending, OpenBefore, Forgone
<1>7. ASSUME NEW r \in Visible', \/ ValueOf[r] <= crLast \/ ValueOf[r] <= crStored \/ ValueOf[r] <= crSaving
      PROVE  r \in Visible \/ r \in Forgone'
  <2>1. ValueOf[r] <= crLast
    BY <1>0, <1>5, <1>7, CursorTypes DEF CrInv, PositionInv
  <2>2. QED BY <1>5, <1>6, <2>1 DEF Beyond
<1>8. NoRowSkipped' /\ CheckpointSafe'
  BY <1>1, <1>6, <1>7 DEF CrInv, CursorReaderInv, NoRowSkipped, CheckpointSafe
<1>9. SettledBehind'
  BY <1>1, <1>5, <1>6 DEF CrInv, SettledBehind
<1>10. GuardHoldsBack'
  <2>1. SUFFICES ASSUME crGuarded, TxOrdered PROVE crLate' = {}
    BY <1>1, <1>6 DEF GuardHoldsBack
  <2>2. crLate = {} /\ \A r \in Rows : Beyond(ValueOf[r]) => crTx[crTxOf[r]] = "done"
    BY <2>1 DEF CrInv, CursorReaderInv, GuardHoldsBack, SettledBehind, Visible
  <2>3. QED BY <1>1, <2>2
<1>11. ASSUME NEW d, WholePage(d), \A p \in d.rows, r \in Rows : ValueOf[r] <= ValueOf[p] => Beyond(ValueOf[r])
       PROVE  \A r \in Visible', p \in d.rows :
                  d.from < ValueOf[r] /\ ValueOf[r] <= ValueOf[p] => r \in d.rows \cup crLate'
  BY <1>5, <1>11 DEF WholePage
<1>12. PageInv'
  <2>1. SUFFICES ASSUME crPage # NoPage, crPage.epoch = crEpoch
                 PROVE  /\ crPage.from = crLast /\ \A p \in crPage.rows : crPage.from < ValueOf[p]
                        /\ \A r \in Visible', p \in crPage.rows :
                            crPage.from < ValueOf[r] /\ ValueOf[r] <= ValueOf[p] => r \in crPage.rows \cup crLate'
    BY <1>1 DEF PageInv, WholePage, CrInv
  <2>2. /\ WholePage(crPage) /\ crPage.from = crLast
        /\ \A p \in crPage.rows, r \in Rows : ValueOf[r] <= ValueOf[p] => Beyond(ValueOf[r])
    BY <2>1 DEF CrInv, PageInv, Beyond
  <2>3. QED BY <1>11, <2>2 DEF WholePage
<1>13. PositionInv'
  BY <1>1 DEF CrInv, PositionInv
<1>14. BatchesInv'
  <2>0. crOut' = crOut /\ crEpoch' = crEpoch /\ crSink' = crSink
    BY <1>1
  <2>1. SUFFICES ASSUME NEW i \in DOMAIN crOut, crOut[i].epoch = crEpoch
                 PROVE  /\ WholePage(crOut[i])'
                        /\ \A r \in Visible' : ValueOf[r] <= crOut[i].from =>
                                r \in crSink \cup OpenBefore(i) \cup Forgone'
    <3>1. ASSUME NEW i \in DOMAIN crOut'
          PROVE  /\ crOut'[i].rows # {} /\ crOut'[i].epoch <= crEpoch'
                 /\ crOut'[i].epoch = crEpoch' =>
                      /\ WholePage(crOut[i])'
                      /\ \A r \in Visible' : ValueOf[r] <= crOut'[i].from =>
                            r \in crSink' \cup OpenBefore(i)' \cup Forgone'
      <4>1. crOut[i].rows # {} /\ crOut[i].epoch <= crEpoch
        BY <2>0 DEF CrInv, BatchesInv
      <4>2. OpenBefore(i)' = OpenBefore(i)
        BY <1>6, <2>0
      <4>3. QED BY <2>0, <2>1, <4>1, <4>2
    <3>2. QED BY <3>1 DEF BatchesInv
  <2>2. /\ WholePage(crOut[i]) /\ crOut[i].rows \subseteq Rows /\ crOut[i].from \in Nat
        /\ \A p \in crOut[i].rows : ValueOf[p] <= crLast /\ crOut[i].from < ValueOf[p]
        /\ crOut[i].rows # {}
    BY <1>0, <2>1, CursorTypes DEF CrInv, BatchesInv, PositionInv, WholePage
  <2>3. \A p \in crOut[i].rows, r \in Rows : ValueOf[r] <= ValueOf[p] => Beyond(ValueOf[r])
    BY <1>0, <2>2, CursorTypes DEF Beyond
  <2>4. \A r \in Visible', p \in crOut[i].rows :
            crOut[i].from < ValueOf[r] /\ ValueOf[r] <= ValueOf[p] => r \in crOut[i].rows \cup crLate'
    BY <1>11, <2>2, <2>3
  <2>5. WholePage(crOut[i])'
    BY <2>0, <2>2, <2>4 DEF WholePage
  <2>6. ASSUME NEW r \in Visible', ValueOf[r] <= crOut[i].from
        PROVE  r \in crSink \cup OpenBefore(i) \cup Forgone'
    <3>1. ValueOf[r] <= crLast
      <4>1. PICK p \in crOut[i].rows : TRUE
        BY <2>2
      <4>2. p \in Rows /\ ValueOf[p] \in Nat /\ ValueOf[r] \in Nat /\ crLast \in Nat
        BY <1>0, <1>5, <2>2, CursorTypes
      <4>3. crOut[i].from < ValueOf[p] /\ ValueOf[p] <= crLast /\ crOut[i].from \in Nat
        BY <2>2
      <4>4. QED BY <2>6, <4>2, <4>3
    <3>2. CASE r \in Visible
      BY <1>6, <2>1, <2>6, <3>2 DEF CrInv, BatchesInv
    <3>3. QED BY <1>7, <3>1, <3>2
  <2>7. QED BY <2>5, <2>6
<1>15. QED BY <1>3, <1>4, <1>8, <1>9, <1>10, <1>12, <1>13, <1>14 DEF CrInv, CursorReaderInv

\* A page is read.
LEMMA FetchKeeps ==
    ASSUME CrInv, CrFetch PROVE CrInv'
<1>. DEFINE page == EmitPage(FetchPage(crLast))
<1>1. /\ crPage' = [rows |-> page, from |-> crLast, epoch |-> crEpoch] /\ page # {}
      /\ UNCHANGED <<crTxOf, crGuarded, crTx, crLast, crEpoch, crOut, crSink, crStored, crSaving, crRestarted,
                     crNacked, crLate, crStranded>>
  BY DEF CrFetch, crTable, crPassed
<1>2. crLast \in Nat /\ crEpoch \in Nat /\ CrTypeOK /\ BegunInOrder /\ \A r \in Rows : ValueOf[r] \in Nat
  BY CursorTypes DEF CrInv, CursorReaderInv
<1>3. /\ page \subseteq Rows
      /\ \A p \in page : /\ crLast < ValueOf[p]
                         /\ \A r \in Visible : crLast < ValueOf[r] /\ ValueOf[r] <= ValueOf[p] => r \in page
  BY <1>2, PageComplete
<1>4. crGuarded /\ TxOrdered => \A p \in page, r \in Rows : ValueOf[r] <= ValueOf[p] => r \in Visible
  BY <1>2, PageSettled
<1>. HIDE DEF page
<1>5. /\ Visible' = Visible /\ Pending' = Pending /\ Forgone' = Forgone /\ TxOrdered' = TxOrdered
      /\ \A i \in DOMAIN crOut : OpenBefore(i)' = OpenBefore(i)
      /\ \A i \in DOMAIN crOut : WholePage(crOut[i])' = WholePage(crOut[i])
  BY <1>1 DEF Visible, Pending, Forgone, TxOrdered, OpenBefore, WholePage
<1>6. crPage' \in Pages
  BY <1>1, <1>2, <1>3 DEF Pages
<1>7. PageInv'
  BY <1>1, <1>2, <1>3, <1>5 DEF PageInv, WholePage
<1>8. CrTypeOK'
  BY <1>1, <1>6 DEF CrInv, CursorReaderInv, CrTypeOK
<1>9. NoRowSkipped' /\ CheckpointSafe' /\ BegunInOrder' /\ GuardHoldsBack' /\ PositionInv'
  BY <1>1, <1>5 DEF CrInv, CursorReaderInv, NoRowSkipped, CheckpointSafe, BegunInOrder, GuardHoldsBack, PositionInv
<1>10. BatchesInv'
  BY <1>1, <1>5 DEF CrInv, BatchesInv
<1>11. SettledBehind'
  <2>1. SUFFICES ASSUME crGuarded, TxOrdered, NEW r \in Rows, Beyond(ValueOf[r])' PROVE r \in Visible
    BY <1>1, <1>5 DEF SettledBehind
  <2>2. CASE ValueOf[r] <= crLast
    BY <2>1, <2>2 DEF CrInv, SettledBehind, Beyond
  <2>3. CASE \E p \in page : ValueOf[r] <= ValueOf[p]
    BY <1>4, <2>1, <2>3
  <2>4. QED BY <1>1, <2>1, <2>2, <2>3 DEF Beyond
<1>12. QED BY <1>7, <1>8, <1>9, <1>10, <1>11 DEF CrInv, CursorReaderInv

\* The rows of a set with a last row have values up to its value.
LEMMA TopValue ==
    ASSUME NEW S \in SUBSET Rows, S # {}
    PROVE  /\ Max(S) \in S /\ ValueOf[Max(S)] \in Nat
           /\ \A r \in S : ValueOf[r] \in Nat /\ ValueOf[r] <= ValueOf[Max(S)]
<1>1. Max(S) \in S /\ \A r \in S : r <= Max(S)
  BY LastRow
<1>2. Rows \in SUBSET Nat
  BY RowsFinite
<1>3. /\ \A r \in Rows : ValueOf[r] \in Nat
      /\ \A r, s \in Rows : r < s => ValueOf[r] <= ValueOf[s]
  BY CursorBounds
<1>. DEFINE m == Max(S)
<1>. HIDE DEF m
<1>4. m \in S /\ \A r \in S : r <= m
  BY <1>1 DEF m
<1>5. ASSUME NEW r \in S PROVE ValueOf[r] <= ValueOf[m]
  <2>1. r = m \/ r < m
    BY <1>2, <1>4
  <2>2. QED BY <1>3, <1>4, <2>1
<1>6. QED BY <1>3, <1>4, <1>5 DEF m

\* The page is handed on, or read again.
LEMMA HandOnKeeps ==
    ASSUME CrInv, CrHandOn PROVE CrInv'
<1>0. CrTypeOK
  BY DEF CrInv, CursorReaderInv
<1>1. /\ crPage # NoPage /\ crPage' = NoPage
      /\ UNCHANGED <<crTxOf, crGuarded, crTx, crEpoch, crSink, crStored, crSaving, crRestarted, crNacked, crLate,
                     crStranded>>
  BY DEF CrHandOn, crTable, crPassed
<1>2. /\ Visible' = Visible /\ Forgone' = Forgone /\ TxOrdered' = TxOrdered
      /\ \A d : WholePage(d)' = WholePage(d)
  BY <1>1 DEF Visible, Forgone, TxOrdered, WholePage
<1>3. NoPage \in Pages /\ NoPage.rows = {} /\ PageInv' /\ BegunInOrder' /\ CheckpointSafe' /\ GuardHoldsBack'
  BY <1>1, <1>2
    DEF NoPage, Pages, PageInv, CrInv, CursorReaderInv, BegunInOrder, CheckpointSafe, GuardHoldsBack
<1>4. CASE crPage.epoch # crEpoch
  <2>1. UNCHANGED <<crLast, crOut>>
    BY <1>4 DEF CrHandOn
  <2>2. Pending' = Pending /\ \A i \in DOMAIN crOut : OpenBefore(i)' = OpenBefore(i)
    BY <1>1, <2>1 DEF Pending, OpenBefore
  <2>3. CrTypeOK' /\ NoRowSkipped' /\ BatchesInv' /\ PositionInv'
    BY <1>1, <1>2, <1>3, <2>1, <2>2
      DEF CrInv, CursorReaderInv, CrTypeOK, NoRowSkipped, BatchesInv, PositionInv
  <2>4. SettledBehind'
    BY <1>1, <1>2, <1>3, <2>1 DEF CrInv, SettledBehind, Beyond
  <2>5. QED BY <1>3, <2>3, <2>4 DEF CrInv, CursorReaderInv
<1>5. CASE crPage.epoch = crEpoch
  <2>. DEFINE top == ValueOf[Max(crPage.rows)]
              n == Len(crOut)
  <2>1. crLast' = top /\ crOut' = Append(crOut, crPage)
    BY <1>5 DEF CrHandOn
  <2>2. /\ WholePage(crPage) /\ crPage.from = crLast /\ crPage \in Pages /\ crPage.rows \in SUBSET Rows
        /\ crLast \in Nat /\ crOut \in Seq(Pages) /\ crEpoch \in Nat /\ crStored \in Nat /\ crSaving \in Nat
        /\ \A r \in Rows : ValueOf[r] \in Nat
    BY <1>0, <1>1, <1>5, CursorTypes DEF CrInv, PageInv
  <2>3. crPage.rows # {} /\ \A p \in crPage.rows : crLast < ValueOf[p]
    BY <2>2 DEF WholePage
  <2>4. /\ top \in Nat /\ crLast < top /\ \A p \in crPage.rows : ValueOf[p] <= top
        /\ \E p \in crPage.rows : top = ValueOf[p]
    BY <2>2, <2>3, TopValue
  <2>. HIDE DEF top
  <2>5. /\ crOut' \in Seq(Pages) /\ n \in Nat /\ DOMAIN crOut = 1..n /\ DOMAIN crOut' = 1..(n + 1)
        /\ crOut'[n + 1] = crPage /\ \A i \in 1..n : crOut'[i] = crOut[i]
    BY <2>1, <2>2
  <2>. HIDE DEF n
  <2>6. CrTypeOK'
    BY <1>1, <1>3, <2>1, <2>4, <2>5 DEF CrInv, CursorReaderInv, CrTypeOK
  <2>7. /\ \A i \in 1..n : OpenBefore(i)' = OpenBefore(i)
        /\ \A i \in 1..(n + 1) : i = n + 1 => OpenBefore(i)' = Pending
        /\ Pending \subseteq Pending' /\ crPage.rows \subseteq Pending'
    <3>1. ASSUME NEW i \in 1..n PROVE OpenBefore(i)' = OpenBefore(i)
      <4>1. \A k \in 1..(i - 1) : k \in 1..n
        BY <2>5
      <4>2. \A k \in 1..(i - 1) : crOut'[k] = crOut[k]
        BY <2>5, <4>1
      <4>3. {k \in 1..(i - 1) : crOut'[k].epoch = crEpoch} = {k \in 1..(i - 1) : crOut[k].epoch = crEpoch}
        BY <4>2
      <4>4. \A k \in 1..(i - 1) : crOut'[k].rows = crOut[k].rows
        BY <4>2
      <4>. HIDE DEF n
      <4>5. QED BY <1>1, <4>3, <4>4 DEF OpenBefore
    <3>2. 1..((n + 1) - 1) = 1..n
      BY <2>5
    <3>3. ASSUME NEW i \in 1..(n + 1), i = n + 1 PROVE OpenBefore(i)' = Pending
      <4>1. OpenBefore(i)' = UNION {crOut'[j].rows : j \in {k \in 1..n : crOut'[k].epoch = crEpoch}}
        BY <1>1, <3>2, <3>3 DEF OpenBefore
      <4>2. {k \in 1..n : crOut'[k].epoch = crEpoch} = {k \in 1..n : crOut[k].epoch = crEpoch}
        BY <2>5
      <4>3. Pending = UNION {crOut[j].rows : j \in {k \in 1..n : crOut[k].epoch = crEpoch}}
        BY <2>5 DEF Pending
      <4>4. {crOut'[j].rows : j \in {k \in 1..n : crOut[k].epoch = crEpoch}}
             = {crOut[j].rows : j \in {k \in 1..n : crOut[k].epoch = crEpoch}}
        BY <2>5
      <4>5. QED BY <4>1, <4>2, <4>3, <4>4
    <3>4. ASSUME NEW r \in Pending PROVE r \in Pending'
      <4>1. PICK i \in DOMAIN crOut : crOut[i].epoch = crEpoch /\ r \in crOut[i].rows
        BY DEF Pending
      <4>2. i \in DOMAIN crOut' /\ crOut'[i].epoch = crEpoch' /\ r \in crOut'[i].rows
        BY <1>1, <2>5, <4>1
      <4>3. QED BY <4>2 DEF Pending
    <3>5. n + 1 \in DOMAIN crOut' /\ crOut'[n + 1].epoch = crEpoch'
      BY <1>1, <1>5, <2>5
    <3>6. crPage.rows \subseteq Pending'
      BY <2>5, <3>5 DEF Pending
    <3>7. QED BY <3>1, <3>3, <3>4, <3>6
  <2>8. NoRowSkipped'
    <3>1. SUFFICES ASSUME NEW r \in Visible, ValueOf[r] <= top PROVE r \in crSink \cup Pending' \cup Forgone
      BY <1>1, <1>2, <2>1 DEF NoRowSkipped
    <3>2. ValueOf[r] \in Nat
      BY <1>0, CursorTypes
    <3>3. CASE ValueOf[r] <= crLast
      BY <2>7, <3>3 DEF CrInv, CursorReaderInv, NoRowSkipped
    <3>4. CASE crLast < ValueOf[r]
      BY <2>2, <2>4, <2>7, <3>1, <3>4 DEF WholePage, Forgone
    <3>5. QED BY <2>2, <3>2, <3>3, <3>4
  <2>9. BatchesInv'
    <3>1. SUFFICES ASSUME NEW i \in 1..(n + 1)
                   PROVE  /\ crOut'[i].rows # {} /\ crOut'[i].epoch <= crEpoch
                          /\ crOut'[i].epoch = crEpoch =>
                               /\ WholePage(crOut'[i])
                               /\ \A r \in Visible : ValueOf[r] <= crOut'[i].from =>
                                     r \in crSink \cup OpenBefore(i)' \cup Forgone
      BY <1>1, <1>2, <2>5 DEF BatchesInv
    <3>2. CASE i \in 1..n
      BY <2>5, <2>7, <3>2 DEF CrInv, BatchesInv
    <3>3. CASE i = n + 1
      <4>1. \A r \in Visible : ValueOf[r] <= crLast => r \in crSink \cup Pending \cup Forgone
        BY DEF CrInv, CursorReaderInv, NoRowSkipped
      <4>2. crEpoch <= crEpoch
        BY <2>2
      <4>3. crOut'[i] = crPage /\ OpenBefore(i)' = Pending
        BY <2>5, <2>7, <3>3
      <4>4. QED BY <1>5, <2>2, <2>3, <4>1, <4>2, <4>3
    <3>4. QED BY <2>5, <3>2, <3>3
  <2>10. PositionInv'
    <3>1. crStored <= crLast /\ crSaving <= crLast
      BY DEF CrInv, PositionInv
    <3>2. crStored <= top /\ crSaving <= top
      BY <2>2, <2>4, <3>1
    <3>3. ASSUME NEW i \in 1..(n + 1), crOut'[i].epoch = crEpoch
          PROVE  /\ crStored <= crOut'[i].from /\ crSaving <= crOut'[i].from
                 /\ \A p \in crOut'[i].rows :
                      /\ ValueOf[p] <= top
                      /\ \A j \in 1..(n + 1) : i < j /\ crOut'[j].epoch = crEpoch => ValueOf[p] <= crOut'[j].from
      <4>1. CASE i \in 1..n
        <5>1. /\ crStored <= crOut[i].from /\ crSaving <= crOut[i].from
              /\ \A p \in crOut[i].rows :
                    /\ ValueOf[p] <= crLast
                    /\ \A j \in 1..n : i < j /\ crOut[j].epoch = crEpoch => ValueOf[p] <= crOut[j].from
          BY <2>5, <3>3, <4>1 DEF CrInv, PositionInv
        <5>2. \A p \in crOut[i].rows : ValueOf[p] \in Nat
          BY <1>0, <2>5, <4>1, CursorTypes
        <5>3. \A p \in crOut[i].rows : ValueOf[p] <= top
          BY <2>2, <2>4, <5>1, <5>2
        <5>4. \A j \in 1..(n + 1) : j \in 1..n \/ j = n + 1
          BY <2>5
        <5>5. QED BY <2>2, <2>5, <4>1, <5>1, <5>3, <5>4
      <4>2. CASE i = n + 1
        <5>1. \A j \in 1..(n + 1) : ~(i < j)
          BY <2>5, <4>2
        <5>2. QED BY <2>2, <2>4, <2>5, <3>1, <4>2, <5>1
      <4>3. QED BY <2>5, <4>1, <4>2
    <3>4. QED BY <1>1, <2>1, <2>5, <3>2, <3>3 DEF PositionInv
  <2>11. SettledBehind'
    <3>1. ASSUME NEW r \in Rows, Beyond(ValueOf[r])' PROVE Beyond(ValueOf[r])
      <4>1. ValueOf[r] <= top
        BY <1>1, <1>3, <2>1, <3>1 DEF Beyond
      <4>2. QED BY <1>5, <2>4, <4>1 DEF Beyond
    <3>2. QED BY <1>1, <1>2, <3>1 DEF CrInv, SettledBehind
  <2>12. QED BY <1>3, <2>6, <2>8, <2>9, <2>10, <2>11 DEF CrInv, CursorReaderInv
<1>6. QED BY <1>4, <1>5

\* A sequence of batches without one of them.
LEMMA BatchRemoved ==
    ASSUME NEW q \in Seq(Pages), NEW k \in DOMAIN q
    PROVE  /\ RemoveAt(q, k) \in Seq(Pages) /\ DOMAIN RemoveAt(q, k) = 1..(Len(q) - 1)
           /\ \A i \in 1..(Len(q) - 1) : RemoveAt(q, k)[i] = IF i < k THEN q[i] ELSE q[i + 1]
<1>. DEFINE a == SubSeq(q, 1, k - 1)
            b == SubSeq(q, k + 1, Len(q))
            r == RemoveAt(q, k)
<1>1. Len(q) \in Nat /\ k \in 1..Len(q)
  OBVIOUS
<1>2. a \in Seq(Pages) /\ Len(a) = k - 1 /\ \A i \in 1..(k - 1) : a[i] = q[i]
  BY <1>1
<1>3. b \in Seq(Pages) /\ Len(b) = Len(q) - k /\ \A i \in 1..(Len(q) - k) : b[i] = q[k + i]
  BY <1>1
<1>4. r = a \o b
  BY DEF RemoveAt
<1>. HIDE DEF a, b, r
<1>5. r \in Seq(Pages) /\ Len(r) = Len(q) - 1
  BY <1>1, <1>2, <1>3, <1>4
<1>6. ASSUME NEW i \in 1..(Len(q) - 1) PROVE r[i] = IF i < k THEN q[i] ELSE q[i + 1]
  <2>1. CASE i < k
    <3>1. i \in 1..Len(a)
      BY <1>1, <1>2, <2>1
    <3>2. r[i] = a[i]
      BY <1>2, <1>3, <1>4, <3>1
    <3>3. QED BY <1>2, <2>1, <3>1, <3>2
  <2>2. CASE ~(i < k)
    <3>1. i - (k - 1) \in 1..Len(b) /\ Len(a) + (i - (k - 1)) = i /\ k + (i - (k - 1)) = i + 1
      BY <1>1, <1>2, <1>3, <2>2
    <3>2. \A j \in 1..Len(b) : r[Len(a) + j] = b[j]
      BY <1>2, <1>3, <1>4
    <3>3. r[i] = b[i - (k - 1)]
      BY <3>1, <3>2
    <3>4. b[i - (k - 1)] = q[k + (i - (k - 1))]
      BY <1>3, <3>1
    <3>5. QED BY <2>2, <3>1, <3>3, <3>4
  <2>3. QED BY <2>1, <2>2
<1>7. QED BY <1>5, <1>6 DEF r

\* Batch k leaves the route and the position stays: the batches that can move it still rest
\* on the sink and on each other, if the sink has the rows of batch k or the position could
\* not be moved by it.
LEMMA BatchGone ==
    ASSUME CrInv, NEW k \in DOMAIN crOut,
           UNCHANGED <<crTxOf, crTx, crLast, crEpoch, crStored, crLate>>,
           crOut' \in Seq(Pages), DOMAIN crOut' = 1..(Len(crOut) - 1),
           \A i \in 1..(Len(crOut) - 1) : crOut'[i] = IF i < k THEN crOut[i] ELSE crOut[i + 1],
           crSink \subseteq crSink', crStranded \subseteq crStranded',
           crOut[k].epoch = crEpoch => crOut[k].rows \subseteq crSink',
           crSaving' <= crLast,
           \A i \in DOMAIN crOut : i # k /\ crOut[i].epoch = crEpoch => crSaving' <= crOut[i].from
    PROVE  /\ BatchesInv' /\ PositionInv'
           /\ Pending \subseteq Pending' \cup crSink'
<1>. DEFINE n == Len(crOut)
            old(i) == IF i < k THEN i ELSE i + 1
            new(j) == IF j < k THEN j ELSE j - 1
<1>1. n \in Nat /\ DOMAIN crOut = 1..n /\ k \in 1..n /\ k \in Nat
  BY CursorTypes DEF CrInv, CursorReaderInv
<1>2. \A i \in 1..(n - 1) : old(i) \in 1..n /\ old(i) # k /\ crOut'[i] = crOut[old(i)]
  BY <1>1
<1>3. \A i, j \in 1..(n - 1) : i < j => old(i) < old(j)
  BY <1>1
<1>4. \A j \in 1..n : j # k => new(j) \in 1..(n - 1) /\ old(new(j)) = j
  BY <1>1
<1>5. \A j \in 1..n : j # k => crOut'[new(j)] = crOut[j]
  BY <1>2, <1>4
<1>6. \A i \in 1..(n - 1), j \in 1..n : j # k /\ j < old(i) => new(j) < i
  BY <1>1
<1>7. DOMAIN crOut' = 1..(n - 1)
  OBVIOUS
<1>. HIDE DEF n, old, new
<1>8. ASSUME NEW j \in 1..n, crOut[j].epoch = crEpoch, NEW r \in crOut[j].rows
      PROVE  r \in crSink' \/ (j # k /\ crOut'[new(j)].epoch = crEpoch' /\ r \in crOut'[new(j)].rows)
  BY <1>5, <1>8
<1>9. Pending \subseteq Pending' \cup crSink'
  <2>1. SUFFICES ASSUME NEW r \in Pending, r \notin crSink' PROVE r \in Pending'
    OBVIOUS
  <2>2. PICK j \in 1..n : crOut[j].epoch = crEpoch /\ r \in crOut[j].rows
    BY <1>1 DEF Pending
  <2>3. new(j) \in DOMAIN crOut' /\ crOut'[new(j)].epoch = crEpoch' /\ r \in crOut'[new(j)].rows
    BY <1>4, <1>7, <1>8, <2>1, <2>2
  <2>4. QED BY <2>3 DEF Pending
<1>10. /\ Visible' = Visible /\ Forgone \subseteq Forgone' /\ \A d : WholePage(d)' = WholePage(d)
  BY DEF Visible, Forgone, WholePage
<1>11. ASSUME NEW i \in 1..(n - 1) PROVE OpenBefore(old(i)) \subseteq OpenBefore(i)' \cup crSink'
  <2>1. SUFFICES ASSUME NEW r \in OpenBefore(old(i)), r \notin crSink' PROVE r \in OpenBefore(i)'
    OBVIOUS
  <2>2. PICK j \in 1..(old(i) - 1) : crOut[j].epoch = crEpoch /\ r \in crOut[j].rows
    BY DEF OpenBefore
  <2>3. j \in 1..n /\ j < old(i)
    BY <1>1, <1>2
  <2>4. j # k /\ crOut'[new(j)].epoch = crEpoch' /\ r \in crOut'[new(j)].rows
    BY <1>8, <2>1, <2>2, <2>3
  <2>5. new(j) \in 1..(i - 1)
    BY <1>1, <1>4, <1>6, <2>3, <2>4
  <2>6. QED BY <2>4, <2>5 DEF OpenBefore
<1>12. BatchesInv'
  <2>1. SUFFICES ASSUME NEW i \in 1..(n - 1)
                 PROVE  /\ crOut'[i].rows # {} /\ crOut'[i].epoch <= crEpoch
                        /\ crOut'[i].epoch = crEpoch =>
                             /\ WholePage(crOut'[i])
                             /\ \A r \in Visible : ValueOf[r] <= crOut'[i].from =>
                                   r \in crSink' \cup OpenBefore(i)' \cup Forgone'
    BY <1>7, <1>10 DEF BatchesInv
  <2>2. old(i) \in DOMAIN crOut /\ crOut'[i] = crOut[old(i)]
    BY <1>1, <1>2
  <2>3. QED BY <1>10, <1>11, <2>2 DEF CrInv, BatchesInv
<1>13. PositionInv'
  <2>1. crStored <= crLast
    BY DEF CrInv, PositionInv
  <2>2. ASSUME NEW i \in 1..(n - 1), crOut'[i].epoch = crEpoch
        PROVE  /\ crStored <= crOut'[i].from /\ crSaving' <= crOut'[i].from
               /\ \A p \in crOut'[i].rows :
                    /\ ValueOf[p] <= crLast
                    /\ \A j \in 1..(n - 1) : i < j /\ crOut'[j].epoch = crEpoch => ValueOf[p] <= crOut'[j].from
    BY <1>1, <1>2, <1>3, <2>2 DEF CrInv, PositionInv
  <2>3. QED BY <1>7, <2>1, <2>2 DEF PositionInv
<1>14. QED BY <1>9, <1>12, <1>13

\* A rewind to a value up to which the sink has all that is not forgone: no batch can move
\* the position, so nothing more is asked of those on their way.
LEMMA RewoundKeeps ==
    ASSUME CrInv, crEpoch' = crEpoch + 1,
           UNCHANGED <<crTxOf, crGuarded, crTx, crPage, crStored, crLate>>,
           crOut' \in Seq(Pages), \A i \in DOMAIN crOut' : \E j \in DOMAIN crOut : crOut'[i] = crOut[j],
           crLast' \in Nat, crLast' <= crLast, crStored <= crLast', crSaving' <= crLast',
           \A r \in Visible : ValueOf[r] <= crLast' => r \in crSink' \cup Forgone'
    PROVE  NoRowSkipped' /\ GuardHoldsBack' /\ BegunInOrder' /\ PageInv' /\ PositionInv' /\ BatchesInv' /\ SettledBehind'
<1>1. CrTypeOK
  BY DEF CrInv, CursorReaderInv
<1>2. \A e \in Nat : e <= crEpoch => e # crEpoch' /\ e <= crEpoch'
  BY <1>1, CursorTypes
<1>3. Visible' = Visible /\ TxOrdered' = TxOrdered
  BY DEF Visible, TxOrdered
<1>4. \A i \in DOMAIN crOut' : crOut'[i].rows # {} /\ crOut'[i].epoch <= crEpoch' /\ crOut'[i].epoch # crEpoch'
  <2>1. TAKE i \in DOMAIN crOut'
  <2>2. PICK j \in DOMAIN crOut : crOut'[i] = crOut[j]
    OBVIOUS
  <2>3. crOut[j].epoch \in Nat /\ crOut[j].epoch <= crEpoch /\ crOut[j].rows # {}
    BY <1>1, <2>2, CursorTypes DEF CrInv, BatchesInv
  <2>4. QED BY <1>2, <2>2, <2>3
<1>5. BatchesInv' /\ PositionInv'
  BY <1>4 DEF BatchesInv, PositionInv
<1>6. crPage # NoPage => crPage.rows # {} /\ crPage.epoch \in Nat /\ crPage.epoch <= crEpoch
  BY <1>1, CursorTypes DEF CrInv, PageInv
<1>7. PageInv'
  BY <1>2, <1>6 DEF PageInv
<1>8. NoRowSkipped' /\ BegunInOrder' /\ GuardHoldsBack'
  BY <1>3 DEF NoRowSkipped, CrInv, CursorReaderInv, BegunInOrder, GuardHoldsBack
<1>9. ASSUME NEW r \in Rows, Beyond(ValueOf[r])' PROVE Beyond(ValueOf[r])
  <2>1. ValueOf[r] <= crLast'
    <3>1. crPage.epoch # crEpoch' \/ crPage.rows = {}
      BY <1>2, <1>6 DEF NoPage
    <3>2. QED BY <1>9, <3>1 DEF Beyond
  <2>2. ValueOf[r] <= crLast
    BY <1>1, <2>1, CursorTypes
  <2>3. QED BY <2>2 DEF Beyond
<1>10. SettledBehind'
  BY <1>3, <1>9 DEF CrInv, SettledBehind
<1>11. QED BY <1>5, <1>7, <1>8, <1>10

\* A batch is dropped, in whatever place.
LEMMA DropKeeps ==
    ASSUME CrInv, NEW k \in DOMAIN crOut, CrDrop(k) PROVE CrInv'
<1>0. CrTypeOK
  BY DEF CrInv, CursorReaderInv
<1>1. /\ crOut' = RemoveAt(crOut, k) /\ crNacked < CrNacks /\ crNacked' = crNacked + 1
      /\ UNCHANGED <<crTxOf, crGuarded, crTx, crPage, crSink, crStored, crSaving, crRestarted, crLate>>
  BY DEF CrDrop, crTable
<1>2. /\ crOut' \in Seq(Pages) /\ DOMAIN crOut' = 1..(Len(crOut) - 1)
      /\ \A i \in 1..(Len(crOut) - 1) : crOut'[i] = IF i < k THEN crOut[i] ELSE crOut[i + 1]
  BY <1>0, <1>1, CursorTypes, BatchRemoved
<1>3. \A i \in DOMAIN crOut' : \E j \in DOMAIN crOut : crOut'[i] = crOut[j]
  <2>1. TAKE i \in DOMAIN crOut'
  <2>2. i \in 1..Len(crOut) /\ i + 1 \in 1..Len(crOut) /\ DOMAIN crOut = 1..Len(crOut)
    BY <1>0, <1>2, CursorTypes
  <2>3. QED BY <1>2, <2>1, <2>2
<1>4. crNacked' \in 0..CrNacks
  BY <1>0, <1>1, CursorBounds DEF CrTypeOK
<1>5. Visible' = Visible
  BY <1>1 DEF Visible
<1>6. CASE crOut[k].epoch = crEpoch
  <2>1. crLast' = crOut[k].from /\ crEpoch' = crEpoch + 1 /\ crStranded' = crStranded \cup OpenBefore(k)
    BY <1>6 DEF CrDrop
  <2>2. OpenBefore(k) \subseteq Rows
    <3>1. \A j \in 1..(k - 1) : j \in DOMAIN crOut
      BY <1>0, CursorTypes
    <3>2. QED BY <1>0, <3>1, CursorTypes DEF OpenBefore
  <2>3. /\ crLast' \in Nat /\ crStored <= crLast' /\ crSaving' <= crLast'
        /\ \E p \in crOut[k].rows : crOut[k].from < ValueOf[p] /\ ValueOf[p] <= crLast /\ p \in Rows
    BY <1>0, <1>1, <1>6, <2>1, CursorTypes DEF CrInv, PositionInv, BatchesInv, WholePage
  <2>4. crLast' <= crLast
    BY <1>0, <2>1, <2>3, CursorTypes
  <2>5. \A r \in Visible : ValueOf[r] <= crLast' => r \in crSink' \cup Forgone'
    BY <1>1, <1>6, <2>1 DEF CrInv, BatchesInv, Forgone
  <2>6. NoRowSkipped' /\ GuardHoldsBack' /\ BegunInOrder' /\ PageInv' /\ PositionInv' /\ BatchesInv' /\ SettledBehind'
    BY <1>1, <1>2, <1>3, <2>1, <2>3, <2>4, <2>5, RewoundKeeps
  <2>7. CrTypeOK'
    BY <1>0, <1>1, <1>2, <1>4, <2>1, <2>2, <2>3 DEF CrTypeOK
  <2>8. CheckpointSafe'
    BY <1>1, <1>5, <2>1 DEF CrInv, CursorReaderInv, CheckpointSafe, Forgone
  <2>9. QED BY <2>6, <2>7, <2>8 DEF CrInv, CursorReaderInv
<1>7. CASE crOut[k].epoch # crEpoch
  <2>1. UNCHANGED <<crLast, crEpoch, crStranded>>
    BY <1>7 DEF CrDrop
  <2>2. BatchesInv' /\ PositionInv' /\ Pending \subseteq Pending' \cup crSink'
    <3>1. /\ crSaving' <= crLast
          /\ \A i \in DOMAIN crOut : i # k /\ crOut[i].epoch = crEpoch => crSaving' <= crOut[i].from
      BY <1>1 DEF CrInv, PositionInv
    <3>2. QED BY <1>1, <1>2, <1>7, <2>1, <3>1, BatchGone
  <2>3. CrTypeOK'
    BY <1>0, <1>1, <1>2, <1>4, <2>1 DEF CrTypeOK
  <2>4. Forgone' = Forgone /\ TxOrdered' = TxOrdered /\ \A d : WholePage(d)' = WholePage(d)
    BY <1>1, <2>1 DEF Forgone, TxOrdered, WholePage, Visible
  <2>5. NoRowSkipped' /\ CheckpointSafe' /\ GuardHoldsBack' /\ PageInv' /\ BegunInOrder'
    BY <1>1, <1>5, <2>1, <2>2, <2>4
      DEF CrInv, CursorReaderInv, NoRowSkipped, CheckpointSafe, GuardHoldsBack, PageInv, BegunInOrder
  <2>6. SettledBehind'
    BY <1>1, <1>5, <2>1, <2>4 DEF CrInv, SettledBehind, Beyond
  <2>7. QED BY <2>2, <2>3, <2>5, <2>6 DEF CrInv, CursorReaderInv
<1>8. QED BY <1>6, <1>7

\* The reader starts again at the checkpoint, and a save ends.
LEMMA RestartKeeps ==
    ASSUME CrInv, CrRestart \/ CrSave PROVE CrInv'
<1>0. CrTypeOK /\ \A r \in Rows : ValueOf[r] \in Nat \ {0}
  BY CursorTypes DEF CrInv, CursorReaderInv
<1>1. CASE CrRestart
  <2>1. NoPage \in Pages /\ NoPage.rows = {} /\ <<>> \in Seq(Pages)
    BY DEF NoPage, Pages
  <2>2. /\ crLast' = crStored /\ crEpoch' = 0 /\ crPage' = NoPage /\ crOut' = <<>> /\ crSaving' = 0
        /\ crRestarted < CrRestarts /\ crRestarted' = crRestarted + 1
        /\ crLate' = {r \in crLate : ValueOf[r] <= crStored}
        /\ crStranded' = {r \in crStranded : ValueOf[r] <= crStored}
        /\ UNCHANGED <<crTxOf, crGuarded, crTx, crSink, crStored, crNacked>>
    BY <1>1 DEF CrRestart, crTable
  <2>3. CrTypeOK'
    BY <1>0, <2>1, <2>2, CursorBounds DEF CrTypeOK
  <2>4. /\ Visible' = Visible /\ TxOrdered' = TxOrdered /\ Visible \subseteq Rows
        /\ \A r \in Forgone : ValueOf[r] <= crStored => r \in Forgone'
    BY <2>2 DEF Visible, TxOrdered, Forgone
  <2>5. NoRowSkipped' /\ CheckpointSafe' /\ GuardHoldsBack'
    <3>1. \A r \in Visible : ValueOf[r] <= crStored => r \in crSink \cup Forgone'
      BY <2>4 DEF CrInv, CursorReaderInv, CheckpointSafe
    <3>2. \A r \in Visible : ~(ValueOf[r] <= 0)
      BY <1>0, <2>4
    <3>3. QED BY <2>2, <2>4, <3>1, <3>2 DEF CrInv, CursorReaderInv, NoRowSkipped, CheckpointSafe, GuardHoldsBack
  <2>6. BegunInOrder' /\ PageInv' /\ BatchesInv'
    BY <2>2 DEF CrInv, BegunInOrder, PageInv, BatchesInv
  <2>7. PositionInv'
    BY <1>0, <2>2, CursorTypes DEF PositionInv
  <2>8. ASSUME NEW r \in Rows, Beyond(ValueOf[r])' PROVE Beyond(ValueOf[r])
    <3>1. ValueOf[r] <= crStored /\ crStored <= crLast
      BY <2>1, <2>2, <2>8 DEF Beyond, CrInv, PositionInv
    <3>2. QED BY <1>0, <3>1, CursorTypes DEF Beyond
  <2>9. SettledBehind'
    BY <2>2, <2>4, <2>8 DEF CrInv, SettledBehind
  <2>10. QED BY <2>3, <2>5, <2>6, <2>7, <2>9 DEF CrInv, CursorReaderInv
<1>2. CASE CrSave
  <2>1. /\ crStored' \in {crStored, crSaving} /\ crSaving' = 0
        /\ UNCHANGED <<crTxOf, crGuarded, crTx, crLast, crEpoch, crPage, crOut, crSink, crRestarted, crNacked,
                       crLate, crStranded>>
    BY <1>2 DEF CrSave, crTable, crPassed
  <2>2. /\ Visible' = Visible /\ Visible \subseteq Rows /\ Pending' = Pending /\ Forgone' = Forgone
        /\ TxOrdered' = TxOrdered /\ \A i \in DOMAIN crOut : OpenBefore(i)' = OpenBefore(i)
        /\ \A d : WholePage(d)' = WholePage(d)
    BY <2>1 DEF Visible, Pending, Forgone, TxOrdered, OpenBefore, WholePage
  <2>3. CrTypeOK' /\ NoRowSkipped' /\ GuardHoldsBack'
    BY <2>1, <2>2 DEF CrInv, CursorReaderInv, CrTypeOK, NoRowSkipped, GuardHoldsBack
  <2>4. CheckpointSafe'
    BY <1>0, <2>1, <2>2 DEF CrInv, CursorReaderInv, CheckpointSafe
  <2>5. BegunInOrder' /\ PageInv' /\ BatchesInv'
    BY <2>1, <2>2 DEF CrInv, BegunInOrder, PageInv, BatchesInv
  <2>6. PositionInv'
    BY <1>0, <2>1, CursorTypes DEF CrInv, PositionInv
  <2>7. SettledBehind'
    BY <2>1, <2>2 DEF CrInv, SettledBehind, Beyond
  <2>8. QED BY <2>3, <2>4, <2>5, <2>6, <2>7 DEF CrInv, CursorReaderInv
<1>3. QED BY <1>1, <1>2

\* What the oldest batch confirms, the sink has or it is forgone: up to its lower bound by
\* the batches settled before it, from there to the boundary because the page is complete;
\* a row that ties with the boundary and was not acknowledged is stranded.
LEMMA ConfirmedTaken ==
    ASSUME CrInv, crOut # <<>>, Head(crOut).epoch = crEpoch, NEW acked \in Fronts(Head(crOut))
    PROVE  /\ Boundary(Head(crOut), acked) \in Nat
           /\ crStored <= Boundary(Head(crOut), acked) /\ Boundary(Head(crOut), acked) <= crLast
           /\ \A r \in Visible : ValueOf[r] <= Boundary(Head(crOut), acked) =>
                  r \in crSink \cup Forgone \cup Head(crOut).rows
<1>. DEFINE d == Head(crOut)
            top == Boundary(d, acked)
<1>0. CrTypeOK
  BY DEF CrInv, CursorReaderInv
<1>1. /\ crOut \in Seq(Pages) /\ 1 \in DOMAIN crOut /\ d = crOut[1]
      /\ d.rows \in SUBSET Rows /\ d.from \in Nat /\ \A r \in Rows : ValueOf[r] \in Nat
      /\ Visible \subseteq Rows /\ crLast \in Nat /\ crStored \in Nat
  BY <1>0, CursorTypes
<1>2. OpenBefore(1) = {}
  BY DEF OpenBefore
<1>3. /\ WholePage(d) /\ d.rows # {} /\ crStored <= d.from
      /\ \A p \in d.rows : ValueOf[p] <= crLast /\ d.from < ValueOf[p]
      /\ \A r \in Visible : ValueOf[r] <= d.from => r \in crSink \cup Forgone
  BY <1>1, <1>2 DEF CrInv, BatchesInv, PositionInv, WholePage
<1>4. acked \in SUBSET d.rows
  BY DEF Fronts
<1>. HIDE DEF d
<1>5. CASE acked = {}
  <2>1. top = d.from
    BY <1>5 DEF Boundary
  <2>2. d.from <= crLast
    BY <1>1, <1>3
  <2>3. QED BY <1>1, <1>3, <2>1, <2>2 DEF d
<1>6. CASE acked # {}
  <2>. DEFINE m == Max(acked)
  <2>1. m \in acked /\ ValueOf[m] \in Nat
    BY <1>1, <1>4, <1>6, TopValue
  <2>2. top = ValueOf[m]
    BY <1>6 DEF Boundary
  <2>. HIDE DEF m, top
  <2>3. ASSUME NEW r \in Visible, ValueOf[r] <= top, d.from < ValueOf[r] PROVE r \in d.rows \cup crLate
    BY <1>3, <1>4, <2>1, <2>2, <2>3 DEF WholePage
  <2>4. \A r \in Visible : ValueOf[r] <= top => r \in crSink \cup Forgone \cup d.rows
    BY <1>1, <1>3, <2>3 DEF Forgone
  <2>5. crStored <= top /\ top <= crLast
    BY <1>1, <1>3, <1>4, <2>1, <2>2
  <2>6. QED BY <2>1, <2>2, <2>4, <2>5 DEF top, d
<1>7. QED BY <1>5, <1>6

\* The oldest batch is settled.
LEMMA CommitBatchKeeps ==
    ASSUME CrInv, CrCommit PROVE CrInv'
<1>. DEFINE d == Head(crOut)
<1>0. CrTypeOK
  BY DEF CrInv, CursorReaderInv
<1>1. /\ crOut # <<>> /\ crSaving = 0 /\ crOut' = Tail(crOut)
      /\ UNCHANGED <<crTxOf, crGuarded, crTx, crPage, crStored, crRestarted, crLate>>
  BY DEF CrCommit, crTable
<1>2. PICK acked \in Fronts(d) :
            /\ acked # d.rows => crNacked < CrNacks
            /\ crNacked' = IF acked # d.rows THEN crNacked + 1 ELSE crNacked
            /\ \E behind \in SUBSET {r \in d.rows \ acked : \E s \in d.rows \ acked : s < r} :
                    crSink' = crSink \cup acked \cup behind
            /\ Confirm(d, acked)
            /\ crStranded' = crStranded \cup
                    {r \in d.rows \ acked : d.epoch = crEpoch /\ ValueOf[r] <= Boundary(d, acked)}
  BY DEF CrCommit
<1>3. /\ crOut \in Seq(Pages) /\ 1 \in DOMAIN crOut /\ d = crOut[1] /\ d.rows \in SUBSET Rows
      /\ Len(crOut) \in Nat /\ DOMAIN crOut = 1..Len(crOut)
  BY <1>0, <1>1, CursorTypes
<1>4. /\ crOut' \in Seq(Pages) /\ DOMAIN crOut' = 1..(Len(crOut) - 1)
      /\ \A i \in 1..(Len(crOut) - 1) : crOut'[i] = crOut[i + 1]
  BY <1>1, <1>3
<1>5. \A i \in 1..(Len(crOut) - 1) : crOut'[i] = IF i < 1 THEN crOut[i] ELSE crOut[i + 1]
  BY <1>3, <1>4
<1>6. \A i \in DOMAIN crOut' : \E j \in DOMAIN crOut : crOut'[i] = crOut[j]
  BY <1>3, <1>4
<1>7. crSink \cup acked \subseteq crSink' /\ crSink' \subseteq Rows /\ acked \subseteq d.rows
  BY <1>0, <1>2, <1>3 DEF Fronts, CrTypeOK
<1>8. crNacked' \in 0..CrNacks
  BY <1>0, <1>2, CursorBounds DEF CrTypeOK
<1>9. crStranded \subseteq crStranded' /\ crStranded' \subseteq Rows
  BY <1>0, <1>2, <1>3 DEF CrTypeOK
<1>10. /\ Visible' = Visible /\ Visible \subseteq Rows /\ TxOrdered' = TxOrdered /\ Forgone \subseteq Forgone'
       /\ \A e : WholePage(e)' = WholePage(e)
  BY <1>1, <1>9 DEF Visible, TxOrdered, Forgone, WholePage
<1>. HIDE DEF d
<1>11. CASE d.epoch # crEpoch
  <2>1. UNCHANGED <<crSaving, crLast, crEpoch>>
    BY <1>2, <1>11 DEF Confirm
  <2>2. BatchesInv' /\ PositionInv' /\ Pending \subseteq Pending' \cup crSink'
    <3>1. /\ crSaving' <= crLast
          /\ \A i \in DOMAIN crOut : i # 1 /\ crOut[i].epoch = crEpoch => crSaving' <= crOut[i].from
      BY <2>1 DEF CrInv, PositionInv
    <3>2. QED BY <1>1, <1>3, <1>4, <1>5, <1>7, <1>9, <1>11, <2>1, <3>1, BatchGone
  <2>3. CrTypeOK'
    BY <1>0, <1>1, <1>4, <1>7, <1>8, <1>9, <2>1 DEF CrTypeOK
  <2>4. NoRowSkipped' /\ CheckpointSafe' /\ GuardHoldsBack' /\ PageInv' /\ BegunInOrder'
    BY <1>1, <1>7, <1>10, <2>1, <2>2
      DEF CrInv, CursorReaderInv, NoRowSkipped, CheckpointSafe, GuardHoldsBack, PageInv, BegunInOrder
  <2>5. SettledBehind'
    BY <1>1, <1>10, <2>1 DEF CrInv, SettledBehind, Beyond
  <2>6. QED BY <2>2, <2>3, <2>4, <2>5 DEF CrInv, CursorReaderInv
<1>12. CASE d.epoch = crEpoch
  <2>. DEFINE top == Boundary(d, acked)
  <2>1. /\ top \in Nat /\ crStored <= top /\ top <= crLast
        /\ \A r \in Visible : ValueOf[r] <= top => r \in crSink \cup Forgone \cup d.rows
    BY <1>1, <1>12, ConfirmedTaken DEF d
  <2>2. /\ crSaving' = top
        /\ acked # d.rows => crLast' = top /\ crEpoch' = crEpoch + 1
        /\ acked = d.rows => UNCHANGED <<crLast, crEpoch>>
    BY <1>2, <1>12 DEF Confirm
  <2>3. \A r \in d.rows \ acked : ValueOf[r] <= top => r \in crStranded'
    BY <1>2, <1>12
  <2>. HIDE DEF top
  <2>4. \A r \in Visible : ValueOf[r] <= top => r \in crSink' \cup Forgone'
    BY <1>7, <1>10, <2>1, <2>3 DEF Forgone
  <2>5. CheckpointSafe'
    BY <1>1, <1>7, <1>10, <2>2, <2>4 DEF CrInv, CursorReaderInv, CheckpointSafe
  <2>6. CASE acked # d.rows
    <3>1. crSaving' <= crLast' /\ crLast' = top
      BY <2>1, <2>2, <2>6
    <3>2. NoRowSkipped' /\ GuardHoldsBack' /\ BegunInOrder' /\ PageInv' /\ PositionInv' /\ BatchesInv' /\ SettledBehind'
      BY <1>1, <1>4, <1>6, <2>1, <2>2, <2>4, <2>6, <3>1, RewoundKeeps
    <3>3. CrTypeOK'
      BY <1>0, <1>1, <1>4, <1>7, <1>8, <1>9, <2>1, <2>2, <2>6 DEF CrTypeOK
    <3>4. QED BY <2>5, <3>2, <3>3 DEF CrInv, CursorReaderInv
  <2>7. CASE acked = d.rows
    <3>1. \A i \in DOMAIN crOut : i # 1 /\ crOut[i].epoch = crEpoch => crSaving' <= crOut[i].from
      <4>1. d.rows # {} /\ Max(d.rows) \in d.rows
        BY <1>3, TopValue DEF CrInv, BatchesInv
      <4>2. top = ValueOf[Max(d.rows)]
        BY <2>7, <4>1 DEF top, Boundary
      <4>3. \A i \in DOMAIN crOut : i # 1 => 1 < i
        BY <1>3
      <4>4. QED BY <1>3, <1>12, <2>2, <4>1, <4>2, <4>3 DEF CrInv, PositionInv
    <3>2. BatchesInv' /\ PositionInv' /\ Pending \subseteq Pending' \cup crSink'
      BY <1>1, <1>3, <1>4, <1>5, <1>7, <1>9, <2>1, <2>2, <2>7, <3>1, BatchGone
    <3>3. CrTypeOK'
      BY <1>0, <1>1, <1>4, <1>7, <1>8, <1>9, <2>1, <2>2, <2>7 DEF CrTypeOK
    <3>4. NoRowSkipped' /\ GuardHoldsBack' /\ PageInv' /\ BegunInOrder'
      BY <1>1, <1>7, <1>10, <2>2, <2>7, <3>2
        DEF CrInv, CursorReaderInv, NoRowSkipped, GuardHoldsBack, PageInv, BegunInOrder
    <3>5. SettledBehind'
      BY <1>1, <1>10, <2>2, <2>7 DEF CrInv, SettledBehind, Beyond
    <3>6. QED BY <2>5, <3>2, <3>3, <3>4, <3>5 DEF CrInv, CursorReaderInv
  <2>8. QED BY <2>6, <2>7
<1>13. QED BY <1>11, <1>12

\* The cursor reader passes over no row and its checkpoint covers none the sink does not
\* have, but for the rows that committed behind it, that tie with the boundary of a nack, or
\* that were open when a later batch was dropped, whatever order the transactions commit in
\* and however often batches are nacked, dropped or re-read.  Where the guard is on and the
\* values follow the transactions, no row commits behind it.
THEOREM CursorSkipsNothing == CrSpec => []CursorReaderInv
<1>1. ASSUME CrInv, [CrNext]_crVars PROVE CrInv'
  <2>1. CASE \E t \in Txs : TxBegins(t) \/ TxCommits(t)
    BY <1>1, <2>1, DatabaseKeeps
  <2>2. CASE CrRead
    BY <1>1, <2>2, FetchKeeps, HandOnKeeps DEF CrRead
  <2>3. CASE CrSettle
    BY <1>1, <2>3, CommitBatchKeeps, RestartKeeps DEF CrSettle
  <2>4. CASE CrRestart
    BY <1>1, <2>4, RestartKeeps
  <2>5. CASE \E k \in DOMAIN crOut : CrDrop(k)
    BY <1>1, <2>5, DropKeeps
  <2>6. CASE UNCHANGED crVars
    BY <1>1, <2>6 DEF crVars, crTable, crPassed, CrInv, CursorReaderInv, CrTypeOK, NoRowSkipped, Pending, Visible,
                      CheckpointSafe, Forgone, GuardHoldsBack, TxOrdered, BegunInOrder, PageInv, PositionInv,
                      BatchesInv, OpenBefore, WholePage, SettledBehind, Beyond
  <2>7. QED BY <1>1, <2>1, <2>2, <2>3, <2>4, <2>5, <2>6 DEF CrNext
<1>2. CrInv => CursorReaderInv
  BY DEF CrInv
<1>3. QED BY <1>1, <1>2, CursorStarts, PTL DEF CrSpec

-----------------------------------------------------------------------------
(* The memory queue *)

\* The messages of a sequence of batches, and that no two batches share one.
Messages(q) == UNION {q[i] : i \in DOMAIN q}
Disjoint(q) == \A i, j \in DOMAIN q : i # j => q[i] \cap q[j] = {}

\* The first batch is taken off a channel, or one is put onto it.
LEMMA BatchOff ==
    ASSUME NEW q \in Seq(SUBSET MqMessages), q # <<>>, Disjoint(q), {} \notin Range(q)
    PROVE  /\ Tail(q) \in Seq(SUBSET MqMessages) /\ Len(Tail(q)) <= Len(q) /\ Disjoint(Tail(q))
           /\ Head(q) \in SUBSET MqMessages /\ Head(q) # {}
           /\ Messages(q) = Messages(Tail(q)) \cup Head(q) /\ Messages(Tail(q)) \cap Head(q) = {}
           /\ {} \notin Range(Tail(q))
<1>. DEFINE n == Len(q)
            r == Tail(q)
<1>1. /\ n \in Nat \ {0} /\ DOMAIN q = 1..n /\ r \in Seq(SUBSET MqMessages) /\ DOMAIN r = 1..(n - 1)
      /\ Len(r) = n - 1 /\ (\A i \in 1..(n - 1) : r[i] = q[i + 1]) /\ Head(q) = q[1]
      /\ q[1] \in SUBSET MqMessages
  OBVIOUS
<1>. HIDE DEF n, r
<1>2. \A i \in 1..(n - 1) : i + 1 \in 1..n /\ i + 1 # 1
  BY <1>1
<1>3. Disjoint(r)
  <2>1. SUFFICES ASSUME NEW i \in 1..(n - 1), NEW j \in 1..(n - 1), i # j PROVE r[i] \cap r[j] = {}
    BY <1>1 DEF Disjoint
  <2>2. i + 1 # j + 1
    BY <1>1, <2>1
  <2>3. QED BY <1>1, <1>2, <2>2 DEF Disjoint
<1>4. Messages(q) \subseteq Messages(r) \cup q[1]
  <2>1. SUFFICES ASSUME NEW i \in 1..n, NEW m \in q[i] PROVE m \in Messages(r) \cup q[1]
    BY <1>1 DEF Messages
  <2>2. CASE i = 1 BY <2>2
  <2>3. CASE i # 1
    <3>1. i - 1 \in 1..(n - 1) /\ (i - 1) + 1 = i
      BY <1>1, <2>3
    <3>2. i - 1 \in DOMAIN r /\ m \in r[i - 1]
      BY <1>1, <3>1
    <3>3. QED BY <3>2 DEF Messages
  <2>4. QED BY <2>2, <2>3
<1>5. Messages(r) \subseteq Messages(q) /\ q[1] \subseteq Messages(q) /\ Messages(r) \cap q[1] = {}
  <2>1. 1 \in DOMAIN q
    BY <1>1
  <2>2. \A i \in DOMAIN r : r[i] \subseteq Messages(q) /\ r[i] \cap q[1] = {}
    BY <1>1, <1>2, <2>1 DEF Disjoint, Messages
  <2>3. QED BY <2>1, <2>2 DEF Messages
<1>6. {} \notin Range(r) /\ q[1] # {}
  BY <1>1, <1>2 DEF Range
<1>7. Len(r) <= Len(q)
  BY <1>1 DEF n
<1>8. QED BY <1>1, <1>3, <1>4, <1>5, <1>6, <1>7 DEF r

LEMMA BatchOn ==
    ASSUME NEW q \in Seq(SUBSET MqMessages), Disjoint(q), {} \notin Range(q),
           NEW b \in SUBSET MqMessages, b # {}, b \cap Messages(q) = {}
    PROVE  /\ Append(q, b) \in Seq(SUBSET MqMessages) /\ Len(Append(q, b)) = Len(q) + 1
           /\ Disjoint(Append(q, b)) /\ {} \notin Range(Append(q, b))
           /\ Messages(Append(q, b)) = Messages(q) \cup b
<1>. DEFINE n == Len(q)
            r == Append(q, b)
<1>1. /\ n \in Nat /\ DOMAIN q = 1..n /\ r \in Seq(SUBSET MqMessages) /\ DOMAIN r = 1..(n + 1)
      /\ Len(r) = n + 1 /\ (\A i \in 1..n : r[i] = q[i]) /\ r[n + 1] = b
  OBVIOUS
<1>. HIDE DEF n, r
<1>2. \A i \in 1..(n + 1) : i \in 1..n \/ i = n + 1
  BY <1>1
<1>3. \A i \in 1..n : q[i] \subseteq Messages(q) /\ i \in 1..(n + 1) /\ i # n + 1
  BY <1>1 DEF Messages
<1>4. Disjoint(r)
  BY <1>1, <1>2, <1>3 DEF Disjoint
<1>5. {} \notin Range(r)
  BY <1>1, <1>2 DEF Range
<1>6. Messages(r) = Messages(q) \cup b
  <2>1. n + 1 \in DOMAIN r
    BY <1>1
  <2>2. b \subseteq Messages(r)
    BY <1>1, <2>1 DEF Messages
  <2>3. Messages(q) \subseteq Messages(r)
    BY <1>1, <1>3 DEF Messages
  <2>4. \A i \in DOMAIN r : r[i] \subseteq Messages(q) \cup b
    BY <1>1, <1>2, <1>3
  <2>5. Messages(r) \subseteq Messages(q) \cup b
    BY <2>4 DEF Messages
  <2>6. QED BY <2>2, <2>3, <2>5
<1>7. QED BY <1>1, <1>4, <1>5, <1>6 DEF n, r

\* The part of a batch that is handed on where there is room for n messages.
LEMMA PartFits ==
    ASSUME NEW b \in SUBSET MqMessages, b # {}, NEW n \in Nat \ {0}, NEW part \in Parts(b, n)
    PROVE  /\ part \subseteq b /\ part # {} /\ IsFiniteSet(part) /\ Cardinality(part) \in 1..n
           /\ Cardinality(b) <= n => part = b
           /\ ~(Cardinality(b) <= n) => Cardinality(part) = n
<1>1. IsFiniteSet(b) /\ Cardinality(b) \in Nat /\ Cardinality(b) # 0
  BY QueueBounds, FS_Subset, FS_CardinalityType, FS_EmptySet
<1>2. part \subseteq b /\ (Cardinality(b) <= n => part = b)
      /\ (~(Cardinality(b) <= n) => Cardinality(part) = n)
  BY DEF Parts, kSubset
<1>3. IsFiniteSet(part) /\ Cardinality(part) \in 1..n
  <2>1. IsFiniteSet(part)
    BY <1>1, <1>2, FS_Subset
  <2>2. QED BY <1>1, <1>2, <2>1
<1>4. part # {}
  BY <1>3, FS_EmptySet
<1>5. QED BY <1>2, <1>3, <1>4

\* What MqInv says of the channel.
LEMMA ChannelShape ==
    ASSUME MqInv
    PROVE  /\ mqChannel \in Seq(SUBSET MqMessages) /\ Len(mqChannel) <= MqCapacity
           /\ Disjoint(mqChannel) /\ {} \notin Range(mqChannel) /\ Messages(mqChannel) = InChannel
BY DEF MqInv, MemoryQueueInv, MqTypeOK, NoneTwice, BatchesApart, NoneEmpty, Disjoint, Messages, InChannel

\* Batches put back are on the channel, in a task or lost, and lost only where the channel
\* is closed or there is no runtime.
LEMMA RequeueKeeps ==
    ASSUME MqInv, NEW messages \in SUBSET MqMessages,
           \/ Requeue(messages)
           \/ messages # {} /\ (OntoChannel(messages) \/ Spawned(messages)),
           messages \cap InChannel = {}, messages \cap InTasks = {}
    PROVE  /\ mqChannel' \in Seq(SUBSET MqMessages) /\ Len(mqChannel') <= MqCapacity
           /\ Disjoint(mqChannel') /\ {} \notin Range(mqChannel')
           /\ mqTasks' \subseteq SUBSET MqMessages /\ {} \notin mqTasks'
           /\ \A t, u \in mqTasks' : t # u => t \cap u = {}
           /\ \/ InChannel' = InChannel \cup messages /\ InTasks' = InTasks /\ mqLost' = mqLost
              \/ InChannel' = InChannel /\ InTasks' = InTasks \cup messages /\ mqLost' = mqLost
              \/ InChannel' = InChannel /\ InTasks' = InTasks /\ mqLost' = mqLost \cup messages /\ (mqClosed \/ ~mqRuntime)
<1>1. /\ mqTasks \subseteq SUBSET MqMessages /\ {} \notin mqTasks
      /\ \A t, u \in mqTasks : t # u => t \cap u = {}
  BY DEF MqInv, MemoryQueueInv, MqTypeOK, NoneTwice, BatchesApart, NoneEmpty
<1>2. /\ mqChannel \in Seq(SUBSET MqMessages) /\ Len(mqChannel) <= MqCapacity
      /\ Disjoint(mqChannel) /\ {} \notin Range(mqChannel) /\ Messages(mqChannel) = InChannel
  BY ChannelShape
<1>3. InChannel' = Messages(mqChannel')
  BY DEF InChannel, Messages
<1>4. CASE messages = {} /\ UNCHANGED <<mqChannel, mqTasks, mqLost>>
  <2>1. InTasks' = InTasks
    BY <1>4 DEF InTasks
  <2>2. QED BY <1>1, <1>2, <1>3, <1>4, <2>1
<1>5. CASE messages # {} /\ OntoChannel(messages)
  <2>1. mqChannel' = Append(mqChannel, messages) /\ mqTasks' = mqTasks /\ mqLost' = mqLost /\ Len(mqChannel) < MqCapacity
    BY <1>5 DEF OntoChannel
  <2>2. InTasks' = InTasks
    BY <2>1 DEF InTasks
  <2>3. /\ mqChannel' \in Seq(SUBSET MqMessages) /\ Len(mqChannel') = Len(mqChannel) + 1
        /\ Disjoint(mqChannel') /\ {} \notin Range(mqChannel')
        /\ Messages(mqChannel') = InChannel \cup messages
    BY <1>2, <1>5, <2>1, BatchOn
  <2>4. Len(mqChannel') <= MqCapacity
    BY <1>2, <2>1, <2>3, QueueBounds
  <2>5. QED BY <1>1, <1>3, <2>1, <2>2, <2>3, <2>4
<1>6. CASE messages # {} /\ mqTasks' = mqTasks \cup {messages} /\ UNCHANGED <<mqChannel, mqLost>>
  <2>1. \A t \in mqTasks : t \cap messages = {}
    BY DEF InTasks
  <2>2. \A t, u \in mqTasks' : t # u => t \cap u = {}
    BY <1>1, <1>6, <2>1
  <2>3. InTasks' = InTasks \cup messages
    BY <1>6 DEF InTasks
  <2>4. QED BY <1>1, <1>2, <1>3, <1>6, <2>2, <2>3
<1>7. CASE mqLost' = mqLost \cup messages /\ (mqClosed \/ ~mqRuntime) /\ UNCHANGED <<mqChannel, mqTasks>>
  <2>1. InTasks' = InTasks
    BY <1>7 DEF InTasks
  <2>2. QED BY <1>1, <1>2, <1>3, <1>7, <2>1
<1>8. CASE messages # {} /\ Spawned(messages)
  BY <1>6, <1>7, <1>8 DEF Spawned
<1>9. QED BY <1>4, <1>5, <1>7, <1>8 DEF Requeue

\* What one consumer holds changes and the others keep theirs.
LEMMA ConsumerKeeps ==
    ASSUME MqInv, NEW c \in MqConsumers, NEW got \in SUBSET MqMessages, NEW rest \in SUBSET MqMessages,
           mqGot' = [mqGot EXCEPT ![c] = got], mqBuffer' = [mqBuffer EXCEPT ![c] = rest],
           (got \cup rest) \cap (WithConsumers \ (mqGot[c] \cup mqBuffer[c])) = {},
           got \cap rest = {}
    PROVE  /\ mqGot' \in [MqConsumers -> SUBSET MqMessages] /\ mqBuffer' \in [MqConsumers -> SUBSET MqMessages]
           /\ mqGot'[c] = got /\ mqBuffer'[c] = rest
           /\ \A e \in MqConsumers : e # c => mqGot'[e] = mqGot[e] /\ mqBuffer'[e] = mqBuffer[e]
           /\ WithConsumers' = (WithConsumers \ (mqGot[c] \cup mqBuffer[c])) \cup got \cup rest
           /\ \A e, f \in MqConsumers : e # f =>
                (mqGot'[e] \cup mqBuffer'[e]) \cap (mqGot'[f] \cup mqBuffer'[f]) = {}
           /\ \A e \in MqConsumers : mqGot'[e] \cap mqBuffer'[e] = {}
<1>1. /\ mqGot \in [MqConsumers -> SUBSET MqMessages] /\ mqBuffer \in [MqConsumers -> SUBSET MqMessages]
      /\ \A e, f \in MqConsumers : e # f => (mqGot[e] \cup mqBuffer[e]) \cap (mqGot[f] \cup mqBuffer[f]) = {}
      /\ \A e \in MqConsumers : mqGot[e] \cap mqBuffer[e] = {}
  BY DEF MqInv, MemoryQueueInv, MqTypeOK, NoneTwice, BatchesApart
<1>2. /\ mqGot' \in [MqConsumers -> SUBSET MqMessages] /\ mqBuffer' \in [MqConsumers -> SUBSET MqMessages]
      /\ mqGot'[c] = got /\ mqBuffer'[c] = rest
      /\ \A e \in MqConsumers : e # c => mqGot'[e] = mqGot[e] /\ mqBuffer'[e] = mqBuffer[e]
  BY <1>1
<1>. DEFINE held(e) == mqGot[e] \cup mqBuffer[e]
            next(e) == mqGot'[e] \cup mqBuffer'[e]
<1>3. \A e \in MqConsumers : e # c => /\ held(e) \subseteq WithConsumers \ held(c)
                                      /\ next(e) = held(e)
  BY <1>1, <1>2 DEF WithConsumers
<1>4. next(c) = got \cup rest /\ WithConsumers = UNION {held(e) : e \in MqConsumers}
      /\ WithConsumers' = UNION {next(e) : e \in MqConsumers}
  BY <1>2 DEF WithConsumers
<1>5. \A e, f \in MqConsumers : e # f => held(e) \cap held(f) = {}
  BY <1>1
<1>. HIDE DEF held, next
<1>6. \A e, f \in MqConsumers : e # f => next(e) \cap next(f) = {}
  <2>1. (got \cup rest) \cap (WithConsumers \ held(c)) = {}
    BY DEF held
  <2>2. QED BY <1>3, <1>4, <1>5, <2>1
<1>7. UNION {next(e) : e \in MqConsumers} = (WithConsumers \ held(c)) \cup (got \cup rest)
  <2>1. ASSUME NEW m \in UNION {next(e) : e \in MqConsumers}
        PROVE  m \in (WithConsumers \ held(c)) \cup (got \cup rest)
    <3>1. PICK e \in MqConsumers : m \in next(e)
      OBVIOUS
    <3>2. QED BY <1>3, <1>4, <3>1
  <2>2. ASSUME NEW m \in WithConsumers \ held(c) PROVE m \in UNION {next(e) : e \in MqConsumers}
    <3>1. PICK e \in MqConsumers : m \in held(e)
      BY <1>4
    <3>2. e # c
      BY <2>2, <3>1
    <3>3. QED BY <1>3, <3>1, <3>2
  <2>3. got \cup rest \subseteq UNION {next(e) : e \in MqConsumers}
    BY <1>4
  <2>4. QED BY <2>1, <2>2, <2>3
<1>8. \A e \in MqConsumers : mqGot'[e] \cap mqBuffer'[e] = {}
  BY <1>1, <1>2
<1>9. QED BY <1>2, <1>4, <1>6, <1>7, <1>8 DEF held, next

LEMMA QueueStarts == MqInit => MqInv
<1>. SUFFICES ASSUME MqInit PROVE MqInv
  OBVIOUS
<1>1. /\ InChannel = {} /\ WithConsumers = {} /\ WithRoute = {} /\ InTasks = {} /\ Published = {}
  <2>1. InChannel = {} /\ Published = {}
    BY DEF MqInit, InChannel, Published
  <2>2. WithConsumers = {}
    BY DEF MqInit, WithConsumers
  <2>3. WithRoute = {} /\ InTasks = {}
    BY DEF MqInit, WithRoute, InTasks
  <2>4. QED BY <2>1, <2>2, <2>3
<1>2. Len(MqBatches) \in Nat
  BY QueueBounds
<1>3. MqTypeOK
  <2>1. mqNackable \in BOOLEAN /\ mqClosed \in BOOLEAN /\ mqRuntime \in BOOLEAN
    BY DEF MqInit
  <2>2. mqChannel \in Seq(SUBSET MqMessages) /\ Len(mqChannel) <= MqCapacity
    BY QueueBounds DEF MqInit
  <2>3. mqSent \in 0..Len(MqBatches) /\ mqNacked \in 0..MqNacks
    BY <1>2, QueueBounds DEF MqInit
  <2>4. QED BY <2>1, <2>2, <2>3 DEF MqInit, MqTypeOK
<1>4. NoneVanishes /\ NoneLost /\ PlacesApart
  BY <1>1 DEF MqInit, NoneVanishes, NoneLost, PlacesApart, Gone
<1>5. BatchesApart /\ NackKeeps /\ DeliveriesFit
  BY DEF MqInit, BatchesApart, NackKeeps, DeliveriesFit
<1>6. ShortLeavesNothing
  BY QueueBounds, FS_EmptySet DEF MqInit, ShortLeavesNothing
<1>7. NoneEmpty
  BY DEF MqInit, NoneEmpty, Range
<1>8. QED BY <1>3, <1>4, <1>5, <1>6, <1>7 DEF MqInv, MemoryQueueInv, NoneTwice

\* What an action must keep, given that the batches of each place are apart.
LEMMA QueueParts ==
    ASSUME MqInv
    PROVE  /\ MqTypeOK /\ NoneVanishes /\ NoneLost /\ PlacesApart /\ BatchesApart /\ NackKeeps /\ DeliveriesFit
           /\ ShortLeavesNothing /\ NoneEmpty
BY DEF MqInv, MemoryQueueInv, NoneTwice

LEMMA SendBatchKeeps ==
    ASSUME MqInv, MqSend PROVE MqInv'
<1>. DEFINE k == mqSent + 1
            b == MqBatches[k]
<1>1. /\ mqSent < Len(MqBatches) /\ Len(mqChannel) < MqCapacity
      /\ mqSent' = k /\ mqChannel' = Append(mqChannel, b)
      /\ UNCHANGED <<mqNackable, mqClosed, mqRuntime, mqGot, mqBuffer, mqOut, mqFailed, mqTasks, mqAcked, mqDropped,
                     mqLost, mqNacked>>
  BY DEF MqSend, mqEnv
<1>2. /\ MqBatches \in Seq(SUBSET MqMessages) /\ Len(MqBatches) \in Nat /\ DOMAIN MqBatches = 1..Len(MqBatches)
      /\ mqSent \in 0..Len(MqBatches)
  BY QueueBounds DEF MqInv, MemoryQueueInv, MqTypeOK
<1>3. k \in DOMAIN MqBatches /\ k \in 0..Len(MqBatches) /\ 1..k = 1..mqSent \cup {k}
      /\ \A i \in 1..mqSent : i \in DOMAIN MqBatches /\ i # k
  BY <1>1, <1>2
<1>4. b \in SUBSET MqMessages /\ b # {} /\ b \cap Published = {}
  BY <1>2, <1>3, QueueBounds DEF Published
<1>5. Published' = Published \cup b
  <2>1. Published' = UNION {MqBatches[i] : i \in 1..k}
    BY <1>1 DEF Published
  <2>2. QED BY <1>3, <2>1 DEF Published
<1>. HIDE DEF b
<1>6. b \cap InChannel = {}
  BY <1>4 DEF MqInv, MemoryQueueInv, NoneVanishes
<1>7. /\ mqChannel' \in Seq(SUBSET MqMessages) /\ Len(mqChannel') = Len(mqChannel) + 1
      /\ Disjoint(mqChannel') /\ {} \notin Range(mqChannel') /\ Messages(mqChannel') = InChannel \cup b
  BY <1>1, <1>4, <1>6, ChannelShape, BatchOn
<1>8. InChannel' = InChannel \cup b /\ UNCHANGED <<WithConsumers, WithRoute, InTasks>>
  BY <1>1, <1>7 DEF InChannel, Messages, WithConsumers, WithRoute, InTasks
<1>9. Len(mqChannel') <= MqCapacity
  BY <1>1, <1>7, ChannelShape, QueueBounds
<1>10. MqTypeOK' /\ NackKeeps' /\ DeliveriesFit' /\ ShortLeavesNothing'
  BY <1>1, <1>3, <1>7, <1>9, QueueParts DEF MqTypeOK, NackKeeps, DeliveriesFit, ShortLeavesNothing
<1>11. NoneEmpty' /\ BatchesApart'
  BY <1>1, <1>7, QueueParts DEF NoneEmpty, BatchesApart, Disjoint
<1>12. NoneVanishes' /\ NoneLost' /\ PlacesApart'
  BY <1>1, <1>4, <1>5, <1>8, QueueParts DEF NoneVanishes, NoneLost, PlacesApart, Gone
<1>13. QED BY <1>10, <1>11, <1>12 DEF MqInv, MemoryQueueInv, NoneTwice

\* A receive_batch takes its first messages.
LEMMA FirstKeeps ==
    ASSUME MqInv, NEW c \in MqConsumers, MqFirst(c) PROVE MqInv'
<1>. DEFINE buffered == mqBuffer[c] # {}
            b == IF buffered THEN mqBuffer[c] ELSE Head(mqChannel)
<1>1. /\ mqGot[c] = {} /\ (buffered \/ mqChannel # <<>>)
      /\ mqChannel' = IF buffered THEN mqChannel ELSE Tail(mqChannel)
      /\ UNCHANGED <<mqNackable, mqClosed, mqRuntime, mqSent, mqOut, mqFailed, mqTasks, mqAcked, mqDropped, mqLost,
                     mqNacked>>
  BY DEF MqFirst, mqEnv
<1>2. PICK part \in Parts(b, MqMax) : /\ mqGot' = [mqGot EXCEPT ![c] = part]
                                      /\ mqBuffer' = [mqBuffer EXCEPT ![c] = b \ part]
  BY DEF MqFirst
<1>. DEFINE taken == IF buffered THEN {} ELSE b
            mine == mqGot[c] \cup mqBuffer[c]
<1>3. /\ mqChannel' \in Seq(SUBSET MqMessages) /\ Len(mqChannel') <= MqCapacity
      /\ Disjoint(mqChannel') /\ {} \notin Range(mqChannel')
      /\ b \in SUBSET MqMessages /\ b # {}
      /\ InChannel = InChannel' \cup taken /\ InChannel' \cap taken = {}
  <2>0. InChannel' = Messages(mqChannel')
    BY DEF InChannel, Messages
  <2>1. CASE buffered
    <3>1. mqBuffer[c] \in SUBSET MqMessages
      BY QueueParts DEF MqTypeOK
    <3>2. mqChannel' = mqChannel
      BY <1>1, <2>1
    <3>3. QED BY <2>0, <2>1, <3>1, <3>2, ChannelShape
  <2>2. CASE ~buffered
    <3>1. mqChannel' = Tail(mqChannel) /\ mqChannel # <<>> /\ b = Head(mqChannel) /\ taken = Head(mqChannel)
      BY <1>1, <2>2
    <3>2. /\ Tail(mqChannel) \in Seq(SUBSET MqMessages) /\ Len(Tail(mqChannel)) <= Len(mqChannel)
          /\ Disjoint(Tail(mqChannel)) /\ {} \notin Range(Tail(mqChannel))
          /\ Head(mqChannel) \in SUBSET MqMessages /\ Head(mqChannel) # {}
          /\ InChannel = Messages(Tail(mqChannel)) \cup Head(mqChannel)
          /\ Messages(Tail(mqChannel)) \cap Head(mqChannel) = {}
      BY <3>1, ChannelShape, BatchOff
    <3>3. Len(Tail(mqChannel)) <= MqCapacity
      BY <3>2, ChannelShape, QueueBounds
    <3>. HIDE DEF b, taken
    <3>4. QED BY <2>0, <3>1, <3>2, <3>3
  <2>3. QED BY <2>1, <2>2
<1>4. /\ part \subseteq b /\ IsFiniteSet(part) /\ Cardinality(part) \in 1..MqMax
      /\ Cardinality(part) < MqMax => part = b
  <2>1. MqMax \in Nat \ {0}
    BY QueueBounds
  <2>. HIDE DEF b
  <2>2. QED BY <1>3, <2>1, PartFits
<1>5. b = taken \cup mine /\ taken \cap WithConsumers = {}
  <2>1. taken \subseteq InChannel
    BY <1>3
  <2>2. taken \cap WithConsumers = {}
    BY <2>1, QueueParts DEF PlacesApart
  <2>3. QED BY <1>1, <2>2
<1>6. mine \subseteq WithConsumers
  BY DEF WithConsumers
<1>. HIDE DEF b, taken
<1>7. /\ mqGot' \in [MqConsumers -> SUBSET MqMessages] /\ mqBuffer' \in [MqConsumers -> SUBSET MqMessages]
      /\ mqGot'[c] = part /\ mqBuffer'[c] = b \ part
      /\ \A e \in MqConsumers : e # c => mqGot'[e] = mqGot[e] /\ mqBuffer'[e] = mqBuffer[e]
      /\ WithConsumers' = (WithConsumers \ mine) \cup part \cup (b \ part)
      /\ \A e, f \in MqConsumers : e # f =>
            (mqGot'[e] \cup mqBuffer'[e]) \cap (mqGot'[f] \cup mqBuffer'[f]) = {}
      /\ \A e \in MqConsumers : mqGot'[e] \cap mqBuffer'[e] = {}
  <2>1. part \in SUBSET MqMessages /\ b \ part \in SUBSET MqMessages /\ part \cap (b \ part) = {}
    BY <1>3, <1>4
  <2>2. (part \cup (b \ part)) \cap (WithConsumers \ mine) = {}
    BY <1>4, <1>5
  <2>3. QED BY <1>2, <2>1, <2>2, ConsumerKeeps
<1>8. WithConsumers' = WithConsumers \cup taken /\ UNCHANGED <<Published, WithRoute, InTasks>>
  <2>1. WithConsumers' = WithConsumers \cup taken
    BY <1>4, <1>5, <1>6, <1>7
  <2>2. QED BY <1>1, <2>1 DEF Published, WithRoute, InTasks
<1>9. MqTypeOK' /\ NackKeeps' /\ DeliveriesFit' /\ NoneEmpty'
  BY <1>1, <1>3, <1>7, QueueParts DEF MqTypeOK, NackKeeps, DeliveriesFit, NoneEmpty
<1>10. ShortLeavesNothing'
  BY <1>4, <1>7, QueueParts, QueueBounds DEF ShortLeavesNothing
<1>11. BatchesApart'
  BY <1>1, <1>3, <1>7, QueueParts DEF BatchesApart, Disjoint
<1>12. NoneVanishes' /\ NoneLost' /\ PlacesApart'
  BY <1>1, <1>3, <1>8, QueueParts DEF NoneVanishes, NoneLost, PlacesApart, Gone
<1>13. QED BY <1>9, <1>10, <1>11, <1>12 DEF MqInv, MemoryQueueInv, NoneTwice

\* It tops up with another batch.  What it has came up short, so the consumer keeps no

\* rest that this one could replace.
LEMMA MoreKeeps ==
    ASSUME MqInv, NEW c \in MqConsumers, MqMore(c) PROVE MqInv'
<1>. DEFINE b == Head(mqChannel)
            got == mqGot[c]
            room == MqMax - Cardinality(got)
<1>1. /\ got # {} /\ WantsMore(got) /\ mqChannel # <<>> /\ mqChannel' = Tail(mqChannel)
      /\ UNCHANGED <<mqNackable, mqClosed, mqRuntime, mqSent, mqOut, mqFailed, mqTasks, mqAcked, mqDropped, mqLost,
                     mqNacked>>
  BY DEF MqMore, mqEnv
<1>2. PICK part \in Parts(b, room) :
            /\ mqGot' = [mqGot EXCEPT ![c] = got \cup part]
            /\ mqBuffer' = IF Cardinality(b) <= room THEN mqBuffer
                             ELSE [mqBuffer EXCEPT ![c] = b \ part]
  BY DEF MqMore
<1>3. /\ mqChannel' \in Seq(SUBSET MqMessages) /\ Len(mqChannel') <= MqCapacity
      /\ Disjoint(mqChannel') /\ {} \notin Range(mqChannel')
      /\ b \in SUBSET MqMessages /\ b # {}
      /\ InChannel = InChannel' \cup b /\ InChannel' \cap b = {}
  <2>0. InChannel' = Messages(mqChannel')
    BY DEF InChannel, Messages
  <2>1. /\ mqChannel' \in Seq(SUBSET MqMessages) /\ Len(mqChannel') <= Len(mqChannel)
        /\ Disjoint(mqChannel') /\ {} \notin Range(mqChannel')
        /\ b \in SUBSET MqMessages /\ b # {}
        /\ InChannel = Messages(mqChannel') \cup b /\ Messages(mqChannel') \cap b = {}
    BY <1>1, ChannelShape, BatchOff
  <2>2. Len(mqChannel') <= MqCapacity
    BY <2>1, ChannelShape, QueueBounds
  <2>3. QED BY <2>0, <2>1, <2>2
<1>4. got \in SUBSET MqMessages /\ mqBuffer \in [MqConsumers -> SUBSET MqMessages]
  BY QueueParts DEF MqTypeOK
<1>5. IsFiniteSet(got) /\ Cardinality(got) \in Nat
  BY <1>4, QueueBounds, FS_Subset, FS_CardinalityType
<1>6. room \in Nat \ {0} /\ Cardinality(got) + room = MqMax /\ Cardinality(got) < MqMax
  BY <1>1, <1>5, QueueBounds DEF WantsMore
<1>7. mqBuffer[c] = {}
  BY <1>1, <1>6, QueueParts DEF ShortLeavesNothing
<1>. HIDE DEF b, room
<1>8. /\ part \subseteq b /\ IsFiniteSet(part) /\ Cardinality(part) \in 1..room
      /\ Cardinality(b) <= room => part = b
      /\ ~(Cardinality(b) <= room) => Cardinality(part) = room
  BY <1>3, <1>6, PartFits
<1>9. mqBuffer' = [mqBuffer EXCEPT ![c] = b \ part]
  <2>1. CASE ~(Cardinality(b) <= room) BY <1>2, <2>1
  <2>2. CASE Cardinality(b) <= room
    <3>1. b \ part = {} /\ mqBuffer' = mqBuffer
      BY <1>2, <1>8, <2>2
    <3>2. QED BY <1>4, <1>7, <3>1
  <2>3. QED BY <2>1, <2>2
<1>10. b \cap WithConsumers = {} /\ got \subseteq WithConsumers
  <2>1. got \subseteq WithConsumers
    BY DEF WithConsumers
  <2>2. QED BY <1>3, <2>1, QueueParts DEF PlacesApart
<1>11. Cardinality(got \cup part) = Cardinality(got) + Cardinality(part)
  <2>1. got \cap part = {}
    BY <1>8, <1>10
  <2>2. Cardinality(got \cup part) = Cardinality(got) + Cardinality(part) - Cardinality(got \cap part)
    BY <1>5, <1>8, FS_Union
  <2>3. Cardinality(got \cap part) = 0
    BY <2>1, FS_EmptySet
  <2>4. Cardinality(part) \in Nat
    BY <1>6, <1>8
  <2>5. QED BY <1>5, <2>2, <2>3, <2>4
<1>12. /\ mqGot' \in [MqConsumers -> SUBSET MqMessages] /\ mqBuffer' \in [MqConsumers -> SUBSET MqMessages]
       /\ mqGot'[c] = got \cup part /\ mqBuffer'[c] = b \ part
       /\ \A e \in MqConsumers : e # c => mqGot'[e] = mqGot[e] /\ mqBuffer'[e] = mqBuffer[e]
       /\ WithConsumers' = (WithConsumers \ (got \cup mqBuffer[c])) \cup (got \cup part) \cup (b \ part)
       /\ \A e, f \in MqConsumers : e # f =>
             (mqGot'[e] \cup mqBuffer'[e]) \cap (mqGot'[f] \cup mqBuffer'[f]) = {}
       /\ \A e \in MqConsumers : mqGot'[e] \cap mqBuffer'[e] = {}
  <2>1. got \cup part \in SUBSET MqMessages /\ b \ part \in SUBSET MqMessages
        /\ (got \cup part) \cap (b \ part) = {}
    BY <1>3, <1>4, <1>8, <1>10
  <2>2. ((got \cup part) \cup (b \ part)) \cap (WithConsumers \ (got \cup mqBuffer[c])) = {}
    BY <1>8, <1>10
  <2>3. QED BY <1>2, <1>9, <2>1, <2>2, ConsumerKeeps
<1>13. WithConsumers' = WithConsumers \cup b /\ UNCHANGED <<Published, WithRoute, InTasks>>
  <2>1. WithConsumers' = WithConsumers \cup b
    BY <1>7, <1>8, <1>10, <1>12
  <2>2. QED BY <1>1, <2>1 DEF Published, WithRoute, InTasks
<1>14. MqTypeOK' /\ NackKeeps' /\ DeliveriesFit' /\ NoneEmpty'
  BY <1>1, <1>3, <1>12, QueueParts DEF MqTypeOK, NackKeeps, DeliveriesFit, NoneEmpty
<1>15. ShortLeavesNothing'
  <2>1. Cardinality(got \cup part) <= MqMax
    BY <1>5, <1>6, <1>8, <1>11
  <2>2. Cardinality(got \cup part) < MqMax => b \ part = {}
    BY <1>5, <1>6, <1>8, <1>11
  <2>3. QED BY <1>12, <2>1, <2>2, QueueParts DEF ShortLeavesNothing
<1>16. BatchesApart'
  BY <1>1, <1>3, <1>12, QueueParts DEF BatchesApart, Disjoint
<1>17. NoneVanishes' /\ NoneLost' /\ PlacesApart'
  BY <1>1, <1>3, <1>13, QueueParts DEF NoneVanishes, NoneLost, PlacesApart, Gone
<1>18. QED BY <1>14, <1>15, <1>16, <1>17 DEF MqInv, MemoryQueueInv, NoneTwice

\* It hands on what it got.
LEMMA HandOnQueueKeeps ==
    ASSUME MqInv, NEW c \in MqConsumers, MqHandOn(c) PROVE MqInv'
<1>. DEFINE got == mqGot[c]
<1>1. /\ got # {} /\ mqOut' = mqOut \cup {got} /\ mqGot' = [mqGot EXCEPT ![c] = {}]
      /\ UNCHANGED <<mqNackable, mqClosed, mqRuntime, mqSent, mqChannel, mqBuffer, mqFailed, mqTasks, mqAcked,
                     mqDropped, mqLost, mqNacked>>
  BY DEF MqHandOn, mqEnv
<1>2. got \in SUBSET MqMessages /\ mqBuffer \in [MqConsumers -> SUBSET MqMessages]
  BY QueueParts DEF MqTypeOK
<1>3. got \cap mqBuffer[c] = {} /\ got \cup mqBuffer[c] \subseteq WithConsumers
  BY QueueParts DEF BatchesApart, WithConsumers
<1>4. /\ mqGot' \in [MqConsumers -> SUBSET MqMessages] /\ mqBuffer' \in [MqConsumers -> SUBSET MqMessages]
      /\ mqGot'[c] = {} /\ mqBuffer'[c] = mqBuffer[c]
      /\ \A e \in MqConsumers : e # c => mqGot'[e] = mqGot[e] /\ mqBuffer'[e] = mqBuffer[e]
      /\ WithConsumers' = (WithConsumers \ (got \cup mqBuffer[c])) \cup {} \cup mqBuffer[c]
      /\ \A e, f \in MqConsumers : e # f =>
            (mqGot'[e] \cup mqBuffer'[e]) \cap (mqGot'[f] \cup mqBuffer'[f]) = {}
      /\ \A e \in MqConsumers : mqGot'[e] \cap mqBuffer'[e] = {}
  <2>1. mqBuffer' = [mqBuffer EXCEPT ![c] = mqBuffer[c]] /\ mqBuffer[c] \in SUBSET MqMessages
    BY <1>1, <1>2
  <2>2. ({} \cup mqBuffer[c]) \cap (WithConsumers \ (got \cup mqBuffer[c])) = {} /\ {} \cap mqBuffer[c] = {}
    OBVIOUS
  <2>3. {} \in SUBSET MqMessages
    OBVIOUS
  <2>4. QED BY <1>1, <2>1, <2>2, <2>3, ConsumerKeeps
<1>5. Cardinality(got) \in 1..MqMax
  <2>1. IsFiniteSet(got) /\ Cardinality(got) \in Nat /\ Cardinality(got) # 0
    BY <1>1, <1>2, QueueBounds, FS_Subset, FS_CardinalityType, FS_EmptySet
  <2>2. Cardinality(got) <= MqMax
    BY QueueParts DEF ShortLeavesNothing
  <2>3. QED BY <2>1, <2>2, QueueBounds
<1>6. got \cap WithRoute = {}
  BY <1>3, QueueParts DEF PlacesApart
<1>. HIDE DEF got
<1>7. /\ WithConsumers' = WithConsumers \ got /\ WithRoute' = WithRoute \cup got
      /\ UNCHANGED <<Published, InChannel, InTasks>>
  <2>1. WithConsumers' = WithConsumers \ got
    BY <1>3, <1>4
  <2>2. WithRoute' = WithRoute \cup got
    BY <1>1 DEF WithRoute
  <2>3. QED BY <1>1, <2>1, <2>2 DEF Published, InChannel, InTasks
<1>8. \A d, e \in mqOut' : d # e => d \cap e = {}
  <2>1. \A d \in mqOut : d \cap got = {}
    BY <1>6 DEF WithRoute
  <2>2. QED BY <1>1, <2>1, QueueParts DEF BatchesApart
<1>9. MqTypeOK' /\ NackKeeps' /\ NoneEmpty'
  BY <1>1, <1>2, <1>4, QueueParts DEF MqTypeOK, NackKeeps, NoneEmpty
<1>10. DeliveriesFit'
  BY <1>1, <1>5, QueueParts DEF DeliveriesFit
<1>11. ShortLeavesNothing'
  <2>1. Cardinality({}) <= MqMax
    BY QueueBounds, FS_EmptySet
  <2>2. \A e \in MqConsumers :
          /\ Cardinality(mqGot[e]) <= MqMax
          /\ (mqGot[e] # {} /\ Cardinality(mqGot[e]) < MqMax) => mqBuffer[e] = {}
    BY QueueParts DEF ShortLeavesNothing
  <2>3. \A e \in MqConsumers :
          /\ Cardinality(mqGot'[e]) <= MqMax
          /\ (mqGot'[e] # {} /\ Cardinality(mqGot'[e]) < MqMax) => mqBuffer'[e] = {}
    BY <1>4, <2>1, <2>2
  <2>4. QED BY <2>3 DEF ShortLeavesNothing
<1>12. BatchesApart'
  BY <1>1, <1>4, <1>8, QueueParts DEF BatchesApart
<1>13. NoneVanishes' /\ NoneLost' /\ PlacesApart'
  BY <1>1, <1>3, <1>7, QueueParts DEF NoneVanishes, NoneLost, PlacesApart, Gone
<1>14. QED BY <1>9, <1>10, <1>11, <1>12, <1>13 DEF MqInv, MemoryQueueInv, NoneTwice

\* A delivery is settled or dropped: some of it is acknowledged and the rest given back.
LEMMA SettleKeeps ==
    ASSUME MqInv, NEW d \in mqOut, MqCommit(d) \/ MqDrop(d) PROVE MqInv'
<1>1. /\ mqOut' = mqOut \ {d} /\ mqFailed' = mqFailed \ d
      /\ UNCHANGED <<mqNackable, mqClosed, mqRuntime, mqSent, mqGot, mqBuffer>>
  BY DEF MqCommit, MqDrop, mqEnv
<1>2. PICK acked \in SUBSET d : mqAcked' = mqAcked \cup acked /\ GiveBack(d \ acked)
  <2>1. CASE MqCommit(d)
    <3>1. d \ (d \ mqFailed) = d \cap mqFailed /\ d \ mqFailed \in SUBSET d
      OBVIOUS
    <3>2. mqAcked' = mqAcked \cup (d \ mqFailed) /\ GiveBack(d \cap mqFailed)
      BY <2>1 DEF MqCommit
    <3>3. GiveBack(d \ (d \ mqFailed))
      BY <3>1, <3>2
    <3>4. QED BY <3>1, <3>2, <3>3
  <2>2. CASE MqDrop(d)
    <3>1. d \ {} = d /\ {} \in SUBSET d /\ mqAcked \cup {} = mqAcked
      OBVIOUS
    <3>2. mqAcked' = mqAcked /\ GiveBack(d)
      BY <2>2 DEF MqDrop
    <3>3. GiveBack(d \ {})
      BY <3>1, <3>2
    <3>4. QED BY <3>1, <3>2, <3>3
  <2>3. QED BY <2>1, <2>2
<1>. DEFINE rest == d \ acked
<1>3. /\ d \in SUBSET MqMessages /\ d \subseteq WithRoute /\ rest \in SUBSET MqMessages
      /\ rest \cap InChannel = {} /\ rest \cap InTasks = {} /\ acked \cup rest = d /\ acked \cap rest = {}
  <2>1. d \in SUBSET MqMessages /\ d \subseteq WithRoute
    BY QueueParts DEF MqTypeOK, WithRoute
  <2>2. d \cap InChannel = {} /\ d \cap InTasks = {}
    BY <2>1, QueueParts DEF PlacesApart
  <2>3. QED BY <2>1, <2>2
<1>4. mqNacked' \in 0..MqNacks
  BY QueueParts, QueueBounds DEF MqTypeOK, MqCommit, MqDrop
<1>5. /\ WithRoute' = WithRoute \ d /\ UNCHANGED <<Published, WithConsumers>>
  <2>1. WithRoute' = WithRoute \ d
    BY <1>1, QueueParts DEF WithRoute, BatchesApart
  <2>2. QED BY <1>1, <2>1 DEF Published, WithConsumers
<1>. HIDE DEF rest
<1>6. /\ mqChannel' \in Seq(SUBSET MqMessages) /\ Len(mqChannel') <= MqCapacity
      /\ Disjoint(mqChannel') /\ {} \notin Range(mqChannel')
      /\ mqTasks' \subseteq SUBSET MqMessages /\ {} \notin mqTasks'
      /\ \A t, u \in mqTasks' : t # u => t \cap u = {}
      /\ \/ /\ InChannel' = InChannel \cup rest /\ InTasks' = InTasks /\ mqDropped' = mqDropped /\ mqLost' = mqLost
         \/ /\ InChannel' = InChannel /\ InTasks' = InTasks \cup rest /\ mqDropped' = mqDropped /\ mqLost' = mqLost
         \/ /\ InChannel' = InChannel /\ InTasks' = InTasks /\ mqDropped' = mqDropped \cup rest /\ mqLost' = mqLost
            /\ ~mqNackable
         \/ /\ InChannel' = InChannel /\ InTasks' = InTasks /\ mqDropped' = mqDropped /\ mqLost' = mqLost \cup rest
            /\ mqClosed \/ ~mqRuntime
  <2>1. CASE mqNackable
    <3>1. Requeue(rest) /\ mqDropped' = mqDropped
      BY <1>2, <2>1 DEF GiveBack, rest
    <3>2. QED BY <1>3, <3>1, RequeueKeeps
  <2>2. CASE ~mqNackable
    <3>1. mqDropped' = mqDropped \cup rest /\ UNCHANGED <<mqChannel, mqTasks, mqLost>>
      BY <1>2, <2>2 DEF GiveBack, rest
    <3>2. InChannel' = InChannel /\ InTasks' = InTasks
      BY <3>1 DEF InChannel, InTasks
    <3>3. mqTasks \subseteq SUBSET MqMessages /\ {} \notin mqTasks /\ \A t, u \in mqTasks : t # u => t \cap u = {}
      BY QueueParts DEF MqTypeOK, NoneEmpty, BatchesApart
    <3>4. QED BY <2>2, <3>1, <3>2, <3>3, ChannelShape
  <2>3. QED BY <2>1, <2>2
<1>7. MqTypeOK'
  <2>1. mqDropped' \subseteq MqMessages /\ mqAcked' \subseteq MqMessages /\ mqLost' \subseteq MqMessages
    BY <1>2, <1>3, <1>6, QueueParts DEF MqTypeOK
  <2>2. mqOut' \subseteq SUBSET MqMessages /\ mqFailed' \subseteq MqMessages
    BY <1>1, QueueParts DEF MqTypeOK
  <2>3. QED BY <1>1, <1>4, <1>6, <2>1, <2>2, QueueParts DEF MqTypeOK
<1>8. NackKeeps' /\ DeliveriesFit' /\ NoneEmpty' /\ ShortLeavesNothing'
  BY <1>1, <1>6, QueueParts DEF NackKeeps, DeliveriesFit, NoneEmpty, ShortLeavesNothing
<1>9. BatchesApart'
  BY <1>1, <1>6, QueueParts DEF BatchesApart, Disjoint
<1>10. NoneVanishes' /\ NoneLost' /\ PlacesApart'
  BY <1>1, <1>2, <1>3, <1>5, <1>6, QueueParts DEF NoneVanishes, NoneLost, PlacesApart, Gone
<1>11. QED BY <1>7, <1>8, <1>9, <1>10 DEF MqInv, MemoryQueueInv, NoneTwice

\* A consumer is dropped.
LEMMA DropConsumerKeeps ==
    ASSUME MqInv, NEW c \in MqConsumers, MqDropConsumer(c) PROVE MqInv'
<1>. DEFINE rest == mqBuffer[c]
<1>1. /\ mqGot[c] = {} /\ mqNacked < MqNacks /\ mqNacked' = mqNacked + 1
      /\ rest # {} /\ (OntoChannel(rest) \/ Spawned(rest))
      /\ mqBuffer' = [mqBuffer EXCEPT ![c] = {}]
      /\ UNCHANGED <<mqNackable, mqClosed, mqRuntime, mqSent, mqGot, mqOut, mqFailed, mqAcked, mqDropped>>
  BY DEF MqDropConsumer, mqEnv
<1>2. rest \in SUBSET MqMessages /\ mqGot \in [MqConsumers -> SUBSET MqMessages]
  BY QueueParts DEF MqTypeOK
<1>3. rest \subseteq WithConsumers
  BY DEF WithConsumers
<1>4. rest \cap InChannel = {} /\ rest \cap InTasks = {}
  BY <1>3, QueueParts DEF PlacesApart
<1>5. /\ mqGot' \in [MqConsumers -> SUBSET MqMessages] /\ mqBuffer' \in [MqConsumers -> SUBSET MqMessages]
      /\ mqGot'[c] = {} /\ mqBuffer'[c] = {}
      /\ \A e \in MqConsumers : e # c => mqGot'[e] = mqGot[e] /\ mqBuffer'[e] = mqBuffer[e]
      /\ WithConsumers' = (WithConsumers \ (mqGot[c] \cup rest)) \cup {} \cup {}
      /\ \A e, f \in MqConsumers : e # f =>
            (mqGot'[e] \cup mqBuffer'[e]) \cap (mqGot'[f] \cup mqBuffer'[f]) = {}
      /\ \A e \in MqConsumers : mqGot'[e] \cap mqBuffer'[e] = {}
  <2>1. mqGot' = [mqGot EXCEPT ![c] = {}] /\ {} \in SUBSET MqMessages
    BY <1>1, <1>2
  <2>2. ({} \cup {}) \cap (WithConsumers \ (mqGot[c] \cup rest)) = {} /\ {} \cap {} = {}
    OBVIOUS
  <2>3. QED BY <1>1, <2>1, <2>2, ConsumerKeeps
<1>6. /\ mqChannel' \in Seq(SUBSET MqMessages) /\ Len(mqChannel') <= MqCapacity
      /\ Disjoint(mqChannel') /\ {} \notin Range(mqChannel')
      /\ mqTasks' \subseteq SUBSET MqMessages /\ {} \notin mqTasks'
      /\ \A t, u \in mqTasks' : t # u => t \cap u = {}
      /\ \/ InChannel' = InChannel \cup rest /\ InTasks' = InTasks /\ mqLost' = mqLost
         \/ InChannel' = InChannel /\ InTasks' = InTasks \cup rest /\ mqLost' = mqLost
         \/ InChannel' = InChannel /\ InTasks' = InTasks /\ mqLost' = mqLost \cup rest /\ (mqClosed \/ ~mqRuntime)
  BY <1>1, <1>2, <1>4, RequeueKeeps
<1>. HIDE DEF rest
<1>7. WithConsumers' = WithConsumers \ rest /\ UNCHANGED <<Published, WithRoute>>
  BY <1>1, <1>5 DEF Published, WithRoute
<1>8. MqTypeOK'
  <2>1. mqLost' \subseteq MqMessages /\ mqNacked' \in 0..MqNacks
    BY <1>1, <1>2, <1>6, QueueParts, QueueBounds DEF MqTypeOK
  <2>2. QED BY <1>1, <1>5, <1>6, <2>1, QueueParts DEF MqTypeOK
<1>9. NackKeeps' /\ DeliveriesFit' /\ NoneEmpty'
  BY <1>1, <1>6, QueueParts DEF NackKeeps, DeliveriesFit, NoneEmpty
<1>10. ShortLeavesNothing'
  <2>1. Cardinality({}) <= MqMax
    BY QueueBounds, FS_EmptySet
  <2>2. \A e \in MqConsumers :
          /\ Cardinality(mqGot[e]) <= MqMax
          /\ (mqGot[e] # {} /\ Cardinality(mqGot[e]) < MqMax) => mqBuffer[e] = {}
    BY QueueParts DEF ShortLeavesNothing
  <2>3. \A e \in MqConsumers :
          /\ Cardinality(mqGot'[e]) <= MqMax
          /\ (mqGot'[e] # {} /\ Cardinality(mqGot'[e]) < MqMax) => mqBuffer'[e] = {}
    BY <1>5, <2>1, <2>2
  <2>4. QED BY <2>3 DEF ShortLeavesNothing
<1>11. BatchesApart'
  BY <1>1, <1>5, <1>6, QueueParts DEF BatchesApart, Disjoint
<1>12. NoneVanishes' /\ NoneLost' /\ PlacesApart'
  BY <1>1, <1>3, <1>6, <1>7, QueueParts DEF NoneVanishes, NoneLost, PlacesApart, Gone
<1>13. QED BY <1>8, <1>9, <1>10, <1>11, <1>12 DEF MqInv, MemoryQueueInv, NoneTwice

\* A task finds room for what it waits to put back, or the channel closed.
LEMMA TaskKeeps ==
    ASSUME MqInv, NEW t \in mqTasks, RequeueTask(t) PROVE MqInv'
<1>1. /\ mqTasks' = mqTasks \ {t}
      /\ UNCHANGED <<mqNackable, mqClosed, mqRuntime, mqSent, mqGot, mqBuffer, mqOut, mqFailed, mqAcked, mqDropped,
                     mqNacked>>
  BY DEF RequeueTask, mqEnv
<1>2. t \in SUBSET MqMessages /\ t # {} /\ t \subseteq InTasks
  BY QueueParts DEF MqTypeOK, NoneEmpty, InTasks
<1>3. t \cap InChannel = {}
  BY <1>2, QueueParts DEF PlacesApart
<1>4. /\ mqChannel' \in Seq(SUBSET MqMessages) /\ Len(mqChannel') <= MqCapacity
      /\ Disjoint(mqChannel') /\ {} \notin Range(mqChannel')
      /\ \/ InChannel' = InChannel \cup t /\ mqLost' = mqLost
         \/ InChannel' = InChannel /\ mqLost' = mqLost \cup t /\ mqClosed
  <2>0. InChannel' = Messages(mqChannel')
    BY DEF InChannel, Messages
  <2>1. CASE Len(mqChannel) < MqCapacity /\ mqChannel' = Append(mqChannel, t) /\ mqLost' = mqLost
    <3>1. /\ mqChannel' \in Seq(SUBSET MqMessages) /\ Len(mqChannel') = Len(mqChannel) + 1
          /\ Disjoint(mqChannel') /\ {} \notin Range(mqChannel') /\ Messages(mqChannel') = InChannel \cup t
      BY <1>2, <1>3, <2>1, ChannelShape, BatchOn
    <3>2. Len(mqChannel') <= MqCapacity
      BY <2>1, <3>1, ChannelShape, QueueBounds
    <3>3. QED BY <2>0, <2>1, <3>1, <3>2
  <2>2. CASE mqClosed /\ mqLost' = mqLost \cup t /\ mqChannel' = mqChannel
    BY <2>0, <2>2, ChannelShape
  <2>3. QED BY <2>1, <2>2 DEF RequeueTask
<1>5. InTasks' = InTasks \ t /\ UNCHANGED <<Published, WithConsumers, WithRoute>>
  <2>1. InTasks' = InTasks \ t
    BY <1>1, QueueParts DEF InTasks, BatchesApart
  <2>2. QED BY <1>1, <2>1 DEF Published, WithConsumers, WithRoute
<1>6. MqTypeOK' /\ NackKeeps' /\ DeliveriesFit' /\ NoneEmpty' /\ ShortLeavesNothing'
  <2>1. mqLost' \subseteq MqMessages
    BY <1>2, <1>4, QueueParts DEF MqTypeOK
  <2>2. QED BY <1>1, <1>4, <2>1, QueueParts DEF MqTypeOK, NackKeeps, DeliveriesFit, NoneEmpty, ShortLeavesNothing
<1>7. BatchesApart'
  BY <1>1, <1>4, QueueParts DEF BatchesApart, Disjoint
<1>8. NoneVanishes' /\ NoneLost' /\ PlacesApart'
  BY <1>1, <1>2, <1>4, <1>5, QueueParts DEF NoneVanishes, NoneLost, PlacesApart, Gone
<1>9. QED BY <1>6, <1>7, <1>8 DEF MqInv, MemoryQueueInv, NoneTwice

\* The channel is closed, the runtime ends with its tasks, the sink fails messages.
LEMMA SurroundingsKeep ==
    ASSUME MqInv, MqClose \/ MqShutdown \/ \E d \in mqOut : MqFail(d) PROVE MqInv'
<1>1. /\ UNCHANGED <<mqNackable, mqSent, mqChannel, mqGot, mqBuffer, mqOut, mqAcked, mqDropped>>
      /\ mqNacked' \in 0..MqNacks /\ mqFailed' \subseteq MqMessages
      /\ mqClosed' \in BOOLEAN /\ mqRuntime' \in BOOLEAN
      /\ \/ mqTasks' = mqTasks /\ mqLost' = mqLost /\ (mqRuntime' /\ ~mqClosed' => mqRuntime /\ ~mqClosed)
         \/ mqTasks' = {} /\ mqLost' = mqLost \cup UNION mqTasks /\ ~mqRuntime'
  <2>1. CASE MqClose
    BY <2>1, QueueParts DEF MqClose, MqTypeOK
  <2>2. CASE MqShutdown
    BY <2>2, QueueParts DEF MqShutdown, MqTypeOK
  <2>3. CASE \E d \in mqOut : MqFail(d)
    <3>1. PICK d \in mqOut : MqFail(d)
      BY <2>3
    <3>2. d \in SUBSET MqMessages
      BY QueueParts DEF MqTypeOK
    <3>3. /\ UNCHANGED <<mqNackable, mqClosed, mqRuntime, mqSent, mqChannel, mqGot, mqBuffer, mqOut, mqTasks, mqAcked,
                         mqDropped, mqLost>>
          /\ mqNacked' = mqNacked + 1 /\ mqNacked < MqNacks
          /\ mqFailed' \subseteq mqFailed \cup d
      BY <3>1 DEF MqFail, mqEnv
    <3>4. QED BY <3>2, <3>3, QueueParts, QueueBounds DEF MqTypeOK
  <2>4. QED BY <2>1, <2>2, <2>3
<1>2. /\ UNCHANGED <<Published, InChannel, WithConsumers, WithRoute>>
      /\ \/ InTasks' = InTasks /\ mqLost' = mqLost
         \/ InTasks' = {} /\ mqLost' = mqLost \cup InTasks
  BY <1>1 DEF Published, InChannel, WithConsumers, WithRoute, InTasks
<1>3. MqTypeOK'
  <2>1. mqTasks' \subseteq SUBSET MqMessages /\ mqLost' \subseteq MqMessages
    BY <1>1, QueueParts DEF MqTypeOK
  <2>2. QED BY <1>1, <2>1, QueueParts DEF MqTypeOK
<1>4. NackKeeps' /\ DeliveriesFit' /\ ShortLeavesNothing' /\ NoneEmpty' /\ BatchesApart'
  BY <1>1, QueueParts DEF NackKeeps, DeliveriesFit, ShortLeavesNothing, NoneEmpty, BatchesApart
<1>5. NoneVanishes' /\ NoneLost' /\ PlacesApart'
  <2>1. NoneVanishes' /\ PlacesApart'
    BY <1>1, <1>2, QueueParts DEF NoneVanishes, PlacesApart, Gone
  <2>2. NoneLost'
    BY <1>1, QueueParts DEF NoneLost
  <2>3. QED BY <2>1, <2>2
<1>6. QED BY <1>3, <1>4, <1>5 DEF MqInv, MemoryQueueInv, NoneTwice

\* For any batches, consumers and capacity: no message of the memory queue vanishes or is in
\* two places, however batches are split, topped up, nacked, dropped and put back, and none
\* is lost before the channel is closed or the runtime ends.
THEOREM QueueLosesNothing == MqSpec => []MemoryQueueInv
<1>1. ASSUME MqInv, [MqNext]_mqVars PROVE MqInv'
  <2>1. CASE MqSend BY <1>1, <2>1, SendBatchKeeps
  <2>2. CASE MqClose \/ MqShutdown \/ \E d \in mqOut : MqFail(d) BY <1>1, <2>2, SurroundingsKeep
  <2>3. CASE \E c \in MqConsumers : MqReceive(c) \/ MqDropConsumer(c)
    BY <1>1, <2>3, FirstKeeps, MoreKeeps, HandOnQueueKeeps, DropConsumerKeeps DEF MqReceive
  <2>4. CASE \E d \in mqOut : MqCommit(d) \/ MqDrop(d) BY <1>1, <2>4, SettleKeeps
  <2>5. CASE \E t \in mqTasks : RequeueTask(t) BY <1>1, <2>5, TaskKeeps
  <2>6. CASE UNCHANGED mqVars
    <3>1. UNCHANGED <<mqNackable, mqClosed, mqRuntime, mqSent, mqChannel, mqGot, mqBuffer, mqOut, mqFailed, mqTasks,
                     mqAcked, mqDropped, mqLost, mqNacked>>
      BY <2>6 DEF mqVars, mqEnv
    <3>2. UNCHANGED <<Published, InChannel, WithConsumers, WithRoute, InTasks>>
      BY <3>1 DEF Published, InChannel, WithConsumers, WithRoute, InTasks
    <3>3. MqTypeOK' /\ NoneVanishes' /\ NoneLost' /\ PlacesApart' /\ BatchesApart'
      BY <1>1, <3>1, <3>2, QueueParts DEF MqTypeOK, NoneVanishes, NoneLost, PlacesApart, Gone, BatchesApart
    <3>4. NackKeeps' /\ DeliveriesFit' /\ ShortLeavesNothing' /\ NoneEmpty'
      BY <1>1, <3>1, QueueParts DEF NackKeeps, DeliveriesFit, ShortLeavesNothing, NoneEmpty
    <3>5. QED BY <3>3, <3>4 DEF MqInv, MemoryQueueInv, NoneTwice
  <2>7. QED BY <1>1, <2>1, <2>2, <2>3, <2>4, <2>5, <2>6 DEF MqNext
<1>2. MqInv => MemoryQueueInv
  BY DEF MqInv
<1>3. QED BY <1>1, <1>2, QueueStarts, PTL DEF MqSpec

-----------------------------------------------------------------------------
(* The fanout *)

\* What a destination answers: failures and replies, or one error for the batch.
LEMMA AnswerShape ==
    ASSUME NEW a \in [1..FoLegs -> FoAnswers], NEW l \in 1..FoLegs
    PROVE  \/ /\ a[l].ok /\ a[l].error = "none" /\ DOMAIN a[l].failed \subseteq FoMessages
              /\ \A m \in DOMAIN a[l].failed : a[l].failed[m] \in FoErrors
              /\ a[l].replies \subseteq FoMessages
           \/ /\ ~a[l].ok /\ a[l].error \in FoErrors /\ DOMAIN a[l].failed = {}
              /\ a[l].replies = {}
<1>1. a[l] \in FoAnswers
  OBVIOUS
<1>. DEFINE whole == {FoErr(error) : error \in FoErrors}
            partial(F) == {FoPartial(f, replies) : f \in [F -> FoErrors], replies \in SUBSET (FoMessages \ F)}
<1>2. ASSUME a[l] \in whole
      PROVE  ~a[l].ok /\ a[l].error \in FoErrors /\ DOMAIN a[l].failed = {} /\ a[l].replies = {}
  <2>1. PICK error \in FoErrors : a[l] = FoErr(error)
    BY <1>2
  <2>2. ~a[l].ok /\ a[l].error = error /\ a[l].failed = <<>> /\ a[l].replies = {}
    BY <2>1 DEF FoErr
  <2>3. DOMAIN <<>> = {}
    OBVIOUS
  <2>4. QED BY <2>2, <2>3
<1>3. ASSUME NEW F \in SUBSET FoMessages, a[l] \in partial(F)
      PROVE  /\ a[l].ok /\ a[l].error = "none" /\ DOMAIN a[l].failed \subseteq FoMessages
             /\ \A m \in DOMAIN a[l].failed : a[l].failed[m] \in FoErrors
             /\ a[l].replies \subseteq FoMessages
  <2>1. PICK f \in [F -> FoErrors], replies \in SUBSET (FoMessages \ F) : a[l] = FoPartial(f, replies)
    BY <1>3
  <2>2. a[l].ok /\ a[l].error = "none" /\ a[l].failed = f /\ a[l].replies = replies
    BY <2>1 DEF FoPartial
  <2>3. QED BY <2>2
<1>4. FoAnswers = whole \cup UNION {partial(F) : F \in SUBSET FoMessages}
  BY DEF FoAnswers
<1>. HIDE DEF whole, partial
<1>5. a[l] \in whole \/ \E F \in SUBSET FoMessages : a[l] \in partial(F)
  BY <1>1, <1>4
<1>6. CASE \E F \in SUBSET FoMessages : a[l] \in partial(F)
  BY <1>3, <1>6
<1>7. QED BY <1>2, <1>5, <1>6

\* Where ids differ, the key of a failure is its message.
LEMMA KeyIsMessage ==
    ASSUME DistinctIds, NEW a \in [1..FoLegs -> FoAnswers], NEW p \in FoFailures(a)
    PROVE  SameKey(a, p) = {q \in FoFailures(a) : q[2] = p[2]}
<1>1. ASSUME NEW q \in FoFailures(a) PROVE Key(a, q) = <<FoId[q[2]], 1>>
  <2>. DEFINE like == {m \in DOMAIN a[q[1]].failed : m <= q[2] /\ FoId[m] = FoId[q[2]]}
  <2>1. q[1] \in 1..FoLegs /\ q[2] \in FoMessages /\ q[2] \in DOMAIN a[q[1]].failed
    BY DEF FoFailures
  <2>2. DOMAIN a[q[1]].failed \subseteq FoMessages
    BY <2>1, AnswerShape
  <2>3. q[2] <= q[2]
    BY <2>1, FanoutBounds
  <2>4. like = {q[2]}
    BY <2>1, <2>2, <2>3 DEF DistinctIds
  <2>5. Cardinality(like) = 1
    BY <2>4, FS_Singleton
  <2>6. QED BY <2>5 DEF Key
<1>2. \A q \in FoFailures(a) : q[2] \in FoMessages
  BY DEF FoFailures
<1>3. QED BY <1>1, <1>2 DEF SameKey, DistinctIds

LEMMA FailureError ==
    ASSUME NEW a \in [1..FoLegs -> FoAnswers], NEW p \in FoFailures(a)
    PROVE  ErrorAt(a, p) \in FoErrors /\ p[1] \in 1..FoLegs /\ p[2] \in FoMessages
<1>1. p[1] \in 1..FoLegs /\ p[2] \in FoMessages /\ p[2] \in DOMAIN a[p[1]].failed
  BY DEF FoFailures
<1>2. QED BY <1>1, AnswerShape DEF ErrorAt

\* Some error of a set is the most recoverable.
LEMMA MostRecoverable ==
    ASSUME NEW S \in SUBSET FoErrors, S # {}
    PROVE  \E e \in S : \A f \in S : Recoverability[f] <= Recoverability[e]
<1>1. /\ Recoverability["NonRetryable"] = 0 /\ Recoverability["Retryable"] = 1
      /\ Recoverability["Connection"] = 2
  BY DEF Recoverability
<1>2. CASE "Connection" \in S
  BY <1>1, <1>2 DEF FoErrors
<1>3. CASE "Connection" \notin S /\ "Retryable" \in S
  BY <1>1, <1>3 DEF FoErrors
<1>4. CASE S = {"NonRetryable"}
  BY <1>1, <1>4
<1>5. QED BY <1>2, <1>3, <1>4 DEF FoErrors

\* The error kept for a failure is one of its message, and no other is more recoverable.
LEMMA KeptErrorOf ==
    ASSUME DistinctIds, NEW a \in [1..FoLegs -> FoAnswers], NEW p \in FoFailures(a)
    PROVE  /\ \E q \in FoFailures(a) : q[2] = p[2] /\ KeptError(a, p) = ErrorAt(a, q)
           /\ \A q \in FoFailures(a) : q[2] = p[2] =>
                Recoverability[ErrorAt(a, q)] <= Recoverability[KeptError(a, p)]
<1>. DEFINE errors == {ErrorAt(a, q) : q \in SameKey(a, p)}
<1>1. SameKey(a, p) = {q \in FoFailures(a) : q[2] = p[2]}
  BY KeyIsMessage
<1>2. errors \subseteq FoErrors /\ errors # {}
  BY <1>1, FailureError
<1>3. \E e \in errors : \A f \in errors : Recoverability[f] <= Recoverability[e]
  <2>. HIDE DEF errors
  <2>. QED BY <1>2, MostRecoverable
<1>4. KeptError(a, p) \in errors /\ \A f \in errors : Recoverability[f] <= Recoverability[KeptError(a, p)]
  <2>1. KeptError(a, p) = CHOOSE e \in errors : \A f \in errors : Recoverability[f] <= Recoverability[e]
    BY DEF KeptError
  <2>. HIDE DEF errors
  <2>. QED BY <1>3, <2>1
<1>5. QED BY <1>1, <1>4

\* The place of a message in the merged answer is that of the first destination failing it.
LEMMA ListedOnce ==
    ASSUME DistinctIds, NEW a \in [1..FoLegs -> FoAnswers], NEW p \in FoFailures(a)
    PROVE  \E f : /\ {g \in MergedFailures(a) : g.message = p[2]} = {f}
                  /\ \E q \in FoFailures(a) : q[2] = p[2] /\ f.error = ErrorAt(a, q)
                  /\ \A q \in FoFailures(a) : q[2] = p[2] =>
                        Recoverability[ErrorAt(a, q)] <= Recoverability[f.error]
<1>. DEFINE legs == {l \in 1..FoLegs : <<l, p[2]>> \in FoFailures(a)}
            IsFirst(q) == \A r \in SameKey(a, q) : ~ComesBefore(r, q)
            entry(q) == [at |-> q, message |-> q[2], error |-> KeptError(a, q)]
<1>1. \A q \in FoFailures(a) : /\ q = <<q[1], q[2]>> /\ q[1] \in 1..FoLegs /\ q[2] \in FoMessages
  BY DEF FoFailures
<1>2. legs \in SUBSET Nat /\ legs # {}
  <2>1. p[1] \in 1..FoLegs /\ <<p[1], p[2]>> \in FoFailures(a)
    BY <1>1
  <2>2. p[1] \in legs
    BY <2>1
  <2>3. 1..FoLegs \subseteq Nat
    BY FanoutBounds
  <2>4. QED BY <2>2, <2>3
<1>3. PICK l \in legs : \A k \in legs : l <= k
  <2>. HIDE DEF legs
  <2>. QED BY <1>2, LeastRow
<1>. DEFINE first == <<l, p[2]>>
<1>4. first \in FoFailures(a) /\ first[1] = l /\ first[2] = p[2]
  BY <1>3
<1>5. \A q \in FoFailures(a) : q[2] = p[2] => q[1] \in legs /\ l <= q[1]
  BY <1>1, <1>3
<1>6. FoMessages \subseteq Nat /\ l \in Nat /\ p[2] \in Nat /\ \A q \in FoFailures(a) : q[1] \in Nat
  BY <1>1, <1>2, <1>3, FanoutBounds
<1>7. IsFirst(first)
  <2>1. \A r \in SameKey(a, first) : r \in FoFailures(a) /\ r[2] = p[2]
    BY <1>4, KeyIsMessage
  <2>2. \A r \in SameKey(a, first) : l <= r[1] /\ r[1] \in Nat
    BY <2>1, <1>5, <1>6
  <2>3. QED BY <2>1, <2>2, <1>4, <1>6 DEF ComesBefore
<1>8. ASSUME NEW q \in FoFailures(a), q[2] = p[2], IsFirst(q) PROVE q = first
  <2>. HIDE DEF legs
  <2>1. first \in SameKey(a, q)
    BY <1>4, <1>8, KeyIsMessage
  <2>2. ~(l < q[1])
    BY <1>4, <1>8, <2>1 DEF ComesBefore
  <2>3. q[1] = l
    <3>1. l <= q[1] /\ l \in Nat /\ q[1] \in Nat
      BY <1>5, <1>6, <1>8
    <3>2. QED BY <2>2, <3>1
  <2>4. QED BY <1>1, <1>8, <2>3
<1>. HIDE DEF first, IsFirst
<1>9. MergedFailures(a) = {entry(q) : q \in {r \in FoFailures(a) : IsFirst(r)}}
  BY DEF MergedFailures, IsFirst
<1>10. \A q : entry(q).message = q[2]
  OBVIOUS
<1>11. {g \in MergedFailures(a) : g.message = p[2]} = {entry(first)}
  <2>. HIDE DEF entry
  <2>. QED BY <1>4, <1>7, <1>8, <1>9, <1>10
<1>12. entry(first).error = KeptError(a, first)
  OBVIOUS
<1>13. QED
  <2>. HIDE DEF entry
  <2>. QED BY <1>4, <1>11, <1>12, KeptErrorOf

\* Without a destination that failed as a whole the merged answer decides, message by
\* message; otherwise the error of one of those that did.
LEMMA MergedAnswer ==
    ASSUME NEW a \in [1..FoLegs -> FoAnswers]
    PROVE  \/ /\ \A l \in 1..FoLegs : a[l].ok
              /\ Merged(a) = FoPartial(MergedFailures(a), MergedReplies(a))
           \/ \E l \in 1..FoLegs : ~a[l].ok /\ Merged(a) = FoFailed(a[l].error)
<1>. DEFINE failedLegs == {l \in 1..FoLegs : ~a[l].ok}
<1>1. failedLegs = {l \in DOMAIN a : ~a[l].ok}
  OBVIOUS
<1>2. failedLegs \in SUBSET Nat
  BY FanoutBounds
<1>3. Merged(a) = IF failedLegs # {} THEN FoFailed(a[Min(failedLegs)].error)
                    ELSE FoPartial(MergedFailures(a), MergedReplies(a))
  BY <1>1 DEF Merged
<1>4. failedLegs # {} => Min(failedLegs) \in failedLegs
  <2>. HIDE DEF failedLegs
  <2>1. failedLegs # {} => \E n \in failedLegs : \A m \in failedLegs : n <= m
    BY <1>2, LeastRow
  <2>2. Min(failedLegs) = CHOOSE n \in failedLegs : \A m \in failedLegs : n <= m
    BY DEF Min
  <2>3. QED BY <2>1, <2>2
<1>5. CASE failedLegs # {}
  BY <1>3, <1>4, <1>5
<1>6. CASE failedLegs = {}
  BY <1>3, <1>6
<1>7. QED BY <1>5, <1>6

\* How the route disposes of a message that some destination failed, and of one that none did.
LEMMA DisposedOf ==
    ASSUME DistinctIds, NEW a \in [1..FoLegs -> FoAnswers], NEW m \in FoMessages
    PROVE  LET result == FoPartial(MergedFailures(a), MergedReplies(a))
               errors == {ErrorAt(a, p) : p \in {q \in FoFailures(a) : q[2] = m}}
           IN  /\ errors \cap FoTransient # {} => Disposed(result, m) = "Nack" /\ HasTransient(result)
               /\ errors = {} => Disposed(result, m) =
                     IF \E l \in 1..FoLegs : m \in a[l].replies THEN "Reply" ELSE "Ack"
               /\ Cardinality({f \in result.failed : f.message = m}) = IF errors = {} THEN 0 ELSE 1
<1>. DEFINE result == FoPartial(MergedFailures(a), MergedReplies(a))
            errors == {ErrorAt(a, p) : p \in {q \in FoFailures(a) : q[2] = m}}
            failures == {f \in result.failed : f.message = m}
            same == {f \in result.failed : FoId[f.message] = FoId[m]}
            By(S) == LET last == CHOOSE f \in S : \A g \in S : ~ComesBefore(f.at, g.at)
                     IN  IF S # {} THEN DispositionOfError(last.error)
                           ELSE IF FoId[m] \in result.replies /\ \A j \in 1..(m - 1) : FoId[j] # FoId[m]
                             THEN "Reply" ELSE "Ack"
<1>1. result.failed = MergedFailures(a) /\ result.replies = MergedReplies(a)
  BY DEF FoPartial
<1>2. \A f \in MergedFailures(a) : f.message \in FoMessages
  BY FailureError DEF MergedFailures
<1>3. failures = same
  BY <1>1, <1>2 DEF DistinctIds
<1>4. Disposed(result, m) = By(failures)
  <2>1. Disposed(result, m) = By(same)
    BY DEF Disposed
  <2>. HIDE DEF By, failures, same
  <2>2. QED BY <1>3, <2>1
<1>5. CASE errors = {}
  <2>1. \A p \in FoFailures(a) : p[2] # m
    BY <1>5
  <2>2. failures = {}
    <3>1. \A f \in MergedFailures(a) : f.message # m
      BY <2>1 DEF MergedFailures
    <3>2. QED BY <1>1, <3>1
  <2>3. Cardinality(failures) = 0
    BY <2>2, FS_EmptySet
  <2>4. \A j \in 1..(m - 1) : FoId[j] # FoId[m]
    <3>1. \A j \in 1..(m - 1) : j \in FoMessages /\ j # m
      BY FanoutBounds
    <3>2. QED BY <3>1 DEF DistinctIds
  <2>5. FoId[m] \in MergedReplies(a) <=> \E l \in 1..FoLegs : m \in a[l].replies
    <3>1. DOMAIN a = 1..FoLegs /\ \A l \in 1..FoLegs : a[l].replies \subseteq FoMessages
      BY AnswerShape
    <3>2. QED BY <3>1 DEF MergedReplies, DistinctIds
  <2>6. Disposed(result, m) = IF \E l \in 1..FoLegs : m \in a[l].replies THEN "Reply" ELSE "Ack"
    <3>. HIDE DEF result, failures
    <3>. QED BY <1>1, <1>4, <2>2, <2>4, <2>5
  <2>7. QED BY <1>5, <2>3, <2>6
<1>6. CASE errors # {}
  <2>1. PICK p \in FoFailures(a) : p[2] = m
    BY <1>6
  <2>2. PICK f : /\ {g \in MergedFailures(a) : g.message = p[2]} = {f}
                 /\ \E q \in FoFailures(a) : q[2] = p[2] /\ f.error = ErrorAt(a, q)
                 /\ \A q \in FoFailures(a) : q[2] = p[2] =>
                        Recoverability[ErrorAt(a, q)] <= Recoverability[f.error]
    BY <2>1, ListedOnce
  <2>3. failures = {f}
    BY <1>1, <2>1, <2>2
  <2>4. Cardinality(failures) = 1
    BY <2>3, FS_Singleton
  <2>5. f.error \in FoErrors /\ \A e \in errors : Recoverability[e] <= Recoverability[f.error]
    BY <2>1, <2>2, FailureError
  <2>6. errors \cap FoTransient # {} => f.error \in FoTransient
    <3>1. /\ Recoverability["NonRetryable"] = 0 /\ Recoverability["Retryable"] = 1
          /\ Recoverability["Connection"] = 2
      BY DEF Recoverability
    <3>. HIDE DEF errors
    <3>2. QED BY <2>5, <3>1 DEF FoErrors, FoTransient
  <2>7. Disposed(result, m) = DispositionOfError(f.error)
    <3>. DEFINE last == CHOOSE g \in failures : \A h \in failures : ~ComesBefore(g.at, h.at)
    <3>1. \E g \in failures : \A h \in failures : ~ComesBefore(g.at, h.at)
      <4>1. f \in MergedFailures(a)
        BY <2>2
      <4>2. PICK q \in FoFailures(a) : f.at = q
        BY <4>1 DEF MergedFailures
      <4>3. q[1] \in Nat /\ q[2] \in Nat
        BY FailureError, FanoutBounds
      <4>4. ~ComesBefore(f.at, f.at)
        BY <4>2, <4>3 DEF ComesBefore
      <4>5. QED BY <2>3, <4>4
    <3>2. last = f
      <4>. HIDE DEF failures
      <4>. QED BY <2>3, <3>1
    <3>. HIDE DEF result, failures
    <3>3. QED BY <1>4, <2>3, <3>2
  <2>8. f.error \in FoTransient => HasTransient(result)
    <3>1. result.ok /\ f \in result.failed
      BY <2>3 DEF FoPartial
    <3>2. QED BY <3>1 DEF HasTransient
  <2>9. f.error \in FoTransient => DispositionOfError(f.error) = "Nack"
    BY DEF DispositionOfError, FoTransient
  <2>10. errors \cap FoTransient # {} => Disposed(result, m) = "Nack" /\ HasTransient(result)
    <3>. HIDE DEF result, errors
    <3>. QED BY <2>6, <2>7, <2>8, <2>9
  <2>11. QED BY <1>6, <2>4, <2>10
<1>7. QED BY <1>5, <1>6

\* FanoutPublisher::send_batch and the dispositions of the route, for any number of
\* destinations and messages and whatever each destination answers: of a batch without
\* repeated ids, a message that some destination may still take is nacked, or its caller told
\* of a bad gateway, one that all took is settled with its reply, and every failed one is
\* listed once.
THEOREM FanoutLosesNothing == DistinctIds => (FoSpec => []FanoutInv)
<1>. SUFFICES ASSUME DistinctIds PROVE FoSpec => []FanoutInv
  OBVIOUS
<1>1. FoInit => FoInv
  BY DEF FoInit, FoInv
<1>2. ASSUME FoInv, [FoNext]_foVars PROVE FoInv'
  <2>1. CASE FoSettle
    BY <1>2, <2>1 DEF FoSettle, FoInv, FoDisposition
  <2>2. ASSUME NEW answers \in [1..FoLegs -> FoAnswers], FoSend(answers) PROVE FoInv'
    <3>1. foAnswers \notin [1..FoLegs -> FoAnswers]
      BY <2>2, FanoutBounds DEF FoSend
    <3>2. foSettled = <<>>
      BY <1>2, <3>1 DEF FoInv
    <3>3. QED BY <2>2, <3>2 DEF FoSend, FoInv
  <2>3. CASE UNCHANGED foVars
    BY <1>2, <2>3 DEF foVars, FoInv, FoDisposition
  <2>4. QED BY <1>2, <2>1, <2>2, <2>3 DEF FoNext
<1>3. ASSUME FoInv PROVE FanoutInv
  <2>1. CASE foAnswers = <<>> /\ foResult = FoPartial({}, {}) /\ foSettled = <<>>
    <3>1. DOMAIN <<>> = {}
      OBVIOUS
    <3>2. foResult.failed = {} /\ DOMAIN foSettled = {} /\ DOMAIN foAnswers = {}
      BY <2>1, <3>1 DEF FoPartial
    <3>3. \A m \in FoMessages : ErrorsOf(m) = {}
      BY <3>2 DEF ErrorsOf, FoFailures
    <3>4. Cardinality({}) = 0
      BY FS_EmptySet
    <3>5. \A m \in FoMessages : {f \in foResult.failed : f.message = m} = {}
      BY <3>2
    <3>6. FailuresListedOnce
      BY <3>3, <3>4, <3>5 DEF FailuresListedOnce
    <3>7. QED BY <3>2, <3>6 DEF FanoutInv, RecoverableIsNacked, DeliveredIsSettled
  <2>2. CASE /\ foAnswers \in [1..FoLegs -> FoAnswers] /\ foResult = Merged(foAnswers)
             /\ \/ foSettled = <<>>
                \/ foSettled = [m \in FoMessages |-> FoDisposition(foResult, m)]
    <3>1. DOMAIN foAnswers = 1..FoLegs /\ DOMAIN foSettled \subseteq FoMessages
      BY <2>2
    <3>2. ASSUME NEW m \in DOMAIN foSettled
          PROVE  foSettled[m] = FoDisposition(foResult, m)
      BY <2>2
    <3>3. CASE /\ \A l \in 1..FoLegs : foAnswers[l].ok
               /\ foResult = FoPartial(MergedFailures(foAnswers), MergedReplies(foAnswers))
      <4>1. foResult.ok
        BY <3>3 DEF FoPartial
      <4>2. BatchErrors = {}
        <5>1. \A l \in 1..FoLegs : foAnswers[l].error = "none"
          BY <2>2, <3>3, AnswerShape
        <5>2. QED BY <3>1, <5>1 DEF BatchErrors
      <4>3. ASSUME NEW m \in FoMessages
            PROVE  /\ ErrorsOf(m) \cap FoTransient # {} =>
                         Disposed(foResult, m) = "Nack" /\ HasTransient(foResult)
                   /\ ErrorsOf(m) = {} => Disposed(foResult, m) =
                         IF \E l \in 1..FoLegs : m \in foAnswers[l].replies THEN "Reply" ELSE "Ack"
                   /\ Cardinality({f \in foResult.failed : f.message = m}) =
                         IF ErrorsOf(m) = {} THEN 0 ELSE 1
        BY <2>2, <3>3, DisposedOf DEF ErrorsOf
      <4>4. FailuresListedOnce
        BY <4>3 DEF FailuresListedOnce
      <4>5. RecoverableIsNacked
        BY <3>1, <3>2, <4>1, <4>2, <4>3 DEF RecoverableIsNacked, FoDisposition
      <4>6. DeliveredIsSettled
        BY <3>1, <3>2, <4>1, <4>3 DEF DeliveredIsSettled, FoDisposition
      <4>7. QED BY <4>4, <4>5, <4>6 DEF FanoutInv
    <3>4. CASE \E l \in 1..FoLegs : ~foAnswers[l].ok /\ foResult = FoFailed(foAnswers[l].error)
      <4>1. PICK l \in 1..FoLegs : ~foAnswers[l].ok /\ foResult = FoFailed(foAnswers[l].error)
        BY <3>4
      <4>2. ~foResult.ok /\ foResult.error \in FoErrors /\ foResult.error \in BatchErrors
        <5>1. ~foResult.ok /\ foResult.error = foAnswers[l].error
          BY <4>1 DEF FoFailed
        <5>2. QED BY <2>2, <3>1, <4>1, <5>1, AnswerShape DEF BatchErrors, FoErrors
      <4>3. ~AllAnswered
        BY <3>1, <4>1 DEF AllAnswered
      <4>4. RecoverableIsNacked
        BY <3>2, <4>2 DEF RecoverableIsNacked, FoDisposition, DispositionOfError, HasTransient, FoErrors, FoTransient
      <4>5. QED BY <4>2, <4>3, <4>4 DEF FanoutInv, FailuresListedOnce, DeliveredIsSettled
    <3>5. QED BY <2>2, <3>3, <3>4, MergedAnswer
  <2>3. QED BY <1>3, <2>1, <2>2 DEF FoInv
<1>4. QED BY <1>1, <1>2, <1>3, PTL DEF FoSpec
=============================================================================
