------------------------------ MODULE FlushGate ------------------------------
(***************************************************************************)
(* Deferred commits: FlushGate and its GateTask.  For a sink that asks for *)
(* deferred commits, a batch's commit closure first asks the gate for a    *)
(* go; the gate task flushes the sink and then releases what it held       *)
(* before the flush began.                                                 *)
(***************************************************************************)
EXTENDS CommitSequencer, FiniteSets

CONSTANTS Ordered,      \* commit_requires_order() of the source
          Gated,        \* the sink has a deferred_commit_interval()
          MaxHeld       \* capacity / 2, after its max(1)

ASSUME OrderedAssumption == Ordered \in BOOLEAN
ASSUME GatedAssumption == Gated \in BOOLEAN
ASSUME MaxHeldAssumption == MaxHeld \in Nat \ {0}

VARIABLES
    gateQ,      \* the unbounded channel of GateEvents
    gatePc,     \* "run", "flush", "lastFlush" or "end"
    held,       \* GateTask.held, by the batch each Go belongs to
    flushing,   \* the commits taken by the flush that is running
    closing,    \* GateTask.closing
    failed,     \* GateTask.failed.is_some()
    accepted,   \* batches of which the sink took at least one message
    snap,       \* accepted when the running flush began
    durable,    \* accepted batches a successful flush has covered
    errQueued   \* the route's bounded(1) channel of critical errors holds one

gateTaskVars == <<gatePc, held, flushing, closing, failed, snap, durable>>
gateVars == <<gateQ, gateTaskVars, accepted, errQueued>>

GateInit ==
    /\ gateQ = <<>>
    /\ gatePc = IF Gated THEN "run" ELSE "end"
    /\ held = {}
    /\ flushing = {}
    /\ closing = FALSE
    /\ failed = FALSE
    /\ accepted = {}
    /\ snap = {}
    /\ durable = {}
    /\ errQueued = FALSE

\* report_route_error: try_send, so a second error is lost while the first one is queued.
ReportRouteError == errQueued' = TRUE

HoldEvent(s, urgent) == [ev |-> "Hold", batch |-> s, urgent |-> urgent]
PlainEvent(e) == [ev |-> e]

(***************************************************************************)
(* Sending a plain event.  One the task would take without any effect is   *)
(* left out, which keeps the queue finite: a nudge behind a nudge finds    *)
(* nothing held, a closing task holds nothing, a failed one stays failed,  *)
(* and a task that has ended takes nothing.                                *)
(***************************************************************************)
Redundant(e) ==
    \/ gatePc = "end"
    \/ e = "Close" /\ closing
    \/ e = "Abandon" /\ failed
    \/ \E i \in DOMAIN gateQ :
          gateQ[i].ev = e /\ \A j \in DOMAIN gateQ : j > i => gateQ[j].ev # "Hold"

Tell(e) == gateQ' = IF Redundant(e) THEN gateQ ELSE Append(gateQ, PlainEvent(e))

(***************************************************************************)
(* FlushGate::hold, called with the batch's dispositions d: an all-nack    *)
(* batch goes straight on; any other one asks for a go, urgently when      *)
(* somebody waits on it.  Without a gate the closure goes straight on too. *)
(***************************************************************************)
HoldCommit(s, d) ==
    /\ disps' = [disps EXCEPT ![s] = d]
    /\ IF ~Gated \/ d = {"Nack"}
         THEN stage' = [stage EXCEPT ![s] = "ready"] /\ gateQ' = gateQ
         ELSE IF gatePc = "end"
                THEN stage' = [stage EXCEPT ![s] = "unflushed"] /\ gateQ' = gateQ
                ELSE /\ stage' = [stage EXCEPT ![s] = "hold"]
                     /\ gateQ' = Append(gateQ, HoldEvent(s, d # {"Ack"}))

-----------------------------------------------------------------------------
\* The commits of S get their go; one whose future was dropped meanwhile does not notice.
Answer(S, res) == [s \in Batches |-> IF s \in S /\ stage[s] = "hold" THEN res ELSE stage[s]]

\* Mutated: the gap is not announced to the sequencer.
CloseForGapNever(gap) == seqOpen' = seqOpen

\* close_sequencer: there is one only when commits are ordered.
CloseForGap(gap) == seqOpen' = (seqOpen /\ ~(Ordered /\ gap))

\* GateTask::fail for the commits S: a dropped commit is a gap, so the sequencer closes.
FailCommits(S) ==
    /\ CloseForGap(S # {})
    /\ stage' = Answer(S, "unflushed")
    /\ failed' = TRUE

\* The task ends after failing S; the events still queued are dropped with their Go.
EndTask(S) ==
    /\ CloseForGap(S # {})
    /\ stage' = Answer(Batches, "unflushed")
    /\ failed' = TRUE
    /\ gatePc' = "end"

\* The start of GateTask::flush, up to the call of the sink's flush.
BeginFlush(S, pc) ==
    /\ flushing' = S
    /\ held' = {}
    /\ snap' = accepted
    /\ gatePc' = pc
    /\ UNCHANGED <<stage, seqOpen, failed>>

KeepHolding(S) ==
    /\ held' = S
    /\ UNCHANGED <<stage, seqOpen, failed, flushing, snap, gatePc>>

OnHold(e, starved) ==
    IF failed
      THEN /\ FailCommits({e.batch})
           /\ UNCHANGED <<held, flushing, snap, gatePc>>
      ELSE LET now == held \cup {e.batch} IN
           IF e.urgent \/ closing \/ Cardinality(now) >= MaxHeld \/ starved
             THEN BeginFlush(now, "flush")
             ELSE KeepHolding(now)

OnPlain(e) ==
    CASE e \in {"Nudge", "Close"} ->
            IF held # {} THEN BeginFlush(held, "flush") ELSE KeepHolding(held)
      [] e = "Abandon" ->
            /\ FailCommits(held)
            /\ held' = {}
            /\ UNCHANGED <<flushing, snap, gatePc>>
      [] e = "Shutdown" ->
            IF ~failed /\ held # {}
              THEN BeginFlush(held, "lastFlush")
              ELSE EndTask(held) /\ held' = {} /\ UNCHANGED <<flushing, snap>>

\* One event of GateTask::run.  starved is reader_starved() when the event is taken.
GateRecv(starved) ==
    /\ gatePc = "run"
    /\ gateQ # <<>>
    /\ LET e == Head(gateQ) IN
          /\ IF e.ev = "Hold" THEN OnHold(e, starved) ELSE OnPlain(e.ev)
          /\ closing' = (closing \/ e.ev = "Close")
    /\ gateQ' = IF gatePc' = "end" THEN <<>> ELSE Tail(gateQ)
    /\ UNCHANGED <<disps, chan, buffer, nextSeq, routerUp, seqDone, srcVars,
                   accepted, durable, errQueued>>

\* The deadline passes with something held; the select is unbiased, so events may be waiting.
GateTimer ==
    /\ gatePc = "run"
    /\ held # {}
    /\ BeginFlush(held, "flush")
    /\ UNCHANGED <<disps, chan, buffer, nextSeq, routerUp, seqDone, srcVars,
                   gateQ, closing, accepted, durable, errQueued>>

\* Mutated: releases what has come in during the flush as well.
FlushOkReleasesAll ==
    /\ gatePc \in {"flush", "lastFlush"}
    /\ durable' = durable \cup snap
    /\ stage' = [s \in Batches |-> IF stage[s] = "hold" THEN "ready" ELSE stage[s]]
    /\ gatePc' = IF gatePc = "lastFlush" THEN "end" ELSE "run"
    /\ gateQ' = <<>>
    /\ failed' = (gatePc = "lastFlush")
    /\ flushing' = {}
    /\ held' = {}
    /\ UNCHANGED <<disps, chan, buffer, nextSeq, seqOpen, routerUp, seqDone, srcVars,
                   closing, snap, accepted, errQueued>>

\* The sink's flush succeeded: what it had accepted when the flush began is durable, and
\* the commits it took are released.  After the last flush the task ends, failing the rest.
FlushOk ==
    /\ gatePc \in {"flush", "lastFlush"}
    /\ durable' = durable \cup snap
    /\ LET last == gatePc = "lastFlush" IN
          /\ stage' = [s \in Batches |->
                         IF stage[s] # "hold" THEN stage[s]
                         ELSE IF s \in flushing THEN "ready"
                         ELSE IF last THEN "unflushed" ELSE "hold"]
          /\ gatePc' = IF last THEN "end" ELSE "run"
          /\ gateQ' = IF last THEN <<>> ELSE gateQ
          /\ failed' = last
    /\ flushing' = {}
    /\ UNCHANGED <<disps, chan, buffer, nextSeq, seqOpen, routerUp, seqDone, srcVars,
                   held, closing, snap, accepted, errQueued>>

\* Mutated: the failed commits stay quiet and so does the gate.
FlushErrSilent ==
    /\ gatePc \in {"flush", "lastFlush"}
    /\ IF gatePc = "lastFlush"
         THEN EndTask(flushing) /\ gateQ' = <<>>
         ELSE FailCommits(flushing) /\ gatePc' = "run" /\ gateQ' = gateQ
    /\ flushing' = {}
    /\ UNCHANGED <<disps, chan, buffer, nextSeq, routerUp, seqDone, srcVars,
                   held, closing, snap, accepted, durable, errQueued>>

\* The flush failed: the error is reported first, then every commit it had taken fails.
FlushErr ==
    /\ Disturbed
    /\ gatePc \in {"flush", "lastFlush"}
    /\ ReportRouteError
    /\ IF gatePc = "lastFlush"
         THEN EndTask(flushing) /\ gateQ' = <<>>
         ELSE FailCommits(flushing) /\ gatePc' = "run" /\ gateQ' = gateQ
    /\ flushing' = {}
    /\ UNCHANGED <<disps, chan, buffer, nextSeq, routerUp, seqDone, srcVars,
                   held, closing, snap, accepted, durable>>
=============================================================================
