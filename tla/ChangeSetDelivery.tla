------------------------- MODULE ChangeSetDelivery -------------------------
(***************************************************************************)
(* Delivery of one approved configuration change set into JD Edwards DEV.  *)
(*                                                                         *)
(* The agents' runner (executors/runner.py) walks the items in the         *)
(* approved order.  For each agent item it records an attempt              *)
(* (execution.begin_item), reads the item live, drives the save, reads it  *)
(* back and closes the attempt (execution.finish_item).  People record the *)
(* items marked for a person (delivery/functional.record_item_applied) and *)
(* reconcile items of unknown outcome (execution.reconcile_item).  Every   *)
(* instance of the API shares one database, so a locked transaction is one *)
(* atomic step here; everything between two transactions interleaves.      *)
(*                                                                         *)
(* The approval gate is one Boolean here (gate): everything that           *)
(* authorise_functional_delivery and the role checks read that is not the  *)
(* change's own execution state.                                           *)
(***************************************************************************)
EXTENDS Integers, Sequences

CONSTANTS
    NItems,        \* number of items, approved in the order 1 .. NItems
    Route,         \* item -> "ais", "browser" or "person", fixed at proposal
    Readable,      \* items a live AIS read covers
    Bound,         \* items whose before-state was known at approval
    Instance,      \* API processes sharing the database
    Person,        \* Application Managers with a request open
    MaxAttempts,   \* bound: attempts recorded per item
    MaxStarts,     \* bound: agent runs a person starts by hand (Run the agents)
    MaxEvents,     \* bound: outside events (crash, gate, pause, switch, drift)
    Events         \* which outside events happen in the instance checked

Item == 1 .. NItems
AgentRoutes == {"ais", "browser"}
Value == {"before", "approved", "other"}
Result == {"applied", "not_sent", "unknown"}
ItemState == {"ready", "in_progress", "applied", "unknown", "diverged"}
RunnerPc == {"idle", "select", "begin", "read", "commit", "readback", "finish",
             "complete", "release"}
RequestStep == {"none", "reading", "storing", "completing", "settling"}
NoResult == "none"

ASSUME ItemsAssumption == NItems \in Nat \ {0}
ASSUME RouteAssumption == Route \in [Item -> AgentRoutes \cup {"person"}]
ASSUME ReadersAssumption == Readable \subseteq Item /\ Bound \subseteq Readable
ASSUME InstanceAssumption == Instance # {}
ASSUME BoundsAssumption == MaxAttempts \in Nat /\ MaxStarts \in Nat /\ MaxEvents \in Nat

VARIABLES
    \* the change record, in the database
    itemState,   \* execution.items[i].state
    attempts,    \* execution.items[i].attempts: the outcome of each ("none" = open)
    settled,     \* attempts covered by the newest reconciliation of the item
    delivery,    \* item_delivery[i].executor, "none" when not recorded
    write,       \* execution.write.state of the whole change set
    \* what the surroundings decide
    stale,       \* the open attempt is older than STALE_AFTER_SECONDS
    gate,        \* approval, authority, binding and scope all hold
    paused,      \* the write-pause file exists
    switched,    \* agent execution is on and tested (routes.readiness)
    \* JD Edwards DEV
    jde,         \* the item's actual state
    inFlight,    \* a save whose answer was lost may still land
    \* one runner per instance: volatile
    up, pc, cur, att, retry, result, resume,
    \* one open request per person: volatile
    req,
    \* bounds
    starts, events

record == <<itemState, attempts, settled, delivery, write>>
world == <<stale, gate, paused, switched>>
dev == <<jde, inFlight>>
runner == <<up, pc, cur, att, retry, result, resume>>
bounds == <<starts, events>>
vars == <<record, world, dev, runner, req, bounds>>

NoRequest == [step |-> "none", item |-> 1, seen |-> "before", at |-> CHOOSE n \in Instance : TRUE]

Init ==
    /\ itemState = [i \in Item |-> "ready"]
    /\ attempts = [i \in Item |-> <<>>]
    /\ settled = [i \in Item |-> 0]
    /\ delivery = [i \in Item |-> "none"]
    /\ write = "ready"
    /\ stale = [i \in Item |-> FALSE]
    /\ gate = TRUE
    /\ paused = FALSE
    /\ switched = TRUE
    /\ jde = [i \in Item |-> "before"]
    /\ inFlight = [i \in Item |-> FALSE]
    /\ up = [n \in Instance |-> TRUE]
    /\ pc = [n \in Instance |-> "idle"]
    /\ cur = [n \in Instance |-> 1]
    /\ att = [n \in Instance |-> 0]
    /\ retry = [n \in Instance |-> FALSE]
    /\ result = [n \in Instance |-> NoResult]
    /\ \E n \in Instance : resume = [m \in Instance |-> m = n]   \* approve_exact_change
    /\ req = [p \in Person |-> NoRequest]
    /\ starts = 0
    /\ events = 0

(***************************************************************************)
(* The change record as the code reads it                                  *)
(***************************************************************************)

\* item_state: an open attempt that is too old reads as unknown.
EffectiveState(i) ==
    IF itemState[i] = "in_progress" /\ stale[i] THEN "unknown" ELSE itemState[i]

Delivered(i) == delivery[i] # "none"
AllDelivered == \A i \in Item : Delivered(i)

LastOutcome(i) == IF attempts[i] = <<>> THEN NoResult ELSE attempts[i][Len(attempts[i])]

\* Broken variant: a diverged item no longer stops the gate.
AuthorisedDespiteDiverged == gate /\ write = "ready"

\* authorise_functional_delivery, with the role check of its caller.
Authorised ==
    /\ gate
    /\ write = "ready"
    /\ \A i \in Item : EffectiveState(i) # "diverged"

Settling == {"in_progress", "unknown", "diverged"}

\* item_status: what the item waits for.
Status(i) ==
    CASE Delivered(i) -> "applied"
      [] ~Delivered(i) /\ EffectiveState(i) \in Settling -> EffectiveState(i)
      [] ~Delivered(i) /\ EffectiveState(i) \notin Settling ->
            CASE Route[i] = "person" -> "waiting_for_person"
              [] Route[i] # "person" /\ LastOutcome(i) = "not_sent" -> "agent_could_not_apply"
              [] Route[i] # "person" /\ LastOutcome(i) # "not_sent" ->
                    IF switched THEN "waiting_for_agent" ELSE "agent_unavailable"

HandoverAllowed(i) == Status(i) \in {"agent_could_not_apply", "agent_unavailable"}

(***************************************************************************)
(* The agents' runner                                                      *)
(***************************************************************************)

\* The run has decided to end (or an exception ends it); its lock is still held.
StopRun(n) ==
    /\ pc' = [pc EXCEPT ![n] = "release"]
    /\ cur' = [cur EXCEPT ![n] = 1]
    /\ att' = [att EXCEPT ![n] = 0]
    /\ retry' = [retry EXCEPT ![n] = FALSE]

StartRun(n, again) ==
    /\ pc' = [pc EXCEPT ![n] = "select"]
    /\ cur' = [cur EXCEPT ![n] = 1]
    /\ retry' = [retry EXCEPT ![n] = again]
    /\ UNCHANGED <<up, att, result>>

\* run's finally clause.
ReleaseLock(n) ==
    /\ pc[n] = "release"
    /\ pc' = [pc EXCEPT ![n] = "idle"]
    /\ UNCHANGED <<record, world, dev, up, cur, att, retry, result, resume, req, bounds>>

\* Run the agents (run_agents): a deliberate start, which may retry.
PressRun(n) ==
    /\ up[n] /\ pc[n] = "idle" /\ ~paused
    /\ Authorised
    /\ starts < MaxStarts
    /\ starts' = starts + 1
    /\ StartRun(n, TRUE)
    /\ UNCHANGED <<record, world, dev, resume, req, events>>

\* The background run queued after an approval or a person's record. While
\* this instance's runner holds the change's lock it ends as already_running.
TakeResume(n) ==
    /\ up[n] /\ resume[n]
    /\ resume' = [resume EXCEPT ![n] = FALSE]
    /\ IF pc[n] = "idle" /\ Authorised
          THEN StartRun(n, FALSE)
          ELSE UNCHANGED <<up, pc, cur, att, retry, result>>
    /\ UNCHANGED <<record, world, dev, req, bounds>>

\* Broken variant: the loop does not advance past a recorded item.
SkipWithoutMoving(n) == pc[n] = "select" /\ cur[n] \in Item /\ Delivered(cur[n]) /\ UNCHANGED vars

\* The head of the loop in _run: the record is read again for every item.
SkipDelivered(n) ==
    /\ pc[n] = "select" /\ cur[n] \in Item /\ Delivered(cur[n])
    /\ cur' = [cur EXCEPT ![n] = @ + 1]
    /\ UNCHANGED <<record, world, dev, up, pc, att, retry, result, resume, req, bounds>>

Retries(n) == Status(cur[n]) = "agent_could_not_apply" /\ retry[n]

SelectItem(n) ==
    /\ pc[n] = "select" /\ cur[n] \in Item /\ ~Delivered(cur[n])
    /\ Status(cur[n]) = "waiting_for_agent" \/ (Retries(n) /\ switched)
    /\ pc' = [pc EXCEPT ![n] = "begin"]
    /\ retry' = [retry EXCEPT ![n] = @ /\ ~Retries(n)]
    /\ UNCHANGED <<record, world, dev, up, cur, att, result, resume, req, bounds>>

StopAtItem(n) ==
    /\ pc[n] = "select" /\ cur[n] \in Item /\ ~Delivered(cur[n])
    /\ Status(cur[n]) # "waiting_for_agent"
    /\ ~(Retries(n) /\ switched)
    /\ StopRun(n)
    /\ UNCHANGED <<record, world, dev, up, result, resume, req, bounds>>

EndOfItems(n) ==
    /\ pc[n] = "select" /\ cur[n] \notin Item
    /\ pc' = [pc EXCEPT ![n] = "complete"]
    /\ UNCHANGED <<record, world, dev, up, cur, att, retry, result, resume, req, bounds>>

\* Broken variant: only an open attempt blocks, not an unknown outcome.
MayBeginUnsettled(i) ==
    /\ ~paused /\ Authorised /\ ~Delivered(i)
    /\ EffectiveState(i) # "in_progress"
    /\ Len(attempts[i]) < MaxAttempts
\* Broken variant: the record of the item's delivery is not read again.
MayBeginDelivered(i) ==
    /\ ~paused /\ Authorised
    /\ EffectiveState(i) = "ready"
    /\ Len(attempts[i]) < MaxAttempts

\* begin_item's conditions, all read inside the change's lock.
MayBegin(i) ==
    /\ ~paused
    /\ Authorised
    /\ ~Delivered(i)
    /\ EffectiveState(i) = "ready"
    /\ Len(attempts[i]) < MaxAttempts

BeginItem(n) ==
    /\ pc[n] = "begin" /\ MayBegin(cur[n])
    /\ attempts' = [attempts EXCEPT ![cur[n]] = Append(@, NoResult)]
    /\ itemState' = [itemState EXCEPT ![cur[n]] = "in_progress"]
    /\ stale' = [stale EXCEPT ![cur[n]] = FALSE]
    /\ att' = [att EXCEPT ![n] = Len(attempts[cur[n]]) + 1]
    /\ pc' = [pc EXCEPT ![n] = "read"]
    /\ UNCHANGED <<settled, delivery, write, gate, paused, switched, dev,
                   up, cur, retry, result, resume, req, bounds>>

\* begin_item raises; the background run ends.
BeginRefused(n) ==
    /\ pc[n] = "begin" /\ ~MayBegin(cur[n])
    /\ StopRun(n)
    /\ UNCHANGED <<record, world, dev, up, result, resume, req, bounds>>

CloseAs(n, r) ==
    /\ result' = [result EXCEPT ![n] = r]
    /\ pc' = [pc EXCEPT ![n] = "finish"]

\* live.read_row: an approved read covers the item's row.
Covered(i) == i \in Readable

GoOn(n, step) == pc' = [pc EXCEPT ![n] = step] /\ UNCHANGED result

\* The live read before the change: a failed read, an unreadable row or a
\* value the approval was not bound to stops the item before anything is sent.
ReadBefore(n) ==
    /\ pc[n] = "read"
    /\ LET i == cur[n] IN
         IF Covered(i)
            THEN \/ CloseAs(n, "not_sent")
                 \/ i \in Bound /\ jde[i] # "before" /\ CloseAs(n, "not_sent")
                 \/ (i \in Bound => jde[i] = "before") /\ GoOn(n, "commit")
            ELSE \/ CloseAs(n, "not_sent")
                 \/ Route[i] = "browser" /\ GoOn(n, "commit")
    /\ UNCHANGED <<record, world, dev, up, cur, att, retry, resume, req, bounds>>

\* Nothing was sent: the connection or the write user does not let the session
\* in, or a form is not the one the item is for (ais.Stack, NotSent).
StoppedBefore(n) == CloseAs(n, "not_sent") /\ UNCHANGED dev

\* The request that commits went out and its answer never came (Stack._send).
AnswerLost(n) ==
    /\ inFlight' = [inFlight EXCEPT ![cur[n]] = TRUE]
    /\ UNCHANGED jde
    /\ IF Route[cur[n]] = "ais" THEN GoOn(n, "readback") ELSE CloseAs(n, "unknown")

\* ais.apply_item / browser.apply_item: stopped before the commit, answered
\* (saved, or changed to something else, or refused), or not answered.  The
\* AIS route goes on to the read-back after a commit without an answer; the
\* browser route raises.
Commit(n) ==
    /\ pc[n] = "commit"
    /\ LET i == cur[n] IN
         \/ StoppedBefore(n)
         \/ /\ \E v \in {"approved", "other", jde[i]} : jde' = [jde EXCEPT ![i] = v]
            /\ UNCHANGED inFlight
            /\ GoOn(n, "readback") \/ (Route[i] = "browser" /\ CloseAs(n, "unknown"))
         \/ AnswerLost(n)
    /\ UNCHANGED <<record, world, up, cur, att, retry, resume, req, bounds>>

\* Broken variant: any change counts as the approved one.
VerifiedLoosely(i) == jde[i] # "before"

\* matches_approved on what is read in DEV.
Verified(i) == jde[i] = "approved"

\* The live read-back.  Where AIS cannot read the item, what the browser
\* agent observed on reopening it stands in for the read (and is taken here
\* to be what it saw).
ReadBack(n) ==
    /\ pc[n] = "readback"
    /\ LET i == cur[n] IN
         \/ /\ Covered(i) \/ Route[i] = "browser"
            /\ CloseAs(n, IF Verified(i) THEN "applied" ELSE "unknown")
         \/ CloseAs(n, "unknown")
    /\ UNCHANGED <<record, world, dev, up, cur, att, retry, resume, req, bounds>>

StateOf(r) == CASE r = "applied" -> "applied" [] r = "not_sent" -> "ready" [] r = "unknown" -> "unknown"

\* finish_item's is_current: the attempt being closed is the open one.
IsCurrent(n) == itemState[cur[n]] = "in_progress" /\ att[n] = Len(attempts[cur[n]])

\* Broken variant: a late answer overwrites a diverged item.
ClosedStateLateUnknown(n) == IF IsCurrent(n) THEN StateOf(result[n]) ELSE "unknown"

ClosedState(n) ==
    IF IsCurrent(n) THEN StateOf(result[n])
    ELSE IF itemState[cur[n]] = "diverged" THEN "diverged" ELSE "unknown"

\* Broken variant: the newest attempt is closed, not the run's own.
ClosedNewest(n) ==
    [attempts EXCEPT ![cur[n]] = [@ EXCEPT ![Len(attempts[cur[n]])] = result[n]]]

\* The attempt is closed by its own identifier, whichever is the newest.
ClosedAttempts(n) == [attempts EXCEPT ![cur[n]] = [@ EXCEPT ![att[n]] = result[n]]]

\* Broken variant: the run goes on past an unknown outcome.
GoesOnUnlessNotSent(n) == result[n] # "not_sent"

GoesOn(n) == result[n] = "applied"

\* finish_item, and what the run does with run_item's answer: only the
\* outcome of the attempt decides whether the loop goes on.
FinishItem(n) ==
    /\ pc[n] = "finish"
    /\ LET i == cur[n] IN
         /\ attempts' = ClosedAttempts(n)
         /\ itemState' = [itemState EXCEPT ![i] = ClosedState(n)]
         /\ delivery' = [delivery EXCEPT ![i] =
                            IF result[n] = "applied" /\ IsCurrent(n) THEN "agent" ELSE @]
         /\ IF GoesOn(n)
               THEN /\ pc' = [pc EXCEPT ![n] = "select"]
                    /\ cur' = [cur EXCEPT ![n] = i + 1]
                    /\ att' = [att EXCEPT ![n] = 0]
                    /\ UNCHANGED retry
               ELSE StopRun(n)
         /\ stale' = [stale EXCEPT ![i] = FALSE]
    /\ result' = [result EXCEPT ![n] = NoResult]
    /\ UNCHANGED <<settled, write, gate, paused, switched, dev, up, resume, req, bounds>>

\* complete_if_all_recorded: one locked transaction through the whole gate.
RecordWrite ==
    IF AllDelivered /\ write = "ready" /\ ~paused /\ Authorised
       THEN write' = "applied"
       ELSE UNCHANGED write

\* Broken variant: the run ends without completing the change.
EndWithoutCompleting(n) ==
    /\ pc[n] = "complete"
    /\ StopRun(n)
    /\ UNCHANGED <<record, world, dev, up, result, resume, req, bounds>>

CompleteRun(n) ==
    /\ pc[n] = "complete"
    /\ RecordWrite
    /\ StopRun(n)
    /\ UNCHANGED <<itemState, attempts, settled, delivery, world, dev,
                   up, result, resume, req, bounds>>

(***************************************************************************)
(* A person records an item, or reconciles one                             *)
(***************************************************************************)

Ask(p, step, i, seen, n) ==
    req' = [req EXCEPT ![p] = [step |-> step, item |-> i, seen |-> seen, at |-> n]]

EndRequest(p) == req' = [req EXCEPT ![p] = NoRequest]

\* record_item_applied up to the live read: the gate, the recorder's role,
\* and for an agent item its state and the reason it may be handed over.
MayRecord(i) ==
    /\ Authorised
    /\ ~Delivered(i)
    /\ Route[i] # "person" => EffectiveState(i) \notin Settling /\ HandoverAllowed(i)

RecordChecks(p, i, n) ==
    /\ req[p].step = "none" /\ up[n] /\ ~paused
    /\ MayRecord(i)
    /\ Ask(p, "reading", i, "before", n)
    /\ UNCHANGED <<record, world, dev, runner, bounds>>

\* The live read; where Jade cannot read the item the person states what JD
\* Edwards shows.  Anything but the approved values is refused.
RecordReads(p) ==
    /\ req[p].step = "reading"
    /\ IF Verified(req[p].item)
          THEN Ask(p, "storing", req[p].item, "approved", req[p].at)
          ELSE EndRequest(p)
    /\ UNCHANGED <<record, world, dev, runner, bounds>>

\* The locked transaction that stores the record: it looks only at whether
\* the item was recorded meanwhile.  A record that does not complete the
\* change set queues the agents' next run.
RecordStores(p) ==
    /\ req[p].step = "storing"
    /\ LET i == req[p].item
           n == req[p].at
           all == \A j \in Item \ {i} : Delivered(j) IN
         IF Delivered(i)
            THEN EndRequest(p) /\ UNCHANGED <<delivery, resume>>
            ELSE /\ delivery' = [delivery EXCEPT ![i] = "person"]
                 /\ resume' = [resume EXCEPT ![n] = @ \/ ~all]
                 /\ IF all THEN Ask(p, "completing", i, "approved", n) ELSE EndRequest(p)
    /\ UNCHANGED <<itemState, attempts, settled, write, world, dev,
                   up, pc, cur, att, retry, result, bounds>>

RecordCompletes(p) ==
    /\ req[p].step = "completing"
    /\ RecordWrite
    /\ EndRequest(p)
    /\ UNCHANGED <<itemState, attempts, settled, delivery, world, dev, runner, bounds>>

\* The reconcile endpoint reads the item before it takes the change's lock.
ReconcileReads(p, i, n) ==
    /\ req[p].step = "none" /\ up[n] /\ ~paused
    /\ attempts[i] # <<>>   \* nothing else is ever of unknown outcome
    /\ Ask(p, "settling", i, jde[i], n)
    /\ UNCHANGED <<record, world, dev, runner, bounds>>

SettledState(seen, i) ==
    CASE seen = "approved" -> "applied"
      [] seen = "before" /\ i \in Bound -> "ready"
      [] seen = "other" \/ (seen = "before" /\ i \notin Bound) -> "diverged"

MaySettle(i) == EffectiveState(i) = "unknown"

ReconcileSettles(p) ==
    /\ req[p].step = "settling"
    /\ LET i == req[p].item
           s == SettledState(req[p].seen, i) IN
         IF MaySettle(i)
            THEN /\ itemState' = [itemState EXCEPT ![i] = s]
                 /\ settled' = [settled EXCEPT ![i] = Len(attempts[i])]
                 /\ delivery' = [delivery EXCEPT ![i] = IF s = "applied" THEN "reconciled" ELSE @]
                 /\ stale' = [stale EXCEPT ![i] = FALSE]
            ELSE UNCHANGED <<itemState, settled, delivery, stale>>
    /\ EndRequest(p)
    /\ UNCHANGED <<attempts, write, gate, paused, switched, dev, runner, bounds>>

(***************************************************************************)
(* Everything around the change                                            *)
(***************************************************************************)

\* A save whose answer was lost reaches JD Edwards after all, with the values
\* it carried, or never does.
Lands(i) ==
    /\ inFlight[i]
    /\ inFlight' = [inFlight EXCEPT ![i] = FALSE]
    /\ \E v \in {"approved", jde[i]} : jde' = [jde EXCEPT ![i] = v]
    /\ UNCHANGED <<record, world, runner, req, bounds>>

\* A person applies the approved values in DEV by hand, where it is theirs.
HandApplies(i) ==
    /\ Route[i] = "person" \/ HandoverAllowed(i)
    /\ jde[i] # "approved"
    /\ jde' = [jde EXCEPT ![i] = "approved"]
    /\ UNCHANGED <<record, world, inFlight, runner, req, bounds>>

\* Fifteen minutes pass while the newest attempt is open.
GrowsStale(i) ==
    /\ "slow" \in Events
    /\ itemState[i] = "in_progress" /\ ~stale[i]
    /\ stale' = [stale EXCEPT ![i] = TRUE]
    /\ UNCHANGED <<record, gate, paused, switched, dev, runner, req, bounds>>

Happens(e) == e \in Events /\ events < MaxEvents /\ events' = events + 1

Crash(n) ==
    /\ Happens("crash") /\ up[n]
    /\ up' = [up EXCEPT ![n] = FALSE]
    /\ pc' = [pc EXCEPT ![n] = "idle"]
    /\ cur' = [cur EXCEPT ![n] = 1]
    /\ att' = [att EXCEPT ![n] = 0]
    /\ retry' = [retry EXCEPT ![n] = FALSE]
    /\ resume' = [resume EXCEPT ![n] = FALSE]
    /\ result' = [result EXCEPT ![n] = NoResult]
    /\ req' = [p \in Person |-> IF req[p].at = n THEN NoRequest ELSE req[p]]
    /\ UNCHANGED <<record, world, dev, starts>>

\* mark_interrupted_unknown, run at start-up: every open attempt in the
\* shared database, whichever instance is running it.
Restart(n) ==
    /\ ~up[n]
    /\ up' = [up EXCEPT ![n] = TRUE]
    /\ itemState' = [i \in Item |-> IF itemState[i] = "in_progress" THEN "unknown" ELSE itemState[i]]
    /\ stale' = [i \in Item |-> FALSE]
    /\ UNCHANGED <<attempts, settled, delivery, write, gate, paused, switched, dev,
                   pc, cur, att, retry, result, resume, req, bounds>>

\* Someone else changes the item in DEV.
Drifts(i) ==
    /\ Happens("drift")
    /\ \E v \in Value \ {jde[i]} : jde' = [jde EXCEPT ![i] = v]
    /\ UNCHANGED <<record, world, inFlight, runner, req, starts>>

\* The approval expires or is invalidated, the approver is demoted (and may
\* be reinstated), the company's scope is changed.
GateChanges ==
    /\ Happens("gate") /\ gate' = ~gate
    /\ UNCHANGED <<record, stale, paused, switched, dev, runner, req, starts>>

PauseChanges ==
    /\ Happens("pause") /\ paused' = ~paused
    /\ UNCHANGED <<record, stale, gate, switched, dev, runner, req, starts>>

SwitchChanges ==
    /\ Happens("switch") /\ switched' = ~switched
    /\ UNCHANGED <<record, stale, gate, paused, dev, runner, req, starts>>

(***************************************************************************)
(* The specification                                                       *)
(***************************************************************************)

RunnerStep(n) ==
    \/ SkipDelivered(n) \/ SelectItem(n) \/ StopAtItem(n) \/ EndOfItems(n)
    \/ BeginItem(n) \/ BeginRefused(n) \/ ReadBefore(n) \/ Commit(n)
    \/ ReadBack(n) \/ FinishItem(n) \/ CompleteRun(n) \/ ReleaseLock(n)

RequestStepOf(p) ==
    RecordReads(p) \/ RecordStores(p) \/ RecordCompletes(p) \/ ReconcileSettles(p)

Next ==
    \/ \E n \in Instance : \/ PressRun(n) \/ TakeResume(n) \/ RunnerStep(n)
                           \/ Crash(n) \/ Restart(n)
    \/ \E p \in Person : RequestStepOf(p)
    \/ \E p \in Person, i \in Item, n \in Instance : RecordChecks(p, i, n) \/ ReconcileReads(p, i, n)
    \/ \E i \in Item : Lands(i) \/ HandApplies(i) \/ GrowsStale(i) \/ Drifts(i)
    \/ GateChanges \/ PauseChanges \/ SwitchChanges

Spec == Init /\ [][Next]_vars

(***************************************************************************)
(* Fairness: a running instance keeps executing its background run and its *)
(* open requests, and a queued run starts.  Nothing obliges a person to    *)
(* act or a stopped instance to come back.                                 *)
(***************************************************************************)
Fairness ==
    /\ \A n \in Instance : WF_vars(RunnerStep(n)) /\ WF_vars(TakeResume(n))
    /\ \A p \in Person : WF_vars(RequestStepOf(p))

FairSpec == Spec /\ Fairness

(***************************************************************************)
(* Properties                                                              *)
(***************************************************************************)

TypeOK ==
    /\ itemState \in [Item -> ItemState]
    /\ attempts \in [Item -> Seq(Result \cup {NoResult})]
    /\ settled \in [Item -> Nat]
    /\ delivery \in [Item -> {"none", "agent", "person", "reconciled"}]
    /\ write \in {"ready", "applied"}
    /\ stale \in [Item -> BOOLEAN] /\ gate \in BOOLEAN /\ paused \in BOOLEAN /\ switched \in BOOLEAN
    /\ jde \in [Item -> Value] /\ inFlight \in [Item -> BOOLEAN]
    /\ up \in [Instance -> BOOLEAN]
    /\ pc \in [Instance -> RunnerPc]
    /\ cur \in [Instance -> 1 .. (NItems + 1)]
    /\ att \in [Instance -> Nat]
    /\ retry \in [Instance -> BOOLEAN]
    /\ result \in [Instance -> Result \cup {NoResult}]
    /\ resume \in [Instance -> BOOLEAN]
    /\ req \in [Person -> [step : RequestStep, item : Item, seen : Value, at : Instance]]
    /\ starts \in Nat /\ events \in Nat

Working == {"read", "commit", "readback", "finish"}

\* The fate of attempt k of item i is known: it provably sent nothing, or a
\* person reconciled the item after it was made.
Known(i, k) == attempts[i][k] = "not_sent" \/ k <= settled[i]

\* Never a blind retry (execution.py, begin_item and reconcile_item): when an
\* item is ready again, or has a newer attempt, nobody wonders any more what
\* the earlier attempts did to JD Edwards -- through crashes, restarts of
\* other instances, stale attempts and answers that come in late.
NoBlindRetry ==
    \A i \in Item : \A k \in 1 .. Len(attempts[i]) :
        (k < Len(attempts[i]) \/ itemState[i] = "ready") => Known(i, k)

\* An attempt is recorded before anything is sent (runner.run_item): while an
\* agent works on an item its own attempt is on record, still open, and no
\* other instance works under the same attempt.
RecordedBeforeSent ==
    \A n \in Instance : pc[n] \in Working =>
        /\ att[n] \in 1 .. Len(attempts[cur[n]])
        /\ attempts[cur[n]][att[n]] = NoResult
        /\ \A m \in Instance \ {n} :
              pc[m] \in Working /\ cur[m] = cur[n] => att[m] # att[n]

\* Once reconciliation found an item diverged it stays so, even when a late
\* answer of an earlier attempt is still being closed (finish_item).
DivergedForever ==
    [][\A i \in Item : itemState[i] = "diverged" => itemState'[i] = "diverged"]_vars

\* ... and from then on the change set starts no attempt on any of its items
\* and never counts as applied (authorise_functional_delivery in the lock).
DivergedStopsTheChange ==
    [][(\E i \in Item : itemState[i] = "diverged") =>
         /\ \A i \in Item : Len(attempts'[i]) = Len(attempts[i])
         /\ write' = write]_vars

\* The change counts as applied only when every item is recorded, and an
\* item recorded as delivered never runs again, whoever recorded it.
AppliedMeansEveryItem == write = "applied" => AllDelivered

DeliveredNeverRunsAgain ==
    [][\A i \in Item : Delivered(i) =>
         Delivered(i)' /\ Len(attempts'[i]) = Len(attempts[i])]_vars

\* What the agents recorded as delivered, and what a person recorded of the
\* items marked for a person, is what JD Edwards holds, whatever crashed, was
\* paused or was withdrawn on the way (run_item's read-back and
\* record_item_applied's live read) -- as long as nobody else changes DEV and
\* no attempt outlives its record.
RecordedIsInJde ==
    \A i \in Item :
        delivery[i] = "agent" \/ (delivery[i] = "person" /\ Route[i] = "person") => jde[i] = "approved"

\* Items are applied in the approved order: an item of unknown outcome stops
\* the change set (execution.py:226-228), so an attempt only ever starts when
\* every earlier item is recorded.
ApprovedOrder ==
    [][\A i \in Item : Len(attempts'[i]) > Len(attempts[i]) =>
         \A j \in Item : j < i => Delivered(j)]_vars

\* Every step stored against the change passed the gate inside the lock that
\* stores it (approval.py:371-373).
StoredThroughTheGate ==
    [][\A i \in Item : (delivery[i] = "none" /\ delivery'[i] = "person") => gate]_vars

\* A run that was started ends: the lock the instance holds is released.
RunEnds == \A n \in Instance : pc[n] # "idle" ~> pc[n] = "idle"

\* Once every item is recorded the change counts as applied (runner.py:21-23).
CompletesWhenRecorded == AllDelivered ~> write = "applied"

\* ... at least where no item was reconciled and nothing crashed or was
\* withdrawn on the way.
Reconciled == \E i \in Item : settled[i] > 0
CompletesUnreconciled == AllDelivered ~> write = "applied" \/ Reconciled \/ events > 0
=============================================================================
