---------------------- MODULE ChangeSetDelivery_proofs ----------------------
(***************************************************************************)
(* Proofs about ChangeSetDelivery for every number of items, routes,       *)
(* instances and people, and without the bounds TLC needs.                 *)
(*                                                                         *)
(* The order and the truth of the records depend on attempts that nobody   *)
(* gives up while an agent works; each theorem names those it depends on.  *)
(***************************************************************************)
EXTENDS ChangeSetDelivery, SequenceTheorems, TLAPS

\* What the runner's program counter promises about its local variables.
RunnerOK ==
    /\ \A n \in Instance : pc[n] \in Working \cup {"begin"} => cur[n] \in Item
    /\ \A n \in Instance : pc[n] = "finish" => result[n] \in Result

Typed == TypeOK /\ RunnerOK

\* The inductive invariant: NoBlindRetry alone is not inductive, because
\* closing an attempt must not turn a known fate into an unknown one; that
\* the attempt being closed is open, and nobody else's, is RecordedBeforeSent.
IInv == Typed /\ RecordedBeforeSent /\ NoBlindRetry

\* The record's part of TypeOK, and the rest.
RecordTyped ==
    /\ itemState \in [Item -> ItemState]
    /\ attempts \in [Item -> Seq(Result \cup {NoResult})]
    /\ settled \in [Item -> Nat]
    /\ delivery \in [Item -> {"none", "agent", "person", "reconciled"}]
    /\ write \in {"ready", "applied"}

WorldTyped ==
    /\ stale \in [Item -> BOOLEAN] /\ gate \in BOOLEAN /\ paused \in BOOLEAN /\ switched \in BOOLEAN
    /\ jde \in [Item -> Value] /\ inFlight \in [Item -> BOOLEAN]
    /\ starts \in Nat /\ events \in Nat

RunnerTyped ==
    /\ pc \in [Instance -> RunnerPc]
    /\ cur \in [Instance -> 1 .. (NItems + 1)]
    /\ att \in [Instance -> Nat]
    /\ result \in [Instance -> Result \cup {NoResult}]
    /\ RunnerOK

FlagsTyped ==
    /\ up \in [Instance -> BOOLEAN]
    /\ retry \in [Instance -> BOOLEAN]
    /\ resume \in [Instance -> BOOLEAN]

RequestTyped == req \in [Person -> [step : RequestStep, item : Item, seen : Value, at : Instance]]

LEMMA TypedParts == Typed <=> RecordTyped /\ WorldTyped /\ RunnerTyped /\ FlagsTyped /\ RequestTyped
  BY DEF Typed, TypeOK, RecordTyped, WorldTyped, RunnerTyped, FlagsTyped, RequestTyped

LEMMA SetFlag ==
  ASSUME NEW S, NEW f \in [S -> BOOLEAN], NEW x, NEW b \in BOOLEAN
  PROVE  [f EXCEPT ![x] = b] \in [S -> BOOLEAN]
  OBVIOUS

LEMMA ParamTypes ==
  /\ 1 \in Item /\ Item \subseteq 1 .. (NItems + 1) /\ Item \subseteq Nat
  /\ \A i \in Item : i + 1 \in 1 .. (NItems + 1)
  /\ \A k \in 1 .. (NItems + 1) : k \in Item => k + 1 \in 1 .. (NItems + 1)
  /\ NoRequest \in [step : RequestStep, item : Item, seen : Value, at : Instance]
  BY ItemsAssumption, InstanceAssumption DEF Item, NoRequest, RequestStep, Value

LEMMA InitTyped == Init => Typed
<1> SUFFICES ASSUME Init PROVE Typed
  OBVIOUS
<1>1. RecordTyped
  <2>1. <<>> \in Seq(Result \cup {NoResult})
    OBVIOUS
  <2> QED BY <2>1 DEF Init, RecordTyped, ItemState
<1>2. WorldTyped
  BY DEF Init, WorldTyped, Value
<1>3. RunnerTyped
  BY ParamTypes DEF Init, RunnerTyped, RunnerOK, RunnerPc, Working
<1>4. RequestTyped
  BY ParamTypes DEF Init, RequestTyped
<1>5. FlagsTyped
  BY DEF Init, FlagsTyped
<1> QED BY <1>1, <1>2, <1>3, <1>4, <1>5, TypedParts

LEMMA RecordStep == Typed /\ RecordedBeforeSent /\ [Next]_vars => RecordTyped'
<1> SUFFICES ASSUME Typed, RecordedBeforeSent, [Next]_vars PROVE RecordTyped'
  OBVIOUS
<1> USE TypedParts
<1>1. CASE UNCHANGED record
  BY <1>1 DEF record, RecordTyped
<1>2. ASSUME NEW n \in Instance, BeginItem(n) PROVE RecordTyped'
  <2>1. cur[n] \in Item
    BY <1>2 DEF BeginItem, RunnerTyped, RunnerOK
  <2>2. Append(attempts[cur[n]], NoResult) \in Seq(Result \cup {NoResult})
    BY <2>1 DEF RecordTyped
  <2> QED
    BY <1>2, <2>1, <2>2 DEF BeginItem, RecordTyped, ItemState
<1>3. ASSUME NEW n \in Instance, FinishItem(n) PROVE RecordTyped'
  <2>1. cur[n] \in Item /\ result[n] \in Result
    BY <1>3 DEF FinishItem, RunnerTyped, RunnerOK, Working
  <2>2. [attempts[cur[n]] EXCEPT ![att[n]] = result[n]] \in Seq(Result \cup {NoResult})
    <3>1. att[n] \in 1 .. Len(attempts[cur[n]])
      BY <1>3 DEF FinishItem, RecordedBeforeSent, Working
    <3> QED BY <2>1, <3>1, ExceptSeq DEF RecordTyped
  <2>3. ClosedState(n) \in ItemState
    BY <2>1 DEF ClosedState, StateOf, Result, ItemState
  <2> QED
    BY <1>3, <2>1, <2>2, <2>3 DEF FinishItem, ClosedAttempts, RecordTyped
<1>4. ASSUME NEW n \in Instance, CompleteRun(n) PROVE RecordTyped'
  BY <1>4 DEF CompleteRun, RecordWrite, RecordTyped
<1>5. ASSUME NEW p \in Person, RecordStores(p) PROVE RecordTyped'
  BY <1>5 DEF RecordStores, RecordTyped
<1>6. ASSUME NEW p \in Person, RecordCompletes(p) PROVE RecordTyped'
  BY <1>6 DEF RecordCompletes, RecordWrite, RecordTyped
<1>7. ASSUME NEW p \in Person, ReconcileSettles(p) PROVE RecordTyped'
  <2>1. req[p].item \in Item /\ req[p].seen \in Value
    BY DEF RequestTyped
  <2>2. SettledState(req[p].seen, req[p].item) \in ItemState
    BY <2>1 DEF SettledState, Value, ItemState
  <2>3. Len(attempts[req[p].item]) \in Nat
    BY <2>1 DEF RecordTyped
  <2> QED
    BY <1>7, <2>1, <2>2, <2>3 DEF ReconcileSettles, RecordTyped
<1>8. ASSUME NEW n \in Instance, Restart(n) PROVE RecordTyped'
  BY <1>8 DEF Restart, RecordTyped, ItemState
<1> QED
  BY <1>1, <1>2, <1>3, <1>4, <1>5, <1>6, <1>7, <1>8
     DEF Next, RunnerStep, RequestStepOf, vars, record, PressRun, TakeResume, SkipDelivered, SelectItem, StopAtItem,
         EndOfItems, BeginRefused, ReadBefore, Covered, Commit, StoppedBefore, AnswerLost, ReadBack, ReleaseLock,
         Crash, RecordChecks, RecordReads,
         ReconcileReads, Lands, HandApplies, GrowsStale, Drifts, GateChanges, PauseChanges, SwitchChanges

LEMMA RunnerStepTyped == Typed /\ [Next]_vars => RunnerTyped'
<1> SUFFICES ASSUME Typed, [Next]_vars PROVE RunnerTyped'
  OBVIOUS
<1> USE TypedParts
<1>1. CASE UNCHANGED runner
  BY <1>1 DEF runner, RunnerTyped, RunnerOK
<1>2. ASSUME NEW n \in Instance, PressRun(n) \/ TakeResume(n) PROVE RunnerTyped'
  <2>1. ASSUME NEW again, StartRun(n, again) PROVE RunnerTyped'
    BY <2>1, ParamTypes DEF StartRun, RunnerTyped, RunnerOK, RunnerPc, Working
  <2>2. CASE UNCHANGED <<pc, cur, att, result>>
    BY <2>2 DEF RunnerTyped, RunnerOK
  <2> QED BY <1>2, <2>1, <2>2 DEF PressRun, TakeResume
<1>3. ASSUME NEW n \in Instance,
             SkipDelivered(n) \/ SelectItem(n) \/ EndOfItems(n) \/ ReleaseLock(n) PROVE RunnerTyped'
  <2>1. CASE SkipDelivered(n)
    BY <2>1, ParamTypes DEF SkipDelivered, RunnerTyped, RunnerOK, RunnerPc, Working
  <2>2. CASE SelectItem(n)
    BY <2>2 DEF SelectItem, RunnerTyped, RunnerOK, RunnerPc, Working
  <2>3. CASE EndOfItems(n)
    BY <2>3 DEF EndOfItems, RunnerTyped, RunnerOK, RunnerPc, Working
  <2>4. CASE ReleaseLock(n)
    BY <2>4 DEF ReleaseLock, RunnerTyped, RunnerOK, RunnerPc, Working
  <2> QED BY <1>3, <2>1, <2>2, <2>3, <2>4
<1>4. ASSUME NEW n \in Instance, StopRun(n), UNCHANGED result PROVE RunnerTyped'
  BY <1>4, ParamTypes DEF StopRun, RunnerTyped, RunnerOK, RunnerPc, Working
<1>5. ASSUME NEW n \in Instance, BeginItem(n) PROVE RunnerTyped'
  <2>1. cur[n] \in Item
    BY <1>5 DEF BeginItem, RunnerTyped, RunnerOK
  <2>2. Len(attempts[cur[n]]) + 1 \in Nat
    BY <2>1 DEF RecordTyped
  <2> QED BY <1>5, <2>1, <2>2 DEF BeginItem, RunnerTyped, RunnerOK, RunnerPc, Working
<1>6. ASSUME NEW n \in Instance, ReadBefore(n) \/ Commit(n) \/ ReadBack(n) PROVE RunnerTyped'
  <2>1. cur[n] \in Item
    BY <1>6 DEF ReadBefore, Covered, Commit, StoppedBefore, AnswerLost, ReadBack, RunnerTyped, RunnerOK, Working
  <2>2. (\E r \in Result : CloseAs(n, r)) \/ (\E s \in {"commit", "readback"} : GoOn(n, s))
    <3>1. CASE ReadBefore(n) BY <3>1 DEF ReadBefore, Covered, Result
    <3>2. CASE Commit(n) BY <3>2 DEF Commit, StoppedBefore, AnswerLost, Result
    <3>3. CASE ReadBack(n) BY <3>3 DEF ReadBack, Result
    <3> QED BY <1>6, <3>1, <3>2, <3>3
  <2>3. UNCHANGED <<up, cur, att, retry, resume>>
    BY <1>6 DEF ReadBefore, Covered, Commit, StoppedBefore, AnswerLost, ReadBack
  <2> QED BY <2>1, <2>2, <2>3 DEF CloseAs, GoOn, RunnerTyped, RunnerOK, RunnerPc, Working
<1>7. ASSUME NEW n \in Instance, FinishItem(n) PROVE RunnerTyped'
  <2>1. cur[n] \in Item
    BY <1>7 DEF FinishItem, RunnerTyped, RunnerOK, Working
  <2>2. cur[n] + 1 \in 1 .. (NItems + 1)
    BY <2>1, ParamTypes
  <2>3. result' = [result EXCEPT ![n] = NoResult]
    BY <1>7 DEF FinishItem
  <2>4. CASE StopRun(n)
    BY <2>3, <2>4, ParamTypes DEF StopRun, RunnerTyped, RunnerOK, RunnerPc, Working
  <2>5. CASE /\ pc' = [pc EXCEPT ![n] = "select"]
             /\ cur' = [cur EXCEPT ![n] = cur[n] + 1]
             /\ att' = [att EXCEPT ![n] = 0]
    BY <2>2, <2>3, <2>5 DEF RunnerTyped, RunnerOK, RunnerPc, Working
  <2> QED BY <1>7, <2>4, <2>5 DEF FinishItem, GoesOn
<1>8. ASSUME NEW n \in Instance, Crash(n) PROVE RunnerTyped'
  BY <1>8, ParamTypes DEF Crash, RunnerTyped, RunnerOK, RunnerPc, Working
<1>9. CASE UNCHANGED <<pc, cur, att, result>>
  BY <1>9 DEF RunnerTyped, RunnerOK
<1> QED
  BY <1>1, <1>2, <1>3, <1>4, <1>5, <1>6, <1>7, <1>8, <1>9
     DEF Next, RunnerStep, RequestStepOf, vars, runner, StopAtItem, BeginRefused, CompleteRun, RecordChecks,
     RecordReads,
         RecordStores, RecordCompletes, ReconcileReads, ReconcileSettles, Restart, Lands, HandApplies, GrowsStale,
         Drifts, GateChanges, PauseChanges, SwitchChanges

LEMMA FlagsStep == Typed /\ [Next]_vars => FlagsTyped'
<1> SUFFICES ASSUME Typed, [Next]_vars PROVE FlagsTyped'
  OBVIOUS
<1> USE TypedParts
<1>1. up' = up \/ \E n \in Instance, b \in BOOLEAN : up' = [up EXCEPT ![n] = b]
  BY DEF Next, RunnerStep, RequestStepOf, vars, runner, PressRun, TakeResume, StartRun, SkipDelivered, SelectItem,
         StopAtItem, EndOfItems, BeginItem, BeginRefused, ReadBefore, Covered, Commit, StoppedBefore, AnswerLost,
         ReadBack, FinishItem, CompleteRun,
         ReleaseLock, Crash, Restart, RecordChecks, RecordReads, RecordStores, RecordCompletes, ReconcileReads,
         ReconcileSettles, Lands, HandApplies, GrowsStale, Drifts, GateChanges, PauseChanges, SwitchChanges
<1>2. retry' = retry \/ \E n \in Instance, b \in BOOLEAN : retry' = [retry EXCEPT ![n] = b]
  <2>1. ASSUME NEW n \in Instance, SelectItem(n) PROVE \E b \in BOOLEAN : retry' = [retry EXCEPT ![n] = b]
    BY <2>1 DEF SelectItem
  <2> QED
    BY <2>1
       DEF Next, RunnerStep, RequestStepOf, vars, runner, PressRun, TakeResume, StartRun, SkipDelivered, StopAtItem,
           StopRun, EndOfItems, BeginItem, BeginRefused, ReadBefore, Covered, Commit, StoppedBefore, AnswerLost,
           ReadBack, FinishItem, CompleteRun,
           ReleaseLock, Crash, Restart, RecordChecks, RecordReads, RecordStores, RecordCompletes, ReconcileReads,
           ReconcileSettles, Lands, HandApplies, GrowsStale, Drifts, GateChanges, PauseChanges, SwitchChanges
<1>3. resume' = resume \/ \E n \in Instance, b \in BOOLEAN : resume' = [resume EXCEPT ![n] = b]
  <2>1. ASSUME NEW p \in Person, RecordStores(p)
        PROVE  resume' = resume \/ \E n \in Instance, b \in BOOLEAN : resume' = [resume EXCEPT ![n] = b]
    <3>1. req[p].at \in Instance
      BY DEF RequestTyped
    <3> QED BY <2>1, <3>1 DEF RecordStores
  <2> QED
    BY <2>1
       DEF Next, RunnerStep, RequestStepOf, vars, runner, PressRun, TakeResume, StartRun, SkipDelivered, SelectItem,
           StopAtItem, StopRun, EndOfItems, BeginItem, BeginRefused, ReadBefore, Covered, Commit, StoppedBefore,
           AnswerLost, ReadBack, FinishItem,
           CompleteRun, ReleaseLock, Crash, Restart, RecordChecks, RecordReads, RecordCompletes, ReconcileReads,
           ReconcileSettles, Lands, HandApplies, GrowsStale, Drifts, GateChanges, PauseChanges, SwitchChanges
<1> QED BY <1>1, <1>2, <1>3, SetFlag DEF FlagsTyped

LEMMA WorldStep == Typed /\ [Next]_vars => WorldTyped'
<1> SUFFICES ASSUME Typed, [Next]_vars PROVE WorldTyped'
  OBVIOUS
<1> USE TypedParts
<1>1. CASE UNCHANGED <<world, dev, bounds>>
  BY <1>1 DEF world, dev, bounds, WorldTyped
<1>2. ASSUME NEW n \in Instance, PressRun(n) \/ BeginItem(n) \/ FinishItem(n) \/ Restart(n) \/ Crash(n)
      PROVE WorldTyped'
  <2>1. CASE PressRun(n) BY <2>1 DEF PressRun, WorldTyped, world, dev
  <2>2. CASE BeginItem(n) BY <2>2, SetFlag DEF BeginItem, WorldTyped, dev, bounds
  <2>3. CASE FinishItem(n) BY <2>3, SetFlag DEF FinishItem, WorldTyped, dev, bounds
  <2>4. CASE Restart(n) BY <2>4 DEF Restart, WorldTyped, dev, bounds
  <2>5. CASE Crash(n) BY <2>5 DEF Crash, Happens, WorldTyped, world, dev
  <2> QED BY <1>2, <2>1, <2>2, <2>3, <2>4, <2>5
<1>3. ASSUME NEW n \in Instance, Commit(n) PROVE WorldTyped'
  <2>1. cur[n] \in Item
    BY <1>3 DEF Commit, StoppedBefore, AnswerLost, RunnerTyped, RunnerOK, Working
  <2> QED BY <1>3, <2>1 DEF Commit, StoppedBefore, AnswerLost, WorldTyped, Value, dev, world, bounds
<1>4. ASSUME NEW p \in Person, ReconcileSettles(p) PROVE WorldTyped'
  BY <1>4 DEF ReconcileSettles, WorldTyped, dev, bounds
<1>5. ASSUME NEW i \in Item, Lands(i) \/ HandApplies(i) \/ GrowsStale(i) \/ Drifts(i) PROVE WorldTyped'
  <2>1. CASE Lands(i) BY <2>1, SetFlag DEF Lands, WorldTyped, Value, world, bounds
  <2>2. CASE HandApplies(i) BY <2>2 DEF HandApplies, WorldTyped, Value, world, bounds
  <2>3. CASE GrowsStale(i) BY <2>3, SetFlag DEF GrowsStale, WorldTyped, dev, bounds
  <2>4. CASE Drifts(i) BY <2>4 DEF Drifts, Happens, WorldTyped, Value, world
  <2> QED BY <1>5, <2>1, <2>2, <2>3, <2>4
<1>6. CASE GateChanges \/ PauseChanges \/ SwitchChanges
  <2>1. CASE GateChanges BY <2>1 DEF GateChanges, Happens, WorldTyped, dev
  <2>2. CASE PauseChanges BY <2>2 DEF PauseChanges, Happens, WorldTyped, dev
  <2>3. CASE SwitchChanges BY <2>3 DEF SwitchChanges, Happens, WorldTyped, dev
  <2> QED BY <1>6, <2>1, <2>2, <2>3
<1> QED
  BY <1>1, <1>2, <1>3, <1>4, <1>5, <1>6
     DEF Next, RunnerStep, RequestStepOf, vars, TakeResume, SkipDelivered, SelectItem, StopAtItem, EndOfItems,
         BeginRefused, ReadBefore, Covered, ReadBack, CompleteRun, ReleaseLock, RecordChecks, RecordReads,
         RecordStores,
         RecordCompletes, ReconcileReads

LEMMA RequestStepTyped == Typed /\ [Next]_vars => RequestTyped'
<1> SUFFICES ASSUME Typed, [Next]_vars PROVE RequestTyped'
  OBVIOUS
<1> USE TypedParts
<1>1. CASE UNCHANGED req
  BY <1>1 DEF RequestTyped
<1>2. ASSUME NEW p \in Person, NEW i \in Item, NEW n \in Instance, RecordChecks(p, i, n) \/ ReconcileReads(p, i, n)
      PROVE RequestTyped'
  BY <1>2 DEF RecordChecks, ReconcileReads, Ask, RequestTyped, RequestStep, Value, WorldTyped
<1>3. ASSUME NEW p \in Person, RequestStepOf(p) PROVE RequestTyped'
  <2>1. EndRequest(p) => RequestTyped'
    BY ParamTypes DEF EndRequest, RequestTyped
  <2>2. ASSUME NEW s \in RequestStep, Ask(p, s, req[p].item, "approved", req[p].at) PROVE RequestTyped'
    BY <2>2 DEF Ask, RequestTyped, Value
  <2> QED
    BY <1>3, <2>1, <2>2
       DEF RequestStepOf, RecordReads, RecordStores, RecordCompletes, ReconcileSettles, RequestStep
<1>4. ASSUME NEW n \in Instance, Crash(n) PROVE RequestTyped'
  BY <1>4, ParamTypes DEF Crash, RequestTyped
<1> QED
  BY <1>1, <1>2, <1>3, <1>4
     DEF Next, RunnerStep, vars, PressRun, TakeResume, SkipDelivered, SelectItem, StopAtItem, EndOfItems, BeginItem,
         BeginRefused, ReadBefore, Covered, Commit, StoppedBefore, AnswerLost, ReadBack, FinishItem, CompleteRun,
         ReleaseLock, Restart, Lands, HandApplies,
         GrowsStale, Drifts, GateChanges, PauseChanges, SwitchChanges

(***************************************************************************)
(* An attempt is recorded before anything is sent                          *)
(***************************************************************************)

\* A step that leaves the attempts alone and lets no instance start working.
Quiet ==
    /\ attempts' = attempts
    /\ \A m \in Instance : pc'[m] \in Working => pc[m] \in Working /\ cur'[m] = cur[m] /\ att'[m] = att[m]

LEMMA QuietKeepsRecorded == RecordedBeforeSent /\ Quiet => RecordedBeforeSent'
  BY DEF RecordedBeforeSent, Quiet

\* Every step except the two that open and close an attempt is quiet.
LEMMA QuietSteps ==
  ASSUME Typed, [Next]_vars,
         \A n \in Instance : ~BeginItem(n) /\ ~FinishItem(n)
  PROVE  Quiet
<1> USE TypedParts
<1>1. CASE UNCHANGED <<attempts, pc, cur, att>>
  BY <1>1 DEF Quiet
<1>2. ASSUME NEW n \in Instance, StopRun(n), UNCHANGED attempts PROVE Quiet
  BY <1>2 DEF StopRun, Quiet, Working, RunnerTyped
<1>3. ASSUME NEW n \in Instance, NEW again, StartRun(n, again), UNCHANGED attempts PROVE Quiet
  BY <1>3 DEF StartRun, Quiet, Working, RunnerTyped
<1>4. ASSUME NEW n \in Instance,
             SkipDelivered(n) \/ SelectItem(n) \/ EndOfItems(n) \/ ReleaseLock(n) \/ Crash(n) PROVE Quiet
  BY <1>4 DEF SkipDelivered, SelectItem, EndOfItems, ReleaseLock, Crash, record, Quiet, Working, RunnerTyped
<1>5. ASSUME NEW n \in Instance, ReadBefore(n) \/ Commit(n) \/ ReadBack(n) PROVE Quiet
  <2>1. pc[n] \in Working /\ UNCHANGED <<attempts, cur, att>>
    BY <1>5 DEF ReadBefore, Covered, Commit, StoppedBefore, AnswerLost, ReadBack, Working, record
  <2>2. \E s \in RunnerPc : pc' = [pc EXCEPT ![n] = s]
    <3>1. CASE ReadBefore(n) BY <3>1 DEF ReadBefore, Covered, CloseAs, GoOn, RunnerPc
    <3>2. CASE Commit(n) BY <3>2 DEF Commit, StoppedBefore, AnswerLost, CloseAs, GoOn, RunnerPc
    <3>3. CASE ReadBack(n) BY <3>3 DEF ReadBack, CloseAs, GoOn, RunnerPc
    <3> QED BY <1>5, <3>1, <3>2, <3>3
  <2> QED BY <2>1, <2>2 DEF Quiet, RunnerTyped
<1> QED
  BY <1>1, <1>2, <1>3, <1>4, <1>5
     DEF Next, RunnerStep, RequestStepOf, vars, record, runner, PressRun, TakeResume, StopAtItem, BeginRefused,
         CompleteRun, RecordChecks, RecordReads, RecordStores, RecordCompletes, ReconcileReads, ReconcileSettles,
         Restart, Lands, HandApplies, GrowsStale, Drifts, GateChanges, PauseChanges, SwitchChanges

\* What the two other steps do, item by item and instance by instance.
LEMMA BeginEffect ==
  ASSUME Typed, NEW n \in Instance, BeginItem(n), NEW i, i = cur[n]
  PROVE  /\ i \in Item /\ itemState[i] = "ready" /\ itemState'[i] = "in_progress"
         /\ Len(attempts[i]) \in Nat
         /\ Len(attempts'[i]) = Len(attempts[i]) + 1
         /\ attempts'[i][Len(attempts[i]) + 1] = NoResult
         /\ \A k \in 1 .. Len(attempts[i]) : attempts'[i][k] = attempts[i][k]
         /\ \A j \in Item \ {i} : attempts'[j] = attempts[j] /\ itemState'[j] = itemState[j]
         /\ settled' = settled /\ cur' = cur
         /\ att'[n] = Len(attempts[i]) + 1
         /\ \A m \in Instance \ {n} : att'[m] = att[m] /\ pc'[m] = pc[m]
<1> USE TypedParts
<1>1. i \in Item /\ itemState[i] = "ready"
  BY DEF BeginItem, MayBegin, EffectiveState, RunnerTyped, RunnerOK
<1>2. attempts[i] \in Seq(Result \cup {NoResult})
  BY <1>1 DEF RecordTyped
<1>3. attempts' = [attempts EXCEPT ![i] = Append(attempts[i], NoResult)]
  BY DEF BeginItem
<1>4. attempts'[i] = Append(attempts[i], NoResult)
  BY <1>1, <1>3 DEF RecordTyped
<1>5. /\ Len(attempts[i]) \in Nat
      /\ Len(attempts'[i]) = Len(attempts[i]) + 1
      /\ attempts'[i][Len(attempts[i]) + 1] = NoResult
      /\ \A k \in 1 .. Len(attempts[i]) : attempts'[i][k] = attempts[i][k]
  BY <1>2, <1>4
<1>6. \A j \in Item \ {i} : attempts'[j] = attempts[j]
  BY <1>3 DEF RecordTyped
<1>7. itemState'[i] = "in_progress" /\ \A j \in Item \ {i} : itemState'[j] = itemState[j]
  BY <1>1 DEF BeginItem, RecordTyped
<1>8. /\ settled' = settled /\ cur' = cur
      /\ att'[n] = Len(attempts[i]) + 1
      /\ \A m \in Instance \ {n} : att'[m] = att[m] /\ pc'[m] = pc[m]
  BY DEF BeginItem, RunnerTyped
<1> QED BY <1>1, <1>5, <1>6, <1>7, <1>8

LEMMA FinishEffect ==
  ASSUME Typed, RecordedBeforeSent, NEW n \in Instance, FinishItem(n), NEW i, i = cur[n]
  PROVE  /\ i \in Item /\ result[n] \in Result /\ pc[n] \in Working
         /\ att[n] \in 1 .. Len(attempts[i]) /\ attempts[i][att[n]] = NoResult
         /\ Len(attempts[i]) \in Nat
         /\ Len(attempts'[i]) = Len(attempts[i])
         /\ attempts'[i][att[n]] = result[n]
         /\ \A k \in 1 .. Len(attempts[i]) : k # att[n] => attempts'[i][k] = attempts[i][k]
         /\ \A j \in Item \ {i} : attempts'[j] = attempts[j] /\ itemState'[j] = itemState[j]
         /\ itemState'[i] = ClosedState(n)
         /\ settled' = settled
         /\ pc'[n] \notin Working
         /\ \A m \in Instance \ {n} : pc'[m] = pc[m] /\ cur'[m] = cur[m] /\ att'[m] = att[m]
<1> USE TypedParts
<1>1. i \in Item /\ result[n] \in Result /\ pc[n] \in Working
  BY DEF FinishItem, RunnerTyped, RunnerOK, Working
<1>2. att[n] \in 1 .. Len(attempts[i]) /\ attempts[i][att[n]] = NoResult
  BY <1>1 DEF RecordedBeforeSent
<1>3. attempts[i] \in Seq(Result \cup {NoResult}) /\ Len(attempts[i]) \in Nat
  BY <1>1 DEF RecordTyped
<1>4. attempts' = [attempts EXCEPT ![i] = [attempts[i] EXCEPT ![att[n]] = result[n]]]
  BY DEF FinishItem, ClosedAttempts
<1>5. attempts'[i] = [attempts[i] EXCEPT ![att[n]] = result[n]]
  BY <1>1, <1>4 DEF RecordTyped
<1>6. /\ Len(attempts'[i]) = Len(attempts[i])
      /\ attempts'[i][att[n]] = result[n]
      /\ \A k \in 1 .. Len(attempts[i]) : k # att[n] => attempts'[i][k] = attempts[i][k]
  <2>1. result[n] \in Result \cup {NoResult}
    BY <1>1
  <2>2. \A k \in 1 .. Len(attempts[i]) :
            attempts'[i][k] = IF k = att[n] THEN result[n] ELSE attempts[i][k]
    BY <1>2, <1>3, <1>5, <2>1, ExceptSeq
  <2>3. Len(attempts'[i]) = Len(attempts[i])
    BY <1>2, <1>3, <1>5, <2>1, ExceptSeq
  <2> QED BY <1>2, <2>2, <2>3
<1>7. \A j \in Item \ {i} : attempts'[j] = attempts[j]
  BY <1>4 DEF RecordTyped
<1>8. itemState'[i] = ClosedState(n) /\ \A j \in Item \ {i} : itemState'[j] = itemState[j]
  BY <1>1 DEF FinishItem, RecordTyped
<1>9. /\ settled' = settled
      /\ pc'[n] \notin Working
      /\ \A m \in Instance \ {n} : pc'[m] = pc[m] /\ cur'[m] = cur[m] /\ att'[m] = att[m]
  BY DEF FinishItem, StopRun, RunnerTyped, Working
<1> QED BY <1>1, <1>2, <1>3, <1>6, <1>7, <1>8, <1>9

LEMMA RecordedInductive == Typed /\ RecordedBeforeSent /\ [Next]_vars => RecordedBeforeSent'
<1> SUFFICES ASSUME Typed, RecordedBeforeSent, [Next]_vars PROVE RecordedBeforeSent'
  OBVIOUS
<1> USE TypedParts
<1>1. ASSUME NEW n \in Instance, BeginItem(n) PROVE RecordedBeforeSent'
  <2>0. PICK i : i = cur[n]
    OBVIOUS
  <2> USE BeginEffect, <1>1, <2>0
  <2>1. \A m \in Instance \ {n} : pc[m] \in Working =>
           /\ cur[m] \in Item /\ att[m] \in 1 .. Len(attempts[cur[m]])
           /\ attempts[cur[m]][att[m]] = NoResult
    BY DEF RecordedBeforeSent, RunnerTyped, RunnerOK
  <2>2. ASSUME NEW m \in Instance \ {n}, pc'[m] \in Working
        PROVE  att'[m] \in 1 .. Len(attempts'[cur'[m]]) /\ attempts'[cur'[m]][att'[m]] = NoResult
    <3>1. /\ cur[m] \in Item /\ att[m] \in 1 .. Len(attempts[cur[m]])
          /\ attempts[cur[m]][att[m]] = NoResult
      BY <2>1, <2>2
    <3>2. cur'[m] = cur[m] /\ att'[m] = att[m]
      BY <2>2
    <3>3. CASE cur[m] = i
      BY <3>1, <3>2, <3>3
    <3>4. CASE cur[m] # i
      <4>1. attempts'[cur[m]] = attempts[cur[m]]
        BY <3>1, <3>4
      <4> QED BY <3>1, <3>2, <4>1
    <3> QED BY <3>3, <3>4
  <2>3. \A m \in Instance \ {n} : pc'[m] \in Working /\ cur'[m] = i => att'[m] # att'[n]
    BY <2>1
  <2>4. att'[n] \in 1 .. Len(attempts'[cur'[n]]) /\ attempts'[cur'[n]][att'[n]] = NoResult
    OBVIOUS
  <2>5. \A m, l \in Instance \ {n} : pc'[m] \in Working /\ l # m /\ pc'[l] \in Working /\ cur'[l] = cur'[m]
           => att'[l] # att'[m]
    BY DEF RecordedBeforeSent
  <2> QED BY <2>2, <2>3, <2>4, <2>5 DEF RecordedBeforeSent
<1>2. ASSUME NEW n \in Instance, FinishItem(n) PROVE RecordedBeforeSent'
  <2>0. PICK i : i = cur[n]
    OBVIOUS
  <2> USE FinishEffect, <1>2, <2>0
  <2>1. ASSUME NEW m \in Instance, pc'[m] \in Working
        PROVE  /\ m # n /\ pc[m] \in Working /\ cur'[m] = cur[m] /\ att'[m] = att[m]
               /\ att[m] \in 1 .. Len(attempts'[cur[m]]) /\ attempts'[cur[m]][att[m]] = NoResult
    <3>1. m # n /\ pc[m] \in Working /\ cur'[m] = cur[m] /\ att'[m] = att[m]
      BY <2>1
    <3>2. cur[m] \in Item /\ att[m] \in 1 .. Len(attempts[cur[m]]) /\ attempts[cur[m]][att[m]] = NoResult
      BY <3>1 DEF RecordedBeforeSent, RunnerTyped, RunnerOK
    <3>3. cur[m] = i => att[m] # att[n]
      BY <3>1 DEF RecordedBeforeSent
    <3> QED BY <3>1, <3>2, <3>3
  <2> QED BY <2>1 DEF RecordedBeforeSent
<1> QED
  BY <1>1, <1>2, QuietSteps, QuietKeepsRecorded

(***************************************************************************)
(* Never a blind retry                                                     *)
(***************************************************************************)

\* A step that keeps the attempts, settles nothing anew and makes nothing ready.
LEMMA CalmKeepsNoBlindRetry ==
  ASSUME NoBlindRetry, attempts' = attempts, settled' = settled,
         \A i \in Item : itemState'[i] = "ready" => itemState[i] = "ready"
  PROVE  NoBlindRetry'
  BY DEF NoBlindRetry, Known

LEMMA NoBlindRetryInductive == IInv /\ [Next]_vars => NoBlindRetry'
<1> SUFFICES ASSUME Typed, RecordedBeforeSent, NoBlindRetry, [Next]_vars PROVE NoBlindRetry'
  BY DEF IInv
<1> USE TypedParts
<1>1. ASSUME NEW n \in Instance, BeginItem(n) PROVE NoBlindRetry'
  <2>0. PICK i : i = cur[n]
    OBVIOUS
  <2> USE BeginEffect, <1>1, <2>0
  <2>1. \A k \in 1 .. Len(attempts[i]) : attempts[i][k] = "not_sent" \/ k <= settled[i]
    BY DEF NoBlindRetry, Known
  <2>2. \A k \in 1 .. Len(attempts'[i]) :
           (k < Len(attempts'[i]) \/ itemState'[i] = "ready") => attempts'[i][k] = "not_sent" \/ k <= settled'[i]
    BY <2>1
  <2>3. \A j \in Item \ {i} : \A k \in 1 .. Len(attempts'[j]) :
           (k < Len(attempts'[j]) \/ itemState'[j] = "ready") => attempts'[j][k] = "not_sent" \/ k <= settled'[j]
    BY DEF NoBlindRetry, Known
  <2> QED BY <2>2, <2>3 DEF NoBlindRetry, Known
<1>2. ASSUME NEW n \in Instance, FinishItem(n) PROVE NoBlindRetry'
  <2>0. PICK i : i = cur[n]
    OBVIOUS
  <2> USE FinishEffect, <1>2, <2>0
  <2>1. itemState'[i] = "ready" => result[n] = "not_sent" /\ att[n] = Len(attempts[i])
    <3>1. StateOf(result[n]) = "ready" => result[n] = "not_sent"
      BY DEF StateOf, Result
    <3> QED BY <3>1 DEF ClosedState, IsCurrent
  <2>2. \A k \in 1 .. Len(attempts[i]) :
           k < Len(attempts[i]) => attempts[i][k] = "not_sent" \/ k <= settled[i]
    BY DEF NoBlindRetry, Known
  <2>3. att[n] < Len(attempts[i]) => att[n] <= settled[i]
    BY <2>2 DEF NoResult
  <2>4. \A k \in 1 .. Len(attempts'[i]) :
           (k < Len(attempts'[i]) \/ itemState'[i] = "ready") => attempts'[i][k] = "not_sent" \/ k <= settled'[i]
    <3> SUFFICES ASSUME NEW k \in 1 .. Len(attempts[i]), k < Len(attempts[i]) \/ itemState'[i] = "ready"
                 PROVE  attempts'[i][k] = "not_sent" \/ k <= settled[i]
      OBVIOUS
    <3>1. CASE k < Len(attempts[i]) /\ k # att[n] BY <2>2, <3>1
    <3>2. CASE k < Len(attempts[i]) /\ k = att[n] BY <2>3, <3>2
    <3>3. CASE k = Len(attempts[i]) /\ itemState'[i] = "ready" BY <2>1, <3>3
    <3> QED BY <3>1, <3>2, <3>3
  <2>5. \A j \in Item \ {i} : \A k \in 1 .. Len(attempts'[j]) :
           (k < Len(attempts'[j]) \/ itemState'[j] = "ready") => attempts'[j][k] = "not_sent" \/ k <= settled'[j]
    BY DEF NoBlindRetry, Known
  <2> QED BY <2>4, <2>5 DEF NoBlindRetry, Known
<1>3. ASSUME NEW p \in Person, ReconcileSettles(p) PROVE NoBlindRetry'
  <2>0. PICK i : i = req[p].item
    OBVIOUS
  <2>1. i \in Item
    BY <2>0 DEF RequestTyped
  <2>2. CASE UNCHANGED <<attempts, settled, itemState>>
    BY <2>2, CalmKeepsNoBlindRetry
  <2>3. CASE /\ \E s : itemState' = [itemState EXCEPT ![i] = s]
             /\ settled' = [settled EXCEPT ![i] = Len(attempts[i])]
             /\ attempts' = attempts
    <3>1. /\ settled'[i] = Len(attempts[i])
          /\ \A j \in Item \ {i} : settled'[j] = settled[j] /\ itemState'[j] = itemState[j]
      BY <2>1, <2>3 DEF RecordTyped
    <3>2. Len(attempts[i]) \in Nat
      BY <2>1 DEF RecordTyped
    <3> QED BY <2>3, <3>1, <3>2 DEF NoBlindRetry, Known
  <2> QED BY <1>3, <2>0, <2>2, <2>3 DEF ReconcileSettles
<1>4. ASSUME NEW n \in Instance, Restart(n) PROVE NoBlindRetry'
  BY <1>4, CalmKeepsNoBlindRetry DEF Restart
<1>5. CASE UNCHANGED <<attempts, settled, itemState>>
  BY <1>5, CalmKeepsNoBlindRetry
<1> QED
  BY <1>1, <1>2, <1>3, <1>4, <1>5
     DEF Next, RunnerStep, RequestStepOf, vars, record, PressRun, TakeResume, SkipDelivered, SelectItem, StopAtItem,
         EndOfItems, BeginRefused, ReadBefore, Covered, Commit, StoppedBefore, AnswerLost, ReadBack, CompleteRun,
         ReleaseLock, Crash, RecordChecks,
         RecordReads, RecordStores, RecordCompletes, ReconcileReads, Lands, HandApplies, GrowsStale, Drifts,
         GateChanges, PauseChanges, SwitchChanges

LEMMA InitIInv == Init => IInv
<1> SUFFICES ASSUME Init PROVE IInv
  OBVIOUS
<1>1. RecordedBeforeSent
  BY DEF Init, RecordedBeforeSent, Working
<1>2. NoBlindRetry
  <2>1. \A i \in Item : Len(attempts[i]) = 0
    BY DEF Init
  <2> QED BY <2>1 DEF NoBlindRetry
<1> QED BY <1>1, <1>2, InitTyped DEF IInv

LEMMA IInvInductive == IInv /\ [Next]_vars => IInv'
<1> SUFFICES ASSUME IInv, [Next]_vars PROVE IInv'
  OBVIOUS
<1>1. Typed'
  <2>1. RecordTyped' /\ WorldTyped' /\ RunnerTyped' /\ FlagsTyped' /\ RequestTyped'
    BY RecordStep, WorldStep, RunnerStepTyped, FlagsStep, RequestStepTyped DEF IInv
  <2>2. (Typed <=> RecordTyped /\ WorldTyped /\ RunnerTyped /\ FlagsTyped /\ RequestTyped)'
    BY TypedParts, PTL
  <2> QED BY <2>1, <2>2
<1>2. RecordedBeforeSent'
  BY RecordedInductive DEF IInv
<1>3. NoBlindRetry'
  BY NoBlindRetryInductive
<1> QED BY <1>1, <1>2, <1>3 DEF IInv

LEMMA IInvAlways == Spec => []IInv
  BY InitIInv, IInvInductive, PTL DEF Spec

\* Every variable keeps its type: the record, the runners' and the requests'
\* local state never hold a value the code could not have written.
THEOREM TypeCorrect == Spec => []TypeOK
<1>1. IInv => TypeOK
  BY DEF IInv, Typed
<1> QED BY <1>1, IInvAlways, PTL

\* An attempt is on record, open and nobody else's while an agent works
\* (begin_item before the first request leaves Jade).
THEOREM RecordsBeforeSending == Spec => []RecordedBeforeSent
<1>1. IInv => RecordedBeforeSent
  BY DEF IInv
<1> QED BY <1>1, IInvAlways, PTL

\* No item is ready again, or attempted again, while the fate of an earlier
\* attempt is unknown (begin_item, finish_item, reconcile_item and
\* mark_interrupted_unknown together), for any number of instances.
THEOREM NeverABlindRetry == Spec => []NoBlindRetry
<1>1. IInv => NoBlindRetry
  BY DEF IInv
<1> QED BY <1>1, IInvAlways, PTL

(***************************************************************************)
(* Diverged for ever; delivered for ever; applied means every item         *)
(***************************************************************************)

LEMMA DivergedStep ==
  IInv /\ [Next]_vars => \A i \in Item : itemState[i] = "diverged" => itemState'[i] = "diverged"
<1> SUFFICES ASSUME Typed, RecordedBeforeSent, [Next]_vars, NEW i \in Item, itemState[i] = "diverged"
             PROVE  itemState'[i] = "diverged"
  BY DEF IInv
<1> USE TypedParts
<1>1. ASSUME NEW n \in Instance, BeginItem(n) PROVE itemState'[i] = "diverged"
  <2>1. i # cur[n]
    BY <1>1, BeginEffect
  <2> QED BY <1>1, <2>1, BeginEffect
<1>2. ASSUME NEW n \in Instance, FinishItem(n) PROVE itemState'[i] = "diverged"
  <2>1. CASE i # cur[n]
    BY <1>2, <2>1, FinishEffect
  <2>2. CASE i = cur[n]
    <3>1. itemState'[i] = ClosedState(n)
      BY <1>2, <2>2, FinishEffect
    <3> QED BY <2>2, <3>1 DEF ClosedState, IsCurrent
  <2> QED BY <2>1, <2>2
<1>3. ASSUME NEW p \in Person, ReconcileSettles(p) PROVE itemState'[i] = "diverged"
  BY <1>3 DEF ReconcileSettles, MaySettle, EffectiveState, RecordTyped
<1>4. ASSUME NEW n \in Instance, Restart(n) PROVE itemState'[i] = "diverged"
  BY <1>4 DEF Restart
<1>5. CASE UNCHANGED itemState
  BY <1>5
<1> QED
  BY <1>1, <1>2, <1>3, <1>4, <1>5
     DEF Next, RunnerStep, RequestStepOf, vars, record, PressRun, TakeResume, SkipDelivered, SelectItem, StopAtItem,
         EndOfItems, BeginRefused, ReadBefore, Covered, Commit, StoppedBefore, AnswerLost, ReadBack, CompleteRun,
         ReleaseLock, Crash, RecordChecks,
         RecordReads, RecordStores, RecordCompletes, ReconcileReads, Lands, HandApplies, GrowsStale, Drifts,
         GateChanges, PauseChanges, SwitchChanges

\* Only a begun attempt makes the list of attempts longer, on its own item.
LEMMA OnlyBeginLengthens ==
  ASSUME IInv, [Next]_vars, NEW i \in Item, Len(attempts'[i]) # Len(attempts[i])
  PROVE  \E n \in Instance : BeginItem(n) /\ i = cur[n]
<1> USE DEF IInv
<1>1. ASSUME NEW n \in Instance, FinishItem(n) PROVE FALSE
  <2>1. CASE i = cur[n] BY <1>1, <2>1, FinishEffect
  <2>2. CASE i # cur[n] BY <1>1, <2>2, FinishEffect
  <2> QED BY <2>1, <2>2
<1>2. \E n \in Instance : BeginItem(n)
  <2>1. CASE \A n \in Instance : ~BeginItem(n)
    BY <1>1, <2>1, QuietSteps DEF Quiet
  <2> QED BY <2>1
<1>3. PICK n \in Instance : BeginItem(n)
  BY <1>2
<1>4. i = cur[n]
  BY <1>3, BeginEffect
<1> QED BY <1>3, <1>4

LEMMA DeliveredStep ==
  IInv /\ [Next]_vars => \A i \in Item : Delivered(i) => delivery'[i] # "none" /\ Len(attempts'[i]) = Len(attempts[i])
<1> SUFFICES ASSUME IInv, [Next]_vars, NEW i \in Item, Delivered(i)
             PROVE  delivery'[i] # "none" /\ Len(attempts'[i]) = Len(attempts[i])
  OBVIOUS
<1> USE TypedParts DEF IInv
<1>1. Len(attempts'[i]) = Len(attempts[i])
  <2>1. ASSUME NEW n \in Instance, BeginItem(n), i = cur[n] PROVE FALSE
    BY <2>1 DEF BeginItem, MayBegin
  <2> QED BY <2>1, OnlyBeginLengthens
<1>2. delivery'[i] # "none"
  <2>1. ASSUME NEW n \in Instance, FinishItem(n) PROVE delivery'[i] # "none"
    BY <2>1 DEF FinishItem, Delivered, RecordTyped
  <2>2. ASSUME NEW p \in Person, RecordStores(p) PROVE delivery'[i] # "none"
    BY <2>2 DEF RecordStores, Delivered, RecordTyped
  <2>3. ASSUME NEW p \in Person, ReconcileSettles(p) PROVE delivery'[i] # "none"
    BY <2>3 DEF ReconcileSettles, Delivered, RecordTyped
  <2>4. CASE UNCHANGED delivery
    BY <2>4 DEF Delivered
  <2> QED
    BY <2>1, <2>2, <2>3, <2>4
       DEF Next, RunnerStep, RequestStepOf, vars, record, PressRun, TakeResume, SkipDelivered, SelectItem, StopAtItem,
           EndOfItems, BeginItem, BeginRefused, ReadBefore, Covered, Commit, StoppedBefore, AnswerLost, ReadBack,
           CompleteRun, ReleaseLock, Crash, Restart,
           RecordChecks, RecordReads, RecordCompletes, ReconcileReads, Lands, HandApplies, GrowsStale, Drifts,
           GateChanges, PauseChanges, SwitchChanges
<1> QED BY <1>1, <1>2

\* The whole change set is recorded as applied only by RecordWrite.
LEMMA WriteStep == [Next]_vars => UNCHANGED write \/ (AllDelivered /\ Authorised)
  BY DEF Next, RunnerStep, RequestStepOf, vars, record, PressRun, TakeResume, SkipDelivered, SelectItem, StopAtItem,
         EndOfItems, BeginItem, BeginRefused, ReadBefore, Covered, Commit, StoppedBefore, AnswerLost, ReadBack,
         FinishItem, CompleteRun, RecordWrite,
         ReleaseLock, Crash, Restart, RecordChecks, RecordReads, RecordStores, RecordCompletes, ReconcileReads,
         ReconcileSettles, Lands, HandApplies, GrowsStale, Drifts, GateChanges, PauseChanges, SwitchChanges

\* A diverged item stays diverged for ever (finish_item keeps it even when a
\* late answer of an earlier attempt comes in).
THEOREM DivergedStays == Spec => DivergedForever
<1>1. IInv /\ [Next]_vars => (\A i \in Item : itemState[i] = "diverged" => itemState'[i] = "diverged")
  BY DivergedStep
<1> QED BY <1>1, IInvAlways, PTL DEF Spec, DivergedForever

\* An item recorded as delivered stays recorded and never runs again
\* (begin_item reads item_delivery inside the lock), whoever recorded it.
THEOREM DeliveredStays == Spec => DeliveredNeverRunsAgain
<1>1. IInv /\ [Next]_vars =>
        (\A i \in Item : Delivered(i) => Delivered(i)' /\ Len(attempts'[i]) = Len(attempts[i]))
  BY DeliveredStep DEF Delivered
<1> QED BY <1>1, IInvAlways, PTL DEF Spec, DeliveredNeverRunsAgain

\* A diverged item ends the change set: no attempt starts on any item and the
\* change never counts as applied (authorise_functional_delivery, in the lock).
THEOREM DivergedStops == Spec => DivergedStopsTheChange
<1>1. ASSUME IInv, [Next]_vars, NEW i \in Item, itemState[i] = "diverged"
      PROVE  (\A j \in Item : Len(attempts'[j]) = Len(attempts[j])) /\ write' = write
  <2>1. ~Authorised
    BY <1>1 DEF Authorised, EffectiveState
  <2>2. \A n \in Instance : ~BeginItem(n)
    BY <2>1 DEF BeginItem, MayBegin
  <2> QED BY <1>1, <2>1, <2>2, OnlyBeginLengthens, WriteStep
<1>2. IInv /\ [Next]_vars =>
        ((\E i \in Item : itemState[i] = "diverged") =>
           /\ \A i \in Item : Len(attempts'[i]) = Len(attempts[i])
           /\ write' = write)
  BY <1>1
<1> QED BY <1>2, IInvAlways, PTL DEF Spec, DivergedStopsTheChange

\* The change counts as applied only when every item is recorded
\* (complete_if_all_recorded).
THEOREM AppliedIsComplete == Spec => []AppliedMeansEveryItem
<1>1. Init => AppliedMeansEveryItem
  BY DEF Init, AppliedMeansEveryItem
<1>2. IInv /\ AppliedMeansEveryItem /\ [Next]_vars => AppliedMeansEveryItem'
  <2> SUFFICES ASSUME IInv, AppliedMeansEveryItem, [Next]_vars, write' = "applied", NEW i \in Item
               PROVE  Delivered(i)'
    BY DEF AppliedMeansEveryItem, AllDelivered
  <2>1. Delivered(i)
    BY WriteStep DEF AppliedMeansEveryItem, AllDelivered
  <2> QED BY <2>1, DeliveredStep DEF Delivered
<1> QED BY <1>1, <1>2, IInvAlways, PTL DEF Spec

(***************************************************************************)
(* What one step does to one runner, and to the values others rely on.     *)
(***************************************************************************)
SameAttempt(n) == cur'[n] = cur[n] /\ att'[n] = att[n]

RunnerMove(n) ==
    \/ pc'[n] = pc[n] /\ SameAttempt(n) /\ result'[n] = result[n]
    \/ pc'[n] \in {"idle", "release"}
    \/ pc'[n] = "select" /\ cur'[n] = 1
    \/ SkipDelivered(n) /\ pc'[n] = "select" /\ cur'[n] = cur[n] + 1
    \/ SelectItem(n) /\ pc'[n] = "begin" /\ cur'[n] = cur[n]
    \/ EndOfItems(n) /\ pc'[n] = "complete"
    \/ BeginItem(n) /\ pc'[n] = "read" /\ cur'[n] = cur[n]
    \/ ReadBefore(n) /\ SameAttempt(n)
       /\ (pc'[n] = "commit" \/ (pc'[n] = "finish" /\ result'[n] # "applied"))
    \/ Commit(n) /\ SameAttempt(n)
       /\ (pc'[n] = "readback" \/ (pc'[n] = "finish" /\ result'[n] # "applied"))
    \/ ReadBack(n) /\ SameAttempt(n) /\ pc'[n] = "finish"
       /\ (result'[n] = "applied" => Verified(cur[n]))
    \/ FinishItem(n) /\ GoesOn(n) /\ pc'[n] = "select" /\ cur'[n] = cur[n] + 1

\* One step moves one runner, by one of its own operations or a crash.
LEMMA RunnerMoves == ASSUME Typed, [Next]_vars, NEW n \in Instance PROVE RunnerMove(n)
<1> USE TypedParts
<1>0. /\ pc \in [Instance -> RunnerPc] /\ cur \in [Instance -> 1 .. (NItems + 1)]
      /\ att \in [Instance -> Nat] /\ result \in [Instance -> Result \cup {NoResult}]
  BY DEF RunnerTyped
<1>1. CASE UNCHANGED <<pc, cur, att, result>>
  BY <1>1 DEF RunnerMove, SameAttempt
<1>2. ASSUME NEW m \in Instance, StopRun(m), UNCHANGED result PROVE RunnerMove(n)
  BY <1>0, <1>2 DEF StopRun, RunnerMove, SameAttempt
<1>3. ASSUME NEW m \in Instance, NEW again, StartRun(m, again) PROVE RunnerMove(n)
  BY <1>0, <1>3 DEF StartRun, RunnerMove, SameAttempt
<1>4. ASSUME NEW m \in Instance, SkipDelivered(m) PROVE RunnerMove(n)
  BY <1>0, <1>4 DEF SkipDelivered, RunnerMove, SameAttempt
<1>5. ASSUME NEW m \in Instance, SelectItem(m) \/ EndOfItems(m) PROVE RunnerMove(n)
  BY <1>0, <1>5 DEF SelectItem, EndOfItems, RunnerMove, SameAttempt
<1>6. ASSUME NEW m \in Instance, ReleaseLock(m) \/ Crash(m) PROVE RunnerMove(n)
  BY <1>0, <1>6 DEF ReleaseLock, Crash, RunnerMove, SameAttempt
<1>7. ASSUME NEW m \in Instance, BeginItem(m) PROVE RunnerMove(n)
  BY <1>0, <1>7 DEF BeginItem, RunnerMove, SameAttempt
<1>8. ASSUME NEW m \in Instance, ReadBefore(m) PROVE RunnerMove(n)
  <2>1. UNCHANGED <<cur, att>>
    BY <1>8 DEF ReadBefore
  <2>2. \/ pc' = [pc EXCEPT ![m] = "commit"] /\ result' = result
        \/ pc' = [pc EXCEPT ![m] = "finish"] /\ result' = [result EXCEPT ![m] = "not_sent"]
    BY <1>8 DEF ReadBefore, CloseAs, GoOn
  <2> QED BY <1>0, <1>8, <2>1, <2>2 DEF RunnerMove, SameAttempt
<1>9. ASSUME NEW m \in Instance, Commit(m) PROVE RunnerMove(n)
  <2>1. UNCHANGED <<cur, att>>
    BY <1>9 DEF Commit
  <2>2. \/ pc' = [pc EXCEPT ![m] = "readback"] /\ result' = result
        \/ pc' = [pc EXCEPT ![m] = "finish"] /\ result' = [result EXCEPT ![m] = "not_sent"]
        \/ pc' = [pc EXCEPT ![m] = "finish"] /\ result' = [result EXCEPT ![m] = "unknown"]
    BY <1>9 DEF Commit, CloseAs, GoOn, StoppedBefore, AnswerLost
  <2> QED BY <1>0, <1>9, <2>1, <2>2 DEF RunnerMove, SameAttempt
<1>10. ASSUME NEW m \in Instance, ReadBack(m) PROVE RunnerMove(n)
  <2>1. UNCHANGED <<cur, att>>
    BY <1>10 DEF ReadBack
  <2>2. PICK r \in {"applied", "unknown"} :
          /\ pc' = [pc EXCEPT ![m] = "finish"] /\ result' = [result EXCEPT ![m] = r]
          /\ r = "applied" => Verified(cur[m])
    BY <1>10 DEF ReadBack, CloseAs
  <2> QED BY <1>0, <1>10, <2>1, <2>2 DEF RunnerMove, SameAttempt
<1>11. ASSUME NEW m \in Instance, FinishItem(m) PROVE RunnerMove(n)
  <2>1. CASE GoesOn(m)
    <3>1. /\ pc' = [pc EXCEPT ![m] = "select"] /\ cur' = [cur EXCEPT ![m] = cur[m] + 1]
          /\ att' = [att EXCEPT ![m] = 0] /\ result' = [result EXCEPT ![m] = NoResult]
      BY <1>11, <2>1 DEF FinishItem
    <3> QED BY <1>0, <1>11, <2>1, <3>1 DEF RunnerMove, SameAttempt
  <2>2. CASE ~GoesOn(m)
    BY <1>0, <1>11, <2>2 DEF FinishItem, StopRun, RunnerMove, SameAttempt
  <2> QED BY <2>1, <2>2
<1> QED
  BY <1>1, <1>2, <1>3, <1>4, <1>5, <1>6, <1>7, <1>8, <1>9, <1>10, <1>11
     DEF Next, RunnerStep, RequestStepOf, vars, runner, PressRun, TakeResume, StopAtItem,
         BeginRefused, CompleteRun, RecordChecks, RecordReads, RecordStores, RecordCompletes,
         ReconcileReads, ReconcileSettles, Restart, Lands, HandApplies, GrowsStale, Drifts,
         GateChanges, PauseChanges, SwitchChanges

\* What an item holds in DEV changes by a save, by one that lands late, by hand
\* and by somebody else.
LEMMA MovesJde == [Next]_vars =>
    \/ UNCHANGED jde
    \/ \E n \in Instance : Commit(n)
    \/ \E i \in Item : Lands(i) \/ HandApplies(i) \/ Drifts(i)
  BY DEF Next, RunnerStep, RequestStepOf, vars, dev, PressRun, TakeResume, SkipDelivered,
         SelectItem, StopAtItem, EndOfItems, BeginItem, BeginRefused, ReadBefore, ReadBack,
         FinishItem, CompleteRun, ReleaseLock, Crash, Restart, RecordChecks, RecordReads,
         RecordStores, RecordCompletes, ReconcileReads, ReconcileSettles, GrowsStale,
         GateChanges, PauseChanges, SwitchChanges

\* An item is recorded by a finished attempt, by a person, by a reconciliation.
LEMMA MovesDelivery == [Next]_vars =>
    \/ UNCHANGED delivery
    \/ \E n \in Instance : FinishItem(n)
    \/ \E p \in Person : RecordStores(p) \/ ReconcileSettles(p)
  BY DEF Next, RunnerStep, RequestStepOf, vars, record, PressRun, TakeResume, SkipDelivered,
         SelectItem, StopAtItem, EndOfItems, BeginItem, BeginRefused, ReadBefore, Commit, ReadBack,
         CompleteRun, ReleaseLock, Crash, Restart, RecordChecks, RecordReads, RecordCompletes,
         ReconcileReads, Lands, HandApplies, GrowsStale, Drifts, GateChanges, PauseChanges,
         SwitchChanges

\* The state of an item changes by its attempts, a reconciliation, a restart.
LEMMA MovesItemState == [Next]_vars =>
    \/ UNCHANGED itemState
    \/ \E n \in Instance : BeginItem(n) \/ FinishItem(n) \/ Restart(n)
    \/ \E p \in Person : ReconcileSettles(p)
  BY DEF Next, RunnerStep, RequestStepOf, vars, record, PressRun, TakeResume, SkipDelivered,
         SelectItem, StopAtItem, EndOfItems, BeginRefused, ReadBefore, Commit, ReadBack,
         CompleteRun, ReleaseLock, Crash, RecordChecks, RecordReads, RecordStores, RecordCompletes,
         ReconcileReads, Lands, HandApplies, GrowsStale, Drifts, GateChanges, PauseChanges,
         SwitchChanges

\* How one step moves a person's request up to the record.
LEMMA RequestMoves ==
  ASSUME Typed, [Next]_vars, NEW p \in Person, req'[p].step = "storing"
  PROVE  req'[p] = req[p] \/ (req'[p].item = req[p].item /\ Verified(req[p].item) /\ jde' = jde)
<1> USE TypedParts
<1>0. req \in [Person -> [step : RequestStep, item : Item, seen : Value, at : Instance]]
  BY DEF RequestTyped
<1>1. CASE UNCHANGED req
  BY <1>1
<1>2. ASSUME NEW q \in Person, EndRequest(q) PROVE req'[p] = req[p]
  BY <1>0, <1>2 DEF EndRequest, NoRequest
<1>3. ASSUME NEW q \in Person, NEW s \in RequestStep \ {"storing"}, NEW i, NEW v, NEW n, Ask(q, s, i, v, n)
      PROVE  req'[p] = req[p]
  BY <1>0, <1>3 DEF Ask
<1>4. ASSUME NEW q \in Person, RecordReads(q)
      PROVE  req'[p] = req[p] \/ (req'[p].item = req[p].item /\ Verified(req[p].item) /\ jde' = jde)
  <2>1. CASE ~Verified(req[q].item)
    BY <1>2, <1>4, <2>1 DEF RecordReads
  <2>2. CASE Verified(req[q].item)
    <3>1. req' = [req EXCEPT ![q] = [step |-> "storing", item |-> req[q].item, seen |-> "approved", at |-> req[q].at]]
          /\ jde' = jde
      BY <1>4, <2>2 DEF RecordReads, Ask, dev
    <3> QED BY <1>0, <2>2, <3>1
  <2> QED BY <2>1, <2>2
<1>5. ASSUME NEW q \in Person, RecordStores(q) \/ RecordCompletes(q) \/ ReconcileSettles(q)
      PROVE  req'[p] = req[p]
  BY <1>2, <1>3, <1>5 DEF RecordStores, RecordCompletes, ReconcileSettles, RequestStep
<1>6. ASSUME NEW q \in Person, NEW i \in Item, NEW n \in Instance,
             RecordChecks(q, i, n) \/ ReconcileReads(q, i, n)
      PROVE  req'[p] = req[p]
  BY <1>3, <1>6 DEF RecordChecks, ReconcileReads, RequestStep
<1>7. ASSUME NEW n \in Instance, Crash(n) PROVE req'[p] = req[p]
  BY <1>0, <1>7 DEF Crash, NoRequest
<1> QED
  BY <1>1, <1>2, <1>3, <1>4, <1>5, <1>6, <1>7
     DEF Next, RunnerStep, RequestStepOf, vars, PressRun, TakeResume, SkipDelivered, SelectItem,
         StopAtItem, EndOfItems, BeginItem, BeginRefused, ReadBefore, Commit, ReadBack, FinishItem,
         CompleteRun, ReleaseLock, Restart, Lands, HandApplies, GrowsStale, Drifts, GateChanges,
         PauseChanges, SwitchChanges

(***************************************************************************)
(* What is recorded is what JD Edwards holds.                              *)
(*                                                                         *)
(* A save goes out of an attempt that may have outlived its record, so the *)
(* theorem names what has to be excluded: two instances at work on the     *)
(* same item at once, and somebody else changing DEV.                      *)
(***************************************************************************)
WorkApart ==
    \A n, m \in Instance :
        pc[n] \in Working /\ pc[m] \in Working /\ cur[n] = cur[m] => n = m

\* Agents work only on agent items nobody recorded for them; a value that was
\* read as the approved one is still there when it is recorded.
RecordInv ==
    /\ \A n \in Instance : pc[n] \in Working \cup {"begin"} => Route[cur[n]] # "person"
    /\ \A n \in Instance : pc[n] \in Working => delivery[cur[n]] # "agent"
    /\ \A n \in Instance : pc[n] = "finish" /\ result[n] = "applied" => jde[cur[n]] = "approved"
    /\ \A p \in Person : req[p].step = "storing" /\ Route[req[p].item] = "person" =>
          jde[req[p].item] = "approved"
    /\ RecordedIsInJde

\* A value that is no longer the approved one was changed by a save, or by
\* somebody else.
LEMMA ApprovedStays ==
  ASSUME Typed, [Next]_vars, "drift" \notin Events, NEW i \in Item, jde[i] = "approved",
         \A n \in Instance : Commit(n) => cur[n] # i
  PROVE  jde'[i] = "approved"
<1> USE TypedParts
<1>0. jde \in [Item -> Value]
  BY DEF WorldTyped
<1>1. ASSUME NEW n \in Instance, Commit(n) PROVE jde'[i] = "approved"
  <2>1. cur[n] # i
    BY <1>1
  <2>2. jde' = jde \/ \E v : jde' = [jde EXCEPT ![cur[n]] = v]
    BY <1>1 DEF Commit, StoppedBefore, AnswerLost, dev
  <2> QED BY <1>0, <2>1, <2>2
<1>2. ASSUME NEW j \in Item, Lands(j) PROVE jde'[i] = "approved"
  BY <1>0, <1>2 DEF Lands
<1>3. ASSUME NEW j \in Item, HandApplies(j) PROVE jde'[i] = "approved"
  BY <1>0, <1>3 DEF HandApplies
<1>4. ASSUME NEW j \in Item, Drifts(j) PROVE FALSE
  BY <1>4 DEF Drifts, Happens
<1> QED BY <1>1, <1>2, <1>3, <1>4, MovesJde

\* Nothing an instance works on is recorded as an agent's meanwhile.
LEMMA NotRecordedMeanwhile ==
  ASSUME Typed, RecordInv, WorkApart, [Next]_vars, NEW n \in Instance, pc'[n] \in Working
  PROVE  delivery'[cur'[n]] # "agent"
<1> USE TypedParts
<1>0. delivery \in [Item -> {"none", "agent", "person", "reconciled"}]
  BY DEF RecordTyped
<1>1. CASE BeginItem(n)
  <2>1. delivery' = delivery /\ cur' = cur /\ delivery[cur[n]] = "none"
    BY <1>1 DEF BeginItem, MayBegin, Delivered
  <2> QED BY <2>1
<1>2. CASE ~BeginItem(n)
  <2>1. pc[n] \in Working /\ cur'[n] = cur[n] /\ ~FinishItem(n) /\ cur[n] \in Item
    <3>1. ASSUME FinishItem(n) PROVE FALSE
      BY <3>1 DEF FinishItem, StopRun, RunnerTyped, Working
    <3>2. pc[n] \in Working /\ cur'[n] = cur[n]
      BY <1>2, RunnerMoves DEF RunnerMove, SameAttempt, Working, ReadBefore, Commit, ReadBack
    <3> QED BY <3>1, <3>2 DEF RunnerTyped, RunnerOK
  <2>2. delivery[cur[n]] # "agent"
    BY <2>1 DEF RecordInv
  <2>3. ASSUME NEW m \in Instance, FinishItem(m) PROVE delivery'[cur[n]] = delivery[cur[n]]
    <3>1. cur[m] # cur[n]
      BY <2>1, <2>3 DEF FinishItem, WorkApart, Working
    <3> QED BY <1>0, <2>1, <2>3, <3>1 DEF FinishItem
  <2>4. ASSUME NEW p \in Person, RecordStores(p) PROVE delivery'[cur[n]] # "agent"
    BY <1>0, <2>1, <2>2, <2>4 DEF RecordStores
  <2>5. ASSUME NEW p \in Person, ReconcileSettles(p) PROVE delivery'[cur[n]] # "agent"
    BY <1>0, <2>1, <2>2, <2>5 DEF ReconcileSettles
  <2> QED BY <2>1, <2>2, <2>3, <2>4, <2>5, MovesDelivery
<1> QED BY <1>1, <1>2

\* A save touches no item that counts as recorded.
LEMMA SavesTouchNoRecord ==
  ASSUME Typed, RecordInv, WorkApart, NEW n \in Instance, Commit(n), NEW i \in Item, i = cur[n]
  PROVE  /\ Route[i] # "person" /\ delivery[i] # "agent"
         /\ \A m \in Instance : pc[m] = "finish" => cur[m] # i
<1>1. pc[n] = "commit"
  BY DEF Commit
<1> QED BY <1>1 DEF RecordInv, WorkApart, Working

\* An item that waits for the agents, or that they could not apply, is not
\* marked for a person.
LEMMA AgentsTakeAgentItems ==
    \A i \in Item : Status(i) \in {"waiting_for_agent", "agent_could_not_apply"} => Route[i] # "person"
<1> SUFFICES ASSUME NEW i \in Item, Route[i] = "person"
             PROVE  Status(i) \notin {"waiting_for_agent", "agent_could_not_apply"}
  OBVIOUS
<1>1. CASE Delivered(i)
  BY <1>1 DEF Status
<1>2. CASE ~Delivered(i) /\ EffectiveState(i) \in Settling
  <2>1. Status(i) = EffectiveState(i)
    BY <1>2 DEF Status
  <2> QED BY <1>2, <2>1 DEF Settling
<1>3. CASE ~Delivered(i) /\ EffectiveState(i) \notin Settling
  <2>1. Status(i) = CASE Route[i] = "person" -> "waiting_for_person"
              [] Route[i] # "person" /\ LastOutcome(i) = "not_sent" -> "agent_could_not_apply"
              [] Route[i] # "person" /\ LastOutcome(i) # "not_sent" ->
                    IF switched THEN "waiting_for_agent" ELSE "agent_unavailable"
    BY <1>3 DEF Status
  <2>2. Status(i) = "waiting_for_person"
    BY <2>1
  <2> QED BY <2>2
<1> QED BY <1>1, <1>2, <1>3

\* The invariant is kept.
LEMMA RecordInvStep ==
  ASSUME Typed, RecordInv, WorkApart, "drift" \notin Events, [Next]_vars
  PROVE  RecordInv'
<1> USE TypedParts
<1>0. /\ delivery \in [Item -> {"none", "agent", "person", "reconciled"}]
      /\ \A n \in Instance : pc[n] \in Working => cur[n] \in Item
      /\ \A p \in Person : req[p].item \in Item
  BY DEF RecordTyped, RunnerTyped, RunnerOK, RequestTyped
<1>1. ASSUME NEW n \in Instance, pc'[n] \in Working \cup {"begin"} PROVE Route[cur'[n]] # "person"
  <2>1. SelectItem(n) => Route[cur[n]] # "person"
    BY AgentsTakeAgentItems DEF SelectItem, Retries
  <2> QED BY <1>1, <2>1, RunnerMoves
          DEF RunnerMove, SameAttempt, RecordInv, Working, BeginItem, ReadBefore, Commit, ReadBack
<1>2. ASSUME NEW n \in Instance, pc'[n] = "finish", result'[n] = "applied"
      PROVE  jde'[cur'[n]] = "approved"
  <2>1. CASE ReadBack(n)
    <3>1. jde' = jde /\ cur' = cur
      BY <2>1 DEF ReadBack, dev
    <3> QED BY <1>2, <2>1, <3>1, RunnerMoves DEF RunnerMove, SameAttempt, ReadBack, Verified,
            ReadBefore, Commit
  <2>2. CASE ~ReadBack(n)
    <3>1. pc[n] = "finish" /\ result[n] = "applied" /\ cur'[n] = cur[n] /\ cur[n] \in Item
      BY <1>0, <1>2, <2>2, RunnerMoves DEF RunnerMove, SameAttempt, Working
    <3>2. \A m \in Instance : Commit(m) => cur[m] # cur[n]
      BY <3>1 DEF Commit, WorkApart, Working
    <3> QED BY <3>1, <3>2, ApprovedStays DEF RecordInv
  <2> QED BY <2>1, <2>2
<1>3. ASSUME NEW p \in Person, req'[p].step = "storing", Route[req'[p].item] = "person"
      PROVE  jde'[req'[p].item] = "approved"
  <2>1. CASE req'[p] = req[p]
    <3>1. jde[req[p].item] = "approved"
      BY <1>3, <2>1 DEF RecordInv
    <3>2. \A m \in Instance : Commit(m) => cur[m] # req[p].item
      BY <1>0, <1>3, <2>1, SavesTouchNoRecord
    <3> QED BY <1>0, <2>1, <3>1, <3>2, ApprovedStays
  <2>2. CASE req'[p].item = req[p].item /\ Verified(req[p].item) /\ jde' = jde
    BY <2>2 DEF Verified
  <2> QED BY <1>3, <2>1, <2>2, RequestMoves
<1>4. ASSUME NEW i \in Item,
             delivery'[i] = "agent" \/ (delivery'[i] = "person" /\ Route[i] = "person")
      PROVE  jde'[i] = "approved"
  <2>1. CASE delivery[i] = "agent" \/ (delivery[i] = "person" /\ Route[i] = "person")
    <3>1. jde[i] = "approved"
      BY <2>1 DEF RecordInv, RecordedIsInJde
    <3>2. \A n \in Instance : Commit(n) => cur[n] # i
      BY <2>1, SavesTouchNoRecord
    <3> QED BY <3>1, <3>2, ApprovedStays
  <2>2. ASSUME NEW n \in Instance, FinishItem(n), delivery'[i] # delivery[i]
        PROVE  jde'[i] = "approved"
    <3>1. i = cur[n] /\ result[n] = "applied" /\ pc[n] = "finish" /\ jde' = jde
      BY <1>0, <2>2 DEF FinishItem, dev
    <3> QED BY <3>1 DEF RecordInv
  <2>3. ASSUME NEW p \in Person, RecordStores(p), delivery'[i] # delivery[i]
        PROVE  jde'[i] = "approved"
    <3>1. i = req[p].item /\ req[p].step = "storing" /\ delivery'[i] = "person" /\ jde' = jde
      BY <1>0, <2>3 DEF RecordStores, dev
    <3> QED BY <1>4, <3>1 DEF RecordInv
  <2>4. ASSUME NEW p \in Person, ReconcileSettles(p), delivery'[i] # delivery[i]
        PROVE  FALSE
    BY <1>0, <1>4, <2>4 DEF ReconcileSettles
  <2> QED BY <1>4, <2>1, <2>2, <2>3, <2>4, MovesDelivery
<1> QED BY <1>1, <1>2, <1>3, <1>4, NotRecordedMeanwhile DEF RecordInv, RecordedIsInJde

\* What is recorded of an item is what JD Edwards holds, through crashes,
\* pauses, withdrawn approvals, stale attempts and saves whose answer was
\* lost (run_item's read-back, record_item_applied's live read).
THEOREM RecordsAreTrue ==
  "drift" \notin Events => (Spec /\ []WorkApart => []RecordedIsInJde)
<1> SUFFICES ASSUME "drift" \notin Events PROVE Spec /\ []WorkApart => []RecordedIsInJde
  OBVIOUS
<1>1. Init => RecordInv
  BY DEF Init, RecordInv, RecordedIsInJde, Working, NoRequest
<1>2. IInv /\ WorkApart /\ RecordInv /\ [Next]_vars => RecordInv'
  BY RecordInvStep DEF IInv
<1>3. RecordInv => RecordedIsInJde
  BY DEF RecordInv
<1> QED BY IInvAlways, <1>1, <1>2, <1>3, PTL DEF Spec

(***************************************************************************)
(* The approved order.                                                     *)
(***************************************************************************)

\* While an instance works under an attempt, the attempt is the item's open
\* one: nobody has given it up, so its answer still decides.
NoneOutlived == \A n \in Instance : pc[n] \in Working => IsCurrent(n)

Walking == {"select", "begin"} \cup Working

\* A run has left only recorded items behind.
BehindIsRecorded ==
    \A n \in Instance : pc[n] \in Walking => \A j \in Item : j < cur[n] => Delivered(j)

\* A run goes on only past an item that is recorded.
LEMMA GoesOnPastRecorded ==
  ASSUME Typed, NoneOutlived, NEW n \in Instance, FinishItem(n), GoesOn(n)
  PROVE  delivery'[cur[n]] # "none"
<1> USE TypedParts
<1>1. IsCurrent(n) /\ cur[n] \in Item /\ result[n] = "applied"
  BY DEF FinishItem, NoneOutlived, Working, RunnerTyped, RunnerOK, GoesOn
<1> QED BY <1>1 DEF FinishItem, RecordTyped

\* The invariant is kept.
LEMMA BehindStep ==
  ASSUME IInv, NoneOutlived, BehindIsRecorded, [Next]_vars
  PROVE  BehindIsRecorded'
<1> USE TypedParts DEF IInv
<1> SUFFICES ASSUME NEW n \in Instance, pc'[n] \in Walking, NEW j \in Item, j < cur'[n]
             PROVE  delivery'[j] # "none"
  BY DEF BehindIsRecorded, Delivered
<1>0. cur[n] \in 1 .. (NItems + 1) /\ j \in Nat /\ 1 <= j /\ NItems \in Nat
  BY ItemsAssumption DEF RunnerTyped, Item
<1>1. CASE Delivered(j)
  BY <1>1, DeliveredStep
<1>2. CASE cur'[n] = 1
  BY <1>0, <1>2
<1>3. CASE cur'[n] = cur[n] /\ pc[n] \in Walking
  BY <1>1, <1>3 DEF BehindIsRecorded
<1>4. CASE SkipDelivered(n) /\ cur'[n] = cur[n] + 1
  <2>1. pc[n] \in Walking /\ Delivered(cur[n])
    BY <1>4 DEF SkipDelivered, Walking
  <2>2. j < cur[n] \/ j = cur[n]
    BY <1>0, <1>4
  <2> QED BY <1>1, <2>1, <2>2 DEF BehindIsRecorded
<1>5. CASE FinishItem(n) /\ GoesOn(n) /\ cur'[n] = cur[n] + 1
  <2>1. pc[n] \in Walking
    BY <1>5 DEF FinishItem, Walking, Working
  <2>2. j < cur[n] \/ j = cur[n]
    BY <1>0, <1>5
  <2> QED BY <1>1, <1>5, <2>1, <2>2, GoesOnPastRecorded DEF BehindIsRecorded
<1> QED BY <1>2, <1>3, <1>4, <1>5, RunnerMoves DEF RunnerMove, SameAttempt, Walking, Working,
        SelectItem, BeginItem, ReadBefore, Commit, ReadBack

\* An attempt only ever starts when every earlier item is recorded, in every
\* behaviour where no attempt outlives its record (execution.py:226-228).
THEOREM KeepsApprovedOrder == Spec /\ []NoneOutlived => ApprovedOrder
<1>1. Init => BehindIsRecorded
  BY DEF Init, BehindIsRecorded, Walking, Working
<1>2. IInv /\ NoneOutlived /\ BehindIsRecorded /\ [Next]_vars => BehindIsRecorded'
  BY BehindStep
<1>3. IInv /\ BehindIsRecorded /\ [Next]_vars =>
        [\A i \in Item : Len(attempts'[i]) > Len(attempts[i]) =>
           \A j \in Item : j < i => Delivered(j)]_vars
  <2> SUFFICES ASSUME IInv, BehindIsRecorded, [Next]_vars, NEW i \in Item,
                      Len(attempts'[i]) > Len(attempts[i]), NEW j \in Item, j < i
               PROVE  Delivered(j)
    OBVIOUS
  <2>1. Len(attempts[i]) \in Nat
    BY DEF IInv, Typed, TypeOK
  <2>2. Len(attempts'[i]) # Len(attempts[i])
    BY <2>1
  <2>3. PICK n \in Instance : BeginItem(n) /\ i = cur[n]
    BY <2>2, OnlyBeginLengthens
  <2> QED BY <2>3 DEF BeginItem, BehindIsRecorded, Walking
<1> QED BY IInvAlways, <1>1, <1>2, <1>3, PTL DEF Spec, ApprovedOrder
=============================================================================
