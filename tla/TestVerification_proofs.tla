----------------------- MODULE TestVerification_proofs -----------------------
(***************************************************************************)
(* What holds of the test and of the as-built record for every number of   *)
(* people, attempts, versions and restarts.                                *)
(*                                                                         *)
(* A final record is proof of a test only through a chain of copies: the   *)
(* answer of an attempt, the verdict of a request, the stored verdict, the *)
(* inputs a draft was generated from.  Each link says "a test passed"      *)
(* about the attempts as they were then (ProofInv); it still does later    *)
(* because an attempt that has an answer keeps it: a call in flight is for *)
(* an attempt of its own that has none (CallsInv).                         *)
(***************************************************************************)
EXTENDS TestVerification, SequenceTheorems, TLAPS

Answered == \E n \in DOMAIN attempts : attempts[n] \in {"completed", "passed"}

\* A call in flight is the only one for its attempt, and it has no answer yet.
CallsInv ==
    \A p \in Person : request[p].pc = "call" =>
        /\ attempts[request[p].attempt] = "none"
        /\ \A q \in Person \ {p} : request[q].pc = "call" => request[q].attempt # request[p].attempt

\* What inputs say of the value and of the test is so.
True(inputs) ==
    /\ inputs.readback => readback
    /\ inputs.verification = "passed" => Answered

ProofInv ==
    /\ readback => write = "applied"
    /\ verification = "passed" => Answered
    /\ \A p \in Person :
          /\ request[p].pc = "verdict" /\ request[p].outcome = "passed" => Answered
          /\ True(request[p].inputs)
    /\ \A v \in DOMAIN version : True(version[v].inputs)

\* Only the newest version is a draft; a final one, and a draft about to become
\* final, is complete.
RecordInv ==
    /\ \A v \in DOMAIN version :
          /\ version[v].status = "draft" => v = Len(version)
          /\ version[v].status = "final" => Complete(version[v].inputs)
    /\ \A p \in Person : request[p].pc = "update" =>
          /\ request[p].op = "finalise"
          /\ version[request[p].version].status = "draft" =>
                Complete(version[request[p].version].inputs)

IInv == TypeOK /\ ReadyIsAccounted /\ CallsInv /\ ProofInv /\ RecordInv

TestStep(p) == BeginTest(p) \/ RecordResult(p) \/ FinishTest(p)

LEMMA NothingAsked ==
    /\ NoInputs \in InputsType
    /\ NoRequest \in RequestType
<1>1. NoInputs \in InputsType
  BY DEF NoInputs, InputsType, WriteState, TestState, Verdict
<1> QED BY <1>1 DEF NoRequest, RequestType, Outcome

LEMMA InvInit == Init => IInv
<1> SUFFICES ASSUME Init PROVE IInv
  OBVIOUS
<1>1. TypeOK
  <2>1. request \in [Person -> RequestType]
    BY NothingAsked DEF Init
  <2>2. RequestsOK
    BY <2>1 DEF Init, RequestsOK, NoRequest
  <2>3. TestOK
    <3>1. attempts \in Seq(Outcome) /\ attested \in Nat
      BY DEF Init
    <3>2. write \in WriteState /\ test \in TestState /\ verification \in Verdict
      BY DEF Init, WriteState, TestState, Verdict
    <3>3. readback \in BOOLEAN /\ stale \in BOOLEAN
      BY DEF Init
    <3> QED BY <3>1, <3>2, <3>3 DEF TestOK
  <2>4. version \in Seq(VersionType) /\ outside \in Nat
    BY DEF Init
  <2>5. stands \in BOOLEAN /\ paused \in BOOLEAN
    BY DEF Init
  <2> QED BY <2>2, <2>3, <2>4, <2>5 DEF TypeOK
<1>2. ReadyIsAccounted /\ CallsInv /\ ProofInv /\ RecordInv
  BY DEF Init, ReadyIsAccounted, CallsInv, ProofInv, RecordInv, NoRequest, NoInputs, True
<1> QED BY <1>1, <1>2 DEF IInv

-----------------------------------------------------------------------------
(* Types.                                                                  *)

\* A request that is answered, and the requests that stay as they were.
LEMMA RequestChange ==
    ASSUME TypeOK, NEW p \in Person, NEW new \in RequestType, Open(p, new),
           Len(attempts') >= Len(attempts), Len(version') >= Len(version),
           attempts' \in Seq(Outcome), version' \in Seq(VersionType),
           new.pc = "call" => new.attempt \in DOMAIN attempts',
           new.pc = "verdict" => new.outcome \in {"passed", "failed"},
           new.op = "finalise" => new.version \in DOMAIN version'
    PROVE  RequestsOK'
<1>1. request' \in [Person -> RequestType]
  BY DEF TypeOK, RequestsOK, Open
<1>2. DOMAIN attempts \subseteq DOMAIN attempts' /\ DOMAIN version \subseteq DOMAIN version'
  BY DEF TypeOK, TestOK
<1>3. ASSUME NEW q \in Person PROVE request'[q] = IF q = p THEN new ELSE request[q]
  BY DEF TypeOK, RequestsOK, Open
<1> QED BY <1>1, <1>2, <1>3 DEF TypeOK, RequestsOK

LEMMA RequestsStay ==
    ASSUME TypeOK, request' = request, attempts' = attempts, version' = version
    PROVE  RequestsOK'
  BY DEF TypeOK, RequestsOK

LEMMA InputsTyped ==
    ASSUME TypeOK, NEW read \in InputsType
    PROVE  Inputs(read) \in InputsType
  BY DEF Inputs, InputsType, TypeOK, TestOK

LEMMA TypeStep == ASSUME TypeOK, [Next]_vars PROVE TypeOK'
<1>r. ASSUME NEW p \in Person PROVE request[p] \in RequestType
  BY DEF TypeOK, RequestsOK
<1>1. CASE RecordApplied \/ ReconcileWrite
  BY <1>1 DEF RecordApplied, ReconcileWrite, testVars, gateVars, TypeOK, TestOK, RequestsOK, WriteState
<1>2. CASE ReconcileTest \/ GrowsStale
  <2>1. RequestsOK'
    BY <1>2, RequestsStay DEF ReconcileTest, GrowsStale
  <2>2. TestOK'
    <3>1. stale' \in BOOLEAN
      BY <1>2 DEF ReconcileTest, GrowsStale
    <3>2. test' \in TestState /\ attested' \in Nat
      BY <1>2 DEF ReconcileTest, GrowsStale, TypeOK, TestOK, TestState
    <3> QED BY <1>2, <3>1, <3>2 DEF ReconcileTest, GrowsStale, TypeOK, TestOK
  <2> QED BY <1>2, <2>1, <2>2 DEF ReconcileTest, GrowsStale, gateVars, TypeOK
<1>g. CASE GateChanges
  <2>1. RequestsOK'
    BY <1>g, RequestsStay DEF GateChanges, testVars
  <2>2. TestOK'
    BY <1>g DEF GateChanges, testVars, TypeOK, TestOK
  <2>3. stands' \in BOOLEAN /\ paused' \in BOOLEAN
    BY <1>g DEF GateChanges, TypeOK
  <2>4. outside' \in Nat /\ version' = version
    BY <1>g DEF GateChanges, Outside, TypeOK
  <2> QED BY <2>1, <2>2, <2>3, <2>4 DEF TypeOK
<1>3. CASE MarkInterrupted \/ Crash
  <2>1. RequestsOK'
    <3>1. CASE MarkInterrupted
      BY <3>1, RequestsStay DEF MarkInterrupted
    <3>2. CASE Crash
      <4>1. request' \in [Person -> RequestType]
        BY <3>2, NothingAsked DEF Crash
      <4> QED BY <3>2, <4>1 DEF Crash, RequestsOK, NoRequest
    <3> QED BY <1>3, <3>1, <3>2
  <2>2. TestOK'
    BY <1>3 DEF MarkInterrupted, Crash, Interrupted, TypeOK, TestOK, TestState
  <2> QED BY <1>3, <2>1, <2>2 DEF MarkInterrupted, Crash, Outside, gateVars, TypeOK
<1>4. ASSUME NEW p \in Person, TestStep(p) PROVE TypeOK'
  <2>1. request[p] \in RequestType /\ attempts \in Seq(Outcome) /\ Len(attempts) \in Nat
    BY <1>r DEF TypeOK, TestOK
  <2>2. CASE BeginTest(p)
    <3>1. attempts' \in Seq(Outcome) /\ Len(attempts') = Len(attempts) + 1
      BY <2>1, <2>2 DEF BeginTest, Outcome
    <3>0. NewAttempt \in Nat /\ NewAttempt \in DOMAIN attempts'
      BY <2>1, <3>1 DEF NewAttempt
    <3> DEFINE new == [request[p] EXCEPT !.pc = "call", !.attempt = NewAttempt]
    <3>2. new \in RequestType
      BY <2>1, <3>0 DEF RequestType
    <3>i. new.pc = "call" /\ new.attempt = NewAttempt /\ new.op = "run" /\ Open(p, new)
      BY <2>1, <2>2 DEF BeginTest, RequestType
    <3> HIDE DEF new
    <3>3. RequestsOK'
      BY <2>2, <3>0, <3>1, <3>2, <3>i, RequestChange DEF BeginTest, TypeOK
    <3> QED BY <2>2, <3>1, <3>3 DEF BeginTest, TypeOK, TestOK, TestState, gateVars
  <2>3. CASE RecordResult(p)
    <3>1. PICK outcome \in {"passed", "failed"} :
              attempts' = Append(attempts, outcome)
              /\ Open(p, [request[p] EXCEPT !.pc = "verdict", !.outcome = outcome])
      BY <2>3 DEF RecordResult
    <3>2. attempts' \in Seq(Outcome) /\ Len(attempts') = Len(attempts) + 1
      BY <2>1, <3>1 DEF Outcome
    <3> DEFINE new == [request[p] EXCEPT !.pc = "verdict", !.outcome = outcome]
    <3>3. new \in RequestType
      BY <2>1 DEF RequestType, Outcome
    <3>i. new.pc = "verdict" /\ new.outcome = outcome /\ new.op = "result" /\ Open(p, new)
      BY <2>1, <2>3, <3>1 DEF RecordResult, RequestType
    <3> HIDE DEF new
    <3>4. RequestsOK'
      BY <2>3, <3>2, <3>3, <3>i, RequestChange DEF RecordResult, TypeOK
    <3> QED BY <2>3, <3>2, <3>4 DEF RecordResult, TypeOK, TestOK, TestState, gateVars
  <2>4. CASE FinishTest(p)
    <3>1. PICK outcome \in CallOutcome :
              /\ attempts' = [attempts EXCEPT ![request[p].attempt] = outcome]
              /\ test' = IF IsCurrent(request[p].attempt) THEN OutcomeState(outcome) ELSE "unknown"
              /\ IF outcome = "completed"
                 THEN Open(p, [NoRequest EXCEPT !.op = "run", !.pc = "verdict", !.outcome = "passed"])
                 ELSE Done(p)
      BY <2>4 DEF FinishTest, CallOutcome
    <3>2. attempts' \in Seq(Outcome) /\ Len(attempts') = Len(attempts)
      <4>1. outcome \in Outcome
        BY DEF Outcome, CallOutcome
      <4>2. request[p].attempt \in 1 .. Len(attempts)
        BY <2>1, <2>4 DEF FinishTest, CallOutcome, At, TypeOK, RequestsOK
      <4> QED BY <2>1, <3>1, <4>1, <4>2, ExceptSeq
    <3> DEFINE new == [NoRequest EXCEPT !.op = "run", !.pc = "verdict", !.outcome = "passed"]
    <3>3. new \in RequestType
      BY NothingAsked DEF RequestType, Outcome
    <3>i. new.pc = "verdict" /\ new.outcome = "passed" /\ new.op = "run"
      BY DEF NoRequest
    <3>j. NoRequest.pc = "none" /\ NoRequest.op = "none"
      BY DEF NoRequest
    <3>k. Open(p, new) \/ Open(p, NoRequest)
      BY <3>1 DEF Done
    <3> HIDE DEF new
    <3>4. RequestsOK'
      BY <2>4, <3>2, <3>3, <3>i, <3>j, <3>k, NothingAsked, RequestChange DEF FinishTest, CallOutcome, TypeOK
    <3>5. test' \in TestState
      BY <3>1 DEF OutcomeState, TestState, CallOutcome
    <3> QED BY <2>4, <3>2, <3>4, <3>5 DEF FinishTest, CallOutcome, TypeOK, TestOK, gateVars
  <2> QED BY <1>4, <2>2, <2>3, <2>4 DEF TestStep
<1>5. ASSUME NEW p \in Person, AskTest(p) \/ RefuseTest(p) \/ StoreVerdict(p) PROVE TypeOK'
  <2>1. PICK new \in RequestType : Open(p, new) /\ new.pc \in {"none", "begin"} /\ new.op # "finalise"
    <3>1. \A op \in {"run", "result"} :
              LET asked == [NoRequest EXCEPT !.op = op, !.pc = "begin"]
              IN  asked \in RequestType /\ asked.pc = "begin" /\ asked.op = op
      BY NothingAsked DEF RequestType, NoRequest
    <3>2. NoRequest.pc = "none" /\ NoRequest.op = "none"
      BY DEF NoRequest
    <3> QED BY <1>5, <3>1, <3>2, NothingAsked DEF AskTest, RefuseTest, StoreVerdict, Done
  <2>2. RequestsOK'
    <3>1. attempts' = attempts /\ version' = version
      BY <1>5 DEF AskTest, RefuseTest, StoreVerdict, testVars
    <3>2. /\ attempts \in Seq(Outcome) /\ version \in Seq(VersionType)
          /\ Len(attempts) >= Len(attempts) /\ Len(version) >= Len(version)
      BY DEF TypeOK, TestOK
    <3> QED BY <2>1, <3>1, <3>2, RequestChange
  <2>3. verification' \in Verdict
    BY <1>5 DEF AskTest, RefuseTest, StoreVerdict, At, TypeOK, TestOK, RequestsOK, Verdict
  <2> QED BY <1>5, <2>2, <2>3 DEF AskTest, RefuseTest, StoreVerdict, testVars, gateVars, TypeOK, TestOK
<1>6. ASSUME NEW p \in Person,
             AskRecord(p) \/ GatherDraft(p) \/ InsertDraft(p) \/ GatherFinal(p) \/ UpdateFinal(p)
      PROVE  TypeOK'
  <2>1. version' \in Seq(VersionType) /\ Len(version') >= Len(version)
    <3>1. CASE InsertDraft(p)
      <4>1. [n \in DOMAIN version |-> Superseded(version[n])] \in Seq(VersionType)
        BY NothingAsked DEF TypeOK, Superseded, VersionType
      <4>2. [status |-> "draft", inputs |-> request[p].inputs] \in VersionType
        BY <1>r DEF VersionType, RequestType
      <4> QED BY <3>1, <4>1, <4>2 DEF InsertDraft, TypeOK
    <3>2. CASE UpdateFinal(p)
      <4>1. \A v \in VersionType : FinalisedDraft(v) \in VersionType
        BY DEF FinalisedDraft, VersionType
      <4>2. request[p].version \in DOMAIN version
        BY <3>2 DEF UpdateFinal, TypeOK, RequestsOK
      <4> QED BY <3>2, <4>1, <4>2 DEF UpdateFinal, TypeOK
    <3>3. CASE UNCHANGED version
      BY <3>3 DEF TypeOK
    <3> QED BY <1>6, <3>1, <3>2, <3>3 DEF AskRecord, GatherDraft, GatherFinal
  <2>a. attempts' = attempts /\ attempts \in Seq(Outcome) /\ Len(attempts) >= Len(attempts)
    <3>1. attempts' = attempts
      BY <1>6 DEF AskRecord, GatherDraft, InsertDraft, GatherFinal, UpdateFinal, testVars
    <3> QED BY <3>1 DEF TypeOK, TestOK
  <2>2. RequestsOK'
    <3>1. CASE AskRecord(p)
      <4>1. PICK op \in {"generate", "finalise"}, v \in 0 .. Len(version) :
                /\ (op = "finalise") <=> (v > 0)
                /\ Open(p, [NoRequest EXCEPT !.op = op, !.pc = "gather", !.version = v,
                        !.inputs = [NoInputs EXCEPT !.write = write, !.test = EffectiveState]])
        BY <3>1 DEF AskRecord
      <4>2. [NoInputs EXCEPT !.write = write, !.test = EffectiveState] \in InputsType
        BY NothingAsked DEF InputsType, TypeOK, TestOK, EffectiveState, TestState
      <4> DEFINE asked == [NoRequest EXCEPT !.op = op, !.pc = "gather", !.version = v,
                !.inputs = [NoInputs EXCEPT !.write = write, !.test = EffectiveState]]
      <4>3. asked \in RequestType
        <5> DEFINE made == [NoInputs EXCEPT !.write = write, !.test = EffectiveState]
        <5>1. made \in InputsType /\ v \in Nat
          BY <4>2 DEF TypeOK
        <5> HIDE DEF made
        <5>2. [NoRequest EXCEPT !.op = op, !.pc = "gather", !.version = v, !.inputs = made] \in RequestType
          BY <5>1, NothingAsked DEF RequestType
        <5> QED BY <5>2 DEF made
      <4>4. Open(p, asked)
        BY <4>1
      <4>5. asked.pc = "gather" /\ asked.op = op /\ asked.version = v
        BY DEF NoRequest
      <4> HIDE DEF asked
      <4>6. UNCHANGED <<attempts, version>>
        BY <3>1 DEF AskRecord, testVars
      <4>7. op = "finalise" => v \in DOMAIN version'
        BY <4>1, <4>6 DEF TypeOK
      <4> QED BY <2>1, <4>3, <4>4, <4>5, <4>6, <4>7, RequestChange DEF TypeOK, TestOK
    <3>2. CASE GatherDraft(p)
      <4> DEFINE new == [request[p] EXCEPT !.pc = "insert", !.inputs = Inputs(request[p].inputs)]
      <4>1. new \in RequestType
        BY <1>r, InputsTyped DEF RequestType
      <4>2. new.pc = "insert" /\ new.op = "generate" /\ Open(p, new)
        BY <1>r, <3>2 DEF GatherDraft, RequestType
      <4> HIDE DEF new
      <4> QED BY <2>1, <2>a, <4>1, <4>2, RequestChange
    <3>3. CASE GatherFinal(p)
      <4> DEFINE new == [request[p] EXCEPT !.pc = "update", !.inputs = NoInputs]
      <4>1. new \in RequestType
        BY <1>r, NothingAsked DEF RequestType
      <4>2. request[p].version \in DOMAIN version'
        BY <3>3 DEF GatherFinal, TypeOK, RequestsOK
      <4>3. new.pc = "update" /\ new.version = request[p].version
        BY <1>r DEF RequestType
      <4>4. Open(p, new) \/ Open(p, NoRequest)
        BY <3>3 DEF GatherFinal, Done
      <4>5. NoRequest.pc = "none" /\ NoRequest.op = "none"
        BY DEF NoRequest
      <4> HIDE DEF new
      <4> QED BY <2>1, <2>a, <4>1, <4>2, <4>3, <4>4, <4>5, NothingAsked, RequestChange
    <3>4. CASE InsertDraft(p) \/ UpdateFinal(p)
      BY <1>r, <2>1, <3>4, NothingAsked, RequestChange
         DEF InsertDraft, UpdateFinal, Done, NoRequest, testVars, TypeOK, TestOK
    <3> QED BY <1>6, <3>1, <3>2, <3>3, <3>4
  <2> QED BY <1>6, <2>1, <2>2 DEF AskRecord, GatherDraft, InsertDraft, GatherFinal, UpdateFinal, testVars,
    gateVars, TypeOK, TestOK
<1>7. CASE UNCHANGED vars
  BY <1>7 DEF vars, testVars, gateVars, TypeOK, TestOK, RequestsOK
<1> QED BY <1>1, <1>2, <1>g, <1>3, <1>4, <1>5, <1>6, <1>7 DEF Next, PersonStep, TestStep
-----------------------------------------------------------------------------
(* The parts of the invariant, each from what it rests on.                 *)

\* Nothing is running unaccounted for when the test is ready again.
LEMMA ReadyStep == ASSUME TypeOK, ReadyIsAccounted, [Next]_vars PROVE ReadyIsAccounted'
<1>1. ASSUME NEW p \in Person, BeginTest(p) \/ RecordResult(p) PROVE ReadyIsAccounted'
  BY <1>1 DEF BeginTest, RecordResult, ReadyIsAccounted
<1>2. ASSUME NEW p \in Person, FinishTest(p) PROVE ReadyIsAccounted'
  <2>1. PICK outcome \in CallOutcome :
            /\ attempts' = [attempts EXCEPT ![request[p].attempt] = outcome]
            /\ test' = IF IsCurrent(request[p].attempt) THEN OutcomeState(outcome) ELSE "unknown"
    BY <1>2 DEF FinishTest, CallOutcome
  <2>2. request[p].attempt \in DOMAIN attempts /\ attempts \in Seq(Outcome)
    BY <1>2 DEF FinishTest, CallOutcome, At, TypeOK, TestOK, RequestsOK
  <2>3. outcome \in Outcome
    BY DEF Outcome, CallOutcome
  <2>4. Len(attempts') = Len(attempts) /\ attempts'[request[p].attempt] = outcome
    BY <2>1, <2>2, <2>3, ExceptSeq
  <2> QED BY <2>1, <2>4 DEF ReadyIsAccounted, IsCurrent, OutcomeState, CallOutcome
<1>3. CASE ReconcileTest
  BY <1>3 DEF ReconcileTest, ReadyIsAccounted
<1>4. CASE MarkInterrupted \/ Crash
  BY <1>4 DEF MarkInterrupted, Crash, Interrupted, ReadyIsAccounted
<1>5. CASE UNCHANGED <<test, attempts, attested>>
  BY <1>5 DEF ReadyIsAccounted
<1> QED BY <1>1, <1>2, <1>3, <1>4, <1>5
        DEF Next, PersonStep, vars, testVars, RecordApplied, ReconcileWrite, GrowsStale, GateChanges,
            AskTest, RefuseTest, StoreVerdict, AskRecord, GatherDraft, InsertDraft, GatherFinal, UpdateFinal

\* What a step may do to an attempt: nothing, unless it is the answer to the
\* one call for it.
LEMMA AttemptsStep ==
    ASSUME TypeOK, CallsInv, [Next]_vars
    PROVE  /\ Len(attempts') >= Len(attempts)
           /\ \A n \in DOMAIN attempts : attempts[n] # "none" => attempts'[n] = attempts[n]
<1>t. attempts \in Seq(Outcome)
  BY DEF TypeOK, TestOK
<1>1. ASSUME NEW p \in Person, BeginTest(p) \/ RecordResult(p)
      PROVE  \E outcome \in Outcome : attempts' = Append(attempts, outcome)
  BY <1>1 DEF BeginTest, RecordResult, Outcome
<1>2. ASSUME NEW p \in Person, FinishTest(p)
      PROVE  \E outcome \in Outcome :
                /\ request[p].attempt \in DOMAIN attempts /\ attempts[request[p].attempt] = "none"
                /\ attempts' = [attempts EXCEPT ![request[p].attempt] = outcome]
  BY <1>2 DEF FinishTest, CallOutcome, At, TypeOK, RequestsOK, CallsInv, Outcome
<1>3. ASSUME NEW n \in DOMAIN attempts, NEW outcome \in Outcome,
             attempts' = [attempts EXCEPT ![n] = outcome], attempts[n] = "none"
      PROVE  /\ Len(attempts') >= Len(attempts)
             /\ \A m \in DOMAIN attempts : attempts[m] # "none" => attempts'[m] = attempts[m]
  BY <1>t, <1>3, ExceptSeq
<1>4. ASSUME NEW outcome \in Outcome, attempts' = Append(attempts, outcome)
      PROVE  /\ Len(attempts') >= Len(attempts)
             /\ \A m \in DOMAIN attempts : attempts[m] # "none" => attempts'[m] = attempts[m]
  BY <1>t, <1>4
<1>5. CASE UNCHANGED attempts
  BY <1>t, <1>5
<1>6. \/ \E p \in Person : BeginTest(p) \/ RecordResult(p)
      \/ \E p \in Person : FinishTest(p)
      \/ UNCHANGED attempts
  BY DEF Next, PersonStep, vars, testVars, RecordApplied, ReconcileWrite, ReconcileTest, GrowsStale,
         GateChanges, MarkInterrupted, Crash, AskTest, RefuseTest, StoreVerdict, AskRecord, GatherDraft,
         InsertDraft, GatherFinal, UpdateFinal
<1> QED BY <1>1, <1>2, <1>3, <1>4, <1>5, <1>6

\* An answer stays an answer.
LEMMA AnsweredStays ==
    ASSUME TypeOK, CallsInv, [Next]_vars, Answered
    PROVE  Answered'
<1>1. attempts \in Seq(Outcome) /\ attempts' \in Seq(Outcome)
  BY TypeStep DEF TypeOK, TestOK
<1>2. PICK n \in DOMAIN attempts : attempts[n] \in {"completed", "passed"}
  BY DEF Answered
<1>3. attempts'[n] = attempts[n] /\ n \in DOMAIN attempts'
  BY <1>1, <1>2, AttemptsStep
<1> QED BY <1>2, <1>3 DEF Answered

LEMMA CallsStep == ASSUME TypeOK, CallsInv, [Next]_vars PROVE CallsInv'
<1>t. /\ attempts \in Seq(Outcome) /\ Len(attempts) \in Nat
      /\ request \in [Person -> RequestType]
      /\ \A q \in Person : request[q].pc = "call" => request[q].attempt \in 1 .. Len(attempts)
  BY DEF TypeOK, TestOK, RequestsOK
<1>1. ASSUME NEW p \in Person, BeginTest(p) PROVE CallsInv'
  <2>1. /\ attempts' = Append(attempts, "none")
        /\ \A q \in Person \ {p} : request'[q] = request[q]
        /\ request'[p].attempt = Len(attempts) + 1
    BY <1>t, <1>1 DEF BeginTest, Open, NewAttempt, RequestType
  <2>2. attempts'[Len(attempts) + 1] = "none" /\ \A n \in 1 .. Len(attempts) : attempts'[n] = attempts[n]
    BY <1>t, <2>1
  <2>3. ASSUME NEW q \in Person, request'[q].pc = "call"
        PROVE  /\ attempts'[request'[q].attempt] = "none"
               /\ q # p => request'[q].attempt \in 1 .. Len(attempts)
    BY <1>t, <2>1, <2>2, <2>3 DEF CallsInv
  <2>4. \A n \in 1 .. Len(attempts) : n # Len(attempts) + 1
    BY <1>t
  <2> QED BY <2>1, <2>3, <2>4 DEF CallsInv
<1>2. ASSUME NEW p \in Person, RecordResult(p) PROVE CallsInv'
  <2>1. PICK outcome \in {"passed", "failed"} :
            /\ attempts' = Append(attempts, outcome)
            /\ Open(p, [request[p] EXCEPT !.pc = "verdict", !.outcome = outcome])
    BY <1>2 DEF RecordResult
  <2>2. /\ \A q \in Person \ {p} : request'[q] = request[q]
        /\ request'[p].pc = "verdict"
    BY <1>t, <2>1 DEF Open, RequestType
  <2>3. \A n \in 1 .. Len(attempts) : attempts'[n] = attempts[n]
    BY <1>t, <2>1 DEF Outcome
  <2> QED BY <1>t, <2>2, <2>3 DEF CallsInv
<1>3. ASSUME NEW p \in Person, FinishTest(p) PROVE CallsInv'
  <2>1. PICK outcome \in CallOutcome :
            /\ attempts' = [attempts EXCEPT ![request[p].attempt] = outcome]
            /\ IF outcome = "completed"
               THEN Open(p, [NoRequest EXCEPT !.op = "run", !.pc = "verdict", !.outcome = "passed"])
               ELSE Done(p)
    BY <1>3 DEF FinishTest, CallOutcome
  <2>2. /\ \A q \in Person \ {p} : request'[q] = request[q]
        /\ request'[p].pc # "call"
    <3>1. [NoRequest EXCEPT !.op = "run", !.pc = "verdict", !.outcome = "passed"].pc = "verdict"
          /\ NoRequest.pc = "none"
      BY DEF NoRequest
    <3> DEFINE new == [NoRequest EXCEPT !.op = "run", !.pc = "verdict", !.outcome = "passed"]
    <3>2. Open(p, new) \/ Open(p, NoRequest)
      BY <2>1 DEF Done
    <3>3. new.pc # "call" /\ NoRequest.pc # "call"
      BY <3>1
    <3> HIDE DEF new
    <3> QED BY <1>t, <3>2, <3>3 DEF Open
  <2>3. \A n \in 1 .. Len(attempts) : n # request[p].attempt => attempts'[n] = attempts[n]
    BY <1>t, <2>1
  <2>4. request[p].pc = "call"
    BY <1>3 DEF FinishTest, CallOutcome, At
  <2> QED BY <1>t, <2>2, <2>3, <2>4 DEF CallsInv
<1>4. ASSUME NEW p \in Person,
             AskTest(p) \/ RefuseTest(p) \/ StoreVerdict(p) \/ AskRecord(p) \/ GatherDraft(p)
             \/ InsertDraft(p) \/ GatherFinal(p) \/ UpdateFinal(p)
      PROVE  CallsInv'
  <2>1. attempts' = attempts /\ \A q \in Person \ {p} : request'[q] = request[q]
    BY <1>t, <1>4 DEF AskTest, RefuseTest, StoreVerdict, AskRecord, GatherDraft, InsertDraft, GatherFinal,
                      UpdateFinal, Open, Done, testVars
  <2>2. request'[p].pc # "call"
    <3>1. CASE AskTest(p) \/ AskRecord(p)
      BY <1>t, <3>1 DEF AskTest, AskRecord, Open, NoRequest
    <3>2. CASE RefuseTest(p) \/ StoreVerdict(p) \/ InsertDraft(p) \/ UpdateFinal(p)
      BY <1>t, <3>2 DEF RefuseTest, StoreVerdict, InsertDraft, UpdateFinal, Open, Done, NoRequest
    <3>3. CASE GatherDraft(p) \/ GatherFinal(p)
      <4>1. \A r \in RequestType : \A i : [r EXCEPT !.pc = "insert", !.inputs = i].pc = "insert"
                                   /\ [r EXCEPT !.pc = "update", !.inputs = i].pc = "update"
        BY DEF RequestType
      <4>2. NoRequest.pc = "none" /\ request[p] \in RequestType
        BY <1>t DEF NoRequest
      <4>3. \/ request'[p] = NoRequest
            \/ request'[p] = [request[p] EXCEPT !.pc = "insert", !.inputs = Inputs(request[p].inputs)]
            \/ request'[p] = [request[p] EXCEPT !.pc = "update", !.inputs = NoInputs]
        BY <1>t, <3>3 DEF GatherDraft, GatherFinal, Open, Done
      <4> QED BY <4>1, <4>2, <4>3
    <3> QED BY <1>4, <3>1, <3>2, <3>3
  <2> QED BY <2>1, <2>2 DEF CallsInv
<1>5. CASE Crash
  BY <1>5 DEF Crash, CallsInv, NoRequest
<1>6. CASE UNCHANGED <<attempts, request>>
  BY <1>6 DEF CallsInv
<1> QED BY <1>1, <1>2, <1>3, <1>4, <1>5, <1>6
        DEF Next, PersonStep, vars, testVars, RecordApplied, ReconcileWrite, ReconcileTest, GrowsStale,
            GateChanges, MarkInterrupted

-----------------------------------------------------------------------------
(* What the records say of the test.                                       *)

LEMMA ReadbackStays ==
    ASSUME IInv, [Next]_vars
    PROVE  /\ readback => readback'
           /\ readback' => write' = "applied"
<1>1. CASE RecordApplied \/ ReconcileWrite
  BY <1>1 DEF RecordApplied, ReconcileWrite, IInv, ProofInv
<1>2. CASE UNCHANGED <<write, readback>>
  BY <1>2 DEF IInv, ProofInv
<1>3. ASSUME NEW p \in Person, PersonStep(p) PROVE UNCHANGED <<write, readback>>
  BY <1>3 DEF PersonStep, AskTest, BeginTest, RecordResult, RefuseTest, FinishTest, CallOutcome, StoreVerdict,
         AskRecord, GatherDraft, InsertDraft, GatherFinal, UpdateFinal
<1> QED BY <1>1, <1>2, <1>3
        DEF Next, vars, ReconcileTest, GrowsStale, GateChanges, MarkInterrupted, Crash

\* Where the inputs of a request come from.
LEMMA RequestTruth ==
    ASSUME IInv, [Next]_vars, NEW p \in Person
    PROVE  True(request[p].inputs)'
<1>t. request \in [Person -> RequestType] /\ request[p] \in RequestType /\ True(request[p].inputs)
  BY DEF IInv, TypeOK, RequestsOK, ProofInv
<1>k. ASSUME request'[p].inputs = request[p].inputs PROVE True(request[p].inputs)'
  <2>1. readback => readback'
    BY ReadbackStays
  <2>2. Answered => Answered'
    BY AnsweredStays DEF IInv
  <2> QED BY <1>t, <1>k, <2>1, <2>2 DEF True
<1>n. ASSUME ~request'[p].inputs.readback, request'[p].inputs.verification = "none"
      PROVE  True(request[p].inputs)'
  BY <1>n DEF True
<1>1. CASE Open(p, NoRequest) \/ Crash
  <2>1. request'[p] = NoRequest
    BY <1>1, <1>t DEF Open, Crash
  <2> QED BY <1>n, <2>1 DEF NoRequest, NoInputs
<1>2. CASE BeginTest(p)
  BY <1>t, <1>k, <1>2 DEF BeginTest, Open, RequestType
<1>3. CASE RecordResult(p)
  BY <1>t, <1>k, <1>3 DEF RecordResult, Open, RequestType
<1>4. CASE FinishTest(p) \/ AskTest(p)
  <2>1. request'[p].inputs = NoInputs
    <3>1. NoRequest.inputs = NoInputs
      BY DEF NoRequest
    <3>2. \A op \in {"run", "result"} : [NoRequest EXCEPT !.op = op, !.pc = "begin"].inputs = NoInputs
      BY DEF NoRequest
    <3>3. [NoRequest EXCEPT !.op = "run", !.pc = "verdict", !.outcome = "passed"].inputs = NoInputs
      BY DEF NoRequest
    <3>4. \/ request'[p] = NoRequest
          \/ \E op \in {"run", "result"} : request'[p] = [NoRequest EXCEPT !.op = op, !.pc = "begin"]
          \/ request'[p] = [NoRequest EXCEPT !.op = "run", !.pc = "verdict", !.outcome = "passed"]
      BY <1>t, <1>4 DEF FinishTest, CallOutcome, AskTest, Open, Done
    <3> QED BY <3>1, <3>2, <3>3, <3>4
  <2> QED BY <1>n, <2>1 DEF NoInputs
<1>5. CASE AskRecord(p)
  <2>1. request'[p].inputs = [NoInputs EXCEPT !.write = write, !.test = EffectiveState]
    BY <1>t, <1>5 DEF AskRecord, Open, NoRequest
  <2> QED BY <1>n, <2>1 DEF NoInputs
<1>6. CASE GatherDraft(p)
  <2>1. request'[p].inputs = Inputs(request[p].inputs)
    BY <1>t, <1>6 DEF GatherDraft, Open, RequestType
  <2>2. Inputs(request[p].inputs).readback = readback /\ Inputs(request[p].inputs).verification = verification
    BY <1>t DEF Inputs, RequestType, InputsType
  <2>3. readback' = readback /\ attempts' = attempts /\ (verification = "passed" => Answered)
    BY <1>6 DEF GatherDraft, testVars, IInv, ProofInv
  <2> QED BY <2>1, <2>2, <2>3 DEF True, Answered
<1>7. CASE GatherFinal(p)
  <2>1. request'[p] = NoRequest \/ request'[p].inputs = NoInputs
    BY <1>t, <1>7 DEF GatherFinal, Open, Done, RequestType
  <2> QED BY <1>n, <2>1 DEF NoRequest, NoInputs
<1>8. CASE request'[p] = request[p]
  BY <1>k, <1>8
<1>9. ASSUME NEW q \in Person, PersonStep(q), q # p PROVE request'[p] = request[p]
  BY <1>t, <1>9 DEF PersonStep, AskTest, BeginTest, RecordResult, RefuseTest, FinishTest, CallOutcome, StoreVerdict,
         AskRecord, GatherDraft, InsertDraft, GatherFinal, UpdateFinal, Open, Done
<1>10. CASE PersonStep(p)
  BY <1>1, <1>2, <1>3, <1>4, <1>5, <1>6, <1>7, <1>10
     DEF PersonStep, RefuseTest, StoreVerdict, InsertDraft, UpdateFinal, Done
<1> QED BY <1>1, <1>8, <1>9, <1>10
        DEF Next, vars, RecordApplied, ReconcileWrite, ReconcileTest, GrowsStale, GateChanges, MarkInterrupted

\* What a step may do to a version: only a draft changes its status, and it
\* keeps what it was generated from or loses it.
LEMMA VersionStep ==
    ASSUME TypeOK, [Next]_vars, NEW v \in DOMAIN version
    PROVE  /\ v \in DOMAIN version'
           /\ \/ version'[v] = version[v]
              \/ version[v].status = "draft" /\ version'[v].status = "superseded" /\ version'[v].inputs = NoInputs
              \/ /\ version[v].status = "draft" /\ version'[v].status = "final"
                 /\ version'[v].inputs = version[v].inputs
                 /\ \E p \in Person : UpdateFinal(p) /\ request[p].version = v
<1>t. version \in Seq(VersionType) /\ version[v] \in VersionType
  BY DEF TypeOK
<1>1. ASSUME NEW p \in Person, InsertDraft(p)
      PROVE  v \in DOMAIN version' /\ version'[v] = Superseded(version[v])
  <2> DEFINE old == [n \in DOMAIN version |-> Superseded(version[n])]
  <2>1. old \in Seq(VersionType) /\ Len(old) = Len(version)
    BY <1>t, NothingAsked DEF Superseded, VersionType
  <2>2. [status |-> "draft", inputs |-> request[p].inputs] \in VersionType
    BY DEF TypeOK, RequestsOK, RequestType, VersionType
  <2> QED BY <1>t, <1>1, <2>1, <2>2 DEF InsertDraft
<1>2. ASSUME NEW p \in Person, UpdateFinal(p)
      PROVE  /\ v \in DOMAIN version'
             /\ version'[v] = IF v = request[p].version THEN FinalisedDraft(version[v]) ELSE version[v]
  BY <1>t, <1>2 DEF UpdateFinal
<1>3. UNCHANGED version \/ \E p \in Person : InsertDraft(p) \/ UpdateFinal(p)
  BY DEF Next, PersonStep, vars, testVars, RecordApplied, ReconcileWrite, ReconcileTest, GrowsStale,
         GateChanges, MarkInterrupted, Crash, AskTest, BeginTest, RecordResult, RefuseTest, FinishTest, CallOutcome,
         StoreVerdict, AskRecord, GatherDraft, GatherFinal
<1>4. \/ /\ FinalisedDraft(version[v]).status = "final"
         /\ FinalisedDraft(version[v]).inputs = version[v].inputs
      \/ version[v].status # "draft" /\ FinalisedDraft(version[v]) = version[v]
  <2>1. \A w \in VersionType : /\ [w EXCEPT !.status = "final"].status = "final"
                              /\ [w EXCEPT !.status = "final"].inputs = w.inputs
    BY DEF VersionType
  <2>2. CASE version[v].status = "draft"
    <3>1. FinalisedDraft(version[v]) = [version[v] EXCEPT !.status = "final"]
      BY <2>2 DEF FinalisedDraft
    <3> QED BY <1>t, <2>1, <3>1
  <2>3. CASE version[v].status # "draft"
    BY <2>3 DEF FinalisedDraft
  <2> QED BY <2>2, <2>3
<1>5. ASSUME NEW p \in Person, InsertDraft(p)
      PROVE  \/ version'[v] = version[v]
             \/ version[v].status = "draft" /\ version'[v].status = "superseded" /\ version'[v].inputs = NoInputs
  BY <1>1, <1>5 DEF Superseded
<1>6. ASSUME NEW p \in Person, UpdateFinal(p)
      PROVE  \/ version'[v] = version[v]
             \/ /\ version[v].status = "draft" /\ version'[v].status = "final"
                /\ version'[v].inputs = version[v].inputs /\ request[p].version = v
  BY <1>2, <1>4, <1>6 DEF FinalisedDraft
<1> QED BY <1>1, <1>2, <1>3, <1>5, <1>6

\* A new version is a draft with the inputs of a request.
LEMMA NewVersion ==
    ASSUME TypeOK, [Next]_vars, NEW v \in DOMAIN version', v \notin DOMAIN version
    PROVE  /\ v = Len(version') /\ v = Len(version) + 1 /\ version'[v].status = "draft"
           /\ \E p \in Person : InsertDraft(p) /\ version'[v].inputs = request[p].inputs
<1>t. version \in Seq(VersionType)
  BY DEF TypeOK
<1>1. UNCHANGED version \/ (\E p \in Person : InsertDraft(p)) \/ \E p \in Person : UpdateFinal(p)
  BY DEF Next, PersonStep, vars, testVars, RecordApplied, ReconcileWrite, ReconcileTest, GrowsStale,
         GateChanges, MarkInterrupted, Crash, AskTest, BeginTest, RecordResult, RefuseTest, FinishTest, CallOutcome,
         StoreVerdict, AskRecord, GatherDraft, GatherFinal
<1>2. ASSUME NEW p \in Person, UpdateFinal(p) PROVE DOMAIN version' = DOMAIN version
  BY <1>2 DEF UpdateFinal
<1>3. PICK p \in Person : InsertDraft(p)
  BY <1>1, <1>2
<1> DEFINE old == [n \in DOMAIN version |-> Superseded(version[n])]
           new == [status |-> "draft", inputs |-> request[p].inputs]
<1>4. old \in Seq(VersionType) /\ Len(old) = Len(version) /\ version' = Append(old, new)
  BY <1>t, <1>3, NothingAsked DEF InsertDraft, Superseded, VersionType
<1>5. new.status = "draft" /\ new.inputs = request[p].inputs
  OBVIOUS
<1> HIDE DEF old, new
<1>6. Len(version') = Len(version) + 1 /\ v = Len(version) + 1 /\ version'[v] = new
  BY <1>t, <1>4
<1> QED BY <1>3, <1>5, <1>6

LEMMA ProofStep == ASSUME IInv, [Next]_vars PROVE ProofInv'
<1>t. TypeOK /\ CallsInv /\ ProofInv /\ request \in [Person -> RequestType]
  BY DEF IInv, TypeOK, RequestsOK
<1>a. Answered => Answered'
  BY <1>t, AnsweredStays
<1>b. (readback => readback') /\ (readback' => write' = "applied")
  BY ReadbackStays
<1>1. ASSUME NEW p \in Person, request'[p].pc = "verdict", request'[p].outcome = "passed"
      PROVE  Answered'
  <2>1. CASE request'[p] = request[p]
    BY <1>t, <1>a, <1>1, <2>1 DEF ProofInv
  <2>2. CASE RecordResult(p)
    <3>1. PICK outcome \in {"passed", "failed"} :
              attempts' = Append(attempts, outcome)
              /\ Open(p, [request[p] EXCEPT !.pc = "verdict", !.outcome = outcome])
      BY <2>2 DEF RecordResult
    <3>2. outcome = "passed" /\ attempts \in Seq(Outcome) /\ outcome \in Outcome
      BY <1>t, <1>1, <3>1 DEF Open, RequestType, TypeOK, TestOK, Outcome
    <3>3. Len(attempts') \in DOMAIN attempts' /\ attempts'[Len(attempts')] = "passed"
      BY <3>1, <3>2
    <3> QED BY <3>3 DEF Answered
  <2>3. CASE FinishTest(p)
    <3>1. PICK outcome \in CallOutcome :
              /\ attempts' = [attempts EXCEPT ![request[p].attempt] = outcome]
              /\ outcome # "completed" => Done(p)
      BY <2>3 DEF FinishTest, CallOutcome
    <3>2. outcome = "completed"
      BY <1>t, <1>1, <3>1 DEF Done, Open, NoRequest
    <3>3. request[p].attempt \in DOMAIN attempts /\ attempts \in Seq(Outcome) /\ outcome \in Outcome
      BY <1>t, <2>3, <3>2 DEF FinishTest, CallOutcome, At, TypeOK, TestOK, RequestsOK, Outcome
    <3>4. request[p].attempt \in DOMAIN attempts' /\ attempts'[request[p].attempt] = "completed"
      BY <3>1, <3>2, <3>3, ExceptSeq
    <3> QED BY <3>4 DEF Answered
  <2>4. \/ request'[p] = request[p] \/ RecordResult(p) \/ FinishTest(p) \/ request'[p].pc # "verdict"
    <3>1. ASSUME NEW q \in Person, PersonStep(q), q # p PROVE request'[p] = request[p]
      BY <1>t, <3>1 DEF PersonStep, AskTest, BeginTest, RecordResult, RefuseTest, FinishTest, CallOutcome,
        StoreVerdict,
             AskRecord, GatherDraft, InsertDraft, GatherFinal, UpdateFinal, Open, Done
    <3>2. CASE Crash
      BY <3>2 DEF Crash, NoRequest
    <3>3. CASE RefuseTest(p) \/ StoreVerdict(p) \/ InsertDraft(p) \/ UpdateFinal(p)
      BY <1>t, <3>3 DEF RefuseTest, StoreVerdict, InsertDraft, UpdateFinal, Open, Done, NoRequest
    <3>4. CASE AskTest(p) \/ AskRecord(p)
      BY <1>t, <3>4 DEF AskTest, AskRecord, Open, NoRequest
    <3>5. CASE BeginTest(p)
      BY <1>t, <3>5 DEF BeginTest, Open, RequestType
    <3>6. CASE GatherDraft(p) \/ GatherFinal(p)
      <4>1. \A r \in RequestType : \A i : [r EXCEPT !.pc = "insert", !.inputs = i].pc = "insert"
                                   /\ [r EXCEPT !.pc = "update", !.inputs = i].pc = "update"
        BY DEF RequestType
      <4>2. NoRequest.pc = "none" /\ request[p] \in RequestType
        BY <1>t DEF NoRequest
      <4>3. \/ request'[p] = NoRequest
            \/ request'[p] = [request[p] EXCEPT !.pc = "insert", !.inputs = Inputs(request[p].inputs)]
            \/ request'[p] = [request[p] EXCEPT !.pc = "update", !.inputs = NoInputs]
        BY <1>t, <3>6 DEF GatherDraft, GatherFinal, Open, Done
      <4> QED BY <4>1, <4>2, <4>3
    <3>7. CASE UNCHANGED request
      BY <3>7
    <3> QED BY <3>1, <3>2, <3>3, <3>4, <3>5, <3>6, <3>7
            DEF Next, PersonStep, vars, RecordApplied, ReconcileWrite, ReconcileTest, GrowsStale,
                GateChanges, MarkInterrupted
  <2> QED BY <1>1, <2>1, <2>2, <2>3, <2>4
<1>2. verification' = "passed" => Answered'
  <2>1. ASSUME NEW p \in Person, StoreVerdict(p), verification' = "passed" PROVE Answered'
    BY <1>t, <1>a, <2>1 DEF StoreVerdict, At, ProofInv
  <2>2. UNCHANGED verification \/ \E p \in Person : StoreVerdict(p)
    BY DEF Next, PersonStep, vars, testVars, RecordApplied, ReconcileWrite, ReconcileTest, GrowsStale,
           GateChanges, MarkInterrupted, Crash, AskTest, BeginTest, RecordResult, RefuseTest, FinishTest, CallOutcome,
           AskRecord, GatherDraft, InsertDraft, GatherFinal, UpdateFinal
  <2> QED BY <1>t, <1>a, <2>1, <2>2 DEF ProofInv
<1>3. ASSUME NEW v \in DOMAIN version' PROVE True(version[v].inputs)'
  <2>1. CASE v \in DOMAIN version
    <3>1. version'[v].inputs \in {version[v].inputs, NoInputs}
      BY <1>t, <2>1, VersionStep
    <3>2. True(version[v].inputs)
      BY <1>t, <2>1 DEF ProofInv
    <3> QED BY <1>a, <1>b, <3>1, <3>2 DEF True, NoInputs
  <2>2. CASE v \notin DOMAIN version
    <3>1. PICK p \in Person : InsertDraft(p) /\ version'[v].inputs = request[p].inputs
      BY <1>t, <1>3, <2>2, NewVersion
    <3>2. True(request[p].inputs)
      BY <1>t DEF ProofInv
    <3> QED BY <1>a, <1>b, <3>1, <3>2 DEF True
  <2> QED BY <2>1, <2>2
<1> QED BY <1>1, <1>2, <1>3, <1>b, RequestTruth DEF ProofInv

LEMMA RecordStep == ASSUME IInv, [Next]_vars PROVE RecordInv'
<1>t. TypeOK /\ RecordInv /\ request \in [Person -> RequestType] /\ version \in Seq(VersionType)
  BY DEF IInv, TypeOK, RequestsOK
<1>1. ASSUME NEW v \in DOMAIN version', version'[v].status = "draft" PROVE v = Len(version')
  <2>1. CASE v \notin DOMAIN version
    BY <1>t, <1>1, <2>1, NewVersion
  <2>2. CASE v \in DOMAIN version
    <3>1. version[v].status = "draft" /\ v = Len(version)
      BY <1>t, <1>1, <2>2, VersionStep DEF RecordInv
    <3>2. ASSUME Len(version) + 1 \in DOMAIN version' PROVE FALSE
      <4>1. Len(version) + 1 \notin DOMAIN version
        BY <1>t
      <4>2. PICK p \in Person : InsertDraft(p)
        BY <1>t, <3>2, <4>1, NewVersion
      <4>3. version'[v] = Superseded(version[v])
        <5> DEFINE old == [n \in DOMAIN version |-> Superseded(version[n])]
        <5>1. old \in Seq(VersionType) /\ Len(old) = Len(version)
          BY <1>t, NothingAsked DEF Superseded, VersionType
        <5> QED BY <2>2, <4>2, <5>1, <1>t DEF InsertDraft
      <4>4. Superseded(version[v]).status = "superseded"
        BY <3>1 DEF Superseded
      <4> QED BY <1>1, <4>3, <4>4
    <3>3. version' \in Seq(VersionType) /\ DOMAIN version \subseteq DOMAIN version'
      BY <1>t, TypeStep, VersionStep DEF TypeOK
    <3> QED BY <1>t, <3>1, <3>2, <3>3
  <2> QED BY <2>1, <2>2
<1>2. ASSUME NEW v \in DOMAIN version', version'[v].status = "final" PROVE Complete(version[v].inputs)'
  <2>1. v \in DOMAIN version
    BY <1>t, <1>2, NewVersion
  <2>2. Complete(version[v].inputs)
    <3>1. CASE version[v].status = "final"
      BY <1>t, <2>1, <3>1 DEF RecordInv
    <3>2. CASE version[v].status # "final"
      BY <1>t, <1>2, <2>1, <3>2, VersionStep DEF RecordInv, UpdateFinal, At
    <3> QED BY <3>1, <3>2
  <2>3. version'[v].inputs = version[v].inputs
    BY <1>t, <1>2, <2>1, VersionStep
  <2> QED BY <2>2, <2>3 DEF Complete
<1>3. ASSUME NEW p \in Person, request'[p].pc = "update"
      PROVE  /\ request'[p].op = "finalise"
             /\ version'[request'[p].version].status = "draft" =>
                   Complete(version[request[p].version].inputs)'
  <2>1. CASE request'[p] = request[p]
    <3>1. request[p].op = "finalise" /\ request[p].version \in DOMAIN version
      BY <1>t, <1>3, <2>1 DEF TypeOK, RequestsOK, RecordInv
    <3>2. ASSUME version'[request[p].version].status = "draft"
          PROVE  /\ version'[request[p].version] = version[request[p].version]
                 /\ Complete(version[request[p].version].inputs)
      BY <1>t, <1>3, <2>1, <3>1, <3>2, VersionStep DEF RecordInv
    <3> QED BY <2>1, <3>1, <3>2 DEF Complete
  <2>2. CASE GatherFinal(p) /\ request'[p] # NoRequest
    <3>1. /\ request'[p] = [request[p] EXCEPT !.pc = "update", !.inputs = NoInputs]
          /\ Complete(version[request[p].version].inputs)
          /\ version' = version /\ request[p].op = "finalise"
      BY <1>t, <2>2 DEF GatherFinal, Open, Done
    <3>2. request'[p].version = request[p].version /\ request'[p].op = request[p].op
      <4>1. request[p] \in RequestType
        BY <1>t
      <4> QED BY <3>1, <4>1 DEF RequestType
    <3> QED BY <3>1, <3>2 DEF Complete
  <2>3. \/ request'[p] = request[p]
        \/ GatherFinal(p) /\ request'[p] # NoRequest
        \/ request'[p].pc # "update"
    <3>0. NoRequest.pc = "none"
      BY DEF NoRequest
    <3>1. ASSUME NEW q \in Person, PersonStep(q), q # p PROVE request'[p] = request[p]
      BY <1>t, <3>1 DEF PersonStep, AskTest, BeginTest, RecordResult, RefuseTest, FinishTest, CallOutcome,
        StoreVerdict,
             AskRecord, GatherDraft, InsertDraft, GatherFinal, UpdateFinal, Open, Done
    <3>2. CASE Crash
      BY <3>2 DEF Crash, NoRequest
    <3>3. CASE RefuseTest(p) \/ StoreVerdict(p) \/ InsertDraft(p) \/ UpdateFinal(p)
      BY <1>t, <3>3 DEF RefuseTest, StoreVerdict, InsertDraft, UpdateFinal, Open, Done, NoRequest
    <3>4. CASE AskTest(p) \/ AskRecord(p)
      BY <1>t, <3>4 DEF AskTest, AskRecord, Open, NoRequest
    <3>5. CASE BeginTest(p) \/ RecordResult(p)
      BY <1>t, <3>5 DEF BeginTest, RecordResult, Open, RequestType
    <3>6. CASE FinishTest(p)
      <4>1. [NoRequest EXCEPT !.op = "run", !.pc = "verdict", !.outcome = "passed"].pc = "verdict"
        BY DEF NoRequest
      <4>2. \/ request'[p] = NoRequest
            \/ request'[p] = [NoRequest EXCEPT !.op = "run", !.pc = "verdict", !.outcome = "passed"]
        BY <1>t, <3>6 DEF FinishTest, CallOutcome, Open, Done
      <4> QED BY <3>0, <4>1, <4>2
    <3>7. CASE GatherDraft(p)
      <4>1. \A r \in RequestType : \A i : [r EXCEPT !.pc = "insert", !.inputs = i].pc = "insert"
        BY DEF RequestType
      <4>2. request'[p] = [request[p] EXCEPT !.pc = "insert", !.inputs = Inputs(request[p].inputs)]
        BY <1>t, <3>7 DEF GatherDraft, Open
      <4> QED BY <1>t, <4>1, <4>2
    <3>8. CASE GatherFinal(p)
      BY <3>0, <3>8
    <3>9. CASE UNCHANGED request
      BY <3>9
    <3>10. CASE PersonStep(p)
      BY <3>3, <3>4, <3>5, <3>6, <3>7, <3>8, <3>10 DEF PersonStep
    <3>11. Crash \/ UNCHANGED request \/ \E q \in Person : PersonStep(q)
      BY DEF Next, vars, RecordApplied, ReconcileWrite, ReconcileTest, GrowsStale, GateChanges,
             MarkInterrupted
    <3> QED BY <3>1, <3>2, <3>9, <3>10, <3>11
  <2> QED BY <1>3, <2>1, <2>2, <2>3
<1>4. \A p \in Person : request'[p].pc = "update" =>
          /\ request'[p].op = "finalise"
          /\ version'[request'[p].version].status = "draft" =>
                Complete(version[request[p].version].inputs)'
  BY <1>3
<1> QED BY <1>1, <1>2, <1>4 DEF RecordInv

-----------------------------------------------------------------------------

LEMMA InvStep == ASSUME IInv, [Next]_vars PROVE IInv'
<1>1. TypeOK' /\ ReadyIsAccounted' /\ CallsInv'
  BY TypeStep, ReadyStep, CallsStep DEF IInv
<1> QED BY <1>1, ProofStep, RecordStep DEF IInv

LEMMA Invariance == Spec => []IInv
<1>1. Init => IInv
  BY InvInit
<1>2. IInv /\ [Next]_vars => IInv'
  BY InvStep
<1> QED BY <1>1, <1>2, PTL DEF Spec

\* Every state, attempt, verdict, version and request keeps its shape, and an open
\* request names an attempt or a version that exists (execution.py, asbuilt.py).
THEOREM TypeCorrect == Spec => []TypeOK
<1>1. IInv => TypeOK
  BY DEF IInv
<1> QED BY <1>1, Invariance, PTL

\* The test is ready only when its newest attempt provably never left or a person
\* attested that it did not run, whatever answers come late and whatever restarts
\* there are (execution.finish, reconcile_test, mark_interrupted_unknown).
THEOREM ReadyAccounted == Spec => []ReadyIsAccounted
<1>1. IInv => ReadyIsAccounted
  BY DEF IInv
<1> QED BY <1>1, Invariance, PTL

\* A final as-built record rests on an applied change with its value on record and
\* on a test that ran and passed, however long before it was read (asbuilt.py).
THEOREM FinalRestsOnTest == Spec => []FinalWasTested
<1>1. ASSUME IInv PROVE FinalWasTested
  <2>1. SUFFICES ASSUME NEW v \in DOMAIN version, version[v].status = "final"
                 PROVE  write = "applied" /\ readback /\ Answered
    BY DEF FinalWasTested, Answered
  <2>2. Complete(version[v].inputs) /\ True(version[v].inputs)
    BY <1>1, <2>1 DEF IInv, RecordInv, ProofInv
  <2>3. readback => write = "applied"
    BY <1>1 DEF IInv, ProofInv
  <2> QED BY <2>2, <2>3 DEF Complete, True
<1> QED BY <1>1, Invariance, PTL

\* A test is begun or recorded only while the change is applied, its approval
\* stands and writes are not paused (execution.begin, execution.record).
THEOREM BegunWhenApplied == Spec => TestedWhenApplied
<1>1. ASSUME IInv, [Next]_vars, Len(attempts') > Len(attempts)
      PROVE  write = "applied" /\ stands /\ ~paused /\ test = "ready"
  <2>1. attempts \in Seq(Outcome)
    BY <1>1 DEF IInv, TypeOK, TestOK
  <2>2. ASSUME NEW p \in Person, FinishTest(p) PROVE Len(attempts') = Len(attempts)
    <3>1. PICK outcome \in CallOutcome :
              attempts' = [attempts EXCEPT ![request[p].attempt] = outcome]
      BY <2>2 DEF FinishTest, CallOutcome
    <3>2. outcome \in Outcome /\ request[p].attempt \in DOMAIN attempts
      BY <1>1, <2>2 DEF Outcome, FinishTest, CallOutcome, At, IInv, TypeOK, RequestsOK
    <3> QED BY <2>1, <3>1, <3>2, ExceptSeq
  <2>3. \E p \in Person : BeginTest(p) \/ RecordResult(p) \/ FinishTest(p)
    <3>1. UNCHANGED attempts \/ \E p \in Person : BeginTest(p) \/ RecordResult(p) \/ FinishTest(p)
      BY <1>1 DEF Next, PersonStep, vars, testVars, RecordApplied, ReconcileWrite, ReconcileTest,
           GrowsStale, GateChanges, MarkInterrupted, Crash, AskTest, RefuseTest, StoreVerdict, AskRecord,
           GatherDraft, InsertDraft, GatherFinal, UpdateFinal
    <3>2. Len(attempts) \in Nat
      BY <2>1
    <3> QED BY <1>1, <3>1, <3>2
  <2>4. PICK p \in Person : BeginTest(p) \/ RecordResult(p)
    BY <1>1, <2>1, <2>2, <2>3
  <2> QED BY <2>4 DEF BeginTest, RecordResult, MayBegin, CoversTest, EffectiveState
<1> QED BY <1>1, Invariance, PTL DEF Spec, TestedWhenApplied

\* Only the newest draft becomes final and a final version never changes again,
\* however generate and finalise of several people interleave (asbuilt.py).
THEOREM NewestBecomesFinal == Spec => FinalIsNewestDraft
<1>1. IInv /\ [Next]_vars =>
        \A v \in DOMAIN version :
            /\ version'[v].status = "final" /\ version[v].status # "final" => v = Len(version)
            /\ version[v].status = "final" => version'[v] = version[v]
  BY VersionStep DEF IInv, RecordInv
<1> QED BY <1>1, Invariance, PTL DEF Spec, FinalIsNewestDraft
=============================================================================
