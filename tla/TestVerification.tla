-------------------------- MODULE TestVerification --------------------------
(***************************************************************************)
(* The test of one applied change and the as-built record of its story     *)
(* (execution.py, delivery/functional.py, process/asbuilt.py).  A person   *)
(* runs the approved test orchestration live, or records a test result;    *)
(* the verdict is stored in a transaction of its own.  A person generates  *)
(* an as-built draft and finalises it.                                     *)
(*                                                                         *)
(* A request is cut wherever the code leaves a transaction.  A restart     *)
(* loses every open request.  How the change was applied is the subject of *)
(* ChangeSetDelivery, who may approve of ApprovalGate: here one Boolean.   *)
(***************************************************************************)
EXTENDS Integers, Sequences, FiniteSets

CONSTANTS
    Person,         \* people with an open screen
    MaxAttempts,    \* bound: test attempts
    MaxVersions,    \* bound: versions of the as-built record
    MaxOutside      \* bound: gate changes and restarts

ASSUME TestBounds == MaxAttempts \in Nat /\ MaxVersions \in Nat /\ MaxOutside \in Nat

VARIABLES
    write,          \* execution state of the write
    readback,       \* the applied value is recorded with the write
    test,           \* execution state of the test, as stored
    stale,          \* the attempt in progress is older than fifteen minutes
    attempts,       \* test attempts, oldest first
    verification,   \* the stored verdict
    attested,       \* the attempt up to which a person attested that none ran
    stands,         \* approval, authority, scope and binding still hold
    paused,         \* the write-pause file exists
    version,        \* versions of the as-built record, oldest first
    request,        \* open requests
    outside

testVars == <<test, stale, attempts, attested>>
gateVars == <<stands, paused>>
vars == <<write, readback, testVars, verification, gateVars, version, request, outside>>

NoInputs == [write |-> "ready", test |-> "ready", readback |-> FALSE, attempts |-> << >>,
             verification |-> "none"]
NoRequest == [op |-> "none", pc |-> "none", attempt |-> 0, outcome |-> "none",
              inputs |-> NoInputs, version |-> 0]

Init ==
    /\ write \in {"ready", "unknown"}
    /\ readback = FALSE
    /\ test = "ready" /\ stale = FALSE
    /\ attempts = << >>
    /\ verification = "none"
    /\ attested = 0
    /\ stands = TRUE /\ paused = FALSE
    /\ version = << >>
    /\ request = [p \in Person |-> NoRequest]
    /\ outside = 0

Idle(p) == request[p] = NoRequest
At(p, pc) == request[p].pc = pc
Open(p, new) == request' = [request EXCEPT ![p] = new]
Done(p) == Open(p, NoRequest)

EffectiveState == IF test = "in_progress" /\ stale THEN "unknown" ELSE test

(***************************************************************************)
(* The write                                                               *)
(***************************************************************************)

\* The last item is recorded, or the only value: one locked transaction.
RecordApplied ==
    /\ write = "ready"
    /\ stands /\ ~paused
    /\ write' = "applied" /\ readback' = TRUE
    /\ UNCHANGED <<testVars, verification, gateVars, version, request, outside>>

\* An old write of unknown outcome is settled by the value found in JDE.
ReconcileWrite ==
    /\ write = "unknown"
    /\ write' \in {"applied", "ready", "diverged"}
    /\ UNCHANGED <<readback, testVars, verification, gateVars, version, request, outside>>

(***************************************************************************)
(* The test                                                                *)
(***************************************************************************)

\* require_change_covers_test.
CoversTest == stands /\ write = "applied" /\ EffectiveState = "ready"

\* run_test and record_test_result check, then ...
AskTest(p) ==
    /\ Idle(p)
    /\ CoversTest
    /\ \E op \in {"run", "result"} :
          Open(p, [NoRequest EXCEPT !.op = op, !.pc = "begin"])
    /\ UNCHANGED <<write, readback, testVars, verification, gateVars, version, outside>>

\* ... check again in the lock.
MayBegin == ~paused /\ CoversTest

NewAttempt == Len(attempts) + 1

\* execution.begin: the attempt is stored before the request is sent.
BeginTest(p) ==
    /\ request[p].op = "run" /\ At(p, "begin")
    /\ MayBegin /\ Len(attempts) < MaxAttempts
    /\ attempts' = Append(attempts, "none")
    /\ test' = "in_progress" /\ stale' = FALSE
    /\ Open(p, [request[p] EXCEPT !.pc = "call", !.attempt = NewAttempt])
    /\ UNCHANGED <<write, readback, attested, verification, gateVars, version, outside>>

\* execution.record: a person's result is one completed attempt.
RecordResult(p) ==
    /\ request[p].op = "result" /\ At(p, "begin")
    /\ MayBegin /\ Len(attempts) < MaxAttempts
    /\ \E outcome \in {"passed", "failed"} :
          /\ attempts' = Append(attempts, outcome)
          /\ Open(p, [request[p] EXCEPT !.pc = "verdict", !.outcome = outcome])
    /\ test' = "completed" /\ stale' = FALSE
    /\ UNCHANGED <<write, readback, attested, verification, gateVars, version, outside>>

RefuseTest(p) ==
    /\ At(p, "begin")
    /\ ~MayBegin
    /\ Done(p)
    /\ UNCHANGED <<write, readback, testVars, verification, gateVars, version, outside>>

\* Broken variant: every answer counts as the newest attempt's.
IsCurrentAlways(n) == TRUE

\* The attempt is the newest one and nobody settled it.
IsCurrent(n) == test = "in_progress" /\ n = Len(attempts)

OutcomeState(outcome) == CASE outcome = "completed" -> "completed"
                           [] outcome = "not_sent" -> "ready"
                           [] outcome = "unknown" -> "unknown"

\* The orchestration was not sent, answered, or nobody knows
\* (live.run_orchestration).
CallOutcome == {"not_sent", "unknown", "completed"}

\* The call and what becomes of the attempt.  execution.finish: an answer that comes too late
\* leaves the state unknown.
FinishTest(p) ==
    LET n == request[p].attempt IN
    /\ At(p, "call")
    /\ \E outcome \in CallOutcome :
          /\ attempts' = [attempts EXCEPT ![n] = outcome]
          /\ test' = IF IsCurrent(n) THEN OutcomeState(outcome) ELSE "unknown"
          /\ IF outcome = "completed"
             THEN Open(p, [NoRequest EXCEPT !.op = "run", !.pc = "verdict", !.outcome = "passed"])
             ELSE Done(p)
    /\ stale' = FALSE
    /\ UNCHANGED <<write, readback, attested, verification, gateVars, version, outside>>

\* _verification.
StoreVerdict(p) ==
    /\ At(p, "verdict")
    /\ verification' = request[p].outcome
    /\ Done(p)
    /\ UNCHANGED <<write, readback, testVars, gateVars, version, outside>>

MayReconcile == EffectiveState = "unknown"

\* reconcile_test: a person who checked JDE attests whether the test ran.
ReconcileTest ==
    /\ MayReconcile
    /\ \/ test' = "completed" /\ attested' = attested
       \/ test' = "ready" /\ attested' = Len(attempts)
    /\ stale' = FALSE
    /\ UNCHANGED <<write, readback, attempts, verification, gateVars, version, request, outside>>

(***************************************************************************)
(* The as-built record                                                     *)
(***************************************************************************)

\* What the record is generated from: the change as it was assembled, and the
\* record of the change as it is read afterwards.
Inputs(read) == [read EXCEPT !.readback = readback, !.verification = verification,
                             !.attempts = attempts]

\* Broken variant: a test without a verdict counts as passed.
CompleteWithoutVerdict(inputs) ==
    /\ inputs.write = "applied" /\ inputs.readback
    /\ inputs.test = "completed" /\ inputs.verification # "failed"

\* The delivery checkpoints.
Complete(inputs) ==
    /\ inputs.write = "applied" /\ inputs.readback
    /\ inputs.test = "completed" /\ inputs.verification = "passed"

\* Both requests assemble the change first.
AskRecord(p) ==
    /\ Idle(p)
    /\ \E op \in {"generate", "finalise"}, v \in 0 .. Len(version) :
          /\ (op = "finalise") <=> (v > 0)
          /\ Open(p, [NoRequest EXCEPT !.op = op, !.pc = "gather", !.version = v,
                  !.inputs = [NoInputs EXCEPT !.write = write, !.test = EffectiveState]])
    /\ UNCHANGED <<write, readback, testVars, verification, gateVars, version, outside>>

\* generate: a new draft supersedes the draft before it.  What it read is
\* frozen when it gathers, but the order of versions is that of the inserts.
GatherDraft(p) ==
    /\ request[p].op = "generate" /\ At(p, "gather")
    /\ Open(p, [request[p] EXCEPT !.pc = "insert", !.inputs = Inputs(request[p].inputs)])
    /\ UNCHANGED <<write, readback, testVars, verification, gateVars, version, outside>>

\* What a superseded draft was generated from is not read again.
Superseded(v) ==
    IF v.status = "draft" THEN [status |-> "superseded", inputs |-> NoInputs] ELSE v

InsertDraft(p) ==
    /\ request[p].op = "generate" /\ At(p, "insert")
    /\ Len(version) < MaxVersions
    /\ version' = Append([n \in DOMAIN version |-> Superseded(version[n])],
                         [status |-> "draft", inputs |-> request[p].inputs])
    /\ Done(p)
    /\ UNCHANGED <<write, readback, testVars, verification, gateVars, outside>>

\* finalise: the draft is complete and nothing changed since, or ...
GatherFinal(p) ==
    LET v == version[request[p].version] IN
    /\ request[p].op = "finalise" /\ At(p, "gather")
    /\ IF v.status = "draft" /\ v.inputs = Inputs(request[p].inputs) /\ Complete(v.inputs)
       THEN Open(p, [request[p] EXCEPT !.pc = "update", !.inputs = NoInputs])
       ELSE Done(p)
    /\ UNCHANGED <<write, readback, testVars, verification, gateVars, version, outside>>

\* Broken variant: the row is updated whatever became of it.
Finalised(v) == [v EXCEPT !.status = "final"]

\* ... and still a draft when the row is updated.
FinalisedDraft(v) == IF v.status = "draft" THEN [v EXCEPT !.status = "final"] ELSE v

UpdateFinal(p) ==
    /\ request[p].op = "finalise" /\ At(p, "update")
    /\ version' = [version EXCEPT ![request[p].version] = FinalisedDraft(@)]
    /\ Done(p)
    /\ UNCHANGED <<write, readback, testVars, verification, gateVars, outside>>

(***************************************************************************)
(* The surroundings                                                        *)
(***************************************************************************)
GrowsStale ==
    /\ test = "in_progress" /\ ~stale
    /\ stale' = TRUE
    /\ UNCHANGED <<write, readback, test, attempts, attested, verification, gateVars, version,
                   request, outside>>

Outside == outside < MaxOutside /\ outside' = outside + 1

GateChanges ==
    /\ Outside
    /\ \/ stands' = ~stands /\ paused' = paused
       \/ paused' = ~paused /\ stands' = stands
    /\ UNCHANGED <<write, readback, testVars, verification, version, request>>

\* mark_interrupted_unknown, at a restart.
Interrupted == IF test = "in_progress" THEN "unknown" ELSE test

\* Another instance restarts: calls that are under way here go on.
MarkInterrupted ==
    /\ Outside
    /\ test = "in_progress"
    /\ test' = Interrupted /\ stale' = FALSE
    /\ UNCHANGED <<write, readback, attempts, attested, verification, gateVars, version, request>>

\* This instance restarts: its requests are gone.
Crash ==
    /\ Outside
    /\ test' = Interrupted /\ stale' = FALSE
    /\ request' = [p \in Person |-> NoRequest]
    /\ UNCHANGED <<write, readback, attempts, attested, verification, gateVars, version>>

PersonStep(p) ==
    \/ AskTest(p) \/ BeginTest(p) \/ RecordResult(p) \/ RefuseTest(p)
    \/ FinishTest(p) \/ StoreVerdict(p)
    \/ AskRecord(p) \/ GatherDraft(p) \/ InsertDraft(p) \/ GatherFinal(p) \/ UpdateFinal(p)

Next ==
    \/ RecordApplied \/ ReconcileWrite \/ ReconcileTest
    \/ (\E p \in Person : PersonStep(p))
    \/ GrowsStale \/ GateChanges \/ MarkInterrupted \/ Crash

Spec == Init /\ [][Next]_vars

(***************************************************************************)
(* What the screens offer                                                  *)
(***************************************************************************)

\* lifecycle._functional_route of an approved change.
NextStep ==
    CASE write \in {"unknown", "diverged"} -> "reconcile write"
      [] write = "ready" -> "record applied"
      [] write = "applied" /\ EffectiveState = "unknown" -> "reconcile test"
      [] write = "applied" /\ EffectiveState \in {"ready", "in_progress"} -> "test"
      [] write = "applied" /\ EffectiveState = "completed" ->
            IF verification = "failed" THEN "solution"
            ELSE IF \A n \in DOMAIN version : version[n].status # "final" THEN "finalise"
            ELSE "done"

(***************************************************************************)
(* Properties                                                              *)
(***************************************************************************)
TestState == {"ready", "in_progress", "unknown", "completed"}
WriteState == {"ready", "unknown", "applied", "diverged"}
Outcome == {"none", "not_sent", "unknown", "completed", "passed", "failed"}
Verdict == {"none", "passed", "failed"}
InputsType == [write : WriteState, test : TestState, readback : BOOLEAN, attempts : Seq(Outcome),
               verification : Verdict]
RequestType == [op : {"none", "run", "result", "generate", "finalise"},
                pc : {"none", "begin", "call", "verdict", "gather", "insert", "update"},
                attempt : Nat, outcome : Outcome, inputs : InputsType, version : Nat]
VersionType == [status : {"draft", "superseded", "final"}, inputs : InputsType]

TestOK ==
    /\ write \in WriteState /\ readback \in BOOLEAN
    /\ test \in TestState /\ stale \in BOOLEAN
    /\ attempts \in Seq(Outcome)
    /\ attested \in Nat
    /\ verification \in Verdict

RequestsOK ==
    /\ request \in [Person -> RequestType]
    /\ \A p \in Person :
          /\ request[p].pc = "call" => request[p].attempt \in DOMAIN attempts
          /\ request[p].pc = "verdict" => request[p].outcome \in {"passed", "failed"}
          /\ request[p].op = "finalise" => request[p].version \in DOMAIN version

\* Every state, attempt, verdict, version and request keeps its shape, and an
\* open request names an attempt or a version that exists.
TypeOK ==
    /\ TestOK
    /\ RequestsOK
    /\ version \in Seq(VersionType)
    /\ stands \in BOOLEAN /\ paused \in BOOLEAN
    /\ outside \in Nat

\* The test is ready only when nobody can be running it unaccounted for: the
\* newest attempt provably never left, or a person attested that it did not run.
\* A late answer of an older attempt does not reopen the gate (execution.finish).
ReadyIsAccounted ==
    test = "ready" =>
        \/ attempts = << >>
        \/ attested = Len(attempts)
        \/ attempts[Len(attempts)] = "not_sent"

\* A test is begun or recorded only at a moment at which its change is applied,
\* its approval stands and writes are not paused, whatever happened since the
\* checks of the request (execution.begin, execution.record).
TestedWhenApplied ==
    [][Len(attempts') > Len(attempts) =>
         write = "applied" /\ stands /\ ~paused /\ test = "ready"]_vars

\* A final as-built record rests on an applied change whose value is recorded and
\* on a test that ran and passed (asbuilt._checkpoints, finalise).
FinalWasTested ==
    (\E v \in DOMAIN version : version[v].status = "final") =>
        /\ write = "applied" /\ readback
        /\ \E n \in DOMAIN attempts : attempts[n] \in {"completed", "passed"}

\* Of the drafts only the newest becomes final, however two people's requests
\* interleave, and a final record is never superseded (asbuilt.generate, finalise).
FinalIsNewestDraft ==
    [][\A v \in DOMAIN version :
         /\ version'[v].status = "final" /\ version[v].status # "final" => v = Len(version)
         /\ version[v].status = "final" => version'[v] = version[v]]_vars

\* When the screen says that validation is completed and the record is to be
\* finalised, and the applied value is on record, a record with complete checkpoints
\* can be made (lifecycle.py).
OfferedStepPossible ==
    /\ NextStep = "finalise" /\ readback
    /\ \A p \in Person : request[p].pc # "verdict"
    => Complete(Inputs([NoInputs EXCEPT !.write = write, !.test = EffectiveState]))
=============================================================================
