# Verification of the JDE change factory backend

The backend ("Jade") lets AI agents and people prepare, approve and deliver
changes to a JD Edwards DEV environment. The modules here model its core and
check what a test suite reaches badly: several API instances over one database,
agents and people working on the same change, crashes, lost answers, approvals
that are withdrawn half-way. Every definition is read from the code; the
`map` in `PROJECT.json` names the lines each one stands for.

`M` stands for `src/mcp_server/jde_mcp_server/`, `A` for
`src/api_service/jde_api_service/`.

## Inventory

| Component | State it keeps | Operations | What makes it correct |
|---|---|---|---|
| execution records (`M/execution.py`) | per change: state and attempts of the write, the test, the build, and of every item | begin, finish, record, begin_item, finish_item, reconcile_*, mark_interrupted_unknown | an attempt precedes the send; nothing is retried while its fate is unknown; diverged is for ever |
| agents' runner (`A/executors/runner.py`) | one in-process lock per change; the loop over the items | run, run_in_background, run_item | approved order, stops at the first item it may not apply, ends |
| executors (`A/executors/ais.py`, `browser.py`) | AIS form stack, browser session | apply_item | not sent / sent / unknown is told truthfully |
| delivery by people (`A/delivery/functional.py`, `A/routers/jde_execution.py`, `architecture_review.py`) | item_delivery, test evidence | record_item_applied, reconcile, run_test, record_test_result | recorded only through the whole gate and after a live read |
| approval gate (`M/approval.py`, `binding.py`, `backlog.py`, `authority.py`) | story approval, change approval and its expiry, invalidations, binding | propose, approve, reject, resolve, require_* | nothing is delivered under an approval that no longer stands |
| scope and capabilities (`M/scope.py`, `capability_catalog.py`) | scope revisions, catalogue | require_in_scope, classify | a change stays inside the agreed scope |
| technical gate (`M/technical_gate.py`, `A/technical/*`) | package milestones, workspace | propose, apply, build, record_cnc_activation, verify | milestones in order, each by who may perform it |
| document store (`M/docstore.py`, `A/persistence/*`) | documents, blobs, advisory locks, migrations | transaction, put, advisory_lock, save with revision | locked transactions are serial; nothing is lost |
| evidence ledger (`M/evidence.py`) | hash-chained entries | capture_evidence | the chain never forks |
| change requests and stories (`A/services/change_request_service.py`, `change_service.py`, `orchestration_driver.py`, `enhancement_run_service.py`) | request, enhancement run, backlog record, customer link | enhance, propose, complete, fail | one proposed story, shown as it was proposed; an analysis ends |
| domain review and queue (`A/routers/domain_governance.py`, `A/services/domain_review_service.py`, `delivery_queue_service.py`) | review with its stage, versions, conversation and both decisions; the queue | seed, assign, edit, ask, approve, reject, reconsider | a decision is about what was reviewed; no story passes the gate without both roles |
| design and its evidence (`A/services/architecture_review_service.py`, `architecture_driver.py`, `work_invalidation.py`, `A/discovery/baseline.py`) | review runs, baselines, hand-off | start, complete, hand over, flag, refresh | changed evidence reaches everything that rests on it |
| AI runtime (`A/ai/*`, `A/services/agent_settings.py`) | connection and key, tests, packs and their assignment, context packages, run records | save, test, publish, assign, run, finish | what is shown as tested was tested; a record says for good what a run was given |
| access (`A/services/auth_service.py`, `login_throttle.py`, `invitation_service.py`, `membership_service.py`, `bootstrap_service.py`, `A/dependencies.py`) | users, sessions, failure counts, invitations, memberships | sign in, change password, invite, accept, change roles | a revoked right is gone; a company keeps an administrator |
| JDE read connection (`A/discovery/profile_service.py`, `service.py`, `transport.py`) | profile and its revision, password, checks, the lock of live calls | save, test, sample read, enable, disable, read | evidence carries the revision it was read with; a changed connection is off until it is enabled again |
| agent write settings (`A/executors/settings.py`, `checks.py`, `routes.py`) | write user, its tests, switch | save, test, switch, readiness | an open route was signed in to with what is saved now |
| process and as-built record (`A/process/*`) | framework versions, mapping, analyses, maps, findings, story revisions, as-built documents | import, activate, decide, analyse, save, apply, finalise | a reference resolves to what it was made for; the record is of what was delivered and tested |
| operations (`A/services/write_pause.py`, `backup_restore.py`, `credential_rotation.py`, `A/main.py`) | pause file, backups, keys | pause, resume, back up, restore, rotate | a backup is consistent; a half-done rotation loses no secret |
| integration (`A/services/jira_*`, `email_service.py`), knowledge (`A/knowledge/*`), metrics and registry | external identifiers, attachments | sync, attach, aggregate | a failed call is retried without duplicates |

How they interact: the API's routers call the services; delivery goes through
`approval.authorise_functional_delivery`, runs inside `execution._locked` (a
`docstore.transaction`, which takes the one write lock of the whole database:
`BEGIN IMMEDIATE` in SQLite, an advisory transaction lock in PostgreSQL,
`M/docstore.py:138-151`), and queues background work in the process that served
the request. Locked transactions are therefore single steps of the models; what
is read before or after them is a step of its own. All instances share one
database; the runner's lock, background tasks and open requests live in one
process.

Hard behaviours: a save whose answer is lost; an attempt older than fifteen
minutes that still runs; an instance that restarts next to one that works; state
that is checked before a live read and used after it; a run that is queued while
the previous one ends; approvals, authority and scope that change between
dispatch and save. `hazards` in `PROJECT.json` lists them with their lines.

## The modules

| Module | Models | Proofs |
|---|---|---|
| `ChangeSetDelivery` | agents and people deliver one change set | `ChangeSetDelivery_proofs` |
| `ApprovalGate` | story approval, design runs and their evidence, exact-change approval, invalidation; the Boolean `gate` of the first in detail | `ApprovalGate_proofs` |
| `TestVerification` | test run, recorded result, reconciliation and the as-built record | `TestVerification_proofs` |
| `TechnicalDelivery` | package revisions, their approval, the milestones, and what the screens offer | `TechnicalDelivery_proofs` |
| `Memberships` | accounts, invitations, memberships, hand-over of the setup account | `Memberships_proofs` |
| `StoryGovernance` | a request from its analysis through both decisions to the Architect's run | `Stories_proofs` |
| `StoryProcess` | framework versions, mapping, process maps, findings applied to the story, the design's view of them | `Stories_proofs` |
| `ConnectionSettings`, `ReadConnection` | the settings of a read connection; abstract: what the backend may rely on about it | - |
| `JdeConnection` | the read connection in detail; implements `ReadConnection` | `Connections_proofs` |
| `WriteSettings` | the agents' write settings, built on `ReadConnection` | `Connections_proofs` |
| `AgentRuns` | AI connection, packs, context packages and the record of a run | `AgentRuns_proofs` |

`MC...` modules instantiate them for TLC. Some modules end with properties no run
passes: what a doc or comment promises and the code does not keep. One has a run of its
own that expects the violation, `AG_overlap`, and is the `finding` in `PROJECT.json`. Of
the others the comments quote the promise, and the sections below say how it fails; adding
the name to the module's `.cfg`, without its `SYMMETRY` line, shows the trace
(`StoredThroughTheGate` and `CompletesWhenRecorded` in `CSD_items.cfg`; a property written
with `[]` or `~>` goes under `PROPERTIES`).

What would come next: sign-in (sessions, throttle, password reset), budgets of
agent runs, key rotation and backup, the advisory lock with its takeover, and the
gate of `ApprovalGate` shown to implement the Boolean of `ChangeSetDelivery`.

## ChangeSetDelivery

One approved change set. The record (`itemState`, `attempts`, `settled`,
`delivery`, `write`) is the change document; it changes only in actions that are
one locked transaction in the code. The runner of each instance has a program
counter that follows `run` / `_run` / `run_item`: `select` (head of the loop),
`begin` (`begin_item`), `read`, `commit`, `readback`, `finish` (`finish_item`),
`complete` (`complete_if_all_recorded`), `release` (the `finally` that frees the
lock). A person has at most one open request, either recording an item
(`reading`, `storing`, `completing`) or reconciling one (`settling`); what it
read earlier is kept in the request, so every check-then-act window of the code
is a window here. `jde` is the item's actual state in DEV, `inFlight` a save
whose answer was lost and that may still land.

The gate is one Boolean; `stale`, `paused` and `switched` stand for the clock,
the pause file and the write settings. Values in JD Edwards are three: the
state before the change, the approved one, another one. The observation of the
browser agent, which stands in for a read Jade cannot make, is taken to be true.

Runs:

| Run | Shows |
|---|---|
| `CSD_slow` | two instances, one item, stale attempts, a crash and drift: `NoBlindRetry`, `RecordedBeforeSent`, `DivergedForever`, `DeliveredNeverRunsAgain` |
| `CSD_items` | an agent item that Jade cannot read, one it can, and one for a person; one instance; crash, gate, pause, switch; under fairness: `RecordedIsInJde`, `DivergedStopsTheChange`, `ApprovedOrder`, `RunEnds`, `CompletesUnreconciled` |

What the code does otherwise than its docs say. `StoredThroughTheGate` fails: the approval
is withdrawn during a person's live read, and the record is stored all the same
(`A/delivery/functional.py:242` against `M/approval.py:371-373`: "once when it is
requested and again inside the change's lock, immediately before the step is stored").
`CompletesWhenRecorded` fails: the last item is recorded by reconciliation and nothing
completes the change (`A/routers/jde_execution.py:195` against
`A/executors/runner.py:22-23`: "When every item is recorded, the change counts as
applied"); a change none of whose items was reconciled completes
(`CompletesUnreconciled`). A run queued by a person's record meets the lock of the run
that is ending and is dropped, and nothing queues another (`A/executors/runner.py:96`
against its lines 21-22: "it resumes once that person has recorded it"). An attempt that
grew stale and was reconciled under its run lets the run go on to the next item, past the
unknown one (`A/executors/runner.py:144` against `M/execution.py:226-228`);
`ApprovedOrder` holds where no attempt grows stale. A reconciliation may settle an item by
a value read while its attempt still ran, although it should be its actual state
(`A/routers/jde_execution.py:215` against `M/execution.py:308`). A person's record of an
agent item can be stored while a retry of that item is open, though
`A/delivery/functional.py:9-12` allows it only while no agent can apply the item. An item
can read `ready` while its stale attempt still works (`M/execution.py:17`: "nothing in
flight"). A restarting instance marks the running attempts of the other instances unknown
(`M/execution.py:357`; `docs/AZURE_DEPLOYMENT.md:9` allows more than one instance);
`CSD_slow` shows that this costs a reconciliation, never a blind retry.

Bounds: two attempts per item are enough for a late answer of an old attempt to
meet a newer one; two instances for a race of runners and for a restart next to
work; three items for the order and for both routes; one outside event, because
each race needs one. `MaxStarts` bounds runs started by hand. `CHECK_DEADLOCK
FALSE`: a delivered change, or one waiting for a person, really stops.

Fairness: a live instance keeps executing its background run and its open
requests (one thread each, no waiting on others: the lock is taken without
blocking), and a queued run starts. Nothing is assumed of people, of JD Edwards
answering, or of a stopped instance.

### What is proved

`ChangeSetDelivery_proofs` proves, for every number of items, routes, instances
and people and without TLC's bounds: `TypeOK`, `RecordedBeforeSent`,
`NoBlindRetry`, `DivergedForever`, `DeliveredNeverRunsAgain`,
`DivergedStopsTheChange`, and that the change counts as applied only when every
item is recorded. The assumptions are those of the constants.

The inductive invariant is `IInv == TypeOK /\ RunnerOK /\ RecordedBeforeSent /\
NoBlindRetry`. `NoBlindRetry` alone is not inductive: closing an attempt
overwrites its outcome, and only because the attempt a run closes is still open
(`RecordedBeforeSent`) is no known fate lost. `RunnerOK` says what the program
counter promises about the runner's local variables. The typing proof is split
by parts of the state, one step per action; `Quiet` gathers the steps that touch
neither the attempts nor who is working, so that `BeginItem` and `FinishItem`
remain as the interesting cases.

`RecordedIsInJde` and `ApprovedOrder` do not hold of every behaviour, as an attempt
may be given up (fifteen minutes, another instance's restart) while its agent still
works. Their theorems say what has to be excluded and no more:

* `RecordsAreTrue`: nobody else changes DEV (no `drift`) and no two instances work on
  the same item (`WorkApart`). `RecordInv` adds that an instance works only on an agent
  item that no agent is recorded for, and that a value read back as the approved one
  is still there when it is recorded. With two instances at work on an item, the save of
  the one that was given up may come after the other's record.
* `KeepsApprovedOrder`: no attempt outlives its record (`NoneOutlived`). A run looks at an
  item only once, so what matters is that it leaves only recorded items behind
  (`BehindIsRecorded`); it leaves one behind on its agent's answer, which decides only
  while its attempt is the open one.

`CSD_items`, in which no attempt grows stale and the one instance has no other next to
it, is a schedule that meets both; the two hypotheses ask for less than that.

Liveness is model-checked only.

## ApprovalGate

One approved story, the exact changes proposed for it and everything the gate
reads when one of them is delivered. The state is the code's: `story` is the
backlog state, `change` the change records (`status`, `invalid` for a non-empty
list of invalidations, `expired`, who approved with which roles, and the design
and artifact revision the approval is bound to), `baseline` the newest row of
`design_baselines`, `handoff` the package document the gate and the approval
read, `artifact` the newest revision of the artifact the designs use, `held`,
`policy` and `allowed` what authority and scope say today.

| Part of the module | Code |
|---|---|
| `ApproveStory`, `RejectStory`, `ResolveWithoutChange` | `M/backlog.py`, `A/routers/domain_governance.py` |
| `StartRun` ... `WriteHandoff`: a design run with its proposals, its result, its baseline and its hand-off, each a transaction of its own | `A/services/architecture_driver.py`, `A/discovery/baseline.py` |
| `Upload`, `ReviseStory`, `StartRefresh` and the handler steps after them: flag the baseline, flag the hand-off, list the affected work, invalidate it one by one, store and hand over the refreshed baseline | `A/discovery/baseline.py`, `A/services/work_invalidation.py`, `A/process/refinement.py`, `A/routers/discovery.py` |
| `View`, `Press`, `ApproveChange`, `RefuseApproval`, `RejectChange` | `A/routers/architecture_review.py`, `M/approval.py`, `M/binding.py` |
| `LiveApproval`, `BasisHolds`, `Authorised`: the gate | `M/approval.py`, `M/binding.py`, `M/authority.py` |
| `Dispatch`, `RecordApplied`, `RecordNothing`: the gate, a live read, the gate again inside the lock | `A/delivery/functional.py`, `M/execution.py` |
| `Expire`, `ChangeRoles`, `SaveScope`, `Crash` | the clock, memberships, the scope record, a restart |

A technical package and the preflight report are left out, and so are the
values in JD Edwards (the before-state of the binding), which
`ChangeSetDelivery` has. `origin` (who proposed a change, the text it rests on, and the
newest artifact revision at its approval), `cut`, and the `mine` and `made` of a run
that ended, are history variables. `Crash` ends whatever is under way, as the restart of
the one instance does.

Evidence changes at any moment, also while a design run or another handler works.
`Overlapping` says whether a second design run may start while one is open, which the
code means to prevent and does not quite (below); `FALSE` is the schedule in which an
approval is bound to its own design.

| Run | Shows |
|---|---|
| `AG_gate` | two changes, two design runs one after the other, an approver, and one event at any moment: an upload, a revised story, a refresh, an expiry, a revoked role, a changed scope or a restart. `BoundToItsDesign`, an approval is bound to the design whose run proposed the change; `EvidenceReaches`, once the handlers of an evidence change have ended, no approval given before an upload stands, and no work of the approved story that was proposed on an older text; `InvalidatedNeverDelivered`; `DeliveredUnderStandingApproval` |
| `AG_overlap` | (a violation) `BasisIsCurrent`, a standing approval rests on the newest artifact: an upload during a design run breaks it |

Bounds: two changes and two runs, so that a change can outlive its design and be
the wrong one; one event, because every property is about one such event racing the
rest (with an evidence change and another event the run has 8.7 million states, passes as
well, and takes longer than it is worth; the proofs have no bound). The two changes are
interchangeable, hence the symmetry. `CHECK_DEADLOCK FALSE`: a delivered or refused
change really stops.

What the code does otherwise than its docs say, and what overlapping work can do.
An artifact uploaded while the Architect works: the upload's handler finds nothing to
flag, the design is stored as current, the approval binds the superseded revision and
nothing invalidates it (`A/discovery/baseline.py:345` against
`A/services/work_invalidation.py:9-11`: "it can no longer execute under its existing
approval"). `BasisIsCurrent` says that no standing approval rests on a superseded
artifact, and `AG_overlap` expects its violation. What holds at any moment is
`EvidenceReaches`: approvals and work that were there before the evidence changed are
reached. It excludes handlers a restart cut short, since nothing catches up on them. A second change proposed while the approver looks at the first:
the decision names the story only and approves the second
(`A/routers/architecture_review.py:203` against `M/approval.py:11-13`: "a DIFFERENT
implementation than the one a human actually saw"), which `ApprovedAsSeen` states. Two starts of the
review both pass the check for a running one (`A/routers/architecture_review.py:141`),
and the change one of them proposed is attributed to both (`proposed_during`).
A refresh that races a new design replaces the new hand-off by the old design,
and `write_handoff` reads the previous package outside a transaction, so a flag
set meanwhile is lost. A refresh computes its reasons afresh: a hand-off flagged
because the story was revised reads `current` again after it; the changes
proposed before stay invalidated, which is why `EvidenceReaches` still holds. A
restart between storing a baseline and its hand-off leaves a package whose
baseline is no longer the newest, and later uploads do not flag it.

### What is proved

`ApprovalGate_proofs` proves, for all sets of changes, runs, approvers and roles,
with overlapping work and without TLC's bounds: `TypeOK`,
`InvalidatedNeverDelivered` and `DeliveredUnderStandingApproval`. `TypeOK` is
inductive as it stands: that an approved change names a real approver needs that
a decision is only ever about a proposed change, and both are conjuncts of it;
that the newest pending change exists needs a greatest element of a finite set
of positions, a lemma of its own. The two action properties follow from the type
invariant and the gate, which every recording step passes inside the lock.

`BoundToItsDesign` is what overlapping runs break, and its theorem names the overlap:
`ApprovalsAreBound` needs only that no two design runs of the story are open at once (`RunsAlone`, what `start_architecture_review` means to ensure);
evidence may change at any moment. A run takes the newest change proposed since it began
for its own, which is right while it is alone (`ProposalsKnown`); the hand-off, also in the
copies a handler holds before it writes them back, then names the change and the design
of one run that has ended (`HandoffSettled`), and the approval copies both
(`ApprovalsSettled`). With two open runs the newest change may be the other run's.

`EvidenceReachesWork` has no hypothesis: whatever runs, approvals and evidence handlers
interleave, standing work on older evidence is still ahead of the handler that will find
it (`StillAhead`). A change is bound to a design only by its approval, and none is
proposed before the story is approved (`BoundByApproval`), so the list a handler makes once
misses no change that was there. An approval given after the upload is not about evidence
that changed later, whatever its design rests on; that it may rest on older evidence is
what `BasisIsCurrent` rules out and the code does not.

## TechnicalDelivery

The technical work of one approved story: the design approval, the runs of the
Technical Agent, the package revisions they store, the approval of a revision
and the record of its delivery.

| Part of the module | Code |
|---|---|
| `AskDesignApproval`, `InsertApproval`, `SetApproval` | `approve_design` with its two transactions (`A/technical/service.py`, `store.py`, `A/discovery/baseline.py`) |
| `ReadHandoff`, `WriteHandoff` | a new design, or a refresh, replaces the hand-off by what it read before (`write_handoff`) |
| `AskRun`, `StartRun`, `RefuseRun`, `FinishRun` | a run of the agent (`A/technical/service.py`, `store.py`, `driver.py`) |
| `Prepare`, `StorePackage`, `DiscardPackage`, `Propose`, `ProposeNothing`, `LinkChange` | `submit`: number, compare and set, propose, link, each a transaction of its own |
| `AskPackageApproval`, `ApprovePackage`, `RejectPackage` | the decision on one revision |
| `Authorised`, `Reached`, `AskMilestone` | what a person's request reads before the lock (`M/technical_gate.py`) |
| `MayRecord`, `RecordMilestone`, `StoreResults`, `MayActivate`, `RecordActivation` | what is looked at, and stored, inside it (`M/execution.py`, `M/technical_gate.py`) |
| `Offered`, `NextMilestone`, `Eligible` | the next step as the lifecycle (`A/services/lifecycle.py`), the work screen and the gate each work it out |
| `Upload`, `FlagHandoff`, `RecordInvalidation`, `GateChanges`, `MarkInterrupted`, `Crash` | a newer export, its consequences, approval and pause, restarts |

A request keeps the package it read (`superseded`) until its milestone is
stored, as the handlers do. `stands` gathers approval, expiry, authority, scope
and catalogue, which `ApprovalGate` has in detail. `since`, the revision a run
found when it began, is a history variable. The log of milestones and the
evidence entries are left out: nothing decides on them.

| Run | Shows |
|---|---|
| `TD_packages` | two runs of the agent, two people, two revisions, one outside event of any kind: `OfferedIsPossible`, what the lifecycle, the work screen and the gate each work out for themselves agrees while the gate is open; `MilestonesInOrder`, no build without check-in, no activation without build, no verification without activation, although the earlier one is read before the lock; `RevisionsBuildOnEachOther`, the late result of a run declared dead is never stored on newer work; `ApprovalOfThisDesign`; `RecordedUnderApproval` |

Bounds: two revisions, because supersession relates neighbours; two runs and two
people, because every race here is of two; one outside event, because each race
needs one. People and runs are interchangeable, hence the symmetry.

What else the code does, without a run of its own. A restart between the two
transactions of `approve_design` (`A/technical/service.py:95-100`), or a
`write_handoff` that read the hand-off before, leaves an approval the hand-off does
not carry and that cannot be given again; `A/discovery/baseline.py:571-572` says
that it "stays with it". `ApprovalStays` states this and fails within seconds when
it is put into `TD_packages.cfg`. A newer revision may be stored
between a milestone's request and its lock; the second look inside the lock is
at the package read before it, and the superseded revision is recorded on
(`A/technical/service.py:295`, against `M/technical_gate.py:18-20`). `record_cnc_activation` asks
the gate only before the lock and does not look at the write pause
(`M/technical_gate.py:291-304`), so an activation may be stored after the
approval lapsed. `verify` stores that the test is completed and its results in
two transactions (`M/technical_gate.py:354-371`): a restart between them leaves a
verification without results that is offered again and refused for ever, the
exception in `OfferedIsPossible`. The lifecycle looks the design approval up in its
table while a run needs the hand-off's copy of it, and it offers to approve a package
that has no change. A restart between
storing a revision and proposing it leaves a newest revision without a change,
which supersedes the one before. A restarting instance fails the runs of the
others (`A/technical/store.py:125`); their late results are refused, which
`RevisionsBuildOnEachOther` shows.

### What is proved

`TechnicalDelivery_proofs` proves the five properties of `TD_packages`, and types, for
any number of people, runs, revisions and outside events. A request acts on what it read
before the lock; the proof finds for each what nobody can take back meanwhile. A
milestone once recorded stays (`RecordInv`: a build about to be recorded has its
check-in). The table of approvals only grows, and whoever is about to copy one into the
hand-off copies the one of its own design (`ApprovalInv`). A running run has seen the
newest revision when it began or has stored the one it expects (`PackageInv`), so the
compare-and-set refuses everybody else. A verification without its results is one whose
second transaction is still to come, or an outside event happened (`ResultsInv`); with it,
what is offered is what the gate waits for (`OffersWhatIsPossible`).

## TestVerification

The test of one applied change and the as-built record of its story.

| Part of the module | Code |
|---|---|
| `RecordApplied`, `ReconcileWrite` | how the write becomes applied, or an old one is settled (`M/execution.py`, `A/delivery/functional.py`; `ChangeSetDelivery` has the detail) |
| `AskTest`, `MayBegin`, `BeginTest`, `RecordResult`, `RefuseTest` | the checks of `run_test` and `record_test_result`, and the same checks again inside the lock |
| `FinishTest`, `StoreVerdict` | the answer of the live orchestration (`finish`), and the verdict in a transaction of its own |
| `MayReconcile`, `ReconcileTest` | a person attests whether a test of unknown outcome ran |
| `AskRecord`, `GatherDraft`, `InsertDraft`, `GatherFinal`, `UpdateFinal` | `generate` and `finalise`: the change is assembled, then the rest is read, then the row is written |
| `GrowsStale`, `MarkInterrupted`, `Crash`, `GateChanges` | fifteen minutes, another instance's restart, this instance's, approval and pause |
| `NextStep` | what the story's screen offers (`A/services/lifecycle.py`) |

The call of the orchestration and `finish` are one step: nothing else reads what
JD Edwards did. `attested`, the attempt up to which a person attested that none
ran, is a history variable. The content of a superseded draft is dropped, as
nothing decides on it. Of the checkpoints the model has the three that depend on
delivery and test; story, process and design are `ApprovalGate`'s.

| Run | Shows |
|---|---|
| `TV_tests` | two people, two attempts, two versions, one outside event: `ReadyIsAccounted`, the test is ready only when the newest attempt provably never left or was attested not to have run, whatever late answers arrive; `FinalWasTested`, although a final record rests on two reads and a later write; `FinalIsNewestDraft`, for any interleaving of generating and finalising |

Bounds: two attempts, because a late answer needs a newer attempt to meet; two
versions, because a draft is superseded by one other; one outside event of any
kind. People are interchangeable, hence the symmetry.

What else the code does. A test of unknown outcome that is reconciled as having run has no
verdict, and none can be recorded any more: the record that the screen asks the person to
finalise is refused (`A/services/lifecycle.py:393`, `M/execution.py:508`), as it is after
a restart between `finish` and `_verification`. `OfferedStepPossible` states it and fails.
A late answer to a settled attempt makes a completed test unknown again; if the person
then attests that it did not run, it may run again under the same approval, although
`M/execution.py:99` says that this needs a new proposal. A write settled as applied by
reconciliation has no recorded value, so its as-built record can never be complete
(`A/process/asbuilt.py:104`).

### What is proved

`TestVerification_proofs` proves the three properties of `TV_tests`, `TypeOK`, and
`TestedWhenApplied`, for any number of people, attempts, versions and outside events.
`ReadyIsAccounted` needs `CallsInv`: a call in flight is the only one of its attempt
and has no answer yet; otherwise a late answer could overwrite the one that closed
the newest attempt. `FinalWasTested` needs `ProofInv`: what a draft's inputs say of
value and test is so, from the moment they are gathered to the moment the record is
written, because neither a recorded value nor an answer is ever taken back.
`FinalIsNewestDraft` follows from `RecordInv`: all versions but the newest are
superseded or final.

## Memberships

Who belongs to which customer and who administers it. `account`, `member` and
`invitation` are the tables; `member[p][c].rev` is the row's revision. A role set
is reduced to whether it holds Admin. `request` holds what a request, or a page
open in a browser, read earlier and still relies on.

| Part of the module | Code |
|---|---|
| `BootUser` ... `BootEnds`, `Restart` | `ensure_bootstrap_admin` at every start, each write a transaction of its own (`A/services/bootstrap_service.py`, `A/main.py`) |
| `OpenPage`, `ShowPage`, `ClosePage` | Admin > Users: the row with its revision, then its roles, in separate reads (`list_company_members`) |
| `MayEdit`, `UpdateRoles`, `SetStatus` | an Admin's edit: revision, authority, last Admin, write, in one immediate transaction (`A/services/membership_service.py`) |
| `AskInvite`, `AskResend`, `AskRevoke`, `CreateInvitation`, `ResendInvitation`, `RevokeInvitation`, `Expires` | invitations; the Admin role is asked for when the request arrives and not when it writes (`A/routers/company_users.py`, `A/services/invitation_service.py`) |
| `AskAccept` ... `MarkAccepted` | `accept_invitation`: account, membership, roles, status and mark in up to four transactions |
| `AskHandOver`, `HandOver` | Finish setup (`A/services/setup_handover.py`) |
| `AskCustomer`, `CreateCustomer`, `FirstAdmin` | a new customer, then its first Admin (`A/services/customer_service.py`) |

| Run | Shows |
|---|---|
| `M_admins` | the setup account and two people, two customers, one invitation, two requests: `LastAdminKept`, whoever demotes, deactivates, accepts or hands over at the same time; `RevisionNamesContent`, an edit that is let through replaces the row its Admin saw, also when the acceptance or the hand-over wrote in between; `AcceptedMeansJoined`, wherever a restart cuts an acceptance short; `EveryLoginWasInvited`, two hand-overs at once included |

Bounds: two requests, because every race here is of two; a third person is the
other Admin next to the setup account and the one edited; two customers, because
the hand-over and a new customer concern several; five writes of memberships, the
fewest after which an acceptance reactivates somebody who was deactivated. Nobody
asks for an invitation or a customer the instance has no row left for: such a
request could not end. A page does not say who edits, the session of its browser
does, so `MayEdit` asks for any Admin, also one who signed in after the page was
opened. Edits
that change nothing are left out: they only count up the revision. People other
than the setup account, and requests, are interchangeable, hence the symmetry.
`Restart` is always possible, so nothing deadlocks.

What else the code does, without a run of its own. `_active_admin_membership_ids`
does not look at `users.is_active`, `_require_active_admin` does: after the
hand-over the owner may reactivate the membership of the disabled setup account
and remove the own Admin role, or the hand-over may fall between the two
transactions of `create_customer`, and nobody can administer the customer any
more, although `LastAdminError` (`A/services/membership_service.py:29`) is there to
prevent it. `AnAdminCanSignIn` states this and fails when it is put into
`M_admins.cfg`. A restart inside the bootstrap leaves a setup account without a
membership, and the next start does nothing because the account exists; a
restart inside `create_customer` leaves a customer without an Admin. An
acceptance that is under way overrides a revocation, and a second one on the same
link applies the invited roles again after an Admin changed them.

### What is proved

`Memberships_proofs` proves `TypeOK` and the four properties of `M_admins` for every set of
people, customers, invitations and requests and without the bound on writes.
None of the four safety invariants is inductive: what a request writes depends on
what it read some transactions earlier. `IInv` therefore adds `RowsInv` (a
membership has an account, an absent row has revision 0, an invitation's customer
has a member) and `RequestsInv` (what a request at each of its steps still relies
on). The proof turns on `Grows`: no step takes back a membership, an account or an
invitation, and a row that changes counts up its revision. From it follows that
requests which do not move keep what they rely on (`StillRequest`), so that each
action has to be looked at only for the request that moves. `PageOf` is the
strengthening of `RevisionNamesContent`: a page's revision is never ahead of the
row, and its roles, read later than its revision, agree with the row whenever the
revisions do.

## StoryGovernance

One change request from its analysis to the start of its solution. `run`,
`backlog`, `linked`, `review`, `queued` and `arch` are documents of their own;
`calls` holds what each request or background run is doing and what it read.

| Part of the module | Code |
|---|---|
| `PressEnhance`, `BeginAnalysis`, `NextAgent`, `Propose`, `ResolveWithoutChange`, `LinkStory`, `FinishAnalysis`, `FailAnalysis` | an enhancement run (`A/routers/changes.py`, `A/services/orchestration_driver.py`, `enhancement_run_service.py`, `M/backlog.py`) |
| `SeedReview`, `SaveSeed` | the first page of a review reads, finds none, and stores one (`ensure`), in two steps |
| `AssignDomain`, `StartReview`, `SubmitEdit`, `ReviewEdit`, `FailEdit`, `AbandonEdit` | the Domain Owner's edits and the Reviewer Agent (`A/routers/domain_governance.py`, `review_driver.py`) |
| `Ask`, `ReadForAnswer`, `SaveAnswer`, `FailAnswer` | a question: the whole review is read, then written back (`append_conversation_turn`) |
| `OwnerApproves`, `OwnerRejects`, `ManagerApproves`, `ManagerRejects`, `RequestReconsideration` | the decisions, each one transaction over review, backlog and queue |
| `PressArchitect`, `BeginArchitect`, `FinishArchitect`, `FailArchitect` | the Architect's run (`ApprovalGate` has what it stores) |
| `Visible`, `ShownText`, `AnalysisOwner`, `ReviewOwner`, `SolutionOwner`, `NextOwner` | what the customer is shown, and who is asked to act (`A/services/change_service.py`, `lifecycle.py`) |
| `HostDies`, `HostStarts` | a host loses its own work; the one that starts recovers that of all (`A/services/run_recovery.py`) |

An analysis ends as the agents' last message says: `LinkStory` links the story when it
says that the story was proposed, `FinishAnalysis` completes the run with the text it
tells. Neither looks at whether `Propose` succeeded, or with which text, as in
`A/services/orchestration_driver.py:237-264`. Several hosts share the documents. Async
endpoints of one host share its event loop, so none of them comes between the two halves
of an answer there (`LoopIsFree`); those of another host do (`HostOf`), and the other
endpoints run in threads and do. `verdict` and `undone` are history: the Domain Owner's
last word, a reopening included, and whether an answer has written an older review over it.

`S_stories`: a request analysed, edited, asked about, decided on, reopened, on two hosts
of which one dies. `ApprovedAsReviewed`, a decision is never about an edit the Reviewer
Agent has not seen, also in a copy that a late answer writes back; `DecisionsAgree`,
review, gate and queue tell the same of the Application Manager's decision;
`AuthorisedByBoth`, a story passes the gate only while the Domain Owner's last word is an
approval, unless a late answer undid that word; `RunsEnd`, no analysis is shown as running
for ever, and what is JADE's becomes somebody else's or the review's. Bounds: two slots on
two hosts, because every race is of two; one analysis, question and restart, each enough
for one race (two analyses, 1.2 million states, pass the three safety properties as well;
the proofs have no bound).

Fairness is strong, on what a slot does on its own once asked: `SaveAnswer` shares the
event loop, so a step of another slot can be disabled again and again while answers
are saved. The loop is first come, first served, and an agent's run ends by its number of
turns and its provider's timeouts. It is weak on `HostStarts`: the platform starts a host
that died again. Nothing is assumed of people. `CHECK_DEADLOCK FALSE`: a decided story
stops.

What the code does otherwise than its docs say. `JadeLetsGo` fails: a review whose
refinement a restart cut off stays with JADE. `RejectionIsFinal` fails: an answer that was
being written while the Domain Owner rejected a reopened story writes the approved review
back, and the Application Manager approves it (`A/services/domain_review_service.py:152`,
against its lines 230-231, "Terminal: the Domain Owner decided this requirement should not
proceed at all"); this is the `undone` of `AuthorisedByBoth`. `ShownAsProposed` fails: an
analysis whose proposal was refused, or that made none, reports one with a text of its own,
is completed as `proposed_to_backlog`, and the text is shown in place of the one in the
backlog (`A/services/orchestration_driver.py:237-264` against its lines 248-249, "The Check
Agent's own propose_to_backlog call is the real gate", and `A/services/change_service.py:10-13`,
"never a source of truth of its own"). `S_stories.cfg` shows the second as it is, the third
with `MaxText = 2`, both within seconds.
`ProposedIsSeen` fails: a restart between proposing and linking leaves a story no customer
sees. Also: after a reconsideration a
second decision of the Application Manager is rolled back by the gate; a reopened
requirement is nobody's action; the Architect reads the text in the backlog, not the
reviewed one; the Domain Owner's approval names no version; a restart between an approval
and the background start of the Architect leaves the start to a person.

### What is proved

`Stories_proofs` proves the three safety properties of `S_stories`, and types, for any
number of hosts, calls, analyses, texts and restarts. An answer writes back the whole
review as it was when the answer began, so a fact about the review is kept only if it also
holds of every copy on its way: `CopiesInv` says of each that an own edit of the Domain
Owner leaves the review with JADE, that a review ready for the Application Manager has the
Domain Owner's approval, and that the decision it shows is the gate's. The last
holds of an old copy because the gate only moves on from the backlog: a decision that was
shown once is not taken back. `QueueInv` ties the queue to the gate. `VerdictInv` is what
`AuthorisedByBoth` needs: a review that waits for the Application Manager waits on the
Domain Owner's last word, or on a copy that an answer wrote back. `RunsEnd` is liveness
and model-checked only.

## StoryProcess

The business process of one story: versions of the imported framework, the mapping
decision, analyses, the process map, findings applied to the story, and what a design
recorded of all this. A page carries the revision it showed (`seen`), and the handler
compares it under the lock; what follows from a decision (the Architect's copy of the
story, the flag on the design) are steps of their own, as in the code. Several instances
share the database (`Home` says which serves a request). One that dies takes its own work
with it, pages stay in their browsers; one that starts marks every analysis recorded as
running (`running`) as failed, also those another instance is at, which go on and write
their result.

| Part of the module | Code |
|---|---|
| `CreateDraft`, `Activate`, `Pinnable`, `Pins`, `Differs` | `A/process/framework.py` |
| `StartAnalysis`, `FinishProcessAnalysis`, `FailProcessAnalysis`, `OpenMapping`, `Decide` | `A/process/story.py`, `agent.py`, `A/routers/process.py` |
| `OpenMap`, `SaveMap` | `A/process/maps.py` |
| `SyncFindings`, `SetStatus`, `OpenRefinement`, `ReadStory`, `Apply`, `CopyToBacklog` | `A/process/refinement.py`, `M/backlog.py` |
| `Die`, `StartUp` | the platform stops an instance; `mark_interrupted_runs` of one that starts (`A/process/story.py`, `A/services/run_recovery.py`) |
| `Consult`, `Describe`, `StoreDesign`, `FailDesign`, `Compare`, `Flag`, `Refresh` | `A/discovery/baseline.py`, `architect_tools.py`, `A/services/architecture_driver.py` |

`P_process`: `PinsResolve`, `AppliedAreInTheStory`, `OneAnalysis` and `AnalysisEnds`: one
analysis at most is recorded as running, it is under way or its instance is down, and its
record ends, through the death of the instance too. Bounds: two versions, so that one is
superseded or replaced; two wordings of a node, so that a reference may stop fitting; two
findings for two reviewers; two instances and one death, so that one starts up beside the
other's work; four requests, the fewest with which two pages and two activations
interleave. Weak fairness on `ProcessRuns` and `StartUp`: a request that was sent and a
run that was started are served, and the platform starts an instance that died again.
`CHECK_DEADLOCK FALSE`: the bound on requests stops the system.

`Stories_proofs` proves the three invariants for any number of instances, versions,
nodes, findings and requests. None is inductive alone: `FrameworkInv` says that versions
are numbered without a gap, so a draft is never stored over a version that can be
referenced; `PagesInv`, that a page is of the latest story or an older one, and that what
`ReadStory` read is the latest story whenever the comparison will succeed; `AnalysisInv`,
that whoever is recorded as running is at its analysis or died with its instance. Liveness is model-checked only.

What the code does otherwise than its docs say. `OneUnderWay` fails: an instance that
starts marks the analysis another one is at as failed, the next request is let through, and
two analyses of the story run side by side (`A/process/story.py:124` and
`A/services/run_recovery.py:8`, "On startup nothing can still be running", against
`docs/AZURE_DEPLOYMENT.md:9`, "you can run more than one instance"); `P_process.cfg` shows
it within seconds. `OneAnalysis` is what is left: the records never show two.
`DesignedForThisProcess` fails: the
fingerprint is taken when the Architect's run has ended
(`A/discovery/baseline.py:349`), so a mapping that changed after the agent read it is
recorded as the one designed for. `CopyInStep` fails: a restart after `apply`, or two
copies that overtake each other, leave the Architect an older text, although
`refinement.py` keeps "the Architect's copy in step". Also: activating names no content
of the draft, which may be replaced in between; a wording-only map changes the fingerprint,
so Refresh flags what saving did not; a restart between a decision and its flag loses
the flag. Selecting process families is left out.

## ReadConnection and JdeConnection

`ReadConnection` is what the rest of the backend may rely on: discovery is enabled
only by a request that looked at the revision it enables, a material change and
Disable switch it off, and only a successful test takes Disable back. `JdeConnection`
is the code: `profile` is the row with its revision, `health` its five checks, each
filed under the material it counts for, `lock` the lock of the live calls, and `call`
the requests with what they read at their start. A test goes through `AskTest` ...
`ClearDisabled`, an Admin's sample read and an agent's read through `AskSample` or
`Grant`, `BeginRead`, `ReadPassword`, `Send`, `StoreObservation` (and, for a sample,
`ApproveRead` and `RecordPathCode`), Enable through `AskEnable` and `Enable`. `ran` in
a check is a history variable.

The refinement mapping is the `INSTANCE` in `JdeConnection`: `looked` is that some
request to enable holds the present revision, `enabled` that the enabled material is
the present one; the abstract specification is checked as the property
`KeepsItsPromise`, and proved.

`D_connection`: `EvidenceOfItsRevision`, a read about to be stored under the present
revision used the present settings and password; `KeepsItsPromise`. Bounds: two
addresses, two calls, three saves, so that a call can be overtaken twice. Calls and
addresses are interchangeable; both properties are safety, so the symmetry is sound.

`Connections_proofs` proves `TypeOK`, `EvidenceOfItsRevision` and that every step of
`JdeConnection` is a step of `ReadConnection` or a stutter. The invariant says which kind
of call can be at which step, that no call holds a later revision than the profile, and
that a call with the present revision has the present settings (`CallInv`): every save
counts up the revision, so a call that was overtaken is recognised by it.

What the code does otherwise than its docs say. `ActiveWasVerified` fails:
`record_check` (`A/discovery/profile_service.py:193`) files the result of a test begun
before a save under the saved settings, and Enable accepts it; lines 11-14 say that a
material change "marks every earlier check stale". `PasswordWhereEntered` fails: a call
keeps the address it read first and takes the password saved since. Also: `build_plan`
does not compare the environment; a read in flight when discovery is disabled still
stores its observation.

## WriteSettings

The settings agents write with, next to the abstract connection: `WriteSettings`
EXTENDS `ReadConnection` and so holds for every read connection that keeps that
promise. `writer` is the row, `tests` its sign-in tests per route, `save` a password
save between reading its destination and writing, `trial` the test under way. `Ready`
is `readiness` of `A/executors/routes.py`, the switch of `ChangeSetDelivery` in detail.

`W_settings`: `ReadyWithThisPassword`, with saves of both rows between the two sign-ins
and their recording. `Connections_proofs` proves it with `TypeOK`: the password a
sign-in used is no older than the material the test began with and no newer than the
saved one (`TrialInv`), the same holds for what is filed (`TestsInv`), and a result that
counts was filed under the present material, so the two bounds meet. `ReadyOnTheConnection`
puts the two parts together: with the write settings next to the real connection, which
they see as the refinement mapping says (`SeenAsKept`), every step is one of `WriteSettings`
or leaves it alone, because `JdeConnection` implements `ReadConnection`. Bounds: two
passwords, one save during a test. Settings that are changed and changed back count as
the same material, as in the code.

## AgentRuns

What an agent's run is made of: `connection` and `lastTest` (`A/ai/connection.py`),
`revisions`, `disabled` and `assigned` (`packs.py`), `contexts` (`context.py`),
`switchedOn` (`A/services/agent_settings.py`), `record` (`ai_runs`) and the background
`task` with what it has read. `Ask` is the endpoint's `require_ready`; `Resolve` and
`Snapshot` are the two reads of `prepare`, `Build` and `StorePackage` those of
`context.snapshot`, `Begin` is `_insert`, `Finish` is `finish`, `Restart` imports
changed templates and calls `reconcile_interrupted`. The provider only answers or fails.

`A_runs`: `TestedThis`, a connection shown as tested was answered for with the model and
key stored now; `RecordsTell`, the pack revision, context version, settings and key
revision in a record are for good what the run was given; `RunsEnd`. Bounds: three
events by Admins, the story or a restart, enough to edit, publish and assign under a run;
one run, since runs share nothing but the stored context versions, and the proofs cover
any number. Weak fairness on `RunStep`: turns, budget and provider timeouts are limited.
`CHECK_DEADLOCK FALSE`: the bound on events stops the system.

`AgentRuns_proofs` proves `TypeOK`, `TestedThis` and `RecordsTell` for any number of runs
and events. Three facts carry it: every copy of the connection's row fits the row
whenever the revision agrees (`CopiesInv`); a published revision never changes
(`Given`); a stored context version never changes (`Told`).

What else the code does. A role that is switched off after its run was accepted still runs
(`agent_settings.py:2-4`). `expected_version` of an assignment repeats after an
unassignment. Publishing names the revision, not the content seen. `tested` stays after a
key is revoked and looks at one model only. A context package built earlier may be stored
after a newer one. The budget is looked at when a run starts, and the cost of an
interrupted run is never counted.

## Proofs and what they leave out

Eight modules hold proofs. Each EXTENDS its component's module and TLAPS; `Stories_proofs`
covers `StoryProcess` and `StoryGovernance`, `Connections_proofs` covers `JdeConnection` and
`WriteSettings`. The assumptions are those of the constants (the `ASSUME`s in the modules).
Each proof has the same shape: an inductive invariant, which TLC checked first on the
component's run, one step per action, and the property as a consequence or, for an action
property, one more case split over `Next`. TLC's bounds are parameters of the modules, so a
theorem holds for every value of them.

Every safety property a passing run checks is stated by a theorem. Three have hypotheses
about the schedule (`RecordedIsInJde`, `ApprovedOrder`, `BoundToItsDesign`), because
without them the code does not keep the property; the runs show states that meet them.

Model-checked only: every liveness property (`RunEnds`, `CompletesUnreconciled`,
`AnalysisEnds`, `RunsEnd` of stories and of agents' runs). They need fairness and
ENABLED, which the prover does not have. That the Boolean gate of `ChangeSetDelivery`
is what `ApprovalGate` does is an argument on paper.

## Not modelled

`PROJECT.json` says of each component what is left out and why. Whole components:
the document store and persistence, which the modules assume (a locked transaction
is one step) instead of modelling; configuration items, whose values are three in
the models; the evidence ledger, which nothing decides on; credentials, as encryption is
a library and rotation is a command of the operator; Jira, e-mail, metrics, ratings,
knowledge and the MCP server's read tools, which are input, output and aggregation.
Inside modelled components: sessions, throttle and password reset; budgets; backup and
restore; prompts, wording and layout; the contents of forms, exports and packages.

Hazards known and covered by no property, besides those of `PROJECT.json`: a queued run
dropped while its predecessor holds the lock (`A/executors/runner.py:96`), a value read
before the lock that settles an item (`A/routers/jde_execution.py:215`), two starts of the
review (`A/routers/architecture_review.py:141`), a restart between a baseline and its
hand-off (`A/services/architecture_driver.py:231`), an attempt whose instance never comes
back, which reads as unknown after fifteen minutes (`M/execution.py:238`, `GrowsStale`), and a CNC activation whose gate is
asked before the lock only (`M/technical_gate.py:291`).
