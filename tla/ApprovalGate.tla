---------------------------- MODULE ApprovalGate ----------------------------
(***************************************************************************)
(* What stands between an approved story and a delivered change: the       *)
(* story's approval (backlog.py), the exact changes proposed for it, the   *)
(* approval of one of them and what that approval is bound to (approval.py,*)
(* binding.py), the approver's authority (authority.py), the design and    *)
(* its evidence (discovery/baseline.py), the invalidations evidence        *)
(* changes record (work_invalidation.py), and the gate that reads it all   *)
(* when a person records the delivery (delivery/functional.py).            *)
(*                                                                         *)
(* Locked transactions of all instances serialise on one database lock, so *)
(* each is one step.  Design runs, evidence handlers and requests are      *)
(* several transactions each, and interleave.  The changes here have one   *)
(* operation; change sets are in ChangeSetDelivery.                        *)
(***************************************************************************)
EXTENDS Integers, Sequences, FiniteSets

CONSTANTS
    Change,         \* exact changes the runs may propose
    None,           \* no change, no approver
    Run,            \* design runs (architecture reviews), each used once
    Approver,       \* people with an approval screen open
    Role,           \* company roles an approval policy may allow
    Overlapping,    \* a design run may start while another one is open
    MaxEvents       \* bound: uploads, story revisions, refreshes, expiries,
                    \* role, policy and scope changes, restarts, together

ASSUME NoneAssumption == None \notin Change \cup Approver
ASSUME RunAssumption == Run \subseteq Nat \ {0}
ASSUME OverlapAssumption == Overlapping \in BOOLEAN
ASSUME GateBounds == MaxEvents \in Nat

VARIABLES
    story,      \* backlog state of the story
    text,       \* revision of the story's text
    change,     \* the change records
    proposed,   \* change ids in the order of created_at
    origin,     \* history: a change's run, the text it read, the newest
                \* artifact revision at its approval
    revision,   \* length of the architecture review's history
    baseline,   \* the newest row of design_baselines
    handoff,    \* the hand-off document the gate reads
    artifact,   \* newest revision of the artifact the designs use
    held,       \* roles each approver holds now
    policy,     \* roles the company's approval policy allows
    allowed,    \* changes inside scope, with a deliverable capability
    run,        \* the design runs
    handler,    \* the open evidence handlers
    request,    \* the approvers' screens and requests
    recording,  \* the change a person is recording as delivered
    cut,        \* history: a restart cut an evidence handler or a hand-off short
    events      \* events so far, of those MaxEvents bounds

records == <<story, text, change, proposed, origin>>
designs == <<revision, baseline, handoff, artifact>>
authority == <<held, policy, allowed>>
bounds == <<cut, events>>
vars == <<records, designs, authority, run, handler, request, recording, bounds>>

Kind == {"upload", "revise", "refresh"}
Chosen == Change \cup {None}
NoBaseline == [id |-> 0, design |-> 0, artifact |-> 0, status |-> "none"]
NoHandoff == [baseline |-> NoBaseline, change |-> None]
NotProposed == [status |-> "none", invalid |-> FALSE, expired |-> FALSE, by |-> None,
                roles |-> {}, design |-> 0, artifact |-> 0, applied |-> FALSE]
IdleRun == [pc |-> "idle", since |-> 0, artifact |-> 0, mine |-> None,
            made |-> NoBaseline, previous |-> NoHandoff]
IdleHandler == [pc |-> "idle", base |-> NoBaseline, hits |-> {}, previous |-> NoHandoff]
NoRequest == [pc |-> "none", seen |-> None, chosen |-> None, roles |-> {}]

Init ==
    /\ story = "BACKLOG_READY"
    /\ text = 1
    /\ change = [c \in Change |-> NotProposed]
    /\ proposed = <<>>
    /\ origin = [c \in Change |-> [run |-> 0, text |-> 0, artifact |-> 0]]
    /\ revision = 0
    /\ baseline = NoBaseline
    /\ handoff = NoHandoff
    /\ artifact = 1
    /\ held = [a \in Approver |-> Role]
    /\ policy = Role
    /\ allowed = Change
    /\ run = [r \in Run |-> IdleRun]
    /\ handler = [k \in Kind |-> IdleHandler]
    /\ request = [a \in Approver |-> NoRequest]
    /\ recording = None
    /\ cut = FALSE
    /\ events = 0

RunOpen == \E r \in Run : run[r].pc \notin {"idle", "done"}
HandlerOpen(k) == handler[k].pc # "idle"

\* An event from outside the runs and requests; it may happen at any moment.
Event == events < MaxEvents /\ events' = events + 1

(***************************************************************************)
(* The gate                                                                *)
(***************************************************************************)

\* _require_live_approval, re-derived from source.
LiveApproval(c) ==
    /\ change[c].status = "approved"
    /\ ~change[c].expired
    /\ change[c].roles \cap policy # {}
    /\ held[change[c].by] \cap policy # {}
    /\ story = "APPROVED"

\* Broken variant: a recorded invalidation is not looked at.
BasisHoldsUnlessSuperseded(c) ==
    IF change[c].design # 0
    THEN handoff.baseline.design = change[c].design /\ handoff.change = c
    ELSE handoff = NoHandoff

\* binding.problems: the design the approval saw is still the story's design.
BasisHolds(c) ==
    /\ ~change[c].invalid
    /\ IF change[c].design # 0
       THEN handoff.baseline.design = change[c].design /\ handoff.change = c
       ELSE handoff = NoHandoff

\* authorise_functional_delivery.
Authorised(c) == LiveApproval(c) /\ ~change[c].applied /\ BasisHolds(c) /\ c \in allowed

(***************************************************************************)
(* The story                                                               *)
(***************************************************************************)

\* application_manager_approve; the first design run is queued with it.
ApproveStory ==
    /\ story = "BACKLOG_READY"
    /\ story' = "APPROVED"
    /\ UNCHANGED <<text, change, proposed, origin, designs, authority, run, handler, request,
                   recording, bounds>>

RejectStory ==
    /\ story = "BACKLOG_READY"
    /\ story' = "REJECTED"
    /\ UNCHANGED <<text, change, proposed, origin, designs, authority, run, handler, request,
                   recording, bounds>>

(***************************************************************************)
(* Design runs (services/architecture_driver.py)                           *)
(***************************************************************************)

\* What remains of a run that ended.
Ended(d) == [IdleRun EXCEPT !.pc = "done", !.mine = d.mine, !.made = d.made]
EndRun(r) == [run EXCEPT ![r] = Ended(@)]

\* start_architecture_review and the automatic first run.  Two starts may both
\* find no run analysing, because a run says so only once its task begins.
StartRun(r) ==
    /\ run[r].pc = "idle"
    /\ story \notin {"BACKLOG_READY", "REJECTED"}
    /\ Overlapping \/ ~RunOpen
    /\ run' = [run EXCEPT ![r].pc = "designing", ![r].since = Len(proposed),
                          ![r].artifact = artifact]
    /\ UNCHANGED <<records, designs, authority, handler, request, recording, bounds>>

\* propose_change, called by the Functional Agent during the run.
ProposeChange(r, c) ==
    /\ run[r].pc = "designing"
    /\ story = "APPROVED"
    /\ change[c].status = "none"
    /\ change' = [change EXCEPT ![c].status = "pending"]
    /\ proposed' = Append(proposed, c)
    /\ origin' = [origin EXCEPT ![c] = [run |-> r, text |-> text, artifact |-> 0]]
    /\ UNCHANGED <<story, text, designs, authority, run, handler, request, recording, bounds>>

\* resolve_without_change, called by the Architect during the run.
ResolveWithoutChange(r) ==
    /\ run[r].pc = "designing"
    /\ story = "APPROVED"
    /\ story' = "RESOLVED_WITHOUT_CHANGE"
    /\ UNCHANGED <<text, change, proposed, origin, designs, authority, run, handler, request,
                   recording, bounds>>

\* proposed_during: the newest change recorded since the run began.
ProposedDuring(r) ==
    IF Len(proposed) > run[r].since THEN proposed[Len(proposed)] ELSE None

\* complete appends the design to the review's history.
CompleteRun(r) ==
    /\ run[r].pc = "designing"
    /\ revision' = revision + 1
    /\ run' = [run EXCEPT ![r].pc = "storing", ![r].mine = ProposedDuring(r)]
    /\ UNCHANGED <<records, baseline, handoff, artifact, authority, handler, request, recording,
                   bounds>>

\* The run ends in an error, or its answer is not a design.
FailRun(r) ==
    /\ run[r].pc = "designing"
    /\ run' = EndRun(r)
    /\ UNCHANGED <<records, designs, authority, handler, request, recording, bounds>>

\* baseline._store: the new row supersedes the one before.
Stored(design, used, status) ==
    [id |-> baseline.id + 1, design |-> design, artifact |-> used, status |-> status]

\* create_for_design: a new design's baseline is always "current".
StoreBaseline(r) ==
    /\ run[r].pc = "storing"
    /\ baseline' = Stored(revision, run[r].artifact, "current")
    /\ run' = [run EXCEPT ![r].pc = "reading", ![r].made = baseline']
    /\ UNCHANGED <<records, revision, handoff, artifact, authority, handler, request, recording,
                   bounds>>

\* write_handoff reads the previous package outside a transaction ...
ReadHandoff(r) ==
    /\ run[r].pc = "reading"
    /\ run' = [run EXCEPT ![r].pc = "writing", ![r].previous = handoff]
    /\ UNCHANGED <<records, designs, authority, handler, request, recording, bounds>>

\* Broken variant: a new design inherits the change of the one before.
PackageInherits(new, previous, mine) ==
    [baseline |-> new, change |-> IF mine = None THEN previous.change ELSE mine]

\* The package of a baseline: a refresh of the same design keeps its change.
Package(new, previous, mine) ==
    [baseline |-> new,
     change |-> IF mine = None /\ previous.baseline.design = new.design
                THEN previous.change ELSE mine]

\* ... and then replaces whatever is there.
WriteHandoff(r) ==
    /\ run[r].pc = "writing"
    /\ handoff' = Package(run[r].made, run[r].previous, run[r].mine)
    /\ run' = EndRun(r)
    /\ UNCHANGED <<records, revision, baseline, artifact, authority, handler, request, recording,
                   bounds>>

(***************************************************************************)
(* Evidence changes: an artifact upload, a story revision, Refresh Evidence*)
(***************************************************************************)
\* A new revision of the artifact is stored (on_artifact_uploaded follows).
Upload ==
    /\ ~HandlerOpen("upload")
    /\ Event
    /\ artifact' = artifact + 1
    /\ handler' = [handler EXCEPT !["upload"].pc = "flag"]
    /\ UNCHANGED <<records, revision, baseline, handoff, authority, run, request, recording, cut>>

\* A refinement is applied to the story: the revision row is committed ...
ReviseStory ==
    /\ ~HandlerOpen("revise")
    /\ story # "BACKLOG_READY"
    /\ Event
    /\ text' = text + 1
    /\ handler' = [handler EXCEPT !["revise"].pc = "copy"]
    /\ UNCHANGED <<story, change, proposed, origin, designs, authority, run, request, recording,
                   cut>>

\* ... and the backlog's copy follows, unless the story is no longer approved.
RecordStoryRevision ==
    /\ handler["revise"].pc = "copy"
    /\ handler' = [handler EXCEPT !["revise"].pc = IF story = "APPROVED" THEN "flag" ELSE "idle"]
    /\ UNCHANGED <<records, designs, authority, run, request, recording, bounds>>

\* Refresh Evidence reads the design's baseline and re-reads what it cites.
StartRefresh ==
    /\ ~HandlerOpen("refresh")
    /\ baseline # NoBaseline
    /\ Event
    /\ \E differs \in BOOLEAN :
          handler' = [handler EXCEPT !["refresh"] =
              [IdleHandler EXCEPT !.pc = "list",
                  !.base = [baseline EXCEPT !.status =
                      IF differs \/ baseline.artifact < artifact
                      THEN "needs_reassessment" ELSE "current"],
                  !.hits = IF differs THEN Change ELSE {}]]
    /\ UNCHANGED <<records, designs, authority, run, request, recording, cut>>

\* _flag: the baseline that rests on the old evidence.
FlagBaseline(k) ==
    /\ handler[k].pc = "flag"
    /\ LET rests == baseline # NoBaseline /\ (k = "upload" => baseline.artifact < artifact)
       IN /\ baseline' = IF rests THEN [baseline EXCEPT !.status = "needs_reassessment"] ELSE baseline
          /\ handler' = [handler EXCEPT ![k].pc = IF rests THEN "flagHandoff" ELSE "list",
                                        ![k].base = baseline]
    /\ UNCHANGED <<records, revision, handoff, artifact, authority, run, request, recording, bounds>>

\* _update_handoff_status: only the package of that very baseline.
FlagHandoff(k) ==
    /\ handler[k].pc = "flagHandoff"
    /\ handler' = [handler EXCEPT ![k].pc = "list"]
    /\ handoff' = IF handoff.baseline.id = handler[k].base.id
                  THEN [handoff EXCEPT !.baseline.status = "needs_reassessment"] ELSE handoff
    /\ UNCHANGED <<records, revision, baseline, artifact, authority, run, request, recording, bounds>>

Live(c) == change[c].status \in {"pending", "approved"}

\* Broken variant: work that waits for its approval is passed over.
AffectedIfApproved(k, c) ==
    /\ change[c].status = "approved"
    /\ CASE k = "upload" -> change[c].design # 0
         [] k = "revise" -> TRUE
         [] k = "refresh" -> \/ c \in handler[k].hits
                             \/ change[c].design # 0 /\ handler[k].base.artifact < artifact

\* invalidate_affected: work that depends on what changed.  Work not yet
\* bound to a design depends on its targets only.
Affected(k, c) ==
    /\ Live(c)
    /\ CASE k = "upload" -> change[c].design # 0
         [] k = "revise" -> TRUE
         [] k = "refresh" -> \/ c \in handler[k].hits
                             \/ change[c].design # 0 /\ handler[k].base.artifact < artifact

ListAffected(k) ==
    /\ handler[k].pc = "list"
    /\ handler' = [handler EXCEPT ![k].pc = "invalidate",
                                  ![k].hits = {c \in Change : Affected(k, c)}]
    /\ UNCHANGED <<records, designs, authority, run, request, recording, bounds>>

\* record_invalidation, one locked transaction per change.
RecordInvalidation(k, c) ==
    /\ handler[k].pc = "invalidate"
    /\ c \in handler[k].hits
    /\ change' = [change EXCEPT ![c].invalid = @ \/ Live(c)]
    /\ handler' = [handler EXCEPT ![k].hits = @ \ {c}]
    /\ UNCHANGED <<story, text, proposed, origin, designs, authority, run, request, recording,
                   bounds>>

EndInvalidation(k) ==
    /\ handler[k].pc = "invalidate"
    /\ handler[k].hits = {}
    /\ handler' = [handler EXCEPT ![k] = IF k = "refresh" THEN [@ EXCEPT !.pc = "store"]
                                         ELSE IdleHandler]
    /\ UNCHANGED <<records, designs, authority, run, request, recording, bounds>>

\* The refreshed baseline keeps the design's revision and its artifacts.
StoreRefreshed ==
    /\ handler["refresh"].pc = "store"
    /\ LET old == handler["refresh"].base
       IN baseline' = Stored(old.design, old.artifact, old.status)
    /\ handler' = [handler EXCEPT !["refresh"].pc = "read", !["refresh"].base = baseline']
    /\ UNCHANGED <<records, revision, handoff, artifact, authority, run, request, recording, bounds>>

ReadRefreshedHandoff ==
    /\ handler["refresh"].pc = "read"
    /\ handler' = [handler EXCEPT !["refresh"].pc = "write", !["refresh"].previous = handoff]
    /\ UNCHANGED <<records, designs, authority, run, request, recording, bounds>>

WriteRefreshedHandoff ==
    /\ handler["refresh"].pc = "write"
    /\ handoff' = Package(handler["refresh"].base, handler["refresh"].previous, None)
    /\ handler' = [handler EXCEPT !["refresh"] = IdleHandler]
    /\ UNCHANGED <<records, revision, baseline, artifact, authority, run, request, recording, bounds>>

(***************************************************************************)
(* The approval of an exact change (routers/architecture_review.py)        *)
(***************************************************************************)
PendingAt == {i \in 1 .. Len(proposed) : change[proposed[i]].status = "pending"}

\* _pending_change_record: the most recent pending change of the story.
LatestPending == IF PendingAt = {} THEN None
                 ELSE proposed[CHOOSE i \in PendingAt : \A j \in PendingAt : j <= i]

\* The person's screen shows the pending change.
View(a) ==
    /\ request[a].pc = "none"
    /\ LatestPending \notin {None, request[a].seen}
    /\ request' = [request EXCEPT ![a].seen = LatestPending]
    /\ UNCHANGED <<records, designs, authority, run, handler, recording, bounds>>

\* The decision names the story, not the change: the router picks it.
Press(a) ==
    /\ request[a].pc = "none"
    /\ request[a].seen # None
    /\ LatestPending # None
    /\ request' = [request EXCEPT ![a].pc = "deciding", ![a].chosen = LatestPending,
                                  ![a].roles = held[a]]
    /\ UNCHANGED <<records, designs, authority, run, handler, recording, bounds>>

EndRequest(a) ==
    request' = [request EXCEPT ![a] = [NoRequest EXCEPT !.seen = request[a].seen]]

Matched(a) == request[a].roles \cap policy \cap held[a]

\* binding.snapshot.
Bindable(c) ==
    /\ ~change[c].invalid
    /\ \/ handoff = NoHandoff
       \/ handoff.change = c /\ handoff.baseline.status # "needs_reassessment"

\* approve_change, in the change's lock.
ApproveChange(a) ==
    LET c == request[a].chosen IN
    /\ request[a].pc = "deciding"
    /\ change[c].status = "pending"
    /\ Matched(a) # {}
    /\ Bindable(c)
    /\ change' = [change EXCEPT ![c] =
          [@ EXCEPT !.status = "approved", !.by = a, !.roles = Matched(a),
                    !.design = handoff.baseline.design, !.artifact = handoff.baseline.artifact]]
    /\ origin' = [origin EXCEPT ![c].artifact = artifact]
    /\ EndRequest(a)
    /\ UNCHANGED <<story, text, proposed, designs, authority, run, handler, recording,
                   bounds>>

RefuseApproval(a) ==
    LET c == request[a].chosen IN
    /\ request[a].pc = "deciding"
    /\ ~(change[c].status = "pending" /\ Matched(a) # {} /\ Bindable(c))
    /\ EndRequest(a)
    /\ UNCHANGED <<records, designs, authority, run, handler, recording, bounds>>

\* reject_change, in the change's lock; it asks for no role.
RejectChange(a) ==
    LET c == request[a].chosen IN
    /\ request[a].pc = "deciding"
    /\ change[c].status = "pending"
    /\ change' = [change EXCEPT ![c].status = "rejected"]
    /\ EndRequest(a)
    /\ UNCHANGED <<story, text, proposed, origin, designs, authority, run, handler, recording,
                   bounds>>

(***************************************************************************)
(* Recording the delivery (delivery/functional.record_applied)             *)
(***************************************************************************)
\* The gate passes; a live read of the target follows.
Dispatch(c) ==
    /\ recording = None
    /\ Authorised(c)
    /\ recording' = c
    /\ UNCHANGED <<records, designs, authority, run, handler, request, bounds>>

\* Broken variant: the gate is not asked again in the lock.
RecordUnchecked(c) == recording = c /\ ~change[c].applied

\* execution.record in the lock: the gate is asked again.
MayRecord(c) == recording = c /\ Authorised(c)

RecordApplied(c) ==
    /\ MayRecord(c)
    /\ change' = [change EXCEPT ![c].applied = TRUE]
    /\ recording' = None
    /\ UNCHANGED <<story, text, proposed, origin, designs, authority, run, handler, request, bounds>>

\* The live value is not the approved one, or the gate refuses meanwhile.
RecordNothing ==
    /\ recording # None
    /\ recording' = None
    /\ UNCHANGED <<records, designs, authority, run, handler, request, bounds>>

(***************************************************************************)
(* The surroundings                                                        *)
(***************************************************************************)

\* approval_valid_hours have passed.
Expire(c) ==
    /\ Event
    /\ change[c].status = "approved"
    /\ ~change[c].expired
    /\ change' = [change EXCEPT ![c].expired = TRUE]
    /\ UNCHANGED <<story, text, proposed, origin, designs, authority, run, handler, request,
                   recording, cut>>

\* A membership is changed, deactivated or given back.
ChangeRoles(a) ==
    /\ Event
    /\ \E roles \in SUBSET Role \ {held[a]} : held' = [held EXCEPT ![a] = roles]
    /\ UNCHANGED <<records, designs, policy, allowed, run, handler, request, recording, cut>>

\* The company's scope record is saved: its policy and what it allows.
SaveScope ==
    /\ Event
    /\ \/ policy' \in SUBSET Role \ {policy} /\ allowed' = allowed
       \/ allowed' \in {{}, Change} \ {allowed} /\ policy' = policy
    /\ UNCHANGED <<records, designs, held, run, handler, request, recording, cut>>

HandingOver == \E r \in Run : run[r].pc \in {"reading", "writing"}

\* The process restarts: what runs in it is gone, what it wrote stays.
Crash ==
    /\ Event
    /\ RunOpen \/ \E k \in Kind : HandlerOpen(k)
    /\ cut' = (cut \/ HandingOver \/ \E k \in Kind : HandlerOpen(k))
    /\ run' = [r \in Run |-> IF run[r].pc = "idle" THEN run[r] ELSE Ended(run[r])]
    /\ handler' = [k \in Kind |-> IdleHandler]
    /\ request' = [a \in Approver |-> [NoRequest EXCEPT !.seen = request[a].seen]]
    /\ recording' = None
    /\ UNCHANGED <<records, designs, authority>>

RunStep(r) ==
    \/ StartRun(r) \/ ResolveWithoutChange(r) \/ CompleteRun(r) \/ FailRun(r)
    \/ StoreBaseline(r) \/ ReadHandoff(r) \/ WriteHandoff(r)
    \/ \E c \in Change : ProposeChange(r, c)

EvidenceStep ==
    \/ Upload \/ ReviseStory \/ RecordStoryRevision \/ StartRefresh
    \/ StoreRefreshed \/ ReadRefreshedHandoff \/ WriteRefreshedHandoff
    \/ \E k \in Kind : \/ FlagBaseline(k) \/ FlagHandoff(k) \/ ListAffected(k)
                       \/ EndInvalidation(k)
                       \/ \E c \in Change : RecordInvalidation(k, c)

PersonStep ==
    \/ ApproveStory \/ RejectStory \/ RecordNothing
    \/ \E a \in Approver : View(a) \/ Press(a) \/ ApproveChange(a) \/ RefuseApproval(a)
                           \/ RejectChange(a)
    \/ \E c \in Change : Dispatch(c) \/ RecordApplied(c)

OutsideStep ==
    \/ SaveScope \/ Crash
    \/ \E c \in Change : Expire(c)
    \/ \E a \in Approver : ChangeRoles(a)

Next == (\E r \in Run : RunStep(r)) \/ EvidenceStep \/ PersonStep \/ OutsideStep

Spec == Init /\ [][Next]_vars

(***************************************************************************)
(* Properties                                                              *)
(***************************************************************************)
BaselineType == [id : Nat, design : Nat, artifact : Nat,
                 status : {"none", "current", "needs_reassessment"}]
HandoffType == [baseline : BaselineType, change : Chosen]
ChangeType == [status : {"none", "pending", "approved", "rejected"}, invalid : BOOLEAN,
               expired : BOOLEAN, by : Approver \cup {None}, roles : SUBSET Role,
               design : Nat, artifact : Nat, applied : BOOLEAN]
RunType == [pc : {"idle", "designing", "storing", "reading", "writing", "done"}, since : Nat,
            artifact : Nat, mine : Chosen, made : BaselineType, previous : HandoffType]
HandlerType == [pc : {"idle", "copy", "flag", "flagHandoff", "list", "invalidate", "store",
                      "read", "write"},
                base : BaselineType, hits : SUBSET Change, previous : HandoffType]
RequestType == [pc : {"none", "deciding"}, seen : Chosen, chosen : Chosen, roles : SUBSET Role]

ScalarsOK ==
    /\ story \in {"BACKLOG_READY", "APPROVED", "REJECTED", "RESOLVED_WITHOUT_CHANGE"}
    /\ text \in Nat /\ revision \in Nat /\ artifact \in Nat
    /\ held \in [Approver -> SUBSET Role] /\ policy \in SUBSET Role /\ allowed \in SUBSET Change
    /\ recording \in Chosen
    /\ cut \in BOOLEAN /\ events \in Nat

ChangesOK ==
    /\ change \in [Change -> ChangeType]
    /\ \A c \in Change : change[c].status = "approved" => change[c].by \in Approver

ProposalsOK ==
    /\ proposed \in Seq(Change)
    /\ origin \in [Change -> [run : Nat, text : Nat, artifact : Nat]]

DesignsOK == baseline \in BaselineType /\ handoff \in HandoffType

RunsOK == run \in [Run -> RunType]

HandlersOK == handler \in [Kind -> HandlerType]

RequestsOK ==
    /\ request \in [Approver -> RequestType]
    /\ \A a \in Approver : request[a].pc = "deciding" => request[a].chosen \in Change

\* Every variable keeps the shape its document, row or request has in the code;
\* an approved change names its approver, and only a change that was proposed
\* is picked for a decision (approval.py, binding.py, baseline.py).
TypeOK ==
    /\ ScalarsOK
    /\ ChangesOK
    /\ ProposalsOK
    /\ DesignsOK
    /\ RunsOK
    /\ HandlersOK
    /\ RequestsOK

\* An invalidation is permanent: a change it was recorded on keeps it and is
\* never recorded as delivered afterwards (binding.record_invalidation).
InvalidatedNeverDelivered ==
    [][\A c \in Change : change[c].invalid =>
         change'[c].invalid /\ change'[c].applied = change[c].applied]_vars

\* A change is stored as delivered only while its story is approved, its
\* approver may approve today, and the design it was approved against is the
\* one the hand-off names, with this change (execution.record, revalidate).
DeliveredUnderStandingApproval ==
    [][\A c \in Change : change'[c].applied /\ ~change[c].applied =>
         /\ story = "APPROVED"
         /\ change[c].by \in Approver /\ held[change[c].by] \cap policy # {}
         /\ handoff.baseline.design = change[c].design]_vars

\* An approval is bound to the very design whose run proposed the change.
BoundToItsDesign ==
    \A c \in Change :
        change[c].status = "approved" /\ change[c].design # 0 =>
            LET r == origin[c].run
            IN run[r].mine = c /\ run[r].made.design = change[c].design

\* No handler of changed evidence is open, and none was cut short.
EvidenceSettled == ~cut /\ \A k \in Kind : ~HandlerOpen(k)

\* Approved or pending work that nothing has invalidated or delivered.
Standing(c) == Live(c) /\ ~change[c].applied /\ ~change[c].invalid

\* However runs, approvals and evidence interleave: once the handlers of a
\* change of evidence have ended, no design's approval given before an upload
\* still stands, and no work of an approved story proposed on an older text
\* (work_invalidation.invalidate_affected).
EvidenceReaches ==
    EvidenceSettled => \A c \in Change : Standing(c) =>
        /\ change[c].design # 0 => origin[c].artifact = artifact
        /\ story = "APPROVED" => origin[c].text = text

\* A standing approval rests on the artifact revision in force, so no delivery
\* proceeds on evidence that has changed (what work_invalidation.py's header
\* says).  A design run that was open during an upload stores its baseline as
\* current afterwards, with the revision it read when it began.
BasisIsCurrent ==
    EvidenceSettled => \A c \in Change :
        Standing(c) /\ change[c].design # 0 => change[c].artifact = artifact

\* A person approves the change they were shown (approval.py).
ApprovedAsSeen ==
    [][\A c \in Change : change[c].status = "pending" /\ change'[c].status = "approved" =>
         request[change'[c].by].seen = c]_vars
=============================================================================
