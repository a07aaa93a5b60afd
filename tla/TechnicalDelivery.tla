-------------------------- MODULE TechnicalDelivery --------------------------
(***************************************************************************)
(* The technical work of one approved story (technical_gate.py,            *)
(* technical/service.py, technical/store.py): a person approves the design,*)
(* the Technical Agent prepares package revisions, a person approves one   *)
(* revision, and people record its delivery: check-in, build, activation   *)
(* by a CNC, verification.                                                 *)
(*                                                                         *)
(* A request reads the package and runs the gate first; the milestone is   *)
(* stored in a locked transaction later.  The package it read stays with   *)
(* the request.  Approval, expiry, authority, scope and catalogue are one  *)
(* Boolean here; ApprovalGate has their life.  The log of milestones, which*)
(* only screens read, is left out.                                         *)
(***************************************************************************)
EXTENDS Integers, FiniteSets

CONSTANTS
    Person,         \* people with an open screen
    Run,            \* runs of the Technical Agent
    MaxPackages,    \* bound: package revisions
    MaxOutside      \* bound: new designs, refreshes, uploads, gate changes, restarts

ASSUME TechnicalBounds == MaxPackages \in Nat /\ MaxOutside \in Nat

VARIABLES
    handoff,    \* the design hand-off: design, design approval, flagged
    approvals,  \* design revisions in the table design_approvals
    writer,     \* a hand-off being written: new design or refresh
    source,     \* newest revision of the uploaded source export
    run,        \* rows of technical_runs, and the agent processes
    latest,     \* newest package revision
    package,    \* rows of technical_packages
    record,     \* the change records of the packages
    stands,     \* the approver, the policy and the scope still allow it
    paused,     \* the write-pause file exists
    request,    \* open requests
    outside

designVars == <<handoff, approvals, writer, source>>
workVars == <<run, latest, package>>
gateVars == <<stands, paused>>
vars == <<designVars, workVars, record, gateVars, request, outside>>

Revision == 1 .. MaxPackages
Milestone == {"apply", "build", "cnc", "verify"}
NoPackage == [run |-> "none", design |-> 0, source |-> 0, superseded |-> FALSE, change |-> FALSE]
NoRecord == [status |-> "none", invalid |-> FALSE, before |-> 0, write |-> "ready",
             build |-> "ready", cnc |-> FALSE, test |-> "ready", verification |-> "none"]
IdleRun == [status |-> "none", pc |-> "none", design |-> 0, since |-> 0, expected |-> 0,
            next |-> 0, source |-> 0]
NoRequest == [op |-> "none", pc |-> "none", rev |-> 0, superseded |-> FALSE]
NoWriter == [pc |-> "none", design |-> 0, approval |-> 0]

Init ==
    /\ handoff = [design |-> 1, approval |-> 0, flagged |-> FALSE]
    /\ approvals = {}
    /\ writer = NoWriter
    /\ source = 1
    /\ run = [r \in Run |-> IdleRun]
    /\ latest = 0
    /\ package = [n \in Revision |-> NoPackage]
    /\ record = [n \in Revision |-> NoRecord]
    /\ stands = TRUE
    /\ paused = FALSE
    /\ request = [p \in Person |-> NoRequest]
    /\ outside = 0

Outside == outside < MaxOutside /\ outside' = outside + 1

Idle(p) == request[p] = NoRequest
At(p, op, pc) == request[p].op = op /\ request[p].pc = pc
Open(p, new) == request' = [request EXCEPT ![p] = new]
Done(p) == Open(p, NoRequest)
Goto(p, pc) == request' = [request EXCEPT ![p].pc = pc]

(***************************************************************************)
(* The design approval                                                     *)
(***************************************************************************)

\* approve_design: the checks of the assignment, then ...
AskDesignApproval(p) ==
    /\ Idle(p)
    /\ ~handoff.flagged
    /\ handoff.design \notin approvals
    /\ stands
    /\ Open(p, [NoRequest EXCEPT !.op = "design", !.pc = "insert", !.rev = handoff.design])
    /\ UNCHANGED <<designVars, workVars, record, gateVars, outside>>

\* ... the row, and ...
InsertApproval(p) ==
    /\ At(p, "design", "insert")
    /\ approvals' = approvals \cup {request[p].rev}
    /\ Goto(p, "set")
    /\ UNCHANGED <<handoff, writer, source, workVars, record, gateVars, outside>>

\* ... the copy on the hand-off, for that design only.
SetApproval(p) ==
    /\ At(p, "design", "set")
    /\ handoff' = IF handoff.design = request[p].rev
                  THEN [handoff EXCEPT !.approval = handoff.design] ELSE handoff
    /\ Done(p)
    /\ UNCHANGED <<approvals, writer, source, workVars, record, gateVars, outside>>

\* Broken variant: a new design keeps the approval of the one before.
ReadHandoffInherits ==
    /\ writer.pc = "none"
    /\ Outside
    /\ \E design \in {handoff.design, handoff.design + 1} :
          writer' = [pc |-> "write", design |-> design, approval |-> handoff.approval]
    /\ UNCHANGED <<handoff, approvals, source, workVars, record, gateVars, request>>

\* write_handoff, for a new design or for a refresh of the current one, reads
\* the package before it ...
ReadHandoff ==
    /\ writer.pc = "none"
    /\ Outside
    /\ \E design \in {handoff.design, handoff.design + 1} :
          writer' = [pc |-> "write", design |-> design,
                     approval |-> IF design = handoff.design THEN handoff.approval ELSE 0]
    /\ UNCHANGED <<handoff, approvals, source, workVars, record, gateVars, request>>

\* ... and replaces it; a refresh finds the evidence changed or not.
WriteHandoff ==
    /\ writer.pc = "write"
    /\ \E flagged \in BOOLEAN :
          /\ flagged => writer.design = handoff.design
          /\ handoff' = [design |-> writer.design, approval |-> writer.approval,
                         flagged |-> flagged]
    /\ writer' = NoWriter
    /\ UNCHANGED <<approvals, source, workVars, record, gateVars, request, outside>>

(***************************************************************************)
(* Runs of the Technical Agent (technical/driver.py, tools.py, store.py)   *)
(***************************************************************************)
Busy == \E r \in Run : run[r].status = "running"

\* service.start_run: the design is approved and not flagged ...
AskRun(p) ==
    /\ Idle(p)
    /\ handoff.approval = handoff.design
    /\ ~handoff.flagged
    /\ Open(p, [NoRequest EXCEPT !.op = "run", !.pc = "start", !.rev = handoff.design])
    /\ UNCHANGED <<designVars, workVars, record, gateVars, outside>>

\* ... and, in store.start_run's transaction, no run is active.
StartRun(p, r) ==
    /\ At(p, "run", "start")
    /\ run[r].status = "none"
    /\ ~Busy
    /\ run' = [run EXCEPT ![r] = [IdleRun EXCEPT !.status = "running", !.pc = "work",
                                     !.design = request[p].rev, !.since = latest,
                                     !.expected = latest]]
    /\ Done(p)
    /\ UNCHANGED <<designVars, latest, package, record, gateVars, outside>>

RefuseRun(p) ==
    /\ At(p, "run", "start")
    /\ Busy \/ \A r \in Run : run[r].status # "none"
    /\ Done(p)
    /\ UNCHANGED <<designVars, workVars, record, gateVars, outside>>

\* The agent edits its copy of the newest export, or the copy it opened before;
\* submit numbers the content after the newest revision it finds.
Prepare(r) ==
    /\ run[r].pc = "work"
    /\ latest < MaxPackages
    /\ \E opened \in {source, run[r].source} \ {0} :
          run' = [run EXCEPT ![r].pc = "store", ![r].next = latest + 1, ![r].source = opened]
    /\ UNCHANGED <<designVars, latest, package, record, gateVars, request, outside>>

\* Broken variant: neither the run's status nor the revision it saw is compared.
MayStoreBlindly(r) == run[r].next = latest + 1

\* store_package: compare and set.
MayStore(r) ==
    /\ run[r].status = "running"
    /\ run[r].expected = latest
    /\ run[r].next = latest + 1

\* The new revision supersedes the one before.
StorePackage(r) ==
    /\ run[r].pc = "store"
    /\ MayStore(r)
    /\ latest' = run[r].next
    /\ package' = [n \in Revision |->
          IF n = run[r].next
          THEN [run |-> r, design |-> run[r].design, source |-> run[r].source,
                superseded |-> FALSE, change |-> FALSE]
          ELSE IF n = latest THEN [package[n] EXCEPT !.superseded = TRUE] ELSE package[n]]
    /\ run' = [run EXCEPT ![r].pc = "propose", ![r].expected = run[r].next]
    /\ UNCHANGED <<designVars, record, gateVars, request, outside>>

\* StaleSubmission: the late result is discarded.
DiscardPackage(r) ==
    /\ run[r].pc = "store"
    /\ ~MayStore(r)
    /\ run' = [run EXCEPT ![r].pc = "work"]
    /\ UNCHANGED <<designVars, latest, package, record, gateVars, request, outside>>

\* technical_gate.propose, then set_package_change ...
Propose(r) ==
    /\ run[r].pc = "propose"
    /\ record' = [record EXCEPT ![run[r].next].status = "pending"]
    /\ run' = [run EXCEPT ![r].pc = "link"]
    /\ UNCHANGED <<designVars, latest, package, gateVars, request, outside>>

\* ... unless the story is no longer approved: the revision has no change.
ProposeNothing(r) ==
    /\ run[r].pc = "propose"
    /\ ~stands
    /\ run' = [run EXCEPT ![r].pc = "work"]
    /\ UNCHANGED <<designVars, latest, package, record, gateVars, request, outside>>

LinkChange(r) ==
    /\ run[r].pc = "link"
    /\ package' = [package EXCEPT ![run[r].next].change = TRUE]
    /\ run' = [run EXCEPT ![r].pc = "work"]
    /\ UNCHANGED <<designVars, latest, record, gateVars, request, outside>>

\* finish_run, with a package, another outcome, or a failure; a settled run
\* keeps its status.
FinishRun(r) ==
    /\ run[r].pc = "work"
    /\ run' = [run EXCEPT ![r].pc = "none",
                          ![r].status = IF @ = "running" THEN "settled" ELSE @]
    /\ UNCHANGED <<designVars, latest, package, record, gateVars, request, outside>>

(***************************************************************************)
(* The approval of a package revision                                      *)
(***************************************************************************)

\* approve_package refuses a superseded revision on the row it reads.
AskPackageApproval(p, n) ==
    /\ Idle(p)
    /\ package[n].change /\ ~package[n].superseded
    /\ Open(p, [NoRequest EXCEPT !.op = "approve", !.pc = "decide", !.rev = n])
    /\ UNCHANGED <<designVars, workVars, record, gateVars, outside>>

\* binding.snapshot for a technical change.
Bindable(n) ==
    /\ ~record[n].invalid
    /\ package[n].design = handoff.design
    /\ handoff.approval = handoff.design
    /\ ~handoff.flagged

ApprovePackage(p) ==
    LET n == request[p].rev IN
    /\ At(p, "approve", "decide")
    /\ record' = IF record[n].status = "pending" /\ stands /\ Bindable(n)
                 THEN [record EXCEPT ![n].status = "approved", ![n].before = source]
                 ELSE record
    /\ Done(p)
    /\ UNCHANGED <<designVars, workVars, gateVars, outside>>

RejectPackage(n) ==
    /\ package[n].change
    /\ record[n].status = "pending"
    /\ record' = [record EXCEPT ![n].status = "rejected"]
    /\ UNCHANGED <<designVars, workVars, gateVars, request, outside>>

(***************************************************************************)
(* The milestones                                                          *)
(***************************************************************************)

\* authorise, of the package as it was read.
Authorised(n, superseded, milestone) ==
    /\ record[n].status = "approved"
    /\ stands
    /\ ~superseded
    /\ ~record[n].invalid
    /\ handoff.design = package[n].design
    /\ handoff.approval = handoff.design
    /\ milestone = "apply" => record[n].before = source /\ package[n].source = source

\* Broken variant: the verification does not wait for the activation.
ReachedInactive(n, milestone) ==
    CASE milestone = "apply" -> TRUE
      [] milestone = "build" -> record[n].write = "applied"
      [] milestone = "cnc" -> TRUE
      [] milestone = "verify" -> record[n].build = "built"

\* What a milestone asks of the ones before it, read before the lock.
Reached(n, milestone) ==
    CASE milestone = "apply" -> TRUE
      [] milestone = "build" -> record[n].write = "applied"
      [] milestone = "cnc" -> TRUE
      [] milestone = "verify" -> record[n].build = "built" /\ record[n].cnc

\* A person records a milestone: the package is read, the gate is asked.
AskMilestone(p, n, milestone) ==
    /\ Idle(p)
    /\ package[n].change
    /\ Authorised(n, package[n].superseded, milestone)
    /\ Reached(n, milestone)
    /\ Open(p, [op |-> milestone, pc |-> "record", rev |-> n,
                superseded |-> package[n].superseded])
    /\ UNCHANGED <<designVars, workVars, record, gateVars, outside>>

Block(n, milestone) ==
    CASE milestone = "apply" -> record[n].write
      [] milestone = "build" -> record[n].build
      [] milestone = "verify" -> record[n].test

\* Broken variant: the gate is not asked again inside the lock.
MayRecordUnchecked(p) == ~paused /\ Block(request[p].rev, request[p].op) = "ready"

\* execution.record, in the lock: not paused, the gate again, not done yet.
MayRecord(p) ==
    LET q == request[p] IN
    /\ ~paused
    /\ Authorised(q.rev, q.superseded, q.op)
    /\ Block(q.rev, q.op) = "ready"

RecordMilestone(p) ==
    LET n == request[p].rev IN
    /\ request[p].op \in {"apply", "build", "verify"} /\ request[p].pc = "record"
    /\ MayRecord(p)
    /\ \/ At(p, "apply", "record") /\ record' = [record EXCEPT ![n].write = "applied"] /\ Done(p)
       \/ /\ At(p, "build", "record")
          /\ \E outcome \in {"built", "failed"} : record' = [record EXCEPT ![n].build = outcome]
          /\ Done(p)
       \/ /\ At(p, "verify", "record")
          /\ record' = [record EXCEPT ![n].test = "completed"]
          /\ Goto(p, "results")
    /\ UNCHANGED <<designVars, workVars, gateVars, outside>>

RefuseMilestone(p) ==
    /\ request[p].op \in {"apply", "build", "verify"} /\ request[p].pc = "record"
    /\ ~MayRecord(p)
    /\ Done(p)
    /\ UNCHANGED <<designVars, workVars, record, gateVars, outside>>

\* The results of a verification are stored in a transaction of their own.
StoreResults(p) ==
    /\ At(p, "verify", "results")
    /\ \E result \in {"verified", "failed"} :
          record' = [record EXCEPT ![request[p].rev].verification = result]
    /\ Done(p)
    /\ UNCHANGED <<designVars, workVars, gateVars, outside>>

\* record_cnc_activation: in the lock only the build and the activation itself
\* are looked at.
MayActivate(p) == record[request[p].rev].build = "built" /\ ~record[request[p].rev].cnc

RecordActivation(p) ==
    /\ At(p, "cnc", "record")
    /\ record' = IF MayActivate(p)
                 THEN [record EXCEPT ![request[p].rev].cnc = TRUE] ELSE record
    /\ Done(p)
    /\ UNCHANGED <<designVars, workVars, gateVars, outside>>

(***************************************************************************)
(* The surroundings                                                        *)
(***************************************************************************)
\* A newer export of the object is uploaded ...
Upload ==
    /\ Outside
    /\ source' = source + 1
    /\ UNCHANGED <<handoff, approvals, writer, workVars, record, gateVars, request>>

\* ... which flags a design that rests on the older one ...
FlagHandoff ==
    /\ source > 1
    /\ ~handoff.flagged
    /\ handoff' = [handoff EXCEPT !.flagged = TRUE]
    /\ UNCHANGED <<approvals, writer, source, workVars, record, gateVars, request, outside>>

\* ... and invalidates the work that rests on the older one.
RecordInvalidation(n) ==
    /\ record[n].status \in {"pending", "approved"}
    /\ package[n].source < source
    /\ ~record[n].invalid
    /\ record' = [record EXCEPT ![n].invalid = TRUE]
    /\ UNCHANGED <<designVars, workVars, gateVars, request, outside>>

\* The approval expires, authority or scope changes; or writes are paused.
GateChanges ==
    /\ Outside
    /\ \/ stands' = ~stands /\ paused' = paused
       \/ paused' = ~paused /\ stands' = stands
    /\ UNCHANGED <<designVars, workVars, record, request>>

Failed(r) == IF run[r].status = "running" THEN "settled" ELSE run[r].status

\* Another instance restarts: every run still marked as running is failed.
MarkInterrupted ==
    /\ Outside
    /\ Busy
    /\ run' = [r \in Run |-> [run[r] EXCEPT !.status = Failed(r)]]
    /\ UNCHANGED <<designVars, latest, package, record, gateVars, request>>

\* This instance restarts: what it worked on is gone.
Crash ==
    /\ Outside
    /\ run' = [r \in Run |-> [run[r] EXCEPT !.status = Failed(r), !.pc = "none"]]
    /\ request' = [p \in Person |-> NoRequest]
    /\ writer' = NoWriter
    /\ UNCHANGED <<handoff, approvals, source, latest, package, record, gateVars>>

(***************************************************************************)
(* What the screens say comes next: every page asks services/lifecycle.py, *)
(* the Technical work screen also asks service.eligibility.                *)
(***************************************************************************)

\* _technical_facts: the record counts once the package names it.
CurrentRecord == IF package[latest].change THEN record[latest] ELSE NoRecord

\* Broken variant: the activation is taken for a part of the build.
AwaitsNobody(r) == FALSE

AwaitsActivation(r) == r.build = "built" /\ ~r.cnc

\* _technical_route from the package on: its approval, then the milestones.
StepOfRecord(r) ==
    CASE r.status \notin {"approved", "rejected"} -> "approve_package"
      [] r.status = "rejected" -> "prepare"
      [] r.status = "approved" /\ r.build = "failed" -> IF Busy THEN "none" ELSE "repair"
      [] r.status = "approved" /\ r.write # "applied" -> "apply"
      [] r.status = "approved" /\ r.write = "applied" /\ r.build = "ready" -> "build"
      [] r.status = "approved" /\ AwaitsActivation(r) -> "cnc"
      [] r.status = "approved" /\ r.build = "built" /\ ~AwaitsActivation(r) ->
            IF r.verification = "none" THEN "verify" ELSE "finalise_or_prepare"

\* _solution_onwards, _technical_route: the design is looked up in the table
\* of approvals, not on the hand-off.
Offered ==
    IF handoff.flagged THEN "rerun_solutioning"
    ELSE IF handoff.design \notin approvals THEN "approve_design"
    ELSE IF latest = 0 THEN (IF Busy THEN "none" ELSE "prepare")
    ELSE StepOfRecord(CurrentRecord)

\* next_milestone
NextMilestone(n) ==
    IF record[n].write # "applied" THEN "apply"
    ELSE IF record[n].build # "built" THEN "build"
    ELSE IF ~record[n].cnc THEN "cnc"
    ELSE IF record[n].test # "completed" THEN "verify" ELSE "none"

\* eligibility: never for the activation, which is the CNC operator's.
Eligible(n) ==
    /\ NextMilestone(n) \in {"apply", "build", "verify"}
    /\ Authorised(n, package[n].superseded, NextMilestone(n))
    /\ Block(n, NextMilestone(n)) = "ready"

DesignStep ==
    \/ ReadHandoff \/ WriteHandoff
    \/ \E p \in Person : AskDesignApproval(p) \/ InsertApproval(p) \/ SetApproval(p)

RunStep(r) ==
    \/ \E p \in Person : StartRun(p, r)
    \/ Prepare(r) \/ StorePackage(r) \/ DiscardPackage(r)
    \/ Propose(r) \/ ProposeNothing(r) \/ LinkChange(r) \/ FinishRun(r)

PersonStep(p) ==
    \/ AskRun(p) \/ RefuseRun(p) \/ ApprovePackage(p)
    \/ RecordMilestone(p) \/ RefuseMilestone(p) \/ StoreResults(p) \/ RecordActivation(p)
    \/ \E n \in Revision : AskPackageApproval(p, n)
    \/ \E n \in Revision, milestone \in Milestone : AskMilestone(p, n, milestone)

OutsideStep ==
    \/ Upload \/ FlagHandoff \/ GateChanges \/ MarkInterrupted \/ Crash
    \/ \E n \in Revision : RejectPackage(n) \/ RecordInvalidation(n)

Next == DesignStep \/ (\E r \in Run : RunStep(r)) \/ (\E p \in Person : PersonStep(p))
        \/ OutsideStep

Spec == Init /\ [][Next]_vars

(***************************************************************************)
(* Properties                                                              *)
(***************************************************************************)
\* No milestone without the one before it, although the earlier one is looked
\* at before the lock: nothing is built that is not checked in, nothing is
\* activated that is not built, nothing is verified that is not active.
MilestonesInOrder ==
    \A n \in Revision :
        /\ record[n].build # "ready" => record[n].write = "applied"
        /\ record[n].cnc => record[n].build = "built"
        /\ record[n].test = "completed" => record[n].cnc

\* A delayed result is never stored on top of newer work: the run that stores a
\* revision stored the one before, or began after it was stored (store_package).
RevisionsBuildOnEachOther ==
    \A n \in Revision : 1 < n /\ n <= latest =>
        LET r == package[n].run
        IN package[n - 1].run = r \/ run[r].since >= n - 1

\* A design approval on the hand-off is of that very design, and on record
\* (write_handoff, set_design_approval).
ApprovalOfThisDesign ==
    handoff.approval # 0 => handoff.approval = handoff.design /\ handoff.design \in approvals

\* Check-in, build and verification are stored only at a moment at which the
\* approval stands, its design is the approved design of the story, writes are
\* not paused, and nothing invalidated the package (execution.record).
RecordedUnderApproval ==
    [][\A n \in Revision :
         \/ record'[n].write # record[n].write
         \/ record'[n].build # record[n].build
         \/ record'[n].test # record[n].test
         => /\ record[n].status = "approved" /\ ~record[n].invalid
            /\ stands /\ ~paused
            /\ handoff.design = package[n].design /\ handoff.approval = handoff.design]_vars

\* The milestone every page offers is the one the work screen and the gate
\* are waiting for, as long as the gate is open: its predecessors are recorded
\* and it is not (_technical_route, eligibility, technical_gate.py).  Only a
\* verification is offered again while, or because, its results are missing:
\* they are stored after it, and a restart may come between.
OfferedIsPossible ==
    Offered \in Milestone /\ Authorised(latest, package[latest].superseded, Offered) =>
        \/ Reached(latest, Offered) /\ NextMilestone(latest) = Offered
              /\ (Offered = "cnc" \/ Eligible(latest))
        \/ /\ Offered = "verify" /\ record[latest].test = "completed"
           /\ outside > 0 \/ \E p \in Person : At(p, "verify", "results")

\* A person's approval of the current design stays with it (write_handoff).
\* It does not: approve_design copies it in a second transaction, and a
\* refresh may read the hand-off before and write it after.
ApprovalStays ==
    /\ writer = NoWriter
    /\ \A p \in Person : request[p].op # "design"
    /\ handoff.design \in approvals
    => handoff.approval = handoff.design
=============================================================================
