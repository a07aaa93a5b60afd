--------------------------- MODULE StoryGovernance ---------------------------
(***************************************************************************)
(* One change request from its analysis to the start of its solution:      *)
(* services/orchestration_driver.py writes and proposes the story,         *)
(* routers/domain_governance.py lets the Domain Owner and the Application  *)
(* Manager decide on it, mcp_server/backlog.py is the gate both decisions  *)
(* lead to, and the delivery queue and the Architect's run follow.         *)
(*                                                                         *)
(* The enhancement run, the story's backlog record, its link to the        *)
(* customer, the domain review, the queue entry and the Architect's run    *)
(* are documents of their own.  A decision re-reads the review under the   *)
(* store's lock and is one transaction over all of them.  Seeding a review *)
(* and filing an answer read the whole review, then write it back, in two. *)
(*                                                                         *)
(* Several hosts share the documents; each runs its own event loop.  A host *)
(* that dies loses its own work, one that starts recovers that of them all. *)
(*                                                                         *)
(* A text stands for the contents of a story.  Of the versions a review     *)
(* collects the model keeps who wrote the last one.                         *)
(***************************************************************************)
EXTENDS Integers

CONSTANTS
    Host,           \* API processes sharing the documents
    Slot,           \* requests and background runs that may be under way
    HostOf,         \* the host each of them runs on
    MaxText,        \* bound: texts told apart
    MaxAnalyses,    \* bound: analyses of the request
    MaxAnswers,     \* bound: questions asked about the story
    MaxRestart      \* bound: deaths of a host

ASSUME Bounds == \A n \in {MaxText, MaxAnalyses, MaxAnswers, MaxRestart} : n \in Nat

ASSUME SlotsHaveHosts == HostOf \in [Slot -> Host]

VARIABLES
    run,        \* the enhancement run
    backlog,    \* the record behind the gate
    linked,     \* the customer link: without it no customer sees the story
    review,     \* the domain review, all of the document that is decided on
    queued,     \* in the delivery queue
    arch,       \* the stage of the Architect's run
    calls,      \* what each slot is doing
    analyses,   \* analyses begun so far
    answers,    \* questions asked so far
    dead,       \* hosts that died and have not started again
    restarts,   \* deaths of a host so far
    verdict,    \* history: what the Domain Owner, or a reopening, said last
    undone      \* history: an answer wrote an older review over it

historyVars == <<verdict, undone>>
vars == <<run, backlog, linked, review, queued, arch, calls, analyses, answers, dead, restarts, historyVars>>

Text == 1 .. MaxText
NoText == 0

\* the enhancement run before its analysis; its stages between the first and
\* the last are in_progress
NoRun == [stage |-> "none", text |-> NoText, proposed |-> FALSE]

Stages == {"ready_for_domain_owner", "domain_owner_reviewing", "domain_owner_requested_revision",
           "reviewer_agent_refining", "ready_for_application_manager", "domain_owner_rejected",
           "application_manager_approved", "application_manager_rejected"}

Decision == {"none", "approved", "rejected"}

Reviews == [stage : Stages, placed : BOOLEAN, label : {"ai", "owner_edit", "reviewed"},
            owner : Decision, manager : Decision]
NoReview == [stage |-> "none"]

Idle == [kind |-> "none", pc |-> "idle", seen |-> NoReview]

Init ==
    /\ run = NoRun
    /\ backlog = [state |-> "none", text |-> NoText]
    /\ linked = FALSE
    /\ review = NoReview
    /\ queued = FALSE
    /\ arch = "none"
    /\ calls = [s \in Slot |-> Idle]
    /\ analyses = 0
    /\ answers = 0
    /\ dead = {}
    /\ restarts = 0
    /\ verdict = "none" /\ undone = FALSE

At(s, kind, pc) == calls[s].kind = kind /\ calls[s].pc = pc
Do(s, kind, pc) == calls' = [calls EXCEPT ![s] = [Idle EXCEPT !.kind = kind, !.pc = pc]]
GoTo(s, pc) == calls' = [calls EXCEPT ![s].pc = pc]
Done(s) == calls' = [calls EXCEPT ![s] = Idle]

\* a request is served, and a run started, by a host that is up
Free(s) == calls[s] = Idle /\ HostOf[s] \notin dead

\* Async endpoints and background runs of a host share its event loop: none of
\* them runs between the halves of an answer, or between the link and the
\* completion of an analysis.  Other endpoints have threads.
LoopIsFree(s) ==
    \A t \in Slot \ {s} :
        HostOf[t] = HostOf[s] => ~ At(t, "answer", "saving") /\ ~ At(t, "analysis", "linked")

---------------------------------------------------------------------------
(* What the customer is shown of the story. *)

\* get_for_customer: a promoted story counts only with its link, a request
\* has a story once a run has written one and did not fail
Visible == backlog.state # "none" => linked

ShownText ==
    CASE backlog.state # "none" /\ ~ (run.text # NoText /\ run.proposed) -> backlog.text
      [] backlog.state = "none" /\ run.stage = "failed" -> NoText
      [] OTHER -> run.text

HasStory == Visible /\ ShownText # NoText

\* _understand, before there is a story to review
AnalysisOwner == IF run.stage = "in_progress" THEN "jade" ELSE "product_manager"

\* _story_review
ReviewOwner ==
    CASE review = NoReview -> "product_manager"
      [] review.stage = "ready_for_domain_owner" /\ ~ review.placed -> "product_manager"
      [] review.stage = "ready_for_domain_owner" /\ review.placed -> "domain_owner"
      [] review.stage = "domain_owner_reviewing" -> "domain_owner"
      [] review.stage \in {"domain_owner_requested_revision", "reviewer_agent_refining"} -> "jade"
      [] review.stage = "ready_for_application_manager" -> "product_manager"
      [] OTHER -> "none"

\* _solution_onwards, as far as the Architect's run
SolutionOwner == IF arch = "in_progress" THEN "jade" ELSE "product_manager"

\* lifecycle.derive: who is asked to act next
NextOwner ==
    CASE backlog.state = "none" -> AnalysisOwner
      [] backlog.state = "BACKLOG_READY" -> ReviewOwner
      [] backlog.state = "APPROVED" -> SolutionOwner
      [] backlog.state \in {"REJECTED", "RESOLVED_WITHOUT_CHANGE"} -> "none"

---------------------------------------------------------------------------
(* Receive, Improve, Check. *)

\* enhance_change: the run is started later, by the background task, so two
\* presses may both find none in progress
PressEnhance(s) ==
    /\ LoopIsFree(s)
    /\ Free(s)
    /\ run.stage # "in_progress"
    /\ Visible
    /\ Do(s, "analysis", "queued")
    /\ UNCHANGED <<run, backlog, linked, review, queued, arch, analyses, answers, dead, restarts, historyVars>>

BeginAnalysis(s) ==
    /\ LoopIsFree(s)
    /\ At(s, "analysis", "queued")
    /\ analyses < MaxAnalyses
    /\ analyses' = analyses + 1
    /\ run' = [stage |-> "in_progress", text |-> NoText, proposed |-> FALSE]
    /\ GoTo(s, "running")
    /\ UNCHANGED <<backlog, linked, review, queued, arch, answers, dead, restarts, historyVars>>

\* the next of the run's agents starts, whatever another run of the request recorded
NextAgent(s) ==
    /\ LoopIsFree(s)
    /\ At(s, "analysis", "running")
    /\ run' = [run EXCEPT !.stage = "in_progress"]
    /\ UNCHANGED <<backlog, linked, review, queued, arch, calls, analyses, answers, dead, restarts, historyVars>>

\* propose_to_backlog, called by the Check Agent with the text it chooses;
\* refused when there is a record
Propose(s) ==
    /\ LoopIsFree(s)
    /\ At(s, "analysis", "running")
    /\ backlog.state = "none"
    /\ \E text \in Text : backlog' = [state |-> "BACKLOG_READY", text |-> text]
    /\ UNCHANGED <<run, linked, review, queued, arch, calls, analyses, answers, dead, restarts, historyVars>>

\* The agents' last message says that the story was proposed, and under which
\* id: that story is linked, be it this one or not, and be it in the backlog or not.
LinkStory(s) ==
    /\ LoopIsFree(s)
    /\ At(s, "analysis", "running")
    /\ linked' \in {linked, TRUE}
    /\ GoTo(s, "linked")
    /\ UNCHANGED <<run, backlog, review, queued, arch, analyses, answers, dead, restarts, historyVars>>

\* complete, with the story the message tells
FinishAnalysis(s) ==
    /\ LoopIsFree(s)
    /\ calls[s].kind = "analysis" /\ calls[s].pc \in {"running", "linked"}
    /\ \E told \in Text : run' = [stage |-> "done", text |-> told, proposed |-> calls[s].pc = "linked"]
    /\ Done(s)
    /\ UNCHANGED <<backlog, linked, review, queued, arch, analyses, answers, dead, restarts, historyVars>>

\* any error, of the message's story too: a story proposed before it may stay
\* without its link
FailAnalysis(s) ==
    /\ LoopIsFree(s)
    /\ calls[s].kind = "analysis" /\ calls[s].pc \in {"running", "linked"}
    /\ run' = [run EXCEPT !.stage = "failed"]
    /\ Done(s)
    /\ UNCHANGED <<backlog, linked, review, queued, arch, analyses, answers, dead, restarts, historyVars>>

---------------------------------------------------------------------------
(* The domain review, seeded on the first look at a story. *)

\* ensure, first half: there is no review yet
SeedReview(s) ==
    /\ Free(s)
    /\ HasStory /\ review = NoReview
    /\ Do(s, "seed", "saving")
    /\ UNCHANGED <<run, backlog, linked, review, queued, arch, analyses, answers, dead, restarts, historyVars>>

SaveSeed(s) ==
    /\ At(s, "seed", "saving")
    /\ review' = [stage |-> "ready_for_domain_owner", placed |-> FALSE, label |-> "ai",
                  owner |-> "none", manager |-> "none"]
    /\ Done(s)
    /\ UNCHANGED <<run, backlog, linked, queued, arch, analyses, answers, dead, restarts, historyVars>>

\* what DomainReviewService stores: a stage, a version with its author, a decision
WithStage(stage) == [review EXCEPT !.stage = stage]
WithPlace(sure) == [review EXCEPT !.placed = sure]
WithVersion(label, stage) == [WithStage(stage) EXCEPT !.label = label]
OwnerDecides(decision, stage) == [WithStage(stage) EXCEPT !.owner = decision]
ManagerDecides(decision, stage) == [WithStage(stage) EXCEPT !.manager = decision]

\* _transition: the stage is read again under the lock, with the caller's authority
InStage(stages) == HasStory /\ review # NoReview /\ review.stage \in stages

AssignDomain ==
    /\ InStage({"ready_for_domain_owner"})
    /\ \E sure \in BOOLEAN : review' = WithPlace(sure)
    /\ UNCHANGED <<run, backlog, linked, queued, arch, calls, analyses, answers, dead, restarts, historyVars>>

StartReview ==
    /\ InStage({"ready_for_domain_owner"}) /\ review.placed
    /\ review' = WithStage("domain_owner_reviewing")
    /\ UNCHANGED <<run, backlog, linked, queued, arch, calls, analyses, answers, dead, restarts, historyVars>>

\* Broken variant: the review stays open while the Reviewer Agent runs.
SubmitEditUnclaimed(s) ==
    /\ LoopIsFree(s)
    /\ Free(s)
    /\ InStage({"domain_owner_reviewing"}) /\ review.placed
    /\ review' = WithVersion("owner_edit", review.stage)
    /\ Do(s, "edit", "running")
    /\ UNCHANGED <<run, backlog, linked, queued, arch, analyses, answers, dead, restarts, historyVars>>

\* submit_domain_owner_edit claims the review before the Reviewer Agent runs
SubmitEdit(s) ==
    /\ LoopIsFree(s)
    /\ Free(s)
    /\ InStage({"domain_owner_reviewing"}) /\ review.placed
    /\ review' = WithVersion("owner_edit", "reviewer_agent_refining")
    /\ Do(s, "edit", "running")
    /\ UNCHANGED <<run, backlog, linked, queued, arch, analyses, answers, dead, restarts, historyVars>>

\* the agent is switched off, or fails with another error than its own
AbandonEdit(s) ==
    /\ LoopIsFree(s)
    /\ At(s, "edit", "running")
    /\ Done(s)
    /\ UNCHANGED <<run, backlog, linked, review, queued, arch, analyses, answers, dead, restarts, historyVars>>

FailEdit(s) ==
    /\ LoopIsFree(s)
    /\ At(s, "edit", "running")
    /\ review' = WithStage("domain_owner_requested_revision")
    /\ Done(s)
    /\ UNCHANGED <<run, backlog, linked, queued, arch, analyses, answers, dead, restarts, historyVars>>

\* the reviewed version is stored only while the review waits for it
ReviewEdit(s) ==
    /\ LoopIsFree(s)
    /\ At(s, "edit", "running")
    /\ review.stage = "reviewer_agent_refining"
    /\ review' = WithVersion("reviewed", "domain_owner_reviewing")
    /\ Done(s)
    /\ UNCHANGED <<run, backlog, linked, queued, arch, analyses, answers, dead, restarts, historyVars>>

\* ask_about_requirement_endpoint: the answer is filed with a copy of the review
Ask(s) ==
    /\ LoopIsFree(s)
    /\ Free(s)
    /\ answers < MaxAnswers
    /\ answers' = answers + 1
    /\ HasStory /\ review # NoReview
    /\ Do(s, "answer", "running")
    /\ UNCHANGED <<run, backlog, linked, review, queued, arch, analyses, dead, restarts, historyVars>>

FailAnswer(s) ==
    /\ LoopIsFree(s)
    /\ At(s, "answer", "running")
    /\ Done(s)
    /\ UNCHANGED <<run, backlog, linked, review, queued, arch, analyses, answers, dead, restarts, historyVars>>

ReadForAnswer(s) ==
    /\ LoopIsFree(s)
    /\ At(s, "answer", "running")
    /\ calls' = [calls EXCEPT ![s].pc = "saving", ![s].seen = review]
    /\ UNCHANGED <<run, backlog, linked, review, queued, arch, analyses, answers, dead, restarts, historyVars>>

SaveAnswer(s) ==
    /\ At(s, "answer", "saving")
    /\ review' = calls[s].seen
    /\ undone' = (undone \/ review # calls[s].seen)
    /\ Done(s)
    /\ UNCHANGED <<run, backlog, linked, queued, arch, analyses, answers, dead, restarts, verdict>>

---------------------------------------------------------------------------
(* Decisions: one transaction each, over the review, the backlog record    *)
(* and the queue.                                                          *)

\* Broken variant: an approved story may be rejected.
AllowedBack(state) == IF state \in {"BACKLOG_READY", "APPROVED"} THEN {"APPROVED", "REJECTED"} ELSE {}

\* _ALLOWED_TRANSITIONS; anything else raises and rolls the transaction back
Allowed(state) ==
    CASE state = "BACKLOG_READY" -> {"APPROVED", "REJECTED"}
      [] state = "APPROVED" -> {"RESOLVED_WITHOUT_CHANGE"}
      [] OTHER -> {}

SetState(state) == state \in Allowed(backlog.state) /\ backlog' = [backlog EXCEPT !.state = state]

\* delivery_queue_service.add, once however often
AddToQueue == queued' = TRUE

\* history: the Domain Owner's word stands until the next, or until it is undone
Says(word) == verdict' = word /\ undone' = FALSE

OwnerApproves ==
    /\ InStage({"domain_owner_reviewing"}) /\ review.placed
    /\ review' = OwnerDecides("approved", "ready_for_application_manager")
    /\ Says("approved")
    /\ UNCHANGED <<run, backlog, linked, queued, arch, calls, analyses, answers, dead, restarts>>

OwnerRejects ==
    /\ InStage({"domain_owner_reviewing"}) /\ review.placed
    /\ review' = OwnerDecides("rejected", "domain_owner_rejected")
    /\ Says("rejected")
    /\ UNCHANGED <<run, backlog, linked, queued, arch, calls, analyses, answers, dead, restarts>>

RequestReconsideration ==
    /\ InStage({"ready_for_application_manager", "application_manager_approved"})
    /\ review' = WithStage("domain_owner_reviewing")
    /\ Says("reopened")
    /\ UNCHANGED <<run, backlog, linked, queued, arch, calls, analyses, answers, dead, restarts>>

\* Broken variant: a review reopened for the Domain Owner can still be authorised.
ManagerApprovesReopened(s) ==
    /\ Free(s)
    /\ InStage({"ready_for_application_manager", "domain_owner_reviewing"})
    /\ review' = ManagerDecides("approved", "application_manager_approved")
    /\ SetState("APPROVED")
    /\ AddToQueue
    /\ Do(s, "architect", "queued")
    /\ UNCHANGED <<run, linked, arch, analyses, answers, dead, restarts, historyVars>>

\* the Architect's run is a background task of the approval, or is recorded
\* as failed when the agent is switched off
ManagerApproves(s) ==
    /\ Free(s)
    /\ InStage({"ready_for_application_manager"})
    /\ review' = ManagerDecides("approved", "application_manager_approved")
    /\ SetState("APPROVED")
    /\ AddToQueue
    /\ \/ Do(s, "architect", "queued") /\ UNCHANGED arch
       \/ arch' = "failed" /\ UNCHANGED calls
    /\ UNCHANGED <<run, linked, analyses, answers, dead, restarts, historyVars>>

ManagerRejects ==
    /\ InStage({"ready_for_application_manager"})
    /\ review' = ManagerDecides("rejected", "application_manager_rejected")
    /\ SetState("REJECTED")
    /\ UNCHANGED <<run, linked, queued, arch, calls, analyses, answers, dead, restarts, historyVars>>

---------------------------------------------------------------------------
(* The Architect. *)

\* start_architecture_review, by hand, on a queued story
PressArchitect(s) ==
    /\ Free(s)
    /\ queued /\ arch # "in_progress"
    /\ Do(s, "architect", "queued")
    /\ UNCHANGED <<run, backlog, linked, review, queued, arch, analyses, answers, dead, restarts, historyVars>>

BeginArchitect(s) ==
    /\ LoopIsFree(s)
    /\ At(s, "architect", "queued")
    /\ arch' = "in_progress"
    /\ GoTo(s, "running")
    /\ UNCHANGED <<run, backlog, linked, review, queued, analyses, answers, dead, restarts, historyVars>>

\* the agent has read the approved story, and may have resolved it
FinishArchitect(s) ==
    /\ LoopIsFree(s)
    /\ At(s, "architect", "running")
    /\ backlog.state \in {"APPROVED", "RESOLVED_WITHOUT_CHANGE"}
    /\ arch' = "done"
    /\ Done(s)
    /\ UNCHANGED <<run, backlog, linked, review, queued, analyses, answers, dead, restarts, historyVars>>

FailArchitect(s) ==
    /\ LoopIsFree(s)
    /\ At(s, "architect", "running")
    /\ arch' = "failed"
    /\ Done(s)
    /\ UNCHANGED <<run, backlog, linked, review, queued, analyses, answers, dead, restarts, historyVars>>

\* a tool of the running agent
ResolveWithoutChange(s) ==
    /\ At(s, "architect", "running")
    /\ SetState("RESOLVED_WITHOUT_CHANGE")
    /\ UNCHANGED <<run, linked, review, queued, arch, calls, analyses, answers, dead, restarts, historyVars>>

---------------------------------------------------------------------------
FailIfRunning(stage) == IF stage = "in_progress" THEN "failed" ELSE stage

\* a host dies with what it was doing
HostDies(h) ==
    /\ h \notin dead /\ restarts < MaxRestart
    /\ dead' = dead \cup {h}
    /\ restarts' = restarts + 1
    /\ calls' = [s \in Slot |-> IF HostOf[s] = h THEN Idle ELSE calls[s]]
    /\ UNCHANGED <<run, backlog, linked, review, queued, arch, analyses, answers, historyVars>>

\* Broken variant: nothing looks for interrupted runs.
HostStartsBlind(h) ==
    /\ h \in dead
    /\ dead' = dead \ {h}
    /\ UNCHANGED <<run, backlog, linked, review, queued, arch, calls, analyses, answers, restarts, historyVars>>

\* reconcile_interrupted_runs fails whatever is in progress, on another host
\* too, and does not look at reviews
HostStarts(h) ==
    /\ h \in dead
    /\ dead' = dead \ {h}
    /\ run' = [run EXCEPT !.stage = FailIfRunning(run.stage)]
    /\ arch' = FailIfRunning(arch)
    /\ UNCHANGED <<backlog, linked, review, queued, calls, analyses, answers, restarts, historyVars>>

\* what a slot does on its own once it was asked
Runs(s) ==
    \/ FinishAnalysis(s) \/ FailAnalysis(s)
    \/ SaveSeed(s)
    \/ AbandonEdit(s) \/ FailEdit(s) \/ ReviewEdit(s)
    \/ FailAnswer(s) \/ ReadForAnswer(s) \/ SaveAnswer(s)
    \/ BeginArchitect(s) \/ FinishArchitect(s) \/ FailArchitect(s)

Requests(s) ==
    \/ PressEnhance(s) \/ SeedReview(s) \/ SubmitEdit(s) \/ Ask(s)
    \/ ManagerApproves(s) \/ PressArchitect(s)

Decisions ==
    \/ AssignDomain \/ StartReview \/ OwnerApproves \/ OwnerRejects
    \/ RequestReconsideration \/ ManagerRejects

Next ==
    \/ \E s \in Slot :
         \/ Requests(s) \/ Runs(s)
         \/ BeginAnalysis(s) \/ NextAgent(s) \/ Propose(s) \/ LinkStory(s) \/ ResolveWithoutChange(s)
    \/ Decisions
    \/ \E h \in Host : HostDies(h) \/ HostStarts(h)

Spec == Init /\ [][Next]_vars

\* The event loop is first come, first served, and an agent's run ends: it has
\* a number of turns and its provider's timeouts.  The platform starts a host
\* that died again.
FairSpec ==
    /\ Spec
    /\ \A s \in Slot : SF_vars(Runs(s))
    /\ \A h \in Host : WF_vars(HostStarts(h))

---------------------------------------------------------------------------
\* The copies of the review that exist: the stored one, and one an answer holds.
Copies == {review} \cup {calls[s].seen : s \in Slot}

\* A Domain Owner's own edit is never what a decision is about: whatever a
\* late answer writes back, a review that can be approved, or was, ends with
\* a version the Reviewer Agent has seen (submit_domain_owner_edit).
ApprovedAsReviewed ==
    \A r \in Copies \cap Reviews :
        \/ r.label # "owner_edit"
        \/ r.stage \in {"reviewer_agent_refining", "domain_owner_requested_revision"}

\* The review never says something of the Application Manager's decision that
\* the gate does not: approved reviews have a story past the gate and in the
\* queue, rejected ones a rejected story that is not in it.
DecisionsAgree ==
    /\ \A r \in Copies \cap Reviews :
         /\ r.manager = "approved" => backlog.state \in {"APPROVED", "RESOLVED_WITHOUT_CHANGE"}
         /\ r.manager = "rejected" => backlog.state = "REJECTED"
    /\ queued <=> backlog.state \in {"APPROVED", "RESOLVED_WITHOUT_CHANGE"}

\* services/change_service.py overlays what a run recorded "for presentation,
\* never a source of truth of its own": the story people are shown of one in the
\* backlog is the text that is in the backlog.
ShownAsProposed == backlog.state # "none" => ShownText = backlog.text

\* Only the Application Manager lets a story past the gate, and only while the
\* Domain Owner's last word is an approval: neither a rejection nor a reopening
\* came after it, unless an answer under way meanwhile wrote the older review
\* back (application_manager_approve, request_reconsideration).
AuthorisedByBoth ==
    [][backlog.state # "APPROVED" /\ backlog'.state = "APPROVED" =>
         /\ review'.manager = "approved"
         /\ verdict = "approved" \/ undone]_vars

\* domain_review_service.py calls the Domain Owner's rejection terminal, "this
\* requirement should not proceed at all": no story passes the gate after it.
RejectionIsFinal ==
    [][backlog.state # "APPROVED" /\ backlog'.state = "APPROVED" => verdict # "rejected"]_vars

\* No analysis is shown as running for ever, through restarts too, and what
\* lifecycle.py gives to JADE goes on to somebody else or to the story's review.
RunsEnd ==
    /\ run.stage = "in_progress" ~> run.stage # "in_progress"
    /\ NextOwner = "jade" ~> NextOwner # "jade" \/ backlog.state = "BACKLOG_READY"

\* services/lifecycle.py says of a review being refined that JADE is revising
\* the story; then it is JADE's turn to end.
JadeLetsGo == NextOwner = "jade" ~> NextOwner # "jade"

\* A story in the backlog is sooner or later on its customer's list.
ProposedIsSeen == backlog.state = "BACKLOG_READY" ~> linked
=============================================================================
