---------------------------- MODULE StoryProcess ----------------------------
(***************************************************************************)
(* The business process of one story: process/framework.py (versions of    *)
(* the imported framework), story.py (analysis, mapping decisions, design  *)
(* flags), maps.py (process maps), refinement.py (findings applied to the  *)
(* story) and what discovery/baseline.py records of it with a design.      *)
(*                                                                         *)
(* A person decides on a page: the revision the page showed comes back     *)
(* with the request and is compared under the lock.  What follows from a   *)
(* decision, the Architect's copy of the story and the flag on the design, *)
(* is written afterwards, in transactions of their own.                    *)
(*                                                                         *)
(* Several instances of the service share the database.  One that dies     *)
(* loses its own work; one that starts recovers the work of all of them.   *)
(***************************************************************************)
EXTENDS Integers, FiniteSets

CONSTANTS
    Instance,       \* API processes sharing the database
    Worker,         \* requests and background runs that may be under way
    Home,           \* the instance each of them is served by
    Node,           \* nodes a framework version may have
    Wording,        \* contents of a node, as its checksum tells them apart
    Finding,        \* findings the agents may produce
    MaxVersion,     \* bound: framework versions
    MaxRequests,    \* bound: requests, together
    MaxDeaths       \* bound: deaths of an instance

ASSUME ProcessBounds ==
    \A n \in {MaxVersion, MaxRequests, MaxDeaths} : n \in Nat

ASSUME HomesAreInstances == Home \in [Worker -> Instance]

VARIABLES
    versions,   \* the framework's versions
    mapping,    \* the story's current mapping decision
    pinned,     \* every reference a mapping or an analysis has recorded
    map,        \* the latest version of the process map
    running,    \* workers whose analysis of the story is recorded as running
    analysed,   \* some analysis is recorded as completed
    findings,   \* status of each finding
    story,      \* the latest story revision: its number, the findings in it
    copy,       \* the Architect's, behind the gate: approved, the revision of its text
    design,     \* the current evidence baseline
    work,       \* what each worker is doing
    down,       \* instances that died and have not started again
    requests,   \* requests made so far
    deaths      \* deaths of an instance so far

processVars == <<versions, mapping, pinned, map, running, analysed, findings, story, copy, design, work, requests, down, deaths>>

Version == 1 .. MaxVersion
Absent == "absent"
ASSUME AbsentIsNoWording == Absent \notin Wording

NoRef == [version |-> 0]

\* fingerprint, and the part of it a material change touches
Fingerprint == [mapping |-> mapping.rev, map |-> map.version]
ProcessNow == [mapping |-> mapping.rev, map |-> map.material]

NoWork == [kind |-> "none", pc |-> "idle"]
Doing(s, kind, pc) == Home[s] \notin down /\ work[s].kind = kind /\ work[s].pc = pc
Become(s, call) == work' = [work EXCEPT ![s] = call]
EndWork(s) == Become(s, NoWork)

Request == requests < MaxRequests /\ requests' = requests + 1
Opens(s) == Home[s] \notin down /\ work[s] = NoWork /\ Request

ProcessInit ==
    /\ versions = [v \in Version |-> [status |-> "none", nodes |-> [n \in Node |-> Absent]]]
    /\ mapping = [rev |-> 0, ref |-> NoRef]
    /\ pinned = {}
    /\ map = [version |-> 0, material |-> 0]
    /\ running = {} /\ analysed = FALSE /\ down = {}
    /\ findings = [f \in Finding |-> "none"]
    /\ story = [rev |-> 0, has |-> {}]
    /\ copy = [approved |-> FALSE, rev |-> 0]
    /\ design = [number |-> 0, recorded |-> Fingerprint, consulted |-> ProcessNow, status |-> "none"]
    /\ work = [s \in Worker |-> NoWork]
    /\ requests = 0 /\ deaths = 0

---------------------------------------------------------------------------
(* The framework. *)

InStatus(status) == {v \in Version : versions[v].status = status}

\* create_draft, and remap: the draft is replaced under its own number,
\* otherwise the next number is taken
CreateDraft ==
    /\ Request
    /\ \E nodes \in [Node -> {Absent} \cup Wording], v \in Version :
         /\ v = IF InStatus("draft") # {} THEN CHOOSE d \in InStatus("draft") : TRUE
                ELSE Cardinality(Version \ InStatus("none")) + 1
         /\ versions' = [versions EXCEPT ![v] = [status |-> "draft", nodes |-> nodes]]
    /\ UNCHANGED <<mapping, pinned, map, running, analysed, findings, story, copy, design, work, down, deaths>>

\* activate, of a draft without blocking issues; on_framework_activated follows
Activate(s) ==
    /\ Opens(s)
    /\ \E v \in InStatus("draft") :
         /\ versions' = [w \in Version |->
              IF w = v THEN [versions[w] EXCEPT !.status = "active"]
              ELSE IF versions[w].status = "active" THEN [versions[w] EXCEPT !.status = "superseded"]
              ELSE versions[w]]
    /\ Become(s, [kind |-> "activate", pc |-> "compare"])
    /\ UNCHANGED <<mapping, pinned, map, running, analysed, findings, story, copy, design, down, deaths>>

Active == InStatus("active")

\* ref_status: "changed" or "removed" in the active version
Differs(ref) ==
    /\ ref # NoRef
    /\ \E v \in Active : v # ref.version /\ versions[v].nodes[ref.node] # ref.sha

---------------------------------------------------------------------------
(* References, the analysis, and the mapping decision. *)

\* Broken variant: any stored version can be referenced.
AnyStored(v) == versions[v].status # "none"

\* a version that can be referenced: stored and no draft
Pinnable(v) == versions[v].status \in {"active", "superseded"}

\* pin: the node exists in that version, its checksum is kept with it
Pins == {p \in [version : Version, node : Node, sha : Wording] :
            Pinnable(p.version) /\ versions[p.version].nodes[p.node] = p.sha}

\* Broken variant: nobody looks whether an analysis is running.
StartBeside(s) ==
    /\ Opens(s)
    /\ Active # {}
    /\ running' = running \cup {s}
    /\ \E v \in Active : Become(s, [kind |-> "analysis", pc |-> "running", version |-> v])
    /\ UNCHANGED <<versions, mapping, pinned, map, analysed, findings, story, copy, design, down, deaths>>

\* start_analysis: one recorded as running per story, against the active version
StartAnalysis(s) ==
    /\ Opens(s)
    /\ Active # {} /\ running = {}
    /\ running' = {s}
    /\ \E v \in Active : Become(s, [kind |-> "analysis", pc |-> "running", version |-> v])
    /\ UNCHANGED <<versions, mapping, pinned, map, analysed, findings, story, copy, design, down, deaths>>

\* finish_analysis with normalise_findings: only nodes of the run's version stay.
\* The run's own record is written whatever it says by now.
FinishProcessAnalysis(s) ==
    /\ Doing(s, "analysis", "running")
    /\ \E refs \in SUBSET {p \in Pins : p.version = work[s].version} : pinned' = pinned \cup refs
    /\ running' = running \ {s}
    /\ analysed' = TRUE
    /\ EndWork(s)
    /\ UNCHANGED <<versions, mapping, map, findings, story, copy, design, requests, down, deaths>>

FailProcessAnalysis(s) ==
    /\ Doing(s, "analysis", "running")
    /\ running' = running \ {s}
    /\ EndWork(s)
    /\ UNCHANGED <<versions, mapping, pinned, map, analysed, findings, story, copy, design, requests, down, deaths>>

\* the page a reviewer decides on
OpenMapping(s) ==
    /\ Opens(s)
    /\ Become(s, [kind |-> "decide", pc |-> "page", seen |-> mapping.rev])
    /\ UNCHANGED <<versions, mapping, pinned, map, running, analysed, findings, story, copy, design, down, deaths>>

\* The request pins its reference and compares under the lock.  A version that
\* can be pinned never changes, so the two are one step; no mapping has no pin.
Decide(s) ==
    /\ Doing(s, "decide", "page")
    /\ IF mapping.rev = work[s].seen
         THEN /\ \E ref \in Pins \cup {NoRef} :
                   /\ mapping' = [rev |-> mapping.rev + 1, ref |-> ref]
                   /\ pinned' = pinned \cup ({ref} \ {NoRef})
              /\ Become(s, [kind |-> "decide", pc |-> "compare"])
         ELSE EndWork(s) /\ UNCHANGED <<mapping, pinned>>
    /\ UNCHANGED <<versions, map, running, analysed, findings, story, copy, design, requests, down, deaths>>

---------------------------------------------------------------------------
(* The process map: a wording-only version is stored, and flags nothing. *)

OpenMap(s) ==
    /\ Opens(s)
    /\ Become(s, [kind |-> "map", pc |-> "page", seen |-> map.version])
    /\ UNCHANGED <<versions, mapping, pinned, map, running, analysed, findings, story, copy, design, down, deaths>>

SaveMap(s) ==
    /\ Doing(s, "map", "page")
    /\ IF map.version = work[s].seen
         THEN \E material \in BOOLEAN :
                /\ map.version = 0 => material
                /\ map' = [version |-> map.version + 1,
                           material |-> IF material THEN map.version + 1 ELSE map.material]
                /\ IF material THEN Become(s, [kind |-> "map", pc |-> "compare"]) ELSE EndWork(s)
         ELSE EndWork(s) /\ UNCHANGED map
    /\ UNCHANGED <<versions, mapping, pinned, running, analysed, findings, story, copy, design, requests, down, deaths>>

---------------------------------------------------------------------------
(* Findings applied to the story. *)

Open == {"proposed"}

\* sync_findings, as the page is read: what analyses and designs found since;
\* it may repeat what was applied
SyncFindings ==
    /\ analysed \/ design.number > 0
    /\ \E new \in SUBSET {f \in Finding : findings[f] = "none"}, status \in {"proposed", "duplicate"} :
         /\ new # {}
         /\ status = "duplicate" => story.has # {}
         /\ findings' = [f \in Finding |-> IF f \in new THEN status ELSE findings[f]]
    /\ UNCHANGED <<versions, mapping, pinned, map, running, analysed, story, copy, design, work, requests, down, deaths>>

\* set_status: never of an applied finding; a deferred one is still open
SetStatus ==
    /\ \E f \in Finding, status \in {"rejected", "proposed"} :
         /\ findings[f] \notin {"none", "applied"}
         /\ findings' = [findings EXCEPT ![f] = status]
    /\ UNCHANGED <<versions, mapping, pinned, map, running, analysed, story, copy, design, work, requests, down, deaths>>

\* the diff a reviewer was shown, for the findings they selected
OpenRefinement(s) ==
    /\ Opens(s)
    /\ \E chosen \in SUBSET {f \in Finding : findings[f] \in Open} :
         /\ chosen # {}
         /\ Become(s, [kind |-> "apply", pc |-> "page", seen |-> story.rev, chosen |-> chosen])
    /\ UNCHANGED <<versions, mapping, pinned, map, running, analysed, findings, story, copy, design, down, deaths>>

\* refinement_apply reads the story it will extend before the lock
ReadStory(s) ==
    /\ Doing(s, "apply", "page")
    /\ Become(s, [kind |-> "apply", pc |-> "read", seen |-> work[s].seen, chosen |-> work[s].chosen,
                  current |-> story.has])
    /\ UNCHANGED <<versions, mapping, pinned, map, running, analysed, findings, story, copy, design, requests, down, deaths>>

\* Broken variant: the revision the page showed is not compared.
LastPageWins(s) == \E f \in work[s].chosen : findings[f] \notin Open

\* apply: refused on an older page, or for a finding decided on meanwhile
Refused(s) == story.rev # work[s].seen \/ \E f \in work[s].chosen : findings[f] \notin Open

\* apply: the story as it was before is kept as the first revision
Apply(s) ==
    /\ Doing(s, "apply", "read")
    /\ IF Refused(s)
         THEN EndWork(s) /\ UNCHANGED <<story, findings>>
         ELSE LET rev == IF story.rev = 0 THEN 2 ELSE story.rev + 1 IN
              /\ story' = [rev |-> rev, has |-> work[s].current \cup work[s].chosen]
              /\ findings' = [f \in Finding |-> IF f \in work[s].chosen THEN "applied" ELSE findings[f]]
              /\ Become(s, [kind |-> "apply", pc |-> "copy", rev |-> rev])
    /\ UNCHANGED <<versions, mapping, pinned, map, running, analysed, copy, design, requests, down, deaths>>

\* _after_revision: record_story_revision refuses a story that is not approved
CopyToBacklog(s) ==
    /\ Doing(s, "apply", "copy")
    /\ IF copy.approved
         THEN /\ copy' = [copy EXCEPT !.rev = work[s].rev]
              /\ Become(s, [kind |-> "apply", pc |-> "compare"])
         ELSE EndWork(s) /\ UNCHANGED copy
    /\ UNCHANGED <<versions, mapping, pinned, map, running, analysed, findings, story, design, requests, down, deaths>>

\* StoryGovernance models the way to this approval
ApproveStory ==
    /\ ~ copy.approved
    /\ copy' = [copy EXCEPT !.approved = TRUE]
    /\ UNCHANGED <<versions, mapping, pinned, map, running, analysed, findings, story, design, work, requests, down, deaths>>

---------------------------------------------------------------------------
(* The design and its flag. *)

\* get_process_context, once during the Architect's run
Consult(s) ==
    /\ Opens(s)
    /\ copy.approved
    /\ Become(s, [kind |-> "design", pc |-> "working", consulted |-> ProcessNow])
    /\ UNCHANGED <<versions, mapping, pinned, map, running, analysed, findings, story, copy, design, down, deaths>>

\* create_for_design takes the fingerprint when the run has ended, then stores
Describe(s) ==
    /\ Doing(s, "design", "working")
    /\ Become(s, [kind |-> "design", pc |-> "storing", consulted |-> work[s].consulted,
                  recorded |-> Fingerprint])
    /\ UNCHANGED <<versions, mapping, pinned, map, running, analysed, findings, story, copy, design, requests, down, deaths>>

StoreDesign(s) ==
    /\ Doing(s, "design", "storing")
    /\ design' = [number |-> design.number + 1, recorded |-> work[s].recorded,
                  consulted |-> work[s].consulted, status |-> "current"]
    /\ EndWork(s)
    /\ UNCHANGED <<versions, mapping, pinned, map, running, analysed, findings, story, copy, requests, down, deaths>>

FailDesign(s) ==
    /\ Doing(s, "design", "working")
    /\ EndWork(s)
    /\ UNCHANGED <<versions, mapping, pinned, map, running, analysed, findings, story, copy, design, requests, down, deaths>>

\* flag_designs_if_material for a mapping or a map, on_framework_activated for
\* a version, always for a story revision
Material(kind) ==
    CASE kind \in {"decide", "map"} -> design.recorded # Fingerprint
      [] kind = "activate" -> Differs(mapping.ref)
      [] kind = "apply" -> TRUE

Compare(s) ==
    /\ work[s].pc = "compare"
    /\ IF design.number > 0 /\ Material(work[s].kind)
         THEN Become(s, [kind |-> work[s].kind, pc |-> "flag", design |-> design.number])
         ELSE EndWork(s)
    /\ UNCHANGED <<versions, mapping, pinned, map, running, analysed, findings, story, copy, design, requests, down, deaths>>

\* _flag: nothing, when the design was superseded meanwhile
Flag(s) ==
    /\ work[s].pc = "flag"
    /\ design' = IF design.number = work[s].design THEN [design EXCEPT !.status = "needs_reassessment"]
                 ELSE design
    /\ EndWork(s)
    /\ UNCHANGED <<versions, mapping, pinned, map, running, analysed, findings, story, copy, requests, down, deaths>>

\* refresh: a new baseline with the old context, flagged when that differs now
Refresh ==
    /\ design.number > 0
    /\ design.recorded # Fingerprint
    /\ design' = [design EXCEPT !.status = "needs_reassessment"]
    /\ UNCHANGED <<versions, mapping, pinned, map, running, analysed, findings, story, copy, work, requests, down, deaths>>

---------------------------------------------------------------------------
\* an instance dies with what it was doing; pages stay in their browsers
Die(i) ==
    /\ i \notin down /\ deaths < MaxDeaths
    /\ down' = down \cup {i}
    /\ deaths' = deaths + 1
    /\ work' = [s \in Worker |-> IF Home[s] = i /\ work[s].pc # "page" THEN NoWork ELSE work[s]]
    /\ UNCHANGED <<versions, mapping, pinned, map, running, analysed, findings, story, copy, design, requests>>

\* Broken variant: the runs the instance died in are not looked for.
StartUpBlind(i) ==
    /\ i \in down
    /\ down' = down \ {i}
    /\ UNCHANGED <<versions, mapping, pinned, map, running, analysed, findings, story, copy, design, work, requests, deaths>>

\* mark_interrupted_runs: every running analysis is marked failed, those that
\* go on in other instances too
StartUp(i) ==
    /\ i \in down
    /\ down' = down \ {i}
    /\ running' = {}
    /\ UNCHANGED <<versions, mapping, pinned, map, analysed, findings, story, copy, design, work, requests, deaths>>

ProcessRuns(s) ==
    \/ FinishProcessAnalysis(s) \/ FailProcessAnalysis(s)
    \/ Decide(s) \/ Apply(s) \/ CopyToBacklog(s)
    \/ Describe(s) \/ StoreDesign(s) \/ FailDesign(s)
    \/ Compare(s) \/ Flag(s)

\* An Admin's requests.
FrameworkStep == CreateDraft \/ \E s \in Worker : Activate(s)

\* A reviewer's pages and requests, up to where they write.
ReviewerStep(s) ==
    \/ StartAnalysis(s)
    \/ OpenMapping(s)
    \/ OpenMap(s) \/ SaveMap(s)
    \/ OpenRefinement(s) \/ ReadStory(s)

ProcessNext ==
    \/ FrameworkStep
    \/ \E s \in Worker : ReviewerStep(s) \/ Consult(s) \/ ProcessRuns(s)
    \/ SyncFindings \/ SetStatus \/ ApproveStory \/ Refresh
    \/ \E i \in Instance : Die(i) \/ StartUp(i)

ProcessSpec == ProcessInit /\ [][ProcessNext]_processVars

\* A request that was sent and a run that was started come to an end, and the
\* platform starts an instance that died again.
ProcessFairSpec ==
    /\ ProcessSpec
    /\ \A s \in Worker : WF_processVars(ProcessRuns(s))
    /\ \A i \in Instance : WF_processVars(StartUp(i))

---------------------------------------------------------------------------
\* Whatever is imported, replaced or activated later, a reference that was
\* recorded resolves to the node, with the wording, it was made for.
PinsResolve ==
    \A p \in pinned \cup ({mapping.ref} \ {NoRef}) : versions[p.version].nodes[p.node] = p.sha

\* Reviewers who apply findings side by side neither apply one twice nor lose
\* each other's: the latest story has exactly the findings marked applied.
AppliedAreInTheStory == {f \in Finding : findings[f] = "applied"} = story.has

\* One version is active at a time and one analysis is recorded as running at a
\* time; it is under way, or it died with its instance, whose next start-up is
\* still to come and will find it.
OneAnalysis ==
    /\ \A v, w \in Active : v = w
    /\ \A s, t \in running : s = t
    /\ \A s \in running : work[s].kind = "analysis" \/ Home[s] \in down

\* No record of an analysis refuses every later one: it stops saying running,
\* through the death of its instance too.
AnalysisEnds == running # {} ~> running = {}

\* start_analysis refuses a second run because "a process analysis is already
\* running for this story": no two analyses of the story are under way side by
\* side.  services/run_recovery.py holds that "on startup nothing can still be
\* running", which is so of one instance only.
OneUnderWay == \A s, t \in Worker : work[s].kind = "analysis" /\ work[t].kind = "analysis" => s = t

Quiet == \A s \in Worker : work[s].kind = "design" \/ work[s].pc \notin {"compare", "flag", "copy"}

\* baseline.py records the context a design rests on "so a later material
\* change is detected": a design that is current was made for the process the
\* story has, once nobody is about to flag it.
DesignedForThisProcess == Quiet /\ design.status = "current" => design.consulted = ProcessNow

\* refinement.py keeps "the Architect's copy in step".
CopyInStep == Quiet /\ copy.approved => copy.rev = story.rev
=============================================================================
