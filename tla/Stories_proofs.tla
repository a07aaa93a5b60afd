--------------------------- MODULE Stories_proofs ---------------------------
(***************************************************************************)
(* What holds of a story, of its business process (StoryProcess) and of    *)
(* its way from analysis to solution (StoryGovernance), for every number   *)
(* of requests, versions, findings, texts and restarts.                    *)
(*                                                                         *)
(* The process: a reference resolves for good because the versions are     *)
(* numbered without a gap (FrameworkInv): the number a draft takes is      *)
(* free, or is the draft's own, so a version that was active is never      *)
(* written again.  Findings are not lost because the revision compared     *)
(* under the lock also dates the story that was read before it (PagesInv). *)
(*                                                                         *)
(* The governance: an answer may write an old review back, so what holds   *)
(* of a review is proved of every copy of it (CopiesInv), and the gate     *)
(* only ever moves on, so what an old copy says of it stays true.          *)
(***************************************************************************)
EXTENDS StoryProcess, StoryGovernance, FiniteSetTheorems, TLAPS

Status == {"none", "draft", "active", "superseded"}
VersionType == [status : Status, nodes : [Node -> {Absent} \cup Wording]]
FindingStatus == {"none", "proposed", "duplicate", "rejected", "applied"}

\* Versions are numbered from 1 without a gap, and one is active at most.
FrameworkInv ==
    /\ versions \in [Version -> VersionType]
    /\ \E k \in 0 .. MaxVersion : \A v \in Version : versions[v].status # "none" <=> v <= k
    /\ \A v, w \in Active : v = w

\* A recorded reference is to a version that nobody edits any more.
Resolves(p) ==
    /\ p.version \in Version
    /\ Pinnable(p.version)
    /\ versions[p.version].nodes[p.node] = p.sha

PinsInv ==
    /\ \A p \in pinned : Resolves(p)
    /\ mapping.ref \in pinned \cup {NoRef}

\* A page is of the latest story or of an older one, and the story read for it
\* is the latest one unless the comparison will say so.
PagesInv ==
    /\ work = [s \in Worker |-> work[s]]
    /\ \A s \in Worker : work[s].kind = "apply" /\ work[s].pc \in {"page", "read"} =>
          /\ work[s].seen \in Nat /\ work[s].seen <= story.rev
          /\ work[s].chosen \subseteq Finding
          /\ work[s].pc = "read" /\ work[s].seen = story.rev => work[s].current = story.has

FindingsInv ==
    /\ findings \in [Finding -> FindingStatus]
    /\ story.rev \in Nat
    /\ AppliedAreInTheStory

\* One analysis is recorded as running at most; it is, or its instance has died.
AnalysisInv ==
    /\ running \subseteq Worker
    /\ \A s, t \in running : s = t
    /\ \A s \in Worker : work[s].kind = "analysis" => work[s].pc = "running"
    /\ \A s \in running : work[s].kind = "analysis" \/ Home[s] \in down

IInv == FrameworkInv /\ PinsInv /\ PagesInv /\ FindingsInv /\ AnalysisInv

LEMMA InvInit == ProcessInit => IInv
<1> SUFFICES ASSUME ProcessInit PROVE IInv
  OBVIOUS
<1>1. FrameworkInv
  <2>1. [status |-> "none", nodes |-> [n \in Node |-> Absent]] \in VersionType
    BY DEF VersionType, Status
  <2>2. versions \in [Version -> VersionType] /\ \A v \in Version : versions[v].status = "none"
    BY <2>1 DEF ProcessInit
  <2>3. 0 \in 0 .. MaxVersion /\ \A v \in Version : ~(v <= 0)
    BY ProcessBounds DEF Version
  <2> QED BY <2>2, <2>3 DEF FrameworkInv, Active, InStatus
<1>2. PinsInv
  BY DEF ProcessInit, PinsInv
<1>3. PagesInv /\ AnalysisInv
  BY DEF ProcessInit, PagesInv, AnalysisInv, NoWork
<1>4. FindingsInv
  <2>1. story.rev \in Nat /\ story.has = {} /\ \A f \in Finding : findings[f] = "none"
    BY DEF ProcessInit
  <2> QED BY <2>1 DEF ProcessInit, FindingsInv, FindingStatus, AppliedAreInTheStory
<1> QED BY <1>1, <1>2, <1>3, <1>4 DEF IInv

-----------------------------------------------------------------------------
(* The framework and the references into it.                               *)

\* The number a draft takes is the draft's own or the first free one.
LEMMA DraftNumber ==
    ASSUME FrameworkInv, NEW v \in Version,
           v = IF InStatus("draft") # {} THEN CHOOSE d \in InStatus("draft") : TRUE
               ELSE Cardinality(Version \ InStatus("none")) + 1
    PROVE  \/ versions[v].status = "draft"
           \/ /\ versions[v].status = "none"
              /\ \A w \in Version : versions[w].status # "none" <=> w <= v - 1
<1>1. CASE InStatus("draft") # {}
  <2>1. v \in InStatus("draft")
    BY <1>1
  <2> QED BY <2>1 DEF InStatus
<1>2. CASE InStatus("draft") = {}
  <2>1. PICK k \in 0 .. MaxVersion : \A w \in Version : versions[w].status # "none" <=> w <= k
    BY DEF FrameworkInv
  <2>2. Version \ InStatus("none") = 1 .. k
    BY <2>1, ProcessBounds DEF Version, InStatus
  <2>3. Cardinality(1 .. k) = k
    BY <2>1, FS_Interval
  <2>4. v = k + 1
    BY <1>2, <2>2, <2>3
  <2>5. ~(v <= k) /\ v - 1 = k
    <3>1. k \in Int
      BY <2>1, ProcessBounds
    <3>2. \A i \in Int : ~(i + 1 <= i) /\ (i + 1) - 1 = i
      OBVIOUS
    <3> QED BY <2>4, <3>1, <3>2
  <2> QED BY <2>1, <2>5
<1> QED BY <1>1, <1>2

\* What a step does to the framework: versions keep their nodes and their place,
\* or a draft is written under a number that nobody refers to.
LEMMA FrameworkSteps ==
    ASSUME FrameworkInv, [ProcessNext]_processVars
    PROVE  /\ FrameworkInv'
           /\ \A v \in Version : Pinnable(v) =>
                 Pinnable(v)' /\ versions'[v].nodes = versions[v].nodes
<1>1. CASE CreateDraft
  <2>1. PICK nodes \in [Node -> {Absent} \cup Wording], v \in Version :
            /\ v = IF InStatus("draft") # {} THEN CHOOSE d \in InStatus("draft") : TRUE
                   ELSE Cardinality(Version \ InStatus("none")) + 1
            /\ versions' = [versions EXCEPT ![v] = [status |-> "draft", nodes |-> nodes]]
    BY <1>1 DEF CreateDraft
  <2>2. \/ versions[v].status = "draft"
        \/ versions[v].status = "none" /\ \A w \in Version : versions[w].status # "none" <=> w <= v - 1
    BY <2>1, DraftNumber
  <2>3. versions' \in [Version -> VersionType]
    <3>1. [status |-> "draft", nodes |-> nodes] \in VersionType
      BY DEF VersionType, Status
    <3> QED BY <2>1, <3>1 DEF FrameworkInv
  <2>4. \A w \in Version : versions'[w] = IF w = v THEN [status |-> "draft", nodes |-> nodes] ELSE versions[w]
    BY <2>1 DEF FrameworkInv
  <2>5. \E k \in 0 .. MaxVersion : \A w \in Version : versions'[w].status # "none" <=> w <= k
    <3>1. CASE versions[v].status = "draft"
      <4>1. \A w \in Version : versions'[w].status # "none" <=> versions[w].status # "none"
        BY <2>4, <3>1
      <4> QED BY <4>1 DEF FrameworkInv
    <3>2. CASE versions[v].status # "draft"
      <4>1. \A w \in Version : versions'[w].status # "none" <=> w <= v - 1 \/ w = v
        BY <2>2, <2>4, <3>2
      <4>2. v \in 0 .. MaxVersion /\ \A w \in Version : (w <= v - 1 \/ w = v) <=> w <= v
        BY ProcessBounds DEF Version
      <4> QED BY <4>1, <4>2
    <3> QED BY <3>1, <3>2
  <2>6. Active' \subseteq Active
    BY <2>4 DEF Active, InStatus
  <2>7. \A w \in Version : Pinnable(w) => versions'[w] = versions[w]
    BY <2>2, <2>4 DEF Pinnable
  <2> QED BY <2>3, <2>5, <2>6, <2>7 DEF FrameworkInv, Pinnable
<1>2. ASSUME NEW s \in Worker, Activate(s)
      PROVE  /\ FrameworkInv'
             /\ \A v \in Version : Pinnable(v) =>
                   Pinnable(v)' /\ versions'[v].nodes = versions[v].nodes
  <2>1. PICK v \in InStatus("draft") :
            versions' = [w \in Version |->
              IF w = v THEN [versions[w] EXCEPT !.status = "active"]
              ELSE IF versions[w].status = "active" THEN [versions[w] EXCEPT !.status = "superseded"]
              ELSE versions[w]]
    BY <1>2 DEF Activate
  <2>2. \A x \in VersionType, status \in Status :
            /\ [x EXCEPT !.status = status] \in VersionType
            /\ [x EXCEPT !.status = status].status = status
            /\ [x EXCEPT !.status = status].nodes = x.nodes
    BY DEF VersionType
  <2>3. "active" \in Status /\ "superseded" \in Status
    BY DEF Status
  <2>4. ASSUME NEW w \in Version
        PROVE  /\ versions'[w] \in VersionType /\ versions'[w].nodes = versions[w].nodes
               /\ versions'[w].status = IF w = v THEN "active"
                                        ELSE IF versions[w].status = "active" THEN "superseded"
                                        ELSE versions[w].status
    <3>1. versions[w] \in VersionType
      BY DEF FrameworkInv
    <3> QED BY <2>1, <2>2, <2>3, <3>1
  <2>5. versions' \in [Version -> VersionType]
    BY <2>1, <2>4
  <2>6. versions[v].status = "draft"
    BY <2>1 DEF InStatus
  <2>7. \A w \in Version : versions'[w].status # "none" <=> versions[w].status # "none"
    BY <2>4, <2>6
  <2>8. \A w \in Active' : w = v
    BY <2>4 DEF Active, InStatus
  <2>9. \E k \in 0 .. MaxVersion : \A w \in Version : versions'[w].status # "none" <=> w <= k
    BY <2>7 DEF FrameworkInv
  <2> QED BY <2>4, <2>5, <2>6, <2>8, <2>9 DEF FrameworkInv, Pinnable
<1>3. CASE UNCHANGED versions
  BY <1>3 DEF FrameworkInv, Active, InStatus, Pinnable
<1>4. UNCHANGED versions \/ CreateDraft \/ \E s \in Worker : Activate(s)
  BY DEF ProcessNext, FrameworkStep, ReviewerStep, ProcessRuns, processVars, StartAnalysis, FinishProcessAnalysis, FailProcessAnalysis,
         OpenMapping, Decide, OpenMap, SaveMap, SyncFindings, SetStatus, OpenRefinement, ReadStory, Apply,
         CopyToBacklog, ApproveStory, Consult, Describe, StoreDesign, FailDesign, Compare, Flag, Refresh,
         Die, StartUp
<1> QED BY <1>1, <1>2, <1>3, <1>4

LEMMA PinsStep == ASSUME FrameworkInv, PinsInv, [ProcessNext]_processVars PROVE PinsInv'
<1>1. ASSUME NEW p, Resolves(p) PROVE Resolves(p)'
  BY <1>1, FrameworkSteps DEF Resolves
<1>2. ASSUME NEW p \in Pins PROVE Resolves(p)
  BY <1>2 DEF Pins, Resolves
<1>3. pinned' \subseteq pinned \cup Pins /\ mapping'.ref \in pinned' \cup {NoRef}
  <2>1. ASSUME NEW s \in Worker, FinishProcessAnalysis(s)
        PROVE  pinned' \subseteq pinned \cup Pins /\ pinned \subseteq pinned' /\ mapping' = mapping
    BY <2>1 DEF FinishProcessAnalysis
  <2>2. ASSUME NEW s \in Worker, Decide(s)
        PROVE  \/ UNCHANGED <<pinned, mapping>>
               \/ pinned' \subseteq pinned \cup Pins /\ mapping'.ref \in pinned' \cup {NoRef}
    BY <2>2 DEF Decide
  <2>3. UNCHANGED <<pinned, mapping>> \/ \E s \in Worker : FinishProcessAnalysis(s) \/ Decide(s)
    BY DEF ProcessNext, FrameworkStep, ReviewerStep, ProcessRuns, processVars, CreateDraft, Activate, StartAnalysis, FailProcessAnalysis,
         OpenMapping, OpenMap, SaveMap, SyncFindings, SetStatus, OpenRefinement, ReadStory, Apply,
         CopyToBacklog, ApproveStory, Consult, Describe, StoreDesign, FailDesign, Compare, Flag, Refresh,
         Die, StartUp
  <2> QED BY <2>1, <2>2, <2>3 DEF PinsInv
<1>4. \A p \in pinned \cup Pins : Resolves(p)
  BY <1>2 DEF PinsInv
<1> QED BY <1>1, <1>3, <1>4 DEF PinsInv

-----------------------------------------------------------------------------
(* The findings.                                                           *)

\* A step that leaves the latest story and the findings alone, and opens or
\* closes one slot's call.
LEMMA PagesAfter ==
    ASSUME PagesInv, story.rev \in Nat, NEW s \in Worker, NEW call, Become(s, call),
           story' = story,
           call.kind = "apply" /\ call.pc \in {"page", "read"} =>
               /\ call.seen \in Nat /\ call.seen <= story.rev
               /\ call.chosen \subseteq Finding
               /\ call.pc = "read" /\ call.seen = story.rev => call.current = story.has
    PROVE  PagesInv'
<1>1. \A t \in Worker : work'[t] = IF t = s THEN call ELSE work[t]
  BY DEF Become, PagesInv
<1>2. work' = [t \in Worker |-> work'[t]]
  BY DEF Become, PagesInv
<1> QED BY <1>1, <1>2 DEF PagesInv

LEMMA PagesStep == ASSUME PagesInv, FindingsInv, [ProcessNext]_processVars PROVE PagesInv'
<1>t. story.rev \in Nat
  BY DEF FindingsInv
<1>i. NoWork.kind = "none"
  BY DEF NoWork
<1>1. ASSUME NEW s \in Worker, OpenRefinement(s) PROVE PagesInv'
  <2>1. PICK chosen \in SUBSET Finding :
            Become(s, [kind |-> "apply", pc |-> "page", seen |-> story.rev, chosen |-> chosen])
    BY <1>1 DEF OpenRefinement
  <2> QED BY <1>1, <1>t, <2>1, PagesAfter DEF OpenRefinement
<1>2. ASSUME NEW s \in Worker, ReadStory(s) PROVE PagesInv'
  <2> DEFINE read == [kind |-> "apply", pc |-> "read", seen |-> work[s].seen, chosen |-> work[s].chosen,
                      current |-> story.has]
  <2>1. work[s].seen \in Nat /\ work[s].seen <= story.rev /\ work[s].chosen \subseteq Finding
    BY <1>2 DEF ReadStory, Doing, PagesInv
  <2>2. read.seen = work[s].seen /\ read.chosen = work[s].chosen /\ read.current = story.has
    OBVIOUS
  <2>3. Become(s, read) /\ story' = story
    BY <1>2 DEF ReadStory
  <2> HIDE DEF read
  <2> QED BY <1>t, <2>1, <2>2, <2>3, PagesAfter
<1>3. ASSUME NEW s \in Worker, Apply(s) PROVE PagesInv'
  <2>1. CASE Refused(s)
    BY <1>3, <1>t, <1>i, <2>1, PagesAfter DEF Apply, EndWork
  <2>2. CASE ~Refused(s)
    <3> DEFINE rev == IF story.rev = 0 THEN 2 ELSE story.rev + 1
    <3>1. story'.rev = rev /\ Become(s, [kind |-> "apply", pc |-> "copy", rev |-> rev])
      BY <1>3, <2>2 DEF Apply
    <3>2. story'.rev \in Nat /\ story'.rev > story.rev
      BY <1>t, <3>1
    <3>3. /\ work' = [t \in Worker |-> work'[t]]
          /\ \A t \in Worker : t # s => work'[t] = work[t]
          /\ work'[s].pc = "copy"
      BY <3>1 DEF Become, PagesInv
    <3>4. ASSUME NEW t \in Worker, work'[t].kind = "apply", work'[t].pc \in {"page", "read"}
          PROVE  /\ work'[t].seen \in Nat /\ work'[t].seen <= story'.rev
                 /\ work'[t].chosen \subseteq Finding
                 /\ work'[t].seen # story'.rev
      <4>1. work'[t] = work[t]
        BY <3>3, <3>4
      <4>2. work[t].seen \in Nat /\ work[t].seen <= story.rev /\ work[t].chosen \subseteq Finding
        BY <3>4, <4>1 DEF PagesInv
      <4> QED BY <1>t, <3>2, <4>1, <4>2
    <3> QED BY <3>3, <3>4 DEF PagesInv
  <2> QED BY <2>1, <2>2
<1>4. ASSUME NEW s \in Worker,
             StartAnalysis(s) \/ FinishProcessAnalysis(s) \/ FailProcessAnalysis(s) \/ Activate(s) \/ OpenMapping(s) \/ OpenMap(s)
             \/ Consult(s) \/ StoreDesign(s) \/ FailDesign(s) \/ Flag(s)
      PROVE  PagesInv'
  <2>1. PICK call : Become(s, call) /\ call.kind # "apply"
    <3>1. CASE FinishProcessAnalysis(s) \/ FailProcessAnalysis(s) \/ StoreDesign(s) \/ FailDesign(s) \/ Flag(s)
      BY <1>i, <3>1 DEF FinishProcessAnalysis, FailProcessAnalysis, StoreDesign, FailDesign, Flag, EndWork
    <3>2. CASE StartAnalysis(s)
      BY <3>2 DEF StartAnalysis
    <3>3. CASE Activate(s)
      BY <3>3 DEF Activate
    <3>4. CASE OpenMapping(s)
      BY <3>4 DEF OpenMapping
    <3>5. CASE OpenMap(s)
      BY <3>5 DEF OpenMap
    <3>6. CASE Consult(s)
      BY <3>6 DEF Consult
    <3> QED BY <1>4, <3>1, <3>2, <3>3, <3>4, <3>5, <3>6
  <2>2. story' = story
    BY <1>4 DEF StartAnalysis, FinishProcessAnalysis, FailProcessAnalysis, Activate, OpenMapping, OpenMap, Consult,
                StoreDesign, FailDesign, Flag
  <2> QED BY <1>t, <2>1, <2>2, PagesAfter
<1>5. ASSUME NEW s \in Worker, Decide(s) \/ SaveMap(s) \/ CopyToBacklog(s) \/ Describe(s) \/ Compare(s) PROVE PagesInv'
  <2>1. PICK call : Become(s, call) /\ (call.kind = "none" \/ call.pc \in {"compare", "storing", "flag"})
    BY <1>5, <1>i DEF Decide, SaveMap, CopyToBacklog, Describe, Compare, EndWork
  <2>2. story' = story
    BY <1>5 DEF Decide, SaveMap, CopyToBacklog, Describe, Compare
  <2> QED BY <1>t, <2>1, <2>2, PagesAfter
<1>6. ASSUME NEW i \in Instance, Die(i) PROVE PagesInv'
  <2>1. /\ story' = story
        /\ work' = [s \in Worker |-> IF Home[s] = i /\ work[s].pc # "page" THEN NoWork ELSE work[s]]
    BY <1>6 DEF Die
  <2>2. \A s \in Worker : work'[s] = work[s] \/ work'[s].kind = "none"
    BY <1>i, <2>1
  <2>3. work' = [s \in Worker |-> work'[s]]
    BY <2>1
  <2> QED BY <2>1, <2>2, <2>3 DEF PagesInv
<1>7. CASE UNCHANGED <<work, story>>
  BY <1>7 DEF PagesInv
<1> QED BY <1>1, <1>2, <1>3, <1>4, <1>5, <1>6, <1>7
        DEF ProcessNext, FrameworkStep, ReviewerStep, ProcessRuns, processVars, CreateDraft, SyncFindings, SetStatus, ApproveStory,
            Refresh, StartUp

LEMMA FindingsStep == ASSUME PagesInv, FindingsInv, [ProcessNext]_processVars PROVE FindingsInv'
<1>1. CASE SyncFindings
  <2>1. PICK new \in SUBSET {f \in Finding : findings[f] = "none"}, status \in {"proposed", "duplicate"} :
            findings' = [f \in Finding |-> IF f \in new THEN status ELSE findings[f]]
    BY <1>1 DEF SyncFindings
  <2>2. findings' \in [Finding -> FindingStatus]
    BY <2>1 DEF FindingsInv, FindingStatus
  <2>3. \A f \in Finding : findings'[f] = "applied" <=> findings[f] = "applied"
    BY <2>1
  <2> QED BY <1>1, <2>2, <2>3 DEF SyncFindings, FindingsInv, AppliedAreInTheStory
<1>2. CASE SetStatus
  <2>1. PICK g \in Finding, status \in {"rejected", "proposed"} :
            findings[g] \notin {"none", "applied"} /\ findings' = [findings EXCEPT ![g] = status]
    BY <1>2 DEF SetStatus
  <2>2. findings' \in [Finding -> FindingStatus]
    BY <2>1 DEF FindingsInv, FindingStatus
  <2>3. \A f \in Finding : findings'[f] = "applied" <=> findings[f] = "applied"
    BY <2>1 DEF FindingsInv
  <2> QED BY <1>2, <2>2, <2>3 DEF SetStatus, FindingsInv, AppliedAreInTheStory
<1>3. ASSUME NEW s \in Worker, Apply(s), ~Refused(s) PROVE FindingsInv'
  <2>1. /\ work[s].seen = story.rev /\ work[s].current = story.has /\ work[s].chosen \subseteq Finding
    BY <1>3 DEF Apply, Doing, Refused, PagesInv
  <2>2. /\ story'.has = story.has \cup work[s].chosen
        /\ story'.rev = IF story.rev = 0 THEN 2 ELSE story.rev + 1
        /\ findings' = [f \in Finding |-> IF f \in work[s].chosen THEN "applied" ELSE findings[f]]
    BY <1>3, <2>1 DEF Apply
  <2>3. findings' \in [Finding -> FindingStatus] /\ story'.rev \in Nat
    BY <2>2 DEF FindingsInv, FindingStatus
  <2>4. {f \in Finding : findings'[f] = "applied"} = {f \in Finding : findings[f] = "applied"} \cup work[s].chosen
    BY <2>1, <2>2
  <2> QED BY <2>2, <2>3, <2>4 DEF FindingsInv, AppliedAreInTheStory
<1>4. CASE UNCHANGED <<findings, story>>
  BY <1>4 DEF FindingsInv, AppliedAreInTheStory
<1>5. \/ UNCHANGED <<findings, story>> \/ SyncFindings \/ SetStatus
      \/ \E s \in Worker : Apply(s) /\ ~Refused(s)
  BY DEF ProcessNext, FrameworkStep, ReviewerStep, ProcessRuns, processVars, CreateDraft, Activate, StartAnalysis, FinishProcessAnalysis,
         FailProcessAnalysis, OpenMapping, Decide, OpenMap, SaveMap, OpenRefinement, ReadStory, Apply,
         CopyToBacklog, ApproveStory, Consult, Describe, StoreDesign, FailDesign, Compare, Flag, Refresh,
         Die, StartUp
<1> QED BY <1>1, <1>2, <1>3, <1>4, <1>5

-----------------------------------------------------------------------------
(* The analysis.                                                           *)

\* A worker that analyses nothing takes its next step.
LEMMA AnalysisBeside ==
    ASSUME PagesInv, AnalysisInv, NEW s \in Worker, NEW call, Become(s, call),
           work[s].kind # "analysis", call.kind # "analysis", running' = running, down' = down
    PROVE  AnalysisInv'
<1>1. \A t \in Worker : work'[t] = IF t = s THEN call ELSE work[t]
  BY DEF Become, PagesInv
<1>2. \A t \in Worker : work[t].kind = "analysis" => work'[t] = work[t]
  BY <1>1
<1>3. \A t \in Worker : work'[t].kind = "analysis" => work'[t] = work[t]
  BY <1>1
<1> QED BY <1>2, <1>3 DEF AnalysisInv

LEMMA AnalysisStep == ASSUME PagesInv, AnalysisInv, [ProcessNext]_processVars PROVE AnalysisInv'
<1>i. NoWork.kind = "none"
  BY DEF NoWork
<1>b. ASSUME NEW s \in Worker, NEW call, Become(s, call)
      PROVE  \A t \in Worker : work'[t] = IF t = s THEN call ELSE work[t]
  BY <1>b DEF Become, PagesInv
<1>1. ASSUME NEW s \in Worker, StartAnalysis(s) PROVE AnalysisInv'
  <2>1. PICK v : Become(s, [kind |-> "analysis", pc |-> "running", version |-> v])
    BY <1>1 DEF StartAnalysis
  <2>2. running' = {s}
    BY <1>1 DEF StartAnalysis
  <2>3. work'[s].kind = "analysis" /\ work'[s].pc = "running"
    BY <1>b, <2>1
  <2>4. \A t \in Worker : t # s => work'[t] = work[t]
    BY <1>b, <2>1
  <2> QED BY <2>2, <2>3, <2>4 DEF AnalysisInv
<1>2. ASSUME NEW s \in Worker, FinishProcessAnalysis(s) \/ FailProcessAnalysis(s) PROVE AnalysisInv'
  <2>1. Become(s, NoWork) /\ running' = running \ {s} /\ down' = down
    BY <1>2 DEF FinishProcessAnalysis, FailProcessAnalysis, EndWork
  <2>2. \A t \in Worker : work'[t] = IF t = s THEN NoWork ELSE work[t]
    BY <1>b, <2>1
  <2> QED BY <1>i, <2>1, <2>2 DEF AnalysisInv
<1>3. ASSUME NEW s \in Worker,
             Activate(s) \/ OpenMapping(s) \/ OpenMap(s) \/ OpenRefinement(s) \/ ReadStory(s) \/ Consult(s)
             \/ Decide(s) \/ SaveMap(s) \/ Apply(s) \/ CopyToBacklog(s) \/ Describe(s) \/ StoreDesign(s)
             \/ FailDesign(s) \/ Flag(s)
      PROVE  AnalysisInv'
  <2>1. PICK call : Become(s, call) /\ call.kind # "analysis"
    <3>1. CASE StoreDesign(s) \/ FailDesign(s) \/ Flag(s)
      BY <1>i, <3>1 DEF StoreDesign, FailDesign, Flag, EndWork
    <3>2. CASE Activate(s)
      BY <3>2 DEF Activate
    <3>3. CASE OpenMapping(s)
      BY <3>3 DEF OpenMapping
    <3>4. CASE OpenMap(s)
      BY <3>4 DEF OpenMap
    <3>5. CASE OpenRefinement(s)
      BY <3>5 DEF OpenRefinement
    <3>6. CASE ReadStory(s)
      BY <3>6 DEF ReadStory
    <3>7. CASE Consult(s)
      BY <3>7 DEF Consult
    <3>8. CASE Decide(s)
      BY <1>i, <3>8 DEF Decide, EndWork
    <3>9. CASE SaveMap(s)
      BY <1>i, <3>9 DEF SaveMap, EndWork
    <3>10. CASE Apply(s)
      BY <1>i, <3>10 DEF Apply, EndWork
    <3>11. CASE CopyToBacklog(s)
      BY <1>i, <3>11 DEF CopyToBacklog, EndWork
    <3>12. CASE Describe(s)
      BY <3>12 DEF Describe
    <3> QED BY <1>3, <3>1, <3>2, <3>3, <3>4, <3>5, <3>6, <3>7, <3>8, <3>9, <3>10, <3>11, <3>12
  <2>2. running' = running /\ down' = down
    BY <1>3 DEF Activate, OpenMapping, OpenMap, OpenRefinement, ReadStory, Consult, Decide, SaveMap,
                Apply, CopyToBacklog, Describe, StoreDesign, FailDesign, Flag
  <2>3. work[s].kind # "analysis"
    <3>1. CASE Activate(s) \/ OpenMapping(s) \/ OpenMap(s) \/ OpenRefinement(s) \/ Consult(s)
      BY <1>i, <3>1 DEF Activate, OpenMapping, OpenMap, OpenRefinement, Consult, Opens
    <3>2. CASE ReadStory(s) \/ Decide(s) \/ SaveMap(s) \/ Apply(s) \/ CopyToBacklog(s) \/ Describe(s)
               \/ StoreDesign(s) \/ FailDesign(s)
      BY <3>2 DEF ReadStory, Decide, SaveMap, Apply, CopyToBacklog, Describe, StoreDesign, FailDesign, Doing
    <3>3. CASE Flag(s)
      BY <3>3 DEF Flag, AnalysisInv
    <3> QED BY <1>3, <3>1, <3>2, <3>3
  <2> QED BY <2>1, <2>2, <2>3, AnalysisBeside
<1>4. ASSUME NEW s \in Worker, Compare(s) PROVE AnalysisInv'
  <2>1. work[s].kind # "analysis" /\ running' = running /\ down' = down
    BY <1>4 DEF Compare, AnalysisInv
  <2>2. PICK call : Become(s, call) /\ call.kind # "analysis"
    BY <1>4, <1>i, <2>1 DEF Compare, EndWork
  <2> QED BY <2>1, <2>2, AnalysisBeside
<1>5. ASSUME NEW i \in Instance, Die(i) PROVE AnalysisInv'
  <2>1. /\ running' = running /\ down' = down \cup {i}
        /\ \A s \in Worker : work'[s] = IF Home[s] = i /\ work[s].pc # "page" THEN NoWork ELSE work[s]
    BY <1>5 DEF Die
  <2>2. \A s \in Worker : work'[s] = work[s] \/ (work'[s].kind = "none" /\ Home[s] \in down')
    BY <1>i, <2>1
  <2>3. ASSUME NEW s \in running' PROVE work'[s].kind = "analysis" \/ Home[s] \in down'
    BY <2>1, <2>2 DEF AnalysisInv
  <2>4. ASSUME NEW s \in Worker, work'[s].kind = "analysis" PROVE work'[s].pc = "running"
    BY <2>2, <2>4 DEF AnalysisInv
  <2> QED BY <2>1, <2>3, <2>4 DEF AnalysisInv
<1>6. ASSUME NEW i \in Instance, StartUp(i) PROVE AnalysisInv'
  BY <1>6 DEF StartUp, AnalysisInv
<1>7. CASE UNCHANGED <<work, running, down>>
  BY <1>7 DEF AnalysisInv
<1> QED BY <1>1, <1>2, <1>3, <1>4, <1>5, <1>6, <1>7
        DEF ProcessNext, FrameworkStep, ReviewerStep, ProcessRuns, processVars, CreateDraft, SyncFindings, SetStatus, ApproveStory,
            Refresh

-----------------------------------------------------------------------------

LEMMA Invariance == ProcessSpec => []IInv
<1>1. ProcessInit => IInv
  BY InvInit
<1>2. IInv /\ [ProcessNext]_processVars => IInv'
  BY FrameworkSteps, PinsStep, PagesStep, FindingsStep, AnalysisStep DEF IInv
<1> QED BY <1>1, <1>2, PTL DEF ProcessSpec

\* A reference that was recorded with an analysis or a mapping resolves to the node
\* with the wording it was made for, whatever versions of the framework are
\* imported, replaced or activated later (framework.py, story.pin).
THEOREM PinsKeepResolving == ProcessSpec => []PinsResolve
<1>1. IInv => PinsResolve
  BY DEF IInv, PinsInv, Resolves, PinsResolve
<1> QED BY <1>1, Invariance, PTL

\* Reviewers who apply findings side by side, on pages of any age, neither apply a
\* finding twice nor lose one that another applied (refinement.apply).
THEOREM AppliedOnce == ProcessSpec => []AppliedAreInTheStory
<1>1. IInv => AppliedAreInTheStory
  BY DEF IInv, FindingsInv
<1> QED BY <1>1, Invariance, PTL

\* One version of the framework is active at most, one analysis of the story is
\* recorded as running at most, and it is under way unless its instance died and
\* has not started again, whatever instances die, start and recover each other's
\* analyses meanwhile (framework.activate, story.start_analysis, finish_analysis,
\* mark_interrupted_runs).
THEOREM OneAtATime == ProcessSpec => []OneAnalysis
<1>1. IInv => OneAnalysis
  BY DEF IInv, FrameworkInv, AnalysisInv, OneAnalysis
<1> QED BY <1>1, Invariance, PTL

(***************************************************************************)
(* StoryGovernance: a story on its way from analysis to solution.          *)
(***************************************************************************)
\* What the slots hold, and the types of the rest.
CallType == [kind : {"none", "analysis", "seed", "edit", "answer", "architect"},
             pc : {"idle", "queued", "running", "linked", "saving"},
             seen : Reviews \cup {NoReview}]

GovernanceTyped ==
    /\ run \in [stage : {"none", "in_progress", "done", "failed"}, text : Nat, proposed : BOOLEAN]
    /\ backlog \in [state : {"none", "BACKLOG_READY", "APPROVED", "REJECTED",
                             "RESOLVED_WITHOUT_CHANGE"}, text : Nat]
    /\ review \in Reviews \cup {NoReview}
    /\ calls \in [Slot -> CallType]
    /\ analyses \in Nat
    /\ \A s \in Slot : calls[s].kind \in {"edit", "answer"} => review \in Reviews
    /\ \A s \in Slot : At(s, "answer", "saving") => calls[s].seen \in Reviews

PastTheGate == {"APPROVED", "RESOLVED_WITHOUT_CHANGE"}

\* What every copy of the review keeps to, however old: the stage says whose
\* version the last one is and that the Domain Owner approved it, and what it
\* says of the Application Manager is what the gate says now.
Sound(r, state) ==
    /\ r.label = "owner_edit" =>
          r.stage \in {"reviewer_agent_refining", "domain_owner_requested_revision"}
    /\ r.stage = "ready_for_application_manager" => r.owner = "approved"
    /\ r.manager = "approved" => state \in PastTheGate
    /\ r.manager = "rejected" => state = "REJECTED"

CopiesInv ==
    /\ review \in Reviews => Sound(review, backlog.state)
    /\ \A s \in Slot : calls[s].seen \in Reviews => Sound(calls[s].seen, backlog.state)

QueueInv == queued <=> backlog.state \in PastTheGate

\* A review waits for the Application Manager on the Domain Owner's last word,
\* or on a copy that an answer wrote back.
VerdictInv ==
    ~ undone /\ review \in Reviews /\ review.stage = "ready_for_application_manager" => verdict = "approved"

GovernanceInv == GovernanceTyped /\ CopiesInv /\ QueueInv /\ VerdictInv

LEMMA ReviewsAreNotNone == NoReview \notin Reviews
  BY DEF NoReview, Reviews, Stages

LEMMA GovernanceInit == Init => GovernanceInv
<1> SUFFICES ASSUME Init PROVE GovernanceInv
  OBVIOUS
<1>1. /\ review = NoReview /\ calls = [s \in Slot |-> Idle] /\ Idle \in CallType
      /\ Idle.seen = NoReview /\ Idle.pc = "idle"
      /\ backlog.state = "none" /\ queued = FALSE
  BY DEF Init, Idle, CallType
<1>2. GovernanceTyped
  <2>1. Idle.kind = "none"
    BY DEF Idle
  <2> QED BY <1>1, <2>1 DEF Init, GovernanceTyped, NoRun, NoText, At
<1>3. CopiesInv
  BY <1>1, ReviewsAreNotNone DEF CopiesInv
<1>4. VerdictInv
  BY <1>1, ReviewsAreNotNone DEF VerdictInv
<1> QED BY <1>1, <1>2, <1>3, <1>4 DEF GovernanceInv, QueueInv, PastTheGate

\* What a decision does to the gate and to the queue.
GateStep ==
    \/ UNCHANGED <<backlog, queued>>
    \/ \E text \in Text :
          /\ backlog.state = "none" /\ queued' = queued
          /\ backlog' = [state |-> "BACKLOG_READY", text |-> text]
    \/ /\ backlog.state = "BACKLOG_READY" /\ backlog' = [backlog EXCEPT !.state = "APPROVED"]
       /\ queued' = TRUE
       /\ \E s \in Slot : ManagerApproves(s)
    \/ /\ backlog.state = "BACKLOG_READY" /\ backlog' = [backlog EXCEPT !.state = "REJECTED"]
       /\ queued' = queued
       /\ ManagerRejects
    \/ /\ backlog.state = "APPROVED"
       /\ backlog' = [backlog EXCEPT !.state = "RESOLVED_WITHOUT_CHANGE"]
       /\ queued' = queued

\* What a step does to a slot.
SlotStep(s) ==
    \/ calls'[s] = calls[s]
    \/ /\ calls'[s].seen = NoReview
       /\ calls'[s].kind \in {"edit", "answer"} => review \in Reviews /\ calls'[s].pc = "running"
    \/ /\ calls'[s].seen = calls[s].seen /\ calls'[s].pc \in {"running", "linked"}
       /\ calls'[s].kind = calls[s].kind
    \/ /\ calls'[s].seen = review /\ calls'[s].pc = "saving"
       /\ calls'[s].kind = "answer" /\ calls[s].kind = "answer"

\* Where a review comes from.
ReviewStep ==
    \/ review' = review
    \/ \E s \in Slot : SaveAnswer(s) /\ review' = calls[s].seen
    \/ \E s \in Slot : SaveSeed(s)
    \/ /\ review \in Reviews
       /\ \/ AssignDomain \/ StartReview \/ OwnerApproves \/ OwnerRejects
          \/ RequestReconsideration \/ ManagerRejects
          \/ \E s \in Slot : SubmitEdit(s) \/ FailEdit(s) \/ ReviewEdit(s) \/ ManagerApproves(s)

\* The steps of a slot, one by one.
LEMMA SlotMoves ==
    ASSUME GovernanceTyped, NEW s \in Slot,
           \/ Requests(s) \/ Runs(s)
           \/ BeginAnalysis(s) \/ NextAgent(s) \/ Propose(s) \/ LinkStory(s) \/ ResolveWithoutChange(s)
    PROVE  /\ calls' \in [Slot -> CallType] /\ analyses' \in Nat
           /\ SlotStep(s) /\ \A t \in Slot : t # s => calls'[t] = calls[t]
<1>0. /\ calls \in [Slot -> CallType] /\ analyses \in Nat /\ calls[s] \in CallType
      /\ review \in Reviews \cup {NoReview}
      /\ \A k \in {"edit", "answer"} : calls[s].kind = k => review \in Reviews
  BY DEF GovernanceTyped
<1>1. /\ Idle \in CallType /\ Idle.seen = NoReview /\ Idle.pc = "idle" /\ Idle.kind = "none"
      /\ Idle = [kind |-> "none", pc |-> "idle", seen |-> NoReview]
  BY DEF Idle, CallType
<1>2. ASSUME NEW kind \in {"analysis", "seed", "edit", "answer", "architect"},
             NEW pc \in {"queued", "running", "saving"}, Do(s, kind, pc),
             kind \in {"edit", "answer"} => review \in Reviews /\ pc = "running"
      PROVE  /\ calls' \in [Slot -> CallType]
             /\ SlotStep(s) /\ \A t \in Slot : t # s => calls'[t] = calls[t]
  <2> DEFINE new == [Idle EXCEPT !.kind = kind, !.pc = pc]
  <2>1. calls' = [calls EXCEPT ![s] = new]
    BY <1>2 DEF Do
  <2>2. /\ new \in CallType /\ new.kind = kind /\ new.pc = pc /\ new.seen = NoReview
    BY <1>1 DEF CallType
  <2> HIDE DEF new
  <2> QED BY <1>0, <1>2, <2>1, <2>2 DEF SlotStep
<1>3. ASSUME Done(s)
      PROVE  /\ calls' \in [Slot -> CallType]
             /\ SlotStep(s) /\ \A t \in Slot : t # s => calls'[t] = calls[t]
  BY <1>0, <1>1, <1>3 DEF Done, SlotStep
<1>4. ASSUME calls' = calls
      PROVE  /\ calls' \in [Slot -> CallType]
             /\ SlotStep(s) /\ \A t \in Slot : t # s => calls'[t] = calls[t]
  BY <1>0, <1>4 DEF SlotStep
<1>5. CASE Requests(s)
  <2>1. analyses' = analyses
    BY <1>5 DEF Requests, PressEnhance, SeedReview, SubmitEdit, Ask,
        ManagerApproves, PressArchitect
  <2>2. review # NoReview => review \in Reviews
    BY <1>0
  <2>3. CASE PressEnhance(s) \/ PressArchitect(s) \/ SeedReview(s)
    <3>1. Do(s, "analysis", "queued") \/ Do(s, "architect", "queued") \/ Do(s, "seed", "saving")
      BY <2>3 DEF PressEnhance, PressArchitect, SeedReview
    <3> QED BY <1>0, <1>2, <2>1, <3>1
  <2>4. CASE SubmitEdit(s) \/ Ask(s)
    <3>1. /\ Do(s, "edit", "running") \/ Do(s, "answer", "running")
          /\ review \in Reviews
      BY <2>2, <2>4 DEF SubmitEdit, Ask, InStage
    <3> QED BY <1>0, <1>2, <2>1, <3>1
  <2>5. CASE ManagerApproves(s)
    <3>1. Do(s, "architect", "queued") \/ calls' = calls
      BY <2>5 DEF ManagerApproves
    <3> QED BY <1>0, <1>2, <1>4, <2>1, <3>1
  <2> QED BY <1>5, <2>3, <2>4, <2>5 DEF Requests
<1>6. CASE Runs(s)
  <2>1. analyses' = analyses
    BY <1>6 DEF Runs, FinishAnalysis, FailAnalysis, SaveSeed, AbandonEdit,
        FailEdit, ReviewEdit, FailAnswer, ReadForAnswer, SaveAnswer,
        BeginArchitect, FinishArchitect, FailArchitect
  <2>2. CASE ReadForAnswer(s)
    <3>1. calls' = [calls EXCEPT ![s].pc = "saving", ![s].seen = review] /\ calls[s].kind = "answer"
      BY <2>2 DEF ReadForAnswer, At
    <3> QED BY <1>0, <2>1, <3>1 DEF SlotStep, CallType
  <2>3. CASE BeginArchitect(s)
    <3>1. calls' = [calls EXCEPT ![s].pc = "running"]
      BY <2>3 DEF BeginArchitect, GoTo
    <3> QED BY <1>0, <2>1, <3>1 DEF SlotStep, CallType
  <2>4. CASE ~ReadForAnswer(s) /\ ~BeginArchitect(s)
    <3>1. Done(s)
      BY <1>6, <2>4 DEF Runs, FinishAnalysis, FailAnalysis, SaveSeed,
          AbandonEdit, FailEdit, ReviewEdit, FailAnswer, SaveAnswer,
          FinishArchitect, FailArchitect
    <3> QED BY <1>0, <1>3, <2>1, <3>1
  <2> QED BY <2>2, <2>3, <2>4
<1>7. CASE BeginAnalysis(s)
  <2>1. calls' = [calls EXCEPT ![s].pc = "running"] /\ analyses' = analyses + 1
    BY <1>7 DEF BeginAnalysis, GoTo
  <2>2. calls[s].kind = "analysis"
    BY <1>7 DEF BeginAnalysis, At
  <2> QED BY <1>0, <2>1, <2>2 DEF SlotStep, CallType
<1>8. CASE LinkStory(s)
  <2>1. calls' = [calls EXCEPT ![s].pc = "linked"] /\ calls[s].kind = "analysis" /\ analyses' = analyses
    BY <1>8 DEF LinkStory, GoTo, At
  <2> QED BY <1>0, <2>1 DEF SlotStep, CallType
<1>9. CASE NextAgent(s) \/ Propose(s) \/ ResolveWithoutChange(s)
  <2>1. calls' = calls /\ analyses' = analyses
    BY <1>9 DEF NextAgent, Propose, ResolveWithoutChange
  <2> QED BY <1>0, <1>4, <2>1
<1> QED BY <1>5, <1>6, <1>7, <1>8, <1>9

LEMMA CallMoves ==
    ASSUME GovernanceTyped, [Next]_vars
    PROVE  /\ calls' \in [Slot -> CallType] /\ analyses' \in Nat
           /\ \A s \in Slot : SlotStep(s)
<1>0. calls \in [Slot -> CallType] /\ analyses \in Nat
  BY DEF GovernanceTyped
<1>1. CASE Decisions \/ UNCHANGED vars
  <2>1. calls' = calls /\ analyses' = analyses
    BY <1>1 DEF vars, Decisions, AssignDomain, StartReview, OwnerApproves,
        OwnerRejects, RequestReconsideration, ManagerRejects
  <2> QED BY <1>0, <2>1 DEF SlotStep
<1>2. ASSUME NEW h \in Host, HostDies(h) \/ HostStarts(h)
      PROVE  /\ calls' \in [Slot -> CallType] /\ analyses' \in Nat
             /\ \A s \in Slot : SlotStep(s)
  <2>1. /\ analyses' = analyses
        /\ calls' = calls \/ calls' = [s \in Slot |-> IF HostOf[s] = h THEN Idle ELSE calls[s]]
    BY <1>2 DEF HostDies, HostStarts
  <2>2. Idle \in CallType /\ Idle.seen = NoReview /\ Idle.pc = "idle" /\ Idle.kind = "none"
    BY DEF Idle, CallType
  <2> QED BY <1>0, <2>1, <2>2 DEF SlotStep
<1>3. ASSUME NEW s \in Slot,
             \/ Requests(s) \/ Runs(s)
             \/ BeginAnalysis(s) \/ NextAgent(s) \/ Propose(s) \/ LinkStory(s) \/ ResolveWithoutChange(s)
      PROVE  /\ calls' \in [Slot -> CallType] /\ analyses' \in Nat
             /\ \A t \in Slot : SlotStep(t)
  <2>1. \A t \in Slot : t # s => SlotStep(t)
    BY <1>3, SlotMoves DEF SlotStep
  <2> QED BY <1>3, <2>1, SlotMoves
<1> QED BY <1>1, <1>2, <1>3 DEF Next

\* What a step does to the gate, the queue and the review.
LEMMA GateMoves ==
    ASSUME GovernanceTyped, [Next]_vars
    PROVE  GateStep /\ ReviewStep
<1>0. backlog.state \in {"none", "BACKLOG_READY", "APPROVED", "REJECTED", "RESOLVED_WITHOUT_CHANGE"}
  BY DEF GovernanceTyped
<1>1. /\ \A s \in Slot : ManagerApproves(s) =>
            /\ backlog.state = "BACKLOG_READY" /\ backlog' = [backlog EXCEPT !.state = "APPROVED"]
            /\ queued' = TRUE
      /\ ManagerRejects =>
            /\ backlog.state = "BACKLOG_READY" /\ backlog' = [backlog EXCEPT !.state = "REJECTED"]
            /\ queued' = queued
      /\ \A s \in Slot : ResolveWithoutChange(s) =>
            /\ backlog.state = "APPROVED"
            /\ backlog' = [backlog EXCEPT !.state = "RESOLVED_WITHOUT_CHANGE"]
            /\ queued' = queued
  BY <1>0 DEF ManagerApproves, ManagerRejects, ResolveWithoutChange, SetState,
      Allowed, AddToQueue
<1>2. \A s \in Slot : Propose(s) =>
            /\ backlog.state = "none" /\ queued' = queued
            /\ \E text \in Text : backlog' = [state |-> "BACKLOG_READY", text |-> text]
  BY DEF Propose
<1>3. GateStep
  <2>1. \/ UNCHANGED <<backlog, queued>>
        \/ ManagerRejects
        \/ \E s \in Slot : Propose(s) \/ ManagerApproves(s) \/ ResolveWithoutChange(s)
    BY DEF Next, Requests, Runs, Decisions, vars, PressEnhance,
        SeedReview, SubmitEdit, Ask, PressArchitect, FinishAnalysis,
        FailAnalysis, SaveSeed, AbandonEdit, FailEdit, ReviewEdit,
        FailAnswer, ReadForAnswer, SaveAnswer, BeginArchitect, FinishArchitect,
        FailArchitect, BeginAnalysis, NextAgent, LinkStory, AssignDomain, StartReview,
        OwnerApproves, OwnerRejects, RequestReconsideration, HostDies, HostStarts
  <2> QED BY <1>1, <1>2, <2>1 DEF GateStep
<1>4. ReviewStep
  <2>1. \/ review' = review
        \/ AssignDomain \/ StartReview \/ OwnerApproves \/ OwnerRejects
        \/ RequestReconsideration \/ ManagerRejects
        \/ \E s \in Slot : SaveAnswer(s) \/ SaveSeed(s) \/ SubmitEdit(s) \/ FailEdit(s)
                           \/ ReviewEdit(s) \/ ManagerApproves(s)
    BY DEF Next, Requests, Runs, Decisions, vars, PressEnhance,
        SeedReview, Ask, PressArchitect, FinishAnalysis, FailAnalysis,
        AbandonEdit, FailAnswer, ReadForAnswer, BeginArchitect, FinishArchitect,
        FailArchitect, BeginAnalysis, NextAgent, Propose, LinkStory, ResolveWithoutChange,
        HostDies, HostStarts
  <2>2. AssignDomain \/ StartReview \/ OwnerApproves \/ OwnerRejects \/ RequestReconsideration
        \/ ManagerRejects \/ (\E s \in Slot : SubmitEdit(s) \/ ManagerApproves(s)) => review \in Reviews
    BY DEF AssignDomain, StartReview, OwnerApproves, OwnerRejects,
        RequestReconsideration, ManagerRejects, SubmitEdit, ManagerApproves,
        InStage, GovernanceTyped
  <2>3. (\E s \in Slot : FailEdit(s) \/ ReviewEdit(s)) => review \in Reviews
    BY DEF FailEdit, ReviewEdit, At, GovernanceTyped
  <2>4. \A s \in Slot : SaveAnswer(s) => review' = calls[s].seen
    BY DEF SaveAnswer
  <2> QED BY <2>1, <2>2, <2>3, <2>4 DEF ReviewStep
<1> QED BY <1>3, <1>4


\* What a step does to the run.
LEMMA RunMoves ==
    ASSUME GovernanceTyped, [Next]_vars
    PROVE  run' \in [stage : {"none", "in_progress", "done", "failed"}, text : Nat, proposed : BOOLEAN]
<1>0. run \in [stage : {"none", "in_progress", "done", "failed"}, text : Nat, proposed : BOOLEAN]
  BY DEF GovernanceTyped
<1>1. \/ run' = run
      \/ \E h \in Host : HostStarts(h)
      \/ \E s \in Slot : BeginAnalysis(s) \/ NextAgent(s) \/ FinishAnalysis(s) \/ FailAnalysis(s)
  BY DEF Next, Requests, Runs, Decisions, vars, PressEnhance,
      SeedReview, SubmitEdit, Ask, ManagerApproves, PressArchitect,
      SaveSeed, AbandonEdit, FailEdit, ReviewEdit, FailAnswer,
      ReadForAnswer, SaveAnswer, BeginArchitect, FinishArchitect, FailArchitect,
      Propose, LinkStory, ResolveWithoutChange, AssignDomain, StartReview, OwnerApproves,
      OwnerRejects, RequestReconsideration, ManagerRejects, HostDies
<1>2. (\E h \in Host : HostStarts(h)) => run' = run \/ run' = [run EXCEPT !.stage = "failed"]
  BY <1>0 DEF HostStarts, FailIfRunning
<1>3. ASSUME NEW s \in Slot, BeginAnalysis(s)
      PROVE  run' = [stage |-> "in_progress", text |-> 0, proposed |-> FALSE]
  BY <1>3 DEF BeginAnalysis, NoText
<1>4. ASSUME NEW s \in Slot, NextAgent(s) \/ FailAnalysis(s)
      PROVE  run' = [run EXCEPT !.stage = "in_progress"] \/ run' = [run EXCEPT !.stage = "failed"]
  BY <1>4 DEF NextAgent, FailAnalysis
<1>5. ASSUME NEW s \in Slot, FinishAnalysis(s)
      PROVE  run' \in [stage : {"none", "in_progress", "done", "failed"}, text : Nat, proposed : BOOLEAN]
  <2>1. PICK told \in Text : run' = [stage |-> "done", text |-> told, proposed |-> calls[s].pc = "linked"]
    BY <1>5 DEF FinishAnalysis
  <2>2. told \in Nat
    BY Bounds DEF Text
  <2> QED BY <2>1, <2>2
<1>6. CASE \E h \in Host : HostStarts(h)
  BY <1>0, <1>2, <1>6
<1>7. ASSUME NEW s \in Slot, BeginAnalysis(s) \/ NextAgent(s) \/ FailAnalysis(s)
      PROVE  run' \in [stage : {"none", "in_progress", "done", "failed"}, text : Nat, proposed : BOOLEAN]
  <2>1. CASE BeginAnalysis(s)
    <3>1. run' = [stage |-> "in_progress", text |-> 0, proposed |-> FALSE]
      BY <1>3, <2>1
    <3> QED BY <3>1
  <2>2. CASE NextAgent(s) \/ FailAnalysis(s)
    BY <1>0, <1>4, <2>2
  <2> QED BY <1>7, <2>1, <2>2
<1> QED BY <1>0, <1>1, <1>5, <1>6, <1>7

\* The gate only moves on, so what a copy says of it stays true.
LEMMA GateKeepsSound ==
    ASSUME GovernanceTyped, GateStep, NEW r, Sound(r, backlog.state)
    PROVE  Sound(r, backlog'.state)
BY DEF GateStep, Sound, PastTheGate, GovernanceTyped

\* What a person or an agent makes of a review, given the gate agrees.
LEMMA ReviewMoves ==
    ASSUME GovernanceTyped, GateStep, ReviewStep
    PROVE  /\ review' \in Reviews \cup {NoReview}
           /\ review \in Reviews => review' \in Reviews
           /\ CopiesInv /\ review' \in Reviews => Sound(review', backlog'.state)
<1>0. review \in Reviews \cup {NoReview} /\ NoReview \notin Reviews
  BY ReviewsAreNotNone DEF GovernanceTyped
<1>1. CASE review' = review
  BY <1>0, <1>1, GateKeepsSound DEF CopiesInv
<1>2. ASSUME NEW s \in Slot, SaveAnswer(s), review' = calls[s].seen
      PROVE  review' \in Reviews /\ (CopiesInv => Sound(review', backlog'.state))
  <2>1. calls[s].seen \in Reviews
    BY <1>2 DEF SaveAnswer, GovernanceTyped
  <2> QED BY <1>2, <2>1, GateKeepsSound DEF CopiesInv
<1>3. ASSUME NEW s \in Slot, SaveSeed(s)
      PROVE  review' \in Reviews /\ Sound(review', backlog'.state)
  BY <1>3 DEF SaveSeed, Reviews, Stages, Decision, Sound
<1>4. ASSUME review \in Reviews, AssignDomain \/ StartReview \/ RequestReconsideration
      PROVE  review' \in Reviews /\ (Sound(review, backlog'.state) => Sound(review', backlog'.state))
  BY <1>4 DEF AssignDomain, StartReview, RequestReconsideration, InStage,
      WithPlace, WithStage, Reviews, Stages, Sound
<1>5. ASSUME review \in Reviews, OwnerApproves \/ OwnerRejects
      PROVE  review' \in Reviews /\ (Sound(review, backlog'.state) => Sound(review', backlog'.state))
  BY <1>5 DEF OwnerApproves, OwnerRejects, InStage, OwnerDecides, WithStage,
      Reviews, Stages, Decision, Sound
<1>6. ASSUME review \in Reviews, NEW s \in Slot, SubmitEdit(s) \/ FailEdit(s) \/ ReviewEdit(s)
      PROVE  review' \in Reviews /\ (Sound(review, backlog'.state) => Sound(review', backlog'.state))
  BY <1>6 DEF SubmitEdit, FailEdit, ReviewEdit, InStage, WithVersion,
      WithStage, Reviews, Stages, Sound
<1>7. ASSUME review \in Reviews,
             \/ ManagerRejects /\ backlog'.state = "REJECTED"
             \/ (\E s \in Slot : ManagerApproves(s)) /\ backlog'.state = "APPROVED"
      PROVE  review' \in Reviews /\ (Sound(review, backlog'.state) => Sound(review', backlog'.state))
  <2>1. review.stage = "ready_for_application_manager"
    BY <1>7 DEF ManagerRejects, ManagerApproves, InStage
  <2>2. \/ /\ review' = [review EXCEPT !.stage = "application_manager_rejected", !.manager = "rejected"]
           /\ backlog'.state = "REJECTED"
        \/ /\ review' = [review EXCEPT !.stage = "application_manager_approved", !.manager = "approved"]
           /\ backlog'.state = "APPROVED"
    BY <1>7 DEF ManagerRejects, ManagerApproves, ManagerDecides, WithStage,
        Reviews
  <2> QED BY <1>7, <2>1, <2>2 DEF Reviews, Stages, Decision, Sound, PastTheGate
<1>8. ManagerRejects => backlog'.state = "REJECTED"
  BY DEF ManagerRejects, SetState, GovernanceTyped
<1>9. (\E s \in Slot : ManagerApproves(s)) => backlog'.state = "APPROVED"
  BY DEF ManagerApproves, SetState, GovernanceTyped
<1>10. CASE review \in Reviews
  <2>1. CopiesInv => Sound(review, backlog'.state)
    BY <1>10, GateKeepsSound DEF CopiesInv
  <2> QED BY <1>1, <1>2, <1>3, <1>4, <1>5, <1>6, <1>7, <1>8, <1>9, <1>10, <2>1 DEF ReviewStep
<1> QED BY <1>0, <1>1, <1>2, <1>3, <1>10 DEF ReviewStep

\* A review stays a review, and its copies keep to what every copy keeps to.
LEMMA GovernanceTypedStep == ASSUME GovernanceTyped, [Next]_vars PROVE GovernanceTyped'
<1>1. run' \in [stage : {"none", "in_progress", "done", "failed"}, text : Nat, proposed : BOOLEAN]
  BY RunMoves
<1>2. backlog' \in [state : {"none", "BACKLOG_READY", "APPROVED", "REJECTED",
                                "RESOLVED_WITHOUT_CHANGE"}, text : Nat]
  <2>1. backlog \in [state : {"none", "BACKLOG_READY", "APPROVED", "REJECTED",
                               "RESOLVED_WITHOUT_CHANGE"}, text : Nat]
    BY DEF GovernanceTyped
  <2>2. \/ backlog' = backlog
        \/ \E text \in Text : backlog' = [state |-> "BACKLOG_READY", text |-> text]
        \/ backlog' = [backlog EXCEPT !.state = "APPROVED"]
        \/ backlog' = [backlog EXCEPT !.state = "REJECTED"]
        \/ backlog' = [backlog EXCEPT !.state = "RESOLVED_WITHOUT_CHANGE"]
    BY GateMoves DEF GateStep
  <2>3. CASE \E text \in Text : backlog' = [state |-> "BACKLOG_READY", text |-> text]
    BY <2>3 DEF Text
  <2> QED BY <2>1, <2>2, <2>3
<1>3. /\ review' \in Reviews \cup {NoReview}
      /\ review \in Reviews => review' \in Reviews
  BY GateMoves, ReviewMoves
<1>4. calls' \in [Slot -> CallType] /\ analyses' \in Nat
  BY CallMoves
<1>5. ASSUME NEW s \in Slot, calls'[s].kind \in {"edit", "answer"}
      PROVE  review' \in Reviews
  BY <1>3, <1>5, CallMoves DEF SlotStep, GovernanceTyped
<1>6. ASSUME NEW s \in Slot, At(s, "answer", "saving")'
      PROVE  calls'[s].seen \in Reviews
  BY <1>6, CallMoves DEF SlotStep, GovernanceTyped, At
<1> QED BY <1>1, <1>2, <1>3, <1>4, <1>5, <1>6 DEF GovernanceTyped

\* The stage a decision is asked for in changes with the Domain Owner's word, or
\* an answer is noted to have changed it.
LEMMA VerdictStep == ASSUME GovernanceTyped, VerdictInv, [Next]_vars PROVE VerdictInv'
<1>1. CASE OwnerApproves
  BY <1>1 DEF OwnerApproves, Says, VerdictInv
<1>2. ASSUME NEW s \in Slot, SaveAnswer(s) PROVE VerdictInv'
  BY <1>2 DEF SaveAnswer, VerdictInv
<1>3. CASE UNCHANGED <<review, historyVars>>
  BY <1>3 DEF VerdictInv, historyVars
<1>4. CASE OwnerRejects \/ RequestReconsideration \/ StartReview \/ ManagerRejects \/ AssignDomain
           \/ \E s \in Slot : SubmitEdit(s) \/ FailEdit(s) \/ ReviewEdit(s) \/ ManagerApproves(s)
  <2>1. review \in Reviews
    BY <1>4 DEF OwnerRejects, RequestReconsideration, StartReview, ManagerRejects, AssignDomain, SubmitEdit,
        FailEdit, ReviewEdit, ManagerApproves, InStage, At, GovernanceTyped
  <2>2. review'.stage # "ready_for_application_manager"
    BY <1>4, <2>1 DEF OwnerRejects, RequestReconsideration, StartReview, ManagerRejects, AssignDomain, SubmitEdit,
        FailEdit, ReviewEdit, ManagerApproves, InStage, OwnerDecides, ManagerDecides, WithStage, WithPlace,
        WithVersion, Reviews
  <2> QED BY <2>2 DEF VerdictInv
<1>5. ASSUME NEW s \in Slot, SaveSeed(s) PROVE VerdictInv'
  BY <1>5 DEF SaveSeed, VerdictInv
<1>6. \/ UNCHANGED <<review, historyVars>>
      \/ OwnerApproves \/ OwnerRejects \/ RequestReconsideration \/ StartReview \/ ManagerRejects \/ AssignDomain
      \/ \E s \in Slot : \/ SubmitEdit(s) \/ FailEdit(s) \/ ReviewEdit(s) \/ ManagerApproves(s)
                        \/ SaveAnswer(s) \/ SaveSeed(s)
  BY DEF Next, Requests, Runs, Decisions, vars, PressEnhance,
      SeedReview, Ask, PressArchitect, FinishAnalysis, FailAnalysis,
      AbandonEdit, FailAnswer, ReadForAnswer, BeginArchitect, FinishArchitect,
      FailArchitect, BeginAnalysis, NextAgent, Propose, LinkStory, ResolveWithoutChange,
      HostDies, HostStarts
<1> QED BY <1>1, <1>2, <1>3, <1>4, <1>5, <1>6

LEMMA GovernanceInvStep == ASSUME GovernanceInv, [Next]_vars PROVE GovernanceInv'
<1>0. GovernanceTyped /\ GateStep /\ ReviewStep
  BY GateMoves DEF GovernanceInv
<1>1. CopiesInv'
  <2>1. \A s \in Slot : calls'[s].seen \in {calls[s].seen, review, NoReview}
    BY <1>0, CallMoves DEF SlotStep
  <2>2. ASSUME NEW s \in Slot, calls'[s].seen \in Reviews
        PROVE  Sound(calls'[s].seen, backlog'.state)
    <3>1. calls'[s].seen \in {calls[s].seen, review} /\ Sound(calls'[s].seen, backlog.state)
      BY <2>1, <2>2, ReviewsAreNotNone DEF GovernanceInv, CopiesInv
    <3> QED BY <1>0, <3>1, GateKeepsSound
  <2> QED BY <1>0, <2>2, ReviewMoves DEF CopiesInv, GovernanceInv
<1>2. QueueInv'
  BY <1>0 DEF GovernanceInv, QueueInv, GateStep, PastTheGate, GovernanceTyped
<1> QED BY <1>0, <1>1, <1>2, GovernanceTypedStep, VerdictStep DEF GovernanceInv

LEMMA GovernanceInvariance == Spec => []GovernanceInv
<1> QED BY GovernanceInit, GovernanceInvStep, PTL DEF Spec

\* The records of analysis, backlog and review keep their types, and an answer
\* or an edit under way always has a review to write to.
THEOREM GovernanceTypes == Spec => []GovernanceTyped
<1>1. GovernanceInv => GovernanceTyped
  BY DEF GovernanceInv
<1> QED BY GovernanceInvariance, <1>1, PTL

\* A review that can be approved, or was, never ends with the Domain Owner's
\* own edit, however late an answer writes its copy of the review back.
THEOREM DecidedAsReviewed == Spec => []ApprovedAsReviewed
<1>1. GovernanceInv => ApprovedAsReviewed
  BY DEF GovernanceInv, CopiesInv, Sound, ApprovedAsReviewed, Copies
<1> QED BY GovernanceInvariance, <1>1, PTL

\* What a review, or a copy of it, says of the Application Manager's decision
\* is what the gate and the queue say.
THEOREM ReviewAndGateAgree == Spec => []DecisionsAgree
<1>1. GovernanceInv => DecisionsAgree
  BY DEF GovernanceInv, CopiesInv, QueueInv, Sound, PastTheGate, DecisionsAgree, Copies
<1> QED BY GovernanceInvariance, <1>1, PTL

\* A story passes the gate only by the Application Manager, and only on the
\* Domain Owner's standing approval: their last word is no rejection and was not
\* followed by a reopening, or an answer that was under way wrote the review of
\* before it back (application_manager_approve, append_conversation_turn).
THEOREM PassedByBoth == Spec => AuthorisedByBoth
<1>1. ASSUME GovernanceInv, [Next]_vars, backlog.state # "APPROVED", backlog'.state = "APPROVED"
      PROVE  review'.manager = "approved" /\ (verdict = "approved" \/ undone)
  <2>1. backlog \in [state : {"none", "BACKLOG_READY", "APPROVED", "REJECTED",
                              "RESOLVED_WITHOUT_CHANGE"}, text : Nat]
    BY <1>1 DEF GovernanceInv, GovernanceTyped
  <2>2. PICK s \in Slot : ManagerApproves(s)
    <3>1. GateStep
      BY <1>1, GateMoves DEF GovernanceInv
    <3>2. CASE \/ backlog' = [backlog EXCEPT !.state = "REJECTED"]
               \/ backlog' = [backlog EXCEPT !.state = "RESOLVED_WITHOUT_CHANGE"]
      BY <1>1, <2>1, <3>2
    <3>3. CASE \E text \in Text : backlog' = [state |-> "BACKLOG_READY", text |-> text]
      BY <1>1, <3>3
    <3> QED BY <1>1, <3>1, <3>2, <3>3 DEF GateStep
  <2>3. review \in Reviews /\ review.stage = "ready_for_application_manager"
    BY <1>1, <2>2 DEF ManagerApproves, InStage, GovernanceInv, GovernanceTyped
  <2>4. review' = [review EXCEPT !.stage = "application_manager_approved", !.manager = "approved"]
    BY <2>2, <2>3 DEF ManagerApproves, ManagerDecides, WithStage, Reviews
  <2> QED BY <1>1, <2>3, <2>4 DEF GovernanceInv, VerdictInv, Reviews
<1>2. GovernanceInv /\ [Next]_vars =>
        [backlog.state # "APPROVED" /\ backlog'.state = "APPROVED" =>
           /\ review'.manager = "approved"
           /\ verdict = "approved" \/ undone]_vars
  BY <1>1
<1> QED BY GovernanceInvariance, <1>2, PTL DEF Spec, AuthorisedByBoth
=============================================================================
