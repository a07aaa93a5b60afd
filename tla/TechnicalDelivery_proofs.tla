---------------------- MODULE TechnicalDelivery_proofs ----------------------
(***************************************************************************)
(* What holds of the technical work of a story for any number of people,   *)
(* runs of the agent, package revisions and restarts.                      *)
(*                                                                         *)
(* A request acts on what it read before the lock.  It may, because of     *)
(* what cannot be taken back meanwhile: a milestone once recorded          *)
(* (RecordInv), a design approval once in the table (ApprovalInv), the     *)
(* revision a run stored last (PackageInv).  A verification without its    *)
(* results is one whose second transaction is still to come, or was lost   *)
(* in a restart (ResultsInv).                                              *)
(***************************************************************************)
EXTENDS TechnicalDelivery, TLAPS

(***************************************************************************)
(* The inductive invariant                                                 *)
(***************************************************************************)
PackageType == [run : Run \cup {"none"}, design : Nat, source : Nat, superseded : BOOLEAN,
                change : BOOLEAN]
RecordType == [status : {"none", "pending", "approved", "rejected"}, invalid : BOOLEAN, before : Nat,
               write : {"ready", "applied"}, build : {"ready", "built", "failed"}, cnc : BOOLEAN,
               test : {"ready", "completed"}, verification : {"none", "verified", "failed"}]
RunType == [status : {"none", "running", "settled"},
            pc : {"none", "work", "store", "propose", "link"}, design : Nat, since : Nat,
            expected : Nat, next : Nat, source : Nat]
RequestType == [op : Milestone \cup {"none", "design", "run", "approve"},
                pc : {"none", "insert", "set", "start", "decide", "record", "results"}, rev : Nat,
                superseded : BOOLEAN]

\* What a run is about to store, and what a person is about to record, is a
\* revision.
Storing(r) == run[r].pc \in {"store", "propose", "link"}
Recording(p) == request[p].op \in Milestone \cup {"approve"}

DesignTyped ==
    /\ handoff \in [design : Nat, approval : Nat, flagged : BOOLEAN]
    /\ writer \in [pc : {"none", "write"}, design : Nat, approval : Nat]
    /\ source \in Nat /\ outside \in Nat
WorkTyped ==
    /\ latest \in 0 .. MaxPackages
    /\ package \in [Revision -> PackageType]
    /\ run \in [Run -> RunType]
    /\ \A r \in Run : Storing(r) => run[r].next \in Revision
RecordTyped ==
    /\ record \in [Revision -> RecordType]
    /\ request \in [Person -> RequestType]
    /\ \A p \in Person : Recording(p) => request[p].rev \in Revision

Typed == DesignTyped /\ WorkTyped /\ RecordTyped

\* An approval that is about to be copied, or is held by a hand-off being
\* written, is in the table, and of that hand-off's design.
ApprovalInv ==
    /\ ApprovalOfThisDesign
    /\ writer.approval # 0 => writer.approval = writer.design /\ writer.design \in approvals
    /\ \A p \in Person : At(p, "design", "set") => request[p].rev \in approvals

\* Every revision was stored by a run that began; a run that is still running
\* has seen the newest revision at its begin, or stored what it expects.
PackageInv ==
    /\ RevisionsBuildOnEachOther
    /\ \A n \in Revision : n <= latest =>
          package[n].run \in Run /\ run[package[n].run].status # "none"
    /\ \A r \in Run : run[r].status = "running" =>
          /\ run[r].expected <= latest
          /\ \/ run[r].expected = run[r].since
             \/ run[r].expected \in Revision /\ package[run[r].expected].run = r

\* What a request read of the milestones before its own still holds.
RecordInv ==
    /\ MilestonesInOrder
    /\ \A p \in Person :
         /\ At(p, "build", "record") => record[request[p].rev].write = "applied"
         /\ At(p, "verify", "record") => record[request[p].rev].cnc

\* A verification without results waits for its second transaction.
ResultsInv ==
    \A n \in Revision : record[n].test = "completed" /\ record[n].verification = "none" =>
        outside > 0 \/ \E p \in Person : At(p, "verify", "results") /\ request[p].rev = n

IInv == Typed /\ ApprovalInv /\ PackageInv /\ RecordInv /\ ResultsInv

(***************************************************************************)
(* Which steps touch what                                                  *)
(***************************************************************************)
\* What a step does to the change record of a revision.
RecordMove(n) ==
    \/ \E r \in Run : Propose(r) /\ n = run[r].next
    \/ \E p \in Person : n = request[p].rev
          /\ (ApprovePackage(p) \/ RecordMilestone(p) \/ StoreResults(p) \/ RecordActivation(p))
    \/ RejectPackage(n) \/ RecordInvalidation(n)

\* What a step does to a run.
RunMove(r) ==
    \/ \E p \in Person : StartRun(p, r)
    \/ Prepare(r) \/ StorePackage(r) \/ DiscardPackage(r) \/ Propose(r)
    \/ ProposeNothing(r) \/ LinkChange(r) \/ FinishRun(r)
    \/ MarkInterrupted \/ Crash

\* What a step does to a request.
RequestMove(p) ==
    \/ AskDesignApproval(p) \/ InsertApproval(p) \/ SetApproval(p)
    \/ AskRun(p) \/ RefuseRun(p) \/ ApprovePackage(p)
    \/ RecordMilestone(p) \/ RefuseMilestone(p) \/ StoreResults(p) \/ RecordActivation(p)
    \/ \E r \in Run : StartRun(p, r)
    \/ \E n \in Revision : AskPackageApproval(p, n)
    \/ \E n \in Revision, milestone \in Milestone : AskMilestone(p, n, milestone)

LEMMA Moves ==
    ASSUME Typed, [Next]_vars
    PROVE  /\ \/ handoff' = handoff
              \/ WriteHandoff \/ FlagHandoff \/ \E p \in Person : SetApproval(p)
           /\ approvals' = approvals \/ \E p \in Person : InsertApproval(p)
           /\ writer' = writer \/ ReadHandoff \/ WriteHandoff \/ Crash
           /\ \/ package' = package /\ latest' = latest
              \/ \E r \in Run : StorePackage(r) \/ LinkChange(r)
           /\ source' = source \/ Upload
           /\ outside' = outside \/ Outside
           /\ \A n \in Revision : record'[n] = record[n] \/ RecordMove(n)
           /\ \A r \in Run : run'[r] = run[r] \/ RunMove(r)
           /\ \A p \in Person : request'[p] = request[p] \/ RequestMove(p) \/ Crash
           /\ record' = [n \in Revision |-> record'[n]]
           /\ run' = [r \in Run |-> run'[r]]
           /\ request' = [p \in Person |-> request'[p]]
<1> USE DEF vars, designVars, workVars, gateVars, AskDesignApproval, InsertApproval, SetApproval,
            ReadHandoff, WriteHandoff, AskRun, StartRun, RefuseRun, Prepare, StorePackage,
            DiscardPackage, Propose, ProposeNothing, LinkChange, FinishRun, AskPackageApproval,
            ApprovePackage, RejectPackage, AskMilestone, RecordMilestone, RefuseMilestone,
            StoreResults, RecordActivation, Upload, FlagHandoff, RecordInvalidation, GateChanges,
            MarkInterrupted, Crash
<1>1. /\ \/ handoff' = handoff
         \/ WriteHandoff \/ FlagHandoff \/ \E p \in Person : SetApproval(p)
      /\ approvals' = approvals \/ \E p \in Person : InsertApproval(p)
      /\ writer' = writer \/ ReadHandoff \/ WriteHandoff \/ Crash
  BY DEF Next, DesignStep, RunStep, PersonStep, OutsideStep
<1>2. /\ \/ package' = package /\ latest' = latest
         \/ \E r \in Run : StorePackage(r) \/ LinkChange(r)
      /\ source' = source \/ Upload
      /\ outside' = outside \/ Outside
  BY DEF Next, DesignStep, RunStep, PersonStep, OutsideStep
<1>8. /\ record' = [n \in Revision |-> record'[n]]
      /\ run' = [r \in Run |-> run'[r]]
      /\ request' = [p \in Person |-> request'[p]]
  <2>1. CASE UNCHANGED vars \/ DesignStep
    <3>1. record' = record /\ run' = run
      BY <2>1 DEF DesignStep
    <3>2. request' = [p \in Person |-> request'[p]]
      BY <2>1 DEF DesignStep, Done, Goto, Open, Typed, RecordTyped
    <3> QED BY <3>1, <3>2 DEF Typed, WorkTyped, RecordTyped
  <2>2. ASSUME NEW r \in Run, RunStep(r)
        PROVE  /\ record' = [n \in Revision |-> record'[n]]
               /\ run' = [q \in Run |-> run'[q]]
               /\ request' = [p \in Person |-> request'[p]]
    <3>1. record' = [n \in Revision |-> record'[n]]
      BY <2>2 DEF RunStep, Typed, RecordTyped
    <3>2. run' = [q \in Run |-> run'[q]]
      BY <2>2 DEF RunStep, Typed, WorkTyped
    <3>3. request' = [p \in Person |-> request'[p]]
      BY <2>2 DEF RunStep, Typed, RecordTyped, Done, Open
    <3> QED BY <3>1, <3>2, <3>3
  <2>3. ASSUME NEW p \in Person, PersonStep(p)
        PROVE  /\ record' = [n \in Revision |-> record'[n]]
               /\ run' = run
               /\ request' = [q \in Person |-> request'[q]]
    <3>1. record' = [n \in Revision |-> record'[n]]
      BY <2>3 DEF PersonStep, Typed, RecordTyped
    <3>2. run' = run
      BY <2>3 DEF PersonStep
    <3>3. request' = [q \in Person |-> request'[q]]
      BY <2>3 DEF PersonStep, Typed, RecordTyped, Done, Goto, Open
    <3> QED BY <3>1, <3>2, <3>3
  <2>4. CASE OutsideStep
    <3>1. record' = [n \in Revision |-> record'[n]]
      BY <2>4 DEF OutsideStep, Typed, RecordTyped
    <3>2. run' = [r \in Run |-> run'[r]]
      BY <2>4 DEF OutsideStep, Typed, WorkTyped
    <3>3. request' = [p \in Person |-> request'[p]]
      BY <2>4 DEF OutsideStep, Typed, RecordTyped
    <3> QED BY <3>1, <3>2, <3>3
  <2>5. run = [r \in Run |-> run[r]]
    BY DEF Typed, WorkTyped
  <2> QED BY <2>1, <2>2, <2>3, <2>4, <2>5 DEF Next
<1>3. CASE UNCHANGED vars
  BY <1>1, <1>2, <1>3, <1>8
<1>4. CASE DesignStep
  <2>1. record' = record /\ run' = run
    BY <1>4 DEF DesignStep
  <2>2. \A p \in Person : request'[p] = request[p] \/ RequestMove(p) \/ Crash
    <3>1. ASSUME NEW p \in Person, AskDesignApproval(p) \/ InsertApproval(p) \/ SetApproval(p)
          PROVE  RequestMove(p) /\ \A q \in Person : q # p => request'[q] = request[q]
      BY <3>1 DEF RequestMove, Typed, RecordTyped, Done, Goto, Open
    <3> QED BY <1>4, <3>1 DEF DesignStep
  <2> QED BY <1>1, <1>2, <1>8, <2>1, <2>2
<1>5. ASSUME NEW r \in Run, RunStep(r)
      PROVE  /\ \A n \in Revision : record'[n] = record[n] \/ RecordMove(n)
             /\ \A q \in Run : run'[q] = run[q] \/ RunMove(q)
             /\ \A p \in Person : request'[p] = request[p] \/ RequestMove(p) \/ Crash
  <2>1. \A n \in Revision : record'[n] = record[n] \/ RecordMove(n)
    BY <1>5 DEF RunStep, RecordMove, Typed, RecordTyped
  <2>2. RunMove(r) /\ \A q \in Run : q # r => run'[q] = run[q]
    BY <1>5 DEF RunStep, RunMove, Typed, WorkTyped
  <2>3. \A p \in Person : request'[p] = request[p] \/ RequestMove(p) \/ Crash
    BY <1>5 DEF RunStep, RequestMove, Typed, RecordTyped, Done, Open
  <2> QED BY <2>1, <2>2, <2>3
<1>6. ASSUME NEW p \in Person, PersonStep(p)
      PROVE  /\ \A n \in Revision : record'[n] = record[n] \/ RecordMove(n)
             /\ \A q \in Run : run'[q] = run[q] \/ RunMove(q)
             /\ \A q \in Person : request'[q] = request[q] \/ RequestMove(q) \/ Crash
  <2>1. run' = run
    BY <1>6 DEF PersonStep
  <2>2. RequestMove(p)
    BY <1>6 DEF PersonStep, RequestMove
  <2>3. \A q \in Person : q # p => request'[q] = request[q]
    BY <1>6 DEF PersonStep, Typed, RecordTyped, Done, Goto, Open
  <2>4. \A n \in Revision : record'[n] = record[n] \/ RecordMove(n)
    <3>1. \/ record' = record
          \/ /\ ApprovePackage(p) \/ RecordMilestone(p) \/ StoreResults(p) \/ RecordActivation(p)
             /\ \A n \in Revision : n # request[p].rev => record'[n] = record[n]
      BY <1>6 DEF PersonStep, Typed, RecordTyped
    <3> QED BY <3>1 DEF RecordMove
  <2> QED BY <2>1, <2>2, <2>3, <2>4
<1>7. CASE OutsideStep
  <2>1. \A n \in Revision : record'[n] = record[n] \/ RecordMove(n)
    BY <1>7 DEF OutsideStep, RecordMove, Typed, RecordTyped
  <2>2. \A q \in Run : run'[q] = run[q] \/ RunMove(q)
    BY <1>7 DEF OutsideStep, RunMove
  <2>3. \A p \in Person : request'[p] = request[p] \/ RequestMove(p) \/ Crash
    BY <1>7 DEF OutsideStep
  <2> QED BY <1>1, <1>2, <1>8, <2>1, <2>2, <2>3
<1> QED BY <1>1, <1>2, <1>3, <1>4, <1>5, <1>6, <1>7, <1>8 DEF Next

(***************************************************************************)
(* Types                                                                   *)
(***************************************************************************)
LEMMA TypedInit == Init => Typed
<1> SUFFICES ASSUME Init PROVE Typed
  OBVIOUS
<1>1. NoPackage \in PackageType /\ NoRecord \in RecordType /\ IdleRun \in RunType
      /\ NoRequest \in RequestType
  BY DEF NoPackage, PackageType, NoRecord, RecordType, IdleRun, RunType, NoRequest, RequestType,
         Milestone
<1>2. DesignTyped
  BY DEF Init, DesignTyped, NoWriter
<1>3. WorkTyped
  BY <1>1, TechnicalBounds DEF Init, WorkTyped, Storing, IdleRun
<1>4. RecordTyped
  BY <1>1 DEF Init, RecordTyped, Recording, NoRequest, Milestone
<1> QED BY <1>2, <1>3, <1>4 DEF Typed

LEMMA DesignTypedStep == ASSUME Typed, [Next]_vars PROVE DesignTyped'
<1>1. source' \in Nat /\ outside' \in Nat
  BY Moves DEF Typed, DesignTyped, Upload, Outside
<1>2. handoff' \in [design : Nat, approval : Nat, flagged : BOOLEAN]
  <2>1. WriteHandoff => handoff' \in [design : Nat, approval : Nat, flagged : BOOLEAN]
    BY DEF Typed, DesignTyped, WriteHandoff
  <2>2. FlagHandoff => handoff' \in [design : Nat, approval : Nat, flagged : BOOLEAN]
    BY DEF Typed, DesignTyped, FlagHandoff
  <2>3. ASSUME NEW p \in Person, SetApproval(p)
        PROVE  handoff' \in [design : Nat, approval : Nat, flagged : BOOLEAN]
    BY <2>3 DEF Typed, DesignTyped, SetApproval
  <2> QED BY <2>1, <2>2, <2>3, Moves DEF Typed, DesignTyped
<1>3. writer' \in [pc : {"none", "write"}, design : Nat, approval : Nat]
  <2>1. ReadHandoff => writer' \in [pc : {"none", "write"}, design : Nat, approval : Nat]
    BY DEF Typed, DesignTyped, ReadHandoff
  <2>2. WriteHandoff \/ Crash => writer' \in [pc : {"none", "write"}, design : Nat, approval : Nat]
    <3>1. WriteHandoff \/ Crash => writer' = NoWriter
      BY DEF WriteHandoff, Crash
    <3> QED BY <3>1 DEF NoWriter
  <2> QED BY <2>1, <2>2, Moves DEF Typed, DesignTyped
<1> QED BY <1>1, <1>2, <1>3 DEF DesignTyped

\* What a step does to a run, field by field.
LEMMA RunMoves ==
    ASSUME Typed, NEW r \in Run, RunMove(r)
    PROVE  /\ run'[r] \in RunType
           /\ Storing(r)' => run'[r].next \in Revision
           /\ \/ /\ run'[r].since = run[r].since
                 /\ \/ run'[r].status = run[r].status
                    \/ run[r].status = "running" /\ run'[r].status = "settled"
                 /\ run'[r].expected = run[r].expected \/ StorePackage(r)
              \/ /\ run[r].status = "none" /\ run'[r].status = "running"
                 /\ run'[r].since = latest /\ run'[r].expected = latest
                 /\ package' = package /\ latest' = latest
<1> USE DEF Typed, WorkTyped, RunType, Storing
<1>1. ASSUME NEW p \in Person, StartRun(p, r)
      PROVE  /\ run'[r].status = "running" /\ run'[r].pc = "work" /\ run'[r].since = latest
             /\ run'[r].expected = latest /\ run'[r] \in RunType /\ run[r].status = "none"
             /\ package' = package /\ latest' = latest
  <2>1. request[p].rev \in Nat /\ latest \in Nat
    BY TechnicalBounds DEF RecordTyped, RequestType
  <2> QED BY <1>1, <2>1 DEF StartRun, IdleRun
<1>2. ASSUME Prepare(r)
      PROVE  /\ run'[r].status = run[r].status /\ run'[r].since = run[r].since
             /\ run'[r].expected = run[r].expected
             /\ run'[r] \in RunType /\ run'[r].next \in Revision
  <2>1. latest + 1 \in Nat /\ latest + 1 \in Revision
    BY <1>2, TechnicalBounds DEF Prepare, Revision
  <2>2. PICK opened \in {source, run[r].source} \ {0} :
          run' = [run EXCEPT ![r].pc = "store", ![r].next = latest + 1, ![r].source = opened]
    BY <1>2 DEF Prepare
  <2>3. opened \in Nat
    BY DEF DesignTyped
  <2> QED BY <2>1, <2>2, <2>3
<1>3. ASSUME StorePackage(r)
      PROVE  /\ run'[r].status = run[r].status /\ run'[r].since = run[r].since
             /\ run'[r] \in RunType /\ run'[r].next \in Revision
  BY <1>3 DEF StorePackage, MayStore
<1>4. ASSUME DiscardPackage(r) \/ Propose(r) \/ ProposeNothing(r) \/ LinkChange(r) \/ FinishRun(r)
      PROVE  /\ \/ run'[r].status = run[r].status
                \/ run[r].status = "running" /\ run'[r].status = "settled"
             /\ run'[r].since = run[r].since /\ run'[r].expected = run[r].expected
             /\ run'[r] \in RunType /\ (Storing(r)' => run'[r].next \in Revision)
  BY <1>4 DEF DiscardPackage, Propose, ProposeNothing, LinkChange, FinishRun
<1>5. ASSUME MarkInterrupted \/ Crash
      PROVE  /\ \/ run'[r].status = run[r].status
                \/ run[r].status = "running" /\ run'[r].status = "settled"
             /\ run'[r].since = run[r].since /\ run'[r].expected = run[r].expected
             /\ run'[r] \in RunType /\ (Storing(r)' => run'[r].next \in Revision)
  <2>1. \/ run'[r] = [run[r] EXCEPT !.status = Failed(r)]
        \/ run'[r] = [run[r] EXCEPT !.status = Failed(r), !.pc = "none"]
    BY <1>5 DEF MarkInterrupted, Crash
  <2>2. run[r] \in RunType /\ (Storing(r) => run[r].next \in Revision)
    OBVIOUS
  <2>3. \/ Failed(r) = run[r].status
        \/ run[r].status = "running" /\ Failed(r) = "settled"
    BY DEF Failed
  <2> QED BY <2>1, <2>2, <2>3
<1>6. run[r] \in RunType /\ (Storing(r)' => run'[r].pc # "work")
  OBVIOUS
<1> HIDE DEF Typed, WorkTyped, RunType, Storing
<1> QED
  <2>1. CASE \E p \in Person : StartRun(p, r)
    BY <1>1, <1>6, <2>1 DEF Storing
  <2>2. CASE Prepare(r) \/ StorePackage(r)
    BY <1>2, <1>3, <2>2
  <2>3. CASE DiscardPackage(r) \/ Propose(r) \/ ProposeNothing(r) \/ LinkChange(r) \/ FinishRun(r)
             \/ MarkInterrupted \/ Crash
    BY <1>4, <1>5, <2>3
  <2> QED BY <2>1, <2>2, <2>3 DEF RunMove

\* A stored revision is the next one; every other step leaves who stored what.
LEMMA PackageMoves ==
    ASSUME Typed, [Next]_vars
    PROVE  /\ latest' \in 0 .. MaxPackages
           /\ package' \in [Revision -> PackageType]
           /\ \/ latest' = latest /\ \A n \in Revision : package'[n].run = package[n].run
              \/ \E r \in Run :
                    /\ StorePackage(r) /\ run[r].status = "running" /\ run[r].expected = latest
                    /\ latest' = latest + 1 /\ latest' \in Revision
                    /\ package'[latest'].run = r /\ run'[r].expected = latest'
                    /\ run'[r].status = "running" /\ run'[r].since = run[r].since
                    /\ \A q \in Run : q # r => run'[q] = run[q]
                    /\ \A n \in Revision : n # latest' => package'[n].run = package[n].run
<1> USE DEF Typed, WorkTyped
<1>1. ASSUME NEW r \in Run, StorePackage(r)
      PROVE  /\ run[r].status = "running" /\ run[r].expected = latest
             /\ latest' = latest + 1 /\ latest' \in Revision
             /\ package' \in [Revision -> PackageType]
             /\ package'[latest'].run = r /\ run'[r].expected = latest'
             /\ run'[r].status = "running" /\ run'[r].since = run[r].since
             /\ \A q \in Run : q # r => run'[q] = run[q]
             /\ \A n \in Revision : n # latest' => package'[n].run = package[n].run
  <2>1. run[r] \in RunType /\ run[r].next \in Revision /\ run[r].status = "running"
        /\ run[r].expected = latest /\ run[r].next = latest + 1
    BY <1>1 DEF StorePackage, MayStore, Storing
  <2>2. latest' = latest + 1 /\ latest' \in Revision
    BY <1>1, <2>1 DEF StorePackage
  <2>3. /\ run'[r].expected = latest' /\ run'[r].status = "running" /\ run'[r].since = run[r].since
        /\ \A q \in Run : q # r => run'[q] = run[q]
    BY <1>1, <2>1, <2>2 DEF StorePackage, RunType
  <2>4. package' = [n \in Revision |->
          IF n = run[r].next
          THEN [run |-> r, design |-> run[r].design, source |-> run[r].source,
                superseded |-> FALSE, change |-> FALSE]
          ELSE IF n = latest THEN [package[n] EXCEPT !.superseded = TRUE] ELSE package[n]]
    BY <1>1 DEF StorePackage
  <2>5. \A n \in Revision : package'[n] \in PackageType
    <3>1. r \in Run /\ run[r].design \in Nat /\ run[r].source \in Nat
      BY <2>1 DEF RunType
    <3>2. \A n \in Revision : package[n] \in PackageType
      OBVIOUS
    <3> HIDE DEF Typed, WorkTyped
    <3>3. ASSUME NEW n \in Revision, n = run[r].next PROVE package'[n] \in PackageType
      BY <2>4, <3>1, <3>3 DEF PackageType
    <3>4. ASSUME NEW n \in Revision, n # run[r].next PROVE package'[n] \in PackageType
      BY <2>4, <3>2, <3>4 DEF PackageType
    <3> QED BY <3>3, <3>4
  <2>6. package'[latest'].run = r /\ \A n \in Revision : n # latest' => package'[n].run = package[n].run
    BY <2>1, <2>2, <2>4 DEF PackageType
  <2>7. package' \in [Revision -> PackageType]
    BY <2>4, <2>5
  <2> QED BY <2>1, <2>2, <2>3, <2>6, <2>7
<1>2. ASSUME NEW r \in Run, LinkChange(r)
      PROVE  /\ latest' = latest /\ package' \in [Revision -> PackageType]
             /\ \A n \in Revision : package'[n].run = package[n].run
  <2>1. run[r].next \in Revision
    BY <1>2 DEF LinkChange, Storing
  <2> QED BY <1>2, <2>1 DEF LinkChange, PackageType
<1>3. latest' \in Nat /\ latest' <= MaxPackages
  BY <1>1, <1>2, Moves, TechnicalBounds DEF Revision
<1> QED BY <1>1, <1>2, <1>3, Moves


\* What a step does to the milestones of a change record.
SameMilestones(n) ==
    /\ record'[n].write = record[n].write /\ record'[n].build = record[n].build
    /\ record'[n].cnc = record[n].cnc /\ record'[n].test = record[n].test
    /\ record'[n].verification = record[n].verification
Applies(p, n) ==
    /\ At(p, "apply", "record") /\ MayRecord(p) /\ request[p].rev = n
    /\ record'[n] = [record[n] EXCEPT !.write = "applied"]
Builds(p, n) ==
    /\ At(p, "build", "record") /\ MayRecord(p) /\ request[p].rev = n
    /\ \E outcome \in {"built", "failed"} : record'[n] = [record[n] EXCEPT !.build = outcome]
Verifies(p, n) ==
    /\ At(p, "verify", "record") /\ MayRecord(p) /\ request[p].rev = n
    /\ record'[n] = [record[n] EXCEPT !.test = "completed"]
    /\ request'[p] = [request[p] EXCEPT !.pc = "results"]
Reports(p, n) ==
    /\ StoreResults(p) /\ request[p].rev = n
    /\ \E result \in {"verified", "failed"} : record'[n] = [record[n] EXCEPT !.verification = result]
Activates(p, n) ==
    /\ RecordActivation(p) /\ request[p].rev = n /\ record[n].build = "built"
    /\ record'[n] = [record[n] EXCEPT !.cnc = TRUE]

LEMMA RecordMoves ==
    ASSUME Typed, NEW n \in Revision, RecordMove(n)
    PROVE  /\ record'[n] \in RecordType
           /\ \/ SameMilestones(n)
              \/ \E p \in Person : Applies(p, n) \/ Builds(p, n) \/ Verifies(p, n)
                                      \/ Reports(p, n) \/ Activates(p, n)
<1> USE DEF Typed, RecordTyped
<1>0. record[n] \in RecordType
  OBVIOUS
<1>1. ASSUME NEW r \in Run, Propose(r), n = run[r].next
      PROVE  record'[n] = [record[n] EXCEPT !.status = "pending"]
  BY <1>1 DEF Propose
<1>2. ASSUME RejectPackage(n) PROVE record'[n] = [record[n] EXCEPT !.status = "rejected"]
  BY <1>2 DEF RejectPackage
<1>3. ASSUME RecordInvalidation(n) PROVE record'[n] = [record[n] EXCEPT !.invalid = TRUE]
  BY <1>3 DEF RecordInvalidation
<1>4. ASSUME NEW p \in Person, n = request[p].rev, ApprovePackage(p)
      PROVE  \/ record'[n] = record[n]
             \/ record'[n] = [record[n] EXCEPT !.status = "approved", !.before = source]
  BY <1>4 DEF ApprovePackage
<1>5. ASSUME NEW p \in Person, n = request[p].rev, RecordMilestone(p)
      PROVE  /\ MayRecord(p)
             /\ \/ At(p, "apply", "record") /\ record'[n] = [record[n] EXCEPT !.write = "applied"]
                \/ /\ At(p, "build", "record")
                   /\ \E outcome \in {"built", "failed"} :
                         record'[n] = [record[n] EXCEPT !.build = outcome]
                \/ /\ At(p, "verify", "record")
                   /\ record'[n] = [record[n] EXCEPT !.test = "completed"]
                   /\ request'[p] = [request[p] EXCEPT !.pc = "results"]
  BY <1>5 DEF RecordMilestone, Goto
<1>6. ASSUME NEW p \in Person, n = request[p].rev, StoreResults(p)
      PROVE  \E result \in {"verified", "failed"} :
                record'[n] = [record[n] EXCEPT !.verification = result]
  BY <1>6 DEF StoreResults
<1>7. ASSUME NEW p \in Person, n = request[p].rev, RecordActivation(p)
      PROVE  \/ record'[n] = record[n]
             \/ record[n].build = "built" /\ record'[n] = [record[n] EXCEPT !.cnc = TRUE]
  BY <1>7 DEF RecordActivation, MayActivate
<1> HIDE DEF Typed, RecordTyped
<1>8. record'[n] \in RecordType
  <2>1. source \in Nat
    BY DEF Typed, DesignTyped
  <2> QED BY <1>0, <1>1, <1>2, <1>3, <1>4, <1>5, <1>6, <1>7, <2>1 DEF RecordMove, RecordType
<1>9. CASE \E r \in Run : Propose(r) /\ n = run[r].next
  BY <1>0, <1>1, <1>8, <1>9 DEF RecordType, SameMilestones
<1>10. CASE RejectPackage(n) \/ RecordInvalidation(n)
  BY <1>0, <1>2, <1>3, <1>8, <1>10 DEF RecordType, SameMilestones
<1>11. CASE \E p \in Person : n = request[p].rev /\ ApprovePackage(p)
  BY <1>0, <1>4, <1>8, <1>11 DEF RecordType, SameMilestones
<1>12. CASE \E p \in Person : n = request[p].rev /\ RecordMilestone(p)
  BY <1>5, <1>8, <1>12 DEF Applies, Builds, Verifies
<1>13. CASE \E p \in Person : n = request[p].rev /\ StoreResults(p)
  BY <1>6, <1>8, <1>13 DEF Reports
<1>14. CASE \E p \in Person : n = request[p].rev /\ RecordActivation(p)
  BY <1>0, <1>7, <1>8, <1>14 DEF RecordType, SameMilestones, Activates
<1> QED BY <1>9, <1>10, <1>11, <1>12, <1>13, <1>14 DEF RecordMove

\* What a step does to a request: it is typed, it stands at the copy of a
\* design approval only once the row is there, it begins a milestone only
\* behind the ones before, and it leaves a verification only with its results.
LEMMA RequestMoves ==
    ASSUME Typed, NEW p \in Person, RequestMove(p)
    PROVE  /\ request'[p] \in RequestType
           /\ Recording(p)' => request'[p].rev \in Revision
           /\ At(p, "design", "set")' => request'[p].rev \in approvals'
           /\ At(p, "build", "record")' => record[request'[p].rev].write = "applied"
           /\ At(p, "verify", "record")' => record[request'[p].rev].cnc
           /\ At(p, "verify", "results") => StoreResults(p)
<1>0. request[p] \in RequestType /\ (Recording(p) => request[p].rev \in Revision)
      /\ request \in [Person -> RequestType] /\ handoff.design \in Nat
  BY DEF Typed, RecordTyped, DesignTyped
<1> USE DEF At
<1>1. ASSUME AskDesignApproval(p) \/ AskRun(p)
      PROVE  /\ request'[p].op \in {"design", "run"} /\ request'[p].pc \in {"insert", "start"}
             /\ request'[p] \in RequestType /\ request[p].op = "none"
  <2>1. /\ request[p] = NoRequest
        /\ \/ request'[p] = [NoRequest EXCEPT !.op = "design", !.pc = "insert", !.rev = handoff.design]
           \/ request'[p] = [NoRequest EXCEPT !.op = "run", !.pc = "start", !.rev = handoff.design]
    BY <1>0, <1>1 DEF AskDesignApproval, AskRun, Open, Idle
  <2>2. \/ request'[p] = [op |-> "design", pc |-> "insert", rev |-> handoff.design, superseded |-> FALSE]
        \/ request'[p] = [op |-> "run", pc |-> "start", rev |-> handoff.design, superseded |-> FALSE]
    BY <2>1 DEF NoRequest
  <2>3. request[p].op = "none"
    BY <2>1 DEF NoRequest
  <2>4. CASE request'[p] = [op |-> "design", pc |-> "insert", rev |-> handoff.design, superseded |-> FALSE]
    BY <1>0, <2>3, <2>4 DEF RequestType
  <2>5. CASE request'[p] = [op |-> "run", pc |-> "start", rev |-> handoff.design, superseded |-> FALSE]
    BY <1>0, <2>3, <2>5 DEF RequestType
  <2> QED BY <2>2, <2>4, <2>5
<1>2. ASSUME InsertApproval(p)
      PROVE  /\ request'[p] = [request[p] EXCEPT !.pc = "set"] /\ request[p].op = "design"
             /\ request[p].rev \in approvals'
  BY <1>0, <1>2 DEF InsertApproval, Goto
<1>3. ASSUME \/ SetApproval(p) \/ RefuseRun(p) \/ ApprovePackage(p) \/ RefuseMilestone(p)
             \/ RecordActivation(p) \/ StoreResults(p) \/ \E r \in Run : StartRun(p, r)
      PROVE  request'[p] = NoRequest /\ (At(p, "verify", "results") => StoreResults(p))
  BY <1>0, <1>3 DEF SetApproval, RefuseRun, ApprovePackage, RefuseMilestone, RecordActivation,
                    StoreResults, StartRun, Done, Open
<1>4. ASSUME RecordMilestone(p)
      PROVE  /\ request[p].pc = "record"
             /\ \/ request'[p] = NoRequest
                \/ request[p].op = "verify" /\ request'[p] = [request[p] EXCEPT !.pc = "results"]
  BY <1>0, <1>4 DEF RecordMilestone, Done, Goto, Open
<1>5. ASSUME NEW n \in Revision, AskPackageApproval(p, n)
      PROVE  /\ request'[p] = [NoRequest EXCEPT !.op = "approve", !.pc = "decide", !.rev = n]
             /\ request[p].op = "none"
  BY <1>0, <1>5 DEF AskPackageApproval, Open, Idle, NoRequest
<1>6. ASSUME NEW n \in Revision, NEW milestone \in Milestone, AskMilestone(p, n, milestone)
      PROVE  /\ request[p].op = "none" /\ Reached(n, milestone)
             /\ request'[p] = [op |-> milestone, pc |-> "record", rev |-> n,
                               superseded |-> package[n].superseded]
             /\ package[n].superseded \in BOOLEAN
  <2>1. package[n] \in PackageType
    BY DEF Typed, WorkTyped
  <2> QED BY <1>0, <1>6, <2>1 DEF AskMilestone, Open, Idle, NoRequest, PackageType
<1>7. NoRequest \in RequestType /\ NoRequest.op = "none"
  BY DEF NoRequest, RequestType
<1>8. Revision \subseteq Nat
  BY DEF Revision
<1>9. CASE AskDesignApproval(p) \/ AskRun(p)
  BY <1>1, <1>9 DEF Recording, Milestone
<1>10. CASE InsertApproval(p)
  BY <1>0, <1>2, <1>10 DEF Recording, Milestone, RequestType
<1>11. CASE \/ SetApproval(p) \/ RefuseRun(p) \/ ApprovePackage(p) \/ RefuseMilestone(p)
            \/ RecordActivation(p) \/ StoreResults(p) \/ \E r \in Run : StartRun(p, r)
  BY <1>3, <1>7, <1>11 DEF Recording, Milestone
<1>12. CASE RecordMilestone(p)
  BY <1>0, <1>4, <1>7, <1>12 DEF Recording, Milestone, RequestType
<1>13. CASE \E n \in Revision : AskPackageApproval(p, n)
  BY <1>5, <1>8, <1>13 DEF NoRequest, RequestType, Milestone
<1>14. CASE \E n \in Revision, milestone \in Milestone : AskMilestone(p, n, milestone)
  <2>1. PICK n \in Revision, milestone \in Milestone : AskMilestone(p, n, milestone)
    BY <1>14
  <2>5. /\ request[p].op = "none" /\ Reached(n, milestone) /\ package[n].superseded \in BOOLEAN
        /\ request'[p] = [op |-> milestone, pc |-> "record", rev |-> n,
                          superseded |-> package[n].superseded]
    BY <1>6, <2>1
  <2>2. /\ request[p].op = "none" /\ request'[p].op = milestone /\ request'[p].pc = "record"
        /\ request'[p].rev = n
    BY <2>5
  <2>4. request'[p] \in RequestType
    BY <1>8, <2>5 DEF RequestType
  <2>3. milestone # "design" /\ (milestone = "build" => record[n].write = "applied")
        /\ (milestone = "verify" => record[n].cnc)
    BY <2>5 DEF Reached, Milestone
  <2> QED BY <2>1, <2>2, <2>3, <2>4
<1> QED BY <1>9, <1>10, <1>11, <1>12, <1>13, <1>14 DEF RequestMove

LEMMA TypedStep == ASSUME Typed, [Next]_vars PROVE Typed'
<1>1. DesignTyped'
  BY DesignTypedStep
<1>2. WorkTyped'
  <2>1. \A r \in Run : run'[r] \in RunType /\ (Storing(r)' => run'[r].next \in Revision)
    BY Moves, RunMoves DEF Typed, WorkTyped, Storing
  <2>2. run' = [r \in Run |-> run'[r]]
    BY Moves
  <2>3. run' \in [Run -> RunType]
    BY <2>1, <2>2
  <2> QED BY <2>1, <2>3, PackageMoves DEF WorkTyped
<1>3. RecordTyped'
  <2>1. \A n \in Revision : record'[n] \in RecordType
    BY Moves, RecordMoves DEF Typed, RecordTyped
  <2>2. ASSUME NEW p \in Person
        PROVE  request'[p] \in RequestType /\ (Recording(p)' => request'[p].rev \in Revision)
    <3>1. Crash => request'[p] = NoRequest
      BY DEF Crash
    <3>2. NoRequest \in RequestType /\ NoRequest.op \notin Milestone \cup {"approve"}
      BY DEF NoRequest, RequestType, Milestone
    <3> QED BY <3>1, <3>2, Moves, RequestMoves DEF Typed, RecordTyped, Recording
  <2>3. record' = [n \in Revision |-> record'[n]] /\ request' = [p \in Person |-> request'[p]]
    BY Moves
  <2> QED BY <2>1, <2>2, <2>3 DEF RecordTyped
<1> QED BY <1>1, <1>2, <1>3 DEF Typed

(***************************************************************************)
(* The invariant is kept                                                   *)
(***************************************************************************)
LEMMA InvInit == Init => IInv
<1> SUFFICES ASSUME Init PROVE IInv
  OBVIOUS
<1>1. ApprovalInv
  BY DEF Init, ApprovalInv, ApprovalOfThisDesign, NoWriter, At, NoRequest
<1>2. PackageInv
  BY DEF Init, PackageInv, RevisionsBuildOnEachOther, IdleRun, Revision
<1>3. RecordInv
  BY DEF Init, RecordInv, MilestonesInOrder, At, NoRequest, NoRecord
<1>4. ResultsInv
  BY DEF Init, ResultsInv, NoRecord
<1> QED BY TypedInit, <1>1, <1>2, <1>3, <1>4 DEF IInv

LEMMA ApprovalInvStep == ASSUME Typed, ApprovalInv, [Next]_vars PROVE ApprovalInv'
<1>1. approvals \subseteq approvals'
  BY Moves DEF InsertApproval
<1>2. ApprovalOfThisDesign'
  <2>1. CASE WriteHandoff
    BY <1>1, <2>1 DEF WriteHandoff, ApprovalInv, ApprovalOfThisDesign
  <2>2. CASE FlagHandoff
    BY <1>1, <2>2 DEF FlagHandoff, ApprovalInv, ApprovalOfThisDesign, Typed, DesignTyped
  <2>3. ASSUME NEW p \in Person, SetApproval(p) PROVE ApprovalOfThisDesign'
    BY <1>1, <2>3 DEF SetApproval, ApprovalInv, ApprovalOfThisDesign, Typed, DesignTyped, At
  <2> QED BY <1>1, <2>1, <2>2, <2>3, Moves DEF ApprovalInv, ApprovalOfThisDesign
<1>3. (writer.approval # 0 => writer.approval = writer.design /\ writer.design \in approvals)'
  <2>1. CASE ReadHandoff
    BY <1>1, <2>1 DEF ReadHandoff, ApprovalInv, ApprovalOfThisDesign
  <2>2. CASE WriteHandoff \/ Crash
    <3>1. writer' = NoWriter
      BY <2>2 DEF WriteHandoff, Crash
    <3> QED BY <3>1 DEF NoWriter
  <2> QED BY <1>1, <2>1, <2>2, Moves DEF ApprovalInv
<1>4. ASSUME NEW p \in Person, At(p, "design", "set")' PROVE request'[p].rev \in approvals'
  <2>1. ~Crash
    <3>1. Crash => request'[p] = NoRequest
      BY DEF Crash
    <3> QED BY <1>4, <3>1 DEF At, NoRequest
  <2> QED BY <1>1, <1>4, <2>1, Moves, RequestMoves DEF ApprovalInv, At
<1> QED BY <1>2, <1>3, <1>4 DEF ApprovalInv

LEMMA PackageInvStep == ASSUME Typed, PackageInv, [Next]_vars PROVE PackageInv'
<1> USE TechnicalBounds
<1>0. /\ latest \in Nat /\ run \in [Run -> RunType] /\ Revision = 1 .. MaxPackages
      /\ \A r \in Run : run[r].expected \in Nat /\ run[r].since \in Nat
  BY DEF Typed, WorkTyped, RunType, Revision
<1>1. \A r \in Run :
        \/ /\ run'[r].since = run[r].since
           /\ run[r].status # "none" => run'[r].status # "none"
           /\ run'[r].status = "running" => run[r].status = "running"
           /\ run'[r].expected = run[r].expected \/ StorePackage(r)
        \/ /\ run[r].status = "none" /\ run'[r].status = "running"
           /\ run'[r].since = latest /\ run'[r].expected = latest
           /\ package' = package /\ latest' = latest
  BY Moves, RunMoves
<1>2. CASE latest' = latest /\ \A n \in Revision : package'[n].run = package[n].run
  <2>1. \A r \in Run : ~StorePackage(r)
    BY <1>0, <1>2 DEF StorePackage, MayStore
  <2>2. \A n \in Revision : n <= latest' =>
          package'[n].run \in Run /\ run'[package'[n].run].status # "none"
    BY <1>1, <1>2 DEF PackageInv
  <2>3. ASSUME NEW r \in Run, run'[r].status = "running"
        PROVE  /\ run'[r].expected <= latest'
               /\ \/ run'[r].expected = run'[r].since
                  \/ run'[r].expected \in Revision /\ package'[run'[r].expected].run = r
    BY <1>0, <1>1, <1>2, <2>1, <2>3 DEF PackageInv
  <2>4. RevisionsBuildOnEachOther'
    <3> SUFFICES ASSUME NEW n \in Revision, 1 < n, n <= latest
                 PROVE  package'[n - 1].run = package'[n].run \/ run'[package'[n].run].since >= n - 1
      BY <1>2 DEF RevisionsBuildOnEachOther
    <3>1. n - 1 \in Revision /\ package[n].run \in Run /\ run[package[n].run].status # "none"
      BY <1>0 DEF PackageInv
    <3>2. run'[package[n].run].since = run[package[n].run].since
      BY <1>1, <3>1
    <3> QED BY <1>2, <3>1, <3>2 DEF PackageInv, RevisionsBuildOnEachOther
  <2> QED BY <2>2, <2>3, <2>4 DEF PackageInv
<1>3. ASSUME NEW r \in Run,
             StorePackage(r), run[r].status = "running", run[r].expected = latest,
             latest' = latest + 1, latest' \in Revision,
             package'[latest'].run = r, run'[r].expected = latest',
             run'[r].status = "running", run'[r].since = run[r].since,
             \A q \in Run : q # r => run'[q] = run[q],
             \A n \in Revision : n # latest' => package'[n].run = package[n].run
      PROVE  PackageInv'
  <2>1. \A n \in Revision : n <= latest' =>
          package'[n].run \in Run /\ run'[package'[n].run].status # "none"
    BY <1>0, <1>3 DEF PackageInv
  <2>2. ASSUME NEW q \in Run, run'[q].status = "running"
        PROVE  /\ run'[q].expected <= latest'
               /\ \/ run'[q].expected = run'[q].since
                  \/ run'[q].expected \in Revision /\ package'[run'[q].expected].run = q
    BY <1>0, <1>3, <2>2 DEF PackageInv
  <2>3. RevisionsBuildOnEachOther'
    <3> SUFFICES ASSUME NEW n \in Revision, 1 < n, n <= latest'
                 PROVE  package'[n - 1].run = package'[n].run \/ run'[package'[n].run].since >= n - 1
      BY DEF RevisionsBuildOnEachOther
    <3>0. n - 1 \in Revision /\ n - 1 # latest' /\ package'[n - 1].run = package[n - 1].run
      BY <1>0, <1>3
    <3>1. CASE n = latest'
      <4>1. n - 1 = latest /\ package'[n].run = r /\ run'[r].since = run[r].since
        BY <1>0, <1>3, <3>1
      <4>2. run[r].since = latest \/ package[latest].run = r
        BY <1>3 DEF PackageInv
      <4> QED BY <1>0, <3>0, <4>1, <4>2
    <3>2. CASE n # latest'
      <4>1. n <= latest /\ package'[n].run = package[n].run /\ package[n].run \in Run
        BY <1>0, <1>3, <3>2 DEF PackageInv
      <4>2. run'[package[n].run].since = run[package[n].run].since
        BY <1>3, <4>1
      <4> QED BY <3>0, <4>1, <4>2 DEF PackageInv, RevisionsBuildOnEachOther
    <3> QED BY <3>1, <3>2
  <2> QED BY <2>1, <2>2, <2>3 DEF PackageInv
<1> QED BY <1>2, <1>3, PackageMoves

\* A recorded milestone is never taken back.
LEMMA RecordGrows ==
    ASSUME Typed, [Next]_vars, NEW n \in Revision
    PROVE  /\ record[n].write = "applied" => record'[n].write = "applied"
           /\ record[n].build # "ready" => record'[n].build = record[n].build
           /\ record[n].cnc => record'[n].cnc
           /\ record[n].verification # "none" => record'[n].verification # "none"
<1>1. record[n] \in RecordType
  BY DEF Typed, RecordTyped
<1>2. ASSUME NEW p \in Person, Builds(p, n) PROVE record[n].build = "ready"
  BY <1>2 DEF Builds, MayRecord, Block, At
<1>3. ASSUME NEW p \in Person, Builds(p, n)
      PROVE  /\ record'[n].write = record[n].write /\ record'[n].cnc = record[n].cnc
             /\ record'[n].verification = record[n].verification
  BY <1>1, <1>3 DEF Builds, RecordType
<1>4. ASSUME NEW p \in Person,
             Applies(p, n) \/ Verifies(p, n) \/ Reports(p, n) \/ Activates(p, n)
      PROVE  /\ record'[n].write \in {record[n].write, "applied"}
             /\ record'[n].build = record[n].build
             /\ record'[n].cnc \in {record[n].cnc, TRUE}
             /\ record[n].verification # "none" => record'[n].verification # "none"
  BY <1>1, <1>4 DEF Applies, Verifies, Reports, Activates, RecordType
<1>5. CASE record'[n] = record[n] \/ SameMilestones(n)
  BY <1>5 DEF SameMilestones
<1>6. CASE RecordMove(n)
  BY <1>2, <1>3, <1>4, <1>5, <1>6, RecordMoves
<1> QED BY <1>5, <1>6, Moves

LEMMA RecordInvStep == ASSUME Typed, RecordInv, [Next]_vars PROVE RecordInv'
<1>1. ASSUME NEW n \in Revision
      PROVE  /\ record'[n].build # "ready" => record'[n].write = "applied"
             /\ record'[n].cnc => record'[n].build = "built"
             /\ record'[n].test = "completed" => record'[n].cnc
  <2>1. record[n] \in RecordType
    BY DEF Typed, RecordTyped
  <2>2. /\ record[n].build # "ready" => record[n].write = "applied"
        /\ record[n].cnc => record[n].build = "built"
        /\ record[n].test = "completed" => record[n].cnc
    BY DEF RecordInv, MilestonesInOrder
  <2>3. CASE record'[n] = record[n]
    BY <2>2, <2>3
  <2>4. CASE RecordMove(n)
    <3>1. CASE SameMilestones(n)
      BY <2>2, <3>1 DEF SameMilestones
    <3>2. ASSUME NEW p \in Person, Applies(p, n) \/ Reports(p, n) \/ Activates(p, n)
          PROVE  /\ record'[n].build # "ready" => record'[n].write = "applied"
                 /\ record'[n].cnc => record'[n].build = "built"
                 /\ record'[n].test = "completed" => record'[n].cnc
      BY <2>1, <2>2, <3>2 DEF Applies, Reports, Activates, RecordType
    <3>3. ASSUME NEW p \in Person, Builds(p, n)
          PROVE  record'[n].write = "applied" /\ ~record'[n].cnc /\ record'[n].test # "completed"
      <4>1. record[n].write = "applied" /\ record[n].build = "ready"
        BY <3>3 DEF RecordInv, Builds, MayRecord, Block, At
      <4> QED BY <2>1, <2>2, <3>3, <4>1 DEF Builds, RecordType
    <3>4. ASSUME NEW p \in Person, Verifies(p, n)
          PROVE  /\ record'[n].write = record[n].write /\ record'[n].build = record[n].build
                 /\ record[n].cnc /\ record'[n].cnc
      BY <2>1, <3>4 DEF RecordInv, Verifies, RecordType
    <3> QED BY <2>2, <2>4, <3>1, <3>2, <3>3, <3>4, RecordMoves
  <2> QED BY <2>3, <2>4, Moves
<1>2. ASSUME NEW p \in Person
      PROVE  /\ At(p, "build", "record")' => record'[request'[p].rev].write = "applied"
             /\ At(p, "verify", "record")' => record'[request'[p].rev].cnc
  <2>1. CASE request'[p] = request[p]
    <3>1. At(p, "build", "record") \/ At(p, "verify", "record") => request[p].rev \in Revision
      BY DEF Typed, RecordTyped, Recording, At, Milestone
    <3> QED BY <2>1, <3>1, RecordGrows DEF RecordInv, At
  <2>2. CASE RequestMove(p)
    <3>1. At(p, "build", "record")' \/ At(p, "verify", "record")' => request'[p].rev \in Revision
      BY <2>2, RequestMoves DEF Recording, At, Milestone
    <3> QED BY <2>2, <3>1, RecordGrows, RequestMoves
  <2>3. CASE Crash
    BY <2>3 DEF Crash, At, NoRequest
  <2> QED BY <2>1, <2>2, <2>3, Moves
<1> QED BY <1>1, <1>2 DEF RecordInv, MilestonesInOrder

LEMMA ResultsInvStep == ASSUME Typed, ResultsInv, [Next]_vars PROVE ResultsInv'
<1> SUFFICES ASSUME NEW n \in Revision, record'[n].test = "completed",
                    record'[n].verification = "none", ~(outside' > 0)
             PROVE  \E p \in Person : At(p, "verify", "results")' /\ request'[p].rev = n
  BY DEF ResultsInv
<1>1. ~Crash /\ ~(outside > 0)
  <2>1. outside' = outside \/ outside' = outside + 1
    BY Moves DEF Outside
  <2>2. Crash => outside' = outside + 1
    BY DEF Crash, Outside
  <2> QED BY <2>1, <2>2 DEF Typed, DesignTyped
<1>2. CASE record[n].test = "completed"
  <2>1. record[n].verification = "none"
    BY RecordGrows
  <2>2. PICK p \in Person : At(p, "verify", "results") /\ request[p].rev = n
    BY <1>1, <1>2, <2>1 DEF ResultsInv
  <2>3. ~StoreResults(p)
    <3>1. ASSUME StoreResults(p) PROVE record'[n].verification # "none"
      <4>1. record[n] \in RecordType /\ record \in [Revision -> RecordType]
        BY DEF Typed, RecordTyped
      <4> QED BY <2>2, <3>1, <4>1 DEF StoreResults, RecordType
    <3> QED BY <3>1
  <2>4. request'[p] = request[p]
    BY <1>1, <2>2, <2>3, Moves, RequestMoves
  <2> QED BY <2>2, <2>4 DEF At
<1>3. CASE record[n].test # "completed"
  <2>1. RecordMove(n) /\ record[n] \in RecordType
    BY <1>3, Moves DEF Typed, RecordTyped
  <2>2. PICK p \in Person :
          /\ At(p, "verify", "record") /\ request[p].rev = n
          /\ request'[p] = [request[p] EXCEPT !.pc = "results"]
    BY <1>3, <2>1, RecordMoves DEF SameMilestones, Applies, Builds, Verifies, Reports, Activates,
                                   RecordType
  <2>3. request[p] \in RequestType
    BY DEF Typed, RecordTyped
  <2> QED BY <2>2, <2>3 DEF At, RequestType
<1> QED BY <1>2, <1>3

LEMMA Invariant == Spec => []IInv
<1>1. IInv /\ [Next]_vars => IInv'
  BY TypedStep, ApprovalInvStep, PackageInvStep, RecordInvStep, ResultsInvStep DEF IInv
<1> QED BY InvInit, <1>1, PTL DEF Spec

(***************************************************************************)
(* Theorems                                                                *)
(***************************************************************************)
\* Designs, packages, runs, milestones and requests keep their types, for any
\* number of revisions, runs and people.
THEOREM TypeCorrect == Spec => []Typed
<1>1. IInv => Typed
  BY DEF IInv
<1> QED BY Invariant, <1>1, PTL

\* No milestone without the one before it: what execution.record does not look
\* at again inside the lock was true when the request began, and stays true.
THEOREM Ordered == Spec => []MilestonesInOrder
<1>1. IInv => MilestonesInOrder
  BY DEF IInv, RecordInv
<1> QED BY Invariant, <1>1, PTL

\* However runs, restarts and late results interleave, a package revision is
\* stored on top of one its run knew (store_package).
THEOREM BuiltOnEachOther == Spec => []RevisionsBuildOnEachOther
<1>1. IInv => RevisionsBuildOnEachOther
  BY DEF IInv, PackageInv
<1> QED BY Invariant, <1>1, PTL

\* A hand-off never carries the approval of another design than its own, nor
\* one that is not in the table (write_handoff, set_design_approval).
THEOREM ApprovalIsOfTheDesign == Spec => []ApprovalOfThisDesign
<1>1. IInv => ApprovalOfThisDesign
  BY DEF IInv, ApprovalInv
<1> QED BY Invariant, <1>1, PTL

\* Every check-in, build and verification is stored under an approval that
\* stands at that moment, whatever it was when the request began
\* (execution.record).
THEOREM RecordedWhenApproved == Spec => RecordedUnderApproval
<1>1. ASSUME IInv, [Next]_vars, NEW n \in Revision,
             \/ record'[n].write # record[n].write
             \/ record'[n].build # record[n].build
             \/ record'[n].test # record[n].test
      PROVE  /\ record[n].status = "approved" /\ ~record[n].invalid
             /\ stands /\ ~paused
             /\ handoff.design = package[n].design /\ handoff.approval = handoff.design
  <2>1. Typed /\ RecordMove(n) /\ record[n] \in RecordType
    BY <1>1, Moves DEF IInv, Typed, RecordTyped
  <2>2. PICK p \in Person : Applies(p, n) \/ Builds(p, n) \/ Verifies(p, n)
    BY <1>1, <2>1, RecordMoves DEF SameMilestones, Reports, Activates, RecordType
  <2>3. MayRecord(p) /\ request[p].rev = n
    BY <2>2 DEF Applies, Builds, Verifies
  <2> QED BY <2>3 DEF MayRecord, Authorised
<1>2. IInv /\ [Next]_vars =>
        [\A n \in Revision :
           \/ record'[n].write # record[n].write
           \/ record'[n].build # record[n].build
           \/ record'[n].test # record[n].test
           => /\ record[n].status = "approved" /\ ~record[n].invalid
              /\ stands /\ ~paused
              /\ handoff.design = package[n].design /\ handoff.approval = handoff.design]_vars
  BY <1>1
<1> QED BY Invariant, <1>2, PTL DEF Spec, RecordedUnderApproval

\* The record a page decides by, when it offers a milestone.
LEMMA OfferedFromRecord ==
    ASSUME Typed, Offered \in Milestone
    PROVE  /\ latest \in Revision /\ package[latest].change
           /\ record[latest].status = "approved" /\ Offered = StepOfRecord(record[latest])
<1>1. Offered = StepOfRecord(CurrentRecord) /\ latest # 0
  BY DEF Offered, Milestone
<1>2. CurrentRecord # NoRecord
  <2>1. StepOfRecord(NoRecord) = "approve_package"
    BY DEF StepOfRecord, NoRecord
  <2> QED BY <1>1, <2>1 DEF Milestone
<1>3. package[latest].change /\ CurrentRecord = record[latest]
  BY <1>2 DEF CurrentRecord
<1>4. latest \in Revision
  BY <1>1, TechnicalBounds DEF Typed, WorkTyped, Revision
<1>5. record[latest] \in RecordType
  BY <1>4 DEF Typed, RecordTyped
<1>6. record[latest].status = "approved"
  <2>1. record[latest].status \notin {"approved", "rejected"} => StepOfRecord(record[latest]) = "approve_package"
    BY DEF StepOfRecord
  <2>2. record[latest].status = "rejected" => StepOfRecord(record[latest]) = "prepare"
    BY DEF StepOfRecord
  <2> QED BY <1>1, <1>3, <2>1, <2>2 DEF Milestone
<1> QED BY <1>1, <1>3, <1>4, <1>6

\* The next action every page offers is one the gate is waiting for; a
\* verification is offered again only before its results are stored, or when a
\* restart took them (_technical_route, eligibility).
THEOREM OffersWhatIsPossible == Spec => []OfferedIsPossible
<1>1. IInv => OfferedIsPossible
  <2> SUFFICES ASSUME IInv, Offered \in Milestone,
                      Authorised(latest, package[latest].superseded, Offered)
               PROVE  \/ /\ Reached(latest, Offered) /\ NextMilestone(latest) = Offered
                         /\ Offered = "cnc" \/ Eligible(latest)
                      \/ /\ Offered = "verify" /\ record[latest].test = "completed"
                         /\ outside > 0 \/ \E p \in Person : At(p, "verify", "results")
    BY DEF OfferedIsPossible
  <2> DEFINE r == record[latest]
  <2>1. latest \in Revision /\ r.status = "approved" /\ Offered = StepOfRecord(r) /\ r \in RecordType
    BY OfferedFromRecord DEF IInv, Typed, RecordTyped
  <2>2. /\ r.build # "ready" => r.write = "applied"
        /\ r.test = "completed" => r.cnc
    BY <2>1 DEF IInv, RecordInv, MilestonesInOrder
  <2>3. /\ NextMilestone(latest) = "apply" => Block(latest, NextMilestone(latest)) = r.write
        /\ NextMilestone(latest) = "build" => Block(latest, NextMilestone(latest)) = r.build
        /\ NextMilestone(latest) = "verify" => Block(latest, NextMilestone(latest)) = r.test
    BY DEF Block
  <2>4. CASE r.build = "failed"
    <3>1. StepOfRecord(r) \in {"none", "repair"}
      BY <2>1, <2>2, <2>4 DEF StepOfRecord, AwaitsActivation
    <3> QED BY <2>1, <3>1 DEF Milestone
  <2>5. CASE r.build # "failed" /\ r.write # "applied"
    <3>1. Offered = "apply" /\ NextMilestone(latest) = "apply" /\ r.write = "ready"
      BY <2>1, <2>2, <2>5 DEF StepOfRecord, NextMilestone, RecordType, AwaitsActivation
    <3> QED BY <2>3, <3>1 DEF Eligible, Reached
  <2>6. CASE r.build = "ready" /\ r.write = "applied"
    <3>1. Offered = "build" /\ NextMilestone(latest) = "build"
      BY <2>1, <2>2, <2>6 DEF StepOfRecord, NextMilestone, AwaitsActivation
    <3> QED BY <2>3, <2>6, <3>1 DEF Eligible, Reached
  <2>7. CASE r.build = "built" /\ ~r.cnc
    <3>1. Offered = "cnc" /\ NextMilestone(latest) = "cnc"
      BY <2>1, <2>2, <2>7 DEF StepOfRecord, NextMilestone, AwaitsActivation
    <3> QED BY <3>1 DEF Reached
  <2>8. CASE r.build = "built" /\ r.cnc
    <3>1. Offered = (IF r.verification = "none" THEN "verify" ELSE "finalise_or_prepare")
      BY <2>1, <2>2, <2>8 DEF StepOfRecord, AwaitsActivation
    <3>2. Offered = "verify" /\ r.verification = "none"
      BY <3>1 DEF Milestone
    <3>3. CASE r.test = "completed"
      BY <2>1, <3>2, <3>3 DEF IInv, ResultsInv
    <3>4. CASE r.test # "completed"
      <4>1. NextMilestone(latest) = "verify" /\ r.test = "ready"
        BY <2>1, <2>2, <2>8, <3>4 DEF NextMilestone, RecordType
      <4> QED BY <2>3, <2>8, <3>2, <4>1 DEF Eligible, Reached
    <3> QED BY <3>3, <3>4
  <2> QED BY <2>1, <2>2, <2>4, <2>5, <2>6, <2>7, <2>8 DEF RecordType
<1> QED BY Invariant, <1>1, PTL

=============================================================================
