------------------------ MODULE ApprovalGate_proofs ------------------------
(***************************************************************************)
(* What holds of the approval gate for every set of changes, runs,         *)
(* approvers and roles, at whatever moments evidence changes, and without  *)
(* the bounds TLC needs.                                                   *)
(*                                                                         *)
(* TypeOK is inductive; each of its parts is kept by a lemma with one step *)
(* per action that touches the part.  The two action properties follow     *)
(* from it: the gate is asked in the transaction that stores the delivery. *)
(*                                                                         *)
(* The reach of evidence holds whatever overlaps.  Two open design runs    *)
(* may mistake each other's changes for their own, so the theorem on the   *)
(* binding of an approval names that hypothesis (RunsAlone).               *)
(***************************************************************************)
EXTENDS ApprovalGate, WellFoundedInduction, TLAPS

\* The initial state has the declared shape.
LEMMA InitTyped == Init => TypeOK
<1> SUFFICES ASSUME Init PROVE TypeOK
  OBVIOUS
<1>1. NoBaseline \in BaselineType /\ NoHandoff \in HandoffType
  BY DEF NoBaseline, NoHandoff, BaselineType, HandoffType, Chosen
<1>2. ScalarsOK
  BY DEF Init, ScalarsOK, Chosen
<1>3. ChangesOK
  BY DEF Init, ChangesOK, ChangeType, NotProposed
<1>4. ProposalsOK
  BY DEF Init, ProposalsOK
<1>5. DesignsOK
  BY <1>1 DEF Init, DesignsOK
<1>6. IdleRun \in RunType
  BY <1>1 DEF IdleRun, RunType, Chosen
<1>7. RunsOK
  BY <1>6 DEF Init, RunsOK
<1>8. IdleHandler \in HandlerType
  BY <1>1 DEF IdleHandler, HandlerType
<1>9. HandlersOK
  BY <1>8 DEF Init, HandlersOK
<1>10. RequestsOK
  BY DEF Init, RequestsOK, RequestType, NoRequest, Chosen
<1> QED BY <1>2, <1>3, <1>4, <1>5, <1>7, <1>9, <1>10 DEF TypeOK

\* Storing one well-formed change record keeps all of them well-formed.
LEMMA ChangeStored ==
  ASSUME ChangesOK, NEW c \in Change, NEW new \in ChangeType,
         new.status = "approved" => new.by \in Approver,
         change' = [change EXCEPT ![c] = new]
  PROVE  ChangesOK'
  BY DEF ChangesOK

\* The change records keep their shape.
LEMMA ChangesStep == TypeOK /\ [Next]_vars => ChangesOK'
<1> SUFFICES ASSUME TypeOK, [Next]_vars PROVE ChangesOK'
  OBVIOUS
<1>0. CASE UNCHANGED change
  BY <1>0 DEF TypeOK, ChangesOK
<1>1. ASSUME NEW r \in Run, NEW c \in Change, ProposeChange(r, c) PROVE ChangesOK'
  <2> DEFINE new == [change[c] EXCEPT !.status = "pending"]
  <2>5. change[c] \in ChangeType /\ ChangesOK
    BY DEF TypeOK, ChangesOK
  <2>6. new \in ChangeType
    BY <2>5 DEF ChangeType
  <2>7. change' = [change EXCEPT ![c] = new]
    BY <1>1 DEF ProposeChange
  <2>8. new.status = "approved" => new.by \in Approver
    BY <2>5 DEF ChangesOK, ChangeType
  <2> HIDE DEF new
  <2> QED BY <2>5, <2>6, <2>7, <2>8, ChangeStored
<1>2. ASSUME NEW k \in Kind, NEW c \in Change, RecordInvalidation(k, c) PROVE ChangesOK'
  <2> DEFINE new == [change[c] EXCEPT !.invalid = change[c].invalid \/ Live(c)]
  <2>5. change[c] \in ChangeType /\ ChangesOK
    BY DEF TypeOK, ChangesOK
  <2>6. new \in ChangeType
    BY <2>5 DEF ChangeType
  <2>7. change' = [change EXCEPT ![c] = new]
    BY <1>2 DEF RecordInvalidation
  <2>8. new.status = "approved" => new.by \in Approver
    BY <2>5 DEF ChangesOK, ChangeType
  <2> HIDE DEF new
  <2> QED BY <2>5, <2>6, <2>7, <2>8, ChangeStored
<1>3. ASSUME NEW a \in Approver, ApproveChange(a) PROVE ChangesOK'
  <2>1. request[a].chosen \in Change
    BY <1>3 DEF ApproveChange, TypeOK, RequestsOK
  <2>2. Matched(a) \in SUBSET Role
    BY DEF Matched, TypeOK, ScalarsOK
  <2>3. handoff.baseline.design \in Nat /\ handoff.baseline.artifact \in Nat
    BY DEF TypeOK, DesignsOK, HandoffType, BaselineType
  <2> DEFINE new == [change[request[a].chosen] EXCEPT !.status = "approved", !.by = a, !.roles = Matched(a),
                    !.design = handoff.baseline.design, !.artifact = handoff.baseline.artifact]
  <2>5. change[request[a].chosen] \in ChangeType /\ ChangesOK
    BY <2>1, <2>2, <2>3 DEF TypeOK, ChangesOK
  <2>6. new \in ChangeType
    BY <2>5, <2>1, <2>2, <2>3 DEF ChangeType
  <2>7. change' = [change EXCEPT ![request[a].chosen] = new]
    BY <1>3, <2>1, <2>2, <2>3 DEF ApproveChange
  <2>8. new.status = "approved" => new.by \in Approver
    BY <2>5, <2>1, <2>2, <2>3 DEF ChangesOK, ChangeType
  <2> HIDE DEF new
  <2> QED BY <2>5, <2>6, <2>7, <2>8, ChangeStored, <2>1, <2>2, <2>3
<1>4. ASSUME NEW a \in Approver, RejectChange(a) PROVE ChangesOK'
  <2>1. request[a].chosen \in Change
    BY <1>4 DEF RejectChange, TypeOK, RequestsOK
  <2> DEFINE new == [change[request[a].chosen] EXCEPT !.status = "rejected"]
  <2>5. change[request[a].chosen] \in ChangeType /\ ChangesOK
    BY <2>1 DEF TypeOK, ChangesOK
  <2>6. new \in ChangeType
    BY <2>5, <2>1 DEF ChangeType
  <2>7. change' = [change EXCEPT ![request[a].chosen] = new]
    BY <1>4, <2>1 DEF RejectChange
  <2>8. new.status = "approved" => new.by \in Approver
    BY <2>5, <2>1 DEF ChangesOK, ChangeType
  <2> HIDE DEF new
  <2> QED BY <2>5, <2>6, <2>7, <2>8, ChangeStored, <2>1
<1>5. ASSUME NEW c \in Change, RecordApplied(c) PROVE ChangesOK'
  <2> DEFINE new == [change[c] EXCEPT !.applied = TRUE]
  <2>5. change[c] \in ChangeType /\ ChangesOK
    BY DEF TypeOK, ChangesOK
  <2>6. new \in ChangeType
    BY <2>5 DEF ChangeType
  <2>7. change' = [change EXCEPT ![c] = new]
    BY <1>5 DEF RecordApplied
  <2>8. new.status = "approved" => new.by \in Approver
    BY <2>5 DEF ChangesOK, ChangeType
  <2> HIDE DEF new
  <2> QED BY <2>5, <2>6, <2>7, <2>8, ChangeStored
<1>6. ASSUME NEW c \in Change, Expire(c) PROVE ChangesOK'
  <2> DEFINE new == [change[c] EXCEPT !.expired = TRUE]
  <2>5. change[c] \in ChangeType /\ ChangesOK
    BY DEF TypeOK, ChangesOK
  <2>6. new \in ChangeType
    BY <2>5 DEF ChangeType
  <2>7. change' = [change EXCEPT ![c] = new]
    BY <1>6 DEF Expire
  <2>8. new.status = "approved" => new.by \in Approver
    BY <2>5 DEF ChangesOK, ChangeType
  <2> HIDE DEF new
  <2> QED BY <2>5, <2>6, <2>7, <2>8, ChangeStored
<1> QED
  BY <1>0, <1>1, <1>2, <1>3, <1>4, <1>5, <1>6
     DEF Next, RunStep, EvidenceStep, PersonStep, OutsideStep, vars, records, designs,
     authority, bounds, ApproveStory, RejectStory, StartRun, ResolveWithoutChange, CompleteRun,
     FailRun, StoreBaseline, ReadHandoff, WriteHandoff, Upload, ReviseStory,
     RecordStoryRevision, StartRefresh, StoreRefreshed, ReadRefreshedHandoff,
     WriteRefreshedHandoff, FlagBaseline, FlagHandoff, ListAffected, EndInvalidation, View,
     Press, RefuseApproval, Dispatch, RecordNothing, SaveScope, Crash, ChangeRoles

\* The baseline and the hand-off keep their shape.
LEMMA DesignsStep == TypeOK /\ [Next]_vars => DesignsOK'
<1> SUFFICES ASSUME TypeOK, [Next]_vars PROVE DesignsOK'
  OBVIOUS
<1>0. CASE UNCHANGED <<baseline, handoff>>
  BY <1>0 DEF TypeOK, DesignsOK
<1>1. ASSUME NEW r \in Run, StoreBaseline(r) PROVE DesignsOK'
  <2>1. run[r].artifact \in Nat /\ revision \in Nat /\ baseline.id \in Nat
    BY DEF TypeOK, ScalarsOK, DesignsOK, BaselineType, RunsOK, RunType
  <2>2. baseline' = Stored(revision, run[r].artifact, "current") /\ handoff' = handoff
    BY <1>1 DEF StoreBaseline
  <2> QED BY <2>1, <2>2 DEF Stored, TypeOK, DesignsOK, BaselineType
<1>2. ASSUME NEW r \in Run, WriteHandoff(r) PROVE DesignsOK'
  <2>1. run[r].made \in BaselineType /\ run[r].previous \in HandoffType /\ run[r].mine \in Chosen
    BY DEF TypeOK, RunsOK, RunType
  <2>2. run[r].previous.change \in Chosen
    BY <2>1 DEF HandoffType
  <2> QED BY <1>2, <2>1, <2>2 DEF WriteHandoff, Package, TypeOK, DesignsOK, HandoffType
<1>3. ASSUME NEW k \in Kind, FlagBaseline(k) PROVE DesignsOK'
  BY <1>3 DEF FlagBaseline, TypeOK, DesignsOK, BaselineType
<1>4. ASSUME NEW k \in Kind, FlagHandoff(k) PROVE DesignsOK'
  BY <1>4 DEF FlagHandoff, TypeOK, DesignsOK, HandoffType, BaselineType
<1>5. ASSUME StoreRefreshed PROVE DesignsOK'
  <2>1. handler["refresh"].base \in BaselineType
    BY DEF TypeOK, HandlersOK, HandlerType, Kind
  <2> QED BY <1>5, <2>1 DEF StoreRefreshed, Stored, TypeOK, DesignsOK, BaselineType
<1>6. ASSUME WriteRefreshedHandoff PROVE DesignsOK'
  <2>1. handler["refresh"].base \in BaselineType /\ handler["refresh"].previous \in HandoffType
    BY DEF TypeOK, HandlersOK, HandlerType, Kind
  <2>2. handler["refresh"].previous.change \in Chosen
    BY <2>1 DEF HandoffType
  <2> QED BY <1>6, <2>1, <2>2 DEF WriteRefreshedHandoff, Package, TypeOK, DesignsOK, HandoffType, Chosen
<1> QED
  BY <1>0, <1>1, <1>2, <1>3, <1>4, <1>5, <1>6
     DEF Next, RunStep, EvidenceStep, PersonStep, OutsideStep, vars, records, designs,
     authority, bounds, ApproveStory, RejectStory, StartRun, ResolveWithoutChange, CompleteRun,
     FailRun, ReadHandoff, ProposeChange, Upload, ReviseStory, RecordStoryRevision,
     StartRefresh, ReadRefreshedHandoff, ListAffected, EndInvalidation, RecordInvalidation,
     View, Press, ApproveChange, RefuseApproval, RejectChange, Dispatch, RecordApplied,
     RecordNothing, SaveScope, Crash, Expire, ChangeRoles

\* Storing one well-formed design run keeps all of them well-formed.
LEMMA RunStored ==
  ASSUME RunsOK, NEW x \in Run, NEW new \in RunType, run' = [run EXCEPT ![x] = new]
  PROVE  RunsOK'
  BY DEF RunsOK

\* The design runs keep their shape.
LEMMA RunsStep == TypeOK /\ [Next]_vars => RunsOK'
<1> SUFFICES ASSUME TypeOK, [Next]_vars PROVE RunsOK'
  OBVIOUS
<1>0. CASE UNCHANGED run
  BY <1>0 DEF TypeOK, RunsOK
<1>1. ASSUME NEW r \in Run, StartRun(r) PROVE RunsOK'
  <2>1. Len(proposed) \in Nat /\ artifact \in Nat
    BY DEF TypeOK, ScalarsOK, DesignsOK, ProposalsOK, RunsOK, RunType, HandlersOK, HandlerType, Kind, BaselineType
  <2> DEFINE new == [run[r] EXCEPT !.pc = "designing", !.since = Len(proposed), !.artifact = artifact]
  <2>5. run[r] \in RunType /\ RunsOK
    BY <2>1 DEF TypeOK, RunsOK
  <2>6. new \in RunType
    BY <2>5, <2>1 DEF RunType
  <2>7. run' = [run EXCEPT ![r] = new]
    BY <1>1, <2>1 DEF StartRun
  <2> HIDE DEF new
  <2> QED BY <2>5, <2>6, <2>7, RunStored, <2>1
<1>2. ASSUME NEW r \in Run, CompleteRun(r) PROVE RunsOK'
  <2>1. ProposedDuring(r) \in Chosen
    BY DEF ProposedDuring, Chosen, TypeOK, ProposalsOK, RunsOK, RunType
  <2> DEFINE new == [run[r] EXCEPT !.pc = "storing", !.mine = ProposedDuring(r)]
  <2>5. run[r] \in RunType /\ RunsOK
    BY <2>1 DEF TypeOK, RunsOK
  <2>6. new \in RunType
    BY <2>5, <2>1 DEF RunType
  <2>7. run' = [run EXCEPT ![r] = new]
    BY <1>2, <2>1 DEF CompleteRun
  <2> HIDE DEF new
  <2> QED BY <2>5, <2>6, <2>7, RunStored, <2>1
<1>3. ASSUME NEW r \in Run, FailRun(r) PROVE RunsOK'
  <2> DEFINE new == [IdleRun EXCEPT !.pc = "done", !.mine = run[r].mine, !.made = run[r].made]
  <2>5. run[r] \in RunType /\ RunsOK
    BY DEF TypeOK, RunsOK
  <2>6. new \in RunType
    BY <2>5 DEF RunType, IdleRun, NoHandoff, NoBaseline, HandoffType, BaselineType, Chosen
  <2>7. run' = [run EXCEPT ![r] = new]
    BY <1>3 DEF FailRun, EndRun, Ended
  <2> HIDE DEF new
  <2> QED BY <2>5, <2>6, <2>7, RunStored
<1>4. ASSUME NEW r \in Run, StoreBaseline(r) PROVE RunsOK'
  <2>1. baseline' \in BaselineType
    <3>1. run[r].artifact \in Nat /\ revision \in Nat /\ baseline.id \in Nat
      BY DEF TypeOK, ScalarsOK, DesignsOK, BaselineType, RunsOK, RunType
    <3>2. baseline' = Stored(revision, run[r].artifact, "current")
      BY <1>4 DEF StoreBaseline
    <3> QED BY <3>1, <3>2 DEF Stored, BaselineType
  <2> DEFINE new == [run[r] EXCEPT !.pc = "reading", !.made = baseline']
  <2>5. run[r] \in RunType /\ RunsOK
    BY <2>1 DEF TypeOK, RunsOK
  <2>6. new \in RunType
    BY <2>5, <2>1 DEF RunType
  <2>7. run' = [run EXCEPT ![r] = new]
    BY <1>4, <2>1 DEF StoreBaseline
  <2> HIDE DEF new
  <2> QED BY <2>5, <2>6, <2>7, RunStored, <2>1
<1>5. ASSUME NEW r \in Run, ReadHandoff(r) PROVE RunsOK'
  <2>1. handoff \in HandoffType
    BY DEF TypeOK, ScalarsOK, DesignsOK, ProposalsOK, RunsOK, RunType, HandlersOK, HandlerType, Kind, BaselineType
  <2> DEFINE new == [run[r] EXCEPT !.pc = "writing", !.previous = handoff]
  <2>5. run[r] \in RunType /\ RunsOK
    BY <2>1 DEF TypeOK, RunsOK
  <2>6. new \in RunType
    BY <2>5, <2>1 DEF RunType
  <2>7. run' = [run EXCEPT ![r] = new]
    BY <1>5, <2>1 DEF ReadHandoff
  <2> HIDE DEF new
  <2> QED BY <2>5, <2>6, <2>7, RunStored, <2>1
<1>6. ASSUME NEW r \in Run, WriteHandoff(r) PROVE RunsOK'
  <2> DEFINE new == [IdleRun EXCEPT !.pc = "done", !.mine = run[r].mine, !.made = run[r].made]
  <2>5. run[r] \in RunType /\ RunsOK
    BY DEF TypeOK, RunsOK
  <2>6. new \in RunType
    BY <2>5 DEF RunType, IdleRun, NoHandoff, NoBaseline, HandoffType, BaselineType, Chosen
  <2>7. run' = [run EXCEPT ![r] = new]
    BY <1>6 DEF WriteHandoff, EndRun, Ended
  <2> HIDE DEF new
  <2> QED BY <2>5, <2>6, <2>7, RunStored
<1>7. ASSUME Crash PROVE RunsOK'
  <2>1. \A r \in Run : Ended(run[r]) \in RunType
    BY DEF Ended, TypeOK, RunsOK, RunType, IdleRun, NoHandoff, NoBaseline, HandoffType, BaselineType, Chosen
  <2>2. run' = [r \in Run |-> IF run[r].pc = "idle" THEN run[r] ELSE Ended(run[r])]
    BY <1>7 DEF Crash
  <2> QED BY <2>1, <2>2 DEF TypeOK, RunsOK
<1> QED
  BY <1>0, <1>1, <1>2, <1>3, <1>4, <1>5, <1>6, <1>7
     DEF Next, RunStep, EvidenceStep, PersonStep, OutsideStep, vars, records, designs,
     authority, bounds, ApproveStory, RejectStory, ResolveWithoutChange, ProposeChange, Upload,
     ReviseStory, RecordStoryRevision, StartRefresh, StoreRefreshed, ReadRefreshedHandoff,
     WriteRefreshedHandoff, FlagBaseline, FlagHandoff, ListAffected, EndInvalidation,
     RecordInvalidation, View, Press, ApproveChange, RefuseApproval, RejectChange, Dispatch,
     RecordApplied, RecordNothing, SaveScope, Expire, ChangeRoles

\* Storing one well-formed evidence handler keeps all of them well-formed.
LEMMA HandlerStored ==
  ASSUME HandlersOK, NEW x \in Kind, NEW new \in HandlerType, handler' = [handler EXCEPT ![x] = new]
  PROVE  HandlersOK'
  BY DEF HandlersOK

\* The evidence handlers keep their shape.
LEMMA HandlersStep == TypeOK /\ [Next]_vars => HandlersOK'
<1> SUFFICES ASSUME TypeOK, [Next]_vars PROVE HandlersOK'
  OBVIOUS
<1>0. CASE UNCHANGED handler
  BY <1>0 DEF TypeOK, HandlersOK
<1>1. ASSUME Upload PROVE HandlersOK'
  <2> DEFINE new == [handler["upload"] EXCEPT !.pc = "flag"]
  <2>5. handler["upload"] \in HandlerType /\ HandlersOK
    BY DEF TypeOK, HandlersOK, Kind
  <2>6. new \in HandlerType
    BY <2>5 DEF HandlerType
  <2>7. handler' = [handler EXCEPT !["upload"] = new]
    BY <1>1 DEF Upload
  <2> HIDE DEF new
  <2> QED BY <2>5, <2>6, <2>7, HandlerStored DEF Kind
<1>2. ASSUME ReviseStory PROVE HandlersOK'
  <2> DEFINE new == [handler["revise"] EXCEPT !.pc = "copy"]
  <2>5. handler["revise"] \in HandlerType /\ HandlersOK
    BY DEF TypeOK, HandlersOK, Kind
  <2>6. new \in HandlerType
    BY <2>5 DEF HandlerType
  <2>7. handler' = [handler EXCEPT !["revise"] = new]
    BY <1>2 DEF ReviseStory
  <2> HIDE DEF new
  <2> QED BY <2>5, <2>6, <2>7, HandlerStored DEF Kind
<1>3. ASSUME RecordStoryRevision PROVE HandlersOK'
  <2> DEFINE new == [handler["revise"] EXCEPT !.pc = IF story = "APPROVED" THEN "flag" ELSE "idle"]
  <2>5. handler["revise"] \in HandlerType /\ HandlersOK
    BY DEF TypeOK, HandlersOK, Kind
  <2>6. new \in HandlerType
    BY <2>5 DEF HandlerType
  <2>7. handler' = [handler EXCEPT !["revise"] = new]
    BY <1>3 DEF RecordStoryRevision
  <2> HIDE DEF new
  <2> QED BY <2>5, <2>6, <2>7, HandlerStored DEF Kind
<1>4. ASSUME StartRefresh PROVE HandlersOK'
  <2>1. PICK differs \in BOOLEAN :
          handler' = [handler EXCEPT !["refresh"] =
              [IdleHandler EXCEPT !.pc = "list",
                  !.base = [baseline EXCEPT !.status =
                      IF differs \/ baseline.artifact < artifact
                      THEN "needs_reassessment" ELSE "current"],
                  !.hits = IF differs THEN Change ELSE {}]]
    BY <1>4 DEF StartRefresh
  <2> DEFINE seen == [baseline EXCEPT !.status = IF differs \/ baseline.artifact < artifact
                                                 THEN "needs_reassessment" ELSE "current"]
             new == [IdleHandler EXCEPT !.pc = "list", !.base = seen,
                                        !.hits = IF differs THEN Change ELSE {}]
  <2>2. seen \in BaselineType
    BY DEF TypeOK, DesignsOK, BaselineType
  <2>3. handler' = [handler EXCEPT !["refresh"] = new]
    BY <2>1
  <2> HIDE DEF seen
  <2>4. new \in HandlerType
    BY <2>2 DEF HandlerType, IdleHandler, NoHandoff, NoBaseline, HandoffType, BaselineType, Chosen
  <2> HIDE DEF new
  <2> QED BY <2>3, <2>4, HandlerStored DEF TypeOK, Kind
<1>5. ASSUME StoreRefreshed PROVE HandlersOK'
  <2>1. baseline' \in BaselineType
    <3>1. handler["refresh"].base \in BaselineType /\ baseline.id \in Nat
      BY DEF TypeOK, DesignsOK, BaselineType, HandlersOK, HandlerType, Kind
    <3> QED BY <1>5, <3>1 DEF StoreRefreshed, Stored, BaselineType
  <2> DEFINE new == [handler["refresh"] EXCEPT !.pc = "read", !.base = baseline']
  <2>5. handler["refresh"] \in HandlerType /\ HandlersOK
    BY <2>1 DEF TypeOK, HandlersOK, Kind
  <2>6. new \in HandlerType
    BY <2>5, <2>1 DEF HandlerType
  <2>7. handler' = [handler EXCEPT !["refresh"] = new]
    BY <1>5, <2>1 DEF StoreRefreshed
  <2> HIDE DEF new
  <2> QED BY <2>5, <2>6, <2>7, HandlerStored, <2>1 DEF Kind
<1>6. ASSUME ReadRefreshedHandoff PROVE HandlersOK'
  <2>1. handoff \in HandoffType
    BY DEF TypeOK, ScalarsOK, DesignsOK, ProposalsOK, RunsOK, RunType, HandlersOK, HandlerType, Kind, BaselineType
  <2> DEFINE new == [handler["refresh"] EXCEPT !.pc = "write", !.previous = handoff]
  <2>5. handler["refresh"] \in HandlerType /\ HandlersOK
    BY <2>1 DEF TypeOK, HandlersOK, Kind
  <2>6. new \in HandlerType
    BY <2>5, <2>1 DEF HandlerType
  <2>7. handler' = [handler EXCEPT !["refresh"] = new]
    BY <1>6, <2>1 DEF ReadRefreshedHandoff
  <2> HIDE DEF new
  <2> QED BY <2>5, <2>6, <2>7, HandlerStored, <2>1 DEF Kind
<1>7. ASSUME WriteRefreshedHandoff PROVE HandlersOK'
  <2> DEFINE new == IdleHandler
  <2>5. handler["refresh"] \in HandlerType /\ HandlersOK
    BY DEF TypeOK, HandlersOK, Kind
  <2>6. new \in HandlerType
    BY <2>5 DEF HandlerType, IdleHandler, NoHandoff, NoBaseline, HandoffType, BaselineType, Chosen
  <2>7. handler' = [handler EXCEPT !["refresh"] = new]
    BY <1>7 DEF WriteRefreshedHandoff
  <2> HIDE DEF new
  <2> QED BY <2>5, <2>6, <2>7, HandlerStored DEF Kind
<1>8. ASSUME NEW k \in Kind, FlagBaseline(k) PROVE HandlersOK'
  <2>1. PICK next \in {"flagHandoff", "list"} :
           handler' = [handler EXCEPT ![k].pc = next, ![k].base = baseline]
    BY <1>8 DEF FlagBaseline
  <2> DEFINE new == [handler[k] EXCEPT !.pc = next, !.base = baseline]
  <2>2. baseline \in BaselineType /\ handler[k] \in HandlerType /\ HandlersOK
    BY DEF TypeOK, DesignsOK, HandlersOK
  <2>3. new \in HandlerType
    BY <2>2 DEF HandlerType
  <2>4. handler' = [handler EXCEPT ![k] = new]
    BY <2>1, <2>2 DEF HandlersOK
  <2> HIDE DEF new
  <2> QED BY <2>2, <2>3, <2>4, HandlerStored
<1>9. ASSUME NEW k \in Kind, FlagHandoff(k) PROVE HandlersOK'
  <2> DEFINE new == [handler[k] EXCEPT !.pc = "list"]
  <2>5. handler[k] \in HandlerType /\ HandlersOK
    BY DEF TypeOK, HandlersOK, Kind
  <2>6. new \in HandlerType
    BY <2>5 DEF HandlerType
  <2>7. handler' = [handler EXCEPT ![k] = new]
    BY <1>9 DEF FlagHandoff
  <2> HIDE DEF new
  <2> QED BY <2>5, <2>6, <2>7, HandlerStored DEF Kind
<1>10. ASSUME NEW k \in Kind, ListAffected(k) PROVE HandlersOK'
  <2> DEFINE new == [handler[k] EXCEPT !.pc = "invalidate", !.hits = {c \in Change : Affected(k, c)}]
  <2>5. handler[k] \in HandlerType /\ HandlersOK
    BY DEF TypeOK, HandlersOK, Kind
  <2>6. new \in HandlerType
    BY <2>5 DEF HandlerType
  <2>7. handler' = [handler EXCEPT ![k] = new]
    BY <1>10 DEF ListAffected
  <2> HIDE DEF new
  <2> QED BY <2>5, <2>6, <2>7, HandlerStored DEF Kind
<1>11. ASSUME NEW k \in Kind, NEW c \in Change, RecordInvalidation(k, c) PROVE HandlersOK'
  <2> DEFINE new == [handler[k] EXCEPT !.hits = handler[k].hits \ {c}]
  <2>5. handler[k] \in HandlerType /\ HandlersOK
    BY DEF TypeOK, HandlersOK, Kind
  <2>6. new \in HandlerType
    BY <2>5 DEF HandlerType
  <2>7. handler' = [handler EXCEPT ![k] = new]
    BY <1>11 DEF RecordInvalidation
  <2> HIDE DEF new
  <2> QED BY <2>5, <2>6, <2>7, HandlerStored DEF Kind
<1>12. ASSUME NEW k \in Kind, EndInvalidation(k) PROVE HandlersOK'
  <2> DEFINE new == IF k = "refresh" THEN [handler[k] EXCEPT !.pc = "store"] ELSE IdleHandler
  <2>5. handler[k] \in HandlerType /\ HandlersOK
    BY DEF TypeOK, HandlersOK, Kind
  <2>6. new \in HandlerType
    BY <2>5 DEF HandlerType, IdleHandler, NoHandoff, NoBaseline, HandoffType, BaselineType, Chosen
  <2>7. handler' = [handler EXCEPT ![k] = new]
    BY <1>12 DEF EndInvalidation
  <2> HIDE DEF new
  <2> QED BY <2>5, <2>6, <2>7, HandlerStored DEF Kind
<1>13. ASSUME Crash PROVE HandlersOK'
  <2>1. IdleHandler \in HandlerType
    BY DEF HandlerType, IdleHandler, NoHandoff, NoBaseline, HandoffType, BaselineType, Chosen
  <2> QED BY <1>13, <2>1 DEF Crash, HandlersOK
<1> QED
  BY <1>0, <1>1, <1>2, <1>3, <1>4, <1>5, <1>6, <1>7, <1>8, <1>9, <1>10, <1>11, <1>12, <1>13
     DEF Next, RunStep, EvidenceStep, PersonStep, OutsideStep, vars, records, designs,
     authority, bounds, ApproveStory, RejectStory, StartRun, ResolveWithoutChange, CompleteRun,
     FailRun, StoreBaseline, ReadHandoff, WriteHandoff, ProposeChange, View, Press,
     ApproveChange, RefuseApproval, RejectChange, Dispatch, RecordApplied, RecordNothing,
     SaveScope, Expire, ChangeRoles

\* A non-empty set of positions below a bound has a greatest member.
LEMMA GreatestPosition == ASSUME NEW n \in Nat, NEW S \in SUBSET (1 .. n), S # {}
  PROVE \E i \in S : \A j \in S : j <= i
<1> DEFINE Distance == {d \in Nat : n - d \in S}
<1>1. Distance \subseteq Nat /\ Distance # {}
  <2>1. PICK i \in S : TRUE
    OBVIOUS
  <2>2. n - i \in Nat /\ n - (n - i) = i
    BY <2>1
  <2> QED BY <2>1, <2>2
<1>2. PICK least \in Distance : \A d \in Distance : ~(<<d, least>> \in OpToRel(<, Nat))
  <2> HIDE DEF Distance
  <2> QED BY <1>1, WFMin, NatLessThanWellFounded
<1>3. \A d \in Distance : ~(d < least)
  BY <1>1, <1>2 DEF OpToRel
<1>4. \A j \in S : n - j \in Distance
  <2> SUFFICES ASSUME NEW j \in S PROVE n - j \in Distance
    OBVIOUS
  <2>1. n - j \in Nat /\ n - (n - j) = j
    OBVIOUS
  <2> QED BY <2>1
<1>5. n - least \in S /\ least \in Nat
  OBVIOUS
<1>6. \A j \in S : j <= n - least
  <2> HIDE DEF Distance
  <2> QED BY <1>1, <1>3, <1>4, <1>5
<1> QED BY <1>5, <1>6

\* One of the pending changes is the most recent.
LEMMA PendingHasLast == ASSUME ProposalsOK, PendingAt # {}
  PROVE \E i \in PendingAt : \A j \in PendingAt : j <= i
<1>1. Len(proposed) \in Nat /\ PendingAt \in SUBSET (1 .. Len(proposed))
  BY DEF ProposalsOK, PendingAt
<1> QED BY <1>1, GreatestPosition

\* The requests keep their shape.
LEMMA RequestsStep == TypeOK /\ [Next]_vars => RequestsOK'
<1> SUFFICES ASSUME TypeOK, [Next]_vars PROVE RequestsOK'
  OBVIOUS
<1>0. CASE UNCHANGED request
  BY <1>0 DEF TypeOK, RequestsOK
<1>1. ASSUME NEW a \in Approver, View(a) PROVE RequestsOK'
  <2>1. LatestPending \in Chosen
    <3>1. CASE PendingAt = {}
      BY <3>1 DEF LatestPending, Chosen
    <3>2. CASE PendingAt # {}
      <4>1. \A i \in PendingAt : proposed[i] \in Change
        BY DEF PendingAt, TypeOK, ProposalsOK
      <4>2. \E i \in PendingAt : \A j \in PendingAt : j <= i
        BY <3>2, PendingHasLast DEF TypeOK
      <4>3. (CHOOSE i \in PendingAt : \A j \in PendingAt : j <= i) \in PendingAt
        BY <4>2
      <4> QED BY <3>2, <4>1, <4>3 DEF LatestPending, Chosen
    <3> QED BY <3>1, <3>2
  <2> DEFINE new == [request[a] EXCEPT !.seen = LatestPending]
  <2>5. request[a] \in RequestType /\ RequestsOK
    BY DEF TypeOK, RequestsOK
  <2>6. new \in RequestType /\ (new.pc = "deciding" => new.chosen \in Change)
    BY <2>5, <2>1 DEF RequestType, RequestsOK, NoRequest, Chosen
  <2>7. request' = [request EXCEPT ![a] = new]
    BY <1>1 DEF View, EndRequest
  <2> HIDE DEF new
  <2> QED BY <2>5, <2>6, <2>7 DEF RequestsOK
<1>2. ASSUME NEW a \in Approver, Press(a) PROVE RequestsOK'
  <2>1. LatestPending \in Chosen
    <3>1. CASE PendingAt = {}
      BY <3>1 DEF LatestPending, Chosen
    <3>2. CASE PendingAt # {}
      <4>1. \A i \in PendingAt : proposed[i] \in Change
        BY DEF PendingAt, TypeOK, ProposalsOK
      <4>2. \E i \in PendingAt : \A j \in PendingAt : j <= i
        BY <3>2, PendingHasLast DEF TypeOK
      <4>3. (CHOOSE i \in PendingAt : \A j \in PendingAt : j <= i) \in PendingAt
        BY <4>2
      <4> QED BY <3>2, <4>1, <4>3 DEF LatestPending, Chosen
    <3> QED BY <3>1, <3>2
  <2>2. held[a] \in SUBSET Role
    BY DEF TypeOK, ScalarsOK
  <2>3. LatestPending # None
    BY <1>2 DEF Press
  <2> DEFINE new == [request[a] EXCEPT !.pc = "deciding", !.chosen = LatestPending, !.roles = held[a]]
  <2>5. request[a] \in RequestType /\ RequestsOK
    BY DEF TypeOK, RequestsOK
  <2>6. new \in RequestType /\ (new.pc = "deciding" => new.chosen \in Change)
    BY <2>5, <2>1, <2>2, <2>3 DEF RequestType, RequestsOK, NoRequest, Chosen
  <2>7. request' = [request EXCEPT ![a] = new]
    BY <1>2 DEF Press, EndRequest
  <2> HIDE DEF new
  <2> QED BY <2>5, <2>6, <2>7 DEF RequestsOK
<1>3. ASSUME NEW a \in Approver, ApproveChange(a) PROVE RequestsOK'
  <2> DEFINE new == [NoRequest EXCEPT !.seen = request[a].seen]
  <2>5. request[a] \in RequestType /\ RequestsOK
    BY DEF TypeOK, RequestsOK
  <2>6. new \in RequestType /\ (new.pc = "deciding" => new.chosen \in Change)
    BY <2>5 DEF RequestType, RequestsOK, NoRequest, Chosen
  <2>7. request' = [request EXCEPT ![a] = new]
    BY <1>3 DEF ApproveChange, EndRequest
  <2> HIDE DEF new
  <2> QED BY <2>5, <2>6, <2>7 DEF RequestsOK
<1>4. ASSUME NEW a \in Approver, RefuseApproval(a) PROVE RequestsOK'
  <2> DEFINE new == [NoRequest EXCEPT !.seen = request[a].seen]
  <2>5. request[a] \in RequestType /\ RequestsOK
    BY DEF TypeOK, RequestsOK
  <2>6. new \in RequestType /\ (new.pc = "deciding" => new.chosen \in Change)
    BY <2>5 DEF RequestType, RequestsOK, NoRequest, Chosen
  <2>7. request' = [request EXCEPT ![a] = new]
    BY <1>4 DEF RefuseApproval, EndRequest
  <2> HIDE DEF new
  <2> QED BY <2>5, <2>6, <2>7 DEF RequestsOK
<1>5. ASSUME NEW a \in Approver, RejectChange(a) PROVE RequestsOK'
  <2> DEFINE new == [NoRequest EXCEPT !.seen = request[a].seen]
  <2>5. request[a] \in RequestType /\ RequestsOK
    BY DEF TypeOK, RequestsOK
  <2>6. new \in RequestType /\ (new.pc = "deciding" => new.chosen \in Change)
    BY <2>5 DEF RequestType, RequestsOK, NoRequest, Chosen
  <2>7. request' = [request EXCEPT ![a] = new]
    BY <1>5 DEF RejectChange, EndRequest
  <2> HIDE DEF new
  <2> QED BY <2>5, <2>6, <2>7 DEF RequestsOK
<1>6. ASSUME Crash PROVE RequestsOK'
  <2>1. \A a \in Approver : [NoRequest EXCEPT !.seen = request[a].seen] \in RequestType
    BY DEF TypeOK, RequestsOK, NoRequest, RequestType, Chosen
  <2> QED BY <1>6, <2>1 DEF Crash, RequestsOK, NoRequest
<1> QED
  BY <1>0, <1>1, <1>2, <1>3, <1>4, <1>5, <1>6
     DEF Next, RunStep, EvidenceStep, PersonStep, OutsideStep, vars, records, designs,
     authority, bounds, ApproveStory, RejectStory, StartRun, ResolveWithoutChange, CompleteRun,
     FailRun, StoreBaseline, ReadHandoff, WriteHandoff, ProposeChange, Upload, ReviseStory,
     RecordStoryRevision, StartRefresh, StoreRefreshed, ReadRefreshedHandoff,
     WriteRefreshedHandoff, FlagBaseline, FlagHandoff, ListAffected, EndInvalidation,
     RecordInvalidation, Dispatch, RecordApplied, RecordNothing, SaveScope, Expire, ChangeRoles

\* The proposals keep their order and origin.
LEMMA ProposalsStep == TypeOK /\ [Next]_vars => ProposalsOK'
<1> SUFFICES ASSUME TypeOK, [Next]_vars PROVE ProposalsOK'
  OBVIOUS
<1>0. CASE UNCHANGED <<proposed, origin>>
  BY <1>0 DEF TypeOK, ProposalsOK
<1>1. ASSUME NEW r \in Run, NEW c \in Change, ProposeChange(r, c) PROVE ProposalsOK'
  <2>1. proposed' \in Seq(Change)
    BY <1>1 DEF ProposeChange, TypeOK, ProposalsOK
  <2>2. [run |-> r, text |-> text, artifact |-> 0] \in [run : Nat, text : Nat, artifact : Nat]
    BY RunAssumption DEF TypeOK, ScalarsOK
  <2>3. origin' = [origin EXCEPT ![c] = [run |-> r, text |-> text, artifact |-> 0]]
    BY <1>1 DEF ProposeChange
  <2> QED BY <2>1, <2>2, <2>3 DEF TypeOK, ProposalsOK
<1>2. ASSUME NEW a \in Approver, ApproveChange(a) PROVE ProposalsOK'
  BY <1>2 DEF ApproveChange, TypeOK, ProposalsOK, RequestsOK, ScalarsOK
<1> QED
  BY <1>0, <1>1, <1>2
     DEF Next, RunStep, EvidenceStep, PersonStep, OutsideStep, vars, records, designs,
     authority, bounds, ApproveStory, RejectStory, StartRun, ResolveWithoutChange, CompleteRun,
     FailRun, StoreBaseline, ReadHandoff, WriteHandoff, Upload, ReviseStory,
     RecordStoryRevision, StartRefresh, StoreRefreshed, ReadRefreshedHandoff,
     WriteRefreshedHandoff, FlagBaseline, FlagHandoff, ListAffected, EndInvalidation,
     RecordInvalidation, View, Press, RefuseApproval, RejectChange, Dispatch,
     RecordApplied, RecordNothing, SaveScope, Crash, Expire, ChangeRoles

\* The single-valued variables keep their type.
LEMMA ScalarsStep == TypeOK /\ [Next]_vars => ScalarsOK'
<1> SUFFICES ASSUME TypeOK, [Next]_vars PROVE ScalarsOK'
  OBVIOUS
<1>0. CASE UNCHANGED <<story, text, revision, artifact, held, policy, allowed, recording, cut, events>>
  BY <1>0 DEF TypeOK, ScalarsOK
<1>1. ASSUME ApproveStory PROVE ScalarsOK'
  BY <1>1 DEF ApproveStory, records, authority, bounds, designs, TypeOK, ScalarsOK, Chosen
<1>2. ASSUME RejectStory PROVE ScalarsOK'
  BY <1>2 DEF RejectStory, records, authority, bounds, designs, TypeOK, ScalarsOK, Chosen
<1>3. ASSUME NEW r \in Run, ResolveWithoutChange(r) PROVE ScalarsOK'
  BY <1>3 DEF ResolveWithoutChange, records, authority, bounds, designs, TypeOK, ScalarsOK, Chosen
<1>4. ASSUME NEW r \in Run, CompleteRun(r) PROVE ScalarsOK'
  BY <1>4 DEF CompleteRun, records, authority, bounds, designs, TypeOK, ScalarsOK, Chosen
<1>5. ASSUME Upload PROVE ScalarsOK'
  BY <1>5 DEF Upload, records, authority, bounds, designs, Event, TypeOK, ScalarsOK, Chosen
<1>6. ASSUME ReviseStory PROVE ScalarsOK'
  BY <1>6 DEF ReviseStory, records, authority, bounds, designs, Event, TypeOK, ScalarsOK, Chosen
<1>7. ASSUME StartRefresh PROVE ScalarsOK'
  BY <1>7 DEF StartRefresh, records, authority, bounds, designs, Event, TypeOK, ScalarsOK, Chosen
<1>8. ASSUME NEW c \in Change, Dispatch(c) PROVE ScalarsOK'
  BY <1>8 DEF Dispatch, records, authority, bounds, designs, TypeOK, ScalarsOK, Chosen
<1>9. ASSUME NEW c \in Change, RecordApplied(c) PROVE ScalarsOK'
  BY <1>9 DEF RecordApplied, records, authority, bounds, designs, TypeOK, ScalarsOK, Chosen
<1>10. ASSUME RecordNothing PROVE ScalarsOK'
  BY <1>10 DEF RecordNothing, records, authority, bounds, designs, TypeOK, ScalarsOK, Chosen
<1>11. ASSUME SaveScope PROVE ScalarsOK'
  BY <1>11 DEF SaveScope, records, authority, bounds, designs, Event, TypeOK, ScalarsOK, Chosen
<1>12. ASSUME Crash PROVE ScalarsOK'
  BY <1>12 DEF Crash, records, authority, bounds, designs, Event, TypeOK, ScalarsOK, Chosen
<1>13. ASSUME NEW c \in Change, Expire(c) PROVE ScalarsOK'
  BY <1>13 DEF Expire, records, authority, bounds, designs, Event, TypeOK, ScalarsOK, Chosen
<1>14. ASSUME NEW a \in Approver, ChangeRoles(a) PROVE ScalarsOK'
  BY <1>14 DEF ChangeRoles, records, authority, bounds, designs, Event, TypeOK, ScalarsOK, Chosen
<1> QED
  BY <1>0, <1>1, <1>2, <1>3, <1>4, <1>5, <1>6, <1>7, <1>8, <1>9, <1>10, <1>11, <1>12, <1>13,
  <1>14
     DEF Next, RunStep, EvidenceStep, PersonStep, OutsideStep, vars, records, designs,
     authority, bounds, StartRun, FailRun, StoreBaseline, ReadHandoff, WriteHandoff,
     ProposeChange, RecordStoryRevision, StoreRefreshed, ReadRefreshedHandoff,
     WriteRefreshedHandoff, FlagBaseline, FlagHandoff, ListAffected, EndInvalidation,
     RecordInvalidation, View, Press, ApproveChange, RefuseApproval, RejectChange

\* The declared shape of every document, run and request is inductive.
THEOREM TypeCorrect == Spec => []TypeOK
<1>1. TypeOK /\ [Next]_vars => TypeOK'
  BY ChangesStep, DesignsStep, RunsStep, HandlersStep, RequestsStep, ProposalsStep, ScalarsStep
     DEF TypeOK
<1> QED BY InitTyped, <1>1, PTL DEF Spec

\* A recorded invalidation stays, and a step that finds one delivers nothing.
LEMMA InvalidatedStep ==
  ASSUME TypeOK, [Next]_vars, NEW d \in Change, change[d].invalid
  PROVE  change'[d].invalid /\ change'[d].applied = change[d].applied
<1> USE DEF TypeOK, ChangesOK
<1>0. CASE UNCHANGED change
  BY <1>0
<1>1. ASSUME NEW r \in Run, NEW c \in Change, ProposeChange(r, c)
      PROVE  change'[d].invalid /\ change'[d].applied = change[d].applied
  BY <1>1 DEF ProposeChange, ChangeType
<1>2. ASSUME NEW k \in Kind, NEW c \in Change, RecordInvalidation(k, c)
      PROVE  change'[d].invalid /\ change'[d].applied = change[d].applied
  BY <1>2 DEF RecordInvalidation, ChangeType
<1>3. ASSUME NEW a \in Approver, ApproveChange(a)
      PROVE  change'[d].invalid /\ change'[d].applied = change[d].applied
  <2>1. request[a].chosen \in Change /\ request[a].chosen # d
    BY <1>3 DEF ApproveChange, RequestsOK, Bindable
  <2> QED BY <1>3, <2>1 DEF ApproveChange
<1>4. ASSUME NEW a \in Approver, RejectChange(a)
      PROVE  change'[d].invalid /\ change'[d].applied = change[d].applied
  BY <1>4 DEF RejectChange, ChangeType
<1>5. ASSUME NEW c \in Change, RecordApplied(c)
      PROVE  change'[d].invalid /\ change'[d].applied = change[d].applied
  <2>1. c # d
    BY <1>5 DEF RecordApplied, MayRecord, Authorised, BasisHolds
  <2> QED BY <1>5, <2>1 DEF RecordApplied
<1>6. ASSUME NEW c \in Change, Expire(c)
      PROVE  change'[d].invalid /\ change'[d].applied = change[d].applied
  BY <1>6 DEF Expire, ChangeType
<1> QED
  BY <1>0, <1>1, <1>2, <1>3, <1>4, <1>5, <1>6
     DEF Next, RunStep, EvidenceStep, PersonStep, OutsideStep, vars, records, designs,
     authority, bounds, ApproveStory, RejectStory, StartRun, ResolveWithoutChange, CompleteRun,
     FailRun, StoreBaseline, ReadHandoff, WriteHandoff, Upload, ReviseStory,
     RecordStoryRevision, StartRefresh, StoreRefreshed, ReadRefreshedHandoff,
     WriteRefreshedHandoff, FlagBaseline, FlagHandoff, ListAffected, EndInvalidation, View,
     Press, RefuseApproval, Dispatch, RecordNothing, SaveScope, Crash, ChangeRoles

\* No change is delivered once evidence it rests on was found to have changed.
THEOREM InvalidatedIsFinal == Spec => InvalidatedNeverDelivered
<1>1. TypeOK /\ [Next]_vars =>
        [\A c \in Change : change[c].invalid =>
           change'[c].invalid /\ change'[c].applied = change[c].applied]_vars
  BY InvalidatedStep
<1> QED BY TypeCorrect, <1>1, PTL DEF Spec, InvalidatedNeverDelivered

\* A step that stores a delivery runs under an approval that still stands.
LEMMA DeliveryStep ==
  ASSUME TypeOK, [Next]_vars, NEW d \in Change, change'[d].applied, ~change[d].applied
  PROVE  /\ story = "APPROVED"
         /\ change[d].by \in Approver /\ held[change[d].by] \cap policy # {}
         /\ handoff.baseline.design = change[d].design
<1> USE DEF TypeOK, ChangesOK
<1>0. CASE UNCHANGED change
  BY <1>0
<1>1. ASSUME NEW r \in Run, NEW c \in Change, ProposeChange(r, c) PROVE FALSE
  BY <1>1 DEF ProposeChange, ChangeType
<1>2. ASSUME NEW k \in Kind, NEW c \in Change, RecordInvalidation(k, c) PROVE FALSE
  BY <1>2 DEF RecordInvalidation, ChangeType
<1>3. ASSUME NEW a \in Approver, ApproveChange(a) PROVE FALSE
  BY <1>3 DEF ApproveChange, RequestsOK, ChangeType
<1>4. ASSUME NEW a \in Approver, RejectChange(a) PROVE FALSE
  BY <1>4 DEF RejectChange, RequestsOK, ChangeType
<1>5. ASSUME NEW c \in Change, RecordApplied(c)
      PROVE  /\ story = "APPROVED"
             /\ change[d].by \in Approver /\ held[change[d].by] \cap policy # {}
             /\ handoff.baseline.design = change[d].design
  <2>1. c = d
    BY <1>5 DEF RecordApplied
  <2>2. LiveApproval(d) /\ BasisHolds(d)
    BY <1>5, <2>1 DEF RecordApplied, MayRecord, Authorised
  <2>3. change[d].design = 0 => handoff.baseline.design = 0
    BY <2>2 DEF BasisHolds, NoHandoff, NoBaseline
  <2> QED BY <2>2, <2>3 DEF LiveApproval, BasisHolds
<1>6. ASSUME NEW c \in Change, Expire(c) PROVE FALSE
  BY <1>6 DEF Expire, ChangeType
<1> QED
  BY <1>0, <1>1, <1>2, <1>3, <1>4, <1>5, <1>6
     DEF Next, RunStep, EvidenceStep, PersonStep, OutsideStep, vars, records, designs,
     authority, bounds, ApproveStory, RejectStory, StartRun, ResolveWithoutChange, CompleteRun,
     FailRun, StoreBaseline, ReadHandoff, WriteHandoff, Upload, ReviseStory,
     RecordStoryRevision, StartRefresh, StoreRefreshed, ReadRefreshedHandoff,
     WriteRefreshedHandoff, FlagBaseline, FlagHandoff, ListAffected, EndInvalidation, View,
     Press, RefuseApproval, Dispatch, RecordNothing, SaveScope, Crash, ChangeRoles

\* Whatever happens between dispatch and the stored delivery, the delivery is
\* stored under an approval that stands at that moment.
THEOREM DeliveryIsAuthorised == Spec => DeliveredUnderStandingApproval
<1>1. TypeOK /\ [Next]_vars =>
        [\A c \in Change : change'[c].applied /\ ~change[c].applied =>
           /\ story = "APPROVED"
           /\ change[c].by \in Approver /\ held[change[c].by] \cap policy # {}
           /\ handoff.baseline.design = change[c].design]_vars
  BY DeliveryStep
<1> QED BY TypeCorrect, <1>1, PTL DEF Spec, DeliveredUnderStandingApproval

(***************************************************************************)
(* Which operations touch a variable.                                      *)
(***************************************************************************)

\* Only a run's own operations and a restart move the design runs.
LEMMA MovesRun == [Next]_vars =>
    \/ UNCHANGED run
    \/ Crash
    \/ \E r \in Run : \/ StartRun(r) \/ CompleteRun(r) \/ FailRun(r)
                      \/ StoreBaseline(r) \/ ReadHandoff(r) \/ WriteHandoff(r)
  BY DEF Next, RunStep, EvidenceStep, PersonStep, OutsideStep, vars, records, designs,
     authority, bounds, ApproveStory, RejectStory, ResolveWithoutChange, ProposeChange, Upload,
     ReviseStory, RecordStoryRevision, StartRefresh, StoreRefreshed, ReadRefreshedHandoff,
     WriteRefreshedHandoff, FlagBaseline, FlagHandoff, ListAffected, EndInvalidation,
     RecordInvalidation, View, Press, ApproveChange, RefuseApproval, RejectChange, Dispatch,
     RecordApplied, RecordNothing, SaveScope, Expire, ChangeRoles

\* The Functional Agent's proposal alone adds to the list of changes; an
\* approval notes what evidence was in force.
LEMMA MovesProposals == [Next]_vars =>
    \/ UNCHANGED <<proposed, origin>>
    \/ \E r \in Run, c \in Change : ProposeChange(r, c)
    \/ \E a \in Approver : ApproveChange(a) /\ proposed' = proposed
  BY DEF Next, RunStep, EvidenceStep, PersonStep, OutsideStep, vars, records, designs,
     authority, bounds, ApproveStory, RejectStory, StartRun, ResolveWithoutChange, CompleteRun,
     FailRun, StoreBaseline, ReadHandoff, WriteHandoff, Upload, ReviseStory,
     RecordStoryRevision, StartRefresh, StoreRefreshed, ReadRefreshedHandoff,
     WriteRefreshedHandoff, FlagBaseline, FlagHandoff, ListAffected, EndInvalidation,
     RecordInvalidation, View, Press, ApproveChange, RefuseApproval, RejectChange, Dispatch,
     RecordApplied, RecordNothing, SaveScope, Crash, Expire, ChangeRoles

\* The operations that write a change record.
LEMMA MovesChange == [Next]_vars =>
    \/ UNCHANGED change
    \/ \E r \in Run, c \in Change : ProposeChange(r, c)
    \/ \E k \in Kind, c \in Change : RecordInvalidation(k, c)
    \/ \E a \in Approver : ApproveChange(a) \/ RejectChange(a)
    \/ \E c \in Change : RecordApplied(c) \/ Expire(c)
  BY DEF Next, RunStep, EvidenceStep, PersonStep, OutsideStep, vars, records, designs,
     authority, bounds, ApproveStory, RejectStory, StartRun, ResolveWithoutChange, CompleteRun,
     FailRun, StoreBaseline, ReadHandoff, WriteHandoff, Upload, ReviseStory,
     RecordStoryRevision, StartRefresh, StoreRefreshed, ReadRefreshedHandoff,
     WriteRefreshedHandoff, FlagBaseline, FlagHandoff, ListAffected, EndInvalidation, View,
     Press, RefuseApproval, Dispatch, RecordNothing, SaveScope, Crash, ChangeRoles

\* The hand-off is written by a run, by a flag and by a refresh.
LEMMA MovesHandoff == [Next]_vars =>
    \/ UNCHANGED handoff
    \/ \E r \in Run : WriteHandoff(r)
    \/ \E k \in Kind : FlagHandoff(k)
    \/ WriteRefreshedHandoff
  BY DEF Next, RunStep, EvidenceStep, PersonStep, OutsideStep, vars, records, designs,
     authority, bounds, ApproveStory, RejectStory, StartRun, ResolveWithoutChange, CompleteRun,
     FailRun, StoreBaseline, ReadHandoff, ProposeChange, Upload, ReviseStory,
     RecordStoryRevision, StartRefresh, StoreRefreshed, ReadRefreshedHandoff, FlagBaseline,
     ListAffected, EndInvalidation, RecordInvalidation, View, Press, ApproveChange,
     RefuseApproval, RejectChange, Dispatch, RecordApplied, RecordNothing, SaveScope, Crash,
     Expire, ChangeRoles

\* Only an evidence handler's own operations and a restart move the handlers.
LEMMA MovesHandler == [Next]_vars =>
    \/ UNCHANGED handler
    \/ Crash
    \/ Upload \/ ReviseStory \/ RecordStoryRevision \/ StartRefresh
    \/ StoreRefreshed \/ ReadRefreshedHandoff \/ WriteRefreshedHandoff
    \/ \E k \in Kind : \/ FlagBaseline(k) \/ FlagHandoff(k) \/ ListAffected(k)
                       \/ EndInvalidation(k)
                       \/ \E c \in Change : RecordInvalidation(k, c)
  BY DEF Next, RunStep, EvidenceStep, PersonStep, OutsideStep, vars, records, designs,
     authority, bounds, ApproveStory, RejectStory, StartRun, ResolveWithoutChange, CompleteRun,
     FailRun, StoreBaseline, ReadHandoff, WriteHandoff, ProposeChange, View, Press,
     ApproveChange, RefuseApproval, RejectChange, Dispatch, RecordApplied, RecordNothing,
     SaveScope, Expire, ChangeRoles

(***************************************************************************)
(* An approval is bound to the design whose run proposed the change, as    *)
(* long as no two design runs are open at once.                            *)
(*                                                                         *)
(* The gate looks only at the hand-off, so the hand-off has to name the    *)
(* change and the design of one run that has ended (HandoffSettled); that  *)
(* rests on what a run takes for its own change, the newest one proposed   *)
(* since it began (ProposalsKnown).  Evidence changes may interleave.      *)
(***************************************************************************)
Open(r) == run[r].pc \notin {"idle", "done"}

\* start_architecture_review means this, and two starts may break it.
RunsAlone == \A r, s \in Run : Open(r) /\ Open(s) => r = s

ProposalsKnown ==
    /\ \A i \in 1 .. Len(proposed) : change[proposed[i]].status # "none"
    /\ \A r \in Run : run[r].pc \in {"idle", "designing"} => run[r].mine = None
    /\ \A r \in Run : run[r].pc = "designing" =>
          /\ run[r].since <= Len(proposed)
          /\ \A i \in 1 .. Len(proposed) : i > run[r].since => origin[proposed[i]].run = r
    /\ \A r \in Run : run[r].mine # None =>
          change[run[r].mine].status # "none" /\ origin[run[r].mine].run = r

\* The run that proposed c has ended, with c and design d as its result.
Settled(c, d) ==
    LET r == origin[c].run
    IN r \in Run /\ run[r].pc = "done" /\ run[r].mine = c /\ run[r].made.design = d

PackageSettled(h) == h.change # None => Settled(h.change, h.baseline.design)

HandoffSettled ==
    /\ PackageSettled(handoff)
    /\ \A r \in Run : run[r].pc = "writing" => PackageSettled(run[r].previous)
    /\ handler["refresh"].pc = "write" => PackageSettled(handler["refresh"].previous)

ApprovalsSettled ==
    \A c \in Change : change[c].status = "approved" /\ change[c].design # 0 =>
        Settled(c, change[c].design)

BindingInv == ProposalsKnown /\ HandoffSettled /\ ApprovalsSettled

\* A change that was proposed stays proposed.
LEMMA StaysProposed ==
  ASSUME TypeOK, [Next]_vars, NEW d \in Change, change[d].status # "none"
  PROVE  change'[d].status # "none"
<1>1. ASSUME NEW a \in Approver, ApproveChange(a) PROVE change'[d].status # "none"
  BY <1>1 DEF ApproveChange, TypeOK, RequestsOK, ChangesOK, ChangeType
<1>2. ASSUME NEW a \in Approver, RejectChange(a) PROVE change'[d].status # "none"
  BY <1>2 DEF RejectChange, TypeOK, RequestsOK, ChangesOK, ChangeType
<1>3. ASSUME NEW c \in Change, RecordApplied(c) \/ Expire(c) PROVE change'[d].status # "none"
  BY <1>3 DEF RecordApplied, Expire, TypeOK, ChangesOK, ChangeType
<1>4. ASSUME NEW r \in Run, NEW c \in Change, ProposeChange(r, c)
      PROVE  change'[d].status # "none"
  BY <1>4 DEF ProposeChange, TypeOK, ChangesOK, ChangeType
<1>5. ASSUME NEW k \in Kind, NEW c \in Change, RecordInvalidation(k, c)
      PROVE  change'[d].status # "none"
  BY <1>5 DEF RecordInvalidation, TypeOK, ChangesOK, ChangeType
<1> QED BY <1>1, <1>2, <1>3, <1>4, <1>5, MovesChange

\* The run and the text a proposed change came from are fixed; the artifact
\* revision is noted by its approval.
LEMMA OriginFixed ==
  ASSUME TypeOK, [Next]_vars, NEW d \in Change, change[d].status # "none"
  PROVE  /\ origin'[d].run = origin[d].run /\ origin'[d].text = origin[d].text
         /\ \/ origin'[d].artifact = origin[d].artifact
            \/ \E a \in Approver : ApproveChange(a) /\ request[a].chosen = d
<1>0. origin \in [Change -> [run : Nat, text : Nat, artifact : Nat]]
  BY DEF TypeOK, ProposalsOK
<1>1. ASSUME NEW r \in Run, NEW c \in Change, ProposeChange(r, c) PROVE origin'[d] = origin[d]
  BY <1>0, <1>1 DEF ProposeChange
<1>2. ASSUME NEW a \in Approver, ApproveChange(a)
      PROVE  /\ origin'[d].run = origin[d].run /\ origin'[d].text = origin[d].text
             /\ request[a].chosen # d => origin'[d].artifact = origin[d].artifact
  BY <1>0, <1>2 DEF ApproveChange
<1> QED BY <1>1, <1>2, MovesProposals

\* What a run that has ended leaves behind is fixed.
LEMMA DoneIsFixed ==
  ASSUME TypeOK, [Next]_vars, NEW s \in Run, run[s].pc = "done"
  PROVE  run'[s].pc = "done" /\ run'[s].mine = run[s].mine /\ run'[s].made = run[s].made
<1> DEFINE Same == run'[s].pc = "done" /\ run'[s].mine = run[s].mine /\ run'[s].made = run[s].made
<1>1. ASSUME NEW r \in Run, StartRun(r) \/ CompleteRun(r) \/ FailRun(r)
                            \/ StoreBaseline(r) \/ ReadHandoff(r) \/ WriteHandoff(r)
      PROVE  Same
  <2>1. r # s
    BY <1>1 DEF StartRun, CompleteRun, FailRun, StoreBaseline, ReadHandoff, WriteHandoff
  <2>2. run'[s] = run[s]
    BY <1>1, <2>1 DEF StartRun, CompleteRun, FailRun, StoreBaseline, ReadHandoff, WriteHandoff,
       EndRun, TypeOK, RunsOK
  <2> QED BY <2>2
<1>2. ASSUME Crash PROVE Same
  BY <1>2 DEF Crash, Ended, IdleRun
<1> QED BY <1>1, <1>2, MovesRun

\* A settled pair of change and design stays settled.
LEMMA SettledStays ==
  ASSUME TypeOK, ProposalsKnown, [Next]_vars, NEW c \in Change, NEW d, Settled(c, d)
  PROVE  Settled(c, d)'
<1>1. origin[c].run \in Run /\ run[origin[c].run].mine = c /\ c # None
  BY NoneAssumption DEF Settled
<1>2. change[c].status # "none"
  BY <1>1 DEF ProposalsKnown
<1>3. origin'[c].run = origin[c].run
  BY <1>2, OriginFixed
<1> QED BY <1>1, <1>3, DoneIsFixed DEF Settled

\* How one step moves a run, field by field.
RunKeeps(r) == run'[r].mine = run[r].mine /\ run'[r].made = run[r].made

RunMove(r) ==
    \/ run'[r] = run[r]
    \/ run[r].pc # "idle" /\ run'[r].pc = "done" /\ RunKeeps(r)
       /\ (Crash \/ FailRun(r) \/ WriteHandoff(r))
    \/ StartRun(r) /\ run'[r].pc = "designing" /\ RunKeeps(r)
       /\ run'[r].since = Len(proposed) /\ run'[r].artifact = artifact
    \/ CompleteRun(r) /\ run'[r].pc = "storing" /\ run'[r].mine = ProposedDuring(r)
       /\ run'[r].artifact = run[r].artifact
    \/ StoreBaseline(r) /\ run'[r].pc = "reading" /\ run'[r].mine = run[r].mine
       /\ run'[r].artifact = run[r].artifact /\ run'[r].made = baseline'
    \/ ReadHandoff(r) /\ run'[r].pc = "writing" /\ RunKeeps(r)
       /\ run'[r].artifact = run[r].artifact /\ run'[r].previous = handoff

\* One step moves one run, by one of the run's own operations.
LEMMA RunMoves == ASSUME TypeOK, [Next]_vars, NEW r \in Run PROVE RunMove(r)
<1>0. run \in [Run -> RunType] /\ run[r] \in RunType
  BY DEF TypeOK, RunsOK
<1>1. ASSUME NEW s \in Run, s # r,
             StartRun(s) \/ CompleteRun(s) \/ FailRun(s)
               \/ StoreBaseline(s) \/ ReadHandoff(s) \/ WriteHandoff(s)
      PROVE  run'[r] = run[r]
  BY <1>0, <1>1 DEF StartRun, CompleteRun, FailRun, StoreBaseline, ReadHandoff, WriteHandoff, EndRun
<1>2. ASSUME StartRun(r) PROVE RunMove(r)
  <2>1. run'[r] = [run[r] EXCEPT !.pc = "designing", !.since = Len(proposed), !.artifact = artifact]
    BY <1>0, <1>2 DEF StartRun
  <2> QED BY <1>0, <1>2, <2>1 DEF RunMove, RunKeeps, RunType
<1>3. ASSUME CompleteRun(r) PROVE RunMove(r)
  <2>1. run'[r] = [run[r] EXCEPT !.pc = "storing", !.mine = ProposedDuring(r)]
    BY <1>0, <1>3 DEF CompleteRun
  <2> QED BY <1>0, <1>3, <2>1 DEF RunMove, RunKeeps, RunType
<1>4. ASSUME FailRun(r) \/ WriteHandoff(r) PROVE RunMove(r)
  <2>1. run'[r] = Ended(run[r]) /\ run[r].pc # "idle"
    BY <1>0, <1>4 DEF FailRun, WriteHandoff, EndRun
  <2> QED BY <1>4, <2>1 DEF RunMove, RunKeeps, Ended, IdleRun
<1>5. ASSUME StoreBaseline(r) PROVE RunMove(r)
  <2>1. run'[r] = [run[r] EXCEPT !.pc = "reading", !.made = baseline']
    BY <1>0, <1>5 DEF StoreBaseline
  <2> QED BY <1>0, <1>5, <2>1 DEF RunMove, RunType
<1>6. ASSUME ReadHandoff(r) PROVE RunMove(r)
  <2>1. run'[r] = [run[r] EXCEPT !.pc = "writing", !.previous = handoff]
    BY <1>0, <1>6 DEF ReadHandoff
  <2> QED BY <1>0, <1>6, <2>1 DEF RunMove, RunKeeps, RunType
<1>7. ASSUME Crash PROVE RunMove(r)
  <2>1. run'[r] = run[r] \/ (run[r].pc # "idle" /\ run'[r] = Ended(run[r]))
    BY <1>7 DEF Crash
  <2> QED BY <1>7, <2>1 DEF RunMove, RunKeeps, Ended, IdleRun
<1>8. CASE UNCHANGED run
  BY <1>8 DEF RunMove
<1>9. ASSUME run'[r] = run[r] PROVE RunMove(r)
  BY <1>9 DEF RunMove
<1> QED BY <1>1, <1>2, <1>3, <1>4, <1>5, <1>6, <1>7, <1>8, <1>9, MovesRun

\* What a run takes for its own change is a change it proposed.
LEMMA OwnChange ==
  ASSUME TypeOK, ProposalsKnown, NEW r \in Run, run[r].pc = "designing",
         ProposedDuring(r) # None
  PROVE  /\ ProposedDuring(r) \in Change
         /\ change[ProposedDuring(r)].status # "none"
         /\ origin[ProposedDuring(r)].run = r
<1> DEFINE n == Len(proposed)
<1>1. n \in Nat /\ run[r].since \in Nat /\ n > run[r].since
  BY DEF TypeOK, ProposalsOK, RunsOK, RunType, ProposedDuring
<1>2. n \in 1 .. n /\ ProposedDuring(r) = proposed[n]
  BY <1>1 DEF ProposedDuring
<1>3. proposed[n] \in Change
  BY <1>2 DEF TypeOK, ProposalsOK
<1> QED BY <1>1, <1>2, <1>3 DEF ProposalsKnown

\* Runs know their own changes.
LEMMA ProposalsKnownStep ==
  ASSUME TypeOK, RunsAlone, ProposalsKnown, [Next]_vars
  PROVE  ProposalsKnown'
<1>0. Len(proposed) \in Nat /\ proposed \in Seq(Change)
  BY DEF TypeOK, ProposalsOK
<1>1. ASSUME NEW i \in 1 .. Len(proposed)
      PROVE  /\ proposed[i] \in Change
             /\ change'[proposed[i]].status # "none"
             /\ origin'[proposed[i]].run = origin[proposed[i]].run
  <2>1. proposed[i] \in Change /\ change[proposed[i]].status # "none"
    BY <1>0 DEF ProposalsKnown
  <2> QED BY <2>1, StaysProposed, OriginFixed
<1>2. \/ proposed' = proposed
      \/ \E r \in Run, c \in Change : ProposeChange(r, c) /\ proposed' = Append(proposed, c)
  BY MovesProposals DEF ProposeChange
<1>3. \A i \in 1 .. Len(proposed') : change'[proposed'[i]].status # "none"
  <2>1. ASSUME NEW r \in Run, NEW c \in Change, ProposeChange(r, c),
               proposed' = Append(proposed, c), NEW i \in 1 .. Len(proposed')
        PROVE  change'[proposed'[i]].status # "none"
    <3>1. change'[c].status = "pending"
      BY <2>1 DEF ProposeChange, TypeOK, ChangesOK, ChangeType
    <3>2. proposed'[i] = c \/ (i \in 1 .. Len(proposed) /\ proposed'[i] = proposed[i])
      BY <1>0, <2>1
    <3> QED BY <1>1, <3>1, <3>2
  <2> QED BY <1>1, <1>2, <2>1
<1>4. \A r \in Run : run'[r].pc \in {"idle", "designing"} => run'[r].mine = None
  <2> SUFFICES ASSUME NEW r \in Run, run'[r].pc \in {"idle", "designing"}
               PROVE  run'[r].mine = None
    OBVIOUS
  <2> QED BY RunMoves DEF RunMove, RunKeeps, ProposalsKnown, StartRun
<1>5. ASSUME NEW r \in Run, run'[r].pc = "designing"
      PROVE  /\ run'[r].since <= Len(proposed')
             /\ \A i \in 1 .. Len(proposed') : i > run'[r].since => origin'[proposed'[i]].run = r
  <2>0. run[r] \in RunType
    BY DEF TypeOK, RunsOK
  <2>1. \/ run'[r] = run[r]
        \/ StartRun(r) /\ run'[r].since = Len(proposed)
    BY <1>5, RunMoves DEF RunMove
  <2>2. CASE StartRun(r) /\ run'[r].since = Len(proposed)
    <3>1. proposed' = proposed
      BY <2>2 DEF StartRun, records
    <3>2. \A i \in 1 .. Len(proposed) : ~(i > Len(proposed))
      BY <1>0
    <3> QED BY <1>0, <2>2, <3>1, <3>2
  <2>3. CASE run'[r] = run[r]
    <3>1. run[r].pc = "designing" /\ run[r].since \in Nat
      BY <1>5, <2>0, <2>3 DEF RunType
    <3>2. CASE proposed' = proposed
      BY <1>1, <2>3, <3>1, <3>2 DEF ProposalsKnown
    <3>3. ASSUME NEW s \in Run, NEW c \in Change, ProposeChange(s, c),
                 proposed' = Append(proposed, c)
          PROVE  /\ run[r].since <= Len(proposed')
                 /\ \A i \in 1 .. Len(proposed') : i > run[r].since => origin'[proposed'[i]].run = r
      <4>1. s = r
        BY <3>1, <3>3 DEF ProposeChange, RunsAlone, Open
      <4>2. origin'[c].run = r
        BY <3>3, <4>1 DEF ProposeChange, TypeOK, ProposalsOK
      <4>3. Len(proposed') = Len(proposed) + 1 /\ run[r].since <= Len(proposed)
        BY <1>0, <3>1, <3>3 DEF ProposalsKnown
      <4>4. ASSUME NEW i \in 1 .. Len(proposed'), i > run[r].since
            PROVE  origin'[proposed'[i]].run = r
        <5>1. proposed'[i] = c \/ (i \in 1 .. Len(proposed) /\ proposed'[i] = proposed[i])
          BY <1>0, <3>3
        <5> QED BY <1>1, <3>1, <4>2, <4>4, <5>1 DEF ProposalsKnown
      <4> QED BY <1>0, <3>1, <4>3, <4>4
    <3> QED BY <1>2, <2>3, <3>2, <3>3
  <2> QED BY <2>1, <2>2, <2>3
<1>6. ASSUME NEW r \in Run, run'[r].mine # None
      PROVE  change'[run'[r].mine].status # "none" /\ origin'[run'[r].mine].run = r
  <2>0. run[r] \in RunType
    BY DEF TypeOK, RunsOK
  <2>1. \/ run'[r].mine = run[r].mine
        \/ CompleteRun(r) /\ run'[r].mine = ProposedDuring(r)
    BY RunMoves DEF RunMove, RunKeeps
  <2>2. CASE run'[r].mine = run[r].mine
    <3>1. /\ run[r].mine \in Change /\ change[run[r].mine].status # "none"
          /\ origin[run[r].mine].run = r
      BY <1>6, <2>0, <2>2 DEF ProposalsKnown, RunType, Chosen
    <3> QED BY <2>2, <3>1, StaysProposed, OriginFixed
  <2>3. CASE CompleteRun(r) /\ run'[r].mine = ProposedDuring(r)
    <3>1. run[r].pc = "designing"
      BY <2>3 DEF CompleteRun
    <3> QED BY <1>6, <2>3, <3>1, OwnChange, StaysProposed, OriginFixed
  <2> QED BY <2>1, <2>2, <2>3
<1> QED BY <1>3, <1>4, <1>5, <1>6 DEF ProposalsKnown

\* How one step moves the handler of a kind, field by field.
HandlerKeeps(k) == handler'[k].base = handler[k].base /\ handler'[k].previous = handler[k].previous

HandlerMove(k) ==
    \/ handler'[k] = handler[k]
    \/ handler'[k] = IdleHandler
       /\ \/ Crash
          \/ k = "refresh" /\ WriteRefreshedHandoff
          \/ k # "refresh" /\ EndInvalidation(k)
    \/ k = "upload" /\ Upload /\ handler'[k].pc = "flag"
    \/ k = "revise" /\ ReviseStory /\ handler'[k].pc = "copy"
    \/ k = "revise" /\ RecordStoryRevision
       /\ handler'[k].pc = (IF story = "APPROVED" THEN "flag" ELSE "idle")
    \/ k = "refresh" /\ StartRefresh /\ handler'[k].pc = "list"
       /\ handler'[k].base.artifact = baseline.artifact
       /\ handler'[k].base.status \in {"current", "needs_reassessment"}
       /\ (handler'[k].base.status = "current" => ~(baseline.artifact < artifact))
    \/ k = "refresh" /\ StoreRefreshed /\ handler'[k].pc = "read" /\ handler'[k].base = baseline'
    \/ k = "refresh" /\ ReadRefreshedHandoff /\ handler'[k].pc = "write"
       /\ handler'[k].base = handler[k].base /\ handler'[k].previous = handoff
    \/ FlagBaseline(k) /\ handler'[k].base = baseline
       /\ handler'[k].pc = IF baseline # NoBaseline /\ (k = "upload" => baseline.artifact < artifact)
                           THEN "flagHandoff" ELSE "list"
    \/ FlagHandoff(k) /\ handler'[k].pc = "list" /\ HandlerKeeps(k)
    \/ ListAffected(k) /\ handler'[k].pc = "invalidate" /\ HandlerKeeps(k)
       /\ handler'[k].hits = {c \in Change : Affected(k, c)}
    \/ handler'[k].pc = "invalidate" /\ HandlerKeeps(k)
       /\ \E c \in Change : RecordInvalidation(k, c) /\ handler'[k].hits = handler[k].hits \ {c}
    \/ k = "refresh" /\ EndInvalidation(k) /\ handler'[k].pc = "store" /\ HandlerKeeps(k)

\* One step moves one handler, by one of the handler's own operations.
LEMMA HandlerMoves == ASSUME TypeOK, [Next]_vars, NEW k \in Kind PROVE HandlerMove(k)
<1>0. handler \in [Kind -> HandlerType] /\ handler[k] \in HandlerType
  BY DEF TypeOK, HandlersOK
<1>1. ASSUME Upload PROVE HandlerMove(k)
  BY <1>0, <1>1 DEF Upload, HandlerMove, HandlerType
<1>2. ASSUME ReviseStory PROVE HandlerMove(k)
  BY <1>0, <1>2 DEF ReviseStory, HandlerMove, HandlerType
<1>3. ASSUME RecordStoryRevision PROVE HandlerMove(k)
  BY <1>0, <1>3 DEF RecordStoryRevision, HandlerMove, HandlerType
<1>4. ASSUME StartRefresh PROVE HandlerMove(k)
  <2>1. PICK differs \in BOOLEAN :
          handler' = [handler EXCEPT !["refresh"] =
              [IdleHandler EXCEPT !.pc = "list",
                  !.base = [baseline EXCEPT !.status =
                      IF differs \/ baseline.artifact < artifact
                      THEN "needs_reassessment" ELSE "current"],
                  !.hits = IF differs THEN Change ELSE {}]]
    BY <1>4 DEF StartRefresh
  <2>2. baseline \in BaselineType
    BY DEF TypeOK, DesignsOK
  <2>3. CASE k = "refresh"
    <3>1. /\ handler'[k].pc = "list"
          /\ handler'[k].base = [baseline EXCEPT !.status =
                      IF differs \/ baseline.artifact < artifact
                      THEN "needs_reassessment" ELSE "current"]
      BY <1>0, <2>1, <2>3 DEF IdleHandler
    <3>2. /\ handler'[k].base.artifact = baseline.artifact
          /\ handler'[k].base.status \in {"current", "needs_reassessment"}
          /\ (handler'[k].base.status = "current" => ~(baseline.artifact < artifact))
      BY <2>2, <3>1 DEF BaselineType
    <3> QED BY <1>4, <2>3, <3>1, <3>2 DEF HandlerMove
  <2>4. CASE k # "refresh"
    <3>1. handler'[k] = handler[k]
      BY <1>0, <2>1, <2>4
    <3> QED BY <3>1 DEF HandlerMove
  <2> QED BY <2>3, <2>4
<1>5. ASSUME StoreRefreshed PROVE HandlerMove(k)
  BY <1>0, <1>5 DEF StoreRefreshed, HandlerMove, HandlerType
<1>6. ASSUME ReadRefreshedHandoff PROVE HandlerMove(k)
  BY <1>0, <1>6 DEF ReadRefreshedHandoff, HandlerMove, HandlerType
<1>7. ASSUME WriteRefreshedHandoff PROVE HandlerMove(k)
  BY <1>0, <1>7 DEF WriteRefreshedHandoff, HandlerMove
<1>8. ASSUME NEW l \in Kind, FlagBaseline(l) PROVE HandlerMove(k)
  <2> DEFINE pc == IF baseline # NoBaseline /\ (l = "upload" => baseline.artifact < artifact)
                   THEN "flagHandoff" ELSE "list"
  <2>1. handler' = [handler EXCEPT ![l].pc = pc, ![l].base = baseline]
    BY <1>8 DEF FlagBaseline
  <2>2. handler'[l].pc = pc /\ handler'[l].base = baseline /\ (k # l => handler'[k] = handler[k])
    <3> HIDE DEF pc
    <3> QED BY <1>0, <2>1 DEF HandlerType
  <2> QED BY <1>8, <2>2 DEF HandlerMove
<1>9. ASSUME NEW l \in Kind, FlagHandoff(l) PROVE HandlerMove(k)
  BY <1>0, <1>9 DEF FlagHandoff, HandlerMove, HandlerKeeps, HandlerType
<1>10. ASSUME NEW l \in Kind, ListAffected(l) PROVE HandlerMove(k)
  <2> DEFINE found == {c \in Change : Affected(l, c)}
  <2>1. handler' = [handler EXCEPT ![l].pc = "invalidate", ![l].hits = found]
    BY <1>10 DEF ListAffected
  <2>2. /\ k # l => handler'[k] = handler[k]
        /\ k = l => handler'[k].pc = "invalidate" /\ HandlerKeeps(k) /\ handler'[k].hits = found
    <3> HIDE DEF found
    <3> QED BY <1>0, <2>1 DEF HandlerType, HandlerKeeps
  <2>3. CASE k = l
    BY <1>10, <2>2, <2>3 DEF HandlerMove
  <2> QED BY <2>2, <2>3 DEF HandlerMove
<1>11. ASSUME NEW l \in Kind, NEW c \in Change, RecordInvalidation(l, c) PROVE HandlerMove(k)
  <2>1. /\ k # l => handler'[k] = handler[k]
        /\ k = l => /\ handler'[k].pc = "invalidate" /\ HandlerKeeps(k)
                    /\ handler'[k].hits = handler[k].hits \ {c}
    BY <1>0, <1>11 DEF RecordInvalidation, HandlerType, HandlerKeeps
  <2> QED BY <1>11, <2>1 DEF HandlerMove
<1>12. ASSUME NEW l \in Kind, EndInvalidation(l) PROVE HandlerMove(k)
  <2>1. handler'[l] = (IF l = "refresh" THEN [handler[l] EXCEPT !.pc = "store"] ELSE IdleHandler)
        /\ (k # l => handler'[k] = handler[k])
    BY <1>0, <1>12 DEF EndInvalidation
  <2> QED BY <1>0, <1>12, <2>1 DEF HandlerMove, HandlerKeeps, HandlerType
<1>13. ASSUME Crash PROVE HandlerMove(k)
  BY <1>13 DEF Crash, HandlerMove
<1>14. CASE UNCHANGED handler
  BY <1>14 DEF HandlerMove
<1> QED
  BY <1>1, <1>2, <1>3, <1>4, <1>5, <1>6, <1>7, <1>8, <1>9, <1>10, <1>11, <1>12, <1>13, <1>14,
     MovesHandler

\* A package whose change is settled stays so.
LEMMA PackageStays ==
  ASSUME TypeOK, ProposalsKnown, [Next]_vars, NEW h \in HandoffType, PackageSettled(h)
  PROVE  h.change # None => LET r == origin'[h.change].run
                            IN /\ r \in Run /\ run'[r].pc = "done" /\ run'[r].mine = h.change
                               /\ run'[r].made.design = h.baseline.design
<1> SUFFICES ASSUME h.change # None
             PROVE  LET r == origin'[h.change].run
                    IN /\ r \in Run /\ run'[r].pc = "done" /\ run'[r].mine = h.change
                       /\ run'[r].made.design = h.baseline.design
  OBVIOUS
<1>1. h.change \in Change /\ Settled(h.change, h.baseline.design)
  BY DEF HandoffType, Chosen, PackageSettled
<1>2. PICK c \in Change : c = h.change
  BY <1>1
<1>3. PICK d : d = h.baseline.design
  OBVIOUS
<1>4. Settled(c, d)
  BY <1>1, <1>2, <1>3
<1>5. Settled(c, d)'
  BY <1>4, SettledStays
<1> QED BY <1>2, <1>3, <1>5 DEF Settled

\* The hand-off, and what is read of it to be written back, name settled work.
LEMMA HandoffSettledStep ==
  ASSUME TypeOK, ProposalsKnown, HandoffSettled, [Next]_vars
  PROVE  HandoffSettled'
<1>0. /\ handoff \in HandoffType
      /\ \A r \in Run : run[r] \in RunType /\ run[r].previous \in HandoffType
      /\ handler["refresh"] \in HandlerType /\ handler["refresh"].previous \in HandoffType
  BY DEF TypeOK, DesignsOK, RunsOK, RunType, HandlersOK, HandlerType, Kind
<1>1. PackageSettled(handoff)'
  <2>1. CASE UNCHANGED handoff
    BY <1>0, <2>1, PackageStays DEF PackageSettled, HandoffSettled, Settled
  <2>2. ASSUME NEW r \in Run, WriteHandoff(r) PROVE PackageSettled(handoff)'
    <3>1. PackageSettled(run[r].previous)
      BY <2>2 DEF WriteHandoff, HandoffSettled
    <3>2. run'[r] = Ended(run[r]) /\ origin' = origin
      BY <2>2, <1>0 DEF WriteHandoff, EndRun, records, TypeOK, RunsOK
    <3>3. run'[r].pc = "done" /\ run'[r].mine = run[r].mine /\ run'[r].made = run[r].made
      BY <3>2 DEF Ended, IdleRun
    <3>4. handoff'.baseline = run[r].made
          /\ (handoff'.change = run[r].mine
              \/ (handoff'.change = run[r].previous.change
                  /\ run[r].previous.baseline.design = run[r].made.design))
      BY <2>2 DEF WriteHandoff, Package
    <3>5. CASE handoff'.change = run[r].mine
      BY <3>2, <3>3, <3>4, <3>5 DEF PackageSettled, Settled, ProposalsKnown
    <3>6. CASE handoff'.change = run[r].previous.change
               /\ run[r].previous.baseline.design = run[r].made.design
      BY <1>0, <3>1, <3>4, <3>6, PackageStays DEF PackageSettled, Settled
    <3> QED BY <3>4, <3>5, <3>6
  <2>3. ASSUME NEW k \in Kind, FlagHandoff(k) PROVE PackageSettled(handoff)'
    <3>1. handoff'.change = handoff.change /\ handoff'.baseline.design = handoff.baseline.design
      BY <1>0, <2>3 DEF FlagHandoff, HandoffType, BaselineType
    <3> QED BY <1>0, <3>1, PackageStays DEF PackageSettled, HandoffSettled, Settled
  <2>4. ASSUME WriteRefreshedHandoff PROVE PackageSettled(handoff)'
    <3>1. PackageSettled(handler["refresh"].previous)
      BY <2>4 DEF WriteRefreshedHandoff, HandoffSettled
    <3>2. handoff'.baseline = handler["refresh"].base
          /\ (handoff'.change = None
              \/ (handoff'.change = handler["refresh"].previous.change
                  /\ handler["refresh"].previous.baseline.design = handler["refresh"].base.design))
      BY <2>4 DEF WriteRefreshedHandoff, Package
    <3> QED BY <1>0, <3>1, <3>2, PackageStays DEF PackageSettled, Settled
  <2> QED BY <2>1, <2>2, <2>3, <2>4, MovesHandoff
<1>2. ASSUME NEW r \in Run, run'[r].pc = "writing" PROVE PackageSettled(run[r].previous)'
  <2>1. \/ run'[r] = run[r]
        \/ run'[r].previous = handoff
    BY <1>2, RunMoves DEF RunMove
  <2>2. CASE run'[r] = run[r]
    BY <1>0, <1>2, <2>2, PackageStays DEF PackageSettled, HandoffSettled, Settled
  <2>3. CASE run'[r].previous = handoff
    BY <1>0, <2>3, PackageStays DEF PackageSettled, HandoffSettled, Settled
  <2> QED BY <2>1, <2>2, <2>3
<1>3. ASSUME handler'["refresh"].pc = "write" PROVE PackageSettled(handler["refresh"].previous)'
  <2>1. HandlerMove("refresh")
    BY HandlerMoves DEF Kind
  <2>2. \/ handler'["refresh"] = handler["refresh"]
        \/ handler'["refresh"].previous = handoff
    BY <1>3, <2>1 DEF HandlerMove, IdleHandler
  <2>3. CASE handler'["refresh"].previous = handoff
    BY <1>0, <2>3, PackageStays DEF PackageSettled, HandoffSettled, Settled
  <2>4. CASE handler'["refresh"] = handler["refresh"]
    BY <1>0, <1>3, <2>4, PackageStays DEF PackageSettled, HandoffSettled, Settled
  <2> QED BY <1>3, <2>2, <2>3, <2>4
<1> QED BY <1>1, <1>2, <1>3 DEF HandoffSettled

\* Approvals name settled work.
LEMMA ApprovalsSettledStep ==
  ASSUME TypeOK, BindingInv, [Next]_vars
  PROVE  ApprovalsSettled'
<1> SUFFICES ASSUME NEW c \in Change, change'[c].status = "approved", change'[c].design # 0
             PROVE  Settled(c, change[c].design)'
  BY DEF ApprovalsSettled
<1>0. change[c] \in ChangeType
  BY DEF TypeOK, ChangesOK
<1>1. CASE change[c].status = "approved" /\ change'[c].design = change[c].design
  <2>1. PICK d : d = change[c].design
    OBVIOUS
  <2>2. Settled(c, d)
    BY <1>1, <2>1 DEF BindingInv, ApprovalsSettled
  <2>3. Settled(c, d)'
    BY <2>2, SettledStays DEF BindingInv
  <2> QED BY <1>1, <2>1, <2>3 DEF Settled
<1>2. ASSUME NEW a \in Approver, ApproveChange(a), request[a].chosen = c
      PROVE  Settled(c, change[c].design)'
  <2>1. change'[c].design = handoff.baseline.design
    BY <1>2, <1>0 DEF ApproveChange, TypeOK, ChangesOK, ChangeType
  <2>2. handoff # NoHandoff
    BY <2>1 DEF NoHandoff, NoBaseline
  <2>3. handoff.change = c /\ c # None
    BY <1>2, <2>2, NoneAssumption DEF ApproveChange, Bindable
  <2>4. PackageSettled(handoff) /\ handoff \in HandoffType /\ ProposalsKnown
    BY DEF BindingInv, HandoffSettled, TypeOK, DesignsOK
  <2> QED BY <2>1, <2>3, <2>4, PackageStays DEF Settled
<1>3. ASSUME NEW a \in Approver, ApproveChange(a), request[a].chosen # c
      PROVE  change'[c] = change[c]
  BY <1>3 DEF ApproveChange, TypeOK, ChangesOK
<1>4. ASSUME NEW a \in Approver, RejectChange(a) PROVE change'[c] = change[c]
  BY <1>0, <1>4 DEF RejectChange, TypeOK, ChangesOK, ChangeType
<1>5. ASSUME NEW d \in Change, RecordApplied(d) \/ Expire(d)
      PROVE  change[c].status = "approved" /\ change'[c].design = change[c].design
  BY <1>0, <1>5 DEF RecordApplied, Expire, TypeOK, ChangesOK, ChangeType
<1>6. ASSUME NEW r \in Run, NEW d \in Change, ProposeChange(r, d)
      PROVE  change[c].status = "approved" /\ change'[c].design = change[c].design
  BY <1>0, <1>6 DEF ProposeChange, TypeOK, ChangesOK, ChangeType
<1>7. ASSUME NEW k \in Kind, NEW d \in Change, RecordInvalidation(k, d)
      PROVE  change[c].status = "approved" /\ change'[c].design = change[c].design
  BY <1>0, <1>7 DEF RecordInvalidation, TypeOK, ChangesOK, ChangeType
<1> QED BY <1>1, <1>2, <1>3, <1>4, <1>5, <1>6, <1>7, MovesChange

\* The binding invariant holds at the start.
LEMMA BindingInit == Init => BindingInv
  BY DEF Init, BindingInv, ProposalsKnown, HandoffSettled, ApprovalsSettled, PackageSettled,
     NotProposed, NoHandoff, IdleRun, IdleHandler, Kind

\* An approval is bound to the design whose run proposed the change, whatever
\* evidence changes meanwhile, in every behaviour without two open runs.
THEOREM ApprovalsAreBound == Spec /\ []RunsAlone => []BoundToItsDesign
<1>1. TypeOK /\ RunsAlone /\ BindingInv /\ [Next]_vars => BindingInv'
  BY ProposalsKnownStep, HandoffSettledStep, ApprovalsSettledStep DEF BindingInv
<1>2. BindingInv => BoundToItsDesign
  BY DEF BindingInv, ApprovalsSettled, Settled, BoundToItsDesign
<1> QED BY TypeCorrect, BindingInit, <1>1, <1>2, PTL DEF Spec

(***************************************************************************)
(* Evidence reaches the work that was there, however runs, approvals and   *)
(* handlers interleave: standing work on older evidence is still ahead of  *)
(* the handler that will find it (StillAhead).                             *)
(***************************************************************************)

\* Only an approval binds a change to a design; proposals follow the story's
\* approval.
BoundByApproval ==
    /\ \A c \in Change : change[c].status \in {"none", "pending"} => change[c].design = 0
    /\ story = "BACKLOG_READY" => \A c \in Change : change[c].status = "none"

Ahead(k, c) ==
    \/ handler[k].pc \in {"copy", "flag", "flagHandoff", "list"}
    \/ handler[k].pc = "invalidate" /\ c \in handler[k].hits

StillAhead ==
    \A c \in Change : Standing(c) =>
        /\ change[c].design # 0 /\ origin[c].artifact # artifact => Ahead("upload", c)
        /\ story = "APPROVED" /\ origin[c].text # text => Ahead("revise", c)

EvidenceInv == BoundByApproval /\ (~cut => StillAhead)

\* Only an upload makes a new revision of the artifact, and only a refinement
\* one of the text; a story is approved once; a restart alone sets cut.
LEMMA MovesEvidence == [Next]_vars =>
    /\ artifact' = artifact \/ Upload
    /\ text' = text \/ ReviseStory
    /\ story' = "APPROVED" => story = "APPROVED" \/ ApproveStory
    /\ story' = "BACKLOG_READY" => story = "BACKLOG_READY"
    /\ cut' = cut \/ Crash
  BY DEF Next, RunStep, EvidenceStep, PersonStep, OutsideStep, vars, records, designs,
     authority, bounds, ApproveStory, RejectStory, StartRun, ResolveWithoutChange, CompleteRun,
     FailRun, StoreBaseline, ReadHandoff, WriteHandoff, ProposeChange, Upload, ReviseStory,
     RecordStoryRevision, StartRefresh, StoreRefreshed, ReadRefreshedHandoff,
     WriteRefreshedHandoff, FlagBaseline, FlagHandoff, ListAffected, EndInvalidation,
     RecordInvalidation, View, Press, ApproveChange, RefuseApproval, RejectChange, Dispatch,
     RecordApplied, RecordNothing, SaveScope, Crash, Expire, ChangeRoles, Event

\* A step that leaves cut unset found it unset and cut nothing short.
LEMMA NothingCut ==
  ASSUME TypeOK, [Next]_vars, ~cut'
  PROVE  ~cut /\ (Crash => ~HandingOver /\ \A k \in Kind : ~HandlerOpen(k))
<1>1. cut \in BOOLEAN
  BY DEF TypeOK, ScalarsOK
<1> QED BY <1>1, MovesEvidence DEF Crash

\* Changes stay unbound until they are approved.
LEMMA BoundByApprovalStep == ASSUME TypeOK, BoundByApproval, [Next]_vars PROVE BoundByApproval'
<1>1. ASSUME NEW c \in Change
      PROVE  /\ change'[c].status \in {"none", "pending"} => change'[c].design = 0
             /\ story = "BACKLOG_READY" => change'[c].status = "none"
  <2> DEFINE Good == /\ change'[c].status \in {"none", "pending"} => change'[c].design = 0
                     /\ story = "BACKLOG_READY" => change'[c].status = "none"
  <2>0. change[c] \in ChangeType /\ change \in [Change -> ChangeType]
    BY DEF TypeOK, ChangesOK
  <2>1. CASE change'[c] = change[c]
    BY <2>1 DEF BoundByApproval
  <2>2. ASSUME NEW a \in Approver, ApproveChange(a) PROVE Good
    <3>1. story # "BACKLOG_READY"
      BY <2>2 DEF ApproveChange, BoundByApproval, TypeOK, RequestsOK
    <3>2. CASE request[a].chosen = c
      BY <2>0, <2>2, <3>1, <3>2 DEF ApproveChange, ChangeType
    <3>3. CASE request[a].chosen # c
      BY <2>0, <2>1, <2>2, <3>3 DEF ApproveChange
    <3> QED BY <3>2, <3>3
  <2>3. ASSUME NEW a \in Approver, RejectChange(a) PROVE Good
    <3>1. story # "BACKLOG_READY"
      BY <2>3 DEF RejectChange, BoundByApproval, TypeOK, RequestsOK
    <3>2. CASE request[a].chosen = c
      BY <2>0, <2>3, <3>1, <3>2 DEF RejectChange, ChangeType
    <3>3. CASE request[a].chosen # c
      BY <2>0, <2>1, <2>3, <3>3 DEF RejectChange
    <3> QED BY <3>2, <3>3
  <2>4. ASSUME NEW d \in Change, RecordApplied(d) \/ Expire(d) PROVE Good
    BY <2>0, <2>4 DEF RecordApplied, Expire, ChangeType, BoundByApproval
  <2>5. ASSUME NEW r \in Run, NEW d \in Change, ProposeChange(r, d) PROVE Good
    BY <2>0, <2>5 DEF ProposeChange, ChangeType, BoundByApproval
  <2>6. ASSUME NEW k \in Kind, NEW d \in Change, RecordInvalidation(k, d) PROVE Good
    BY <2>0, <2>6 DEF RecordInvalidation, ChangeType, BoundByApproval
  <2> QED BY <2>1, <2>2, <2>3, <2>4, <2>5, <2>6, MovesChange
<1> QED BY <1>1, MovesEvidence DEF BoundByApproval

\* Standing work stood before, unless it is proposed in this very step.
LEMMA StoodBefore ==
  ASSUME TypeOK, [Next]_vars, NEW c \in Change, Standing(c)'
  PROVE  \/ \E r \in Run : ProposeChange(r, c)
         \/ /\ Standing(c)
            /\ \/ change'[c].design = change[c].design
               \/ \E a \in Approver : ApproveChange(a) /\ request[a].chosen = c
<1> DEFINE Before == /\ Standing(c)
                     /\ \/ change'[c].design = change[c].design
                        \/ \E a \in Approver : ApproveChange(a) /\ request[a].chosen = c
<1>0. change[c] \in ChangeType /\ change \in [Change -> ChangeType]
  BY DEF TypeOK, ChangesOK
<1>1. ASSUME change'[c] = change[c] PROVE Before
  BY <1>1 DEF Standing, Live
<1>2. ASSUME NEW a \in Approver, ApproveChange(a), request[a].chosen = c PROVE Before
  <2>1. change[c].status = "pending" /\ change'[c].invalid = change[c].invalid
        /\ change'[c].applied = change[c].applied
    BY <1>0, <1>2 DEF ApproveChange, ChangeType
  <2> QED BY <1>2, <2>1 DEF Standing, Live
<1>3. ASSUME NEW a \in Approver, ApproveChange(a), request[a].chosen # c PROVE Before
  <2>1. change'[c] = change[c]
    BY <1>0, <1>3 DEF ApproveChange
  <2> QED BY <2>1, <1>1
<1>4. ASSUME NEW a \in Approver, RejectChange(a) PROVE Before
  <2>1. change'[c] = change[c]
    BY <1>0, <1>4 DEF RejectChange, Standing, Live, ChangeType
  <2> QED BY <2>1, <1>1
<1>5. ASSUME NEW d \in Change, RecordApplied(d) \/ Expire(d) PROVE Before
  BY <1>0, <1>5 DEF RecordApplied, Expire, Standing, Live, ChangeType
<1>6. ASSUME NEW k \in Kind, NEW d \in Change, RecordInvalidation(k, d) PROVE Before
  BY <1>0, <1>6 DEF RecordInvalidation, Standing, Live, ChangeType
<1>7. ASSUME NEW r \in Run, NEW d \in Change, d # c, ProposeChange(r, d) PROVE Before
  <2>1. change'[c] = change[c]
    BY <1>0, <1>7 DEF ProposeChange
  <2> QED BY <2>1, <1>1
<1> HIDE DEF Before
<1>8. (\E r \in Run : ProposeChange(r, c)) \/ Before
  BY <1>1, <1>2, <1>3, <1>4, <1>5, <1>6, <1>7, MovesChange DEF Before
<1> QED BY <1>8 DEF Before

\* Work a handler has still to look at is not passed over: the list it makes
\* holds the work, and it ends when every entry has been recorded.
LEMMA AheadStays ==
  ASSUME TypeOK, [Next]_vars, ~cut', NEW c \in Change, Standing(c), Standing(c)',
         NEW k \in {"upload", "revise"}, Ahead(k, c),
         k = "upload" => change[c].design # 0, k = "revise" => story = "APPROVED"
  PROVE  Ahead(k, c)'
<1>0. k \in Kind /\ k # "refresh" /\ HandlerMove(k)
  BY HandlerMoves DEF Kind
<1>1. ~Crash
  BY <1>0, NothingCut DEF HandlerOpen, Ahead
<1>2. ~EndInvalidation(k)
  BY DEF EndInvalidation, Ahead
<1>3. Affected(k, c)
  BY <1>0 DEF Affected, Standing
<1>4. ASSUME ListAffected(k), handler'[k].pc = "invalidate",
             handler'[k].hits = {d \in Change : Affected(k, d)}
      PROVE  Ahead(k, c)'
  BY <1>3, <1>4 DEF Ahead
<1>5. ASSUME NEW d \in Change, RecordInvalidation(k, d), handler'[k].pc = "invalidate",
             handler'[k].hits = handler[k].hits \ {d}
      PROVE  Ahead(k, c)'
  <2>1. handler[k].pc = "invalidate" /\ c \in handler[k].hits
    BY <1>5 DEF RecordInvalidation, Ahead
  <2>2. d # c
    BY <1>5 DEF RecordInvalidation, Standing, TypeOK, ChangesOK, ChangeType
  <2> QED BY <1>5, <2>1, <2>2 DEF Ahead
<1> QED BY <1>0, <1>1, <1>2, <1>4, <1>5 DEF HandlerMove, Ahead

\* An approval given before an upload is still ahead of the upload's handler.
LEMMA UploadStillAhead ==
  ASSUME TypeOK, BoundByApproval, StillAhead, [Next]_vars, ~cut',
         NEW c \in Change, Standing(c)', change'[c].design # 0, origin'[c].artifact # artifact'
  PROVE  Ahead("upload", c)'
<1>0. change[c] \in ChangeType /\ "upload" \in {"upload", "revise"} /\ "upload" # "revise"
  BY DEF TypeOK, ChangesOK
<1>1. CASE Upload
  BY <1>1 DEF Upload, Ahead, TypeOK, HandlersOK, HandlerType, Kind
<1>2. CASE ~Upload
  <2>0. artifact' = artifact
    BY <1>2, MovesEvidence
  <2>1. ASSUME NEW r \in Run, ProposeChange(r, c) PROVE FALSE
    <3>1. change[c].design = 0
      BY <2>1 DEF ProposeChange, BoundByApproval
    <3> QED BY <1>0, <2>1, <3>1 DEF ProposeChange, TypeOK, ChangesOK, ChangeType
  <2>2. ASSUME NEW a \in Approver, ApproveChange(a), request[a].chosen = c PROVE FALSE
    BY <2>0, <2>2 DEF ApproveChange, TypeOK, ProposalsOK
  <2>3. Standing(c) /\ change[c].design # 0 /\ origin'[c].artifact = origin[c].artifact
    BY <2>1, <2>2, StoodBefore, OriginFixed DEF Standing, Live
  <2>4. Ahead("upload", c)
    BY <2>0, <2>3 DEF StillAhead
  <2> QED BY <1>0, <2>3, <2>4, AheadStays
<1> QED BY <1>1, <1>2

\* Work on an older story text is still ahead of the refinement's handler.
LEMMA RevisionStillAhead ==
  ASSUME TypeOK, BoundByApproval, StillAhead, [Next]_vars, ~cut',
         NEW c \in Change, Standing(c)', story' = "APPROVED", origin'[c].text # text'
  PROVE  Ahead("revise", c)'
<1>1. CASE ReviseStory
  BY <1>1 DEF ReviseStory, Ahead, TypeOK, HandlersOK, HandlerType, Kind
<1>2. CASE ~ReviseStory
  <2>0. text' = text
    BY <1>2, MovesEvidence
  <2>1. ASSUME NEW r \in Run, ProposeChange(r, c) PROVE FALSE
    BY <2>0, <2>1 DEF ProposeChange, TypeOK, ProposalsOK
  <2>2. Standing(c)
    BY <2>1, StoodBefore
  <2>3. origin'[c].text = origin[c].text
    BY <2>2, OriginFixed DEF Standing, Live
  <2>4. story = "APPROVED"
    BY <2>2, MovesEvidence DEF ApproveStory, BoundByApproval, Standing, Live
  <2>5. Ahead("revise", c)
    BY <2>0, <2>2, <2>3, <2>4 DEF StillAhead
  <2>6. "revise" \in {"upload", "revise"} /\ "revise" # "upload"
    OBVIOUS
  <2> QED BY <2>2, <2>4, <2>5, <2>6, AheadStays
<1> QED BY <1>1, <1>2

\* What evidence changes leave behind keeps its invariant.
LEMMA EvidenceStepKept == TypeOK /\ EvidenceInv /\ [Next]_vars => EvidenceInv'
<1> SUFFICES ASSUME TypeOK, EvidenceInv, [Next]_vars PROVE EvidenceInv'
  OBVIOUS
<1>1. BoundByApproval /\ BoundByApproval'
  BY BoundByApprovalStep DEF EvidenceInv
<1>2. ASSUME ~cut' PROVE StillAhead'
  <2>1. StillAhead
    BY <1>2, NothingCut DEF EvidenceInv
  <2> QED BY <1>1, <1>2, <2>1, UploadStillAhead, RevisionStillAhead DEF StillAhead
<1> QED BY <1>1, <1>2 DEF EvidenceInv

\* It holds at the start, where nothing has been proposed.
LEMMA EvidenceInit == Init => EvidenceInv
  BY DEF Init, NotProposed, EvidenceInv, BoundByApproval, StillAhead, Standing, Live

\* Once the handlers have ended, no approval given before an upload and no work
\* on an older story text stands, whatever ran in between; the property itself
\* excludes a handler cut short.
THEOREM EvidenceReachesWork == Spec => []EvidenceReaches
<1>1. EvidenceInv => EvidenceReaches
  <2>1. ASSUME EvidenceInv, EvidenceSettled, NEW c \in Change, Standing(c)
        PROVE  /\ change[c].design # 0 => origin[c].artifact = artifact
               /\ story = "APPROVED" => origin[c].text = text
    <3>1. ~cut /\ ~Ahead("upload", c) /\ ~Ahead("revise", c)
      BY <2>1 DEF EvidenceSettled, HandlerOpen, Ahead, Kind
    <3> QED BY <2>1, <3>1 DEF EvidenceInv, StillAhead
  <2> QED BY <2>1 DEF EvidenceReaches
<1> QED BY TypeCorrect, EvidenceInit, EvidenceStepKept, <1>1, PTL DEF Spec
=============================================================================
