-------------------------- MODULE AgentRuns_proofs --------------------------
(***************************************************************************)
(* What holds of an agent's runs for every number of runs, models, keys,   *)
(* packs' contents and changes by Admins.                                  *)
(*                                                                         *)
(* Whoever works with the connection has a copy of its row, from the       *)
(* moment it was read.  Revisions only count up and a change of the model  *)
(* or of the key takes a new one, so a copy with the row's own revision    *)
(* has the row's model, one with its key revision the row's key (Fits).    *)
(* A published revision of a pack is never written again (GivenStays), a   *)
(* version of the context neither (ToldStays).                             *)
(***************************************************************************)
EXTENDS AgentRuns, SequenceTheorems, TLAPS

RowType == [revision : Nat, model : Model, enabled : BOOLEAN, key : Key \cup {"none"}, cred : Nat,
            stored : BOOLEAN]
AskedType == [revision : Nat, cred : Nat, model : Model, key : Key \cup {"none"}]
ResultType == [ok : BOOLEAN, revision : Nat, cred : Nat, model : Model, key : Key \cup {"none"}]
RevisionType == [status : {"draft", "published"}, text : Text]
TaskPc == {"none", "accepted", "resolved", "prepared", "built", "packaged", "running", "over"}
TaskType == [pc : TaskPc, read : Read]
RecordStatus == {"none", "blocked", "running", "completed", "failed"}
RecordType == [status : RecordStatus, read : Read]

\* A copy of the connection's row, made now or earlier.
Fits(copy) ==
    /\ copy.revision <= connection.revision
    /\ copy.cred <= connection.cred
    /\ copy.revision = connection.revision => copy.model = connection.model
    /\ copy.cred = connection.cred => copy.key = connection.key

CopiesInv ==
    /\ Fits(Unread) /\ Fits(lastTest) /\ Fits(test.on)
    /\ \A s \in Slot : Fits(task[s].read) /\ Fits(record[s].read)

Given(read) ==
    /\ Published(read.pack, read.packRevision)
    /\ revisions[read.pack][read.packRevision].text = read.text

Told(read) == read.version \in DOMAIN contexts /\ contexts[read.version] = read.content

TasksInv ==
    \A s \in Slot :
        /\ task[s].pc \in {"prepared", "built", "packaged", "running"} => Given(task[s].read)
        /\ task[s].pc = "built" => task[s].read.content \in Content
        /\ task[s].pc \in {"packaged", "running"} => Told(task[s].read)
        /\ task[s].pc = "running" => record[s].status = "running"

RecordsInv ==
    \A s \in Slot : record[s].status \in {"running", "completed", "failed"} =>
        Given(record[s].read) /\ Told(record[s].read)

IInv == TypeOK /\ CopiesInv /\ TasksInv /\ RecordsInv

LEMMA Constants ==
    /\ NoKey \in RowType /\ FirstKey \in RowType
    /\ Unread \in Read
    /\ Untested \in ResultType
    /\ NoTest \in [pc : {"idle", "asked"}, on : AskedType]
    /\ NoTask \in TaskType /\ Over \in TaskType /\ NoRecord \in RecordType
<1>1. NoKey \in RowType
  BY RunsAssumption DEF NoKey, RowType
<1>2. FirstKey \in RowType
  <2>1. (CHOOSE k \in Key : TRUE) \in Key
    BY RunsAssumption
  <2> QED BY <1>1, <2>1 DEF FirstKey, RowType
<1>3. Unread \in Read
  BY RunsAssumption DEF Unread, Read, Pack
<1>4. Untested \in ResultType
  BY RunsAssumption DEF Untested, ResultType
<1>5. NoTest \in [pc : {"idle", "asked"}, on : AskedType]
  BY RunsAssumption DEF NoTest, Asked, NoKey, AskedType
<1>6. NoTask \in TaskType /\ Over \in TaskType /\ NoRecord \in RecordType
  BY <1>3 DEF NoTask, Over, NoRecord, TaskType, TaskPc, RecordType, RecordStatus
<1> QED BY <1>1, <1>2, <1>3, <1>4, <1>5, <1>6

LEMMA Types ==
    TypeOK <=>
        /\ connection \in RowType /\ lastTest \in ResultType
        /\ test \in [pc : {"idle", "asked"}, on : AskedType]
        /\ revisions \in [Pack -> Seq(RevisionType)] /\ revisions[Template] # <<>>
        /\ disabled \in BOOLEAN /\ switchedOn \in BOOLEAN
        /\ assigned \in [pack : Pack, revision : Nat]
        /\ story \in Content /\ contexts \in Seq(Content)
        /\ task \in [Slot -> TaskType] /\ record \in [Slot -> RecordType]
        /\ events \in 0 .. MaxEvents
  BY DEF TypeOK, RowType, ResultType, AskedType, RevisionType, TaskType, TaskPc, RecordType, RecordStatus

LEMMA TypesNext ==
    /\ (connection \in RowType)' /\ (lastTest \in ResultType)'
    /\ (test \in [pc : {"idle", "asked"}, on : AskedType])'
    /\ (revisions \in [Pack -> Seq(RevisionType)])' /\ (revisions[Template] # <<>>)'
    /\ (disabled \in BOOLEAN)' /\ (switchedOn \in BOOLEAN)'
    /\ (assigned \in [pack : Pack, revision : Nat])'
    /\ (story \in Content)' /\ (contexts \in Seq(Content))'
    /\ (task \in [Slot -> TaskType])' /\ (record \in [Slot -> RecordType])'
    /\ (events \in 0 .. MaxEvents)'
    => TypeOK'
  BY DEF TypeOK, RowType, ResultType, AskedType, RevisionType, TaskType, TaskPc, RecordType, RecordStatus

LEMMA InvInit == Init => IInv
<1> SUFFICES ASSUME Init PROVE IInv
  OBVIOUS
<1>1. TypeOK
  <2>1. connection \in RowType /\ lastTest \in ResultType /\ test \in [pc : {"idle", "asked"}, on : AskedType]
    BY Constants DEF Init
  <2>2. revisions \in [Pack -> Seq(RevisionType)] /\ revisions[Template] # <<>>
    <3>1. [status |-> "published", text |-> Shipped] \in RevisionType
      BY RunsAssumption DEF RevisionType
    <3> DEFINE one == <<[status |-> "published", text |-> Shipped]>>
    <3>2. one \in Seq(RevisionType) /\ one # <<>> /\ <<>> \in Seq(RevisionType)
      BY <3>1
    <3>3. \E begun \in BOOLEAN : revisions = [p \in Pack |-> IF p = Template \/ begun THEN one ELSE <<>>]
      BY DEF Init
    <3> HIDE DEF one
    <3> QED BY <3>2, <3>3 DEF Pack
  <2>3. assigned \in [pack : Pack, revision : Nat]
    BY DEF Init, Pack
  <2>4. story \in Content
    BY RunsAssumption DEF Init
  <2>5. task \in [Slot -> TaskType] /\ record \in [Slot -> RecordType]
    BY Constants DEF Init
  <2>6. disabled \in BOOLEAN /\ switchedOn \in BOOLEAN
    BY DEF Init
  <2>7. contexts \in Seq(Content) /\ events \in 0 .. MaxEvents
    BY RunsAssumption DEF Init
  <2> QED BY <2>1, <2>2, <2>3, <2>4, <2>5, <2>6, <2>7, Types
<1>2. CopiesInv
  <2>1. Fits(Unread)
    BY DEF Init, Fits, Unread, NoKey, FirstKey
  <2>2. Fits(lastTest)
    BY DEF Init, Fits, Untested, NoKey, FirstKey
  <2>3. Fits(test.on)
    BY DEF Init, Fits, NoTest, Asked, NoKey, FirstKey
  <2>4. \A s \in Slot : task[s].read = Unread /\ record[s].read = Unread
    BY DEF Init, NoTask, NoRecord
  <2> QED BY <2>1, <2>2, <2>3, <2>4 DEF CopiesInv
<1>3. TasksInv /\ RecordsInv
  BY DEF Init, TasksInv, RecordsInv, NoTask, NoRecord
<1> QED BY <1>1, <1>2, <1>3 DEF IInv

-----------------------------------------------------------------------------
(* Types.                                                                  *)

SettingsStep ==
    \/ \E m \in Model, on \in BOOLEAN : Save(m, on)
    \/ \E k \in Key : SaveCredential(k)
    \/ RevokeCredential \/ AskTest \/ \E ok \in BOOLEAN : RecordTest(ok)

PacksStep ==
    \/ \E p \in Pack : \E n \in DOMAIN revisions[p] : CreatePack(p, n) \/ Assign(p, n)
    \/ \E x \in Text : SaveDraft(x)
    \/ \E n \in DOMAIN revisions[Own] : Publish(n)
    \/ Unassign \/ SetDisabled

LEMMA AdminSteps == AdminStep <=> SettingsStep \/ PacksStep \/ SetSwitch \/ \E c \in Content : StoryMoves(c)
  BY DEF AdminStep, SettingsStep, PacksStep

LEMMA Counted == ASSUME TypeOK, Happens PROVE events' \in 0 .. MaxEvents
  BY RunsAssumption DEF Happens, TypeOK

LEMMA SettingsTyped ==
    ASSUME TypeOK, SettingsStep
    PROVE  /\ connection' \in RowType /\ lastTest' \in ResultType
           /\ test' \in [pc : {"idle", "asked"}, on : AskedType]
           /\ events' \in 0 .. MaxEvents
           /\ UNCHANGED <<packs, told, switchedOn, runs>>
<1>t. /\ connection \in RowType /\ lastTest \in ResultType
      /\ test \in [pc : {"idle", "asked"}, on : AskedType] /\ events \in 0 .. MaxEvents
  BY Types
<1>1. ASSUME NEW m \in Model, NEW on \in BOOLEAN, Save(m, on) PROVE connection' \in RowType
  <2>1. connection.revision + 1 \in Nat
    BY <1>t DEF RowType
  <2>2. PICK revision \in Nat :
            connection' = [connection EXCEPT !.revision = revision, !.model = m, !.enabled = on]
    BY <1>1, <2>1 DEF Save
  <2> QED BY <1>t, <2>2 DEF RowType
<1>2. ASSUME NEW k \in Key, SaveCredential(k) PROVE connection' \in RowType
  <2>1. connection.cred + 1 \in Nat /\ connection.revision \in Nat /\ connection.enabled \in BOOLEAN
    BY <1>t DEF RowType
  <2>2. PICK cred \in Nat, revision \in Nat, enabled \in BOOLEAN :
            connection' = [connection EXCEPT !.key = k, !.stored = TRUE, !.cred = cred,
                                             !.revision = revision, !.enabled = enabled]
    BY <1>2, <2>1 DEF SaveCredential
  <2> QED BY <1>t, <2>2 DEF RowType
<1>3. ASSUME RevokeCredential PROVE connection' \in RowType
  BY <1>t, <1>3 DEF RevokeCredential, RowType
<1>4. ASSUME AskTest PROVE test' \in [pc : {"idle", "asked"}, on : AskedType]
  <2>1. Asked(connection) \in AskedType
    BY <1>t DEF Asked, RowType, AskedType
  <2> QED BY <1>4, <2>1 DEF AskTest
<1>5. ASSUME NEW ok \in BOOLEAN, RecordTest(ok)
      PROVE  lastTest' \in ResultType /\ test' \in [pc : {"idle", "asked"}, on : AskedType]
  <2>1. TestResult(ok, test.on) \in ResultType
    BY <1>t DEF TestResult, AskedType, ResultType
  <2> QED BY <1>5, <2>1, Constants DEF RecordTest
<1>6. events' \in 0 .. MaxEvents
  BY <1>t, Counted DEF SettingsStep, Save, SaveCredential, RevokeCredential, AskTest, RecordTest
<1>7. UNCHANGED <<packs, told, switchedOn, runs>>
  BY DEF SettingsStep, Save, SaveCredential, RevokeCredential, AskTest, RecordTest
<1>8. CASE \/ \E m \in Model, on \in BOOLEAN : Save(m, on)
           \/ \E k \in Key : SaveCredential(k)
           \/ RevokeCredential
  BY <1>t, <1>1, <1>2, <1>3, <1>6, <1>7, <1>8 DEF Save, SaveCredential, RevokeCredential
<1>9. CASE AskTest \/ \E ok \in BOOLEAN : RecordTest(ok)
  BY <1>t, <1>4, <1>5, <1>6, <1>7, <1>9 DEF AskTest, RecordTest
<1> QED BY <1>8, <1>9 DEF SettingsStep

\* What a step does to the packs: nothing that is published is written.
LEMMA PacksTyped ==
    ASSUME TypeOK, PacksStep
    PROVE  /\ revisions' \in [Pack -> Seq(RevisionType)] /\ revisions'[Template] = revisions[Template]
           /\ \A n \in DOMAIN revisions[Own] : revisions[Own][n].status = "published" =>
                 n \in DOMAIN revisions'[Own] /\ revisions'[Own][n] = revisions[Own][n]
           /\ disabled' \in BOOLEAN /\ assigned' \in [pack : Pack, revision : Nat]
           /\ events' \in 0 .. MaxEvents
           /\ UNCHANGED <<settings, told, switchedOn, runs>>
<1>t. /\ revisions \in [Pack -> Seq(RevisionType)] /\ disabled \in BOOLEAN
      /\ assigned \in [pack : Pack, revision : Nat]
      /\ Own \in Pack /\ Template \in Pack /\ Own # Template
      /\ revisions[Own] \in Seq(RevisionType)
  BY Types DEF Pack, Own, Template
<1>d. ASSUME NEW x \in Text PROVE Draft(x) \in RevisionType /\ Draft(x).status = "draft"
  BY DEF Draft, RevisionType
<1> DEFINE Kept == \A n \in DOMAIN revisions[Own] : revisions[Own][n].status = "published" =>
                       n \in DOMAIN revisions'[Own] /\ revisions'[Own][n] = revisions[Own][n]
           Typed == revisions' \in [Pack -> Seq(RevisionType)] /\ revisions'[Template] = revisions[Template]
<1>1. ASSUME NEW p \in Pack, NEW n \in DOMAIN revisions[p], CreatePack(p, n) PROVE Typed /\ Kept
  <2>1. revisions[p][n].text \in Text
    <3>1. revisions[p][n] \in RevisionType
      BY <1>t
    <3> QED BY <3>1 DEF RevisionType
  <2>2. <<Draft(revisions[p][n].text)>> \in Seq(RevisionType)
    BY <1>d, <2>1
  <2>3. revisions' = [revisions EXCEPT ![Own] = <<Draft(revisions[p][n].text)>>] /\ revisions[Own] = <<>>
    BY <1>1 DEF CreatePack
  <2>4. Typed
    BY <1>t, <2>2, <2>3
  <2>5. Kept
    BY <2>3
  <2> QED BY <2>4, <2>5
<1>2. ASSUME NEW x \in Text, SaveDraft(x) PROVE Typed /\ Kept
  <2> DEFINE own == revisions[Own]
  <2>1. own \in Seq(RevisionType) /\ own # <<>>
    BY <1>t, <1>2 DEF SaveDraft
  <2>2. Len(own) \in 1 .. Len(own)
    BY <2>1
  <2>3. revisions' = [revisions EXCEPT ![Own] =
            IF own[Len(own)].status = "draft" THEN [own EXCEPT ![Len(own)] = Draft(x)] ELSE Append(own, Draft(x))]
    BY <1>2 DEF SaveDraft, Newest
  <2>4. CASE own[Len(own)].status = "draft"
    <3>1. /\ [own EXCEPT ![Len(own)] = Draft(x)] \in Seq(RevisionType)
          /\ Len([own EXCEPT ![Len(own)] = Draft(x)]) = Len(own)
          /\ \A j \in 1 .. Len(own) : [own EXCEPT ![Len(own)] = Draft(x)][j] = IF j = Len(own) THEN Draft(x) ELSE own[j]
      BY <1>d, <2>1, <2>2, ExceptSeq
    <3> DEFINE new == [own EXCEPT ![Len(own)] = Draft(x)]
    <3>2. revisions' = [revisions EXCEPT ![Own] = new]
      BY <2>3, <2>4
    <3>3. DOMAIN new = DOMAIN own /\ \A j \in DOMAIN own : own[j].status = "published" => new[j] = own[j]
      BY <2>1, <2>4, <3>1
    <3> HIDE DEF new
    <3>4. new \in Seq(RevisionType)
      BY <3>1 DEF new
    <3> QED BY <1>t, <3>2, <3>3, <3>4
  <2>5. CASE own[Len(own)].status # "draft"
    <3> DEFINE new == Append(own, Draft(x))
    <3>1. new \in Seq(RevisionType) /\ \A j \in DOMAIN own : j \in DOMAIN new /\ new[j] = own[j]
      BY <1>d, <2>1
    <3>2. revisions' = [revisions EXCEPT ![Own] = new]
      BY <2>3, <2>5
    <3> HIDE DEF new
    <3> QED BY <1>t, <3>1, <3>2
  <2> QED BY <2>4, <2>5
<1>3. ASSUME NEW n \in DOMAIN revisions[Own], Publish(n) PROVE Typed /\ Kept
  <2> DEFINE own == revisions[Own]
             rev == [own[n] EXCEPT !.status = "published"]
             new == [own EXCEPT ![n] = rev]
  <2>1. own \in Seq(RevisionType) /\ own[n] \in RevisionType /\ own[n].status = "draft" /\ n \in 1 .. Len(own)
    BY <1>t, <1>3 DEF Publish
  <2>2. revisions' = [revisions EXCEPT ![Own] = new]
    BY <1>3 DEF Publish
  <2>3. rev \in RevisionType
    BY <2>1 DEF RevisionType
  <2> HIDE DEF rev
  <2>4. /\ new \in Seq(RevisionType) /\ Len(new) = Len(own)
        /\ \A j \in 1 .. Len(own) : new[j] = IF j = n THEN rev ELSE own[j]
    BY <2>1, <2>3, ExceptSeq
  <2> HIDE DEF new
  <2>5. \A j \in DOMAIN own : own[j].status = "published" => j \in DOMAIN new /\ new[j] = own[j]
    BY <2>1, <2>4
  <2> QED BY <1>t, <2>2, <2>4, <2>5
<1>4. ASSUME UNCHANGED revisions PROVE Typed /\ Kept
  BY <1>t, <1>4
<1>5. UNCHANGED revisions
      \/ (\E p \in Pack : \E n \in DOMAIN revisions[p] : CreatePack(p, n))
      \/ (\E x \in Text : SaveDraft(x)) \/ \E n \in DOMAIN revisions[Own] : Publish(n)
  BY DEF PacksStep, Assign, Unassign, SetDisabled
<1>6. Typed /\ Kept
  BY <1>1, <1>2, <1>3, <1>4, <1>5
<1>7. disabled' \in BOOLEAN
  BY <1>t DEF PacksStep, CreatePack, Assign, SaveDraft, Publish, Unassign, SetDisabled
<1>8. assigned' \in [pack : Pack, revision : Nat]
  <2>1. ASSUME NEW p \in Pack, NEW n \in DOMAIN revisions[p], Assign(p, n)
        PROVE  assigned' \in [pack : Pack, revision : Nat]
    <3>1. n \in Nat
      BY <1>t
    <3> QED BY <2>1, <3>1 DEF Assign
  <2>2. ASSUME Unassign PROVE assigned' \in [pack : Pack, revision : Nat]
    BY <1>t, <2>2 DEF Unassign
  <2>3. UNCHANGED assigned \/ Unassign \/ \E p \in Pack : \E n \in DOMAIN revisions[p] : Assign(p, n)
    BY DEF PacksStep, CreatePack, SaveDraft, Publish, SetDisabled
  <2> QED BY <1>t, <2>1, <2>2, <2>3
<1>9. events' \in 0 .. MaxEvents
  BY Counted DEF PacksStep, CreatePack, Assign, SaveDraft, Publish, Unassign, SetDisabled
<1>10. UNCHANGED <<settings, told, switchedOn, runs>>
  BY DEF PacksStep, CreatePack, Assign, SaveDraft, Publish, Unassign, SetDisabled
<1> QED BY <1>6, <1>7, <1>8, <1>9, <1>10

\* A restart: templates only grow, interrupted runs are marked.
LEMMA RestartTyped ==
    ASSUME TypeOK, NEW x \in Text, Restart(x)
    PROVE  /\ TypeOK'
           /\ revisions'[Own] = revisions[Own]
           /\ \A n \in DOMAIN revisions[Template] :
                 n \in DOMAIN revisions'[Template] /\ revisions'[Template][n] = revisions[Template][n]
           /\ \A s \in Slot :
                 /\ task'[s].pc \in {"none", "over"} /\ task'[s].read = Unread
                 /\ record'[s].read = record[s].read
                 /\ record'[s].status \in {"failed", record[s].status}
                 /\ record'[s].status = "failed" => record[s].status \in {"running", "failed"}
<1>t. /\ revisions \in [Pack -> Seq(RevisionType)] /\ revisions[Template] # <<>>
      /\ record \in [Slot -> RecordType]
      /\ Own \in Pack /\ Template \in Pack /\ Own # Template
      /\ revisions[Template] \in Seq(RevisionType)
  BY Types DEF Pack, Own, Template
<1>1. /\ revisions' \in [Pack -> Seq(RevisionType)] /\ revisions'[Template] # <<>>
      /\ revisions'[Own] = revisions[Own]
      /\ \A n \in DOMAIN revisions[Template] :
            n \in DOMAIN revisions'[Template] /\ revisions'[Template][n] = revisions[Template][n]
  <2> DEFINE new == Append(revisions[Template], [status |-> "published", text |-> x])
  <2>1. [status |-> "published", text |-> x] \in RevisionType
    BY DEF RevisionType
  <2>2. /\ new \in Seq(RevisionType) /\ new # <<>>
        /\ \A n \in DOMAIN revisions[Template] : n \in DOMAIN new /\ new[n] = revisions[Template][n]
    <3>1. new \in Seq(RevisionType) /\ Len(new) = Len(revisions[Template]) + 1
      BY <1>t, <2>1
    <3>2. \A n \in DOMAIN revisions[Template] : n \in DOMAIN new /\ new[n] = revisions[Template][n]
      BY <1>t, <2>1
    <3>3. Len(revisions[Template]) + 1 # 0
      BY <1>t
    <3> HIDE DEF new
    <3> QED BY <3>1, <3>2, <3>3
  <2>3. revisions' \in {revisions, [revisions EXCEPT ![Template] = new]}
    BY DEF Restart, Imported
  <2> HIDE DEF new
  <2> QED BY <1>t, <2>2, <2>3
<1>2. \A r \in RecordType : LET f == [r EXCEPT !.status = "failed"]
                            IN  f \in RecordType /\ f.status = "failed" /\ f.read = r.read
  BY DEF RecordType, RecordStatus
<1>3. ASSUME NEW s \in Slot
      PROVE  /\ record'[s] \in RecordType /\ record'[s].read = record[s].read
             /\ record'[s].status \in {"failed", record[s].status}
             /\ record'[s].status = "failed" => record[s].status \in {"running", "failed"}
  <2>1. record[s] \in RecordType
    BY <1>t
  <2>2. record'[s] = IF record[s].status = "running" THEN [record[s] EXCEPT !.status = "failed"] ELSE record[s]
    BY DEF Restart, ReconcileInterrupted
  <2> QED BY <1>2, <2>1, <2>2
<1>4. record' \in [Slot -> RecordType]
  BY <1>3 DEF Restart, ReconcileInterrupted
<1>5. /\ task' \in [Slot -> TaskType]
      /\ \A s \in Slot : task'[s].pc \in {"none", "over"} /\ task'[s].read = Unread
  <2>1. task' = [s \in Slot |-> IF task[s].pc = "none" THEN NoTask ELSE Over]
    BY DEF Restart
  <2>2. NoTask.pc = "none" /\ Over.pc = "over" /\ NoTask.read = Unread /\ Over.read = Unread
    BY DEF NoTask, Over
  <2> QED BY <2>1, <2>2, Constants
<1>6. TypeOK'
  BY <1>1, <1>4, <1>5, Types, TypesNext, Counted, Constants DEF Restart, told
<1> QED BY <1>1, <1>3, <1>5, <1>6

\* A run's own step, by what it does to its task and to its record.
LEMMA RunTyped ==
    ASSUME TypeOK, TasksInv, NEW s \in Slot, RunStep(s) \/ \E ok \in BOOLEAN : Ask(s, ok)
    PROVE  TypeOK'
<1>t. /\ task \in [Slot -> TaskType] /\ record \in [Slot -> RecordType] /\ connection \in RowType
      /\ task[s].read \in Read /\ contexts \in Seq(Content) /\ story \in Content
      /\ revisions \in [Pack -> Seq(RevisionType)] /\ assigned \in [pack : Pack, revision : Nat]
  BY Types DEF TaskType
<1>g. ASSUME NEW pc \in TaskPc, NEW read \in Read, Goes(s, pc, read) PROVE task' \in [Slot -> TaskType]
  <2>1. [pc |-> pc, read |-> read] \in TaskType
    BY DEF TaskType
  <2> QED BY <1>t, <1>g, <2>1 DEF Goes
<1>r. ASSUME NEW status \in RecordStatus, record' = [record EXCEPT ![s].status = status]
      PROVE  record' \in [Slot -> RecordType]
  BY <1>t, <1>r DEF RecordType
<1>b. ASSUME Blocked(s) PROVE task' \in [Slot -> TaskType] /\ record' \in [Slot -> RecordType]
  BY <1>t, <1>b, <1>r, Constants DEF Blocked, RecordStatus
<1>p. TaskPc = {"none", "accepted", "resolved", "prepared", "built", "packaged", "running", "over"}
  BY DEF TaskPc
<1>1. ASSUME NEW ok \in BOOLEAN, Ask(s, ok) PROVE TypeOK'
  <2>1. task' \in [Slot -> TaskType] /\ record' \in [Slot -> RecordType]
    BY <1>t, <1>1, <1>g, <1>b, <1>p, Constants DEF Ask
  <2> QED BY <1>1, <2>1, Types, TypesNext DEF Ask, settings, packs, told
<1>2. ASSUME NEW ok \in BOOLEAN, Resolve(s, ok) PROVE TypeOK'
  <2> DEFINE new == [Unread EXCEPT !.revision = connection.revision, !.cred = connection.cred,
                                   !.model = connection.model, !.key = connection.key]
  <2>1. new \in Read
    BY <1>t, Constants DEF RowType, Read
  <2>2. \/ Blocked(s)
        \/ Goes(s, "resolved", new) /\ UNCHANGED record
    BY <1>2 DEF Resolve
  <2> HIDE DEF new
  <2>3. task' \in [Slot -> TaskType] /\ record' \in [Slot -> RecordType]
    BY <1>t, <1>g, <1>b, <1>p, <2>1, <2>2
  <2> QED BY <1>2, <2>3, Types, TypesNext DEF Resolve, settings, packs, told
<1>3. ASSUME Snapshot(s) PROVE TypeOK'
  <2> DEFINE new == [task[s].read EXCEPT !.pack = assigned.pack, !.packRevision = assigned.revision,
                         !.text = revisions[assigned.pack][assigned.revision].text]
  <2>1. \/ Blocked(s)
        \/ new \in Read /\ Goes(s, "prepared", new) /\ UNCHANGED record
    <3>1. ASSUME MaySnapshot PROVE new \in Read
      <4>1. revisions[assigned.pack][assigned.revision] \in RevisionType
        BY <1>t, <3>1 DEF MaySnapshot, Published
      <4>2. revisions[assigned.pack][assigned.revision].text \in Text
        BY <4>1 DEF RevisionType
      <4> QED BY <1>t, <4>2 DEF Read
    <3> QED BY <1>3, <3>1 DEF Snapshot
  <2> HIDE DEF new
  <2>3. task' \in [Slot -> TaskType] /\ record' \in [Slot -> RecordType]
    BY <1>t, <1>g, <1>b, <1>p, <2>1
  <2> QED BY <1>3, <2>3, Types, TypesNext DEF Snapshot, settings, packs, told
<1>4. ASSUME Build(s) PROVE TypeOK'
  <2>1. [task[s].read EXCEPT !.content = story] \in Read
    BY <1>t DEF Read
  <2>2. task' \in [Slot -> TaskType]
    BY <1>4, <1>g, <1>p, <2>1 DEF Build
  <2> QED BY <1>4, <2>2, Types, TypesNext DEF Build, settings, packs, told
<1>5. ASSUME StorePackage(s) PROVE TypeOK'
  <2>1. contexts' \in Seq(Content)
    BY <1>t, <1>5 DEF StorePackage, Versions, TasksInv
  <2>2. PICK v \in DOMAIN contexts' : Goes(s, "packaged", [task[s].read EXCEPT !.version = v])
    BY <1>5 DEF StorePackage
  <2>3. v \in Nat
    BY <2>1
  <2>4. [task[s].read EXCEPT !.version = v] \in Read
    BY <1>t, <2>3 DEF Read
  <2>5. task' \in [Slot -> TaskType]
    BY <1>g, <1>p, <2>2, <2>4
  <2> QED BY <1>5, <2>1, <2>5, Types, TypesNext DEF StorePackage, settings, packs
<1>6. ASSUME Begin(s) PROVE TypeOK'
  <2>1. task' \in [Slot -> TaskType]
    BY <1>6, <1>g, <1>p, <1>t DEF Begin
  <2>2. [status |-> "running", read |-> task[s].read] \in RecordType
    BY <1>t DEF RecordType, RecordStatus
  <2> QED BY <1>t, <1>6, <2>1, <2>2, Types, TypesNext DEF Begin, settings, packs, told
<1>7. ASSUME NEW status \in {"completed", "failed"}, Finish(s, status) PROVE TypeOK'
  <2>1. task' \in [Slot -> TaskType]
    BY <1>7, <1>t, Constants DEF Finish
  <2>2. record' \in [Slot -> RecordType]
    BY <1>7, <1>r DEF Finish, RecordStatus
  <2> QED BY <1>7, <2>1, <2>2, Types, TypesNext DEF Finish, settings, packs, told
<1> QED BY <1>1, <1>2, <1>3, <1>4, <1>5, <1>6, <1>7 DEF RunStep

-----------------------------------------------------------------------------
(* What stays as it was.                                                   *)

\* Every step is an Admin's, a run's, a restart, or none.
LEMMA Steps ==
    ASSUME [Next]_vars
    PROVE  \/ SettingsStep \/ PacksStep \/ SetSwitch \/ \E c \in Content : StoryMoves(c)
           \/ \E s \in Slot : RunStep(s) \/ \E ok \in BOOLEAN : Ask(s, ok)
           \/ \E x \in Text : Restart(x)
           \/ UNCHANGED vars
  BY AdminSteps DEF Next

\* A run changes nothing but its own task and record, and adds to the context.
LEMMA RunStepKeeps ==
    ASSUME NEW s \in Slot, RunStep(s) \/ \E ok \in BOOLEAN : Ask(s, ok)
    PROVE  UNCHANGED <<settings, packs, story, switchedOn>>
  BY DEF RunStep, Ask, Resolve, Snapshot, Build, StorePackage, Begin, Finish, told

LEMMA TypeStep == ASSUME TypeOK, TasksInv, [Next]_vars PROVE TypeOK'
<1>1. CASE SettingsStep
  BY <1>1, SettingsTyped, Types, TypesNext DEF packs, told, runs
<1>2. CASE PacksStep
  BY <1>2, PacksTyped, Types, TypesNext DEF settings, told, runs
<1>3. CASE SetSwitch
  BY <1>3, Types, TypesNext, Counted DEF SetSwitch, settings, packs, told, runs
<1>4. ASSUME NEW c \in Content, StoryMoves(c) PROVE TypeOK'
  BY <1>4, Types, TypesNext, Counted DEF StoryMoves, settings, packs, runs
<1>5. CASE UNCHANGED vars
  BY <1>5, Types, TypesNext DEF vars, settings, packs, told, runs
<1> QED BY <1>1, <1>2, <1>3, <1>4, <1>5, Steps, RunTyped, RestartTyped

\* A copy of the connection's row that fits goes on fitting: what it does not
\* tell has taken a new revision.
LEMMA FitsStays ==
    ASSUME TypeOK, CopiesInv, [Next]_vars
    PROVE  \A copy : copy.revision \in Nat /\ copy.cred \in Nat /\ Fits(copy) => Fits(copy)'
<1>t. connection \in RowType /\ connection.revision \in Nat /\ connection.cred \in Nat
  BY Types DEF RowType
<1>1. ASSUME NEW m \in Model, NEW on \in BOOLEAN, Save(m, on)
      PROVE  /\ connection'.revision = connection.revision + 1
             /\ connection'.cred = connection.cred /\ connection'.key = connection.key
  BY <1>t, <1>1 DEF Save, RowType
<1>2. ASSUME NEW k \in Key, SaveCredential(k)
      PROVE  /\ connection'.cred = connection.cred + 1 /\ connection'.model = connection.model
             /\ connection'.revision \in Nat
             /\ connection'.revision = connection.revision \/ connection.revision < connection'.revision
  <2>1. /\ connection'.cred = connection.cred + 1 /\ connection'.model = connection.model
        /\ connection'.revision = IF Saved THEN connection.revision ELSE 1
    BY <1>t, <1>2 DEF SaveCredential, RowType
  <2> QED BY <1>t, <2>1 DEF Saved
<1>3. ASSUME RevokeCredential
      PROVE  /\ connection'.revision = connection.revision /\ connection'.model = connection.model
             /\ connection'.cred = connection.cred /\ connection'.key = connection.key
  BY <1>t, <1>3 DEF RevokeCredential, RowType
<1>4. \/ \E m \in Model, on \in BOOLEAN : Save(m, on)
      \/ \E k \in Key : SaveCredential(k)
      \/ RevokeCredential
      \/ UNCHANGED connection
  <2>1. ASSUME SettingsStep
        PROVE  \/ \E m \in Model, on \in BOOLEAN : Save(m, on)
               \/ \E k \in Key : SaveCredential(k)
               \/ RevokeCredential
               \/ UNCHANGED connection
    BY <2>1 DEF SettingsStep, AskTest, RecordTest
  <2>2. ASSUME PacksStep PROVE UNCHANGED connection
    BY <2>2, PacksTyped DEF settings
  <2>3. ASSUME NEW s \in Slot, RunStep(s) \/ \E ok \in BOOLEAN : Ask(s, ok) PROVE UNCHANGED connection
    BY <2>3, RunStepKeeps DEF settings
  <2> QED BY <2>1, <2>2, <2>3, Steps DEF SetSwitch, StoryMoves, Restart, vars, settings
<1>5. ASSUME NEW copy, copy.revision \in Nat, copy.cred \in Nat, Fits(copy) PROVE Fits(copy)'
  <2>1. CASE \E m \in Model, on \in BOOLEAN : Save(m, on)
    BY <1>t, <1>1, <1>5, <2>1 DEF Fits
  <2>2. CASE \E k \in Key : SaveCredential(k)
    <3>1. /\ connection'.cred = connection.cred + 1 /\ connection'.model = connection.model
          /\ connection'.revision \in Nat
          /\ connection'.revision = connection.revision \/ connection.revision < connection'.revision
      BY <1>2, <2>2
    <3>2. /\ copy.revision <= connection.revision /\ copy.cred <= connection.cred
          /\ copy.revision = connection.revision => copy.model = connection.model
      BY <1>5 DEF Fits
    <3>3. copy.cred <= connection'.cred /\ copy.cred # connection'.cred
      BY <1>t, <1>5, <3>1, <3>2
    <3>4. /\ copy.revision <= connection'.revision
          /\ copy.revision = connection'.revision => copy.model = connection'.model
      BY <1>t, <1>5, <3>1, <3>2
    <3> QED BY <3>3, <3>4 DEF Fits
  <2>3. CASE RevokeCredential \/ UNCHANGED connection
    BY <1>t, <1>3, <1>5, <2>3 DEF Fits
  <2> QED BY <1>4, <2>1, <2>2, <2>3
<1> QED BY <1>5

LEMMA GivenStays ==
    ASSUME TypeOK, [Next]_vars
    PROVE  \A read \in Read : Given(read) => Given(read)'
<1> SUFFICES ASSUME NEW read \in Read, Given(read) PROVE Given(read)'
  OBVIOUS
<1>1. read.pack \in {Own, Template} /\ read.packRevision \in DOMAIN revisions[read.pack]
  BY DEF Read, Pack, Given, Published
<1>2. revisions[read.pack][read.packRevision].status = "published"
  BY DEF Given, Published
<1>3. CASE PacksStep
  BY <1>1, <1>2, <1>3, PacksTyped DEF Given, Published
<1>4. ASSUME NEW x \in Text, Restart(x) PROVE Given(read)'
  BY <1>1, <1>4, RestartTyped DEF Given, Published
<1>5. CASE UNCHANGED revisions
  BY <1>5 DEF Given, Published
<1>6. ASSUME SettingsStep PROVE UNCHANGED revisions
  BY <1>6, SettingsTyped DEF packs
<1>7. ASSUME NEW s \in Slot, RunStep(s) \/ \E ok \in BOOLEAN : Ask(s, ok) PROVE UNCHANGED revisions
  BY <1>7, RunStepKeeps DEF packs
<1> QED BY <1>3, <1>4, <1>5, <1>6, <1>7, Steps DEF SetSwitch, StoryMoves, vars, packs

LEMMA ToldStays ==
    ASSUME TypeOK, TasksInv, [Next]_vars
    PROVE  \A read \in Read : Told(read) => Told(read)'
<1>t. contexts \in Seq(Content)
  BY Types
<1>1. ASSUME NEW s \in Slot, StorePackage(s)
      PROVE  \A v \in DOMAIN contexts : v \in DOMAIN contexts' /\ contexts'[v] = contexts[v]
  <2>1. task[s].read.content \in Content
    BY <1>1 DEF StorePackage, TasksInv
  <2> QED BY <1>t, <1>1, <2>1 DEF StorePackage, Versions
<1>2. UNCHANGED contexts \/ \E s \in Slot : StorePackage(s)
  <2>1. ASSUME SettingsStep \/ PacksStep PROVE UNCHANGED contexts
    BY <2>1, SettingsTyped, PacksTyped DEF told
  <2>2. ASSUME NEW s \in Slot, RunStep(s) \/ \E ok \in BOOLEAN : Ask(s, ok)
        PROVE  UNCHANGED contexts \/ StorePackage(s)
    BY <2>2 DEF RunStep, Ask, Resolve, Snapshot, Build, Begin, Finish, told
  <2> QED BY <2>1, <2>2, Steps DEF SetSwitch, StoryMoves, Restart, vars, told
<1> QED BY <1>1, <1>2 DEF Told

-----------------------------------------------------------------------------
(* The parts of the invariant.                                             *)

\* What a run's step makes of its task and of its record.
LEMMA RunChange ==
    ASSUME IInv, NEW s \in Slot, RunStep(s) \/ \E ok \in BOOLEAN : Ask(s, ok)
    PROVE  /\ \A t \in Slot \ {s} : task'[t] = task[t] /\ record'[t] = record[t]
           /\ \/ task'[s].pc \in {"accepted", "resolved", "over"}
              \/ /\ task'[s].pc \in {"prepared", "built", "packaged", "running"}
                 /\ Given(task[s].read)'
                 /\ task'[s].pc = "built" => task'[s].read.content \in Content
                 /\ task'[s].pc \in {"packaged", "running"} => Told(task[s].read)'
                 /\ task'[s].pc = "running" => record'[s].status = "running"
           /\ record'[s].status \in {"running", "completed", "failed"} =>
                 Given(record[s].read)' /\ Told(record[s].read)'
           /\ \E from \in {task[s].read, Unread, connection} :
                 /\ task'[s].read.revision = from.revision /\ task'[s].read.cred = from.cred
                 /\ task'[s].read.model = from.model /\ task'[s].read.key = from.key
           /\ record'[s].read \in {record[s].read, task[s].read}
<1>t. /\ task \in [Slot -> TaskType] /\ record \in [Slot -> RecordType]
      /\ task[s].read \in Read /\ record[s].read \in Read /\ Unread \in Read
      /\ contexts \in Seq(Content) /\ story \in Content
  BY Types, Constants DEF IInv, TaskType, RecordType
<1>k. /\ \A read \in Read : Given(read) => Given(read)'
      /\ \A read \in Read : Told(read) => Told(read)'
  <2>1. [Next]_vars
    BY DEF Next
  <2> QED BY <2>1, GivenStays, ToldStays DEF IInv
<1>u. revisions' = revisions
  BY RunStepKeeps DEF packs
<1>f. ASSUME NEW pc, NEW read, Goes(s, pc, read)
      PROVE  /\ task'[s].pc = pc /\ task'[s].read = read
             /\ \A t \in Slot \ {s} : task'[t] = task[t]
  BY <1>t, <1>f DEF Goes
<1>o. Over.pc = "over" /\ Over.read = Unread
  BY DEF Over
<1>r. \A r \in RecordType : \A status : [r EXCEPT !.status = status].status = status
                                  /\ [r EXCEPT !.status = status].read = r.read
  BY DEF RecordType
<1>m. ASSUME record'[s] = record[s], record[s].status \in {"running", "completed", "failed"}
      PROVE  Given(record[s].read)' /\ Told(record[s].read)'
  <2>1. Given(record[s].read) /\ Told(record[s].read)
    BY <1>m DEF IInv, RecordsInv
  <2>2. \A read \in Read : read = record'[s].read /\ read = record[s].read =>
            Given(record[s].read)' /\ Told(record[s].read)'
    BY <1>k, <2>1 DEF Given, Told
  <2> QED BY <1>t, <1>m, <2>2
<1>b. ASSUME Blocked(s)
      PROVE  /\ \A t \in Slot \ {s} : task'[t] = task[t] /\ record'[t] = record[t]
             /\ task'[s].pc = "over" /\ task'[s].read = Unread
             /\ record'[s].status = "blocked" /\ record'[s].read = record[s].read
  BY <1>t, <1>b, <1>o, <1>r DEF Blocked
<1>s. ASSUME UNCHANGED record PROVE \A t \in Slot : record'[t] = record[t]
  BY <1>s
<1>1. CASE \E ok \in BOOLEAN : Ask(s, ok)
  BY <1>1, <1>b, <1>f, <1>m, <1>s DEF Ask
<1>2. CASE \E ok \in BOOLEAN : Resolve(s, ok)
  <2> DEFINE new == [Unread EXCEPT !.revision = connection.revision, !.cred = connection.cred,
                                   !.model = connection.model, !.key = connection.key]
  <2>1. /\ new.revision = connection.revision /\ new.cred = connection.cred
        /\ new.model = connection.model /\ new.key = connection.key
    BY <1>t DEF Read
  <2>2. \/ Blocked(s)
        \/ Goes(s, "resolved", new) /\ UNCHANGED record
    BY <1>2 DEF Resolve
  <2> HIDE DEF new
  <2> QED BY <1>b, <1>f, <1>m, <1>s, <2>1, <2>2
<1>3. CASE Snapshot(s)
  <2> DEFINE new == [task[s].read EXCEPT !.pack = assigned.pack, !.packRevision = assigned.revision,
                         !.text = revisions[assigned.pack][assigned.revision].text]
  <2>1. /\ new.revision = task[s].read.revision /\ new.cred = task[s].read.cred
        /\ new.model = task[s].read.model /\ new.key = task[s].read.key
        /\ new.pack = assigned.pack /\ new.packRevision = assigned.revision
        /\ new.text = revisions[assigned.pack][assigned.revision].text
    BY <1>t DEF Read
  <2>2. \/ Blocked(s)
        \/ MaySnapshot /\ Goes(s, "prepared", new) /\ UNCHANGED record
    BY <1>3 DEF Snapshot
  <2> HIDE DEF new
  <2>3. CASE Blocked(s)
    BY <1>b, <2>3
  <2>4. CASE MaySnapshot /\ Goes(s, "prepared", new) /\ UNCHANGED record
    <3>1. task'[s].pc = "prepared" /\ task'[s].read = new /\ \A t \in Slot \ {s} : task'[t] = task[t]
      BY <1>f, <2>4
    <3>2. Given(task[s].read)'
      BY <1>u, <2>1, <2>4, <3>1 DEF Given, MaySnapshot, Published
    <3> QED BY <1>m, <1>s, <2>1, <2>4, <3>1, <3>2
  <2> QED BY <2>2, <2>3, <2>4
<1>4. CASE Build(s)
  <2> DEFINE new == [task[s].read EXCEPT !.content = story]
  <2>1. /\ new.revision = task[s].read.revision /\ new.cred = task[s].read.cred
        /\ new.model = task[s].read.model /\ new.key = task[s].read.key
        /\ new.pack = task[s].read.pack /\ new.packRevision = task[s].read.packRevision
        /\ new.text = task[s].read.text /\ new.content = story
    BY <1>t DEF Read
  <2>2. Goes(s, "built", new) /\ UNCHANGED record /\ Given(task[s].read)
    BY <1>4 DEF Build, IInv, TasksInv
  <2> HIDE DEF new
  <2>3. task'[s].pc = "built" /\ task'[s].read = new /\ \A t \in Slot \ {s} : task'[t] = task[t]
    BY <1>f, <2>2
  <2>4. Given(task[s].read)'
    BY <1>u, <2>1, <2>2, <2>3 DEF Given, Published
  <2> QED BY <1>t, <1>m, <1>s, <2>1, <2>2, <2>3, <2>4
<1>5. CASE StorePackage(s)
  <2>1. PICK v \in DOMAIN contexts' :
            contexts'[v] = task[s].read.content /\ Goes(s, "packaged", [task[s].read EXCEPT !.version = v])
    BY <1>5 DEF StorePackage
  <2> DEFINE new == [task[s].read EXCEPT !.version = v]
  <2>2. /\ new.revision = task[s].read.revision /\ new.cred = task[s].read.cred
        /\ new.model = task[s].read.model /\ new.key = task[s].read.key
        /\ new.pack = task[s].read.pack /\ new.packRevision = task[s].read.packRevision
        /\ new.text = task[s].read.text /\ new.content = task[s].read.content /\ new.version = v
    BY <1>t DEF Read
  <2>3. Goes(s, "packaged", new) /\ UNCHANGED record /\ Given(task[s].read)
    BY <1>5, <2>1 DEF StorePackage, IInv, TasksInv
  <2> HIDE DEF new
  <2>4. task'[s].pc = "packaged" /\ task'[s].read = new /\ \A t \in Slot \ {s} : task'[t] = task[t]
    BY <1>f, <2>3
  <2>5. Given(task[s].read)' /\ Told(task[s].read)'
    BY <1>u, <2>1, <2>2, <2>3, <2>4 DEF Given, Published, Told
  <2> QED BY <1>m, <1>s, <2>2, <2>3, <2>4, <2>5
<1>6. CASE Begin(s)
  <2>1. /\ Goes(s, "running", task[s].read) /\ contexts' = contexts
        /\ record' = [record EXCEPT ![s] = [status |-> "running", read |-> task[s].read]]
        /\ Given(task[s].read) /\ Told(task[s].read)
    BY <1>6 DEF Begin, told, IInv, TasksInv
  <2>2. task'[s].pc = "running" /\ task'[s].read = task[s].read /\ \A t \in Slot \ {s} : task'[t] = task[t]
    BY <1>f, <2>1
  <2>3. /\ record'[s].status = "running" /\ record'[s].read = task[s].read
        /\ \A t \in Slot \ {s} : record'[t] = record[t]
    BY <1>t, <2>1
  <2>4. Given(task[s].read)' /\ Told(task[s].read)' /\ Given(record[s].read)' /\ Told(record[s].read)'
    BY <1>u, <2>1, <2>2, <2>3 DEF Given, Published, Told
  <2> QED BY <2>2, <2>3, <2>4
<1>7. ASSUME NEW status \in {"completed", "failed"}, Finish(s, status)
      PROVE  /\ \A t \in Slot \ {s} : task'[t] = task[t] /\ record'[t] = record[t]
             /\ task'[s] = Over /\ record'[s].read = record[s].read
             /\ Given(record[s].read)' /\ Told(record[s].read)'
  <2>1. /\ task' = [task EXCEPT ![s] = Over] /\ record' = [record EXCEPT ![s].status = status]
        /\ contexts' = contexts /\ Given(record[s].read) /\ Told(record[s].read)
    BY <1>7 DEF Finish, told, IInv, TasksInv, RecordsInv
  <2>2. record'[s].read = record[s].read /\ \A t \in Slot \ {s} : record'[t] = record[t]
    BY <1>t, <1>r, <2>1
  <2>3. Given(record[s].read)' /\ Told(record[s].read)'
    BY <1>u, <2>1, <2>2 DEF Given, Published, Told
  <2> QED BY <1>t, <2>1, <2>2, <2>3
<1>8. CASE \E status \in {"completed", "failed"} : Finish(s, status)
  BY <1>7, <1>8, <1>o
<1> QED BY <1>1, <1>2, <1>3, <1>4, <1>5, <1>6, <1>8 DEF RunStep

LEMMA OthersStay ==
    ASSUME SettingsStep \/ PacksStep \/ SetSwitch \/ (\E c \in Content : StoryMoves(c)) \/ UNCHANGED vars
    PROVE  UNCHANGED runs
  BY DEF SettingsStep, Save, SaveCredential, RevokeCredential, AskTest, RecordTest, PacksStep, CreatePack,
         Assign, SaveDraft, Publish, Unassign, SetDisabled, SetSwitch, StoryMoves, vars

\* A task and a record that stay as they are stay true.
LEMMA StaysTrue ==
    ASSUME IInv, [Next]_vars, NEW s \in Slot, task'[s] = task[s] \/ task'[s].pc \in {"none", "over"}
    PROVE  /\ task'[s].pc \in {"prepared", "built", "packaged", "running"} => Given(task[s].read)'
           /\ task'[s].pc = "built" => task'[s].read.content \in Content
           /\ task'[s].pc \in {"packaged", "running"} => Told(task[s].read)'
<1>1. task[s].read \in Read
  BY Types DEF IInv, TaskType
<1>2. \A read \in Read : (Given(read) => Given(read)') /\ (Told(read) => Told(read)')
  BY GivenStays, ToldStays DEF IInv
<1>3. CASE task'[s] = task[s]
  <2>1. Given(task[s].read) => Given(task[s].read)'
    BY <1>1, <1>2, <1>3 DEF Given
  <2>2. Told(task[s].read) => Told(task[s].read)'
    BY <1>1, <1>2, <1>3 DEF Told
  <2> QED BY <1>3, <2>1, <2>2 DEF IInv, TasksInv
<1> QED BY <1>3

LEMMA RecordStaysTrue ==
    ASSUME IInv, [Next]_vars, NEW s \in Slot, record'[s].read = record[s].read,
           record[s].status \in {"running", "completed", "failed"}
    PROVE  Given(record[s].read)' /\ Told(record[s].read)'
<1>1. record[s].read \in Read /\ Given(record[s].read) /\ Told(record[s].read)
  BY Types DEF IInv, RecordType, RecordsInv
<1>2. \A read \in Read : (Given(read) => Given(read)') /\ (Told(read) => Told(read)')
  BY GivenStays, ToldStays DEF IInv
<1>3. Given(record[s].read)'
  BY <1>1, <1>2 DEF Given
<1>4. Told(record[s].read)'
  BY <1>1, <1>2 DEF Told
<1> QED BY <1>3, <1>4

LEMMA TasksStep == ASSUME IInv, [Next]_vars PROVE TasksInv'
<1>1. ASSUME NEW s \in Slot, RunStep(s) \/ \E ok \in BOOLEAN : Ask(s, ok) PROVE TasksInv'
  <2>1. ASSUME NEW t \in Slot \ {s}
        PROVE  /\ task'[t] = task[t] /\ record'[t] = record[t]
               /\ task'[t].pc \in {"prepared", "built", "packaged", "running"} => Given(task[t].read)'
               /\ task'[t].pc = "built" => task'[t].read.content \in Content
               /\ task'[t].pc \in {"packaged", "running"} => Told(task[t].read)'
               /\ task'[t].pc = "running" => record'[t].status = "running"
    BY <1>1, RunChange, StaysTrue DEF IInv, TasksInv
  <2>2. /\ task'[s].pc \in {"prepared", "built", "packaged", "running"} => Given(task[s].read)'
        /\ task'[s].pc = "built" => task'[s].read.content \in Content
        /\ task'[s].pc \in {"packaged", "running"} => Told(task[s].read)'
        /\ task'[s].pc = "running" => record'[s].status = "running"
    BY <1>1, RunChange
  <2> QED BY <2>1, <2>2 DEF TasksInv
<1>2. ASSUME NEW x \in Text, Restart(x) PROVE TasksInv'
  BY <1>2, RestartTyped DEF IInv, TasksInv
<1>3. CASE UNCHANGED runs
  BY <1>3, StaysTrue DEF runs, IInv, TasksInv
<1> QED BY <1>1, <1>2, <1>3, Steps, OthersStay

LEMMA RecordsStep == ASSUME IInv, [Next]_vars PROVE RecordsInv'
<1>1. ASSUME NEW s \in Slot, RunStep(s) \/ \E ok \in BOOLEAN : Ask(s, ok) PROVE RecordsInv'
  <2>1. ASSUME NEW t \in Slot \ {s}, record'[t].status \in {"running", "completed", "failed"}
        PROVE  Given(record[t].read)' /\ Told(record[t].read)'
    BY <1>1, <2>1, RunChange, RecordStaysTrue
  <2>2. record'[s].status \in {"running", "completed", "failed"} => Given(record[s].read)' /\ Told(record[s].read)'
    BY <1>1, RunChange
  <2> QED BY <2>1, <2>2 DEF RecordsInv
<1>2. ASSUME NEW x \in Text, Restart(x) PROVE RecordsInv'
  <2>1. ASSUME NEW t \in Slot, record'[t].status \in {"running", "completed", "failed"}
        PROVE  record'[t].read = record[t].read /\ record[t].status \in {"running", "completed", "failed"}
    BY <1>2, <2>1, RestartTyped DEF IInv
  <2> QED BY <2>1, RecordStaysTrue DEF RecordsInv
<1>3. CASE UNCHANGED runs
  BY <1>3, RecordStaysTrue DEF runs, RecordsInv
<1> QED BY <1>1, <1>2, <1>3, Steps, OthersStay

LEMMA CopiesStep == ASSUME IInv, [Next]_vars PROVE CopiesInv'
<1>t. /\ connection \in RowType /\ lastTest \in ResultType /\ test.on \in AskedType
      /\ \A s \in Slot : task[s].read \in Read /\ record[s].read \in Read
      /\ Unread \in Read
  BY Types, Constants DEF IInv, TaskType, RecordType
<1>n. /\ connection.revision \in Nat /\ connection.cred \in Nat
      /\ lastTest.revision \in Nat /\ lastTest.cred \in Nat
      /\ test.on.revision \in Nat /\ test.on.cred \in Nat
      /\ Unread.revision \in Nat /\ Unread.cred \in Nat
      /\ \A s \in Slot : /\ task[s].read.revision \in Nat /\ task[s].read.cred \in Nat
                         /\ record[s].read.revision \in Nat /\ record[s].read.cred \in Nat
  BY <1>t DEF RowType, ResultType, AskedType, Read
<1>f. \A copy : copy.revision \in Nat /\ copy.cred \in Nat /\ Fits(copy) => Fits(copy)'
  BY FitsStays DEF IInv
<1>c. Fits(connection)
  BY <1>n DEF Fits
<1>1. Fits(Unread)'
  BY <1>n, <1>f DEF IInv, CopiesInv, Fits, Unread
<1>2. Fits(lastTest)' /\ Fits(test.on)'
  <2>1. CASE UNCHANGED <<lastTest, test>>
    <3>1. Fits(lastTest)'
      BY <1>n, <1>f, <2>1 DEF IInv, CopiesInv, Fits
    <3>2. Fits(test.on)'
      BY <1>n, <1>f, <2>1 DEF IInv, CopiesInv, Fits
    <3> QED BY <3>1, <3>2
  <2>2. ASSUME test' = NoTest PROVE Fits(test.on)'
    <3>1. /\ test'.on.revision = Unread.revision /\ test'.on.cred = Unread.cred
          /\ test'.on.model = Unread.model /\ test'.on.key = Unread.key
      BY <2>2 DEF NoTest, Asked, NoKey, Unread
    <3> QED BY <1>1, <3>1 DEF Fits, Unread
  <2>3. CASE AskTest
    <3>1. connection' = connection /\ lastTest' = lastTest /\ test'.on = Asked(connection)
      BY <2>3 DEF AskTest
    <3>2. Fits(lastTest)'
      BY <3>1 DEF IInv, CopiesInv, Fits
    <3>3. Fits(test.on)'
      BY <1>n, <3>1 DEF Fits, Asked
    <3> QED BY <3>2, <3>3
  <2>4. ASSUME NEW ok \in BOOLEAN, RecordTest(ok) PROVE Fits(lastTest)' /\ Fits(test.on)'
    <3>1. /\ connection' = connection /\ test' = NoTest
          /\ lastTest'.revision = test.on.revision /\ lastTest'.cred = test.on.cred
          /\ lastTest'.model = test.on.model /\ lastTest'.key = test.on.key
      BY <2>4 DEF RecordTest, TestResult
    <3>2. Fits(lastTest)'
      BY <3>1 DEF IInv, CopiesInv, Fits
    <3> QED BY <2>2, <3>1, <3>2
  <2>5. ASSUME NEW x \in Text, Restart(x) PROVE Fits(lastTest)' /\ Fits(test.on)'
    <3>1. lastTest' = lastTest /\ test' = NoTest
      BY <2>5 DEF Restart
    <3>2. Fits(lastTest)'
      BY <1>n, <1>f, <3>1 DEF IInv, CopiesInv, Fits
    <3> QED BY <2>2, <3>1, <3>2
  <2>6. ASSUME SettingsStep
        PROVE  UNCHANGED <<lastTest, test>> \/ AskTest \/ \E ok \in BOOLEAN : RecordTest(ok)
    BY <2>6 DEF SettingsStep, Save, SaveCredential, RevokeCredential
  <2>7. ASSUME PacksStep PROVE UNCHANGED <<lastTest, test>>
    BY <2>7, PacksTyped DEF IInv, settings
  <2>8. ASSUME NEW s \in Slot, RunStep(s) \/ \E ok \in BOOLEAN : Ask(s, ok) PROVE UNCHANGED <<lastTest, test>>
    BY <2>8, RunStepKeeps DEF settings
  <2> QED BY <2>1, <2>3, <2>4, <2>5, <2>6, <2>7, <2>8, Steps DEF SetSwitch, StoryMoves, vars, settings
<1>3. ASSUME NEW s \in Slot PROVE Fits(task[s].read)' /\ Fits(record[s].read)'
  <2>k. ASSUME task'[s].read = task[s].read PROVE Fits(task[s].read)'
    BY <1>n, <1>f, <2>k DEF IInv, CopiesInv, Fits
  <2>r. ASSUME record'[s].read = record[s].read PROVE Fits(record[s].read)'
    BY <1>n, <1>f, <2>r DEF IInv, CopiesInv, Fits
  <2>1. ASSUME RunStep(s) \/ \E ok \in BOOLEAN : Ask(s, ok)
        PROVE  Fits(task[s].read)' /\ Fits(record[s].read)'
    <3>1. connection' = connection
      BY <2>1, RunStepKeeps DEF settings
    <3>2. PICK from \in {task[s].read, Unread, connection} :
              /\ task'[s].read.revision = from.revision /\ task'[s].read.cred = from.cred
              /\ task'[s].read.model = from.model /\ task'[s].read.key = from.key
      BY <2>1, RunChange
    <3>3. Fits(from)
      BY <1>c, <3>2 DEF IInv, CopiesInv
    <3>4. Fits(task[s].read)'
      BY <3>1, <3>2, <3>3 DEF Fits
    <3>5. record'[s].read \in {record[s].read, task[s].read}
      BY <2>1, RunChange
    <3>6. Fits(record[s].read)'
      BY <3>1, <3>5 DEF IInv, CopiesInv, Fits
    <3> QED BY <3>4, <3>6
  <2>2. ASSUME NEW q \in Slot \ {s}, RunStep(q) \/ \E ok \in BOOLEAN : Ask(q, ok)
        PROVE  task'[s] = task[s] /\ record'[s] = record[s]
    BY <2>2, RunChange
  <2>3. ASSUME NEW x \in Text, Restart(x) PROVE Fits(task[s].read)' /\ Fits(record[s].read)'
    <3>1. task'[s].read = Unread /\ record'[s].read = record[s].read
      BY <2>3, RestartTyped DEF IInv
    <3>2. Fits(task[s].read)'
      BY <1>1, <3>1 DEF Fits, Unread
    <3> QED BY <2>r, <3>1, <3>2
  <2>4. CASE UNCHANGED runs
    BY <2>k, <2>r, <2>4 DEF runs
  <2> QED BY <2>k, <2>r, <2>1, <2>2, <2>3, <2>4, Steps, OthersStay
<1> QED BY <1>1, <1>2, <1>3 DEF CopiesInv

-----------------------------------------------------------------------------

LEMMA Invariance == Spec => []IInv
<1>1. Init => IInv
  BY InvInit
<1>2. IInv /\ [Next]_vars => IInv'
  BY TypeStep, CopiesStep, TasksStep, RecordsStep DEF IInv
<1> QED BY <1>1, <1>2, PTL DEF Spec

\* Rows, packs, contexts, tasks and records keep their types (connection.py,
\* packs.py, context.py, runtime.py).
THEOREM TypeCorrect == Spec => []TypeOK
<1>1. IInv => TypeOK
  BY DEF IInv
<1> QED BY <1>1, Invariance, PTL

\* A connection shown as tested was answered for with the model and the key that are
\* stored now, whatever was saved while the provider was asked (connection.view).
THEOREM TestedIsThis == Spec => []TestedThis
<1>1. IInv => TestedThis
  BY DEF IInv, CopiesInv, Fits, Tested, TestedThis
<1> QED BY <1>1, Invariance, PTL

\* What a run's record says it ran with can be told from it for good: the content of
\* the pack, what the run was told of the story, the model and the key
\* (runtime._insert, packs.save_draft, context.snapshot).
THEOREM RecordsTellForGood == Spec => []RecordsTell
<1>1. IInv => RecordsTell
  BY DEF IInv, CopiesInv, RecordsInv, Given, Told, Fits, RecordsTell
<1> QED BY <1>1, Invariance, PTL
=============================================================================
