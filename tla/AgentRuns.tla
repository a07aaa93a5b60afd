----------------------------- MODULE AgentRuns -----------------------------
(***************************************************************************)
(* What an agent run of one customer is made of: the customer's AI         *)
(* connection (ai/connection.py), the Start-up Pack assigned to the role    *)
(* (ai/packs.py), the switch of the agent (services/agent_settings.py) and  *)
(* the story's context package (ai/context.py) and the record of the run    *)
(* (ai/runtime.py), behind routers/ai.py.                                   *)
(*                                                                         *)
(* Admins change connection, packs and switch at any moment.  A run reads   *)
(* each once, in a transaction of its own, and keeps what it read; its row  *)
(* in ai_runs names the revisions.  The provider is outside.  One role and  *)
(* one pack of the customer's own next to the shipped template.            *)
(***************************************************************************)
EXTENDS Integers, Sequences

CONSTANTS
    Slot,           \* the runs that may be asked for
    Model,          \* models of the rate card
    DefaultModel,   \* the model of a connection created by entering its key
    Key,            \* API keys an Admin may enter
    Text,           \* contents of a pack
    Content,        \* what the records of the story say
    Shipped,        \* the template the first version of the server shipped
    MaxEvents       \* bound: changes by Admins and to the story, restarts of the server

ASSUME RunsAssumption ==
    /\ DefaultModel \in Model /\ Content # {} /\ Shipped \in Text
    /\ Key # {} /\ MaxEvents \in Nat

Own == "own"
Template == "template"
Pack == {Own, Template}

VARIABLES
    connection,     \* the row of ai_connections; revision 0: no row
    lastTest,       \* its last test; model and key say what was really asked
    test,           \* a connection test between its read and its recording
    revisions,      \* agent_pack_revisions of each pack
    disabled,       \* agent_packs.disabled_at of the customer's pack
    assigned,       \* agent_pack_assignments of the role; revision 0: none
    story,          \* what the records of the run's story say now
    contexts,       \* ai_context_packages of the story, by version
    switchedOn,     \* company_settings agent_settings
    task,           \* the background task of each run
    record,         \* the row of ai_runs of each run
    events

settings == <<connection, lastTest, test>>
packs == <<revisions, disabled, assigned>>
runs == <<task, record>>
told == <<story, contexts>>
vars == <<settings, packs, told, switchedOn, runs, events>>

NoKey == [revision |-> 0, model |-> DefaultModel, enabled |-> FALSE, key |-> "none", cred |-> 0, stored |-> FALSE]
FirstKey == [NoKey EXCEPT !.revision = 1, !.enabled = TRUE, !.key = CHOOSE k \in Key : TRUE, !.cred = 1, !.stored = TRUE]
\* The part of the row that the provider is asked with.
Asked(row) == [revision |-> row.revision, cred |-> row.cred, model |-> row.model, key |-> row.key]
NoTest == [pc |-> "idle", on |-> Asked(NoKey)]
Untested == [ok |-> FALSE, revision |-> 0, cred |-> 0, model |-> DefaultModel, key |-> "none"]
Unread == [revision |-> 0, cred |-> 0, model |-> DefaultModel, key |-> "none",
           pack |-> Template, packRevision |-> 0, text |-> "none", version |-> 0, content |-> "none"]
NoTask == [pc |-> "none", read |-> Unread]
Over == [pc |-> "over", read |-> Unread]
NoRecord == [status |-> "none", read |-> Unread]

\* A server that has imported its templates, and a customer who has set up
\* nothing, or has entered a key and assigned a published copy of the template.
Init ==
    /\ lastTest = Untested /\ test = NoTest
    /\ \E begun \in BOOLEAN :
          /\ connection = IF begun THEN FirstKey ELSE NoKey
          /\ revisions = [p \in Pack |-> IF p = Template \/ begun THEN <<[status |-> "published", text |-> Shipped]>> ELSE <<>>]
          /\ assigned = IF begun THEN [pack |-> Own, revision |-> 1] ELSE [pack |-> Template, revision |-> 0]
    /\ disabled = FALSE
    /\ story = (CHOOSE c \in Content : TRUE) /\ contexts = <<>>
    /\ switchedOn = TRUE
    /\ task = [s \in Slot |-> NoTask] /\ record = [s \in Slot |-> NoRecord]
    /\ events = 0

Happens == events < MaxEvents /\ events' = events + 1

-----------------------------------------------------------------------------
(* The connection: saved settings, the key, its revocation, the test.       *)

Saved == connection.revision > 0

\* save: only over the revision the Admin loaded (next_revision).
Save(model, enabled) ==
    /\ Happens
    /\ connection' = [connection EXCEPT !.revision = @ + 1, !.model = model, !.enabled = enabled]
    /\ UNCHANGED <<lastTest, test, packs, told, switchedOn, runs>>

\* save_credential: no revision is asked for; without a row it creates one.
SaveCredential(key) ==
    /\ Happens
    /\ connection' = [connection EXCEPT !.key = key, !.stored = TRUE, !.cred = @ + 1,
            !.revision = IF Saved THEN @ ELSE 1, !.enabled = IF Saved THEN @ ELSE TRUE]
    /\ UNCHANGED <<lastTest, test, packs, told, switchedOn, runs>>

RevokeCredential ==
    /\ Happens /\ connection.stored
    /\ connection' = [connection EXCEPT !.stored = FALSE]
    /\ UNCHANGED <<lastTest, test, packs, told, switchedOn, runs>>

\* test_connection: the row is read, and the provider asked outside any
\* transaction.
AskTest ==
    /\ test.pc = "idle" /\ Saved /\ connection.stored
    /\ test' = [pc |-> "asked", on |-> Asked(connection)]
    /\ UNCHANGED <<connection, lastTest, packs, told, switchedOn, runs, events>>

TestResult(ok, row) ==
    [ok |-> ok, revision |-> row.revision, cred |-> row.cred, model |-> test.on.model, key |-> test.on.key]

\* Broken variant: the result counts for the settings of the recording.
RecordForPresent(ok) ==
    /\ test.pc = "asked"
    /\ lastTest' = TestResult(ok, connection)
    /\ test' = NoTest
    /\ UNCHANGED <<connection, packs, told, switchedOn, runs, events>>

\* ... and the answer is filed under the revisions that were read.
RecordTest(ok) ==
    /\ test.pc = "asked"
    /\ lastTest' = TestResult(ok, test.on)
    /\ test' = NoTest
    /\ UNCHANGED <<connection, packs, told, switchedOn, runs, events>>

\* view
Tested == lastTest.ok /\ lastTest.revision = connection.revision /\ lastTest.cred = connection.cred

-----------------------------------------------------------------------------
(* Start-up Packs: drafts, publication, assignment.                         *)

Newest(p) == revisions[p][Len(revisions[p])]
Published(p, n) == n \in DOMAIN revisions[p] /\ revisions[p][n].status = "published"
Draft(x) == [status |-> "draft", text |-> x]

\* create_pack: a draft copy of any revision the customer can see.
CreatePack(p, n) ==
    /\ Happens /\ revisions[Own] = <<>> /\ n \in DOMAIN revisions[p]
    /\ revisions' = [revisions EXCEPT ![Own] = <<Draft(revisions[p][n].text)>>]
    /\ UNCHANGED <<settings, disabled, assigned, told, switchedOn, runs>>

\* Broken variant: the newest revision is edited, published or not.
EditNewest(x) ==
    /\ Happens /\ revisions[Own] # <<>>
    /\ revisions' = [revisions EXCEPT ![Own][Len(revisions[Own])].text = x]
    /\ UNCHANGED <<settings, disabled, assigned, told, switchedOn, runs>>

\* save_draft: the open draft, or a new one after the newest published.
SaveDraft(x) ==
    /\ Happens /\ revisions[Own] # <<>>
    /\ revisions' = [revisions EXCEPT ![Own] =
            IF Newest(Own).status = "draft" THEN [@ EXCEPT ![Len(@)] = Draft(x)] ELSE Append(@, Draft(x))]
    /\ UNCHANGED <<settings, disabled, assigned, told, switchedOn, runs>>

\* publish: the revision by its number, with the content it has by now.
Publish(n) ==
    /\ Happens /\ n \in DOMAIN revisions[Own] /\ revisions[Own][n].status = "draft"
    /\ revisions' = [revisions EXCEPT ![Own][n].status = "published"]
    /\ UNCHANGED <<settings, disabled, assigned, told, switchedOn, runs>>

\* assign: an earlier revision is the rollback.  (expected_version is the
\* Admin's choice to send: without it, and whenever it fits, this happens.)
Assign(p, n) ==
    /\ Happens /\ Published(p, n) /\ (p = Own => ~disabled)
    /\ assigned' = [pack |-> p, revision |-> n]
    /\ UNCHANGED <<settings, revisions, disabled, told, switchedOn, runs>>

Unassign ==
    /\ Happens /\ assigned.revision > 0
    /\ assigned' = [pack |-> Template, revision |-> 0]
    /\ UNCHANGED <<settings, revisions, disabled, told, switchedOn, runs>>

SetDisabled ==
    /\ Happens /\ revisions[Own] # <<>>
    /\ disabled' = ~disabled
    /\ UNCHANGED <<settings, revisions, assigned, told, switchedOn, runs>>

\* agent_settings.save
SetSwitch ==
    /\ Happens
    /\ switchedOn' = ~switchedOn
    /\ UNCHANGED <<settings, packs, told, runs>>

\* People and agents change what is on record of the story: its text, the
\* approvals, the design, the documents.
StoryMoves(c) ==
    /\ Happens /\ c # story
    /\ story' = c
    /\ UNCHANGED <<settings, packs, contexts, switchedOn, runs>>

-----------------------------------------------------------------------------
(* A run: asked for, prepared in two reads, recorded, finished.             *)

\* resolve_for_run.  It may also refuse for reasons kept out of the model:
\* the month's budget is used up, the key cannot be decrypted, the gateway's
\* address is wrong.
MayResolve == Saved /\ connection.enabled /\ connection.stored
MaySnapshot == Published(assigned.pack, assigned.revision) /\ (assigned.pack = Own => ~disabled)

\* The task goes on with what it has read.
Goes(s, pc, read) == task' = [task EXCEPT ![s] = [pc |-> pc, read |-> read]]

\* mark_blocked
Blocked(s) ==
    /\ record' = [record EXCEPT ![s].status = "blocked"]
    /\ task' = [task EXCEPT ![s] = Over]

\* require_enabled, require_ready: a switched-off agent is refused without a
\* record, a missing configuration with one.
Ask(s, ok) ==
    /\ task[s].pc = "none" /\ switchedOn
    /\ ok => MayResolve /\ MaySnapshot
    /\ IF ok THEN Goes(s, "accepted", Unread) /\ UNCHANGED record ELSE Blocked(s)
    /\ UNCHANGED <<settings, packs, told, switchedOn, events>>

\* prepare: the connection first ...
Resolve(s, ok) ==
    /\ task[s].pc = "accepted"
    /\ ok => MayResolve
    /\ IF ok
       THEN /\ Goes(s, "resolved", [Unread EXCEPT !.revision = connection.revision, !.cred = connection.cred,
                                                  !.model = connection.model, !.key = connection.key])
            /\ UNCHANGED record
       ELSE Blocked(s)
    /\ UNCHANGED <<settings, packs, told, switchedOn, events>>

\* ... then the pack of the role (packs.snapshot).
Snapshot(s) ==
    /\ task[s].pc = "resolved"
    /\ IF MaySnapshot
       THEN /\ Goes(s, "prepared", [task[s].read EXCEPT !.pack = assigned.pack, !.packRevision = assigned.revision,
                    !.text = revisions[assigned.pack][assigned.revision].text])
            /\ UNCHANGED record
       ELSE Blocked(s)
    /\ UNCHANGED <<settings, packs, told, switchedOn, events>>

\* context.build: the story's records, read outside the transaction ...
Build(s) ==
    /\ task[s].pc = "prepared"
    /\ Goes(s, "built", [task[s].read EXCEPT !.content = story])
    /\ UNCHANGED <<record, settings, packs, told, switchedOn, events>>

\* ... and stored under the version that says the same, or as the next one.
Versions(c) == IF \E v \in DOMAIN contexts : contexts[v] = c THEN contexts ELSE Append(contexts, c)

StorePackage(s) ==
    /\ task[s].pc = "built"
    /\ contexts' = Versions(task[s].read.content)
    /\ \E v \in DOMAIN contexts' :
          /\ contexts'[v] = task[s].read.content
          /\ Goes(s, "packaged", [task[s].read EXCEPT !.version = v])
    /\ UNCHANGED <<record, settings, packs, story, switchedOn, events>>

\* _insert: with what was read, whatever is configured by now.
Begin(s) ==
    /\ task[s].pc = "packaged"
    /\ Goes(s, "running", task[s].read)
    /\ record' = [record EXCEPT ![s] = [status |-> "running", read |-> task[s].read]]
    /\ UNCHANGED <<settings, packs, told, switchedOn, events>>

\* finish: once, by the way the task ends.
Finish(s, status) ==
    /\ task[s].pc = "running"
    /\ task' = [task EXCEPT ![s] = Over]
    /\ record' = [record EXCEPT ![s].status = status]
    /\ UNCHANGED <<settings, packs, told, switchedOn, events>>

\* ensure_templates: a changed definition is imported as the next revision.
Imported(x) ==
    IF Newest(Template).text = x THEN revisions
    ELSE [revisions EXCEPT ![Template] = Append(@, [status |-> "published", text |-> x])]

\* Broken variant: the start of the server leaves the records as they are.
ReconcileNothing == record

\* reconcile_interrupted
ReconcileInterrupted == [s \in Slot |-> IF record[s].status = "running" THEN [record[s] EXCEPT !.status = "failed"] ELSE record[s]]

\* A restart, possibly with a new version of the shipped definitions.
Restart(x) ==
    /\ Happens
    /\ revisions' = Imported(x)
    /\ record' = ReconcileInterrupted
    /\ task' = [s \in Slot |-> IF task[s].pc = "none" THEN NoTask ELSE Over]
    /\ test' = NoTest
    /\ UNCHANGED <<connection, lastTest, disabled, assigned, told, switchedOn>>

AdminStep ==
    \/ \E m \in Model, on \in BOOLEAN : Save(m, on)
    \/ \E k \in Key : SaveCredential(k)
    \/ RevokeCredential \/ AskTest \/ \E ok \in BOOLEAN : RecordTest(ok)
    \/ \E p \in Pack : \E n \in DOMAIN revisions[p] : CreatePack(p, n) \/ Assign(p, n)
    \/ \E x \in Text : SaveDraft(x)
    \/ \E n \in DOMAIN revisions[Own] : Publish(n)
    \/ Unassign \/ SetDisabled \/ SetSwitch
    \/ \E c \in Content : StoryMoves(c)

RunStep(s) ==
    \/ \E ok \in BOOLEAN : Resolve(s, ok)
    \/ Snapshot(s) \/ Build(s) \/ StorePackage(s) \/ Begin(s)
    \/ \E status \in {"completed", "failed"} : Finish(s, status)

Next ==
    \/ AdminStep
    \/ \E s \in Slot : RunStep(s) \/ \E ok \in BOOLEAN : Ask(s, ok)
    \/ \E x \in Text : Restart(x)

Spec == Init /\ [][Next]_vars

\* A background task keeps going: its turns and its budget are limited, the
\* provider's answers have timeouts.
FairSpec == Spec /\ \A s \in Slot : WF_vars(RunStep(s))

-----------------------------------------------------------------------------
\* Types of the rows and of the tasks working on them.
Read == [revision : Nat, cred : Nat, model : Model, key : Key \cup {"none"},
         pack : Pack, packRevision : Nat, text : Text \cup {"none"},
         version : Nat, content : Content \cup {"none"}]
TypeOK ==
    /\ connection \in [revision : Nat, model : Model, enabled : BOOLEAN, key : Key \cup {"none"}, cred : Nat, stored : BOOLEAN]
    /\ lastTest \in [ok : BOOLEAN, revision : Nat, cred : Nat, model : Model, key : Key \cup {"none"}]
    /\ test \in [pc : {"idle", "asked"}, on : [revision : Nat, cred : Nat, model : Model, key : Key \cup {"none"}]]
    /\ revisions \in [Pack -> Seq([status : {"draft", "published"}, text : Text])]
    /\ revisions[Template] # <<>>
    /\ disabled \in BOOLEAN /\ switchedOn \in BOOLEAN
    /\ assigned \in [pack : Pack, revision : Nat]
    /\ story \in Content /\ contexts \in Seq(Content)
    /\ task \in [Slot -> [pc : {"none", "accepted", "resolved", "prepared", "built", "packaged", "running", "over"}, read : Read]]
    /\ record \in [Slot -> [status : {"none", "blocked", "running", "completed", "failed"}, read : Read]]
    /\ events \in 0 .. MaxEvents

\* A connection shown as tested was answered for with the model and the key
\* that are stored now, whatever was saved while the provider was asked
\* (test_connection, view).
TestedThis == Tested => lastTest.model = connection.model /\ lastTest.key = connection.key

\* What a run's record says it ran with can be told from it for good: the
\* pack's revision is published with the content the run was given, the
\* version of the context holds what it was told of the story, and a revision
\* of the settings or of the key names one model and one key (_insert, save,
\* save_credential, save_draft, context.snapshot).
RecordsTell ==
    /\ \A s \in Slot : LET r == record[s].read IN record[s].status \in {"running", "completed", "failed"} =>
            /\ Published(r.pack, r.packRevision)
            /\ revisions[r.pack][r.packRevision].text = r.text
            /\ contexts[r.version] = r.content
    /\ \A s \in Slot : LET r == record[s].read IN
            /\ r.revision = connection.revision => r.model = connection.model
            /\ r.cred = connection.cred => r.key = connection.key

\* A run recorded as running comes to an end on its record, through restarts
\* too (reconcile_interrupted).
RunsEnd == \A s \in Slot : record[s].status = "running" ~> record[s].status # "running"
=============================================================================
