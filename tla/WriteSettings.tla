--------------------------- MODULE WriteSettings ---------------------------
(***************************************************************************)
(* The settings agents write to DEV with, next to the read connection of   *)
(* ReadConnection: executors/settings.py, checks.py and routes.py behind    *)
(* routers/jde_execution.py.                                               *)
(*                                                                         *)
(* The write user signs in at the AIS address of the read connection, so   *)
(* every save, test and route reads both rows, in transactions of their    *)
(* own.  The settings tests keep the material they began with and file     *)
(* their results under it.                                                 *)
(***************************************************************************)
EXTENDS Integers, ReadConnection

CONSTANT MaxWrite       \* bound: passwords saved for the write user

ASSUME WriteBound == MaxWrite \in Nat

Route == {"ais", "web"}

VARIABLES
    writer,     \* the row of jde_execution_settings
    tests,      \* its health: the last sign-in test per route, when it was ok
    save,       \* a save of the write user between its reads and its transaction
    trial       \* the settings test under way

settings == <<writer, tests, save, trial>>
writeVars == <<connection, settings>>

WriteMaterial == [profile : Config \cup {NoConfig}, web : BOOLEAN, cred : 0 .. MaxWrite]
NoWriteMaterial == [profile |-> NoConfig, web |-> FALSE, cred |-> 0]
NotOk == [of |-> NoWriteMaterial, ran |-> 0]
NoTrial == [pc |-> "idle", on |-> NoWriteMaterial, ran |-> [r \in Route |-> 0]]

WriteInit ==
    /\ ConnectionInit
    /\ writer = [saved |-> FALSE, web |-> FALSE, cred |-> 0, bound |-> "none", on |-> TRUE]
    /\ tests = [r \in Route |-> NotOk]
    /\ save = [pc |-> "idle", destination |-> "none"]
    /\ trial = NoTrial

\* current_hash
WriteNow == [profile |-> config, web |-> writer.web, cred |-> writer.cred]

\* write_credential, credential_storage
WriteUserUsable == writer.cred > 0 /\ writer.bound = config.address

\* check_state
TestedOk(r) == tests[r].ran > 0 /\ tests[r].of = WriteNow

\* readiness: may an agent take this route now?
Ready(r) ==
    /\ writer.saved /\ writer.on
    /\ WriteUserUsable /\ DiscoveryActive
    /\ r = "web" => writer.web
    /\ TestedOk(r)

SaveSettings(web) ==
    /\ writer' = [writer EXCEPT !.saved = TRUE, !.web = web]
    /\ UNCHANGED <<connection, tests, save, trial>>

\* save_credential: where the password goes is read before its transaction.
AskWriteUser ==
    /\ save.pc = "idle" /\ Configured
    /\ save' = [pc |-> "save", destination |-> config.address]
    /\ UNCHANGED <<connection, writer, tests, trial>>

SaveWriteUser ==
    /\ save.pc = "save"
    /\ writer' = IF writer.saved /\ writer.cred < MaxWrite
                 THEN [writer EXCEPT !.cred = @ + 1, !.bound = save.destination]
                 ELSE writer
    /\ save' = [pc |-> "idle", destination |-> "none"]
    /\ UNCHANGED <<connection, tests, trial>>

SetSwitch ==
    /\ writer.saved
    /\ writer' = [writer EXCEPT !.on = ~@]
    /\ UNCHANGED <<connection, tests, save, trial>>

(***************************************************************************)
(* Test settings: the material of now, the sign-in at AIS, the sign-in in  *)
(* the browser, and then the two results.                                  *)
(***************************************************************************)
AskTrial ==
    /\ trial.pc = "idle" /\ writer.saved
    /\ trial' = [NoTrial EXCEPT !.pc = "ais", !.on = WriteNow]
    /\ UNCHANGED <<connection, writer, tests, save>>

\* Both sign-ins read the password when they need it.
SignIn(r, next, ok) ==
    /\ trial.pc = r
    /\ ok => WriteUserUsable /\ (r = "web" => trial.on.web /\ writer.web)
    /\ trial' = [trial EXCEPT !.pc = next, !.ran[r] = IF ok THEN writer.cred ELSE 0]
    /\ UNCHANGED <<connection, writer, tests, save>>

\* Broken variant: the results count for the settings of the recording.
RecordUnderPresent(r, pc, next) ==
    /\ trial.pc = pc
    /\ tests' = [tests EXCEPT ![r] = IF trial.ran[r] = 0 THEN NotOk ELSE [of |-> WriteNow, ran |-> trial.ran[r]]]
    /\ trial' = IF next = "idle" THEN NoTrial ELSE [trial EXCEPT !.pc = next]
    /\ UNCHANGED <<connection, writer, save>>

\* record_check with tested_hash
RecordTrial(r, pc, next) ==
    /\ trial.pc = pc
    /\ tests' = [tests EXCEPT ![r] = IF trial.ran[r] = 0 THEN NotOk ELSE [of |-> trial.on, ran |-> trial.ran[r]]]
    /\ trial' = IF next = "idle" THEN NoTrial ELSE [trial EXCEPT !.pc = next]
    /\ UNCHANGED <<connection, writer, save>>

RestartWrites ==
    /\ save' = [pc |-> "idle", destination |-> "none"]
    /\ trial' = NoTrial
    /\ UNCHANGED <<connection, writer, tests>>

WriteSteps ==
    \/ \E web \in BOOLEAN : SaveSettings(web)
    \/ AskWriteUser \/ SaveWriteUser \/ SetSwitch \/ AskTrial
    \/ \E ok \in BOOLEAN : SignIn("ais", "web", ok) \/ SignIn("web", "record_ais", ok)
    \/ RecordTrial("ais", "record_ais", "record_web") \/ RecordTrial("web", "record_web", "idle")

WriteNext ==
    \/ ConnectionNext /\ UNCHANGED settings
    \/ WriteSteps
    \/ RestartWrites

WriteSpec == WriteInit /\ [][WriteNext]_writeVars

-----------------------------------------------------------------------------
\* Types of both rows and of what is under way on them; a saved password is
\* bound to an address.
WritesTyped ==
    /\ config \in Config \cup {NoConfig}
    /\ looked \in BOOLEAN /\ enabled \in BOOLEAN /\ disabled \in BOOLEAN
    /\ writer \in [saved : BOOLEAN, web : BOOLEAN, cred : 0 .. MaxWrite, bound : Address \cup {"none"},
            on : BOOLEAN]
    /\ writer.cred > 0 => writer.bound \in Address
    /\ tests \in [Route -> [of : WriteMaterial, ran : 0 .. MaxWrite]]
    /\ save \in [pc : {"idle", "save"}, destination : Address \cup {"none"}]
    /\ trial \in [pc : {"idle", "ais", "web", "record_ais", "record_web"}, on : WriteMaterial, ran : [Route -> 0 .. MaxWrite]]

\* A route an agent may take was signed in to with the password that is
\* saved now, whatever was saved while the test ran (record_check,
\* tested_hash).
ReadyWithThisPassword == \A r \in Route : Ready(r) => tests[r].ran = writer.cred
=============================================================================
