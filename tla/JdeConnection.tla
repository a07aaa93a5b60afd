--------------------------- MODULE JdeConnection ---------------------------
(***************************************************************************)
(* A customer's read connection to JD Edwards: discovery/profile_service   *)
(* .py, discovery/service.py, transport.py, and the routes in front of     *)
(* them.                                                                   *)
(*                                                                         *)
(* Saving, disabling and recording a check are transactions; a connection  *)
(* test and a read take several, with calls to JD Edwards between, and     *)
(* keep what they read at the start.  A refusal that changes nothing       *)
(* (outside the window, breaker open, wrong revision, lock busy) is not a  *)
(* step: the request might as well not have been made.  The approved       *)
(* sample read is the one of the environment master, F00941.               *)
(***************************************************************************)
EXTENDS Integers, ConnectionSettings

CONSTANTS
    Call,           \* requests and agents' reads the service works on
    MaxRevision     \* bound: saves of the profile and its credential

ASSUME RevisionBound == MaxRevision \in Nat
ASSUME NoneIsNoAddress == "none" \notin Address

VARIABLES
    profile,    \* the row of jde_profiles, without its checks
    health,     \* its checks, each with the material it is filed under
    lock,       \* _lock_for: the call that talks to JD Edwards
    call

vars == <<profile, health, lock, call>>

Material == [config : Config \cup {NoConfig}, cred : 0 .. MaxRevision]
NoMaterial == [config |-> NoConfig, cred |-> 0]
Check == {"reachability", "authentication", "environment", "approved_read", "path_code"}

Verdict == {"ok", "failed", "foreign"}

\* What LiveAisTransport makes of a request: answered as asked, or not.
Answered == BOOLEAN

\* material_hash: equal for equal settings and the same credential.
MaterialOf(p) == [config |-> p.config, cred |-> p.cred]
Now == MaterialOf(profile)

Unknown == [state |-> "unknown", of |-> NoMaterial, ran |-> FALSE]
Failed == [Unknown EXCEPT !.state = "failed"]
Idle == [pc |-> "idle", kind |-> "none", on |-> NoMaterial, rev |-> 0]
Free == "free"

Init ==
    /\ profile = [rev |-> 0, config |-> NoConfig, cred |-> 0, bound |-> "none", enabled |-> FALSE,
                  enabledOf |-> NoMaterial, disabled |-> FALSE]
    /\ health = [k \in Check |-> Unknown]
    /\ lock = Free
    /\ call = [c \in Call |-> Idle]

Exists == profile.rev > 0

\* _current: a check counts for the material it is filed under.
OkNow(check) == health[check].state = "ok" /\ health[check].of = Now

\* credential and credential_bound.
Usable == profile.cred > 0 /\ profile.bound = profile.config.address

IsActive == profile.enabled /\ ~profile.disabled /\ profile.enabledOf = Now

Off(p) == [p EXCEPT !.enabled = FALSE, !.enabledOf = NoMaterial]
To(c, pc) == call' = [call EXCEPT ![c].pc = pc]
Done(c) == call' = [call EXCEPT ![c] = Idle]
Release(c) == lock' = IF lock = c THEN Free ELSE lock

(***************************************************************************)
(* Saving.  Every save counts up the revision; a material one switches     *)
(* discovery off.                                                          *)
(***************************************************************************)
Save(new) ==
    /\ profile.rev < MaxRevision
    /\ LET saved == [profile EXCEPT !.rev = @ + 1, !.config = new]
       IN profile' = IF MaterialOf(saved) # Now THEN Off(saved) ELSE saved
    /\ UNCHANGED <<health, lock, call>>

\* Broken variant: a new password keeps the revision.
SaveCredentialQuietly ==
    /\ Exists /\ profile.rev < MaxRevision /\ profile.cred < MaxRevision
    /\ profile' = Off([profile EXCEPT !.cred = @ + 1, !.bound = profile.config.address])
    /\ UNCHANGED <<health, lock, call>>

SaveCredential ==
    /\ Exists /\ profile.rev < MaxRevision
    /\ profile' = Off([profile EXCEPT !.rev = @ + 1, !.cred = @ + 1, !.bound = profile.config.address])
    /\ UNCHANGED <<health, lock, call>>

\* record_check: whatever was tested, the result is filed under the material
\* of the row as it is by now.  ran says whether the test used that, for the
\* properties.
RecordCheck(check, ok, on) ==
    health' = [health EXCEPT ![check] = IF ok THEN [state |-> "ok", of |-> Now, ran |-> on = Now] ELSE Failed]

(***************************************************************************)
(* Test Connection: the address and settings of the profile read first,    *)
(* the password read when it is needed.                                    *)
(***************************************************************************)
AskTest(c) ==
    /\ Exists /\ call[c] = Idle
    /\ call' = [call EXCEPT ![c] = [Idle EXCEPT !.pc = "wait", !.kind = "test", !.on.config = profile.config]]
    /\ UNCHANGED <<profile, health, lock>>

BeginTest(c) ==
    /\ call[c].pc = "wait" /\ call[c].kind = "test"
    /\ lock = Free
    /\ lock' = c
    /\ To(c, "reach")
    /\ UNCHANGED <<profile, health>>

\* A step of a test that records its check and ends the test when it failed.
TestStep(c, pc, check, ok, next) ==
    /\ call[c].pc = pc
    /\ RecordCheck(check, ok, [call[c].on EXCEPT !.cred = IF pc = "reach" THEN profile.cred ELSE @])
    /\ IF ok THEN To(c, next) /\ UNCHANGED lock ELSE Done(c) /\ Release(c)
    /\ UNCHANGED profile

Reach(c, ok) == TestStep(c, "reach", "reachability", ok, "password")

ReadPassword(c) ==
    /\ call[c].pc = "password"
    /\ IF Usable
       THEN /\ call' = [call EXCEPT ![c].pc = IF call[c].kind = "test" THEN "authenticate" ELSE "send",
                                    ![c].on.cred = profile.cred]
            /\ UNCHANGED <<health, lock>>
       ELSE /\ Done(c) /\ Release(c)
            /\ CASE call[c].kind = "test" -> RecordCheck("authentication", FALSE, call[c].on)
                 [] call[c].kind = "sample" -> RecordCheck("approved_read", FALSE, call[c].on)
                 [] OTHER -> UNCHANGED health
    /\ UNCHANGED profile

Authenticate(c, ok) == TestStep(c, "authenticate", "authentication", ok, "defaults")

\* The server's defaults are read and the lock is given back.
ReadDefaults(c, ok) ==
    /\ call[c].pc = "defaults"
    /\ Release(c)
    /\ IF ok THEN To(c, "verify") /\ UNCHANGED health
             ELSE Done(c) /\ RecordCheck("environment", FALSE, call[c].on)
    /\ UNCHANGED profile

\* verify_environment on what the session and the server said: "foreign"
\* when nothing but the session's environment differs or is not stated.
VerifyEnvironment(c, verdict) ==
    /\ call[c].pc = "verify"
    /\ IF verdict = "ok"
       THEN RecordCheck("environment", TRUE, call[c].on) /\ To(c, "clear")
       ELSE health' = [health EXCEPT !["environment"] = [Unknown EXCEPT !.state = verdict]] /\ Done(c)
    /\ UNCHANGED <<profile, lock>>

ClearDisabled(c) ==
    /\ call[c].pc = "clear"
    /\ profile' = [profile EXCEPT !.disabled = FALSE]
    /\ Done(c)
    /\ UNCHANGED <<health, lock>>

(***************************************************************************)
(* Reads.  An Admin's sample read works on a tested connection, an agent's *)
(* read on a grant for one revision of an active profile.  Both validate   *)
(* again once they hold the lock.                                          *)
(***************************************************************************)
AskSample(c) ==
    /\ Exists /\ call[c] = Idle
    /\ OkNow("reachability") /\ OkNow("authentication") /\ health["environment"].state \in {"ok", "foreign"}
    /\ call' = [call EXCEPT ![c] = [Idle EXCEPT !.pc = "wait", !.kind = "sample"]]
    /\ UNCHANGED <<profile, health, lock>>

\* grant_for_story: the revision the run may read under.
Grant(c) ==
    /\ IsActive /\ call[c] = Idle
    /\ call' = [call EXCEPT ![c] = [Idle EXCEPT !.pc = "wait", !.kind = "story", !.rev = profile.rev]]
    /\ UNCHANGED <<profile, health, lock>>

\* validate, with and without require_enabled.
Valid(c) ==
    /\ ~profile.disabled
    /\ call[c].kind = "story" => IsActive /\ profile.rev = call[c].rev /\ OkNow("approved_read")

BeginRead(c) ==
    /\ call[c].pc = "wait" /\ call[c].kind \in {"sample", "story"}
    /\ lock = Free /\ Valid(c)
    /\ lock' = c
    /\ call' = [call EXCEPT ![c].pc = "password", ![c].on.config = profile.config, ![c].rev = profile.rev]
    /\ UNCHANGED <<profile, health>>

\* Refused or timed out while it waits.
GiveUp(c) ==
    /\ call[c].pc = "wait"
    /\ Done(c)
    /\ IF call[c].kind = "sample" THEN RecordCheck("approved_read", FALSE, call[c].on) ELSE UNCHANGED health
    /\ UNCHANGED <<profile, lock>>

Send(c, ok) ==
    /\ call[c].pc = "send"
    /\ Release(c)
    /\ IF ok THEN To(c, "store") ELSE Done(c)
    /\ IF ~ok /\ call[c].kind = "sample" THEN RecordCheck("approved_read", FALSE, call[c].on) ELSE UNCHANGED health
    /\ UNCHANGED profile

\* The observation is stored with the revision of the profile it was read under.
StoreObservation(c) ==
    /\ call[c].pc = "store"
    /\ IF call[c].kind = "sample" THEN To(c, "approve") ELSE Done(c)
    /\ UNCHANGED <<profile, health, lock>>

ApproveRead(c) == TestStep(c, "approve", "approved_read", TRUE, "path")

\* _record_path_code, from the rows of F00941.
RecordPathCode(c, ok) ==
    /\ call[c].pc = "path"
    /\ RecordCheck("path_code", ok, call[c].on)
    /\ Done(c)
    /\ UNCHANGED <<profile, lock>>

(***************************************************************************)
(* Enable Discovery looks for blockers first and writes afterwards.        *)
(* Disable clears every check.                                             *)
(***************************************************************************)
NoBlockers == Usable /\ ~profile.disabled /\ \A k \in Check : OkNow(k)

AskEnable(c) ==
    /\ Exists /\ call[c] = Idle
    /\ NoBlockers
    /\ call' = [call EXCEPT ![c] = [Idle EXCEPT !.pc = "enable", !.rev = profile.rev]]
    /\ UNCHANGED <<profile, health, lock>>

\* Broken variant: the revision that was looked at is not asked for again.
EnableAnyRevision(c) ==
    /\ call[c].pc = "enable"
    /\ profile' = [profile EXCEPT !.enabled = TRUE, !.enabledOf = Now]
    /\ Done(c)
    /\ UNCHANGED <<health, lock>>

Enable(c) ==
    /\ call[c].pc = "enable"
    /\ profile' = IF profile.rev = call[c].rev
                  THEN [profile EXCEPT !.enabled = TRUE, !.enabledOf = Now]
                  ELSE profile
    /\ Done(c)
    /\ UNCHANGED <<health, lock>>

Disable ==
    /\ Exists
    /\ profile' = Off([profile EXCEPT !.disabled = TRUE])
    /\ health' = [k \in Check |-> Unknown]
    /\ UNCHANGED <<lock, call>>

\* The process ends: its calls and its lock are gone.
Restart ==
    /\ lock' = Free
    /\ call' = [c \in Call |-> Idle]
    /\ UNCHANGED <<profile, health>>

\* The steps of one request: a test, a read or Enable.
CallStep(c) ==
    \/ AskTest(c) \/ BeginTest(c) \/ ReadPassword(c) \/ ClearDisabled(c)
    \/ \E ok \in Answered : Reach(c, ok) \/ Authenticate(c, ok) \/ ReadDefaults(c, ok)
    \/ \E verdict \in Verdict : VerifyEnvironment(c, verdict)
    \/ AskSample(c) \/ Grant(c) \/ BeginRead(c) \/ GiveUp(c) \/ StoreObservation(c) \/ ApproveRead(c)
    \/ \E ok \in Answered : Send(c, ok) \/ RecordPathCode(c, ok)
    \/ AskEnable(c) \/ Enable(c)

\* save_profile and save_credential, by an Admin.
SaveStep == SaveCredential \/ \E new \in Config : Save(new)

Next ==
    \/ SaveStep \/ Disable \/ Restart
    \/ \E c \in Call : CallStep(c)

Spec == Init /\ [][Next]_vars

-----------------------------------------------------------------------------
Entry == [state : {"unknown"} \cup Verdict, of : Material, ran : BOOLEAN]

\* Types of the profile, its checks and the calls.
TypeOK ==
    /\ profile \in [rev : 0 .. MaxRevision, config : Config \cup {NoConfig}, cred : 0 .. MaxRevision,
            bound : Address \cup {"none"}, enabled : BOOLEAN, enabledOf : Material,
            disabled : BOOLEAN]
    /\ health \in [Check -> Entry]
    /\ lock \in Call \cup {Free}
    /\ call \in [Call -> [pc : {"idle", "wait", "reach", "password", "authenticate", "defaults", "verify", "clear",
            "send", "store", "approve", "path", "enable"},
            kind : {"none", "test", "sample", "story"}, on : Material, rev : 0 .. MaxRevision]]

\* What is promised to the rest of the backend: discovery is enabled only
\* by a request that looked at the revision it enables, with whatever saved,
\* tested or disabled in between, and a material change switches it off.
Connection == INSTANCE ReadConnection WITH
    config <- profile.config,
    looked <- \E c \in Call : call[c].pc = "enable" /\ call[c].rev = profile.rev,
    enabled <- profile.enabled /\ profile.enabledOf = Now,
    disabled <- profile.disabled

KeepsItsPromise == Connection!ConnectionSpec

\* Evidence that is stored under the profile's present revision was read
\* with the present settings and the present password (execute_read).
EvidenceOfItsRevision ==
    \A c \in Call : call[c].pc = "store" /\ call[c].rev = profile.rev => call[c].on = Now

\* Discovery is only active on checks that ran against the present settings
\* and password (profile_service.py:11-14).  It does not hold: a test that
\* was begun before a save files its result under the saved settings.
ActiveWasVerified == IsActive => \A k \in Check : OkNow(k) => health[k].ran

\* A password is sent only to the address it was entered for
\* (profile_service.py:187).  It does not hold: a call keeps the address of
\* the profile it read first and takes the password of the saved one.
PasswordWhereEntered ==
    \A c \in Call : call[c].pc \in {"authenticate", "send"} /\ call[c].on.cred = profile.cred
        => call[c].on.config.address = profile.bound
=============================================================================
