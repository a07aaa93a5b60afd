------------------------- MODULE Connections_proofs -------------------------
(***************************************************************************)
(* What holds of a customer's connections to JD Edwards, for every set of  *)
(* addresses, settings and concurrent calls and every bound on the saves:  *)
(* the read connection (JdeConnection) and the settings agents write with  *)
(* next to it (WriteSettings).                                             *)
(*                                                                         *)
(* The read connection: a call never knows a later revision than the row   *)
(* has (RevisionsInv), and every save counts the revision up, so a call    *)
(* that still carries the row's revision works with what the row says      *)
(* (CallInv).  The refinement of ReadConnection rests on the same: a       *)
(* request to enable that saw an older revision is no longer one that      *)
(* looked.                                                                 *)
(*                                                                         *)
(* The write settings stand on any read connection that does what          *)
(* ReadConnection allows.  A settings test begins with the material of the *)
(* moment and signs in with whatever password is saved by then.  Passwords *)
(* are only ever counted up, so the one it signed in with lies between the *)
(* one it began with and the one that is saved (TrialInv, TestsInv); a     *)
(* result filed under the material of now leaves no room between the two.  *)
(***************************************************************************)
EXTENDS JdeConnection, WriteSettings, TLAPS

CallType == [pc : {"idle", "wait", "reach", "password", "authenticate", "defaults", "verify", "clear",
                   "send", "store", "approve", "path", "enable"},
             kind : {"none", "test", "sample", "story"}, on : Material, rev : 0 .. MaxRevision]

ProfileType == [rev : 0 .. MaxRevision, config : Config \cup {NoConfig}, cred : 0 .. MaxRevision,
                bound : Address \cup {"none"}, enabled : BOOLEAN, enabledOf : Material,
                disabled : BOOLEAN]

\* Saves count up the revision, and there are settings from the first one on.
RevisionsInv ==
    /\ profile.cred <= profile.rev
    /\ Exists => profile.config \in Config
    /\ \A c \in Call : call[c].rev <= profile.rev

\* A read that carries the row's revision has the row's settings and, once it
\* has read the password, the row's password.
CallInv(c) ==
    /\ call[c].pc \in {"reach", "authenticate", "defaults", "verify", "clear"} => call[c].kind = "test"
    /\ call[c].pc = "password" /\ call[c].kind # "test" /\ call[c].rev = profile.rev
         => call[c].on.config = profile.config
    /\ call[c].pc \in {"send", "store"} /\ call[c].rev = profile.rev => call[c].on = Now

CallsInv == \A c \in Call : CallInv(c)

IInv == TypeOK /\ RevisionsInv /\ CallsInv

-----------------------------------------------------------------------------
LEMMA NowIsMaterial == TypeOK => Now \in Material
  BY DEF TypeOK, Now, MaterialOf, Material

LEMMA Constants ==
    /\ NoMaterial \in Material
    /\ Idle \in CallType
    /\ Unknown \in Entry /\ Failed \in Entry
<1>1. NoMaterial \in Material
  BY RevisionBound DEF NoMaterial, Material
<1>2. Idle \in CallType
  BY <1>1, RevisionBound DEF Idle, CallType
<1>3. Unknown \in Entry /\ Failed \in Entry
  BY <1>1 DEF Unknown, Failed, Entry, Verdict
<1> QED BY <1>1, <1>2, <1>3

\* A check is filed under the row's material or as failed.
LEMMA RecordedType ==
    ASSUME TypeOK, NEW check \in Check, NEW ok, NEW on, RecordCheck(check, ok, on)
    PROVE  health' \in [Check -> Entry]
<1>1. [state |-> "ok", of |-> Now, ran |-> on = Now] \in Entry
  BY NowIsMaterial DEF Entry, Verdict
<1>2. health \in [Check -> Entry]
  BY DEF TypeOK, Entry
<1> QED BY <1>1, <1>2, Constants DEF RecordCheck

Step == {"idle", "wait", "reach", "password", "authenticate", "defaults", "verify", "clear",
         "send", "store", "approve", "path", "enable"}

LEMMA ToType ==
    ASSUME TypeOK, NEW c \in Call, NEW pc \in Step, To(c, pc)
    PROVE  call' \in [Call -> CallType]
  BY DEF TypeOK, To, CallType, Step

LEMMA DoneType ==
    ASSUME TypeOK, NEW c \in Call, Done(c)
    PROVE  call' \in [Call -> CallType]
  BY Constants DEF TypeOK, Done, CallType

LEMMA ReleaseType ==
    ASSUME TypeOK, NEW c \in Call, Release(c)
    PROVE  lock' \in Call \cup {Free}
  BY DEF TypeOK, Release

\* A step of a test or of a finished sample read.
LEMMA TestStepType ==
    ASSUME TypeOK, NEW c \in Call, NEW pc, NEW check \in Check, NEW ok, NEW next \in Step,
           TestStep(c, pc, check, ok, next)
    PROVE  TypeOK'
<1>1. call' \in [Call -> CallType]
  BY ToType, DoneType DEF TestStep
<1>2. lock' \in Call \cup {Free}
  BY ReleaseType DEF TestStep, TypeOK
<1>3. health' \in [Check -> Entry]
  <2> DEFINE on == [call[c].on EXCEPT !.cred = IF pc = "reach" THEN profile.cred ELSE @]
  <2>1. RecordCheck(check, ok, on)
    BY DEF TestStep
  <2> HIDE DEF on
  <2> QED BY <2>1, RecordedType
<1>4. profile' = profile
  BY DEF TestStep
<1> QED BY <1>1, <1>2, <1>3, <1>4 DEF TypeOK, CallType

LEMMA TypeStep == TypeOK /\ RevisionsInv /\ [Next]_vars => TypeOK'
<1> SUFFICES ASSUME TypeOK, RevisionsInv, [Next]_vars PROVE TypeOK'
  OBVIOUS
<1> USE DEF CallType
<1>1. CASE SaveStep
  <2>1. profile.rev + 1 \in 0 .. MaxRevision /\ profile.cred + 1 \in 0 .. MaxRevision
    <3>1. profile.rev \in 0 .. MaxRevision /\ profile.cred \in 0 .. MaxRevision
      BY DEF TypeOK
    <3>2. profile.rev < MaxRevision /\ profile.cred <= profile.rev
      BY <1>1 DEF SaveStep, Save, SaveCredential, RevisionsInv
    <3> QED BY <3>1, <3>2, RevisionBound
  <2>2. CASE SaveCredential
    <3>1. profile' \in ProfileType
      BY <2>1, <2>2, Constants DEF SaveCredential, Off, TypeOK, ProfileType, Exists, RevisionsInv, Config
    <3> QED BY <3>1, <2>2 DEF SaveCredential, TypeOK, ProfileType
  <2>3. ASSUME NEW new \in Config, Save(new) PROVE TypeOK'
    <3>1. profile' \in ProfileType
      BY <2>1, <2>3, Constants DEF Save, Off, TypeOK, ProfileType
    <3> QED BY <3>1, <2>3 DEF Save, TypeOK, ProfileType
  <2> QED BY <1>1, <2>2, <2>3 DEF SaveStep
<1>2. CASE Disable
  <2>1. profile' \in ProfileType
    BY <1>2, Constants DEF Disable, Off, TypeOK, ProfileType
  <2>2. health' \in [Check -> Entry]
    BY <1>2, Constants DEF Disable
  <2> QED BY <1>2, <2>1, <2>2 DEF Disable, TypeOK, ProfileType
<1>3. CASE Restart
  BY <1>3, Constants DEF Restart, TypeOK
<1>4. ASSUME NEW c \in Call, CallStep(c) PROVE TypeOK'
  <2>1. CASE AskTest(c) \/ AskSample(c) \/ Grant(c) \/ AskEnable(c)
    <3>1. call' \in [Call -> CallType]
      <4>1. CASE AskTest(c)
        <5>1. [Idle EXCEPT !.pc = "wait", !.kind = "test", !.on.config = profile.config] \in CallType
          BY Constants DEF TypeOK, Material, Idle
        <5> QED BY <4>1, <5>1 DEF AskTest, TypeOK
      <4>2. CASE AskSample(c) \/ Grant(c) \/ AskEnable(c)
        <5>1. Idle \in CallType /\ profile.rev \in 0 .. MaxRevision
          BY Constants DEF TypeOK
        <5>2. /\ [Idle EXCEPT !.pc = "wait", !.kind = "sample"] \in CallType
              /\ [Idle EXCEPT !.pc = "wait", !.kind = "story", !.rev = profile.rev] \in CallType
              /\ [Idle EXCEPT !.pc = "enable", !.rev = profile.rev] \in CallType
          BY <5>1
        <5> HIDE DEF CallType
        <5>3. call \in [Call -> CallType]
          BY DEF TypeOK, CallType
        <5> QED BY <4>2, <5>2, <5>3 DEF AskSample, Grant, AskEnable
      <4> QED BY <2>1, <4>1, <4>2
    <3> QED BY <2>1, <3>1 DEF AskTest, AskSample, Grant, AskEnable, TypeOK
  <2>2. CASE BeginTest(c)
    BY <2>2, ToType DEF BeginTest, TypeOK, Step
  <2>3. CASE ReadPassword(c)
    <3>1. call' \in [Call -> CallType]
      <4>1. CASE Usable
        BY <2>3, <4>1 DEF ReadPassword, TypeOK, Material
      <4>2. CASE ~Usable
        BY <2>3, <4>2, DoneType DEF ReadPassword
      <4> QED BY <4>1, <4>2
    <3>2. lock' \in Call \cup {Free}
      BY <2>3, ReleaseType DEF ReadPassword, TypeOK
    <3>3. health' \in [Check -> Entry]
      <4>1. CASE health' = health
        BY <4>1 DEF TypeOK
      <4>2. CASE \E check \in Check : RecordCheck(check, FALSE, call[c].on)
        BY <4>2, RecordedType
      <4> QED BY <2>3, <4>1, <4>2 DEF ReadPassword, Check
    <3> QED BY <2>3, <3>1, <3>2, <3>3 DEF ReadPassword, TypeOK
  <2>4. CASE ClearDisabled(c)
    <3>1. profile' \in ProfileType
      BY <2>4 DEF ClearDisabled, TypeOK, ProfileType
    <3> QED BY <2>4, <3>1, DoneType DEF ClearDisabled, TypeOK, ProfileType
  <2>5. ASSUME NEW ok \in Answered, Reach(c, ok) \/ Authenticate(c, ok) PROVE TypeOK'
    BY <2>5, TestStepType DEF Reach, Authenticate, Check, Step
  <2>6. ASSUME NEW ok \in Answered, ReadDefaults(c, ok) PROVE TypeOK'
    <3>1. call' \in [Call -> CallType]
      BY <2>6, ToType, DoneType DEF ReadDefaults, Step
    <3>2. health' \in [Check -> Entry]
      BY <2>6, RecordedType DEF ReadDefaults, Check, TypeOK, Entry
    <3> QED BY <2>6, <3>1, <3>2, ReleaseType DEF ReadDefaults, TypeOK
  <2>7. ASSUME NEW verdict \in Verdict, VerifyEnvironment(c, verdict) PROVE TypeOK'
    <3>1. call' \in [Call -> CallType]
      BY <2>7, ToType, DoneType DEF VerifyEnvironment, Step
    <3>2. health' \in [Check -> Entry]
      <4>1. CASE verdict = "ok"
        BY <2>7, <4>1, RecordedType DEF VerifyEnvironment, Check
      <4>2. CASE verdict # "ok"
        <5>1. [Unknown EXCEPT !.state = verdict] \in Entry
          BY Constants DEF Unknown, Entry
        <5> QED BY <2>7, <4>2, <5>1 DEF VerifyEnvironment, TypeOK, Entry
      <4> QED BY <4>1, <4>2
    <3> QED BY <2>7, <3>1, <3>2 DEF VerifyEnvironment, TypeOK
  <2>8. CASE BeginRead(c)
    <3>1. call' \in [Call -> CallType]
      <4>1. call[c] \in CallType /\ profile.config \in Config \cup {NoConfig}
            /\ profile.rev \in 0 .. MaxRevision
        BY DEF TypeOK
      <4>2. [call[c] EXCEPT !.pc = "password", !.on.config = profile.config, !.rev = profile.rev] \in CallType
        BY <4>1 DEF Material
      <4> QED BY <2>8, <4>2 DEF BeginRead, TypeOK
    <3> QED BY <2>8, <3>1 DEF BeginRead, TypeOK
  <2>9. CASE GiveUp(c)
    <3>1. health' \in [Check -> Entry]
      BY <2>9, RecordedType DEF GiveUp, Check, TypeOK, Entry
    <3> QED BY <2>9, <3>1, DoneType DEF GiveUp, TypeOK
  <2>10. CASE StoreObservation(c)
    BY <2>10, ToType, DoneType DEF StoreObservation, TypeOK, Step
  <2>11. CASE ApproveRead(c)
    BY <2>11, TestStepType DEF ApproveRead, Check, Step
  <2>12. ASSUME NEW ok \in Answered, Send(c, ok) PROVE TypeOK'
    <3>1. health' \in [Check -> Entry]
      BY <2>12, RecordedType DEF Send, Check, TypeOK, Entry
    <3>2. call' \in [Call -> CallType]
      BY <2>12, ToType, DoneType DEF Send, Step
    <3> QED BY <2>12, <3>1, <3>2, ReleaseType DEF Send, TypeOK
  <2>13. ASSUME NEW ok \in Answered, RecordPathCode(c, ok) PROVE TypeOK'
    BY <2>13, RecordedType, DoneType DEF RecordPathCode, Check, TypeOK
  <2>14. CASE Enable(c)
    <3>1. profile' \in ProfileType
      BY <2>14, NowIsMaterial DEF Enable, TypeOK, ProfileType
    <3> QED BY <2>14, <3>1, DoneType DEF Enable, TypeOK, ProfileType
  <2> QED
    BY <1>4, <2>1, <2>2, <2>3, <2>4, <2>5, <2>6, <2>7, <2>8, <2>9, <2>10, <2>11, <2>12, <2>13, <2>14
    DEF CallStep
<1>5. CASE UNCHANGED vars
  BY <1>5 DEF vars, TypeOK
<1> QED BY <1>1, <1>2, <1>3, <1>4, <1>5 DEF Next

\* What a step does to the row: a save counts the revision up, and nothing
\* else changes the settings or the password.
Kept ==
    /\ profile'.rev = profile.rev /\ profile'.config = profile.config /\ profile'.cred = profile.cred

LEMMA KeptNow ==
    ASSUME Kept
    PROVE  Now' = Now
  BY DEF Kept, Now, MaterialOf

LEMMA CallStepKeeps ==
    ASSUME TypeOK, NEW c \in Call, CallStep(c)
    PROVE  /\ Kept
           /\ profile' = profile \/ ClearDisabled(c) \/ Enable(c)
           /\ \A d \in Call \ {c} : call'[d] = call[d]
<1> USE DEF TypeOK
<1>1. CASE profile' = profile
  <2>1. \A d \in Call \ {c} : call'[d] = call[d]
    <3>1. CASE AskTest(c) \/ BeginTest(c) \/ ReadPassword(c) \/ AskSample(c) \/ Grant(c) \/ BeginRead(c) \/ AskEnable(c)
      BY <3>1 DEF AskTest, BeginTest, ReadPassword, AskSample, Grant, BeginRead, AskEnable, To, Done
    <3>2. CASE GiveUp(c) \/ StoreObservation(c) \/ ApproveRead(c) \/ ClearDisabled(c) \/ Enable(c)
      BY <3>2 DEF GiveUp, StoreObservation, ApproveRead, TestStep, ClearDisabled, Enable, To, Done
    <3>3. ASSUME NEW ok \in Answered, Reach(c, ok) \/ Authenticate(c, ok) \/ ReadDefaults(c, ok)
                                      \/ Send(c, ok) \/ RecordPathCode(c, ok)
          PROVE  \A d \in Call \ {c} : call'[d] = call[d]
      BY <3>3 DEF Reach, Authenticate, TestStep, ReadDefaults, Send, RecordPathCode, To, Done
    <3>4. ASSUME NEW verdict \in Verdict, VerifyEnvironment(c, verdict)
          PROVE  \A d \in Call \ {c} : call'[d] = call[d]
      BY <3>4 DEF VerifyEnvironment, To, Done
    <3> QED BY <3>1, <3>2, <3>3, <3>4 DEF CallStep
  <2> QED BY <1>1, <2>1 DEF Kept
<1>2. CASE ClearDisabled(c) \/ Enable(c)
  BY <1>2 DEF ClearDisabled, Enable, Done, Kept
<1>3. profile' = profile \/ ClearDisabled(c) \/ Enable(c)
  BY DEF CallStep, AskTest, BeginTest, ReadPassword, AskSample, Grant, BeginRead, AskEnable, GiveUp,
         StoreObservation, ApproveRead, TestStep, Reach, Authenticate, ReadDefaults, Send, RecordPathCode,
         VerifyEnvironment
<1> QED BY <1>1, <1>2, <1>3

LEMMA ToKeeps ==
    ASSUME TypeOK, NEW c \in Call, NEW pc, To(c, pc)
    PROVE  /\ call'[c].pc = pc
           /\ call'[c].kind = call[c].kind /\ call'[c].on = call[c].on /\ call'[c].rev = call[c].rev
  BY DEF To, TypeOK

LEMMA DoneIsIdle ==
    ASSUME TypeOK, NEW c \in Call, Done(c)
    PROVE  call'[c] = Idle
  BY DEF Done, TypeOK

LEMMA Asking ==
    ASSUME TypeOK, NEW c \in Call
    PROVE  /\ AskTest(c) \/ AskSample(c) \/ Grant(c) => call[c].pc = "idle" /\ call'[c].pc = "wait"
           /\ AskEnable(c) => /\ call[c].pc = "idle"
                              /\ call'[c].pc = "enable" /\ call'[c].rev = profile.rev
<1>1. ASSUME AskTest(c) PROVE call[c].pc = "idle" /\ call'[c].pc = "wait"
  BY <1>1 DEF AskTest, Idle, TypeOK
<1>2. ASSUME AskSample(c) PROVE call[c].pc = "idle" /\ call'[c].pc = "wait"
  BY <1>2 DEF AskSample, Idle, TypeOK
<1>3. ASSUME Grant(c) PROVE call[c].pc = "idle" /\ call'[c].pc = "wait"
  BY <1>3 DEF Grant, Idle, TypeOK
<1>4. ASSUME AskEnable(c)
      PROVE  call[c].pc = "idle" /\ call'[c].pc = "enable" /\ call'[c].rev = profile.rev
  BY <1>4 DEF AskEnable, Idle, TypeOK
<1> QED BY <1>1, <1>2, <1>3, <1>4

\* A step leaves the call's revision, ends the call, or takes the row's.
LEMMA CallRevision ==
    ASSUME TypeOK, NEW c \in Call, CallStep(c)
    PROVE  call'[c].rev \in {call[c].rev, profile.rev, 0}
<1> DEFINE Goal == call'[c].rev \in {call[c].rev, profile.rev, 0}
<1>1. \A pc : To(c, pc) => call'[c].rev = call[c].rev
  BY ToKeeps
<1>2. Done(c) => call'[c].rev = 0
  BY DoneIsIdle DEF Idle
<1>3. CASE AskTest(c)
  BY <1>3 DEF AskTest, Idle, TypeOK
<1>4. CASE AskSample(c)
  BY <1>4 DEF AskSample, Idle, TypeOK
<1>5. CASE Grant(c)
  BY <1>5 DEF Grant, Idle, TypeOK
<1>8. CASE AskEnable(c)
  BY <1>8 DEF AskEnable, Idle, TypeOK
<1>6. CASE BeginRead(c)
  BY <1>6 DEF BeginRead, TypeOK
<1>7. CASE ReadPassword(c)
  <2>1. CASE Usable
    BY <1>7, <2>1 DEF ReadPassword, TypeOK
  <2> QED BY <1>2, <1>7, <2>1 DEF ReadPassword
<1>9. CASE BeginTest(c) \/ GiveUp(c) \/ StoreObservation(c) \/ ApproveRead(c) \/ ClearDisabled(c) \/ Enable(c)
  BY <1>1, <1>2, <1>9 DEF BeginTest, GiveUp, StoreObservation, ApproveRead, TestStep, ClearDisabled, Enable
<1>10. ASSUME NEW ok \in Answered, Reach(c, ok) \/ Authenticate(c, ok) \/ ReadDefaults(c, ok)
                                   \/ Send(c, ok) \/ RecordPathCode(c, ok)
       PROVE  Goal
  BY <1>1, <1>2, <1>10 DEF Reach, Authenticate, TestStep, ReadDefaults, Send, RecordPathCode
<1>11. ASSUME NEW verdict \in Verdict, VerifyEnvironment(c, verdict) PROVE Goal
  BY <1>1, <1>2, <1>11 DEF VerifyEnvironment
<1> QED BY <1>3, <1>4, <1>5, <1>6, <1>7, <1>8, <1>9, <1>10, <1>11 DEF CallStep

LEMMA RevisionsStep == TypeOK /\ RevisionsInv /\ [Next]_vars => RevisionsInv'
<1> SUFFICES ASSUME TypeOK, RevisionsInv, [Next]_vars PROVE RevisionsInv'
  OBVIOUS
<1>t. /\ profile.rev \in Nat /\ profile.cred \in Nat
      /\ \A c \in Call : call[c].rev \in Nat
  BY RevisionBound DEF TypeOK
<1>1. CASE SaveStep
  <2>1. /\ profile'.rev = profile.rev + 1 /\ profile'.cred \in {profile.cred, profile.cred + 1}
        /\ profile'.config \in Config /\ call' = call
    <3>1. ASSUME NEW new \in Config, Save(new)
          PROVE  /\ profile'.rev = profile.rev + 1 /\ profile'.cred = profile.cred
                 /\ profile'.config = new /\ call' = call
      <4>1. profile \in ProfileType
        BY DEF TypeOK, ProfileType
      <4> QED BY <3>1, <4>1 DEF Save, Off, ProfileType
    <3>2. CASE SaveCredential
      BY <3>2 DEF SaveCredential, Off, TypeOK, RevisionsInv
    <3> QED BY <1>1, <1>t, <3>1, <3>2 DEF SaveStep
  <2> QED BY <1>t, <2>1 DEF RevisionsInv, Exists
<1>2. CASE Disable
  BY <1>2, <1>t DEF Disable, Off, TypeOK, RevisionsInv, Exists
<1>3. CASE Restart
  BY <1>3, <1>t DEF Restart, RevisionsInv, Exists, Idle
<1>4. ASSUME NEW c \in Call, CallStep(c) PROVE RevisionsInv'
  <2>1. Kept /\ \A d \in Call \ {c} : call'[d] = call[d]
    BY <1>4, CallStepKeeps
  <2>2. call'[c].rev <= profile.rev
    BY <1>4, <1>t, CallRevision DEF RevisionsInv
  <2> QED BY <2>1, <2>2, <1>t DEF Kept, RevisionsInv, Exists
<1>5. CASE UNCHANGED vars
  BY <1>5 DEF vars, RevisionsInv, Exists
<1> QED BY <1>1, <1>2, <1>3, <1>4, <1>5 DEF Next

\* What a call relies on is about itself and the row alone.
LEMMA OtherCalls ==
    ASSUME CallsInv, Kept, NEW d \in Call, call'[d] = call[d]
    PROVE  CallInv(d)'
<1>1. CallInv(d)
  BY DEF CallsInv
<1> QED BY <1>1, KeptNow DEF CallInv, Kept

LEMMA CallsStep == TypeOK /\ RevisionsInv /\ CallsInv /\ [Next]_vars => CallsInv'
<1> SUFFICES ASSUME TypeOK, RevisionsInv, CallsInv, [Next]_vars PROVE CallsInv'
  OBVIOUS
<1>t. /\ profile.rev \in Nat
      /\ \A c \in Call : call[c].rev \in Nat /\ call[c].rev <= profile.rev
  BY RevisionBound DEF TypeOK, RevisionsInv
<1>1. CASE SaveStep
  <2>1. profile'.rev = profile.rev + 1 /\ call' = call
    <3>1. profile \in ProfileType
      BY DEF TypeOK, ProfileType
    <3> QED BY <1>1, <3>1 DEF SaveStep, Save, SaveCredential, Off, ProfileType
  <2>2. \A c \in Call : call'[c].rev # profile'.rev
    BY <1>t, <2>1
  <2> QED BY <2>1, <2>2 DEF CallsInv, CallInv
<1>2. CASE Disable
  <2>1. Kept /\ call' = call
    BY <1>2 DEF Disable, Off, TypeOK, Kept
  <2> QED BY <2>1, OtherCalls DEF CallsInv
<1>3. CASE Restart
  BY <1>3 DEF Restart, CallsInv, CallInv, Idle
<1>4. ASSUME NEW c \in Call, CallStep(c) PROVE CallsInv'
  <2>1. Kept /\ \A d \in Call \ {c} : call'[d] = call[d]
    BY <1>4, CallStepKeeps
  <2> SUFFICES CallInv(c)'
    BY <2>1, OtherCalls DEF CallsInv
  <2>2. CallInv(c)
    BY DEF CallsInv
  <2>3. \A pc : To(c, pc) => /\ call'[c].pc = pc /\ call'[c].kind = call[c].kind
                             /\ call'[c].on = call[c].on /\ call'[c].rev = call[c].rev
    BY ToKeeps
  <2>4. Done(c) => CallInv(c)'
    BY DoneIsIdle DEF CallInv, Idle
  <2>5. CASE AskTest(c) \/ AskSample(c) \/ Grant(c) \/ AskEnable(c)
    <3>1. call'[c].pc \in {"wait", "enable"}
      BY <2>5, Asking
    <3> QED BY <3>1 DEF CallInv
  <2>6. CASE BeginTest(c)
    BY <2>6, <2>3 DEF BeginTest, CallInv
  <2>7. CASE BeginRead(c)
    <3>1. /\ call'[c].pc = "password" /\ call'[c].on.config = profile.config
      BY <2>7 DEF BeginRead, TypeOK, Material
    <3> QED BY <3>1, <2>1 DEF CallInv, Kept
  <2>8. CASE ReadPassword(c)
    <3>1. CASE ~Usable
      BY <2>8, <3>1, <2>4 DEF ReadPassword
    <3>2. CASE Usable /\ call[c].kind = "test"
      <4>1. call'[c].pc = "authenticate" /\ call'[c].kind = "test"
        BY <2>8, <3>2 DEF ReadPassword, TypeOK
      <4> QED BY <4>1 DEF CallInv
    <3>3. CASE Usable /\ call[c].kind # "test"
      <4>1. /\ call[c].pc = "password"
            /\ call' = [call EXCEPT ![c].pc = "send", ![c].on.cred = profile.cred]
        BY <2>8, <3>3 DEF ReadPassword
      <4>2. /\ call'[c].pc = "send" /\ call'[c].rev = call[c].rev
            /\ call'[c].on = [call[c].on EXCEPT !.cred = profile.cred]
        BY <4>1 DEF TypeOK
      <4>3. call[c].on \in Material
        BY DEF TypeOK
      <4>4. call[c].rev = profile.rev => call'[c].on = Now
        BY <4>1, <4>2, <4>3, <2>2, <3>3 DEF CallInv, Material, Now, MaterialOf
      <4> QED BY <4>2, <4>4, <2>1, KeptNow DEF CallInv, Kept
    <3> QED BY <3>1, <3>2, <3>3
  <2>9. CASE GiveUp(c) \/ ClearDisabled(c) \/ Enable(c)
    BY <2>9, <2>4 DEF GiveUp, ClearDisabled, Enable
  <2>10. CASE StoreObservation(c)
    BY <2>10, <2>3, <2>4 DEF StoreObservation, CallInv
  <2>11. CASE ApproveRead(c)
    BY <2>11, <2>3 DEF ApproveRead, TestStep, CallInv
  <2>12. ASSUME NEW ok \in Answered, Reach(c, ok) \/ Authenticate(c, ok) PROVE CallInv(c)'
    BY <2>12, <2>2, <2>3, <2>4 DEF Reach, Authenticate, TestStep, CallInv
  <2>13. ASSUME NEW ok \in Answered, ReadDefaults(c, ok) PROVE CallInv(c)'
    <3>1. CASE ok
      <4>1. call[c].pc = "defaults" /\ To(c, "verify")
        BY <2>13, <3>1 DEF ReadDefaults
      <4> QED BY <4>1, <2>2, <2>3 DEF CallInv
    <3>2. CASE ~ok
      BY <2>13, <3>2, <2>4 DEF ReadDefaults
    <3> QED BY <3>1, <3>2
  <2>14. ASSUME NEW ok \in Answered, Send(c, ok) PROVE CallInv(c)'
    <3>1. CASE ok
      <4>1. call[c].pc = "send" /\ To(c, "store")
        BY <2>14, <3>1 DEF Send
      <4> QED BY <4>1, <2>1, <2>2, <2>3, KeptNow DEF CallInv, Kept
    <3>2. CASE ~ok
      BY <2>14, <3>2, <2>4 DEF Send
    <3> QED BY <3>1, <3>2
  <2>15. ASSUME NEW ok \in Answered, RecordPathCode(c, ok) PROVE CallInv(c)'
    BY <2>15, <2>4 DEF RecordPathCode
  <2>16. ASSUME NEW verdict \in Verdict, VerifyEnvironment(c, verdict) PROVE CallInv(c)'
    <3>1. CASE verdict = "ok"
      <4>1. call[c].pc = "verify" /\ To(c, "clear")
        BY <2>16, <3>1 DEF VerifyEnvironment
      <4> QED BY <4>1, <2>2, <2>3 DEF CallInv
    <3>2. CASE verdict # "ok"
      BY <2>16, <3>2, <2>4 DEF VerifyEnvironment
    <3> QED BY <3>1, <3>2
  <2> QED
    BY <1>4, <2>5, <2>6, <2>7, <2>8, <2>9, <2>10, <2>11, <2>12, <2>13, <2>14, <2>15, <2>16 DEF CallStep
<1>5. CASE UNCHANGED vars
  BY <1>5, OtherCalls DEF vars, CallsInv, Kept
<1> QED BY <1>1, <1>2, <1>3, <1>4, <1>5 DEF Next

LEMMA InvInit == Init => IInv
<1> SUFFICES ASSUME Init PROVE IInv
  OBVIOUS
<1>1. TypeOK
  BY Constants, RevisionBound DEF Init, TypeOK, NoConfig, CallType
<1>2. RevisionsInv
  BY RevisionBound DEF Init, RevisionsInv, Exists, Idle
<1>3. CallsInv
  BY DEF Init, CallsInv, CallInv, Idle
<1> QED BY <1>1, <1>2, <1>3 DEF IInv

LEMMA InvStep == IInv /\ [Next]_vars => IInv'
  BY TypeStep, RevisionsStep, CallsStep DEF IInv

LEMMA Invariant == Spec => []IInv
  BY InvInit, InvStep, PTL DEF Spec

-----------------------------------------------------------------------------
\* The row of a profile, its checks and the calls on it keep their types.
THEOREM TypeCorrect == Spec => []TypeOK
<1>1. IInv => TypeOK
  BY DEF IInv
<1> QED BY Invariant, <1>1, PTL

\* An observation that is stored under the row's revision was read with the
\* row's settings and password, whatever was saved during the read
\* (execute_read).
THEOREM EvidenceIsOfItsRevision == Spec => []EvidenceOfItsRevision
<1>1. IInv => EvidenceOfItsRevision
  BY DEF IInv, CallsInv, CallInv, EvidenceOfItsRevision
<1> QED BY Invariant, <1>1, PTL

-----------------------------------------------------------------------------
(* ReadConnection, of which every step is one or a stutter. *)

Looked == \E c \in Call : call[c].pc = "enable" /\ call[c].rev = profile.rev
EnabledNow == profile.enabled /\ profile.enabledOf = Now

\* The settings a profile has from its first save on are not those of none.
LEMMA ExistsIsConfigured ==
    ASSUME TypeOK, RevisionsInv, Exists
    PROVE  Connection!Configured
<1>1. profile.config \in Config
  BY DEF RevisionsInv
<1>2. profile.config.address # "none"
  BY <1>1, NoneIsNoAddress DEF Config
<1> QED BY <1>2 DEF Connection!Configured, Connection!NoConfig

\* The call takes no part in what is promised, before or after its step.
LEMMA QuietCall ==
    ASSUME TypeOK, NEW c \in Call, CallStep(c), Kept, ~AskEnable(c), ~Enable(c)
    PROVE  Looked' = Looked
<1>1. \A d \in Call \ {c} : call'[d] = call[d]
  BY CallStepKeeps
<1>2. \A pc : To(c, pc) => call'[c].pc = pc
  BY ToKeeps
<1>3. Done(c) => call'[c].pc # "enable"
  BY DoneIsIdle DEF Idle
<1>4. call[c].pc # "enable" /\ call'[c].pc # "enable"
  <2>1. CASE AskTest(c) \/ AskSample(c) \/ Grant(c)
    BY <2>1, Asking
  <2>2. CASE BeginTest(c)
    BY <2>2, <1>2 DEF BeginTest
  <2>3. CASE BeginRead(c)
    BY <2>3 DEF BeginRead, TypeOK
  <2>4. CASE ReadPassword(c)
    <3>1. CASE Usable
      BY <2>4, <3>1 DEF ReadPassword, TypeOK
    <3> QED BY <2>4, <3>1, <1>3 DEF ReadPassword
  <2>5. CASE GiveUp(c) \/ ClearDisabled(c) \/ StoreObservation(c)
    BY <2>5, <1>2, <1>3 DEF GiveUp, ClearDisabled, StoreObservation
  <2>6. CASE ApproveRead(c)
    BY <2>6, <1>2 DEF ApproveRead, TestStep
  <2>7. ASSUME NEW ok \in Answered, Reach(c, ok) \/ Authenticate(c, ok) \/ Send(c, ok) \/ RecordPathCode(c, ok)
        PROVE  call[c].pc # "enable" /\ call'[c].pc # "enable"
    BY <2>7, <1>2, <1>3 DEF Reach, Authenticate, TestStep, Send, RecordPathCode
  <2>8. ASSUME NEW ok \in Answered, ReadDefaults(c, ok)
        PROVE  call[c].pc # "enable" /\ call'[c].pc # "enable"
    BY <2>8, <1>2, <1>3 DEF ReadDefaults
  <2>9. ASSUME NEW verdict \in Verdict, VerifyEnvironment(c, verdict)
        PROVE  call[c].pc # "enable" /\ call'[c].pc # "enable"
    BY <2>9, <1>2, <1>3 DEF VerifyEnvironment
  <2> QED BY <2>1, <2>2, <2>3, <2>4, <2>5, <2>6, <2>7, <2>8, <2>9 DEF CallStep
<1> QED BY <1>1, <1>4 DEF Looked, Kept

LEMMA RefinesInit == Init => Connection!ConnectionInit
  BY DEF Init, Connection!ConnectionInit, NoConfig, Connection!NoConfig, Idle

LEMMA RefinesStep == IInv /\ [Next]_vars => [Connection!ConnectionNext]_(Connection!connection)
<1> SUFFICES ASSUME IInv, [Next]_vars
             PROVE  Connection!ConnectionNext \/ UNCHANGED Connection!connection
  BY DEF Connection!connection
<1>t. /\ TypeOK /\ RevisionsInv /\ CallsInv
      /\ profile \in ProfileType
      /\ profile.rev \in Nat
      /\ \A c \in Call : call[c].rev \in Nat /\ call[c].rev <= profile.rev
  BY RevisionBound DEF IInv, TypeOK, RevisionsInv, ProfileType
<1> USE DEF Looked, EnabledNow
<1>1. CASE SaveStep
  <2>1. profile'.rev = profile.rev + 1 /\ call' = call /\ profile'.disabled = profile.disabled
    BY <1>1, <1>t DEF SaveStep, Save, SaveCredential, Off, ProfileType
  <2>2. ~Looked'
    BY <1>t, <2>1
  <2>3. ASSUME NEW new \in Config, Save(new) PROVE Connection!SaveProfile(new)
    <3>1. profile'.config = new
      BY <2>3, <1>t DEF Save, Off, ProfileType
    <3>2. EnabledNow' => EnabledNow /\ new = profile.config
      <4>1. CASE Now' = Now
        BY <2>3, <1>t, <3>1, <4>1 DEF Save, Off, ProfileType, Now, MaterialOf
      <4>2. CASE Now' # Now
        BY <2>3, <1>t, <4>2 DEF Save, Off, ProfileType, Now, MaterialOf
      <4> QED BY <4>1, <4>2
    <3> QED BY <2>1, <2>2, <3>1, <3>2 DEF Connection!SaveProfile
  <2>4. ASSUME SaveCredential PROVE Connection!SavePassword
    <3>1. profile'.config = profile.config /\ profile'.enabled = FALSE
      BY <2>4, <1>t DEF SaveCredential, Off, ProfileType
    <3> QED BY <2>1, <2>2, <2>4, <3>1, <1>t, ExistsIsConfigured DEF Connection!SavePassword, SaveCredential
  <2> QED BY <1>1, <2>3, <2>4 DEF SaveStep, Connection!ConnectionNext, Config, Connection!Config
<1>2. CASE Disable
  <2>1. Exists /\ Kept /\ call' = call /\ profile'.enabled = FALSE /\ profile'.disabled = TRUE
    BY <1>2, <1>t DEF Disable, Off, ProfileType, Kept
  <2>2. Connection!DisableDiscovery
    BY <2>1, <1>t, ExistsIsConfigured DEF Connection!DisableDiscovery, Kept
  <2> QED BY <2>2 DEF Connection!ConnectionNext
<1>3. CASE Restart
  <2>1. profile' = profile /\ ~Looked'
    BY <1>3 DEF Restart, Idle
  <2>2. Connection!Forget
    BY <2>1 DEF Connection!Forget, Now, MaterialOf
  <2> QED BY <2>2 DEF Connection!ConnectionNext
<1>4. ASSUME NEW c \in Call, CallStep(c)
      PROVE  Connection!ConnectionNext \/ UNCHANGED Connection!connection
  <2>1. Kept /\ \A d \in Call \ {c} : call'[d] = call[d]
    BY <1>4, <1>t, CallStepKeeps
  <2>2. CASE AskEnable(c)
    <3>1. Exists /\ profile' = profile
      BY <2>2 DEF AskEnable
    <3>2. Looked'
      BY <2>2, <3>1, <1>t, Asking
    <3>3. Connection!Look
      BY <3>1, <3>2, <1>t, ExistsIsConfigured DEF Connection!Look, Now, MaterialOf
    <3> QED BY <3>3 DEF Connection!ConnectionNext
  <2>3. CASE Enable(c) /\ profile.rev = call[c].rev
    <3>1. Looked /\ profile' = [profile EXCEPT !.enabled = TRUE, !.enabledOf = Now]
      BY <2>3 DEF Enable
    <3>2. EnabledNow' = TRUE /\ profile'.disabled = profile.disabled
      BY <3>1, <1>t DEF ProfileType, Now, MaterialOf
    <3>3. Connection!EnableDiscovery
      BY <2>1, <3>1, <3>2 DEF Connection!EnableDiscovery, Kept
    <3> QED BY <3>3 DEF Connection!ConnectionNext
  <2>4. CASE Enable(c) /\ profile.rev # call[c].rev
    <3>1. profile' = profile /\ call'[c].pc # "enable"
      BY <2>4, <1>t, DoneIsIdle DEF Enable, Idle
    <3>2. Looked' = Looked
      BY <2>1, <2>4, <3>1
    <3> QED BY <3>1, <3>2 DEF Connection!connection, Now, MaterialOf
  <2>5. CASE ~AskEnable(c) /\ ~Enable(c)
    <3>1. Looked' = Looked
      BY <1>4, <1>t, <2>1, <2>5, QuietCall
    <3>2. CASE profile' = profile
      BY <3>1, <3>2 DEF Connection!connection, Now, MaterialOf
    <3>3. CASE ClearDisabled(c)
      <4>1. EnabledNow' = EnabledNow /\ profile'.disabled = FALSE /\ profile'.config = profile.config
        BY <3>3, <1>t DEF ClearDisabled, ProfileType, Now, MaterialOf
      <4>2. Connection!Retested
        BY <3>1, <4>1 DEF Connection!Retested
      <4> QED BY <4>2 DEF Connection!ConnectionNext
    <3> QED BY <1>4, <1>t, <2>5, <3>2, <3>3, CallStepKeeps
  <2> QED BY <2>2, <2>3, <2>4, <2>5
<1>5. CASE UNCHANGED vars
  BY <1>5 DEF vars, Connection!connection, Now, MaterialOf
<1> QED BY <1>1, <1>2, <1>3, <1>4, <1>5 DEF Next

\* With any number of calls under way, the connection does only what
\* ReadConnection allows: it is enabled only by a request that looked at the
\* revision it enables, and every material change switches it off.
THEOREM Implements == Spec => KeepsItsPromise
<1>1. Spec => Connection!ConnectionSpec
  BY Invariant, RefinesInit, RefinesStep, PTL DEF Spec, Connection!ConnectionSpec
<1> QED BY <1>1 DEF KeepsItsPromise

-----------------------------------------------------------------------------

(***************************************************************************)
(* The write settings.                                                     *)
(***************************************************************************)
\* The password a sign-in used is no older than the material its test began
\* with and no newer than the saved one.
TrialInv ==
    /\ trial.on.cred <= writer.cred
    /\ \A r \in Route : trial.ran[r] > 0 => trial.on.cred <= trial.ran[r] /\ trial.ran[r] <= writer.cred

TestsInv ==
    \A r \in Route : tests[r].ran > 0 => tests[r].of.cred <= tests[r].ran /\ tests[r].ran <= writer.cred

\* A password that is about to be saved has somewhere to go.
SaveInv == save.pc = "save" => save.destination \in Address

WriteIInv == WritesTyped /\ SaveInv /\ TrialInv /\ TestsInv

WriterType == [saved : BOOLEAN, web : BOOLEAN, cred : 0 .. MaxWrite, bound : Address \cup {"none"},
               on : BOOLEAN]
TrialType == [pc : {"idle", "ais", "web", "record_ais", "record_web"}, on : WriteMaterial,
              ran : [Route -> 0 .. MaxWrite]]
TestType == [of : WriteMaterial, ran : 0 .. MaxWrite]
SaveType == [pc : {"idle", "save"}, destination : Address \cup {"none"}]

LEMMA WriteConstants ==
    /\ NoWriteMaterial \in WriteMaterial
    /\ NotOk \in TestType
    /\ NoTrial \in TrialType
<1>1. NoWriteMaterial \in WriteMaterial
  BY WriteBound DEF NoWriteMaterial, WriteMaterial
<1> QED BY <1>1, WriteBound DEF NotOk, TestType, NoTrial, TrialType

LEMMA WriteInvInit == WriteInit => WriteIInv
<1> SUFFICES ASSUME WriteInit PROVE WriteIInv
  OBVIOUS
<1>1. WritesTyped
  <2>1. /\ config \in Config \cup {NoConfig}
        /\ looked \in BOOLEAN /\ enabled \in BOOLEAN /\ disabled \in BOOLEAN
    BY DEF WriteInit, ConnectionInit
  <2>2. writer \in WriterType /\ writer.cred = 0
    BY WriteBound DEF WriteInit, WriterType
  <2>3. tests \in [Route -> TestType] /\ trial \in TrialType /\ save \in SaveType
    BY WriteConstants DEF WriteInit, SaveType
  <2> QED BY <2>1, <2>2, <2>3 DEF WritesTyped, WriterType, TestType, TrialType, SaveType
<1>2. SaveInv /\ TrialInv /\ TestsInv
  BY DEF WriteInit, SaveInv, TrialInv, TestsInv, NoTrial, NoWriteMaterial, NotOk
<1> QED BY <1>1, <1>2 DEF WriteIInv

\* A step of the read connection leaves what the write settings know alone.
LEMMA ConnectionKeeps ==
    ASSUME WriteIInv, ConnectionNext, UNCHANGED settings
    PROVE  WriteIInv'
<1>1. /\ config' \in Config \cup {NoConfig}
      /\ looked' \in BOOLEAN /\ enabled' \in BOOLEAN /\ disabled' \in BOOLEAN
  BY DEF WriteIInv, WritesTyped, ConnectionNext, SaveProfile, SavePassword, Look, Forget, EnableDiscovery,
         DisableDiscovery, Retested
<1>2. WritesTyped'
  BY <1>1 DEF WriteIInv, WritesTyped, settings
<1> QED BY <1>2 DEF WriteIInv, SaveInv, TrialInv, TestsInv, settings

LEMMA MaterialNow == WritesTyped => WriteNow \in WriteMaterial /\ WriteNow.cred = writer.cred
  BY DEF WritesTyped, WriteNow, WriteMaterial

\* Saving settings, a password or the switch: the password never goes back.
LEMMA SavingStep ==
    ASSUME WriteIInv,
           (\E web \in BOOLEAN : SaveSettings(web)) \/ AskWriteUser \/ SaveWriteUser \/ SetSwitch
    PROVE  WriteIInv'
<1>t. /\ writer \in WriterType /\ save \in SaveType
      /\ writer.cred \in Nat
      /\ trial.on.cred \in Nat
      /\ \A r \in Route : trial.ran[r] \in Nat /\ tests[r].ran \in Nat /\ tests[r].of.cred \in Nat
  BY WriteBound DEF WriteIInv, WritesTyped, WriterType, SaveType, WriteMaterial
<1>1. trial' = trial /\ tests' = tests /\ UNCHANGED connection
  BY DEF SaveSettings, AskWriteUser, SaveWriteUser, SetSwitch
<1>2. /\ writer' \in WriterType /\ writer'.cred \in {writer.cred, writer.cred + 1}
      /\ writer'.cred > 0 => writer'.bound \in Address
  <2>1. CASE SaveWriteUser
    <3>1. CASE writer.saved /\ writer.cred < MaxWrite
      <4>1. writer' = [writer EXCEPT !.cred = @ + 1, !.bound = save.destination] /\ save.destination \in Address
        BY <2>1, <3>1 DEF SaveWriteUser, WriteIInv, SaveInv
      <4>2. writer.cred + 1 \in 0 .. MaxWrite
        BY <1>t, <3>1, WriteBound
      <4> QED BY <1>t, <4>1, <4>2 DEF WriterType
    <3>2. CASE ~(writer.saved /\ writer.cred < MaxWrite)
      BY <1>t, <2>1, <3>2 DEF SaveWriteUser, WriteIInv, WritesTyped
    <3> QED BY <3>1, <3>2
  <2>2. CASE \E web \in BOOLEAN : SaveSettings(web)
    BY <1>t, <2>2 DEF SaveSettings, WriterType, WriteIInv, WritesTyped
  <2>3. CASE SetSwitch
    BY <1>t, <2>3 DEF SetSwitch, WriterType, WriteIInv, WritesTyped
  <2>4. CASE AskWriteUser
    BY <1>t, <2>4 DEF AskWriteUser, WriteIInv, WritesTyped
  <2> QED BY <2>1, <2>2, <2>3, <2>4
<1>3. save' \in SaveType /\ (save'.pc = "save" => save'.destination \in Address)
  <2>1. CASE AskWriteUser
    <3>1. config \in Config
      BY <2>1 DEF AskWriteUser, Configured, WriteIInv, WritesTyped
    <3> QED BY <2>1, <3>1 DEF AskWriteUser, SaveType, Config
  <2>2. CASE SaveWriteUser
    BY <2>2 DEF SaveWriteUser, SaveType
  <2>3. CASE UNCHANGED save
    BY <1>t, <2>3 DEF WriteIInv, SaveInv
  <2> QED BY <2>1, <2>2, <2>3 DEF SaveSettings, SetSwitch
<1>4. WritesTyped'
  BY <1>1, <1>2, <1>3 DEF WriteIInv, WritesTyped, WriterType, SaveType, connection
<1>5. SaveInv'
  BY <1>3 DEF SaveInv
<1>6. TrialInv' /\ TestsInv'
  BY <1>t, <1>1, <1>2 DEF WriteIInv, TrialInv, TestsInv
<1> QED BY <1>4, <1>5, <1>6 DEF WriteIInv

\* Beginning a settings test and its two sign-ins.
LEMMA TrialStep ==
    ASSUME WriteIInv,
           AskTrial \/ \E r \in Route, next \in {"web", "record_ais"}, ok \in BOOLEAN : SignIn(r, next, ok)
    PROVE  WriteIInv'
<1>t. trial \in TrialType /\ writer.cred \in 0 .. MaxWrite /\ writer.cred \in Nat
  BY WriteBound DEF WriteIInv, WritesTyped, TrialType
<1>1. UNCHANGED <<connection, writer, tests, save>>
  BY DEF AskTrial, SignIn
<1>2. trial' \in TrialType /\ TrialInv'
  <2>1. CASE AskTrial
    <3>1. WriteNow \in WriteMaterial /\ WriteNow.cred = writer.cred
      BY MaterialNow DEF WriteIInv
    <3>2. trial' \in TrialType /\ trial'.on = WriteNow /\ \A r \in Route : trial'.ran[r] = 0
      <4>1. trial' = [NoTrial EXCEPT !.pc = "ais", !.on = WriteNow]
        BY <2>1 DEF AskTrial
      <4>2. [r \in Route |-> 0] \in [Route -> 0 .. MaxWrite]
        BY WriteBound
      <4>3. trial'.pc = "ais" /\ trial'.on = WriteNow /\ trial'.ran = [r \in Route |-> 0]
        BY <4>1 DEF NoTrial
      <4>4. trial' = [pc |-> "ais", on |-> WriteNow, ran |-> [r \in Route |-> 0]]
        BY <4>1 DEF NoTrial
      <4> QED BY <3>1, <4>2, <4>3, <4>4 DEF TrialType
    <3> QED BY <1>t, <1>1, <3>1, <3>2 DEF TrialInv
  <2>2. ASSUME NEW r \in Route, NEW next \in {"web", "record_ais"}, NEW ok \in BOOLEAN, SignIn(r, next, ok)
        PROVE  trial' \in TrialType /\ TrialInv'
    <3>1. /\ trial' \in TrialType /\ trial'.on = trial.on
          /\ \A q \in Route : trial'.ran[q] \in {trial.ran[q], 0, writer.cred}
      <4> DEFINE used == IF ok THEN writer.cred ELSE 0
      <4>1. trial' = [trial EXCEPT !.pc = next, !.ran[r] = used]
        BY <2>2 DEF SignIn
      <4>2. used \in 0 .. MaxWrite /\ used \in {0, writer.cred}
        BY <1>t, WriteBound
      <4> HIDE DEF used
      <4>3. /\ trial'.pc = next /\ trial'.on = trial.on
            /\ trial'.ran = [trial.ran EXCEPT ![r] = used]
        BY <1>t, <4>1 DEF TrialType
      <4>4. trial' = [trial EXCEPT !.pc = next, !.ran = [trial.ran EXCEPT ![r] = used]]
        BY <1>t, <4>1 DEF TrialType
      <4>5. trial.ran \in [Route -> 0 .. MaxWrite]
        BY <1>t DEF TrialType
      <4>6. [trial.ran EXCEPT ![r] = used] \in [Route -> 0 .. MaxWrite]
        BY <4>2, <4>5
      <4>7. trial' \in TrialType
        BY <1>t, <4>4, <4>6 DEF TrialType
      <4> QED BY <4>2, <4>3, <4>5, <4>7
    <3>2. trial.on.cred \in Nat /\ \A q \in Route : trial.ran[q] \in Nat
      BY <1>t, WriteBound DEF TrialType, WriteMaterial
    <3> QED BY <1>t, <1>1, <3>1, <3>2 DEF WriteIInv, TrialInv
  <2> QED BY <2>1, <2>2
<1>3. WritesTyped'
  BY <1>1, <1>2 DEF WriteIInv, WritesTyped, TrialType, connection
<1> QED BY <1>1, <1>2, <1>3 DEF WriteIInv, SaveInv, TestsInv

\* Filing a result, under the material its test began with.
LEMMA RecordStep ==
    ASSUME WriteIInv, NEW r \in Route, NEW pc \in {"record_ais", "record_web"}, NEW next \in {"record_web", "idle"},
           RecordTrial(r, pc, next)
    PROVE  WriteIInv'
<1>t. trial \in TrialType /\ tests \in [Route -> TestType]
  BY DEF WriteIInv, WritesTyped, TrialType, TestType
<1>1. UNCHANGED <<connection, writer, save>>
  BY DEF RecordTrial
<1>2. tests' \in [Route -> TestType] /\ TestsInv'
  <2>1. CASE trial.ran[r] = 0
    BY <1>t, <1>1, <2>1, WriteConstants DEF RecordTrial, WriteIInv, TestsInv, NotOk
  <2>2. CASE trial.ran[r] # 0
    <3>1. tests' = [tests EXCEPT ![r] = [of |-> trial.on, ran |-> trial.ran[r]]]
      BY <2>2 DEF RecordTrial
    <3>2. trial.ran[r] > 0 /\ trial.on \in WriteMaterial /\ trial.ran[r] \in 0 .. MaxWrite
      BY <1>t, <2>2, WriteBound DEF TrialType
    <3> QED BY <1>t, <1>1, <3>1, <3>2 DEF TestType, WriteIInv, TestsInv, TrialInv
  <2> QED BY <2>1, <2>2
<1>3. trial' \in TrialType /\ TrialInv'
  <2>1. CASE next = "idle"
    <3>1. trial' = NoTrial
      BY <2>1 DEF RecordTrial
    <3>2. writer.cred >= 0
      BY WriteBound DEF WriteIInv, WritesTyped
    <3> QED BY <1>1, <3>1, <3>2, WriteConstants DEF TrialInv, NoTrial, NoWriteMaterial
  <2>2. CASE next # "idle"
    <3>1. trial' = [trial EXCEPT !.pc = next]
      BY <2>2 DEF RecordTrial
    <3> QED BY <1>t, <1>1, <2>2, <3>1 DEF TrialType, WriteIInv, TrialInv
  <2> QED BY <2>1, <2>2
<1>4. WritesTyped'
  BY <1>1, <1>2, <1>3 DEF WriteIInv, WritesTyped, TrialType, TestType, connection
<1> QED BY <1>1, <1>2, <1>3, <1>4 DEF WriteIInv, SaveInv

LEMMA WriteInvStep == WriteIInv /\ [WriteNext]_writeVars => WriteIInv'
<1> SUFFICES ASSUME WriteIInv, [WriteNext]_writeVars PROVE WriteIInv'
  OBVIOUS
<1>1. CASE ConnectionNext /\ UNCHANGED settings
  BY <1>1, ConnectionKeeps
<1>2. CASE WriteSteps
  BY <1>2, SavingStep, TrialStep, RecordStep DEF WriteSteps, Route
<1>3. CASE RestartWrites
  <2>1. writer.cred >= 0
    BY WriteBound DEF WriteIInv, WritesTyped
  <2>2. WritesTyped'
    BY <1>3, WriteConstants DEF RestartWrites, WriteIInv, WritesTyped, TrialType, connection
  <2>3. TrialInv'
    BY <1>3, <2>1 DEF RestartWrites, TrialInv, NoTrial, NoWriteMaterial
  <2> QED BY <1>3, <2>2, <2>3 DEF RestartWrites, WriteIInv, SaveInv, TestsInv
<1>4. CASE UNCHANGED writeVars
  BY <1>4 DEF writeVars, settings, connection, WriteIInv, WritesTyped, SaveInv, TrialInv, TestsInv
<1> QED BY <1>1, <1>2, <1>3, <1>4 DEF WriteNext

LEMMA WriteInvariant == WriteSpec => []WriteIInv
  BY WriteInvInit, WriteInvStep, PTL DEF WriteSpec

\* Both rows and what is under way on them keep their types, and a saved
\* password is bound to an address.
THEOREM WriteTypes == WriteSpec => []WritesTyped
<1>1. WriteIInv => WritesTyped
  BY DEF WriteIInv
<1> QED BY WriteInvariant, <1>1, PTL

\* A route that is ready was signed in to with the saved password, however
\* saves, tests and restarts interleave (record_check, tested_hash).
THEOREM ReadyIsTested == WriteSpec => []ReadyWithThisPassword
<1>1. WriteIInv => ReadyWithThisPassword
  <2> SUFFICES ASSUME WriteIInv, NEW r \in Route, Ready(r) PROVE tests[r].ran = writer.cred
    BY DEF ReadyWithThisPassword
  <2>1. tests[r].ran > 0 /\ tests[r].of = WriteNow
    BY DEF Ready, TestedOk
  <2>2. tests[r].of.cred = writer.cred
    BY <2>1, MaterialNow DEF WriteIInv
  <2>3. tests[r].ran \in Nat /\ writer.cred \in Nat
    BY WriteBound DEF WriteIInv, WritesTyped
  <2> QED BY <2>1, <2>2, <2>3 DEF WriteIInv, TestsInv
<1> QED BY WriteInvariant, <1>1, PTL

(***************************************************************************)
(* Both together: the write settings next to the connection as the code    *)
(* keeps it.  Their steps interleave; a restart of the process is one      *)
(* restart after the other, with nothing required between the two.         *)
(***************************************************************************)
SeenAsKept ==
    /\ config = profile.config
    /\ looked = Looked
    /\ enabled = EnabledNow
    /\ disabled = profile.disabled

Together ==
    /\ Init /\ WriteInit
    /\ [][\/ Next /\ UNCHANGED settings
          \/ (WriteSteps \/ RestartWrites) /\ UNCHANGED vars]_<<vars, settings>>
    /\ []SeenAsKept

\* Seen as it is kept, a step of the refined connection is one of the abstract.
LEMMA SeenStep ==
    ASSUME SeenAsKept, SeenAsKept', [Connection!ConnectionNext]_(Connection!connection)
    PROVE  [ConnectionNext]_connection
<1>1. CASE Connection!ConnectionNext
  BY <1>1 DEF SeenAsKept, Looked, EnabledNow, Connection!ConnectionNext, ConnectionNext,
              Connection!SaveProfile, SaveProfile, Connection!SavePassword, SavePassword,
              Connection!Look, Look, Connection!Forget, Forget, Connection!EnableDiscovery,
              EnableDiscovery, Connection!DisableDiscovery, DisableDiscovery, Connection!Retested,
              Retested, Connection!Configured, Configured, Connection!NoConfig, NoConfig,
              Connection!Config, Config
<1>2. CASE UNCHANGED Connection!connection
  BY <1>2 DEF SeenAsKept, Looked, EnabledNow, Connection!connection, connection
<1> QED BY <1>1, <1>2

\* On the connection of the code, with tests, reads, saves, Enable and Disable
\* under way on it, a route is ready on a sign-in with the saved password only.
THEOREM ReadyOnTheConnection == Together => []ReadyWithThisPassword
<1>1. ASSUME IInv, SeenAsKept, SeenAsKept',
             [\/ Next /\ UNCHANGED settings
              \/ (WriteSteps \/ RestartWrites) /\ UNCHANGED vars]_<<vars, settings>>
      PROVE  [WriteNext]_writeVars
  <2>1. CASE Next /\ UNCHANGED settings
    <3>1. [ConnectionNext]_connection
      BY <1>1, <2>1, RefinesStep, SeenStep
    <3> QED BY <2>1, <3>1 DEF WriteNext, writeVars
  <2>2. CASE WriteSteps \/ RestartWrites
    BY <2>2 DEF WriteNext
  <2>3. CASE UNCHANGED <<vars, settings>>
    BY <1>1, <2>3 DEF SeenAsKept, Looked, EnabledNow, Now, MaterialOf, vars, writeVars, connection
  <2> QED BY <1>1, <2>1, <2>2, <2>3
<1>2. [\/ Next /\ UNCHANGED settings
       \/ (WriteSteps \/ RestartWrites) /\ UNCHANGED vars]_<<vars, settings>> => [Next]_vars
  OBVIOUS
<1>3. Together => Spec
  BY <1>2, PTL DEF Together, Spec
<1>4. Together => WriteSpec
  BY Invariant, <1>1, <1>3, PTL DEF Together, WriteSpec
<1> QED BY ReadyIsTested, <1>4, PTL
=============================================================================
