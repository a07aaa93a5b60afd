---------------------------- MODULE Memberships ----------------------------
(***************************************************************************)
(* Who belongs to which customer and who administers it:                   *)
(* services/membership_service.py, invitation_service.py,                  *)
(* bootstrap_service.py, setup_handover.py, customer_service.create_       *)
(* customer, and the routes in front of them.                              *)
(*                                                                         *)
(* An Admin's edit of a membership is one immediate transaction; it        *)
(* carries the revision of the page it was made on.  Accepting an          *)
(* invitation, the hand-over and a new customer read in one transaction    *)
(* and write in later ones.  A role set is abstracted to whether it holds  *)
(* Admin; domain assignments follow the roles.  Signing in is a guard      *)
(* here: the account exists and is active.                                 *)
(***************************************************************************)
EXTENDS Integers

CONSTANTS
    Person,         \* e-mail addresses, with or without an account
    Setup,          \* the address of the temporary setup account
    Company,        \* customers that may exist
    First,          \* the customer the bootstrap creates
    Invitation,     \* rows of invitations
    Request,        \* requests the service works on, and open pages
    MaxWrites       \* bound: transactions that write memberships

ASSUME SetupIsPerson == Setup \in Person
ASSUME FirstIsCompany == First \in Company
ASSUME MembershipBounds == MaxWrites \in Nat

VARIABLES
    boot,       \* where ensure_bootstrap_admin is
    company,    \* rows of companies
    account,    \* rows of users
    member,     \* rows of company_memberships with their roles
    invitation, \* rows of invitations
    request,    \* the requests in progress and the pages open in browsers
    writes

tables == <<company, account, member, invitation>>
vars == <<boot, tables, request, writes>>

Role == {"admin", "other"}
NoMember == [status |-> "none", role |-> "other", rev |-> 0]
NoInvitation == [status |-> "none", company |-> First, email |-> Setup, role |-> "other"]
Idle == [pc |-> "idle", who |-> Setup, company |-> First, role |-> "other",
         inv |-> {}, seen |-> NoMember]

Init ==
    /\ boot = "user"
    /\ company = {}
    /\ account = [p \in Person |-> "none"]
    /\ member = [p \in Person |-> [c \in Company |-> NoMember]]
    /\ invitation = [i \in Invitation |-> NoInvitation]
    /\ request = [r \in Request |-> Idle]
    /\ writes = 0

HasMembership(p, c) == member[p][c].status # "none"
ActiveAdmin(p, c) == member[p][c].status = "active" /\ member[p][c].role = "admin"

\* _require_active_admin, and what resolve_identity with require_role("admin") asks.
IsAdmin(p, c) == account[p] = "active" /\ ActiveAdmin(p, c)

\* Broken variant: the membership being changed counts as the remaining Admin.
SomeAdminRemains(p, c) == \E q \in Person : ActiveAdmin(q, c)

\* _active_admin_membership_ids without this membership.
OtherAdminRemains(p, c) == \E q \in Person \ {p} : ActiveAdmin(q, c)

NewMember(role) == [status |-> "active", role |-> role, rev |-> 1]
WithRole(m, role) == [m EXCEPT !.role = role, !.rev = @ + 1]
WithStatus(m, status) == [m EXCEPT !.status = status, !.rev = @ + 1]

Written == writes < MaxWrites /\ writes' = writes + 1
Store(p, c, m) == member' = [member EXCEPT ![p][c] = m] /\ Written
To(r, pc) == request' = [request EXCEPT ![r].pc = pc]
ToMark(r) == request' = [request EXCEPT ![r] = [Idle EXCEPT !.pc = "mark", !.inv = request[r].inv]]
Done(r) == request' = [request EXCEPT ![r] = Idle]

(***************************************************************************)
(* Start of the service.  The bootstrap does nothing once the address of   *)
(* the setup account is registered.                                        *)
(***************************************************************************)
BootUser ==
    /\ boot = "user"
    /\ IF account[Setup] # "none"
       THEN boot' = "done" /\ UNCHANGED account
       ELSE boot' = "customer" /\ account' = [account EXCEPT ![Setup] = "active"]
    /\ UNCHANGED <<company, member, invitation, request, writes>>

BootCustomer ==
    /\ boot = "customer"
    /\ boot' = "members"
    /\ company' = IF company = {} THEN {First} ELSE company
    /\ UNCHANGED <<account, member, invitation, request, writes>>

BootMember(c) ==
    /\ boot = "members"
    /\ c \in company
    /\ ~HasMembership(Setup, c)
    /\ Store(Setup, c, NewMember("admin"))
    /\ UNCHANGED <<boot, company, account, invitation, request>>

BootEnds ==
    /\ boot = "members"
    /\ \A c \in company : HasMembership(Setup, c)
    /\ boot' = "done"
    /\ UNCHANGED <<tables, request, writes>>

\* The process ends at any point; open pages survive it, requests do not.
Restart ==
    /\ boot' = "user"
    /\ request' = [r \in Request |-> IF request[r].pc = "page" THEN request[r] ELSE Idle]
    /\ UNCHANGED <<tables, writes>>

(***************************************************************************)
(* Admin > Users.  A page shows a membership with its revision.  The row   *)
(* is read first and its roles afterwards, not in one snapshot.            *)
(***************************************************************************)
Row(m) == [m EXCEPT !.role = "other"]

OpenPage(r, a, c, p) ==
    /\ boot = "done"
    /\ request[r] = Idle
    /\ IsAdmin(a, c)
    /\ HasMembership(p, c)
    /\ request' = [request EXCEPT ![r] =
            [Idle EXCEPT !.pc = "read", !.who = p, !.company = c, !.seen = Row(member[p][c])]]
    /\ UNCHANGED <<boot, tables, writes>>

ShowPage(r) ==
    /\ request[r].pc = "read"
    /\ request' = [request EXCEPT ![r].pc = "page",
                                 ![r].seen.role = member[request[r].who][request[r].company].role]
    /\ UNCHANGED <<boot, tables, writes>>

ClosePage(r) ==
    /\ request[r].pc = "page"
    /\ Done(r)
    /\ UNCHANGED <<boot, tables, writes>>

\* What update_membership_roles and set_membership_status check of an
\* Admin's edit, inside the transaction that stores it.  The page does not
\* say who edits: that is the session the browser has by then.
MayEdit(r, p, c) ==
    /\ request[r].pc = "page"
    /\ request[r].seen.rev = member[p][c].rev
    /\ \E a \in Person : IsAdmin(a, c)

RolesMayChange(p, c, role) ==
    member[p][c].role = "admin" /\ role # "admin" => OtherAdminRemains(p, c)

StatusMayChange(p, c, status) ==
    status = "inactive" /\ ActiveAdmin(p, c) => OtherAdminRemains(p, c)

\* The answer is a page of the stored row, its roles read after the commit.
Edit(r, p, c, m) ==
    /\ boot = "done"
    /\ MayEdit(r, p, c)
    /\ Store(p, c, m)
    /\ request' = [request EXCEPT ![r].pc = "read", ![r].seen = Row(m)]
    /\ UNCHANGED <<boot, company, account, invitation>>

UpdateRoles(r, role) ==
    LET p == request[r].who
        c == request[r].company
    IN RolesMayChange(p, c, role) /\ Edit(r, p, c, WithRole(member[p][c], role))

SetStatus(r, status) ==
    LET p == request[r].who
        c == request[r].company
    IN StatusMayChange(p, c, status) /\ Edit(r, p, c, WithStatus(member[p][c], status))

(***************************************************************************)
(* Invitations, the Admin's side.  The role is checked when the request    *)
(* arrives and not when the row is written.                                *)
(***************************************************************************)
Begin(r, a, c, pc, who, role, i) ==
    /\ boot = "done"
    /\ request[r] = Idle
    /\ IsAdmin(a, c)
    /\ request' = [request EXCEPT ![r] =
            [Idle EXCEPT !.pc = pc, !.who = who, !.company = c, !.role = role, !.inv = i]]
    /\ UNCHANGED <<boot, tables, writes>>

\* Bound: nobody asks for a row that Invitation no longer has.
AskInvite(r, a, c, p, role) ==
    /\ \E i \in Invitation : invitation[i].status = "none"
    /\ Begin(r, a, c, "invite", p, role, {})

AskResend(r, a, i) ==
    /\ invitation[i].status # "none"
    /\ Begin(r, a, invitation[i].company, "resend", Setup, "other", {i})

AskRevoke(r, a, i) ==
    /\ invitation[i].status # "none"
    /\ Begin(r, a, invitation[i].company, "revoke", Setup, "other", {i})

CreateInvitation(r, i) ==
    /\ request[r].pc = "invite"
    /\ invitation[i].status = "none"
    /\ invitation' = [invitation EXCEPT ![i] =
            [status |-> "pending", company |-> request[r].company, email |-> request[r].who,
             role |-> request[r].role]]
    /\ Done(r)
    /\ UNCHANGED <<boot, company, account, member, writes>>

\* A resent invitation is pending again, whatever it was.
ResendInvitation(r, i) ==
    /\ request[r].pc = "resend"
    /\ request[r].inv = {i}
    /\ invitation' = [invitation EXCEPT ![i].status = "pending"]
    /\ Done(r)
    /\ UNCHANGED <<boot, company, account, member, writes>>

RevokeInvitation(r, i) ==
    /\ request[r].pc = "revoke"
    /\ request[r].inv = {i}
    /\ invitation' = [invitation EXCEPT ![i].status = "revoked"]
    /\ Done(r)
    /\ UNCHANGED <<boot, company, account, member, writes>>

\* Seven days pass: _effective_status reads a pending row as expired.
Expires(i) ==
    /\ invitation[i].status = "pending"
    /\ invitation' = [invitation EXCEPT ![i].status = "expired"]
    /\ UNCHANGED <<boot, company, account, member, request, writes>>

(***************************************************************************)
(* Accepting.  The route and accept_invitation each read the invitation by *)
(* its link; a change in between only refuses the request, so one reading  *)
(* stands for both.  What it read stays with the request, which writes in  *)
(* up to four transactions; the last marks the row, whatever became of it. *)
(* Without an account the invited person sets a password; with one they    *)
(* are signed in to it.                                                    *)
(***************************************************************************)
Accepts(r, i) ==
    /\ boot = "done"
    /\ request[r] = Idle
    /\ invitation[i].status = "pending"
    /\ account[invitation[i].email] # "disabled"
    /\ request' = [request EXCEPT ![r] =
            [Idle EXCEPT !.pc = "account", !.who = invitation[i].email, !.company = invitation[i].company,
                         !.role = invitation[i].role, !.inv = {i}]]

\* Broken variant: the invitation is marked before the membership is written.
AcceptAndMark(r, i) ==
    /\ Accepts(r, i)
    /\ invitation' = [invitation EXCEPT ![i].status = "accepted"]
    /\ UNCHANGED <<boot, company, account, member, writes>>

AskAccept(r, i) ==
    /\ Accepts(r, i)
    /\ UNCHANGED <<boot, tables, writes>>

FindAccount(r) ==
    /\ request[r].pc = "account"
    /\ To(r, IF account[request[r].who] = "none" THEN "create" ELSE "join")
    /\ UNCHANGED <<boot, tables, writes>>

CreateUser(r) ==
    /\ request[r].pc = "create"
    /\ IF account[request[r].who] = "none"
       THEN account' = [account EXCEPT ![request[r].who] = "active"] /\ To(r, "join")
       ELSE UNCHANGED account /\ Done(r)
    /\ UNCHANGED <<boot, company, member, invitation, writes>>

FindMembership(r) ==
    /\ request[r].pc = "join"
    /\ LET was == member[request[r].who][request[r].company].status
       IN request' = [request EXCEPT ![r].pc = IF was = "none" THEN "insert" ELSE "update",
                                     ![r].seen.status = was]
    /\ UNCHANGED <<boot, tables, writes>>

\* UNIQUE(user_id, company_id) refuses a second row.
InsertMembership(r) ==
    LET p == request[r].who
        c == request[r].company
    IN /\ request[r].pc = "insert"
       /\ IF HasMembership(p, c)
          THEN UNCHANGED <<member, writes>> /\ Done(r)
          ELSE Store(p, c, NewMember(request[r].role)) /\ ToMark(r)
       /\ UNCHANGED <<boot, company, account, invitation>>

ApplyRoles(r) ==
    LET p == request[r].who
        c == request[r].company
    IN /\ request[r].pc = "update"
       /\ IF RolesMayChange(p, c, request[r].role)
          THEN /\ Store(p, c, WithRole(member[p][c], request[r].role))
               /\ IF request[r].seen.status = "active" THEN ToMark(r) ELSE To(r, "activate")
          ELSE UNCHANGED <<member, writes>> /\ Done(r)
       /\ UNCHANGED <<boot, company, account, invitation>>

Reactivate(r) ==
    LET p == request[r].who
        c == request[r].company
    IN /\ request[r].pc = "activate"
       /\ Store(p, c, WithStatus(member[p][c], "active"))
       /\ ToMark(r)
       /\ UNCHANGED <<boot, company, account, invitation>>

MarkAccepted(r, i) ==
    /\ request[r].pc = "mark"
    /\ request[r].inv = {i}
    /\ invitation' = [invitation EXCEPT ![i].status = "accepted"]
    /\ Done(r)
    /\ UNCHANGED <<boot, company, account, member, writes>>

(***************************************************************************)
(* Finish setup: the setup account names the owner and is switched off.    *)
(* The account is looked at before the transaction, the companies in it.   *)
(***************************************************************************)
AskHandOver(r, p) ==
    /\ boot = "done"
    /\ request[r] = Idle
    /\ account[Setup] = "active"
    /\ p # Setup /\ account[p] = "none"
    /\ request' = [request EXCEPT ![r] = [Idle EXCEPT !.pc = "handover", !.who = p]]
    /\ UNCHANGED <<boot, tables, writes>>

Administered == {c \in Company : ActiveAdmin(Setup, c)}

\* Broken variant: the hand-over does not count up the revisions.
HandedOverSilently(owner) ==
    [p \in Person |-> [c \in Company |->
        IF p = owner /\ c \in Administered THEN NewMember("admin")
        ELSE IF p = Setup /\ member[p][c].status = "active" THEN [member[p][c] EXCEPT !.status = "inactive"]
        ELSE member[p][c]]]

AfterHandOver(owner) ==
    [p \in Person |-> [c \in Company |->
        IF p = owner /\ c \in Administered THEN NewMember("admin")
        ELSE IF p = Setup /\ member[p][c].status = "active" THEN WithStatus(member[p][c], "inactive")
        ELSE member[p][c]]]

\* Broken variant: the customers are not looked at inside the hand-over's transaction.
MayHandOverUnchecked(owner) == account[owner] = "none"

\* Inside the transaction: a customer to hand over, and users_email_lower.
MayHandOver(owner) == Administered # {} /\ account[owner] = "none"

HandOver(r) ==
    LET owner == request[r].who
    IN /\ request[r].pc = "handover"
       /\ IF MayHandOver(owner)
          THEN /\ account' = [account EXCEPT ![owner] = "active", ![Setup] = "disabled"]
               /\ member' = AfterHandOver(owner)
               /\ Written
          ELSE UNCHANGED <<account, member, writes>>
       /\ Done(r)
       /\ UNCHANGED <<boot, company, invitation>>

(***************************************************************************)
(* A new customer: its row, then its first Admin in another transaction.   *)
(***************************************************************************)
\* Bound: nor for a customer that Company no longer has.
AskCustomer(r, a, c) == company # Company /\ Begin(r, a, c, "customer", a, "other", {})

CreateCustomer(r, new) ==
    /\ request[r].pc = "customer"
    /\ new \notin company
    /\ IF IsAdmin(request[r].who, request[r].company)
       THEN /\ company' = company \cup {new}
            /\ request' = [request EXCEPT ![r].pc = "first", ![r].company = new]
       ELSE UNCHANGED company /\ Done(r)
    /\ UNCHANGED <<boot, account, member, invitation, writes>>

FirstAdmin(r) ==
    /\ request[r].pc = "first"
    /\ IF HasMembership(request[r].who, request[r].company)
       THEN UNCHANGED <<member, writes>>
       ELSE Store(request[r].who, request[r].company, NewMember("admin"))
    /\ Done(r)
    /\ UNCHANGED <<boot, company, account, invitation>>

\* Inputs: an edit changes what the page shows (when it lands, that is the
\* stored row).  One that does not would only count up the revision.
AdminStep(r) ==
    \/ \E a \in Person, c \in Company, p \in Person : OpenPage(r, a, c, p)
    \/ ShowPage(r) \/ ClosePage(r)
    \/ \E role \in Role \ {request[r].seen.role} : UpdateRoles(r, role)
    \/ \E status \in {"active", "inactive"} \ {request[r].seen.status} : SetStatus(r, status)

Ask(r) ==
    \/ \E a \in Person, c \in Company :
        \/ \E p \in Person, role \in Role : AskInvite(r, a, c, p, role)
        \/ AskCustomer(r, a, c)
    \/ \E a \in Person, i \in Invitation : AskResend(r, a, i) \/ AskRevoke(r, a, i)
    \/ \E i \in Invitation : AskAccept(r, i)
    \/ \E p \in Person : AskHandOver(r, p)

Work(r) ==
    \/ \E i \in Invitation :
        \/ CreateInvitation(r, i) \/ ResendInvitation(r, i) \/ RevokeInvitation(r, i)
        \/ MarkAccepted(r, i)
    \/ FindAccount(r) \/ CreateUser(r)
    \/ FindMembership(r) \/ InsertMembership(r) \/ ApplyRoles(r) \/ Reactivate(r)
    \/ HandOver(r)
    \/ \E c \in Company : CreateCustomer(r, c)
    \/ FirstAdmin(r)

Next ==
    \/ BootUser \/ BootCustomer \/ BootEnds \/ Restart
    \/ \E c \in Company : BootMember(c)
    \/ \E r \in Request : AdminStep(r) \/ Ask(r) \/ Work(r)
    \/ \E i \in Invitation : Expires(i)

Spec == Init /\ [][Next]_vars

-----------------------------------------------------------------------------
Membership == [status : {"none", "active", "inactive"}, role : Role, rev : Nat]

\* Types of the stored rows, the open pages and the requests.
TypeOK ==
    /\ boot \in {"user", "customer", "members", "done"}
    /\ company \subseteq Company
    /\ account \in [Person -> {"none", "active", "disabled"}]
    /\ member \in [Person -> [Company -> Membership]]
    /\ invitation \in [Invitation -> [status : {"none", "pending", "expired", "accepted", "revoked"},
            company : Company, email : Person, role : Role]]
    /\ request \in [Request -> [pc : {"idle", "read", "page", "invite", "resend", "revoke", "account",
            "create", "join", "insert", "update", "activate", "mark", "handover", "customer", "first"},
            who : Person, company : Company, role : Role, inv : SUBSET Invitation,
            seen : Membership]]
    /\ writes \in 0 .. MaxWrites

\* A customer that has a member has an active Admin, whatever Admins edit at
\* the same time and whatever an acceptance, a hand-over or a restart leaves
\* half done (LastAdminError in membership_service.py).
LastAdminKept ==
    \A c \in Company : (\E p \in Person : HasMembership(p, c)) => \E p \in Person : ActiveAdmin(p, c)

\* A revision stands for one content: a page that carries the stored
\* revision shows the stored roles and status, so an Admin's edit replaces
\* only what that Admin saw.  Every other writer must count up, too: the
\* acceptance of an invitation and the hand-over (membership_service.py:183,
\* company_users.py:178).
RevisionNamesContent ==
    \A r \in Request :
        LET shown == request[r].seen
            stored == member[request[r].who][request[r].company]
        IN request[r].pc = "page" /\ shown.rev = stored.rev => shown = stored

\* An invitation is only marked as accepted when the invited person is a
\* member of its customer: a restart in the middle leaves a link that still
\* works, never one that is used up for nothing (accept_invitation).
AcceptedMeansJoined ==
    \A i \in Invitation :
        invitation[i].status = "accepted" => HasMembership(invitation[i].email, invitation[i].company)

\* Registration is invite-only: apart from the setup account every account
\* belongs to somebody who was invited or who is a member of a customer.  Two
\* hand-overs at once must not leave a second owner's account without one
\* (routers/auth.py:4, setup_handover.py).
EveryLoginWasInvited ==
    \A p \in Person \ {Setup} : account[p] # "none" =>
        \/ \E c \in Company : HasMembership(p, c)
        \/ \E i \in Invitation : invitation[i].status # "none" /\ invitation[i].email = p

\* The active Admin that LastAdminError keeps can sign in and administer the
\* customer.  It does not hold: an active membership of the disabled setup
\* account counts as an Admin (_active_admin_membership_ids does not read
\* users).
AnAdminCanSignIn ==
    \A c \in Company : (\E p \in Person : HasMembership(p, c)) => \E p \in Person : IsAdmin(p, c)
=============================================================================
