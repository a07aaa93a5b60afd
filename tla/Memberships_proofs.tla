------------------------- MODULE Memberships_proofs -------------------------
(***************************************************************************)
(* What holds of the memberships for every set of people, customers,       *)
(* invitations and requests, and without the bound on writes.              *)
(*                                                                         *)
(* The invariants of Memberships are not inductive: what a request will    *)
(* write depends on what it read earlier.  IInv adds what stays true of    *)
(* it: a membership, an account and an invitation, once there, are there   *)
(* for ever, and a row that changes counts up its revision (Grows).  The   *)
(* proof first shows that every step only lets the tables grow that way,   *)
(* then that requests which did not move keep what they rely on.           *)
(***************************************************************************)
EXTENDS Memberships, TLAPS

RequestType ==
    [pc : {"idle", "read", "page", "invite", "resend", "revoke", "account", "create", "join", "insert",
           "update", "activate", "mark", "handover", "customer", "first"},
     who : Person, company : Company, role : Role, inv : SUBSET Invitation,
     seen : Membership]

Populated(c) == \E p \in Person : HasMembership(p, c)

\* The rows: a membership needs an account, a row that does not exist has
\* revision 0, and an invitation's customer has a member.
RowsInv ==
    /\ \A p \in Person, c \in Company :
        /\ HasMembership(p, c) => account[p] # "none"
        /\ ~HasMembership(p, c) => member[p][c].rev = 0
    /\ \A i \in Invitation : invitation[i].status # "none" => Populated(invitation[i].company)
    /\ boot \in {"customer", "members"} => account[Setup] # "none"

\* The request is about an invitation that exists.
Named(r) == \E i \in Invitation : request[r].inv = {i} /\ invitation[i].status # "none"

\* The request works on an invitation that exists, for its person and customer.
Accepting(r) ==
    \E i \in Invitation :
        /\ request[r].inv = {i}
        /\ invitation[i].status # "none"
        /\ invitation[i].email = request[r].who
        /\ invitation[i].company = request[r].company

Joined(r) ==
    \E i \in Invitation :
        /\ request[r].inv = {i}
        /\ invitation[i].status # "none"
        /\ HasMembership(invitation[i].email, invitation[i].company)

\* A page is never ahead of the row, and shows it when the revisions agree:
\* its roles are read after its revision.
PageOf(r) ==
    LET shown == request[r].seen
        stored == member[request[r].who][request[r].company]
    IN /\ shown.rev <= stored.rev
       /\ shown.rev = stored.rev => shown.status = stored.status
       /\ shown.rev = stored.rev /\ request[r].pc = "page" => shown.role = stored.role

\* What a request at each of its steps relies on.
RequestInv(r) ==
    /\ request[r].pc \in {"account", "create", "join", "insert", "update", "activate"} => Accepting(r)
    /\ request[r].pc \in {"join", "insert", "update", "activate", "first"} => account[request[r].who] # "none"
    /\ request[r].pc \in {"read", "page", "update", "activate"} => HasMembership(request[r].who, request[r].company)
    /\ request[r].pc \in {"resend", "revoke"} => Named(r)
    /\ request[r].pc = "mark" => Joined(r)
    /\ request[r].pc = "invite" => Populated(request[r].company)
    /\ request[r].pc \in {"read", "page"} => PageOf(r)

RequestsInv == \A r \in Request : RequestInv(r)

IInv ==
    /\ TypeOK
    /\ RowsInv
    /\ RequestsInv
    /\ LastAdminKept
    /\ AcceptedMeansJoined
    /\ EveryLoginWasInvited

-----------------------------------------------------------------------------
\* Storing a row replaces that row and no other.
LEMMA StoredRow ==
  ASSUME TypeOK, NEW p \in Person, NEW c \in Company, NEW m \in Membership, Store(p, c, m)
  PROVE  /\ member' \in [Person -> [Company -> Membership]]
         /\ member'[p][c] = m
         /\ \A q \in Person, d \in Company : q # p \/ d # c => member'[q][d] = member[q][d]
         /\ writes' \in 0 .. MaxWrites
  BY MembershipBounds DEF TypeOK, Store, Written

\* The rows that are written have the shape of a membership.
LEMMA RowShapes ==
  /\ NoMember \in Membership
  /\ \A role \in Role : NewMember(role) \in Membership
  /\ \A m \in Membership, role \in Role : WithRole(m, role) \in Membership
  /\ \A m \in Membership, status \in {"active", "inactive"} : WithStatus(m, status) \in Membership
  /\ \A m \in Membership : Row(m) \in Membership
<1>1. NoMember \in Membership
  BY DEF NoMember, Membership, Role
<1>2. ASSUME NEW role \in Role PROVE NewMember(role) \in Membership
  BY DEF NewMember, Membership
<1>3. ASSUME NEW m \in Membership, NEW role \in Role PROVE WithRole(m, role) \in Membership
  <2>1. ASSUME NEW n \in Nat PROVE [m EXCEPT !.role = role, !.rev = n] \in Membership
    BY <2>1 DEF Membership
  <2>2. m.rev + 1 \in Nat
    BY DEF Membership
  <2>3. WithRole(m, role) = [m EXCEPT !.role = role, !.rev = m.rev + 1]
    BY DEF WithRole, Membership
  <2> QED BY <2>1, <2>2, <2>3
<1>4. ASSUME NEW m \in Membership, NEW status \in {"active", "inactive"} PROVE WithStatus(m, status) \in Membership
  <2>1. ASSUME NEW n \in Nat PROVE [m EXCEPT !.status = status, !.rev = n] \in Membership
    BY <2>1 DEF Membership
  <2>2. m.rev + 1 \in Nat
    BY DEF Membership
  <2>3. WithStatus(m, status) = [m EXCEPT !.status = status, !.rev = m.rev + 1]
    BY DEF WithStatus, Membership
  <2> QED BY <2>1, <2>2, <2>3
<1>5. ASSUME NEW m \in Membership PROVE Row(m) \in Membership
  BY DEF Row, Membership, Role
<1> QED BY <1>1, <1>2, <1>3, <1>4, <1>5

\* An idle request has the shape of a request.
LEMMA IdleShape == Idle \in RequestType
  BY RowShapes, SetupIsPerson, FirstIsCompany DEF Idle, RequestType, Role

\* The initial state has the declared shape.
LEMMA InitTyped == Init => TypeOK
<1>1. NoInvitation \in [status : {"none", "pending", "expired", "accepted", "revoked"},
                        company : Company, email : Person, role : Role]
  BY SetupIsPerson, FirstIsCompany DEF NoInvitation, Role
<1> QED BY <1>1, IdleShape, RowShapes, MembershipBounds DEF Init, TypeOK, RequestType

\* The requests keep their shape.
LEMMA RequestTyped == TypeOK /\ [Next]_vars => request' \in [Request -> RequestType]
<1> SUFFICES ASSUME TypeOK, [Next]_vars PROVE request' \in [Request -> RequestType]
  OBVIOUS
<1>0. request \in [Request -> RequestType]
  BY DEF TypeOK, RequestType
<1>1. CASE request' = request
  BY <1>0, <1>1
<1>2. ASSUME NEW r \in Request, Done(r) PROVE request' \in [Request -> RequestType]
  BY <1>0, <1>2, IdleShape DEF Done
<1>3. CASE Restart
  BY <1>0, <1>3, IdleShape DEF Restart
<1>4. ASSUME NEW r \in Request, AdminStep(r) PROVE request' \in [Request -> RequestType]
  <2>1. ASSUME NEW a \in Person, NEW c \in Company, NEW p \in Person, OpenPage(r, a, c, p)
        PROVE  request' \in [Request -> RequestType]
    <3>1. Row(member[p][c]) \in Membership
      BY RowShapes DEF TypeOK
    <3>2. [Idle EXCEPT !.pc = "read", !.who = p, !.company = c, !.seen = Row(member[p][c])] \in RequestType
      BY <3>1, IdleShape DEF RequestType
    <3> QED BY <1>0, <2>1, <3>2 DEF OpenPage
  <2>2. ASSUME NEW p, NEW c, NEW m \in Membership, Edit(r, p, c, m)
        PROVE  request' \in [Request -> RequestType]
    <3>1. [request[r] EXCEPT !.pc = "read", !.seen = Row(m)] \in RequestType
      BY <1>0, RowShapes DEF RequestType
    <3> QED BY <1>0, <2>2, <3>1 DEF Edit
  <2>3. request[r].who \in Person /\ request[r].company \in Company
    BY <1>0 DEF RequestType
  <2>4. member[request[r].who][request[r].company] \in Membership
    BY <2>3 DEF TypeOK
  <2>5. ASSUME NEW role \in Role, UpdateRoles(r, role) PROVE request' \in [Request -> RequestType]
    BY <2>2, <2>4, <2>5, RowShapes DEF UpdateRoles
  <2>6. ASSUME NEW status \in {"active", "inactive"}, SetStatus(r, status)
        PROVE  request' \in [Request -> RequestType]
    BY <2>2, <2>4, <2>6, RowShapes DEF SetStatus
  <2>7. CASE ShowPage(r)
    <3> DEFINE shown == [request[r].seen EXCEPT !.role = member[request[r].who][request[r].company].role]
    <3>1. request[r] \in RequestType /\ request[r].seen \in Membership
      BY <1>0 DEF RequestType
    <3>2. shown \in Membership
      BY <2>4, <3>1 DEF Membership
    <3>3. [request[r] EXCEPT !.pc = "page", !.seen = shown] \in RequestType
      BY <3>1, <3>2 DEF RequestType
    <3>4. request' = [request EXCEPT ![r] = [request[r] EXCEPT !.pc = "page", !.seen = shown]]
      BY <1>0, <2>7, <3>1 DEF ShowPage, RequestType
    <3> QED BY <1>0, <3>3, <3>4
  <2> QED BY <1>2, <1>4, <2>1, <2>5, <2>6, <2>7 DEF AdminStep, ClosePage
<1>5. ASSUME NEW r \in Request, Ask(r) PROVE request' \in [Request -> RequestType]
  <2>1. ASSUME NEW a, NEW c \in Company, NEW pc \in {"invite", "resend", "revoke", "customer"},
               NEW who \in Person, NEW role \in Role, NEW i \in SUBSET Invitation,
               Begin(r, a, c, pc, who, role, i)
        PROVE  request' \in [Request -> RequestType]
    <3>1. [Idle EXCEPT !.pc = pc, !.who = who, !.company = c, !.role = role, !.inv = i] \in RequestType
      BY IdleShape DEF RequestType
    <3> QED BY <1>0, <2>1, <3>1 DEF Begin
  <2>2. ASSUME NEW i \in Invitation, AskAccept(r, i) PROVE request' \in [Request -> RequestType]
    <3>1. invitation[i].email \in Person /\ invitation[i].company \in Company /\ invitation[i].role \in Role
      BY DEF TypeOK
    <3>2. [Idle EXCEPT !.pc = "account", !.who = invitation[i].email, !.company = invitation[i].company,
                       !.role = invitation[i].role, !.inv = {i}] \in RequestType
      BY <3>1, IdleShape DEF RequestType
    <3> QED BY <1>0, <2>2, <3>2 DEF AskAccept, Accepts
  <2>3. ASSUME NEW p \in Person, AskHandOver(r, p) PROVE request' \in [Request -> RequestType]
    <3>1. [Idle EXCEPT !.pc = "handover", !.who = p] \in RequestType
      BY IdleShape DEF RequestType
    <3> QED BY <1>0, <2>3, <3>1 DEF AskHandOver
  <2>4. ASSUME NEW a \in Person, NEW i \in Invitation, AskResend(r, a, i) \/ AskRevoke(r, a, i)
        PROVE  request' \in [Request -> RequestType]
    <3>1. invitation[i].company \in Company /\ "other" \in Role /\ {i} \in SUBSET Invitation
      BY DEF TypeOK, Role
    <3> QED BY <2>1, <2>4, <3>1, SetupIsPerson DEF AskResend, AskRevoke
  <2>5. ASSUME NEW a \in Person, NEW c \in Company, NEW p \in Person, NEW role \in Role,
               AskInvite(r, a, c, p, role)
        PROVE  request' \in [Request -> RequestType]
    BY <2>1, <2>5 DEF AskInvite
  <2>6. ASSUME NEW a \in Person, NEW c \in Company, AskCustomer(r, a, c)
        PROVE  request' \in [Request -> RequestType]
    <3>1. "other" \in Role
      BY DEF Role
    <3> QED BY <2>1, <2>6, <3>1 DEF AskCustomer
  <2> QED BY <1>5, <2>2, <2>3, <2>4, <2>5, <2>6 DEF Ask
<1>6. ASSUME NEW r \in Request, Work(r) PROVE request' \in [Request -> RequestType]
  <2>1. ASSUME NEW pc \in {"create", "join", "activate"}, To(r, pc) PROVE request' \in [Request -> RequestType]
    <3>1. [request[r] EXCEPT !.pc = pc] \in RequestType
      BY <1>0 DEF RequestType
    <3> QED BY <1>0, <2>1, <3>1 DEF To
  <2>2. ASSUME ToMark(r) PROVE request' \in [Request -> RequestType]
    <3>1. [Idle EXCEPT !.pc = "mark", !.inv = request[r].inv] \in RequestType
      BY <1>0, IdleShape DEF RequestType
    <3> QED BY <1>0, <2>2, <3>1 DEF ToMark
  <2>3. CASE FindMembership(r)
    <3>1. request[r].who \in Person /\ request[r].company \in Company
      BY <1>0 DEF RequestType
    <3>2. member[request[r].who][request[r].company].status \in {"none", "active", "inactive"}
      BY <3>1 DEF TypeOK, Membership
    <3>3. ASSUME NEW was \in {"none", "active", "inactive"}, NEW pc \in {"insert", "update"},
                 request' = [request EXCEPT ![r].pc = pc, ![r].seen.status = was]
          PROVE  request' \in [Request -> RequestType]
      <4>1. request[r] \in RequestType /\ request[r].seen \in Membership
        BY <1>0 DEF RequestType
      <4>2. [request[r].seen EXCEPT !.status = was] \in Membership
        BY <4>1 DEF Membership
      <4>3. [request[r] EXCEPT !.pc = pc, !.seen = [request[r].seen EXCEPT !.status = was]] \in RequestType
        BY <4>1, <4>2 DEF RequestType
      <4>4. request' = [request EXCEPT ![r] =
                [request[r] EXCEPT !.pc = pc, !.seen = [request[r].seen EXCEPT !.status = was]]]
        BY <1>0, <3>3, <4>1 DEF RequestType
      <4> QED BY <1>0, <4>3, <4>4
    <3> QED BY <2>3, <3>2, <3>3 DEF FindMembership
  <2>4. ASSUME NEW new \in Company, CreateCustomer(r, new) PROVE request' \in [Request -> RequestType]
    <3>1. [request[r] EXCEPT !.pc = "first", !.company = new] \in RequestType
      BY <1>0 DEF RequestType
    <3>2. CASE request' = [request EXCEPT ![r].pc = "first", ![r].company = new]
      BY <1>0, <3>1, <3>2
    <3> QED BY <1>2, <2>4, <3>2 DEF CreateCustomer
  <2>5. CASE FindAccount(r) \/ CreateUser(r)
    BY <1>2, <2>1, <2>5 DEF FindAccount, CreateUser
  <2>6. CASE InsertMembership(r) \/ ApplyRoles(r) \/ Reactivate(r)
    BY <1>2, <2>1, <2>2, <2>6 DEF InsertMembership, ApplyRoles, Reactivate
  <2>7. CASE HandOver(r) \/ FirstAdmin(r)
    BY <1>2, <2>7 DEF HandOver, FirstAdmin
  <2>8. ASSUME NEW i \in Invitation, CreateInvitation(r, i) \/ ResendInvitation(r, i)
                                     \/ RevokeInvitation(r, i) \/ MarkAccepted(r, i)
        PROVE  request' \in [Request -> RequestType]
    BY <1>2, <2>8 DEF CreateInvitation, ResendInvitation, RevokeInvitation, MarkAccepted
  <2> QED BY <1>6, <2>3, <2>4, <2>5, <2>6, <2>7, <2>8 DEF Work
<1> QED
  BY <1>1, <1>3, <1>4, <1>5, <1>6
     DEF Next, vars, BootUser, BootCustomer, BootMember, BootEnds, Expires

\* The hand-over writes memberships and nothing else.
LEMMA HandedOverShape ==
  ASSUME TypeOK, NEW owner \in Person
  PROVE  AfterHandOver(owner) \in [Person -> [Company -> Membership]]
<1> SUFFICES ASSUME NEW p \in Person, NEW c \in Company
             PROVE  (IF p = owner /\ c \in Administered THEN NewMember("admin")
                     ELSE IF p = Setup /\ member[p][c].status = "active"
                          THEN WithStatus(member[p][c], "inactive")
                          ELSE member[p][c]) \in Membership
  BY DEF AfterHandOver
<1>1. member[p][c] \in Membership /\ "admin" \in Role
  BY DEF TypeOK, Role
<1> QED BY <1>1, RowShapes

\* The memberships keep their shape and the writes their bound.
LEMMA MemberTyped ==
  TypeOK /\ [Next]_vars => member' \in [Person -> [Company -> Membership]] /\ writes' \in 0 .. MaxWrites
<1> SUFFICES ASSUME TypeOK, [Next]_vars
             PROVE  member' \in [Person -> [Company -> Membership]] /\ writes' \in 0 .. MaxWrites
  OBVIOUS
<1>1. ASSUME UNCHANGED <<member, writes>>
      PROVE  member' \in [Person -> [Company -> Membership]] /\ writes' \in 0 .. MaxWrites
  BY <1>1 DEF TypeOK
<1>2. ASSUME NEW c \in Company, BootMember(c)
      PROVE  member' \in [Person -> [Company -> Membership]] /\ writes' \in 0 .. MaxWrites
  BY <1>2, StoredRow, RowShapes, SetupIsPerson DEF BootMember, Role
<1>3. ASSUME NEW r \in Request, AdminStep(r) \/ Ask(r) \/ Work(r)
      PROVE  member' \in [Person -> [Company -> Membership]] /\ writes' \in 0 .. MaxWrites
  <2> DEFINE p == request[r].who
             c == request[r].company
  <2>1. p \in Person /\ c \in Company /\ request[r].role \in Role
    BY DEF TypeOK
  <2>2. member[p][c] \in Membership
    BY <2>1 DEF TypeOK
  <2>3. ASSUME NEW role \in Role, UpdateRoles(r, role)
        PROVE  member' \in [Person -> [Company -> Membership]] /\ writes' \in 0 .. MaxWrites
    BY <2>1, <2>2, <2>3, StoredRow, RowShapes DEF UpdateRoles, Edit
  <2>4. ASSUME NEW status \in {"active", "inactive"}, SetStatus(r, status)
        PROVE  member' \in [Person -> [Company -> Membership]] /\ writes' \in 0 .. MaxWrites
    BY <2>1, <2>2, <2>4, StoredRow, RowShapes DEF SetStatus, Edit
  <2>5. CASE InsertMembership(r) \/ FirstAdmin(r)
    <3>1. NewMember(request[r].role) \in Membership /\ NewMember("admin") \in Membership
      BY <2>1, RowShapes DEF Role
    <3> QED BY <1>1, <2>1, <2>5, <3>1, StoredRow DEF InsertMembership, FirstAdmin
  <2>6. CASE ApplyRoles(r) \/ Reactivate(r)
    <3>1. WithRole(member[p][c], request[r].role) \in Membership /\ WithStatus(member[p][c], "active") \in Membership
      BY <2>1, <2>2, RowShapes
    <3> QED BY <1>1, <2>1, <2>6, <3>1, StoredRow DEF ApplyRoles, Reactivate
  <2>7. CASE HandOver(r)
    BY <1>1, <2>1, <2>7, HandedOverShape, MembershipBounds DEF HandOver, Written, TypeOK
  <2>8. CASE AdminStep(r)
    BY <1>1, <2>3, <2>4, <2>8 DEF AdminStep, OpenPage, ShowPage, ClosePage, tables
  <2>9. CASE Ask(r)
    BY <1>1, <2>9 DEF Ask, Begin, AskInvite, AskCustomer, AskResend, AskRevoke, AskAccept, AskHandOver, tables
  <2>10. CASE Work(r)
    BY <1>1, <2>5, <2>6, <2>7, <2>10
       DEF Work, CreateInvitation, ResendInvitation, RevokeInvitation, MarkAccepted, FindAccount, CreateUser,
           FindMembership, CreateCustomer, tables
  <2> QED BY <1>3, <2>8, <2>9, <2>10
<1> QED
  BY <1>1, <1>2, <1>3
     DEF Next, vars, tables, BootUser, BootCustomer, BootEnds, Restart, Expires

\* Which steps write which table.
LEMMA Writers ==
  [Next]_vars =>
    /\ boot' = boot \/ BootUser \/ BootCustomer \/ BootEnds \/ Restart
    /\ company' = company \/ BootCustomer \/ \E r \in Request, c \in Company : CreateCustomer(r, c)
    /\ account' = account \/ BootUser \/ \E r \in Request : CreateUser(r) \/ HandOver(r)
    /\ \/ invitation' = invitation
       \/ \E i \in Invitation : Expires(i)
       \/ \E r \in Request, i \in Invitation :
            \/ CreateInvitation(r, i) \/ ResendInvitation(r, i) \/ RevokeInvitation(r, i)
            \/ MarkAccepted(r, i)
<1> SUFFICES ASSUME [Next]_vars
             PROVE  /\ boot' = boot \/ BootUser \/ BootCustomer \/ BootEnds \/ Restart
                    /\ company' = company \/ BootCustomer \/ \E r \in Request, c \in Company : CreateCustomer(r, c)
                    /\ account' = account \/ BootUser \/ \E r \in Request : CreateUser(r) \/ HandOver(r)
                    /\ \/ invitation' = invitation
                       \/ \E i \in Invitation : Expires(i)
                       \/ \E r \in Request, i \in Invitation :
                            \/ CreateInvitation(r, i) \/ ResendInvitation(r, i) \/ RevokeInvitation(r, i)
                            \/ MarkAccepted(r, i)
  OBVIOUS
<1>1. ASSUME NEW r \in Request, AdminStep(r) PROVE UNCHANGED <<boot, company, account, invitation>>
  BY <1>1 DEF AdminStep, OpenPage, ShowPage, ClosePage, UpdateRoles, SetStatus, Edit, tables
<1>2. ASSUME NEW r \in Request, Ask(r) PROVE UNCHANGED <<boot, company, account, invitation>>
  BY <1>2 DEF Ask, Begin, AskInvite, AskCustomer, AskResend, AskRevoke, AskAccept, AskHandOver, tables
<1>3. ASSUME NEW r \in Request, NEW i \in Invitation,
             CreateInvitation(r, i) \/ ResendInvitation(r, i) \/ RevokeInvitation(r, i) \/ MarkAccepted(r, i)
      PROVE  UNCHANGED <<boot, company, account>>
  BY <1>3 DEF CreateInvitation, ResendInvitation, RevokeInvitation, MarkAccepted
<1>4. ASSUME NEW r \in Request,
             FindAccount(r) \/ FindMembership(r) \/ InsertMembership(r) \/ ApplyRoles(r) \/ Reactivate(r)
             \/ FirstAdmin(r)
      PROVE  UNCHANGED <<boot, company, account, invitation>>
  BY <1>4 DEF FindAccount, FindMembership, InsertMembership, ApplyRoles, Reactivate, FirstAdmin, tables
<1>5. ASSUME NEW r \in Request, CreateUser(r) \/ HandOver(r) PROVE UNCHANGED <<boot, company, invitation>>
  BY <1>5 DEF CreateUser, HandOver
<1>6. ASSUME NEW r \in Request, NEW c \in Company, CreateCustomer(r, c) PROVE UNCHANGED <<boot, account, invitation>>
  BY <1>6 DEF CreateCustomer
<1>7. CASE BootUser \/ BootCustomer \/ BootEnds \/ Restart \/ UNCHANGED vars
  BY <1>7 DEF BootUser, BootCustomer, BootEnds, Restart, vars, tables
<1>8. ASSUME NEW c \in Company, BootMember(c) PROVE UNCHANGED <<boot, company, account, invitation>>
  BY <1>8 DEF BootMember
<1>9. ASSUME NEW i \in Invitation, Expires(i) PROVE UNCHANGED <<boot, company, account>>
  BY <1>9 DEF Expires
<1>10. ASSUME NEW r \in Request, Work(r)
       PROVE  /\ boot' = boot
              /\ company' = company \/ \E c \in Company : CreateCustomer(r, c)
              /\ account' = account \/ CreateUser(r) \/ HandOver(r)
              /\ \/ invitation' = invitation
                 \/ \E i \in Invitation :
                      \/ CreateInvitation(r, i) \/ ResendInvitation(r, i) \/ RevokeInvitation(r, i)
                      \/ MarkAccepted(r, i)
  BY <1>3, <1>4, <1>5, <1>6, <1>10 DEF Work
<1> QED BY <1>1, <1>2, <1>7, <1>8, <1>9, <1>10 DEF Next

\* The other tables keep their shape.
LEMMA TablesTyped ==
  TypeOK /\ [Next]_vars =>
    /\ boot' \in {"user", "customer", "members", "done"}
    /\ company' \subseteq Company
    /\ account' \in [Person -> {"none", "active", "disabled"}]
    /\ invitation' \in [Invitation -> [status : {"none", "pending", "expired", "accepted", "revoked"},
                                       company : Company, email : Person, role : Role]]
<1> SUFFICES ASSUME TypeOK, [Next]_vars
             PROVE  /\ boot' \in {"user", "customer", "members", "done"}
                    /\ company' \subseteq Company
                    /\ account' \in [Person -> {"none", "active", "disabled"}]
                    /\ invitation' \in [Invitation -> [status : {"none", "pending", "expired", "accepted", "revoked"},
                                                       company : Company, email : Person, role : Role]]
  OBVIOUS
<1>1. boot' \in {"user", "customer", "members", "done"}
  BY Writers DEF TypeOK, BootUser, BootCustomer, BootEnds, Restart
<1>2. company' \subseteq Company
  BY Writers, FirstIsCompany DEF TypeOK, BootCustomer, CreateCustomer
<1>3. account' \in [Person -> {"none", "active", "disabled"}]
  BY Writers, SetupIsPerson DEF TypeOK, BootUser, CreateUser, HandOver
<1>4. invitation' \in [Invitation -> [status : {"none", "pending", "expired", "accepted", "revoked"},
                                     company : Company, email : Person, role : Role]]
  <2>1. ASSUME NEW i \in Invitation, NEW s \in {"pending", "expired", "accepted", "revoked"},
               invitation' = [invitation EXCEPT ![i].status = s]
        PROVE  invitation' \in [Invitation -> [status : {"none", "pending", "expired", "accepted", "revoked"},
                                              company : Company, email : Person, role : Role]]
    <3>1. [invitation[i] EXCEPT !.status = s]
            \in [status : {"none", "pending", "expired", "accepted", "revoked"},
                 company : Company, email : Person, role : Role]
      BY DEF TypeOK
    <3>2. invitation' = [invitation EXCEPT ![i] = [invitation[i] EXCEPT !.status = s]]
      BY <2>1
    <3> QED BY <3>1, <3>2 DEF TypeOK
  <2>2. ASSUME NEW r \in Request, NEW i \in Invitation, CreateInvitation(r, i)
        PROVE  invitation' \in [Invitation -> [status : {"none", "pending", "expired", "accepted", "revoked"},
                                              company : Company, email : Person, role : Role]]
    <3>1. [status |-> "pending", company |-> request[r].company, email |-> request[r].who, role |-> request[r].role]
            \in [status : {"none", "pending", "expired", "accepted", "revoked"},
                 company : Company, email : Person, role : Role]
      BY DEF TypeOK
    <3> QED BY <2>2, <3>1 DEF TypeOK, CreateInvitation
  <2>3. CASE invitation' = invitation
    BY <2>3 DEF TypeOK
  <2> QED BY <2>1, <2>2, <2>3, Writers DEF Expires, ResendInvitation, RevokeInvitation, MarkAccepted
<1> QED BY <1>1, <1>2, <1>3, <1>4

\* The types are kept by every step.
LEMMA TypeStep == TypeOK /\ [Next]_vars => TypeOK'
  BY RequestTyped, MemberTyped, TablesTyped DEF TypeOK, RequestType

\* Every reachable state has the declared shape.
THEOREM TypeCorrect == Spec => []TypeOK
<1>1. Init => TypeOK
  BY InitTyped
<1>2. TypeOK /\ [Next]_vars => TypeOK'
  BY TypeStep
<1> QED BY <1>1, <1>2, PTL DEF Spec

-----------------------------------------------------------------------------
\* What a step may do to the tables: a row that changes counts up its
\* revision, and nothing that exists is taken back.
Grows ==
    /\ \A p \in Person, c \in Company :
        \/ member'[p][c] = member[p][c]
        \/ member'[p][c].status # "none" /\ member'[p][c].rev > member[p][c].rev
    /\ \A p \in Person : account[p] # "none" => account'[p] # "none"
    /\ \A i \in Invitation : invitation[i].status # "none" =>
        /\ invitation'[i].status # "none"
        /\ invitation'[i].email = invitation[i].email
        /\ invitation'[i].company = invitation[i].company

\* A stored row that counts up grows the table.
LEMMA StoreGrows ==
  ASSUME TypeOK, NEW p \in Person, NEW c \in Company, NEW m \in Membership, Store(p, c, m),
         m.status # "none", m.rev > member[p][c].rev
  PROVE  \A q \in Person, d \in Company :
            \/ member'[q][d] = member[q][d]
            \/ member'[q][d].status # "none" /\ member'[q][d].rev > member[q][d].rev
  BY StoredRow

\* What the writers store, next to what was there.
LEMMA RowValues ==
  /\ \A role \in Role : NewMember(role).status = "active" /\ NewMember(role).role = role /\ NewMember(role).rev = 1
  /\ \A m \in Membership, role \in Role :
        WithRole(m, role).status = m.status /\ WithRole(m, role).role = role /\ WithRole(m, role).rev > m.rev
  /\ \A m \in Membership, status \in {"active", "inactive"} :
        WithStatus(m, status).status = status /\ WithStatus(m, status).role = m.role /\ WithStatus(m, status).rev > m.rev
<1>1. ASSUME NEW role \in Role
      PROVE  NewMember(role).status = "active" /\ NewMember(role).role = role /\ NewMember(role).rev = 1
  BY DEF NewMember
<1>2. ASSUME NEW m \in Membership, NEW role \in Role
      PROVE  WithRole(m, role).status = m.status /\ WithRole(m, role).role = role /\ WithRole(m, role).rev > m.rev
  BY DEF WithRole, Membership
<1>3. ASSUME NEW m \in Membership, NEW status \in {"active", "inactive"}
      PROVE  WithStatus(m, status).status = status /\ WithStatus(m, status).role = m.role /\ WithStatus(m, status).rev > m.rev
  BY DEF WithStatus, Membership
<1> QED BY <1>1, <1>2, <1>3

\* Which steps write memberships.
LEMMA MemberWriters ==
  [Next]_vars =>
    \/ UNCHANGED member
    \/ \E c \in Company : BootMember(c)
    \/ \E r \in Request :
        \/ \E role \in Role : UpdateRoles(r, role)
        \/ \E status \in {"active", "inactive"} : SetStatus(r, status)
        \/ InsertMembership(r) \/ ApplyRoles(r) \/ Reactivate(r) \/ HandOver(r) \/ FirstAdmin(r)
<1> SUFFICES ASSUME [Next]_vars
             PROVE  \/ UNCHANGED member
                    \/ \E c \in Company : BootMember(c)
                    \/ \E r \in Request :
                        \/ \E role \in Role : UpdateRoles(r, role)
                        \/ \E status \in {"active", "inactive"} : SetStatus(r, status)
                        \/ InsertMembership(r) \/ ApplyRoles(r) \/ Reactivate(r) \/ HandOver(r) \/ FirstAdmin(r)
  OBVIOUS
<1>1. ASSUME NEW r \in Request, AdminStep(r)
      PROVE  \/ UNCHANGED member
             \/ \E role \in Role : UpdateRoles(r, role)
             \/ \E status \in {"active", "inactive"} : SetStatus(r, status)
  BY <1>1 DEF AdminStep, OpenPage, ShowPage, ClosePage, tables
<1>2. ASSUME NEW r \in Request, Ask(r) PROVE UNCHANGED member
  BY <1>2 DEF Ask, Begin, AskInvite, AskCustomer, AskResend, AskRevoke, AskAccept, AskHandOver, tables
<1>3. ASSUME NEW r \in Request, Work(r)
      PROVE  \/ UNCHANGED member
             \/ InsertMembership(r) \/ ApplyRoles(r) \/ Reactivate(r) \/ HandOver(r) \/ FirstAdmin(r)
  BY <1>3 DEF Work, CreateInvitation, ResendInvitation, RevokeInvitation, MarkAccepted, FindAccount, CreateUser,
              FindMembership, CreateCustomer, tables
<1>4. CASE BootUser \/ BootCustomer \/ BootEnds \/ Restart \/ UNCHANGED vars \/ \E i \in Invitation : Expires(i)
  BY <1>4 DEF BootUser, BootCustomer, BootEnds, Restart, Expires, vars, tables
<1> QED BY <1>1, <1>2, <1>3, <1>4 DEF Next

\* Every step lets the tables grow.
LEMMA GrowStep ==
  ASSUME TypeOK, RowsInv, RequestsInv, [Next]_vars
  PROVE  Grows
<1>1. \A p \in Person, c \in Company :
        \/ member'[p][c] = member[p][c]
        \/ member'[p][c].status # "none" /\ member'[p][c].rev > member[p][c].rev
  <2>0. \A p \in Person, c \in Company : member[p][c] \in Membership
    BY DEF TypeOK
  <2>1. ASSUME NEW p \in Person, NEW c \in Company, NEW role \in Role, ~HasMembership(p, c),
               Store(p, c, NewMember(role))
        PROVE  \A q \in Person, d \in Company :
                  \/ member'[q][d] = member[q][d]
                  \/ member'[q][d].status # "none" /\ member'[q][d].rev > member[q][d].rev
    <3>1. member[p][c].rev = 0
      BY <2>1 DEF RowsInv
    <3> DEFINE m == NewMember(role)
    <3>2. m \in Membership
      BY RowShapes
    <3>3. m.status # "none" /\ m.rev > member[p][c].rev
      BY <3>1 DEF NewMember
    <3>4. Store(p, c, m)
      BY <2>1
    <3> HIDE DEF m
    <3> QED BY <3>2, <3>3, <3>4, StoreGrows
  <2>2. ASSUME NEW c \in Company, BootMember(c)
        PROVE  \A q \in Person, d \in Company :
                  \/ member'[q][d] = member[q][d]
                  \/ member'[q][d].status # "none" /\ member'[q][d].rev > member[q][d].rev
    BY <2>1, <2>2, SetupIsPerson DEF BootMember, Role
  <2>3. ASSUME NEW r \in Request,
               \/ \E role \in Role : UpdateRoles(r, role)
               \/ \E status \in {"active", "inactive"} : SetStatus(r, status)
               \/ InsertMembership(r) \/ ApplyRoles(r) \/ Reactivate(r) \/ FirstAdmin(r)
        PROVE  \A q \in Person, d \in Company :
                  \/ member'[q][d] = member[q][d]
                  \/ member'[q][d].status # "none" /\ member'[q][d].rev > member[q][d].rev
    <3> DEFINE p == request[r].who
               c == request[r].company
    <3>1. p \in Person /\ c \in Company /\ request[r].role \in Role /\ member[p][c] \in Membership
      BY <2>0 DEF TypeOK
    <3>2. request[r].pc \in {"read", "page", "update", "activate"} => HasMembership(p, c)
      BY DEF RequestsInv, RequestInv
    <3>3. ASSUME NEW role \in Role, HasMembership(p, c), Store(p, c, WithRole(member[p][c], role))
          PROVE  \A q \in Person, d \in Company :
                    \/ member'[q][d] = member[q][d]
                    \/ member'[q][d].status # "none" /\ member'[q][d].rev > member[q][d].rev
      <4> DEFINE m == WithRole(member[p][c], role)
      <4>0. \A w \in Membership :
                /\ WithRole(w, role) \in Membership
                /\ WithRole(w, role).status = w.status /\ WithRole(w, role).rev > w.rev
        BY RowShapes, RowValues
      <4>1. m \in Membership /\ m.status # "none" /\ m.rev > member[p][c].rev
        BY <3>1, <3>3, <4>0 DEF HasMembership
      <4>2. Store(p, c, m)
        BY <3>3
      <4> HIDE DEF m, p, c
      <4> QED BY <3>1, <4>1, <4>2, StoreGrows
    <3>4. ASSUME NEW status \in {"active", "inactive"}, Store(p, c, WithStatus(member[p][c], status))
          PROVE  \A q \in Person, d \in Company :
                    \/ member'[q][d] = member[q][d]
                    \/ member'[q][d].status # "none" /\ member'[q][d].rev > member[q][d].rev
      <4> DEFINE m == WithStatus(member[p][c], status)
      <4>0. \A w \in Membership :
                /\ WithStatus(w, status) \in Membership
                /\ WithStatus(w, status).status = status /\ WithStatus(w, status).rev > w.rev
        BY RowShapes, RowValues
      <4>1. m \in Membership /\ m.status # "none" /\ m.rev > member[p][c].rev
        BY <3>1, <4>0
      <4>2. Store(p, c, m)
        BY <3>4
      <4> HIDE DEF m, p, c
      <4> QED BY <3>1, <4>1, <4>2, StoreGrows
    <3>5. CASE (\E role \in Role : UpdateRoles(r, role)) \/ ApplyRoles(r)
      BY <3>1, <3>2, <3>3, <3>5 DEF UpdateRoles, Edit, MayEdit, ApplyRoles
    <3>6. CASE (\E status \in {"active", "inactive"} : SetStatus(r, status)) \/ Reactivate(r)
      BY <3>4, <3>6 DEF SetStatus, Edit, Reactivate
    <3>7. CASE InsertMembership(r) \/ FirstAdmin(r)
      BY <2>1, <3>1, <3>7 DEF InsertMembership, FirstAdmin, Role
    <3> QED BY <2>3, <3>5, <3>6, <3>7
  <2>4. ASSUME NEW r \in Request, HandOver(r)
        PROVE  \A q \in Person, d \in Company :
                  \/ member'[q][d] = member[q][d]
                  \/ member'[q][d].status # "none" /\ member'[q][d].rev > member[q][d].rev
    <3> DEFINE owner == request[r].who
    <3>1. CASE UNCHANGED member
      BY <3>1
    <3>2. CASE MayHandOver(owner) /\ member' = AfterHandOver(owner)
      <4> SUFFICES ASSUME NEW q \in Person, NEW d \in Company
                   PROVE  \/ member'[q][d] = member[q][d]
                          \/ member'[q][d].status # "none" /\ member'[q][d].rev > member[q][d].rev
        OBVIOUS
      <4>1. owner \in Person /\ (q = owner => member[q][d].rev = 0)
        BY <3>2 DEF TypeOK, RowsInv, MayHandOver
      <4>2. member'[q][d] = IF q = owner /\ d \in Administered THEN NewMember("admin")
                            ELSE IF q = Setup /\ member[q][d].status = "active"
                                 THEN WithStatus(member[q][d], "inactive")
                                 ELSE member[q][d]
        BY <3>2 DEF AfterHandOver
      <4> QED BY <2>0, <4>1, <4>2, RowValues DEF Role
    <3> QED BY <2>4, <3>1, <3>2 DEF HandOver
  <2> QED BY <2>2, <2>3, <2>4, MemberWriters
<1>2. \A p \in Person : account[p] # "none" => account'[p] # "none"
  BY Writers, SetupIsPerson DEF TypeOK, BootUser, CreateUser, HandOver
<1>3. \A i \in Invitation : invitation[i].status # "none" =>
        /\ invitation'[i].status # "none"
        /\ invitation'[i].email = invitation[i].email
        /\ invitation'[i].company = invitation[i].company
  <2>1. ASSUME NEW j \in Invitation, NEW s \in {"pending", "expired", "accepted", "revoked"},
               invitation' = [invitation EXCEPT ![j].status = s]
        PROVE  \A i \in Invitation : invitation[i].status # "none" =>
                  /\ invitation'[i].status # "none"
                  /\ invitation'[i].email = invitation[i].email
                  /\ invitation'[i].company = invitation[i].company
    BY <2>1 DEF TypeOK
  <2>2. ASSUME NEW r \in Request, NEW j \in Invitation, CreateInvitation(r, j)
        PROVE  \A i \in Invitation : invitation[i].status # "none" => invitation'[i] = invitation[i]
    BY <2>2 DEF TypeOK, CreateInvitation
  <2> QED BY <2>1, <2>2, Writers DEF Expires, ResendInvitation, RevokeInvitation, MarkAccepted
<1> QED BY <1>1, <1>2, <1>3 DEF Grows

-----------------------------------------------------------------------------
\* What exists stays: memberships, populated customers, and what a request
\* relies on as long as it does not move.
LEMMA GrowsKeeps ==
  ASSUME TypeOK, Grows
  PROVE  /\ \A p \in Person, c \in Company : HasMembership(p, c) => HasMembership(p, c)'
         /\ \A c \in Company : Populated(c) => Populated(c)'
<1>1. \A p \in Person, c \in Company : HasMembership(p, c) => HasMembership(p, c)'
  BY DEF Grows, HasMembership
<1> QED BY <1>1 DEF Populated

\* A request that does not move keeps what it relies on.
LEMMA StillRequest ==
  ASSUME TypeOK, TypeOK', Grows, NEW r \in Request, RequestInv(r), request'[r] = request[r]
  PROVE  RequestInv(r)'
<1> DEFINE p == request[r].who
           c == request[r].company
<1>0. p \in Person /\ c \in Company
  BY DEF TypeOK
<1>1. Accepting(r) => Accepting(r)'
  BY DEF Accepting, Grows
<1>2. Joined(r) => Joined(r)'
  <2> SUFFICES ASSUME NEW i \in Invitation, request[r].inv = {i}, invitation[i].status # "none",
                      HasMembership(invitation[i].email, invitation[i].company)
               PROVE  Joined(r)'
    BY DEF Joined
  <2>1. invitation[i].email \in Person /\ invitation[i].company \in Company
    BY DEF TypeOK
  <2>2. HasMembership(invitation[i].email, invitation[i].company)'
    BY <2>1, GrowsKeeps DEF HasMembership, Grows
  <2> QED BY <2>2 DEF Joined, Grows
<1>3. account[p] # "none" => account'[p] # "none"
  BY <1>0 DEF Grows
<1>4. HasMembership(p, c) => HasMembership(p, c)'
  BY <1>0, GrowsKeeps DEF HasMembership
<1>5. Populated(c) => Populated(c)'
  BY <1>0, GrowsKeeps DEF Populated, HasMembership
<1>6. PageOf(r) => PageOf(r)'
  <2>1. member[p][c].rev \in Nat /\ member'[p][c].rev \in Nat /\ request[r].seen.rev \in Nat
    BY <1>0 DEF TypeOK, Membership
  <2>2. \/ member'[p][c] = member[p][c]
        \/ member'[p][c].rev > member[p][c].rev
    BY <1>0 DEF Grows
  <2> QED BY <2>1, <2>2 DEF PageOf
<1>7. Named(r) => Named(r)'
  BY DEF Named, Grows
<1> QED BY <1>1, <1>2, <1>3, <1>4, <1>5, <1>6, <1>7 DEF RequestInv

\* A request that was dropped relies on nothing.
LEMMA IdleRequest ==
  ASSUME NEW r \in Request, request'[r] = Idle
  PROVE  RequestInv(r)'
  BY DEF RequestInv, Idle

\* What the requests rely on is kept: the step of a request by the step, the
\* others because the tables only grow.
LEMMA RequestsStep ==
  ASSUME TypeOK, TypeOK', RowsInv, RequestsInv, Grows, [Next]_vars
  PROVE  RequestsInv'
<1>0. \A r \in Request : RequestInv(r)
  BY DEF RequestsInv
<1>1. CASE request' = request
  BY <1>0, <1>1, StillRequest DEF RequestsInv
<1>2. CASE Restart
  <2> SUFFICES ASSUME NEW r \in Request PROVE RequestInv(r)'
    BY DEF RequestsInv
  <2>1. request'[r] = request[r] \/ request'[r] = Idle
    BY <1>2 DEF Restart
  <2> QED BY <1>0, <2>1, StillRequest, IdleRequest
<1>3. ASSUME NEW r \in Request, NEW new, request' = [request EXCEPT ![r] = new], RequestInv(r)'
      PROVE  RequestsInv'
  <2> SUFFICES ASSUME NEW q \in Request, q # r PROVE RequestInv(q)'
    BY <1>3 DEF RequestsInv
  <2>1. request'[q] = request[q]
    BY <1>3 DEF TypeOK
  <2> QED BY <1>0, <2>1, StillRequest
<1>4. ASSUME NEW r \in Request, Done(r) PROVE RequestsInv'
  <2>1. request'[r] = Idle
    BY <1>4 DEF Done, TypeOK
  <2> QED BY <1>3, <1>4, <2>1, IdleRequest DEF Done
<1>5. ASSUME NEW r \in Request, AdminStep(r) PROVE RequestsInv'
  <2>1. ASSUME NEW a \in Person, NEW c \in Company, NEW p \in Person, OpenPage(r, a, c, p)
        PROVE  RequestsInv'
    <3> DEFINE new == [Idle EXCEPT !.pc = "read", !.who = p, !.company = c, !.seen = Row(member[p][c])]
    <3>1. request' = [request EXCEPT ![r] = new] /\ UNCHANGED member /\ HasMembership(p, c)
      BY <2>1 DEF OpenPage, tables
    <3>2. request'[r] = new
      BY <3>1 DEF TypeOK
    <3>3. new.pc = "read" /\ new.who = p /\ new.company = c /\ new.seen = Row(member[p][c])
      BY DEF Idle
    <3>4. /\ member[p][c].rev \in Nat
          /\ Row(member[p][c]).rev = member[p][c].rev
          /\ Row(member[p][c]).status = member[p][c].status
      BY DEF TypeOK, Membership, Row
    <3>5. HasMembership(p, c)'
      BY <3>1 DEF HasMembership
    <3> HIDE DEF new
    <3>6. RequestInv(r)'
      BY <3>1, <3>2, <3>3, <3>4, <3>5 DEF RequestInv, PageOf
    <3> QED BY <1>3, <3>1, <3>6
  <2>2. ASSUME NEW m \in Membership, m.status # "none", Edit(r, request[r].who, request[r].company, m)
        PROVE  RequestsInv'
    <3> DEFINE p == request[r].who
               c == request[r].company
               new == [request[r] EXCEPT !.pc = "read", !.seen = Row(m)]
    <3>1. p \in Person /\ c \in Company
      BY DEF TypeOK
    <3>2. member'[p][c] = m /\ request[r].pc = "page"
      BY <2>2, <3>1, StoredRow DEF Edit, MayEdit
    <3>3. request' = [request EXCEPT ![r] = new]
      BY <2>2 DEF Edit
    <3>4. request'[r] = new
      BY <3>3 DEF TypeOK
    <3>0. Row(m).rev = m.rev /\ Row(m).status = m.status /\ m.rev \in Nat
      BY DEF Membership, Row
    <3>5. /\ new.pc = "read" /\ new.who = p /\ new.company = c
          /\ new.seen.rev = m.rev /\ new.seen.status = m.status /\ m.rev \in Nat
      BY <3>0 DEF TypeOK
    <3> HIDE DEF new, p, c
    <3>6. RequestInv(r)'
      BY <2>2, <3>2, <3>4, <3>5 DEF RequestInv, PageOf, HasMembership
    <3> QED BY <1>3, <3>3, <3>6
  <2>3. /\ request[r].pc = "page" => HasMembership(request[r].who, request[r].company)
        /\ member[request[r].who][request[r].company] \in Membership
    BY <1>0 DEF TypeOK, RequestInv
  <2>4. ASSUME NEW role \in Role, UpdateRoles(r, role) PROVE RequestsInv'
    <3> DEFINE m == WithRole(member[request[r].who][request[r].company], role)
    <3>1. m \in Membership
      BY <2>3, RowShapes
    <3>2. m.status # "none"
      BY <2>3, <2>4, RowValues DEF UpdateRoles, Edit, MayEdit, HasMembership
    <3>3. Edit(r, request[r].who, request[r].company, m)
      BY <2>4 DEF UpdateRoles
    <3> HIDE DEF m
    <3> QED BY <2>2, <3>1, <3>2, <3>3
  <2>5. ASSUME NEW status \in {"active", "inactive"}, SetStatus(r, status) PROVE RequestsInv'
    <3> DEFINE m == WithStatus(member[request[r].who][request[r].company], status)
    <3>1. m \in Membership
      BY <2>3, RowShapes
    <3>0. \A w \in Membership : WithStatus(w, status).status = status
      BY RowValues
    <3>2. m.status # "none"
      BY <2>3, <3>0
    <3>3. Edit(r, request[r].who, request[r].company, m)
      BY <2>5 DEF SetStatus
    <3> HIDE DEF m
    <3> QED BY <2>2, <3>1, <3>2, <3>3
  <2>6. CASE ShowPage(r)
    <3> DEFINE p == request[r].who
               c == request[r].company
               shown == [request[r].seen EXCEPT !.role = member[p][c].role]
               new == [request[r] EXCEPT !.pc = "page", !.seen = shown]
    <3>0. request \in [Request -> RequestType] /\ request[r] \in RequestType /\ request[r].seen \in Membership
      BY DEF TypeOK, RequestType
    <3>1. request' = [request EXCEPT ![r] = new]
      BY <2>6, <3>0 DEF ShowPage, RequestType
    <3>2. request'[r] = new
      BY <3>1 DEF TypeOK
    <3>3. /\ new.pc = "page" /\ new.who = p /\ new.company = c
          /\ new.seen.rev = request[r].seen.rev /\ new.seen.status = request[r].seen.status
          /\ new.seen.role = member[p][c].role
      BY <3>0 DEF RequestType, Membership
    <3>4. HasMembership(p, c) /\ PageOf(r)
      BY <1>0, <2>6 DEF RequestInv, ShowPage
    <3> UNCHANGED member
      BY <2>6 DEF ShowPage, tables
    <3>5. member[p][c].status # "none"
      BY <3>4 DEF HasMembership
    <3>6. /\ request[r].seen.rev <= member[p][c].rev
          /\ request[r].seen.rev = member[p][c].rev => request[r].seen.status = member[p][c].status
      BY <3>4 DEF PageOf
    <3> HIDE DEF new, p, c
    <3>7. RequestInv(r)'
      BY <3>1, <3>2, <3>3, <3>5, <3>6 DEF RequestInv, PageOf, HasMembership
    <3> QED BY <1>3, <3>1, <3>7
  <2> QED BY <1>4, <1>5, <2>1, <2>4, <2>5, <2>6 DEF AdminStep, ClosePage
<1>6. ASSUME NEW r \in Request, Ask(r) PROVE RequestsInv'
  <2>0. UNCHANGED tables
    BY <1>6 DEF Ask, Begin, AskInvite, AskCustomer, AskResend, AskRevoke, AskAccept, AskHandOver
  <2>1. ASSUME NEW a \in Person, NEW c \in Company, NEW pc \in {"invite", "resend", "revoke", "customer"},
               NEW who, NEW role, NEW s, Begin(r, a, c, pc, who, role, s),
               pc \in {"resend", "revoke"} => \E i \in Invitation : s = {i} /\ invitation[i].status # "none"
        PROVE  RequestsInv'
    <3> DEFINE new == [Idle EXCEPT !.pc = pc, !.who = who, !.company = c, !.role = role, !.inv = s]
    <3>1. request' = [request EXCEPT ![r] = new] /\ HasMembership(a, c)
      BY <2>1 DEF Begin, IsAdmin, ActiveAdmin, HasMembership
    <3>2. request'[r] = new
      BY <3>1 DEF TypeOK
    <3>3. new.pc = pc /\ new.company = c /\ new.inv = s
      BY DEF Idle
    <3>4. Populated(c)'
      BY <3>1, GrowsKeeps DEF Populated
    <3> HIDE DEF new
    <3>5. RequestInv(r)'
      BY <2>1, <3>2, <3>3, <3>4 DEF RequestInv, Populated, HasMembership, Named, Grows
    <3> QED BY <1>3, <3>1, <3>5
  <2>2. ASSUME NEW i \in Invitation, AskAccept(r, i) PROVE RequestsInv'
    <3> DEFINE new == [Idle EXCEPT !.pc = "account", !.who = invitation[i].email,
                                   !.company = invitation[i].company, !.role = invitation[i].role, !.inv = {i}]
    <3>1. request' = [request EXCEPT ![r] = new] /\ invitation[i].status = "pending"
      BY <2>2 DEF AskAccept, Accepts
    <3>2. request'[r] = new
      BY <3>1 DEF TypeOK
    <3>3. new.pc = "account" /\ new.inv = {i} /\ new.who = invitation[i].email /\ new.company = invitation[i].company
      BY DEF Idle
    <3> HIDE DEF new
    <3>4. Accepting(r)'
      BY <2>0, <3>1, <3>2, <3>3 DEF Accepting, tables
    <3>5. RequestInv(r)'
      BY <3>2, <3>3, <3>4 DEF RequestInv
    <3> QED BY <1>3, <3>1, <3>5
  <2>3. ASSUME NEW p \in Person, AskHandOver(r, p) PROVE RequestsInv'
    <3> DEFINE new == [Idle EXCEPT !.pc = "handover", !.who = p]
    <3>1. request' = [request EXCEPT ![r] = new]
      BY <2>3 DEF AskHandOver
    <3>2. request'[r] = new
      BY <3>1 DEF TypeOK
    <3>3. new.pc = "handover"
      BY DEF Idle
    <3> HIDE DEF new
    <3>4. RequestInv(r)'
      BY <3>2, <3>3 DEF RequestInv
    <3> QED BY <1>3, <3>1, <3>4
  <2>4. ASSUME NEW a \in Person, NEW i \in Invitation, AskResend(r, a, i) \/ AskRevoke(r, a, i) PROVE RequestsInv'
    <3>1. invitation[i].company \in Company /\ invitation[i].status # "none"
      BY <2>4 DEF TypeOK, AskResend, AskRevoke
    <3> QED BY <2>1, <2>4, <3>1 DEF AskResend, AskRevoke
  <2>5. ASSUME NEW a \in Person, NEW c \in Company, NEW p \in Person, NEW role \in Role,
               AskInvite(r, a, c, p, role) \/ AskCustomer(r, a, c)
        PROVE  RequestsInv'
    BY <2>1, <2>5 DEF AskInvite, AskCustomer
  <2>6. "other" \in Role
    BY DEF Role
  <2> QED BY <1>6, <2>2, <2>3, <2>4, <2>5, <2>6 DEF Ask
<1>7. ASSUME NEW r \in Request, Work(r) PROVE RequestsInv'
  <2> DEFINE p == request[r].who
             c == request[r].company
  <2>0. p \in Person /\ c \in Company
    BY DEF TypeOK
  <2>1. RequestInv(r)
    BY <1>0
  <2>2. ASSUME To(r, "join") \/ To(r, "create"), Accepting(r), To(r, "join") => account'[p] # "none"
        PROVE  RequestsInv'
    <3> SUFFICES ASSUME NEW pc \in {"join", "create"}, To(r, pc), Accepting(r), pc = "join" => account'[p] # "none"
                 PROVE  RequestsInv'
      BY <2>2
    <3> DEFINE new == [request[r] EXCEPT !.pc = pc]
    <3>1. request' = [request EXCEPT ![r] = new]
      BY DEF To
    <3>2. request'[r] = new
      BY <3>1 DEF TypeOK
    <3>3. new.pc = pc /\ new.who = p /\ new.company = c /\ new.inv = request[r].inv
      BY DEF TypeOK
    <3> HIDE DEF new, p, c
    <3>4. Accepting(r)'
      BY <3>2, <3>3 DEF Accepting, Grows, p, c
    <3>5. RequestInv(r)'
      BY <3>2, <3>3, <3>4 DEF RequestInv
    <3> QED BY <1>3, <3>1, <3>5
  <2>3. CASE FindAccount(r)
    <3>1. Accepting(r)
      BY <2>1, <2>3 DEF RequestInv, FindAccount
    <3>2. UNCHANGED account
      BY <2>3 DEF FindAccount, tables
    <3>3. CASE account[p] = "none" /\ To(r, "create")
      <4>1. To(r, "join") => FALSE
        BY <3>3 DEF To, TypeOK
      <4> QED BY <2>2, <3>1, <3>3, <4>1
    <3>4. CASE account[p] # "none" /\ To(r, "join")
      BY <2>2, <3>1, <3>2, <3>4
    <3> QED BY <2>3, <3>3, <3>4 DEF FindAccount
  <2>4. CASE CreateUser(r)
    <3>1. Accepting(r)
      BY <2>1, <2>4 DEF RequestInv, CreateUser
    <3>2. CASE Done(r)
      BY <1>4, <3>2
    <3>3. CASE To(r, "join") /\ account' = [account EXCEPT ![p] = "active"]
      <4>1. account'[p] # "none"
        BY <2>0, <3>3 DEF TypeOK
      <4> QED BY <2>2, <3>1, <3>3, <4>1
    <3> QED BY <2>4, <3>2, <3>3 DEF CreateUser
  <2>5. CASE FindMembership(r)
    <3> DEFINE was == member[p][c].status
               pc == IF was = "none" THEN "insert" ELSE "update"
               new == [request[r] EXCEPT !.pc = pc, !.seen = [request[r].seen EXCEPT !.status = was]]
    <3>1. request' = [request EXCEPT ![r] = new]
      BY <2>5 DEF FindMembership, TypeOK
    <3>2. request'[r] = new
      BY <3>1 DEF TypeOK
    <3>3. new.pc = pc /\ new.who = p /\ new.company = c /\ new.inv = request[r].inv
      BY DEF TypeOK
    <3>4. Accepting(r) /\ account[p] # "none" /\ (pc = "update" => HasMembership(p, c))
      BY <2>1, <2>5 DEF RequestInv, FindMembership, HasMembership
    <3>5. pc \in {"insert", "update"}
      OBVIOUS
    <3>6. account'[p] # "none" /\ (pc = "update" => member'[p][c].status # "none")
      BY <2>0, <3>4, GrowsKeeps DEF Grows, HasMembership
    <3> HIDE DEF new, pc
    <3>7. Accepting(r)'
      BY <3>2, <3>3, <3>4 DEF Accepting, Grows
    <3>8. RequestInv(r)'
      BY <3>2, <3>3, <3>5, <3>6, <3>7 DEF RequestInv, HasMembership
    <3> QED BY <1>3, <3>1, <3>8
  <2>6. ASSUME ToMark(r), Accepting(r), member'[p][c].status # "none" PROVE RequestsInv'
    <3> DEFINE new == [Idle EXCEPT !.pc = "mark", !.inv = request[r].inv]
    <3>1. request' = [request EXCEPT ![r] = new]
      BY <2>6 DEF ToMark
    <3>2. request'[r] = new
      BY <3>1 DEF TypeOK
    <3>3. new.pc = "mark" /\ new.inv = request[r].inv
      BY DEF Idle
    <3> HIDE DEF new
    <3>4. PICK i \in Invitation : request[r].inv = {i} /\ invitation[i].status # "none"
                                  /\ invitation[i].email = p /\ invitation[i].company = c
      BY <2>6 DEF Accepting
    <3>5. /\ invitation'[i].status # "none"
          /\ invitation'[i].email = p
          /\ invitation'[i].company = c
      BY <3>4 DEF Grows
    <3> HIDE DEF p, c
    <3>6. Joined(r)'
      BY <2>6, <3>2, <3>3, <3>4, <3>5 DEF Joined, HasMembership
    <3>7. RequestInv(r)'
      BY <3>2, <3>3, <3>6 DEF RequestInv
    <3> QED BY <1>3, <3>1, <3>7
  <2>7. CASE InsertMembership(r) \/ ApplyRoles(r) \/ Reactivate(r)
    <3>1. Accepting(r) /\ account[p] # "none" /\ (request[r].pc \in {"update", "activate"} => HasMembership(p, c))
      BY <2>1, <2>7 DEF RequestInv, InsertMembership, ApplyRoles, Reactivate
    <3>2. HasMembership(p, c) => member'[p][c].status # "none"
      BY <2>0, GrowsKeeps DEF HasMembership
    <3>3. CASE InsertMembership(r) /\ ~HasMembership(p, c)
      <4> DEFINE m == NewMember(request[r].role)
      <4>1. m \in Membership /\ Store(p, c, m)
        BY <3>3, RowShapes DEF InsertMembership, TypeOK
      <4>2. m.status = "active"
        BY DEF NewMember
      <4> HIDE DEF m, p, c
      <4>3. member'[p][c].status = "active"
        BY <2>0, <4>1, <4>2, StoredRow
      <4> QED BY <2>6, <3>1, <3>3, <4>3 DEF InsertMembership, p, c
    <3>4. CASE To(r, "activate") /\ HasMembership(p, c)
      <4> DEFINE new == [request[r] EXCEPT !.pc = "activate"]
      <4>1. request' = [request EXCEPT ![r] = new]
        BY <3>4 DEF To
      <4>2. request'[r] = new
        BY <4>1 DEF TypeOK
      <4>3. new.pc = "activate" /\ new.who = p /\ new.company = c /\ new.inv = request[r].inv
        BY DEF TypeOK
      <4>4. account'[p] # "none"
        BY <2>0, <3>1 DEF Grows
      <4> HIDE DEF new
      <4>5. Accepting(r)'
        BY <3>1, <4>2, <4>3 DEF Accepting, Grows
      <4>6. RequestInv(r)'
        BY <3>2, <3>4, <4>2, <4>3, <4>4, <4>5 DEF RequestInv, HasMembership
      <4> QED BY <1>3, <4>1, <4>6
    <3>5. CASE Done(r)
      BY <1>4, <3>5
    <3>6. CASE ToMark(r) /\ HasMembership(p, c)
      BY <2>6, <3>1, <3>2, <3>6
    <3> QED BY <2>7, <3>1, <3>3, <3>4, <3>5, <3>6 DEF InsertMembership, ApplyRoles, Reactivate
  <2>8. CASE HandOver(r) \/ FirstAdmin(r)
    BY <1>4, <2>8 DEF HandOver, FirstAdmin
  <2>9. ASSUME NEW i \in Invitation, CreateInvitation(r, i) \/ ResendInvitation(r, i)
                                     \/ RevokeInvitation(r, i) \/ MarkAccepted(r, i)
        PROVE  RequestsInv'
    BY <1>4, <2>9 DEF CreateInvitation, ResendInvitation, RevokeInvitation, MarkAccepted
  <2>10. ASSUME NEW new \in Company, CreateCustomer(r, new) PROVE RequestsInv'
    <3> DEFINE next == [request[r] EXCEPT !.pc = "first", !.company = new]
    <3>1. CASE IsAdmin(p, c) /\ request' = [request EXCEPT ![r] = next]
      <4>1. request'[r] = next
        BY <3>1 DEF TypeOK
      <4>2. next.pc = "first" /\ next.who = p
        BY DEF TypeOK
      <4>3. account'[p] # "none"
        BY <2>0, <3>1 DEF IsAdmin, Grows
      <4> HIDE DEF next
      <4>4. RequestInv(r)'
        BY <4>1, <4>2, <4>3 DEF RequestInv
      <4> QED BY <1>3, <3>1, <4>4
    <3>2. request' = [request EXCEPT ![r].pc = "first", ![r].company = new] => request' = [request EXCEPT ![r] = next]
      BY DEF TypeOK
    <3> QED BY <1>4, <2>10, <3>1, <3>2 DEF CreateCustomer
  <2> QED BY <1>7, <2>3, <2>4, <2>5, <2>7, <2>8, <2>9, <2>10 DEF Work
<1> QED
  BY <1>1, <1>2, <1>5, <1>6, <1>7
     DEF Next, vars, BootUser, BootCustomer, BootMember, BootEnds, Expires

-----------------------------------------------------------------------------
\* The rows keep their relations.
LEMMA RowsStep ==
  ASSUME TypeOK, TypeOK', RowsInv, RequestsInv, Grows, [Next]_vars
  PROVE  RowsInv'
<1>1. \A p \in Person, c \in Company : ~HasMembership(p, c)' => member'[p][c].rev = 0
  BY DEF RowsInv, Grows, HasMembership
<1>2. \A p \in Person, c \in Company : HasMembership(p, c)' => account'[p] # "none"
  <2>1. ASSUME NEW p \in Person, NEW c \in Company, NEW m \in Membership, Store(p, c, m), account'[p] # "none"
        PROVE  \A q \in Person, d \in Company : HasMembership(q, d)' => account'[q] # "none"
    <3> SUFFICES ASSUME NEW q \in Person, NEW d \in Company, HasMembership(q, d)', q # p
                 PROVE  account'[q] # "none"
      BY <2>1
    <3>1. member'[q][d] = member[q][d]
      BY <2>1, StoredRow
    <3> QED BY <3>1 DEF RowsInv, Grows, HasMembership
  <2>2. CASE UNCHANGED member
    BY <2>2 DEF RowsInv, Grows, HasMembership
  <2>3. ASSUME NEW c \in Company, BootMember(c)
        PROVE  \A q \in Person, d \in Company : HasMembership(q, d)' => account'[q] # "none"
    <3>1. account'[Setup] # "none"
      BY <2>3, SetupIsPerson DEF BootMember, RowsInv, Grows
    <3>2. NewMember("admin") \in Membership
      BY RowShapes DEF Role
    <3> QED BY <2>1, <2>3, <3>1, <3>2, SetupIsPerson DEF BootMember
  <2>4. ASSUME NEW r \in Request,
               \/ \E role \in Role : UpdateRoles(r, role)
               \/ \E status \in {"active", "inactive"} : SetStatus(r, status)
               \/ InsertMembership(r) \/ ApplyRoles(r) \/ Reactivate(r) \/ FirstAdmin(r)
        PROVE  \A q \in Person, d \in Company : HasMembership(q, d)' => account'[q] # "none"
    <3> DEFINE p == request[r].who
               c == request[r].company
    <3>1. p \in Person /\ c \in Company /\ member[p][c] \in Membership /\ request[r].role \in Role
      BY DEF TypeOK
    <3>2. request[r].pc \in {"page", "insert", "update", "activate", "first"} => account[p] # "none"
      BY <3>1 DEF RequestsInv, RequestInv, RowsInv
    <3>3. request[r].pc \in {"page", "insert", "update", "activate", "first"}
      BY <2>4 DEF UpdateRoles, SetStatus, Edit, MayEdit, InsertMembership, ApplyRoles, Reactivate, FirstAdmin
    <3>4. account'[p] # "none"
      BY <3>1, <3>2, <3>3 DEF Grows
    <3>5. /\ \A role \in Role : WithRole(member[p][c], role) \in Membership
          /\ \A status \in {"active", "inactive"} : WithStatus(member[p][c], status) \in Membership
          /\ NewMember(request[r].role) \in Membership /\ NewMember("admin") \in Membership
      BY <3>1, RowShapes DEF Role
    <3>6. UNCHANGED member \/ \E m \in Membership : Store(p, c, m)
      BY <2>4, <3>1, <3>5 DEF UpdateRoles, SetStatus, Edit, InsertMembership, ApplyRoles, Reactivate, FirstAdmin
    <3> HIDE DEF p, c
    <3> QED BY <2>1, <2>2, <3>1, <3>4, <3>6
  <2>5. ASSUME NEW r \in Request, HandOver(r), ~UNCHANGED member
        PROVE  \A q \in Person, d \in Company : HasMembership(q, d)' => account'[q] # "none"
    <3> DEFINE owner == request[r].who
    <3> SUFFICES ASSUME NEW q \in Person, NEW d \in Company, HasMembership(q, d)'
                 PROVE  account'[q] # "none"
      OBVIOUS
    <3>1. /\ owner \in Person
          /\ account' = [account EXCEPT ![owner] = "active", ![Setup] = "disabled"]
          /\ member' = AfterHandOver(owner)
      BY <2>5 DEF HandOver, TypeOK
    <3>2. CASE q = owner \/ q = Setup
      BY <3>1, <3>2, SetupIsPerson DEF TypeOK
    <3>3. CASE q # owner /\ q # Setup
      <4>1. member'[q][d] = member[q][d]
        BY <3>1, <3>3 DEF AfterHandOver
      <4> QED BY <4>1 DEF RowsInv, Grows, HasMembership
    <3> QED BY <3>2, <3>3
  <2> QED BY <2>2, <2>3, <2>4, <2>5, MemberWriters
<1>3. \A i \in Invitation : invitation'[i].status # "none" => \E p \in Person : member'[p][invitation'[i].company].status # "none"
  <2>0. \A c \in Company : Populated(c) => \E p \in Person : member'[p][c].status # "none"
    BY GrowsKeeps DEF Populated, HasMembership
  <2>1. ASSUME NEW i \in Invitation, invitation[i].status # "none" PROVE \E p \in Person : member'[p][invitation'[i].company].status # "none"
    <3>1. invitation[i].company \in Company /\ Populated(invitation[i].company)
      BY <2>1 DEF TypeOK, RowsInv
    <3>2. invitation'[i].company = invitation[i].company
      BY <2>1 DEF Grows
    <3> QED BY <2>0, <3>1, <3>2
  <2>2. ASSUME NEW r \in Request, NEW j \in Invitation, CreateInvitation(r, j)
        PROVE  \E p \in Person : member'[p][invitation'[j].company].status # "none"
    <3>1. request[r].company \in Company /\ Populated(request[r].company)
      BY <2>2 DEF TypeOK, RequestsInv, RequestInv, CreateInvitation
    <3>2. invitation'[j].company = request[r].company
      BY <2>2 DEF CreateInvitation, TypeOK
    <3> QED BY <2>0, <3>1, <3>2
  <2>3. ASSUME NEW i \in Invitation, invitation[i].status = "none", invitation'[i].status # "none"
        PROVE  \E r \in Request : CreateInvitation(r, i)
    <3>1. ~UNCHANGED invitation
      BY <2>3
    <3>2. ASSUME NEW j \in Invitation, Expires(j) PROVE FALSE
      BY <2>3, <3>2 DEF Expires, TypeOK
    <3>3. ASSUME NEW r \in Request, NEW j \in Invitation,
                 ResendInvitation(r, j) \/ RevokeInvitation(r, j) \/ MarkAccepted(r, j)
          PROVE  FALSE
      <4>1. PICK k \in Invitation : request[r].inv = {k} /\ invitation[k].status # "none"
        BY <3>3 DEF RequestsInv, RequestInv, Named, Joined, ResendInvitation, RevokeInvitation, MarkAccepted
      <4>2. j = k /\ \A l \in Invitation \ {j} : invitation'[l] = invitation[l]
        BY <3>3, <4>1 DEF ResendInvitation, RevokeInvitation, MarkAccepted, TypeOK
      <4> QED BY <2>3, <4>1, <4>2
    <3>4. ASSUME NEW r \in Request, NEW j \in Invitation, CreateInvitation(r, j) PROVE i = j
      BY <2>3, <3>4 DEF CreateInvitation, TypeOK
    <3> QED BY <3>1, <3>2, <3>3, <3>4, Writers
  <2> QED BY <2>1, <2>2, <2>3
<1>4. boot' \in {"customer", "members"} => account'[Setup] # "none"
  <2>1. CASE boot' = boot
    BY <2>1, SetupIsPerson DEF RowsInv, Grows
  <2>2. CASE BootUser
    BY <2>2, SetupIsPerson DEF BootUser, TypeOK
  <2>3. CASE BootCustomer \/ BootEnds \/ Restart
    BY <2>3, SetupIsPerson DEF BootCustomer, BootEnds, Restart, RowsInv, Grows
  <2> QED BY <2>1, <2>2, <2>3, Writers
<1> QED BY <1>1, <1>2, <1>3, <1>4 DEF RowsInv, HasMembership, Populated

-----------------------------------------------------------------------------
\* Storing a row leaves the customer an Admin: the row itself, another one,
\* or the one there was when the row was none.
LEMMA StoreKeepsAdmin ==
  ASSUME TypeOK, LastAdminKept, NEW p \in Person, NEW c \in Company, NEW m \in Membership, Store(p, c, m),
         \/ m.status = "active" /\ m.role = "admin"
         \/ OtherAdminRemains(p, c)
         \/ Populated(c) /\ ~ActiveAdmin(p, c)
  PROVE  LastAdminKept'
<1> SUFFICES ASSUME NEW d \in Company, \E q \in Person : member'[q][d].status # "none"
             PROVE  \E q \in Person : member'[q][d].status = "active" /\ member'[q][d].role = "admin"
  BY DEF LastAdminKept, HasMembership, ActiveAdmin
<1>1. CASE d # c
  <2>1. \A q \in Person : member'[q][d] = member[q][d]
    BY <1>1, StoredRow
  <2> QED BY <2>1 DEF LastAdminKept, HasMembership, ActiveAdmin
<1>2. CASE d = c
  <2>1. member'[p][c] = m /\ \A q \in Person \ {p} : member'[q][c] = member[q][c]
    BY StoredRow
  <2>2. CASE m.status = "active" /\ m.role = "admin"
    BY <1>2, <2>1, <2>2
  <2>3. CASE OtherAdminRemains(p, c)
    BY <1>2, <2>1, <2>3 DEF OtherAdminRemains, ActiveAdmin
  <2>4. CASE Populated(c) /\ ~ActiveAdmin(p, c)
    <3>1. PICK q \in Person : ActiveAdmin(q, c)
      BY <2>4 DEF LastAdminKept, Populated
    <3> QED BY <1>2, <2>1, <2>4, <3>1 DEF ActiveAdmin
  <2> QED BY <2>2, <2>3, <2>4
<1> QED BY <1>1, <1>2

\* Every step leaves a populated customer an active Admin.
LEMMA LastAdminStep ==
  ASSUME TypeOK, RowsInv, RequestsInv, LastAdminKept, [Next]_vars
  PROVE  LastAdminKept'
<1>1. CASE UNCHANGED member
  BY <1>1 DEF LastAdminKept, HasMembership, ActiveAdmin
<1>2. ASSUME NEW p \in Person, NEW c \in Company, Store(p, c, NewMember("admin")) PROVE LastAdminKept'
  <2> DEFINE m == NewMember("admin")
  <2>1. m \in Membership /\ m.status = "active" /\ m.role = "admin" /\ Store(p, c, m)
    BY <1>2, RowShapes DEF NewMember, Role
  <2> HIDE DEF m
  <2> QED BY <2>1, StoreKeepsAdmin
<1>3. ASSUME NEW c \in Company, BootMember(c) PROVE LastAdminKept'
  BY <1>2, <1>3, SetupIsPerson DEF BootMember
<1>4. ASSUME NEW r \in Request,
             \/ \E role \in Role : UpdateRoles(r, role)
             \/ \E status \in {"active", "inactive"} : SetStatus(r, status)
             \/ InsertMembership(r) \/ ApplyRoles(r) \/ Reactivate(r) \/ FirstAdmin(r)
      PROVE  LastAdminKept'
  <2> DEFINE p == request[r].who
             c == request[r].company
  <2>1. p \in Person /\ c \in Company /\ member[p][c] \in Membership /\ request[r].role \in Role
    BY DEF TypeOK
  <2>2. RequestInv(r)
    BY DEF RequestsInv
  <2>3. ASSUME NEW role \in Role, HasMembership(p, c), RolesMayChange(p, c, role),
               Store(p, c, WithRole(member[p][c], role))
        PROVE  LastAdminKept'
    <3> DEFINE m == WithRole(member[p][c], role)
    <3>0. m \in Membership
      BY <2>1, RowShapes
    <3>1. m.status = member[p][c].status /\ m.role = role
      BY <2>1, RowValues, SMTT(30)
    <3>2. Store(p, c, m) /\ Populated(c)
      BY <2>1, <2>3 DEF Populated
    <3>3. \/ m.status = "active" /\ m.role = "admin"
          \/ OtherAdminRemains(p, c)
          \/ ~ActiveAdmin(p, c)
      BY <2>3, <3>1 DEF RolesMayChange, ActiveAdmin
    <3> HIDE DEF m, p, c
    <3> QED BY <2>1, <3>0, <3>1, <3>2, <3>3, StoreKeepsAdmin
  <2>4. ASSUME NEW status \in {"active", "inactive"}, HasMembership(p, c), StatusMayChange(p, c, status),
               Store(p, c, WithStatus(member[p][c], status))
        PROVE  LastAdminKept'
    <3> DEFINE m == WithStatus(member[p][c], status)
    <3>0. m \in Membership
      BY <2>1, RowShapes
    <3>1. m.status = status /\ m.role = member[p][c].role
      BY <2>1, RowValues, SMTT(30)
    <3>2. Store(p, c, m) /\ Populated(c)
      BY <2>1, <2>4 DEF Populated
    <3>3. \/ m.status = "active" /\ m.role = "admin"
          \/ OtherAdminRemains(p, c)
          \/ ~ActiveAdmin(p, c)
      BY <2>4, <3>1 DEF StatusMayChange, ActiveAdmin
    <3> HIDE DEF m, p, c
    <3> QED BY <2>1, <3>0, <3>1, <3>2, <3>3, StoreKeepsAdmin
  <2>5. ASSUME NEW role \in Role, UpdateRoles(r, role) PROVE LastAdminKept'
    BY <2>2, <2>3, <2>5 DEF UpdateRoles, Edit, MayEdit, RequestInv
  <2>6. ASSUME NEW status \in {"active", "inactive"}, SetStatus(r, status) PROVE LastAdminKept'
    BY <2>2, <2>4, <2>6 DEF SetStatus, Edit, MayEdit, RequestInv
  <2>7. CASE ApplyRoles(r)
    BY <1>1, <2>1, <2>2, <2>3, <2>7 DEF ApplyRoles, RequestInv
  <2>8. CASE Reactivate(r)
    <3>1. StatusMayChange(p, c, "active")
      BY DEF StatusMayChange
    <3> QED BY <2>2, <2>4, <2>8, <3>1 DEF Reactivate, RequestInv
  <2>9. CASE InsertMembership(r) /\ ~HasMembership(p, c)
    <3> DEFINE m == NewMember(request[r].role)
    <3>1. m \in Membership /\ Store(p, c, m)
      BY <2>1, <2>9, RowShapes DEF InsertMembership
    <3>2. Populated(c)
      BY <2>2, <2>9 DEF RequestInv, Accepting, RowsInv, InsertMembership
    <3>3. ~ActiveAdmin(p, c)
      BY <2>9 DEF ActiveAdmin, HasMembership
    <3> HIDE DEF m, p, c
    <3> QED BY <2>1, <3>1, <3>2, <3>3, StoreKeepsAdmin
  <2>10. CASE InsertMembership(r) /\ HasMembership(p, c)
    BY <1>1, <2>10 DEF InsertMembership
  <2>11. CASE FirstAdmin(r)
    BY <1>1, <1>2, <2>1, <2>11 DEF FirstAdmin
  <2> QED BY <1>4, <2>5, <2>6, <2>7, <2>8, <2>9, <2>10, <2>11
<1>5. ASSUME NEW r \in Request, HandOver(r) PROVE LastAdminKept'
  <2> DEFINE owner == request[r].who
  <2>1. CASE member' = AfterHandOver(owner) /\ owner \in Person
    <3> SUFFICES ASSUME NEW d \in Company, NEW p \in Person, member'[p][d].status # "none"
                 PROVE  \E q \in Person : member'[q][d].status = "active" /\ member'[q][d].role = "admin"
      BY DEF LastAdminKept, HasMembership, ActiveAdmin
    <3>1. \A q \in Person : member'[q][d] =
            IF q = owner /\ d \in Administered THEN NewMember("admin")
            ELSE IF q = Setup /\ member[q][d].status = "active" THEN WithStatus(member[q][d], "inactive")
            ELSE member[q][d]
      BY <2>1 DEF AfterHandOver
    <3>2. CASE d \in Administered
      <4>1. member'[owner][d].status = "active" /\ member'[owner][d].role = "admin"
        BY <2>1, <3>1, <3>2 DEF NewMember
      <4> QED BY <2>1, <4>1
    <3>3. CASE d \notin Administered
      <4>1. HasMembership(p, d)
        BY <3>1, <3>3 DEF HasMembership
      <4>2. PICK q \in Person : ActiveAdmin(q, d)
        BY <4>1 DEF LastAdminKept
      <4>3. q # Setup
        BY <3>3, <4>2 DEF Administered
      <4>4. member'[q][d] = member[q][d]
        BY <3>1, <3>3, <4>3
      <4> QED BY <4>2, <4>4 DEF ActiveAdmin
    <3> QED BY <3>2, <3>3
  <2> QED BY <1>1, <1>5, <2>1 DEF HandOver, TypeOK
<1> QED BY <1>1, <1>3, <1>4, <1>5, MemberWriters

\* An invitation is marked by a request whose person has joined.
LEMMA AcceptedStep ==
  ASSUME TypeOK, RequestsInv, AcceptedMeansJoined, Grows, [Next]_vars
  PROVE  AcceptedMeansJoined'
<1> SUFFICES ASSUME NEW i \in Invitation, invitation'[i].status = "accepted"
             PROVE  member'[invitation'[i].email][invitation'[i].company].status # "none"
  BY DEF AcceptedMeansJoined, HasMembership
<1>1. CASE /\ invitation[i].status # "none"
           /\ HasMembership(invitation[i].email, invitation[i].company)
  <2>1. invitation[i].email \in Person /\ invitation[i].company \in Company
    BY DEF TypeOK
  <2>2. member'[invitation[i].email][invitation[i].company].status # "none"
    BY <1>1, <2>1, GrowsKeeps DEF HasMembership
  <2> QED BY <1>1, <2>2 DEF Grows
<1>2. CASE invitation'[i] = invitation[i]
  BY <1>1, <1>2 DEF AcceptedMeansJoined
<1>3. ASSUME NEW j \in Invitation, Expires(j) PROVE invitation'[i] = invitation[i]
  BY <1>3 DEF Expires, TypeOK
<1>4. ASSUME NEW r \in Request, NEW j \in Invitation,
             CreateInvitation(r, j) \/ ResendInvitation(r, j) \/ RevokeInvitation(r, j)
      PROVE  invitation'[i] = invitation[i]
  BY <1>4 DEF CreateInvitation, ResendInvitation, RevokeInvitation, TypeOK
<1>5. ASSUME NEW r \in Request, NEW j \in Invitation, MarkAccepted(r, j), j # i
      PROVE  invitation'[i] = invitation[i]
  BY <1>5 DEF MarkAccepted, TypeOK
<1>6. ASSUME NEW r \in Request, MarkAccepted(r, i)
      PROVE  /\ invitation[i].status # "none"
             /\ HasMembership(invitation[i].email, invitation[i].company)
  <2>1. Joined(r) /\ request[r].inv = {i}
    BY <1>6 DEF RequestsInv, RequestInv, MarkAccepted
  <2> QED BY <2>1 DEF Joined
<1> QED BY <1>1, <1>2, <1>3, <1>4, <1>5, <1>6, Writers

\* A new account belongs to an invited person or to an owner who is a member.
LEMMA LoginStep ==
  ASSUME TypeOK, RequestsInv, EveryLoginWasInvited, Grows, [Next]_vars
  PROVE  EveryLoginWasInvited'
<1> SUFFICES ASSUME NEW p \in Person \ {Setup}, account'[p] # "none"
             PROVE  \/ \E c \in Company : member'[p][c].status # "none"
                    \/ \E i \in Invitation : invitation'[i].status # "none" /\ invitation'[i].email = p
  BY DEF EveryLoginWasInvited, HasMembership
<1>1. CASE account[p] # "none"
  <2>1. \A c \in Company : HasMembership(p, c) => member'[p][c].status # "none"
    BY GrowsKeeps DEF HasMembership
  <2> QED BY <1>1, <2>1 DEF EveryLoginWasInvited, Grows
<1>2. CASE account[p] = "none"
  <2>1. ASSUME NEW r \in Request, CreateUser(r)
        PROVE  \E i \in Invitation : invitation'[i].status # "none" /\ invitation'[i].email = p
    <3>1. request[r].who = p
      BY <1>2, <2>1 DEF CreateUser, TypeOK
    <3>2. Accepting(r)
      BY <2>1 DEF RequestsInv, RequestInv, CreateUser
    <3> QED BY <3>1, <3>2 DEF Accepting, Grows
  <2>2. ASSUME NEW r \in Request, HandOver(r)
        PROVE  \E c \in Company : member'[p][c].status # "none"
    <3>1. /\ request[r].who = p
          /\ member' = AfterHandOver(p)
          /\ Administered # {}
      BY <1>2, <2>2 DEF HandOver, MayHandOver, TypeOK
    <3>2. PICK c \in Company : c \in Administered
      BY <3>1 DEF Administered
    <3>3. member'[p][c] = NewMember("admin")
      BY <3>1, <3>2 DEF AfterHandOver
    <3> QED BY <3>3 DEF NewMember
  <2>3. ~BootUser /\ account' # account
    BY <1>2 DEF BootUser, TypeOK
  <2> QED BY <2>1, <2>2, <2>3, Writers
<1> QED BY <1>1, <1>2

-----------------------------------------------------------------------------
\* The invariant holds initially and is kept by every step.
LEMMA InvInit == Init => IInv
<1> SUFFICES ASSUME Init PROVE IInv
  OBVIOUS
<1>1. TypeOK
  BY InitTyped
<1>2. /\ \A p \in Person, c \in Company : ~HasMembership(p, c) /\ member[p][c].rev = 0
      /\ \A i \in Invitation : invitation[i].status = "none"
      /\ \A r \in Request : request[r].pc = "idle"
      /\ \A p \in Person : account[p] = "none"
  BY DEF Init, HasMembership, NoMember, NoInvitation, Idle
<1>3. RowsInv
  BY <1>2 DEF RowsInv, Init
<1>4. RequestsInv
  BY <1>2 DEF RequestsInv, RequestInv
<1>5. LastAdminKept /\ AcceptedMeansJoined /\ EveryLoginWasInvited
  BY <1>2 DEF LastAdminKept, AcceptedMeansJoined, EveryLoginWasInvited
<1> QED BY <1>1, <1>3, <1>4, <1>5 DEF IInv

LEMMA InvStep == IInv /\ [Next]_vars => IInv'
<1> SUFFICES ASSUME IInv, [Next]_vars PROVE IInv'
  OBVIOUS
<1>0. TypeOK /\ RowsInv /\ RequestsInv /\ LastAdminKept /\ AcceptedMeansJoined /\ EveryLoginWasInvited
  BY DEF IInv
<1>1. TypeOK'
  BY <1>0, TypeStep
<1>2. Grows
  BY <1>0, GrowStep
<1>3. RowsInv' /\ RequestsInv'
  BY <1>0, <1>1, <1>2, RowsStep, RequestsStep
<1>4. LastAdminKept' /\ AcceptedMeansJoined' /\ EveryLoginWasInvited'
  BY <1>0, <1>2, LastAdminStep, AcceptedStep, LoginStep
<1> QED BY <1>1, <1>3, <1>4 DEF IInv

LEMMA Invariant == Spec => []IInv
<1>1. Init => IInv
  BY InvInit
<1>2. IInv /\ [Next]_vars => IInv'
  BY InvStep
<1> QED BY <1>1, <1>2, PTL DEF Spec

\* Whatever Admins, acceptances, hand-overs and restarts do at the same time,
\* a customer that has a member has an active Admin (LastAdminError).
THEOREM AdminIsKept == Spec => []LastAdminKept
<1>1. IInv => LastAdminKept
  BY DEF IInv
<1> QED BY Invariant, <1>1, PTL

\* A page that carries the stored revision shows the stored row, so an edit
\* never replaces a change its Admin did not see (_check_revision).
THEOREM EditsReplaceWhatWasSeen == Spec => []RevisionNamesContent
<1>1. IInv => RevisionNamesContent
  <2> SUFFICES ASSUME IInv, NEW r \in Request, request[r].pc = "page",
                      request[r].seen.rev = member[request[r].who][request[r].company].rev
               PROVE  request[r].seen = member[request[r].who][request[r].company]
    BY DEF RevisionNamesContent
  <2> DEFINE shown == request[r].seen
             stored == member[request[r].who][request[r].company]
  <2>1. shown \in Membership /\ stored \in Membership
    BY DEF IInv, TypeOK
  <2>2. shown.rev = stored.rev /\ shown.status = stored.status /\ shown.role = stored.role
    BY DEF IInv, RequestsInv, RequestInv, PageOf
  <2> QED BY <2>1, <2>2 DEF Membership
<1> QED BY Invariant, <1>1, PTL

\* A restart in the middle of an acceptance leaves a link that still works or
\* a person who has joined, never neither (accept_invitation).
THEOREM AcceptedHaveJoined == Spec => []AcceptedMeansJoined
<1>1. IInv => AcceptedMeansJoined
  BY DEF IInv
<1> QED BY Invariant, <1>1, PTL

\* Every account but the setup account belongs to somebody who was invited or
\* is a member, two hand-overs at once included (setup_handover.py).
THEOREM LoginsAreInvited == Spec => []EveryLoginWasInvited
<1>1. IInv => EveryLoginWasInvited
  BY DEF IInv
<1> QED BY Invariant, <1>1, PTL

=============================================================================
