SPECIFICATION Spec
CONSTANTS
    Person = {setup, p1, p2}
    Setup = setup
    Company = {c1, c2}
    First = c1
    Invitation = {i1}
    Request = {r1, r2}
    MaxWrites = 5
INVARIANTS
    LastAdminKept
    RevisionNamesContent
    AcceptedMeansJoined
    EveryLoginWasInvited
SYMMETRY Symmetry
