SPECIFICATION OrganisationSpec
CONSTANTS
    Users = {u1, u2, u3}
    Invites = {i1, i2}
    Products = {p1}
    Reqs = {q1, q2}
    Nobody = none
    Starts = {"open", "absent", "cloud"}
    InviteRoles = {"member"}
    MaxEdits = 1
    Settings = {"voice"}
SYMMETRY Symmetry
INVARIANTS OneOwner SetupOnce
PROPERTIES TeamSurvives
CONSTRAINT UnseededUntilInvites
CHECK_DEADLOCK FALSE
