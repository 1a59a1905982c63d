SPECIFICATION AdminSpec
CONSTANTS
    User = {u1, u2}
    Password = {p1, p2}
    Token = {t1, t2}
    Key = {k1}
    MaxFailures = 2
    MaxChanges = 3
    Absent = Absent
SYMMETRY Interchangeable
INVARIANTS
    AdminTypeOK
    SessionsFollowCredentials
PROPERTIES
    RevokedKeyStaysOut
