CONSTANTS
    Users = {1, 2, 3}
    Requests = {r1, r2}
    Names = {"a", "b", "c"}
    Passwords = {"initial", "changed"}
    Secrets = {s1, s2}
    NoRow = NoRow
    Gone = Gone
    NoSecret = NoSecret
    NoPassword = NoPassword
    NoRequest = NoRequest
    FirstRows <- TwoAdmins
    Forms <- SomeForms
SPECIFICATION Spec
SYMMETRY Symmetry
INVARIANT RevokedUnlessOverwritten
INVARIANT EnabledHasSecret
INVARIANT AdminActsAfterReset
\* Every request process serves one request; Login may go on for ever.
CHECK_DEADLOCK FALSE
