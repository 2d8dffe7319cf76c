SPECIFICATION Spec
CONSTANTS
    AppCodes = {c1}
    RoleKeys = {admin}
    PermKeys = {kick}
    Users    = {u1}
    Threads  = {t1}
    MaxId    = 1
INVARIANTS AllowedOnlyThroughRole
