SPECIFICATION Spec
CONSTANTS
    AppCodes = {c1, c2}
    RoleKeys = {admin}
    PermKeys = {kick}
    Users    = {u1}
    Threads  = {t1, t2}
    MaxId    = 2
SYMMETRY Symmetric
INVARIANTS TypeOK AppIsolation IsolationInv
PROPERTIES AccessGrowsOnlyByBinding NewAppStartsEmpty
