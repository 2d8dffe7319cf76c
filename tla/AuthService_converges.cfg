SPECIFICATION FairSpec
CONSTANTS
    AppCodes = {c1}
    RoleKeys = {admin}
    PermKeys = {kick}
    Users    = {u1}
    MaxId    = 1
    Threads  = {t1}
    Checkers = {w1, w2}
    AdminOps <- RacingOps
PROPERTIES Converges
