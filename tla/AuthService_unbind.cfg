SPECIFICATION Spec
CONSTANTS
    AppCodes = {c1}
    RoleKeys = {admin}
    PermKeys = {kick}
    Users    = {u1}
    MaxId    = 1
    Threads  = {t1}
    Checkers = {w1}
    AdminOps <- LoudOps
PROPERTIES UnbindTakesEffect
