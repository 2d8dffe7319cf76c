SPECIFICATION Spec
CONSTANTS
    AppCodes = {c1}
    RoleKeys = {admin}
    PermKeys = {kick}
    Users    = {u1, u2}
    MaxId    = 1
    Threads  = {t1, t2}
    Checkers = {w1}
    AdminOps <- MostOps
SYMMETRY Symmetric
INVARIANTS TypeOK CacheExact CacheNeverGenerous CheckAgreesWithBatchCheck SuggestionsAreUpgrades
