SPECIFICATION Spec
CONSTANTS
    Colon   = ":"
    Chars   <- MCChars
    Codes   <- MCCodes
    Users   <- MCUsers
    Ttls    <- MCTtls
    Values  = {v1, v2}
    MaxTime = 2
INVARIANTS TypeOK
PROPERTIES KeepsContract
