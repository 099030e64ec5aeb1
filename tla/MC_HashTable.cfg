SPECIFICATION Spec
CONSTANTS
    HASH_TABLE_MIN_SHIFT = 2
    Keys <- CollidingKeys
    Hash <- CollidingHash
    Vals = {v1, v2}
    MaxNodes = 8
    NULL = NULL
INVARIANTS
    TypeOK
    StoredIsFound
    CountsAgree
    Ownership
PROPERTIES
    ImplementsDict
