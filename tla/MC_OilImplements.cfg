SPECIFICATION Spec
CONSTANTS
    Names = {n1, n2, n3, n4}
    Funcs = {f1, f2}
    Flags = {w1}
    Ref = Ref
    NULL = NULL
    Dangling = Dangling
    Uninit = Uninit
INVARIANTS
    TypeOK
    Accounting
    NoUninitRead
    UniqueNames
    NamesOwned
PROPERTIES
    OrderIsStable
    ActiveIsStable
    ImplementsMap
CHECK_DEADLOCK FALSE
