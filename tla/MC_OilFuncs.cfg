SPECIFICATION FuncsSpec
CONSTANTS
    foo = foo
    bar = bar
    mmx = mmx
    gs2f = gs2f
    fast = fast
    odd = odd
    Names = {foo, bar}
    Classes = {c1, c2, c3, c4}
    Data = {d1, d2}
    NULL = NULL
    Defs <- TwoFunctions
    Tested = {foo}
    Regs <- ThreeImplements
    Added <- ThreeAdded
    Impls = {mmx, gs2f}
    Funcs = {fast, odd}
    Runnable = {fast}
    List <- OneLine
    Ref = Ref
SYMMETRY Symmetry
INVARIANTS
    FuncsTypeOK
    RegisteredIsAlive
    KeysAreAlive
    DestroyedOnce
    SlotHoldsRegistered
    FuncsReady
PROPERTIES
    NoLostData
