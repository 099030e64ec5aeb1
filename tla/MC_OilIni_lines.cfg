SPECIFICATION Spec
CONSTANTS
    Chars = {" ", "#", "[", "]", "=", "c", "d", "m", "n", "u", "x", "y"}
    Texts <- ShortTexts
    MAX_LINE_LEN = 6
    Implements <- TwoClasses
    FlagOf <- TwoFlags
    CpuFlags <- OneFlag
    NUL = NUL
    NULL = NULL
INVARIANTS
    LoadsAnyAsMeant
