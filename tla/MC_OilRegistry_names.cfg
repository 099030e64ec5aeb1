SPECIFICATION Spec
CONSTANTS
    Names = {foo, bar}
    Classes = {c1, c2, c3, c4}
    Data = {d1, d2}
    NULL = NULL
SYMMETRY Symmetry
INVARIANTS
    NamesAreReadable
