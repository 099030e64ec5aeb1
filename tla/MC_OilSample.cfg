SPECIFICATION SampleSpec
CONSTANTS
    Options = {"test_n"}
    Values = {1, 2}
    Defaults <- OneElement
    Seeds = {s1}
    CutSeeds = {t1}
    Noise = {u1}
    Cells = {1, 2, 3}
    MaxHeight = 2
    MaxArgs = 2
    MaxDraws = 1
    NULL = NULL
    Prototypes <- MCPrototypes
    TestM = 2
INVARIANTS
    FramesOwnObjects
    SampleTypeOK
    LengthsAreGiven
    RoomForRows
    CheckerSeesAll
    SameNumbersSameLayout
PROPERTIES
    FramesBeneathAreKept
CHECK_DEADLOCK FALSE
