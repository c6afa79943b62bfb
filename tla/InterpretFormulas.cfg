SPECIFICATION Spec
CONSTANTS
    Cells <- MCCells
    Position <- MCPosition
    Functions <- MCFunctions
    Place <- MCPlace
    SheetNames <- MCSheetNames
    Jobs <- MCJobs
    ArithmeticLength = 5
    CallLength = 6
    ArrayLength = 5
    NameLength = 3
CHECK_DEADLOCK FALSE
INVARIANTS
    TypeOK
    StackDiscipline
    FollowsGrammar
    NamesReplaced
    ExpansionBounded
    CharactersCounted
    Statistics
    JunctionsByTruth
    QuestionsAgree
PROPERTY
    Terminates
