SPECIFICATION Spec
CONSTANTS
    Names <- MCNames
    Labels <- MCLabels
    Dotted <- MCDotted
    WellFormed <- MCWellFormed
    Damaged <- MCDamaged
    ExpandedText <- MCExpanded
    SyntaxTree <- MCTree
    CodeSections <- MCSections
    Byte = 256
    MaxDepth = 4
    Null = null
CHECK_DEADLOCK FALSE
INVARIANTS
    TypeOK
    PlacesExact
    CodeExact
    FewPasses
PROPERTIES
    MacrosExpanded
    ReadsAsWritten
    JumpsAsStructured
