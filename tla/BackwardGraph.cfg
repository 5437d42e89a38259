CONSTANTS
    Values = {v1}
    DefaultValue = v0
    Weights = {0, 1}
    DefaultWeight = 0
    Ids <- SmallIds
    Half = 8
    MaxVertices = 4
    MaxEdges = 2
SPECIFICATION Spec
CONSTRAINT FewEdges
INVARIANTS
    TypeOK
    KeysAgree
    ParentsMirror
PROPERTIES
    OnlyCopyMisaligns
    GraphRefined
CHECK_DEADLOCK FALSE
