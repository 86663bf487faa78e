SPECIFICATION Spec
CONSTANTS
    NULL = NULL
    p1 = p1
    p2 = p2
    s1 = s1
    s2 = s2
    PreviewName = s1
    Gpus = {TRUE}
    MaxCommands = 2
    Documents <- MCDocuments
INVARIANTS SelectionsHold RendersCurrentProject
PROPERTIES PreviewCatchesUp
