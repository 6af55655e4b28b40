SPECIFICATION Spec
CONSTANTS
    Lines <- MCLines
    Texts <- MCTexts
    Expand <- MCExpand
    FirstSource <- Source
    Plans <- Proposed
    UserLines <- MCUserLines
    MaxUserEdits = 1
INVARIANTS
    EditsLandOnTargets

    
CHECK_DEADLOCK FALSE
