CONSTANTS
    Texts <- MCTexts
    Tables <- MCTables
    Text <- Stringify
    Probes <- MCProbes
SPECIFICATION DecisionsSpec
INVARIANTS HitPolicyMeaning CellMeaning OperatorLaws
CHECK_DEADLOCK FALSE
