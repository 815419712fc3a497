SPECIFICATION Spec
CONSTANTS
    Executions = {e1}
    Others = {o1, o2}
    Texts <- MCTexts
    MaxRounds = 1
    MaxStages = 2
    MaxOthers = 1
    MaxExecutions = 2
    MaxItems = 2
    Margin = 2
    Gap = 1
INVARIANTS
    TypeOK
    NoGaps
    LastPassShowsAll
    
PROPERTIES
    EvictsTheStalest
    StreamEnds
