SPECIFICATION Spec
CONSTANTS
    Sessions = {s1, s2, s3}
    Actors = {ann, bob}
    Nobody = Nobody
    Calls <- MCCalls
    Guarded <- MCGuarded
    MaxSteps = 2
    MaxRounds = 2
    MaxTokens = 2
SYMMETRY MCSymmetry
INVARIANTS
    ActionsAreApproved
    ResumeRunsOnlyTheApproved
    OnlySuccessLeadsOn
    InvocationsAreAudited
PROPERTIES
    KeepsLedger
