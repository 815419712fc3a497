SPECIFICATION Spec
CONSTANTS
    Requests = {r1, r2, r3}
    Sessions = {s1, s2}
    Keys = {k1, k2}
    Contents = {c1, c2}
    c1 = c1
    c2 = c2
    Scores <- MCScores
    Global = Global
    None = None
    SessionWindow = 2
    GlobalWindow = 2
    TopN = 1
SYMMETRY MCSymmetry
INVARIANTS
    NewestWins
    ForgottenStaysOut
