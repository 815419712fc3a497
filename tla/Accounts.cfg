SPECIFICATION Spec
CONSTANTS
    Chats = {c1, c2}
    Tasks = {t1, t2, t3}
    Initially = Initially
    DefaultCredits = 1
    TopUps = {1}
    MaxCredits = 2
    MaxRestarts = 1
SYMMETRY MCSymmetry
INVARIANTS
    CreditsBalance
    SessionsFollowPassword

    
