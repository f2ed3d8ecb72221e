SPECIFICATION Spec
CONSTANTS
    Tasks = {t1, t2, t3}
    UserIds = {u1, u2}
    None = None
    MaxTime = 2
SYMMETRY Symmetry
INVARIANTS
    TypeOK
    AnswersShowTheStoredProfile
    LaterRequestsAgree
