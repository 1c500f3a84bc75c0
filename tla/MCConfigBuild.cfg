SPECIFICATION Spec
CONSTANTS
    Thorn = {t1}
    Provider = {here, there}
    Options = {o1, o2}
    Flesh = {f1, f2}
    Shape = {s1, s2}
    None = None
    MaxChanges = 4
    SettledTree = TRUE
    ForcesAfterFailure = TRUE
    RequeueEscalated = FALSE
SYMMETRY Alikes
INVARIANTS
    UpToDateIsTrue
    DeletedStaysDeleted
