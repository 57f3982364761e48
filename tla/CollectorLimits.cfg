\* Two Sentry requests, clock readings out of order, limits with and without a period, a restart.
CONSTANTS
    p1 = p1
    p2 = p2
    r1 = r1
    r2 = r2
    r3 = r3
    Requests = {r1, r2}
    Kinds = {"sentry"}
    Projects = {p1}
    LimitChoices <- WithAndWithoutPeriod
    Moments = {0, 2}
    MaxRepeats = 1
    MaxChanges = 0
    MaxCrashes = 1
SPECIFICATION Spec
SYMMETRY RequestSymmetry
INVARIANTS OnePermitEach
