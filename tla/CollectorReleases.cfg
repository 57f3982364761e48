\* Release requests against the documented limit.
CONSTANTS
    p1 = p1
    p2 = p2
    r1 = r1
    r2 = r2
    r3 = r3
    Requests = {r1, r2}
    Kinds = {"release"}
    Projects = {p1}
    LimitChoices <- OneEvent
    Moments = {0}
    MaxRepeats = 0
    MaxChanges = 2
    MaxCrashes = 1
SPECIFICATION Spec
INVARIANTS LimitsEnforced
