\* Two projects whose settings change while their calls are in flight, with clock
\* readings up to a whole period old.
CONSTANTS
    p1 = p1
    p2 = p2
    c1 = c1
    c2 = c2
    Projects = {p1, p2}
    Calls = {c1, c2}
    Settings <- ChangingSettings
    MaxClock = 5
    MaxDelay = 2
SPECIFICATION Spec
SYMMETRY CallSymmetry
INVARIANTS TypeOK WithinLimit BurstBound
PROPERTIES WindowsMoveForward DenialJustified
