\* Error and release requests while the databases change; answers and bans in the end.
CONSTANTS
    p1 = p1
    p2 = p2
    r1 = r1
    r2 = r2
    r3 = r3
    Requests = {r1}
    Kinds = {"error", "release"}
    Projects = {p1}
    LimitChoices <- OneEvent
    Moments = {0}
    MaxRepeats = 1
    MaxChanges = 2
    MaxCrashes = 1
SPECIFICATION FairSpec
INVARIANTS TypeOK AnswersAreTrue BarredRefused KnownLimitsApply
PROPERTIES EveryRequestAnswered BansTakeEffect
