\* Two projects of one workspace: the join of the three levels, with a change
\* between the reads; the database settles.
CONSTANTS
    a = a
    b = b
    w1 = w1
    w2 = w2
    p1 = p1
    p2 = p2
    t1 = t1
    t2 = t2
    Undecodable = Undecodable
    Plans = {a, b}
    Workspaces = {w1}
    Projects = {p1, p2}
    Tokens = {t1}
    PlanSettings <- PlanLimits
    WorkspaceSettings <- WorkspaceLimits
    ProjectSettings <- ProjectLimits
    KeepReferences = FALSE
    MaxChanges = 1
SPECIFICATION FairSpec
INVARIANTS TypeOK UntouchedExact
PROPERTIES CachesConverge
