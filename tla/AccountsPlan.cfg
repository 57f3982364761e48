\* Plan limits against the README: a plan is added between two reads.
CONSTANTS
    a = a
    b = b
    w1 = w1
    w2 = w2
    p1 = p1
    p2 = p2
    t1 = t1
    t2 = t2
    Undecodable = Undecodable
    Plans = {a, b}
    Workspaces = {w1}
    Projects = {p1}
    Tokens = {t1}
    PlanSettings <- PlanLimits
    WorkspaceSettings <- NoLimits
    ProjectSettings <- NoLimits
    KeepReferences = TRUE
    MaxChanges = 2
SPECIFICATION Spec
PROPERTIES PlanLimitApplies
