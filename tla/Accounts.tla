------------------------------ MODULE Accounts ------------------------------
(***************************************************************************)
(* The accounts client (pkg/accounts): its two caches, tokens and rate     *)
(* limits, and the refreshes that rebuild them from MongoDB while other    *)
(* services change it (pkg/accounts/cache.go).                             *)
(*                                                                         *)
(* UpdateProjectsLimitsCache reads three collections one after the other,  *)
(* without a transaction, joins them in memory and replaces the cache.     *)
(* UpdateTokenCache reads one.  The two run in goroutines of their own,    *)
(* each one refresh at a time.                                             *)
(***************************************************************************)
EXTENDS Integers, SequencesExt

CONSTANTS
    Plans, Workspaces, Projects,   \* the _id of the documents
    Tokens,              \* integration ID and secret, as DecodeToken joins them
    Undecodable,         \* a token DecodeToken rejects
    PlanSettings, WorkspaceSettings, ProjectSettings,   \* rateLimitSettings of each
    KeepReferences,      \* other services never leave a reference to a missing document
    MaxChanges           \* bound: changes other services make

Setting == [limit : Int, period : Int]

Zero == [limit |-> 0, period |-> 0]

ASSUME AccountsAssumption ==
    /\ PlanSettings \cup WorkspaceSettings \cup ProjectSettings \subseteq Setting
    /\ Undecodable \notin Tokens
    /\ KeepReferences \in BOOLEAN
    /\ MaxChanges \in Nat

VARIABLES
    plans, workspaces, projects,   \* MongoDB: _id -> document, a partial function each
    changes,
    projectLimits,   \* cache: project -> settings
    validTokens,     \* cache: token -> project
    refresh,         \* the refresh of the limits: the collections read so far
    tokenRefresh,    \* the refresh of the tokens: the same
    untouched,       \* history: projects no document of which changed in the refresh
    exact            \* history: the same, from the start of the last one installed on

database == <<plans, workspaces, projects, changes>>
vars == <<database, projectLimits, validTokens, refresh, tokenRefresh, untouched, exact>>

Workspace == [tariffPlan : Plans, settings : WorkspaceSettings]
Project == [workspace : Workspaces, settings : ProjectSettings,
            token : Tokens \cup {Undecodable}]

\* The contents a collection of such documents can have.
Collections(ids, documents) == UNION {[S -> documents] : S \in SUBSET ids}

Put(collection, id, document) ==
    [i \in DOMAIN collection \cup {id} |-> IF i = id THEN document ELSE collection[i]]

Drop(collection, id) == [i \in DOMAIN collection \ {id} |-> collection[i]]

-----------------------------------------------------------------------------
(* The join *)

\* One field of the settings, from a lower level and a higher one.
Over(lower, higher) == IF higher > 0 THEN higher ELSE lower

\* Mutant: a level with a limit replaces both fields.
OverrideWhole(lower, higher) == IF higher.limit > 0 THEN higher ELSE lower

Override(lower, higher) ==
    [limit |-> Over(lower.limit, higher.limit), period |-> Over(lower.period, higher.period)]

\* The settings a project inherits.  A workspace without its plan is skipped.
Inherited(ps, ws, w) ==
    IF w \in DOMAIN ws /\ ws[w].tariffPlan \in DOMAIN ps
    THEN Override(ps[ws[w].tariffPlan], ws[w].settings)
    ELSE Zero

\* The table UpdateProjectsLimitsCache builds from what it read.
Resolve(ps, ws, prs) ==
    [p \in DOMAIN prs |-> Override(Inherited(ps, ws, prs[p].workspace), prs[p].settings)]

-----------------------------------------------------------------------------
References(ps, ws, prs) ==
    KeepReferences =>
        /\ \A w \in DOMAIN ws : ws[w].tariffPlan \in DOMAIN ps
        /\ \A p \in DOMAIN prs : prs[p].workspace \in DOMAIN ws

Init ==
    /\ plans \in Collections(Plans, PlanSettings)
    /\ workspaces \in Collections(Workspaces, Workspace)
    /\ projects \in Collections(Projects, Project)
    /\ References(plans, workspaces, projects)
    /\ changes = 0
    /\ projectLimits = <<>>
    /\ validTokens = <<>>
    /\ refresh = <<>>
    /\ tokenRefresh = <<>>
    /\ untouched = {}
    /\ exact = {}

(* Other services *)

\* The projects whose limits are worked out from workspace w, or from plan pl.
In(w) == {p \in DOMAIN projects : projects[p].workspace = w}
On(pl) == UNION {In(w) : w \in {w \in DOMAIN workspaces : workspaces[w].tariffPlan = pl}}

Change(affected) ==
    /\ changes < MaxChanges
    /\ changes' = changes + 1
    /\ References(plans', workspaces', projects')
    /\ untouched' = untouched \ affected
    /\ exact' = exact \ affected
    /\ UNCHANGED <<projectLimits, validTokens, refresh, tokenRefresh>>

ChangePlan(pl) ==
    /\ \/ \E s \in PlanSettings : plans' = Put(plans, pl, s)
       \/ plans' = Drop(plans, pl)
    /\ UNCHANGED <<workspaces, projects>>
    /\ Change(On(pl))

ChangeWorkspace(w) ==
    /\ \/ \E d \in Workspace : workspaces' = Put(workspaces, w, d)
       \/ workspaces' = Drop(workspaces, w)
    /\ UNCHANGED <<plans, projects>>
    /\ Change(In(w))

ChangeProject(p) ==
    /\ \/ \E d \in Project : projects' = Put(projects, p, d)
       \/ projects' = Drop(projects, p)
    /\ UNCHANGED <<plans, workspaces>>
    /\ Change({p})

-----------------------------------------------------------------------------
(* UpdateProjectsLimitsCache *)

ReadPlans ==
    /\ refresh = <<>>
    /\ refresh' = <<plans>>
    /\ untouched' = Projects
    /\ UNCHANGED <<database, projectLimits, validTokens, tokenRefresh, exact>>

ReadWorkspaces ==
    /\ Len(refresh) = 1
    /\ refresh' = Append(refresh, workspaces)
    /\ UNCHANGED <<database, projectLimits, validTokens, tokenRefresh, untouched, exact>>

ReadProjects ==
    /\ Len(refresh) = 2
    /\ refresh' = Append(refresh, projects)
    /\ UNCHANGED <<database, projectLimits, validTokens, tokenRefresh, untouched, exact>>

\* Mutant: the new entries are written into the map in use.
InstallLimitsInPlace ==
    /\ Len(refresh) = 3
    /\ LET new == Resolve(refresh[1], refresh[2], refresh[3])
       IN  projectLimits' = [p \in DOMAIN new \cup DOMAIN projectLimits |->
                                IF p \in DOMAIN new THEN new[p] ELSE projectLimits[p]]
    /\ refresh' = <<>>
    /\ exact' = untouched
    /\ UNCHANGED <<database, validTokens, tokenRefresh, untouched>>

\* The join, and one assignment of the new map.
InstallLimits ==
    /\ Len(refresh) = 3
    /\ projectLimits' = Resolve(refresh[1], refresh[2], refresh[3])
    /\ refresh' = <<>>
    /\ exact' = untouched
    /\ UNCHANGED <<database, validTokens, tokenRefresh, untouched>>

\* A query fails or times out: the cache stays as it was.
LimitsFail ==
    /\ refresh # <<>> /\ Len(refresh) < 3
    /\ refresh' = <<>>
    /\ UNCHANGED <<database, projectLimits, validTokens, tokenRefresh, untouched, exact>>

(* UpdateTokenCache *)

ReadTokens ==
    /\ tokenRefresh = <<>>
    /\ tokenRefresh' = <<projects>>
    /\ UNCHANGED <<database, projectLimits, validTokens, refresh, untouched, exact>>

\* Mutant: the error of DecodeToken is not looked at.
InstallTokensUndecoded ==
    /\ tokenRefresh # <<>>
    /\ LET read == tokenRefresh[1]
           known == {read[p].token : p \in DOMAIN read}
       IN  validTokens' = [t \in known |-> CHOOSE p \in DOMAIN read : read[p].token = t]
    /\ tokenRefresh' = <<>>
    /\ UNCHANGED <<database, projectLimits, refresh, untouched, exact>>

\* Of two projects with one token the later in the cursor is found.
InstallTokens ==
    /\ tokenRefresh # <<>>
    /\ LET read == tokenRefresh[1]
           owners(t) == {p \in DOMAIN read : read[p].token = t}
           known == {t \in Tokens : owners(t) # {}}
       IN  \E table \in [known -> DOMAIN read] :
               /\ \A t \in known : table[t] \in owners(t)
               /\ validTokens' = table
    /\ tokenRefresh' = <<>>
    /\ UNCHANGED <<database, projectLimits, refresh, untouched, exact>>

-----------------------------------------------------------------------------
Next ==
    \/ \E pl \in Plans : ChangePlan(pl)
    \/ \E w \in Workspaces : ChangeWorkspace(w)
    \/ \E p \in Projects : ChangeProject(p)
    \/ ReadPlans \/ ReadWorkspaces \/ ReadProjects \/ InstallLimits \/ LimitsFail
    \/ ReadTokens \/ InstallTokens

Spec == Init /\ [][Next]_vars

\* RunPeriodically calls both for ever, and queries do not always fail.
Fairness ==
    /\ WF_vars(ReadPlans) /\ SF_vars(ReadWorkspaces)
    /\ SF_vars(ReadProjects) /\ WF_vars(InstallLimits)
    /\ WF_vars(ReadTokens) /\ WF_vars(InstallTokens)

FairSpec == Spec /\ Fairness

-----------------------------------------------------------------------------
(* Properties *)

\* Every variable has its type.
TypeOK ==
    /\ plans \in Collections(Plans, PlanSettings)
    /\ workspaces \in Collections(Workspaces, Workspace)
    /\ projects \in Collections(Projects, Project)
    /\ changes \in 0..MaxChanges
    /\ DOMAIN projectLimits \subseteq Projects
    /\ \A p \in DOMAIN projectLimits : projectLimits[p] \in Setting
    /\ validTokens \in Collections(Tokens, Projects)
    /\ Len(refresh) \in 0..3 /\ Len(tokenRefresh) \in 0..1
    /\ untouched \subseteq Projects /\ exact \subseteq Projects

\* README.md, "Rate Limiting": the levels from highest to lowest are project,
\* workspace, plan.  Each of N and T is taken from the first that sets it; what
\* the plan has is the default.
FirstSet(values, default) ==
    LET set == {i \in DOMAIN values : values[i] > 0}
    IN  IF set = {} THEN default ELSE values[CHOOSE i \in set : \A j \in set : i <= j]

Documented(p) ==
    LET own == projects[p].settings
        w == workspaces[projects[p].workspace].settings
        plan == plans[workspaces[projects[p].workspace].tariffPlan]
    IN  [limit |-> FirstSet(<<own.limit, w.limit>>, plan.limit),
         period |-> FirstSet(<<own.period, w.period>>, plan.period)]

Complete(p) ==
    /\ p \in DOMAIN projects
    /\ projects[p].workspace \in DOMAIN workspaces
    /\ workspaces[projects[p].workspace].tariffPlan \in DOMAIN plans

\* A project whose own document, workspace and plan have not changed since the
\* last installed refresh began has the documented limits in the cache, although
\* that refresh read the three collections at different times and anything else
\* in them may have changed, failed refreshes included.
UntouchedExact ==
    \A p \in exact :
        Complete(p) => p \in DOMAIN projectLimits /\ projectLimits[p] = Documented(p)

\* A token leads to a project that had it when the tokens were read, so in a
\* database that no longer changes the caches end up agreeing with it, and
\* every project a token leads to has its limits.
CachesConverge ==
    <>[](/\ projectLimits = Resolve(plans, workspaces, projects)
         /\ DOMAIN validTokens = {projects[p].token : p \in DOMAIN projects} \cap Tokens
         /\ \A t \in DOMAIN validTokens :
                /\ validTokens[t] \in DOMAIN projectLimits
                /\ projects[validTokens[t]].token = t)

\* README.md, "Plan level - Default limits from the workspace's tariff plan": a
\* refresh leaves no project that is in a workspace with a plan without a limit,
\* where every plan has one.
PlanLimitApplies ==
    [][\A p \in DOMAIN projectLimits' :
           (projectLimits' # projectLimits /\ Complete(p)) => projectLimits'[p].limit > 0]_vars
=============================================================================
