-------------------------- MODULE Accounts_proofs --------------------------
(***************************************************************************)
(* Proofs about the accounts client, for any collections, any settings and *)
(* any number of changes to the database, whether references are kept or   *)
(* not.                                                                    *)
(*                                                                         *)
(* UntouchedExact speaks of the cache alone and is not inductive: what the *)
(* cache will hold is in the collections a refresh has read so far.        *)
(* AccountsInv says of each project the refresh found untouched that what  *)
(* was read of its plan, its workspace and its document is what the        *)
(* database still has.                                                     *)
(***************************************************************************)
EXTENDS Accounts, TLAPS

Read == Collections(Plans, PlanSettings) \cup Collections(Workspaces, Workspace)
            \cup Collections(Projects, Project)

\* The types of the database and of the caches, and which collection is where
\* in the refreshes.
Typed ==
    /\ plans \in Collections(Plans, PlanSettings)
    /\ workspaces \in Collections(Workspaces, Workspace)
    /\ projects \in Collections(Projects, Project)
    /\ changes \in 0..MaxChanges
    /\ DOMAIN projectLimits \subseteq Projects
    /\ \A p \in DOMAIN projectLimits : projectLimits[p] \in Setting
    /\ validTokens \in Collections(Tokens, Projects)
    /\ untouched \subseteq Projects /\ exact \subseteq Projects

ReadInOrder ==
    /\ refresh \in Seq(Read) /\ Len(refresh) <= 3
    /\ Len(refresh) >= 1 => refresh[1] \in Collections(Plans, PlanSettings)
    /\ Len(refresh) >= 2 => refresh[2] \in Collections(Workspaces, Workspace)
    /\ Len(refresh) >= 3 => refresh[3] \in Collections(Projects, Project)
    /\ tokenRefresh \in Seq(Collections(Projects, Project)) /\ Len(tokenRefresh) <= 1

\* What the refresh has read of project p is what the database has.
WorkspaceOf(p) == projects[p].workspace
PlanOf(p) == workspaces[WorkspaceOf(p)].tariffPlan

Agreed(p) ==
    Complete(p) =>
        /\ Len(refresh) >= 1 => /\ PlanOf(p) \in DOMAIN refresh[1]
                                /\ refresh[1][PlanOf(p)] = plans[PlanOf(p)]
        /\ Len(refresh) >= 2 => /\ WorkspaceOf(p) \in DOMAIN refresh[2]
                                /\ refresh[2][WorkspaceOf(p)] = workspaces[WorkspaceOf(p)]
        /\ Len(refresh) >= 3 => /\ p \in DOMAIN refresh[3]
                                /\ refresh[3][p] = projects[p]

\* The cache has what a join of the database would give project p.
Current(p) ==
    Override(Override(plans[PlanOf(p)], workspaces[WorkspaceOf(p)].settings),
             projects[p].settings)

Right(p) == Complete(p) => p \in DOMAIN projectLimits /\ projectLimits[p] = Current(p)

AccountsInv ==
    /\ Typed
    /\ ReadInOrder
    /\ \A p \in untouched : Agreed(p)
    /\ \A p \in exact : Right(p)

\* Nothing project p is worked out from changes in this step.
SamePath(p) ==
    /\ Complete(p)
    /\ projects'[p] = projects[p]
    /\ workspaces'[WorkspaceOf(p)] = workspaces[WorkspaceOf(p)]
    /\ plans'[PlanOf(p)] = plans[PlanOf(p)]

\* The caches and the refresh of the limits stand still.
SameCaches == UNCHANGED <<projectLimits, refresh>>

-----------------------------------------------------------------------------
(* The collections *)

\* A collection is a function on some of the ids to documents.
LEMMA CollectionFunction ==
    ASSUME NEW ids, NEW docs, NEW f \in Collections(ids, docs)
    PROVE  /\ f \in [DOMAIN f -> docs]
           /\ DOMAIN f \subseteq ids
           /\ \A i \in DOMAIN f : f[i] \in docs
<1>1. PICK S \in SUBSET ids : f \in [S -> docs]
    BY DEF Collections
<1> QED  BY <1>1

\* And every such function is one.
LEMMA FunctionCollection ==
    ASSUME NEW ids, NEW docs, NEW S \in SUBSET ids, NEW f \in [S -> docs]
    PROVE  f \in Collections(ids, docs)
BY DEF Collections

LEMMA PutCollection ==
    ASSUME NEW ids, NEW docs, NEW f \in Collections(ids, docs), NEW i \in ids, NEW d \in docs
    PROVE  Put(f, i, d) \in Collections(ids, docs)
<1>1. Put(f, i, d) \in [DOMAIN f \cup {i} -> docs]
    BY CollectionFunction DEF Put
<1>2. DOMAIN f \cup {i} \in SUBSET ids
    BY CollectionFunction
<1> QED  BY <1>1, <1>2, FunctionCollection

LEMMA DropCollection ==
    ASSUME NEW ids, NEW docs, NEW f \in Collections(ids, docs), NEW i
    PROVE  Drop(f, i) \in Collections(ids, docs)
<1>1. Drop(f, i) \in [DOMAIN f \ {i} -> docs]
    BY CollectionFunction DEF Drop
<1>2. DOMAIN f \ {i} \in SUBSET ids
    BY CollectionFunction
<1> QED  BY <1>1, <1>2, FunctionCollection

\* Putting or dropping one document leaves the others alone.
LEMMA OthersStay ==
    ASSUME NEW f, NEW i, NEW d, NEW g, g = Put(f, i, d) \/ g = Drop(f, i),
           NEW j \in DOMAIN g, j # i
    PROVE  j \in DOMAIN f /\ g[j] = f[j]
BY DEF Put, Drop

-----------------------------------------------------------------------------
(* The join *)

LEMMA OverrideType ==
    ASSUME NEW lower \in Setting, NEW higher \in Setting
    PROVE  Override(lower, higher) \in Setting
BY DEF Override, Over, Setting

\* The settings of every document are settings.
LEMMA SettingsTyped ==
    /\ PlanSettings \subseteq Setting
    /\ \A w \in Workspace : w.settings \in Setting /\ w.tariffPlan \in Plans
    /\ \A p \in Project : p.settings \in Setting /\ p.workspace \in Workspaces
BY AccountsAssumption DEF Workspace, Project

\* Whatever the three collections hold, the join gives settings.
LEMMA ResolveType ==
    ASSUME NEW ps \in Collections(Plans, PlanSettings),
           NEW ws \in Collections(Workspaces, Workspace),
           NEW prs \in Collections(Projects, Project)
    PROVE  /\ DOMAIN Resolve(ps, ws, prs) \subseteq Projects
           /\ \A p \in DOMAIN Resolve(ps, ws, prs) : Resolve(ps, ws, prs)[p] \in Setting
<1>1. ASSUME NEW w
      PROVE  Inherited(ps, ws, w) \in Setting
    <2>1. CASE w \in DOMAIN ws /\ ws[w].tariffPlan \in DOMAIN ps
        <3>1. ws[w].settings \in Setting
            BY <2>1, CollectionFunction, SettingsTyped
        <3>2. ps[ws[w].tariffPlan] \in Setting
            BY <2>1, CollectionFunction, SettingsTyped
        <3> QED  BY <2>1, <3>1, <3>2, OverrideType DEF Inherited
    <2>2. CASE ~(w \in DOMAIN ws /\ ws[w].tariffPlan \in DOMAIN ps)
        BY <2>2 DEF Inherited, Zero, Setting
    <2> QED  BY <2>1, <2>2
<1>2. ASSUME NEW p \in DOMAIN prs
      PROVE  p \in Projects /\ prs[p].settings \in Setting
    BY CollectionFunction, SettingsTyped
<1> QED  BY <1>1, <1>2, OverrideType DEF Resolve

\* The first of two values that is set, or the default, is what overriding twice
\* comes to.
LEMMA FirstOfTwo ==
    ASSUME NEW high \in Int, NEW low \in Int, NEW default \in Int
    PROVE  FirstSet(<<high, low>>, default) = Over(Over(default, low), high)
<1> DEFINE set == {i \in DOMAIN <<high, low>> : <<high, low>>[i] > 0}
<1>1. /\ DOMAIN <<high, low>> = {1, 2}
      /\ <<high, low>>[1] = high /\ <<high, low>>[2] = low
    OBVIOUS
<1>2. CASE high > 0
    <2>1. 1 \in set /\ set \subseteq {1, 2}
        BY <1>1, <1>2
    <2> HIDE DEF set
    <2>2. \A i \in set : (\A j \in set : i <= j) <=> i = 1
        BY <2>1
    <2>3. (CHOOSE i \in set : \A j \in set : i <= j) = 1
        BY <2>1, <2>2
    <2> QED  BY <1>1, <1>2, <2>1, <2>3 DEF FirstSet, Over, set
<1>3. CASE ~(high > 0) /\ low > 0
    <2>1. set = {2}
        BY <1>1, <1>3
    <2> HIDE DEF set
    <2>2. (CHOOSE i \in set : \A j \in set : i <= j) = 2
        BY <2>1
    <2> QED  BY <1>1, <1>3, <2>1, <2>2 DEF FirstSet, Over, set
<1>4. CASE ~(high > 0) /\ ~(low > 0)
    <2>1. set = {}
        BY <1>1, <1>4
    <2> QED  BY <1>1, <1>4, <2>1 DEF FirstSet, Over
<1> QED  BY <1>2, <1>3, <1>4

\* The join in memory gives a project what the README says it has.
LEMMA CurrentIsDocumented ==
    ASSUME Typed, NEW p, Complete(p)
    PROVE  Current(p) = Documented(p)
<1> DEFINE own == projects[p].settings
           w == workspaces[WorkspaceOf(p)].settings
           plan == plans[PlanOf(p)]
<1>1. own \in Setting /\ w \in Setting /\ plan \in Setting
    BY CollectionFunction, SettingsTyped DEF Typed, Complete, WorkspaceOf, PlanOf
<1>2. Documented(p) = [limit |-> FirstSet(<<own.limit, w.limit>>, plan.limit),
                       period |-> FirstSet(<<own.period, w.period>>, plan.period)]
    BY DEF Documented, WorkspaceOf, PlanOf
<1>3. Current(p) = [limit |-> Over(Over(plan.limit, w.limit), own.limit),
                    period |-> Over(Over(plan.period, w.period), own.period)]
    BY <1>1 DEF Current, Override
<1> HIDE DEF own, w, plan
<1>4. /\ own.limit \in Int /\ own.period \in Int
      /\ w.limit \in Int /\ w.period \in Int
      /\ plan.limit \in Int /\ plan.period \in Int
    BY <1>1 DEF Setting
<1> QED  BY <1>2, <1>3, <1>4, FirstOfTwo

-----------------------------------------------------------------------------
(* Changes to the database *)

\* A change to the database leaves the path of every project alone that is not
\* in the set of affected ones and has a complete path afterwards.
LEMMA PlanAffects ==
    ASSUME NEW pl \in Plans, ChangePlan(pl), NEW p, p \notin On(pl), Complete(p)'
    PROVE  SamePath(p)
<1>1. projects' = projects /\ workspaces' = workspaces
    BY DEF ChangePlan
<1>2. p \in DOMAIN projects /\ WorkspaceOf(p) \in DOMAIN workspaces
    BY <1>1 DEF Complete, WorkspaceOf
<1>3. PlanOf(p) # pl
    BY <1>2 DEF On, In, PlanOf, WorkspaceOf
<1>4. PlanOf(p) \in DOMAIN plans'
    BY <1>1 DEF Complete, PlanOf, WorkspaceOf
<1>5. PlanOf(p) \in DOMAIN plans /\ plans'[PlanOf(p)] = plans[PlanOf(p)]
    BY <1>3, <1>4, OthersStay DEF ChangePlan
<1> QED  BY <1>1, <1>2, <1>5 DEF SamePath, Complete, WorkspaceOf, PlanOf

LEMMA WorkspaceAffects ==
    ASSUME NEW w \in Workspaces, ChangeWorkspace(w), NEW p, p \notin In(w), Complete(p)'
    PROVE  SamePath(p)
<1>1. projects' = projects /\ plans' = plans
    BY DEF ChangeWorkspace
<1>2. p \in DOMAIN projects /\ WorkspaceOf(p) \in DOMAIN workspaces'
    BY <1>1 DEF Complete, WorkspaceOf
<1>3. WorkspaceOf(p) # w
    BY <1>2 DEF In, WorkspaceOf
<1>4. \/ \E d : workspaces' = Put(workspaces, w, d)
      \/ workspaces' = Drop(workspaces, w)
    BY DEF ChangeWorkspace
<1>5. /\ WorkspaceOf(p) \in DOMAIN workspaces
      /\ workspaces'[WorkspaceOf(p)] = workspaces[WorkspaceOf(p)]
    BY <1>2, <1>3, <1>4, OthersStay
<1> QED  BY <1>1, <1>2, <1>5 DEF SamePath, Complete, WorkspaceOf, PlanOf

LEMMA ProjectAffects ==
    ASSUME NEW q \in Projects, ChangeProject(q), NEW p, p \notin {q}, Complete(p)'
    PROVE  SamePath(p)
<1>1. workspaces' = workspaces /\ plans' = plans
    BY DEF ChangeProject
<1>2. p \in DOMAIN projects'
    BY DEF Complete
<1>3. p \in DOMAIN projects /\ projects'[p] = projects[p]
    BY <1>2, OthersStay DEF ChangeProject
<1> QED  BY <1>1, <1>3 DEF SamePath, Complete, WorkspaceOf, PlanOf

\* Along an unchanged path what a refresh has read, and what the cache has, stays
\* as right as it was.
LEMMA SamePathStays ==
    ASSUME NEW p, SamePath(p), SameCaches
    PROVE  /\ Agreed(p) => Agreed(p)'
           /\ Right(p) => Right(p)'
<1>1. /\ WorkspaceOf(p)' = WorkspaceOf(p)
      /\ PlanOf(p)' = PlanOf(p)
    BY DEF SamePath, WorkspaceOf, PlanOf
<1>2. Agreed(p) => Agreed(p)'
    BY <1>1 DEF SamePath, SameCaches, Agreed
<1>3. Current(p)' = Current(p)
    BY <1>1 DEF SamePath, Current
<1>4. Right(p) => Right(p)'
    BY <1>3 DEF SamePath, SameCaches, Right
<1> QED  BY <1>2, <1>4

\* The part every change shares.
LEMMA ChangeKeeps ==
    ASSUME AccountsInv, NEW affected, Change(affected),
           plans' \in Collections(Plans, PlanSettings),
           workspaces' \in Collections(Workspaces, Workspace),
           projects' \in Collections(Projects, Project),
           \A p : p \notin affected /\ Complete(p)' => SamePath(p)
    PROVE  AccountsInv'
<1>1. SameCaches
    BY DEF Change, SameCaches
<1>2. changes' \in 0..MaxChanges
    BY AccountsAssumption DEF AccountsInv, Typed, Change
<1>3. Typed'
    BY <1>2 DEF AccountsInv, Typed, Change
<1>4. ReadInOrder'
    BY DEF AccountsInv, ReadInOrder, Change
<1>5. ASSUME NEW p \in untouched'
      PROVE  Agreed(p)'
    <2>1. Agreed(p) /\ p \notin affected
        BY <1>5 DEF AccountsInv, Change
    <2>2. CASE Complete(p)'
        BY <2>1, <2>2, <1>1, SamePathStays
    <2>3. CASE ~Complete(p)'
        BY <2>3 DEF Agreed
    <2> QED  BY <2>2, <2>3
<1>6. ASSUME NEW p \in exact'
      PROVE  Right(p)'
    <2>1. Right(p) /\ p \notin affected
        BY <1>6 DEF AccountsInv, Change
    <2>2. CASE Complete(p)'
        BY <2>1, <2>2, <1>1, SamePathStays
    <2>3. CASE ~Complete(p)'
        BY <2>3 DEF Right
    <2> QED  BY <2>2, <2>3
<1> QED  BY <1>3, <1>4, <1>5, <1>6 DEF AccountsInv

-----------------------------------------------------------------------------
(* The refreshes *)

\* A read appends one collection and changes nothing else of the refresh.
LEMMA OneMore ==
    ASSUME NEW s \in Seq(Read), NEW c \in Read
    PROVE  /\ Append(s, c) \in Seq(Read)
           /\ Len(Append(s, c)) = Len(s) + 1
           /\ Append(s, c)[Len(s) + 1] = c
           /\ \A i \in 1..Len(s) : Append(s, c)[i] = s[i]
OBVIOUS

LEMMA LengthRange ==
    ASSUME NEW S, NEW s \in Seq(S), NEW n \in Nat, Len(s) <= n
    PROVE  Len(s) \in 0..n
OBVIOUS

LEMMA ReadPlansKeeps ==
    ASSUME AccountsInv, ReadPlans
    PROVE  AccountsInv'
<1>1. Typed'
    BY DEF AccountsInv, Typed, ReadPlans, database
<1>2. refresh' = <<plans>> /\ plans \in Read
    BY DEF AccountsInv, Typed, Read, ReadPlans
<1>3. refresh' \in Seq(Read) /\ Len(refresh') = 1 /\ refresh'[1] = plans
    BY <1>2
<1>4. ReadInOrder'
    BY <1>3 DEF AccountsInv, Typed, ReadInOrder, ReadPlans, database
<1>5. ASSUME NEW p, Complete(p)'
      PROVE  Agreed(p)'
    BY <1>3, <1>5 DEF Agreed, Complete, PlanOf, WorkspaceOf, ReadPlans, database
<1>6. ASSUME NEW p \in exact'
      PROVE  Right(p)'
    BY <1>6 DEF AccountsInv, Right, Complete, Current, PlanOf, WorkspaceOf, ReadPlans, database
<1>7. \A p : Agreed(p)'
    BY <1>5 DEF Agreed
<1> QED  BY <1>1, <1>4, <1>6, <1>7 DEF AccountsInv

LEMMA ReadWorkspacesKeeps ==
    ASSUME AccountsInv, ReadWorkspaces
    PROVE  AccountsInv'
<1>1. Typed'
    BY DEF AccountsInv, Typed, ReadWorkspaces, database
<1>2. refresh \in Seq(Read) /\ refresh' = Append(refresh, workspaces) /\ workspaces \in Read
    BY DEF AccountsInv, Typed, ReadInOrder, Read, ReadWorkspaces
<1>3. /\ refresh' \in Seq(Read) /\ Len(refresh') = 2
      /\ refresh'[1] = refresh[1] /\ refresh'[2] = workspaces
    <2>1. Len(refresh) = 1
        BY DEF ReadWorkspaces
    <2>2. /\ refresh' \in Seq(Read) /\ Len(refresh') = Len(refresh) + 1
          /\ refresh'[Len(refresh) + 1] = workspaces
          /\ \A i \in 1..Len(refresh) : refresh'[i] = refresh[i]
        BY <1>2, OneMore
    <2> QED  BY <2>1, <2>2
<1>4. ReadInOrder'
    BY <1>3 DEF AccountsInv, Typed, ReadInOrder, ReadWorkspaces, database
<1>5. ASSUME NEW p \in untouched'
      PROVE  Agreed(p)'
    <2>1. Agreed(p)
        BY <1>5 DEF AccountsInv, ReadWorkspaces
    <2> QED  BY <2>1, <1>3
             DEF Agreed, Complete, PlanOf, WorkspaceOf, ReadWorkspaces, database
<1>6. ASSUME NEW p \in exact'
      PROVE  Right(p)'
    BY <1>6
    DEF AccountsInv, Right, Complete, Current, PlanOf, WorkspaceOf, ReadWorkspaces, database
<1> QED  BY <1>1, <1>4, <1>5, <1>6 DEF AccountsInv

LEMMA ReadProjectsKeeps ==
    ASSUME AccountsInv, ReadProjects
    PROVE  AccountsInv'
<1>1. Typed'
    BY DEF AccountsInv, Typed, ReadProjects, database
<1>2. refresh \in Seq(Read) /\ refresh' = Append(refresh, projects) /\ projects \in Read
    BY DEF AccountsInv, Typed, ReadInOrder, Read, ReadProjects
<1>3. /\ refresh' \in Seq(Read) /\ Len(refresh') = 3
      /\ refresh'[1] = refresh[1] /\ refresh'[2] = refresh[2] /\ refresh'[3] = projects
    BY <1>2, OneMore DEF ReadProjects
<1>4. ReadInOrder'
    BY <1>3 DEF AccountsInv, Typed, ReadInOrder, ReadProjects, database
<1>5. ASSUME NEW p \in untouched'
      PROVE  Agreed(p)'
    <2>1. Agreed(p)
        BY <1>5 DEF AccountsInv, ReadProjects
    <2> QED  BY <2>1, <1>3
             DEF Agreed, Complete, PlanOf, WorkspaceOf, ReadProjects, database
<1>6. ASSUME NEW p \in exact'
      PROVE  Right(p)'
    BY <1>6
    DEF AccountsInv, Right, Complete, Current, PlanOf, WorkspaceOf, ReadProjects, database
<1> QED  BY <1>1, <1>4, <1>5, <1>6 DEF AccountsInv

\* The join of what was read is right for every project it was read right for.
LEMMA InstallLimitsKeeps ==
    ASSUME AccountsInv, InstallLimits
    PROVE  AccountsInv'
<1> DEFINE ps == refresh[1]
           ws == refresh[2]
           prs == refresh[3]
<1>1. /\ ps \in Collections(Plans, PlanSettings)
      /\ ws \in Collections(Workspaces, Workspace)
      /\ prs \in Collections(Projects, Project)
    BY DEF AccountsInv, ReadInOrder, InstallLimits
<1>2. projectLimits' = Resolve(ps, ws, prs)
    BY DEF InstallLimits
<1>3. /\ DOMAIN projectLimits' \subseteq Projects
      /\ \A p \in DOMAIN projectLimits' : projectLimits'[p] \in Setting
    BY <1>1, <1>2, ResolveType
<1>4. Typed'
    BY <1>3 DEF AccountsInv, Typed, InstallLimits, database
<1>5. ReadInOrder' /\ Len(refresh') = 0
    BY DEF AccountsInv, ReadInOrder, InstallLimits
<1>6. \A p : Agreed(p)'
    BY <1>5 DEF Agreed
<1>7. ASSUME NEW p \in exact', Complete(p)
      PROVE  p \in DOMAIN projectLimits' /\ projectLimits'[p] = Current(p)
    <2>1. Agreed(p)
        BY <1>7 DEF AccountsInv, InstallLimits
    <2>2. /\ PlanOf(p) \in DOMAIN ps /\ ps[PlanOf(p)] = plans[PlanOf(p)]
          /\ WorkspaceOf(p) \in DOMAIN ws /\ ws[WorkspaceOf(p)] = workspaces[WorkspaceOf(p)]
          /\ p \in DOMAIN prs /\ prs[p] = projects[p]
        BY <2>1, <1>7 DEF Agreed, InstallLimits
    <2> HIDE DEF ps, ws, prs
    <2>3. Inherited(ps, ws, prs[p].workspace)
              = Override(plans[PlanOf(p)], workspaces[WorkspaceOf(p)].settings)
        BY <2>2 DEF Inherited, PlanOf, WorkspaceOf
    <2> QED  BY <1>2, <2>2, <2>3 DEF Resolve, Current
<1>8. \A p \in exact' : Right(p)'
    BY <1>7 DEF Right, Complete, Current, PlanOf, WorkspaceOf, InstallLimits, database
<1> QED  BY <1>4, <1>5, <1>6, <1>8 DEF AccountsInv

LEMMA LimitsFailKeeps ==
    ASSUME AccountsInv, LimitsFail
    PROVE  AccountsInv'
<1>1. Typed'
    BY DEF AccountsInv, Typed, LimitsFail, database
<1>2. ReadInOrder' /\ Len(refresh') = 0
    BY DEF AccountsInv, ReadInOrder, LimitsFail
<1>3. \A p : Agreed(p)'
    BY <1>2 DEF Agreed
<1>4. ASSUME NEW p \in exact'
      PROVE  Right(p)'
    BY <1>4 DEF AccountsInv, Right, Complete, Current, PlanOf, WorkspaceOf, LimitsFail, database
<1> QED  BY <1>1, <1>2, <1>3, <1>4 DEF AccountsInv

\* Steps that leave the database, the table of limits and its refresh alone.
LEMMA LimitsStay ==
    ASSUME AccountsInv, SameCaches, UNCHANGED <<database, untouched, exact>>,
           validTokens' \in Collections(Tokens, Projects),
           /\ tokenRefresh' \in Seq(Collections(Projects, Project))
           /\ Len(tokenRefresh') <= 1
    PROVE  AccountsInv'
<1>1. Typed'
    BY DEF AccountsInv, Typed, SameCaches, database
<1>2. ReadInOrder'
    BY DEF AccountsInv, ReadInOrder, SameCaches
<1>3. \A p : (Agreed(p) => Agreed(p)') /\ (Right(p) => Right(p)')
    BY DEF Agreed, Right, Complete, Current, PlanOf, WorkspaceOf, SameCaches, database
<1> QED  BY <1>1, <1>2, <1>3 DEF AccountsInv

LEMMA InstallTokensType ==
    ASSUME AccountsInv, InstallTokens
    PROVE  validTokens' \in Collections(Tokens, Projects)
<1> DEFINE read == tokenRefresh[1]
           owners(t) == {p \in DOMAIN read : read[p].token = t}
           known == {t \in Tokens : owners(t) # {}}
<1>1. PICK table \in [known -> DOMAIN read] : validTokens' = table
    BY DEF InstallTokens
<1>2. DOMAIN read \subseteq Projects
    <2>1. read \in Collections(Projects, Project)
        BY DEF AccountsInv, ReadInOrder, InstallTokens
    <2> QED  BY <2>1, CollectionFunction
<1>3. known \in SUBSET Tokens
    OBVIOUS
<1> HIDE DEF known, read
<1>4. table \in [known -> Projects]
    BY <1>2
<1> QED  BY <1>1, <1>3, <1>4, FunctionCollection

-----------------------------------------------------------------------------
LEMMA AccountsInvInit == Init => AccountsInv
<1> SUFFICES ASSUME Init PROVE AccountsInv
    OBVIOUS
<1>1. validTokens \in Collections(Tokens, Projects)
    <2>1. validTokens \in [{} -> Projects]
        BY DEF Init
    <2> QED  BY <2>1, FunctionCollection
<1>2. Typed
    BY <1>1, AccountsAssumption DEF Init, Typed
<1>3. ReadInOrder
    BY DEF Init, ReadInOrder
<1> QED  BY <1>2, <1>3 DEF Init, AccountsInv

LEMMA AccountsInvNext == AccountsInv /\ [Next]_vars => AccountsInv'
<1> SUFFICES ASSUME AccountsInv, [Next]_vars PROVE AccountsInv'
    OBVIOUS
<1>1. ASSUME NEW pl \in Plans, ChangePlan(pl)
      PROVE  AccountsInv'
    <2>1. plans' \in Collections(Plans, PlanSettings)
        BY <1>1, PutCollection, DropCollection DEF ChangePlan, AccountsInv, Typed
    <2>2. /\ workspaces' \in Collections(Workspaces, Workspace)
          /\ projects' \in Collections(Projects, Project)
        BY <1>1 DEF ChangePlan, AccountsInv, Typed
    <2>3. Change(On(pl)) /\ \A p : p \notin On(pl) /\ Complete(p)' => SamePath(p)
        BY <1>1, PlanAffects DEF ChangePlan
    <2> QED  BY <2>1, <2>2, <2>3, ChangeKeeps
<1>2. ASSUME NEW w \in Workspaces, ChangeWorkspace(w)
      PROVE  AccountsInv'
    <2>1. workspaces' \in Collections(Workspaces, Workspace)
        BY <1>2, PutCollection, DropCollection DEF ChangeWorkspace, AccountsInv, Typed
    <2>2. /\ plans' \in Collections(Plans, PlanSettings)
          /\ projects' \in Collections(Projects, Project)
        BY <1>2 DEF ChangeWorkspace, AccountsInv, Typed
    <2>3. Change(In(w)) /\ \A p : p \notin In(w) /\ Complete(p)' => SamePath(p)
        BY <1>2, WorkspaceAffects DEF ChangeWorkspace
    <2> QED  BY <2>1, <2>2, <2>3, ChangeKeeps
<1>3. ASSUME NEW q \in Projects, ChangeProject(q)
      PROVE  AccountsInv'
    <2>1. projects' \in Collections(Projects, Project)
        BY <1>3, PutCollection, DropCollection DEF ChangeProject, AccountsInv, Typed
    <2>2. /\ plans' \in Collections(Plans, PlanSettings)
          /\ workspaces' \in Collections(Workspaces, Workspace)
        BY <1>3 DEF ChangeProject, AccountsInv, Typed
    <2>3. Change({q}) /\ \A p : p \notin {q} /\ Complete(p)' => SamePath(p)
        BY <1>3, ProjectAffects DEF ChangeProject
    <2> QED  BY <2>1, <2>2, <2>3, ChangeKeeps
<1>4. CASE ReadPlans
    BY <1>4, ReadPlansKeeps
<1>5. CASE ReadWorkspaces
    BY <1>5, ReadWorkspacesKeeps
<1>6. CASE ReadProjects
    BY <1>6, ReadProjectsKeeps
<1>7. CASE InstallLimits
    BY <1>7, InstallLimitsKeeps
<1>8. CASE LimitsFail
    BY <1>8, LimitsFailKeeps
<1>9. CASE ReadTokens
    <2>1. SameCaches /\ UNCHANGED <<database, untouched, exact>>
        BY <1>9 DEF ReadTokens, SameCaches
    <2>2. /\ tokenRefresh' \in Seq(Collections(Projects, Project))
          /\ Len(tokenRefresh') <= 1
        BY <1>9 DEF AccountsInv, Typed, ReadTokens
    <2>3. validTokens' \in Collections(Tokens, Projects)
        BY <1>9 DEF AccountsInv, Typed, ReadTokens
    <2> QED  BY <2>1, <2>2, <2>3, LimitsStay
<1>10. CASE InstallTokens
    <2>1. SameCaches /\ UNCHANGED <<database, untouched, exact>>
        BY <1>10 DEF InstallTokens, SameCaches
    <2>2. /\ tokenRefresh' \in Seq(Collections(Projects, Project))
          /\ Len(tokenRefresh') <= 1
        BY <1>10 DEF InstallTokens
    <2> QED  BY <1>10, <2>1, <2>2, InstallTokensType, LimitsStay
<1>11. CASE UNCHANGED vars
    <2>1. SameCaches /\ UNCHANGED <<database, untouched, exact>>
        BY <1>11 DEF vars, SameCaches
    <2>2. /\ tokenRefresh' \in Seq(Collections(Projects, Project))
          /\ Len(tokenRefresh') <= 1
          /\ validTokens' \in Collections(Tokens, Projects)
        BY <1>11 DEF vars, AccountsInv, Typed, ReadInOrder
    <2> QED  BY <2>1, <2>2, LimitsStay
<1> QED  BY <1>1, <1>2, <1>3, <1>4, <1>5, <1>6, <1>7, <1>8, <1>9, <1>10, <1>11 DEF Next

\* AccountsInv holds in every reachable state.
LEMMA AccountsInvariant == Spec => []AccountsInv
BY AccountsInvInit, AccountsInvNext, PTL DEF Spec

\* Whatever other services write into the three collections and whenever, the
\* caches hold limits and tokens of projects and nothing else.
THEOREM Types == Spec => []TypeOK
<1>1. AccountsInv => TypeOK
    <2> SUFFICES ASSUME AccountsInv PROVE TypeOK
        OBVIOUS
    <2>1. Len(refresh) \in 0..3 /\ Len(tokenRefresh) \in 0..1
        <3> DEFINE Tables == Collections(Projects, Project)
        <3>1. /\ refresh \in Seq(Read) /\ Len(refresh) <= 3
              /\ tokenRefresh \in Seq(Tables) /\ Len(tokenRefresh) <= 1
            BY DEF AccountsInv, ReadInOrder
        <3> HIDE DEF Tables
        <3>2. Len(refresh) \in 0..3
            BY <3>1, LengthRange
        <3>3. Len(tokenRefresh) \in 0..1
            BY <3>1, LengthRange
        <3> QED  BY <3>2, <3>3
    <2> QED  BY <2>1 DEF AccountsInv, Typed, TypeOK
<1> QED  BY <1>1, AccountsInvariant, PTL

\* A project whose document, workspace and plan stood still from the start of
\* the last refresh that was installed has the limits the README promises it,
\* whatever changed around it between the reads of that refresh
\* (UpdateProjectsLimitsCache reads the collections without a transaction), and
\* however many refreshes failed since.
THEOREM Exactness == Spec => []UntouchedExact
<1>1. AccountsInv => UntouchedExact
    BY CurrentIsDocumented DEF AccountsInv, Right, UntouchedExact
<1> QED  BY <1>1, AccountsInvariant, PTL
=============================================================================
