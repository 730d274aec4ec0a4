SPECIFICATION Spec
CHECK_DEADLOCK FALSE
CONSTANTS
    Insts <- MCInsts  Home = "i1"  Repos <- MCRepos  Stores <- MCStores  Users <- MCUsers  Paths <- MCPaths
    Role = "reader"  Reqs <- MCReqs  Ask <- MCAsk  PermKinds <- MCPermKinds  OwnKinds <- MCOwnKinds
    RingCap = 2  MaxFaults = 1  None = None
    Workloads <- MCWorkloads  Primary = "s1"  Roles <- MCRoles
    ProxyRepo = "front"  Members <- MCMembers  WriteMember = "r2"  Under <- MCUnder  Siblings <- MCSiblings
    Normal <- MCNormal  chart_path <- MCchart_path  ManifestOf <- MCManifestOf  HelmRepos <- MCHelmRepos  PageLimit = 1  Fields <- MCFields
INVARIANT TypeOK
INVARIANT RecordsFit
INVARIANT DecisionsKept
PROPERTY GoneAsAsked
PROPERTY CheckSound
PROPERTY LoginsAreCurrent
PROPERTY LifecycleKept
PROPERTY Settles
PROPERTY CopiesFollow
