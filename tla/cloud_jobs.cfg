SPECIFICATION JobsSpec
CONSTANTS
    N = 2
    Resources <- CpuAndMemory
    Sizes <- OneAndTwo
    Limit <- LimitTwo
    Unset = Unset
    None = None
    ArmIds <- MCArmIds
    ArmVMs <- MCArmVMs
    ArmChildren <- MCArmChildren
    ArmParent <- MCArmParent
    ArmDisks <- MCArmDisks
    ArmNics <- MCArmNics
    ArmUses <- MCArmUses
    EaHandlers <- MCEaHandlers
    EaAccounts <- MCEaAccounts
    EaEnrollments <- MCEaEnrollments
    EaUsers <- MCEaUsers
    EaGuests <- MCEaGuests
    DbOrders <- MCDbOrders
    DbIdentifiers <- MCDbIdentifiers
    DbWanted <- MCDbWanted
    DbImports <- MCDbImports
    ObjectBuilds <- MCObjectBuilds
    ObjectKind <- MCObjectKind
    ObjectName <- MCObjectName
    ObjectNames <- MCObjectNames
    TowerFacts <- MCTowerFacts
    TowerPages <- MCTowerPages
    AapApps <- MCAapApps
    AapTiers <- MCAapTiers
    AapManager <- MCAapManager
    AapAppOf <- MCAapAppOf
    VraDeployments <- MCVraDeployments
    VraDeployed <- MCVraDeployed
    VraParts <- MCVraParts
    VraKind <- MCVraKind
    VraNames <- MCVraNames
    VraOwners <- MCVraOwners
    VraProjects <- MCVraProjects
    VraMaps <- MCVraMaps
    SegmentGroups <- MCSegmentGroups
    SegmentNics <- MCSegmentNics
    SegmentUpdates <- MCSegmentUpdates
    NsxGroupRes <- MCNsxGroupRes
    NsxGroupId <- MCNsxGroupId
    NsxSegments <- MCNsxSegments
    NsxChanges <- MCNsxChanges
    NsxRuleOrders <- MCNsxRuleOrders
    PowerOrder <- MCPowerOrder
    PowerOn <- MCPowerOn
    PowerLeases <- MCPowerLeases
    GitUserOf <- MCGitUserOf
    GitNames <- MCGitNames
    GitTokens <- MCGitTokens
    OfNaming <- MCOfNaming
    OfService <- MCOfService
    OfWindows <- MCOfWindows
    SsoUserSet <- MCSsoUserSet
    SsoSignIns <- MCSsoSignIns
    SsoAttrs <- MCSsoAttrs
    SsoValues <- MCSsoValues
    SsoClaims <- MCSsoClaims
    SsoGroupsMap <- MCSsoGroupsMap
    SsoGroups <- MCSsoGroups
    SsoRoleSet <- MCSsoRoleSet
    EaPollMax = 2
    EaCheckMax = 2
    VraPageSize = 1
    VraChangesMax = 1
    SegmentWaitMax = 1
    PowerWorkers = 2
    OfNameCount = 2
    OfBuildMax = 2
    SsoUnsent = ""
    SsoEditMax = 1
INVARIANTS
    TypesOK PreconfiguredDecision PresetExcessStops
    TeardownLeavesNothing
    TwoPassesSuffice
    SuccessIsTrue
    RefusedOrderDeletesNothing
    NothingForgotten
    FactsComplete
    MigratedAgrees
    ActiveServersConnected
    NsxAsRecorded
    ScheduledPower
    OwnEntriesKept
    LeftInOneFuse
    SignedInAsClaimed
PROPERTY OneConfigurationAtATime
\* Jobs and hooks run to their end and stop.
CHECK_DEADLOCK FALSE
