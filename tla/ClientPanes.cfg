SPECIFICATION Spec
CONSTANTS
    GitRepos = {"r1", "r2"}
    Held = {"r2"}
    GitScenarios <- GitSets
    Groups = {"g1", "g2"}
    RerunCapable = {"g1"}
    PullScenarios <- PullSets
    ServerIds = {"a", "b"}
    Remotes = {"a"}
    Power = "p"
    McpScenarios <- McpSets
    Accounts = {"a", "b"}
    GitHub = "a"
    RepoOf <- RepoMap
    ForgeScenarios <- ForgeSets
    LogEntries <- FindLog
    LoadedTurns = 1
    TypedWords = {"a", "b"}
    ViewTabs <- FindTabs
    Texts <- FindTexts
    FindScenarios <- FindSets
    Specs = {"s1", "s2"}
    SpecChats = {"c1", "c2"}
    SpecHome = "c1"
    Tasks = {"t"}
    SpecScenarios <- SpecSets
INVARIANTS ShownAfterActing PullsAsSeen ListCatchesUp ListedIsThere FoundIsAsked AsksMatch CuesAreTrue ToolsAreTold SpecRuns StripHolds
PROPERTIES MessageKept NeverGoesBack EditsKept NotSwallowed TearsDownClosed
CHECK_DEADLOCK FALSE
