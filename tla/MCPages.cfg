CONSTANTS
    None = None
    AutoPick = AutoPick
    Jobs = {"j1", "j2"}
    MaxMessages = 3
    MaxDrops = 2
    Lovable = TRUE
    Prompts = {"p1", "p2"}
    Workflows = {"auto", "w"}
    FirstWorkflow = "auto"
    MaxUrlActs = 2
    Overlays = {"o1", "o2", "o3"}
    MaxLinkDrops = 3
    MaxBackoff = 2
    Chains = {"c1", "c2"}
    ControlAsks = {"status"}
    Full = 1
    MaxScreenTouches = 2
    MaxLevels = 1
    MaxFailures = 1
    MaxMedia = 2
    Names = {"x"}
    Values = {"a", "b"}
    VarFetches = {"f1", "f2"}
    MaxEdits = 2
    Sensors = {"s1", "s2"}
    MaxChanges = 2
    MaxSaves = 2
    MaxRefusals = 1
    KioskUrls = {"u1", "u2"}
    StatusFetches = {"f1", "f2"}
    MaxDoings = 1
    MaxAdminUpsets = 1
    LightAsks = {"f1", "f2"}
    Bright = 1
    MaxSlides = 2
    MaxBreaks = 2
    MaxToasts = 4
    Destinations = {"d1", "d2"}
    Rounds = {"r1"}
    MaxControls = 1
    MaxLosses = 1
    Refiners = {"r1", "r2"}
    Has <- MCHas
    HasExtra <- MCHasExtra
    OptionValues = {"a", "b"}
    Default = "a"
    MaxOptionEdits = 4
    Pictures = {"p1", "p2"}
    MaxTouches = 4
    MaxCardChanges = 1
    MaxCardLosses = 1
    MaxLists = 1
    Types = {"jpg", "mp4"}
    PollIds = {"f1"}
    MaxVersions = 2
    MaxClock = 2
    MaxUpsets = 1
    OverlapTypes = {"mp4"}
    OverlapPolls = {"f1", "f2"}
    RecordPolls = {"f1", "f2"}
    MaxGridActs = 2
SPECIFICATION Spec
INVARIANTS
    PagesTypeOK
    TimersAreCurrent
    PointsAreOwn
    ViewIsOwn
    RunsOnce
PROPERTIES
    PagesCatchUp
    ThingsGoAway
    NeverGoesBack
CHECK_DEADLOCK FALSE
