SPECIFICATION PatternsSpec
CONSTANTS
    None = None
    Posts = {1, 2, 3, 4, 5, 6}
    Channels = {"a", "b", "c"}
    ChannelOf <- MCChannelOf
    Platform <- MCPlatform
    Market <- MCMarket
    Handle <- MCHandle
    Seconds <- MCSeconds
    Titles = {"t1"}
    KeyOf <- MCKeyOf
    Keys = {}
    Covers <- MCCovers
    ReleaseDay <- MCReleaseDay
    Scrapes <- MCScrapes
    Starts <- MCStarts
    Earlier <- MCEarlier
    Analyses <- MCAnalyses
    Decisions = {"rejected"}
    LastDay = 1
    MaxEdits = 1
    Look <- MCLook
    Genre <- MCGenre
    PatternDays = 1
    MinChannelPosts = 2
    MinCell = 2
    MinCellChannels = 2
    MinStratum = 2
    ZThreshold <- MCZThreshold
    MinArm = 1
    MinGap = 1
    GapZ <- MCGapZ
    HabitShare <- MCHabitShare
    TrendDays = 1
    MaxFindings = 2
    MaxMoves = 1
    MaxChances = 1
    MaxExamples = 1
    Projects = {"t1"}
    DaysBefore = 1
    DaysAfter = 1
    MinTitlePosts = 1
    LaunchDays = 1
    MaxPhase = 2
    Platforms = {"tiktok"}
    Pair <- MCPair
    WindowDays = 1
    LookbackDays = 1
    MinSample = 2
    HalfLife = 2
    BreakoutTop = 1
    RankLimit = 1
    TopPosts = 1
    Segment <- MCSegment
    SegmentDays = 1
    SegmentTop = 1
    WeekDays = 1
    P75Weeks = 2
    P75Sample = 2
    MinPosts = 2
    MinDistinct = 2
    OwnChannels = {"a"}
    Sound <- MCSound
    HistoryWeeks = 2
    TitleMinChannels = 1
    MaxPatterns = 1
    PatternExamples = 2
    PerTitle = 1
    MinSound = 2
    TopSounds = 1
INVARIANTS ViewlessInert CompositionIsNoPattern SomeMarketShowsIt PagesMatchReport CampaignsAgree NoFalsePattern StreaksAreProven
CHECK_DEADLOCK FALSE
