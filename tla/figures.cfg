SPECIFICATION Spec
CONSTANTS
    None = None
    Posts = {1, 2, 3}
    Channels = {"de_chan", "us_chan"}
    ChannelOf <- MCChannelOf
    Platform <- MCPlatform
    Market <- MCMarket
    Handle <- MCHandle
    Seconds <- MCSeconds
    Titles = {"t1"}
    KeyOf <- MCKeyOf
    Keys = {}
    Covers = {"c1"}
    ReleaseDay <- MCReleaseDay
    Scrapes <- MCScrapes
    Starts <- MCStarts
    Earlier <- MCEarlier
    Analyses <- MCAnalyses
    Decisions = {"approved", "rejected"}
    LastDay = 1
    MaxEdits = 2
    Platforms = {"instagram"}
    Pair <- MCPair
    WindowDays = 1
    LookbackDays = 2
    MinSample = 2
    HalfLife = 2
    BreakoutTop = 1
    RankLimit = 1
    TopPosts = 1
    RecentDays = 2
    MinEvidence = 1
    CiteLimit = 5
    ValueRank <- MCValueRank
    WeekDays = 2
    MaxBriefs = 2
    PageTop = 1
    TimelineWeeks = None
    MinPoints = 2
    GatePoints = 3
    FeedDays = 1
    FeedMultiplier <- MCFeedMultiplier
    FeedLimit = 1
    SampleBlocks <- MCSampleBlocks
    ListLength = 3
    SampleScores <- MCSampleScores
    SampleSeries <- MCSampleSeries
INVARIANTS  AlgorithmsHold PagesCountTheSame
PROPERTIES LeavesOnlyWhenBeaten
CHECK_DEADLOCK FALSE
