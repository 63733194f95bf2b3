SPECIFICATION ViewsSpec
CONSTANTS
    source = source
    old = old
    new = new
    later = later
    None = none
    NoJob = nojob
    Feature = {"feed", "analysis", "sec"}
    Source = {source}
    Grant = {{"display", "retain", "trace"}, {"trace"}, {}}
    MaxChanges = 2
    Card = {1, 2}
    Version = {old, new, later}
    Pub <- MCPub
    SourceOf <- MCSourceOf
    PolicyOf <- MCPolicyOf
    Client = {"browser"}
    FeedFeature = "feed"
    HeadLimit = 1
    PageLimit = 1
    Loaded <- MCLoaded
    MaxEvents = 2
    Section <- MCSection
    AllFeatures = {"analysis"}
    Provider = source
    Request = {"first", "second"}
    MaxJobs = 2
    MaxAttempts = 2
    MaxWithdrawals = 2
INVARIANTS
    FeedTypeOK
    FeedIsExact
    RetractedStaysHidden
    SectionFollowsJob
    FinishedReportIsFinal
PROPERTIES
    WithdrawnGetsNothing
    DeniedIsWithdrawn
CHECK_DEADLOCK FALSE
