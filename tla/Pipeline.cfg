\* Two refreshes of any kind over two days, cut off anywhere.
SPECIFICATION Spec
CONSTANTS
    news = news
    blog = blog
    site = site
    first = first
    again = again
    other = other
    copy = copy
    draft = draft
    page = page
    retry = retry
    None = None
    Entries = {draft, first, other, again, copy}
    Shares = {page, retry}
    About <- MCAbout
    RuleTerms <- MCRuleTerms
    ProfileTerms = {"agent", "model", "mcp", "solo"}
    Dislikes = {"gossip"}
    Resembles <- MCResembles
    Excluded = {}
    MinRelevance = 2
    TopN = 3
    BaselineTop = 2
    SourceDiverse = 2
    Exploration = 1
    MaxCandidates = 3
    Opinions <- MCOpinions
    Feeds = {news, blog}
    MaxItems = 3
    Splits = {retry}
    MaxRuns = 2
    MaxDay = 2
INVARIANTS
    TypeOK
    HandoffHasNoTwins
    RecordsAccount
    DamageStaysInItsDay
    PublishedIsStored
    SharesAreStored
    LatestRunIsTrue
    OneStoryOnce
    FallbackIsBaseline
    LeadIsKept
PROPERTIES
    ImplementsJournal
\* the number of refreshes is bounded
CHECK_DEADLOCK FALSE
