SPECIFICATION Spec
CONSTANTS
    TotalTimeout = 13
    DataBudget = 5
    StageLimit = 3
    RematchMargin = 1
    ItemMax = 1
    ScrapeMax = 2
    EvidenceMax = 1
    OtherMax = 1
    NPairs = 2
INVARIANTS WindowKept ProductsReached PingsTellTheEnd AlarmOnOutage
PROPERTY KeepsRunContract
