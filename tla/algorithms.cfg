CONSTANTS
    i1 = i1
    i2 = i2
    i3 = i3
    i4 = i4
    MaxClauses = 3
    MaxWords = 14
    MaxTokens = 6
    OverlapTokens = 6
    MinTokens = 4
    Ids = {i1, i2, i3, i4}
    MaxHits = 4
    K = 1
    Limit = 1
    Multiplier = 2
    Absent = Absent
    NoHeading = NoHeading
    Headings = {"payment", "schedule a", "schedule b"}
    Wordings = {"term", "fee", "audit", "badge"}
    Noise = {"badge"}
    Brief = {}
    HeadingRatio <- MCHeadingRatio
    Composite <- MCComposite
    Ratio <- MCRatio
    Field = "notice_days"
    Clauses <- MCClauses
    MaxLeft = 3
    MaxRight = 2
    Values = {0, 1, 5, 6, 8, 9, 10, 11, 24, 25, 30, 31, 45, 46, 94, 95, 96, 98, 99}
    Reach = 2
    Phrases <- MCPhrases
    Titles <- MCTitles
    ChecklistRules <- MCChecklistRules
    Today = 10
    ParagraphKinds <- MCParagraphKinds
    LineKinds <- MCLineKinds
    MaxParagraphs = 4
    MaxParts = 5
SPECIFICATION Spec
SYMMETRY Symmetry
CHECK_DEADLOCK FALSE
INVARIANTS
    ChunksHoldDocument
    BothBeatOne
    CutoffKeepsResults
    DeletionsReported
    VendorDeletionsReported
    NoClauseVanishes
    ValuesReported
    TriggersFire
    WorseIsNoMilder
    TermsRead
    ChangedTermsReported
    FileKept
PROPERTY FindingsStable
