\* A visit to each screen.
SPECIFICATION Spec
CONSTANTS
    None = None
    c1 = c1
    c2 = c2
    l1 = l1
    l2 = l2
    l3 = l3
    m1 = m1
    m2 = m2
    o1 = o1
    o2 = o2
    w1 = w1
    w2 = w2
    x1 = x1
    x2 = x2
    Companies = {c1, c2}
    FirstCompany = c1
    MaxOps <- AllOps
    Rows = {1, 2, 3}
    Owner <- OwnerOf
    FirstStored <- StoredFirst
    Searches = {"", "x"}
    Finds <- FindsOf
    Columns = {"name"}
    Sources = {"products"}
    PageSize = 1
    ListsOf <- ListsFor
    MarketsOf <- MarketsFor
    Terms = {"", "x"}
    TotalPages = 2
    Jobs = {1, 2}
    MaxPolls = 2
    Texts <- TextsTyped
    LongTexts <- LongOnes
    Trim <- TrimOf
    Options = {o1, o2}
    Label <- LabelOf
    Suggest <- SuggestOf
    Owners = {w1, w2}
    Things = {x1, x2}
    FirstAssigned <- AssignedFirst
    DayBefore <- DaysShown
CHECK_DEADLOCK FALSE
INVARIANTS
    SettledPageIsCurrent
    FlagsTellTheCalls
    SelectionHoldsTogether
    IdMatchesText
    SuggestionsAreNewest
    SavedAsShown
    FormsMirrorTheApi
PROPERTIES
    WritesStayInCompany
    UntouchedSaveIsHarmless
    FinishedExportIsShown
