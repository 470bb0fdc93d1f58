SPECIFICATION FairSpec
CONSTANTS
    Models = {1, 2}
    DEFAULT_MODEL = 2
    Tiers <- TwoTiers
    Opens <- DevOpensCoding
    Groups = {"dev"}
    Policies <- SomePolicies
    Registries <- SomeRegistries
    MaxChanges = 2
    None = None
    MaxMessages = 3
    MaxHistory = 8
    MaxTotal = 22
    MaxDocuments = 10
    SystemChars = 2
    MarkerChars = 3
    DocMarkerChars = 2
    LabelChars = 5
    FrameChars = 3
    Inputs <- AllInputs
    Misreadings <- SomeMisreadings
INVARIANTS
    WithinBudget
    NewestHistory
    BudgetsAgree
    HistoryYields
    DocumentsKept
PROPERTIES
    WithinGroups
    CatalogSettles
CHECK_DEADLOCK FALSE
