CONSTANTS
    Key = {"S", "F"}
    MaxLength = 2
    Lower = {"s", "t", "ql"}
    Fold <- Folds
    Files <- TheFiles
    Content <- Contents
    Page <- Pages
    Cap = 1
    UseModuleDirectories = TRUE
    Watermark <- SearchMark
    Absent = Absent
    None = None

SPECIFICATION Spec
INVARIANTS
    TypeOK
    WatermarkNotSearched
    UnderItsHeader
PROPERTIES
    ListsWhatMatches
    ExactListed
    LeadsToItsPage
    EveryIndexArrives
CHECK_DEADLOCK FALSE
