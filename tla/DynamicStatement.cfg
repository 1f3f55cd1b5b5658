CONSTANTS
    update = update
    delByIds = delByIds
    byCondition = byCondition
    orderBy = orderBy
    rows = rows
    gaps = gaps
    shadow = shadow
    hidden = hidden
    keyed = keyed
    Statement = {update, delByIds, byCondition, orderBy, rows, gaps, shadow, hidden, keyed}
    Overwriting <- Before
    Template <- Templates
    Rendering <- Rendered
    Arguments <- Args
    Selects = {byCondition, orderBy, gaps, hidden}
    KeyWriters = {keyed}
    ResultMaps <- Maps
    Page <- Pages
    Outcome <- Outcomes
    Count = Count
    Nothing = Nothing
    MaxCalls = 3

SPECIFICATION Spec
INVARIANTS
    TypeOK
    ValuesInPlace
    SentAsWritten
    RefusedAsWritten
    OnlyUnsentStaysOpen
    ReportOwn
    PagesRight
PROPERTIES
    EveryCallEnds
