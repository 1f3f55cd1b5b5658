CONSTANTS
    m1 = m1
    m2 = m2
    x = x
    y = y
    Mapper = {m1, m2}
    Name = {x, y}
    File <- SmallFiles
    NoMapper = NoMapper
    Nothing = Nothing
    Ambiguous = Ambiguous
    MaxPending = 3

SPECIFICATION Spec
INVARIANTS
    TypeOK
    ShortNames
    KnownIsLoaded
    BindingsRight
PROPERTIES
    NothingReplaced
    KnownForGood
    RetryIsThorough
