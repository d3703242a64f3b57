SPECIFICATION Spec
CONSTANTS
    Home = home
    Queries = {home, other}
    Route <- MCRoute
    Scope <- MCScope
    Plain = "plain"
    NoScope = none
    Items = {1, 2, 3, 4, 5}
    Results <- MCResults
    FirstResult <- MCFirstResult
    PageSize = 2
    BootSize = 3
    MaxOffset = 3
    MaxChanges = 1
    MaxClicks = 1
    MaxEdits = 0
CHECK_DEADLOCK FALSE
INVARIANTS NoPageOfThePast
