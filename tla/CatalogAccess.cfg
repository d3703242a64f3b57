SPECIFICATION Spec
CONSTANTS
    film = film
    show = show
    season = season
    episode = episode
    drama = drama
    other = other
    Libraries = {1, 2}
    OtherIDs = {other}
    Items = {film, show}
    Seasons = {season}
    Episodes = {episode}
    SeriesOf <- MCSeriesOf
    SeasonOf <- MCSeasonOf
    Genres = {drama}
    Years = {1}
    Requests = {r1}
    Databases <- MCDatabases
    Names = {family, friends}
    Slugs = {s1, s2}
    NoName = none
    NoSlug = none
    Floors <- MCFloors
    TokenScopes <- MCTokenScopes
    TokenTypes <- MCTokenTypes
    AskScopes <- MCAskScopes
    AskTypes <- MCAskTypes
    Filters <- MCFilters
    SourceItems = {book}
    MaxSecret = 2
    MaxTokens = 1
INVARIANTS TypeOK  ListedOpens FiltersLeadSomewhere
PROPERTIES LinksKeepTheirPage
