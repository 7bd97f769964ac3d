\* Every file of up to three routes out of these, and every request to each.
SPECIFICATION RouterSpec
CONSTANTS
    RouteConfigs <- MCRouteConfigs
    BadMethods <- MCBadMethods
    Methods = {"GET", "POST"}
    Paths <- MCPaths
    Default = Default
    Refusal = Refusal
    None = None
    MaxRoutes = 3
INVARIANTS
    RouterTypeOK
    MostSpecificWins
    RestrictionHolds
CHECK_DEADLOCK FALSE
