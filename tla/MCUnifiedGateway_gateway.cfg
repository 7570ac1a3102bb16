\* Two requests of one conversation, a ladder of three rungs, one metered.
SPECIFICATION Spec
CONSTANTS
    r1 = r1
    r2 = r2
    r3 = r3
    claude = claude
    codex = codex
    deepseek = deepseek
    k1 = k1
    k2 = k2
    Requests <- MCRequests
    Routes <- MCRoutes
    Codex = codex
    Configured <- MCRoutes
    Metered = {deepseek}
    AllowMetered = FALSE
    Ladder <- MCLadder
    RouteOf <- MCRouteOf
    Want <- MCWant
    Conversation <- MCConversation
    Limit = 2
    MaxConversations = 1
    None = None
    Absent = Absent
INVARIANTS TypeOK OneResponse SlotsExact ClosedAtShutdown MeteredByConsent
PROPERTIES RequestsEnd ShutdownReturns
CHECK_DEADLOCK FALSE
