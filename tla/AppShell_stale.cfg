SPECIFICATION Spec
CONSTANTS
    Songs = {"s1", "s2", "s3", "s4"}
    Home <- MCHome
    Newcomers = {"s4"}
    Broken = {"s3"}
    Matching = {"s1", "s3", "s4"}
    Duration <- MCDuration
    Routes = {"/", "/this", "/ext", "/following", "/new", "/rooms"}
    Root = "/"
    PageRoute = "/this"
    ExtRoute = "/ext"
    FollowRoute = "/following"
    NewRoute = "/new"
    People <- MCPeople
    MaxTrail = 4
    Scenes <- MCScenes
    Codes = {"a", "b", "x"}
    Passwords = {"", "pa", "pb", "new", "old"}
    Typing = {"new"}
    Saved <- MCSaved
    Seeds <- MCSeeds
    RoomsRoute = "/rooms"
    MaxCalls = 2
    Tracks = {"song1", "song2"}
    PageLinks = {"list"}
    Leads <- MCLeads
    Edited = {"e1", "e2"}
    Current = "e1"
    Videos = {"v1", "v2"}
    LinkedFirst <- MCLinkedFirst
    MaxResolves = 2
INVARIANT StaleKeepsSongs
CHECK_DEADLOCK FALSE
