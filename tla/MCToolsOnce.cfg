\* A command that the fallback starts a second time.
SPECIFICATION FocusSpec
CONSTANTS
    removal = removal
    listing = listing
    building = building
    s1 = s1
    s2 = s2
    tool = tool
    NoServer = NoServer
    Command = {removal, listing, building}
    AlwaysDeny = {removal}
    ReadOnly = {removal, listing}
    Server = {s1, s2}
    MCPTool = {tool}
    PexpectAvailable = TRUE
    MaxCommands = 2
    MaxCalls = 3
    MaxProcesses = 2
    MaxNotices = 1
INVARIANTS
    FallbackMeansNoPexpect
CHECK_DEADLOCK FALSE
