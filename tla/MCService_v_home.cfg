\* Calls on two workspaces, on one day.
SPECIFICATION Spec
CONSTANTS
    Root <- TheRoot
    Ids = {"w1", "w2"}
    Strangers = {".."}
    Contents = {"x", "shared"}
    Links = {"shared"}
    Points <- ThePoints
    RelPaths <- ThePaths
    Archives <- TheArchives
    Commands <- TheCommands
    Limits <- TheLimits
    Timeouts = {0, 2}
    ShellArgs <- TheShellArgs
    DeliverArgs <- TheDeliverArgs
    Settings <- TheSettings
    MaxI64 = 7
    AskDays = {}
    ChangeDays = {0}
    LastDay = 0
INVARIANTS
    HomeStaysDir
