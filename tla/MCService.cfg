\* Every day from 1970-01-01 to 2000-03-01, where an era of 400 years has just
\* ended.  On the day before the last, requests of every kind; on the last one
\* calls on two workspaces, with paths, archives and commands of every shape.
SPECIFICATION Spec
CONSTANTS
    Root <- TheRoot
    Ids = {"w1", "w2"}
    Strangers = {".."}
    Contents = {"x", "shared"}
    Links = {"shared"}
    Points <- ThePoints
    RelPaths <- ThePaths
    Archives <- TheArchives
    Commands <- TheCommands
    Limits <- TheLimits
    Timeouts = {0, 2}
    ShellArgs <- TheShellArgs
    DeliverArgs <- TheDeliverArgs
    Settings <- TheSettings
    MaxI64 = 7
    AskDays = {11016}
    ChangeDays = {11017}
    LastDay = 11017
INVARIANTS
    ServiceTypeOK
    DateRight
    Capped
    RoundTrip
    SchemaAccepted

    
