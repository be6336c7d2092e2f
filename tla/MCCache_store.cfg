SPECIFICATION StoreSpec
CONSTANTS
    Reader = {"webhook", "delivery", "sync"}
    NoReader = NoReader
    Writer = {"first", "second"}
    Initial = "initial"
    NoValue = NoValue
    Proc = {"web", "imap"}
    Home = "web"
    ProcOf <- Runs
    MaxReading = 2
    Ttl = {2}
    Modes = {"memory", "redis"}
    Kinds = {"preference", "setting"}
    Window = 3
    Limits = {1, 2}
    MaxEvictions = 1
INVARIANTS
    TypesOK
    SeesAnsweredChange
    WindowBound
PROPERTIES
    ChangeSeen
    AskingIsServed
