SPECIFICATION Spec
CONSTANTS
    h1 = h1
    Names = {"root", "ann"}
    Passwords = {"p1"}
    Values = {"vi", "v1"}
    NoValue = NoValue
    Configs <- OneConfig
    Handlers = {h1}
    Forms = {"query"}
    Ops = {"createKey", "setActive"}
    NoRow = NoRow
    MaxUsers = 2
    MaxKeys = 2
    MaxFaults = 1
PROPERTY ButtonTakesEffect
CHECK_DEADLOCK FALSE
