SPECIFICATION Spec
CONSTANTS
    h1 = h1
    h2 = h2
    Names = {"root", "ann"}
    Passwords = {"p1"}
    Values = {"vi", "v1"}
    NoValue = NoValue
    Configs <- MovedKey
    Handlers = {h1, h2}
    Forms = {"body"}
    Ops = {"createKey", "deleteKey", "setActive", "settings"}
    NoRow = NoRow
    MaxUsers = 2
    MaxKeys = 2
    MaxFaults = 3
INVARIANT InternalKeyKept
PROPERTY SettingsPageRepairs
PROPERTY NoToggleLost
CHECK_DEADLOCK FALSE
