SPECIFICATION Spec
CONSTANTS
    h1 = h1
    h2 = h2
    Names = {"root", "ann"}
    Passwords = {"p1", "p2"}
    Values = {"v1"}
    NoValue = NoValue
    Configs <- RenamedAdmin
    Handlers = {h1, h2}
    Forms = {"body"}
    Ops = {"createUser", "resetPassword", "deleteUser", "changePassword", "createKey"}
    NoRow = NoRow
    MaxUsers = 2
    MaxKeys = 1
    MaxFaults = 1
INVARIANT TypeOK
INVARIANT AdminExists
INVARIANT OwnersExist
PROPERTY AdminRowFixed
CHECK_DEADLOCK FALSE
