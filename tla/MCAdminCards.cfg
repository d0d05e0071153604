SPECIFICATION AdminSpec
CONSTANTS
    AdminReq = {r1, r2}
    Setting = {"x", "y"}
    AuthSetting = {"public", "open", "protected"}
    Cards = {"none", "a"}
    EmptyCards = "none"
    MaxPuts = 3
    MaxCrashes = 1
INVARIANT CardsComeFromRuntime
CHECK_DEADLOCK FALSE
