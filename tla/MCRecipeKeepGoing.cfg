SPECIFICATION RecipeSpec
CONSTANTS
    Top = "top.ian"
    Inc = "inc.ian"
    File = {"top.ian", "inc.ian"}
    Sources <- MCSources
    MaxPlain = 7
    MaxTop = 4
    MaxInc = 2
INVARIANT FirstMatchRunsAlways
CHECK_DEADLOCK FALSE
