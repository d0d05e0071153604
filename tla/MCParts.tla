------------------------------- MODULE MCParts ------------------------------
(* Nine components that share no state and no call: the market's replay     *)
(* window and version order, the session cache, the health limiter, the log *)
(* ring, the rotating log file, the admin settings, the ping cadence and    *)
(* recipes.  A behaviour picks one of them at the start and moves only it:  *)
(* the steps of the others commute with its own and no property reads two of*)
(* them, so interleaving them would show nothing more.                      *)
EXTENDS MarketAuth, SessionCache, HealthLimiter, LogRing, LogRotate,
        AdminConfig, Versions, Cadence, MCRecipe

PartsByText == <<"", "0", "00", "10", "1a", "2">>
PartNumbers == [p \in {"0", "00", "2", "10"} |->
                   CASE p \in {"0", "00"} -> 0 [] p = "2" -> 2 [] p = "10" -> 10]

VARIABLE focus

partsVars == <<focus, vars, sessionVars, limiterVars, ringVars, rotateVars,
               adminVars, versionsVars, cadenceVars, recipeVars>>

PartsInit ==
    /\ focus \in {"auth", "session", "limiter", "ring", "rotate", "admin",
                  "versions", "cadence", "recipe"}
    \* The value a resting component starts with makes no difference.
    /\ focus # "cadence" => setting = 0 /\ ticker = CleanupEvery
    /\ focus # "recipe" => source = [f \in File |-> <<>>] /\ keepGoing = FALSE
    /\ RecipeInit /\ Init /\ SessionInit /\ LimiterInit /\ RingInit /\ RotateInit
    /\ AdminInit /\ (focus # "admin" => mem.setting = CHOOSE s \in Setting : TRUE)
    /\ VersionsInit /\ CadenceInit

PartsNext ==
    \/ /\ focus = "auth" /\ Next
       /\ UNCHANGED <<focus, sessionVars, limiterVars, ringVars, rotateVars,
                      adminVars, versionsVars, cadenceVars, recipeVars>>
    \/ /\ focus = "session" /\ SessionNext
       /\ UNCHANGED <<focus, vars, limiterVars, ringVars, rotateVars,
                      adminVars, versionsVars, cadenceVars, recipeVars>>
    \/ /\ focus = "limiter" /\ LimiterNext
       /\ UNCHANGED <<focus, vars, sessionVars, ringVars, rotateVars,
                      adminVars, versionsVars, cadenceVars, recipeVars>>
    \/ /\ focus = "ring" /\ RingNext
       /\ UNCHANGED <<focus, vars, sessionVars, limiterVars, rotateVars,
                      adminVars, versionsVars, cadenceVars, recipeVars>>
    \/ /\ focus = "rotate" /\ RotateNext
       /\ UNCHANGED <<focus, vars, sessionVars, limiterVars, ringVars,
                      adminVars, versionsVars, cadenceVars, recipeVars>>
    \/ /\ focus = "admin" /\ AdminNext
       /\ UNCHANGED <<focus, vars, sessionVars, limiterVars, ringVars,
                      rotateVars, versionsVars, cadenceVars, recipeVars>>
    \/ /\ focus = "versions" /\ VersionsNext
       /\ UNCHANGED <<focus, vars, sessionVars, limiterVars, ringVars,
                      rotateVars, adminVars, cadenceVars, recipeVars>>
    \/ /\ focus = "cadence" /\ CadenceNext
       /\ UNCHANGED <<focus, vars, sessionVars, limiterVars, ringVars,
                      rotateVars, adminVars, versionsVars, recipeVars>>
    \/ /\ focus = "recipe" /\ RecipeNext
       /\ UNCHANGED <<focus, vars, sessionVars, limiterVars, ringVars,
                      rotateVars, adminVars, versionsVars, cadenceVars>>

PartsSpec == PartsInit /\ [][PartsNext]_partsVars
=============================================================================
