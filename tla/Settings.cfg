\* a database of any release; two changes of any kind and a login, at once or one after the other; then
\* nothing more comes
SPECIFICATION LifetimeSpec
CONSTANTS
    Absent = Absent
    Bad = Bad
    None = None
    r1 = r1
    r2 = r2
    l1 = l1
    l2 = l2
    Requests = {r1, r2}
    Logins = {l1}
    Bodies <- One
    AuthBodies <- Auths
    Env <- MCEnv
    EnvAuth <- MCEnvAuth
    EnvSecret = 0
    MaxRequests = 2
    MaxRestarts = 1
    MaxCrashes = 1
INVARIANTS ProviderCurrent SavedSurvives SessionsSurvive SchemaReady
PROPERTIES ChangesEnd StartsUp
CHECK_DEADLOCK FALSE
