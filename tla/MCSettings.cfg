CONSTANTS
    Handlers = {"h1", "h2"}
    Endpoints <- MCEndpoints
    Patches <- MCPatches
    Protocols = {"inmemory"}
    Queries = {"q1"}
    Defaults <- MCDefaults
    NoHandler = NoHandler
SPECIFICATION Spec
INVARIANTS SettingsPersisted ParamsPersisted NoLostUpdate Restartable
CHECK_DEADLOCK FALSE
