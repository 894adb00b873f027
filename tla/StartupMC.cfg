CONSTANTS
    l1 = l1
    l2 = l2
    main = main
    other = other
    Loader = {l1, l2}
    GameThread = {main, other}
    Main = main
    NoThread = NoThread
    Game = {"bl1", "bl1e", "bl2", "bl3", "bl4"}
    Missing = {"nothing", "entry", "Editor", "ProcessEvent", "GObjects", "GMalloc", "FName::Init"}
    FirstStage = {"packed", "unpacked", "objects"}
SPECIFICATION FairSpec
INVARIANTS
    CallsSeeWholeSdk
    SearchesUnpacked
PROPERTIES
    StartupEnds
CHECK_DEADLOCK FALSE
