CONSTANTS
    l1 = l1
    l2 = l2
    main = main
    other = other
    Loader = {l1}
    GameThread = {main}
    Main = main
    NoThread = NoThread
    Game = {"bl1e"}
    Missing = {"nothing"}
    FirstStage = {"packed"}
SPECIFICATION Spec
INVARIANT GlobalsNotUsedEarly
CHECK_DEADLOCK FALSE
