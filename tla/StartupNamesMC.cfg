CONSTANTS
    l1 = l1
    l2 = l2
    main = main
    other = other
    Loader = {l1}
    GameThread = {main}
    Main = main
    NoThread = NoThread
    Game = {"bl4"}
    Missing = {"nothing"}
    FirstStage = {"packed"}
SPECIFICATION Spec
INVARIANT NamesAwaited
CHECK_DEADLOCK FALSE
