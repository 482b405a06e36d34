SPECIFICATION MCSpec
CONSTANTS
    ButtonCount = 2
    Debounce = 2
    Timeouts = {0, 1}
    SplashTicks = 0
    Width = 2
    Drawings = {1, 2}
    Inks = {"a"}
    PlayerCount = 2
    StepCount = 2
    Duration = 2
    Animations = {"once", "repeating"}
    Callers = {"caller"}
    MaxCalls = 4
INVARIANTS
    ButtonsSettle
    NoDamageLost
    PlayersAdvance
CHECK_DEADLOCK FALSE
