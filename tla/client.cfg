CONSTANTS
    g1 = g1  g2 = g2  g3 = g3  g4 = g4
    gui = gui  cli = cli
    Gateways = {g1, g2, g3, g4}
    Usable = {g1, g2, g3}
    Frontends = {gui, cli}
    Gui = gui
    Plans <- Regrouped
    None = None
    ReportsHandshakes = TRUE
    MaxOps = 2
    MaxEvents = 2
SPECIFICATION MCSpec
CHECK_DEADLOCK FALSE
INVARIANTS DesktopTypeOK SkipsOnlyFailed ConnectedAreUp NothingForgotten
PROPERTIES OperationEnds ButtonsReturn StatusCatchesUp
