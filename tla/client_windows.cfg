CONSTANTS
    g1 = g1  g2 = g2  g3 = g3  g4 = g4
    gui = gui  cli = cli
    Gateways = {g1, g2, g3, g4}
    Usable = {g1, g2, g3}
    Frontends = {gui, cli}
    Gui = gui
    Plans <- Regrouped
    None = None
    ReportsHandshakes = FALSE
    MaxOps = 2
    MaxEvents = 0
SPECIFICATION DesktopSpec
CHECK_DEADLOCK FALSE
INVARIANT SkipsOnlyFailed
