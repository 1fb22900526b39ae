SPECIFICATION PageSpec
CONSTANTS
    t1 = t1
    t2 = t2
    t3 = t3
    Tabs = {t1, t2, t3}
    firstTab = t1
    PanelHeight = 6
    Steps = 2
    MaxCalls = 4
    a = a
    b = b
    Items = {a, b}
    y = y
    z = z
    Zones = {y, z}
    MaxPresses = 3
    MaxEffects = 2
    columnCount = 3
    Unsortable = {2}
    p1 = p1
    p2 = p2
    Pages = {p1, p2}
    SameNames = FALSE
    MaxJoins = 3
    MaxLeaves = 1
SYMMETRY Symmetric
INVARIANTS AccordionSettles SelectionAgrees DragEnds MarkIsOrder NobodyMissing
PROPERTIES StaysUntilLeave
CHECK_DEADLOCK FALSE
