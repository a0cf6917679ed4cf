SPECIFICATION Spec
CONSTANTS
    Tasks = {t1, t2}
    Query = {"on", "on2", "off", "list"}
    Template = {"on", "off", "list"}
    Shape = {"switch", "list"}
    Intent = {"a", "b"}
    ShapeOf <- Shapes
    TemplateOf <- Serves
    Score <- Scores
    Threshold = 6
    MaxSize = 1
    PromoteAfter = 2
    EvictAfter = 2
    AutoReuse = TRUE
    AutoPromote = TRUE
    AnchorCap = 2
    MaxRequests = 5
SYMMETRY Symmetry
INVARIANTS TypeOK StoreSound FastPathSound
CHECK_DEADLOCK FALSE
