CONSTANTS
    a = a
    b = b
    Names = {a, b}
    Root = Root
    Strays = {z}
    None = None
    MaxDepth = 2
    Strategies = {"one-for-one", "one-for-all", "rest-for-one"}
    Budgets = {1}
    Slots = {1, 2}
    MaxProcs = 3
SPECIFICATION HalvesSpec
CHECK_DEADLOCK FALSE
INVARIANTS
    TreeIsSound
PROPERTIES
    CrashedComeBack
