SPECIFICATION ShellSpec
CONSTANTS
    Runs = {r1}
    Hooks = {"a", "b", "c"}
    Stages = {s1, s2, k1, k2}
    Middlewares = {m1, m2}
    KB = {k1, k2}
    Kind <- HookKind
    MaxAgain = 1
    MaxEdits = 3
SYMMETRY Symmetry
INVARIANTS ShellTypeOK WalksComplete MiddlewareNests
CHECK_DEADLOCK FALSE
