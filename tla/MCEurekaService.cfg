SPECIFICATION FairSpec
CONSTANTS
    Co = {c, d}
    App = {a, b}
    Remote = a
    Instance = {i}
    Updater = {u, v}
    Client = {x, y}
    Caller = {k}
    Own = own
    MaxStalled = 1
    None = None
INVARIANTS OneChain InStep NoneLost
PROPERTIES Beats Served
CHECK_DEADLOCK FALSE
