SPECIFICATION FairSpec
CONSTANTS
    w1 = w1
    w2 = w2
    s1 = s1
    s2 = s2
    Worker = {w1, w2}
    Extern = {x}
    Monitor = {y}
    Service = {s1, s2}
    Boot = {s1}
    Mute = {s2}
    Msg = {m1, m2}
    Share <- MCShare
    None = None
INVARIANTS TypeOK RefCount SingleOwner AssertionsHold
PROPERTIES NoHungCaller Reclaim
CHECK_DEADLOCK FALSE
