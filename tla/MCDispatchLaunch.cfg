SPECIFICATION Spec
CONSTANTS
    w1 = w1
    w2 = w2
    s1 = s1
    s2 = s2
    Worker = {w1, w2}
    Extern = {x}
    Monitor = {}
    Service = {s1, s2}
    Boot = {s1}
    Mute = {}
    Msg = {m1,m2}
    Share <- MCShare
    None = None
INVARIANTS LaunchedContextLive
CHECK_DEADLOCK FALSE
