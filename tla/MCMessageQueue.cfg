SPECIFICATION Spec
CONSTANTS
    Msg = {m1, m2}
    DEFAULT_QUEUE_SIZE = 2
    MQ_OVERLOAD = 1
    MaxLength = 6
INVARIANTS OverloadMark
PROPERTIES FifoSpec
CHECK_DEADLOCK FALSE
