SPECIFICATION FairSpec
CONSTANTS
    Thread = {t1, t2, t3}
INVARIANTS Exclusion
PROPERTIES WriterEnters
