CONSTANT Signals = {s1}

SPECIFICATION FairSpec
PROPERTY HandlerReturns
CHECK_DEADLOCK FALSE
