SPECIFICATION Spec
\* the process ends
CHECK_DEADLOCK FALSE
INVARIANTS TypeOK HandlerHasLogger
PROPERTIES SignalEnds JoinReturns
