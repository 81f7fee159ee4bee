\* The wall clock behind now_ms() is set back while a connect call is in flight.
CONSTANTS
    c1 = c1
    c2 = c2
    r1 = r1
    n1 = n1
    n2 = n2
    Calls <- MC_Calls
    Relays <- MC_Relays
    Nodes <- MC_Nodes
    ChanCap = 1
    MaxTime = 2
    StepBack = TRUE
    W64 = 6
    W32 = 3

SPECIFICATION Spec

\* Every handler returns once its call is answered; the gateway then idles.
CHECK_DEADLOCK FALSE
INVARIANT AfterMsPlausible
