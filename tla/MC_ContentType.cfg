\* Every Content-Type of up to four tokens; a request ends forwarded or failed, so the run stops there.
CONSTANTS
    MaxHeaderLen = 4
    b1 = b1
    none_header = none_header
    Bodies <- MC_Bodies
    NoHeader <- none_header
SPECIFICATION Spec
CHECK_DEADLOCK FALSE
INVARIANT TypeOK
INVARIANT ForwardedFaithfully
